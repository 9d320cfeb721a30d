---------------------------- MODULE TelnetPayload ---------------------------
(***************************************************************************)
(* What libtelnet.c makes of the payload of a subnegotiation it knows:     *)
(* _environ_telnet, _mssp_telnet, _zmp_telnet and _ttype_telnet split it   *)
(* into strings and raise an event of their own.  A payload they reject    *)
(* raises a warning only.  Allocation does not fail.                       *)
(***************************************************************************)
EXTENDS Naturals, Sequences

TTYPE       == 24
ENVIRON     == 36
NEW_ENVIRON == 39
MSSP        == 70
ZMP         == 93

(* TELNET_ENVIRON_ and TELNET_MSSP_ constants *)
VAR     == 0
VALUE   == 1
ESC     == 2
USERVAR == 3
MSSP_VAR == 1
MSSP_VAL == 2

Field(type, var, value) == [type |-> type, var |-> var, value |-> value]

(* A char pointer that was never set. *)
Null == <<"NULL">>

(* Indices of a sequence that satisfy a test, in order. *)
Where(s, Test(_)) == SelectSeq([k \in 1..Len(s) |-> k], Test)

(* The bytes up to the first NUL, as the application reads them. *)
CString(s) ==
    LET nul == Where(s, LAMBDA k : s[k] = 0)
    IN  IF nul = <<>> THEN s ELSE SubSeq(s, 1, nul[1] - 1)

-----------------------------------------------------------------------------
(* _environ_telnet *)

(* It answers 1, having raised its event, for a command alone, or for one
   with VAR or USERVAR next and no ESC last. *)
EnvironAccepted(body) ==
    /\ body # <<>>
    /\ body[1] \in {0, 1, 2}
    /\ \/ Len(body) = 1
       \/ body[2] \in {VAR, USERVAR} /\ body[Len(body)] # ESC

RECURSIVE Unescaped(_)

(* Each byte, with whether an ESC before it was taken off. *)
Unescaped(s) ==
    IF s = <<>> THEN <<>>
    ELSE IF s[1] = ESC
         THEN <<<<s[2], TRUE>>>> \o Unescaped(SubSeq(s, 3, Len(s)))
    ELSE <<<<s[1], FALSE>>>> \o Unescaped(Tail(s))

Bytes(tokens) == [k \in 1..Len(tokens) |-> tokens[k][1]]

(* A variable runs from VAR or USERVAR to the next one; its value begins
   after the first VALUE.  Escaped bytes are none of these. *)
EnvironFields(body) ==
    LET s == Unescaped(Tail(body))
        at == Where(s, LAMBDA k : s[k] \in {<<VAR, FALSE>>, <<USERVAR, FALSE>>})
        one(n) ==
            LET part == SubSeq(s, at[n] + 1,
                               IF n = Len(at) THEN Len(s) ELSE at[n + 1] - 1)
                sep == Where(part, LAMBDA k : part[k] = <<VALUE, FALSE>>)
            IN  IF sep = <<>> THEN Field(s[at[n]][1], CString(Bytes(part)), <<>>)
                ELSE Field(s[at[n]][1],
                           CString(Bytes(SubSeq(part, 1, sep[1] - 1))),
                           CString(Bytes(SubSeq(part, sep[1] + 1, Len(part)))))
    IN  [n \in 1..Len(at) |-> one(n)]

-----------------------------------------------------------------------------
(* _mssp_telnet: a value belongs to the last variable before it.  Room is
   made for every VAL, but one that is the last byte is never stored. *)
MsspAccepted(body) == body # <<>> /\ body[1] = MSSP_VAR

MsspFields(body) ==
    LET at == Where(body, LAMBDA k : body[k] \in {MSSP_VAR, MSSP_VAL})
        part(n) == CString(SubSeq(body, at[n] + 1,
                                  IF n = Len(at) THEN Len(body) ELSE at[n + 1] - 1))
        vals == Where(at, LAMBDA n : body[at[n]] = MSSP_VAL)
        var(n) == CHOOSE k \in 1..n :
                      /\ body[at[k]] = MSSP_VAR
                      /\ \A j \in k + 1..n : body[at[j]] # MSSP_VAR
    IN  [i \in 1..Len(vals) |->
            IF at[vals[i]] = Len(body) THEN Field(0, Null, Null)
            ELSE Field(0, part(var(vals[i])), part(vals[i]))]

-----------------------------------------------------------------------------
(* _zmp_telnet: strings that each end with NUL. *)
ZmpAccepted(body) == body # <<>> /\ body[Len(body)] = 0

ZmpArgs(body) ==
    LET nul == Where(body, LAMBDA k : body[k] = 0)
    IN  [n \in 1..Len(nul) |->
            SubSeq(body, (IF n = 1 THEN 0 ELSE nul[n - 1]) + 1, nul[n] - 1)]

(* _ttype_telnet: IS and a name, or SEND. *)
TtypeAccepted(body) == body # <<>> /\ body[1] \in {0, 1}

TtypeName(body) == IF body[1] = 0 THEN CString(Tail(body)) ELSE Null

-----------------------------------------------------------------------------
(* The events, and the one a payload raises after the SUBNEGOTIATION event. *)
Environ(cmd, fields) == [type |-> "ENVIRON", cmd |-> cmd, fields |-> fields]
Mssp(fields)         == [type |-> "MSSP", fields |-> fields]
Zmp(args)            == [type |-> "ZMP", args |-> args]
Ttype(cmd, name)     == [type |-> "TTYPE", cmd |-> cmd, name |-> name]

PayloadEvents(o, body) ==
    CASE o \in {ENVIRON, NEW_ENVIRON} /\ EnvironAccepted(body) ->
            <<Environ(body[1], EnvironFields(body))>>
      [] o = MSSP /\ MsspAccepted(body)   -> <<Mssp(MsspFields(body))>>
      [] o = ZMP /\ ZmpAccepted(body)     -> <<Zmp(ZmpArgs(body))>>
      [] o = TTYPE /\ TtypeAccepted(body) -> <<Ttype(body[1], TtypeName(body))>>
      [] OTHER                            -> <<>>
=============================================================================
