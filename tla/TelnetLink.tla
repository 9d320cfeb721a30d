----------------------------- MODULE TelnetLink -----------------------------
(***************************************************************************)
(* One direction of a connection between two libtelnet applications: the   *)
(* sending functions of libtelnet.c at one end, a byte stream that may be  *)
(* delivered in chunks of any size, and telnet_recv at the other end.      *)
(*                                                                         *)
(* A call of the sender is a record: the function, the option or command   *)
(* it names, and its bytes.  Meaning(c) is what the receiver should be     *)
(* told of it, Encoded(c) the bytes the function puts on the wire.         *)
(***************************************************************************)
EXTENDS TelnetParser

CONSTANTS
    Calls,          \* the calls the sending application makes
    MaxSaid,        \* bound: items said
    MaxChunk        \* bound: bytes per recv()

VARIABLES
    said,           \* every item the sender has said, in order
    wire,           \* bytes sent and not yet received
    parser,         \* the receiver's parser
    heard           \* every item the receiver's application was told

vars == <<said, wire, parser, heard>>

CR == 13
LF == 10

-----------------------------------------------------------------------------
Concat(ss) ==
    LET upTo[k \in 0..Len(ss)] == IF k = 0 THEN <<>> ELSE upTo[k - 1] \o ss[k]
    IN  upTo[Len(ss)]

Each(f(_), s) == Concat([k \in 1..Len(s) |-> f(s[k])])

(* One item per byte of data and per other event; a subnegotiation libtelnet
   takes apart itself counts by its parts. *)
ItemsOf(e) ==
    CASE e.type = "DATA" -> [k \in 1..Len(e.bytes) |-> Data(<<e.bytes[k]>>)]
      [] e.type = "SUBNEGOTIATION" /\ e.bytes[1] \in {TTYPE, NEW_ENVIRON, MSSP, ZMP} -> <<>>
      [] OTHER -> <<e>>

(* telnet_iac: no escaping. *)
TelnetIac(cmd) == <<IAC, cmd>>

EscapedByte(b) == IF b = IAC THEN TelnetIac(IAC) ELSE <<b>>

\* Mutant: bytes go out as they are.
SentRaw(bytes) == bytes

(* telnet_send: a byte 255 is doubled. *)
TelnetSend(bytes) == Each(EscapedByte, bytes)

(* telnet_vprintf: \r becomes CR NUL, \n becomes CR LF. *)
Translated(b) == CASE b = CR -> <<CR, 0>> [] b = LF -> <<CR, LF>> [] OTHER -> <<b>>
TelnetPrintf(bytes) ==
    Each(LAMBDA b : IF b = IAC THEN TelnetIac(IAC) ELSE Translated(b), bytes)

(* telnet_begin_sb, telnet_send, telnet_finish_sb. *)
BeginSb(o) == <<IAC, SB, o>>
FinishSb == TelnetIac(SE)
Subnegotiation(o, bytes) == BeginSb(o) \o TelnetSend(bytes) \o FinishSb

\* Mutant: telnet_finish_sb is left out.
TtypeIsUnfinished(bytes) == BeginSb(TTYPE) \o <<0>> \o bytes

(* telnet_ttype_is: the name goes out as it is. *)
TtypeIs(bytes) == BeginSb(TTYPE) \o <<0>> \o bytes \o FinishSb

(* telnet_send_zmp: each argument with its terminating NUL. *)
ZmpArg(arg) == TelnetSend(Append(arg, 0))
SendZmp(args) == BeginSb(ZMP) \o Each(ZmpArg, args) \o FinishSb

(* telnet_ttype_send *)
TtypeSend == BeginSb(TTYPE) \o <<1>> \o FinishSb

(* telnet_newenviron_value: VAR or USERVAR with a name, VALUE with a value. *)
NewenvironValue(type, string) == TelnetSend(<<type>>) \o TelnetSend(string)

(* It does not mark bytes that are VAR, VALUE, ESC or USERVAR: the calling
   application puts ESC before them. *)
Marked(string) ==
    Each(LAMBDA b : IF b \in VAR..USERVAR THEN <<ESC, b>> ELSE <<b>>, string)

EnvironVar(v) ==
    NewenvironValue(v.type, Marked(v.var))
        \o (IF v.value = <<>> THEN <<>> ELSE NewenvironValue(VALUE, Marked(v.value)))

(* telnet_begin_newenviron, the variables, telnet_finish_newenviron. *)
SendEnviron(cmd, list) ==
    BeginSb(NEW_ENVIRON) \o TelnetSend(<<cmd>>) \o Each(EnvironVar, list) \o FinishSb

(* libtelnet has no function for MSSP: the application makes the payload, of
   variables that may have no value or several. *)
MsspVar(v) ==
    <<MSSP_VAR>> \o v.var \o Each(LAMBDA value : <<MSSP_VAL>> \o value, v.values)

(* The receiver is told of each value with the name of its variable. *)
MsspValues(v) == [k \in 1..Len(v.values) |-> Field(0, v.var, v.values[k])]

-----------------------------------------------------------------------------
Encoded(c) ==
    CASE c.fn = "send"           -> TelnetSend(c.bytes)
      [] c.fn = "printf"         -> TelnetPrintf(c.bytes)
      [] c.fn = "iac"            -> TelnetIac(c.cmd)
      [] c.fn = "negotiate"      -> TelnetIac(c.cmd) \o <<c.opt>>
      [] c.fn = "subnegotiation" -> Subnegotiation(c.opt, c.bytes)
      [] c.fn = "ttype_is"       -> TtypeIs(c.bytes)
      [] c.fn = "ttype_send"     -> TtypeSend
      [] c.fn = "zmp"            -> SendZmp(c.args)
      [] c.fn = "newenviron"     -> SendEnviron(c.cmd, c.list)
      [] c.fn = "mssp"           -> Subnegotiation(MSSP, Each(MsspVar, c.list))

Meaning(c) ==
    CASE c.fn = "send"           -> ItemsOf(Data(c.bytes))
      [] c.fn = "printf"         -> ItemsOf(Data(Each(Translated, c.bytes)))
      [] c.fn = "iac"            -> <<Command(c.cmd)>>
      [] c.fn = "negotiate"      -> <<Option(c.cmd, c.opt)>>
      [] c.fn = "subnegotiation" -> <<Sub(c.opt, c.bytes)>>
      [] c.fn = "ttype_is"       -> <<Ttype(0, c.bytes)>>
      [] c.fn = "ttype_send"     -> <<Ttype(1, Null)>>
      [] c.fn = "zmp"            -> <<Zmp(c.args)>>
      [] c.fn = "newenviron"     -> <<Environ(c.cmd, c.list)>>
      [] c.fn = "mssp"           -> <<Mssp(Each(MsspValues, c.list))>>

-----------------------------------------------------------------------------
Init ==
    /\ said = <<>>
    /\ wire = <<>>
    /\ parser = Fresh
    /\ heard = <<>>

(* One call of the sending application. *)
Send(c) ==
    /\ Len(said) + Len(Meaning(c)) <= MaxSaid
    /\ said' = said \o Meaning(c)
    /\ wire' = wire \o Encoded(c)
    /\ UNCHANGED <<parser, heard>>

(* recv() returns the next n bytes and telnet_recv is called with them. *)
Recv(n) ==
    /\ n <= Len(wire)
    /\ \E t \in {Process(parser, SubSeq(wire, 1, n))} :
          /\ parser' = [t EXCEPT !.ev = <<>>]
          /\ heard' = heard \o Each(ItemsOf, t.ev)
    /\ wire' = SubSeq(wire, n + 1, Len(wire))
    /\ UNCHANGED said

Receive == \E n \in 1..MaxChunk : Recv(n)

Next == (\E c \in Calls : Send(c)) \/ Receive

(* The receiver's poll loop calls recv() as long as there are bytes. *)
Spec == Init /\ [][Next]_vars /\ WF_vars(Receive)

-----------------------------------------------------------------------------
(* With nothing left on the wire the receiver has heard all that was said and
   its parser is between two items: no byte of a call stays inside it. *)
NothingHeldBack == wire = <<>> => parser.state = "DATA" /\ heard = said

(* The pair of ends implements a queue of items: what one application said
   with the sending functions of libtelnet is what the other is told by
   telnet_recv, whatever the bytes of its data and however recv() cuts the
   stream. *)
Channel == INSTANCE EventChannel
    WITH queue <- SubSeq(said, Len(heard) + 1, Len(said)), heard <- heard
ImplementsChannel == Channel!Spec

(* Everything said is heard in the end. *)
EverythingHeard == []<>(heard = said)
=============================================================================
