------------------------------ MODULE Rfc1143 ------------------------------
(***************************************************************************)
(* Option negotiation of libtelnet (libtelnet.c): the RFC1143 "Q method"   *)
(* run by the telnet_t of each end of one TELNET connection.  An end keeps *)
(* for every option the state of the option on its own side (us) and on    *)
(* the far side (him).  The application asks for a change through          *)
(* telnet_negotiate; a command that arrives goes through _negotiate, which *)
(* may answer and may raise an event.  The connection is a TCP stream: one *)
(* FIFO queue of commands towards each end.                                *)
(***************************************************************************)
EXTENDS Naturals, Sequences

CONSTANTS
    Opt,        \* the options (telopt bytes) the two ends talk about
    UsTable,    \* UsTable[e]: options with us = TELNET_WILL in e's telopts
    HimTable,   \* HimTable[e]: options with him = TELNET_DO in e's telopts
    Requests    \* Requests[e]: commands e's program gives telnet_negotiate

End == {"client", "server"}
Far(e) == IF e = "client" THEN "server" ELSE "client"

Cmd == {"WILL", "WONT", "DO", "DONT"}
None == "none"

ASSUME TablesAssumption ==
    /\ UsTable \in [End -> SUBSET Opt]
    /\ HimTable \in [End -> SUBSET Opt]
ASSUME RequestsAssumption == Requests \in [End -> SUBSET Cmd]

QState == {"NO", "YES", "WANTNO", "WANTYES", "WANTNO_OP", "WANTYES_OP"}
Message == [cmd : Cmd, opt : Opt]

VARIABLES
    us,         \* us[e][o]: Q_US of option o at end e
    him,        \* him[e][o]: Q_HIM of option o at end e
    net,        \* net[e]: commands on the wire towards e
    local,      \* local[e]: options the events reported on at e itself
    remote      \* remote[e]: options the events reported on at the far end

vars == <<us, him, net, local, remote>>

(* Both halves of every option are in a state of the Q method, and only    *)
(* commands about known options are under way.                             *)
TypeOK ==
    /\ us \in [End -> [Opt -> QState]]
    /\ him \in [End -> [Opt -> QState]]
    /\ net \in [End -> Seq(Message)]
    /\ local \in [End -> SUBSET Opt]
    /\ remote \in [End -> SUBSET Opt]

(* telnet_init: q_size = 0, so every lookup answers Q_NO for both sides.   *)
Init ==
    /\ us = [e \in End |-> [o \in Opt |-> "NO"]]
    /\ him = [e \in End |-> [o \in Opt |-> "NO"]]
    /\ net = [e \in End |-> <<>>]
    /\ local = [e \in End |-> {}]
    /\ remote = [e \in End |-> {}]

----------------------------------------------------------------------------
(* One lookup, one _set_rfc1143, at most one _send_negotiate and at most   *)
(* one event: the outcome of a command or a request on half of an option.  *)
Outcome(q, send, ev) == [q |-> q, send |-> send, ev |-> ev]

(* TELNET_STATE_WILL, on Q_HIM. *)
OnWill(q, supported) ==
    [ NO         |-> IF supported THEN Outcome("YES", "DO", "WILL")
                                  ELSE Outcome("NO", "DONT", None),
      WANTNO     |-> Outcome("NO", None, "WONT"),
      WANTNO_OP  |-> Outcome("YES", None, "WILL"),
      WANTYES    |-> Outcome("YES", None, "WILL"),
      WANTYES_OP |-> Outcome("WANTNO", "DONT", "WILL"),
      YES        |-> Outcome("YES", None, None) ][q]

(* Mutant: the WONT event is missing when the far side turns an option off. *)
OnWontSilent(q) ==
    IF q = "YES" THEN Outcome("NO", "DONT", None)
    ELSE Outcome("NO", None, IF q = "WANTNO" THEN "WONT" ELSE None)

(* Mutant: a refused DO is sent again. *)
OnWontRetries(q) ==
    IF q = "WANTYES" THEN Outcome("WANTYES", "DO", None)
    ELSE Outcome("NO", IF q = "YES" THEN "DONT" ELSE None, "WONT")

(* TELNET_STATE_WONT, on Q_HIM. *)
OnWont(q) ==
    [ YES        |-> Outcome("NO", "DONT", "WONT"),
      WANTNO     |-> Outcome("NO", None, "WONT"),
      WANTNO_OP  |-> Outcome("WANTYES", None, "DO"),
      WANTYES    |-> Outcome("NO", None, None),
      WANTYES_OP |-> Outcome("NO", None, None),
      NO         |-> Outcome("NO", None, None) ][q]

(* Mutant: _check_telopt is not consulted. *)
OnDoUnchecked(q, supported) ==
    IF q \in {"NO", "WANTYES", "WANTNO_OP"}
    THEN Outcome("YES", IF q = "NO" THEN "WILL" ELSE None, "DO")
    ELSE Outcome(IF q = "YES" THEN q ELSE "NO", None, None)

(* TELNET_STATE_DO, on Q_US. *)
OnDo(q, supported) ==
    [ NO         |-> IF supported THEN Outcome("YES", "WILL", "DO")
                                  ELSE Outcome("NO", "WONT", None),
      WANTNO     |-> Outcome("NO", None, "DONT"),
      WANTNO_OP  |-> Outcome("YES", None, "DO"),
      WANTYES    |-> Outcome("YES", None, "DO"),
      WANTYES_OP |-> Outcome("WANTNO", "WONT", "DO"),
      YES        |-> Outcome("YES", None, None) ][q]

(* Mutant: the WILL put off behind a WONT is lost. *)
OnDontForgetsWill(q) ==
    IF q = "WANTNO_OP" THEN Outcome("WANTYES", None, "WILL")
    ELSE Outcome("NO", IF q = "YES" THEN "WONT" ELSE None, "DONT")

(* TELNET_STATE_DONT, on Q_US. *)
OnDont(q) ==
    [ YES        |-> Outcome("NO", "WONT", "DONT"),
      WANTNO     |-> Outcome("NO", None, "WONT"),
      WANTNO_OP  |-> Outcome("WANTYES", "WILL", "WILL"),
      WANTYES    |-> Outcome("NO", None, None),
      WANTYES_OP |-> Outcome("NO", None, None),
      NO         |-> Outcome("NO", None, None) ][q]

(* Mutant: a request that meets WANTNO is sent at once. *)
AskOnAtOnce(q, cmd) ==
    IF q \in {"NO", "WANTNO"} THEN Outcome("WANTYES", cmd, None)
    ELSE Outcome(IF q = "WANTYES_OP" THEN "WANTYES" ELSE q, None, None)

(* telnet_negotiate, TELNET_WILL on Q_US and TELNET_DO on Q_HIM. *)
AskOn(q, cmd) ==
    [ NO         |-> Outcome("WANTYES", cmd, None),
      WANTNO     |-> Outcome("WANTNO_OP", None, None),
      WANTYES_OP |-> Outcome("WANTYES", None, None),
      WANTYES    |-> Outcome(q, None, None),
      WANTNO_OP  |-> Outcome(q, None, None),
      YES        |-> Outcome(q, None, None) ][q]

(* telnet_negotiate, TELNET_WONT on Q_US and TELNET_DONT on Q_HIM. *)
AskOff(q, cmd) ==
    [ YES        |-> Outcome("WANTNO", cmd, None),
      WANTYES    |-> Outcome("WANTYES_OP", None, None),
      WANTNO_OP  |-> Outcome("WANTNO", None, None),
      NO         |-> Outcome(q, None, None),
      WANTNO     |-> Outcome(q, None, None),
      WANTYES_OP |-> Outcome(q, None, None) ][q]

(* Mutant: bytes[1] and bytes[2] swapped. *)
SentSwapped(n, e, o, cmd) ==
    IF cmd = None THEN n
    ELSE [n EXCEPT ![Far(e)] = Append(@, [cmd |-> o, opt |-> cmd])]

(* _send_negotiate: IAC cmd telopt at the end of the stream to the peer.   *)
Sent(n, e, o, cmd) ==
    IF cmd = None THEN n
    ELSE [n EXCEPT ![Far(e)] = Append(@, [cmd |-> cmd, opt |-> o])]

(* The program's event handler keeps what the events say: DO and DONT      *)
(* switch an option at this end, WILL and WONT at the far end.             *)
Told(S, o, ev, on, off) ==
    IF ev = on THEN S \cup {o} ELSE IF ev = off THEN S \ {o} ELSE S

Report(e, o, ev) ==
    /\ local' = [local EXCEPT ![e] = Told(@, o, ev, "DO", "DONT")]
    /\ remote' = [remote EXCEPT ![e] = Told(@, o, ev, "WILL", "WONT")]

SetUs(e, o, out, n) ==
    /\ us' = [us EXCEPT ![e][o] = out.q]
    /\ net' = Sent(n, e, o, out.send)
    /\ Report(e, o, out.ev)
    /\ UNCHANGED him

SetHim(e, o, out, n) ==
    /\ him' = [him EXCEPT ![e][o] = out.q]
    /\ net' = Sent(n, e, o, out.send)
    /\ Report(e, o, out.ev)
    /\ UNCHANGED us

----------------------------------------------------------------------------
(* telnet_negotiate(cmd, o) called by the program at end e. *)
TelnetNegotiate(e, o, cmd) ==
    /\ cmd \in Requests[e]
    /\ \/ cmd = "WILL" /\ SetUs(e, o, AskOn(us[e][o], cmd), net)
       \/ cmd = "WONT" /\ SetUs(e, o, AskOff(us[e][o], cmd), net)
       \/ cmd = "DO" /\ SetHim(e, o, AskOn(him[e][o], cmd), net)
       \/ cmd = "DONT" /\ SetHim(e, o, AskOff(him[e][o], cmd), net)

(* _negotiate: the command at the head of e's stream is taken off it. *)
Negotiate(e) ==
    /\ net[e] # <<>>
    /\ LET m == Head(net[e])
           n == [net EXCEPT ![e] = Tail(@)]
           o == m.opt
       IN  \/ m.cmd = "WILL" /\ SetHim(e, o, OnWill(him[e][o], o \in HimTable[e]), n)
           \/ m.cmd = "WONT" /\ SetHim(e, o, OnWont(him[e][o]), n)
           \/ m.cmd = "DO" /\ SetUs(e, o, OnDo(us[e][o], o \in UsTable[e]), n)
           \/ m.cmd = "DONT" /\ SetUs(e, o, OnDont(us[e][o]), n)

Ask == \E e \in End, o \in Opt, cmd \in Cmd : TelnetNegotiate(e, o, cmd)

Next == Ask \/ \E e \in End : Negotiate(e)

(* Nothing obliges a program to ask; each end polls its socket, so what    *)
(* has arrived is read sooner or later.                                    *)
Fairness == \A e \in End : WF_vars(Negotiate(e))

Spec == Init /\ [][Next]_vars /\ Fairness

----------------------------------------------------------------------------
On == {"YES", "WANTYES", "WANTNO_OP"}
Settled == {"NO", "YES"}
Offering == {"WANTYES", "WANTYES_OP"}
Withdrawing == {"WANTNO", "WANTNO_OP"}

(* The exchange about option o on e's side: WILL and WONT on their way     *)
(* from e, DO and DONT on their way to e.                                  *)
Offer == {"WILL", "WONT"}
Reply == {"DO", "DONT"}
About(m, o, K) == m.opt = o /\ m.cmd \in K

(* The commands about o of kind K on a stream are none, c, or c then d.    *)
Holds0(s, o, K) == \A i \in DOMAIN s : ~About(s[i], o, K)
Holds1(s, o, K, c) ==
    \E i \in DOMAIN s :
        /\ s[i] = [cmd |-> c, opt |-> o]
        /\ \A k \in DOMAIN s : About(s[k], o, K) => k = i
Holds2(s, o, K, c, d) ==
    \E i, j \in DOMAIN s :
        /\ i < j
        /\ s[i] = [cmd |-> c, opt |-> o]
        /\ s[j] = [cmd |-> d, opt |-> o]
        /\ \A k \in DOMAIN s : About(s[k], o, K) => k = i \/ k = j

(* What one exchange can look like when the far end does not both ask for  *)
(* the option and against it: u is its state at its own end, h at the far  *)
(* end, up and down are the streams from and to its own end.               *)
ExchangeOK(u, h, up, down, o, farRequests) ==
    /\ h = "WANTYES" => "DO" \in farRequests
    /\ h = "WANTNO" => "DONT" \in farRequests
    /\ \/ /\ Holds0(up, o, Offer) /\ Holds0(down, o, Reply)
          /\ u \in Settled /\ h = u
       \/ /\ Holds1(up, o, Offer, "WILL") /\ Holds0(down, o, Reply)
          /\ \/ u \in Offering /\ h = "NO"
             \/ u = "YES" /\ h = "WANTYES"
       \/ /\ Holds1(up, o, Offer, "WONT") /\ Holds0(down, o, Reply)
          /\ \/ u = "NO" /\ h \in {"WANTNO", "WANTYES"}
             \/ u \in Withdrawing /\ h = "YES"
       \/ /\ Holds0(up, o, Offer) /\ Holds1(down, o, Reply, "DO")
          /\ \/ u = "NO" /\ h = "WANTYES"
             \/ u \in Offering /\ h = "YES"
       \/ /\ Holds0(up, o, Offer) /\ Holds1(down, o, Reply, "DONT")
          /\ \/ u \in Offering \cup Withdrawing /\ h = "NO"
             \/ u = "YES" /\ h = "WANTNO"
       \/ /\ Holds1(up, o, Offer, "WILL") /\ Holds1(down, o, Reply, "DO")
          /\ u \in Offering /\ h = "WANTYES"
       \/ /\ Holds1(up, o, Offer, "WONT") /\ Holds1(down, o, Reply, "DONT")
          /\ u \in Withdrawing /\ h = "WANTNO"
       \/ /\ Holds2(up, o, Offer, "WILL", "WONT") /\ Holds0(down, o, Reply)
          /\ u \in Withdrawing /\ h = "WANTYES"
       \/ /\ Holds2(up, o, Offer, "WONT", "WILL") /\ Holds0(down, o, Reply)
          /\ u \in Offering /\ h \in {"WANTNO", "WANTYES"}
       \/ /\ Holds0(up, o, Offer) /\ Holds2(down, o, Reply, "DONT", "DO")
          /\ u \in Offering \cup Withdrawing /\ h = "WANTYES"
       \/ /\ Holds0(up, o, Offer) /\ Holds2(down, o, Reply, "DO", "DONT")
          /\ u \in Offering /\ h = "WANTNO"

(* Every exchange is in one of these shapes: at most two commands of an    *)
(* exchange are ever under way, and the two state machines never drift     *)
(* apart by more than what those commands still have to tell.              *)
ExchangesOK ==
    \A e \in End, o \in Opt :
        ExchangeOK(us[e][o], him[Far(e)][o], net[Far(e)], net[e], o,
                   Requests[Far(e)])

(* When no command about option o on e's side is under way, neither end    *)
(* waits for one and both hold the same state for it: what e believes of   *)
(* itself (us) is what the far end believes of e (him).                    *)
Agreement ==
    \A e \in End, o \in Opt :
        Holds0(net[Far(e)], o, Offer) /\ Holds0(net[e], o, Reply)
            => us[e][o] \in Settled /\ him[Far(e)][o] = us[e][o]

(* Two libtelnet ends never provoke each other's TELNET_EPROTOCOL warnings *)
(* ("DONT answered by WILL", "WONT answered by DO").                       *)
NoProtocolError ==
    \A e \in End : net[e] # <<>> =>
        LET m == Head(net[e]) IN
        /\ m.cmd = "WILL" => him[e][m.opt] \notin {"WANTNO", "WANTNO_OP"}
        /\ m.cmd = "DO" => us[e][m.opt] \notin {"WANTNO", "WANTNO_OP"}

(* The events keep the program of an end that makes no requests of its own *)
(* right about both sides of every option, as AutoMag's do_echo needs.     *)
PassiveViewCorrect ==
    \A e \in End : Requests[e] = {} =>
        /\ local[e] = {o \in Opt : us[e][o] = "YES"}
        /\ remote[e] = {o \in Opt : him[e][o] = "YES"}

(* An option whose program withdrew it (or never offered it) comes back on *)
(* only because that program offers it, or the far end asks for it and the *)
(* telopts table lists it.                                                 *)
ComesOnForAReason ==
    [][\A e \in End, o \in Opt :
        us[e][o] \notin On /\ us'[e][o] \in On
            => \/ TelnetNegotiate(e, o, "WILL")
               \/ /\ Head(net[e]) = [cmd |-> "DO", opt |-> o]
                  /\ o \in UsTable[e]]_vars

(* A request that is out is answered: the DO or WILL that telnet_negotiate *)
(* sent, or put off until the pending DONT or WONT is confirmed, does not  *)
(* leave the option waiting for ever.                                      *)
RequestAnswered ==
    \A e \in End, o \in Opt :
        /\ us[e][o] = "WANTYES" ~> us[e][o] # "WANTYES"
        /\ him[e][o] = "WANTYES" ~> him[e][o] # "WANTYES"

(* Once the programs stop asking, the wire empties for good: no endless    *)
(* exchange of acknowledgements.                                           *)
Settles == <>[][~Ask]_vars => <>[](\A e \in End : net[e] = <<>>)
=============================================================================
