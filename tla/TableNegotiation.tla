-------------------------- MODULE TableNegotiation --------------------------
(***************************************************************************)
(* Option negotiation (Rfc1143) by ends that keep the states of their      *)
(* options where libtelnet.c keeps them, in the array of QTable: every     *)
(* handler looks the option up, and saves it in the branches that change   *)
(* its state.  Options are telopt bytes, so 0 (BINARY) may be one of them, *)
(* and the spare elements of the array are zero.                           *)
(***************************************************************************)
EXTENDS QTable, Sequences, FiniteSets

CONSTANTS Opt, UsTable, HimTable, Requests      \* as in Rfc1143

VARIABLES
    table,      \* table[e]: q and q_size of e's telnet_t
    net, local, remote                          \* as in Rfc1143

vars == <<table, net, local, remote>>

(* The states a lookup answers are those Rfc1143 is about. *)
Half(e, o, side) ==
    IF side = "us" THEN Q_US(Get(table[e], o)) ELSE Q_HIM(Get(table[e], o))

End == {"client", "server"}

Us == [e \in End |-> [o \in Opt |-> Half(e, o, "us")]]
Him == [e \in End |-> [o \in Opt |-> Half(e, o, "him")]]

R == INSTANCE Rfc1143 WITH us <- Us, him <- Him

(* Fewer options than make q_size wrap: up to 63 in the code. *)
ASSUME OptionsAssumption ==
    /\ Opt \subseteq Nat /\ IsFiniteSet(Opt)
    /\ Grow * Cardinality(Opt) < UCHAR
ASSUME EndsAssumption ==
    /\ UsTable \in [End -> SUBSET Opt] /\ HimTable \in [End -> SUBSET Opt]
    /\ Requests \in [End -> SUBSET R!Cmd]

Init ==
    /\ table = [e \in End |-> EmptyTable]
    /\ net = [e \in End |-> <<>>]
    /\ local = [e \in End |-> {}]
    /\ remote = [e \in End |-> {}]

(* _set_rfc1143 with one half of the option changed and the other as found. *)
Save(e, o, side, new) ==
    LET us  == IF side = "us" THEN new ELSE Half(e, o, "us")
        him == IF side = "him" THEN new ELSE Half(e, o, "him")
    IN  [table EXCEPT ![e] = Set(@, o, Q_MAKE(us, him))]

(* A branch of _negotiate or telnet_negotiate; the ones that leave the state
   as it is do not save it. *)
Branch(e, o, side, out, n) ==
    /\ table' = IF out.q = Half(e, o, side) THEN table ELSE Save(e, o, side, out.q)
    /\ net' = R!Sent(n, e, o, out.send)
    /\ R!Report(e, o, out.ev)

TelnetNegotiate(e, o, cmd) ==
    /\ cmd \in Requests[e]
    /\ \/ cmd = "WILL" /\ Branch(e, o, "us", R!AskOn(Half(e, o, "us"), cmd), net)
       \/ cmd = "WONT" /\ Branch(e, o, "us", R!AskOff(Half(e, o, "us"), cmd), net)
       \/ cmd = "DO" /\ Branch(e, o, "him", R!AskOn(Half(e, o, "him"), cmd), net)
       \/ cmd = "DONT" /\ Branch(e, o, "him", R!AskOff(Half(e, o, "him"), cmd), net)

Negotiate(e) ==
    /\ net[e] # <<>>
    /\ LET m == Head(net[e])
           n == [net EXCEPT ![e] = Tail(@)]
           o == m.opt
           us == Half(e, o, "us")
           him == Half(e, o, "him")
       IN  \/ m.cmd = "WILL" /\ Branch(e, o, "him", R!OnWill(him, o \in HimTable[e]), n)
           \/ m.cmd = "WONT" /\ Branch(e, o, "him", R!OnWont(him), n)
           \/ m.cmd = "DO" /\ Branch(e, o, "us", R!OnDo(us, o \in UsTable[e]), n)
           \/ m.cmd = "DONT" /\ Branch(e, o, "us", R!OnDont(us), n)

Next ==
    \/ \E e \in End, o \in Opt, cmd \in R!Cmd : TelnetNegotiate(e, o, cmd)
    \/ \E e \in End : Negotiate(e)

Spec == Init /\ [][Next]_vars

-----------------------------------------------------------------------------
(* The array is a map from options to states, whatever the order in which
   options are saved, option 0 included: with it the two ends negotiate as
   Rfc1143 says, so that what holds there holds of the code's data. *)
ImplementsRfc1143 == R!Init /\ [][R!Next]_(R!vars)

(* The events keep the program of an end that makes no requests of its own
   right about both sides of every option, as AutoMag's do_echo needs: about
   what the array says, even for options that share it. *)
PassiveViewCorrect == R!PassiveViewCorrect
=============================================================================
