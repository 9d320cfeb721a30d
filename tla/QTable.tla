------------------------------- MODULE QTable -------------------------------
(***************************************************************************)
(* The array in which a telnet_t of libtelnet.c keeps the RFC1143 state of *)
(* its options: _get_rfc1143 and _set_rfc1143.  The array grows by four    *)
(* elements for each new option, three of them zero, and its length is an  *)
(* unsigned char.  An element packs the states of both sides into a byte.  *)
(***************************************************************************)
EXTENDS Naturals

CONSTANT UCHAR      \* values of an unsigned char, 256 in the code

ASSUME UCharAssumption == UCHAR \in Nat /\ UCHAR > 0 /\ UCHAR % 4 = 0

(* Q_NO and the other states as numbers, Q_MAKE, Q_US and Q_HIM. *)
Number == [NO |-> 0, YES |-> 1, WANTNO |-> 2, WANTYES |-> 3,
           WANTNO_OP |-> 4, WANTYES_OP |-> 5]
Name == [n \in 0..5 |-> CHOOSE s \in DOMAIN Number : Number[s] = n]

Q_MAKE(us, him) == Number[us] + 16 * Number[him]
Q_US(state) == Name[state % 16]
Q_HIM(state) == Name[state \div 16]

Grow == 4

Entry(o, s) == [telopt |-> o, state |-> s]

(* telnet_init: q = 0 and q_size = 0; q[i + 1] stands for q[i]. *)
EmptyTable == [q |-> <<>>, q_size |-> 0]

(* The search, from the front, for the element of an option. *)
Known(t, o) == \E i \in 1..t.q_size : t.q[i].telopt = o
Find(t, o) ==
    CHOOSE i \in 1..t.q_size :
        /\ t.q[i].telopt = o
        /\ \A j \in 1..i - 1 : t.q[j].telopt # o

(* _get_rfc1143 *)
Get(t, o) == IF Known(t, o) THEN t.q[Find(t, o)].state ELSE 0

(* The array after realloc, memset and the assignment of the new element;
   realloc to a smaller size keeps the first elements. *)
Grown(t, o, s) ==
    [i \in 1..t.q_size + Grow |->
        IF i <= t.q_size THEN t.q[i]
        ELSE IF i = t.q_size + 1 THEN Entry(o, s) ELSE Entry(0, 0)]

\* Mutant: the new element is put behind the spare ones.
SetBehind(t, o, s) ==
    IF Known(t, o) THEN [t EXCEPT !.q[Find(t, o)].state = s]
    ELSE [q |-> [Grown(t, 0, 0) EXCEPT ![t.q_size + Grow] = Entry(o, s)],
          q_size |-> (t.q_size + Grow - 1) % UCHAR]

(* _set_rfc1143 *)
Set(t, o, s) ==
    IF Known(t, o) THEN [t EXCEPT !.q[Find(t, o)].state = s]
    ELSE [q |-> Grown(t, o, s), q_size |-> (t.q_size + Grow) % UCHAR]
=============================================================================
