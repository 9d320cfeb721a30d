--------------------------- MODULE MessageStream ----------------------------
(***************************************************************************)
(* What MSP promises the applications at its two ends: a two-way stream of *)
(* messages.  What one end receives is what the other sent, in order and   *)
(* once; the end of a stream is seen after what was sent before it; and an *)
(* end is told that the connection finished gracefully only if both have   *)
(* received everything.  The connection may be aborted at any time.        *)
(***************************************************************************)
EXTENDS Naturals, Sequences

CONSTANTS
    End,            \* the two ends
    Message,        \* what may be sent
    Peer(_)         \* the other end

VARIABLES
    sent,           \* per end, the messages its application has sent
    got,            \* per end, the messages its application has received
    shut,           \* per end, its application will send no more
    eof,            \* per end, its application knows that the peer is shut
    outcome         \* per end, "open", "finished" or "aborted"

vars == <<sent, got, shut, eof, outcome>>

Init ==
    /\ sent = [e \in End |-> <<>>]
    /\ got = [e \in End |-> <<>>]
    /\ shut = [e \in End |-> FALSE]
    /\ eof = [e \in End |-> FALSE]
    /\ outcome = [e \in End |-> "open"]

Send(e) ==
    /\ ~shut[e]
    /\ \E m \in Message : sent' = [sent EXCEPT ![e] = Append(@, m)]
    /\ UNCHANGED <<got, shut, eof, outcome>>

(* The next n messages; the last of them may come with the end. *)
Receive(e) ==
    /\ \E n \in 1..Len(sent[Peer(e)]) - Len(got[e]) :
         got' = [got EXCEPT ![e] = SubSeq(sent[Peer(e)], 1, Len(@) + n)]
    /\ \/ UNCHANGED eof
       \/ /\ shut[Peer(e)]
          /\ Len(got'[e]) + 1 >= Len(sent[Peer(e)])
          /\ eof' = [eof EXCEPT ![e] = TRUE]
    /\ UNCHANGED <<sent, shut, outcome>>

Shutdown(e) ==
    /\ shut' = [shut EXCEPT ![e] = TRUE]
    /\ UNCHANGED <<sent, got, eof, outcome>>

(* The end of the stream is announced with the last message, or after it. *)
SeeEnd(e) ==
    /\ shut[Peer(e)]
    /\ Len(got[e]) + 1 >= Len(sent[Peer(e)])
    /\ eof' = [eof EXCEPT ![e] = TRUE]
    /\ UNCHANGED <<sent, got, shut, outcome>>

Complete == \A e \in End : shut[e] /\ eof[e] /\ got[e] = sent[Peer(e)]

Finish(e) ==
    /\ outcome[e] = "open"
    /\ Complete
    /\ outcome' = [outcome EXCEPT ![e] = "finished"]
    /\ UNCHANGED <<sent, got, shut, eof>>

Abort(e) ==
    /\ outcome[e] = "open"
    /\ outcome' = [outcome EXCEPT ![e] = "aborted"]
    /\ UNCHANGED <<sent, got, shut, eof>>

Next ==
    \E e \in End :
        Send(e) \/ Receive(e) \/ Shutdown(e) \/ SeeEnd(e) \/ Finish(e) \/ Abort(e)

Spec == Init /\ [][Next]_vars
=============================================================================
