---------------------------- MODULE EventChannel ----------------------------
(***************************************************************************)
(* What a TELNET connection promises the two applications in one           *)
(* direction: a queue of items (bytes of data, commands, negotiations,     *)
(* subnegotiations).  Items arrive unchanged, in order and once.           *)
(***************************************************************************)
EXTENDS Naturals, Sequences

VARIABLES
    queue,          \* said and not yet heard
    heard           \* everything heard so far

Init == queue = <<>> /\ heard = <<>>

(* One call of the sender's application adds any number of items. *)
Say ==
    /\ Len(queue') >= Len(queue)
    /\ SubSeq(queue', 1, Len(queue)) = queue
    /\ UNCHANGED heard

(* The receiver's application is told the next n items. *)
Hear ==
    \E n \in 1..Len(queue) :
        /\ heard' = heard \o SubSeq(queue, 1, n)
        /\ queue' = SubSeq(queue, n + 1, Len(queue))

Next == Say \/ Hear

Spec == Init /\ [][Next]_<<queue, heard>>
=============================================================================
