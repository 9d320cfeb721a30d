------------------------------- MODULE MCMsp --------------------------------
(* The client sends one message if it opens the connection, and two if the
   connection is about to use up the sequence numbers. *)
EXTENDS Msp

SomeLast == [e \in End |-> IF e = Client THEN {1} ELSE {0, 15}]
SomeNet == [e \in End |-> IF e = Client THEN 1 ELSE 2]
=============================================================================
