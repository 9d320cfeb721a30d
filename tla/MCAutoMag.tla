----------------------------- MODULE MCAutoMag ------------------------------
(* Frames on both sides of the 60 km/h limit, and one of another identifier. *)
EXTENDS AutoMag

Slow  == [mine |-> TRUE, speed |-> 60, rest |-> 1]
Fast  == [mine |-> TRUE, speed |-> 61, rest |-> 2]
Other == [mine |-> FALSE, speed |-> 61, rest |-> 3]
ThreeFrames == {Slow, Fast, Other}
TwoFrames == {Slow, Fast}
=============================================================================
