---------------------------- MODULE MCDashboard -----------------------------
(* The display of AutoMag in its real size, readings of one, two and three
   digits, every fuel level. *)
EXTENDS Dashboard

SomeSpeeds == {0, 99, 255}
SomeTemperatures == {9, 90, 100}
AllFuels == 0..15
Space == <<3, 0, 0>>
Nowhere == <<0, 0>>
=============================================================================
