------------------------------- MODULE MCLcd --------------------------------
(* A small display with the proportions of the real ones and locations on all
   sides of it; two displays for a program that only switches the control
   bits, which keeps the contents of a second one out of the state. *)
EXTENDS Lcd

CONSTANT A

Locations == (-1..Cols + 1) \X (-1..Rows + 1)
TextAndControl ==
    {[lcds |-> 1, calls |-> {"text"}],
     [lcds |-> 2, calls |-> {"control"}]}
Somewhere == <<1, 1>>
=============================================================================
