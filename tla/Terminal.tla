------------------------------ MODULE Terminal ------------------------------
(***************************************************************************)
(* The "very simple terminal - with line wrapping, but no scrolling" that  *)
(* the comment above lcdPutchar promises.                                  *)
(***************************************************************************)
EXTENDS Naturals

CONSTANTS Rows, Cols, Char, Blank

VARIABLES
    screen,         \* the character at each <<x, y>>
    cursor          \* where the next one goes

Cells == (0..Cols - 1) \X (0..Rows - 1)

Empty == [p \in Cells |-> Blank]

Init == screen = Empty /\ cursor = <<0, 0>>

After(p) ==
    IF p[1] + 1 < Cols THEN <<p[1] + 1, p[2]>>
    ELSE <<0, (p[2] + 1) % Rows>>

Put(c) ==
    /\ screen' = [screen EXCEPT ![cursor] = c]
    /\ cursor' = After(cursor)

Goto == cursor' \in Cells /\ UNCHANGED screen

Clear == screen' = Empty /\ cursor' = <<0, 0>>

Next == (\E c \in Char : Put(c)) \/ Goto \/ Clear

Spec == Init /\ [][Next]_<<screen, cursor>>
=============================================================================
