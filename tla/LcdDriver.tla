----------------------------- MODULE LcdDriver ------------------------------
(***************************************************************************)
(* wiringPi/devLib/lcd.c on one HD44780 display, as operators on a record: *)
(*   cx, cy   the driver's idea of the cursor (struct lcdDataStruct)       *)
(*   ac       the display's address counter                                *)
(*   ram      the display's memory, two lines of LineLen characters        *)
(* The driver never reads the display back, so cx, cy and ac are kept in   *)
(* step only by the commands it sends.                                     *)
(*                                                                         *)
(* An address is a pair <<line, offset>>; line 2 stands for the character  *)
(* generator memory, whose contents are not modelled.                      *)
(***************************************************************************)
EXTENDS Integers

CONSTANTS
    Rows, Cols,     \* the arguments of lcdInit; AutoMag passes 2 and 16
    LineLen,        \* the display's line length, 40 in an HD44780
    Blank,          \* the space character
    Beyond          \* where a row offset read beyond the end of rowOff leads

ASSUME GeometryAssumption ==
    /\ Rows \in 2..4
    /\ Cols \in Nat \ {0}
    /\ LineLen \in Nat
    /\ Cols < LineLen
    /\ Rows > 2 => 2 * Cols <= LineLen
    /\ Beyond \in (0..1) \X Nat

Address == (0..1) \X (0..LineLen - 1)
CharGen == <<2, 0>>

(* rowOff: rows 2 and 3 are the second halves of the two lines.  It has four
   elements. *)
RowOff(y) ==
    IF y \in 0..3 THEN <<y % 2, IF y < 2 THEN 0 ELSE LineLen \div 2>> ELSE Beyond

(* The address that the command LCD_DGRAM | rowOff[y] + x selects. *)
At(x, y) == <<RowOff(y)[1], RowOff(y)[2] + x>>

Screen == (0..Cols - 1) \X (0..Rows - 1)

-----------------------------------------------------------------------------
(* The display (external): its address counter moves right after each write
   and from the end of one line to the start of the other. *)
Advance(ac) ==
    IF ac[1] = 2 THEN ac
    ELSE IF ac[2] + 1 = LineLen THEN <<1 - ac[1], 0>>
    ELSE <<ac[1], ac[2] + 1>>

Written(d, c) ==
    [d EXCEPT !.ram = IF d.ac \in Address THEN [@ EXCEPT ![d.ac] = c] ELSE @,
              !.ac = Advance(@)]

-----------------------------------------------------------------------------
(* lcdClear: LCD_CLEAR blanks the memory, LCD_HOME resets the address. *)
Cleared(d) ==
    [d EXCEPT !.cx = 0, !.cy = 0, !.ac = <<0, 0>>, !.ram = [a \in Address |-> Blank]]

(* lcdHome. *)
Homed(d) == [d EXCEPT !.cx = 0, !.cy = 0, !.ac = <<0, 0>>]

(* lcdInit: it clears the display and ends with LCD_CDSHIFT |
   LCD_CDSHIFT_RL, which moves the display's cursor one place to the right. *)
Initialised ==
    [cx |-> 0, cy |-> 0, ac |-> Advance(<<0, 0>>), ram |-> [a \in Address |-> Blank]]

(* The two tests of lcdPosition: a column Cols and a row Rows pass them. *)
Ignored(x, y) == x > Cols \/ x < 0 \/ y > Rows \/ y < 0

\* Mutant: without the two tests.
PositionedUnchecked(d, x, y) == [d EXCEPT !.cx = x, !.cy = y, !.ac = At(x, y)]

(* lcdPosition. *)
Positioned(d, x, y) ==
    IF Ignored(x, y) THEN d ELSE [d EXCEPT !.cx = x, !.cy = y, !.ac = At(x, y)]

(* lcdCharDef: the address counter is left in the character generator. *)
CharDefined(d) == [d EXCEPT !.ac = CharGen]

\* Mutant: the wrap to the next line is not sent to the display.
PutcharNoCommand(d, c) ==
    LET w == Written(d, c) IN
    IF d.cx + 1 = Cols
    THEN [w EXCEPT !.cx = 0, !.cy = IF d.cy + 1 = Rows THEN 0 ELSE d.cy + 1]
    ELSE [w EXCEPT !.cx = d.cx + 1]

\* Mutant: no wrap from the last row to the first.
PutcharNoFirstRow(d, c) ==
    LET w == Written(d, c) IN
    IF d.cx + 1 = Cols
    THEN [w EXCEPT !.cx = 0, !.cy = d.cy + 1, !.ac = At(0, d.cy + 1)]
    ELSE [w EXCEPT !.cx = d.cx + 1]

(* lcdPutchar: write, and at the end of a row go to the start of the next
   one, or of the first. *)
Putchar(d, c) ==
    LET w == Written(d, c)
        y == IF d.cy + 1 = Rows THEN 0 ELSE d.cy + 1
    IN  IF d.cx + 1 = Cols
        THEN [w EXCEPT !.cx = 0, !.cy = y, !.ac = At(0, y)]
        ELSE [w EXCEPT !.cx = d.cx + 1]

(* The display's address is that of the driver's cursor, on the screen. *)
InStep(d) == <<d.cx, d.cy>> \in Screen /\ d.ac = At(d.cx, d.cy)
=============================================================================
