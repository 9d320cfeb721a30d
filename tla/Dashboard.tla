----------------------------- MODULE Dashboard ------------------------------
(***************************************************************************)
(* The display of AutoMag: initLcd and lcdScreen of telnet-projekat1.c on  *)
(* top of the driver.  A call of lcdScreen writes two lines of text of a   *)
(* length that depends on the values, at the start of the two rows, and    *)
(* never clears the display.                                               *)
(*                                                                         *)
(* A character is <<row, k, value>>, the k-th one of the text for a value; *)
(* a letter of the unit behind the speed; or a space.                      *)
(***************************************************************************)
EXTENDS LcdDriver, Sequences

CONSTANTS
    Speeds, Fuels, Temperatures     \* values that the frames carry

ASSUME ReadingAssumption ==
    /\ Speeds \subseteq 0..255 /\ Temperatures \subseteq 0..255
    /\ Fuels \subseteq 0..15

VARIABLES
    d,              \* the driver and the display
    reading         \* the last arguments of lcdScreen

vars == <<d, reading>>

(* sprintf's %d. *)
Digits(n) == IF n < 10 THEN 1 ELSE IF n < 100 THEN 2 ELSE 3

\* Mutant: the tests of the two middle levels are exchanged.
BarsExchanged(fuel) ==
    CASE fuel \in {5, 6} -> 2
      [] fuel \in {3, 4} -> 3
      [] fuel \in {1, 2} -> 1
      [] OTHER           -> 4

(* val1 .. val4: the number of bars that are not '-'. *)
Bars(fuel) ==
    CASE fuel \in {5, 6} -> 3
      [] fuel \in {3, 4} -> 2
      [] fuel \in {1, 2} -> 1
      [] OTHER           -> 4

(* " km/h" *)
Unit == [j \in 1..5 |-> <<2, j, 0>>]

(* "Speed : %d km/h" *)
SpeedText(speed) == [k \in 1..(8 + Digits(speed)) |-> <<0, k, speed>>] \o Unit

(* "F:%c%c%c%c T:%d C'" *)
Gauges(fuel, temperature) ==
    [k \in 1..(12 + Digits(temperature)) |-> <<1, k, <<Bars(fuel), temperature>>>>]

\* Mutant: the text ends in one space.
FuelTextOneSpace(fuel, temperature) == Gauges(fuel, temperature) \o <<Blank>>

(* The gauges and the two spaces that end the format. *)
FuelText(fuel, temperature) == Gauges(fuel, temperature) \o <<Blank, Blank>>

(* lcdPuts. *)
Puts(e, text) ==
    LET after[k \in 0..Len(text)] ==
            IF k = 0 THEN e ELSE Putchar(after[k - 1], text[k])
    IN  after[Len(text)]

\* Mutant: the cursor is not moved first.
PutsAnywhere(e, y, text) == Puts(e, text)

PutsAt(e, y, text) == Puts(Positioned(e, 0, y), text)

(* initLcd: "Speed : " and "F:---- T:". *)
InitLcd ==
    PutsAt(PutsAt(Cleared(Initialised), 0, [k \in 1..8 |-> <<0, k, 0>>]),
           1, [k \in 1..9 |-> <<1, k, <<0, 0>>>>])

NoReading == [speed |-> 0, fuel |-> 0, temperature |-> 0, any |-> FALSE]

Init == d = InitLcd /\ reading = NoReading

LcdScreen(speed, fuel, temperature) ==
    /\ d' = PutsAt(PutsAt(d, 0, SpeedText(speed)), 1, FuelText(fuel, temperature))
    /\ reading' = [speed |-> speed, fuel |-> fuel, temperature |-> temperature, any |-> TRUE]

Next == \E s \in Speeds, f \in Fuels, t \in Temperatures : LcdScreen(s, f, t)

Spec == Init /\ [][Next]_vars

-----------------------------------------------------------------------------
Cell(x, y) == d.ram[At(x, y)]

(* Both texts of the last reading are on the screen from the first column
   on, whatever was there before.  The one exception is the code's: with a
   temperature of three digits the second text has 17 characters, and the
   last one, a space, wraps onto the first column of the first row. *)
ReadingShown ==
    reading.any =>
        LET top    == SpeedText(reading.speed)
            bottom == FuelText(reading.fuel, reading.temperature)
            spill  == Len(bottom) > Cols
        IN  /\ \A k \in 1..Len(top) :
                   Cell(k - 1, 0) = IF spill /\ k = 1 THEN bottom[Cols + 1] ELSE top[k]
            /\ \A k \in 1..Len(bottom) : k <= Cols => Cell(k - 1, 1) = bottom[k]

(* lcdScreen never clears: what a longer text leaves behind a shorter one is
   blank in the second row, where the two spaces of the format have to reach
   as far as the longest temperature, and letters of the unit in the first.
   No digit of an earlier reading stays on the screen. *)
NoOldReadingLeft ==
    reading.any =>
        /\ \A x \in Len(SpeedText(reading.speed))..(Cols - 1) :
               Cell(x, 0) = Blank \/ \E j \in 1..5 : Cell(x, 0) = Unit[j]
        /\ \A x \in Len(FuelText(reading.fuel, reading.temperature))..(Cols - 1) :
               Cell(x, 1) = Blank

(* The bars on the screen. *)
BarsShown == Cell(2, 1)[3][1]

(* More fuel never shows fewer bars, as long as the level is not 0, which
   lcdScreen shows as a full tank. *)
MoreFuelMoreBars ==
    [][reading.any /\ 0 < reading.fuel /\ reading.fuel <= reading'.fuel
         => BarsShown <= BarsShown']_vars
=============================================================================
