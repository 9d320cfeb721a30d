----------------------------- MODULE LcdProofs ------------------------------
(***************************************************************************)
(* The driver's cursor and the display's address counter stay together, on *)
(* displays of any size, for any number of them and any programs.          *)
(***************************************************************************)
EXTENDS Lcd, TLAPS

Display == [cx : 0..Cols, cy : 0..Rows, ac : (0..2) \X Nat, ram : [Address -> Char]]

(* A row fits on its line of the display: no address of a place on the
   screen is at the end of a line, except where a row ends. *)
LEMMA RowFits ==
    ASSUME NEW x \in 0..Cols - 1, NEW y \in 0..Rows - 1
    PROVE  /\ At(x, y) \in Address
           /\ x + 1 < Cols => Advance(At(x, y)) = At(x + 1, y)
<1> DEFINE half == LineLen \div 2
<1>1. half \in Nat /\ 2 * half <= LineLen
  BY GeometryAssumption
<1>2. y % 2 \in 0..1 /\ y \in 0..3
  BY GeometryAssumption
<1>3. CASE y < 2
  BY <1>2, <1>3, GeometryAssumption DEF At, RowOff, Address, Advance
<1>4. CASE y >= 2
  <2>1. half + Cols <= LineLen
    BY <1>1, <1>4, GeometryAssumption
  <2> QED
    BY <1>1, <1>2, <1>4, <2>1, GeometryAssumption DEF At, RowOff, Address, Advance
<1> QED
  BY <1>3, <1>4, GeometryAssumption

(* A write leaves the display with an address and a memory. *)
LEMMA WrittenTyped ==
    ASSUME NEW d \in Display, NEW c \in Char
    PROVE  /\ Written(d, c) \in Display
           /\ Written(d, c).ac = Advance(d.ac)
           /\ Written(d, c).cx = d.cx /\ Written(d, c).cy = d.cy
<1>1. Advance(d.ac) \in (0..2) \X Nat
  <2>1. PICK i \in 0..2, n \in Nat : d.ac = <<i, n>>
    BY DEF Display
  <2> QED
    BY <2>1 DEF Advance
<1> QED
  BY <1>1, Zenon DEF Written, Display

(* lcdPutchar keeps a typed display typed; driver and display are together
   afterwards if they were before, or if a row has ended. *)
LEMMA PutcharTyped ==
    ASSUME NEW d \in Display, NEW c \in Char, OnScreen(d)
    PROVE  /\ Putchar(d, c) \in Display
           /\ InStep(d) \/ d.cx + 1 = Cols => InStep(Putchar(d, c))
<1>1. d.cx \in 0..Cols - 1 /\ d.cy \in 0..Rows - 1
  BY DEF OnScreen, Screen
<1>2. PICK w \in Display :
        w = Written(d, c) /\ w.ac = Advance(d.ac) /\ w.cx = d.cx /\ w.cy = d.cy
  BY WrittenTyped
<1>3. PICK y \in 0..Rows - 1 : y = IF d.cy + 1 = Rows THEN 0 ELSE d.cy + 1
  BY <1>1, GeometryAssumption
<1>4. PICK a \in (0..2) \X Nat : a = At(0, y)
  <2>1. At(0, y) \in Address
    BY <1>3, RowFits, GeometryAssumption
  <2> QED
    BY <2>1, GeometryAssumption DEF Address
<1>5. CASE d.cx + 1 = Cols
  <2>1. Putchar(d, c) = [w EXCEPT !.cx = 0, !.cy = y, !.ac = a]
    BY <1>2, <1>3, <1>4, <1>5 DEF Putchar
  <2>2. y \in 0..Rows /\ 0 \in 0..Cols /\ <<0, y>> \in Screen
    BY <1>3, GeometryAssumption DEF Screen
  <2>3. Putchar(d, c) \in Display
    <3>1. Putchar(d, c) = [cx |-> 0, cy |-> y, ac |-> a, ram |-> w.ram]
      BY <1>2, <2>1, Zenon DEF Display
    <3>2. w.ram \in [Address -> Char]
      BY <1>2 DEF Display
    <3> QED
      BY <1>4, <2>2, <3>1, <3>2 DEF Display
  <2>4. Putchar(d, c).cx = 0 /\ Putchar(d, c).cy = y /\ Putchar(d, c).ac = a
    BY <1>2, <2>1 DEF Display
  <2> QED
    BY <1>4, <2>2, <2>3, <2>4 DEF InStep
<1>6. CASE d.cx + 1 # Cols
  <2>1. PICK x \in 0..Cols - 1 : x = d.cx + 1 /\ x < Cols /\ x \in 0..Cols
    BY <1>1, <1>6, GeometryAssumption
  <2>2. Putchar(d, c) = [w EXCEPT !.cx = x]
    BY <1>2, <1>6, <2>1 DEF Putchar
  <2>3. Putchar(d, c) \in Display
    BY <1>2, <2>1, <2>2 DEF Display
  <2>4. ASSUME InStep(d) PROVE InStep(Putchar(d, c))
    <3>1. w.ac = At(x, d.cy)
      BY <1>1, <1>2, <2>1, <2>4, RowFits DEF InStep
    <3> QED
      BY <1>1, <1>2, <2>1, <2>2, <3>1 DEF InStep, Screen, Display
  <2> QED
    BY <1>6, <2>3, <2>4
<1> QED
  BY <1>5, <1>6

(* lcdPosition leaves the display alone or moves its cursor, at most one
   place off the screen. *)
LEMMA PositionedTyped ==
    ASSUME NEW d \in Display, NEW x \in Int, NEW y \in Int
    PROVE  /\ Positioned(d, x, y) \in Display
           /\ Ignored(x, y) => Positioned(d, x, y) = d
           /\ ~Ignored(x, y) => /\ Positioned(d, x, y).cx = x
                                /\ Positioned(d, x, y).cy = y
                                /\ Positioned(d, x, y).ac = At(x, y)
           /\ Positioned(d, x, y).ram = d.ram
<1>1. CASE Ignored(x, y)
  BY <1>1 DEF Positioned
<1>2. CASE ~Ignored(x, y)
  <2>1. x \in 0..Cols /\ y \in 0..Rows
    BY <1>2, GeometryAssumption DEF Ignored
  <2>2. At(x, y) \in (0..2) \X Nat
    <3>1. CASE y \in 0..3
      <4>1. y % 2 \in 0..2 /\ LineLen \div 2 \in Nat
        BY <3>1, GeometryAssumption
      <4> QED
        BY <2>1, <3>1, <4>1, GeometryAssumption DEF At, RowOff
    <3>2. CASE y \notin 0..3
      <4>1. PICK i \in 0..1, n \in Nat : Beyond = <<i, n>>
        BY GeometryAssumption
      <4> QED
        BY <2>1, <3>2, <4>1, GeometryAssumption DEF At, RowOff
    <3> QED
      BY <3>1, <3>2
  <2>3. PICK a \in (0..2) \X Nat : a = At(x, y)
    BY <2>2
  <2>4. Positioned(d, x, y) = [d EXCEPT !.cx = x, !.cy = y, !.ac = a]
    BY <1>2, <2>3 DEF Positioned
  <2> QED
    BY <1>2, <2>1, <2>3, <2>4 DEF Display
<1> QED
  BY <1>1, <1>2

(* A location on the screen is not ignored. *)
LEMMA ScreenAccepted ==
    ASSUME NEW x \in Int, NEW y \in Int, <<x, y>> \in Screen
    PROVE  ~Ignored(x, y)
BY GeometryAssumption DEF Screen, Ignored

(* lcdClear and lcdHome bring driver and display together, lcdInit and
   lcdCharDef leave a well-formed display. *)
LEMMA PlacedInStep ==
    ASSUME NEW d \in Display
    PROVE  /\ Cleared(d) \in Display /\ InStep(Cleared(d))
           /\ Homed(d) \in Display /\ InStep(Homed(d))
           /\ Initialised \in Display
           /\ CharDefined(d) \in Display
<1>1. 0 \in 0..Cols - 1 /\ 0 \in 0..Rows - 1 /\ 0 \in 0..Cols /\ 0 \in 0..Rows
  BY GeometryAssumption
<1>2. At(0, 0) = <<0, 0>> /\ <<0, 0>> \in (0..2) \X Nat
  BY DEF At, RowOff
<1>4. [a \in Address |-> Blank] \in [Address -> Char]
  BY ProgramAssumption
<1>5. Advance(<<0, 0>>) \in (0..2) \X Nat /\ CharGen \in (0..2) \X Nat
  BY GeometryAssumption DEF Advance, CharGen
<1>6. Cleared(d) \in Display /\ InStep(Cleared(d))
  BY <1>1, <1>2, <1>4, Zenon DEF Cleared, Display, InStep, Screen
<1>7. Homed(d) \in Display /\ InStep(Homed(d))
  BY <1>1, <1>2, Zenon DEF Homed, Display, InStep, Screen
<1>10. Initialised \in Display
  BY <1>1, <1>4, <1>5 DEF Initialised, Display
<1>11. CharDefined(d) \in Display
  BY <1>5 DEF CharDefined, Display
<1> QED
  BY <1>6, <1>7, <1>10, <1>11

-----------------------------------------------------------------------------
Inv == TypeOK /\ CursorInStep

(* A call about one display that leaves it typed, and in step if its cursor
   is then placed, preserves the invariant. *)
LEMMA OneText ==
    ASSUME Inv, NEW fd \in Fd, NEW d \in Display, NEW b \in BOOLEAN, Text(fd, d, b),
           b => InStep(d)
    PROVE  Inv'
<1>1. lcd \in [Fd -> Display]
  BY DEF Inv, TypeOK, Display
<1>2. lcd'[fd] = d /\ (\A g \in Fd : g # fd => lcd'[g] = lcd[g]) /\ lcd' \in [Fd -> Display]
  BY <1>1 DEF Text
<1>3. /\ placed' \subseteq open' /\ (fd \in placed' => b)
      /\ \A g \in placed' : g = fd \/ g \in placed
  BY DEF Text, Inv, TypeOK
<1>4. ASSUME NEW g \in placed' PROVE InStep(lcd'[g])
  BY <1>2, <1>3, <1>4 DEF Inv, TypeOK, CursorInStep
<1>5. CursorInStep'
  BY <1>4 DEF CursorInStep, InStep
<1> QED
  BY <1>2, <1>3, <1>5 DEF Text, Inv, TypeOK, Display

(* The program's calls, one display at a time. *)
Call(fd) ==
    \/ LcdInit(fd)
    \/ \E flag \in Flag, on \in BOOLEAN : LcdControl(fd, flag, on)
    \/ LcdClear(fd)
    \/ LcdHome(fd)
    \/ \E p \in Places : LcdPosition(fd, p[1], p[2])
    \/ LcdCharDef(fd)
    \/ \E c \in Char : LcdPutchar(fd, c)

(* Between any two calls of any program the display's address is that of the
   driver's cursor, on the screen, for every display whose cursor was placed
   by lcdClear, lcdHome, lcdPosition or a wrap, and stays so until the next
   lcdCharDef or a location off the screen. *)
THEOREM CursorStaysInStep == Spec => [](TypeOK /\ CursorInStep)
<1> USE ProgramAssumption
<1>1. Init => Inv
  <2>1. Initialised \in Display
    <3>1. 0 \in 0..Cols /\ 0 \in 0..Rows /\ Advance(<<0, 0>>) \in (0..2) \X Nat
      BY GeometryAssumption DEF Advance
    <3> QED
      BY <3>1 DEF Initialised, Display
  <2>2. 0 \in Nat
    OBVIOUS
  <2> QED
    BY <2>1, <2>2 DEF Init, Inv, TypeOK, CursorInStep, Display, Flag
<1>2. Inv /\ [Next]_vars => Inv'
  <2> SUFFICES ASSUME Inv, [Next]_vars PROVE Inv'
    OBVIOUS
  <2>0. lcd \in [Fd -> Display]
    BY DEF Inv, TypeOK, Display
  <2>1. CASE UNCHANGED vars
    BY <2>1 DEF vars, Inv, TypeOK, CursorInStep, InStep
  <2>2. ASSUME NEW fd \in Fd, Call(fd) PROVE Inv'
    <3>0. lcd[fd] \in Display
      BY <2>0
    <3>1. CASE LcdInit(fd)
      <4>1. fd \notin placed /\ fd \in Nat
        BY <3>1 DEF LcdInit, Inv, TypeOK, Fd
      <4>2. lcd' \in [Fd -> Display] /\ \A g \in Fd : g # fd => lcd'[g] = lcd[g]
        BY <2>0, <3>0, <3>1, PlacedInStep DEF LcdInit
      <4>3. ASSUME NEW g \in placed' PROVE InStep(lcd'[g])
        BY <3>1, <4>1, <4>2, <4>3 DEF LcdInit, Inv, TypeOK, CursorInStep
      <4>4. CursorInStep'
        BY <4>3 DEF CursorInStep, InStep
      <4>5. asked' \in [Flag -> [fd : Nat, on : BOOLEAN]]
        BY <3>1, <4>1 DEF LcdInit
      <4> QED
        BY <3>1, <4>2, <4>4, <4>5 DEF LcdInit, Inv, TypeOK, Flag, Display
    <3>2. CASE \E flag \in Flag, on \in BOOLEAN : LcdControl(fd, flag, on)
      <4> PICK flag \in Flag, on \in BOOLEAN : LcdControl(fd, flag, on)
        BY <3>2
      <4>1. lcdControl' \in SUBSET Flag
        BY DEF LcdControl, Inv, TypeOK
      <4>2. flags' \in [Fd -> SUBSET Flag]
        BY <4>1 DEF LcdControl, Inv, TypeOK
      <4>3. asked' \in [Flag -> [fd : Nat, on : BOOLEAN]]
        BY DEF LcdControl, Request, Inv, TypeOK, Fd
      <4> QED
        BY <4>1, <4>2, <4>3 DEF LcdControl, Inv, TypeOK, CursorInStep, InStep
    <3>3. CASE LcdClear(fd)
      BY <3>0, <3>3, PlacedInStep, OneText, Zenon DEF LcdClear
    <3>4. CASE LcdHome(fd)
      BY <3>0, <3>4, PlacedInStep, OneText, Zenon DEF LcdHome
    <3>5. CASE \E p \in Places : LcdPosition(fd, p[1], p[2])
      <4> PICK p \in Places : LcdPosition(fd, p[1], p[2])
        BY <3>5
      <4>1. PICK x \in Int, y \in Int : LcdPosition(fd, x, y)
        OBVIOUS
      <4>2. PICK d \in Display : d = Positioned(lcd[fd], x, y)
        BY <3>0, PositionedTyped
      <4>3. PICK b \in BOOLEAN : b = (<<x, y>> \in Screen \/ (Ignored(x, y) /\ fd \in placed))
        OBVIOUS
      <4>4. Text(fd, d, b)
        BY <4>1, <4>2, <4>3 DEF LcdPosition
      <4>5. ASSUME <<x, y>> \in Screen PROVE InStep(d)
        <5>1. d.cx = x /\ d.cy = y /\ d.ac = At(x, y)
          BY <3>0, <4>2, <4>5, PositionedTyped, ScreenAccepted
        <5> QED
          BY <4>5, <5>1 DEF InStep
      <4>6. ASSUME Ignored(x, y), fd \in placed PROVE InStep(d)
        <5>1. d = lcd[fd]
          BY <4>2, <4>6 DEF Positioned
        <5> QED
          BY <4>6, <5>1 DEF Inv, CursorInStep
      <4>7. b => InStep(d)
        BY <4>3, <4>5, <4>6
      <4> QED
        BY <4>4, <4>7, OneText
    <3>6. CASE LcdCharDef(fd)
      BY <3>0, <3>6, PlacedInStep, OneText, Zenon DEF LcdCharDef
    <3>7. CASE \E c \in Char : LcdPutchar(fd, c)
      <4> PICK c \in Char : LcdPutchar(fd, c)
        BY <3>7
      <4> DEFINE d == Putchar(lcd[fd], c)
                 b == fd \in placed \/ lcd[fd].cx + 1 = Cols
      <4>1. OnScreen(lcd[fd]) /\ Text(fd, d, b) /\ b \in BOOLEAN
        BY DEF LcdPutchar
      <4>2. fd \in placed => InStep(lcd[fd])
        BY DEF Inv, CursorInStep
      <4>3. d \in Display /\ (b => InStep(d))
        BY <3>0, <4>1, <4>2, PutcharTyped
      <4> HIDE DEF d, b
      <4> QED
        BY <4>1, <4>3, OneText
    <3> QED
      BY <2>2, <3>1, <3>2, <3>3, <3>4, <3>5, <3>6, <3>7 DEF Call
  <2> QED
    BY <2>1, <2>2 DEF Next, Call
<1> QED
  BY <1>1, <1>2, PTL DEF Spec, Inv

-----------------------------------------------------------------------------
(* Two places on the screen are two addresses of the display. *)
LEMMA PlacesApart ==
    ASSUME NEW x \in 0..Cols - 1, NEW y \in 0..Rows - 1,
           NEW u \in 0..Cols - 1, NEW v \in 0..Rows - 1, At(x, y) = At(u, v)
    PROVE  x = u /\ y = v
<1> DEFINE half == LineLen \div 2
           Off(r) == IF r < 2 THEN 0 ELSE half
<1>1. half \in Nat /\ (Rows > 2 => Cols <= half)
  BY GeometryAssumption
<1>2. y % 2 = v % 2 /\ Off(y) + x = Off(v) + u
  <2>1. y \in 0..3 /\ v \in 0..3
    BY GeometryAssumption
  <2> QED
    BY <2>1 DEF At, RowOff
<1>3. y \in {0, 1, 2, 3} /\ v \in {0, 1, 2, 3} /\ x \in Nat /\ u \in Nat /\ Cols \in Nat
  BY GeometryAssumption
<1>4. CASE (y < 2) = (v < 2)
  <2>1. x = u
    BY <1>1, <1>2, <1>3, <1>4
  <2>2. y = v
    BY <1>2, <1>3, <1>4
  <2> QED
    BY <2>1, <2>2
<1>5. CASE y < 2 /\ ~(v < 2)
  BY <1>1, <1>2, <1>3, <1>5, GeometryAssumption
<1>6. CASE ~(y < 2) /\ v < 2
  BY <1>1, <1>2, <1>3, <1>6, GeometryAssumption
<1> QED
  BY <1>3, <1>4, <1>5, <1>6

(* What is on the screen of a display. *)
View(d) == [p \in Screen |-> d.ram[At(p[1], p[2])]]

(* lcdPutchar changes one place of the screen, the one at the cursor. *)
LEMMA PutcharShows ==
    ASSUME NEW d \in Display, NEW c \in Char, InStep(d)
    PROVE  /\ View(Putchar(d, c)) = [View(d) EXCEPT ![<<d.cx, d.cy>>] = c]
           /\ Putchar(d, c).cx = IF d.cx + 1 < Cols THEN d.cx + 1 ELSE 0
           /\ Putchar(d, c).cy = IF d.cx + 1 < Cols THEN d.cy ELSE (d.cy + 1) % Rows
<1>1. d.cx \in 0..Cols - 1 /\ d.cy \in 0..Rows - 1 /\ d.ac = At(d.cx, d.cy)
  BY DEF InStep, Screen
<1>2. At(d.cx, d.cy) \in Address
  BY <1>1, RowFits
<1> DEFINE w == Written(d, c)
           y == IF d.cy + 1 = Rows THEN 0 ELSE d.cy + 1
<1>3. w \in Display /\ w.cx = d.cx /\ w.cy = d.cy
  BY WrittenTyped
<1>4. w.ram = [d.ram EXCEPT ![At(d.cx, d.cy)] = c]
  BY <1>1, <1>2 DEF Written, Display
<1>5. Putchar(d, c) = IF d.cx + 1 = Cols THEN [w EXCEPT !.cx = 0, !.cy = y, !.ac = At(0, y)]
                      ELSE [w EXCEPT !.cx = d.cx + 1]
  BY DEF Putchar
<1> HIDE DEF w, y
<1>6. /\ Putchar(d, c).ram = w.ram
      /\ Putchar(d, c).cx = IF d.cx + 1 = Cols THEN 0 ELSE d.cx + 1
      /\ Putchar(d, c).cy = IF d.cx + 1 = Cols THEN y ELSE d.cy
  BY <1>3, <1>5 DEF Display
<1>7. y = (d.cy + 1) % Rows
  BY <1>1, GeometryAssumption DEF y
<1>8. View(Putchar(d, c)) = [View(d) EXCEPT ![<<d.cx, d.cy>>] = c]
  <2>1. ASSUME NEW p \in Screen
        PROVE  w.ram[At(p[1], p[2])] = IF p = <<d.cx, d.cy>> THEN c ELSE d.ram[At(p[1], p[2])]
    <3>1. p[1] \in 0..Cols - 1 /\ p[2] \in 0..Rows - 1 /\ p = <<p[1], p[2]>>
      BY DEF Screen
    <3>2. At(p[1], p[2]) \in Address /\ d.ram \in [Address -> Char]
      BY <3>1, RowFits DEF Display
    <3>3. At(p[1], p[2]) = At(d.cx, d.cy) => p[1] = d.cx /\ p[2] = d.cy
      BY <1>1, <3>1, PlacesApart
    <3>4. p = <<d.cx, d.cy>> => p[1] = d.cx /\ p[2] = d.cy
      OBVIOUS
    <3>5. At(p[1], p[2]) = At(d.cx, d.cy) <=> p = <<d.cx, d.cy>>
      BY <3>1, <3>3, <3>4, Zenon
    <3> QED
      BY <1>2, <1>4, <3>2, <3>5, Zenon
  <2> QED
    BY <1>6, <2>1, Zenon DEF View
<1>9. d.cx + 1 = Cols <=> ~(d.cx + 1 < Cols)
  BY <1>1, GeometryAssumption
<1> QED
  BY <1>6, <1>7, <1>8, <1>9

(* lcdPosition leaves what is shown as it is. *)
LEMMA PositionedShows ==
    ASSUME NEW d \in Display, NEW x \in Int, NEW y \in Int
    PROVE  View(Positioned(d, x, y)) = View(d)
BY PositionedTyped, Zenon DEF View

(* The other calls leave the screen as it is or clear it. *)
LEMMA OthersShow ==
    ASSUME NEW d \in Display
    PROVE  /\ View(Cleared(d)) = [p \in Screen |-> Blank]
           /\ Cleared(d).cx = 0 /\ Cleared(d).cy = 0
           /\ View(Homed(d)) = View(d) /\ Homed(d).cx = 0 /\ Homed(d).cy = 0
           /\ View(CharDefined(d)) = View(d)
           /\ CharDefined(d).cx = d.cx /\ CharDefined(d).cy = d.cy
<1>1. \A p \in Screen : At(p[1], p[2]) \in Address
  BY RowFits DEF Screen
<1>3. Cleared(d).ram = [a \in Address |-> Blank] /\ Cleared(d).cx = 0 /\ Cleared(d).cy = 0
  BY DEF Cleared, Display
<1>4. Homed(d).ram = d.ram /\ Homed(d).cx = 0 /\ Homed(d).cy = 0
  BY DEF Homed, Display
<1>5. /\ CharDefined(d).ram = d.ram
      /\ CharDefined(d).cx = d.cx /\ CharDefined(d).cy = d.cy
  BY DEF CharDefined, Display
<1>6. View(Cleared(d)) = [p \in Screen |-> Blank]
  BY <1>1, <1>3, Zenon DEF View
<1> QED
  BY <1>3, <1>4, <1>5, <1>6, Zenon DEF View

StepOf(fd) == TerminalOf(fd)!Next \/ UNCHANGED TerminalView(fd) \/ LeavesScreen(fd)

(* One step, seen on a display with a placed cursor: a step of the terminal,
   no change, or the cursor leaving the screen. *)
LEMMA OneTerminal ==
    ASSUME Inv, Next
    PROVE  \A fd \in placed : StepOf(fd)
<1> USE ProgramAssumption
<1>1. lcd \in [Fd -> Display] /\ open \subseteq Fd /\ placed \subseteq open
  BY DEF Inv, TypeOK, Display
<1>2. PICK fd \in Fd : Call(fd)
  BY DEF Next, Call
<1>3. lcd[fd] \in Display
  BY <1>1, <1>2
<1>4. <<0, 0>> \in Screen
  BY GeometryAssumption DEF Screen
<1>5. ASSUME NEW g \in Fd, lcd'[g] = lcd[g] PROVE StepOf(g)
  BY <1>5 DEF TerminalView, Shown, StepOf
<1>6. ASSUME NEW e, NEW b, Text(fd, e, b),
             \/ View(e) = View(lcd[fd])
             \/ View(e) = [p \in Screen |-> Blank] /\ e.cx = 0 /\ e.cy = 0
             \/ \E c \in Char :
                  /\ View(e) = [View(lcd[fd]) EXCEPT ![<<lcd[fd].cx, lcd[fd].cy>>] = c]
                  /\ e.cx = IF lcd[fd].cx + 1 < Cols THEN lcd[fd].cx + 1 ELSE 0
                  /\ e.cy = IF lcd[fd].cx + 1 < Cols THEN lcd[fd].cy
                            ELSE (lcd[fd].cy + 1) % Rows
      PROVE  \A g \in placed : StepOf(g)
  <2>1. lcd'[fd] = e /\ \A g \in Fd : g # fd => lcd'[g] = lcd[g]
    BY <1>1, <1>2, <1>6 DEF Text
  <2>2. Shown(fd) = View(lcd[fd]) /\ Shown(fd)' = View(e)
    BY <2>1 DEF Shown, View
  <2>3. StepOf(fd)
    <3>1. CASE View(e) = View(lcd[fd]) /\ OnScreen(e)
      BY <2>1, <2>2, <3>1, Zenon
        DEF StepOf, OnScreen, Screen, TerminalOf!Next, TerminalOf!Goto, TerminalOf!Cells
    <3>2. CASE View(e) = View(lcd[fd]) /\ ~OnScreen(e)
      BY <2>1, <2>2, <3>2, Zenon DEF StepOf, LeavesScreen
    <3>3. CASE View(e) = [p \in Screen |-> Blank] /\ e.cx = 0 /\ e.cy = 0
      BY <2>1, <2>2, <3>3, Zenon DEF StepOf,
           Screen, TerminalOf!Next, TerminalOf!Clear, TerminalOf!Empty, TerminalOf!Cells
    <3>4. ASSUME NEW c \in Char,
                 View(e) = [View(lcd[fd]) EXCEPT ![<<lcd[fd].cx, lcd[fd].cy>>] = c],
                 e.cx = IF lcd[fd].cx + 1 < Cols THEN lcd[fd].cx + 1 ELSE 0,
                 e.cy = IF lcd[fd].cx + 1 < Cols THEN lcd[fd].cy
                        ELSE (lcd[fd].cy + 1) % Rows
          PROVE  StepOf(fd)
      <4>1. <<e.cx, e.cy>> = TerminalOf(fd)!After(<<lcd[fd].cx, lcd[fd].cy>>)
        BY <3>4 DEF TerminalOf!After
      <4>2. TerminalOf(fd)!Put(c)
        BY <2>1, <2>2, <3>4, <4>1, Zenon DEF TerminalOf!Put
      <4> QED
        BY <4>2 DEF TerminalOf!Next, StepOf
    <3> QED
      BY <1>6, <3>1, <3>2, <3>3, <3>4
  <2> QED
    BY <1>1, <1>5, <2>1, <2>3
<1>7. CASE LcdInit(fd)
  <2>1. fd \notin placed /\ \A g \in Fd : g # fd => lcd'[g] = lcd[g]
    BY <1>1, <1>7 DEF LcdInit
  <2> QED
    BY <1>1, <1>5, <2>1
<1>8. CASE \E flag \in Flag, on \in BOOLEAN : LcdControl(fd, flag, on)
  BY <1>1, <1>5, <1>8 DEF LcdControl
<1>9. CASE LcdClear(fd)
  BY <1>3, <1>6, <1>9, OthersShow, Zenon DEF LcdClear
<1>10. CASE LcdHome(fd)
  BY <1>3, <1>6, <1>10, OthersShow, Zenon DEF LcdHome
<1>11. CASE \E p \in Places : LcdPosition(fd, p[1], p[2])
  <2>1. PICK p \in Places : LcdPosition(fd, p[1], p[2])
    BY <1>11
  <2>2. PICK x \in Int, y \in Int : LcdPosition(fd, x, y)
    BY <2>1
  <2>3. View(Positioned(lcd[fd], x, y)) = View(lcd[fd])
    BY <1>3, PositionedShows
  <2> QED
    BY <1>6, <2>2, <2>3, Zenon DEF LcdPosition
<1>12. CASE LcdCharDef(fd)
  BY <1>3, <1>6, <1>12, OthersShow, Zenon DEF LcdCharDef
<1>13. CASE \E c \in Char : LcdPutchar(fd, c)
  <2>1. PICK c \in Char : LcdPutchar(fd, c)
    BY <1>13
  <2>2. CASE fd \in placed
    <3>1. InStep(lcd[fd])
      BY <2>2 DEF Inv, CursorInStep
    <3> QED
      BY <1>3, <1>6, <2>1, <3>1, PutcharShows, Zenon DEF LcdPutchar
  <2>3. CASE fd \notin placed
    <3>1. \A g \in Fd : g # fd => lcd'[g] = lcd[g]
      BY <1>1, <2>1 DEF LcdPutchar, Text
    <3> QED
      BY <1>1, <1>5, <2>3, <3>1
  <2> QED
    BY <2>2, <2>3
<1> QED
  BY <1>2, <1>7, <1>8, <1>9, <1>10, <1>11, <1>12, <1>13 DEF Call

(* A display whose cursor was placed is the terminal that the comment above
   lcdPutchar promises, for any program: a character goes to the place of the
   cursor and the cursor to the next place, and nothing else on the screen
   changes. *)
THEOREM DisplaysAreTerminals == Spec => EachIsATerminal
<1> DEFINE Step == \A fd \in placed : StepOf(fd)
<1>1. Inv /\ [Next]_vars => [Step]_vars
  BY OneTerminal
<1>2. Spec => []Inv
  BY CursorStaysInStep DEF Inv
<1>3. Spec => [][Step]_vars
  BY <1>1, <1>2, PTL DEF Spec
<1> QED
  BY <1>3, PTL DEF EachIsATerminal, StepOf

-----------------------------------------------------------------------------
(* The static control bits are the last requests, and the display of a last
   request has it. *)
Requests ==
    /\ open \subseteq Fd
    /\ DOMAIN flags = Fd
    /\ asked \in [Flag -> [fd : Nat, on : BOOLEAN]]
    /\ open # {} => \A flag \in Flag : flag \in lcdControl <=> asked[flag].on
    /\ LastRequestHonoured

(* The display last asked for a bit has it as asked, for any number of
   displays: lcdControl, which they share, carries every other bit along. *)
THEOREM LastRequestStaysHonoured == Spec => []LastRequestHonoured
<1>1. Init => Requests
  BY DEF Init, Requests, LastRequestHonoured
<1>2. Requests /\ [Next]_vars => Requests'
  <2> SUFFICES ASSUME Requests, [Next]_vars PROVE Requests'
    OBVIOUS
  <2>1. CASE UNCHANGED <<open, lcdControl, flags, asked>>
    BY <2>1 DEF Requests, LastRequestHonoured
  <2>2. ASSUME NEW fd \in Fd, LcdInit(fd) PROVE Requests'
    <3>1. fd \in Nat /\ asked' \in [Flag -> [fd : Nat, on : BOOLEAN]]
      BY <2>2 DEF LcdInit, Fd
    <3>2. \A flag \in Flag : asked'[flag].fd = fd /\ (asked'[flag].on <=> flag = "DISPLAY")
      BY <2>2 DEF LcdInit
    <3>3. flags'[fd] = {"DISPLAY"} /\ lcdControl' = {"DISPLAY"} /\ DOMAIN flags' = Fd
      BY <2>2 DEF LcdInit, Requests
    <3>4. open' \subseteq Fd
      BY <2>2 DEF LcdInit, Requests
    <3>5. LastRequestHonoured'
      BY <3>2, <3>3 DEF LastRequestHonoured
    <3> QED
      BY <3>1, <3>2, <3>3, <3>4, <3>5 DEF Requests
  <2>3. ASSUME NEW fd \in Fd, NEW flag \in Flag, NEW on \in BOOLEAN, LcdControl(fd, flag, on)
        PROVE  Requests'
    <3>1. fd \in Nat /\ fd \in open /\ open' = open
      BY <2>3 DEF LcdControl, Fd
    <3>2. asked' \in [Flag -> [fd : Nat, on : BOOLEAN]]
      BY <2>3, <3>1 DEF LcdControl, Request, Requests
    <3>3. /\ asked'[flag] = [fd |-> fd, on |-> on]
          /\ \A f \in Flag : f # flag => asked'[f] = asked[f]
      BY <2>3 DEF LcdControl, Request, Requests
    <3>4. \A f \in Flag : f \in lcdControl' <=> asked'[f].on
      <4>1. flag \in lcdControl' <=> on
        BY <2>3 DEF LcdControl
      <4>2. \A f \in Flag : f # flag => (f \in lcdControl' <=> f \in lcdControl)
        BY <2>3 DEF LcdControl
      <4> QED
        BY <3>1, <3>3, <4>1, <4>2 DEF Requests
    <3>5. /\ flags'[fd] = lcdControl' /\ DOMAIN flags' = Fd
          /\ \A g \in Fd : g # fd => flags'[g] = flags[g]
      BY <2>3 DEF LcdControl, Requests
    <3>6. ASSUME NEW f \in Flag, asked'[f].fd \in open'
          PROVE  f \in flags'[asked'[f].fd] <=> asked'[f].on
      <4>1. CASE asked'[f].fd = fd
        BY <3>4, <3>5, <4>1
      <4>2. CASE asked'[f].fd # fd
        <5>1. f # flag /\ asked'[f] = asked[f]
          BY <3>3, <4>2
        <5> QED
          BY <3>1, <3>5, <3>6, <4>2, <5>1 DEF Requests, LastRequestHonoured
      <4> QED
        BY <4>1, <4>2
    <3>7. LastRequestHonoured'
      BY <3>6 DEF LastRequestHonoured
    <3> QED
      BY <3>1, <3>2, <3>4, <3>5, <3>7 DEF Requests
  <2> QED
    BY <2>1, <2>2, <2>3
      DEF Next, vars, LcdClear, LcdHome, LcdPosition, Text, LcdCharDef, LcdPutchar
<1>3. Requests => LastRequestHonoured
  BY DEF Requests
<1> QED
  BY <1>1, <1>2, <1>3, PTL DEF Spec
=============================================================================
