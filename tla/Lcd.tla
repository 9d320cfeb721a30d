-------------------------------- MODULE Lcd ---------------------------------
(***************************************************************************)
(* Programs calling wiringPi/devLib/lcd.c for up to MaxLcds displays.  The *)
(* calls of a program are made one after the other; each is one action.    *)
(* A program is [lcds, calls]: how many displays it opens, and whether it  *)
(* makes calls about "text", about "control", or both.                     *)
(*                                                                         *)
(* lcdControl, the display / cursor / blink bits, is one static variable   *)
(* of the driver; `flags' is what each display was last sent, and `asked'  *)
(* the last request about each bit, of whichever display.                  *)
(***************************************************************************)
EXTENDS LcdDriver

CONSTANTS
    MaxLcds,        \* MAX_LCDS
    Char,           \* characters the program writes
    Places,         \* the <<x, y>> it passes to lcdPosition
    Programs        \* the programs

ASSUME ProgramAssumption ==
    /\ MaxLcds \in Nat
    /\ Blank \in Char
    /\ Places \subseteq Int \X Int
    /\ Programs \subseteq [lcds : Nat, calls : SUBSET {"text", "control"}]

Fd == 0..MaxLcds - 1
Flag == {"DISPLAY", "CURSOR", "BLINK"}

VARIABLES
    program,        \* the program that is running
    open,           \* handles in use: lcds[fd] # NULL
    lcd,            \* driver and display state of each handle
    placed,         \* handles whose cursor was put on the screen by a command
                    \* of the driver, lcdInit and lcdCharDef not counting
    lcdControl,     \* the driver's static control bits
    flags,          \* each display's control bits
    asked           \* the last request about each bit: [fd, on]

vars == <<program, open, lcd, placed, lcdControl, flags, asked>>

Init ==
    /\ program \in Programs
    /\ open = {}
    /\ lcd = [fd \in Fd |-> Initialised]
    /\ placed = {}
    /\ lcdControl = {}
    /\ flags = [fd \in Fd |-> {}]
    /\ asked = [flag \in Flag |-> [fd |-> 0, on |-> FALSE]]

(* lcdInit takes the first free handle and ends with lcdDisplay, lcdCursor and
   lcdCursorBlink: the display on, the cursor and its blinking off. *)
LcdInit(fd) ==
    /\ fd \in Fd \ open
    /\ fd < program.lcds
    /\ \A g \in Fd \ open : fd <= g
    /\ open' = open \cup {fd}
    /\ lcd' = [lcd EXCEPT ![fd] = Initialised]
    /\ lcdControl' = {"DISPLAY"}
    /\ flags' = [flags EXCEPT ![fd] = {"DISPLAY"}]
    /\ asked' = [flag \in Flag |-> [fd |-> fd, on |-> flag = "DISPLAY"]]
    /\ UNCHANGED <<program, placed>>

Request(fd, flag, on) == asked' = [asked EXCEPT ![flag] = [fd |-> fd, on |-> on]]

\* Mutant: lcdControl is assigned the bit, not or-ed with it.
LcdControlAssigned(fd, flag, on) ==
    /\ "control" \in program.calls
    /\ fd \in open
    /\ lcdControl' = IF on THEN {flag} ELSE lcdControl \ {flag}
    /\ flags' = [flags EXCEPT ![fd] = lcdControl']
    /\ Request(fd, flag, on)
    /\ UNCHANGED <<program, open, lcd, placed>>

(* lcdDisplay, lcdCursor and lcdCursorBlink. *)
LcdControl(fd, flag, on) ==
    /\ "control" \in program.calls
    /\ fd \in open
    /\ lcdControl' = IF on THEN lcdControl \cup {flag} ELSE lcdControl \ {flag}
    /\ flags' = [flags EXCEPT ![fd] = lcdControl']
    /\ Request(fd, flag, on)
    /\ UNCHANGED <<program, open, lcd, placed>>

-----------------------------------------------------------------------------
(* A call that changes one display and says whether its cursor is then
   placed. *)
Text(fd, d, isPlaced) ==
    /\ "text" \in program.calls
    /\ fd \in open
    /\ lcd' = [lcd EXCEPT ![fd] = d]
    /\ placed' = IF isPlaced THEN placed \cup {fd} ELSE placed \ {fd}
    /\ UNCHANGED <<program, open, lcdControl, flags, asked>>

OnScreen(d) == <<d.cx, d.cy>> \in Screen

LcdClear(fd) == Text(fd, Cleared(lcd[fd]), TRUE)

LcdHome(fd) == Text(fd, Homed(lcd[fd]), TRUE)

LcdPosition(fd, x, y) ==
    Text(fd, Positioned(lcd[fd], x, y),
         <<x, y>> \in Screen \/ (Ignored(x, y) /\ fd \in placed))

LcdCharDef(fd) == Text(fd, CharDefined(lcd[fd]), FALSE)

(* lcdPutchar; lcdPuts and lcdPrintf are sequences of these.  At the end of a
   row the driver sends the address of the next.  Programs do not write with
   the cursor beyond the screen, from where it would run on. *)
LcdPutchar(fd, c) ==
    /\ OnScreen(lcd[fd])
    /\ Text(fd, Putchar(lcd[fd], c), fd \in placed \/ lcd[fd].cx + 1 = Cols)

Next ==
    \E fd \in Fd :
        \/ LcdInit(fd)
        \/ \E flag \in Flag, on \in BOOLEAN : LcdControl(fd, flag, on)
        \/ LcdClear(fd)
        \/ LcdHome(fd)
        \/ \E p \in Places : LcdPosition(fd, p[1], p[2])
        \/ LcdCharDef(fd)
        \/ \E c \in Char : LcdPutchar(fd, c)

Spec == Init /\ [][Next]_vars

-----------------------------------------------------------------------------
(* Handles, cursors, addresses and control bits have their types.  The cursor
   is at most one place beyond the screen, where lcdPosition still accepts
   it; only open displays have a placed cursor. *)
TypeOK ==
    /\ program \in Programs
    /\ open \subseteq Fd
    /\ placed \subseteq open
    /\ lcd \in [Fd -> [cx : 0..Cols, cy : 0..Rows, ac : (0..2) \X Nat,
                       ram : [Address -> Char]]]
    /\ lcdControl \subseteq Flag
    /\ flags \in [Fd -> SUBSET Flag]
    /\ asked \in [Flag -> [fd : Nat, on : BOOLEAN]]

(* The display writes where the driver believes the cursor to be, on the
   screen, once a command has put it there: no sequence of lcdPutchar, with
   its wraps from row to row and from the last row to the first, and no
   location that lcdPosition ignores, lets the two drift apart; and what
   lcdInit and lcdCharDef leave apart comes together at the next wrap. *)
CursorInStep == \A fd \in placed : InStep(lcd[fd])

(* What the user sees of a display. *)
Shown(fd) == [p \in Screen |-> lcd[fd].ram[At(p[1], p[2])]]

(* lcdDisplay, lcdCursor and lcdCursorBlink "Turn the display, cursor, cursor
   blinking on/off": the display that was last asked for one of them has it
   as asked, whatever was asked since about the others and of the other
   displays, all of which share lcdControl. *)
LastRequestHonoured ==
    \A flag \in Flag :
        asked[flag].fd \in open => (flag \in flags[asked[flag].fd] <=> asked[flag].on)

(* Seen from outside, a display whose cursor was placed is the simple
   terminal: a character goes to the cursor's place, the cursor to the next
   place, nothing else on the screen changes.  lcdPosition may still take the
   cursor off the screen, and changes nothing on it. *)
TerminalOf(fd) == INSTANCE Terminal WITH screen <- Shown(fd),
    cursor <- <<lcd[fd].cx, lcd[fd].cy>>
TerminalView(fd) == <<Shown(fd), lcd[fd].cx, lcd[fd].cy>>
LeavesScreen(fd) == ~OnScreen(lcd'[fd]) /\ UNCHANGED Shown(fd)
EachIsATerminal ==
    [][\A fd \in placed :
          TerminalOf(fd)!Next \/ UNCHANGED TerminalView(fd) \/ LeavesScreen(fd)]_vars
=============================================================================
