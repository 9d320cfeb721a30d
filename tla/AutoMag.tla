------------------------------ MODULE AutoMag -------------------------------
(***************************************************************************)
(* AutoMag's program, libtelnet/util/telnet-projekat1.c: the loop of main  *)
(* between its two descriptors, the terminal and the TCP connection to the *)
(* Carberry board, and the board's side as the program uses it (external). *)
(*                                                                         *)
(* The board reports a CAN frame as 24 bytes of text that the program      *)
(* collects with three calls of recv, 8 bytes each: a "head" with RX2 and  *)
(* the identifier, a "mid" with the speed, a "tail" with fuel level and    *)
(* temperature.  The unit of the stream is such a piece of 8 bytes.        *)
(* The program drives two LEDs of the board with lines of text.            *)
(***************************************************************************)
EXTENDS Naturals, Sequences

CONSTANTS
    Frames,         \* frames the board may report: [mine, speed, rest]
    Keys,           \* keys the user may press
    Merge,          \* bound: pieces one recv may return
    MaxFrames,      \* bound: frames reported
    MaxKeys         \* bound: keys pressed outside the LIN menu, a second one
                    \* behind a key not yet read not counted

ASSUME BoardAssumption ==
    /\ Frames \subseteq [mine : BOOLEAN, speed : 0..255, rest : Nat \ {0}]
    /\ Merge \in Nat \ {0}
    /\ MaxFrames \in Nat /\ MaxKeys \in Nat

VARIABLES
    pc,             \* where main is: poll, part2, part3, lin, baud or exit
    typed,          \* bytes waiting on the terminal
    inq,            \* pieces waiting on the socket
    closed,         \* the board has closed the connection
    received,       \* recieveBuffer, Merge pieces
    buf,            \* dataBuffer, three pieces
    shown,          \* the last arguments of lcdScreen
    green, red,     \* greenLedState, redLedState
    out,            \* what was sent to the board and not yet read by it
    \* the board
    coming,         \* pieces of the frame being reported
    line,           \* the text since the last line end
    leds,           \* LEDs that are on
    \* history
    cut,            \* how many parts of the frame being collected came at the
                    \* end of what their recv returned
    latest,         \* the last frame of ours collected from such parts; Mixed
                    \* if the parts of the last one came otherwise
    cleared,        \* s was pressed since the LEDs were last switched
    frames, keys    \* frames reported, keys pressed (as MaxKeys counts them)

program == <<pc, received, buf, shown, green, red>>
board   == <<coming, line, leds, closed, frames>>
vars    == <<program, board, typed, inq, out, cut, latest, cleared, keys>>

history == <<cut, latest>>

NoFrame == [mine |-> FALSE, speed |-> 0, rest |-> 0]
Mixed   == [mine |-> TRUE, speed |-> 0, rest |-> 0]

Piece(kind, f) == [kind |-> kind, frame |-> f]
Nul == Piece("nul", NoFrame)

(* The board sends on a frame that began before the program connected, and its
   LEDs are as an earlier run of the program has left them.  recieveBuffer is
   not initialized: what lies behind the bytes received holds no RX2, and it
   makes no difference to strstr whether it is zero. *)
Init ==
    /\ pc = "poll"
    /\ typed = <<>>
    /\ \/ inq = <<>>
       \/ inq = <<Piece("mid", NoFrame), Piece("tail", NoFrame)>>
    /\ closed = FALSE
    /\ received = [k \in 1..Merge |-> Nul]
    /\ buf = <<Nul, Nul, Nul>>
    /\ shown = NoFrame
    /\ green = 0 /\ red = 0
    /\ out = <<>>
    /\ coming = <<>>
    /\ line = "empty"
    /\ leds \in {{}, {"LED1"}, {"LED2"}}
    /\ cut = 0 /\ latest = NoFrame
    /\ cleared = FALSE
    /\ frames = 0 /\ keys = 0

-----------------------------------------------------------------------------
(* The board and the user (external). *)

(* The exit of the program ends the connection too. *)
Connected == ~closed /\ pc # "exit"

(* A CAN frame is reported: its pieces follow one another. *)
Report(f) ==
    /\ Connected /\ coming = <<>>
    /\ frames < MaxFrames
    /\ frames' = frames + 1
    /\ inq' = Append(inq, Piece("head", f))
    /\ coming' = <<Piece("mid", f), Piece("tail", f)>>
    /\ UNCHANGED <<program, line, leds, closed, typed, out, history, cleared, keys>>

ReportMore ==
    /\ Connected /\ coming # <<>>
    /\ inq' = Append(inq, Head(coming))
    /\ coming' = Tail(coming)
    /\ UNCHANGED <<program, line, leds, closed, frames, typed, out, history, cleared, keys>>

(* An answer to a command, between two frames; it counts as a frame. *)
Answer ==
    /\ Connected /\ coming = <<>>
    /\ frames < MaxFrames
    /\ frames' = frames + 1
    /\ inq' = Append(inq, Piece("answer", NoFrame))
    /\ UNCHANGED <<program, coming, line, leds, closed, typed, out, history, cleared, keys>>

Close ==
    /\ Connected
    /\ closed' = TRUE
    /\ UNCHANGED <<program, coming, line, leds, frames, typed, inq, out, history, cleared, keys>>

(* The words of a line, as the board takes them: one command, or nonsense. *)
TextOf(words) ==
    IF words = <<>> THEN "empty" ELSE IF Len(words) = 1 THEN Head(words) ELSE "garbled"

LastOf(S) == CHOOSE k \in S : \A j \in S : j <= k

LineEnds == {k \in 1..Len(out) : out[k] = "eol"}

(* The line up to the k-th token of out; the first one has begun before. *)
LineTo(k) ==
    LET end == LastOf({0} \cup {j \in LineEnds : j < k})
    IN  TextOf((IF end = 0 /\ line # "empty" THEN <<line>> ELSE <<>>)
               \o SubSeq(out, end + 1, k - 1))

LedSet(led)   == IF led = "LED1" THEN "LED1 SET" ELSE "LED2 SET"
LedClear(led) == IF led = "LED1" THEN "LED1 CLEAR" ELSE "LED2 CLEAR"

(* The board reads all that was sent.  A line that is a command and nothing
   else is executed at its end, so the last one about a LED counts. *)
Obey ==
    /\ out # <<>>
    /\ out' = <<>>
    /\ line' = LineTo(Len(out) + 1)
    /\ leds' = {led \in {"LED1", "LED2"} :
                  LET about == {k \in LineEnds : LineTo(k) \in {LedSet(led), LedClear(led)}}
                  IN  IF about = {} THEN led \in leds
                      ELSE LineTo(LastOf(about)) = LedSet(led)}
    /\ UNCHANGED <<program, coming, closed, frames, typed, inq, history, cleared, keys>>

(* The user is never short of keys to answer the questions of the LIN menu,
   or of a second key before the program has read the first. *)
Press(k) ==
    /\ \/ pc # "exit" /\ keys < MaxKeys /\ keys' = keys + 1
       \/ pc \in {"lin", "baud"} /\ typed = <<>> /\ UNCHANGED keys
       \/ pc = "poll" /\ Len(typed) = 1 /\ UNCHANGED keys
    /\ typed' = Append(typed, k)
    /\ UNCHANGED <<program, board, inq, out, history, cleared>>

-----------------------------------------------------------------------------
(* The terminal half of the loop.  _input sends its argument with every \r
   and every \n turned into CR LF, so "\r\n" ends two lines. *)

Sent(key) == IF key = "enter" THEN "eol" ELSE "key"

Line(command) == <<command, "eol">>
TwoLines(command) == <<command, "eol", "eol">>

Setup ==
    TwoLines("AT") \o TwoLines("LED1 CLEAR") \o TwoLines("LED2 CLEAR")
    \o TwoLines("CAN ALIGN") \o TwoLines("CAN OPEN") \o TwoLines("CAN FILTER")
    \o TwoLines("CAN MASK")

\* Mutant: the last key read counts.
LastKey == typed[Len(typed)]

(* Only buffer[0] is looked at. *)
Key == Head(typed)

(* read(STDIN) takes all that was typed; only buffer[0] is looked at.  Its
   value, compared with 0 before it is assigned, leaves rs at 1: the
   _input(buffer, rs) after the switch sends one more byte, the key. *)
ReadTerminal ==
    /\ pc = "poll"
    /\ typed # <<>>
    /\ typed' = <<>>
    /\ \/ /\ Key = "q"
          /\ pc' = "exit"
          /\ UNCHANGED <<out, cleared>>
       \/ /\ Key = "l"
          /\ pc' = "lin"
          /\ UNCHANGED <<out, cleared>>
       \/ /\ Key = "s"
          /\ out' = out \o Setup \o <<"key">>
          /\ cleared' = TRUE
          /\ UNCHANGED pc
       \/ /\ Key \notin {"q", "l", "s"}
          /\ out' = out \o <<Sent(Key), Sent(Key)>>
          /\ UNCHANGED <<pc, cleared>>
    /\ UNCHANGED <<received, buf, shown, green, red, board, inq, history, keys>>

(* The read inside case 'l' stores its count in rs: that many bytes of
   buffer follow, NULs after LIN CLOSE and the keys themselves otherwise. *)
ReadLinOption ==
    /\ pc = "lin"
    /\ typed # <<>>
    /\ typed' = <<>>
    /\ \/ /\ Key \in {"1", "2", "3", "4", "5"}
          /\ pc' = "baud"
          /\ UNCHANGED out
       \/ /\ Key = "6"
          /\ pc' = "poll"
          /\ out' = out \o Line("LIN CLOSE") \o [k \in 1..Len(typed) |-> "key"]
       \/ /\ Key \notin {"1", "2", "3", "4", "5", "6"}
          /\ pc' = "poll"
          /\ out' = out \o [k \in 1..Len(typed) |-> Sent(typed[k])]
    /\ UNCHANGED <<received, buf, shown, green, red, board, inq, history, cleared, keys>>

(* LIN OPEN, then the first bytes of that text once more. *)
LinOpen == out' = out \o TwoLines("LIN OPEN") \o <<"key">>

(* scanf takes what was typed and waits for more as long as all of it are
   spaces or digits. *)
ReadBaudrate ==
    /\ pc = "baud"
    /\ typed # <<>>
    /\ typed' = <<>>
    /\ \/ pc' = "poll" /\ LinOpen
       \/ UNCHANGED <<pc, out>>
    /\ UNCHANGED <<received, buf, shown, green, red, board, inq, history, cleared, keys>>

(* End of input on the terminal breaks the loop.  In the LIN menu it is no
   option, rs is 0 and nothing follows; scanf gives up, as it does at once
   with what an earlier scanf has left in the buffer of stdin. *)
TerminalEnds ==
    /\ typed = <<>>
    /\ \/ pc = "poll" /\ pc' = "exit" /\ UNCHANGED out
       \/ pc = "lin" /\ pc' = "poll" /\ UNCHANGED out
       \/ pc = "baud" /\ pc' = "poll" /\ LinOpen
    /\ UNCHANGED <<received, buf, shown, green, red, board, typed, inq, history,
                   cleared, keys>>

-----------------------------------------------------------------------------
(* The socket half of the loop. *)

(* recv puts n pieces at the start of recieveBuffer and leaves the rest. *)
Overlaid(n) == [k \in 1..Merge |-> IF k <= n THEN inq[k] ELSE received[k]]

(* strstr(recieveBuffer, "RX2"): the buffer up to its first NUL, not only
   the bytes just received. *)
HeadsIn(r) ==
    {k \in 1..Merge : r[k].kind = "head" /\ \A j \in 1..k : r[j].kind # "nul"}

First(S) == CHOOSE k \in S : \A j \in S : k <= j

Receive(n) ==
    /\ n \in 1..Len(inq)
    /\ received' = Overlaid(n)
    /\ inq' = SubSeq(inq, n + 1, Len(inq))
    /\ UNCHANGED <<board, typed, keys>>

(* The history of the recv that brings the first part, the second, the third. *)
CutBehindHead(n) ==
    /\ cut' = IF First(HeadsIn(received')) = n THEN 1 ELSE 0
    /\ UNCHANGED latest

CutBehindMid(n) ==
    /\ cut' = IF cut = 1 /\ n = 1 THEN 2 ELSE cut
    /\ UNCHANGED latest

Collected ==
    /\ cut' = 0
    /\ latest' = IF ~buf[1].frame.mine THEN latest
                 ELSE IF cut = 2 THEN buf[1].frame ELSE Mixed

\* Mutant: bytes without RX2 stay on the socket.
RecvHeadPeeks(n) ==
    /\ pc = "poll"
    /\ n <= Len(inq) /\ HeadsIn(Overlaid(n)) # {}
    /\ Receive(n)
    /\ buf' = [buf EXCEPT ![1] = received'[First(HeadsIn(received'))]]
    /\ pc' = "part2"
    /\ CutBehindHead(n)
    /\ UNCHANGED <<shown, green, red, out, cleared>>

RecvHead(n) ==
    /\ pc = "poll"
    /\ Receive(n)
    /\ IF HeadsIn(received') = {}
       THEN UNCHANGED <<pc, buf, history>>
       ELSE /\ buf' = [buf EXCEPT ![1] = received'[First(HeadsIn(received'))]]
            /\ pc' = "part2"
            /\ CutBehindHead(n)
    /\ UNCHANGED <<shown, green, red, out, cleared>>

\* Mutant: the part is copied before the call that fetches it.
RecvMidTooEarly(n) ==
    /\ pc = "part2"
    /\ Receive(n)
    /\ buf' = [buf EXCEPT ![2] = received[1]]
    /\ pc' = "part3"
    /\ CutBehindMid(n)
    /\ UNCHANGED <<shown, green, red, out, cleared>>

(* The two other recv block, and do not call telnet_recv. *)
RecvMid(n) ==
    /\ pc = "part2"
    /\ Receive(n)
    /\ buf' = [buf EXCEPT ![2] = received'[1]]
    /\ pc' = "part3"
    /\ CutBehindMid(n)
    /\ UNCHANGED <<shown, green, red, out, cleared>>

(* htoi gives 0 for what is not a hexadecimal digit. *)
SpeedIn(p) == IF p.kind = "mid" THEN p.frame.speed ELSE 0
RestIn(p)  == IF p.kind = "tail" THEN p.frame.rest ELSE 0

\* Mutant: the red LED is not put out with the green one on.
SwitchLedsKeepsRed(speed) ==
    IF speed <= 60 /\ green # 1
    THEN /\ out' = out \o <<"eol", "eol">> \o Line("LED1 SET")
         /\ green' = 1 /\ red' = 0 /\ cleared' = FALSE
    ELSE IF speed > 60 /\ red # 1
    THEN /\ out' = out \o Line("LED2 SET") \o Line("LED1 CLEAR")
         /\ red' = 1 /\ green' = 0 /\ cleared' = FALSE
    ELSE UNCHANGED <<out, green, red, cleared>>

\* Mutant: no line ends before the text for the green LED, as for the red.
SwitchLedsNoLineEnd(speed) ==
    IF speed <= 60 /\ green # 1
    THEN /\ out' = out \o Line("LED1 SET") \o Line("LED2 CLEAR")
         /\ green' = 1 /\ red' = 0 /\ cleared' = FALSE
    ELSE IF speed > 60 /\ red # 1
    THEN /\ out' = out \o Line("LED2 SET") \o Line("LED1 CLEAR")
         /\ red' = 1 /\ green' = 0 /\ cleared' = FALSE
    ELSE UNCHANGED <<out, green, red, cleared>>

\* Mutant: redLedState and greenLedState are not reset.
SwitchLedsNoReset(speed) ==
    IF speed <= 60 /\ green # 1
    THEN /\ out' = out \o <<"eol", "eol">> \o Line("LED1 SET") \o Line("LED2 CLEAR")
         /\ green' = 1 /\ cleared' = FALSE /\ UNCHANGED red
    ELSE IF speed > 60 /\ red # 1
    THEN /\ out' = out \o Line("LED2 SET") \o Line("LED1 CLEAR")
         /\ red' = 1 /\ cleared' = FALSE /\ UNCHANGED green
    ELSE UNCHANGED <<out, green, red, cleared>>

(* Up to 60 km/h the green LED, above the red one.  Only the text that
   lights the green one begins with line ends. *)
SwitchLeds(speed) ==
    IF speed <= 60 /\ green # 1
    THEN /\ out' = out \o <<"eol", "eol">> \o Line("LED1 SET") \o Line("LED2 CLEAR")
         /\ green' = 1 /\ red' = 0 /\ cleared' = FALSE
    ELSE IF speed > 60 /\ red # 1
    THEN /\ out' = out \o Line("LED2 SET") \o Line("LED1 CLEAR")
         /\ red' = 1 /\ green' = 0 /\ cleared' = FALSE
    ELSE UNCHANGED <<out, green, red, cleared>>

\* Mutant: the identifier is not checked.
RecvTailUnchecked(n) ==
    /\ pc = "part3"
    /\ Receive(n)
    /\ buf' = [buf EXCEPT ![3] = received'[1]]
    /\ pc' = "poll"
    /\ Collected
    /\ shown' = [mine  |-> TRUE, speed |-> SpeedIn(buf[2]), rest |-> RestIn(buf'[3])]
    /\ SwitchLeds(SpeedIn(buf[2]))

RecvTail(n) ==
    /\ pc = "part3"
    /\ Receive(n)
    /\ buf' = [buf EXCEPT ![3] = received'[1]]
    /\ pc' = "poll"
    /\ Collected
    /\ IF buf[1].frame.mine
       THEN /\ shown' = [mine  |-> TRUE, speed |-> SpeedIn(buf[2]), rest |-> RestIn(buf'[3])]
            /\ SwitchLeds(SpeedIn(buf[2]))
       ELSE UNCHANGED <<shown, out, green, red, cleared>>

(* recv returns 0: the loop ends, or only the collecting of the frame. *)
RecvEnd ==
    /\ closed /\ inq = <<>>
    /\ pc \in {"poll", "part2", "part3"}
    /\ pc' = IF pc = "poll" THEN "exit" ELSE "poll"
    /\ cut' = 0
    /\ UNCHANGED <<received, buf, shown, green, red, board, typed, inq, out, latest,
                   cleared, keys>>

Socket == (\E n \in 1..Merge : RecvHead(n) \/ RecvMid(n) \/ RecvTail(n)) \/ RecvEnd
Terminal == ReadTerminal \/ ReadLinOption \/ ReadBaudrate

Next ==
    \/ \E f \in Frames : Report(f)
    \/ ReportMore
    \/ Answer
    \/ Close
    \/ Obey
    \/ \E k \in Keys : Press(k)
    \/ Terminal
    \/ TerminalEnds
    \/ Socket

(* The program runs whenever poll or recv returns; the board sends the rest
   of a frame it has begun. *)
Fairness ==
    /\ WF_vars(Terminal)
    /\ WF_vars(Socket)
    /\ WF_vars(ReportMore)

Spec == Init /\ [][Next]_vars /\ Fairness

-----------------------------------------------------------------------------
PieceType == [kind : {"head", "mid", "tail", "answer", "nul"},
              frame : Frames \cup {NoFrame}]

(* The variables have their types, and greenLedState and redLedState are
   never both 1. *)
TypeOK ==
    /\ pc \in {"poll", "part2", "part3", "lin", "baud", "exit"}
    /\ inq \in Seq(PieceType)
    /\ received \in [1..Merge -> PieceType]
    /\ buf \in [1..3 -> PieceType]
    /\ green \in {0, 1} /\ red \in {0, 1} /\ green + red <= 1
    /\ leds \subseteq {"LED1", "LED2"}

(* lcdScreen shows the last frame of ours in full, never a mixture of two
   frames or of a frame and an answer, nor one with another identifier, if the
   recv of its head and that of its second part ended with them.  How the
   stream was cut before, and what recieveBuffer still holds, does not matter. *)
ShowsLatest == latest # Mixed => shown = latest

(* The second part is that of the frame whose head was found, if the head came
   at the end of what recv returned. *)
SecondPartFollows ==
    pc = "part3" /\ cut > 0 => buf[2] = Piece("mid", buf[1].frame)

(* dataBuffer is filled with the second part of the data where the comment
   says so: when the third recv is about to be made, the first two parts are
   the two first pieces of one frame. *)
PartsInPlace ==
    pc = "part3" => buf[2] = Piece("mid", buf[1].frame)

AtRest == out = <<>> /\ line = "empty"

(* With nobody at the terminal, and once the program has switched them, the
   board's LEDs are the ones the program believes to be on. *)
LedsAsBelieved ==
    AtRest /\ keys = 0 /\ green + red = 1 =>
        leds = (IF green = 1 THEN {"LED1"} ELSE {}) \cup (IF red = 1 THEN {"LED2"} ELSE {})

(* Whatever keys the user presses in between, and however the two directions
   interleave, the board is never left with both LEDs on. *)
NeverBothLeds == out = <<>> => leds # {"LED1", "LED2"}

(* Whatever keys were pressed, once the program believes in the green LED it
   is the one that is on, unless s has been pressed since. *)
GreenIsCertain == out = <<>> /\ green = 1 /\ ~cleared => leds = {"LED1"}

(* Bytes that have arrived are read in the end, unless the program has left
   the loop or waits for the user inside the LIN menu. *)
SocketServed ==
    (inq # <<>>) ~> (inq = <<>> \/ pc \in {"exit", "lin", "baud"})

(* Inside a frame the program waits in recv, not in poll: if the board says no
   more, as it may when the pieces were cut elsewhere, nobody reads the keys. *)
Starved == pc \in {"part2", "part3"} /\ inq = <<>>

(* "Choose q for EXIT": a q that is the first key of what read returns ends
   the program, however many frames are waiting, unless the program waits for
   ever in a recv.  A q behind another key, or inside the LIN menu, is read
   and forgotten. *)
QuitHonoured ==
    []<>~Starved => ((pc = "poll" /\ typed # <<>> /\ Key = "q") ~> (pc = "exit"))
=============================================================================
