------------------------------- MODULE LcdBus -------------------------------
(***************************************************************************)
(* The four data lines between lcd.c and an HD44780 display.  A byte is    *)
(* two strobes, high half first, and nothing marks which half a strobe is: *)
(* driver and display agree only as long as neither misses one.  lcdInit   *)
(* begins with a fixed sequence of single strobes that must bring them     *)
(* together, whatever was going on before.                                 *)
(*                                                                         *)
(* The program may stop between any two strobes and be started again while *)
(* the display keeps its power and its state.                              *)
(***************************************************************************)
EXTENDS Naturals, Sequences

CONSTANTS
    Commands,       \* command bytes the driver sends after the sequence
    Texts           \* data bytes

ASSUME BusAssumption == Commands \subseteq 0..47 \cup 64..255 /\ Texts \subseteq 0..255

VARIABLES
    todo,           \* strobes of the current call still to come
    bits,           \* lcd->bits is 4: the sequence is over
    sent,           \* the last byte given to sendDataCmd
    mode,           \* the display's bus width, 4 or 8
    high,           \* the half byte it holds; None if it expects the first
    got             \* the last byte it took

vars == <<todo, bits, sent, mode, high, got>>

None == 16
Nothing == [rs |-> 0, byte |-> 0]

(* A strobe: the register select line and the four data lines. *)
Strobes(rs, halves) == [k \in 1..Len(halves) |-> [rs |-> rs, half |-> halves[k]]]

\* Mutant: the wake-up command is sent twice, not three times.
ShortSequence == Strobes(0, <<3, 3, 2>>)

(* lcdInit: LCD_FUNC | LCD_FUNC_DL three times, then LCD_FUNC. *)
ResetSequence == Strobes(0, <<3, 3, 3, 2>>)

\* Mutant: the low half is sent first.
LowFirst(rs, b) == Strobes(rs, <<b % 16, b \div 16>>)

(* sendDataCmd with four lines. *)
SendDataCmd(rs, b) == Strobes(rs, <<b \div 16, b % 16>>)

-----------------------------------------------------------------------------
(* The display (external).  A command 0010 .... or 0011 .... sets the bus
   width; rs = 1 is data, never a command. *)
Width(rs, b) ==
    IF rs = 0 /\ b \div 16 = 3 THEN 8
    ELSE IF rs = 0 /\ b \div 16 = 2 THEN 4
    ELSE mode

Take(rs, b) ==
    /\ got' = [rs |-> rs, byte |-> b]
    /\ mode' = Width(rs, b)
    /\ high' = None

(* With an 8-bit bus the lower four lines are not connected: they read as
   anything. *)
Latch(s) ==
    \/ mode = 8 /\ \E low \in {0, 15} : Take(s.rs, s.half * 16 + low)
    \/ mode = 4 /\ high = None /\ high' = s.half /\ UNCHANGED <<mode, got>>
    \/ mode = 4 /\ high # None /\ Take(s.rs, high * 16 + s.half)

-----------------------------------------------------------------------------
(* Power on: the display has an 8-bit bus and lcdInit is called. *)
Init ==
    /\ todo = ResetSequence
    /\ bits = 8
    /\ sent = Nothing
    /\ mode = 8
    /\ high = None
    /\ got = Nothing

(* strobe: after the last one of the reset sequence, lcdInit sets bits. *)
Strobe ==
    /\ todo # <<>>
    /\ Latch(Head(todo))
    /\ todo' = Tail(todo)
    /\ bits' = IF todo' = <<>> THEN 4 ELSE bits
    /\ UNCHANGED sent

(* putCommand and lcdPutchar: the next byte. *)
Send(rs, b) ==
    /\ bits = 4
    /\ todo = <<>>
    /\ todo' = SendDataCmd(rs, b)
    /\ sent' = [rs |-> rs, byte |-> b]
    /\ UNCHANGED <<bits, mode, high, got>>

(* The program dies and is started again; the display notices nothing. *)
Restart ==
    /\ todo' = ResetSequence
    /\ bits' = 8
    /\ sent' = Nothing
    /\ UNCHANGED <<mode, high, got>>

Next ==
    \/ Strobe
    \/ \E b \in Commands : Send(0, b)
    \/ \E b \in Texts : Send(1, b)
    \/ Restart

Spec == Init /\ [][Next]_vars

-----------------------------------------------------------------------------
(* A strobe carries four bits and a call has at most four of them to come;
   the display holds at most half a byte. *)
TypeOK ==
    /\ todo \in Seq([rs : {0, 1}, half : 0..15])
    /\ Len(todo) <= 4
    /\ bits \in {4, 8}
    /\ sent \in [rs : {0, 1}, byte : 0..255]
    /\ mode \in {4, 8}
    /\ high \in 0..16
    /\ got \in [rs : {0, 1}, byte : 0..255]

(* After lcdInit's sequence the display has a 4-bit bus and is at the same half of a
   byte as the driver, wherever the program was killed before. *)
InSync ==
    bits = 4 =>
        /\ mode = 4
        /\ Len(todo) \in {0, 2} => high = None
        /\ Len(todo) = 1 => high = sent.byte \div 16

(* Bytes arrive as they were sent: a byte handed to sendDataCmd is the byte
   the display took. *)
BytesArrive ==
    [][Strobe /\ bits = 4 /\ todo' = <<>> => got' = sent]_vars
=============================================================================
