---------------------------- MODULE TelnetParser ----------------------------
(***************************************************************************)
(* The receiving half of libtelnet.c: _process, _buffer_byte and           *)
(* _subnegotiate, as operators on the parser's part of telnet_t.           *)
(*                                                                         *)
(* One call of _process walks over one buffer, the chunk that recv()       *)
(* happened to return.  Two things survive from chunk to chunk, the state  *)
(* and the subnegotiation buffer; one thing is local to the call, the      *)
(* index `start' of the first byte not yet passed to the application.  The *)
(* record t below holds both, with the events raised so far in t.ev.       *)
(*                                                                         *)
(* Bytes are numbers with their values on the wire.  Option 86 (COMPRESS2) *)
(* is not interpreted here, and realloc and malloc never fail.             *)
(***************************************************************************)
EXTENDS TelnetPayload

CONSTANT
    BufferSizes     \* _buffer_sizes, an increasing sequence starting with 0

ASSUME BufferSizesAssumption ==
    /\ BufferSizes \in Seq(Nat)
    /\ Len(BufferSizes) > 1
    /\ BufferSizes[1] = 0
    /\ \A i \in 1..Len(BufferSizes) - 1 : BufferSizes[i] < BufferSizes[i + 1]

SE   == 240
SB   == 250
WILL == 251
WONT == 252
DO   == 253
DONT == 254
IAC  == 255

COMPRESS == 85

Negotiation == {WILL, WONT, DO, DONT}

State == {"DATA", "IAC", "NEGOTIATE", "SB", "SB_DATA", "SB_DATA_IAC"}

-----------------------------------------------------------------------------
(* Events, as the application's handler sees them. *)

Data(bytes)    == [type |-> "DATA", bytes |-> bytes]
Command(cmd)   == [type |-> "IAC", bytes |-> <<cmd>>]
Option(cmd, o) == [type |-> "NEGOTIATE", bytes |-> <<cmd, o>>]
Sub(o, body)   == [type |-> "SUBNEGOTIATION", bytes |-> <<o>> \o body]

(* i - start in size_t arithmetic when start > i: a DATA event whose length
   is close to 2^64 and whose bytes are whatever follows the buffer. *)
Wild == [type |-> "WILD", bytes |-> <<>>]

Raise(t, e) == [t EXCEPT !.ev = Append(@, e)]

-----------------------------------------------------------------------------
(* calloc'ed by telnet_init: in DATA, no subnegotiation buffer. *)
Fresh == [state |-> "DATA", cmd |-> 0, telopt |-> 0, sub |-> <<>>, size |-> 0,
          start |-> 0, ev |-> <<>>]

(* The buffer has its last size and no room left. *)
Full(t) == Len(t.sub) = t.size /\ t.size = BufferSizes[Len(BufferSizes)]

Grown(size) ==
    BufferSizes[1 + CHOOSE i \in 1..Len(BufferSizes) : BufferSizes[i] = size]

\* Mutant: the buffer is not grown.
BufferedNoGrowth(t, b) == [t EXCEPT !.sub = Append(@, b), !.state = "SB_DATA"]

(* _buffer_byte when there is room, growing the buffer if need be. *)
Buffered(t, b) ==
    [t EXCEPT !.sub  = Append(@, b),
              !.size = IF Len(t.sub) = t.size THEN Grown(@) ELSE @,
              !.state = "SB_DATA"]

(* Back to DATA, with the next unpassed byte at index next. *)
ToData(t, next) == [t EXCEPT !.state = "DATA", !.start = next]

(* Pass buffer[start .. i-1] on as data. *)
PassTo(t, buffer, i) ==
    IF i = t.start THEN t
    ELSE Raise(t, IF i > t.start THEN Data(SubSeq(buffer, t.start + 1, i)) ELSE Wild)

(* What _subnegotiate returns: abort this buffer and start over with the
   bytes after it. *)
Aborts(t) == t.telopt \in {ENVIRON, NEW_ENVIRON} /\ EnvironAccepted(t.sub)

(* _subnegotiate: the payload as it is, then what it says. *)
Subnegotiate(t) ==
    [t EXCEPT !.ev = @ \o <<Sub(t.telopt, t.sub)>> \o PayloadEvents(t.telopt, t.sub)]

-----------------------------------------------------------------------------
(* One iteration of the loop in _process, by state; b is buffer[i]. *)

\* Mutant: the data before a command is not passed on first.
InDataKeepsPending(t, buffer, b, i) ==
    IF b = IAC THEN [t EXCEPT !.state = "IAC"] ELSE t

InData(t, buffer, b, i) ==
    IF b = IAC THEN [PassTo(t, buffer, i) EXCEPT !.state = "IAC"] ELSE t

InIac(t, b, i) ==
    CASE b = SB             -> [t EXCEPT !.state = "SB"]
      [] b \in Negotiation  -> [t EXCEPT !.state = "NEGOTIATE", !.cmd = b]
      [] b = IAC            -> ToData(Raise(t, Data(<<IAC>>)), i + 1)
      [] OTHER              -> ToData(Raise(t, Command(b)), i + 1)

(* The option byte of WILL, WONT, DO or DONT; Rfc1143 says what follows. *)
InNegotiate(t, b, i) == ToData(Raise(t, Option(t.cmd, b)), i + 1)

\* Mutant: the previous subnegotiation's bytes are kept.
InSbKeepsBuffer(t, b) == [t EXCEPT !.telopt = b, !.state = "SB_DATA"]

InSb(t, b) == [t EXCEPT !.telopt = b, !.sub = <<>>, !.state = "SB_DATA"]

InSbData(t, b, i) ==
    IF b = IAC THEN [t EXCEPT !.state = "SB_DATA_IAC"]
    ELSE IF t.telopt = COMPRESS /\ b = WILL THEN ToData(t, i + 2)
    ELSE IF Full(t) THEN ToData(t, i + 1)
    ELSE Buffered(t, b)

(* In the last case the byte is evaluated as an IAC command by a nested
   _process, unless _subnegotiate asks for the buffer to be aborted: then
   telnet_recv resumes in state IAC at the byte after it. *)
InSbDataIac(t, b, i) ==
    CASE b = SE              -> Subnegotiate(ToData(t, i + 1))
      [] b = IAC /\ Full(t)  -> ToData(t, i + 1)
      [] b = IAC /\ ~Full(t) -> Buffered(t, IAC)
      [] OTHER ->
           LET u == [Subnegotiate(t) EXCEPT !.state = "IAC", !.start = i + 1]
           IN  IF Aborts(t) THEN u ELSE InIac(u, b, i)

(* telnet_recv(&buffer[start], size - start) and return, for the bytes after
   an accepted ENVIRON subnegotiation, goes on in DATA from index i + 1: the
   same state, index and bytes as the next iteration of this loop. *)
ProcessByte(t, buffer, i) ==
    LET b == buffer[i + 1] IN
    CASE t.state = "DATA"        -> InData(t, buffer, b, i)
      [] t.state = "IAC"         -> InIac(t, b, i)
      [] t.state = "NEGOTIATE"   -> InNegotiate(t, b, i)
      [] t.state = "SB"          -> InSb(t, b)
      [] t.state = "SB_DATA"     -> InSbData(t, b, i)
      [] t.state = "SB_DATA_IAC" -> InSbDataIac(t, b, i)

(* _process: every byte in turn, then the bytes still to be passed on. *)
Process(t, buffer) ==
    LET size == Len(buffer)
        after[i \in 0..size] ==
            IF i = 0 THEN [t EXCEPT !.start = 0]
            ELSE ProcessByte(after[i - 1], buffer, i - 1)
        u == after[size]
    IN  [(IF u.state = "DATA" THEN PassTo(u, buffer, size) ELSE u)
            EXCEPT !.start = 0]
=============================================================================
