---------------------------- MODULE TelnetStream ----------------------------
(***************************************************************************)
(* One end of a connection fed with any bytes at all, cut into chunks in   *)
(* any way: telnet_recv is called once per chunk.  What the application is *)
(* told must be the meaning of the bytes, whatever the cuts.               *)
(*                                                                         *)
(* The meaning is given by Items, a grammar of the TELNET stream read from *)
(* the front: it has no parser state, no chunks and no index of the bytes  *)
(* still to be passed on.                                                  *)
(***************************************************************************)
EXTENDS TelnetParser, TLC

CONSTANTS
    Byte,           \* the bytes that occur
    MaxChunk,       \* bound: the bytes of one recv()
    MaxStream       \* bound: the bytes of the connection

ASSUME StreamAssumption ==
    Byte \subseteq 0..255 /\ MaxChunk \in Nat \ {0} /\ MaxStream \in Nat

VARIABLES
    parser,         \* the parser's part of telnet_t
    input,          \* every byte received so far
    got             \* the events so far, one per byte of data

vars == <<parser, input, got>>

-----------------------------------------------------------------------------
(* How data is divided among DATA events is of no interest: one item per
   byte of data, one per other event. *)
ItemsOf(e) ==
    IF e.type = "DATA" THEN [k \in 1..Len(e.bytes) |-> Data(<<e.bytes[k]>>)]
    ELSE <<e>>

AllItems(events) ==
    LET upTo[k \in 0..Len(events)] ==
            IF k = 0 THEN <<>> ELSE upTo[k - 1] \o ItemsOf(events[k])
    IN  upTo[Len(events)]

From(s, k) == SubSeq(s, k, Len(s))

Limit == BufferSizes[Len(BufferSizes)]

RECURSIVE Items(_), SubItems(_, _, _)

(* A stream is data, IAC IAC, IAC <negotiation> <option>, IAC SB <option>
   <subnegotiation> and IAC <command>; the last of them may be cut short. *)
Items(s) ==
    IF s = <<>> THEN <<>>
    ELSE IF s[1] # IAC THEN <<Data(<<s[1]>>)>> \o Items(From(s, 2))
    ELSE IF Len(s) = 1 THEN <<>>
    ELSE IF s[2] = IAC THEN <<Data(<<IAC>>)>> \o Items(From(s, 3))
    ELSE IF s[2] \notin Negotiation \cup {SB}
         THEN <<Command(s[2])>> \o Items(From(s, 3))
    ELSE IF Len(s) = 2 THEN <<>>
    ELSE IF s[2] = SB THEN SubItems(s[3], <<>>, From(s, 4))
    ELSE <<Option(s[2], s[3])>> \o Items(From(s, 4))

(* The body of a subnegotiation runs to IAC SE, with IAC IAC for a byte 255.
   IAC and any other byte ends it too, and is a command of its own.  A byte
   beyond the limit is dropped and what follows is data; WILL SE in a
   subnegotiation of option 85 is dropped likewise. *)
SubItems(o, body, s) ==
    IF s = <<>> THEN <<>>
    ELSE IF s[1] # IAC
         THEN IF o = COMPRESS /\ s[1] = WILL THEN Items(From(s, 3))
              ELSE IF Len(body) = Limit THEN Items(From(s, 2))
              ELSE SubItems(o, Append(body, s[1]), From(s, 2))
    ELSE IF Len(s) = 1 THEN <<>>
    ELSE IF s[2] = IAC
         THEN IF Len(body) = Limit THEN Items(From(s, 3))
              ELSE SubItems(o, Append(body, IAC), From(s, 3))
    ELSE <<Sub(o, body)>> \o Items(IF s[2] = SE THEN From(s, 3) ELSE s)

-----------------------------------------------------------------------------
Init ==
    /\ parser = Fresh
    /\ input = <<>>
    /\ got = <<>>

(* telnet_recv on the next chunk. *)
TelnetRecv(chunk) ==
    LET t == Process(parser, chunk) IN
    /\ parser' = [t EXCEPT !.ev = <<>>]
    /\ input' = input \o chunk
    /\ got' = got \o AllItems(t.ev)

Next ==
    \E n \in 1..MaxChunk :
        /\ Len(input) + n <= MaxStream
        /\ \E chunk \in [1..n -> Byte] : TelnetRecv(chunk)

Spec == Init /\ [][Next]_vars

-----------------------------------------------------------------------------
(* The parser's fields have their types, and the subnegotiation buffer never
   holds more bytes than its allocated size (_buffer_byte writes at
   buffer_pos before it increments it). *)
TypeOK ==
    /\ parser.state \in State
    /\ parser.cmd \in Negotiation \cup {0}
    /\ parser.telopt \in 0..255
    /\ parser.size \in {BufferSizes[i] : i \in 1..Len(BufferSizes)}
    /\ Len(parser.sub) <= parser.size
    /\ \A k \in 1..Len(parser.sub) : parser.sub[k] \in Byte

(* However the bytes were cut into chunks, the handler has been told exactly
   what the bytes mean: nothing is lost, repeated, reordered or taken from
   outside the buffer when _process stops and resumes inside a command. *)
DecodesStream == got = Items(input)

=============================================================================
