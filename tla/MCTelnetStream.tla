--------------------------- MODULE MCTelnetStream ---------------------------
(* An instance of TelnetStream: buffers small enough for a short stream to
   fill, and the bytes that steer the parser. *)
EXTENDS TelnetStream

TwoSizes   == <<0, 1, 2>>
PlainBytes == {IAC, SB, SE, DO, 7}
=============================================================================
