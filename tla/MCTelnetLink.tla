---------------------------- MODULE MCTelnetLink ----------------------------
(* Calls whose bytes are the awkward ones: IAC, SE, SB, CR, LF, and the
   marker bytes of ENVIRON payloads. *)
EXTENDS TelnetLink

Sizes == <<0, 4, 16>>

(* A variable with two values, one with none, one with an empty value. *)
Status ==
    <<[var |-> <<65>>, values |-> <<<<66>>, <<67>>>>],
      [var |-> <<68>>, values |-> <<>>],
      [var |-> <<IAC>>, values |-> <<<<>>, <<69>>>>]>>

SomeCalls ==
    [fn : {"send"}, bytes : {<<65>>, <<IAC, SE>>}]
    \cup [fn : {"printf"}, bytes : {<<CR>>, <<LF, IAC>>}]
    \cup [fn : {"iac"}, cmd : {241}]
    \cup [fn : {"negotiate"}, cmd : {WILL}, opt : {1, IAC}]
    \cup [fn : {"subnegotiation"}, opt : {31}, bytes : {<<>>, <<IAC, SE>>}]
    \cup [fn : {"ttype_is"}, bytes : {<<65, SE>>}]
    \cup [fn : {"ttype_send"}]
    \cup [fn : {"zmp"}, args : {<<<<65>>, <<>>>>, <<<<IAC>>>>}]
    \cup [fn : {"newenviron"}, cmd : {0},
          list : {<<>>, <<Field(VAR, <<65>>, <<IAC, 3>>), Field(USERVAR, <<2, 1>>, <<>>)>>}]
    \cup [fn : {"mssp"}, list : {Status}]
=============================================================================
