------------------------ MODULE MCTableNegotiation --------------------------
(* AutoMag's client against a server that asks for anything in any order. *)
EXTENDS TableNegotiation

BINARY == 0
ECHO == 1

Options == {BINARY, ECHO}
ClientServer(c, s) == [e \in End |-> IF e = "client" THEN c ELSE s]

\* telopts of telnet-projekat1.c, restricted to these options
AutoMagUs == ClientServer({}, Options)
AutoMagHim == ClientServer({ECHO}, Options)

\* telnet-projekat1.c never calls telnet_negotiate.
ServerOnly == ClientServer({}, {"WILL", "WONT", "DO", "DONT"})
=============================================================================
