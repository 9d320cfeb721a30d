----------------------------- MODULE MCRfc1143 -----------------------------
(* Instances of Rfc1143: which options each end supports and which commands *)
(* each program gives to telnet_negotiate.                                  *)
EXTENDS Rfc1143

CONSTANT ECHO

ClientServer(c, s) == [e \in End |-> IF e = "client" THEN c ELSE s]

EveryOption == [e \in End |-> Opt]
ClientOnly == ClientServer(Opt, {})

\* No end both asks the far side to enable and to disable an option.
OneSided == ClientServer({"WILL", "WONT", "DO"}, {"WILL", "WONT", "DONT"})
FarSide == [e \in End |-> {"DO", "DONT"}]
=============================================================================
