--------------------------- MODULE MCActorConsole ---------------------------
(* Instances of ActorConsole for TLC.                                      *)
EXTENDS ActorConsole
CONSTANT a1

MCNames == {a1}
=============================================================================
