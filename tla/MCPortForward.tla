--------------------------- MODULE MCPortForward ---------------------------
(* Instances of PortForward for TLC.                                       *)
EXTENDS PortForwardRefines
CONSTANTS a1, a2

MCAttempts == {a1, a2}
MCDoubled == [n \in 0..FailCap |-> InitialBackoff * 2^n]
=============================================================================
