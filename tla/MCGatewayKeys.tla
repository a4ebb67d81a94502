---------------------------- MODULE MCGatewayKeys ----------------------------
(* Instances of GatewayKeys for TLC.                                       *)
EXTENDS GatewayKeys
CONSTANTS s1, c1, c2

MCSecretNames == {s1}
MCCalls == {c1, c2}

(* Calls are told apart by nothing; the properties are invariants.         *)
MCSymmetry == Permutations(MCCalls)
=============================================================================
