----------------------------- MODULE MCRpcAuth -----------------------------
(* Instances of RpcAuth for TLC.                                           *)
EXTENDS RpcAuth
CONSTANTS r1, r2

MCRpcs == {r1, r2}
=============================================================================
