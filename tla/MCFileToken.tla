---------------------------- MODULE MCFileToken ----------------------------
(* Instances of FileToken for TLC.                                         *)
EXTENDS FileToken
CONSTANTS c1, c2

TwoCallers == {c1, c2}
=============================================================================
