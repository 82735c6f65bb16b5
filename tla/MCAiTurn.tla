------------------------------ MODULE MCAiTurn ------------------------------
(* Small instances of AiTurn for TLC.  The two or three worker slots are   *)
(* interchangeable, so runs without liveness reduce by their symmetry.     *)
EXTENDS AiTurn, TLC

Symmetric == Permutations(Workers)
=============================================================================
