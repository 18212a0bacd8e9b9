------------------------------ MODULE MCLeaver ------------------------------
(* Instances of Leaver for TLC.                                            *)
EXTENDS Leaver, TLC

CONSTANTS a, b, r1, r2

RunSymmetry == Permutations(Runs)
=============================================================================
