------------------------------ MODULE MCJoiner ------------------------------
(* Instances of Joiner for TLC.                                            *)
EXTENDS Joiner, TLC

CONSTANTS a, b, pim
=============================================================================
