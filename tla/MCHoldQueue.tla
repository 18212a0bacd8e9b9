---------------------------- MODULE MCHoldQueue ----------------------------
(* Instances of HoldQueue for TLC.                                         *)
EXTENDS HoldQueue, TLC

CONSTANTS o1, o2
=============================================================================
