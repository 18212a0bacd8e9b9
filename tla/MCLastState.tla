---------------------------- MODULE MCLastState ----------------------------
(* Instances of LastState for TLC.                                         *)
EXTENDS LastState, TLC

CONSTANT repo
=============================================================================
