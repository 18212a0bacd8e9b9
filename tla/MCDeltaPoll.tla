----------------------------- MODULE MCDeltaPoll -----------------------------
(* Instances of DeltaPoll for TLC.                                         *)
EXTENDS DeltaPoll, TLC

CONSTANTS e1, e2, p1, p2
=============================================================================
