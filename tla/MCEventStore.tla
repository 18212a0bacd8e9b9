--------------------------- MODULE MCEventStore ---------------------------
(* Instances of EventStore for TLC: one employee with a few row keys.      *)
EXTENDS EventStore, TLC

CONSTANTS j1, j2, m1, l1, r1, r2

TwoJoiners == (j1 :> "Joiner") @@ (j2 :> "Joiner")
JoinerAndLeaver == (j1 :> "Joiner") @@ (l1 :> "Leaver")
MoverAndLeaver == (m1 :> "Mover") @@ (l1 :> "Leaver")

RunSymmetry == Permutations(Runs)
=============================================================================
