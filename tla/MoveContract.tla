---------------------------- MODULE MoveContract ----------------------------
(***************************************************************************)
(* What the Mover promises of a user's packages, whatever happens inside   *)
(* it (ADR-005, ADR-009): a move adds what the new role needs, takes away  *)
(* only managed packages the new role does not need, and, where nothing    *)
(* forces the other order, takes away nothing before everything the new    *)
(* role needs is there.  A late package, one that an earlier move has      *)
(* asked for or asked to be taken away, is promised nothing.               *)
(***************************************************************************)
CONSTANTS Packages, Managed, Roles, Target, AddFirst

VARIABLES held, goal, late

vars == <<held, goal, late>>

Init == held \subseteq Packages /\ goal \in Roles /\ late = {}

(* HR moves the employee.                                                  *)
Move ==
  /\ goal' \in Roles \ {goal}
  /\ late' \in SUBSET Managed
  /\ held' = held

Gain(p) ==
  /\ p \in Target[goal] \cup late
  /\ held' = held \cup {p}
  /\ UNCHANGED <<goal, late>>

Lose(p) ==
  /\ p \in Managed \ Target[goal]
  /\ AddFirst => Target[goal] \subseteq held \cup late
  /\ held' = held \ {p}
  /\ UNCHANGED <<goal, late>>

LoseLate(p) ==
  /\ p \in late
  /\ held' = held \ {p}
  /\ UNCHANGED <<goal, late>>

Next == Move \/ \E p \in Packages : Gain(p) \/ Lose(p) \/ LoseLate(p)

Spec == Init /\ [][Next]_vars
=============================================================================
