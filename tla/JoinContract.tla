---------------------------- MODULE JoinContract ----------------------------
(***************************************************************************)
(* What the Joiner promises in Entra, seen from outside and over all its   *)
(* runs: nothing is requested for an account that does not exist or was    *)
(* assigned before, nothing is given that was not requested, nothing is    *)
(* taken away, privileged eligibility comes after the packages, and the    *)
(* event is Completed last of all.                                         *)
(***************************************************************************)
CONSTANTS Packages, Pim

VARIABLES
  account,    \* whether the UPN exists
  assigned,   \* the packages of an earlier employment
  requested,  \* the packages asked for
  held,       \* what the account has been given
  completed   \* what the event row says

vars == <<account, assigned, requested, held, completed>>

Init ==
  /\ account \in BOOLEAN
  /\ assigned \in SUBSET Packages
  /\ assigned # {} => account
  /\ requested = {}
  /\ held = {}
  /\ completed = FALSE

Create ==
  /\ account' = TRUE
  /\ UNCHANGED <<assigned, requested, held, completed>>

Request(p) ==
  /\ account
  /\ p \notin assigned \cup held
  /\ requested' = requested \cup {p}
  /\ UNCHANGED <<account, assigned, held, completed>>

Give(p) ==
  /\ p \in requested
  /\ held' = held \cup {p}
  /\ UNCHANGED <<account, assigned, requested, completed>>

(* Every package has been seen to.                                         *)
SeenTo == account /\ Packages \subseteq assigned \cup requested

MakeEligible ==
  /\ SeenTo
  /\ held' = held \cup {Pim}
  /\ UNCHANGED <<account, assigned, requested, completed>>

Complete ==
  /\ SeenTo
  /\ completed' = TRUE
  /\ UNCHANGED <<account, assigned, requested, held>>

(* The check of memberOf, made again, may yet take the verdict back.       *)
TakeBack ==
  /\ completed
  /\ completed' = FALSE
  /\ UNCHANGED <<account, assigned, requested, held>>

Next ==
  \/ Create
  \/ \E p \in Packages : Request(p) \/ Give(p)
  \/ MakeEligible \/ Complete \/ TakeBack

Spec == Init /\ [][Next]_vars
=============================================================================
