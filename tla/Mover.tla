------------------------------- MODULE Mover -------------------------------
(***************************************************************************)
(* One employee's moves between roles: Mover/stages.py, the provisioning   *)
(* phases, and the two drivers that run them (Mover/durable and            *)
(* mover_http).  The drivers differ in one place only, the order of the    *)
(* attribute PATCH when removals go first.                                 *)
(*                                                                         *)
(* Entra's entitlement management is external: it takes a request, and     *)
(* delivers or rejects it whenever it likes, whether or not a run still    *)
(* polls for it.  The claim, the lock and the event row are in EventStore. *)
(***************************************************************************)
EXTENDS Naturals

CONSTANTS
  Packages,      \* access packages
  Managed,       \* those some mapping rule grants
  Roles,         \* roles an HR record may name
  Target,        \* [Roles -> the packages the rules resolve for the role]
  Incompatible,  \* [Packages -> the packages Entra refuses beside it]
  Retained,      \* packages with an unexpired record in RetentionRegistry
  Shadowed,      \* packages of which the user also has an old assignment,
                 \* which check_package_assignment may return first
  MaxFaults,     \* bound: failed calls, lost activities and dead runs
  MaxAttempts    \* bound: runs of the pipeline

ASSUME ConstantsAssumption ==
  /\ Managed \subseteq Packages
  /\ Target \in [Roles -> SUBSET Managed]
  /\ Incompatible \in [Packages -> SUBSET Packages]
  /\ Retained \subseteq Packages
  /\ Shadowed \subseteq Packages
  /\ MaxFaults \in Nat
  /\ MaxAttempts \in Nat

VARIABLES
  \* Entra
  held,      \* packages delivered to the user
  requests,  \* [Ops -> [Packages -> RequestState]], the newest request
  attrs,     \* the role department and title stand for
  \* the event
  role,      \* the role of the move last started
  log,       \* its row in MoverEventLog
  \* the run
  durable,   \* TRUE: Mover/durable drives it, FALSE: mover_http
  pc,
  had,       \* current_packages, as fetched
  toAdd,     \* groups_to_add
  toRemove,  \* remove_confirmed
  retain,    \* retain_set
  reorder,   \* Strategy B: removals first
  op,        \* which of the two sets is being provisioned
  pending,   \* [Packages -> Progress], the PendingPackage list of that set
  gone,      \* recently_removed
  \* bounds
  faults,
  attempts,
  \* observation only
  before,    \* what the user held when the move began
  late       \* packages with a request of an earlier move still open then

platform == <<held, requests, attrs>>
plan == <<had, toAdd, toRemove, retain, reorder>>
start == <<durable, attempts, before, late>>
vars == <<held, requests, attrs, role, log, durable, pc, had, toAdd, toRemove,
          retain, reorder, op, pending, gone, faults, attempts, before, late>>

Ops == {"add", "remove"}
RequestState == {"none", "open", "delivered", "rejected"}
LogStatus == {"none", "IN_PROGRESS", "SOD_HELD",
              "MOVE_SUCCESS", "MOVE_PARTIAL", "MOVE_FAILED"}
Resting == {"idle", "ended", "dead"}
PC == Resting \cup {"fetch", "plan", "submit", "poll", "finalize", "patch",
                    "verify"}

(* "none": not in the set.  The last two are the entries of actions_taken. *)
Decided == {"none", "confirmed", "failed"}
Progress == Decided \cup {"todo", "skipped", "unsubmitted", "submitted",
                          "delivered", "rejected"}

TypeOK ==
  /\ held \subseteq Packages
  /\ requests \in [Ops -> [Packages -> RequestState]]
  /\ attrs \in Roles
  /\ role \in Roles
  /\ log \in LogStatus
  /\ durable \in BOOLEAN
  /\ pc \in PC
  /\ had \subseteq Packages
  /\ toAdd \subseteq Packages
  /\ toRemove \subseteq Packages
  /\ retain \subseteq Packages
  /\ reorder \in BOOLEAN
  /\ op \in Ops
  /\ pending \in [Packages -> Progress]
  /\ gone \subseteq Packages
  /\ faults \in Nat
  /\ attempts \in Nat
  /\ before \subseteq Packages
  /\ late \subseteq Packages

-----------------------------------------------------------------------------
(* What a move works out.                                                  *)

(* calculate_delta, for the packages fetched.                              *)
GroupsToAdd == Target[role] \ (had \cap Managed)

(* Mutant of GroupsToRemove: the delta forgets the managed catalogue.      *)
RemovesUnmanaged == had \ Target[role]

GroupsToRemove == (had \cap Managed) \ Target[role]
Unchanged == had \cap Managed \cap Target[role]
Unmanaged == had \ Managed

(* The retention records: one that cannot be read counts as none.          *)
Kept(unread) == (GroupsToRemove \cap Retained) \ unread

(* What check_package_assignment can say to "is p delivered?": it looks at *)
(* the first assignment only.                                              *)
Answers(p) == IF p \in held /\ p \in Shadowed THEN BOOLEAN ELSE {p \in held}

(* The pre-flight SoD check: a query that fails lets the package pass.     *)
Blocked(add, keep, unanswered) ==
  {p \in add \ unanswered : Incompatible[p] \cap keep # {}}
NeedsReorder(add, remove, unanswered) ==
  \E p \in add \ unanswered : Incompatible[p] \cap remove # {}

Fault == faults < MaxFaults /\ faults' = faults + 1
NoFault == UNCHANGED faults

Begin(o, S) ==
  /\ op' = o
  /\ pending' = [p \in Packages |-> IF p \in S THEN "todo" ELSE "none"]
  /\ pc' = "submit"

End(status) == log' = status /\ pc' = "ended"

-----------------------------------------------------------------------------
Init ==
  /\ role \in Roles
  /\ attrs = role
  /\ held \in SUBSET Packages
  /\ \A p \in held : Incompatible[p] \cap held = {}
  /\ requests = [o \in Ops |-> [p \in Packages |-> "none"]]
  /\ log = "none"
  /\ durable = TRUE
  /\ pc = "idle"
  /\ had = {} /\ toAdd = {} /\ toRemove = {} /\ retain = {} /\ gone = {}
  /\ reorder = FALSE
  /\ op = "add"
  /\ pending = [p \in Packages |-> "none"]
  /\ faults = 0
  /\ attempts = 0
  /\ before = held
  /\ late = {}

(* A run is started for a new role, or again for a move that did not       *)
(* succeed.  A row left IN_PROGRESS blocks it until it is ten minutes old. *)
Start ==
  /\ pc \in Resting
  /\ attempts < MaxAttempts
  /\ \/ /\ \E r \in Roles \ {role} : role' = r
        /\ before' = held
        /\ late' = {p \in Packages : \E o \in Ops : requests[o][p] = "open"}
     \/ log \notin {"none", "MOVE_SUCCESS"} /\ UNCHANGED <<role, before, late>>
  /\ log' = "IN_PROGRESS"
  /\ durable' \in BOOLEAN
  /\ pc' = "fetch"
  /\ gone' = {}
  /\ attempts' = attempts + 1
  /\ UNCHANGED <<platform, plan, op, pending, faults>>

FetchCurrentState ==
  /\ pc = "fetch"
  /\ \/ had' = held /\ pc' = "plan" /\ NoFault /\ UNCHANGED log
     \/ End("MOVE_FAILED") /\ Fault /\ UNCHANGED had
  /\ UNCHANGED <<platform, role, toAdd, toRemove, retain, reorder, op,
                 pending, gone, start>>

(* Loading the mapping rules failed.                                       *)
ResolveFails ==
  /\ pc = "plan"
  /\ End("MOVE_FAILED")
  /\ Fault
  /\ UNCHANGED <<platform, plan, role, op, pending, gone, start>>

(* resolve, delta, retention, pre-flight.                                  *)
Plan ==
  /\ pc = "plan"
  /\ \E unread \in SUBSET (GroupsToRemove \cap Retained),
        unanswered \in SUBSET GroupsToAdd :
       LET kept == Kept(unread)
           remove == GroupsToRemove \ kept
           keep == Unchanged \cup kept \cup Unmanaged
           first == NeedsReorder(GroupsToAdd, remove, unanswered)
       IN /\ IF unread \cup unanswered = {} THEN NoFault ELSE Fault
          /\ toAdd' = GroupsToAdd
          /\ toRemove' = remove
          /\ retain' = kept
          /\ \/ /\ Blocked(GroupsToAdd, keep, unanswered) # {}
                /\ End("SOD_HELD")
                /\ reorder' = FALSE
                /\ UNCHANGED <<op, pending>>
             \/ /\ Blocked(GroupsToAdd, keep, unanswered) = {}
                /\ reorder' = first
                /\ IF first THEN Begin("remove", remove)
                            ELSE Begin("add", GroupsToAdd)
                /\ UNCHANGED log
  /\ UNCHANGED <<platform, role, had, gone, start>>

-----------------------------------------------------------------------------
(* Provisioning one set: submit every package, poll, finalize every one.   *)

SetPending(p, s) == pending' = [pending EXCEPT ![p] = s]
Request(p) == requests' = [requests EXCEPT ![op][p] = "open"]

(* An addition first asks whether the package is there already.            *)
SubmitSkips(p) ==
  /\ pc = "submit" /\ pending[p] = "todo"
  /\ op = "add" /\ TRUE \in Answers(p)
  /\ SetPending(p, "skipped")
  /\ UNCHANGED <<platform, plan, role, log, pc, op, gone, faults, start>>

Submit(p) ==
  /\ pc = "submit" /\ pending[p] = "todo"
  /\ op = "add" => FALSE \in Answers(p)
  /\ SetPending(p, "submitted")
  /\ Request(p)
  /\ UNCHANGED <<held, attrs, plan, role, log, pc, op, gone, faults, start>>

(* The POST reports an error, with or without having reached the platform. *)
SubmitFails(p) ==
  /\ pc = "submit" /\ pending[p] = "todo"
  /\ SetPending(p, "unsubmitted")
  /\ Request(p) \/ UNCHANGED requests
  /\ Fault
  /\ UNCHANGED <<held, attrs, plan, role, log, pc, op, gone, start>>

SubmitDone ==
  /\ pc = "submit"
  /\ \A p \in Packages : pending[p] # "todo"
  /\ pc' = "poll"
  /\ UNCHANGED <<platform, plan, role, log, op, pending, gone, faults, start>>

(* The submit activity is run again, the result of the first run lost.     *)
SubmitRedelivered ==
  /\ durable
  /\ pc = "submit"
  /\ Begin(op, IF op = "add" THEN toAdd ELSE toRemove)
  /\ Fault
  /\ UNCHANGED <<platform, plan, role, log, gone, start>>

Poll(p) ==
  /\ pc = "poll" /\ pending[p] = "submitted"
  /\ requests[op][p] \in {"delivered", "rejected"}
  /\ SetPending(p, requests[op][p])
  /\ UNCHANGED <<platform, plan, role, log, pc, op, gone, faults, start>>

(* Mutant of PollEnd: The poll loop has no last pass. *)
PollUntilTerminal ==
  /\ pc = "poll"
  /\ \A p \in Packages : pending[p] # "submitted"
  /\ pc' = "finalize"
  /\ UNCHANGED <<platform, plan, role, log, op, pending, gone, faults, start>>

(* Every request is terminal, or the sixty passes are over.                *)
PollEnd ==
  /\ pc = "poll"
  /\ pc' = "finalize"
  /\ UNCHANGED <<platform, plan, role, log, op, pending, gone, faults, start>>

(* Mutant of FinalizeAddition: A request that was accepted counts as delivered. *)
FinalizeTrustsSubmission(p) ==
  /\ pc = "finalize" /\ op = "add" /\ pending[p] \notin Decided
  /\ SetPending(p, IF pending[p] \in {"unsubmitted", "rejected"}
                   THEN "failed" ELSE "confirmed")
  /\ UNCHANGED <<platform, plan, role, log, pc, op, gone, faults, start>>

FinalizeAddition(p) ==
  /\ pc = "finalize" /\ op = "add" /\ pending[p] \notin Decided
  /\ \/ pending[p] \in {"skipped", "delivered"} /\ SetPending(p, "confirmed")
     \/ pending[p] \in {"unsubmitted", "rejected"} /\ SetPending(p, "failed")
     \/ /\ pending[p] = "submitted"
        /\ \E a \in Answers(p) : SetPending(p, IF a THEN "confirmed" ELSE "failed")
  /\ UNCHANGED <<platform, plan, role, log, pc, op, gone, faults, start>>

(* A rejected removal gets the second opinion too.                         *)
FinalizeRemoval(p) ==
  /\ pc = "finalize" /\ op = "remove" /\ pending[p] \notin Decided
  /\ \/ pending[p] = "unsubmitted" /\ SetPending(p, "failed")
     \/ pending[p] = "delivered" /\ SetPending(p, "confirmed")
     \/ /\ pending[p] \in {"submitted", "rejected"}
        /\ \E a \in Answers(p) : SetPending(p, IF a THEN "failed" ELSE "confirmed")
  /\ UNCHANGED <<platform, plan, role, log, pc, op, gone, faults, start>>

Finalized == pc = "finalize" /\ \A p \in Packages : pending[p] \in Decided

(* Mutant of AdditionsAllSucceeded: The gate opens as soon as one addition was delivered. *)
SomeAdditionSucceeded ==
  toAdd = {} \/ \E p \in toAdd : pending[p] = "confirmed"

AdditionsAllSucceeded == \A p \in toAdd : pending[p] = "confirmed"

(* Mutant of AdditionsDone: The failure branch skips the removals but not the PATCH. *)
AdditionsDonePatches ==
  /\ Finalized /\ op = "add"
  /\ \/ ~reorder /\ AdditionsAllSucceeded /\ Begin("remove", toRemove)
     \/ ~reorder /\ ~AdditionsAllSucceeded /\ pc' = "patch" /\ UNCHANGED <<op, pending>>
     \/ reorder /\ pc' = "verify" /\ UNCHANGED <<op, pending>>
  /\ UNCHANGED <<platform, plan, role, log, gone, faults, start>>

(* ADR-009: removals follow only when every addition was confirmed.  In    *)
(* Strategy B there is no gate, and mover_http PATCHes here.               *)
AdditionsDone ==
  /\ Finalized /\ op = "add"
  /\ \/ /\ ~reorder /\ AdditionsAllSucceeded
        /\ Begin("remove", toRemove)
     \/ /\ ~reorder /\ ~AdditionsAllSucceeded
        /\ pc' = "verify"
        /\ UNCHANGED <<op, pending>>
     \/ /\ reorder
        /\ pc' = IF durable THEN "verify" ELSE "patch"
        /\ UNCHANGED <<op, pending>>
  /\ UNCHANGED <<platform, plan, role, log, gone, faults, start>>

(* Mutant of RemovalsDone: recently_removed holds every package a removal was attempted for. *)
RemovalsDoneExcusesAll ==
  /\ Finalized /\ op = "remove"
  /\ gone' = toRemove
  /\ IF reorder /\ ~durable THEN Begin("add", toAdd)
                            ELSE pc' = "patch" /\ UNCHANGED <<op, pending>>
  /\ UNCHANGED <<platform, plan, role, log, faults, start>>

RemovalsDone ==
  /\ Finalized /\ op = "remove"
  /\ gone' = {p \in Packages : pending[p] = "confirmed"}
  /\ IF reorder /\ ~durable THEN Begin("add", toAdd)
                            ELSE pc' = "patch" /\ UNCHANGED <<op, pending>>
  /\ UNCHANGED <<platform, plan, role, log, faults, start>>

(* The attribute PATCH; its failure is a warning.  The durable             *)
(* finalize_op applies it with the removals, whatever is still to come.    *)
Patch ==
  /\ pc = "patch"
  /\ \/ attrs' = role /\ NoFault
     \/ UNCHANGED attrs /\ Fault
  /\ IF reorder /\ durable THEN Begin("add", toAdd)
                           ELSE pc' = "verify" /\ UNCHANGED <<op, pending>>
  /\ UNCHANGED <<held, requests, plan, role, log, gone, start>>

Expected == Unchanged \cup retain \cup toAdd
NoDiscrepancy == Expected \subseteq held /\ held \subseteq Expected \cup Unmanaged \cup gone

(* Mutant of Verify: the verification status itself is logged.            *)
VerifyLogsRawStatus ==
  /\ pc = "verify"
  /\ \/ /\ End(IF NoDiscrepancy THEN "MOVE_SUCCESS" ELSE "MOVE_PARTIAL")
        /\ NoFault
     \/ End("VERIFICATION_ERROR") /\ Fault
  /\ UNCHANGED <<platform, plan, role, op, pending, gone, start>>

(* Post-move verification and the final status.  governed: the in-process  *)
(* governance check was made and passed.                                   *)
Verify ==
  /\ pc = "verify"
  /\ \/ \E governed \in BOOLEAN :
          End(IF NoDiscrepancy /\ governed THEN "MOVE_SUCCESS" ELSE "MOVE_PARTIAL")
        /\ NoFault
     \/ End("MOVE_FAILED") /\ Fault
  /\ UNCHANGED <<platform, plan, role, op, pending, gone, start>>

(* The host dies, or an exception nothing catches ends the run, such as    *)
(* that of the fallback check in finalize.                                 *)
Die ==
  /\ pc \notin Resting
  /\ pc' = "dead"
  /\ Fault
  /\ UNCHANGED <<platform, plan, role, log, op, pending, gone, start>>

-----------------------------------------------------------------------------
(* Entra: a request is carried out or refused, in any order, at any time.  *)

Answer(o, p, s) == requests' = [requests EXCEPT ![o][p] = s]

DeliverAddition(p) ==
  /\ requests["add"][p] = "open"
  /\ Incompatible[p] \cap held = {}
  /\ held' = held \cup {p}
  /\ Answer("add", p, "delivered")
  /\ UNCHANGED <<attrs, plan, role, log, pc, op, pending, gone, faults,
                 start>>

DeliverRemoval(p) ==
  /\ requests["remove"][p] = "open"
  /\ held' = held \ {p}
  /\ Answer("remove", p, "delivered")
  /\ UNCHANGED <<attrs, plan, role, log, pc, op, pending, gone, faults,
                 start>>

Reject(o, p) ==
  /\ requests[o][p] = "open"
  /\ Answer(o, p, "rejected")
  /\ UNCHANGED <<held, attrs, plan, role, log, pc, op, pending, gone, faults,
                 start>>

-----------------------------------------------------------------------------
Work(p) ==
  \/ SubmitSkips(p) \/ Submit(p) \/ SubmitFails(p) \/ Poll(p)
  \/ FinalizeAddition(p) \/ FinalizeRemoval(p)

Advance ==
  \/ FetchCurrentState \/ ResolveFails \/ Plan \/ SubmitDone \/ PollEnd
  \/ AdditionsDone \/ RemovalsDone \/ Patch \/ Verify

Entra(p) == DeliverAddition(p) \/ DeliverRemoval(p) \/ \E o \in Ops : Reject(o, p)

Next ==
  \/ Start \/ SubmitRedelivered \/ Die \/ Advance
  \/ \E p \in Packages : Work(p) \/ Entra(p)

(* The host keeps running a run that has not died; Entra owes no answer.   *)
Spec == Init /\ [][Next]_vars
FairSpec == Spec /\ WF_vars(Advance \/ \E p \in Packages : Work(p))

-----------------------------------------------------------------------------
(* Properties.                                                             *)

(* No package of a role conflicts with one the engine may take away, so    *)
(* that Strategy A is followed throughout; with an unmanaged package it    *)
(* may, and the move is held.                                              *)
Compatible ==
  \A r \in Roles : \A p \in Target[r] : Incompatible[p] \cap Managed = {}

(* What follows is promised of every package but the late ones: nothing    *)
(* cancels a request of an earlier move, and Entra carries it out during   *)
(* this one.                                                               *)

(* ADR-009: at any moment the user holds everything the new role needs or  *)
(* everything held when the move began.                                    *)
NeverLess == Target[role] \subseteq held \cup late \/ before \subseteq held \cup late

(* A move that ended MOVE_SUCCESS left the new role's packages in place,   *)
(* and of the engine's other packages only those retained, and perhaps one *)
(* whose removal was refused while an old assignment hid it.               *)
SuccessMeansMoved ==
  pc = "ended" /\ log = "MOVE_SUCCESS" =>
    /\ Target[role] \subseteq held \cup late
    /\ held \cap Managed \subseteq Target[role] \cup retain \cup late \cup Shadowed

(* Department and title change only once the new role's packages are there.*)
CommitAfterAdditions ==
  [][attrs' # attrs => Target[attrs'] \subseteq held \cup late]_vars

(* The engine takes away only packages it manages and the role no longer   *)
(* needs: a late one it manages, but may need again.                       *)
OnlyOwnedRemoved ==
  [][held \ held' \subseteq Managed \ (Target[role] \ late)]_vars

(* Seen from outside, a move is MoveContract.                              *)
Contract == INSTANCE MoveContract WITH AddFirst <- Compatible, goal <- role
ImplementsContract == Contract!Spec

(* A run ends whether or not Entra answers.                                *)
RunsEnd == []<>(pc \in Resting)
=============================================================================
