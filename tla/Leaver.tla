------------------------------- MODULE Leaver -------------------------------
(***************************************************************************)
(* The offboarding of one employee: Leaver/stages.py, its removal phases,  *)
(* the durable orchestration with its deferred deletion, and the HTTP      *)
(* driver; together with what acts on the same account meanwhile: HR, the  *)
(* Joiner of a re-hire, other pipelines and an operator.                   *)
(*                                                                         *)
(* Entra is external.  The account is an object behind a UPN: reads go by  *)
(* the UPN, writes by the object id fetched at the start.  Claims are      *)
(* reduced to the status of the event's row, whose races are EventStore's. *)
(***************************************************************************)
EXTENDS Naturals

CONSTANTS
  Packages,         \* access packages
  Runs,             \* runs of the pipeline for this employee
  Drivers,          \* what starts them: "webhook", "durable", "http"
  Shadowed,         \* packages with an old assignment beside the current one
  SlowRuns,         \* whether a live run may outlast its lock's ten minutes
  MaxTerminations,  \* bound: times HR terminates the employee
  MaxFaults         \* bound: failed calls, lost activities and dead runs

ASSUME ConstantsAssumption ==
  /\ Shadowed \subseteq Packages
  /\ Drivers \subseteq {"webhook", "durable", "http"}
  /\ SlowRuns \in BOOLEAN
  /\ MaxTerminations \in Nat \ {0}
  /\ MaxFaults \in Nat

VARIABLES
  \* HR and the engine's memory of it
  employed,
  terminated,  \* how often HR has terminated the employee so far
  last,        \* status in JmlLastState
  joined,      \* the object the Joiner of the current re-hire works on, or 0
  \* Entra
  hold,        \* soft_delete_is_deferred(), a setting of the deployment
  object,      \* the id behind the UPN, the largest so far
  account,
  sessions,    \* tokens from before the last revocation are in use
  pim,         \* an active PIM session
  held,        \* packages delivered to the object
  requests,    \* [Packages -> RequestState], the newest adminRemove
  \* the store, per termination: its row in JmlEvents and in LeaverEventLog
  row,
  locked,      \* terminations whose row has a LockedAt
  log,
  \* the runs
  pc,
  ev,          \* the termination a run is for
  driver,      \* "webhook" and "durable" are orchestrated, "http" is not
  user,        \* user_id, as fetched
  had,         \* current_packages, as fetched
  pending,     \* [Runs -> [Packages -> Progress]]
  deleted,     \* runs with user_deleted
  result,      \* final_status
  faults,
  \* observation only
  unlocked,    \* runs that logged a failed disable or revoke
  reopened,    \* runs whose object was enabled again since they fetched it
  regained     \* [Runs -> packages added to the user since the run's fetch]

hr == <<employed, terminated, last, joined>>
entra == <<hold, object, account, sessions, pim, held, requests>>
store == <<row, locked, log>>
task == <<ev, driver, user, had>>
outcome == <<deleted, result>>
ghosts == <<unlocked, reopened, regained>>
vars == <<employed, terminated, last, joined, hold, object, account, sessions,
          pim, held, requests, row, locked, log, pc, ev, driver, user, had, pending,
          deleted, result, faults, unlocked, reopened, regained>>

Terminations == 1..MaxTerminations
Account == {"enabled", "disabled", "gone"}
RequestState == {"none", "open", "delivered", "rejected"}
Row == {"Absent", "Pending", "Processing", "Completed", "Failed"}
Final == {"OFFBOARD_SUCCESS", "OFFBOARD_PARTIAL", "OFFBOARD_FAILED"}
Pre == {"claim", "guard", "enter", "park", "fetch", "failing", "failed", "disable",
        "revoke"}
Removal == {"submit", "poll", "finalize"}
Closing == {"pim", "delete", "verify", "record", "release", "status", "recorded"}
Working == {"fetch", "disable", "revoke"} \cup Removal \cup Closing
Deferral == {"hold", "deferred", "deleting"}
PC == Pre \cup Removal \cup Closing \cup Deferral \cup {"idle", "save"}

(* "none": not held at the fetch.  The first three are what is left when   *)
(* every action of the set has been written to actions_taken.              *)
Decided == {"none", "removed", "failed"}
Progress == Decided \cup {"todo", "unsubmitted", "submitted", "delivered",
                          "rejected"}

TypeOK ==
  /\ employed \in BOOLEAN
  /\ terminated \in 0..MaxTerminations
  /\ last \in {"Active", "Inactive"}
  /\ joined \in Nat
  /\ hold \in BOOLEAN
  /\ object \in Nat
  /\ account \in Account
  /\ sessions \in BOOLEAN
  /\ pim \in BOOLEAN
  /\ held \subseteq Packages
  /\ requests \in [Packages -> RequestState]
  /\ row \in [Terminations -> Row]
  /\ locked \subseteq Terminations
  /\ log \in [Terminations -> {"none", "IN_PROGRESS", "QUEUED_CONCURRENT"} \cup Final]
  /\ pc \in [Runs -> PC]
  /\ ev \in [Runs -> Terminations]
  /\ driver \in [Runs -> {"webhook", "durable", "http"}]
  /\ user \in [Runs -> Nat]
  /\ had \in [Runs -> SUBSET Packages]
  /\ pending \in [Runs -> [Packages -> Progress]]
  /\ deleted \subseteq Runs
  /\ result \in [Runs -> {"none"} \cup Final]
  /\ faults \in Nat
  /\ unlocked \subseteq Runs
  /\ reopened \subseteq Runs
  /\ regained \in [Runs -> SUBSET Packages]

-----------------------------------------------------------------------------
Goto(r, l) == pc' = [pc EXCEPT ![r] = l]
SetRow(r, s) == row' = [row EXCEPT ![ev[r]] = s]
Unlock(r) == locked' = locked \ {ev[r]}
SetPending(r, p, s) == pending' = [pending EXCEPT ![r][p] = s]

Fault == faults < MaxFaults /\ faults' = faults + 1
NoFault == UNCHANGED faults

(* _write_event_log swallows its errors.                                   *)
SetLog(r, s) ==
  \/ log' = [log EXCEPT ![ev[r]] = s] /\ NoFault
  \/ UNCHANGED log /\ Fault

(* The object a run works on is still the one behind the UPN.              *)
Reaches(r) == account # "gone" /\ user[r] = object

(* check_package_assignment on the run's user id, which looks at the first *)
(* assignment only.                                                        *)
Answers(r, p) ==
  IF ~Reaches(r) \/ p \notin held THEN {FALSE}
  ELSE IF p \in Shadowed THEN BOOLEAN ELSE {TRUE}

(* DELETE of the user: what hung on the object goes with it.               *)
DeleteObject ==
  /\ account' = "gone"
  /\ sessions' = FALSE
  /\ pim' = FALSE
  /\ held' = {}
  /\ requests' = [p \in Packages |-> "none"]

NothingDeleted == UNCHANGED <<account, sessions, pim, held, requests>>

-----------------------------------------------------------------------------
Init ==
  /\ employed = TRUE
  /\ terminated = 0
  /\ last = "Active"
  /\ joined = 0
  /\ hold \in BOOLEAN
  /\ object = 1
  /\ account = "enabled"
  /\ sessions = FALSE
  /\ pim \in BOOLEAN
  /\ held \in SUBSET Packages
  /\ requests = [p \in Packages |-> "none"]
  /\ row = [t \in Terminations |-> "Absent"]
  /\ locked = {}
  /\ log = [t \in Terminations |-> "none"]
  /\ pc = [r \in Runs |-> "idle"]
  /\ ev = [r \in Runs |-> 1]
  /\ driver = [r \in Runs |-> "webhook"]
  /\ user = [r \in Runs |-> 0]
  /\ had = [r \in Runs |-> {}]
  /\ pending = [r \in Runs |-> [p \in Packages |-> "none"]]
  /\ deleted = {}
  /\ result = [r \in Runs |-> "none"]
  /\ faults = 0
  /\ unlocked = {}
  /\ reopened = {}
  /\ regained = [r \in Runs |-> {}]

-----------------------------------------------------------------------------
(* Starting a run.                                                         *)

(* The webhook derives Leaver from the last state and passes the record    *)
(* on; the HTTP starters take the action from the caller.                  *)
Start(r) ==
  /\ pc[r] = "idle"
  /\ ~employed
  /\ \E d \in Drivers :
       /\ d = "webhook" => last = "Active"
       /\ driver' = [driver EXCEPT ![r] = d]
  /\ ev' = [ev EXCEPT ![r] = terminated]
  /\ result' = [result EXCEPT ![r] = "none"]
  /\ Goto(r, "claim")
  /\ UNCHANGED <<hr, entra, store, user, had, pending, deleted, faults, ghosts>>

(* What a run wrote ten minutes ago: the run is lost, or slow.             *)
MayBeOld(e) == SlowRuns \/ ~\E q \in Runs : ev[q] = e /\ pc[q] \in Working

StaleLock(e) == row[e] = "Processing" /\ e \in locked /\ MayBeOld(e)

(* Mutant of Claim: a Failed event is a duplicate like any other.          *)
ClaimOnce(r) ==
  /\ pc[r] = "claim"
  /\ row[ev[r]] = "Absent" \/ StaleLock(ev[r])
  /\ SetRow(r, "Pending")
  /\ Unlock(r)
  /\ Goto(r, "guard")
  /\ UNCHANGED <<hr, entra, log, task, pending, outcome, faults, ghosts>>

(* Mutant of Claim: a Completed event is taken up again as well.           *)
ClaimCompleted(r) ==
  /\ pc[r] = "claim"
  /\ row[ev[r]] \in {"Absent", "Failed", "Completed"} \/ StaleLock(ev[r])
  /\ SetRow(r, "Pending")
  /\ Unlock(r)
  /\ Goto(r, "guard")
  /\ UNCHANGED <<hr, entra, log, task, pending, outcome, faults, ghosts>>

(* stage_claim: Failed and stale Processing rows are reclaimed.            *)
Claim(r) ==
  /\ pc[r] = "claim"
  /\ row[ev[r]] \in {"Absent", "Failed"} \/ StaleLock(ev[r])
  /\ SetRow(r, "Pending")
  /\ Unlock(r)
  /\ Goto(r, "guard")
  /\ UNCHANGED <<hr, entra, log, task, pending, outcome, faults, ghosts>>

Duplicate(r) ==
  /\ pc[r] = "claim"
  /\ row[ev[r]] \in {"Pending", "Processing", "Completed"}
  /\ Goto(r, "idle")
  /\ UNCHANGED <<hr, entra, store, task, pending, outcome, faults, ghosts>>

(* stage_concurrent_check, a query: an IN_PROGRESS entry stops the run      *)
(* unless it is old, and so does a query that fails.                       *)
Guard(r) ==
  /\ pc[r] = "guard"
  /\ \/ /\ \A t \in Terminations : log[t] = "IN_PROGRESS" => MayBeOld(t)
        /\ Goto(r, "enter") /\ NoFault
     \/ /\ Goto(r, "park")
        /\ \/ (\E t \in Terminations : log[t] = "IN_PROGRESS") /\ NoFault
           \/ Fault
  /\ UNCHANGED <<hr, entra, store, task, pending, outcome, ghosts>>

Enter(r) ==
  /\ pc[r] = "enter"
  /\ SetLog(r, "IN_PROGRESS")
  /\ Goto(r, "fetch")
  /\ UNCHANGED <<hr, entra, row, locked, task, pending, outcome, ghosts>>

(* The run returns QUEUED_CONCURRENT.  Its row stays Pending.              *)
Park(r) ==
  /\ pc[r] = "park"
  /\ SetLog(r, "QUEUED_CONCURRENT")
  /\ Goto(r, "idle")
  /\ UNCHANGED <<hr, entra, row, locked, task, pending, outcome, ghosts>>

(* User and packages are read, then the lock is taken.                     *)
FetchCurrentState(r) ==
  /\ pc[r] = "fetch"
  /\ account # "gone"
  /\ user' = [user EXCEPT ![r] = object]
  /\ had' = [had EXCEPT ![r] = held]
  /\ SetRow(r, "Processing")
  /\ locked' = locked \cup {ev[r]}
  /\ deleted' = deleted \ {r}
  /\ unlocked' = unlocked \ {r}
  /\ reopened' = reopened \ {r}
  /\ regained' = [regained EXCEPT ![r] = {}]
  /\ Goto(r, "disable")
  /\ UNCHANGED <<hr, entra, log, ev, driver, pending, result, faults>>

(* No user, or a read fails.                                               *)
FetchFails(r) ==
  /\ pc[r] = "fetch"
  /\ IF account = "gone" THEN NoFault ELSE Fault
  /\ result' = [result EXCEPT ![r] = "OFFBOARD_FAILED"]
  /\ Goto(r, "failing")
  /\ UNCHANGED <<hr, entra, store, task, pending, deleted, ghosts>>

(* _early_fail writes both tables, without a lock to release, and ends the *)
(* orchestration.                                                          *)
LogFailure(r) ==
  /\ pc[r] = "failing"
  /\ SetLog(r, "OFFBOARD_FAILED")
  /\ Goto(r, "failed")
  /\ UNCHANGED <<hr, entra, row, locked, task, pending, outcome, ghosts>>

FailEvent(r) ==
  /\ pc[r] = "failed"
  /\ SetRow(r, "Failed")
  /\ Goto(r, "idle")
  /\ UNCHANGED <<hr, entra, locked, log, task, pending, outcome, faults, ghosts>>

-----------------------------------------------------------------------------
(* ADR-015: disable, then revoke.  A failure is a warning.                 *)

(* A call that reports failure: the object is out of reach, or an error.   *)
CallFails(r) ==
  /\ IF Reaches(r) THEN Fault ELSE NoFault
  /\ unlocked' = unlocked \cup {r}

(* The set of removals the run is about to submit.                         *)
Submission(r, S) ==
  pending' = [pending EXCEPT ![r] =
                [p \in Packages |-> IF p \in S THEN "todo" ELSE "none"]]

(* Mutant of Disable: the call of stage_revoke is forgotten.               *)
DisableOnly(r) ==
  /\ pc[r] = "disable"
  /\ Goto(r, "submit")
  /\ Submission(r, had[r])
  /\ \/ Reaches(r) /\ account' = "disabled" /\ NoFault /\ UNCHANGED unlocked
     \/ CallFails(r) /\ UNCHANGED account
  /\ UNCHANGED <<hr, hold, object, sessions, pim, held, requests, store, task,
                 outcome, reopened, regained>>

Disable(r) ==
  /\ pc[r] = "disable"
  /\ Goto(r, "revoke")
  /\ \/ Reaches(r) /\ account' = "disabled" /\ NoFault /\ UNCHANGED unlocked
     \/ CallFails(r) /\ UNCHANGED account
     \/ Reaches(r) /\ CallFails(r) /\ account' = "disabled"
  /\ UNCHANGED <<hr, hold, object, sessions, pim, held, requests, store, task,
                 pending, outcome, reopened, regained>>

Revoke(r) ==
  /\ pc[r] = "revoke"
  /\ Goto(r, "submit")
  /\ Submission(r, had[r])
  /\ \/ Reaches(r) /\ sessions' = FALSE /\ NoFault /\ UNCHANGED unlocked
     \/ CallFails(r) /\ UNCHANGED sessions
     \/ Reaches(r) /\ CallFails(r) /\ sessions' = FALSE
  /\ UNCHANGED <<hr, hold, object, account, pim, held, requests, store, task,
                 outcome, reopened, regained>>

-----------------------------------------------------------------------------
(* ADR-014: every package is removed.                                      *)

Request(p) == requests' = [requests EXCEPT ![p] = "open"]

Submit(r, p) ==
  /\ pc[r] = "submit" /\ pending[r][p] = "todo"
  /\ Reaches(r)
  /\ SetPending(r, p, "submitted")
  /\ Request(p)
  /\ UNCHANGED <<hr, hold, object, account, sessions, pim, held, store, pc,
                 task, outcome, faults, ghosts>>

(* The POST fails, with or without having reached the platform.            *)
SubmitFails(r, p) ==
  /\ pc[r] = "submit" /\ pending[r][p] = "todo"
  /\ IF Reaches(r) THEN Fault ELSE NoFault
  /\ SetPending(r, p, "unsubmitted")
  /\ \/ Reaches(r) /\ Request(p)
     \/ UNCHANGED requests
  /\ UNCHANGED <<hr, hold, object, account, sessions, pim, held, store, pc,
                 task, outcome, ghosts>>

SubmitDone(r) ==
  /\ pc[r] = "submit"
  /\ \A p \in Packages : pending[r][p] # "todo"
  /\ Goto(r, "poll")
  /\ UNCHANGED <<hr, entra, store, task, pending, outcome, faults, ghosts>>

Poll(r, p) ==
  /\ pc[r] = "poll" /\ pending[r][p] = "submitted"
  /\ requests[p] \in {"delivered", "rejected"}
  /\ SetPending(r, p, requests[p])
  /\ UNCHANGED <<hr, entra, store, pc, task, outcome, faults, ghosts>>

(* Every request is terminal, or the sixty passes are over.                *)
PollEnd(r) ==
  /\ pc[r] = "poll"
  /\ Goto(r, "finalize")
  /\ UNCHANGED <<hr, entra, store, task, pending, outcome, faults, ghosts>>

(* Mutant of FinalizeRemoval: an accepted request counts as removed.       *)
FinalizeTrustsSubmission(r, p) ==
  /\ pc[r] = "finalize" /\ pending[r][p] \notin Decided
  /\ SetPending(r, p, IF pending[r][p] \in {"unsubmitted", "rejected"}
                        THEN "failed" ELSE "removed")
  /\ UNCHANGED <<hr, entra, store, pc, task, outcome, faults, ghosts>>

(* finalize_removals: anything but delivered is asked a second time.       *)
FinalizeRemoval(r, p) ==
  /\ pc[r] = "finalize" /\ pending[r][p] \notin Decided
  /\ \/ pending[r][p] = "unsubmitted" /\ SetPending(r, p, "failed")
     \/ pending[r][p] = "delivered" /\ SetPending(r, p, "removed")
     \/ /\ pending[r][p] \in {"submitted", "rejected"}
        /\ \E a \in Answers(r, p) :
             SetPending(r, p, IF a THEN "failed" ELSE "removed")
  /\ UNCHANGED <<hr, entra, store, pc, task, outcome, faults, ghosts>>

FinalizeDone(r) ==
  /\ pc[r] = "finalize"
  /\ \A p \in Packages : pending[r][p] \in Decided
  /\ Goto(r, "pim")
  /\ UNCHANGED <<hr, entra, store, task, pending, outcome, faults, ghosts>>

-----------------------------------------------------------------------------
(* verify_finalize.                                                        *)

(* stage_pim_terminate: best effort.                                       *)
PimTerminate(r) ==
  /\ pc[r] = "pim"
  /\ Goto(r, "delete")
  /\ \/ pim' = (pim /\ ~Reaches(r)) /\ NoFault
     \/ UNCHANGED pim /\ Fault
  /\ UNCHANGED <<hr, hold, object, account, sessions, held, requests, store,
                 task, pending, outcome, ghosts>>

(* stage_soft_delete: deferred by a hold, else now.                        *)
SoftDelete(r) ==
  /\ pc[r] = "delete"
  /\ Goto(r, "verify")
  /\ \/ hold /\ NothingDeleted /\ deleted' = deleted \ {r} /\ NoFault
     \/ ~hold /\ Reaches(r) /\ DeleteObject /\ deleted' = deleted \cup {r} /\ NoFault
     \/ /\ ~hold
        /\ deleted' = deleted \ {r}
        /\ IF Reaches(r) THEN Fault ELSE NoFault
        /\ NothingDeleted \/ (Reaches(r) /\ DeleteObject)
  /\ UNCHANGED <<hr, hold, object, store, task, pending, result, ghosts>>

PackagesCleared(r) == \A p \in Packages : pending[r][p] # "failed"

(* Mutant of Verify: a set with a failure in it counts as cleared.         *)
VerifyAccountOnly(r) ==
  /\ pc[r] = "verify"
  /\ Goto(r, "record")
  /\ \E s \in Final :
       /\ s = IF r \in deleted \/ account = "disabled" THEN "OFFBOARD_SUCCESS"
              ELSE IF account = "gone" THEN "OFFBOARD_FAILED" ELSE "OFFBOARD_PARTIAL"
       /\ result' = [result EXCEPT ![r] = s]
  /\ UNCHANGED <<hr, entra, store, task, pending, deleted, faults, ghosts>>

(* stage_verify and the final status.  A deleted user counts as disabled,  *)
(* even while get_user still resolves.                                     *)
Verify(r) ==
  /\ pc[r] = "verify"
  /\ Goto(r, "record")
  /\ \E s \in Final :
       /\ \/ /\ s = "OFFBOARD_FAILED" /\ r \notin deleted
             /\ IF account = "gone" THEN NoFault ELSE Fault
          \/ /\ r \in deleted \/ account # "gone"
             /\ s = IF PackagesCleared(r) /\ (r \in deleted \/ account = "disabled")
                      THEN "OFFBOARD_SUCCESS" ELSE "OFFBOARD_PARTIAL"
             /\ NoFault
       /\ result' = [result EXCEPT ![r] = s]
  /\ UNCHANGED <<hr, entra, store, task, pending, deleted, ghosts>>

(* The final status, in the event log first.                               *)
Record(r) ==
  /\ pc[r] = "record"
  /\ SetLog(r, result[r])
  /\ Goto(r, "release")
  /\ UNCHANGED <<hr, entra, row, locked, task, pending, outcome, ghosts>>

ReleaseLock(r) ==
  /\ pc[r] = "release"
  /\ Unlock(r)
  /\ Goto(r, "status")
  /\ UNCHANGED <<hr, entra, row, log, task, pending, outcome, faults, ghosts>>

(* Mutant of UpdateStatus: the event log's status goes into JmlEvents.     *)
UpdateStatusFinal(r) ==
  /\ pc[r] = "status"
  /\ SetRow(r, result[r])
  /\ Goto(r, "recorded")
  /\ UNCHANGED <<hr, entra, locked, log, task, pending, outcome, faults, ghosts>>

(* update_event_status: what the event log calls partial is Failed here.   *)
UpdateStatus(r) ==
  /\ pc[r] = "status"
  /\ SetRow(r, IF result[r] = "OFFBOARD_SUCCESS" THEN "Completed" ELSE "Failed")
  /\ Goto(r, "recorded")
  /\ UNCHANGED <<hr, entra, locked, log, task, pending, outcome, faults, ghosts>>

(* The orchestrator goes on, whatever the status: it sleeps out the hold,  *)
(* then saves the last state.  The HTTP driver has returned.               *)
Recorded(r) ==
  /\ pc[r] = "recorded"
  /\ Goto(r, IF driver[r] = "http" THEN "idle"
             ELSE IF hold /\ r \notin deleted THEN "hold" ELSE "save")
  /\ Submission(r, {})
  /\ UNCHANGED <<hr, entra, store, task, outcome, faults, ghosts>>

-----------------------------------------------------------------------------
(* The deferred deletion and the last state.                               *)

HoldExpires(r) ==
  /\ pc[r] = "hold"
  /\ Goto(r, "deferred")
  /\ UNCHANGED <<hr, entra, store, task, pending, outcome, faults, ghosts>>

(* The guard of deferred_delete: gone, unreadable or enabled is left alone.*)
DeferredGuard(r) ==
  /\ pc[r] = "deferred"
  /\ \/ Goto(r, IF account = "disabled" THEN "deleting" ELSE "save") /\ NoFault
     \/ Goto(r, "save") /\ Fault
  /\ UNCHANGED <<hr, entra, store, task, pending, outcome, ghosts>>

DeferredDelete(r) ==
  /\ pc[r] = "deleting"
  /\ Goto(r, "save")
  /\ \/ Reaches(r) /\ DeleteObject /\ NoFault
     \/ /\ IF Reaches(r) THEN Fault ELSE NoFault
        /\ NothingDeleted \/ (Reaches(r) /\ DeleteObject)
  /\ UNCHANGED <<hr, hold, object, store, task, pending, outcome, ghosts>>

(* save_last_state_activity: mark_terminated.  It swallows its errors.     *)
SaveLastState(r) ==
  /\ pc[r] = "save"
  /\ Goto(r, "idle")
  /\ \/ last' = (IF driver[r] = "webhook" THEN "Inactive" ELSE last) /\ NoFault
     \/ UNCHANGED last /\ Fault
  /\ UNCHANGED <<employed, terminated, joined, entra, store, task, pending,
                 outcome, ghosts>>

-----------------------------------------------------------------------------
(* Runs that stop or repeat themselves.                                    *)

(* The host of an HTTP run dies, or an exception nothing catches ends it.  *)
Die(r) ==
  /\ pc[r] # "idle"
  /\ Fault
  /\ Goto(r, "idle")
  /\ UNCHANGED <<hr, entra, store, task, pending, outcome, ghosts>>

(* An activity is delivered again, the result of the first time lost.      *)
Redeliver(r) ==
  /\ driver[r] # "http"
  /\ Fault
  /\ \/ pc[r] \in Pre /\ Goto(r, "claim") /\ UNCHANGED pending
     \/ pc[r] = "submit" /\ Submission(r, had[r]) /\ UNCHANGED pc
     \/ pc[r] \in Closing /\ Goto(r, "pim") /\ UNCHANGED pending
     \/ pc[r] = "deleting" /\ Goto(r, "deferred") /\ UNCHANGED pending
  /\ UNCHANGED <<hr, entra, store, task, outcome, ghosts>>

-----------------------------------------------------------------------------
(* Entra, HR and the others.                                               *)

Answer(p, s) == requests' = [requests EXCEPT ![p] = s]

DeliverRemoval(p) ==
  /\ requests[p] = "open"
  /\ held' = held \ {p}
  /\ Answer(p, "delivered")
  /\ UNCHANGED <<hr, hold, object, account, sessions, pim, store, pc, task,
                 pending, outcome, faults, ghosts>>

RejectRemoval(p) ==
  /\ requests[p] = "open"
  /\ Answer(p, "rejected")
  /\ UNCHANGED <<hr, hold, object, account, sessions, pim, held, store, pc,
                 task, pending, outcome, faults, ghosts>>

(* A Joiner or Mover that held its lock when the Leaver came goes on.      *)
OthersAdd(p) ==
  /\ account # "gone" /\ p \notin held
  /\ held' = held \cup {p}
  /\ regained' = [r \in Runs |-> regained[r] \cup {p}]
  /\ UNCHANGED <<hr, hold, object, account, sessions, pim, requests, store, pc,
                 task, pending, outcome, faults, unlocked, reopened>>

(* The user signs in, or goes on using a token.                            *)
SignIn ==
  /\ account = "enabled" /\ ~sessions
  /\ sessions' = TRUE
  /\ UNCHANGED <<hr, hold, object, account, pim, held, requests, store, pc,
                 task, pending, outcome, faults, ghosts>>

Terminate ==
  /\ employed /\ terminated < MaxTerminations
  /\ employed' = FALSE
  /\ terminated' = terminated + 1
  /\ UNCHANGED <<last, joined, entra, store, pc, task, pending, outcome, faults,
                 ghosts>>

Rehire ==
  /\ ~employed
  /\ employed' = TRUE
  /\ joined' = 0
  /\ UNCHANGED <<terminated, last, entra, store, pc, task, pending, outcome,
                 faults, ghosts>>

(* The re-hire's Joiner, before its own claim: check_active_event resets   *)
(* the stale rows it comes across, a Leaver's too.                         *)
JoinerResets(t) ==
  /\ employed /\ joined = 0
  /\ StaleLock(t)
  /\ row' = [row EXCEPT ![t] = "Pending"]
  /\ locked' = locked \ {t}
  /\ UNCHANGED <<hr, entra, log, pc, task, pending, outcome, faults, ghosts>>

(* The re-hire's Joiner gets past its conflict check only when no Leaver   *)
(* event is active.  create_user then takes an account that exists as it   *)
(* is, or creates one.                                                     *)
Join ==
  /\ employed /\ terminated > 0 /\ joined = 0
  /\ \A t \in Terminations : row[t] \notin {"Pending", "Processing"}
  /\ \/ /\ account # "gone"
        /\ joined' = object
        /\ UNCHANGED <<object, account>>
     \/ /\ account = "gone"
        /\ joined' = object + 1
        /\ object' = object + 1
        /\ account' = "enabled"
  /\ UNCHANGED <<employed, terminated, last, hold, sessions, pim, held, requests,
                 store, pc, task, pending, outcome, faults, ghosts>>

(* A Joiner the webhook started saves the last state.                      *)
JoinerSaves ==
  /\ employed /\ joined # 0 /\ last = "Inactive"
  /\ last' = "Active"
  /\ UNCHANGED <<employed, terminated, joined, entra, store, pc, task, pending,
                 outcome, faults, ghosts>>

(* An operator enables the account of an employee who is back.             *)
Enable ==
  /\ employed /\ account = "disabled"
  /\ account' = "enabled"
  /\ reopened' = Runs
  /\ UNCHANGED <<hr, hold, object, sessions, pim, held, requests, store, pc,
                 task, pending, outcome, faults, unlocked, regained>>

-----------------------------------------------------------------------------
Removals(r, p) ==
  Submit(r, p) \/ SubmitFails(r, p) \/ Poll(r, p) \/ FinalizeRemoval(r, p)

Step(r) ==
  \/ Claim(r) \/ Duplicate(r) \/ Guard(r) \/ Enter(r) \/ Park(r)
  \/ FetchCurrentState(r) \/ FetchFails(r) \/ LogFailure(r) \/ FailEvent(r)
  \/ Disable(r) \/ Revoke(r)
  \/ SubmitDone(r) \/ PollEnd(r) \/ FinalizeDone(r)
  \/ PimTerminate(r) \/ SoftDelete(r) \/ Verify(r)
  \/ Record(r) \/ ReleaseLock(r) \/ UpdateStatus(r) \/ Recorded(r)
  \/ HoldExpires(r) \/ DeferredGuard(r) \/ DeferredDelete(r) \/ SaveLastState(r)
  \/ \E p \in Packages : Removals(r, p)

Environment ==
  \/ SignIn \/ Terminate \/ Rehire \/ Join \/ JoinerSaves \/ Enable
  \/ \E p \in Packages : DeliverRemoval(p) \/ RejectRemoval(p) \/ OthersAdd(p)
  \/ \E t \in Terminations : JoinerResets(t)

Next ==
  \/ \E r \in Runs : Start(r) \/ Step(r) \/ Die(r) \/ Redeliver(r)
  \/ Environment

Spec == Init /\ [][Next]_vars

(* A run whose host lives goes on, a hold ends, a lock that is not renewed *)
(* is old in the end, and the trigger of a termination keeps coming back,  *)
(* as a retried HTTP call does.                                            *)
FairSpec ==
  /\ Spec
  /\ \A r \in Runs : WF_vars(Step(r)) /\ SF_vars(Claim(r)) /\ SF_vars(Start(r))

-----------------------------------------------------------------------------
(* Properties.                                                             *)

(* ADR-015: from the first removal on, the account is locked out and no    *)
(* session survives, unless the run logged that a call had failed or       *)
(* someone enabled the account again.                                      *)
LockedOutFirst ==
  \A r \in Runs :
    /\ pc[r] \in Removal \cup Closing \cup Deferral \cup {"save"}
    /\ Reaches(r)
    /\ r \notin unlocked \cup reopened
    => account = "disabled" /\ ~sessions

(* OFFBOARD_SUCCESS: as long as the object is the same, it stays cut off   *)
(* until someone enables it, and of the packages it had it holds only what *)
(* another pipeline has added since, and of what an old assignment hides   *)
(* from the check perhaps a package whose removal was refused.             *)
SuccessMeansCutOff ==
  \A r \in Runs :
    result[r] = "OFFBOARD_SUCCESS" /\ Reaches(r) =>
      /\ account = "disabled" \/ r \in reopened
      /\ had[r] \cap held \subseteq regained[r] \cup Shadowed

(* No run works on the event and no trigger takes it up: its row is left   *)
(* Pending, by a run that was queued or lost before the lock, or is left   *)
(* Processing without LockedAt, by one lost after release_lock.            *)
Stuck(t) ==
  /\ ~\E r \in Runs : ev[r] = t /\ pc[r] \in (Pre \ {"claim"}) \cup Removal \cup Closing
  /\ row[t] = "Pending" \/ (row[t] = "Processing" /\ t \notin locked)

(* Failures do not leave a terminated employee in: while the trigger is    *)
(* repeated, the account is cut off in the end, however calls fail and     *)
(* runs are lost, unless a queued or a lost run has left the event Stuck.  *)
CutOffUnlessStuck ==
  ~employed ~> employed \/ account # "enabled" \/ Stuck(terminated)

(* An event with a success in both tables keeps them, as long as the runs  *)
(* of one event do not overlap (those of leaver_faults are one at a time): *)
(* only verify_finalize, delivered again, writes over either, when it      *)
(* finds the account gone, as after its own deletion, unreadable, enabled  *)
(* by someone, or another one of a re-hire. No trigger, hold or late       *)
(* removal reopens the event. (A run lost between the two writes leaves    *)
(* OFFBOARD_SUCCESS on a Processing row: there a trigger may start over.)  *)
SuccessTakenBackByRepeatOnly ==
  [][\A t \in Terminations :
       /\ log[t] = "OFFBOARD_SUCCESS" /\ row[t] = "Completed"
       /\ log'[t] # log[t] \/ row'[t] # row[t]
       => \E r \in Runs :
            /\ pc[r] \in {"record", "status"} /\ ev[r] = t
            /\ \/ result[r] = "OFFBOARD_FAILED"
               \/ /\ result[r] = "OFFBOARD_PARTIAL"
                  /\ r \in reopened \/ ~Reaches(r)]_vars

(* Without a failed or repeated call, and where no live run outlasts its   *)
(* lock, a logged success is final even where runs overlap: the claim (one *)
(* step here, see EventStore) gives an event to one run, which records     *)
(* once, and whatever parks, holds or triggers come after leave it alone.  *)
SuccessIsFinal ==
  [][\A t \in Terminations :
       log[t] = "OFFBOARD_SUCCESS" => log'[t] = "OFFBOARD_SUCCESS"]_vars

(* The account of a re-hire is not deleted by the offboarding before it.   *)
(* The documentation says so, and the code does not do it: README.md,      *)
(* leaver_rehire_deleted.                                                  *)
RehireKept ==
  [][employed /\ joined = object => account' = account \/ account' # "gone"]_vars
=============================================================================
