------------------------------- MODULE Joiner -------------------------------
(***************************************************************************)
(* What a Joiner does in Entra: find or create the account, request the    *)
(* access packages, wait for them, assign PIM eligibility, check, close    *)
(* the event (Provisioning/provisioner.py; the drivers are Joiner/durable, *)
(* Joiner_http and the batch adapter of the HR connector). A run that      *)
(* fails is started again, by any driver.                                  *)
(*                                                                         *)
(* One employee, one run at a time: what runs that meet do to the event    *)
(* store is module EventStore.                                             *)
(***************************************************************************)
EXTENDS Naturals, FiniteSets

CONSTANTS
  Packages,   \* the access packages the mapping rules resolve to
  Pim,        \* the PIM eligibility they resolve to
  MaxFaults   \* bound: failed calls, lost hosts, repeated activities

ASSUME ConstantsAssumption ==
  /\ Pim \notin Packages
  /\ MaxFaults \in Nat

VARIABLES
  \* Entra
  account,   \* whether the UPN exists
  held,      \* what the account has been given
  lapsed,    \* packages with an old assignment that has expired
  requests,  \* the last request of each package
  \* the event row of the Joiner
  row,
  locked,    \* LockedAt is set: the row can become stale
  \* the run
  driver,
  pc,
  todo,      \* packages submit_access_packages has yet to come to
  pending,   \* PendingPackage.state
  result,    \* final_status so far
  \* observed, nothing in the code
  excused,   \* what this run goes without in a known way
  refused,   \* a gate or Entra has said no
  faults

entra == <<account, held, lapsed, requests>>
event == <<row, locked>>
work == <<todo, pending, result>>
observed == <<excused, refused, faults>>
vars == <<entra, event, driver, pc, work, observed>>

(* The staged drivers go through Joiner/stages.py, the batch adapter does  *)
(* not; the durable one alone does not call provision_joiner.              *)
Staged == {"durable", "http"}
Drivers == Staged \union {"batch"}
Row == {"none", "Pending", "Processing", "Completed", "Failed"}
RequestState == {"none", "open", "delivered", "rejected"}
PendingState ==
  {"none", "skipped", "unsubmitted", "submitted", "delivered", "rejected"}
PC == {"idle", "check", "create", "submit", "poll", "record", "assign",
       "validate", "complete", "fail", "done"}

TypeOK ==
  /\ account \in BOOLEAN
  /\ held \in SUBSET (Packages \union {Pim})
  /\ lapsed \in SUBSET Packages
  /\ requests \in [Packages -> RequestState]
  /\ row \in Row
  /\ locked \in BOOLEAN
  /\ driver \in Drivers
  /\ pc \in PC
  /\ todo \in SUBSET Packages
  /\ pending \in [Packages -> PendingState]
  /\ result \in {"PROCEED", "FAILED"}
  /\ excused \in SUBSET (Packages \union {Pim})
  /\ refused \in BOOLEAN
  /\ faults \in 0 .. MaxFaults

------------------------------------------------------------------------------
Fault ==
  /\ faults < MaxFaults
  /\ faults' = faults + 1

NothingPending == [p \in Packages |-> "none"]

(* A lost run under the lock: once the lock has aged, is_stale_lock.       *)
Stale == row = "Processing" /\ locked

(* A row that no driver takes up: is_stale_lock never calls one without    *)
(* LockedAt stale, and a Pending one is a duplicate.                       *)
Stuck == pc = "idle" /\ (row = "Pending" \/ (row = "Processing" /\ ~locked))

(* A new hire, or one whose account and expired assignments are still      *)
(* there from before.                                                      *)
Init ==
  /\ account \in BOOLEAN
  /\ held = {}
  /\ lapsed \in SUBSET Packages
  /\ lapsed # {} => account
  /\ requests = [p \in Packages |-> "none"]
  /\ row = "none"
  /\ locked = FALSE
  /\ driver \in Drivers
  /\ pc = "idle"
  /\ todo = {}
  /\ pending = NothingPending
  /\ result = "PROCEED"
  /\ excused = {}
  /\ refused = FALSE
  /\ faults = 0

------------------------------------------------------------------------------
(* The gates before provisioning.                                          *)

(* Mutant of Claimable: any row that nobody works on is taken again.       *)
ClaimableAlways(d) == TRUE

(* claim_event: a new row or a failed one; a stale lock only in the batch  *)
(* adapter, which goes to the claim straight.                              *)
Claimable(d) == row \in {"none", "Failed"} \/ (Stale /\ d \notin Staged)

Start(d) ==
  /\ pc = "idle"
  /\ Claimable(d)
  /\ row' = "Pending"
  /\ locked' = FALSE
  /\ driver' = d
  /\ pc' = "check"
  /\ todo' = {}
  /\ pending' = NothingPending
  /\ result' = "PROCEED"
  /\ excused' = {}
  /\ UNCHANGED <<entra, refused, faults>>

(* The staged drivers' check_active_event resets the stale row to Pending  *)
(* before the claim, which then takes it for a duplicate.                  *)
ResetStale ==
  /\ pc = "idle"
  /\ Stale
  /\ row' = "Pending"
  /\ locked' = FALSE
  /\ UNCHANGED <<entra, driver, pc, work, observed>>

(* A duplicate, or a row Processing that is not stale (yet).               *)
TurnedAway ==
  /\ pc = "idle"
  /\ row \notin {"none", "Failed"}
  /\ UNCHANGED vars

(* stage_conflict_check: parked behind another event of the employee.      *)
Queued ==
  /\ pc = "check"
  /\ pc' = "idle"
  /\ UNCHANGED <<entra, event, driver, work, observed>>

(* stage_pre_validate: the record is held, or the lock is taken.           *)
Held ==
  /\ pc = "check"
  /\ row' = "Failed"
  /\ refused' = TRUE
  /\ pc' = "idle"
  /\ UNCHANGED <<entra, locked, driver, work, excused, faults>>

(* The Graph client that the driver builds itself could not be built.      *)
NoGraphClient ==
  /\ pc = "check"
  /\ driver # "durable"
  /\ Fault
  /\ row' = "Failed"
  /\ pc' = "idle"
  /\ UNCHANGED <<entra, locked, driver, work, excused, refused>>

AcquireLock ==
  /\ pc = "check"
  /\ row' = "Processing"
  /\ locked' = TRUE
  /\ pc' = "create"
  /\ UNCHANGED <<entra, driver, work, observed>>

------------------------------------------------------------------------------
(* check_or_create_user, with the status Processing every caller passes.   *)

(* Mutant of Resumes: an account that exists is a conflict of UPNs.        *)
ResumesNever == FALSE

(* An account that exists is taken for this Joiner's own, from a retry.    *)
Resumes == account

CreateUser ==
  /\ pc = "create"
  /\ IF account
     THEN /\ result' = IF Resumes THEN "PROCEED" ELSE "FAILED"
          /\ UNCHANGED account
     ELSE account' = TRUE /\ UNCHANGED result
  /\ IF result' = "PROCEED"
     THEN pc' = "submit" /\ todo' = Packages
     ELSE pc' = "record" /\ UNCHANGED todo
  /\ UNCHANGED <<held, lapsed, requests, event, driver, pending, observed>>

(* Mutant of CreateFails: the failed result is not returned.               *)
CreateFailsGoesOn ==
  /\ pc = "create"
  /\ Fault
  /\ account' \in {account, TRUE}
  /\ pc' = "submit"
  /\ todo' = Packages
  /\ UNCHANGED <<held, lapsed, requests, event, driver, pending, result, excused,
                 refused>>

(* get_user or create_user fails; the account may have been created.       *)
CreateFails ==
  /\ pc = "create"
  /\ Fault
  /\ account' \in {account, TRUE}
  /\ result' = "FAILED"
  /\ pc' = "record"
  /\ UNCHANGED <<held, lapsed, requests, event, driver, todo, pending, excused,
                 refused>>

------------------------------------------------------------------------------
(* submit_access_packages: each package on its own, failures at the end.   *)

Submitted(p, state) ==
  /\ pc = "submit"
  /\ p \in todo
  /\ todo' = todo \ {p}
  /\ pending' = [pending EXCEPT ![p] = state]
  /\ UNCHANGED <<account, held, lapsed, event, driver, pc, result, refused>>

(* check_package_assignment has no filter on the state of an assignment:   *)
(* an expired one is found too, and that of an open request may be.        *)
SubmitSkip(p) ==
  /\ (p \in held \union lapsed \/ requests[p] = "open")
  /\ excused' = IF p \in held THEN excused ELSE excused \union {p}
  /\ Submitted(p, "skipped")
  /\ UNCHANGED <<requests, faults>>

Submit(p) ==
  /\ p \notin held \union lapsed
  /\ requests[p] # "open"
  /\ requests' = [requests EXCEPT ![p] = "open"]
  /\ Submitted(p, "submitted")
  /\ UNCHANGED <<excused, faults>>

(* The open request's assignment is not found, and Entra has no second     *)
(* request beside it.                                                      *)
SubmitRefused(p) ==
  /\ requests[p] = "open"
  /\ Submitted(p, "unsubmitted")
  /\ UNCHANGED <<requests, excused, faults>>

(* A call fails, the request's perhaps after Entra took it.                *)
SubmitFails(p) ==
  /\ Fault
  /\ \/ UNCHANGED requests
     \/ /\ p \notin held \union lapsed
        /\ requests' = [requests EXCEPT ![p] = "open"]
  /\ Submitted(p, "unsubmitted")
  /\ UNCHANGED excused

SubmitDone ==
  /\ pc = "submit"
  /\ todo = {}
  /\ IF \E p \in Packages : pending[p] = "unsubmitted"
     THEN result' = "FAILED" /\ pc' = "record"
     ELSE UNCHANGED result /\ pc' = "poll"
  /\ UNCHANGED <<entra, event, driver, todo, pending, observed>>

------------------------------------------------------------------------------
(* poll_access_packages_once, record_access_package_results.               *)

(* Mutant of Polled: the pass writes what Entra calls a request at work.   *)
PolledRaw(p) == requests[p]

(* A request at work stays "submitted" here, whatever its name in Entra.   *)
Polled(p) == IF requests[p] = "open" THEN "submitted" ELSE requests[p]

Poll(p) ==
  /\ pc = "poll"
  /\ pending[p] = "submitted"
  /\ pending' = [pending EXCEPT ![p] = Polled(p)]
  /\ UNCHANGED <<entra, event, driver, pc, todo, result, observed>>

(* All terminal, or 60 passes, some of which may have failed.              *)
PollEnd ==
  /\ pc = "poll"
  /\ pc' = "record"
  /\ UNCHANGED <<entra, event, driver, work, observed>>

(* Mutant of Arrived: a package still at work counts as assigned.          *)
ArrivedOrWaiting(p) == pending[p] \in {"skipped", "delivered", "submitted"}

Arrived(p) == pending[p] \in {"skipped", "delivered"}

(* Only provision_joiner assigns PIM eligibility.                          *)
Record ==
  /\ pc = "record"
  /\ pc' = IF result = "FAILED" \/ \E p \in Packages : ~Arrived(p)
           THEN "fail"
           ELSE IF driver = "durable" THEN "validate" ELSE "assign"
  /\ UNCHANGED <<entra, event, driver, work, observed>>

------------------------------------------------------------------------------
(* _assign_pim_eligibility: a failure is a warning.                        *)

AssignPim ==
  /\ pc = "assign"
  /\ held' = held \union {Pim}
  /\ pc' = "validate"
  /\ UNCHANGED <<account, lapsed, requests, event, driver, work, observed>>

AssignPimFails ==
  /\ pc = "assign"
  /\ excused' = excused \union {Pim}
  /\ pc' = "validate"
  /\ UNCHANGED <<entra, event, driver, work, refused, faults>>

------------------------------------------------------------------------------
(* stage_post_validate, stage_finalize.                                    *)

Validate ==
  /\ pc = "validate"
  /\ pc' = "complete"
  /\ UNCHANGED <<entra, event, driver, work, observed>>

Finding ==
  /\ pc = "validate"
  /\ refused' = TRUE
  /\ pc' = "fail"
  /\ UNCHANGED <<entra, event, driver, work, excused, faults>>

(* memberOf cannot be read.                                                *)
ValidateFails ==
  /\ pc = "validate"
  /\ Fault
  /\ pc' = "fail"
  /\ UNCHANGED <<entra, event, driver, work, excused, refused>>

ReleaseLock ==
  /\ pc \in {"complete", "fail"}
  /\ locked
  /\ locked' = FALSE
  /\ UNCHANGED <<entra, row, driver, pc, work, observed>>

Finalize ==
  /\ pc \in {"complete", "fail"}
  /\ ~locked
  /\ row' = IF pc = "complete" THEN "Completed" ELSE "Failed"
  /\ pc' = "done"
  /\ UNCHANGED <<entra, locked, driver, work, observed>>

End ==
  /\ pc = "done"
  /\ pc' = "idle"
  /\ UNCHANGED <<entra, event, driver, work, observed>>

------------------------------------------------------------------------------
(* A table call fails, or a host without Durable Functions is lost: the    *)
(* run is over.                                                            *)
Die ==
  /\ pc \notin {"idle", "done"}
  /\ Fault
  /\ pc' = "idle"
  /\ UNCHANGED <<entra, event, driver, work, excused, refused>>

(* Durable Functions runs an activity again when its worker is lost, with  *)
(* the same input: what it did the first time is done.                     *)
CreateAgain ==
  /\ pc = "submit"
  /\ todo = Packages
  /\ pc' = "create"
  /\ UNCHANGED <<work, excused>>

SubmitAgain ==
  /\ pc \in {"submit", "poll"}
  /\ \A p \in Packages : pending[p] \notin {"delivered", "rejected"}
  /\ pc' = "submit"
  /\ todo' = Packages
  /\ pending' = NothingPending
  /\ excused' = {}
  /\ UNCHANGED result

RecordAgain ==
  /\ pc \in {"validate", "complete", "fail", "done"}
  /\ pc' = "record"
  /\ UNCHANGED <<work, excused>>

Redeliver ==
  /\ driver = "durable"
  /\ Fault
  /\ CreateAgain \/ SubmitAgain \/ RecordAgain
  /\ UNCHANGED <<entra, event, driver, refused>>

(* Entra answers a request.                                                *)
Deliver(p) ==
  /\ requests[p] = "open"
  /\ requests' = [requests EXCEPT ![p] = "delivered"]
  /\ held' = held \union {p}
  /\ UNCHANGED <<account, lapsed, event, driver, pc, work, observed>>

Reject(p) ==
  /\ requests[p] = "open"
  /\ requests' = [requests EXCEPT ![p] = "rejected"]
  /\ refused' = TRUE
  /\ UNCHANGED <<account, held, lapsed, event, driver, pc, work, excused, faults>>

------------------------------------------------------------------------------
SubmitPackage(p) ==
  SubmitSkip(p) \/ Submit(p) \/ SubmitRefused(p) \/ SubmitFails(p)

Step ==
  \/ Queued \/ Held \/ NoGraphClient \/ AcquireLock
  \/ CreateUser \/ CreateFails
  \/ \E p \in Packages : SubmitPackage(p) \/ Poll(p)
  \/ SubmitDone \/ PollEnd \/ Record
  \/ AssignPim \/ AssignPimFails
  \/ Validate \/ Finding \/ ValidateFails
  \/ ReleaseLock \/ Finalize \/ End

Answer(p) == Deliver(p) \/ Reject(p)

(* The record is posted (again).                                           *)
Trigger == (\E d \in Drivers : Start(d)) \/ ResetStale

Next ==
  \/ Trigger \/ TurnedAway
  \/ Step
  \/ Die \/ Redeliver
  \/ \E p \in Packages : Answer(p)

(* A run goes on while its host lives, Entra answers, and a record whose   *)
(* Joiner failed is posted again.                                          *)
Fairness ==
  /\ WF_vars(Step)
  /\ WF_vars(Trigger)
  /\ \A p \in Packages : WF_vars(Answer(p))

Spec == Init /\ [][Next]_vars /\ Fairness

------------------------------------------------------------------------------
(* A Completed Joiner has an account that holds every package, but for     *)
(* those skipped over an expired assignment or an open request. Run by a   *)
(* driver that assigns PIM it has that eligibility too, unless the call    *)
(* failed: a failed submission, a run out of polls, a denied package or a  *)
(* lost answer never ends as Completed, in this run or in one after it.    *)
CompletedMeansGranted ==
  row = "Completed" =>
    /\ account
    /\ Packages \subseteq held \union excused
    /\ driver # "durable" => Pim \in held \union excused

(* What is Completed is not provisioned again. Only the last activity of   *)
(* the durable driver, run once more, may find memberOf unreadable or      *)
(* against the rules and write Failed over it.                             *)
CompletedStays ==
  [][row = "Completed" /\ row' # "Completed" =>
       driver = "durable" /\ pc = "fail" /\ row' = "Failed"]_vars

(* Seen from outside, all runs of a Joiner together are JoinContract: the  *)
(* requests of every run, retry and repeated activity are for an account   *)
(* that exists, its packages are seen to before its PIM eligibility and    *)
(* before Completed, and nothing is taken away.                            *)
Contract == INSTANCE JoinContract
  WITH assigned  <- lapsed,
       requested <- {p \in Packages : requests[p] # "none"},
       completed <- row = "Completed"
ImplementsContract == Contract!Spec

(* However a run fails, with requests open and an account half made, the   *)
(* next ones resume from it until the Joiner is Completed, unless a gate   *)
(* or Entra says no or the row is Stuck: parked behind another event, lost *)
(* before the lock or between release_lock and the status, or lost under   *)
(* the lock and met again by a staged driver first. Only the batch adapter *)
(* takes such a row up (stages.py:136-141 says claim_event does).          *)
EventuallyJoined == <>(row = "Completed" \/ refused \/ Stuck)
=============================================================================
