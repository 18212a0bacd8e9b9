----------------------------- MODULE EventStore -----------------------------
(***************************************************************************)
(* The JmlEvents partition of one employee and the pipeline runs that use  *)
(* it: Functions/Event_store/event_store.py, conflict_queue.py, and the    *)
(* calls the Joiner, the batch Joiner, the Mover and the Leaver make on    *)
(* them.                                                                   *)
(*                                                                         *)
(* Azure Table Storage is external.  What the code relies on is that one   *)
(* call is atomic (an insert fails on an existing key, a MERGE changes the *)
(* properties it names); two calls of a run are two steps, and the steps   *)
(* of other runs come in between.  No write of the store carries an ETag.  *)
(***************************************************************************)
EXTENDS Naturals, FiniteSets

CONSTANTS
  Runs,        \* concurrent executions of a pipeline for this employee
  Events,      \* row keys: hashes of employee, action and start date
  Action,      \* [Events -> the action the row key was made from]
  SlowRuns,    \* whether a live run may outlast its lock's ten minutes
  MaxCrashes   \* bound: crashes and redeliveries in a behaviour

Actions == {"Joiner", "Mover", "Leaver"}

(* Who runs an event.  A Joiner event is run by the staged Joiner (durable *)
(* or HTTP driver) or by the batch path of the BambooHR adapter.           *)
Kinds == {"Joiner", "Batch", "Mover", "Leaver"}
KindsOf(e) == IF Action[e] = "Joiner" THEN {"Joiner", "Batch"} ELSE {Action[e]}

ASSUME ConstantsAssumption ==
  /\ Action \in [Events -> Actions]
  /\ SlowRuns \in BOOLEAN
  /\ MaxCrashes \in Nat

VARIABLES
  status,      \* [Events -> Status], "Absent" where there is no row
  lock,        \* [Events -> Lock], the age of LockedAt
  queue,       \* [Events -> the events stamped no later than this one, itself
               \* included]; empty where the row carries no QueuedAt
  pc,          \* [Runs -> the next step of the run]
  ev,          \* [Runs -> the event the run was started for]
  kind,        \* [Runs -> Kinds]
  todo,        \* [Runs -> rows of an earlier query still to be written]
  result,      \* [Runs -> the final status the run has decided]
  crashes,     \* crashes and redeliveries so far
  \* Observation only: no step of the system reads these.
  closed,      \* [Runs -> events Completed at every moment since the run began]
  disturbed,   \* runs whose row another run wrote while they held its claim
  orphaned     \* events whose run was lost past the lock, not written since

rows == <<status, lock, queue>>
local == <<pc, ev, kind, todo, result>>
ghosts == <<closed, disturbed, orphaned>>
vars == <<status, lock, queue, pc, ev, kind, todo, result, crashes,
          closed, disturbed, orphaned>>

Status == {"Absent", "Pending", "Processing", "Completed", "Failed",
           "Superseded", "Held"}
Lock == {"none", "fresh", "stale"}

Granted == {"check", "supersede", "mark", "guard", "gate"}
Locking == {"lock", "work", "release", "update"}
PC == {"idle", "scan", "sweep", "sweepSkip", "claim", "get", "reclaim",
       "advance", "advancing"} \cup Granted \cup Locking

TypeOK ==
  /\ status \in [Events -> Status]
  /\ lock \in [Events -> Lock]
  /\ queue \in [Events -> SUBSET Events]
  /\ pc \in [Runs -> PC]
  /\ ev \in [Runs -> Events]
  /\ kind \in [Runs -> Kinds]
  /\ todo \in [Runs -> SUBSET Events]
  /\ result \in [Runs -> {"Completed", "Failed"}]
  /\ crashes \in 0..MaxCrashes
  /\ closed \in [Runs -> SUBSET Events]
  /\ disturbed \subseteq Runs
  /\ orphaned \subseteq Events

-----------------------------------------------------------------------------
(* Reading the table.                                                      *)

Active(e) == status[e] \in {"Pending", "Processing"}
StaleLock(e) == status[e] = "Processing" /\ lock[e] = "stale"
Stamped(e) == e \in queue[e]
Queued == {e \in Events : status[e] = "Pending" /\ Stamped(e)}

(* The queued rows no other queued row precedes: at most one.              *)
Oldest == {e \in Queued : queue[e] \cap Queued = {e}}

(* The runs that hold the claim of e: claim_event has told them True and   *)
(* they have not written the final status yet.                             *)
Holders(e) == {r \in Runs : ev[r] = e /\ pc[r] \in Granted \cup Locking}

-----------------------------------------------------------------------------
(* Writing one row, as a step of run r.                                    *)

Goto(r, l) == pc' = [pc EXCEPT ![r] = l]

(* A run that ends forgets its local data.                                 *)
Forget(r) ==
  /\ todo' = [todo EXCEPT ![r] = {}]
  /\ result' = [result EXCEPT ![r] = "Failed"]

Write(r, e, s, l) ==
  /\ status' = [status EXCEPT ![e] = s]
  /\ lock' = [lock EXCEPT ![e] = l]
  /\ closed' = [q \in Runs |-> IF s = "Completed" THEN closed[q]
                                                  ELSE closed[q] \ {e}]
  /\ orphaned' = orphaned \ {e}

Disturb(r, e) == disturbed \cup (Holders(e) \ {r})

(* update_event_status and the supersede: Status alone.                    *)
UpdateStatus(r, e, s) == Write(r, e, s, lock[e])

(* QueuedAt := now, which is later than every other stamp; and its removal.*)
Stamp(e) == [x \in Events |-> IF x = e THEN {y \in Events : Stamped(y)} \cup {e}
                                       ELSE queue[x] \ {e}]
Unstamp(e) == [x \in Events |-> IF x = e THEN {} ELSE queue[x] \ {e}]

(* reclaim_event: back to Pending, lock cleared, stamp left as it was.     *)
Reclaim(r, e) == Write(r, e, "Pending", "none")

-----------------------------------------------------------------------------
Init ==
  /\ status = [e \in Events |-> "Absent"]
  /\ lock = [e \in Events |-> "none"]
  /\ queue = [e \in Events |-> {}]
  /\ pc = [r \in Runs |-> "idle"]
  /\ ev \in [Runs -> Events]
  /\ kind = [r \in Runs |-> "Joiner"]
  /\ todo = [r \in Runs |-> {}]
  /\ result = [r \in Runs |-> "Failed"]
  /\ crashes = 0
  /\ closed = [r \in Runs |-> {}]
  /\ disturbed = {}
  /\ orphaned = {}

(* A trigger (webhook, HTTP starter, batch) starts a run for e; a retry of *)
(* the same event is one more start.                                       *)
Start(r, e) ==
  /\ pc[r] = "idle"
  /\ \E k \in KindsOf(e) :
       /\ kind' = [kind EXCEPT ![r] = k]
       /\ Goto(r, IF k = "Joiner" THEN "scan" ELSE "claim")
  /\ ev' = [ev EXCEPT ![r] = e]
  /\ closed' = [closed EXCEPT ![r] = {x \in Events : status[x] = "Completed"}]
  /\ UNCHANGED <<rows, todo, result, crashes, disturbed, orphaned>>

-----------------------------------------------------------------------------
(* stage_claim_event of the Joiner begins with check_active_event: one     *)
(* query, then the rows in key order.  Keys are hashes, so any active row  *)
(* may come first; stale rows before it are reclaimed, a Processing one    *)
(* ends the run (SKIPPED), a Pending one does not.                         *)
Scan(r) ==
  /\ pc[r] = "scan"
  /\ LET stale == {e \in Events : StaleLock(e)}
         live  == {e \in Events : Active(e)} \ stale
     IN \/ /\ live = {}
           /\ todo' = [todo EXCEPT ![r] = stale]
           /\ Goto(r, "sweep")
        \/ \E first \in live, before \in SUBSET stale :
             /\ todo' = [todo EXCEPT ![r] = before]
             /\ Goto(r, IF status[first] = "Processing" THEN "sweepSkip"
                                                        ELSE "sweep")
  /\ UNCHANGED <<rows, ev, kind, result, crashes, ghosts>>

(* One reclaim of check_active_event, on what the query had returned.      *)
Sweep(r) ==
  /\ pc[r] \in {"sweep", "sweepSkip"}
  /\ \E e \in todo[r] :
       /\ Reclaim(r, e)
       /\ todo' = [todo EXCEPT ![r] = @ \ {e}]
       /\ disturbed' = Disturb(r, e)
  /\ UNCHANGED <<queue, pc, ev, kind, result, crashes>>

SweepEnd(r) ==
  /\ pc[r] \in {"sweep", "sweepSkip"}
  /\ todo[r] = {}
  /\ Goto(r, IF pc[r] = "sweep" THEN "claim" ELSE "idle")
  /\ UNCHANGED <<rows, ev, kind, todo, result, crashes, ghosts>>

(* What a granted claim leads to: the Mover has no conflict check.         *)
AfterClaim(r) == IF kind[r] = "Mover" THEN "guard" ELSE "check"

(* claim_event: create_entity succeeds on a new key.                       *)
Claim(r) ==
  /\ pc[r] = "claim"
  /\ status[ev[r]] = "Absent"
  /\ Write(r, ev[r], "Pending", "none")
  /\ disturbed' = Disturb(r, ev[r]) \ {r}
  /\ Goto(r, AfterClaim(r))
  /\ UNCHANGED <<queue, ev, kind, todo, result, crashes>>

(* Mutant of ClaimExists: the existing row passes for a claim.             *)
ClaimExistsGranted(r) ==
  /\ pc[r] = "claim"
  /\ status[ev[r]] # "Absent"
  /\ Goto(r, AfterClaim(r))
  /\ UNCHANGED <<rows, ev, kind, todo, result, crashes, ghosts>>

(* ResourceExistsError: _handle_existing_event, which reads the row in a   *)
(* call of its own.                                                        *)
ClaimExists(r) ==
  /\ pc[r] = "claim"
  /\ status[ev[r]] # "Absent"
  /\ Goto(r, "get")
  /\ UNCHANGED <<rows, ev, kind, todo, result, crashes, ghosts>>

(* Mutants of Get: a Completed row is run again; a stale lock is not.      *)
GetReopens(r) ==
  /\ pc[r] = "get"
  /\ Goto(r, IF status[ev[r]] \in {"Failed", "Completed"} \/ StaleLock(ev[r])
               THEN "reclaim" ELSE "idle")
  /\ UNCHANGED <<rows, ev, kind, todo, result, crashes, ghosts>>

GetIgnoresStale(r) ==
  /\ pc[r] = "get"
  /\ Goto(r, IF status[ev[r]] = "Failed" THEN "reclaim" ELSE "idle")
  /\ UNCHANGED <<rows, ev, kind, todo, result, crashes, ghosts>>

(* The decision on the row read: Failed and stale Processing are           *)
(* reclaimed, everything else is a duplicate and ends the run.             *)
Get(r) ==
  /\ pc[r] = "get"
  /\ Goto(r, IF status[ev[r]] = "Failed" \/ StaleLock(ev[r]) THEN "reclaim"
                                                             ELSE "idle")
  /\ UNCHANGED <<rows, ev, kind, todo, result, crashes, ghosts>>

ClaimReclaim(r) ==
  /\ pc[r] = "reclaim"
  /\ Reclaim(r, ev[r])
  /\ disturbed' = Disturb(r, ev[r]) \ {r}
  /\ Goto(r, AfterClaim(r))
  /\ UNCHANGED <<queue, ev, kind, todo, result, crashes>>

-----------------------------------------------------------------------------
(* check_and_handle_conflict.                                              *)

Others(r) == {e \in Events \ {ev[r]} : Active(e)}

(* Mutant of Check: only a Processing event counts as active.              *)
CheckProcessing(r) ==
  /\ pc[r] = "check"
  /\ kind[r] # "Leaver"
  /\ Goto(r, IF \A e \in Others(r) : status[e] # "Processing" THEN "gate" ELSE "mark")
  /\ UNCHANGED <<rows, ev, kind, todo, result, crashes, ghosts>>

(* A Joiner goes on when no other event is active, else it is parked.      *)
Check(r) ==
  /\ pc[r] = "check"
  /\ kind[r] # "Leaver"
  /\ Goto(r, IF Others(r) = {} THEN "gate" ELSE "mark")
  /\ UNCHANGED <<rows, ev, kind, todo, result, crashes, ghosts>>

(* _mark_as_queued; the pipeline returns QUEUED and the run is over.       *)
Mark(r) ==
  /\ pc[r] = "mark"
  /\ queue' = Stamp(ev[r])
  /\ Goto(r, "idle")
  /\ disturbed' = Disturb(r, ev[r])
  /\ UNCHANGED <<status, lock, ev, kind, todo, result, crashes, closed, orphaned>>

(* A Leaver supersedes the rows its query saw Pending, whatever their      *)
(* action, one update each.                                                *)
CheckLeaver(r) ==
  /\ pc[r] = "check"
  /\ kind[r] = "Leaver"
  /\ todo' = [todo EXCEPT ![r] = {e \in Others(r) : status[e] = "Pending"}]
  /\ Goto(r, "supersede")
  /\ UNCHANGED <<rows, ev, kind, result, crashes, ghosts>>

Supersede(r) ==
  /\ pc[r] = "supersede"
  /\ \E e \in todo[r] :
       /\ UpdateStatus(r, e, "Superseded")
       /\ todo' = [todo EXCEPT ![r] = @ \ {e}]
       /\ disturbed' = Disturb(r, e)
  /\ UNCHANGED <<queue, pc, ev, kind, result, crashes>>

SupersedeEnd(r) ==
  /\ pc[r] = "supersede"
  /\ todo[r] = {}
  /\ Goto(r, "guard")
  /\ UNCHANGED <<rows, ev, kind, todo, result, crashes, ghosts>>

-----------------------------------------------------------------------------
(* The pipeline between the claim and its final status.                    *)

(* Mover and Leaver: the event-log guard and the fetch of the tenant state *)
(* pass.  Joiner: governance passes (PreProvision gate).                   *)
GuardPass(r) ==
  /\ pc[r] \in {"guard", "gate"}
  /\ Goto(r, "lock")
  /\ UNCHANGED <<rows, ev, kind, todo, result, crashes, ghosts>>

(* QUEUED_CONCURRENT: another event of the pipeline is in its event log.   *)
(* The row stays as the claim left it.                                     *)
GuardQueued(r) ==
  /\ pc[r] = "guard"
  /\ Goto(r, "idle")
  /\ UNCHANGED <<rows, ev, kind, todo, result, crashes, ghosts>>

(* Mutant of GuardFail: the outcome of the stage is written as the status. *)
GuardFailOutcome(r) ==
  /\ pc[r] \in {"guard", "gate"}
  /\ UpdateStatus(r, ev[r], "HELD")
  /\ disturbed' = Disturb(r, ev[r])
  /\ Goto(r, "idle")
  /\ UNCHANGED <<queue, ev, kind, todo, result, crashes>>

(* The fetch or the gate fails: Failed is written, no lock was taken.      *)
GuardFail(r) ==
  /\ pc[r] \in {"guard", "gate"}
  /\ UpdateStatus(r, ev[r], "Failed")
  /\ disturbed' = Disturb(r, ev[r])
  /\ Goto(r, "idle")
  /\ UNCHANGED <<queue, ev, kind, todo, result, crashes>>

(* acquire_lock: unconditional, whatever the row says by now.              *)
AcquireLock(r) ==
  /\ pc[r] = "lock"
  /\ Write(r, ev[r], "Processing", "fresh")
  /\ disturbed' = Disturb(r, ev[r])
  /\ Goto(r, "work")
  /\ UNCHANGED <<queue, ev, kind, todo, result, crashes>>

(* The work on the tenant, seen from the store: it ends in a status.       *)
Work(r) ==
  /\ pc[r] = "work"
  /\ \E s \in {"Completed", "Failed"} : result' = [result EXCEPT ![r] = s]
  /\ Goto(r, "release")
  /\ UNCHANGED <<rows, ev, kind, todo, crashes, ghosts>>

(* Mutant of ReleaseLock: a failed run returns without a final status.     *)
ReleaseLockReturns(r) ==
  /\ pc[r] = "release"
  /\ Write(r, ev[r], status[ev[r]], "none")
  /\ disturbed' = Disturb(r, ev[r])
  /\ Goto(r, IF result[r] = "Failed" THEN "idle" ELSE "update")
  /\ UNCHANGED <<queue, ev, kind, todo, result, crashes>>

ReleaseLock(r) ==
  /\ pc[r] = "release"
  /\ Write(r, ev[r], status[ev[r]], "none")
  /\ disturbed' = Disturb(r, ev[r])
  /\ Goto(r, "update")
  /\ UNCHANGED <<queue, ev, kind, todo, result, crashes>>

(* The final status.  Only the staged Joiner goes on to the queue.         *)
Update(r) ==
  /\ pc[r] = "update"
  /\ UpdateStatus(r, ev[r], result[r])
  /\ disturbed' = Disturb(r, ev[r])
  /\ IF kind[r] = "Joiner"
       THEN Goto(r, "advance") /\ UNCHANGED <<todo, result>>
       ELSE Goto(r, "idle") /\ Forget(r)
  /\ UNCHANGED <<queue, ev, kind, crashes>>

-----------------------------------------------------------------------------
(* release_next_queued_event: the query, then the update of the row found. *)

Advance(r) ==
  /\ pc[r] = "advance"
  /\ IF Oldest = {}
       THEN Goto(r, "idle") /\ Forget(r)
       ELSE /\ Goto(r, "advancing")
            /\ todo' = [todo EXCEPT ![r] = Oldest]
            /\ UNCHANGED result
  /\ UNCHANGED <<rows, ev, kind, crashes, ghosts>>

(* Completed releases the row and drops its stamp, Failed holds it.        *)
ReleaseNext(r) ==
  /\ pc[r] = "advancing"
  /\ \E e \in todo[r] :
       /\ disturbed' = Disturb(r, e)
       /\ IF result[r] = "Completed"
            THEN /\ UpdateStatus(r, e, "Pending")
                 /\ queue' = Unstamp(e)
            ELSE /\ UpdateStatus(r, e, "Held")
                 /\ UNCHANGED queue
  /\ Goto(r, "idle")
  /\ Forget(r)
  /\ UNCHANGED <<ev, kind, crashes>>

-----------------------------------------------------------------------------
(* The environment.                                                        *)

(* Ten minutes pass on a lock (STALE_LOCK_MINUTES): on that of a lost run, *)
(* and with SlowRuns on that of a live one, which no code renews.          *)
Age(e) ==
  /\ lock[e] = "fresh"
  /\ SlowRuns \/ ~\E r \in Runs : ev[r] = e /\ pc[r] \in Locking
  /\ lock' = [lock EXCEPT ![e] = "stale"]
  /\ UNCHANGED <<status, queue, local, crashes, ghosts>>

(* The run is lost: host killed, gateway timeout, or a storage call raised.*)
Crash(r) ==
  /\ pc[r] # "idle"
  /\ crashes < MaxCrashes
  /\ crashes' = crashes + 1
  /\ Goto(r, "idle")
  /\ orphaned' = IF pc[r] \in Locking THEN orphaned \cup {ev[r]} ELSE orphaned
  /\ Forget(r)
  /\ UNCHANGED <<rows, ev, kind, closed, disturbed>>

(* Durable activities are delivered at least once: after a crash the       *)
(* current activity starts again.  The first activity of the Joiner ends   *)
(* at the gate, its lock is taken by the second; the first activity of the *)
(* Mover and the Leaver claims, locks and starts the work, and the Mover's *)
(* may fail it too.  The last activity decides the status again.  The      *)
(* batch path is not durable.                                              *)
RestartPoints(r) == {l \in PC :
  \/ l = "scan" /\ kind[r] = "Joiner"
       /\ pc[r] \notin Locking \cup {"advance", "advancing"}
  \/ l = "claim" /\ kind[r] \in {"Mover", "Leaver"}
       /\ \/ pc[r] \notin {"release", "update"}
          \/ kind[r] = "Mover" /\ result[r] = "Failed"
  \/ l = "lock" /\ kind[r] = "Joiner" /\ pc[r] \in {"lock", "work"}
  \/ l = "work" /\ kind[r] # "Batch"
       /\ pc[r] \in {"work", "release", "update", "advance", "advancing"}}

Redeliver(r) ==
  /\ pc[r] # "idle"
  /\ crashes < MaxCrashes
  /\ crashes' = crashes + 1
  /\ \E l \in RestartPoints(r) :
       /\ Goto(r, l)
       /\ orphaned' = IF pc[r] \in Locking /\ l \notin Locking
                        THEN orphaned \cup {ev[r]} ELSE orphaned
       /\ disturbed' = disturbed \cup ({r} \ Holders(ev[r]))
  /\ Forget(r)
  /\ UNCHANGED <<rows, ev, kind, closed>>

-----------------------------------------------------------------------------
Step(r) ==
  \/ Scan(r) \/ Sweep(r) \/ SweepEnd(r)
  \/ Claim(r) \/ ClaimExists(r) \/ Get(r) \/ ClaimReclaim(r)
  \/ Check(r) \/ Mark(r) \/ CheckLeaver(r) \/ Supersede(r) \/ SupersedeEnd(r)
  \/ GuardPass(r) \/ GuardQueued(r) \/ GuardFail(r)
  \/ AcquireLock(r) \/ Work(r) \/ ReleaseLock(r) \/ Update(r)
  \/ Advance(r) \/ ReleaseNext(r)

Next ==
  \/ \E r \in Runs, e \in Events : Start(r, e)
  \/ \E r \in Runs : Step(r)
  \/ \E r \in Runs : Crash(r) \/ Redeliver(r)
  \/ \E e \in Events : Age(e)

Spec == Init /\ [][Next]_vars

-----------------------------------------------------------------------------
(* Properties.                                                             *)

(* A run past its claim whose final status is not written yet, and a       *)
(* Joiner that the conflict queue has let through.                         *)
Holding(r) == pc[r] \in Granted \cup Locking
Admitted(r) == kind[r] \in {"Joiner", "Batch"} /\ pc[r] \in Locking \cup {"gate"}

(* Where a run is before it has a claim, and up to where it may be parked. *)
AtStart == {"idle", "scan", "sweep", "sweepSkip", "claim", "get"}
AtCheck == {"reclaim", "check", "mark"}

(* A Processing row is never abandoned by a run that is not lost: each one *)
(* is on its way through lock, work, release_lock and update_event_status  *)
(* of some run, or its run crashed there.                                  *)
ProcessingHasOwner ==
  \A e \in Events : status[e] = "Processing" =>
    e \in orphaned \/ \E r \in Runs : ev[r] = e /\ pc[r] \in Locking

(* The claim and the conflict queue give exclusion: of two runs whose rows *)
(* nobody else has written since they were claimed, never both hold the    *)
(* claim of one event, and never both are Joiners let through for this     *)
(* employee.  Every double run thus goes through a reclaim, a supersede or *)
(* a queue write over a live run.                                          *)
Exclusive ==
  \A q, r \in Runs : q # r /\ q \notin disturbed /\ r \notin disturbed =>
    /\ ~(Holding(q) /\ Holding(r) /\ ev[q] = ev[r])
    /\ ~(Admitted(q) /\ Admitted(r))

(* A Joiner is let through the conflict queue only when no undisturbed run *)
(* of any pipeline holds the claim of another event of the employee.       *)
EntersAlone ==
  [][\A q, r \in Runs : pc[r] = "check" /\ pc'[r] = "gate" =>
       ~(q \notin disturbed /\ Holding(q) /\ ev[q] # ev[r])]_vars

(* Idempotency: a run never takes an event out of Completed that has been  *)
(* Completed ever since the run began, whatever it was started for.        *)
LateRunsNeverReopen ==
  [][\A r \in Runs : pc'[r] # pc[r] \/ todo'[r] # todo[r] =>
       \A e \in closed[r] : status'[e] = "Completed"]_vars

(* A queued Joiner that nobody is left to release: no run has got past its *)
(* trigger for this event, no Joiner is at work or about to advance the    *)
(* queue, and no list of rows to write holds the event, but a Leaver's.    *)
Parked(e) ==
  /\ e \in Queued
  /\ \A r \in Runs :
       /\ ev[r] = e => pc[r] \in AtStart
       /\ kind[r] \in {"Joiner", "Batch"} => pc[r] \in AtStart \cup AtCheck
       /\ pc[r] \notin {"advance", "advancing"}
       /\ e \in todo[r] => pc[r] = "supersede"

(* Such an event stays so, however often it is triggered again and however *)
(* many events of the employee come, complete or are swept: its own row is *)
(* a duplicate, and it parks every later Joiner, which alone could have    *)
(* released it.  Only a Leaver's supersede ends this.                      *)
ParkedForGood ==
  [][\A e \in Events : Parked(e) => Parked(e)' \/ status'[e] = "Superseded"]_vars

-----------------------------------------------------------------------------
(* Fairness.  A run whose host lives takes its next step; lock age is      *)
(* time; and the trigger of an event keeps coming back, which is what a    *)
(* retried webhook or an operator does.                                    *)
FairSpec ==
  /\ Spec
  /\ \A r \in Runs : WF_vars(Step(r))
  /\ \A e \in Events : WF_vars(Age(e)) /\ SF_vars(\E r \in Runs : Start(r, e))

(* Recovery: an event left Processing by a lost run, its lock gone stale,  *)
(* is taken up again by a run that gets its claim, or settled.  True of    *)
(* the Mover and the Leaver, whose first look at the table is the claim.   *)
StaleLockRetried ==
  \A e \in Events : StaleLock(e) ~>
    \/ \E r \in Runs : ev[r] = e /\ Holding(r)
    \/ status[e] \in {"Completed", "Failed", "Superseded", "Held"}

(* A queued event is processed after the active event has completed; it    *)
(* may also be held for review or superseded.                              *)
QueuedEventRuns ==
  \A e \in Events : e \in Queued ~> status[e] # "Pending"
=============================================================================
