------------------------------ MODULE DeltaPoll ------------------------------
(***************************************************************************)
(* The delta poll of Ingestion/hr_api/bamboohr/ingestion_coordinator.py    *)
(* and its checkpoint row in JmlSystemState (system_state.py). Pollers may *)
(* overlap, die, and meet failing calls. HR changes records all the time.  *)
(*                                                                         *)
(* A change is known by the time HR made it: changed[e] is the time of the *)
(* last change of e, and a run of its record takes in all changes so far.  *)
(***************************************************************************)
EXTENDS Naturals, FiniteSets

CONSTANTS
  Employees,
  Pollers,    \* hosts that may run run_delta, at the same time too
  None,       \* no timestamp, no poller
  Day,        \* the 24 hours of _safe_default_timestamp, in ticks
  MaxTime,    \* bound: ticks of the clock
  MaxFaults   \* bound: failed calls, lost hosts and resets

ASSUME ConstantsAssumption ==
  /\ None \notin Nat
  /\ None \notin Pollers
  /\ Day \in Nat
  /\ MaxTime \in Nat
  /\ MaxFaults \in Nat

VARIABLES
  now,         \* the clock, the same for HR and the engine
  changed,     \* time of HR's last change of a record; 0 before any
  \* the checkpoint row
  exists,
  checkpoint,  \* LastSuccessfulPoll, None while the row lacks it
  etag,        \* the poller whose mark wrote the row last; None after others
  \* a poller's position and local variables
  pc,
  since,       \* dropped when records are found, as it is not read again
  todo,        \* the records still to be run
  \* observed, nothing in the code
  pending,     \* records whose last change has not been run to success
  unseen,      \* pending records the poller does not ask for, or no longer
  passed,      \* those the checkpoint has left behind in a known way
  faults

hr == <<now, changed>>
row == <<exists, checkpoint, etag>>
poll == <<pc, since, todo>>
observed == <<pending, unseen, passed, faults>>
vars == <<hr, row, poll, observed>>

Time == 0 .. MaxTime
PC == {"idle", "mark", "create", "fetch", "run", "nothing", "failed"}

TypeOK ==
  /\ now \in Time
  /\ changed \in [Employees -> Time]
  /\ exists \in BOOLEAN
  /\ checkpoint \in Time \union {None}
  /\ etag \in Pollers \union {None}
  /\ pc \in [Pollers -> PC]
  /\ since \in [Pollers -> Time]
  /\ todo \in [Pollers -> SUBSET Employees]
  /\ pending \in SUBSET Employees
  /\ unseen \in [Pollers -> SUBSET Employees]
  /\ passed \in SUBSET Employees
  /\ faults \in 0 .. MaxFaults

------------------------------------------------------------------------------
(* _safe_default_timestamp: 24 hours ago.                                  *)
SafeDefault == IF now > Day THEN now - Day ELSE 0

Goto(p, to) == pc' = [pc EXCEPT ![p] = to]

Fault ==
  /\ faults < MaxFaults
  /\ faults' = faults + 1

(* The poll is over: the return of run_delta.                              *)
Leave(p) ==
  /\ Goto(p, "idle")
  /\ since' = [since EXCEPT ![p] = 0]
  /\ todo' = [todo EXCEPT ![p] = {}]
  /\ unseen' = [unseen EXCEPT ![p] = {}]

Init ==
  /\ now = 0
  /\ changed = [e \in Employees |-> 0]
  /\ exists = FALSE
  /\ checkpoint = None
  /\ etag = None
  /\ pc = [p \in Pollers |-> "idle"]
  /\ since = [p \in Pollers |-> 0]
  /\ todo = [p \in Pollers |-> {}]
  /\ pending = {}
  /\ unseen = [p \in Pollers |-> {}]
  /\ passed = {}
  /\ faults = 0

------------------------------------------------------------------------------
(* run_delta.                                                              *)

(* get_poll_checkpoint answers t, which is the default where the row or    *)
(* its column is missing or cannot be read.                                *)
Begin(p, t) ==
  /\ since' = [since EXCEPT ![p] = t]
  /\ Goto(p, "mark")

(* Mutant of BeginWithDefault: the column of a row that lacks it is passed *)
(* on as it is read.                                                       *)
BeginWithColumn(p) == Begin(p, checkpoint) /\ UNCHANGED unseen

(* What lies before the default is not asked for.                          *)
BeginWithDefault(p) ==
  /\ Begin(p, SafeDefault)
  /\ unseen' = [unseen EXCEPT ![p] = {e \in pending : changed[e] < SafeDefault}]

Read(p) ==
  /\ pc[p] = "idle"
  /\ IF checkpoint = None
     THEN BeginWithDefault(p)
     ELSE Begin(p, checkpoint) /\ UNCHANGED unseen
  /\ UNCHANGED <<hr, row, todo, pending, passed, faults>>

ReadFails(p) ==
  /\ pc[p] = "idle"
  /\ BeginWithDefault(p)
  /\ Fault
  /\ UNCHANGED <<hr, row, todo, pending, passed>>

(* mark_poll_started: MERGE, without an ETag.                              *)
Mark(p) ==
  /\ pc[p] = "mark"
  /\ IF exists
     THEN etag' = p /\ Goto(p, "fetch")
     ELSE Goto(p, "create") /\ UNCHANGED etag
  /\ UNCHANGED <<hr, exists, checkpoint, since, todo, observed>>

(* ... and the insert of a missing row, which fails beside another's.      *)
Create(p) ==
  /\ pc[p] = "create"
  /\ ~exists
  /\ exists' = TRUE
  /\ checkpoint' = None
  /\ etag' = p
  /\ Goto(p, "fetch")
  /\ UNCHANGED <<hr, since, todo, observed>>

CreateFails(p) ==
  /\ pc[p] = "create"
  /\ exists
  /\ Leave(p)
  /\ UNCHANGED <<hr, row, pending, passed, faults>>

(* Mutant of Changed: a change at the very time of the checkpoint counts   *)
(* as old.                                                                 *)
ChangedAfter(p) == {e \in Employees : changed[e] > since[p]}

(* get_changed_employees(since).                                           *)
Changed(p) == {e \in Employees : changed[e] # 0 /\ changed[e] >= since[p]}

Fetch(p) ==
  /\ pc[p] = "fetch"
  /\ IF Changed(p) = {}
     THEN Goto(p, "nothing") /\ UNCHANGED <<since, todo>>
     ELSE /\ Goto(p, "run")
          /\ todo' = [todo EXCEPT ![p] = Changed(p)]
          /\ since' = [since EXCEPT ![p] = 0]
  /\ UNCHANGED <<hr, row, observed>>

FetchFails(p) ==
  /\ pc[p] = "fetch"
  /\ Goto(p, "failed")
  /\ Fault
  /\ UNCHANGED <<hr, row, since, todo, pending, unseen, passed>>

(* run_single: the record is fetched again, so the newest change is run.   *)
RunSingle(p, e) ==
  /\ pc[p] = "run"
  /\ e \in todo[p]
  /\ todo' = [todo EXCEPT ![p] = @ \ {e}]
  /\ pending' = pending \ {e}
  /\ unseen' = [q \in Pollers |-> unseen[q] \ {e}]
  /\ passed' = passed \ {e}
  /\ UNCHANGED <<hr, row, pc, since, faults>>

(* The record cannot be fetched, or its pipeline reports failure: counted, *)
(* and the poll goes on.                                                   *)
RunSingleFails(p, e) ==
  /\ pc[p] = "run"
  /\ e \in todo[p]
  /\ todo' = [todo EXCEPT ![p] = @ \ {e}]
  /\ passed' = passed \union ({e} \intersect pending)
  /\ Fault
  /\ UNCHANGED <<hr, row, pc, since, pending, unseen>>

(* Mutant of Matches: the concurrency check is skipped.                    *)
MatchesAny(p) == exists

(* save_poll_checkpoint: MERGE with IfNotModified, all errors swallowed.   *)
Matches(p) == exists /\ etag = p

(* Mutant of SaveSince: the empty poll saves the time it ends, too.        *)
SaveSinceNow(p) ==
  /\ pc[p] = "nothing"
  /\ IF Matches(p)
     THEN checkpoint' = now /\ etag' = None
     ELSE UNCHANGED <<checkpoint, etag>>
  /\ Leave(p)
  /\ UNCHANGED <<hr, exists, pending, passed, faults>>

(* A poll that found nothing saves since and loses nothing but what it did *)
(* not ask for.                                                            *)
SaveSince(p) ==
  /\ pc[p] = "nothing"
  /\ IF Matches(p)
     THEN /\ checkpoint' = since[p]
          /\ etag' = None
          /\ passed' = passed \union {e \in unseen[p] : changed[e] < since[p]}
     ELSE UNCHANGED <<checkpoint, etag, passed>>
  /\ Leave(p)
  /\ UNCHANGED <<hr, exists, pending, faults>>

(* A poll that ran records saves the time it ends, and moves over what HR  *)
(* changed meanwhile.                                                      *)
SaveNow(p) ==
  /\ pc[p] = "run"
  /\ todo[p] = {}
  /\ IF Matches(p)
     THEN /\ checkpoint' = now
          /\ etag' = None
          /\ passed' = passed \union unseen[p]
     ELSE UNCHANGED <<checkpoint, etag, passed>>
  /\ Leave(p)
  /\ UNCHANGED <<hr, exists, pending, faults>>

SaveFails(p) ==
  /\ \/ pc[p] = "run" /\ todo[p] = {}
     \/ pc[p] \in {"nothing", "failed"}
  /\ Fault
  /\ Leave(p)
  /\ UNCHANGED <<hr, row, pending, passed>>

(* ... with status Failed: LastSuccessfulPoll is not in the entity.        *)
SaveFailed(p) ==
  /\ pc[p] = "failed"
  /\ etag' = IF Matches(p) THEN None ELSE etag
  /\ Leave(p)
  /\ UNCHANGED <<hr, exists, checkpoint, pending, passed, faults>>

(* The host is lost, or run_single raises.                                 *)
Die(p) ==
  /\ pc[p] # "idle"
  /\ Fault
  /\ Leave(p)
  /\ UNCHANGED <<hr, row, pending, passed>>

------------------------------------------------------------------------------
(* HR, the clock and operators.                                            *)

HrChanges(e) ==
  /\ now > changed[e]
  /\ changed' = [changed EXCEPT ![e] = now]
  /\ pending' = pending \union {e}
  /\ unseen' = [p \in Pollers |-> IF pc[p] = "run" THEN unseen[p] \union {e}
                                                  ELSE unseen[p] \ {e}]
  /\ passed' = passed \ {e}
  /\ UNCHANGED <<now, row, poll, faults>>

Tick ==
  /\ now < MaxTime
  /\ now' = now + 1
  /\ UNCHANGED <<changed, row, poll, observed>>

(* run_bulk for one employee: no checkpoint.                               *)
RunBulk(e) ==
  /\ e \in pending
  /\ pending' = pending \ {e}
  /\ unseen' = [q \in Pollers |-> unseen[q] \ {e}]
  /\ passed' = passed \ {e}
  /\ UNCHANGED <<hr, row, poll, faults>>

(* reset_poll_checkpoint.                                                  *)
Reset ==
  /\ exists
  /\ exists' = FALSE
  /\ checkpoint' = None
  /\ etag' = None
  /\ Fault
  /\ UNCHANGED <<hr, poll, pending, unseen, passed>>

------------------------------------------------------------------------------
Poll(p) ==
  \/ Mark(p) \/ Create(p) \/ CreateFails(p)
  \/ Fetch(p) \/ (\E e \in Employees : RunSingle(p, e))
  \/ SaveSince(p) \/ SaveNow(p) \/ SaveFailed(p)

Failure(p) ==
  \/ ReadFails(p) \/ FetchFails(p) \/ (\E e \in Employees : RunSingleFails(p, e))
  \/ SaveFails(p) \/ Die(p)

Environment ==
  \/ \E e \in Employees : HrChanges(e) \/ RunBulk(e)
  \/ Tick \/ Reset

Next ==
  \/ \E p \in Pollers : Read(p) \/ Poll(p) \/ Failure(p)
  \/ Environment

(* A host that lives goes on, and the schedule starts polls again and      *)
(* again.                                                                  *)
Fairness == \A p \in Pollers : WF_vars(Read(p) \/ Poll(p))

Spec == Init /\ [][Next]_vars /\ Fairness

------------------------------------------------------------------------------
(* A change the checkpoint has left behind without having been run was     *)
(* left behind in one of three ways: its record failed in a poll, HR made  *)
(* it between the fetch and the end of a poll that had found other         *)
(* changes, or it was older than a day when a poll had no checkpoint to    *)
(* read. Overlapping polls, lost hosts, failed fetches and saves, resets   *)
(* and empty polls lose nothing (system_state.py:24, "the next poll        *)
(* re-processes the same window").                                         *)
LostOnlyInKnownWays ==
  \A e \in Employees :
    e \in pending /\ checkpoint # None /\ changed[e] < checkpoint => e \in passed

(* A checkpoint never moves back over a change: an old poll that ends late *)
(* does not undo what a newer one has recorded (system_state.py:213, the   *)
(* ETag of save_poll_checkpoint). It may move back over a stretch in which *)
(* nothing changed, as a poll that could not read the row and found        *)
(* nothing saves its default.                                              *)
NeverBackOverChange ==
  [][checkpoint # None /\ checkpoint' # None
       => \A e \in Employees : ~(checkpoint' <= changed[e] /\ changed[e] < checkpoint
                                  /\ changed[e] # 0)]_vars

(* A change is run, or left behind in one of those ways, or a day passes   *)
(* without a checkpoint, whatever overlaps and fails, as long as polls are *)
(* started again. Two polls that keep taking the ETag from each other save *)
(* no checkpoint, but run what they fetch.                                 *)
OlderThanDefault(e) == checkpoint = None /\ changed[e] < SafeDefault

ChangesTakenUp ==
  \A e \in Employees :
    e \in pending ~> (e \notin pending \/ e \in passed \/ OlderThanDefault(e))
=============================================================================
