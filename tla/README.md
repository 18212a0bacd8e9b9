# Verification of the JML engine

TLA+ models of the joiner-mover-leaver engine of this repository, the TLC runs
that check them, and the theorems TLAPS proves about them. The code is the
reference. Documents are quoted where the code does something else.

Parse with `tlasany M.tla`, check with `tlc -config X.cfg M`, prove with
`tlapm M.tla`. `PROJECT.json` names, for every definition, the lines of code it
stands for (`map`), and for every property the mutant of the code it detects
(`mutants`).

## 1. The system

An HR change (BambooHR webhook, delta poll, CSV or HTTP call) becomes an event
*Joiner*, *Mover* or *Leaver* of one employee. A pipeline per action claims the
event, works on Entra ID through Microsoft Graph, and writes the outcome.

    HR --webhook/poll/CSV/HTTP--> derive action --> Joiner | Mover | Leaver
                                     |                  |
                               JmlLastState        JmlEvents  (claim, lock, queue)
                                                        |
                                          Graph: users, access packages, PIM
                                                        |
                                  Mover/LeaverEventLog, audit, hold queue

### Components, state and operations

| Component | State it keeps | Operations | Hard behaviour | What makes it correct |
|---|---|---|---|---|
| Event store `Functions/Event_store/event_store.py` | one `JmlEvents` row per (employee, action, start date): Status, LockedAt | `claim_event`, `reclaim_event`, `acquire_lock`, `release_lock`, `update_event_status`, `check_active_event` | no write carries an ETag; decisions rest on earlier reads; locks age | one claim per event; a Processing row has a living owner or is found stale; Completed stays |
| Conflict queue `Functions/Event_store/conflict_queue.py` | Status and QueuedAt in the same rows | check, queue, supersede, release or hold the next | check and act are several calls | an event goes on only when no other is active; a queued one goes on later |
| Joiner `Joiner/`, `Joiner_http/`, `Provisioning/` | the run; user and requests in Entra | claim, conflict, validation, provision, finalize | three drivers; re-delivered activities; early exits; retries over half-made accounts | exclusion; every exit leaves the row in a status something acts on; Completed means granted |
| Mover `Mover/`, `mover_http/` | the run; `MoverEventLog`; requests in Entra | fetch, resolve, delta, retention, pre-flight SoD, add, remove, PATCH, verify | requests outlive runs and polls; partial failure; two orders | ADR-009: nothing is taken before everything new is there; only managed packages are taken |
| Leaver `Leaver/`, `leaver_http/` | the run; `LeaverEventLog`; the account | claim, supersede, guard, lockout, removals, PIM, deletion now or after a hold | a hold of days; re-hires; a UPN that changes hands | ADR-015: lockout first; success means cut off; a re-hire is left alone |
| Last state `Ingestion/hr_api/bamboohr/last_state_*.py`, `webhook.py` | `JmlLastState` row | derive action, save | unordered webhooks; saves of long orchestrations | it says what was done, so the next change is seen |
| Delta poll `Ingestion/hr_api/system_state.py`, `ingestion_coordinator.py` | checkpoint row with ETag | mark started, fetch, run, save | overlapping polls, crashes | no change is skipped |
| Hold queue `Hold_queue/` | hold records | create, approve, reject, attempt, transition | validation on a copy, write without ETag | only legal transitions reach the table |
| Graph client `Provisioning/graph_client.py` | none | one call per Graph endpoint, with retries | a POST that is repeated | what a failed call leaves behind harms no caller |
| Normalisation, mapping, validation, governance | configuration | stateless functions | - | their results are the constants and the nondeterministic verdicts of the models |
| Audit, run reports, bindings, data | files | write | - | not modelled: nothing reads them back |

The pipelines interact through the rows of the employee in `JmlEvents` (claim,
lock, supersede, queue), through the account and assignments in Entra, and
through `JmlLastState`, from which the next webhook derives its action.
`PROJECT.json` lists every component with its status and every hazard with its
line. A hazard that names no property is one the code does not guard against: its
note says which property excuses it, and section 4 what can follow.

## 2. The modules

| Module | Models |
|---|---|
| `EventStore` | the rows of one employee and every run's calls on them, one call a step |
| `MCEventStore` | instances: which row keys there are |
| `EventStoreProofs` | type correctness, ownership of Processing rows, exclusion, idempotency, parked Joiners |
| `Mover` | moves of one employee, both drivers, and Entra's handling of requests |
| `MoveContract` | what a move promises, seen from outside |
| `MCMover` | instances: packages, roles, incompatibilities |
| `MoverProofs` | type correctness, ADR-009, what MOVE_SUCCESS means, refinement of `MoveContract` |
| `Leaver` | offboarding with its hold, the re-hire, other pipelines, an operator |
| `MCLeaver` | instances |
| `LeaverProofs` | type correctness, lockout first, success means cut off and stands |
| `LastState` | webhook, derivation, event key, dispatch, and the save at the end of each pipeline |
| `LastStateProofs` | type correctness; what the last state is worth; what the event key drops |
| `Joiner` | the Joiner's work in Entra, its three drivers, with retries |
| `JoinContract` | what all runs of a Joiner together do in Entra, seen from outside |
| `JoinerProofs` | type correctness; Completed means granted, and stays; refinement of `JoinContract` |
| `DeltaPoll` | the poll of HR and its checkpoint row, with pollers that overlap |
| `DeltaPollProofs` | type correctness; what the checkpoint may pass, and that it does not go back |
| `HoldQueue` | one hold record, its creator, and operators with copies of it |
| `HoldQueueProofs` | type correctness; overrides; the transition graph |
| `MCDeltaPoll`, `MCLastState`, `MCJoiner`, `MCHoldQueue` | instances |

### EventStore

State: `status`, `lock` (the age of LockedAt: none, fresh, stale) and `queue`
(QueuedAt as an order) are columns of the row; `pc`, `ev`, `kind`, `todo`,
`result` are a run's position and local variables. `closed`, `disturbed` and
`orphaned` only observe.

One call on the table is one step. That is the whole point: `claim_event` on
an existing key is `ClaimExists` (the insert fails), `Get` (the row is read and
judged) and `ClaimReclaim` (it is written); `check_and_handle_conflict` is
`Check` or `CheckLeaver` and the writes `Mark` or `Supersede`;
`check_active_event` is `Scan` and one `Sweep` per stale row;
`release_next_queued_event` is `Advance` and `ReleaseNext`. Every write is
unconditional, as in the code. The four kinds of run differ where the drivers
do: only the staged Joiner scans first and advances the queue last, only
Joiners are queued, only Leavers supersede, the Mover has no conflict check,
and the batch Joiner never advances.

Abstracted: a MERGE that sets `QueuedAt` to None is taken to clear the stamp.
RetryCount, FailureStep, LockedBy, Payload and CorrelationId are left out, as
nothing branches on them. `get_event` returning None after the insert failed
cannot happen, because no code deletes a row.

### Mover

`FetchCurrentState`, `ResolveFails`, `Plan`, `Submit*`, `Poll*`, `Finalize*`,
`AdditionsDone`, `RemovalsDone`, `Patch` and `Verify` follow the order of
`mover_http` and of the durable orchestrator, which is the same but for one
thing: with removals first, the durable driver PATCHes department and title
with the removals, the HTTP driver after the additions. Entra takes a request
and delivers or rejects it when it likes, also after the run is over. A failed
POST may have reached it. Of repeated requests for one package only the newest
is kept.

A move may begin while requests of an earlier one are open. No code cancels
those, so they are carried out during the new move, which may need what they
take away. The packages concerned are `late` (observed only), and the promises
are made for all others.

`MoveContract` is the promise seen from outside: packages of the new role are
gained, managed packages the role does not need are lost, and where no package
of a role conflicts with a managed one none is lost before all are gained. Only
a late package may be gained or lost against the role.

### Leaver

The account is an object behind a UPN. Reads go by UPN, writes by the id
fetched at the start: `Reaches(r)` says both still mean one user. A run ends
where the orchestrator ends, so one that holds a deletion sleeps in `hold` and
then meets whatever has happened: a re-hire (`Rehire`, `Join`, which takes a
disabled account as it is, see `Provisioning/provisioner.py:167`), an operator
who enables the account, other pipelines adding packages (`OthersAdd`: events
that were Processing are not superseded). The guard of `stage_concurrent_check`
is a query (`Guard`) and a later write of the event log (`Enter`, `Park`), and
another run may come in between. Every write of the run to a table is a step of
its own, so a host may be lost, and another run or a trigger come, between any
two: at the end the event log (`Record`), `release_lock` (`ReleaseLock`) and the
status (`UpdateStatus`), in this order in both drivers; in an early failure the
log (`LogFailure`) and the status (`FailEvent`). `_write_event_log` swallows its
errors, so each of its writes may also not happen (`SetLog`). `locked` says which
rows have a LockedAt. A Processing row without one is never stale, and it and a
Pending one that no run works on are `Stuck`: every trigger finds a duplicate. A
re-hire's Joiner resets the stale rows it comes across, a Leaver's too
(`JoinerResets`).

Two sequences are one step: `claim_event`, whose races are EventStore's, and the
reads of user and packages with the lock that follows (`FetchCurrentState`). A
run lost between those reads and the lock is one lost before both.

### LastState

The loop that decides what happens at all: HR changes a record (`Move`,
`Terminate`, `Rehire`, at most once a day) and sends a webhook; the handler
fetches the record as it is by then (`Fetch`), compares it with the row of
`JmlLastState` (`Derive`, `last_state_deriver.py`), and starts the orchestrator
with an event id hashed from action and date (`Key`, `Dispatch`). An
orchestration is reduced to the exits of its first activity (`Duplicate`,
`TurnedAway`, `Held`), what it leaves in Entra (`Succeed`, `Fail`, `FailEarly`,
`DeleteUser`, `Die`) and whether it saves (`Save`, `SaveFails`).

A role is the set of packages it calls for, and Entra is what the pipelines
leave: whether there is an `account`, the packages assigned (`access`), old
assignments (`lapsed`), and requests that outlive their runs (`late`, answered
by `Late` at any time). The pipelines differ as they do in the code. A Joiner
requests its role's packages and takes nothing away, so what an earlier
termination or move left behind stays beside them (`Wanted`, `Unwanted`). A Mover
and a Leaver bring the access to what they want. Each may be misled by what
`check_package_assignment` answers (`Hideable`). A run that fails, or is not by
itself, leaves any part of its work done, and requests open (`Some`, `Halfway`).

`doubt` observes that the last state may differ from the access. It comes from an
overlap, from a failed save, from a run that changed something and did not
succeed, from a package hidden from a run. It ends where a Mover or a Leaver
succeeds by itself with no request open (`Settles`). A Joiner never ends it.

The model is about which exits save: a Joiner that fails at its user or its
submission returns without a save, any other Joiner that has begun saves unless
held, duplicate, queued or skipped, and Mover and Leaver save whatever the status
of a run that got past its first activity.

Abstracted: a row is `free` (absent, Failed), `open`, or Completed. Taking up a
stale Processing row is EventStore's matter, so here it stays open. The five
action-driving fields are one value, the role. A package kept by a retention
record is not counted. Left out: orchestrations started over HTTP, which have no
`mapped_record` and never save, and the date of today that stands for an empty or
invalid one (`payload_builder.py:63-69`). A webhook goes by the first free number
of `Runs`; the numbers mean nothing.

### Joiner

`Start`, `Queued` or `Held` or `AcquireLock`, `CreateUser`, `Submit*` per
package, `Poll`, `Record`, `AssignPim`, `Validate`, `ReleaseLock`, `Finalize`, in
the order of `provision_joiner` and the durable orchestrator. There are three
drivers. The durable and the HTTP one are *staged*, they go through
`Joiner/stages.py`: there `check_active_event` comes before the claim and resets a
stale row of the event itself to Pending (`ResetStale`), which the claim then
takes for a duplicate, for good. The batch adapter claims at once, and alone takes
up a stale Processing row (`Claimable`). The HTTP driver and the batch adapter
assign PIM eligibility, the durable activities pass `pim_groups` on without using
them. Only durable activities are repeated (`CreateAgain`, `SubmitAgain`,
`RecordAgain`). A failed call may have had its effect. Entra answers a request
when it likes, also after the run has ended. A run that failed is started again
by any driver and finds what the earlier ones left: an account, delivered
packages, open requests, expired assignments.

`JoinContract` is what comes of all these runs: an account, requests for it,
packages that were requested, then PIM eligibility and Completed, and nothing
taken away. The runs, drivers, polls and repeated activities are invisible in it.

One run at a time: runs that meet are in EventStore, one table call a step. Of
another event of the employee only `Queued` is seen, which parks the run and
leaves its row Pending. `AcquireLock`, `ReleaseLock` and `Finalize` are steps of
their own, so a host may die between any two.

### DeltaPoll

`Read`, `Mark` (with `Create` for a missing row), `Fetch`, `RunSingle` for each
record, `SaveSince` or `SaveNow`: the calls of `run_delta`, each of which may
fail, in any number of pollers. `etag` is the poller whose mark wrote the row
last; the save of any other one is refused and swallowed. A change is known by
the time HR made it. `pending` is what has not been run since its last change,
`unseen` what a poll will not run although it is pending, `passed` what a
checkpoint has left behind in one of the ways the code allows for.

### HoldQueue

A record is an object first and a row second. `transition`, `approve` and
`record_attempt` check and change the caller's object and then save all of it
with REPLACE and no ETag, so the model gives every operator a `copy`, the
creator an object `made`, and every failing save a copy that is ahead of the
row (`SaveFails`). A pipeline creates a record in three or four saves and may be lost
between any two. `record_attempt` counts without a bound; `MaxAttempts` is the
model's, in the guard of `RecordAttempt` and in no type.

## 3. What the runs show

Passing runs. Deadlock is checked for all but Mover, Leaver and LastState, where a
behaviour stops when the bound on attempts, terminations, or days and webhooks is
used up and every run is over.

| Run | Question | Bounds, and why they are enough |
|---|---|---|
| `store_joiner_leaver` | Do claim, queue and supersede exclude one another, with slow runs and a crash? `Exclusive`, `EntersAlone`, `ProcessingHasOwner`, `LateRunsNeverReopen`, `ParkedForGood` | two runs, a Joiner and a Leaver row, one crash or redelivery. Each property is about two runs; each run may start any number of times, so longer chains of runs are there. The proofs lift the bound |
| `store_recovery` | Is an event with a stale lock taken up again? `StaleLockRetried` | Mover and Leaver row, two runs, one crash, slow runs |
| `mover_add_first` | Strategy A under partial failure, two moves or retries: `NeverLess`, `SuccessMeansMoved`, `CommitAfterAdditions`, `ImplementsContract` | one package of the old role, two of the new (so that additions can half succeed), one unmanaged that conflicts with a new one (so that a move may be held), one retained; two faults, two attempts (a move and its retry, or two moves, the second among the open requests of the first) |
| `mover_remove_first` | Strategy B, where old and new package conflict: `SuccessMeansMoved`, `OnlyOwnedRemoved`, `RunsEnd` | two old packages, one retained, one new and incompatible; the retained one also with an old assignment that hides it; one fault, two attempts |
| `leaver_overlap` | Two terminations and two runs, hold or not, re-hire, operator, other pipelines: `LockedOutFirst`, `SuccessMeansCutOff`, `SuccessIsFinal` | one package (packages do not interact), two runs the webhook starts, no fault. The second run may sleep out its hold beside the first, come after a re-hire, or pass the guard in the same moment. `SlowRuns = TRUE` makes ten million states of the same and nothing else; the theorems cover it |
| `leaver_faults` | The same with failing calls, lost and repeated activities, a dead host; `SuccessTakenBackByRepeatOnly` and `CutOffUnlessStuck` | one run at a time, restarted by its trigger, the durable and the HTTP driver (the webhook's runs are durable ones with a save at the end, and in `leaver_overlap`), two faults: one to leave something behind and one to meet it |
| `last_state` | Does what the next webhook derives fit what was done? `DerivesWhatIsNeeded`, `NewDatesMakeNewEvents`, `ChangeHandled` | one package and the roles that call for it or not (every step treats each package by itself, so a role with and one without a package are what a change of role can mean for it), two webhooks or runs at a time, three days and so two changes of the record (a move back, a termination with its re-hire), one webhook for another field (so that what a partial run left meets a later run), one fault |
| `joiner` | Does a Joiner end as Completed only with everything granted, stay so, and get there? `CompletedMeansGranted`, `CompletedStays`, `ImplementsContract`, `EventuallyJoined` | two packages (one may fail alone), PIM, all three drivers, three faults: enough for a failed call, a repeated activity and a lost host in one life |
| `delta_poll` | Which changes can a poll miss? `LostOnlyInKnownWays`, `NeverBackOverChange`, `ChangesTakenUp` | one record (records are filtered and run one by one; the proofs are for any number), two pollers, four times with a day of one tick, so that the default, the fetch, a change and the save can all have their own time; two faults |
| `hold_queue` | What is the strict transition graph worth when copies are saved? `ReleasedHasOverride`, `StrictUnlessStale`, `EventuallyHeld` | two operators beside the creator, one attempt, two faults |

`TypeOK` is checked once per module and proved.

What each property says, and the mutant it catches:

* `Exclusive`, `EntersAlone` (mutants: an existing row passes for a claim; only
  Processing counts as active). A run is *disturbed* when another run has
  written its row. Of undisturbed runs, no two hold one claim and no two
  Joiners are through the queue. So every double run goes through a reclaim, a
  supersede or a queue write over a live run, and through nothing else.
* `ProcessingHasOwner` (mutant: a failed run returns before its final status):
  no exit of any pipeline leaves Processing behind, only a lost run does.
* `LateRunsNeverReopen` (mutant: Completed is reclaimed like Failed): an event
  that has been Completed since a run began is not taken out of Completed by it.
* `ParkedForGood` (mutant: an existing row passes for a claim): a queued Joiner is
  *parked* when no run holds it, no Joiner is at work or advancing the queue, and
  nothing but a supersede is on its way to its row. It then stays parked whatever
  is triggered, claimed, swept, completed or lost, until a Leaver supersedes it.
  `store_queued_forever` reaches such a state; this says that it never ends.
* `StaleLockRetried` (mutant: a stale lock is a duplicate).
* `NeverLess` (mutant: one delivered addition opens the gate): the user holds
  everything the new role needs or everything held before, but for late packages.
* `SuccessMeansMoved` (mutants: an accepted request counts as delivered;
  `recently_removed` holds failed removals): MOVE_SUCCESS is true of Entra.
* `CommitAfterAdditions` (mutant: the failure branch PATCHes).
* `OnlyOwnedRemoved` (mutant: the delta forgets the managed catalogue): what is
  taken away is managed, and needed by the role only if it is late.
* `ImplementsContract`: every step is a step of `MoveContract` or stutters.
* `RunsEnd` (mutant: the poll loop has no last pass).
* `LockedOutFirst` (mutant: revoke is forgotten): from the first removal on the
  account is disabled and no session lives, unless a failed call was logged or
  someone enabled the account.
* `SuccessMeansCutOff` (mutants: an accepted removal counts as done; a failed
  removal counts as cleared).
* `CutOffUnlessStuck` (mutant: a Failed event is a duplicate): in the end the
  account is cut off, or the event is `Stuck`: Pending or Processing without a
  lock, with no run at work on it. It is false without `Stuck`, see section 4.
* `SuccessTakenBackByRepeatOnly` (mutant: a Completed event is taken up again):
  a success that stands in both tables (OFFBOARD_SUCCESS logged, row Completed)
  keeps both, but for `verify_finalize` delivered again when it finds no disabled
  account of its own any more. Checked with one run at a time, proved as long as
  runs of one event do not overlap: a second run that reclaims the event may record
  over the first. It does not say so of a logged success whose row is still
  Processing: a host lost between those writes leaves one, and a trigger may start
  over on it.
* `SuccessIsFinal` (mutant: a Completed event is taken up again): without faults and
  slow runs nothing at all is recorded over a logged OFFBOARD_SUCCESS, although runs
  and events overlap.
* `DerivesWhatIsNeeded` (mutant: the record is saved when it is dispatched).
  Without `doubt` and with no save on its way, the access there is is what the last
  state calls for, and where the webhook would derive Skip also what HR's record
  calls for. A lost webhook, a held, queued or refused run and a dead host that had
  changed nothing are no reason for doubt. An overlap of runs, a failed save, a
  saved failure, work or requests left behind, a package hidden from a run and a
  deleted account are, until a move or a termination has succeeded by itself. So
  the property does not forbid what these do, it says for how long they may. With
  a Joiner that ended the doubt it would be false: over what OFFBOARD_PARTIAL left,
  the Joiner of a re-hire into another role adds its packages and is saved, the old
  ones stay, and Skip is derived where a Mover is needed.
* `NewDatesMakeNewEvents` (mutant: the date is not hashed): what is needed is
  refused as a duplicate of something completed only where HR's dates repeat.
* `ChangeHandled` (mutant: a changed role is skipped): access that is not what HR's
  record calls for becomes so, or a webhook or run of this very record has said that
  it did not (`dropped`; one of an older record does not count), or `doubt`.
* `CompletedMeansGranted` (mutant: a package still at work counts as assigned),
  `CompletedStays` (mutant: a Completed row is claimed again), `EventuallyJoined`
  (mutant: an account that exists is always a conflict), `ImplementsContract`
  (mutant: the run goes on after its account could not be created).
* `LostOnlyInKnownWays` (mutant: an empty poll saves the time it ends),
  `NeverBackOverChange` (mutant: the ETag is not compared), `ChangesTakenUp`
  (mutant: a change at the very time of the checkpoint counts as old).
* `ReleasedHasOverride` (mutant: the override is set after the save),
  `StrictUnlessStale` (mutant: the status is not looked up in
  `VALID_TRANSITIONS`), `EventuallyHeld` (mutant: creation stops where the gate
  failed).

### Fairness

* EventStore: weak fairness of each run's steps (a host that lives goes on) and
  of lock age (time passes); strong fairness of starting a run for an event. The
  last is what retried webhooks, polls and operators do. It is assumed because
  no timer of the code looks for stale locks: without another trigger nothing
  recovers.
* Mover: weak fairness of the run's own steps, among them the end of the poll
  window. Entra owes no answer, and runs need not be started.
* Leaver: weak fairness of each run's steps and strong fairness of `Start`
  (repeated trigger, as above) and of `Claim`, which ageing lets happen over and
  over: the model leaves lock age open, so the fairness stands for time.
* LastState: weak fairness of a handler and an orchestration that have begun
  (Durable Functions replays them) and of the webhook HR owes for a change. HR
  need not change anything.
* Joiner: weak fairness of the run, of each answer of Entra, and of a trigger,
  by whichever driver, while it would do anything: a failed record is posted again.
* DeltaPoll: weak fairness of each poller's steps, the next poll among them. It
  stands for the schedule `run_delta` documents; the repository has no caller of
  it (see section 4).
* HoldQueue: weak fairness of the creator. Operators owe nothing.

## 4. Where the code differs from its documents

Each of these is a run that must be violated.

* `store_queued_forever`: a queued event is never processed. Two Joiner events
  that see each other's Pending row both queue; nobody is left to advance the
  queue, and every retry finds its own Pending row a duplicate.
* `leaver_rehire_deleted`: the deferred deletion deletes the account a re-hire's
  Joiner has resumed. `Architecture.md:617` and `READme.md:80` promise the
  opposite; the guard looks at `account_enabled`, which no pipeline sets.

Seen while modelling, without a run of their own. The event store and the
pipelines:

* Two instances may run one event, where `Architecture.md:752` promises that none
  is processed twice: `_handle_existing_event` reads and then reclaims without an
  ETag, so two retries of a Failed event both get True. `Exclusive` says when.
* A superseded event may execute, where `Architecture.md:810` says it never does:
  `acquire_lock` writes Processing over Superseded.
* An `adminRemove` that outlives its run is carried out during the next move and
  takes away a package the user needs: less than either role, where
  `Architecture.md:994` allows more access but never less. Such a package is
  `late`; `NeverLess` without `late` is violated in `Mover_add_first.cfg`.
* The last state is saved after MOVE_PARTIAL, MOVE_FAILED, OFFBOARD_PARTIAL and
  OFFBOARD_FAILED, and after a Joiner whose packages did not arrive, against
  `Leaver/durable/orchestrator.py:81` ("on success"), `READme.md:213` and
  `last_state_store.py:8-12` ("Only a confirmed success writes here"). Later
  webhooks derive Skip. This is one of the doubts of `DerivesWhatIsNeeded`.
* A Joiner over what OFFBOARD_PARTIAL left behind adds the new role's packages and
  is saved as if they were all: the old ones stay, and every later webhook derives
  Skip until the role changes. This is why a Joiner does not end the doubt.
* A request that outlives its run is carried out when Entra likes, and changes the
  access under the last state that was saved.
* A Completed row can leave Completed: a slow run's `release_lock` and final
  status come after another run's (against `Architecture.md:796`, where
  Completed is final). `LateRunsNeverReopen` is what remains true.
* A Leaver supersedes Pending Leavers too, as it supersedes whatever its query
  saw Pending.
* A staged Joiner lost under its lock is not taken up by the staged drivers.
  `stages.py:136-141` says that a stale event is reclaimed inside `claim_event`
  and proceeds; but `check_active_event` before it has reset the row to Pending,
  which `_handle_existing_event` takes for a duplicate, now and at every later
  trigger. Only the batch adapter, which has no such check, reclaims it, if it
  comes first. `EventuallyJoined` counts the rest as `Stuck`.
* Two Joiners of one employee may keep skipping on each other's Processing rows.
  For both reasons `StaleLockRetried` speaks of Mover and Leaver.
* The durable Joiner reads `claim.data["event_id"]` before it looks for SKIPPED,
  whose data is empty (`Joiner/durable/activities.py:69`): the orchestration
  fails where it should return.
* Strategy B is chosen for the whole move when one addition conflicts, so
  packages without a conflict are removed early too (`Architecture.md:295` speaks
  of the conflicting ones). In Strategy B the durable driver PATCHes before the
  additions, `mover_http/__init__.py:459` after them.
* A removal Entra refused counts as done, and MOVE_SUCCESS or OFFBOARD_SUCCESS can
  follow, when an older assignment of the package comes first in the answer of
  `check_package_assignment` (`Mover/provisioning_phases.py:437`,
  `Leaver/provisioning_phases.py:255`). These packages are `Shadowed`.
* A failed disable or revoke is a warning: removals start, and OFFBOARD_SUCCESS
  is possible if the verification then finds the account disabled.
* A Leaver run that queues behind another (`QUEUED_CONCURRENT`), or whose first
  activity is delivered twice, leaves its row Pending. Every later trigger is a
  duplicate. So it is for a row left Processing without a lock, by a run lost
  between `release_lock` (`activities.py:301`, `leaver_http/__init__.py:359`) and
  the status after it: if that run had not disabled the account, nothing will.
  `CutOffUnlessStuck` excludes these cases.
* A run lost between the event log and `release_lock` (`leaver_http/__init__.py:351`
  to 359) leaves OFFBOARD_SUCCESS logged on a Processing row. Ten minutes later a
  trigger takes the event up again, and may end as OFFBOARD_FAILED.
  `SuccessTakenBackByRepeatOnly` speaks of successes in both tables.
* `_write_event_log` swallows its errors: a Completed row may have IN_PROGRESS, or an
  older status, in the log, which then parks other runs until it is old.
* `verify_finalize` delivered again after it deleted the user writes
  OFFBOARD_FAILED over OFFBOARD_SUCCESS.
* Packages a Joiner or Mover adds under its own lock survive OFFBOARD_SUCCESS.
* The fallback check in `finalize_removals` is outside any try: one failed call
  ends the orchestration.
* Between the guard of the deferred deletion and the DELETE an operator may
  enable the account.

Webhooks and the last state:

* A termination that arrives while the Joiner is at work, or after a Joiner that
  never saved, is skipped for good (`last_state_deriver.py:107`: no prior state).
* `save_last_state_activity.py:74` says that after a failed save the next
  webhook will still work. After a failed save of a Joiner, a move derives Joiner again, is
  a duplicate of the Completed event, and is lost.
* A second move under one hire date, and a re-hire under the old one, hash to a
  Completed event and are duplicates for good (`Architecture.md:766` calls the
  start date what tells events apart). `NewDatesMakeNewEvents` is what holds.
* A webhook that fails is answered with 200, so HR does not send it again.

Joiner:

* Every caller passes the status Processing, so the branch that refuses a taken
  UPN (`provisioner.py:186`) is unreachable, and `check_upn_exists`
  (`validation_gate.py:379`) has no caller: a Joiner whose UPN belongs to someone
  else resumes that account.
* `check_package_assignment` does not filter by state: an expired assignment, or
  one being delivered, counts as assigned and is skipped. `CompletedMeansGranted`
  names this as the one excuse.
* Post-validation does not confirm the packages (`Architecture.md:896` says the
  Joiner does); it checks governance rules on memberOf.
* The durable driver never assigns PIM eligibility.
* The last activity of the durable driver, delivered again, may write Failed over
  Completed. A host lost between `release_lock` and the status, or before the
  lock, or a run parked behind another event, leaves a row nothing reclaims (`Stuck`).
* The docstring of `get_assignment_request_status` names the field
  `requestState`; the code reads `state`.

Delta poll:

* "On failure, the timestamp does NOT advance" (`system_state.py:24`) is true of a failed fetch only:
  records whose pipeline failed, or that could not be fetched, are counted and the
  checkpoint moves over them.
* A poll that found something saves the time it ends
  (`ingestion_coordinator.py:225`, while the docstring of
  `save_poll_checkpoint` speaks of the poll's `since`): what HR changed since the
  fetch is not asked for again.
* Without a readable checkpoint the poll goes back one day; older changes are not
  asked for.
* `mark_poll_started` writes without an ETag: two pollers that keep marking never
  save. They run what they fetch, so nothing is lost by it. Two first polls at once: the
  second insert raises.
* `run_delta` has no caller in the repository.

Hold queue:

* The transition graph is "strict, enforced at runtime" (`Architecture.md:952`)
  on the caller's copy only. A stale copy takes the row anywhere the copy may go,
  and after a failed save a retry raises, because the copy already moved.
* `transition` by itself allows Held to Approved without an override; nothing
  calls it so. Failed is listed as terminal and may go to Held.
* A pipeline lost between its saves leaves a record that `get_held_records` never
  lists and `approve` refuses.
* Nothing takes up an Approved record, and the Mover's hold records live in the
  memory of its activity.

## 5. What is proved

TLAPS proves the following for every value of the constants, so for any number
of runs, events, packages and faults. Induction over steps; the invariants are
conjunctions of named parts in the proof modules.

* **EventStoreProofs**, for any runs, row keys, crashes and lock ages.
  * `TypeCorrect`.
  * `ProcessingOwned` (`ProcessingHasOwner`, inductive with the types): a row
    becomes Processing only in `AcquireLock`, whose run is then in `Locking`, and
    a run leaves `Locking` by a final status or a crash, which `orphaned` records.
  * `ClaimsExclude` (`Exclusive`) and `JoinerEntersAlone` (`EntersAlone`).
    `Exclusive` alone is not inductive: that a claim is refused, or a Joiner
    parked, follows from what the *row* of the other run says. `ClaimInv` adds it:
    an undisturbed holder's row is still active (`ClaimKept`), no run has its own
    row on its list (`SparesItself`), and a run at the gate saw no other holder.
  * `Idempotent` (`LateRunsNeverReopen`), from `LateInv`: what a run has seen
    Completed since it began is Completed, is on no list of rows it will write,
    and is not an event it holds.
  * `QueueNeverRecovers` (`ParkedForGood`): nothing but a Leaver that supersedes
    the row takes up a parked Joiner whose releasing is lost. The types make
    `Parked` inductive: the row is Pending, so a claim, a sweep and a lock pass it
    by, and active, so no Joiner of the employee reaches the gate.
    `NothingElseReleases`: without Leaver events it is parked for ever.
* **MoverProofs**, for any packages, roles, faults and attempts.
  * `TypeCorrect`.
  * The others rest on `MoveInv`. Moves follow each other while requests of
    earlier ones are open; the packages of those are `late`, and `MoveInv` speaks of
    the rest: an open request is one of the current move (`RequestsOwned`), the
    lists are the plan's (`PlanFits`), an addition seen done is held
    (`AdditionsSeen`), without conflicts a removal is open or being made only
    while everything new is held (`Gated`), and a removal seen done stays done
    where the check could see the package (`RemovalsSeen`).
  * `AddBeforeRemove` (`NeverLess`) and `CommitFollows` (`CommitAfterAdditions`)
    assume `Compatible`: no role's package conflicts with a managed one. With such
    a conflict the removals must come first.
  * `OnlyOwned` (`OnlyOwnedRemoved`), `SuccessIsMoved` (`SuccessMeansMoved`) and
    `Implements` (`ImplementsContract`) hold in both orders, without hypothesis.
* **LeaverProofs**, any runs, terminations, faults, holds and slow runs.
  * `TypeCorrect`.
  * `LockedOut` (`LockedOutFirst`), from `LockInv`, which adds that a fetched id
    is never newer than the object (`OldObjects`) and that the account is disabled
    between disable and revoke (`DisabledFirst`): sessions stay ended only while
    nobody can sign in.
  * `SuccessCutsOff` (`SuccessMeansCutOff`), from `SuccessInv`, which says what
    each entry of the run's list means for Entra until the status is decided. With
    an old assignment beside the current one `check_package_assignment` may report
    the old one; such a package (`Shadowed`) is excused. The runs have none.
  * `SuccessStands` (`SuccessTakenBackByRepeatOnly`), where runs of one event do
    not overlap (`OneAtATime`, a hypothesis about the behaviour). The argument is
    about the Completed *row*, which is written last and which nothing claims or
    resets. `LoggedInv`: no run of its event is before its verdict
    (`NoneUndecided`), a run still in its last activity finds its packages cleared
    and its account shut (`DoneStands`), so the verdict it may write once more is a
    success unless the account was enabled or is another one (`VerdictFits`). Who
    writes either table is `LogWriters` and `RowWriters`. What is only logged is
    claimed nothing of. `SuccessStandsAlone` draws the case of a single run.
  * `FaultlessSuccessIsFinal` (`SuccessIsFinal`), without faults and slow runs but
    with any overlap, from `ClaimInv`: the claim and the lock let one run at a time
    have an event (`OneRunPerEvent`), its row is Pending before the lock and
    Processing after (`RowFits`), a Processing row has a run at work, and a logged
    success has a Completed row or the run about to write it (`LoggedIsClosed`).
* **LastStateProofs**, any roles, webhooks, days and faults.
  * `TypeCorrect`.
  * `Derives` (`DerivesWhatIsNeeded`). It speaks of one moment, and a save comes
    long after the read it rests on. The invariant adds: a run that is not `alone`
    means doubt, and one that is has no other beside it (`AloneOrInDoubt`); without
    doubt a run at its save has succeeded and the access is what it wanted
    (`DoneIsThere`), a Joiner finds nothing it would leave (`JoinerFindsNothing`),
    no request is open that could change the access (`NothingLate`), and between
    saves the last state stands for the access (`LastIsDone`); only a run at its
    save is successful (`OnlySavingOk`), and the action of a run at work fits its
    record (`ActionFits`). No step is assumed to leave a role's packages and no
    others: that a lone Joiner does, where there is no doubt, is proved from what
    it finds.
  * `DatesTell` (`NewDatesMakeNewEvents`), from `DatesInv`, which adds: the key of a
    run is what its action and its record give, and nothing is completed for a day
    to come (`KeyFits`, `NoFutureDates`); without doubt, what was completed for HR's record,
    or for one a webhook has fetched, is in the last state (`DoneIsKnown`,
    `FetchedIsKnown`); and what HR changed after a lone run's fetch is not yet done
    (`OvertakenIsOpen`).
* **JoinerProofs**, any packages, faults and retries.
  * `TypeCorrect`.
  * `Granted` (`CompletedMeansGranted`), from: the row fits the position
    (`RowFits`); what the run's list says of a package is true in Entra, or the
    package is excused (`PendingTrue`); the account exists from the submission on
    (`AccountThere`); and a run past its result has passed it (`Passed`).
  * `StaysCompleted` (`CompletedStays`), a step property, from `RowFits`.
  * `Implements` (`ImplementsContract`), from `Orderly`: what the user holds was
    requested, requests are made for an account that exists, and packages are seen
    to only after PROCEED.
* **DeltaPollProofs**, any employees, pollers, times and faults.
  * `TypeCorrect`.
  * `CheckpointForward` (`NeverBackOverChange`), from: nothing stored lies in the
    future (`ClockInv`), and while the row is as a poll that found nothing marked
    it, no change lies between what it will save and the checkpoint
    (`NothingBetween`).
  * `LostKnown` (`LostOnlyInKnownWays`): what a poll does not ask for is `unseen`
    by it or was `passed` before (`AskedFor`), and what it is running covers what is
    pending but for late changes (`Covered`), so either save moves what it leaves
    behind to `passed`.
* **HoldQueueProofs**, any operators, attempts and failures.
  * `TypeCorrect`.
  * `OverrideKept` (`ReleasedHasOverride`): an invariant of the row alone would
    not survive a save, so `AllTraced` says the same of every copy, the ones a
    failed save left ahead of the row too.
  * `Strict` (`StrictUnlessStale`), with `MadeFits` and `NothingBefore` for the
    creator's object.

Only model-checked: the liveness properties `StaleLockRetried`, `RunsEnd`,
`CutOffUnlessStuck`, `ChangeHandled`, `EventuallyJoined`, `ChangesTakenUp` and
`EventuallyHeld`, as liveness under fairness and ENABLED are out of the prover's
reach. Every invariant and action property of the passing runs, and both
refinements, are proved.

The proofs stand on the named assumptions `ConstantsAssumption` of the modules,
which say no more than what kind of thing each constant is, and on the
hypotheses named above.

## 6. Bounds and abstractions

* One employee. Rows of different employees are different partitions, and runs
  for different employees share nothing but Graph's throttling.
* `MaxCrashes`, `MaxFaults`, `MaxAttempts`, `MaxTerminations`, `Days`, `MaxExtra`
  (webhooks for other fields than the five), `MaxTime` bound the environment; the code has no such limits, and the proofs hold for
  every value.
* A call with its retries (`retry_on_throttle`) is one call: it succeeds, fails
  without effect, or fails with effect. A POST repeated after a timeout leaves at
  most a second request for the same package, of which the models keep the newest.
* Time: a lock is fresh or stale. `SlowRuns` says whether a live run may outlast
  the ten minutes, which nothing renews.
* Names, dates and payloads are model values.
* Two *different* moves of one employee running at once, which guard each other
  through `MoverEventLog`, are not modelled: Mover has one run at a time.

## 7. Not modelled

* One composition of all pipelines over one store and one account. Each
  pair that interacts is in one module with the other seen from outside: Joiner
  and Leaver in EventStore (rows) and Leaver (account), webhooks and pipelines in
  LastState. The product of the detailed modules is beyond TLC.
* Two different moves of one employee at once, which guard each other through
  `MoverEventLog`. The Leaver's guard has the same form and is modelled.
* Parsing, normalisation, mapping, validation and governance rules, and the
  batch action deriver: stateless functions of configuration. Their verdicts are
  nondeterministic, their results constants.
* The Mover's SoD re-evaluator and PIM adjuster, `package_requests.py`, and the
  RBAC and group calls of the Graph client: nothing calls them.
* Audit rows, run reports and run summaries: nothing reads them back.
* In LastState, orchestrations started over HTTP (they carry no `mapped_record` and
  never save), and the date of today for an empty or invalid one.
* Function bindings, configuration, data, and `reset_orphaned_leavers.py`, a
  repair script for three named events.
