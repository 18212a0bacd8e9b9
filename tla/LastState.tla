------------------------------ MODULE LastState ------------------------------
(***************************************************************************)
(* The webhook and the last-state store: HR's record of one employee is    *)
(* fetched (Ingestion/hr_api/webhook.py), compared with JmlLastState       *)
(* (last_state_deriver.py), keyed and dispatched (payload_builder.py), and *)
(* saved by the orchestration at its end (last_state_store.py).            *)
(*                                                                         *)
(* The pipelines are seen from outside: which of their exits save, and the *)
(* access packages they leave the employee with, at once and through the   *)
(* requests they leave open. A role stands for the managed packages it     *)
(* calls for; one kept by a retention record is not counted. Webhooks      *)
(* overlap as they like. HR changes the record once a day at most.         *)
(***************************************************************************)
EXTENDS Naturals, FiniteSets

CONSTANTS
  Packages,   \* access packages
  Roles,      \* values of the five action-driving fields together, each
              \* the set of packages it calls for
  Runs,       \* numbers for the webhooks and orchestrations at work at once
  None,       \* no record, no date, no key
  Days,       \* bound: days HR changes the record on, 1 .. Days
  MaxExtra,   \* bound: webhooks for changes of other fields
  MaxFaults   \* bound: lost webhooks and runs, failed saves

Status == {"Active", "Inactive"}
Record == [status : Status, role : Roles, start : 1 .. Days, end : (1 .. Days) \union {None}]

ASSUME ConstantsAssumption ==
  /\ Roles \subseteq SUBSET Packages
  /\ Runs \subseteq Nat
  /\ None \notin Record /\ None \notin [status : Status, role : Roles]
  /\ None \notin 1 .. Days
  /\ Days \in Nat \ {0}
  /\ MaxExtra \in Nat
  /\ MaxFaults \in Nat

VARIABLES
  hr,       \* HR's record
  today,
  due,      \* HR has yet to send the webhook of its last change
  last,     \* the row of JmlLastState
  rows,     \* JmlEvents, by key; "free" is no row or Failed, "open" any
            \* other status but Completed
  \* Entra
  account,  \* whether the employee's account exists
  access,   \* the packages assigned to it
  lapsed,   \* packages it has an old, expired assignment of
  late,     \* packages with a request still open that no run waits for
  \* a webhook and the orchestration it starts
  pc,
  rec,      \* mapped_record
  action,   \* its action
  key,      \* what the event id is hashed from
  ok,       \* the orchestration succeeded
  \* observed, nothing in the code
  alone,    \* no other run has been at work since the fetch
  doubt,    \* last may differ from what was done
  dropped,  \* a webhook of HR's present record has ended without success
  sameDate, \* HR has re-hired the employee under the hire date of before
  extra,
  faults

env == <<hr, today, extra>>
entra == <<account, access, lapsed, late>>
store == <<last, rows, entra>>
run == <<pc, rec, action, key, ok, alone>>
vars == <<env, due, store, run, doubt, dropped, sameDate, faults>>

Actions == {"Joiner", "Mover", "Leaver"}
Keys == Actions \X (1 .. Days)
PC == {"idle", "fetched", "pre", "work", "save"}

TypeOK ==
  /\ hr \in Record
  /\ today \in 1 .. Days
  /\ due \in BOOLEAN
  /\ last \in [status : Status, role : Roles] \union {None}
  /\ rows \in [Keys -> {"free", "open", "Completed"}]
  /\ account \in BOOLEAN
  /\ access \in SUBSET Packages
  /\ lapsed \in SUBSET Packages
  /\ late \in SUBSET Packages
  /\ pc \in [Runs -> PC]
  /\ rec \in [Runs -> Record \union {None}]
  /\ \A r \in Runs : pc[r] # "idle" => rec[r] \in Record
  /\ action \in [Runs -> Actions \union {None}]
  /\ key \in [Runs -> Keys \union {None}]
  /\ \A r \in Runs : pc[r] \in {"pre", "work", "save"} =>
       action[r] \in Actions /\ key[r] \in Keys
  /\ ok \in [Runs -> BOOLEAN]
  /\ alone \in [Runs -> BOOLEAN]
  /\ doubt \in BOOLEAN
  /\ dropped \in BOOLEAN
  /\ sameDate \in BOOLEAN
  /\ extra \in 0 .. MaxExtra
  /\ faults \in 0 .. MaxFaults

------------------------------------------------------------------------------
Goto(r, to) == pc' = [pc EXCEPT ![r] = to]

(* The run returns, and its local variables are gone.                      *)
End(r) ==
  /\ Goto(r, "idle")
  /\ rec' = [rec EXCEPT ![r] = None]
  /\ action' = [action EXCEPT ![r] = None]
  /\ key' = [key EXCEPT ![r] = None]
  /\ ok' = [ok EXCEPT ![r] = FALSE]
  /\ alone' = [alone EXCEPT ![r] = FALSE]

Fault ==
  /\ faults < MaxFaults
  /\ faults' = faults + 1

SetRow(r, s) == rows' = [rows EXCEPT ![key[r]] = s]

(* A new hire; one with an account from before comes with a re-hire.       *)
Init ==
  /\ hr \in [status : {"Active"}, role : Roles, start : {1}, end : {None}]
  /\ today = 1
  /\ due = TRUE
  /\ last = None
  /\ rows = [k \in Keys |-> "free"]
  /\ account = FALSE
  /\ access = {} /\ lapsed = {} /\ late = {}
  /\ pc = [r \in Runs |-> "idle"]
  /\ rec = [r \in Runs |-> None]
  /\ action = [r \in Runs |-> None]
  /\ key = [r \in Runs |-> None]
  /\ ok = [r \in Runs |-> FALSE]
  /\ alone = [r \in Runs |-> FALSE]
  /\ doubt = FALSE
  /\ dropped = FALSE
  /\ sameDate = FALSE
  /\ extra = 0
  /\ faults = 0

------------------------------------------------------------------------------
(* HR.                                                                     *)

HrWrites(record) ==
  /\ today < Days
  /\ today' = today + 1
  /\ hr' = record
  /\ due' = TRUE
  /\ dropped' = FALSE
  /\ UNCHANGED <<store, run, doubt, extra, faults>>

Move ==
  /\ hr.status = "Active"
  /\ \E role \in Roles \ {hr.role} : HrWrites([hr EXCEPT !.role = role])
  /\ UNCHANGED sameDate

(* HR may leave the date of the termination out.                           *)
Terminate ==
  /\ hr.status = "Active"
  /\ \E date \in {today + 1, None} :
       HrWrites([hr EXCEPT !.status = "Inactive", !.end = date])
  /\ UNCHANGED sameDate

(* ... and keep the first hire date of one it hires again.                 *)
Rehire ==
  /\ hr.status = "Inactive"
  /\ \E date \in {today + 1, hr.start}, role \in Roles :
       /\ HrWrites([status |-> "Active", role |-> role, start |-> date, end |-> None])
       /\ sameDate' = (sameDate \/ date = hr.start)

------------------------------------------------------------------------------
(* The webhook.                                                            *)

Busy(r) == \E q \in Runs \ {r} : pc[q] # "idle"

(* A webhook arrives, also one that HR sends for another field, and its    *)
(* handler fetches and maps the record. It goes by the first number free.  *)
Fetch(r) ==
  /\ pc[r] = "idle"
  /\ \A q \in Runs : q < r => pc[q] # "idle"
  /\ due' = FALSE
  /\ IF due THEN UNCHANGED extra ELSE extra < MaxExtra /\ extra' = extra + 1
  /\ rec' = [rec EXCEPT ![r] = hr]
  /\ Goto(r, "fetched")
  /\ IF Busy(r)
     THEN alone' = [q \in Runs |-> FALSE] /\ doubt' = TRUE
     ELSE alone' = [alone EXCEPT ![r] = TRUE] /\ UNCHANGED doubt
  /\ UNCHANGED <<hr, today, store, action, key, ok, dropped, sameDate, faults>>

(* The answer is 200 all the same, so HR does not send it again.           *)
FetchFails(r) ==
  /\ pc[r] = "idle"
  /\ due
  /\ due' = FALSE
  /\ dropped' = TRUE
  /\ Fault
  /\ UNCHANGED <<env, store, run, doubt, sameDate>>

(* Mutant of Derive: a role that is not yet known to be wrong is left.     *)
DeriveByStatus(record, prior) ==
  IF record.status = "Inactive"
  THEN IF prior # None /\ prior.status = "Active" THEN "Leaver" ELSE "Skip"
  ELSE IF prior = None \/ prior.status = "Inactive" THEN "Joiner" ELSE "Skip"

(* derive_action.                                                          *)
Derive(record, prior) ==
  IF record.status = "Inactive"
  THEN IF prior # None /\ prior.status = "Active" THEN "Leaver" ELSE "Skip"
  ELSE IF prior = None \/ prior.status = "Inactive" THEN "Joiner"
  ELSE IF record.role # prior.role THEN "Mover" ELSE "Skip"

(* Mutant of Key: a termination without a date has no date.                *)
KeyByEnd(a, record) == <<a, IF a = "Leaver" THEN record.end ELSE record.start>>

(* Mutant of Key: the date is not hashed.                                  *)
KeyOfAction(a, record) == <<a, 1>>

(* build_identity_payload: the date the event id is hashed from.           *)
Key(a, record) ==
  <<a, IF a = "Leaver" /\ record.end # None THEN record.end ELSE record.start>>

(* Mutant of Dispatch: the record is saved when it is dispatched.          *)
DispatchSaves(r) ==
  LET a == Derive(rec[r], last) IN
  /\ pc[r] = "fetched"
  /\ a # "Skip"
  /\ action' = [action EXCEPT ![r] = a]
  /\ key' = [key EXCEPT ![r] = Key(a, rec[r])]
  /\ last' = [status |-> rec[r].status, role |-> rec[r].role]
  /\ Goto(r, "pre")
  /\ UNCHANGED <<env, due, rows, entra, rec, ok, alone, doubt, dropped, sameDate, faults>>

(* The last state is read, and the orchestrator of the action started.     *)
Dispatch(r) ==
  LET a == Derive(rec[r], last) IN
  /\ pc[r] = "fetched"
  /\ a # "Skip"
  /\ action' = [action EXCEPT ![r] = a]
  /\ key' = [key EXCEPT ![r] = Key(a, rec[r])]
  /\ Goto(r, "pre")
  /\ UNCHANGED <<env, due, store, rec, ok, alone, doubt, dropped, sameDate, faults>>

Skip(r) ==
  /\ pc[r] = "fetched"
  /\ Derive(rec[r], last) = "Skip"
  /\ End(r)
  /\ UNCHANGED <<env, due, store, doubt, dropped, sameDate, faults>>

(* A run without success, of the record HR has now or of an older one.     *)
Drop(r) == dropped' = (dropped \/ rec[r] = hr)

(* The read, build_identity_payload or start_new raises.                   *)
DispatchFails(r) ==
  /\ pc[r] = "fetched"
  /\ End(r)
  /\ Drop(r)
  /\ Fault
  /\ UNCHANGED <<env, due, store, doubt, sameDate>>

------------------------------------------------------------------------------
(* The orchestrations.                                                     *)

Claimable(r) == rows[key[r]] = "free"

(* An exit of the first activity: nothing is saved.                        *)
Exit(r) ==
  /\ End(r)
  /\ Drop(r)
  /\ UNCHANGED <<env, due, last, entra, doubt, sameDate, faults>>

(* DUPLICATE: an event of this key is done, or at work, or waits.          *)
Duplicate(r) ==
  /\ pc[r] = "pre"
  /\ ~Claimable(r)
  /\ Exit(r)
  /\ UNCHANGED rows

(* SKIPPED, before the claim, or QUEUED, after it, where the row is left   *)
(* for nobody: another run is at work.                                     *)
TurnedAway(r) ==
  /\ pc[r] = "pre"
  /\ Claimable(r)
  /\ Busy(r)
  /\ Exit(r)
  /\ UNCHANGED rows \/ SetRow(r, "open")

(* HELD, SOD_HELD, and what fails before anything is changed.              *)
Held(r) ==
  /\ pc[r] = "pre"
  /\ Claimable(r)
  /\ Exit(r)
  /\ UNCHANGED rows

(* Only the Joiner makes an account; without one a move or a termination   *)
(* fails where it looks the user up.                                       *)
HasAccount(r) == action[r] = "Joiner" \/ account

Proceed(r) ==
  /\ pc[r] = "pre"
  /\ Claimable(r)
  /\ HasAccount(r)
  /\ SetRow(r, "open")
  /\ Goto(r, "work")
  /\ UNCHANGED <<env, due, last, entra, rec, action, key, ok, alone, doubt, dropped, sameDate, faults>>

(* What a pipeline requests, and what it requests the removal of: a Joiner *)
(* takes nothing away.                                                     *)
Wanted(r) == IF action[r] = "Leaver" THEN {} ELSE rec[r].role
Unwanted(r) == IF action[r] = "Joiner" THEN {} ELSE access \ Wanted(r)

(* check_package_assignment looks at one assignment of a package, and asks *)
(* for no state: an old one, or an open request, may hide from a Joiner    *)
(* that the package is not there, and an old one from a finalize that it   *)
(* still is.                                                               *)
Hideable(r) ==
  IF action[r] = "Joiner" THEN (Wanted(r) \ access) \cap (lapsed \union late)
                          ELSE Unwanted(r) \cap lapsed

(* All that the run was to do, but for what was hidden from it.            *)
Whole(r, hidden) ==
  /\ access' = IF action[r] = "Joiner" THEN access \union (Wanted(r) \ hidden)
                                       ELSE Wanted(r) \union hidden
  /\ lapsed' = lapsed \union (access \ access')
  /\ account' = HasAccount(r)
  /\ UNCHANGED late

(* Some of it.                                                             *)
Some(r) ==
  \E add \in SUBSET Wanted(r), take \in SUBSET Unwanted(r) :
    /\ access' = (access \union add) \ take
    /\ lapsed' = lapsed \union take

(* ... and requests that Entra has yet to answer.                          *)
Halfway(r) ==
  /\ Some(r)
  /\ \E open \in SUBSET ((Wanted(r) \ access') \union (Unwanted(r) \cap access')) :
       late' = late \union open
  /\ account' \in {account, HasAccount(r)}
  /\ account' \/ (access' = access /\ late' = late)

(* A run that is by itself, with no request open beside it, settles what   *)
(* access there is - but a Joiner adds to whatever it finds.               *)
Settles(r) == alone[r] /\ late = {} /\ action[r] # "Joiner"

Succeed(r) ==
  /\ pc[r] = "work"
  /\ action[r] = "Mover" => account
  /\ SetRow(r, "Completed")
  /\ \/ /\ alone[r]
        /\ \E hidden \in SUBSET Hideable(r) :
             /\ Whole(r, hidden)
             /\ doubt' = (hidden # {} \/ (doubt /\ ~Settles(r)))
     \/ /\ ~alone[r]
        /\ Some(r)
        /\ account' = HasAccount(r)
        /\ UNCHANGED <<late, doubt>>
  /\ ok' = [ok EXCEPT ![r] = TRUE]
  /\ Goto(r, "save")
  /\ UNCHANGED <<env, due, last, rec, action, key, alone, dropped, sameDate, faults>>

(* MOVE_PARTIAL, MOVE_FAILED, OFFBOARD_PARTIAL, OFFBOARD_FAILED, and a     *)
(* Joiner whose packages were not delivered go on to save.                 *)
Fail(r) ==
  /\ pc[r] = "work"
  /\ SetRow(r, "free")
  /\ Halfway(r)
  /\ doubt' = TRUE
  /\ Goto(r, "save")
  /\ UNCHANGED <<env, due, last, rec, action, key, ok, alone, dropped, sameDate, faults>>

InDoubtIfChanged == doubt' = (doubt \/ access' # access \/ late' # late)

(* A Joiner that fails at its user or at a submission returns at once.     *)
FailEarly(r) ==
  /\ pc[r] = "work"
  /\ action[r] = "Joiner"
  /\ SetRow(r, "free")
  /\ Halfway(r)
  /\ InDoubtIfChanged
  /\ Drop(r)
  /\ End(r)
  /\ UNCHANGED <<env, due, last, sameDate, faults>>

(* An activity raises, and with it the orchestration: the row stays.       *)
Die(r) ==
  /\ pc[r] = "work"
  /\ Halfway(r)
  /\ InDoubtIfChanged
  /\ Drop(r)
  /\ End(r)
  /\ Fault
  /\ UNCHANGED <<env, due, last, rows, sameDate>>

(* The soft delete: at once, before the row is written, or after the hold. *)
DeleteUser(r) ==
  /\ pc[r] \in {"work", "save"}
  /\ action[r] = "Leaver"
  /\ account
  /\ account' = FALSE
  /\ access' = {} /\ lapsed' = {} /\ late' = {}
  /\ InDoubtIfChanged
  /\ UNCHANGED <<env, due, last, rows, run, dropped, sameDate, faults>>

(* Entra carries out or rejects a request nobody waits for any more.       *)
Late(p) ==
  /\ p \in late
  /\ late' = late \ {p}
  /\ \/ UNCHANGED <<access, lapsed>>
     \/ p \notin access /\ access' = access \union {p} /\ UNCHANGED lapsed
     \/ p \in access /\ access' = access \ {p} /\ lapsed' = lapsed \union {p}
  /\ UNCHANGED <<env, due, last, rows, account, run, doubt, dropped, sameDate, faults>>

(* save_last_state_activity: save_last_state, or mark_terminated.          *)
Saved(r) ==
  [status |-> IF action[r] = "Leaver" THEN "Inactive" ELSE rec[r].status,
   role |-> rec[r].role]

Save(r) ==
  /\ pc[r] = "save"
  /\ last' = Saved(r)
  /\ IF ok[r] THEN UNCHANGED dropped ELSE Drop(r)
  /\ End(r)
  /\ UNCHANGED <<env, due, rows, entra, doubt, sameDate, faults>>

(* The error is swallowed.                                                 *)
SaveFails(r) ==
  /\ pc[r] = "save"
  /\ doubt' = TRUE
  /\ IF ok[r] THEN UNCHANGED dropped ELSE Drop(r)
  /\ End(r)
  /\ Fault
  /\ UNCHANGED <<env, due, store, sameDate>>

------------------------------------------------------------------------------
Orchestration(r) ==
  \/ Duplicate(r) \/ TurnedAway(r) \/ Held(r) \/ Proceed(r)
  \/ Succeed(r) \/ Fail(r) \/ FailEarly(r) \/ DeleteUser(r) \/ Save(r)

Webhook(r) == Fetch(r) \/ Dispatch(r) \/ Skip(r)

Failure(r) == FetchFails(r) \/ DispatchFails(r) \/ Die(r) \/ SaveFails(r)

Next ==
  \/ Move \/ Terminate \/ Rehire
  \/ \E r \in Runs : Webhook(r) \/ Orchestration(r) \/ Failure(r)
  \/ \E p \in Packages : Late(p)

(* A handler and an orchestration that have begun go on, and HR sends the  *)
(* webhook of a change.                                                    *)
Fairness ==
  /\ \A r \in Runs : WF_vars(Dispatch(r) \/ Skip(r) \/ Orchestration(r))
  /\ WF_vars(due /\ \E r \in Runs : Fetch(r))

Spec == Init /\ [][Next]_vars /\ Fairness

------------------------------------------------------------------------------
(* The packages a record calls for, HR's or the last state's.              *)
Called(record) ==
  IF record = None \/ record.status = "Inactive" THEN {} ELSE record.role

(* The last state stands for the access there is, so that nothing still    *)
(* open is skipped by the next webhook - also after webhooks that were     *)
(* lost and runs that were held, queued, duplicates or without success     *)
(* (webhook.py:19, "the webhook does NOT write to the last-state store").  *)
(* It may differ once two runs overlapped, a save failed, a run without    *)
(* success was saved or left work or requests behind, or an old assignment *)
(* or an open request hid a package from a run - until a move or a         *)
(* termination has succeeded by itself with no request left open. A Joiner *)
(* does not end the doubt: the packages it finds stay.                     *)
DerivesWhatIsNeeded ==
  ~doubt /\ (\A r \in Runs : pc[r] # "save") =>
    /\ access = Called(last)
    /\ Derive(hr, last) = "Skip" => access = Called(hr)

(* An event that is needed is dropped as a duplicate of a completed one    *)
(* only where HR's dates give the two one key: a move after a move, a      *)
(* re-hire under the old hire date, or a termination without a date. A     *)
(* re-hire under a new date and a termination with one are always taken    *)
(* for new (payload_builder.py:51, Architecture.md:766).                   *)
NewDatesMakeNewEvents ==
  [][\A r \in Runs :
       pc[r] = "pre" /\ pc'[r] = "idle" /\ rows[key[r]] = "Completed" /\ ~doubt =>
         \/ action[r] = "Mover"
         \/ action[r] = "Joiner" /\ sameDate
         \/ action[r] = "Leaver" /\ rec[r].end = None]_vars

(* A change of HR's record is carried out, or overtaken by the next, or a  *)
(* webhook or run of this very record ended with an error or a status that *)
(* says so, or the last state is in one of the doubts above: nothing is    *)
(* dropped without a trace.                                                *)
ChangeHandled ==
  access # Called(hr) ~> access = Called(hr) \/ dropped \/ doubt
=============================================================================
