----------------------------- MODULE HoldQueue -----------------------------
(***************************************************************************)
(* One record of the hold queue (Hold_queue/queue_manager.py) in the table *)
(* JmlHoldQueue. A pipeline creates it in several saves and may be lost in *)
(* between. Operators read copies of it, and every change is made to the   *)
(* copy first and then saved as a whole, over whatever the row has become. *)
(***************************************************************************)
EXTENDS Naturals

CONSTANTS
  Operators,    \* whoever reviews records and provisions the released ones
  None,         \* no row, no copy
  MaxAttempts,  \* bound: provisioning attempts
  MaxFaults     \* bound: failed saves, lost pipelines

Status == {"Received", "Normalized", "NormalizationFailed", "ValidationFailed",
           "Held", "Approved", "Provisioning", "Provisioned", "Completed", "Failed"}

Record == [status : Status, override : BOOLEAN, attempts : Nat]

ASSUME ConstantsAssumption ==
  /\ None \notin Operators
  /\ None \notin Record
  /\ MaxAttempts \in Nat
  /\ MaxFaults \in Nat

VARIABLES
  row,     \* the row of the record
  made,    \* the creating pipeline's own object
  path,    \* the status that the creator still takes it through
  copy,    \* each operator's object
  faults   \* observed

vars == <<row, made, path, copy, faults>>

(* The kinds of creation: what is left after Received.                     *)
Paths == {"parse", "gate"}

TypeOK ==
  /\ row \in Record \union {None}
  /\ made \in Record \union {None}
  /\ path \in Paths \union {"none", "over", "lost"}
  /\ copy \in [Operators -> Record \union {None}]
  /\ faults \in 0 .. MaxFaults

------------------------------------------------------------------------------
(* VALID_TRANSITIONS.                                                      *)
Valid ==
  { <<"Received", "Normalized">>, <<"Received", "NormalizationFailed">>,
    <<"Normalized", "Held">>, <<"Normalized", "ValidationFailed">>,
    <<"NormalizationFailed", "Held">>, <<"ValidationFailed", "Held">>,
    <<"Held", "Approved">>, <<"Held", "Failed">>,
    <<"Approved", "Provisioning">>,
    <<"Provisioning", "Provisioned">>, <<"Provisioning", "Failed">>,
    <<"Provisioned", "Completed">>, <<"Provisioned", "Failed">>,
    <<"Failed", "Held">> }

NewRecord == [status |-> "Received", override |-> FALSE, attempts |-> 0]

(* Mutant of Route: a record from a gate is left where the gate failed.    *)
RouteToFailure ==
  [parse |-> { <<"Received", "NormalizationFailed">>,
               <<"NormalizationFailed", "Held">> },
   gate |-> { <<"Received", "Normalized">>, <<"Normalized", "ValidationFailed">> }]

(* create_from_*: after a parse or normalization failure, or after a gate. *)
Route ==
  [parse |-> { <<"Received", "NormalizationFailed">>,
               <<"NormalizationFailed", "Held">> },
   gate |-> { <<"Received", "Normalized">>, <<"Normalized", "ValidationFailed">>,
              <<"ValidationFailed", "Held">> }]

Fault ==
  /\ faults < MaxFaults
  /\ faults' = faults + 1

Init ==
  /\ row = None
  /\ made = None
  /\ path = "none"
  /\ copy = [o \in Operators |-> None]
  /\ faults = 0

------------------------------------------------------------------------------
(* The creating pipeline: each status is a save of its own.                *)

Create(kind) ==
  /\ path = "none"
  /\ made' = NewRecord
  /\ row' = NewRecord
  /\ path' = kind
  /\ UNCHANGED <<copy, faults>>

(* It returns once the record is Held.                                     *)
Carry(status) ==
  /\ path \in Paths
  /\ <<made.status, status>> \in Route[path]
  /\ row' = [made EXCEPT !.status = status]
  /\ IF status = "Held"
     THEN made' = None /\ path' = "over"
     ELSE made' = row' /\ UNCHANGED path
  /\ UNCHANGED <<copy, faults>>

(* A save raises, or the host is lost: nothing takes the record further.   *)
CreatorLost ==
  /\ path \in Paths
  /\ Fault
  /\ made' = None
  /\ path' = "lost"
  /\ UNCHANGED <<row, copy>>

------------------------------------------------------------------------------
(* Operators, through the list queries, approve, transition and            *)
(* record_attempt. A change is in the copy before the save, which writes   *)
(* the whole record with REPLACE and no ETag.                              *)

Read(o) ==
  /\ row # None
  /\ copy' = [copy EXCEPT ![o] = row]
  /\ UNCHANGED <<row, made, path, faults>>

Save(o, record) ==
  /\ copy' = [copy EXCEPT ![o] = record]
  /\ row' = record
  /\ UNCHANGED <<made, path, faults>>

(* The save raises: the copy keeps the change that the row has not.        *)
SaveFails(o, record) ==
  /\ Fault
  /\ copy' = [copy EXCEPT ![o] = record]
  /\ UNCHANGED <<row, made, path>>

(* Mutant of May: the status is not looked up in VALID_TRANSITIONS.        *)
MayAlways(record, status) == status # record.status

(* The check of transition, on the copy.                                   *)
May(record, status) == <<record.status, status>> \in Valid

(* A record is released by approve only, as its docstring has it.          *)
Transition(o) ==
  /\ copy[o] # None
  /\ \E status \in Status \ {"Approved"} :
       /\ May(copy[o], status)
       /\ \/ Save(o, [copy[o] EXCEPT !.status = status])
          \/ SaveFails(o, [copy[o] EXCEPT !.status = status])

(* Mutant of Approved: the override is set after the transition's save.    *)
ApprovedFirst(record) == [record EXCEPT !.status = "Approved"]

(* Mutant of Approved: the flag is taken from a caller who gives none.     *)
ApprovedWithNone(record) == [record EXCEPT !.override = None, !.status = "Approved"]

Approved(record) == [record EXCEPT !.override = TRUE, !.status = "Approved"]

Approve(o) ==
  /\ copy[o] # None
  /\ copy[o].status = "Held"
  /\ Save(o, Approved(copy[o])) \/ SaveFails(o, Approved(copy[o]))

Attempted(record) == [record EXCEPT !.attempts = record.attempts + 1]

(* The code counts without a bound; MaxAttempts is the model's.            *)
RecordAttempt(o) ==
  /\ copy[o] # None
  /\ copy[o].attempts < MaxAttempts
  /\ Save(o, Attempted(copy[o])) \/ SaveFails(o, Attempted(copy[o]))

------------------------------------------------------------------------------
Creator == \E status \in Status : Carry(status)

Operator(o) == Read(o) \/ Transition(o) \/ Approve(o) \/ RecordAttempt(o)

Next ==
  \/ \E kind \in Paths : Create(kind)
  \/ Creator
  \/ CreatorLost
  \/ \E o \in Operators : Operator(o)

(* A pipeline that is not lost goes on.                                    *)
Spec == Init /\ [][Next]_vars /\ WF_vars(Creator)

------------------------------------------------------------------------------
Released == {"Approved", "Provisioning", "Provisioned", "Completed"}

(* Whatever operators and the creator save over each other, a record is    *)
(* never seen on its way to the tenant without the override flag that the  *)
(* audit of the exception rests on.                                        *)
ReleasedHasOverride ==
  row # None /\ row.status \in Released => row.override

(* The row leaves the graph of VALID_TRANSITIONS, loses an override or an  *)
(* attempt, only by a save of a copy that is no longer what the row holds: *)
(* one read before another's save, or left changed by a save that failed.  *)
StrictUnlessStale ==
  [][row # None /\ row' # row
       /\ (\A o \in Operators : copy'[o] # copy[o] => copy[o] = row)
       /\ (made' # made => made = row) =>
     /\ row'.status # row.status => <<row.status, row'.status>> \in Valid
     /\ row.override => row'.override
     /\ row.attempts <= row'.attempts]_vars

(* A record that a pipeline has begun is some time Held, where operators   *)
(* find it and may release it, unless the pipeline is lost on the way.     *)
EventuallyHeld ==
  path \in Paths ~> (path = "lost" \/ (row # None /\ row.status = "Held"))
=============================================================================
