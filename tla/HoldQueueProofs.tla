--------------------------- MODULE HoldQueueProofs ---------------------------
(***************************************************************************)
(* Theorems about HoldQueue, for any operators, attempts and faults.       *)
(***************************************************************************)
EXTENDS HoldQueue, TLAPS

(* A record that is on its way to the tenant has its override.             *)
Traced(record) == record.status \in Released => record.override

(* The creator's object is whole until it is Held, and never released.     *)
MadeFits ==
  path \in Paths =>
    made \in Record /\ made.status \notin Released \union {"Held"}

(* Before the creation there is nothing to read.                           *)
NothingBefore ==
  path = "none" => row = None /\ \A o \in Operators : copy[o] = None

AllTraced ==
  /\ row # None => Traced(row)
  /\ \A o \in Operators : copy[o] # None => Traced(copy[o])

Inv == TypeOK /\ MadeFits /\ NothingBefore /\ AllTraced

------------------------------------------------------------------------------
(* What an operation of an operator makes of a copy.                       *)
Changed(old, new) ==
  \/ \E status \in Status \ {"Approved"} :
       May(old, status) /\ new = [old EXCEPT !.status = status]
  \/ old.status = "Held" /\ new = Approved(old)
  \/ old.attempts < MaxAttempts /\ new = Attempted(old)

LEMMA ChangedFits ==
  ASSUME NEW old \in Record, NEW new, Changed(old, new), Traced(old)
  PROVE  /\ new \in Record
         /\ Traced(new)
         /\ new.status # old.status => <<old.status, new.status>> \in Valid
         /\ old.override => new.override
         /\ old.attempts <= new.attempts
  <1> USE ConstantsAssumption DEF Record, Traced, Released
  <1>1. CASE \E status \in Status \ {"Approved"} :
               May(old, status) /\ new = [old EXCEPT !.status = status]
    <2>1. PICK status \in Status \ {"Approved"} :
            May(old, status) /\ new = [old EXCEPT !.status = status]
      BY <1>1
    <2>2. /\ new.status = status /\ new.override = old.override
          /\ new.attempts = old.attempts /\ new \in Record
      BY <2>1
    <2>3. <<old.status, status>> \in Valid
      BY <2>1 DEF May
    <2>4. status \in Released => old.status \in Released
      BY <2>1, <2>3 DEF Valid
    <2>5. Traced(new)
      BY <2>2, <2>4
    <2>6. QED BY <2>2, <2>3, <2>5
  <1>2. CASE old.status = "Held" /\ new = Approved(old)
    <2>1. "Approved" \in Status
      BY DEF Status
    <2>2. /\ new.status = "Approved" /\ new.override = TRUE
          /\ new.attempts = old.attempts /\ new \in Record
      BY <1>2, <2>1 DEF Approved
    <2>3. <<"Held", "Approved">> \in Valid
      BY DEF Valid
    <2>4. QED BY <1>2, <2>2, <2>3
  <1>3. CASE old.attempts < MaxAttempts /\ new = Attempted(old)
    BY <1>3 DEF Attempted
  <1>4. QED BY <1>1, <1>2, <1>3 DEF Changed

(* An operation leaves no copy as it was.                                  *)
LEMMA UnchangedNever ==
  ASSUME NEW old \in Record, NEW new, Changed(old, new)
  PROVE  new # old
  <1>1. \A status \in Status : May(old, status) => status # old.status
    BY DEF May, Valid
  <1>2. ASSUME NEW status \in Status, status # old.status
        PROVE  [old EXCEPT !.status = status] # old
    BY <1>2 DEF Record
  <1>3. old.status = "Held" => Approved(old) # old
    BY DEF Approved, Record
  <1>4. Attempted(old) # old
    BY ConstantsAssumption DEF Attempted, Record
  <1>5. QED BY <1>1, <1>2, <1>3, <1>4 DEF Changed

Works(o) == Transition(o) \/ Approve(o) \/ RecordAttempt(o)

(* A step of an operator saves a changed copy, or fails to.                *)
SavesChange(o) ==
  \E new : Changed(copy[o], new) /\ (Save(o, new) \/ SaveFails(o, new))

LEMMA OperatorChanges ==
  ASSUME TypeOK, NEW o \in Operators, Works(o)
  PROVE  copy[o] \in Record /\ SavesChange(o)
  <1>1. copy[o] \in Record
    BY DEF TypeOK, Works, Transition, Approve, RecordAttempt
  <1>2. CASE Transition(o)
    <2>1. PICK status \in Status \ {"Approved"} :
            /\ May(copy[o], status)
            /\ \/ Save(o, [copy[o] EXCEPT !.status = status])
               \/ SaveFails(o, [copy[o] EXCEPT !.status = status])
      BY <1>2 DEF Transition
    <2>2. Changed(copy[o], [copy[o] EXCEPT !.status = status])
      BY <2>1 DEF Changed
    <2>3. QED BY <1>1, <2>1, <2>2 DEF SavesChange
  <1>3. CASE Approve(o)
    BY <1>1, <1>3 DEF Approve, Changed, SavesChange
  <1>4. CASE RecordAttempt(o)
    BY <1>1, <1>4 DEF RecordAttempt, Changed, SavesChange
  <1>5. QED BY <1>2, <1>3, <1>4 DEF Works

LEMMA RouteFits ==
  ASSUME NEW kind \in Paths, NEW from, NEW to, <<from, to>> \in Route[kind]
  PROVE  /\ to \in Status \ Released
         /\ <<from, to>> \in Valid
  BY DEF Route, Paths, Status, Released, Valid

LEMMA NewFits ==
  NewRecord \in Record /\ NewRecord.status \notin Released \union {"Held"}
  BY ConstantsAssumption DEF NewRecord, Record, Status, Released

(* A save of the creator.                                                  *)
LEMMA CarryFits ==
  ASSUME TypeOK, MadeFits, NEW status \in Status, Carry(status)
  PROVE  /\ row' \in Record /\ Traced(row')
         /\ <<made.status, row'.status>> \in Valid
         /\ row'.override = made.override /\ row'.attempts = made.attempts
         /\ TypeOK' /\ MadeFits' /\ path' # "none"
  <1>1. made \in Record /\ path \in Paths /\ <<made.status, status>> \in Route[path]
    BY DEF Carry, MadeFits
  <1>2. status \in Status \ Released /\ <<made.status, status>> \in Valid
    BY <1>1, RouteFits
  <1>3. /\ row' \in Record /\ row'.status = status
        /\ row'.override = made.override /\ row'.attempts = made.attempts
    BY <1>1 DEF Carry, Record
  <1>4. CASE status = "Held"
    BY <1>2, <1>3, <1>4 DEF Carry, TypeOK, MadeFits, Paths, Traced
  <1>5. CASE status # "Held"
    BY <1>2, <1>3, <1>5 DEF Carry, TypeOK, MadeFits, Paths, Traced
  <1>6. QED BY <1>4, <1>5

------------------------------------------------------------------------------
LEMMA InvInit == Init => Inv
  BY ConstantsAssumption DEF Init, Inv, TypeOK, MadeFits, NothingBefore, AllTraced, Paths

LEMMA InvStep ==
  ASSUME Inv, [Next]_vars
  PROVE  Inv'
  <1> USE DEF Inv
  <1>1. ASSUME NEW kind \in Paths, Create(kind) PROVE Inv'
    <2>1. TypeOK' /\ MadeFits'
      BY <1>1, NewFits DEF Create, TypeOK, MadeFits
    <2>2. Traced(NewRecord) /\ row' = NewRecord /\ UNCHANGED copy
      BY <1>1, NewFits DEF Create, Traced
    <2>3. path' # "none"
      BY <1>1 DEF Create, Paths
    <2>4. QED BY <2>1, <2>2, <2>3 DEF AllTraced, Traced, NothingBefore
  <1>2. ASSUME NEW status \in Status, Carry(status) PROVE Inv'
    <2>1. UNCHANGED copy
      BY <1>2 DEF Carry
    <2>2. QED BY <1>2, <2>1, CarryFits DEF AllTraced, Traced, NothingBefore
  <1>3. CASE CreatorLost
    <2>1. TypeOK' /\ path' = "lost" /\ UNCHANGED <<row, copy>>
      BY <1>3, ConstantsAssumption DEF CreatorLost, Fault, TypeOK
    <2>2. QED BY <2>1 DEF MadeFits, AllTraced, Traced, NothingBefore, Paths
  <1>4. ASSUME NEW o \in Operators, Read(o) PROVE Inv'
    <2>1. \A q \in Operators : copy'[q] \in {copy[q], row}
      BY <1>4 DEF Read, TypeOK
    <2>2. TypeOK' /\ MadeFits' /\ NothingBefore'
      BY <1>4 DEF Read, TypeOK, MadeFits, NothingBefore
    <2>3. QED BY <1>4, <2>1, <2>2 DEF Read, AllTraced, Traced
  <1>5. ASSUME NEW o \in Operators, Works(o)
        PROVE  Inv'
    <2>1. copy[o] \in Record /\ SavesChange(o)
      BY <1>5, OperatorChanges
    <2>2. PICK new : Changed(copy[o], new) /\ (Save(o, new) \/ SaveFails(o, new))
      BY <2>1 DEF SavesChange
    <2>3. copy[o] # None /\ Traced(copy[o])
      BY <2>1, ConstantsAssumption DEF AllTraced
    <2>4. new \in Record /\ Traced(new)
      BY <2>1, <2>2, <2>3, ChangedFits
    <2>5. /\ UNCHANGED <<made, path>>
          /\ row' \in {row, new}
          /\ copy' = [copy EXCEPT ![o] = new]
          /\ (faults' = faults \/ Fault)
      BY <2>2 DEF Save, SaveFails
    <2>6. faults' \in 0 .. MaxFaults
      BY <2>5, ConstantsAssumption DEF Fault, TypeOK
    <2>7. TypeOK' /\ MadeFits' /\ NothingBefore'
      BY <2>3, <2>4, <2>5, <2>6 DEF TypeOK, MadeFits, NothingBefore
    <2>8. \A q \in Operators : copy'[q] \in {copy[q], new}
      BY <2>5 DEF TypeOK
    <2>9. AllTraced'
      BY <2>4, <2>5, <2>8 DEF AllTraced, Traced
    <2>10. QED BY <2>7, <2>9
  <1>6. CASE UNCHANGED vars
    BY <1>6 DEF vars, TypeOK, MadeFits, NothingBefore, AllTraced, Traced
  <1>7. QED
    BY <1>1, <1>2, <1>3, <1>4, <1>5, <1>6 DEF Next, Creator, Operator, Works

LEMMA InvAlways == Spec => []Inv
  <1>1. QED BY InvInit, InvStep, PTL DEF Spec

------------------------------------------------------------------------------
(* Every variable keeps its type.                                          *)
THEOREM TypeCorrect == Spec => []TypeOK
  <1>1. Inv => TypeOK BY DEF Inv
  <1>2. QED BY <1>1, InvAlways, PTL

(* No interleaving of stale saves shows a released record without its      *)
(* override.                                                               *)
THEOREM OverrideKept == Spec => []ReleasedHasOverride
  <1>1. Inv => ReleasedHasOverride
    BY DEF Inv, AllTraced, Traced, ReleasedHasOverride
  <1>2. QED BY <1>1, InvAlways, PTL

(* Only a save of a copy that is not current leaves the graph.             *)
THEOREM Strict == Spec => StrictUnlessStale
  <1> DEFINE Current ==
        /\ row # None /\ row' # row
        /\ (\A o \in Operators : copy'[o] # copy[o] => copy[o] = row)
        /\ (made' # made => made = row)
      Kept ==
        /\ row'.status # row.status => <<row.status, row'.status>> \in Valid
        /\ row.override => row'.override
        /\ row.attempts <= row'.attempts
  <1>1. ASSUME Inv, Next, Current PROVE Kept
    <2>1. ASSUME NEW kind \in Paths, Create(kind) PROVE Kept
      BY <1>1, <2>1 DEF Create, Inv, NothingBefore
    <2>2. ASSUME NEW status \in Status, Carry(status) PROVE Kept
      <3>1. made \in Record /\ made = row
        <4>1. made \in Record /\ <<made.status, status>> \in Route[path] /\ path \in Paths
          BY <1>1, <2>2 DEF Carry, Inv, MadeFits
        <4>2. CASE status = "Held"
          BY <1>1, <2>2, <4>1, <4>2, ConstantsAssumption DEF Carry
        <4>3. CASE status # "Held"
          <5>1. made' = [made EXCEPT !.status = status]
            BY <2>2, <4>3 DEF Carry
          <5>2. made.status # status
            BY <4>1 DEF Route, Paths
          <5>3. made' # made
            BY <4>1, <5>1, <5>2 DEF Record
          <5>4. QED BY <1>1, <4>1, <5>3
        <4>4. QED BY <4>2, <4>3
      <3>2. QED BY <1>1, <2>2, <3>1, CarryFits DEF Inv, Record
    <2>3. ASSUME NEW o \in Operators, Works(o)
          PROVE  Kept
      <3>1. copy[o] \in Record /\ SavesChange(o)
        BY <1>1, <2>3, OperatorChanges DEF Inv
      <3>2. PICK new : Changed(copy[o], new) /\ (Save(o, new) \/ SaveFails(o, new))
        BY <3>1 DEF SavesChange
      <3>3. row' = new /\ copy'[o] = new
        BY <1>1, <3>2 DEF Save, SaveFails, Inv, TypeOK
      <3>4. Traced(copy[o])
        BY <1>1, <3>1, ConstantsAssumption DEF Inv, AllTraced
      <3>5. /\ new.status # copy[o].status => <<copy[o].status, new.status>> \in Valid
            /\ copy[o].override => new.override
            /\ copy[o].attempts <= new.attempts
        BY <3>1, <3>2, <3>4, ChangedFits
      <3>6. copy[o] = row
        BY <1>1, <3>1, <3>2, <3>3, UnchangedNever
      <3>7. QED BY <3>3, <3>5, <3>6
    <2>4. ASSUME NEW o \in Operators, Read(o) PROVE Kept
      BY <1>1, <2>4 DEF Read
    <2>5. CASE CreatorLost
      BY <1>1, <2>5 DEF CreatorLost
    <2>6. QED BY <1>1, <2>1, <2>2, <2>3, <2>4, <2>5
             DEF Next, Creator, Operator, Works
  <1>2. QED BY <1>1, InvAlways, PTL DEF Spec, StrictUnlessStale
=============================================================================
