--------------------------- MODULE LastStateProofs ---------------------------
(***************************************************************************)
(* Theorems about LastState, for any roles, webhooks, days and faults.     *)
(***************************************************************************)
EXTENDS LastState, TLAPS

(* A run that is not by itself leaves the last state in doubt, and one     *)
(* that is has no other beside it.                                         *)
AloneOrInDoubt ==
  \A r \in Runs : pc[r] # "idle" =>
    /\ alone[r] => \A q \in Runs \ {r} : pc[q] = "idle"
    /\ ~alone[r] => doubt

(* Without doubt a run about to save has succeeded, and what it did is     *)
(* still there.                                                            *)
DoneIsThere ==
  ~doubt => \A r \in Runs : pc[r] = "save" => ok[r] /\ access = Wanted(r)

(* Without doubt a Joiner finds nothing that it would leave.               *)
JoinerFindsNothing ==
  ~doubt => \A r \in Runs : pc[r] \in {"pre", "work"} /\ action[r] = "Joiner" => access = {}

(* Without doubt no request is open that could change the access.          *)
NothingLate == late # {} => doubt

OnlySavingOk == \A r \in Runs : ok[r] => pc[r] = "save"

(* The last state says what was done.                                      *)
LastIsDone ==
  ~doubt /\ (\A r \in Runs : pc[r] # "save") => access = Called(last)

(* Only records of an employee at work start a Joiner or a Mover.          *)
ActionFits ==
  \A r \in Runs : pc[r] \in {"pre", "work", "save"} =>
    (action[r] = "Leaver" <=> rec[r].status = "Inactive")

Inv ==
  /\ TypeOK /\ AloneOrInDoubt /\ OnlySavingOk /\ ActionFits
  /\ DoneIsThere /\ JoinerFindsNothing /\ NothingLate /\ LastIsDone

------------------------------------------------------------------------------
LEMMA KeyInKeys ==
  ASSUME NEW a \in Actions, NEW record \in Record
  PROVE  Key(a, record) \in Keys
  BY DEF Key, Keys, Record

LEMMA DeriveRange ==
  ASSUME NEW record \in Record, NEW prior, Derive(record, prior) # "Skip"
  PROVE  /\ Derive(record, prior) \in Actions
         /\ Derive(record, prior) = "Leaver" <=> record.status = "Inactive"
  BY DEF Derive, Actions

LEMMA RecordTyped ==
  ASSUME TypeOK, NEW r \in Runs, pc[r] # "idle"
  PROVE  rec[r] \in Record /\ rec[r].status \in Status /\ rec[r].role \in Roles
  BY DEF TypeOK, Record

------------------------------------------------------------------------------
LEMMA TypeInit == Init => TypeOK
  <1> SUFFICES ASSUME Init PROVE TypeOK
    OBVIOUS
  <1>1. hr \in Record
    BY ConstantsAssumption DEF Init, Record, Status
  <1>2. rows \in [Keys -> {"free", "open", "Completed"}]
    BY DEF Init
  <1>3. pc \in [Runs -> PC] /\ \A r \in Runs : pc[r] = "idle"
    BY DEF Init, PC
  <1>4. /\ rec \in [Runs -> Record \union {None}]
        /\ action \in [Runs -> Actions \union {None}]
        /\ key \in [Runs -> Keys \union {None}]
    BY DEF Init
  <1>5. today \in 1 .. Days /\ extra \in 0 .. MaxExtra /\ faults \in 0 .. MaxFaults
    BY ConstantsAssumption DEF Init
  <1>6. ok \in [Runs -> BOOLEAN] /\ alone \in [Runs -> BOOLEAN]
    BY DEF Init
  <1>7. QED
    BY <1>1, <1>2, <1>3, <1>4, <1>5, <1>6 DEF Init, TypeOK

LEMMA HrTyped ==
  ASSUME TypeOK, Move \/ Terminate \/ Rehire
  PROVE  hr' \in Record /\ today' \in 1 .. Days
  <1> USE ConstantsAssumption DEF TypeOK, Record, Status, HrWrites
  <1>1. CASE Move BY <1>1 DEF Move
  <1>2. CASE Terminate
    <2>1. PICK date \in {today + 1, None} :
            HrWrites([hr EXCEPT !.status = "Inactive", !.end = date])
      BY <1>2 DEF Terminate
    <2>2. date \in (1 .. Days) \union {None} /\ today' \in 1 .. Days
      BY <2>1
    <2>3. hr' = [hr EXCEPT !.status = "Inactive", !.end = date]
      BY <2>1
    <2>4. QED BY <2>2, <2>3
  <1>3. CASE Rehire
    <2>1. PICK date \in {today + 1, hr.start}, role \in Roles :
            HrWrites([status |-> "Active", role |-> role, start |-> date, end |-> None])
      BY <1>3 DEF Rehire
    <2>2. date \in 1 .. Days /\ today' \in 1 .. Days
      BY <2>1
    <2>3. hr' = [status |-> "Active", role |-> role, start |-> date, end |-> None]
      BY <2>1
    <2>4. QED BY <2>2, <2>3
  <1>4. QED BY <1>1, <1>2, <1>3

LEMMA EndTyped ==
  ASSUME TypeOK, NEW r \in Runs, End(r)
  PROVE  /\ pc' \in [Runs -> PC]
         /\ rec' \in [Runs -> Record \union {None}]
         /\ action' \in [Runs -> Actions \union {None}]
         /\ key' \in [Runs -> Keys \union {None}]
         /\ ok' \in [Runs -> BOOLEAN] /\ alone' \in [Runs -> BOOLEAN]
         /\ \A q \in Runs : pc'[q] # "idle" => rec'[q] \in Record
         /\ \A q \in Runs : pc'[q] \in {"pre", "work", "save"} =>
              action'[q] \in Actions /\ key'[q] \in Keys
  <1> USE DEF TypeOK, End, Goto
  <1>1. "idle" \in PC BY DEF PC
  <1>2. pc' \in [Runs -> PC] /\ pc'[r] = "idle" /\ \A q \in Runs \ {r} : pc'[q] = pc[q]
    BY <1>1
  <1>3. /\ rec' \in [Runs -> Record \union {None}]
        /\ \A q \in Runs \ {r} : rec'[q] = rec[q]
    OBVIOUS
  <1>4. /\ action' \in [Runs -> Actions \union {None}]
        /\ key' \in [Runs -> Keys \union {None}]
        /\ \A q \in Runs \ {r} : action'[q] = action[q] /\ key'[q] = key[q]
    OBVIOUS
  <1>5. ok' \in [Runs -> BOOLEAN] /\ alone' \in [Runs -> BOOLEAN]
    OBVIOUS
  <1>6. QED BY <1>2, <1>3, <1>4, <1>5

LEMMA RowTyped ==
  ASSUME TypeOK, NEW r \in Runs, NEW s \in {"free", "open", "Completed"}, SetRow(r, s)
  PROVE  rows' \in [Keys -> {"free", "open", "Completed"}]
  BY DEF TypeOK, SetRow

LEMMA GotoTyped ==
  ASSUME TypeOK, NEW r \in Runs, NEW s \in PC, Goto(r, s)
  PROVE  pc' \in [Runs -> PC] /\ pc'[r] = s /\ \A q \in Runs \ {r} : pc'[q] = pc[q]
  BY DEF TypeOK, Goto

LEMMA EntraTyped ==
  ASSUME TypeOK, NEW r \in Runs, pc[r] = "work",
         \/ Halfway(r)
         \/ Some(r) /\ account' = HasAccount(r) /\ UNCHANGED late
         \/ \E hidden \in SUBSET Hideable(r) : Whole(r, hidden)
  PROVE  /\ account' \in BOOLEAN
         /\ access' \in SUBSET Packages /\ lapsed' \in SUBSET Packages
         /\ late' \in SUBSET Packages
  <1>1. Wanted(r) \subseteq Packages /\ Unwanted(r) \subseteq Packages /\ HasAccount(r) \in BOOLEAN
    BY RecordTyped, ConstantsAssumption DEF Wanted, Unwanted, HasAccount, TypeOK
  <1>2. CASE Some(r) /\ account' = HasAccount(r) /\ UNCHANGED late
    BY <1>1, <1>2 DEF Some, TypeOK
  <1>3. CASE Halfway(r)
    <2>1. access' \in SUBSET Packages /\ lapsed' \in SUBSET Packages
      BY <1>1, <1>3 DEF Halfway, Some, TypeOK
    <2>2. late' \in SUBSET Packages
      BY <1>1, <1>3 DEF Halfway, TypeOK
    <2>3. account' \in BOOLEAN
      BY <1>1, <1>3 DEF Halfway, TypeOK
    <2>4. QED BY <2>1, <2>2, <2>3
  <1>4. ASSUME NEW hidden \in SUBSET Hideable(r), Whole(r, hidden)
        PROVE  /\ account' \in BOOLEAN
               /\ access' \in SUBSET Packages /\ lapsed' \in SUBSET Packages
               /\ late' \in SUBSET Packages
    <2>1. hidden \subseteq Packages
      BY <1>1 DEF Hideable
    <2>2. QED BY <1>1, <1>4, <2>1 DEF Whole, TypeOK
  <1>5. QED BY <1>2, <1>3, <1>4

LEMMA FaultTyped ==
  ASSUME TypeOK, Fault
  PROVE  faults' \in 0 .. MaxFaults
  BY ConstantsAssumption DEF TypeOK, Fault

(* The steps that end a run.                                               *)
LEMMA EndStep ==
  ASSUME TypeOK, NEW r \in Runs,
         \/ Skip(r) \/ DispatchFails(r) \/ Duplicate(r) \/ TurnedAway(r) \/ Held(r)
         \/ FailEarly(r) \/ Die(r) \/ Save(r) \/ SaveFails(r)
  PROVE  TypeOK'
  <1>1. CASE Skip(r)
    BY <1>1, EndTyped DEF Skip, TypeOK, env, store, entra
  <1>2. CASE DispatchFails(r)
    BY <1>2, EndTyped, FaultTyped DEF DispatchFails, Drop, TypeOK, env, store, entra
  <1>3. CASE Duplicate(r) \/ Held(r)
    BY <1>3, EndTyped DEF Duplicate, Held, Exit, Drop, TypeOK, env, entra
  <1>4. CASE TurnedAway(r)
    BY <1>4, EndTyped, RowTyped DEF TurnedAway, Exit, Drop, TypeOK, env, entra
  <1>5. CASE FailEarly(r)
    BY <1>5, EndTyped, RowTyped, EntraTyped DEF FailEarly, Drop, InDoubtIfChanged, TypeOK, env
  <1>6. CASE Die(r)
    BY <1>6, EndTyped, FaultTyped, EntraTyped DEF Die, Drop, InDoubtIfChanged, TypeOK, env
  <1>7. CASE Save(r)
    <2>1. Saved(r) \in [status : Status, role : Roles]
      BY <1>7, RecordTyped DEF Save, Saved, Status
    <2>2. dropped' \in BOOLEAN
      BY <1>7 DEF Save, Drop, TypeOK
    <2>3. QED BY <1>7, <2>1, <2>2, EndTyped DEF Save, TypeOK, env, entra
  <1>8. CASE SaveFails(r)
    <2>1. dropped' \in BOOLEAN
      BY <1>8 DEF SaveFails, Drop, TypeOK
    <2>2. QED BY <1>8, <2>1, EndTyped, FaultTyped DEF SaveFails, TypeOK, env, store, entra
  <1>9. QED BY <1>1, <1>2, <1>3, <1>4, <1>5, <1>6, <1>7, <1>8

LEMMA TypeStep ==
  ASSUME TypeOK, [Next]_vars
  PROVE  TypeOK'
  <1>1. CASE Move \/ Terminate \/ Rehire
    <2>1. sameDate' \in BOOLEAN
      BY <1>1 DEF Move, Terminate, Rehire, TypeOK
    <2>2. /\ due' = TRUE /\ dropped' = FALSE
          /\ UNCHANGED <<last, rows, account, access, lapsed, late, pc, rec, action, key, ok, alone, doubt,
                         extra, faults>>
      BY <1>1 DEF Move, Terminate, Rehire, HrWrites, store, entra, run
    <2>3. QED BY <2>1, <2>2, <1>1, HrTyped DEF TypeOK
  <1>2. ASSUME NEW r \in Runs, Fetch(r) PROVE TypeOK'
    <2>0. "fetched" \in PC BY DEF PC
    <2>1. pc' \in [Runs -> PC] /\ pc'[r] = "fetched" /\ \A q \in Runs \ {r} : pc'[q] = pc[q]
      BY <1>2, <2>0, GotoTyped DEF Fetch
    <2>2. rec' \in [Runs -> Record \union {None}] /\ rec'[r] \in Record
          /\ \A q \in Runs \ {r} : rec'[q] = rec[q]
      BY <1>2 DEF Fetch, TypeOK
    <2>3. alone' \in [Runs -> BOOLEAN] /\ doubt' \in BOOLEAN
      BY <1>2 DEF Fetch, TypeOK
    <2>4. extra' \in 0 .. MaxExtra
      BY <1>2, ConstantsAssumption DEF Fetch, TypeOK
    <2>5. QED BY <1>2, <2>1, <2>2, <2>3, <2>4 DEF Fetch, TypeOK, store, entra
  <1>3. ASSUME NEW r \in Runs, FetchFails(r) PROVE TypeOK'
    BY <1>3, FaultTyped DEF FetchFails, TypeOK, env, store, entra, run
  <1>4. ASSUME NEW r \in Runs, Dispatch(r) PROVE TypeOK'
    <2>0. "pre" \in PC BY DEF PC
    <2> DEFINE a == Derive(rec[r], last)
    <2>1. a \in Actions /\ Key(a, rec[r]) \in Keys
      BY <1>4, RecordTyped, DeriveRange, KeyInKeys DEF Dispatch
    <2>2. pc' \in [Runs -> PC] /\ pc'[r] = "pre" /\ \A q \in Runs \ {r} : pc'[q] = pc[q]
      BY <1>4, <2>0, GotoTyped DEF Dispatch
    <2> HIDE DEF a
    <2>3. /\ action' = [action EXCEPT ![r] = a]
          /\ key' = [key EXCEPT ![r] = Key(a, rec[r])]
      BY <1>4 DEF Dispatch, a
    <2>4. /\ action' \in [Runs -> Actions \union {None}] /\ action'[r] \in Actions
          /\ key' \in [Runs -> Keys \union {None}] /\ key'[r] \in Keys
          /\ \A q \in Runs \ {r} : action'[q] = action[q] /\ key'[q] = key[q]
      BY <2>1, <2>3 DEF TypeOK
    <2>5. rec[r] \in Record BY <1>4, RecordTyped DEF Dispatch
    <2>6. QED BY <1>4, <2>2, <2>4, <2>5 DEF Dispatch, TypeOK, env, store, entra
  <1>5. ASSUME NEW r \in Runs, Proceed(r) \/ Succeed(r) \/ Fail(r) PROVE TypeOK'
    <2>0. "work" \in PC /\ "save" \in PC BY DEF PC
    <2>1. pc[r] \in {"pre", "work"} /\ rec[r] \in Record /\ rec[r].role \in Roles
          /\ action[r] \in Actions /\ key[r] \in Keys
      BY <1>5, RecordTyped DEF Proceed, Succeed, Fail, TypeOK
    <2>2. pc' \in [Runs -> PC] /\ \A q \in Runs \ {r} : pc'[q] = pc[q]
      BY <1>5, <2>0, GotoTyped DEF Proceed, Succeed, Fail
    <2>3. rows' \in [Keys -> {"free", "open", "Completed"}]
      BY <1>5, RowTyped DEF Proceed, Succeed, Fail
    <2>4. /\ account' \in BOOLEAN
          /\ access' \in SUBSET Packages /\ lapsed' \in SUBSET Packages
          /\ late' \in SUBSET Packages
      <3>1. CASE Proceed(r) BY <3>1 DEF Proceed, entra, TypeOK
      <3>2. CASE Succeed(r)
        BY <3>2, EntraTyped DEF Succeed
      <3>3. CASE Fail(r)
        BY <3>3, EntraTyped DEF Fail
      <3>4. QED BY <1>5, <3>1, <3>2, <3>3
    <2>5. ok' \in [Runs -> BOOLEAN] /\ doubt' \in BOOLEAN
      BY <1>5 DEF Proceed, Succeed, Fail, TypeOK
    <2>6. UNCHANGED <<hr, today, extra, due, last, rec, action, key, alone, dropped, sameDate, faults>>
      BY <1>5 DEF Proceed, Succeed, Fail, env
    <2>7. QED BY <2>1, <2>2, <2>3, <2>4, <2>5, <2>6 DEF TypeOK
  <1>6. ASSUME NEW r \in Runs, DeleteUser(r) PROVE TypeOK'
    BY <1>6 DEF DeleteUser, InDoubtIfChanged, TypeOK, env, run
  <1>7. ASSUME NEW p \in Packages, Late(p) PROVE TypeOK'
    BY <1>7 DEF Late, TypeOK, env, run
  <1>8. CASE UNCHANGED vars
    BY <1>8 DEF vars, env, store, entra, run, TypeOK
  <1>9. QED
    BY <1>1, <1>2, <1>3, <1>4, <1>5, <1>6, <1>7, <1>8, EndStep
       DEF Next, Webhook, Orchestration, Failure

(* Every variable keeps its type; above all, no event is keyed by a date   *)
(* it does not have.                                                       *)
THEOREM TypeCorrect == Spec => []TypeOK
  BY TypeInit, TypeStep, PTL DEF Spec

------------------------------------------------------------------------------
LEMMA InvInit == Init => Inv
  BY TypeInit
     DEF Init, Inv, AloneOrInDoubt, OnlySavingOk, ActionFits, DoneIsThere, JoinerFindsNothing,
         NothingLate, LastIsDone, Called

LEMMA Ended ==
  ASSUME TypeOK, NEW r \in Runs, End(r)
  PROVE  /\ pc'[r] = "idle" /\ ~ok'[r] /\ ~alone'[r]
         /\ \A q \in Runs \ {r} :
              /\ pc'[q] = pc[q] /\ rec'[q] = rec[q] /\ action'[q] = action[q]
              /\ ok'[q] = ok[q] /\ alone'[q] = alone[q]
  BY DEF TypeOK, End, Goto

LEMMA AloneStep ==
  ASSUME Inv, [Next]_vars
  PROVE  AloneOrInDoubt' /\ OnlySavingOk' /\ ActionFits'
  <1> USE DEF Inv, AloneOrInDoubt, OnlySavingOk, ActionFits
  <1>1. CASE Move \/ Terminate \/ Rehire
    BY <1>1 DEF Move, Terminate, Rehire, HrWrites, run
  <1>2. ASSUME NEW r \in Runs, Fetch(r) PROVE AloneOrInDoubt' /\ OnlySavingOk' /\ ActionFits'
    <2>1. pc' = [pc EXCEPT ![r] = "fetched"] /\ rec' = [rec EXCEPT ![r] = hr]
          /\ UNCHANGED <<action, ok>>
      BY <1>2 DEF Fetch, Goto
    <2>2. CASE Busy(r)
      BY <1>2, <2>1, <2>2 DEF Fetch, TypeOK
    <2>3. CASE ~Busy(r)
      BY <1>2, <2>1, <2>3 DEF Fetch, Busy, TypeOK
    <2>4. QED BY <2>2, <2>3
  <1>3. ASSUME NEW r \in Runs, FetchFails(r) PROVE AloneOrInDoubt' /\ OnlySavingOk' /\ ActionFits'
    BY <1>3 DEF FetchFails, run
  <1>4. ASSUME NEW r \in Runs, Dispatch(r) PROVE AloneOrInDoubt' /\ OnlySavingOk' /\ ActionFits'
    <2>1. Derive(rec[r], last) = "Leaver" <=> rec[r].status = "Inactive"
      BY <1>4, RecordTyped, DeriveRange DEF Dispatch
    <2>2. /\ pc' = [pc EXCEPT ![r] = "pre"]
          /\ action' = [action EXCEPT ![r] = Derive(rec[r], last)]
          /\ pc[r] = "fetched" /\ UNCHANGED <<rec, ok, alone, doubt>>
      BY <1>4 DEF Dispatch, Goto
    <2>3. QED BY <2>1, <2>2 DEF TypeOK
  <1>5. ASSUME NEW r \in Runs, Proceed(r) \/ Succeed(r) \/ Fail(r)
        PROVE  AloneOrInDoubt' /\ OnlySavingOk' /\ ActionFits'
    BY <1>5 DEF Proceed, Succeed, Settles, Fail, Goto, TypeOK
  <1>6. ASSUME NEW r \in Runs,
               \/ Skip(r) \/ DispatchFails(r) \/ Duplicate(r) \/ TurnedAway(r) \/ Held(r)
               \/ FailEarly(r) \/ Die(r) \/ Save(r) \/ SaveFails(r)
        PROVE  AloneOrInDoubt' /\ OnlySavingOk' /\ ActionFits'
    <2>1. End(r) /\ pc[r] # "idle"
      BY <1>6 DEF Skip, DispatchFails, Duplicate, TurnedAway, Held, Exit, FailEarly, Die, Save, SaveFails
    <2>2. doubt' = doubt \/ doubt' \/ alone[r]
      BY <1>6 DEF Skip, DispatchFails, Duplicate, TurnedAway, Held, Exit, FailEarly, Die, Save,
                  SaveFails, InDoubtIfChanged, TypeOK
    <2>3. QED BY <2>1, <2>2, Ended
  <1>7. ASSUME NEW r \in Runs, DeleteUser(r) PROVE AloneOrInDoubt' /\ OnlySavingOk' /\ ActionFits'
    BY <1>7 DEF DeleteUser, InDoubtIfChanged, run
  <1>8. ASSUME NEW p \in Packages, Late(p) PROVE AloneOrInDoubt' /\ OnlySavingOk' /\ ActionFits'
    BY <1>8 DEF Late, run
  <1>9. CASE UNCHANGED vars
    BY <1>9 DEF vars, run
  <1>10. QED
    BY <1>1, <1>2, <1>3, <1>4, <1>5, <1>6, <1>7, <1>8, <1>9
       DEF Next, Webhook, Orchestration, Failure

(* Without doubt a run that is at work is by itself.                       *)
LEMMA ByItself ==
  ASSUME AloneOrInDoubt, ~doubt, NEW r \in Runs, pc[r] # "idle"
  PROVE  alone[r] /\ \A q \in Runs \ {r} : pc[q] = "idle"
  BY DEF AloneOrInDoubt

(* What a run that succeeds without leaving a doubt did.                   *)
LEMMA SucceedStep ==
  ASSUME Inv, NEW r \in Runs, Succeed(r), ~doubt'
  PROVE  alone[r] /\ late = {} /\ UNCHANGED late /\ access' = Wanted(r)
  <1>1. alone[r]
    <2>1. pc[r] = "work" BY DEF Succeed
    <2>2. CASE ~alone[r]
      BY <2>1, <2>2 DEF Succeed, Inv, AloneOrInDoubt
    <2>3. QED BY <2>2 DEF Inv, TypeOK
  <1>2. PICK hidden \in SUBSET Hideable(r) :
          Whole(r, hidden) /\ doubt' = (hidden # {} \/ (doubt /\ ~Settles(r)))
    BY <1>1 DEF Succeed
  <1>3. hidden = {}
    BY <1>2
  <1>4. late = {} /\ (action[r] = "Joiner" => access = {})
    BY <1>2 DEF Settles, Succeed, Inv, NothingLate, JoinerFindsNothing
  <1>5. QED BY <1>1, <1>2, <1>3, <1>4 DEF Whole

LEMMA DoneStep ==
  ASSUME Inv, [Next]_vars
  PROVE  (DoneIsThere /\ JoinerFindsNothing /\ NothingLate /\ LastIsDone)'
  <1> DEFINE Good == DoneIsThere /\ JoinerFindsNothing /\ NothingLate /\ LastIsDone
  <1> USE DEF Inv, DoneIsThere, JoinerFindsNothing, NothingLate, LastIsDone, Wanted
  <1>1. CASE Move \/ Terminate \/ Rehire
    BY <1>1 DEF Move, Terminate, Rehire, HrWrites, run, store, entra
  <1>2. ASSUME NEW r \in Runs, Fetch(r) PROVE Good'
    <2>1. pc' = [pc EXCEPT ![r] = "fetched"] /\ rec' = [rec EXCEPT ![r] = hr] /\ pc[r] = "idle"
          /\ UNCHANGED <<action, ok, access, late, last>>
      BY <1>2 DEF Fetch, Goto, store, entra
    <2>2. doubt' = doubt \/ doubt'
      BY <1>2 DEF Fetch, TypeOK
    <2>3. QED BY <2>1, <2>2 DEF TypeOK
  <1>3. ASSUME NEW r \in Runs, FetchFails(r) PROVE Good'
    BY <1>3 DEF FetchFails, run, store, entra
  <1>4. ASSUME NEW r \in Runs, Dispatch(r) PROVE Good'
    <2>1. /\ pc[r] = "fetched" /\ pc' = [pc EXCEPT ![r] = "pre"]
          /\ action' = [action EXCEPT ![r] = Derive(rec[r], last)]
          /\ UNCHANGED <<rec, ok, access, late, last, doubt>>
      BY <1>4 DEF Dispatch, Goto, store, entra
    <2>2. ~doubt => \A q \in Runs \ {r} : pc[q] = "idle"
      BY <2>1, ByItself
    <2>3. ~doubt => access = Called(last)
      BY <2>1, <2>2
    <2>4. Derive(rec[r], last) = "Joiner" => Called(last) = {}
      <3>1. last # None => last.status \in Status
        BY DEF TypeOK
      <3>2. QED BY <3>1 DEF Derive, Called, Status
    <2>5. QED BY <2>1, <2>2, <2>3, <2>4 DEF TypeOK
  <1>5. ASSUME NEW r \in Runs, Proceed(r) PROVE Good'
    BY <1>5 DEF Proceed, Goto, entra, TypeOK
  <1>6. ASSUME NEW r \in Runs, Succeed(r) PROVE Good'
    <2>1. /\ pc' = [pc EXCEPT ![r] = "save"] /\ ok' = [ok EXCEPT ![r] = TRUE]
          /\ pc[r] = "work" /\ UNCHANGED <<last, rec, action, late>>
      BY <1>6 DEF Succeed, Goto, Whole
    <2>2. ~doubt' => access' = Wanted(r) /\ alone[r] /\ late = {}
      BY <1>6, SucceedStep
    <2>3. alone[r] => \A q \in Runs \ {r} : pc[q] = "idle"
      BY <2>1 DEF AloneOrInDoubt
    <2>4. pc'[r] = "save" /\ ok'[r]
      BY <2>1 DEF TypeOK
    <2>5. \A q \in Runs \ {r} : pc'[q] = pc[q]
      BY <2>1 DEF TypeOK
    <2>6. QED BY <2>1, <2>2, <2>3, <2>4, <2>5
  <1>7. ASSUME NEW r \in Runs, Fail(r) PROVE Good'
    BY <1>7 DEF Fail
  <1>8. ASSUME NEW r \in Runs, Skip(r) \/ DispatchFails(r) \/ Duplicate(r) \/ TurnedAway(r) \/ Held(r)
        PROVE  Good'
    <2>1. End(r) /\ pc[r] # "save" /\ UNCHANGED <<last, access, late, doubt>>
      BY <1>8 DEF Skip, DispatchFails, Duplicate, TurnedAway, Held, Exit, store, entra
    <2>2. QED BY <2>1, Ended
  <1>9. ASSUME NEW r \in Runs, FailEarly(r) \/ Die(r) PROVE Good'
    <2>1. /\ End(r) /\ pc[r] = "work" /\ UNCHANGED last
          /\ ~doubt' => ~doubt /\ UNCHANGED <<access, late>>
      BY <1>9 DEF FailEarly, Die, InDoubtIfChanged
    <2>2. QED BY <2>1, Ended
  <1>10. ASSUME NEW r \in Runs, Save(r) PROVE Good'
    <2>1. End(r) /\ pc[r] = "save" /\ last' = Saved(r) /\ UNCHANGED <<access, late, doubt>>
      BY <1>10 DEF Save, entra
    <2>2. ~doubt => \A q \in Runs \ {r} : pc[q] = "idle"
      BY <2>1, ByItself
    <2>3. Called(Saved(r)) = Wanted(r)
      <3>1. /\ rec[r].status \in Status
            /\ action[r] = "Leaver" <=> rec[r].status = "Inactive"
        BY <2>1, RecordTyped DEF ActionFits
      <3>2. Saved(r) # None
        <4>1. Saved(r) \in [status : Status, role : Roles]
          BY <2>1, RecordTyped DEF Saved, Status
        <4>2. QED BY <4>1, ConstantsAssumption
      <3>3. QED BY <3>1, <3>2 DEF Called, Saved, Status
    <2>4. QED BY <2>1, <2>2, <2>3, Ended
  <1>11. ASSUME NEW r \in Runs, SaveFails(r) PROVE Good'
    BY <1>11 DEF SaveFails
  <1>12. ASSUME NEW r \in Runs, DeleteUser(r) PROVE Good'
    BY <1>12 DEF DeleteUser, InDoubtIfChanged, run
  <1>13. ASSUME NEW p \in Packages, Late(p) PROVE Good'
    BY <1>13 DEF Late
  <1>14. CASE UNCHANGED vars
    BY <1>14 DEF vars, run, store, entra
  <1>15. QED
    BY <1>1, <1>2, <1>3, <1>4, <1>5, <1>6, <1>7, <1>8, <1>9, <1>10, <1>11, <1>12, <1>13, <1>14
       DEF Next, Webhook, Orchestration, Failure

LEMMA InvAlways == Spec => []Inv
  <1>1. Inv /\ [Next]_vars => Inv'
    <2> SUFFICES ASSUME Inv, [Next]_vars PROVE Inv'
      OBVIOUS
    <2>1. TypeOK' BY TypeStep DEF Inv
    <2>2. QED BY <2>1, AloneStep, DoneStep DEF Inv
  <1>2. QED BY <1>1, InvInit, PTL DEF Spec

(* Unless it is in one of its doubts, the last state stands for the access *)
(* there is, and the next webhook skips nothing that is still open. No     *)
(* doubt ends but by a run that leaves exactly what it was called for: a   *)
(* Joiner, which leaves what it finds, ends none, and begins without doubt *)
(* only where there is nothing to find.                                    *)
THEOREM Derives == Spec => []DerivesWhatIsNeeded
  <1>1. Inv => DerivesWhatIsNeeded
    <2> SUFFICES ASSUME Inv, ~doubt, \A r \in Runs : pc[r] # "save"
                 PROVE  access = Called(last) /\ (Derive(hr, last) = "Skip" => access = Called(hr))
      BY DEF DerivesWhatIsNeeded
    <2>1. access = Called(last)
      BY DEF Inv, LastIsDone
    <2>2. hr # None /\ hr.status \in Status /\ (last # None => last.status \in Status)
      <3>1. hr \in Record BY DEF Inv, TypeOK
      <3>2. last # None => last \in [status : Status, role : Roles]
        BY DEF Inv, TypeOK
      <3>3. hr # None
        BY <3>1, ConstantsAssumption
      <3>4. QED BY <3>1, <3>2, <3>3 DEF Record
    <2>3. QED BY <2>1, <2>2 DEF Derive, Called, Status
  <1>2. QED BY <1>1, InvAlways, PTL

------------------------------------------------------------------------------
(* Dates. What is Completed was done for a date of the past, so an event   *)
(* of a new date is new; and without doubt the last state knows of what    *)
(* was completed for the dates of HR's record, so that nothing derives it  *)
(* again.                                                                  *)

Present == last # None /\ last.status = "Active"

Joined(record) ==
  record.status = "Active" /\ rows[<<"Joiner", record.start>>] = "Completed"

Left(record) ==
  /\ record.status = "Inactive" /\ record.end # None
  /\ rows[<<"Leaver", record.end>>] = "Completed"

(* The key is the one the action and the record give.                      *)
KeyFits ==
  \A r \in Runs : pc[r] \in {"pre", "work", "save"} => key[r] = Key(action[r], rec[r])

(* The dates of a record are not in the future on the given day.           *)
Dated(record, day) ==
  record.start <= day /\ (record.end # None => record.end <= day)

NoFutureDates ==
  /\ Dated(hr, today)
  /\ \A r \in Runs : pc[r] # "idle" => Dated(rec[r], today)
  /\ \A k \in Keys : rows[k] = "Completed" => k[2] <= today

(* What was completed for HR's record is in the last state.                *)
DoneIsKnown ==
  ~doubt /\ (\A r \in Runs : pc[r] # "save") =>
    /\ Joined(hr) /\ ~sameDate => Present
    /\ Left(hr) => ~Present

(* The same for a record a webhook has fetched.                            *)
FetchedIsKnown ==
  ~doubt => \A r \in Runs : pc[r] = "fetched" =>
    /\ Joined(rec[r]) /\ ~sameDate => Present
    /\ Left(rec[r]) => ~Present

(* What HR has changed since a run by itself fetched the record is not yet *)
(* done.                                                                   *)
OvertakenIsOpen ==
  \A r \in Runs : alone[r] /\ pc[r] # "idle" =>
    /\ rec[r].status = "Inactive" /\ Joined(hr) => sameDate
    /\ rec[r].status = "Active" => ~Left(hr)

(* What a duplicate of a completed event may be.                           *)
Repeats(r) ==
  \/ action[r] = "Mover"
  \/ action[r] = "Joiner" /\ sameDate
  \/ action[r] = "Leaver" /\ rec[r].end = None

StartedIsNew ==
  ~doubt => \A r \in Runs : pc[r] = "pre" /\ rows[key[r]] = "Completed" => Repeats(r)

DatesInv ==
  /\ Inv /\ KeyFits /\ NoFutureDates
  /\ DoneIsKnown /\ FetchedIsKnown /\ OvertakenIsOpen /\ StartedIsNew

LEMMA DatesInit == Init => DatesInv
  <1> SUFFICES ASSUME Init PROVE DatesInv
    OBVIOUS
  <1>1. Inv BY InvInit
  <1>2. hr.start = 1 /\ hr.end = None /\ today = 1 /\ hr.status = "Active"
    BY DEF Init
  <1>3. <<"Joiner", hr.start>> \in Keys
    BY <1>1 DEF Inv, TypeOK, Record, Keys, Actions
  <1>4. \A k \in Keys : rows[k] = "free"
    BY DEF Init
  <1>5. \A r \in Runs : pc[r] = "idle"
    BY DEF Init
  <1>6. QED
    BY <1>1, <1>2, <1>3, <1>4, <1>5
       DEF DatesInv, KeyFits, NoFutureDates, Dated, DoneIsKnown, FetchedIsKnown,
           OvertakenIsOpen, StartedIsNew, Joined, Left

LEMMA KeyStep ==
  ASSUME TypeOK, KeyFits, [Next]_vars
  PROVE  KeyFits'
  <1> USE DEF KeyFits
  <1>1. CASE Move \/ Terminate \/ Rehire
    BY <1>1 DEF Move, Terminate, Rehire, HrWrites, run
  <1>2. ASSUME NEW r \in Runs, Fetch(r) PROVE KeyFits'
    BY <1>2 DEF Fetch, Goto, TypeOK
  <1>3. ASSUME NEW r \in Runs, FetchFails(r) PROVE KeyFits'
    BY <1>3 DEF FetchFails, run
  <1>4. ASSUME NEW r \in Runs, Dispatch(r) PROVE KeyFits'
    <2>1. PICK a : /\ action' = [action EXCEPT ![r] = a]
                   /\ key' = [key EXCEPT ![r] = Key(a, rec[r])]
                   /\ pc' = [pc EXCEPT ![r] = "pre"] /\ UNCHANGED rec
      BY <1>4 DEF Dispatch, Goto
    <2>2. \A q \in Runs \ {r} : pc'[q] = pc[q] /\ action'[q] = action[q] /\ key'[q] = key[q]
      BY <2>1 DEF TypeOK
    <2>3. action'[r] = a /\ key'[r] = Key(a, rec[r])
      BY <2>1 DEF TypeOK
    <2>4. QED BY <2>1, <2>2, <2>3
  <1>5. ASSUME NEW r \in Runs, Proceed(r) \/ Succeed(r) \/ Fail(r) PROVE KeyFits'
    BY <1>5 DEF Proceed, Succeed, Fail, Goto, TypeOK
  <1>6. ASSUME NEW r \in Runs, End(r) PROVE KeyFits'
    <2>1. \A q \in Runs \ {r} : key'[q] = key[q]
      BY <1>6 DEF End, TypeOK
    <2>2. QED BY <1>6, <2>1, Ended
  <1>7. CASE UNCHANGED vars \/ (\E r \in Runs : DeleteUser(r)) \/ \E p \in Packages : Late(p)
    BY <1>7 DEF vars, run, DeleteUser, Late
  <1>8. QED
    BY <1>1, <1>2, <1>3, <1>4, <1>5, <1>6, <1>7
       DEF Next, Webhook, Orchestration, Failure, Skip, DispatchFails, Duplicate, TurnedAway,
           Held, Exit, FailEarly, Die, Save, SaveFails

(* A run changes its own row only, and completes it only by Succeed.       *)
LEMMA RowStep ==
  ASSUME TypeOK, NEW r \in Runs, Webhook(r) \/ Orchestration(r) \/ Failure(r),
         NEW k \in Keys, rows'[k] = "Completed"
  PROVE  rows[k] = "Completed" \/ (Succeed(r) /\ k = key[r])
  <1>1. ASSUME NEW s \in {"free", "open", "Completed"}, SetRow(r, s)
        PROVE  rows'[k] = IF k = key[r] THEN s ELSE rows[k]
    BY <1>1 DEF SetRow, TypeOK
  <1>2. UNCHANGED rows \/ SetRow(r, "free") \/ SetRow(r, "open") \/ Succeed(r)
    BY DEF Webhook, Orchestration, Failure, Fetch, Dispatch, Skip, FetchFails, DispatchFails, Duplicate,
           TurnedAway, Held, Exit, Proceed, Fail, FailEarly, DeleteUser, Die, Save, SaveFails, store
  <1>3. Succeed(r) => SetRow(r, "Completed")
    BY DEF Succeed
  <1>4. QED BY <1>1, <1>2, <1>3

LEMMA DatedStep ==
  ASSUME TypeOK, KeyFits, NoFutureDates, [Next]_vars
  PROVE  NoFutureDates'
  <1> USE DEF NoFutureDates, Dated
  <1>0. /\ today \in Nat /\ hr.start \in Nat /\ (hr.end # None => hr.end \in Nat)
        /\ \A r \in Runs : pc[r] # "idle" =>
             rec[r].start \in Nat /\ (rec[r].end # None => rec[r].end \in Nat)
        /\ \A k \in Keys : k[2] \in Nat
    BY DEF TypeOK, Record, Keys
  <1>1. CASE Move \/ Terminate \/ Rehire
    <2>1. /\ today' = today + 1
          /\ UNCHANGED <<pc, rec, rows>>
      BY <1>1 DEF Move, Terminate, Rehire, HrWrites, run, store
    <2>2. /\ hr'.start \in {hr.start, today + 1}
          /\ hr'.end \in {hr.end, today + 1, None}
      <3>1. CASE Move
        BY <3>1 DEF Move, HrWrites, TypeOK, Record
      <3>2. CASE Terminate
        BY <3>2 DEF Terminate, HrWrites, TypeOK, Record
      <3>3. CASE Rehire
        <4>1. PICK date \in {today + 1, hr.start}, role \in Roles :
                hr' = [status |-> "Active", role |-> role, start |-> date, end |-> None]
          BY <3>3 DEF Rehire, HrWrites
        <4>2. QED BY <4>1
      <3>4. QED BY <1>1, <3>1, <3>2, <3>3
    <2>3. Dated(hr, today)'
      BY <2>1, <2>2, <1>0
    <2>4. \A k \in Keys : rows'[k] = "Completed" => k[2] <= today'
      BY <2>1, <1>0
    <2>5. \A r \in Runs : pc'[r] # "idle" => Dated(rec[r], today)'
      BY <2>1, <1>0
    <2>6. QED BY <2>3, <2>4, <2>5
  <1>2. ASSUME NEW r \in Runs, Webhook(r) \/ Orchestration(r) \/ Failure(r) PROVE NoFutureDates'
    <2>1. UNCHANGED <<hr, today>>
      BY <1>2 DEF Webhook, Orchestration, Failure, Fetch, Dispatch, Skip, FetchFails, DispatchFails,
         Duplicate, TurnedAway, Held, Exit, Proceed, Succeed, Fail, FailEarly, DeleteUser, Die, Save,
         SaveFails, env
    <2>2. \A q \in Runs : pc'[q] # "idle" =>
            (pc[q] # "idle" /\ rec'[q] = rec[q]) \/ rec'[q] = hr
      <3>1. CASE Fetch(r)
        BY <3>1 DEF Fetch, Goto, TypeOK
      <3>2. CASE End(r)
        BY <3>2, Ended
      <3>3. CASE FetchFails(r)
        BY <3>3 DEF FetchFails, run
      <3>4. CASE Dispatch(r) \/ Proceed(r) \/ Succeed(r) \/ Fail(r)
        BY <3>4 DEF Dispatch, Proceed, Succeed, Fail, Goto, TypeOK
      <3>5. CASE DeleteUser(r)
        BY <3>5 DEF DeleteUser, run
      <3>6. QED
        BY <1>2, <3>1, <3>2, <3>3, <3>4, <3>5
           DEF Webhook, Orchestration, Failure, Skip, DispatchFails, Duplicate, TurnedAway,
               Held, Exit, FailEarly, Die, Save, SaveFails
    <2>3. Succeed(r) => key[r][2] <= today
      <3>1. SUFFICES ASSUME Succeed(r) PROVE key[r][2] <= today
        OBVIOUS
      <3>2. key[r] = Key(action[r], rec[r]) /\ pc[r] # "idle"
        BY <3>1 DEF Succeed, KeyFits
      <3>3. QED BY <3>2 DEF Key
    <2>4. \A k \in Keys : rows'[k] = "Completed" => k[2] <= today
      BY <1>2, <2>3, RowStep
    <2>5. \A q \in Runs : pc'[q] # "idle" => Dated(rec'[q], today)
      BY <2>2
    <2>6. QED BY <2>1, <2>4, <2>5
  <1>3. CASE UNCHANGED vars \/ \E p \in Packages : Late(p)
    BY <1>3 DEF vars, env, store, run, Late
  <1>4. QED BY <1>1, <1>2, <1>3 DEF Next

(* A change of HR's record brings nothing that was completed before, except*)
(* where a re-hire keeps its hire date.                                    *)
LEMMA HrStep ==
  ASSUME DatesInv, Move \/ Terminate \/ Rehire
  PROVE  /\ Joined(hr)' => Joined(hr) \/ sameDate'
         /\ ~Left(hr)'
         /\ sameDate => sameDate'
  <1>1. /\ today \in Nat /\ today < Days /\ Days \in Nat /\ None \notin 1 .. Days
        /\ hr \in Record /\ rows' = rows
    BY ConstantsAssumption
       DEF DatesInv, Inv, TypeOK, Move, Terminate, Rehire, HrWrites, store
  <1>2. \A a \in Actions : rows[<<a, today + 1>>] # "Completed"
    <2>1. \A a \in Actions : <<a, today + 1>> \in Keys
      BY <1>1 DEF Keys
    <2>2. ~(today + 1 <= today)
      BY <1>1
    <2>3. QED BY <2>1, <2>2 DEF DatesInv, NoFutureDates
  <1>3. "Joiner" \in Actions /\ "Leaver" \in Actions
    BY DEF Actions
  <1>4. CASE Move
    <2>1. PICK role \in Roles : hr' = [hr EXCEPT !.role = role]
      BY <1>4 DEF Move, HrWrites
    <2>2. hr'.status = "Active" /\ hr'.start = hr.start /\ hr.status = "Active"
      BY <1>1, <1>4, <2>1 DEF Move, Record
    <2>3. QED BY <1>1, <1>4, <2>2 DEF Move, Joined, Left
  <1>5. CASE Terminate
    <2>1. PICK date \in {today + 1, None} :
            hr' = [hr EXCEPT !.status = "Inactive", !.end = date]
      BY <1>5 DEF Terminate, HrWrites
    <2>2. hr'.status = "Inactive" /\ hr'.end = date
      BY <1>1, <2>1 DEF Record
    <2>3. QED BY <1>1, <1>2, <1>3, <1>5, <2>2 DEF Terminate, Joined, Left
  <1>6. CASE Rehire
    <2>1. PICK date \in {today + 1, hr.start}, role \in Roles :
            /\ hr' = [status |-> "Active", role |-> role, start |-> date, end |-> None]
            /\ sameDate' = (sameDate \/ date = hr.start)
      BY <1>6 DEF Rehire, HrWrites
    <2>2. hr'.status = "Active" /\ hr'.start = date
      BY <2>1
    <2>3. QED BY <1>1, <1>2, <1>3, <2>1, <2>2 DEF Joined, Left
  <1>7. QED BY <1>4, <1>5, <1>6

(* What a run that does not succeed leaves Completed was so before.        *)
LEMMA StillDone ==
  ASSUME TypeOK, NEW r \in Runs, Webhook(r) \/ Orchestration(r) \/ Failure(r), ~Succeed(r),
         NEW record \in Record
  PROVE  /\ Joined(record)' => Joined(record)
         /\ Left(record)' => Left(record)
  <1>1. <<"Joiner", record.start>> \in Keys /\ (record.end # None => <<"Leaver", record.end>> \in Keys)
    BY DEF Record, Keys, Actions
  <1>2. QED BY <1>1, RowStep DEF Joined, Left

(* The steps of a run that is over without having saved.                   *)
LEMMA QuietEnd ==
  ASSUME DatesInv, NEW r \in Runs,
         \/ Skip(r) \/ DispatchFails(r) \/ Duplicate(r) \/ TurnedAway(r) \/ Held(r)
         \/ FailEarly(r) \/ Die(r) \/ SaveFails(r)
  PROVE  (DoneIsKnown /\ FetchedIsKnown /\ OvertakenIsOpen /\ StartedIsNew)'
  <1>1. /\ End(r) /\ UNCHANGED <<hr, last, sameDate>>
        /\ doubt => doubt'
        /\ pc[r] = "save" => doubt'
        /\ pc[r] # "idle"
    BY DEF Skip, DispatchFails, Duplicate, TurnedAway, Held, Exit, FailEarly, Die, SaveFails,
           InDoubtIfChanged, store, env, DatesInv, Inv, TypeOK
  <1>2. (Webhook(r) \/ Orchestration(r) \/ Failure(r)) /\ ~Succeed(r)
    <2>1. pc'[r] = "idle"
      BY <1>1, Ended DEF DatesInv, Inv
    <2>2. ~Succeed(r)
      BY <2>1 DEF Succeed, Goto, DatesInv, Inv, TypeOK
    <2>3. QED BY <2>2 DEF Webhook, Orchestration, Failure
  <1>3. /\ pc'[r] = "idle" /\ ~alone'[r]
        /\ \A q \in Runs \ {r} :
             /\ pc'[q] = pc[q] /\ rec'[q] = rec[q] /\ action'[q] = action[q]
             /\ alone'[q] = alone[q]
    BY <1>1, Ended DEF DatesInv, Inv
  <1>4. \A q \in Runs \ {r} : key'[q] = key[q]
    BY <1>1 DEF End, DatesInv, Inv, TypeOK
  <1>5. \A record \in Record :
          (Joined(record)' => Joined(record)) /\ (Left(record)' => Left(record))
    BY <1>2, StillDone DEF DatesInv, Inv
  <1>6. DoneIsKnown'
    BY <1>1, <1>3, <1>5 DEF DoneIsKnown, Present, Joined, Left, DatesInv, Inv, TypeOK
  <1>7. FetchedIsKnown'
    BY <1>1, <1>3, <1>5 DEF FetchedIsKnown, Present, Joined, Left, DatesInv, Inv, TypeOK
  <1>8. OvertakenIsOpen'
    BY <1>1, <1>3, <1>5 DEF OvertakenIsOpen, Joined, Left, DatesInv, Inv, TypeOK
  <1>9. StartedIsNew'
    <2>1. ASSUME NEW q \in Runs \ {r}, pc[q] = "pre", rows'[key[q]] = "Completed"
          PROVE  rows[key[q]] = "Completed"
      BY <1>2, <2>1, RowStep DEF DatesInv, Inv, TypeOK
    <2>2. QED BY <1>1, <1>3, <1>4, <2>1 DEF StartedIsNew, Repeats, DatesInv
  <1>10. QED BY <1>6, <1>7, <1>8, <1>9

LEMMA DispatchStep ==
  ASSUME DatesInv, NEW r \in Runs, Dispatch(r)
  PROVE  (DoneIsKnown /\ FetchedIsKnown /\ OvertakenIsOpen /\ StartedIsNew)'
  <1> DEFINE a == Derive(rec[r], last)
  <1>1. /\ pc[r] = "fetched" /\ a # "Skip"
        /\ pc' = [pc EXCEPT ![r] = "pre"]
        /\ action' = [action EXCEPT ![r] = a]
        /\ key' = [key EXCEPT ![r] = Key(a, rec[r])]
        /\ UNCHANGED <<hr, last, rows, rec, alone, doubt, sameDate>>
    BY DEF Dispatch, Goto, env, store
  <1>2. rec[r] \in Record
    BY <1>1, RecordTyped DEF DatesInv, Inv
  <1>3. a \in Actions /\ (a = "Leaver" <=> rec[r].status = "Inactive")
    BY <1>1, <1>2, DeriveRange
  <1>4. /\ a = "Joiner" => ~Present /\ rec[r].status = "Active"
        /\ a = "Leaver" => Present
    <2>1. last # None => last.status \in Status
      BY DEF DatesInv, Inv, TypeOK
    <2>2. rec[r].status \in Status
      BY <1>2 DEF Record
    <2>3. QED BY <1>1, <1>3, <2>1, <2>2 DEF Derive, Present, Status
  <1> HIDE DEF a
  <1>5. pc'[r] = "pre" /\ action'[r] = a /\ key'[r] = Key(a, rec[r])
    BY <1>1 DEF DatesInv, Inv, TypeOK
  <1>6. \A q \in Runs \ {r} : pc'[q] = pc[q] /\ action'[q] = action[q] /\ key'[q] = key[q]
    BY <1>1 DEF DatesInv, Inv, TypeOK
  <1>7. DoneIsKnown'
    BY <1>1, <1>5, <1>6 DEF DoneIsKnown, Present, Joined, Left, DatesInv
  <1>8. FetchedIsKnown'
    BY <1>1, <1>5, <1>6 DEF FetchedIsKnown, Present, Joined, Left, DatesInv
  <1>9. OvertakenIsOpen'
    BY <1>1, <1>5, <1>6 DEF OvertakenIsOpen, Joined, Left, DatesInv
  <1>10. ~doubt /\ rows[Key(a, rec[r])] = "Completed" => Repeats(r)'
    <2>1. SUFFICES ASSUME ~doubt, rows[Key(a, rec[r])] = "Completed" PROVE Repeats(r)'
      OBVIOUS
    <2>2. (Joined(rec[r]) /\ ~sameDate => Present) /\ (Left(rec[r]) => ~Present)
      BY <1>1, <2>1 DEF DatesInv, FetchedIsKnown
    <2>3. CASE a = "Mover"
      BY <1>5, <2>3 DEF Repeats
    <2>4. CASE a = "Joiner"
      <3>1. Joined(rec[r])
        BY <1>4, <2>1, <2>4 DEF Key, Joined
      <3>2. QED BY <1>1, <1>4, <1>5, <2>2, <2>4, <3>1 DEF Repeats
    <2>5. CASE a = "Leaver"
      <3>1. rec[r].end # None => Left(rec[r])
        BY <1>3, <2>1, <2>5 DEF Key, Left
      <3>2. QED BY <1>1, <1>4, <1>5, <2>2, <2>5, <3>1 DEF Repeats
    <2>6. QED BY <1>3, <2>3, <2>4, <2>5 DEF Actions
  <1>11. StartedIsNew'
    BY <1>1, <1>5, <1>6, <1>10 DEF StartedIsNew, Repeats, DatesInv
  <1>12. QED BY <1>7, <1>8, <1>9, <1>11

LEMMA SaveStep ==
  ASSUME DatesInv, NEW r \in Runs, Save(r)
  PROVE  (DoneIsKnown /\ FetchedIsKnown /\ OvertakenIsOpen /\ StartedIsNew)'
  <1>1. /\ End(r) /\ pc[r] = "save" /\ last' = Saved(r)
        /\ UNCHANGED <<hr, rows, sameDate, doubt>>
    BY DEF Save, env
  <1>2. /\ pc'[r] = "idle" /\ ~alone'[r]
        /\ \A q \in Runs \ {r} : pc'[q] = pc[q] /\ rec'[q] = rec[q] /\ alone'[q] = alone[q]
    BY <1>1, Ended DEF DatesInv, Inv
  <1>3. ~doubt' => alone[r] /\ \A q \in Runs : pc'[q] = "idle"
    BY <1>1, <1>2 DEF DatesInv, Inv, TypeOK, AloneOrInDoubt
  <1>4. Present' <=> rec[r].status = "Active"
    <2>1. rec[r].status \in Status /\ rec[r].role \in Roles
      BY <1>1, RecordTyped DEF DatesInv, Inv
    <2>2. action[r] = "Leaver" <=> rec[r].status = "Inactive"
      BY <1>1 DEF DatesInv, Inv, ActionFits
    <2>3. Saved(r) \in [status : Status, role : Roles]
      BY <2>1 DEF Saved, Status
    <2>4. QED BY <1>1, <2>1, <2>2, <2>3, ConstantsAssumption DEF Present, Saved, Status
  <1>5. rec[r].status \in Status
    BY <1>1, RecordTyped DEF DatesInv, Inv
  <1>6. DoneIsKnown'
    <2>1. alone[r] => /\ rec[r].status = "Inactive" /\ Joined(hr) => sameDate
                      /\ rec[r].status = "Active" => ~Left(hr)
      BY <1>1 DEF DatesInv, OvertakenIsOpen
    <2>2. (Joined(hr)' <=> Joined(hr)) /\ (Left(hr)' <=> Left(hr))
      BY <1>1 DEF Joined, Left
    <2>3. QED BY <1>1, <1>3, <1>4, <1>5, <2>1, <2>2 DEF DoneIsKnown, Status
  <1>7. FetchedIsKnown' /\ StartedIsNew'
    BY <1>3 DEF FetchedIsKnown, StartedIsNew
  <1>8. OvertakenIsOpen'
    BY <1>1, <1>2 DEF OvertakenIsOpen, Joined, Left, DatesInv
  <1>9. QED BY <1>6, <1>7, <1>8

LEMMA WorkStep ==
  ASSUME DatesInv, NEW r \in Runs, Proceed(r) \/ Succeed(r) \/ Fail(r)
  PROVE  (DoneIsKnown /\ FetchedIsKnown /\ OvertakenIsOpen /\ StartedIsNew)'
  <1>1. /\ UNCHANGED <<hr, last, rec, action, key, alone, sameDate>>
        /\ Proceed(r) => UNCHANGED doubt
    BY DEF Proceed, Succeed, Fail, env
  <1>2. /\ pc[r] \in {"pre", "work"} /\ pc'[r] \in {"work", "save"}
        /\ \A q \in Runs \ {r} : pc'[q] = pc[q]
        /\ ~Proceed(r) => pc'[r] = "save"
    BY DEF Proceed, Succeed, Fail, Goto, DatesInv, Inv, TypeOK
  <1>3. ~doubt' => \A q \in Runs \ {r} : pc[q] = "idle"
    <2>1. CASE Proceed(r)
      BY <1>1, <1>2, <2>1, ByItself DEF DatesInv, Inv
    <2>2. CASE Succeed(r)
      BY <1>2, <2>2, SucceedStep DEF DatesInv, Inv, AloneOrInDoubt
    <2>3. CASE Fail(r)
      BY <2>3 DEF Fail
    <2>4. QED BY <2>1, <2>2, <2>3
  <1>4. Proceed(r) => ~Succeed(r) /\ pc'[r] # "save" /\ pc[r] # "save"
    BY DEF Proceed, Succeed, Goto, DatesInv, Inv, TypeOK
  <1>5. \A record \in Record : ~Succeed(r) =>
          (Joined(record)' => Joined(record)) /\ (Left(record)' => Left(record))
    BY StillDone DEF DatesInv, Inv, Webhook, Orchestration, Failure
  <1>6. hr \in Record
    BY DEF DatesInv, Inv, TypeOK
  <1>7. DoneIsKnown'
    BY <1>1, <1>2, <1>4, <1>5, <1>6 DEF DoneIsKnown, Present, DatesInv
  <1>8. FetchedIsKnown' /\ StartedIsNew'
    BY <1>1, <1>2, <1>3 DEF FetchedIsKnown, StartedIsNew
  <1>9. /\ rec[r].status = "Inactive" /\ Joined(hr)' => Joined(hr)
        /\ rec[r].status = "Active" /\ Left(hr)' => Left(hr)
    <2>1. CASE ~Succeed(r)
      BY <1>1, <1>5, <1>6, <2>1 DEF Joined, Left
    <2>2. CASE Succeed(r)
      <3>1. key[r] = Key(action[r], rec[r]) /\ (action[r] = "Leaver" <=> rec[r].status = "Inactive")
        BY <1>2 DEF DatesInv, Inv, KeyFits, ActionFits
      <3>2. /\ rec[r].status = "Inactive" => key[r] # <<"Joiner", hr.start>>
            /\ rec[r].status = "Active" => key[r] # <<"Leaver", hr.end>>
        BY <3>1 DEF Key
      <3>3. <<"Joiner", hr.start>> \in Keys /\ (hr.end # None => <<"Leaver", hr.end>> \in Keys)
        BY <1>6 DEF Record, Keys, Actions
      <3>4. \A k \in Keys : rows'[k] = "Completed" => rows[k] = "Completed" \/ k = key[r]
        BY <2>2, RowStep DEF DatesInv, Inv, Orchestration
      <3>5. QED BY <1>1, <3>2, <3>3, <3>4 DEF Joined, Left
    <2>3. QED BY <2>1, <2>2
  <1>10. OvertakenIsOpen'
    <2>1. ASSUME NEW q \in Runs, alone[q], pc'[q] # "idle" PROVE q = r
      BY <1>2, <2>1 DEF DatesInv, Inv, AloneOrInDoubt
    <2>2. QED BY <1>1, <1>2, <1>9, <2>1 DEF OvertakenIsOpen, DatesInv
  <1>11. QED BY <1>7, <1>8, <1>10

LEMMA FetchStep ==
  ASSUME DatesInv, NEW r \in Runs, Fetch(r)
  PROVE  (DoneIsKnown /\ FetchedIsKnown /\ OvertakenIsOpen /\ StartedIsNew)'
  <1>1. /\ pc[r] = "idle" /\ pc'[r] = "fetched" /\ rec'[r] = hr
        /\ \A q \in Runs \ {r} : pc'[q] = pc[q] /\ rec'[q] = rec[q]
        /\ UNCHANGED <<hr, last, rows, action, key, sameDate>>
    BY DEF Fetch, Goto, env, store, DatesInv, Inv, TypeOK
  <1>2. \/ /\ doubt'
           /\ \A q \in Runs : ~alone'[q]
        \/ /\ doubt' = doubt
           /\ \A q \in Runs \ {r} : pc[q] = "idle"
    BY DEF Fetch, Busy
  <1>3. DoneIsKnown'
    BY <1>1, <1>2 DEF DoneIsKnown, Present, Joined, Left, DatesInv
  <1>4. FetchedIsKnown' /\ StartedIsNew'
    BY <1>1, <1>2 DEF FetchedIsKnown, StartedIsNew, DoneIsKnown, Present, Joined, Left, DatesInv
  <1>5. OvertakenIsOpen'
    BY <1>1, <1>2 DEF OvertakenIsOpen, Joined, Left
  <1>6. QED BY <1>3, <1>4, <1>5

LEMMA DatesStep == DatesInv /\ [Next]_vars => DatesInv'
  <1> SUFFICES ASSUME DatesInv, [Next]_vars PROVE DatesInv'
    OBVIOUS
  <1> DEFINE Kept == DoneIsKnown /\ FetchedIsKnown /\ OvertakenIsOpen /\ StartedIsNew
  <1>1. Inv' /\ KeyFits' /\ NoFutureDates'
    <2>1. TypeOK' BY TypeStep DEF DatesInv, Inv
    <2>2. Inv' BY <2>1, AloneStep, DoneStep DEF DatesInv, Inv
    <2>3. QED BY <2>2, KeyStep, DatedStep DEF DatesInv, Inv
  <1>2. CASE Move \/ Terminate \/ Rehire
    <2>1. UNCHANGED <<pc, rec, action, key, alone, last, rows, doubt>>
      BY <1>2 DEF Move, Terminate, Rehire, HrWrites, run, store
    <2>2. DoneIsKnown'
      BY <1>2, <2>1, HrStep DEF DoneIsKnown, Present, DatesInv
    <2>3. FetchedIsKnown'
      BY <1>2, <2>1, HrStep DEF FetchedIsKnown, Present, Joined, Left, DatesInv
    <2>4. OvertakenIsOpen'
      BY <1>2, <2>1, HrStep DEF OvertakenIsOpen, DatesInv
    <2>5. StartedIsNew'
      BY <1>2, <2>1, HrStep DEF StartedIsNew, Repeats, DatesInv
    <2>6. QED BY <1>1, <2>2, <2>3, <2>4, <2>5 DEF DatesInv
  <1>3. ASSUME NEW r \in Runs, FetchFails(r) PROVE Kept'
    <2>1. UNCHANGED <<hr, sameDate, pc, rec, action, key, alone, last, rows, doubt>>
      BY <1>3 DEF FetchFails, env, run, store
    <2>2. DoneIsKnown' /\ FetchedIsKnown'
      BY <2>1 DEF DoneIsKnown, FetchedIsKnown, Present, Joined, Left, DatesInv
    <2>3. OvertakenIsOpen' /\ StartedIsNew'
      BY <2>1 DEF OvertakenIsOpen, StartedIsNew, Repeats, Joined, Left, DatesInv
    <2>4. QED BY <2>2, <2>3
  <1>4. CASE UNCHANGED vars \/ (\E r \in Runs : DeleteUser(r)) \/ \E p \in Packages : Late(p)
    <2>1. UNCHANGED <<hr, sameDate, pc, rec, action, key, alone, last, rows>>
      BY <1>4 DEF vars, env, run, store, DeleteUser, Late
    <2>2. doubt => doubt'
      BY <1>4 DEF vars, DeleteUser, Late, InDoubtIfChanged
    <2>3. DoneIsKnown' /\ FetchedIsKnown'
      BY <2>1, <2>2 DEF DoneIsKnown, FetchedIsKnown, Present, Joined, Left, DatesInv
    <2>4. OvertakenIsOpen' /\ StartedIsNew'
      BY <2>1, <2>2 DEF OvertakenIsOpen, StartedIsNew, Repeats, Joined, Left, DatesInv
    <2>5. QED BY <1>1, <2>3, <2>4 DEF DatesInv
  <1>5. ASSUME NEW r \in Runs, Webhook(r) \/ Orchestration(r) \/ Failure(r), ~DeleteUser(r)
        PROVE  Kept'
    BY <1>3, <1>5, FetchStep, DispatchStep, WorkStep, SaveStep, QuietEnd
       DEF Webhook, Orchestration, Failure
  <1>6. QED BY <1>1, <1>2, <1>4, <1>5 DEF Next, DatesInv

(* As long as the last state is not in doubt, an event is dropped as a     *)
(* duplicate of a completed one only if it is a move, a re-hire under a    *)
(* hire date HR has used before, or a termination without a date: a new    *)
(* date makes a new event.                                                 *)
THEOREM DatesTell == Spec => NewDatesMakeNewEvents
  <1>1. DatesInv =>
          [\A r \in Runs :
             pc[r] = "pre" /\ pc'[r] = "idle" /\ rows[key[r]] = "Completed" /\ ~doubt =>
               \/ action[r] = "Mover"
               \/ action[r] = "Joiner" /\ sameDate
               \/ action[r] = "Leaver" /\ rec[r].end = None]_vars
    BY DEF DatesInv, StartedIsNew, Repeats
  <1>2. Spec => []DatesInv
    BY DatesInit, DatesStep, PTL DEF Spec
  <1>3. QED BY <1>1, <1>2, PTL DEF NewDatesMakeNewEvents
=============================================================================
