---------------------------- MODULE JoinerProofs ----------------------------
(***************************************************************************)
(* Theorems about Joiner, for any packages and any number of faults.       *)
(***************************************************************************)
EXTENDS Joiner, TLAPS

(* The row while a run is at work on it; only a repeated last activity     *)
(* works on a Completed one.                                               *)
RowFits ==
  /\ pc = "check" => row = "Pending"
  /\ pc \in {"create", "submit", "poll"} => row = "Processing"
  /\ row = "Completed" /\ pc \notin {"idle", "done"} => driver = "durable"

(* What the run believes of a package is so in Entra.                      *)
PendingTrue ==
  \A p \in Packages :
    /\ requests[p] = "delivered" => p \in held
    /\ pending[p] = "delivered" => p \in held
    /\ pending[p] = "skipped" => p \in held \union excused

(* A run that has not failed has found or created its account.             *)
AccountThere ==
  pc \notin {"idle", "check", "create"} /\ result = "PROCEED" => account

(* What a run has passed by the time it validates and closes the event.    *)
Passed ==
  /\ pc \in {"assign", "validate", "complete"} =>
       result = "PROCEED" /\ \A p \in Packages : Arrived(p)
  /\ pc \in {"validate", "complete"} /\ driver # "durable" => Pim \in held \union excused

Inv ==
  /\ TypeOK
  /\ RowFits
  /\ PendingTrue
  /\ AccountThere
  /\ Passed
  /\ CompletedMeansGranted

------------------------------------------------------------------------------
LEMMA InvInit == Init => Inv
  <1> SUFFICES ASSUME Init PROVE Inv
    OBVIOUS
  <1>1. TypeOK
    <2>1. pending \in [Packages -> PendingState] /\ requests \in [Packages -> RequestState]
      BY DEF Init, NothingPending, PendingState, RequestState
    <2>2. faults \in 0 .. MaxFaults /\ pc \in PC /\ row \in Row
      BY ConstantsAssumption DEF Init, PC, Row
    <2>3. QED BY <2>1, <2>2 DEF Init, TypeOK
  <1>2. RowFits /\ AccountThere /\ Passed /\ CompletedMeansGranted
    BY DEF Init, RowFits, AccountThere, Passed, CompletedMeansGranted
  <1>3. PendingTrue
    BY DEF Init, PendingTrue, NothingPending
  <1>4. QED BY <1>1, <1>2, <1>3 DEF Inv

LEMMA TypeStep ==
  ASSUME TypeOK, [Next]_vars
  PROVE  TypeOK'
  <1> USE ConstantsAssumption
      DEF TypeOK, Drivers, Staged, Row, RequestState, PendingState, PC, entra, event, work, observed
  <1>1. ASSUME NEW d \in Drivers, Start(d) PROVE TypeOK'
    BY <1>1 DEF Start, NothingPending, Claimable, Stale
  <1>2. CASE CreateUser
    BY <1>2 DEF CreateUser, Resumes
  <1>3. CASE CreateFails
    <2>1. account' \in BOOLEAN
      BY <1>3 DEF CreateFails
    <2>2. QED BY <1>3, <2>1 DEF CreateFails, Fault
  <1>4. ASSUME NEW p \in Packages, SubmitSkip(p) PROVE TypeOK'
    BY <1>4 DEF SubmitSkip, Submitted
  <1>5. ASSUME NEW p \in Packages, Submit(p) PROVE TypeOK'
    BY <1>5 DEF Submit, Submitted
  <1>6. ASSUME NEW p \in Packages, SubmitRefused(p) PROVE TypeOK'
    BY <1>6 DEF SubmitRefused, Submitted
  <1>7. ASSUME NEW p \in Packages, SubmitFails(p) PROVE TypeOK'
    BY <1>7 DEF SubmitFails, Submitted, Fault
  <1>8. ASSUME NEW p \in Packages, Poll(p) PROVE TypeOK'
    BY <1>8 DEF Poll, Polled
  <1>9. CASE SubmitDone
    BY <1>9 DEF SubmitDone
  <1>10. CASE Record
    BY <1>10 DEF Record, Arrived
  <1>11. CASE Redeliver
    BY <1>11 DEF Redeliver, Fault, CreateAgain, SubmitAgain, RecordAgain,
           NothingPending
  <1>12. ASSUME NEW p \in Packages, Deliver(p) PROVE TypeOK'
    BY <1>12 DEF Deliver
  <1>13. ASSUME NEW p \in Packages, Reject(p) PROVE TypeOK'
    BY <1>13 DEF Reject
  <1>14. CASE \/ TurnedAway \/ ResetStale \/ Queued \/ Held \/ NoGraphClient \/ AcquireLock
              \/ PollEnd \/ AssignPim \/ AssignPimFails \/ Validate
              \/ Finding \/ ValidateFails \/ ReleaseLock \/ Finalize
              \/ End \/ Die
    <2>1. faults' \in 0 .. MaxFaults
      BY <1>14 DEF TurnedAway, ResetStale, Stale, vars, Queued, Held, NoGraphClient, Fault,
             AcquireLock, PollEnd, AssignPim, AssignPimFails, Validate,
             Finding, ValidateFails, ReleaseLock, Finalize, End, Die
    <2>2. CASE AssignPim \/ AssignPimFails
      BY <2>1, <2>2 DEF AssignPim, AssignPimFails
    <2>3. CASE TurnedAway \/ ResetStale \/ Queued
      BY <2>1, <2>3 DEF TurnedAway, ResetStale, Stale, vars, Queued
    <2>4. CASE Held \/ NoGraphClient \/ AcquireLock
      BY <2>1, <2>4 DEF Held, NoGraphClient, AcquireLock
    <2>5. CASE PollEnd \/ Validate
      BY <2>1, <2>5 DEF PollEnd, Validate
    <2>6. CASE Finding \/ ValidateFails
      BY <2>1, <2>6 DEF Finding, ValidateFails
    <2>7. CASE End \/ Die
      BY <2>1, <2>7 DEF End, Die
    <2>8. CASE ReleaseLock \/ Finalize
      BY <2>1, <2>8 DEF ReleaseLock, Finalize
    <2>9. QED BY <1>14, <2>2, <2>3, <2>4, <2>5, <2>6, <2>7, <2>8
  <1>15. CASE UNCHANGED vars
    BY <1>15 DEF vars
  <1>16. QED
    BY <1>1, <1>2, <1>3, <1>4, <1>5, <1>6, <1>7, <1>8, <1>9, <1>10, <1>11, <1>12,
       <1>13, <1>14, <1>15
       DEF Next, Trigger, Step, SubmitPackage, Answer

LEMMA RowStep ==
  ASSUME TypeOK, RowFits, [Next]_vars
  PROVE  RowFits'
  <1> USE DEF TypeOK, RowFits, entra, event, work, observed
  <1>1. ASSUME NEW d \in Drivers, Start(d) PROVE RowFits'
    BY <1>1 DEF Start, NothingPending, Claimable, Stale
  <1>2. CASE Redeliver
    BY <1>2 DEF Redeliver, Fault, CreateAgain, SubmitAgain, RecordAgain,
           NothingPending
  <1>3. ASSUME NEW p \in Packages, SubmitPackage(p) \/ Poll(p) \/ Answer(p)
       PROVE  RowFits'
    BY <1>3 DEF SubmitPackage, Answer, SubmitSkip, Submitted, Submit, SubmitRefused,
           SubmitFails,
           Fault, Poll, Polled, Deliver, Reject
  <1>4. CASE \/ TurnedAway \/ ResetStale \/ Queued \/ Held \/ NoGraphClient \/ AcquireLock
              \/ CreateUser \/ CreateFails \/ SubmitDone \/ PollEnd
              \/ Record \/ AssignPim \/ AssignPimFails \/ Validate
              \/ Finding \/ ValidateFails \/ ReleaseLock \/ Finalize
              \/ End \/ Die
    BY <1>4 DEF TurnedAway, ResetStale, Stale, vars, Queued, Held, NoGraphClient, Fault,
           AcquireLock, CreateUser, Resumes, CreateFails, SubmitDone,
           PollEnd, Record, Arrived, AssignPim, AssignPimFails,
           Validate, Finding, ValidateFails, ReleaseLock, Finalize,
           End, Die
  <1>5. CASE UNCHANGED vars
    BY <1>5 DEF vars
  <1>6. QED
    BY <1>1, <1>2, <1>3, <1>4, <1>5
       DEF Next, Trigger, Step, SubmitPackage, Answer

LEMMA PendingStep ==
  ASSUME TypeOK, RowFits, PendingTrue, [Next]_vars
  PROVE  PendingTrue'
  <1> USE DEF TypeOK, RowFits, PendingTrue, entra, event, work, observed
  <1>1. ASSUME NEW d \in Drivers, Start(d) PROVE PendingTrue'
    BY <1>1 DEF Start, NothingPending, Claimable, Stale
  <1>2. ASSUME NEW p \in Packages, SubmitSkip(p) PROVE PendingTrue'
    BY <1>2 DEF SubmitSkip, Submitted
  <1>3. ASSUME NEW p \in Packages, Submit(p) PROVE PendingTrue'
    BY <1>3 DEF Submit, Submitted
  <1>4. ASSUME NEW p \in Packages, SubmitFails(p) PROVE PendingTrue'
    BY <1>4 DEF SubmitFails, Submitted, Fault
  <1>5. ASSUME NEW p \in Packages, Poll(p) PROVE PendingTrue'
    <2>1. /\ pending'[p] = "delivered" => requests[p] = "delivered"
          /\ pending'[p] # "skipped"
      BY <1>5 DEF Poll, Polled, RequestState
    <2>2. \A q \in Packages \ {p} : pending'[q] = pending[q]
      BY <1>5 DEF Poll
    <2>3. UNCHANGED <<requests, held, excused>>
      BY <1>5 DEF Poll
    <2>4. QED BY <2>1, <2>2, <2>3
  <1>6. CASE Redeliver
    BY <1>6 DEF Redeliver, Fault, CreateAgain, SubmitAgain, RecordAgain,
           NothingPending
  <1>7. ASSUME NEW p \in Packages, Deliver(p) PROVE PendingTrue'
    BY <1>7 DEF Deliver
  <1>8. ASSUME NEW p \in Packages, SubmitRefused(p) \/ Reject(p)
       PROVE  PendingTrue'
    BY <1>8 DEF SubmitRefused, Submitted, Reject
  <1>9. CASE \/ TurnedAway \/ ResetStale \/ Queued \/ Held \/ NoGraphClient \/ AcquireLock
              \/ CreateUser \/ CreateFails \/ SubmitDone \/ PollEnd
              \/ Record \/ AssignPim \/ AssignPimFails \/ Validate
              \/ Finding \/ ValidateFails \/ ReleaseLock \/ Finalize
              \/ End \/ Die
    BY <1>9 DEF TurnedAway, ResetStale, Stale, vars, Queued, Held, NoGraphClient, Fault,
           AcquireLock, CreateUser, Resumes, CreateFails, SubmitDone,
           PollEnd, Record, Arrived, AssignPim, AssignPimFails,
           Validate, Finding, ValidateFails, ReleaseLock, Finalize,
           End, Die
  <1>10. CASE UNCHANGED vars
    BY <1>10 DEF vars
  <1>11. QED
    BY <1>1, <1>2, <1>3, <1>4, <1>5, <1>6, <1>7, <1>8, <1>9, <1>10
       DEF Next, Trigger, Step, SubmitPackage, Answer

LEMMA AccountStep ==
  ASSUME TypeOK, AccountThere, [Next]_vars
  PROVE  AccountThere'
  <1> USE DEF TypeOK, AccountThere, entra, event, work, observed
  <1>1. ASSUME NEW d \in Drivers, Start(d) PROVE AccountThere'
    BY <1>1 DEF Start, NothingPending, Claimable, Stale
  <1>2. CASE CreateUser
    BY <1>2 DEF CreateUser, Resumes
  <1>3. CASE CreateFails
    BY <1>3 DEF CreateFails, Fault
  <1>4. CASE Redeliver
    BY <1>4 DEF Redeliver, Fault, CreateAgain, SubmitAgain, RecordAgain,
           NothingPending
  <1>5. ASSUME NEW p \in Packages, SubmitPackage(p) \/ Poll(p) \/ Answer(p)
       PROVE  AccountThere'
    BY <1>5 DEF SubmitPackage, Answer, SubmitSkip, Submitted, Submit, SubmitRefused,
           SubmitFails,
           Fault, Poll, Polled, Deliver, Reject
  <1>6. CASE \/ TurnedAway \/ ResetStale \/ Queued \/ Held \/ NoGraphClient \/ AcquireLock
              \/ SubmitDone \/ PollEnd \/ Record \/ AssignPim
              \/ AssignPimFails \/ Validate \/ Finding \/ ValidateFails
              \/ ReleaseLock \/ Finalize \/ End \/ Die
    BY <1>6 DEF TurnedAway, ResetStale, Stale, vars, Queued, Held, NoGraphClient, Fault,
           AcquireLock, SubmitDone, PollEnd, Record, Arrived,
           AssignPim, AssignPimFails, Validate, Finding, ValidateFails,
           ReleaseLock, Finalize, End, Die
  <1>7. CASE UNCHANGED vars
    BY <1>7 DEF vars
  <1>8. QED
    BY <1>1, <1>2, <1>3, <1>4, <1>5, <1>6, <1>7
       DEF Next, Trigger, Step, SubmitPackage, Answer

LEMMA PassedStep ==
  ASSUME TypeOK, AccountThere, Passed, [Next]_vars
  PROVE  Passed'
  <1> USE DEF TypeOK, Passed, Arrived, entra, event, work, observed
  <1>1. ASSUME NEW d \in Drivers, Start(d) PROVE Passed'
    BY <1>1 DEF Start, NothingPending, Claimable, Stale
  <1>2. CASE Record
    BY <1>2 DEF Record, Arrived
  <1>3. CASE AssignPim
    BY <1>3 DEF AssignPim
  <1>4. CASE AssignPimFails
    BY <1>4 DEF AssignPimFails
  <1>5. CASE Redeliver
    BY <1>5 DEF Redeliver, Fault, CreateAgain, SubmitAgain, RecordAgain,
           NothingPending
  <1>6. ASSUME NEW p \in Packages, SubmitPackage(p) \/ Poll(p) \/ Answer(p)
       PROVE  Passed'
    BY <1>6 DEF SubmitPackage, Answer, SubmitSkip, Submitted, Submit, SubmitRefused,
           SubmitFails,
           Fault, Poll, Polled, Deliver, Reject
  <1>7. CASE \/ TurnedAway \/ ResetStale \/ Queued \/ Held \/ NoGraphClient \/ AcquireLock
              \/ CreateUser \/ CreateFails \/ SubmitDone \/ PollEnd
              \/ Validate \/ Finding \/ ValidateFails \/ ReleaseLock
              \/ Finalize \/ End \/ Die
    BY <1>7 DEF TurnedAway, ResetStale, Stale, vars, Queued, Held, NoGraphClient, Fault,
           AcquireLock, CreateUser, Resumes, CreateFails, SubmitDone,
           PollEnd, Validate, Finding, ValidateFails, ReleaseLock,
           Finalize, End, Die
  <1>8. CASE UNCHANGED vars
    BY <1>8 DEF vars
  <1>9. QED
    BY <1>1, <1>2, <1>3, <1>4, <1>5, <1>6, <1>7, <1>8
       DEF Next, Trigger, Step, SubmitPackage, Answer

LEMMA GrantedStep ==
  ASSUME Inv, [Next]_vars
  PROVE  CompletedMeansGranted'
  <1> USE DEF Inv, TypeOK, RowFits, PendingTrue, AccountThere, Passed, Arrived,
             CompletedMeansGranted, entra, event, work, observed
  <1>1. ASSUME NEW d \in Drivers, Start(d) PROVE CompletedMeansGranted'
    BY <1>1 DEF Start, NothingPending, Claimable, Stale
  <1>2. CASE AssignPim
    BY <1>2 DEF AssignPim
  <1>3. CASE Finalize
    BY <1>3 DEF Finalize
  <1>4. CASE Redeliver
    BY <1>4 DEF Redeliver, Fault, CreateAgain, SubmitAgain, RecordAgain,
           NothingPending
  <1>5. ASSUME NEW p \in Packages, SubmitPackage(p) \/ Poll(p) \/ Answer(p)
       PROVE  CompletedMeansGranted'
    BY <1>5 DEF SubmitPackage, Answer, SubmitSkip, Submitted, Submit, SubmitRefused,
           SubmitFails,
           Fault, Poll, Polled, Deliver, Reject
  <1>6. CASE \/ TurnedAway \/ ResetStale \/ Queued \/ Held \/ NoGraphClient \/ AcquireLock
              \/ CreateUser \/ CreateFails \/ SubmitDone \/ PollEnd
              \/ Record \/ AssignPimFails \/ Validate \/ Finding
              \/ ValidateFails \/ ReleaseLock \/ End \/ Die
    BY <1>6 DEF TurnedAway, ResetStale, Stale, vars, Queued, Held, NoGraphClient, Fault,
           AcquireLock, CreateUser, Resumes, CreateFails, SubmitDone,
           PollEnd, Record, Arrived, AssignPimFails, Validate,
           Finding, ValidateFails, ReleaseLock, End, Die
  <1>7. CASE UNCHANGED vars
    BY <1>7 DEF vars
  <1>8. QED
    BY <1>1, <1>2, <1>3, <1>4, <1>5, <1>6, <1>7
       DEF Next, Trigger, Step, SubmitPackage, Answer

LEMMA InvAlways == Spec => []Inv
  <1>1. Inv /\ [Next]_vars => Inv'
    BY TypeStep, RowStep, PendingStep, AccountStep, PassedStep, GrantedStep DEF Inv
  <1>2. QED BY <1>1, InvInit, PTL DEF Spec

------------------------------------------------------------------------------
(* Every variable keeps its type.                                          *)
THEOREM TypeCorrect == Spec => []TypeOK
  <1>1. Inv => TypeOK BY DEF Inv
  <1>2. QED BY <1>1, InvAlways, PTL

(* A Joiner that ends as Completed has given its account every package but *)
(* those it skipped in a known way, however its runs before failed.        *)
THEOREM Granted == Spec => []CompletedMeansGranted
  <1>1. Inv => CompletedMeansGranted BY DEF Inv
  <1>2. QED BY <1>1, InvAlways, PTL

(* Only a repeated last activity writes over Completed.                    *)
THEOREM StaysCompleted == Spec => CompletedStays
  <1>1. Inv /\ [Next]_vars =>
          [row = "Completed" /\ row' # "Completed" =>
             driver = "durable" /\ pc = "fail" /\ row' = "Failed"]_vars
    <2> SUFFICES ASSUME Inv, Next, row = "Completed", row' # "Completed"
                 PROVE  driver = "durable" /\ pc = "fail" /\ row' = "Failed"
      OBVIOUS
    <2>1. Finalize
      BY DEF Inv, RowFits, Next, Start, Claimable, Stale, TurnedAway, Trigger, ResetStale, Stale, Step, Queued, Held, NoGraphClient,
             AcquireLock, CreateUser, CreateFails, SubmitPackage, SubmitSkip, Submit,
             SubmitRefused, SubmitFails, Submitted, Poll, SubmitDone, PollEnd, Record,
             AssignPim, AssignPimFails, Validate, Finding, ValidateFails, ReleaseLock,
             End, Die, Redeliver, Answer, Deliver, Reject, vars, event
    <2>2. QED BY <2>1 DEF Finalize, Inv, RowFits
  <1>2. QED BY <1>1, InvAlways, PTL DEF Spec, CompletedStays

------------------------------------------------------------------------------
(* The Joiner implements JoinContract.                                     *)

Requested == {p \in Packages : requests[p] # "none"}

(* Whatever the runs have left behind in Entra belongs to an account that  *)
(* is there and was requested; a run that has seen to a package knows it   *)
(* to be requested or assigned from before.                                *)
Orderly ==
  /\ held \subseteq Requested \union {Pim}
  /\ Requested # {} => account
  /\ pc \in {"submit", "poll"} => result = "PROCEED"
  /\ \A p \in Packages : Arrived(p) => p \in lapsed \union Requested

LEMMA OrderlyInit == Init => Orderly
  BY DEF Init, Orderly, Requested, Arrived, NothingPending

(* Requests are made by a submission alone, and never forgotten.           *)
LEMMA OrderlyStep ==
  ASSUME Inv, Orderly, [Next]_vars
  PROVE  Orderly'
  <1> USE ConstantsAssumption DEF Inv, TypeOK, AccountThere, Orderly, Requested, Arrived,
             entra, event, work, observed
  <1>1. ASSUME NEW d \in Drivers, Start(d) PROVE Orderly'
    BY <1>1 DEF Start, NothingPending
  <1>2. CASE CreateUser \/ CreateFails
    BY <1>2 DEF CreateUser, Resumes, CreateFails
  <1>3. ASSUME NEW p \in Packages, SubmitSkip(p) PROVE Orderly'
    BY <1>3 DEF SubmitSkip, Submitted
  <1>4. ASSUME NEW p \in Packages, Submit(p) PROVE Orderly'
    BY <1>4 DEF Submit, Submitted
  <1>5. ASSUME NEW p \in Packages, SubmitRefused(p) PROVE Orderly'
    BY <1>5 DEF SubmitRefused, Submitted
  <1>6. ASSUME NEW p \in Packages, SubmitFails(p) PROVE Orderly'
    BY <1>6 DEF SubmitFails, Submitted
  <1>7. ASSUME NEW p \in Packages, Poll(p) PROVE Orderly'
    BY <1>7 DEF Poll, Polled
  <1>8. ASSUME NEW p \in Packages, Deliver(p) \/ Reject(p) PROVE Orderly'
    BY <1>8 DEF Deliver, Reject
  <1>9. CASE Redeliver
    BY <1>9 DEF Redeliver, CreateAgain, SubmitAgain, RecordAgain, NothingPending
  <1>10. CASE AssignPim
    BY <1>10 DEF AssignPim
  <1>11. CASE \/ TurnedAway \/ ResetStale \/ Queued \/ Held \/ NoGraphClient \/ AcquireLock
              \/ SubmitDone \/ PollEnd \/ Record \/ AssignPimFails
              \/ Validate \/ Finding \/ ValidateFails \/ ReleaseLock
              \/ Finalize \/ End \/ Die
    BY <1>11 DEF TurnedAway, ResetStale, Stale, vars, Queued, Held, NoGraphClient, AcquireLock, SubmitDone, PollEnd,
           Record, AssignPimFails, Validate, Finding, ValidateFails, ReleaseLock,
           Finalize, End, Die
  <1>12. CASE UNCHANGED vars
    BY <1>12 DEF vars
  <1>13. QED
    BY <1>1, <1>2, <1>3, <1>4, <1>5, <1>6, <1>7, <1>8, <1>9, <1>10, <1>11, <1>12
       DEF Next, Trigger, Step, SubmitPackage, Answer

(* The steps that the contract sees, and what each is there.               *)
LEMMA ContractStep ==
  ASSUME Inv, Orderly, [Next]_vars
  PROVE  Contract!Next \/ UNCHANGED <<account, lapsed, Requested, held, row = "Completed">>
  <1> USE DEF Inv, TypeOK, Requested, entra, event, work, observed
  <1>1. CASE CreateUser \/ CreateFails
    BY <1>1 DEF CreateUser, Resumes, CreateFails, Contract!Next, Contract!Create
  <1>2. ASSUME NEW p \in Packages, Submit(p) \/ SubmitFails(p)
       PROVE  Contract!Request(p) \/ UNCHANGED <<account, lapsed, Requested, held, row>>
    <2>1. UNCHANGED <<account, lapsed, held, row>> /\ pc = "submit"
      BY <1>2 DEF Submit, SubmitFails, Submitted
    <2>2. CASE UNCHANGED requests
      BY <2>1, <2>2
    <2>3. CASE /\ p \notin held \union lapsed
               /\ requests' = [requests EXCEPT ![p] = "open"]
      <3>1. Requested' = Requested \union {p}
        BY <2>3
      <3>2. account
        BY <2>1 DEF Orderly, AccountThere
      <3>3. QED BY <2>1, <2>3, <3>1, <3>2 DEF Contract!Request
    <2>4. QED BY <1>2, <2>2, <2>3 DEF Submit, SubmitFails
  <1>3. ASSUME NEW p \in Packages, Deliver(p) PROVE Contract!Give(p)
    BY <1>3 DEF Deliver, Contract!Give
  <1>4. ASSUME NEW p \in Packages,
              SubmitSkip(p) \/ SubmitRefused(p) \/ Poll(p) \/ Reject(p)
       PROVE  UNCHANGED <<account, lapsed, Requested, held, row>>
    BY <1>4 DEF SubmitSkip, SubmitRefused, Submitted, Poll, Reject
  <1>5. pc \in {"assign", "complete"} => Contract!SeenTo
    BY DEF Passed, AccountThere, Orderly, Contract!SeenTo
  <1>6. CASE AssignPim
    BY <1>5, <1>6 DEF AssignPim, Contract!Next, Contract!MakeEligible
  <1>7. CASE Finalize
    <2>1. UNCHANGED <<account, lapsed, Requested, held>>
      BY <1>7 DEF Finalize
    <2>2. CASE row' = "Completed"
      BY <1>5, <1>7, <2>1, <2>2 DEF Finalize, Contract!Next, Contract!Complete
    <2>3. CASE row' # "Completed"
      BY <2>1, <2>3 DEF Contract!Next, Contract!TakeBack
    <2>4. QED BY <2>2, <2>3
  <1>8. ASSUME NEW d \in Drivers, Start(d)
       PROVE  UNCHANGED <<account, lapsed, Requested, held, row = "Completed">>
    BY <1>8 DEF Start, Claimable, Stale
  <1>9. CASE \/ TurnedAway \/ ResetStale \/ Queued \/ Held \/ NoGraphClient \/ AcquireLock
             \/ SubmitDone \/ PollEnd \/ Record \/ AssignPimFails
             \/ Validate \/ Finding \/ ValidateFails \/ ReleaseLock
             \/ End \/ Die \/ Redeliver \/ UNCHANGED vars
    BY <1>9 DEF RowFits, TurnedAway, ResetStale, Stale, vars, Queued, Held, NoGraphClient, AcquireLock, SubmitDone,
           PollEnd, Record, AssignPimFails, Validate, Finding, ValidateFails,
           ReleaseLock, End, Die, Redeliver
  <1>10. QED
    BY <1>1, <1>2, <1>3, <1>4, <1>6, <1>7, <1>8, <1>9
       DEF Next, Trigger, Step, SubmitPackage, Answer, Contract!Next

(* All runs of a Joiner, by any driver and with any faults, together       *)
(* make the account, the requests, the eligibility and the Completed row   *)
(* in the order of JoinContract, and take nothing away.                    *)
THEOREM Implements == Spec => ImplementsContract
  <1>1. Init => Contract!Init
    BY DEF Init, Contract!Init
  <1>2. Inv /\ Orderly /\ [Next]_vars => Orderly'
    BY OrderlyStep
  <1>3. Inv /\ Orderly /\ [Next]_vars => [Contract!Next]_(Contract!vars)
    BY ContractStep DEF Contract!vars, Requested
  <1>4. QED
    BY <1>1, <1>2, <1>3, OrderlyInit, InvAlways, PTL DEF Spec, ImplementsContract, Contract!Spec
=============================================================================
