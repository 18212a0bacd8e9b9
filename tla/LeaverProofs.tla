---------------------------- MODULE LeaverProofs ----------------------------
(***************************************************************************)
(* Proofs about Leaver, for any packages, any number of runs, terminations *)
(* and faults, with and without a hold, slow runs included.  What is       *)
(* assumed beyond that is in the statement.                                *)
(***************************************************************************)
EXTENDS Leaver, TLAPS

-----------------------------------------------------------------------------
(* Type correctness, with what the event number of a run rests on: an      *)
(* employee who is not employed has been terminated.                       *)

TypeInv == TypeOK /\ (~employed => terminated # 0)

LEMMA TypeInit == Init => TypeInv
<1> SUFFICES ASSUME Init PROVE TypeInv
  OBVIOUS
<1>1. 1 \in Terminations
  BY ConstantsAssumption DEF Terminations
<1>2. pending \in [Runs -> [Packages -> Progress]]
  BY DEF Init, Progress, Decided
<1>3. requests \in [Packages -> RequestState] /\ account \in Account
  BY DEF Init, RequestState, Account
<1>4. pc \in [Runs -> PC]
  BY DEF Init, PC
<1>5. row \in [Terminations -> Row] /\ terminated \in 0..MaxTerminations
  BY ConstantsAssumption DEF Init, Row
<1> QED BY <1>1, <1>2, <1>3, <1>4, <1>5 DEF Init, TypeInv, TypeOK

(* Every step keeps the types.                                             *)
LEMMA TypeStep == TypeInv /\ [Next]_vars => TypeInv'
<1> SUFFICES ASSUME TypeInv, [Next]_vars PROVE TypeInv'
  OBVIOUS
<1>a. /\ {"claim", "guard", "enter", "park", "fetch", "failing", "failed",
           "disable", "revoke", "submit", "poll", "finalize", "pim", "delete",
           "verify", "record", "release", "status", "recorded", "hold", "deferred", "deleting", "idle", "save"} \subseteq PC
      /\ {"todo", "none", "removed", "failed", "unsubmitted", "submitted",
          "delivered", "rejected"} \subseteq Progress
      /\ {"Pending", "Processing", "Completed", "Failed"} \subseteq Row
      /\ {"enabled", "disabled", "gone"} \subseteq Account
      /\ {"none", "open", "delivered", "rejected"} \subseteq RequestState
      /\ {"OFFBOARD_SUCCESS", "OFFBOARD_PARTIAL", "OFFBOARD_FAILED"} \subseteq Final
  BY DEF PC, Pre, Removal, Closing, Deferral, Progress, Decided, Row, Account,
     RequestState, Final
<1>b. Fault \/ NoFault => faults' \in Nat
  BY ConstantsAssumption DEF Fault, NoFault, TypeInv, TypeOK
<1> USE <1>a, <1>b DEF TypeInv, TypeOK, hr, entra, store, task, outcome, ghosts,
        Goto, SetRow, SetLog, Unlock, SetPending
<1>1. ASSUME NEW r \in Runs, Start(r) PROVE TypeInv'
  BY <1>1, ConstantsAssumption DEF Start, Terminations
<1>2. ASSUME NEW r \in Runs, Step(r) PROVE TypeInv'
  <2>1. CASE Claim(r) BY <2>1 DEF Claim
  <2>2. CASE Duplicate(r) BY <2>2 DEF Duplicate
  <2>3. CASE Guard(r)
    <3>1. /\ Goto(r, "enter") \/ Goto(r, "park")
          /\ Fault \/ NoFault
          /\ UNCHANGED <<hr, entra, store, task, pending, outcome, ghosts>>
      BY <2>3 DEF Guard
    <3> QED BY <3>1
  <2>4. CASE FetchCurrentState(r) BY <2>4 DEF FetchCurrentState
  <2>5. CASE FetchFails(r) BY <2>5 DEF FetchFails
  <2>6. CASE Disable(r) BY <2>6 DEF Disable, CallFails
  <2>7. CASE Revoke(r) BY <2>7 DEF Revoke, CallFails, Submission
  <2>8. CASE SubmitDone(r) BY <2>8 DEF SubmitDone
  <2>9. CASE PollEnd(r) BY <2>9 DEF PollEnd
  <2>10. CASE FinalizeDone(r) BY <2>10 DEF FinalizeDone
  <2>11. CASE PimTerminate(r) BY <2>11 DEF PimTerminate
  <2>12. CASE SoftDelete(r) BY <2>12 DEF SoftDelete, DeleteObject, NothingDeleted
  <2>13. CASE Verify(r) BY <2>13 DEF Verify
  <2>14. CASE Record(r) BY <2>14 DEF Record
  <2>23. CASE LogFailure(r) BY <2>23 DEF LogFailure
  <2>24. CASE FailEvent(r) BY <2>24 DEF FailEvent
  <2>25. CASE ReleaseLock(r) BY <2>25 DEF ReleaseLock
  <2>26. CASE UpdateStatus(r) BY <2>26 DEF UpdateStatus
  <2>15. CASE Recorded(r) BY <2>15 DEF Recorded, Submission
  <2>16. CASE HoldExpires(r) BY <2>16 DEF HoldExpires
  <2>17. CASE DeferredGuard(r) BY <2>17 DEF DeferredGuard
  <2>18. CASE DeferredDelete(r)
    BY <2>18 DEF DeferredDelete, DeleteObject, NothingDeleted
  <2>19. CASE SaveLastState(r) BY <2>19 DEF SaveLastState
  <2>21. CASE Enter(r) BY <2>21 DEF Enter
  <2>22. CASE Park(r) BY <2>22 DEF Park
  <2>20. ASSUME NEW p \in Packages, Removals(r, p) PROVE TypeInv'
    <3>1. CASE Submit(r, p) BY <3>1 DEF Submit, Request
    <3>2. CASE SubmitFails(r, p) BY <3>2 DEF SubmitFails, Request
    <3>3. CASE Poll(r, p) BY <3>3 DEF Poll
    <3>4. CASE FinalizeRemoval(r, p)
      <4>1. /\ \E s \in {"failed", "removed"} : SetPending(r, p, s)
            /\ Fault \/ NoFault
            /\ UNCHANGED <<hr, entra, store, pc, task, outcome, ghosts>>
        BY <3>4 DEF FinalizeRemoval, NoFault
      <4> QED BY <4>1
    <3> QED BY <2>20, <3>1, <3>2, <3>3, <3>4 DEF Removals
  <2> QED BY <1>2, <2>1, <2>2, <2>3, <2>4, <2>5, <2>6, <2>7, <2>8, <2>9, <2>10,
             <2>11, <2>12, <2>13, <2>14, <2>15, <2>16, <2>17, <2>18, <2>19,
             <2>20, <2>21, <2>22, <2>23, <2>24, <2>25, <2>26 DEF Step
<1>3. ASSUME NEW r \in Runs, Die(r) PROVE TypeInv' BY <1>3 DEF Die
<1>4. ASSUME NEW r \in Runs, Redeliver(r) PROVE TypeInv'
  <2>1. /\ \/ (\E l \in {"claim", "pim", "deferred"} : Goto(r, l)) /\ UNCHANGED pending
           \/ Submission(r, had[r]) /\ UNCHANGED pc
        /\ UNCHANGED <<hr, entra, store, task, outcome, ghosts>>
        /\ faults' \in Nat
    BY <1>4 DEF Redeliver
  <2>2. \/ pending' = pending
        \/ \E f \in [Packages -> Progress] : pending' = [pending EXCEPT ![r] = f]
    <3>1. [p \in Packages |-> IF p \in had[r] THEN "todo" ELSE "none"]
             \in [Packages -> Progress]
      OBVIOUS
    <3> QED BY <2>1, <3>1 DEF Submission
  <2>3. pending' \in [Runs -> [Packages -> Progress]]
    BY <2>2
  <2>4. pc' \in [Runs -> PC]
    <3>1. pc' = pc \/ \E l \in PC : pc' = [pc EXCEPT ![r] = l]
      BY <2>1
    <3>2. pc \in [Runs -> PC]
      OBVIOUS
    <3> HIDE <1>a, <1>b
    <3> QED BY <3>1, <3>2
  <2> QED BY <2>1, <2>3, <2>4
<1>5. CASE Environment
  <2>1. ASSUME NEW p \in Packages,
               DeliverRemoval(p) \/ RejectRemoval(p) \/ OthersAdd(p)
        PROVE TypeInv'
    <3>1. CASE DeliverRemoval(p) BY <3>1 DEF DeliverRemoval, Answer
    <3>2. CASE RejectRemoval(p) BY <3>2 DEF RejectRemoval, Answer
    <3>3. CASE OthersAdd(p) BY <3>3 DEF OthersAdd
    <3> QED BY <2>1, <3>1, <3>2, <3>3
  <2>2. CASE SignIn BY <2>2 DEF SignIn
  <2>3. CASE Terminate
    <3>1. terminated' \in 0..MaxTerminations /\ terminated' # 0 /\ employed' \in BOOLEAN
      <4>1. employed' = FALSE /\ terminated' = terminated + 1 /\ terminated < MaxTerminations
        BY <2>3 DEF Terminate
      <4>2. terminated \in 0..MaxTerminations /\ MaxTerminations \in Nat
        BY ConstantsAssumption
      <4>3. terminated + 1 \in 0..MaxTerminations /\ terminated + 1 # 0
        BY <4>1, <4>2
      <4> QED BY <4>1, <4>3
    <3>2. UNCHANGED <<last, joined, entra, store, pc, task, pending, outcome, faults,
                      ghosts>>
      BY <2>3 DEF Terminate
    <3> QED BY <3>1, <3>2
  <2>4. CASE Rehire BY <2>4 DEF Rehire
  <2>5. CASE Join BY <2>5 DEF Join
  <2>6. CASE JoinerSaves BY <2>6 DEF JoinerSaves
  <2>7. CASE Enable BY <2>7 DEF Enable
  <2>8. ASSUME NEW t \in Terminations, JoinerResets(t) PROVE TypeInv'
    BY <2>8 DEF JoinerResets
  <2> QED BY <1>5, <2>1, <2>2, <2>3, <2>4, <2>5, <2>6, <2>7, <2>8 DEF Environment
<1>6. CASE UNCHANGED vars BY <1>6 DEF vars
<1> QED BY <1>1, <1>2, <1>3, <1>4, <1>5, <1>6 DEF Next

(* Every variable of the Leaver keeps its type.                            *)
THEOREM TypeCorrect == Spec => []TypeOK
<1>1. TypeInv => TypeOK
  BY DEF TypeInv
<1> QED BY <1>1, TypeInit, TypeStep, PTL DEF Spec
-----------------------------------------------------------------------------
(* The lockout.  LockedOutFirst is inductive once two things are added: an *)
(* object id behind a UPN is never used again, and between the two calls   *)
(* of ADR-015 the account is already disabled.                             *)

OldObjects == \A r \in Runs : user[r] <= object

DisabledFirst ==
  \A r \in Runs :
    pc[r] = "revoke" /\ Reaches(r) /\ r \notin unlocked \cup reopened
      => account = "disabled"

LockInv == TypeInv /\ OldObjects /\ DisabledFirst /\ LockedOutFirst

LEMMA LockInit == Init => LockInv
<1> SUFFICES ASSUME Init PROVE LockInv
  OBVIOUS
<1>1. \A r \in Runs : user[r] = 0 /\ pc[r] = "idle"
  BY DEF Init
<1> QED
  BY <1>1, TypeInit DEF Init, LockInv, OldObjects, DisabledFirst, LockedOutFirst,
     Removal, Closing, Deferral

(* Every step keeps the lockout.                                           *)
LEMMA LockStep == LockInv /\ [Next]_vars => LockInv'
<1> SUFFICES ASSUME LockInv, [Next]_vars
             PROVE (OldObjects /\ DisabledFirst /\ LockedOutFirst)'
  BY TypeStep DEF LockInv
<1> DEFINE Kept == OldObjects /\ DisabledFirst /\ LockedOutFirst
<1>0. /\ pc \in [Runs -> PC] /\ user \in [Runs -> Nat] /\ object \in Nat
      /\ unlocked \subseteq Runs /\ reopened \subseteq Runs
      /\ Kept
  BY DEF LockInv, TypeInv, TypeOK
<1> USE <1>0 DEF OldObjects, DisabledFirst, LockedOutFirst, Reaches, Pre, Removal,
        Closing, Deferral, hr, entra, store, task, outcome, ghosts, Goto, SetLog,
        Fault, NoFault
<1>1. ASSUME NEW q \in Runs, Start(q) PROVE Kept' BY <1>1 DEF Start
<1>2. ASSUME NEW q \in Runs, Step(q) PROVE Kept'
  <2>1. CASE Claim(q) BY <2>1 DEF Claim
  <2>2. CASE Duplicate(q) BY <2>2 DEF Duplicate
  <2>3. CASE Guard(q) BY <2>3 DEF Guard
  <2>4. CASE FetchCurrentState(q) BY <2>4 DEF FetchCurrentState
  <2>5. CASE FetchFails(q) BY <2>5 DEF FetchFails
  <2>6. CASE Disable(q) BY <2>6 DEF Disable, CallFails
  <2>7. CASE Revoke(q) BY <2>7 DEF Revoke, CallFails, Submission
  <2>8. CASE SubmitDone(q) BY <2>8 DEF SubmitDone
  <2>9. CASE PollEnd(q) BY <2>9 DEF PollEnd
  <2>10. CASE FinalizeDone(q) BY <2>10 DEF FinalizeDone
  <2>11. CASE PimTerminate(q) BY <2>11 DEF PimTerminate
  <2>12. CASE SoftDelete(q) BY <2>12 DEF SoftDelete, DeleteObject, NothingDeleted
  <2>13. CASE Verify(q) BY <2>13 DEF Verify
  <2>14. CASE Record(q) BY <2>14 DEF Record
  <2>23. CASE LogFailure(q) BY <2>23 DEF LogFailure
  <2>24. CASE FailEvent(q) BY <2>24 DEF FailEvent
  <2>25. CASE ReleaseLock(q) BY <2>25 DEF ReleaseLock
  <2>26. CASE UpdateStatus(q) BY <2>26 DEF UpdateStatus
  <2>15. CASE Recorded(q) BY <2>15 DEF Recorded, Submission
  <2>16. CASE HoldExpires(q) BY <2>16 DEF HoldExpires
  <2>17. CASE DeferredGuard(q) BY <2>17 DEF DeferredGuard
  <2>18. CASE DeferredDelete(q) BY <2>18 DEF DeferredDelete, DeleteObject, NothingDeleted
  <2>19. CASE SaveLastState(q) BY <2>19 DEF SaveLastState
  <2>21. CASE Enter(q) BY <2>21 DEF Enter
  <2>22. CASE Park(q) BY <2>22 DEF Park
  <2>20. ASSUME NEW p \in Packages, Removals(q, p) PROVE Kept'
    <3>1. CASE Submit(q, p) BY <3>1 DEF Submit, Request
    <3>2. CASE SubmitFails(q, p) BY <3>2 DEF SubmitFails, Request
    <3>3. CASE Poll(q, p) BY <3>3 DEF Poll
    <3>4. CASE FinalizeRemoval(q, p) BY <3>4 DEF FinalizeRemoval
    <3> QED BY <2>20, <3>1, <3>2, <3>3, <3>4 DEF Removals
  <2> QED BY <1>2, <2>1, <2>2, <2>3, <2>4, <2>5, <2>6, <2>7, <2>8, <2>9, <2>10,
             <2>11, <2>12, <2>13, <2>14, <2>15, <2>16, <2>17, <2>18, <2>19,
             <2>20, <2>21, <2>22, <2>23, <2>24, <2>25, <2>26 DEF Step
<1>3. ASSUME NEW q \in Runs, Die(q) PROVE Kept' BY <1>3 DEF Die
<1>4. ASSUME NEW q \in Runs, Redeliver(q) PROVE Kept'
  BY <1>4 DEF Redeliver, Submission
<1>5. CASE Environment
  <2>1. ASSUME NEW p \in Packages, DeliverRemoval(p) PROVE Kept'
    BY <2>1 DEF DeliverRemoval, Answer
  <2>2. ASSUME NEW p \in Packages, RejectRemoval(p) PROVE Kept'
    BY <2>2 DEF RejectRemoval, Answer
  <2>3. ASSUME NEW p \in Packages, OthersAdd(p) PROVE Kept'
    BY <2>3 DEF OthersAdd
  <2>4. CASE SignIn BY <2>4 DEF SignIn
  <2>5. CASE Terminate BY <2>5 DEF Terminate
  <2>6. CASE Rehire BY <2>6 DEF Rehire
  <2>7. CASE Join BY <2>7 DEF Join
  <2>8. CASE JoinerSaves BY <2>8 DEF JoinerSaves
  <2>9. CASE Enable BY <2>9 DEF Enable
  <2>10. ASSUME NEW t \in Terminations, JoinerResets(t) PROVE Kept'
    BY <2>10 DEF JoinerResets, StaleLock
  <2> QED BY <1>5, <2>1, <2>2, <2>3, <2>4, <2>5, <2>6, <2>7, <2>8, <2>9, <2>10
          DEF Environment
<1>6. CASE UNCHANGED vars BY <1>6 DEF vars
<1> QED BY <1>1, <1>2, <1>3, <1>4, <1>5, <1>6 DEF Next

(* ADR-015, for every instance: when a removal is submitted, and as long   *)
(* as the offboarding lasts, the account is disabled and no session is     *)
(* left, or the run logged a failed call, or someone enabled the account.  *)
THEOREM LockedOut == Spec => []LockedOutFirst
<1>1. LockInv => LockedOutFirst
  BY DEF LockInv
<1> QED BY <1>1, LockInit, LockStep, PTL DEF Spec
-----------------------------------------------------------------------------
(* OFFBOARD_SUCCESS.  The inductive invariant follows a package from the   *)
(* fetch to the verdict: of the packages a run found, none is left out of  *)
(* its set, and one that was delivered or found gone is no longer held,    *)
(* unless another pipeline has added it since or the check cannot see it.  *)

Lost(r, p) == p \notin held \/ p \in regained[r] \cup Shadowed

NoneLeftOut ==
  \A r \in Runs, p \in Packages :
    pc[r] \in Removal \cup Closing /\ Reaches(r) /\ p \in had[r]
      => pending[r][p] # "none"

RemovedIsLost ==
  \A r \in Runs, p \in Packages :
    pc[r] \in Removal \cup Closing /\ Reaches(r) =>
      /\ pending[r][p] \in {"removed", "delivered"} => Lost(r, p)
      /\ pending[r][p] = "submitted" /\ requests[p] = "delivered" => Lost(r, p)

AllDecided ==
  \A r \in Runs, p \in Packages :
    pc[r] \in Closing => pending[r][p] \in Decided

DeletedIsGone == \A r \in deleted : ~Reaches(r)

NoEarlyVerdict == \A r \in Runs : pc[r] \in Pre => result[r] # "OFFBOARD_SUCCESS"

SuccessInv ==
  /\ TypeInv /\ OldObjects /\ NoneLeftOut /\ RemovedIsLost /\ AllDecided
  /\ DeletedIsGone /\ NoEarlyVerdict /\ SuccessMeansCutOff

LEMMA SuccessInit == Init => SuccessInv
<1> SUFFICES ASSUME Init PROVE SuccessInv
  OBVIOUS
<1>1. \A r \in Runs : user[r] = 0 /\ pc[r] = "idle" /\ result[r] = "none"
  BY DEF Init
<1> QED
  BY <1>1, TypeInit DEF Init, SuccessInv, OldObjects, NoneLeftOut, RemovedIsLost,
     AllDecided, DeletedIsGone, NoEarlyVerdict, SuccessMeansCutOff, Pre, Removal,
     Closing

(* Every step keeps it.                                                    *)
LEMMA SuccessStep == SuccessInv /\ [Next]_vars => SuccessInv'
<1> DEFINE Kept == /\ OldObjects /\ NoneLeftOut /\ RemovedIsLost /\ AllDecided
                   /\ DeletedIsGone /\ NoEarlyVerdict /\ SuccessMeansCutOff
<1> SUFFICES ASSUME SuccessInv, [Next]_vars PROVE Kept'
  BY TypeStep DEF SuccessInv
<1>0. /\ pc \in [Runs -> PC] /\ user \in [Runs -> Nat] /\ object \in Nat
      /\ had \in [Runs -> SUBSET Packages] /\ held \subseteq Packages
      /\ pending \in [Runs -> [Packages -> Progress]]
      /\ requests \in [Packages -> RequestState]
      /\ result \in [Runs -> {"none"} \cup Final]
      /\ regained \in [Runs -> SUBSET Packages]
      /\ deleted \subseteq Runs /\ reopened \subseteq Runs
      /\ Kept
  BY DEF SuccessInv, TypeInv, TypeOK
<1> USE <1>0 DEF OldObjects, NoneLeftOut, RemovedIsLost, AllDecided, DeletedIsGone,
        NoEarlyVerdict, SuccessMeansCutOff, Lost, Decided, Reaches, Pre, Removal,
        Closing, hr, entra, store, task, outcome, ghosts, Goto, SetLog, SetPending,
        Fault, NoFault
<1>1. ASSUME NEW q \in Runs, Start(q) PROVE Kept' BY <1>1 DEF Start
<1>2. ASSUME NEW q \in Runs, Step(q) PROVE Kept'
  <2>1. CASE Claim(q) BY <2>1 DEF Claim
  <2>2. CASE Duplicate(q) BY <2>2 DEF Duplicate
  <2>3. CASE Guard(q) BY <2>3 DEF Guard
  <2>4. CASE FetchCurrentState(q) BY <2>4 DEF FetchCurrentState
  <2>5. CASE FetchFails(q) BY <2>5 DEF FetchFails
  <2>6. CASE Disable(q) BY <2>6 DEF Disable, CallFails
  <2>7. CASE Revoke(q) BY <2>7 DEF Revoke, CallFails, Submission
  <2>8. CASE SubmitDone(q) BY <2>8 DEF SubmitDone
  <2>9. CASE PollEnd(q) BY <2>9 DEF PollEnd
  <2>10. CASE FinalizeDone(q) BY <2>10 DEF FinalizeDone
  <2>11. CASE PimTerminate(q) BY <2>11 DEF PimTerminate
  <2>12. CASE SoftDelete(q) BY <2>12 DEF SoftDelete, DeleteObject, NothingDeleted
  <2>13. CASE Verify(q) BY <2>13 DEF Verify, PackagesCleared
  <2>14. CASE Record(q) BY <2>14 DEF Record
  <2>23. CASE LogFailure(q) BY <2>23 DEF LogFailure
  <2>24. CASE FailEvent(q) BY <2>24 DEF FailEvent
  <2>25. CASE ReleaseLock(q) BY <2>25 DEF ReleaseLock
  <2>26. CASE UpdateStatus(q) BY <2>26 DEF UpdateStatus
  <2>15. CASE Recorded(q) BY <2>15 DEF Recorded, Submission
  <2>16. CASE HoldExpires(q) BY <2>16 DEF HoldExpires
  <2>17. CASE DeferredGuard(q) BY <2>17 DEF DeferredGuard
  <2>18. CASE DeferredDelete(q) BY <2>18 DEF DeferredDelete, DeleteObject, NothingDeleted
  <2>19. CASE SaveLastState(q) BY <2>19 DEF SaveLastState
  <2>21. CASE Enter(q) BY <2>21 DEF Enter
  <2>22. CASE Park(q) BY <2>22 DEF Park
  <2>20. ASSUME NEW p \in Packages, Removals(q, p) PROVE Kept'
    <3>1. CASE Submit(q, p) BY <3>1 DEF Submit, Request
    <3>2. CASE SubmitFails(q, p) BY <3>2 DEF SubmitFails, Request
    <3>3. CASE Poll(q, p) BY <3>3 DEF Poll
    <3>4. CASE FinalizeRemoval(q, p)
      <4>1. /\ pc[q] = "finalize"
            /\ UNCHANGED <<hr, entra, store, pc, task, outcome, faults, ghosts>>
        BY <3>4 DEF FinalizeRemoval
      <4>2. \/ SetPending(q, p, "failed")
            \/ /\ SetPending(q, p, "removed")
               /\ \/ pending[q][p] = "delivered"
                  \/ ~Reaches(q) \/ p \notin held \/ p \in Shadowed
        BY <3>4 DEF FinalizeRemoval, Answers
      <4>3. \E s \in {"failed", "removed"} :
              /\ \A r \in Runs, x \in Packages :
                   pending'[r][x] = IF r = q /\ x = p THEN s ELSE pending[r][x]
              /\ s = "removed" => \/ pending[q][p] = "delivered"
                                  \/ ~Reaches(q) \/ p \notin held \/ p \in Shadowed
        BY <4>2
      <4>4. NoneLeftOut' BY <4>1, <4>3
      <4>5. RemovedIsLost' BY <4>1, <4>3
      <4>6. AllDecided' BY <4>1, <4>3
      <4>7. (OldObjects /\ DeletedIsGone /\ NoEarlyVerdict /\ SuccessMeansCutOff)'
        BY <4>1
      <4> QED BY <4>4, <4>5, <4>6, <4>7
    <3> QED BY <2>20, <3>1, <3>2, <3>3, <3>4 DEF Removals
  <2> QED BY <1>2, <2>1, <2>2, <2>3, <2>4, <2>5, <2>6, <2>7, <2>8, <2>9, <2>10,
             <2>11, <2>12, <2>13, <2>14, <2>15, <2>16, <2>17, <2>18, <2>19,
             <2>20, <2>21, <2>22, <2>23, <2>24, <2>25, <2>26 DEF Step
<1>3. ASSUME NEW q \in Runs, Die(q) PROVE Kept' BY <1>3 DEF Die
<1>4. ASSUME NEW q \in Runs, Redeliver(q) PROVE Kept'
  <2>1. CASE pc[q] = "submit"
    <3>1. /\ UNCHANGED <<pc, hr, entra, store, task, outcome, ghosts>>
          /\ \A r \in Runs, p \in Packages :
               pending'[r][p] = IF r # q THEN pending[r][p]
                                ELSE IF p \in had[q] THEN "todo" ELSE "none"
      BY <1>4, <2>1 DEF Redeliver, Submission
    <3>2. NoneLeftOut' BY <2>1, <3>1
    <3>3. RemovedIsLost' BY <2>1, <3>1
    <3>4. AllDecided' BY <2>1, <3>1
    <3>5. (OldObjects /\ DeletedIsGone /\ NoEarlyVerdict /\ SuccessMeansCutOff)'
      BY <3>1
    <3> QED BY <3>2, <3>3, <3>4, <3>5
  <2>2. CASE pc[q] \in Pre
    BY <1>4, <2>2 DEF Redeliver
  <2>3. CASE pc[q] \in Closing \/ pc[q] = "deleting"
    BY <1>4, <2>3 DEF Redeliver
  <2> QED BY <1>4, <2>1, <2>2, <2>3 DEF Redeliver
<1>5. CASE Environment
  <2>1. ASSUME NEW p \in Packages, DeliverRemoval(p) PROVE Kept'
    BY <2>1 DEF DeliverRemoval, Answer
  <2>2. ASSUME NEW p \in Packages, RejectRemoval(p) PROVE Kept'
    BY <2>2 DEF RejectRemoval, Answer
  <2>3. ASSUME NEW p \in Packages, OthersAdd(p) PROVE Kept'
    BY <2>3 DEF OthersAdd
  <2>4. CASE SignIn BY <2>4 DEF SignIn
  <2>5. CASE Terminate BY <2>5 DEF Terminate
  <2>6. CASE Rehire BY <2>6 DEF Rehire
  <2>7. CASE Join BY <2>7 DEF Join
  <2>8. CASE JoinerSaves BY <2>8 DEF JoinerSaves
  <2>9. CASE Enable BY <2>9 DEF Enable
  <2>10. ASSUME NEW t \in Terminations, JoinerResets(t) PROVE Kept'
    BY <2>10 DEF JoinerResets, StaleLock
  <2> QED BY <1>5, <2>1, <2>2, <2>3, <2>4, <2>5, <2>6, <2>7, <2>8, <2>9, <2>10
          DEF Environment
<1>6. CASE UNCHANGED vars BY <1>6 DEF vars
<1> QED BY <1>1, <1>2, <1>3, <1>4, <1>5, <1>6 DEF Next

(* OFFBOARD_SUCCESS, for every instance: the account stays disabled until  *)
(* someone enables it, and none of the packages found at the fetch is held *)
(* except what another pipeline has added since or the check cannot see.   *)
THEOREM SuccessCutsOff == Spec => []SuccessMeansCutOff
<1>1. SuccessInv => SuccessMeansCutOff
  BY DEF SuccessInv
<1> QED BY <1>1, SuccessInit, SuccessStep, PTL DEF Spec
-----------------------------------------------------------------------------
(* A success in both tables.  As long as runs of one event do not overlap, *)
(* only the run that closed the event writes over it: nothing claims a     *)
(* Completed row, and no run of the event has yet to reach its verdict.    *)

AtWork == (Pre \ {"claim"}) \cup Removal \cup Closing

OneAtATime ==
  \A q, r \in Runs :
    q # r /\ ev[q] = ev[r] /\ pc[q] \in AtWork => pc[r] \notin AtWork

Done(r) == row[ev[r]] = "Completed"

Shut(r) == Reaches(r) /\ r \notin reopened => account = "disabled"

NoneUndecided ==
  \A r \in Runs : Done(r) => pc[r] \notin (Pre \ {"claim"}) \cup Removal

DoneStands ==
  \A r \in Runs : Done(r) /\ pc[r] \in Closing => PackagesCleared(r) /\ Shut(r)

VerdictFits ==
  \A r \in Runs : pc[r] \in {"record", "release", "status"} =>
    /\ result[r] \in Final
    /\ result[r] = "OFFBOARD_SUCCESS" => PackagesCleared(r) /\ Shut(r)
    /\ result[r] = "OFFBOARD_PARTIAL" /\ Done(r) => r \in reopened \/ ~Reaches(r)

LoggedInv ==
  /\ TypeInv /\ OldObjects /\ DeletedIsGone
  /\ NoneUndecided /\ DoneStands /\ VerdictFits

LEMMA LoggedInit == Init => LoggedInv
<1> SUFFICES ASSUME Init PROVE LoggedInv
  OBVIOUS
<1>1. \A r \in Runs : user[r] = 0 /\ pc[r] = "idle"
  BY DEF Init
<1>2. \A t \in Terminations : row[t] = "Absent"
  BY DEF Init
<1>3. TypeInv
  BY TypeInit
<1>4. \A r \in Runs : ev[r] \in Terminations
  BY <1>3 DEF TypeInv, TypeOK
<1> QED
  BY <1>1, <1>2, <1>3, <1>4 DEF Init, LoggedInv, OldObjects, DeletedIsGone,
     NoneUndecided, DoneStands, VerdictFits, Done, Pre, Removal, Closing

(* Every step keeps it.                                                    *)
LEMMA LoggedStep == LoggedInv /\ OneAtATime /\ [Next]_vars => LoggedInv'
<1> DEFINE Kept == /\ OldObjects /\ DeletedIsGone /\ NoneUndecided
                   /\ DoneStands /\ VerdictFits
<1> SUFFICES ASSUME LoggedInv, OneAtATime, [Next]_vars PROVE Kept'
  BY TypeStep DEF LoggedInv
<1>0. /\ pc \in [Runs -> PC] /\ user \in [Runs -> Nat] /\ object \in Nat
      /\ ev \in [Runs -> Terminations]
      /\ row \in [Terminations -> Row]
      /\ log \in [Terminations -> {"none", "IN_PROGRESS", "QUEUED_CONCURRENT"} \cup Final]
      /\ pending \in [Runs -> [Packages -> Progress]]
      /\ result \in [Runs -> {"none"} \cup Final]
      /\ deleted \subseteq Runs /\ reopened \subseteq Runs
      /\ Kept
  BY DEF LoggedInv, TypeInv, TypeOK
<1> USE <1>0 DEF OldObjects, DeletedIsGone, NoneUndecided, DoneStands,
        VerdictFits, Done, Shut, PackagesCleared, Reaches, Pre, Removal, Closing, hr, entra, store, task, outcome, ghosts, Goto, SetRow,
        SetLog, SetPending, Fault, NoFault
<1>1. ASSUME NEW q \in Runs, Start(q) PROVE Kept' BY <1>1 DEF Start
<1>2. ASSUME NEW q \in Runs, Step(q) PROVE Kept'
  <2>1. CASE Claim(q) BY <2>1 DEF Claim, StaleLock
  <2>2. CASE Duplicate(q) BY <2>2 DEF Duplicate
  <2>3. CASE Guard(q) BY <2>3 DEF Guard
  <2>4. CASE FetchCurrentState(q) BY <2>4 DEF FetchCurrentState
  <2>5. CASE FetchFails(q) BY <2>5 DEF FetchFails
  <2>6. CASE Disable(q) BY <2>6 DEF Disable, CallFails
  <2>7. CASE Revoke(q) BY <2>7 DEF Revoke, CallFails, Submission
  <2>8. CASE SubmitDone(q) BY <2>8 DEF SubmitDone
  <2>9. CASE PollEnd(q) BY <2>9 DEF PollEnd
  <2>10. CASE FinalizeDone(q) BY <2>10 DEF FinalizeDone
  <2>11. CASE PimTerminate(q) BY <2>11 DEF PimTerminate
  <2>12. CASE SoftDelete(q) BY <2>12 DEF SoftDelete, DeleteObject, NothingDeleted
  <2>13. CASE Verify(q) BY <2>13 DEF Verify
  <2>14. CASE Record(q) BY <2>14 DEF Record
  <2>23. CASE LogFailure(q) BY <2>23 DEF LogFailure
  <2>24. CASE FailEvent(q) BY <2>24 DEF FailEvent
  <2>25. CASE ReleaseLock(q) BY <2>25 DEF ReleaseLock
  <2>26. CASE UpdateStatus(q)
    <3>1. /\ pc[q] = "status" /\ pc' = [pc EXCEPT ![q] = "recorded"]
          /\ row' = [row EXCEPT ![ev[q]] =
                       IF result[q] = "OFFBOARD_SUCCESS" THEN "Completed" ELSE "Failed"]
          /\ UNCHANGED <<entra, log, task, pending, outcome, ghosts>>
      BY <2>26 DEF UpdateStatus
    <3>2. \A r \in Runs \ {q} : ev[r] = ev[q] => pc[r] \notin AtWork
      BY <3>1 DEF OneAtATime, AtWork
    <3>3. \A r \in Runs \ {q} : pc[r] \in AtWork => Done(r)' = Done(r)
      BY <3>1, <3>2
    <3>4. \A r \in Runs \ {q} : pc'[r] = pc[r]
      BY <3>1
    <3>5. pc'[q] = "recorded" /\ (Done(q)' => PackagesCleared(q) /\ Shut(q))
      BY <3>1
    <3>6. NoneUndecided'
      BY <3>3, <3>4, <3>5 DEF AtWork
    <3>7. DoneStands'
      BY <3>1, <3>3, <3>4, <3>5 DEF AtWork
    <3>8. VerdictFits'
      BY <3>1, <3>3, <3>4, <3>5 DEF AtWork
    <3> QED BY <3>1, <3>6, <3>7, <3>8
  <2>15. CASE Recorded(q) BY <2>15 DEF Recorded, Submission
  <2>16. CASE HoldExpires(q) BY <2>16 DEF HoldExpires
  <2>17. CASE DeferredGuard(q)
    <3>1. /\ pc'[q] \in {"deleting", "save"}
          /\ \A r \in Runs \ {q} : pc'[r] = pc[r]
          /\ UNCHANGED <<entra, store, task, pending, outcome, ghosts>>
      BY <2>17 DEF DeferredGuard
    <3> QED BY <3>1
  <2>18. CASE DeferredDelete(q) BY <2>18 DEF DeferredDelete, DeleteObject, NothingDeleted
  <2>19. CASE SaveLastState(q) BY <2>19 DEF SaveLastState
  <2>21. CASE Enter(q) BY <2>21 DEF Enter
  <2>22. CASE Park(q) BY <2>22 DEF Park
  <2>20. ASSUME NEW p \in Packages, Removals(q, p) PROVE Kept'
    <3>1. CASE Submit(q, p) BY <3>1 DEF Submit, Request
    <3>2. CASE SubmitFails(q, p) BY <3>2 DEF SubmitFails, Request
    <3>3. CASE Poll(q, p) BY <3>3 DEF Poll
    <3>4. CASE FinalizeRemoval(q, p)
      <4>1. /\ pc[q] = "finalize"
            /\ UNCHANGED <<hr, entra, store, pc, task, outcome, ghosts>>
            /\ \A r \in Runs \ {q} : pending'[r] = pending[r]
        BY <3>4 DEF FinalizeRemoval
      <4>2. (OldObjects /\ DeletedIsGone /\ NoneUndecided)'
        BY <4>1
      <4>3. \A r \in Runs :
              pc[r] \in Closing => r # q /\ (PackagesCleared(r)' <=> PackagesCleared(r))
        BY <4>1
      <4>4. DoneStands' /\ VerdictFits'
        BY <4>1, <4>3
      <4> QED BY <4>2, <4>4
    <3> QED BY <2>20, <3>1, <3>2, <3>3, <3>4 DEF Removals
  <2> QED BY <1>2, <2>1, <2>2, <2>3, <2>4, <2>5, <2>6, <2>7, <2>8, <2>9, <2>10,
             <2>11, <2>12, <2>13, <2>14, <2>15, <2>16, <2>17, <2>18, <2>19,
             <2>20, <2>21, <2>22, <2>23, <2>24, <2>25, <2>26 DEF Step
<1>3. ASSUME NEW q \in Runs, Die(q) PROVE Kept' BY <1>3 DEF Die
<1>4. ASSUME NEW q \in Runs, Redeliver(q) PROVE Kept'
  <2>1. UNCHANGED <<entra, store, task, outcome, ghosts>>
    BY <1>4 DEF Redeliver
  <2>2. CASE pc[q] = "submit"
    <3>1. /\ UNCHANGED pc
          /\ \A r \in Runs \ {q} : pending'[r] = pending[r]
      BY <1>4, <2>2 DEF Redeliver, Submission
    <3>2. \A r \in Runs : (Done(r)' <=> Done(r)) /\ (Shut(r)' <=> Shut(r))
      BY <2>1
    <3>3. (OldObjects /\ DeletedIsGone /\ NoneUndecided)'
      BY <2>1, <3>1
    <3>4. DoneStands' /\ VerdictFits'
      <4>1. \A r \in Runs : pc[r] \in Closing => r # q /\ (PackagesCleared(r)' <=> PackagesCleared(r))
        BY <2>2, <3>1
      <4> QED BY <2>1, <3>1, <3>2, <4>1
    <3> QED BY <3>3, <3>4
  <2>3. CASE pc[q] # "submit"
    <3>1. /\ \A r \in Runs \ {q} : pc'[r] = pc[r]
          /\ \/ pc'[q] \in {"claim", "deferred"}
             \/ pc[q] \in Closing /\ pc'[q] = "pim"
          /\ UNCHANGED pending
      BY <1>4, <2>3 DEF Redeliver
    <3>2. \A r \in Runs : (Done(r)' <=> Done(r)) /\ (Shut(r)' <=> Shut(r))
      BY <2>1
    <3>3. (OldObjects /\ DeletedIsGone)'
      BY <2>1
    <3>4. NoneUndecided' /\ DoneStands'
      BY <3>1, <3>2
    <3>5. VerdictFits'
      BY <2>1, <3>1, <3>2
    <3> QED BY <3>3, <3>4, <3>5
  <2> QED BY <2>2, <2>3
<1>5. CASE Environment
  <2>1. ASSUME NEW p \in Packages, DeliverRemoval(p) PROVE Kept'
    BY <2>1 DEF DeliverRemoval, Answer
  <2>2. ASSUME NEW p \in Packages, RejectRemoval(p) PROVE Kept'
    BY <2>2 DEF RejectRemoval, Answer
  <2>3. ASSUME NEW p \in Packages, OthersAdd(p) PROVE Kept'
    BY <2>3 DEF OthersAdd
  <2>4. CASE SignIn BY <2>4 DEF SignIn
  <2>5. CASE Terminate BY <2>5 DEF Terminate
  <2>6. CASE Rehire BY <2>6 DEF Rehire
  <2>7. CASE Join BY <2>7 DEF Join
  <2>8. CASE JoinerSaves BY <2>8 DEF JoinerSaves
  <2>9. CASE Enable BY <2>9 DEF Enable
  <2>10. ASSUME NEW t \in Terminations, JoinerResets(t) PROVE Kept'
    BY <2>10 DEF JoinerResets, StaleLock
  <2> QED BY <1>5, <2>1, <2>2, <2>3, <2>4, <2>5, <2>6, <2>7, <2>8, <2>9, <2>10
          DEF Environment
<1>6. CASE UNCHANGED vars BY <1>6 DEF vars
<1> QED BY <1>1, <1>2, <1>3, <1>4, <1>5, <1>6 DEF Next

(* Four steps write the event log, six the status of a row.                *)
LEMMA LogWriters ==
  ASSUME [Next]_vars, log' # log
  PROVE  \E r \in Runs : Enter(r) \/ Park(r) \/ LogFailure(r) \/ Record(r)
<1> USE DEF store
<1>1. ~UNCHANGED vars
  BY DEF vars
<1>2. ~Environment
  BY DEF Environment, SignIn, Terminate, Rehire, Join, JoinerSaves, JoinerResets, Enable,
     DeliverRemoval, RejectRemoval, OthersAdd
<1>3. PICK r \in Runs : Start(r) \/ Step(r) \/ Die(r) \/ Redeliver(r)
  BY <1>1, <1>2 DEF Next
<1>4. Step(r)
  BY <1>3 DEF Start, Die, Redeliver
<1>5. \A p \in Packages : ~Removals(r, p)
  BY DEF Removals, Submit, SubmitFails, Poll, FinalizeRemoval
<1>6. \/ Enter(r) \/ Park(r) \/ LogFailure(r) \/ Record(r)
  BY <1>4, <1>5 DEF Step, Claim, Duplicate, Guard, FetchCurrentState, FetchFails,
     FailEvent, Disable, Revoke, SubmitDone, PollEnd, FinalizeDone, PimTerminate,
     SoftDelete, Verify, ReleaseLock, UpdateStatus, Recorded, HoldExpires,
     DeferredGuard, DeferredDelete, SaveLastState
<1> QED BY <1>6

LEMMA RowWriters ==
  ASSUME [Next]_vars, row' # row
  PROVE  \/ \E r \in Runs :
              Claim(r) \/ FetchCurrentState(r) \/ FailEvent(r) \/ UpdateStatus(r)
         \/ \E t \in Terminations : JoinerResets(t)
<1> USE DEF store
<1>1. ~UNCHANGED vars
  BY DEF vars
<1>2. CASE Environment
  BY <1>2 DEF Environment, SignIn, Terminate, Rehire, Join, JoinerSaves, Enable,
     DeliverRemoval, RejectRemoval, OthersAdd
<1>3. ASSUME NEW r \in Runs, Start(r) \/ Step(r) \/ Die(r) \/ Redeliver(r)
      PROVE  Claim(r) \/ FetchCurrentState(r) \/ FailEvent(r) \/ UpdateStatus(r)
  <2>1. Step(r)
    BY <1>3 DEF Start, Die, Redeliver
  <2>2. \A p \in Packages : ~Removals(r, p)
    BY DEF Removals, Submit, SubmitFails, Poll, FinalizeRemoval
  <2> QED
    BY <2>1, <2>2 DEF Step, Duplicate, Guard, Enter, Park, FetchFails, LogFailure,
       Disable, Revoke, SubmitDone, PollEnd, FinalizeDone, PimTerminate, SoftDelete,
       Verify, Record, ReleaseLock, Recorded, HoldExpires, DeferredGuard,
       DeferredDelete, SaveLastState
<1> QED BY <1>1, <1>2, <1>3 DEF Next

(* A success in both tables is taken back, as long as runs of one event do *)
(* not overlap, only by the verify_finalize of the run that closed it,     *)
(* when it is delivered again and finds the account gone, unreadable,      *)
(* enabled by someone, or another one: for any number of runs, slow or     *)
(* not, and any faults.                                                    *)
THEOREM SuccessStands ==
  Spec /\ []OneAtATime => SuccessTakenBackByRepeatOnly
<1> DEFINE Repeat(t) ==
             \E r \in Runs :
               /\ pc[r] \in {"record", "status"} /\ ev[r] = t
               /\ \/ result[r] = "OFFBOARD_FAILED"
                  \/ /\ result[r] = "OFFBOARD_PARTIAL"
                     /\ r \in reopened \/ ~Reaches(r)
<1>1. LoggedInv /\ [Next]_vars =>
        [\A t \in Terminations :
           /\ log[t] = "OFFBOARD_SUCCESS" /\ row[t] = "Completed"
           /\ log'[t] # log[t] \/ row'[t] # row[t]
           => Repeat(t)]_vars
  <2> SUFFICES ASSUME LoggedInv, [Next]_vars, NEW t \in Terminations,
                      log[t] = "OFFBOARD_SUCCESS", row[t] = "Completed",
                      log'[t] # log[t] \/ row'[t] # row[t]
               PROVE  Repeat(t)
    OBVIOUS
  <2>0. /\ row \in [Terminations -> Row] /\ ev \in [Runs -> Terminations]
        /\ log \in [Terminations -> {"none", "IN_PROGRESS", "QUEUED_CONCURRENT"} \cup Final]
    BY DEF LoggedInv, TypeInv, TypeOK
  <2>1. CASE log'[t] # log[t]
    <3>1. PICK r \in Runs : Enter(r) \/ Park(r) \/ LogFailure(r) \/ Record(r)
      BY <2>1, LogWriters
    <3>2. log' = [log EXCEPT ![ev[r]] = log'[ev[r]]]
      BY <2>0, <3>1 DEF Enter, Park, LogFailure, Record, SetLog
    <3>3. ev[r] = t /\ Done(r)
      BY <2>0, <2>1, <3>2 DEF Done
    <3>4. Record(r)
      BY <3>1, <3>3 DEF Enter, Park, LogFailure, LoggedInv, NoneUndecided, Pre
    <3>5. pc[r] = "record" /\ result[r] # "OFFBOARD_SUCCESS"
      BY <2>0, <2>1, <3>3, <3>4 DEF Record, SetLog
    <3> QED BY <3>3, <3>5 DEF LoggedInv, VerdictFits, Final
  <2>2. CASE row'[t] # row[t]
    <3>1. \A e \in Terminations : JoinerResets(e) => row'[t] = row[t]
      BY <2>0 DEF JoinerResets, StaleLock
    <3>2. PICK r \in Runs :
            Claim(r) \/ FetchCurrentState(r) \/ FailEvent(r) \/ UpdateStatus(r)
      BY <2>2, <3>1, RowWriters
    <3>3. row' = [row EXCEPT ![ev[r]] = row'[ev[r]]]
      BY <2>0, <3>2 DEF Claim, FetchCurrentState, FailEvent, UpdateStatus, SetRow
    <3>4. ev[r] = t /\ Done(r)
      BY <2>0, <2>2, <3>3 DEF Done
    <3>5. UpdateStatus(r)
      BY <3>2, <3>4 DEF Claim, StaleLock, FetchCurrentState, FailEvent, LoggedInv,
         NoneUndecided, Done, Pre
    <3>6. pc[r] = "status" /\ result[r] # "OFFBOARD_SUCCESS"
      BY <2>0, <2>2, <3>4, <3>5 DEF UpdateStatus, SetRow, Done
    <3> QED BY <3>4, <3>6 DEF LoggedInv, VerdictFits, Final
  <2> QED BY <2>1, <2>2
<1>2. Spec /\ []OneAtATime => []LoggedInv
  BY LoggedInit, LoggedStep, PTL DEF Spec
<1> QED BY <1>1, <1>2, PTL DEF Spec, SuccessTakenBackByRepeatOnly

(* ... so always where one run follows the other.                          *)
COROLLARY SuccessStandsAlone ==
  ASSUME \A q, r \in Runs : q = r
  PROVE  Spec => SuccessTakenBackByRepeatOnly
<1>1. OneAtATime
  BY DEF OneAtATime
<1> QED BY <1>1, SuccessStands, PTL
-----------------------------------------------------------------------------
(* Without faults and slow runs the claims alone keep the runs of one      *)
(* event apart, up to the verdict: a run that has the event has its row,   *)
(* Pending or Processing, and a Processing row has a run at work.          *)

Claimed == (Pre \ {"claim", "disable", "revoke"})
Locked == {"disable", "revoke"} \cup Removal \cup (Closing \ {"recorded"})

OneRunPerEvent ==
  \A q, r \in Runs :
    q # r /\ ev[q] = ev[r] /\ pc[q] \in Claimed \cup Locked
      => pc[r] \notin Claimed \cup Locked

RowFits ==
  \A r \in Runs :
    /\ pc[r] \in Claimed => row[ev[r]] = "Pending"
    /\ pc[r] \in Locked => row[ev[r]] = "Processing"

ProcessingIsWorked ==
  \A t \in Terminations : row[t] = "Processing" =>
    \E r \in Runs : ev[r] = t /\ pc[r] \in Locked

(* The log says so first, the row two writes later.                        *)
Settling(r) == pc[r] \in {"release", "status"} /\ result[r] = "OFFBOARD_SUCCESS"

LoggedIsClosed ==
  \A t \in Terminations : log[t] = "OFFBOARD_SUCCESS" =>
    row[t] = "Completed" \/ \E r \in Runs : ev[r] = t /\ Settling(r)

ClaimInv ==
  /\ TypeInv /\ OneRunPerEvent /\ RowFits /\ ProcessingIsWorked
  /\ LoggedIsClosed

LEMMA ClaimInit == Init => ClaimInv
<1> SUFFICES ASSUME Init PROVE ClaimInv
  OBVIOUS
<1>1. \A r \in Runs : pc[r] = "idle"
  BY DEF Init
<1>2. \A t \in Terminations : log[t] = "none" /\ row[t] = "Absent"
  BY DEF Init
<1> QED
  BY <1>1, <1>2, TypeInit DEF ClaimInv, OneRunPerEvent, RowFits, ProcessingIsWorked,
     LoggedIsClosed, Settling, Claimed, Locked, Pre, Removal, Closing

(* Every step keeps it; none is a fault.                                   *)
LEMMA ClaimStep ==
  ASSUME MaxFaults = 0, ~SlowRuns PROVE ClaimInv /\ [Next]_vars => ClaimInv'
<1> DEFINE Kept == OneRunPerEvent /\ RowFits /\ ProcessingIsWorked /\ LoggedIsClosed
<1> SUFFICES ASSUME MaxFaults = 0, ~SlowRuns, ClaimInv, [Next]_vars PROVE Kept'
  BY TypeStep DEF ClaimInv
<1>0. /\ pc \in [Runs -> PC]
      /\ ev \in [Runs -> Terminations]
      /\ row \in [Terminations -> Row]
      /\ log \in [Terminations -> {"none", "IN_PROGRESS", "QUEUED_CONCURRENT"} \cup Final]
      /\ result \in [Runs -> {"none"} \cup Final]
      /\ Kept
  BY DEF ClaimInv, TypeInv, TypeOK
<1>a. ~Fault
  BY DEF Fault, ClaimInv, TypeInv, TypeOK
<1>b. ASSUME NEW q \in Runs, UNCHANGED <<ev, row, log>>,
             \A r \in Runs \ {q} : pc'[r] = pc[r],
             \/ pc[q] \in Claimed /\ pc'[q] \in Claimed
             \/ pc[q] \in Locked /\ pc'[q] \in Locked
             \/ pc[q] \notin Locked /\ pc'[q] \notin Claimed \cup Locked,
             \A r \in Runs : Settling(r) => Settling(r)'
      PROVE Kept'
  BY <1>0, <1>b DEF OneRunPerEvent, RowFits, ProcessingIsWorked, LoggedIsClosed,
     Claimed, Locked, Pre, Removal, Closing
<1>c. ASSUME UNCHANGED <<ev, row, log, pc, result>> PROVE Kept'
  BY <1>0, <1>c DEF OneRunPerEvent, RowFits, ProcessingIsWorked, LoggedIsClosed, Settling
<1>d. ASSUME NEW q \in Runs, pc[q] \in Claimed \cup Locked, pc[q] \notin {"release", "status"}
      PROVE  log[ev[q]] # "OFFBOARD_SUCCESS"
  BY <1>0, <1>d DEF OneRunPerEvent, RowFits, LoggedIsClosed, Settling, Claimed, Locked,
     Pre, Removal, Closing
<1> USE <1>0, <1>a DEF Settling, outcome, Claimed, Locked, Pre, Removal, Closing, store, task, Goto, SetRow, SetLog
<1>1. ASSUME NEW q \in Runs, Start(q) PROVE Kept'
  <2>1. /\ pc[q] = "idle" /\ pc'[q] = "claim" /\ UNCHANGED <<row, log>>
        /\ \A r \in Runs \ {q} : pc'[r] = pc[r] /\ ev'[r] = ev[r] /\ result'[r] = result[r]
    BY <1>1 DEF Start
  <2> QED BY <2>1 DEF OneRunPerEvent, RowFits, ProcessingIsWorked, LoggedIsClosed
<1>2. ASSUME NEW q \in Runs, Step(q) PROVE Kept'
  <2>1. CASE Claim(q)
    <3>1. /\ pc[q] = "claim" /\ pc'[q] = "guard" /\ UNCHANGED <<ev, log, result>>
          /\ \A r \in Runs \ {q} : pc'[r] = pc[r]
          /\ row' = [row EXCEPT ![ev[q]] = "Pending"]
      BY <2>1 DEF Claim
    <3>2. \A r \in Runs : ev[r] = ev[q] => pc[r] \notin Claimed \cup Locked
      <4>1. CASE row[ev[q]] \in {"Absent", "Failed"}
        BY <4>1 DEF RowFits
      <4>2. CASE StaleLock(ev[q])
        BY <4>2 DEF StaleLock, MayBeOld, Working, RowFits
      <4> QED BY <2>1, <4>1, <4>2 DEF Claim
    <3>3. log[ev[q]] # "OFFBOARD_SUCCESS"
      BY <2>1, <3>2 DEF Claim, StaleLock, LoggedIsClosed
    <3>4. OneRunPerEvent' BY <3>1, <3>2 DEF OneRunPerEvent
    <3>5. RowFits' BY <3>1, <3>2 DEF RowFits
    <3>6. ProcessingIsWorked' BY <3>1 DEF ProcessingIsWorked
    <3>7. LoggedIsClosed' BY <3>1, <3>3 DEF LoggedIsClosed
    <3> QED BY <3>4, <3>5, <3>6, <3>7
  <2>2. CASE Duplicate(q) BY <1>b, <2>2 DEF Duplicate
  <2>3. CASE Guard(q) BY <1>b, <2>3 DEF Guard
  <2>4. CASE Enter(q) \/ Park(q) \/ LogFailure(q)
    <3>1. /\ pc[q] \in {"enter", "park", "failing"} /\ pc'[q] \in {"fetch", "idle", "failed"}
          /\ UNCHANGED <<ev, row, result>>
          /\ \A r \in Runs \ {q} : pc'[r] = pc[r]
          /\ \A t \in Terminations : log'[t] = "OFFBOARD_SUCCESS" => log[t] = "OFFBOARD_SUCCESS"
      BY <2>4 DEF Enter, Park, LogFailure
    <3>2. OneRunPerEvent' /\ RowFits' BY <3>1 DEF OneRunPerEvent, RowFits
    <3>3. ProcessingIsWorked' BY <3>1 DEF ProcessingIsWorked
    <3>4. LoggedIsClosed' BY <3>1 DEF LoggedIsClosed
    <3> QED BY <3>2, <3>3, <3>4
  <2>5. CASE FetchCurrentState(q) \/ FailEvent(q) \/ UpdateStatus(q)
    <3>1. /\ pc[q] \in {"fetch", "failed", "status"} /\ UNCHANGED <<ev, log, result>>
          /\ \A r \in Runs \ {q} : pc'[r] = pc[r]
          /\ \A t \in Terminations \ {ev[q]} : row'[t] = row[t]
          /\ \/ /\ pc[q] = "fetch" /\ pc'[q] = "disable"
                /\ row'[ev[q]] = "Processing"
             \/ /\ pc[q] # "fetch" /\ pc'[q] \in {"idle", "recorded"}
                /\ row'[ev[q]] \in {"Completed", "Failed"}
          /\ pc[q] = "status" /\ result[q] = "OFFBOARD_SUCCESS" => row'[ev[q]] = "Completed"
      BY <2>5 DEF FetchCurrentState, FailEvent, UpdateStatus
    <3>2. \A r \in Runs \ {q} : ev[r] = ev[q] => pc[r] \notin Claimed \cup Locked
      BY <3>1 DEF OneRunPerEvent
    <3>3. log[ev[q]] = "OFFBOARD_SUCCESS" => row'[ev[q]] = "Completed"
      <4>1. CASE pc[q] = "status"
        BY <3>1, <3>2, <4>1 DEF RowFits, LoggedIsClosed
      <4>2. CASE pc[q] # "status"
        BY <1>d, <3>1, <4>2
      <4> QED BY <4>1, <4>2
    <3>4. OneRunPerEvent' BY <3>1, <3>2 DEF OneRunPerEvent
    <3>5. RowFits' BY <3>1, <3>2 DEF RowFits
    <3>6. ProcessingIsWorked' BY <3>1 DEF ProcessingIsWorked
    <3>7. LoggedIsClosed' BY <3>1, <3>3 DEF LoggedIsClosed
    <3> QED BY <3>4, <3>5, <3>6, <3>7
  <2>20. CASE FetchFails(q) BY <1>b, <2>20 DEF FetchFails
  <2>21. CASE Record(q)
    <3>1. /\ pc[q] = "record" /\ pc'[q] = "release" /\ UNCHANGED <<ev, row, result>>
          /\ \A r \in Runs \ {q} : pc'[r] = pc[r]
          /\ \A t \in Terminations \ {ev[q]} : log'[t] = log[t]
          /\ log'[ev[q]] = result[q]
      BY <2>21 DEF Record
    <3>2. OneRunPerEvent' /\ RowFits' BY <3>1 DEF OneRunPerEvent, RowFits
    <3>3. ProcessingIsWorked' BY <3>1 DEF ProcessingIsWorked
    <3>4. LoggedIsClosed' BY <3>1 DEF LoggedIsClosed
    <3> QED BY <3>2, <3>3, <3>4
  <2>22. CASE ReleaseLock(q) BY <1>b, <2>22 DEF ReleaseLock
  <2>6. CASE Disable(q) BY <1>b, <2>6 DEF Disable
  <2>7. CASE Revoke(q) BY <1>b, <2>7 DEF Revoke
  <2>8. CASE SubmitDone(q) BY <1>b, <2>8 DEF SubmitDone
  <2>9. CASE PollEnd(q) BY <1>b, <2>9 DEF PollEnd
  <2>10. CASE FinalizeDone(q) BY <1>b, <2>10 DEF FinalizeDone
  <2>11. CASE PimTerminate(q) BY <1>b, <2>11 DEF PimTerminate
  <2>12. CASE SoftDelete(q) BY <1>b, <2>12 DEF SoftDelete
  <2>13. CASE Verify(q) BY <1>b, <2>13 DEF Verify
  <2>14. CASE Recorded(q) BY <1>b, <2>14 DEF Recorded
  <2>15. CASE HoldExpires(q) BY <1>b, <2>15 DEF HoldExpires
  <2>16. CASE DeferredGuard(q) BY <1>b, <2>16 DEF DeferredGuard
  <2>17. CASE DeferredDelete(q) BY <1>b, <2>17 DEF DeferredDelete
  <2>18. CASE SaveLastState(q) BY <1>b, <2>18 DEF SaveLastState
  <2>19. ASSUME NEW p \in Packages, Removals(q, p) PROVE Kept'
    BY <1>c, <2>19 DEF Removals, Submit, SubmitFails, Poll, FinalizeRemoval
  <2> QED BY <1>2, <2>1, <2>2, <2>3, <2>4, <2>5, <2>6, <2>7, <2>8, <2>9, <2>10,
             <2>11, <2>12, <2>13, <2>14, <2>15, <2>16, <2>17, <2>18, <2>19, <2>20,
             <2>21, <2>22 DEF Step
<1>3. ASSUME NEW q \in Runs PROVE ~Die(q) /\ ~Redeliver(q)
  BY DEF Die, Redeliver
<1>4. CASE Environment
  <2>1. ASSUME NEW t \in Terminations PROVE ~JoinerResets(t)
    BY DEF JoinerResets, StaleLock, MayBeOld, Working, ProcessingIsWorked
  <2> QED
    BY <1>c, <1>4, <2>1 DEF Environment, SignIn, Terminate, Rehire, Join, JoinerSaves,
       Enable, DeliverRemoval, RejectRemoval, OthersAdd
<1>5. CASE UNCHANGED vars BY <1>c, <1>5 DEF vars
<1> QED BY <1>1, <1>2, <1>3, <1>4, <1>5 DEF Next

(* Where no call fails, nothing is delivered twice and no run outlasts its *)
(* lock, a logged OFFBOARD_SUCCESS is final, whatever triggers, holds,     *)
(* re-hires and other runs come after it, for any number of runs.          *)
THEOREM FaultlessSuccessIsFinal ==
  ASSUME MaxFaults = 0, ~SlowRuns
  PROVE  Spec => SuccessIsFinal
<1>1. ClaimInv /\ [Next]_vars =>
        [\A t \in Terminations :
           log[t] = "OFFBOARD_SUCCESS" => log'[t] = "OFFBOARD_SUCCESS"]_vars
  <2> SUFFICES ASSUME ClaimInv, [Next]_vars, NEW t \in Terminations,
                      log[t] = "OFFBOARD_SUCCESS", log'[t] # log[t]
               PROVE  FALSE
    OBVIOUS
  <2>1. PICK r \in Runs : Enter(r) \/ Park(r) \/ LogFailure(r) \/ Record(r)
    BY LogWriters
  <2>2. log' = [log EXCEPT ![ev[r]] = log'[ev[r]]]
    BY <2>1 DEF Enter, Park, LogFailure, Record, SetLog, ClaimInv, TypeInv, TypeOK
  <2>3. ev[r] = t
    BY <2>2 DEF ClaimInv, TypeInv, TypeOK
  <2>4. pc[r] \in {"enter", "park", "failing", "record"}
    BY <2>1 DEF Enter, Park, LogFailure, Record
  <2>5. row[t] \in {"Pending", "Processing"}
    BY <2>3, <2>4 DEF ClaimInv, RowFits, Claimed, Locked, Pre, Removal, Closing
  <2>6. PICK q \in Runs : ev[q] = t /\ Settling(q)
    BY <2>5 DEF ClaimInv, LoggedIsClosed
  <2> QED
    BY <2>3, <2>4, <2>6 DEF ClaimInv, OneRunPerEvent, Settling, Claimed, Locked, Pre,
       Removal, Closing
<1> QED BY <1>1, ClaimInit, ClaimStep, PTL DEF Spec, SuccessIsFinal
=============================================================================
