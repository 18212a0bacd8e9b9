---------------------------- MODULE MoverProofs ----------------------------
(***************************************************************************)
(* Proofs about Mover, for any packages, roles, incompatibilities and      *)
(* retention records, any number of faults and retries, and moves that     *)
(* begin while requests of earlier ones are open.  What is assumed is in   *)
(* each statement: for the ADR-009 theorems that no conflict forces        *)
(* removals first (Compatible).                                            *)
(***************************************************************************)
EXTENDS Mover, TLAPS

Active == {"submit", "poll", "finalize", "patch", "verify"}

-----------------------------------------------------------------------------
(* Type correctness.                                                       *)

LEMMA TypeInit == Init => TypeOK
<1> SUFFICES ASSUME Init PROVE TypeOK
  OBVIOUS
<1>1. requests \in [Ops -> [Packages -> RequestState]]
  BY DEF Init, RequestState
<1>2. pending \in [Packages -> Progress]
  BY DEF Init, Progress, Decided
<1> QED BY <1>1, <1>2 DEF Init, TypeOK, Ops, LogStatus, PC, Resting

(* Every step keeps the types.                                             *)
LEMMA TypeStep == TypeOK /\ [Next]_vars => TypeOK'
<1> SUFFICES ASSUME TypeOK, [Next]_vars PROVE TypeOK'
  OBVIOUS
<1> USE ConstantsAssumption
    DEF TypeOK, Ops, RequestState, LogStatus, PC, Resting, Progress, Decided,
        platform, plan, start, Fault, NoFault
<1>1. CASE Start BY <1>1 DEF Start
<1>2. CASE SubmitRedelivered BY <1>2 DEF SubmitRedelivered, Begin
<1>3. CASE Die BY <1>3 DEF Die
<1>4. CASE FetchCurrentState BY <1>4 DEF FetchCurrentState, End
<1>5. CASE ResolveFails BY <1>5 DEF ResolveFails, End
<1>6. CASE Plan
  <2>1. GroupsToAdd \subseteq Packages /\ GroupsToRemove \subseteq Packages
    BY DEF GroupsToAdd, GroupsToRemove
  <2>2. \E unread, unanswered, kept, remove \in SUBSET Packages :
          /\ toAdd' = GroupsToAdd /\ toRemove' = remove /\ retain' = kept
          /\ reorder' \in BOOLEAN
          /\ \/ End("SOD_HELD") /\ UNCHANGED <<op, pending>>
             \/ /\ Begin("remove", remove) \/ Begin("add", GroupsToAdd)
                /\ UNCHANGED log
    BY <1>6, <2>1 DEF Plan, Kept, NeedsReorder
  <2>3. faults' \in Nat /\ UNCHANGED <<platform, role, had, gone, start>>
    BY <1>6 DEF Plan, Kept
  <2> HIDE DEF GroupsToAdd
  <2> QED BY <2>1, <2>2, <2>3 DEF Begin, End
<1>7. CASE SubmitDone BY <1>7 DEF SubmitDone
<1>8. CASE PollEnd BY <1>8 DEF PollEnd
<1>9. CASE AdditionsDone BY <1>9 DEF AdditionsDone, Begin
<1>10. CASE RemovalsDone BY <1>10 DEF RemovalsDone, Begin
<1>11. CASE Patch BY <1>11 DEF Patch, Begin
<1>12. CASE Verify BY <1>12 DEF Verify, End
<1>13. ASSUME NEW p \in Packages, Work(p) PROVE TypeOK'
  <2>1. CASE SubmitSkips(p) BY <2>1 DEF SubmitSkips, SetPending
  <2>2. CASE Submit(p) BY <2>2 DEF Submit, SetPending, Request
  <2>3. CASE SubmitFails(p) BY <2>3 DEF SubmitFails, SetPending, Request
  <2>4. CASE Poll(p) BY <2>4 DEF Poll, SetPending
  <2>5. CASE FinalizeAddition(p) BY <2>5 DEF FinalizeAddition, SetPending
  <2>6. CASE FinalizeRemoval(p) BY <2>6 DEF FinalizeRemoval, SetPending
  <2> QED BY <1>13, <2>1, <2>2, <2>3, <2>4, <2>5, <2>6 DEF Work
<1>14. ASSUME NEW p \in Packages, Entra(p) PROVE TypeOK'
  <2>1. CASE DeliverAddition(p) BY <2>1 DEF DeliverAddition, Answer
  <2>2. CASE DeliverRemoval(p) BY <2>2 DEF DeliverRemoval, Answer
  <2>3. ASSUME NEW o \in Ops, Reject(o, p) PROVE TypeOK'
    BY <2>3 DEF Reject, Answer
  <2> QED BY <1>14, <2>1, <2>2, <2>3 DEF Entra
<1>15. CASE UNCHANGED vars BY <1>15 DEF vars
<1> QED BY <1>1, <1>2, <1>3, <1>4, <1>5, <1>6, <1>7, <1>8, <1>9, <1>10,
           <1>11, <1>12, <1>13, <1>14, <1>15 DEF Next, Advance

(* Every variable of the Mover keeps its type.                             *)
THEOREM TypeCorrect == Spec => []TypeOK
BY TypeInit, TypeStep, PTL DEF Spec

-----------------------------------------------------------------------------
(* The inductive invariant behind the rest.  Set is what is provisioned.   *)

Set == IF op = "add" THEN toAdd ELSE toRemove

(* What Entra may still carry out is for the role of the last move, or is  *)
(* late.                                                                   *)
RequestsOwned ==
  /\ late \subseteq Managed
  /\ \A p \in Packages :
       /\ requests["add"][p] = "open" => p \in Target[role] \cup late
       /\ requests["remove"][p] = "open" => p \in Managed \ (Target[role] \ late)

(* The plan of a run at work is the delta of what it fetched.              *)
PlanFits ==
  /\ pc \in {"fetch", "plan"} => gone = {}
  /\ pc \in Active =>
    /\ gone \subseteq toRemove
    /\ toAdd = Target[role] \ had
    /\ toRemove \subseteq Managed \ Target[role]
    /\ \A p \in Packages : pending[p] # "none" <=> p \in Set

(* Packages fetched and still needed stay; an addition seen done is there; *)
(* only a late one may be lost again.                                      *)
Seen(p) == \/ pending[p] \in {"skipped", "delivered", "confirmed"}
           \/ pending[p] = "submitted" /\ requests[op][p] = "delivered"
AdditionsSeen ==
  /\ pc \in Active \cup {"plan"} => had \cap Target[role] \subseteq held \cup late
  /\ pc \in Active /\ op = "add" => \A p \in Packages : Seen(p) => p \in held \cup late

(* ADR-009: while a removal of this move is being made or may still be     *)
(* carried out, the new role's packages are all there; the PATCH is after  *)
(* the removals.                                                           *)
Removing == \/ \E p \in Packages \ late : requests["remove"][p] = "open"
            \/ pc \in Active /\ op = "remove"
Gated ==
  Compatible => /\ pc \in Active => ~reorder
                /\ pc = "patch" => op = "remove"
                /\ Removing => Target[role] \subseteq held \cup late

(* A removal seen done is done, where the check could see the package, and *)
(* nothing but a late addition brings it back.                             *)
RemovalsSeen ==
  pc \in Active =>
    /\ op = "remove" => \A p \in Packages : Seen(p) => p \notin held \ (late \cup Shadowed)
    /\ gone \cap held \subseteq late \cup Shadowed

MoveInv ==
  /\ TypeOK /\ RequestsOwned /\ PlanFits /\ AdditionsSeen /\ Gated /\ RemovalsSeen

LEMMA InvInit == Init => MoveInv
<1> SUFFICES ASSUME Init PROVE MoveInv
  OBVIOUS
<1>1. TypeOK
  BY TypeInit
<1>2. \A p \in Packages : requests["add"][p] = "none" /\ requests["remove"][p] = "none"
  BY DEF Init, Ops
<1> QED
  BY <1>1, <1>2 DEF Init, MoveInv, RequestsOwned, PlanFits, AdditionsSeen, Gated,
     Removing, RemovalsSeen, Active

LEMMA InvStep == MoveInv /\ [Next]_vars => MoveInv'
<1> SUFFICES ASSUME MoveInv, [Next]_vars PROVE MoveInv'
  OBVIOUS
<1>0. TypeOK'
  BY TypeStep DEF MoveInv
<1> USE ConstantsAssumption, <1>0
    DEF MoveInv, RequestsOwned, PlanFits, AdditionsSeen, Gated, Removing,
        RemovalsSeen, Seen, Set, Active, TypeOK, Ops, platform, plan, start
<1>1. CASE Start BY <1>1 DEF Start, Resting
<1>2. CASE SubmitRedelivered BY <1>2 DEF SubmitRedelivered, Begin
<1>3. CASE Die BY <1>3 DEF Die
<1>4. CASE FetchCurrentState BY <1>4 DEF FetchCurrentState, End
<1>5. CASE ResolveFails BY <1>5 DEF ResolveFails, End
<1>6. CASE Plan
  <2>0. ASSUME Compatible, NEW unanswered, NEW remove \in SUBSET GroupsToRemove
        PROVE  ~NeedsReorder(GroupsToAdd, remove, unanswered)
    <3>1. \A p \in GroupsToAdd : Incompatible[p] \cap Managed = {}
      BY <2>0 DEF Compatible, GroupsToAdd
    <3> QED BY <3>1 DEF NeedsReorder, GroupsToRemove
  <2>1. \E remove \in SUBSET Packages :
          /\ toAdd' = GroupsToAdd
          /\ toRemove' = remove
          /\ remove \subseteq GroupsToRemove
          /\ Compatible => ~reorder'
          /\ \/ pc' = "ended" /\ UNCHANGED <<op, pending>>
             \/ reorder' /\ Begin("remove", remove)
             \/ ~reorder' /\ Begin("add", GroupsToAdd)
    BY <1>6, <2>0 DEF Plan, Kept, GroupsToRemove, End
  <2>2. GroupsToAdd = Target[role] \ had
    BY DEF GroupsToAdd
  <2>3. GroupsToRemove \subseteq Managed \ Target[role]
    BY DEF GroupsToRemove
  <2>4. pc = "plan" /\ UNCHANGED <<platform, role, had, gone, start>>
    BY <1>6 DEF Plan, Kept
  <2> QED BY <2>1, <2>2, <2>3, <2>4 DEF Begin
<1>7. CASE SubmitDone BY <1>7 DEF SubmitDone
<1>8. CASE PollEnd BY <1>8 DEF PollEnd
<1>9. CASE AdditionsDone BY <1>9 DEF AdditionsDone, Begin, Finalized, AdditionsAllSucceeded
<1>10. CASE RemovalsDone BY <1>10 DEF RemovalsDone, Begin, Finalized
<1>11. CASE Patch BY <1>11 DEF Patch, Begin
<1>12. CASE Verify BY <1>12 DEF Verify, End
<1>13. ASSUME NEW p \in Packages, Work(p) PROVE MoveInv'
  <2>1. CASE SubmitSkips(p)
    <3>1. p \in held
      BY <2>1 DEF SubmitSkips, Answers
    <3> QED BY <2>1, <3>1 DEF SubmitSkips, SetPending
  <2>2. CASE Submit(p) BY <2>2 DEF Submit, SetPending, Request
  <2>3. CASE SubmitFails(p) BY <2>3 DEF SubmitFails, SetPending, Request
  <2>4. CASE Poll(p) BY <2>4 DEF Poll, SetPending
  <2>5. CASE FinalizeAddition(p) BY <2>5 DEF FinalizeAddition, SetPending, Answers, Decided
  <2>6. CASE FinalizeRemoval(p) BY <2>6 DEF FinalizeRemoval, SetPending, Answers, Decided
  <2> QED BY <1>13, <2>1, <2>2, <2>3, <2>4, <2>5, <2>6 DEF Work
<1>14. ASSUME NEW p \in Packages, Entra(p) PROVE MoveInv'
  <2>1. CASE DeliverAddition(p) BY <2>1 DEF DeliverAddition, Answer
  <2>2. CASE DeliverRemoval(p) BY <2>2 DEF DeliverRemoval, Answer
  <2>3. ASSUME NEW o \in Ops, Reject(o, p) PROVE MoveInv'
    BY <2>3 DEF Reject, Answer
  <2> QED BY <1>14, <2>1, <2>2, <2>3 DEF Entra
<1>15. CASE UNCHANGED vars BY <1>15 DEF vars
<1> QED BY <1>1, <1>2, <1>3, <1>4, <1>5, <1>6, <1>7, <1>8, <1>9, <1>10,
           <1>11, <1>12, <1>13, <1>14, <1>15 DEF Next, Advance

LEMMA Inv == Spec => []MoveInv
BY InvInit, InvStep, PTL DEF Spec

-----------------------------------------------------------------------------
(* The user's packages, the role and the snapshot of a move change in      *)
(* three actions only.                                                     *)
LEMMA OnlyTheseMove ==
  [Next]_vars => \/ Start \/ UNCHANGED <<held, role, before, late>>
                 \/ \E p \in Packages : DeliverAddition(p) \/ DeliverRemoval(p)
<1> USE DEF platform, start
<1>1. SubmitRedelivered \/ Die => UNCHANGED <<held, role, before, late>>
  BY DEF SubmitRedelivered, Die
<1>2. Advance => UNCHANGED <<held, role, before, late>>
  BY DEF Advance, FetchCurrentState, ResolveFails, Plan, SubmitDone, PollEnd,
     AdditionsDone, RemovalsDone, Patch, Verify
<1>3. ASSUME NEW p \in Packages, Work(p) PROVE UNCHANGED <<held, role, before, late>>
  BY <1>3 DEF Work, SubmitSkips, Submit, SubmitFails, Poll, FinalizeAddition,
     FinalizeRemoval
<1>4. ASSUME NEW p \in Packages, NEW o \in Ops, Reject(o, p)
      PROVE UNCHANGED <<held, role, before, late>>
  BY <1>4 DEF Reject
<1> QED BY <1>1, <1>2, <1>3, <1>4 DEF Next, Entra, vars

(* ADR-009, for every instance without conflicts: whatever fails, and      *)
(* however late Entra carries out a request, the user holds everything the *)
(* new role needs or everything held before the move.                      *)
THEOREM AddBeforeRemove ==
  ASSUME Compatible PROVE Spec => []NeverLess
<1>1. Init => NeverLess
  BY DEF Init, NeverLess
<1>2. MoveInv /\ NeverLess /\ [Next]_vars => NeverLess'
  <2> SUFFICES ASSUME MoveInv, NeverLess, [Next]_vars PROVE NeverLess'
    OBVIOUS
  <2>1. CASE Start BY <2>1 DEF Start, NeverLess, platform
  <2>2. ASSUME NEW p \in Packages, DeliverAddition(p) PROVE NeverLess'
    BY <2>2 DEF DeliverAddition, NeverLess, start
  <2>3. ASSUME NEW p \in Packages, DeliverRemoval(p) PROVE NeverLess'
    BY <2>3 DEF DeliverRemoval, NeverLess, MoveInv, Gated, Removing, RequestsOwned,
                 start
  <2>4. CASE UNCHANGED <<held, role, before, late>> BY <2>4 DEF NeverLess
  <2> QED BY <2>1, <2>2, <2>3, <2>4, OnlyTheseMove
<1> QED BY <1>1, <1>2, Inv, PTL DEF Spec

(* Without conflicts, department and title change only once the packages   *)
(* of the role they name are there: the PATCH follows the removals, which  *)
(* the gate has let begin.                                                 *)
THEOREM CommitFollows ==
  ASSUME Compatible PROVE Spec => CommitAfterAdditions
<1>1. MoveInv /\ [Next]_vars => [attrs' # attrs => Target[attrs'] \subseteq held \cup late]_vars
  <2> SUFFICES ASSUME MoveInv, Next, attrs' # attrs
               PROVE Target[attrs'] \subseteq held \cup late
    OBVIOUS
  <2> USE DEF platform, plan, start
  <2>1. CASE Start BY <2>1 DEF Start
  <2>2. CASE SubmitRedelivered BY <2>2 DEF SubmitRedelivered
  <2>3. CASE Die BY <2>3 DEF Die
  <2>4. CASE Patch
    BY <2>4 DEF Patch, MoveInv, Gated, Removing, Active
  <2>5. CASE Advance /\ ~Patch
    BY <2>5 DEF Advance, FetchCurrentState, ResolveFails, Plan, SubmitDone, PollEnd,
       AdditionsDone, RemovalsDone, Verify
  <2>6. ASSUME NEW p \in Packages, Work(p) PROVE FALSE
    BY <2>6 DEF Work, SubmitSkips, Submit, SubmitFails, Poll, FinalizeAddition,
       FinalizeRemoval
  <2>7. ASSUME NEW p \in Packages, Entra(p) PROVE FALSE
    BY <2>7 DEF Entra, DeliverAddition, DeliverRemoval, Reject
  <2> QED BY <2>1, <2>2, <2>3, <2>4, <2>5, <2>6, <2>7 DEF Next
<1> QED BY <1>1, InvInit, InvStep, PTL DEF Spec, CommitAfterAdditions

(* Unmanaged packages, and those the new role needs, are never taken away, *)
(* whichever of the two strategies the moves follow.                       *)
THEOREM OnlyOwned == Spec => OnlyOwnedRemoved
<1>1. MoveInv /\ [Next]_vars => [held \ held' \subseteq Managed \ (Target[role] \ late)]_vars
  <2> SUFFICES ASSUME MoveInv, [Next]_vars
               PROVE held \ held' \subseteq Managed \ (Target[role] \ late)
    OBVIOUS
  <2>1. CASE Start BY <2>1 DEF Start, platform
  <2>2. ASSUME NEW p \in Packages, DeliverAddition(p) \/ DeliverRemoval(p)
        PROVE held \ held' \subseteq Managed \ (Target[role] \ late)
    BY <2>2 DEF DeliverAddition, DeliverRemoval, MoveInv, RequestsOwned
  <2>3. CASE UNCHANGED <<held, role, before, late>> BY <2>3
  <2> QED BY <2>1, <2>2, <2>3, OnlyTheseMove
<1> QED BY <1>1, Inv, PTL DEF Spec, OnlyOwnedRemoved

(* A move that ended MOVE_SUCCESS stays as it was verified.                *)
THEOREM SuccessIsMoved == Spec => []SuccessMeansMoved
<1>1. Init => SuccessMeansMoved
  BY DEF Init, SuccessMeansMoved
<1>2. MoveInv /\ SuccessMeansMoved /\ [Next]_vars => SuccessMeansMoved'
  <2> SUFFICES ASSUME MoveInv, SuccessMeansMoved, [Next]_vars,
                      pc' = "ended", log' = "MOVE_SUCCESS"
               PROVE /\ Target[role'] \subseteq held' \cup late'
                     /\ held' \cap Managed \subseteq Target[role'] \cup retain' \cup late' \cup Shadowed
    BY DEF SuccessMeansMoved
  <2>1. CASE Verify
    <3>1. NoDiscrepancy /\ UNCHANGED <<held, role, retain, late>>
      BY <2>1 DEF Verify, End, platform, plan, start
    <3>2. pc \in Active
      BY <2>1 DEF Verify, Active
    <3>3. gone \cap held \subseteq late \cup Shadowed /\ toAdd = Target[role] \ had
      BY <3>2 DEF MoveInv, RemovalsSeen, PlanFits
    <3> QED
      BY <3>1, <3>3, ConstantsAssumption
         DEF NoDiscrepancy, Expected, Unchanged, Unmanaged, MoveInv, TypeOK
  <2>2. ASSUME NEW p \in Packages, DeliverAddition(p) \/ DeliverRemoval(p)
        PROVE /\ Target[role'] \subseteq held' \cup late'
              /\ held' \cap Managed \subseteq Target[role'] \cup retain' \cup late' \cup Shadowed
    BY <2>2 DEF DeliverAddition, DeliverRemoval, SuccessMeansMoved, MoveInv,
                RequestsOwned, plan, start
  <2>3. ASSUME NEW p \in Packages, NEW o \in Ops, Reject(o, p)
        PROVE /\ Target[role'] \subseteq held' \cup late'
              /\ held' \cap Managed \subseteq Target[role'] \cup retain' \cup late' \cup Shadowed
    BY <2>3 DEF Reject, SuccessMeansMoved, plan, start
  <2>4. CASE UNCHANGED vars
    BY <2>4 DEF vars, SuccessMeansMoved
  <2>5. ~(SubmitRedelivered \/ Die \/ Start)
    BY DEF SubmitRedelivered, Die, Start, Begin
  <2>6. Advance => Verify
    BY DEF Advance, FetchCurrentState, ResolveFails, Plan, SubmitDone, PollEnd,
       AdditionsDone, RemovalsDone, Patch, Begin, End
  <2>7. ASSUME NEW p \in Packages PROVE ~Work(p)
    BY DEF Work, SubmitSkips, Submit, SubmitFails, Poll, FinalizeAddition,
       FinalizeRemoval
  <2> QED BY <2>1, <2>2, <2>3, <2>4, <2>5, <2>6, <2>7 DEF Next, Entra
<1> QED BY <1>1, <1>2, Inv, PTL DEF Spec

-----------------------------------------------------------------------------
(* The Mover implements MoveContract: in every instance, whether conflicts *)
(* force removals first or not.                                            *)
THEOREM Implements == Spec => ImplementsContract
<1>1. Init => Contract!Init
  BY DEF Init, Contract!Init
<1>2. MoveInv /\ [Next]_vars => [Contract!Next]_(Contract!vars)
  <2> SUFFICES ASSUME MoveInv, [Next]_vars
               PROVE Contract!Next \/ UNCHANGED Contract!vars
    OBVIOUS
  <2> USE DEF Contract!vars, start, platform
  <2>1. CASE Start
    <3>1. CASE UNCHANGED <<role, before, late>>
      BY <2>1, <3>1 DEF Start
    <3>2. CASE /\ role' \in Roles \ {role}
               /\ late' = {p \in Packages : \E o \in Ops : requests[o][p] = "open"}
      <4>1. \A p \in Packages, o \in Ops : requests[o][p] = "open" => p \in Managed
        <5>1. Target[role] \subseteq Managed
          BY ConstantsAssumption DEF MoveInv, TypeOK
        <5> QED BY <5>1 DEF MoveInv, RequestsOwned, Ops
      <4>2. late' \subseteq Managed
        BY <3>2, <4>1
      <4> QED BY <2>1, <3>2, <4>2 DEF Start, Contract!Next, Contract!Move
    <3> QED BY <2>1, <3>1, <3>2 DEF Start
  <2>2. ASSUME NEW p \in Packages, DeliverAddition(p) PROVE Contract!Gain(p)
    BY <2>2 DEF DeliverAddition, Contract!Gain, MoveInv, RequestsOwned
  <2>3. ASSUME NEW p \in Packages, DeliverRemoval(p)
        PROVE Contract!Lose(p) \/ Contract!LoseLate(p)
    BY <2>3 DEF DeliverRemoval, Contract!Lose, Contract!LoseLate, MoveInv, RequestsOwned,
       Gated, Removing
  <2>4. CASE UNCHANGED <<held, role, before, late>> BY <2>4
  <2> QED BY <2>1, <2>2, <2>3, <2>4, OnlyTheseMove DEF Contract!Next
<1> QED BY <1>1, <1>2, Inv, PTL DEF Spec, ImplementsContract, Contract!Spec
=============================================================================
