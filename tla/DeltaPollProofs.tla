--------------------------- MODULE DeltaPollProofs ---------------------------
(***************************************************************************)
(* Theorems about DeltaPoll, for every set of employees and pollers, every *)
(* length of the day and any number of faults.                             *)
(***************************************************************************)
EXTENDS DeltaPoll, TLAPS

(* A poll between its reading of the checkpoint and its end, which still   *)
(* asks, or has asked in vain, for what is new since then.                 *)
Asking == {"mark", "create", "fetch", "nothing", "failed"}

(* Nothing stored lies in the future.                                      *)
ClockInv ==
  /\ checkpoint # None => checkpoint <= now
  /\ \A e \in Employees : changed[e] <= now
  /\ \A p \in Pollers : since[p] <= now

(* A poll that found nothing, while the row is still as it marked it.      *)
NothingBetween ==
  checkpoint # None =>
    \A p \in Pollers : pc[p] = "nothing" /\ etag = p =>
      \A e \in Employees :
        changed[e] = 0 \/ changed[e] < since[p] \/ changed[e] >= checkpoint

(* What a poll does not ask for, it or an earlier poll has left behind.    *)
AskedFor ==
  \A p \in Pollers : pc[p] \in Asking =>
    \A e \in pending : changed[e] < since[p] => e \in unseen[p] \union passed

(* What a poll is running covers what is pending, but for late changes.    *)
Covered ==
  \A p \in Pollers : pc[p] = "run" => pending \subseteq todo[p] \union unseen[p] \union passed

PendingChanged == \A e \in pending : changed[e] # 0

BackInv == TypeOK /\ ClockInv /\ NothingBetween
LostInv == BackInv /\ PendingChanged /\ AskedFor /\ Covered /\ LostOnlyInKnownWays

------------------------------------------------------------------------------
LEMMA DefaultInTime ==
  ASSUME TypeOK
  PROVE  SafeDefault \in Time /\ SafeDefault <= now
  BY ConstantsAssumption DEF TypeOK, SafeDefault, Time

LEMMA PollersNotNone == \A p \in Pollers : p # None
  BY ConstantsAssumption

LEMMA TypeInit == Init => TypeOK
  <1> SUFFICES ASSUME Init PROVE TypeOK
    OBVIOUS
  <1>1. 0 \in Time
    BY ConstantsAssumption DEF Time
  <1>2. changed \in [Employees -> Time] /\ since \in [Pollers -> Time]
    BY <1>1 DEF Init
  <1>3. pc \in [Pollers -> PC]
    BY DEF Init, PC
  <1>4. todo \in [Pollers -> SUBSET Employees] /\ unseen \in [Pollers -> SUBSET Employees]
    BY DEF Init
  <1>5. faults \in 0 .. MaxFaults
    BY ConstantsAssumption DEF Init
  <1>6. QED
    BY <1>1, <1>2, <1>3, <1>4, <1>5 DEF Init, TypeOK

LEMMA TypeStep ==
  ASSUME TypeOK, [Next]_vars
  PROVE  TypeOK'
  <1> USE ConstantsAssumption DEF TypeOK, Time, PC
  <1>1. ASSUME NEW p \in Pollers, Read(p) PROVE TypeOK'
    BY <1>1, DefaultInTime DEF Read, Begin, BeginWithDefault, Goto, hr, row
  <1>2. ASSUME NEW p \in Pollers, ReadFails(p) PROVE TypeOK'
    BY <1>2, DefaultInTime DEF ReadFails, Begin, BeginWithDefault, Goto, Fault, hr, row
  <1>3. ASSUME NEW p \in Pollers, Mark(p) \/ Create(p) \/ CreateFails(p) PROVE TypeOK'
    <2>1. CASE Mark(p)
      BY <2>1 DEF Mark, Goto, hr, observed
    <2>2. CASE Create(p)
      BY <2>2 DEF Create, Goto, hr, observed
    <2>3. CASE CreateFails(p)
      BY <2>3 DEF CreateFails, Leave, Goto, hr, row
    <2>4. QED BY <1>3, <2>1, <2>2, <2>3
  <1>4. ASSUME NEW p \in Pollers, Fetch(p) \/ FetchFails(p) PROVE TypeOK'
    BY <1>4 DEF Fetch, FetchFails, Changed, Goto, Fault, hr, row, observed
  <1>5. ASSUME NEW p \in Pollers, NEW e \in Employees, RunSingle(p, e) \/ RunSingleFails(p, e)
        PROVE  TypeOK'
    BY <1>5 DEF RunSingle, RunSingleFails, Fault, hr, row
  <1>6. ASSUME NEW p \in Pollers, SaveSince(p) \/ SaveNow(p) \/ SaveFailed(p) PROVE TypeOK'
    BY <1>6 DEF SaveSince, SaveNow, SaveFailed, Matches, Leave, Goto, hr
  <1>7. ASSUME NEW p \in Pollers, SaveFails(p) \/ Die(p) PROVE TypeOK'
    BY <1>7 DEF SaveFails, Die, Leave, Goto, Fault, hr, row
  <1>8. ASSUME NEW e \in Employees, HrChanges(e) \/ RunBulk(e) PROVE TypeOK'
    <2>1. unseen' \in [Pollers -> SUBSET Employees]
      BY <1>8 DEF HrChanges, RunBulk
    <2>2. changed' \in [Employees -> Time]
      BY <1>8 DEF HrChanges, RunBulk, hr
    <2>3. QED BY <1>8, <2>1, <2>2 DEF HrChanges, RunBulk, hr, row, poll
  <1>9. ASSUME Tick \/ Reset PROVE TypeOK'
    <2>1. CASE Tick
      BY <2>1 DEF Tick, row, poll, observed
    <2>2. CASE Reset
      <3>1. UNCHANGED <<now, changed, pc, since, todo, pending, unseen, passed>>
        BY <2>2 DEF Reset, hr, poll
      <3>2. exists' = FALSE /\ checkpoint' = None /\ etag' = None /\ faults' \in 0 .. MaxFaults
        BY <2>2 DEF Reset, Fault
      <3>3. QED BY <3>1, <3>2
    <2>3. QED BY <1>9, <2>1, <2>2
  <1>10. CASE UNCHANGED vars
    BY <1>10 DEF vars, hr, row, poll, observed
  <1>11. QED
    BY <1>1, <1>2, <1>3, <1>4, <1>5, <1>6, <1>7, <1>8, <1>9, <1>10
       DEF Next, Poll, Failure, Environment

(* The table holds what the model says it holds, with every number of      *)
(* pollers and faults.                                                     *)
THEOREM TypeCorrect == Spec => []TypeOK
  BY TypeInit, TypeStep, PTL DEF Spec

------------------------------------------------------------------------------
LEMMA BackInit == Init => BackInv
  BY TypeInit, ConstantsAssumption DEF Init, BackInv, ClockInv, NothingBetween

LEMMA BackStep ==
  ASSUME BackInv, [Next]_vars
  PROVE  BackInv'
  <1> USE ConstantsAssumption DEF BackInv, ClockInv, NothingBetween, TypeOK, Time
  <1>0. TypeOK' BY TypeStep
  <1>d. SafeDefault \in Time /\ SafeDefault <= now BY DefaultInTime
  <1>1. ASSUME NEW p \in Pollers, Read(p) PROVE BackInv'
    BY <1>0, <1>1, <1>d DEF Read, Begin, BeginWithDefault, Goto, hr, row
  <1>2. ASSUME NEW p \in Pollers, ReadFails(p) PROVE BackInv'
    BY <1>0, <1>2, <1>d DEF ReadFails, Begin, BeginWithDefault, Goto, hr, row
  <1>3. ASSUME NEW p \in Pollers, Mark(p) \/ Create(p) \/ CreateFails(p) PROVE BackInv'
    BY <1>0, <1>3 DEF Mark, Create, CreateFails, Leave, Goto, hr, row, observed
  <1>4. ASSUME NEW p \in Pollers, Fetch(p) \/ FetchFails(p) PROVE BackInv'
    BY <1>0, <1>4 DEF Fetch, FetchFails, Changed, Goto, hr, row, observed
  <1>5. ASSUME NEW p \in Pollers, NEW e \in Employees, RunSingle(p, e) \/ RunSingleFails(p, e)
        PROVE  BackInv'
    BY <1>0, <1>5 DEF RunSingle, RunSingleFails, hr, row
  <1>6. ASSUME NEW p \in Pollers, SaveSince(p) \/ SaveNow(p) \/ SaveFailed(p) PROVE BackInv'
    BY <1>0, <1>6, PollersNotNone DEF SaveSince, SaveNow, SaveFailed, Matches, Leave, Goto, hr
  <1>7. ASSUME NEW p \in Pollers, SaveFails(p) \/ Die(p) PROVE BackInv'
    BY <1>0, <1>7 DEF SaveFails, Die, Leave, Goto, hr, row
  <1>8. ASSUME NEW e \in Employees, HrChanges(e) \/ RunBulk(e) PROVE BackInv'
    BY <1>0, <1>8 DEF HrChanges, RunBulk, hr, row, poll
  <1>9. ASSUME Tick \/ Reset PROVE BackInv'
    BY <1>0, <1>9 DEF Tick, Reset, hr, row, poll, observed
  <1>10. CASE UNCHANGED vars
    BY <1>0, <1>10 DEF vars, hr, row, poll, observed
  <1>11. QED
    BY <1>1, <1>2, <1>3, <1>4, <1>5, <1>6, <1>7, <1>8, <1>9, <1>10
       DEF Next, Poll, Failure, Environment

(* One step of the system moves the checkpoint back over no change.        *)
ForwardStep ==
  checkpoint # None /\ checkpoint' # None
    => \A e \in Employees : ~(checkpoint' <= changed[e] /\ changed[e] < checkpoint
                               /\ changed[e] # 0)

LEMMA StepForward ==
  ASSUME BackInv, [Next]_vars
  PROVE  ForwardStep
  <1> USE ConstantsAssumption DEF BackInv, ClockInv, NothingBetween, TypeOK, Time, ForwardStep
  <1>1. ASSUME NEW p \in Pollers, SaveSince(p) PROVE ForwardStep
    BY <1>1 DEF SaveSince, Matches
  <1>2. ASSUME NEW p \in Pollers, SaveNow(p) PROVE ForwardStep
    BY <1>2 DEF SaveNow
  <1>3. ASSUME NEW p \in Pollers, Create(p) PROVE ForwardStep
    BY <1>3 DEF Create
  <1>4. CASE Reset
    BY <1>4 DEF Reset
  <1>5. CASE UNCHANGED checkpoint
    BY <1>5
  <1>6. QED
    BY <1>1, <1>2, <1>3, <1>4, <1>5
       DEF Next, Poll, Failure, Environment, Read, ReadFails, Mark, CreateFails, Fetch,
           FetchFails, RunSingle, RunSingleFails, SaveFailed, SaveFails, Die, HrChanges,
           RunBulk, Tick, vars, row

(* No save moves the checkpoint back over a change, whatever polls overlap *)
(* and whatever reads fail.                                                *)
THEOREM CheckpointForward == Spec => NeverBackOverChange
  <1>1. BackInv /\ [Next]_vars => [ForwardStep]_vars
    BY StepForward
  <1>2. QED
    BY <1>1, BackInit, BackStep, PTL DEF Spec, NeverBackOverChange, ForwardStep

------------------------------------------------------------------------------
LEMMA LostInit == Init => LostInv
  BY BackInit, ConstantsAssumption
     DEF Init, LostInv, PendingChanged, AskedFor, Covered, LostOnlyInKnownWays, Asking

LEMMA LostStep ==
  ASSUME LostInv, [Next]_vars
  PROVE  LostInv'
  <1> USE ConstantsAssumption
      DEF LostInv, PendingChanged, AskedFor, Covered, LostOnlyInKnownWays, Asking
  <1>0. BackInv' BY BackStep
  <1>t. TypeOK /\ ClockInv /\ TypeOK' BY <1>0 DEF BackInv
  <1>d. SafeDefault \in Time /\ SafeDefault <= now BY <1>t, DefaultInTime
  <1> USE DEF TypeOK, ClockInv, Time
  <1>1. ASSUME NEW p \in Pollers, Read(p) PROVE LostInv'
    BY <1>0, <1>t, <1>1, <1>d DEF Read, Begin, BeginWithDefault, Goto, hr, row
  <1>2. ASSUME NEW p \in Pollers, ReadFails(p) PROVE LostInv'
    BY <1>0, <1>t, <1>2, <1>d DEF ReadFails, Begin, BeginWithDefault, Goto, hr, row
  <1>3. ASSUME NEW p \in Pollers, Mark(p) \/ Create(p) \/ CreateFails(p) PROVE LostInv'
    BY <1>0, <1>t, <1>3 DEF Mark, Create, CreateFails, Leave, Goto, hr, row, observed
  <1>4. ASSUME NEW p \in Pollers, Fetch(p) \/ FetchFails(p) PROVE LostInv'
    BY <1>0, <1>t, <1>4 DEF Fetch, FetchFails, Changed, Goto, hr, row, observed
  <1>5. ASSUME NEW p \in Pollers, NEW e \in Employees, RunSingle(p, e) \/ RunSingleFails(p, e)
        PROVE  LostInv'
    BY <1>0, <1>t, <1>5 DEF RunSingle, RunSingleFails, hr, row
  <1>6. ASSUME NEW p \in Pollers, SaveSince(p) \/ SaveNow(p) \/ SaveFailed(p) PROVE LostInv'
    BY <1>0, <1>t, <1>6 DEF SaveSince, SaveNow, SaveFailed, Matches, Leave, Goto, hr
  <1>7. ASSUME NEW p \in Pollers, SaveFails(p) \/ Die(p) PROVE LostInv'
    BY <1>0, <1>t, <1>7 DEF SaveFails, Die, Leave, Goto, hr, row
  <1>8. ASSUME NEW e \in Employees, HrChanges(e) \/ RunBulk(e) PROVE LostInv'
    BY <1>0, <1>t, <1>8 DEF HrChanges, RunBulk, hr, row, poll
  <1>9. ASSUME Tick \/ Reset PROVE LostInv'
    BY <1>0, <1>t, <1>9 DEF Tick, Reset, hr, row, poll, observed
  <1>10. CASE UNCHANGED vars
    BY <1>0, <1>10 DEF vars, hr, row, poll, observed
  <1>11. QED
    BY <1>1, <1>2, <1>3, <1>4, <1>5, <1>6, <1>7, <1>8, <1>9, <1>10
       DEF Next, Poll, Failure, Environment

(* What the checkpoint has left behind unrun, it has left behind in one of *)
(* the three known ways.                                                   *)
THEOREM LostKnown == Spec => []LostOnlyInKnownWays
  <1>1. LostInv => LostOnlyInKnownWays
    BY DEF LostInv
  <1>2. QED
    BY <1>1, LostInit, LostStep, PTL DEF Spec
=============================================================================
