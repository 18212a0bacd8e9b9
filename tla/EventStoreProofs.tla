-------------------------- MODULE EventStoreProofs --------------------------
(***************************************************************************)
(* Proofs about EventStore for every set of runs and of row keys: the type *)
(* invariant, the owner of a Processing row, the exclusion that the claim  *)
(* and the conflict queue give, the idempotency of late runs, and that a   *)
(* parked Joiner stays parked.                                             *)
(***************************************************************************)
EXTENDS EventStore, TLAPS

(* The inductive invariant behind Exclusive and EntersAlone.  A run whose  *)
(* row nobody else has written keeps it active until it writes the final   *)
(* status, which is what the scans of the other runs look at; so of two    *)
(* holders of one claim one has seen its row written by another run.       *)
ClaimKept(r) == Holding(r) /\ r \notin disturbed => Active(ev[r])

OneHolder(q, r) ==
  q # r /\ Holding(q) /\ Holding(r) /\ ev[q] = ev[r] =>
    q \in disturbed \/ r \in disturbed

OneAdmitted(q, r) ==
  q # r /\ Admitted(q) /\ Admitted(r) => q \in disturbed \/ r \in disturbed

(* A Leaver does not supersede its own row; a Joiner passes the conflict   *)
(* queue and the PreProvision gate and no event-log guard.                 *)
SparesItself(r) == pc[r] = "supersede" => ev[r] \notin todo[r]
OwnGate(r) == pc[r] \in {"supersede", "guard"} => kind[r] \in {"Mover", "Leaver"}

ClaimInv ==
  /\ \A r \in Runs : ClaimKept(r) /\ SparesItself(r) /\ OwnGate(r)
  /\ \A q, r \in Runs : OneHolder(q, r) /\ OneAdmitted(q, r)

(* The inductive invariant behind LateRunsNeverReopen.  A run that began   *)
(* when an event was Completed gets no further than reading its row, and   *)
(* the event is on none of its lists of rows to write.                     *)
LateInv ==
  \A r \in Runs :
    /\ pc[r] \notin {"sweep", "sweepSkip", "supersede", "advancing"} => todo[r] = {}
    /\ \A e \in closed[r] :
         /\ status[e] = "Completed"
         /\ e \notin todo[r]
         /\ ev[r] = e => pc[r] \in AtStart

-----------------------------------------------------------------------------
(* Types.                                                                  *)

LEMMA WriteType ==
  ASSUME TypeOK, NEW r \in Runs, NEW e \in Events, NEW s \in Status,
         NEW l \in Lock, Write(r, e, s, l)
  PROVE  /\ status' \in [Events -> Status]
         /\ lock' \in [Events -> Lock]
         /\ closed' \in [Runs -> SUBSET Events]
         /\ orphaned' \subseteq Events
BY DEF TypeOK, Write

LEMMA QueueType ==
  ASSUME TypeOK, NEW e \in Events
  PROVE  /\ Stamp(e) \in [Events -> SUBSET Events]
         /\ Unstamp(e) \in [Events -> SUBSET Events]
BY DEF TypeOK, Stamp, Unstamp

LEMMA TypeInit == Init => TypeOK
BY ConstantsAssumption DEF Init, TypeOK, Status, Lock, PC, Kinds

LEMMA TypeStep == TypeOK /\ [Next]_vars => TypeOK'
<1> SUFFICES ASSUME TypeOK, [Next]_vars PROVE TypeOK'
  OBVIOUS
<1> USE DEF TypeOK
<1>1. ASSUME NEW r \in Runs, NEW e \in Events, Start(r, e) PROVE TypeOK'
  BY <1>1, ConstantsAssumption DEF Start, Goto, KindsOf, Kinds, PC, rows, Actions
<1>2. ASSUME NEW r \in Runs, Step(r) PROVE TypeOK'
  <2> USE DEF Goto, PC, rows, local, ghosts
  <2>1. CASE Scan(r)
    BY <2>1 DEF Scan, Active, StaleLock
  <2>2. CASE Sweep(r)
    <3>1. PICK e \in todo[r] : Reclaim(r, e) /\ todo' = [todo EXCEPT ![r] = @ \ {e}]
                               /\ disturbed' = Disturb(r, e)
      BY <2>2 DEF Sweep
    <3>2. QED
      BY <3>1, <2>2, WriteType DEF Sweep, Reclaim, Disturb, Holders, Status, Lock
  <2>3. CASE SweepEnd(r)
    BY <2>3 DEF SweepEnd
  <2>4. CASE Claim(r)
    BY <2>4, WriteType DEF Claim, AfterClaim, Disturb, Holders, Status, Lock, Granted
  <2>5. CASE ClaimExists(r)
    BY <2>5 DEF ClaimExists
  <2>6. CASE Get(r)
    BY <2>6 DEF Get
  <2>7. CASE ClaimReclaim(r)
    BY <2>7, WriteType
       DEF ClaimReclaim, Reclaim, AfterClaim, Disturb, Holders, Status, Lock, Granted
  <2>8. CASE Check(r)
    BY <2>8 DEF Check, Granted
  <2>9. CASE Mark(r)
    BY <2>9, QueueType DEF Mark, Disturb, Holders
  <2>10. CASE CheckLeaver(r)
    BY <2>10 DEF CheckLeaver, Others, Granted
  <2>11. CASE Supersede(r)
    <3>1. PICK e \in todo[r] : /\ UpdateStatus(r, e, "Superseded")
                               /\ todo' = [todo EXCEPT ![r] = @ \ {e}]
                               /\ disturbed' = Disturb(r, e)
      BY <2>11 DEF Supersede
    <3>2. QED
      BY <3>1, <2>11, WriteType DEF Supersede, UpdateStatus, Disturb, Holders, Status
  <2>12. CASE SupersedeEnd(r)
    BY <2>12 DEF SupersedeEnd, Granted
  <2>13. CASE GuardPass(r)
    BY <2>13 DEF GuardPass, Locking
  <2>14. CASE GuardQueued(r)
    BY <2>14 DEF GuardQueued
  <2>15. CASE GuardFail(r)
    BY <2>15, WriteType DEF GuardFail, UpdateStatus, Disturb, Holders, Status
  <2>16. CASE AcquireLock(r)
    BY <2>16, WriteType DEF AcquireLock, Disturb, Holders, Status, Lock, Locking
  <2>17. CASE Work(r)
    BY <2>17 DEF Work, Locking
  <2>18. CASE ReleaseLock(r)
    BY <2>18, WriteType DEF ReleaseLock, Disturb, Holders, Lock, Locking
  <2>19. CASE Update(r)
    <3>1. result[r] \in Status /\ lock[ev[r]] \in Lock
      BY DEF Status
    <3>2. Write(r, ev[r], result[r], lock[ev[r]])
      BY <2>19 DEF Update, UpdateStatus
    <3>3. /\ status' \in [Events -> Status]
          /\ lock' \in [Events -> Lock]
          /\ closed' \in [Runs -> SUBSET Events]
          /\ orphaned' \subseteq Events
      BY <3>1, <3>2, WriteType
    <3>4. QED
      BY <3>3, <2>19 DEF Update, Disturb, Holders, Forget
  <2>20. CASE Advance(r)
    BY <2>20 DEF Advance, Oldest, Queued, Forget
  <2>21. CASE ReleaseNext(r)
    <3>1. PICK e \in todo[r] :
            /\ disturbed' = Disturb(r, e)
            /\ IF result[r] = "Completed"
                 THEN UpdateStatus(r, e, "Pending") /\ queue' = Unstamp(e)
                 ELSE UpdateStatus(r, e, "Held") /\ UNCHANGED queue
      BY <2>21 DEF ReleaseNext
    <3>2. QED
      BY <3>1, <2>21, WriteType, QueueType
         DEF ReleaseNext, UpdateStatus, Disturb, Holders, Forget, Status
  <2>22. QED
    BY <1>2, <2>1, <2>2, <2>3, <2>4, <2>5, <2>6, <2>7, <2>8, <2>9, <2>10, <2>11,
       <2>12, <2>13, <2>14, <2>15, <2>16, <2>17, <2>18, <2>19, <2>20, <2>21 DEF Step
<1>3. ASSUME NEW r \in Runs, Crash(r) PROVE TypeOK'
  BY <1>3, ConstantsAssumption DEF Crash, Goto, Forget, PC, rows
<1>4. ASSUME NEW r \in Runs, Redeliver(r) PROVE TypeOK'
  <2>1. RestartPoints(r) \subseteq PC
    BY DEF RestartPoints, PC, Locking
  <2>2. QED
    BY <1>4, <2>1, ConstantsAssumption DEF Redeliver, Goto, Forget, rows
<1>5. ASSUME NEW e \in Events, Age(e) PROVE TypeOK'
  BY <1>5 DEF Age, Lock, local, ghosts
<1>6. CASE UNCHANGED vars
  BY <1>6 DEF vars
<1>7. QED
  BY <1>1, <1>2, <1>3, <1>4, <1>5, <1>6 DEF Next

(* Every variable keeps its type, for any number of runs and of row keys.  *)
THEOREM TypeCorrect == Spec => []TypeOK
BY TypeInit, TypeStep, PTL DEF Spec

-----------------------------------------------------------------------------
(* The owner of a Processing row.                                          *)

LEMMA OwnerInit == Init => ProcessingHasOwner
BY DEF Init, ProcessingHasOwner

LEMMA OwnerStep == TypeOK /\ ProcessingHasOwner /\ [Next]_vars => ProcessingHasOwner'
<1> SUFFICES ASSUME TypeOK, ProcessingHasOwner, [Next]_vars,
                    NEW e \in Events, status'[e] = "Processing"
             PROVE  e \in orphaned' \/ \E r \in Runs : ev'[r] = e /\ pc'[r] \in Locking
  BY DEF ProcessingHasOwner
<1> DEFINE Owned == e \in orphaned \/ \E r \in Runs : ev[r] = e /\ pc[r] \in Locking
<1>0. status[e] = "Processing" => Owned
  BY DEF ProcessingHasOwner
<1>1. ASSUME NEW r \in Runs, NEW x \in Events, Start(r, x) PROVE Owned'
  BY <1>0, <1>1 DEF Start, Goto, rows, TypeOK, Locking
<1>2. ASSUME NEW r \in Runs, Step(r) PROVE Owned'
  <2> USE DEF TypeOK, Goto, Locking, Granted, rows, local, ghosts
  <2>1. CASE Scan(r) \/ SweepEnd(r) \/ ClaimExists(r) \/ Get(r) \/ Check(r)
             \/ Mark(r) \/ CheckLeaver(r) \/ SupersedeEnd(r) \/ GuardPass(r)
             \/ GuardQueued(r) \/ Advance(r)
    BY <1>0, <2>1 DEF Scan, SweepEnd, ClaimExists, Get, Check, Mark, CheckLeaver,
                      SupersedeEnd, GuardPass, GuardQueued, Advance, Forget
  <2>2. CASE Sweep(r)
    BY <1>0, <2>2 DEF Sweep, Reclaim, Write
  <2>3. CASE Claim(r) \/ ClaimReclaim(r)
    BY <1>0, <2>3 DEF Claim, ClaimReclaim, Reclaim, AfterClaim, Write
  <2>4. CASE Supersede(r)
    BY <1>0, <2>4 DEF Supersede, UpdateStatus, Write
  <2>5. CASE GuardFail(r)
    BY <1>0, <2>5 DEF GuardFail, UpdateStatus, Write
  <2>6. CASE AcquireLock(r)
    BY <1>0, <2>6 DEF AcquireLock, Write
  <2>7. CASE Work(r)
    BY <1>0, <2>7 DEF Work
  <2>8. CASE ReleaseLock(r)
    BY <1>0, <2>8 DEF ReleaseLock, Write
  <2>9. CASE Update(r)
    BY <1>0, <2>9 DEF Update, UpdateStatus, Write, Forget
  <2>10. CASE ReleaseNext(r)
    BY <1>0, <2>10 DEF ReleaseNext, UpdateStatus, Write, Forget
  <2>11. QED
    BY <1>2, <2>1, <2>2, <2>3, <2>4, <2>5, <2>6, <2>7, <2>8, <2>9, <2>10 DEF Step
<1>3. ASSUME NEW r \in Runs, Crash(r) PROVE Owned'
  BY <1>0, <1>3 DEF Crash, Goto, rows, TypeOK, Locking
<1>4. ASSUME NEW r \in Runs, Redeliver(r) PROVE Owned'
  BY <1>0, <1>4 DEF Redeliver, Goto, rows, TypeOK
<1>5. ASSUME NEW x \in Events, Age(x) PROVE Owned'
  BY <1>0, <1>5 DEF Age, local, ghosts
<1>6. CASE UNCHANGED vars
  BY <1>0, <1>6 DEF vars
<1>7. QED
  BY <1>1, <1>2, <1>3, <1>4, <1>5, <1>6 DEF Next

(* Every Processing row has a run between acquire_lock and its final       *)
(* status, or lost its run there: acquire_lock is the only way into        *)
(* Processing, and a run leaves that stretch only by writing the status or *)
(* by a crash.                                                             *)
THEOREM ProcessingOwned == Spec => []ProcessingHasOwner
BY TypeInit, TypeStep, OwnerInit, OwnerStep, PTL DEF Spec

-----------------------------------------------------------------------------
(* What one step of a run leaves alone: the local state of every other run *)
(* and, for those of them it does not disturb, the status of their row.    *)
Frame(r) ==
  /\ UNCHANGED <<ev, kind>>
  /\ \A q \in Runs \ {r} :
       /\ pc'[q] = pc[q] /\ todo'[q] = todo[q]
       /\ q \in disturbed => q \in disturbed'
       /\ Holding(q) /\ q \notin disturbed' => status'[ev[q]] = status[ev[q]]

LEMMA WriteFrame ==
  ASSUME TypeOK, NEW r \in Runs, NEW e \in Events, NEW s, NEW l,
         Write(r, e, s, l), disturbed' \in {Disturb(r, e), Disturb(r, e) \ {r}}
  PROVE  \A q \in Runs \ {r} :
           /\ q \in disturbed => q \in disturbed'
           /\ Holding(q) /\ q \notin disturbed' => status'[ev[q]] = status[ev[q]]
BY DEF TypeOK, Write, Disturb, Holders, Holding

LEMMA StepFrame ==
  ASSUME TypeOK, NEW r \in Runs, Step(r)
  PROVE  Frame(r)
<1> USE DEF TypeOK, Goto, rows, ghosts, Frame
<1>1. CASE Scan(r) \/ SweepEnd(r) \/ ClaimExists(r) \/ Get(r) \/ Check(r)
           \/ CheckLeaver(r) \/ SupersedeEnd(r) \/ GuardPass(r)
           \/ GuardQueued(r) \/ Work(r) \/ Advance(r)
  BY <1>1 DEF Scan, SweepEnd, ClaimExists, Get, Check, CheckLeaver, SupersedeEnd,
              GuardPass, GuardQueued, Work, Advance, Forget
<1>2. CASE Sweep(r)
  BY <1>2, WriteFrame DEF Sweep, Reclaim
<1>3. CASE Claim(r) \/ ClaimReclaim(r)
  BY <1>3, WriteFrame DEF Claim, ClaimReclaim, Reclaim
<1>4. CASE Mark(r)
  BY <1>4 DEF Mark, Disturb
<1>5. CASE Supersede(r)
  BY <1>5, WriteFrame DEF Supersede, UpdateStatus
<1>6. CASE GuardFail(r)
  BY <1>6, WriteFrame DEF GuardFail, UpdateStatus
<1>7. CASE AcquireLock(r)
  BY <1>7, WriteFrame DEF AcquireLock
<1>8. CASE ReleaseLock(r)
  BY <1>8, WriteFrame DEF ReleaseLock
<1>9. CASE Update(r)
  BY <1>9, WriteFrame DEF Update, UpdateStatus, Forget
<1>10. CASE ReleaseNext(r)
  BY <1>10, WriteFrame DEF ReleaseNext, UpdateStatus, Forget
<1>11. QED
  BY <1>1, <1>2, <1>3, <1>4, <1>5, <1>6, <1>7, <1>8, <1>9, <1>10 DEF Step

-----------------------------------------------------------------------------
(* Exclusion.                                                              *)

LEMMA ClaimInit == Init => ClaimInv
BY DEF Init, ClaimInv, ClaimKept, SparesItself, OwnGate, OneHolder, OneAdmitted, Holding,
       Admitted, Granted, Locking

(* The run that steps: it keeps its own row active and off its own list,   *)
(* becomes a holder only by the claim, which disturbs every other holder,  *)
(* and is admitted only when it saw no other active row.                   *)
LEMMA OwnStep ==
  ASSUME TypeOK, ClaimInv, NEW r \in Runs, Step(r)
  PROVE  /\ ClaimKept(r)'
         /\ SparesItself(r)' /\ OwnGate(r)'
         /\ \A q \in Runs \ {r} : Holding(r)' /\ ~Holding(r) /\ ev[q] = ev[r] =>
              ~Holding(q) \/ q \in disturbed'
         /\ Holding(r) /\ Holding(r)' => (r \in disturbed => r \in disturbed')
         /\ Admitted(r)' /\ ~Admitted(r) =>
              Check(r) /\ \A e \in Events \ {ev[r]} : ~Active(e)
<1> USE DEF TypeOK, ClaimInv, ClaimKept, SparesItself, OwnGate, Holding, Admitted, Goto,
            Granted, Locking, rows, ghosts, Active
<1>1. CASE Scan(r) \/ SweepEnd(r) \/ ClaimExists(r) \/ Get(r)
           \/ SupersedeEnd(r) \/ GuardPass(r) \/ GuardQueued(r) \/ Work(r) \/ Advance(r)
  BY <1>1 DEF Scan, SweepEnd, ClaimExists, Get, SupersedeEnd,
              GuardPass, GuardQueued, Work, Advance, Forget, Kinds
<1>2. CASE Sweep(r)
  BY <1>2 DEF Sweep, Reclaim, Write
<1>3. CASE Claim(r) \/ ClaimReclaim(r)
  BY <1>3 DEF Claim, ClaimReclaim, AfterClaim, Reclaim, Write, Disturb, Holders, Kinds
<1>4. CASE Check(r)
  BY <1>4 DEF Check, Others
<1>5. CASE Mark(r)
  BY <1>5 DEF Mark, Disturb
<1>6. CASE CheckLeaver(r)
  BY <1>6 DEF CheckLeaver, Others, Kinds
<1>7. CASE Supersede(r)
  BY <1>7 DEF Supersede, UpdateStatus, Write, Disturb
<1>8. CASE GuardFail(r)
  BY <1>8 DEF GuardFail
<1>9. CASE AcquireLock(r)
  BY <1>9 DEF AcquireLock, Write, Disturb
<1>10. CASE ReleaseLock(r)
  BY <1>10 DEF ReleaseLock, Write, Disturb
<1>11. CASE Update(r)
  BY <1>11 DEF Update
<1>12. CASE ReleaseNext(r)
  BY <1>12 DEF ReleaseNext
<1>13. QED
  BY <1>1, <1>2, <1>3, <1>4, <1>5, <1>6, <1>7, <1>8, <1>9, <1>10, <1>11, <1>12 DEF Step

LEMMA ClaimStep == TypeOK /\ ClaimInv /\ [Next]_vars => ClaimInv'
<1> SUFFICES ASSUME TypeOK, ClaimInv, [Next]_vars PROVE ClaimInv'
  OBVIOUS
<1> USE DEF TypeOK
<1>1. ASSUME NEW r \in Runs, NEW e \in Events, Start(r, e) PROVE ClaimInv'
  BY <1>1 DEF Start, Goto, rows, ClaimInv, ClaimKept, SparesItself, OwnGate, OneHolder,
              OneAdmitted, Holding, Admitted, Active, Granted, Locking
<1>2. ASSUME NEW r \in Runs, Step(r) PROVE ClaimInv'
  <2>1. Frame(r)
    BY <1>2, StepFrame
  <2>2. /\ ClaimKept(r)'
        /\ SparesItself(r)' /\ OwnGate(r)'
        /\ \A q \in Runs \ {r} : Holding(r)' /\ ~Holding(r) /\ ev[q] = ev[r] =>
             ~Holding(q) \/ q \in disturbed'
        /\ Holding(r) /\ Holding(r)' => (r \in disturbed => r \in disturbed')
        /\ Admitted(r)' /\ ~Admitted(r) =>
             Check(r) /\ \A e \in Events \ {ev[r]} : ~Active(e)
    BY <1>2, OwnStep
  <2>3. ASSUME NEW q \in Runs \ {r}
        PROVE  /\ ClaimKept(q)' /\ SparesItself(q)' /\ OwnGate(q)'
               /\ Holding(q)' = Holding(q) /\ Admitted(q)' = Admitted(q)
    <3>1. /\ pc'[q] = pc[q] /\ todo'[q] = todo[q] /\ ev'[q] = ev[q] /\ kind'[q] = kind[q]
          /\ q \in disturbed => q \in disturbed'
          /\ Holding(q) /\ q \notin disturbed' => status'[ev[q]] = status[ev[q]]
      BY <2>1 DEF Frame
    <3>2. ClaimKept(q) /\ SparesItself(q) /\ OwnGate(q)
      BY DEF ClaimInv
    <3>3. QED
      BY <3>1, <3>2 DEF ClaimKept, SparesItself, OwnGate, Holding, Admitted, Active
  <2>4. ASSUME NEW q \in Runs \ {r}
        PROVE  /\ OneHolder(q, r)' /\ OneHolder(r, q)'
               /\ OneAdmitted(q, r)' /\ OneAdmitted(r, q)'
    <3>1. /\ OneHolder(q, r) /\ OneHolder(r, q)
          /\ OneAdmitted(q, r) /\ OneAdmitted(r, q) /\ ClaimKept(q)
      BY DEF ClaimInv
    <3>2. q \in disturbed => q \in disturbed'
      BY <2>1 DEF Frame
    <3>3. UNCHANGED <<ev, kind>>
      BY <2>1 DEF Frame
    <3>4. OneHolder(q, r)' /\ OneHolder(r, q)'
      BY <2>2, <2>3, <3>1, <3>2, <3>3 DEF OneHolder
    <3>5. Admitted(r) /\ Admitted(r)' => Holding(r) /\ Holding(r)'
      BY DEF Admitted, Holding, Granted, Locking
    <3>6. Admitted(q) => Holding(q)
      BY DEF Admitted, Holding, Granted, Locking
    <3>7. Admitted(r)' /\ ~Admitted(r) /\ Admitted(q) => q \in disturbed'
                                                        \/ r \in disturbed'
      <4>1. SUFFICES ASSUME Admitted(r)', ~Admitted(r), Admitted(q), q \notin disturbed'
                     PROVE  r \in disturbed'
        OBVIOUS
      <4>2. Check(r) /\ Active(ev[q]) /\ \A e \in Events \ {ev[r]} : ~Active(e)
        BY <2>2, <3>1, <3>2, <3>6, <4>1 DEF ClaimKept
      <4>3. ev[q] = ev[r]
        BY <4>2
      <4>4. Holding(r) /\ UNCHANGED disturbed
        BY <4>2 DEF Check, Holding, Granted, ghosts
      <4>5. QED
        BY <3>1, <3>6, <4>1, <4>3, <4>4 DEF OneHolder
    <3>8. QED
      BY <2>2, <2>3, <3>1, <3>2, <3>4, <3>5, <3>7 DEF OneAdmitted
  <2>5. ASSUME NEW q \in Runs \ {r}, NEW p \in Runs \ {r}
        PROVE  OneHolder(q, p)' /\ OneAdmitted(q, p)'
    <3>1. OneHolder(q, p) /\ OneAdmitted(q, p) /\ UNCHANGED ev
      BY <2>1 DEF ClaimInv, Frame
    <3>2. (q \in disturbed => q \in disturbed') /\ (p \in disturbed => p \in disturbed')
      BY <2>1 DEF Frame
    <3>3. QED
      BY <2>3, <3>1, <3>2 DEF OneHolder, OneAdmitted
  <2>6. OneHolder(r, r)' /\ OneAdmitted(r, r)'
    BY DEF OneHolder, OneAdmitted
  <2>7. QED
    BY <2>2, <2>3, <2>4, <2>5, <2>6 DEF ClaimInv
<1>3. ASSUME NEW r \in Runs, Crash(r) PROVE ClaimInv'
  BY <1>3 DEF Crash, Forget, Goto, rows, ClaimInv, ClaimKept, SparesItself, OwnGate,
              OneHolder, OneAdmitted, Holding, Admitted, Active, Granted, Locking
<1>4. ASSUME NEW r \in Runs, Redeliver(r) PROVE ClaimInv'
  BY <1>4 DEF Redeliver, RestartPoints, Forget, Goto, rows, ClaimInv, ClaimKept,
              SparesItself, OwnGate, OneHolder, OneAdmitted, Holding, Admitted, Active,
              Holders, Granted, Locking
<1>5. ASSUME NEW e \in Events, Age(e) PROVE ClaimInv'
  BY <1>5 DEF Age, local, ghosts, ClaimInv, ClaimKept, SparesItself, OwnGate,
              OneHolder, OneAdmitted, Holding, Admitted, Active
<1>6. CASE UNCHANGED vars
  BY <1>6 DEF vars, ClaimInv, ClaimKept, SparesItself, OwnGate, OneHolder,
              OneAdmitted, Holding, Admitted, Active
<1>7. QED
  BY <1>1, <1>2, <1>3, <1>4, <1>5, <1>6 DEF Next

LEMMA ClaimImpliesExclusive == ClaimInv => Exclusive
BY DEF ClaimInv, OneHolder, OneAdmitted, Exclusive

(* However many runs are started for an employee, and however they crash,  *)
(* are redelivered or outlast their locks: two of them hold one claim, or  *)
(* are two Joiners let through, only if another run has written the row of *)
(* one of them.                                                            *)
THEOREM ClaimsExclude == Spec => []Exclusive
<1>1. TypeOK /\ ClaimInv /\ [Next]_vars => (TypeOK /\ ClaimInv)'
  BY TypeStep, ClaimStep
<1>2. QED
  BY <1>1, TypeInit, ClaimInit, ClaimImpliesExclusive, PTL DEF Spec

(* The one way to the gate is the conflict check, whose scan shows every   *)
(* active row; an undisturbed holder's row is active.                      *)
LEMMA EnterStep ==
  TypeOK /\ ClaimInv /\ [Next]_vars =>
    [\A q, r \in Runs : pc[r] = "check" /\ pc'[r] = "gate" =>
       ~(q \notin disturbed /\ Holding(q) /\ ev[q] # ev[r])]_vars
<1> SUFFICES ASSUME TypeOK, ClaimInv, Next, NEW q \in Runs, NEW r \in Runs,
                    pc[r] = "check", pc'[r] = "gate"
             PROVE  ~(q \notin disturbed /\ Holding(q) /\ ev[q] # ev[r])
  OBVIOUS
<1> USE DEF TypeOK
<1>1. Check(r)
  <2>1. ASSUME NEW x \in Runs, NEW e \in Events, Start(x, e) PROVE FALSE
    BY <2>1 DEF Start, Goto
  <2>2. ASSUME NEW x \in Runs, Step(x) PROVE Check(r)
    <3>1. x = r
      BY <2>2, StepFrame DEF Frame
    <3>2. QED
      BY <2>2, <3>1 DEF Step, Goto, Scan, Sweep, SweepEnd, Claim, ClaimExists, Get,
            ClaimReclaim, Mark, CheckLeaver, Supersede, SupersedeEnd, GuardPass,
            GuardQueued, GuardFail, AcquireLock, Work, ReleaseLock, Update,
            Advance, ReleaseNext
  <2>3. ASSUME NEW x \in Runs, Crash(x) PROVE FALSE
    BY <2>3 DEF Crash, Goto
  <2>4. ASSUME NEW x \in Runs, Redeliver(x) PROVE FALSE
    BY <2>4 DEF Redeliver, RestartPoints, Goto
  <2>5. ASSUME NEW e \in Events, Age(e) PROVE FALSE
    BY <2>5 DEF Age, local
  <2>6. QED
    BY <2>1, <2>2, <2>3, <2>4, <2>5 DEF Next
<1>2. \A e \in Events \ {ev[r]} : ~Active(e)
  BY <1>1 DEF Check, Goto, Others
<1>3. QED
  BY <1>2 DEF ClaimInv, ClaimKept

(* A Joiner passes the conflict check only when no undisturbed run of any  *)
(* pipeline holds the claim of another event of the employee.              *)
THEOREM JoinerEntersAlone == Spec => EntersAlone
<1>1. TypeOK /\ ClaimInv /\ [Next]_vars => (TypeOK /\ ClaimInv)'
  BY TypeStep, ClaimStep
<1>2. QED
  BY <1>1, TypeInit, ClaimInit, EnterStep, PTL DEF Spec, EntersAlone

-----------------------------------------------------------------------------
(* Idempotency.                                                            *)

LEMMA LateInit == Init => LateInv
BY DEF Init, LateInv

LEMMA WriteLate ==
  ASSUME TypeOK, LateInv, NEW r \in Runs, NEW e \in Events, NEW s, NEW l,
         Write(r, e, s, l)
  PROVE  /\ \A q \in Runs : \A x \in closed'[q] :
              x \in closed[q] /\ status'[x] = "Completed"
         /\ e \notin closed[r] \/ s = "Completed" =>
              \A x \in closed[r] : status'[x] = "Completed"
BY DEF TypeOK, LateInv, Write

(* What the run that steps does to its own part of the invariant, and to   *)
(* the events that were Completed when it began.                           *)
LateOwn(r) ==
  /\ pc'[r] \notin {"sweep", "sweepSkip", "supersede", "advancing"} => todo'[r] = {}
  /\ \A e \in closed[r] :
       /\ status'[e] = "Completed"
       /\ e \notin todo'[r]
       /\ ev[r] = e => pc'[r] \in AtStart
  /\ \A q \in Runs : \A e \in closed'[q] :
       e \in closed[q] /\ status'[e] = "Completed"

LEMMA LateOwnStep ==
  ASSUME TypeOK, LateInv, NEW r \in Runs, Step(r)
  PROVE  LateOwn(r)
<1>0. /\ pc[r] \notin {"sweep", "sweepSkip", "supersede", "advancing"} => todo[r] = {}
      /\ \A e \in closed[r] : status[e] = "Completed" /\ e \notin todo[r]
      /\ pc[r] \notin AtStart => ev[r] \notin closed[r]
  BY DEF LateInv
<1>a. \A q \in Runs : \A e \in closed[q] : status[e] = "Completed"
  BY DEF LateInv
<1> USE <1>0 DEF TypeOK, Goto, rows, ghosts, LateOwn, AtStart
<1>1. CASE Scan(r) \/ CheckLeaver(r) \/ Advance(r)
  BY <1>a, <1>1 DEF Scan, CheckLeaver, Advance, Forget, Active, StaleLock, Others,
                    Oldest, Queued
<1>2. CASE SweepEnd(r) \/ ClaimExists(r) \/ Check(r) \/ Mark(r) \/ SupersedeEnd(r)
           \/ GuardPass(r) \/ GuardQueued(r) \/ Work(r)
  BY <1>a, <1>2 DEF SweepEnd, ClaimExists, Check, Mark, SupersedeEnd, GuardPass,
                    GuardQueued, Work
<1>3. CASE Get(r)
  BY <1>a, <1>3 DEF Get, StaleLock
<1>4. CASE Sweep(r)
  <2>1. PICK e \in todo[r] : Reclaim(r, e) /\ todo' = [todo EXCEPT ![r] = @ \ {e}]
    BY <1>4 DEF Sweep
  <2>2. QED
    BY <1>4, <2>1, WriteLate DEF Sweep, Reclaim
<1>5. CASE Claim(r)
  <2>1. ev[r] \notin closed[r]
    BY <1>5 DEF Claim
  <2>2. QED
    BY <1>5, <2>1, WriteLate DEF Claim, AfterClaim
<1>6. CASE ClaimReclaim(r)
  BY <1>6, WriteLate DEF ClaimReclaim, Reclaim, AfterClaim
<1>7. CASE Supersede(r)
  <2>1. PICK e \in todo[r] : /\ UpdateStatus(r, e, "Superseded")
                             /\ todo' = [todo EXCEPT ![r] = @ \ {e}]
    BY <1>7 DEF Supersede
  <2>2. QED
    BY <1>7, <2>1, WriteLate DEF Supersede, UpdateStatus
<1>8. CASE GuardFail(r)
  BY <1>8, WriteLate DEF GuardFail, UpdateStatus
<1>9. CASE AcquireLock(r)
  BY <1>9, WriteLate DEF AcquireLock
<1>10. CASE ReleaseLock(r)
  BY <1>10, WriteLate DEF ReleaseLock
<1>11. CASE Update(r)
  BY <1>11, WriteLate DEF Update, UpdateStatus, Forget
<1>12. CASE ReleaseNext(r)
  <2>1. PICK e \in todo[r] :
          UpdateStatus(r, e, "Pending") \/ UpdateStatus(r, e, "Held")
    BY <1>12 DEF ReleaseNext
  <2>2. QED
    BY <1>12, <2>1, WriteLate DEF ReleaseNext, UpdateStatus, Forget
<1>13. QED
  BY <1>1, <1>2, <1>3, <1>4, <1>5, <1>6, <1>7, <1>8, <1>9, <1>10, <1>11, <1>12 DEF Step

LEMMA LateStep ==
  TypeOK /\ LateInv /\ [Next]_vars =>
    /\ LateInv'
    /\ [\A r \in Runs : pc'[r] # pc[r] \/ todo'[r] # todo[r] =>
          \A e \in closed[r] : status'[e] = "Completed"]_vars
<1> DEFINE Kept == \A r \in Runs : pc'[r] # pc[r] \/ todo'[r] # todo[r] =>
                     \A e \in closed[r] : status'[e] = "Completed"
<1> SUFFICES ASSUME TypeOK, LateInv, [Next]_vars PROVE LateInv' /\ (Kept \/ UNCHANGED vars)
  OBVIOUS
<1> USE DEF TypeOK
<1>1. ASSUME NEW r \in Runs, NEW e \in Events, Start(r, e) PROVE LateInv' /\ Kept
  BY <1>1 DEF Start, Goto, rows, LateInv, AtStart
<1>2. ASSUME NEW r \in Runs, Step(r) PROVE LateInv' /\ Kept
  <2>1. LateOwn(r) /\ Frame(r)
    BY <1>2, StepFrame, LateOwnStep
  <2>2. LateInv'
    BY <2>1 DEF LateInv, LateOwn, Frame
  <2>3. Kept
    BY <2>1 DEF LateOwn, Frame
  <2>4. QED
    BY <2>2, <2>3
<1>3. ASSUME NEW r \in Runs, Crash(r) PROVE LateInv' /\ Kept
  BY <1>3 DEF Crash, Forget, Goto, rows, LateInv, AtStart
<1>4. ASSUME NEW r \in Runs, Redeliver(r) PROVE LateInv' /\ Kept
  BY <1>4 DEF Redeliver, RestartPoints, Forget, Goto, rows, LateInv, AtStart, Locking
<1>5. ASSUME NEW e \in Events, Age(e) PROVE LateInv' /\ Kept
  BY <1>5 DEF Age, local, ghosts, LateInv
<1>6. CASE UNCHANGED vars
  BY <1>6 DEF vars, LateInv
<1>7. QED
  BY <1>1, <1>2, <1>3, <1>4, <1>5, <1>6 DEF Next

(* A run takes no event out of Completed that has been Completed ever      *)
(* since the run began, in whatever order the retries, crashes and         *)
(* redeliveries of the other runs come.                                    *)
THEOREM Idempotent == Spec => LateRunsNeverReopen
<1>1. TypeOK /\ LateInv /\ [Next]_vars => (TypeOK /\ LateInv)'
  BY TypeStep, LateStep
<1>2. QED
  BY <1>1, TypeInit, LateInit, LateStep, PTL DEF Spec, LateRunsNeverReopen

-----------------------------------------------------------------------------
(* Parked Joiners.                                                         *)

(* Types suffice: the row is Pending, so that a claim of it, a sweep and a *)
(* lock pass it by; and it is active, so that no Joiner gets to the gate.  *)
LEMMA ParkedStep ==
  ASSUME TypeOK, NEW e \in Events, Parked(e), Next
  PROVE  Parked(e)' \/ \E r \in Runs : Supersede(r) /\ status'[e] = "Superseded"
<1> USE DEF TypeOK, Parked, Queued, Stamped, AtStart, AtCheck, Goto, rows, local, ghosts
<1>1. ASSUME NEW r \in Runs, NEW x \in Events, Start(r, x) PROVE Parked(e)'
  BY <1>1 DEF Start
<1>2. ASSUME NEW r \in Runs,
             Scan(r) \/ SweepEnd(r) \/ ClaimExists(r) \/ Get(r) \/ SupersedeEnd(r)
      PROVE  Parked(e)'
  BY <1>2 DEF Scan, StaleLock, Active, SweepEnd, ClaimExists, Get, SupersedeEnd
<1>3. ASSUME NEW r \in Runs, Sweep(r) PROVE Parked(e)'
  BY <1>3 DEF Sweep, Reclaim, Write
<1>4. ASSUME NEW r \in Runs, Claim(r) \/ ClaimReclaim(r) PROVE Parked(e)'
  BY <1>4 DEF Claim, ClaimReclaim, AfterClaim, Reclaim, Write
<1>5. ASSUME NEW r \in Runs, Check(r) PROVE Parked(e)'
  <2>1. e \in Others(r)
    BY <1>5 DEF Check, Others, Active
  <2>2. QED BY <1>5, <2>1 DEF Check
<1>6. ASSUME NEW r \in Runs, Mark(r) PROVE Parked(e)'
  BY <1>6 DEF Mark, Stamp
<1>7. ASSUME NEW r \in Runs, CheckLeaver(r) PROVE Parked(e)'
  BY <1>7 DEF CheckLeaver
<1>8. ASSUME NEW r \in Runs, Supersede(r)
      PROVE  Parked(e)' \/ status'[e] = "Superseded"
  BY <1>8 DEF Supersede, UpdateStatus, Write
<1>9. ASSUME NEW r \in Runs, GuardPass(r) \/ GuardQueued(r) \/ Work(r) PROVE Parked(e)'
  BY <1>9 DEF GuardPass, GuardQueued, Work
<1>10. ASSUME NEW r \in Runs, GuardFail(r) \/ AcquireLock(r) \/ ReleaseLock(r)
       PROVE  Parked(e)'
  BY <1>10 DEF GuardFail, AcquireLock, ReleaseLock, UpdateStatus, Write
<1>11. ASSUME NEW r \in Runs, Update(r) PROVE Parked(e)'
  BY <1>11 DEF Update, UpdateStatus, Write, Forget
<1>12. ASSUME NEW r \in Runs PROVE ~Advance(r) /\ ~ReleaseNext(r)
  BY DEF Advance, ReleaseNext
<1>13. ASSUME NEW r \in Runs, Crash(r) PROVE Parked(e)'
  BY <1>13 DEF Crash, Forget
<1>14. ASSUME NEW r \in Runs, Redeliver(r) PROVE Parked(e)'
  BY <1>14 DEF Redeliver, RestartPoints, Forget, Locking
<1>15. ASSUME NEW x \in Events, Age(x) PROVE Parked(e)'
  BY <1>15 DEF Age
<1>16. QED
  BY <1>1, <1>2, <1>3, <1>4, <1>5, <1>6, <1>7, <1>8, <1>9, <1>10, <1>11, <1>12, <1>13,
     <1>14, <1>15 DEF Next, Step

(* A queued Joiner without anyone to release it is never run again, unless *)
(* a Leaver supersedes it: what store_queued_forever shows of two triggers *)
(* is so for any number of them.                                           *)
THEOREM QueueNeverRecovers == Spec => ParkedForGood
<1>1. TypeOK /\ [Next]_vars =>
        [\A e \in Events : Parked(e) => Parked(e)' \/ status'[e] = "Superseded"]_vars
  BY ParkedStep
<1>2. QED
  BY <1>1, TypeCorrect, PTL DEF Spec, ParkedForGood

(* No run of a Leaver exists.                                              *)
NoLeaver == \A r \in Runs : kind[r] # "Leaver" /\ pc[r] # "supersede"

LEMMA NoLeaverStep ==
  ASSUME \A x \in Events : Action[x] # "Leaver", NoLeaver, TypeOK, [Next]_vars
  PROVE  NoLeaver'
<1> USE DEF NoLeaver, TypeOK, Goto, rows, local, ghosts
<1>1. ASSUME NEW r \in Runs, NEW x \in Events, Start(r, x) PROVE NoLeaver'
  BY <1>1 DEF Start, KindsOf
<1>2. ASSUME NEW r \in Runs, Step(r) PROVE NoLeaver'
  <2>1. UNCHANGED kind /\ \A q \in Runs \ {r} : pc'[q] = pc[q]
    BY <1>2, StepFrame DEF Frame
  <2>2. pc'[r] # "supersede"
    BY <1>2, StepFrame
       DEF Step, Scan, Sweep, SweepEnd, Claim, ClaimExists, Get, ClaimReclaim, AfterClaim,
           Check, Mark, CheckLeaver, Supersede, SupersedeEnd, GuardPass, GuardQueued,
           GuardFail, AcquireLock, Work, ReleaseLock, Update, Advance, ReleaseNext
  <2>3. QED BY <2>1, <2>2
<1>3. ASSUME NEW r \in Runs, Crash(r) \/ Redeliver(r) PROVE NoLeaver'
  BY <1>3 DEF Crash, Redeliver, RestartPoints
<1>4. ASSUME NEW x \in Events, Age(x) PROVE NoLeaver'
  BY <1>4 DEF Age
<1>5. CASE UNCHANGED vars
  BY <1>5 DEF vars
<1>6. QED
  BY <1>1, <1>2, <1>3, <1>4, <1>5 DEF Next

(* Where an employee has no Leaver event, nothing ever takes a parked      *)
(* Joiner up again.                                                        *)
COROLLARY NothingElseReleases ==
  ASSUME \A x \in Events : Action[x] # "Leaver"
  PROVE  Spec => [][\A e \in Events : Parked(e) => Parked(e)']_vars
<1>1. Init => NoLeaver
  BY DEF Init, NoLeaver
<1>2. TypeOK /\ NoLeaver /\ [Next]_vars => NoLeaver'
  BY NoLeaverStep
<1>3. TypeOK /\ NoLeaver /\ [Next]_vars =>
        [\A e \in Events : Parked(e) => Parked(e)']_vars
  BY ParkedStep DEF NoLeaver, Supersede
<1>4. QED
  BY <1>1, <1>2, <1>3, TypeCorrect, PTL DEF Spec
=============================================================================
