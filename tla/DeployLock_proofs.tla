-------------------------- MODULE DeployLock_proofs --------------------------
(***************************************************************************)
(* Proofs about DeployLock for any set of processes, any number of attempts *)
(* and any number of crashes.                                               *)
(***************************************************************************)
EXTENDS DeployLock, TLAPS

\* TypeOK is kept by every step: `remaining` never goes below zero, and the lock
\* file always names a process, an orphan or nothing (store.ts:171-197).
THEOREM TypeCorrect == Spec => []TypeOK
<1>1. Init => TypeOK
  <2> SUFFICES ASSUME Init
               PROVE  TypeOK
    OBVIOUS
  <2>1. pc \in [Procs -> PC] /\ remaining \in [Procs -> 0..MaxAttempts]
    BY LockAssumption DEF Init, PC
  <2>2. lock \in Procs \union {NoFile, Orphan} /\ stale \in BOOLEAN
    BY DEF Init
  <2>3. faults \in 0..MaxFaults /\ excuses \subseteq {"overlap", "outlived"}
    BY LockAssumption DEF Init
  <2>4. QED
    BY <2>1, <2>2, <2>3 DEF TypeOK
<1>2. TypeOK /\ [Next]_vars => TypeOK'
  <2> SUFFICES ASSUME TypeOK, [Next]_vars
               PROVE  TypeOK'
    OBVIOUS
  <2> USE LockAssumption DEF TypeOK, PC, Goto
  <2>1. ASSUME NEW p \in Procs, Call(p)
        PROVE  TypeOK'
    BY <2>1 DEF Call
  <2>2. ASSUME NEW p \in Procs, Create(p)
        PROVE  TypeOK'
    BY <2>2 DEF Create
  <2>3. ASSUME NEW p \in Procs, Exists(p) \/ OpenError(p)
        PROVE  TypeOK'
    BY <2>3 DEF Exists, OpenError
  <2>4. ASSUME NEW p \in Procs, StatGone(p) \/ StatYoung(p) \/ StatStale(p)
        PROVE  TypeOK'
    BY <2>4 DEF StatGone, StatYoung, StatStale
  <2>5. ASSUME NEW p \in Procs, Reclaim(p)
        PROVE  TypeOK'
    BY <2>5 DEF Reclaim
  <2>6. ASSUME NEW p \in Procs, Backoff(p) \/ TimeOut(p)
        PROVE  TypeOK'
    <3>1. remaining' \in [Procs -> 0..MaxAttempts]
      BY <2>6 DEF Backoff, TimeOut
    <3>2. QED
      BY <2>6, <3>1 DEF Backoff, TimeOut
  <2>7. ASSUME NEW p \in Procs, Release(p) \/ Rejected(p)
        PROVE  TypeOK'
    BY <2>7 DEF Release, Rejected
  <2>8. ASSUME NEW p \in Procs, Crash(p)
        PROVE  TypeOK'
    BY <2>8 DEF Crash
  <2>9. CASE AbandonedAges
    BY <2>9 DEF AbandonedAges
  <2>10. CASE HeldAges
    BY <2>10 DEF HeldAges
  <2>11. CASE UNCHANGED vars
    BY <2>11 DEF vars
  <2>12. QED
    BY <2>1, <2>2, <2>3, <2>4, <2>5, <2>6, <2>7, <2>8, <2>9, <2>10, <2>11
    DEF Next, Acquiring
<1>3. QED
  BY <1>1, <1>2, PTL DEF Spec

-----------------------------------------------------------------------------
(* The inductive invariant.  ExclusiveUnlessExcused does not survive a       *)
(* Reclaim on its own: the removal is harmless only because the file a       *)
(* waiter judged stale is still the orphan it looked at, and that holds      *)
(* because no other waiter is about to remove the same file.                 *)
Undisturbed ==
    /\ \A p \in Procs : pc[p] = "hold" <=> lock = p
    /\ \A p \in Procs : pc[p] = "reclaim" => lock = Orphan /\ stale
    /\ stale => lock = Orphan
    /\ \A p, q \in Procs : pc[p] = "reclaim" /\ pc[q] = "reclaim" => p = q

LockInv == excuses = {} => Undisturbed

LEMMA LockInvInit == Init => LockInv
BY LockAssumption DEF Init, LockInv, Undisturbed

LEMMA LockInvStep == TypeOK /\ LockInv /\ [Next]_vars => LockInv'
<1> SUFFICES ASSUME TypeOK, LockInv, [Next]_vars, excuses' = {}
             PROVE  Undisturbed'
  BY DEF LockInv
<1>0. excuses = {}
  BY DEF Next, vars, Acquiring, Call, Create, Exists, OpenError, StatGone, StatYoung,
         StatStale, Reclaim, Backoff, TimeOut, Release, Rejected, Crash,
         AbandonedAges, HeldAges
<1>a. Undisturbed
  BY <1>0 DEF LockInv
<1> USE LockAssumption, <1>0, <1>a DEF TypeOK, Undisturbed, PC, Goto
<1>1. ASSUME NEW p \in Procs, Call(p)
      PROVE  Undisturbed'
  BY <1>1 DEF Call
<1>2. ASSUME NEW p \in Procs, Create(p)
      PROVE  Undisturbed'
  BY <1>2 DEF Create
<1>3. ASSUME NEW p \in Procs, Exists(p) \/ OpenError(p) \/ StatGone(p) \/ StatYoung(p)
      PROVE  Undisturbed'
  BY <1>3 DEF Exists, OpenError, StatGone, StatYoung
<1>4. ASSUME NEW p \in Procs, StatStale(p)
      PROVE  Undisturbed'
  <2>1. \A q \in Procs \ {p} : pc[q] # "reclaim"
    BY <1>4 DEF StatStale
  <2>2. QED
    BY <1>4, <2>1 DEF StatStale
<1>5. ASSUME NEW p \in Procs, Reclaim(p)
      PROVE  Undisturbed'
  <2>1. lock = Orphan /\ \A q \in Procs : pc[q] # "hold"
    BY <1>5 DEF Reclaim
  <2>2. \A q \in Procs : pc'[q] \notin {"reclaim", "hold"}
    BY <1>5, <2>1 DEF Reclaim
  <2>3. QED
    BY <1>5, <2>2 DEF Reclaim
<1>6. ASSUME NEW p \in Procs, Backoff(p) \/ TimeOut(p)
      PROVE  Undisturbed'
  BY <1>6 DEF Backoff, TimeOut
<1>7. ASSUME NEW p \in Procs, Release(p)
      PROVE  Undisturbed'
  BY <1>7 DEF Release
<1>8. ASSUME NEW p \in Procs, Rejected(p)
      PROVE  Undisturbed'
  BY <1>8 DEF Rejected
<1>9. ASSUME NEW p \in Procs, Crash(p)
      PROVE  Undisturbed'
  <2>1. CASE lock = p
    BY <1>9, <2>1 DEF Crash
  <2>2. CASE lock # p
    BY <1>9, <2>2 DEF Crash
  <2>3. QED
    BY <2>1, <2>2
<1>10. CASE AbandonedAges
  BY <1>10 DEF AbandonedAges
<1>11. CASE HeldAges
  BY <1>11 DEF HeldAges
<1>12. CASE UNCHANGED vars
  BY <1>12 DEF vars
<1>13. QED
  BY <1>1, <1>2, <1>3, <1>4, <1>5, <1>6, <1>7, <1>8, <1>9, <1>10, <1>11, <1>12
  DEF Next, Acquiring

LEMMA LockInvariant == Spec => []LockInv
BY LockInvInit, LockInvStep, TypeCorrect, PTL DEF Spec

\* Until a live holder outlives five minutes or two waiters reclaim the same file,
\* at most one process is between acquire and release, and the lock file on disk is
\* its own (store.ts:176-196).
THEOREM Exclusive == Spec => []ExclusiveUnlessExcused
<1>1. LockInv => ExclusiveUnlessExcused
  BY DEF LockInv, Undisturbed, ExclusiveUnlessExcused, MutualExclusion
<1>2. QED
  BY <1>1, LockInvariant, PTL
-----------------------------------------------------------------------------
(* The lock implements DeployMutex: the holders of the abstract mutex are the *)
(* processes at "hold" until the first excuse, which is its GiveUp step.      *)
Holding == {p \in Procs : pc[p] = "hold"}

\* A step that enters or leaves "hold" is an Enter or a Leave of the mutex.
LEMMA StepRefines ==
    ASSUME TypeOK, LockInv, LockInv', [Next]_vars, excuses = {}, excuses' = {}
    PROVE  \/ Holding' = Holding
           \/ \E p \in Procs : Holding = {} /\ Holding' = {p}
           \/ \E p \in Procs : Holding = {p} /\ Holding' = {}
<1> USE LockAssumption DEF TypeOK, LockInv, Undisturbed, PC, Goto, Holding
<1>1. ASSUME NEW p \in Procs, Create(p)
      PROVE  Holding = {} /\ Holding' = {p}
  BY <1>1 DEF Create
<1>2. ASSUME NEW p \in Procs, pc[p] = "hold", Goto(p, "idle")
      PROVE  Holding = {p} /\ Holding' = {}
  <2>1. \A q \in Procs : pc[q] = "hold" => q = p
    BY <1>2
  <2>2. QED
    BY <1>2, <2>1
<1>3. ASSUME NEW p \in Procs, pc[p] # "hold",
             NEW l \in PC \ {"hold"}, Goto(p, l)
      PROVE  Holding' = Holding
  BY <1>3
<1>4. CASE pc' = pc
  BY <1>4
<1>5. ASSUME NEW p \in Procs,
             Call(p) \/ Acquiring(p) \/ OpenError(p) \/ Release(p) \/ Rejected(p) \/ Crash(p)
      PROVE  \/ Holding' = Holding
             \/ Holding = {} /\ Holding' = {p}
             \/ Holding = {p} /\ Holding' = {}
  <2>1. CASE Create(p)
    BY <2>1, <1>1
  <2>2. CASE Release(p)
    BY <2>2, <1>2 DEF Release
  <2>3. CASE Crash(p)
    BY <2>3, <1>2, <1>3 DEF Crash
  <2>4. CASE Call(p) \/ Exists(p) \/ OpenError(p) \/ Rejected(p)
    BY <2>4, <1>3 DEF Call, Exists, OpenError, Rejected
  <2>5. CASE StatGone(p) \/ StatYoung(p) \/ StatStale(p)
    BY <2>5, <1>3 DEF StatGone, StatYoung, StatStale
  <2>6. CASE Reclaim(p) \/ Backoff(p) \/ TimeOut(p)
    BY <2>6, <1>3 DEF Reclaim, Backoff, TimeOut
  <2>7. QED
    BY <1>5, <2>1, <2>2, <2>3, <2>4, <2>5, <2>6 DEF Acquiring
<1>6. QED
  BY <1>4, <1>5 DEF Next, AbandonedAges, HeldAges, vars

\* Excuses are never withdrawn.
LEMMA ExcusesGrow == [Next]_vars => excuses \subseteq excuses'
BY DEF Next, vars, Acquiring, Call, Create, Exists, OpenError, StatGone, StatYoung,
       StatStale, Reclaim, Backoff, TimeOut, Release, Rejected, Crash,
       AbandonedAges, HeldAges

\* fsStore's lock file is an implementation of the mutual exclusion that
\* StoreAdapter.lock asks for (store.ts:42-46), up to the first excuse.
THEOREM LockImplementsMutex == Spec => ImplementsMutex
<1>1. Init => Mutex!Init
  BY DEF Init, Mutex!Init
<1>2. TypeOK /\ LockInv /\ LockInv' /\ [Next]_vars => [Mutex!Next]_(Mutex!vars)
  <2> SUFFICES ASSUME TypeOK, LockInv, LockInv', [Next]_vars
               PROVE  [Mutex!Next]_(Mutex!vars)
    OBVIOUS
  <2> USE DEF Mutex!Next, Mutex!vars
  <2>1. CASE excuses # {}
    <3>1. excuses' # {}
      BY <2>1, ExcusesGrow
    <3>2. QED
      BY <2>1, <3>1
  <2>2. CASE excuses = {} /\ excuses' # {}
    BY <2>2 DEF Mutex!GiveUp
  <2>3. CASE excuses = {} /\ excuses' = {}
    BY <2>3, StepRefines DEF Holding, Mutex!Enter, Mutex!Leave
  <2>4. QED
    BY <2>1, <2>2, <2>3
<1>3. QED
  BY <1>1, <1>2, TypeCorrect, LockInvariant, PTL DEF Spec, ImplementsMutex, Mutex!Spec
=============================================================================
