-------------------------- MODULE SleeplockProofs --------------------------
(***************************************************************************)
(* Proofs about Sleeplock, for any set of processes.                       *)
(***************************************************************************)
EXTENDS Sleeplock, TLAPS

\* Where a process has lk->lk, and where it has ptable.lock.
LkHeld == {"test", "sleep", "swap", "clear", "wake", "unlock"}
PtableHeld == {"swap", "mark"}

LkExact == \A p \in Procs : lk = p <=> pc[p] \in LkHeld
PtableExact == \A p \in Procs : ptable = p <=> pc[p] \in PtableHeld

\* A process that has decided to sleep still has lk->lk, so nobody has
\* released the sleep lock since.
SleepAgreed == \A p \in Procs : pc[p] = "sleep" => locked

IInv == TypeOK /\ LkExact /\ PtableExact /\ HoldingExact /\ SleepAgreed /\ NoLostWakeup

LEMMA InitIInv == Init => IInv
  BY SleeplockAssumption
  DEF Init, IInv, TypeOK, LkExact, PtableExact, HoldingExact, SleepAgreed, NoLostWakeup,
      LkHeld, PtableHeld, Holds, holdingsleep

LEMMA NextIInv == IInv /\ [Next]_vars => IInv'
  <1> SUFFICES ASSUME IInv, [Next]_vars PROVE IInv'
    OBVIOUS
  <1> USE SleeplockAssumption
      DEF IInv, TypeOK, LkExact, PtableExact, HoldingExact, SleepAgreed, NoLostWakeup,
          LkHeld, PtableHeld, Holds, holdingsleep, Goto
  <1>1. ASSUME NEW p \in Procs, AcquireLk(p) PROVE IInv'
    BY <1>1 DEF AcquireLk
  <1>2. ASSUME NEW p \in Procs, Wait(p) PROVE IInv'
    BY <1>2 DEF Wait
  <1>3. ASSUME NEW p \in Procs, Take(p) PROVE IInv'
    BY <1>3 DEF Take
  <1>4. ASSUME NEW p \in Procs, SleepLock(p) PROVE IInv'
    BY <1>4 DEF SleepLock
  <1>5. ASSUME NEW p \in Procs, SleepRelease(p) PROVE IInv'
    BY <1>5 DEF SleepRelease
  <1>6. ASSUME NEW p \in Procs, SleepMark(p) PROVE IInv'
    BY <1>6 DEF SleepMark
  <1>7. ASSUME NEW p \in Procs, Reacquire(p) PROVE IInv'
    BY <1>7 DEF Reacquire
  <1>8. ASSUME NEW p \in Procs, ReleaseLk(p) PROVE IInv'
    BY <1>8 DEF ReleaseLk
  <1>9. ASSUME NEW p \in Procs, Clear(p) PROVE IInv'
    BY <1>9 DEF Clear
  <1>10. ASSUME NEW p \in Procs, wakeup(p) PROVE IInv'
    BY <1>10 DEF wakeup
  <1>11. ASSUME NEW p \in Procs, Unlock(p) PROVE IInv'
    BY <1>11 DEF Unlock
  <1>12. ASSUME NEW p \in Procs, KillWakes(p) PROVE IInv'
    BY <1>12 DEF KillWakes
  <1>13. CASE UNCHANGED vars
    BY <1>13 DEF vars
  <1> QED
    BY <1>1, <1>2, <1>3, <1>4, <1>5, <1>6, <1>7, <1>8, <1>9, <1>10, <1>11, <1>12, <1>13
    DEF Next, acquiresleep, releasesleep

\* IInv holds in every reachable state.
THEOREM Invariance == Spec => []IInv
  BY InitIInv, NextIInv, PTL DEF Spec

\* The panics of brelse, bwrite, iunlock and iderw on holdingsleep() do not
\* fire for the process that has the lock, and would fire for any other.
THEOREM HoldingCorrect == Spec => []HoldingExact
  <1>1. IInv => HoldingExact
    BY DEF IInv
  <1> QED
    BY <1>1, Invariance, PTL

\* acquiresleep, sleep, wakeup and releasesleep lose no wakeup.
THEOREM WakeupCorrect == Spec => []NoLostWakeup
  <1>1. IInv => NoLostWakeup
    BY DEF IInv
  <1> QED
    BY <1>1, Invariance, PTL

\* sleeplock.c implements a mutex: each step takes it, gives it up, or does not
\* concern it.
THEOREM Refinement == Spec => ImplementsMutex
  <1> DEFINE holder == IF locked THEN pid ELSE None
  <1>1. Init => M!Init
    BY DEF Init, M!Init
  <1>2. IInv /\ [Next]_vars => [M!Next]_holder
    <2> SUFFICES ASSUME IInv, [Next]_vars PROVE M!Next \/ holder' = holder
      OBVIOUS
    <2>1. ASSUME NEW p \in Procs, Take(p) PROVE M!Next
      BY <2>1 DEF Take, M!Next, M!Take
    <2>2. ASSUME NEW p \in Procs, Clear(p) PROVE M!Next
      BY <2>2, SleeplockAssumption
      DEF Clear, IInv, HoldingExact, holdingsleep, Holds, M!Next, M!Give
    <2>3. CASE UNCHANGED <<locked, pid>>
      BY <2>3
    <2>4. ASSUME NEW p \in Procs, acquiresleep(p) \/ releasesleep(p) \/ KillWakes(p),
                 ~Take(p), ~Clear(p)
          PROVE  UNCHANGED <<locked, pid>>
      BY <2>4 DEF acquiresleep, releasesleep, AcquireLk, Wait, SleepLock, SleepRelease,
                  SleepMark, Reacquire, ReleaseLk, wakeup, Unlock, KillWakes
    <2> QED
      BY <2>1, <2>2, <2>3, <2>4 DEF Next, vars
  <1> QED
    BY <1>1, <1>2, Invariance, PTL DEF Spec, ImplementsMutex, M!Spec
=============================================================================
