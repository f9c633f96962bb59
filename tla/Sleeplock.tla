----------------------------- MODULE Sleeplock -----------------------------
(***************************************************************************)
(* One sleep lock of sleeplock.c with the sleep() and wakeup() of proc.c   *)
(* under it, step by step: the spin lock lk->lk, ptable.lock, and the      *)
(* order in which sleep() takes the one and gives up the other.            *)
(***************************************************************************)
EXTENDS Naturals, FiniteSets

CONSTANTS
    Procs,
    None              \* nobody; a pid of 0

ASSUME SleeplockAssumption == None \notin Procs

VARIABLES
    locked, pid,      \* struct sleeplock; the pid stands for its process
    lk, ptable,       \* the processes that hold lk->lk and ptable.lock
    pc

vars == <<locked, pid, lk, ptable, pc>>

Init ==
    /\ locked = FALSE /\ pid = None
    /\ lk = None /\ ptable = None
    /\ pc = [p \in Procs |-> "idle"]

Goto(p, a) == pc' = [pc EXCEPT ![p] = a]
-----------------------------------------------------------------------------
\* acquiresleep
AcquireLk(p) ==
    /\ pc[p] = "idle" /\ lk = None
    /\ lk' = p
    /\ Goto(p, "test")
    /\ UNCHANGED <<locked, pid, ptable>>

Wait(p) ==
    /\ pc[p] = "test" /\ locked
    /\ Goto(p, "sleep")
    /\ UNCHANGED <<locked, pid, lk, ptable>>

TakeUnchecked(p) ==                      \* faulty: if for while
    /\ pc[p] = "test"
    /\ locked' = TRUE /\ pid' = p
    /\ lk' = None
    /\ Goto(p, "held")
    /\ UNCHANGED ptable

Take(p) ==
    /\ pc[p] = "test" /\ ~locked
    /\ locked' = TRUE /\ pid' = p
    /\ lk' = None
    /\ Goto(p, "held")
    /\ UNCHANGED ptable

\* sleep(lk, &lk->lk): ptable.lock is taken before lk->lk is released; the
\* switch to the scheduler then releases ptable.lock.
SleepLock(p) ==
    /\ pc[p] = "sleep" /\ ptable = None
    /\ ptable' = p
    /\ Goto(p, "swap")
    /\ UNCHANGED <<locked, pid, lk>>

SleepRelease(p) ==
    /\ pc[p] = "swap"
    /\ lk' = None
    /\ Goto(p, "mark")
    /\ UNCHANGED <<locked, pid, ptable>>

SleepMark(p) ==
    /\ pc[p] = "mark"
    /\ ptable' = None
    /\ Goto(p, "asleep")
    /\ UNCHANGED <<locked, pid, lk>>

Reacquire(p) ==
    /\ pc[p] = "awake" /\ lk = None
    /\ lk' = p
    /\ Goto(p, "test")
    /\ UNCHANGED <<locked, pid, ptable>>
-----------------------------------------------------------------------------
\* releasesleep
ReleaseLk(p) ==
    /\ pc[p] = "held" /\ lk = None
    /\ lk' = p
    /\ Goto(p, "clear")
    /\ UNCHANGED <<locked, pid, ptable>>

Clear(p) ==
    /\ pc[p] = "clear"
    /\ locked' = FALSE /\ pid' = None
    /\ Goto(p, "wake")
    /\ UNCHANGED <<lk, ptable>>

wakeupNone(p) ==                         \* faulty: wakes another channel
    /\ pc[p] = "wake" /\ ptable = None
    /\ Goto(p, "unlock")
    /\ UNCHANGED <<locked, pid, lk, ptable>>

wakeup(p) ==
    /\ pc[p] = "wake" /\ ptable = None
    /\ pc' = [q \in Procs |->
          IF q = p THEN "unlock" ELSE IF pc[q] = "asleep" THEN "awake" ELSE pc[q]]
    /\ UNCHANGED <<locked, pid, lk, ptable>>

Unlock(p) ==
    /\ pc[p] = "unlock"
    /\ lk' = None
    /\ Goto(p, "idle")
    /\ UNCHANGED <<locked, pid, ptable>>

\* kill() makes a sleeping process runnable; acquiresleep then looks again.
KillWakes(p) ==
    /\ pc[p] = "asleep" /\ ptable = None
    /\ Goto(p, "awake")
    /\ UNCHANGED <<locked, pid, lk, ptable>>

acquiresleep(p) ==
    AcquireLk(p) \/ Wait(p) \/ Take(p) \/ SleepLock(p) \/ SleepRelease(p) \/ SleepMark(p) \/ Reacquire(p)

releasesleep(p) == ReleaseLk(p) \/ Clear(p) \/ wakeup(p) \/ Unlock(p)

Next == \E p \in Procs : acquiresleep(p) \/ releasesleep(p) \/ KillWakes(p)
Spec == Init /\ [][Next]_vars
-----------------------------------------------------------------------------
TypeOK ==
    /\ locked \in BOOLEAN /\ pid \in Procs \cup {None}
    /\ lk \in Procs \cup {None} /\ ptable \in Procs \cup {None}
    /\ pc \in [Procs -> {"idle", "test", "sleep", "swap", "mark", "asleep", "awake",
                         "held", "clear", "wake", "unlock"}]

\* Processes that are past acquiresleep and not yet through with releasesleep.
Holds(p) == pc[p] \in {"held", "clear"}

\* What holdingsleep() returns to a process.
holdingsleep(p) == locked /\ pid = p

\* The tests on which bwrite, brelse, iunlock and iderw panic are exact: the
\* process that has the lock, and no other, sees itself as its holder, however
\* acquire, sleep, wakeup and release interleave.
HoldingExact == \A p \in Procs : holdingsleep(p) <=> Holds(p)

\* No process is asleep, or on its way past the release of lk->lk in sleep(),
\* on a lock that is free with nobody about to wake it.
NoLostWakeup ==
    (\E p \in Procs : pc[p] \in {"swap", "mark", "asleep"}) =>
        locked \/ \E q \in Procs : pc[q] = "wake"

M == INSTANCE Mutex WITH holder <- IF locked THEN pid ELSE None

\* A sleep lock is a mutex.
ImplementsMutex == M!Spec
=============================================================================
