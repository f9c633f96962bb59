-------------------------------- MODULE Proc --------------------------------
(***************************************************************************)
(* Processes and the scheduler: proc.c with the parts of trap.c that end   *)
(* or preempt a process.  Every CPU runs its scheduler loop or a process   *)
(* on that process's kernel stack; ptable.lock is taken by one side of     *)
(* swtch and released by the other.                                        *)
(*                                                                         *)
(* A critical section of ptable.lock without swtch in it is one step.  The *)
(* work of a system call between such sections (copyuvm, closing files) is *)
(* a step too, with the outcomes it can have.                              *)
(***************************************************************************)
EXTENDS Integers, FiniteSets

CONSTANTS
    NPROC, CPUs,
    None,             \* no CPU
    MaxPid,           \* bound: fork is called while pids up to MaxPid are left
    KillPids,         \* arguments of kill
    Calls(_)          \* the system calls the process in a slot makes

Slots == 1..NPROC

ASSUME ProcAssumption ==
    /\ NPROC \in Nat \ {0} /\ None \notin CPUs
    /\ MaxPid \in Nat /\ KillPids \subseteq Nat
    /\ \A p \in Slots : Calls(p) \subseteq {"fork", "wait", "sleep", "kill", "exit", "fault"}

initproc == 1
NoProc == 0                 \* a null struct proc *, and a null channel
Event == NPROC + 1          \* a channel other than a process

VARIABLES
    state, pid, parent, killed, chan,   \* struct proc
    kstack,                             \* whether the slot has a kernel stack
    nextpid,
    lock,                               \* the CPU that holds ptable.lock
    mode, proc, scan,                   \* per CPU: where it is, c->proc, scheduler's p
    irq,                                \* per CPU: IF, ncli and intena
    at, how, np,                        \* per process: its place, the call of sched() it
                                        \* is switched out in, fork's np
    intena,                             \* per process: the local variable of sched()
    panicked

tableVars == <<pid, parent, killed, chan, kstack, nextpid>>
cpuVars == <<proc, scan>>
irqVars == <<irq, intena>>
vars == <<state, tableVars, lock, mode, cpuVars, irqVars, at, how, np, panicked>>

States == {"UNUSED", "EMBRYO", "SLEEPING", "RUNNABLE", "RUNNING", "ZOMBIE"}
First(S) == {x \in S : \A y \in S : x <= y}    \* the one a loop over the table meets first
In(p, s) == state[p] = s

\* pushcli and popcli.  intena has no meaning while ncli is 0.
Enabled == [ie |-> TRUE, ncli |-> 0, intena |-> FALSE]

pushcli(r) == [ie |-> FALSE, ncli |-> r.ncli + 1, intena |-> IF r.ncli = 0 THEN r.ie ELSE r.intena]

popcli(r) == [ie |-> r.ncli = 1 /\ r.intena, ncli |-> r.ncli - 1, intena |-> r.ncli > 1 /\ r.intena]

\* userinit has made the first process.
Init ==
    /\ state = [p \in Slots |-> IF p = initproc THEN "RUNNABLE" ELSE "UNUSED"]
    /\ pid = [p \in Slots |-> IF p = initproc THEN 1 ELSE 0]
    /\ nextpid = 2
    /\ parent = [p \in Slots |-> NoProc]
    /\ killed = [p \in Slots |-> FALSE]
    /\ chan = [p \in Slots |-> NoProc]
    /\ kstack = [p \in Slots |-> p = initproc]
    /\ lock = None
    /\ mode = [c \in CPUs |-> "idle"]
    /\ proc = [c \in CPUs |-> NoProc]
    /\ scan = [c \in CPUs |-> 1]
    /\ irq = [c \in CPUs |-> Enabled]
    /\ intena = [p \in Slots |-> FALSE]
    /\ at = [p \in Slots |-> "user"]
    /\ how = [p \in Slots |-> IF p = initproc THEN "forkret" ELSE "none"]
    /\ np = [p \in Slots |-> NoProc]
    /\ panicked = FALSE

\* CPU c runs process p, which is at place a and holds no lock.
Runs(c, p, a) == ~panicked /\ mode[c] = "run" /\ p = proc[c] /\ at[p] = a

\* acquire and release of ptable.lock; "popcli" and "release" are panics.
acquireOn(c, r) ==
    /\ lock = None /\ lock' = c
    /\ irq' = [irq EXCEPT ![c] = pushcli(r)]

acquire(c) == acquireOn(c, irq[c])

\* on: interrupts are switched on right after, by sti or iret.
release(c, r, on) ==
    /\ lock' = None
    /\ irq' = [irq EXCEPT ![c] = [popcli(r) EXCEPT !.ie = @ \/ on]]
    /\ panicked' = (panicked \/ lock # c \/ r.ie \/ r.ncli = 0)

\* In a handler that was entered through an interrupt gate.
Gated(r) == [r EXCEPT !.ie = FALSE]

\* What sched() does when it is resumed, on whichever CPU.
RestoredNot(c, p) == irq[c]              \* faulty: intena is the last one's

Restored(c, p) == [irq[c] EXCEPT !.intena = intena[p]]

Forget(p) == intena' = [intena EXCEPT ![p] = FALSE]
Goto(p, a) == at' = [at EXCEPT ![p] = a]
-----------------------------------------------------------------------------
\* scheduler(): the loop over the table, from c's p on.
SchedulerEnter(c) ==
    /\ ~panicked /\ mode[c] = "idle" /\ acquire(c)
    /\ mode' = [mode EXCEPT ![c] = "scan"]
    /\ UNCHANGED <<state, tableVars, cpuVars, intena, at, how, np, panicked>>

Ready(c) == {p \in scan[c]..NPROC : In(p, "RUNNABLE")}

PickedAsIs(p) == state                   \* faulty: the state stays RUNNABLE

Picked(p) == [state EXCEPT ![p] = "RUNNING"]

AfterPick(p) == p + 1

SchedulerPick(c) ==
    /\ mode[c] = "scan"
    /\ \E p \in First(Ready(c)) :
         /\ state' = Picked(p)
         /\ proc' = [proc EXCEPT ![c] = p]
         /\ scan' = [scan EXCEPT ![c] = AfterPick(p)]
    /\ mode' = [mode EXCEPT ![c] = "resume"]
    /\ UNCHANGED <<tableVars, lock, irqVars, at, how, np, panicked>>

SchedulerLeave(c) ==
    /\ mode[c] = "scan" /\ Ready(c) = {}
    /\ release(c, irq[c], TRUE)
    /\ scan' = [scan EXCEPT ![c] = 1]
    /\ mode' = [mode EXCEPT ![c] = "idle"]
    /\ UNCHANGED <<state, tableVars, proc, intena, at, how, np>>

\* sched(): its tests, and swtch to the scheduler.
sched(c) ==
    /\ ~panicked /\ mode[c] = "swtch"
    /\ panicked' = (lock # c \/ irq[c].ncli # 1 \/ In(proc[c], "RUNNING") \/ irq[c].ie)
    /\ intena' = [intena EXCEPT ![proc[c]] = irq[c].intena]
    /\ proc' = [proc EXCEPT ![c] = NoProc]
    /\ mode' = [mode EXCEPT ![c] = "scan"]
    /\ UNCHANGED <<state, tableVars, lock, scan, irq, at, how, np>>

\* What a process does when swtch has resumed it on c.
Resumes(c, p, h) == mode[c] = "resume" /\ p = proc[c] /\ how[p] = h

forkret(c) == \E p \in Slots :
    /\ Resumes(c, p, "forkret")
    /\ release(c, irq[c], TRUE)
    /\ how' = [how EXCEPT ![p] = "none"]
    /\ mode' = [mode EXCEPT ![c] = "run"]
    /\ UNCHANGED <<state, tableVars, cpuVars, intena, at, np>>

\* After yield() trap() looks once more whether the process was killed.
yieldRet(c) == \E p \in Slots :
    /\ Resumes(c, p, "yield")
    /\ release(c, Restored(c, p), ~(at[p] = "user" /\ killed[p])) /\ Forget(p)
    /\ how' = [how EXCEPT ![p] = "none"]
    /\ mode' = [mode EXCEPT ![c] = "run"]
    /\ IF at[p] = "user" /\ killed[p] THEN Goto(p, "exit") ELSE UNCHANGED at
    /\ UNCHANGED <<state, tableVars, cpuVars, np>>

\* sleep() returns to a loop that sleeps again or ends the system call.
sleepRet(c) == \E p \in Slots :
    /\ Resumes(c, p, "sleep")
    /\ chan' = [chan EXCEPT ![p] = NoProc]
    /\ release(c, Restored(c, p), FALSE) /\ Forget(p)
    /\ how' = [how EXCEPT ![p] = "none"]
    /\ mode' = [mode EXCEPT ![c] = "run"]
    /\ \E a \in {"sleep", "sysret"} : Goto(p, a)
    /\ UNCHANGED <<state, pid, parent, killed, kstack, nextpid, cpuVars, np>>
-----------------------------------------------------------------------------
\* trap(): a system call, its end, a fault, the timer.
Forking == {p \in Slots : at[p] = "fork"}

Syscall(c) == \E p \in Slots :
    /\ Runs(c, p, "user")
    /\ \/ killed[p] /\ Goto(p, "exit")
       \/ ~killed[p] /\ \E call \in Calls(p) \ {"fault"} :
            /\ call = "fork" => nextpid + Cardinality(Forking) <= MaxPid
            /\ Goto(p, call)
    /\ UNCHANGED <<state, tableVars, lock, mode, cpuVars, irqVars, how, np, panicked>>

SysRet(c) == \E p \in Slots :
    /\ Runs(c, p, "sysret")
    /\ Goto(p, IF killed[p] THEN "exit" ELSE "user")
    /\ UNCHANGED <<state, tableVars, lock, mode, cpuVars, irqVars, how, np, panicked>>

Fault(c) == \E p \in Slots :
    /\ Runs(c, p, "user")
    /\ "fault" \in Calls(p)
    /\ killed' = [killed EXCEPT ![p] = TRUE]
    /\ Goto(p, "exit")
    /\ irq' = [irq EXCEPT ![c] = Gated(@)]
    /\ UNCHANGED <<state, pid, parent, chan, kstack, nextpid, lock, mode, cpuVars, intena, how, np, panicked>>

\* The state is set and ptable.lock is kept: sched() is next.
SwitchOut(c, p, s, h) ==
    /\ state' = [state EXCEPT ![p] = s]
    /\ how' = [how EXCEPT ![p] = h]
    /\ mode' = [mode EXCEPT ![c] = "swtch"]

TimerExit(c) == \E p \in Slots :
    /\ Runs(c, p, "user") /\ killed[p] /\ irq[c].ie
    /\ Goto(p, "exit")
    /\ irq' = [irq EXCEPT ![c] = Gated(@)]
    /\ UNCHANGED <<state, tableVars, lock, mode, cpuVars, intena, how, np, panicked>>

\* yield(), from user code or from a system call that holds no lock.
yield(c) == \E p \in Slots :
    /\ Runs(c, p, at[p]) /\ ~(at[p] = "user" /\ killed[p]) /\ irq[c].ie
    /\ acquireOn(c, Gated(irq[c]))
    /\ SwitchOut(c, p, "RUNNABLE", "yield")
    /\ UNCHANGED <<tableVars, cpuVars, intena, at, np, panicked>>
-----------------------------------------------------------------------------
\* fork(): allocproc, the stack, the copy, RUNNABLE.  The two failures give
\* the slot back without ptable.lock.
allocproc(c) == \E p \in Slots :
    /\ Runs(c, p, "fork") /\ lock = None
    /\ LET unused == {q \in Slots : In(q, "UNUSED")} IN
         \/ /\ unused = {}
            /\ Goto(p, "sysret")
            /\ UNCHANGED <<state, pid, nextpid, np>>
         \/ /\ \E q \in First(unused) :
                 /\ state' = [state EXCEPT ![q] = "EMBRYO"]
                 /\ pid' = [pid EXCEPT ![q] = nextpid]
                 /\ np' = [np EXCEPT ![p] = q]
            /\ nextpid' = nextpid + 1
            /\ Goto(p, "kalloc")
    /\ UNCHANGED <<parent, killed, chan, kstack, lock, mode, cpuVars, irqVars, how, panicked>>

ForkStack(c) == \E p \in Slots :
    /\ Runs(c, p, "kalloc")
    /\ \/ /\ kstack' = [kstack EXCEPT ![np[p]] = TRUE]
          /\ Goto(p, "copyuvm")
          /\ UNCHANGED <<state, np>>
       \/ /\ state' = [state EXCEPT ![np[p]] = "UNUSED"]
          /\ np' = [np EXCEPT ![p] = NoProc]
          /\ Goto(p, "sysret")
          /\ UNCHANGED kstack
    /\ UNCHANGED <<pid, parent, killed, chan, nextpid, lock, mode, cpuVars, irqVars, how, panicked>>

CopyFailedLeaks(p) == kstack              \* faulty: the stack is not given back

CopyFailed(p) == [kstack EXCEPT ![np[p]] = FALSE]

ForkCopy(c) == \E p \in Slots :
    /\ Runs(c, p, "copyuvm")
    /\ \/ /\ parent' = [parent EXCEPT ![np[p]] = p]
          /\ at' = [at EXCEPT ![p] = "publish", ![np[p]] = "user"]
          /\ how' = [how EXCEPT ![np[p]] = "forkret"]
          /\ UNCHANGED <<state, kstack, np>>
       \/ /\ kstack' = CopyFailed(p)
          /\ state' = [state EXCEPT ![np[p]] = "UNUSED"]
          /\ np' = [np EXCEPT ![p] = NoProc]
          /\ Goto(p, "sysret")
          /\ UNCHANGED <<parent, how>>
    /\ UNCHANGED <<pid, killed, chan, nextpid, lock, mode, cpuVars, irqVars, panicked>>

ForkPublish(c) == \E p \in Slots :
    /\ Runs(c, p, "publish") /\ lock = None
    /\ state' = [state EXCEPT ![np[p]] = "RUNNABLE"]
    /\ np' = [np EXCEPT ![p] = NoProc]
    /\ Goto(p, "sysret")
    /\ UNCHANGED <<tableVars, lock, mode, cpuVars, irqVars, how, panicked>>
-----------------------------------------------------------------------------
Woken(q, channels) == In(q, "SLEEPING") /\ chan[q] \in channels

ExitWakesInit(p) ==                      \* faulty: the parent is not woken
    {initproc : q \in {q \in Slots : parent[q] = p /\ In(q, "ZOMBIE")}}

\* The channels exit() wakes: the parent's and, for a zombie child, init's.
ExitWakes(p) ==
    {parent[p]} \cup
    {initproc : q \in {q \in Slots : parent[q] = p /\ In(q, "ZOMBIE")}}

Adopt(p) == [q \in Slots |-> IF parent[q] = p THEN initproc ELSE parent[q]]

ExitNoLock(c) == lock = None /\ UNCHANGED <<lock, irq>>      \* faulty: ptable.lock is not kept

ExitLock(c) == acquire(c)

exit(c) == \E p \in Slots :
    /\ Runs(c, p, "exit") /\ p # initproc /\ ExitLock(c)
    /\ state' = [q \in Slots |->
          IF q = p THEN "ZOMBIE"
          ELSE IF Woken(q, ExitWakes(p)) THEN "RUNNABLE" ELSE state[q]]
    /\ parent' = Adopt(p)
    /\ mode' = [mode EXCEPT ![c] = "swtch"]
    /\ UNCHANGED <<pid, killed, chan, kstack, nextpid, cpuVars, intena, at, how, np, panicked>>

InitExit(c) ==
    /\ Runs(c, initproc, "exit")
    /\ panicked' = TRUE
    /\ UNCHANGED <<state, tableVars, lock, mode, cpuVars, irqVars, at, how, np>>

Kids(p) == {q \in Slots : parent[q] = p}
Zombies(p) == {q \in Kids(p) : In(q, "ZOMBIE")}
NobodyToWaitFor(p) == Kids(p) = {} \/ killed[p]

\* The loop of wait() with ptable.lock held (r: the interrupt state then):
\* reap, return -1 or sleep.
WaitReturn(c, p, r) ==
    /\ chan' = [chan EXCEPT ![p] = NoProc]
    /\ lock' = None
    /\ irq' = [irq EXCEPT ![c] = popcli(r)]
    /\ mode' = [mode EXCEPT ![c] = "run"]
    /\ Goto(p, "sysret")
    /\ how' = [how EXCEPT ![p] = "none"]

WaitReap(c, p, r) ==
    /\ \E q \in First(Zombies(p)) :
         /\ state' = [state EXCEPT ![q] = "UNUSED"]
         /\ pid' = [pid EXCEPT ![q] = 0]
         /\ parent' = [parent EXCEPT ![q] = NoProc]
         /\ killed' = [killed EXCEPT ![q] = FALSE]
         /\ kstack' = [kstack EXCEPT ![q] = FALSE]
         /\ intena' = [intena EXCEPT ![q] = FALSE, ![p] = FALSE]
    /\ WaitReturn(c, p, r)

WaitFail(c, p, r) ==
    /\ Zombies(p) = {} /\ NobodyToWaitFor(p)
    /\ WaitReturn(c, p, r) /\ Forget(p)
    /\ UNCHANGED <<state, pid, parent, killed, kstack>>

WaitSleep(c, p, r) ==
    /\ Zombies(p) = {} /\ ~NobodyToWaitFor(p)
    /\ chan' = [chan EXCEPT ![p] = p]
    /\ lock' = c
    /\ irq' = [irq EXCEPT ![c] = r] /\ Forget(p)
    /\ SwitchOut(c, p, "SLEEPING", "wait")
    /\ UNCHANGED <<pid, parent, killed, kstack, at>>

WaitLoop(c, p, r) == WaitReap(c, p, r) \/ WaitFail(c, p, r) \/ WaitSleep(c, p, r)

wait(c) == \E p \in Slots :
    /\ \/ Runs(c, p, "wait") /\ lock = None /\ WaitLoop(c, p, pushcli(irq[c]))
       \/ Resumes(c, p, "wait") /\ WaitLoop(c, p, Restored(c, p))
    /\ UNCHANGED <<nextpid, cpuVars, np, panicked>>
-----------------------------------------------------------------------------
\* sleep() on a channel that is no process, with another lock than ptable.lock.
sleep(c) == \E p \in Slots :
    /\ Runs(c, p, "sleep") /\ lock = None /\ lock' = c
    /\ irq' = [irq EXCEPT ![c] = popcli(pushcli(pushcli(@)))]     \* lk, ptable.lock, lk
    /\ chan' = [chan EXCEPT ![p] = Event]
    /\ SwitchOut(c, p, "SLEEPING", "sleep")
    /\ UNCHANGED <<pid, parent, killed, kstack, nextpid, cpuVars, intena, at, np, panicked>>

\* wakeup(), from an interrupt or a system call on c.
wakeup(c) ==
    /\ ~panicked /\ (mode[c] = "run" \/ (mode[c] = "idle" /\ irq[c].ie)) /\ lock = None
    /\ state' = [q \in Slots |-> IF Woken(q, {Event}) THEN "RUNNABLE" ELSE state[q]]
    /\ UNCHANGED <<tableVars, lock, mode, cpuVars, irqVars, at, how, np, panicked>>

kill(c, n) == \E p \in Slots :
    /\ Runs(c, p, "kill") /\ lock = None
    /\ LET match == {q \in Slots : pid[q] = n} IN
         \/ match = {} /\ UNCHANGED <<state, killed>>
         \/ \E q \in First(match) :
                 /\ killed' = [killed EXCEPT ![q] = TRUE]
                 /\ state' = [state EXCEPT ![q] = IF @ = "SLEEPING" THEN "RUNNABLE" ELSE @]
    /\ Goto(p, "sysret")
    /\ UNCHANGED <<pid, parent, chan, kstack, nextpid, lock, mode, cpuVars, irqVars, how, np, panicked>>

Scheduler(c) == SchedulerEnter(c) \/ SchedulerPick(c) \/ SchedulerLeave(c)

Switch(c) == sched(c) \/ forkret(c) \/ yieldRet(c) \/ sleepRet(c)

Work(c) ==
    \/ SysRet(c)
    \/ allocproc(c) \/ ForkStack(c) \/ ForkCopy(c) \/ ForkPublish(c)
    \/ exit(c) \/ InitExit(c) \/ wait(c) \/ sleep(c)
    \/ \E n \in KillPids : kill(c, n)

Timer(c) == TimerExit(c) \/ yield(c)

Next ==
    \E c \in CPUs :
        Scheduler(c) \/ Switch(c) \/ Work(c) \/ Timer(c) \/ Syscall(c) \/ Fault(c) \/ wakeup(c)

Spec == Init /\ [][Next]_vars

-----------------------------------------------------------------------------
\* A process runs on at most one CPU, and the processes in state RUNNING are
\* the ones that run, except while a CPU is inside sched() or the scheduler.
OneCpu ==
    /\ \A c, d \in CPUs : proc[c] = proc[d] /\ c # d => proc[c] = NoProc
    /\ lock = None => \A p \in Slots : In(p, "RUNNING") <=> \E c \in CPUs : proc[c] = p

\* No CPU runs on the kernel stack of a process that wait() has already given
\* back, in particular not between exit() and the swtch in sched().
StackLive ==
    \A c \in CPUs : mode[c] \in {"resume", "run", "swtch"} =>
        kstack[proc[c]] /\ ~In(proc[c], "UNUSED")

\* sched() is entered with ptable.lock and no other lock, with interrupts off and
\* with the state already changed; the lock that one side of swtch takes the
\* other side can release.
SchedNeverPanics == panicked => \E c \in CPUs : proc[c] = initproc /\ at[initproc] = "exit"

\* Interrupts are off exactly while a CPU has a spin lock, and in the handler of
\* a trap that ends the process: what sched() keeps of intena is right for the
\* process, though it comes back on another CPU or after one that was switched
\* out in a handler.  With them off, no timer could take the CPU from a process
\* and an idle CPU could not take the interrupt that makes one runnable.
Interruptible == ~panicked => \A c \in CPUs :
    IF mode[c] \in {"run", "idle"}
    THEN irq[c].ncli = 0 /\ (irq[c].ie \/ (mode[c] = "run" /\ at[proc[c]] = "exit"))
    ELSE irq[c].ncli = 1 /\ ~irq[c].ie

Live(p) == ~In(p, "UNUSED") /\ ~In(p, "EMBRYO")

\* A process that sleeps in wait() has something to wait for: a child, none of
\* its children a zombie, and it has not been killed.
WaitersWait ==
    \A p \in Slots : In(p, "SLEEPING") /\ how[p] = "wait" =>
        Kids(p) # {} /\ Zombies(p) = {} /\ ~killed[p]

\* A slot that fork() gave back, with or without the lock, holds nothing, and a
\* slot that is being filled has one process that fills it.
SlotsAccounted ==
    \A p \in Slots :
        /\ In(p, "UNUSED") => ~kstack[p] /\ parent[p] = NoProc
        /\ In(p, "EMBRYO") =>
             \E q \in Slots : {r \in Slots : Live(r) /\ np[r] = p /\ ~In(r, "ZOMBIE")} = {q}
=============================================================================
