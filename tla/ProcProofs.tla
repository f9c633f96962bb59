----------------------------- MODULE ProcProofs -----------------------------
(***************************************************************************)
(* Proofs about Proc, for any number of slots and CPUs and whatever the    *)
(* processes call: its inductive invariant, each step, and its properties. *)
(***************************************************************************)
EXTENDS Proc, TLAPS

\* Where a CPU has ptable.lock, where it is on a process's kernel stack, where
\* a process fills the slot fork() gave it, and the states of a process that has
\* left its CPU.
Locked == {"scan", "resume", "swtch"}
OnStack == {"resume", "run", "swtch"}
Filling == {"kalloc", "copyuvm", "publish"}
Stopped == {"RUNNABLE", "SLEEPING", "ZOMBIE"}
\* The values the variables range over.
Modes == {"idle", "scan", "resume", "run", "swtch"}
Places == Filling \cup {"user", "fork", "wait", "sleep", "kill", "exit", "sysret"}
Irqs == [ie : BOOLEAN, ncli : Nat, intena : BOOLEAN]

\* The type of every variable.
Typed ==
    /\ state \in [Slots -> States] /\ pid \in [Slots -> Nat] /\ nextpid \in Nat
    /\ parent \in [Slots -> Slots \cup {NoProc}]
    /\ killed \in [Slots -> BOOLEAN] /\ kstack \in [Slots -> BOOLEAN]
    /\ chan \in [Slots -> Slots \cup {NoProc, Event}]
    /\ lock \in CPUs \cup {None}
    /\ mode \in [CPUs -> Modes]
    /\ proc \in [CPUs -> Slots \cup {NoProc}]
    /\ scan \in [CPUs -> Nat \ {0}]
    /\ irq \in [CPUs -> Irqs]
    /\ at \in [Slots -> Places]
    /\ how \in [Slots -> {"none", "forkret", "yield", "sleep", "wait"}]
    /\ np \in [Slots -> Slots \cup {NoProc}]
    /\ intena \in [Slots -> BOOLEAN]
    /\ panicked \in BOOLEAN

\* ptable.lock: the CPU that has it is the one between acquire and release.
Holder == \A c \in CPUs : mode[c] \in Locked <=> lock = c

\* A CPU is on a stack exactly when it has a process, no two have the same one,
\* and the process is RUNNING until it has changed its state to leave.
Running ==
    /\ \A c \in CPUs : mode[c] \in OnStack <=> proc[c] # NoProc
    /\ \A c, d \in CPUs : proc[c] = proc[d] /\ proc[c] # NoProc => c = d
    /\ \A c \in CPUs : mode[c] \in {"resume", "run"} => state[proc[c]] = "RUNNING"
    /\ \A c \in CPUs : mode[c] = "swtch" => state[proc[c]] \in Stopped
    /\ \A p \in Slots : state[p] = "RUNNING" => \E c \in CPUs : proc[c] = p

\* ncli and IF on each CPU: one lock and interrupts off from acquire to release,
\* no lock and interrupts on elsewhere, but for the exit in a trap handler.
Flags ==
    \A c \in CPUs :
        /\ mode[c] \in Locked => irq[c].ncli = 1 /\ ~irq[c].ie
        /\ mode[c] = "idle" => irq[c].ncli = 0 /\ irq[c].ie
        /\ mode[c] = "run" => irq[c].ncli = 0 /\ (irq[c].ie \/ at[proc[c]] = "exit")

\* What a process keeps of the interrupt state across swtch: one that sleeps had
\* interrupts on, and sched() has saved that or is about to.
Kept ==
    /\ \A c \in CPUs : mode[c] = "run" => how[proc[c]] = "none"
    /\ \A c \in CPUs : mode[c] = "swtch" /\ how[proc[c]] \in {"sleep", "wait"} => irq[c].intena
    /\ \A p \in Slots : how[p] \in {"sleep", "wait"} =>
          intena[p] \/ \E c \in CPUs : mode[c] = "swtch" /\ proc[c] = p
    /\ \A p \in Slots : state[p] = "ZOMBIE" => how[p] = "none"
    /\ \A p \in Slots : how[p] \in {"sleep", "wait"} => at[p] = how[p]

\* A process past EMBRYO has its kernel stack until wait() frees it; a free slot has
\* neither stack nor parent.
Owned ==
    \A p \in Slots :
        /\ state[p] \notin {"UNUSED", "EMBRYO"} => kstack[p]
        /\ state[p] = "UNUSED" => ~kstack[p] /\ parent[p] = NoProc

\* An embryo belongs to one process, which is inside fork() and knows which
\* steps it has taken.
Filled ==
    /\ \A p \in Slots : at[p] \in Filling <=> np[p] # NoProc
    /\ \A p \in Slots : np[p] # NoProc =>
          state[p] \in {"RUNNING", "RUNNABLE"} /\ state[np[p]] = "EMBRYO"
    /\ \A p, q \in Slots : np[p] = np[q] /\ np[p] # NoProc => p = q
    /\ \A p \in Slots : state[p] = "EMBRYO" => \E q \in Slots : np[q] = p
    /\ \A p \in Slots : np[p] # NoProc =>
          /\ kstack[np[p]] <=> at[p] # "kalloc"
          /\ at[p] # "publish" => parent[np[p]] = NoProc

\* initproc is alive and has no parent, and no process is its own parent.
Family ==
    /\ state[initproc] \in {"RUNNABLE", "RUNNING", "SLEEPING"} /\ parent[initproc] = NoProc
    /\ \A p \in Slots : parent[p] # p

\* A process that sleeps in wait() sleeps on its own slot, has a child, has no
\* zombie and was not killed.
Waiting ==
    \A p \in Slots : state[p] = "SLEEPING" /\ how[p] = "wait" =>
        /\ chan[p] = p /\ ~killed[p]
        /\ \E q \in Slots : parent[q] = p
        /\ \A q \in Slots : parent[q] = p => state[q] # "ZOMBIE"

\* The one panic the code can reach: exit() called by initproc.
Panics == panicked =>
    \E c \in CPUs : mode[c] = "run" /\ proc[c] = initproc /\ at[initproc] = "exit"

\* The inductive invariant.
IInv == Typed /\ Holder /\ Running /\ Flags /\ Kept /\ Owned /\ Filled /\ Family /\ Waiting /\ Panics
-----------------------------------------------------------------------------
\* pushcli with no lock held: one lock, interrupts off, the old flag remembered.
LEMMA Push ==
    ASSUME NEW r \in Irqs, r.ncli = 0
    PROVE  /\ pushcli(r) \in Irqs
           /\ pushcli(r).ncli = 1 /\ pushcli(r).ie = FALSE /\ pushcli(r).intena = r.ie
BY DEF Irqs, pushcli

\* popcli of the last lock gives the remembered flag back.
LEMMA Pop ==
    ASSUME NEW r \in Irqs, r.ncli = 1
    PROVE  /\ popcli(r) \in Irqs
           /\ popcli(r).ncli = 0 /\ popcli(r).ie = r.intena
BY DEF Irqs, popcli

\* release followed by a return that may turn interrupts on.
LEMMA PopOn ==
    ASSUME NEW r \in Irqs, r.ncli = 1, NEW on \in BOOLEAN
    PROVE  LET s == [popcli(r) EXCEPT !.ie = @ \/ on]
           IN s \in Irqs /\ s.ncli = 0 /\ (on => s.ie) /\ (r.intena => s.ie)
<1> DEFINE s == [popcli(r) EXCEPT !.ie = @ \/ on]
<1>1. popcli(r) \in Irqs /\ popcli(r).ncli = 0 /\ popcli(r).ie = r.intena
  BY Pop, Zenon
<1>2. (popcli(r).ie \/ on) \in BOOLEAN
  BY Zenon
<1>3. s = [popcli(r) EXCEPT !.ie = popcli(r).ie \/ on]
  BY Zenon
<1>4. \A x \in Irqs, b \in BOOLEAN :
        [x EXCEPT !.ie = b] \in Irqs /\ [x EXCEPT !.ie = b].ncli = x.ncli /\ [x EXCEPT !.ie = b].ie = b
  BY Zenon DEF Irqs
<1>5. s \in Irqs /\ s.ncli = 0 /\ s.ie = (popcli(r).ie \/ on)
  BY <1>1, <1>2, <1>3, <1>4, Zenon
<1> QED BY <1>1, <1>5, Zenon

\* The gate of an interrupt turns interrupts off and takes no lock.
LEMMA Gate ==
    ASSUME NEW r \in Irqs
    PROVE  Gated(r) \in Irqs /\ Gated(r).ncli = r.ncli /\ Gated(r).ie = FALSE
BY Zenon DEF Irqs, Gated

\* sched() puts the flag of the process back on whatever CPU it returns on.
LEMMA Restore ==
    ASSUME Typed, NEW c \in CPUs, NEW p \in Slots
    PROVE  LET r == Restored(c, p)
           IN r \in Irqs /\ r.ncli = irq[c].ncli /\ r.ie = irq[c].ie /\ r.intena = intena[p]
BY DEF Irqs, Restored, Typed

\* The state main() leaves satisfies the invariant.
LEMMA InitStep == Init => IInv
<1> SUFFICES ASSUME Init PROVE IInv
  BY Zenon
<1>0. initproc \in Slots /\ initproc # NoProc /\ NoProc \notin Slots /\ Slots \subseteq Nat
  BY ProcAssumption DEF initproc, NoProc, Slots
<1>1. Typed
  <2>1. killed \in [Slots -> BOOLEAN] /\ kstack \in [Slots -> BOOLEAN] /\ intena \in [Slots -> BOOLEAN]
    BY Zenon DEF Init
  <2>2. irq \in [CPUs -> Irqs]
    BY Zenon DEF Init, Enabled, Irqs
  <2>3. /\ state \in [Slots -> States]
        /\ pid \in [Slots -> Nat] /\ nextpid \in Nat /\ parent \in [Slots -> Slots \cup {NoProc}]
        /\ chan \in [Slots -> Slots \cup {NoProc, Event}] /\ lock \in CPUs \cup {None}
        /\ mode \in [CPUs -> Modes] /\ scan \in [CPUs -> Nat \ {0}]
    BY <1>0, ProcAssumption DEF Init, States, Modes
  <2>4. /\ proc \in [CPUs -> Slots \cup {NoProc}] /\ at \in [Slots -> Places]
        /\ how \in [Slots -> {"none", "forkret", "yield", "sleep", "wait"}]
        /\ np \in [Slots -> Slots \cup {NoProc}] /\ panicked \in BOOLEAN
    BY <1>0, ProcAssumption, Zenon DEF Init, Places
  <2> QED BY <2>1, <2>2, <2>3, <2>4, Zenon DEF Typed
<1>2. Holder /\ Running /\ Flags /\ Kept
  BY <1>0, ProcAssumption, Zenon DEF Init, Holder, Running, Stopped, Flags, Kept, Enabled, Locked, OnStack
<1>3. Owned /\ Filled /\ Family /\ Waiting /\ Panics
  BY <1>0, ProcAssumption, Zenon DEF Init, Owned, Filled, Family, Waiting, Panics, Filling
<1> QED BY <1>1, <1>2, <1>3, Zenon DEF IInv

\* initproc has a slot, and the absent process and the absent CPU are no one.
LEMMA Basics ==
    /\ initproc \in Slots /\ initproc # NoProc /\ NoProc \notin Slots
    /\ Slots \subseteq Nat /\ None \notin CPUs
BY ProcAssumption DEF initproc, NoProc, Slots

\* A CPU on a stack has a process of the table.
LEMMA OnSlots == IInv => \A d \in CPUs : mode[d] \in OnStack => proc[d] \in Slots
BY DEF IInv, Typed, Running

\* A process that comes back from sched() and releases ptable.lock leaves the
\* lock's holder and the running processes as the invariant wants them.
LEMMA ResumeFrame ==
    ASSUME IInv, NEW c \in CPUs, mode[c] = "resume", mode' = [mode EXCEPT ![c] = "run"],
           proc' = proc, state' = state, lock' = None
    PROVE  Holder' /\ Running'
<1>1. mode \in [CPUs -> Modes] /\ Holder /\ Running
  BY Zenon DEF IInv, Typed
<1>2. mode' \in [CPUs -> Modes] /\ mode'[c] = "run" /\ \A d \in CPUs : d # c => mode'[d] = mode[d]
  BY <1>1, Zenon DEF Modes
<1>3. Holder'
  <2>1. lock = c
    BY <1>1, Zenon DEF Holder, Locked
  <2>2. \A d \in CPUs : mode'[d] \notin Locked
    BY <1>1, <1>2, <2>1, Zenon DEF Holder, Locked
  <2>3. \A d \in CPUs : lock' # d
    BY Basics, Zenon
  <2> QED BY <2>2, <2>3, Zenon DEF Holder
<1>4. Running'
  <2>1. \A d \in CPUs : mode'[d] \in OnStack <=> mode[d] \in OnStack
    BY <1>2, Zenon DEF OnStack
  <2>2. \A d \in CPUs : mode'[d] \in {"resume", "run"} <=> mode[d] \in {"resume", "run"}
    BY <1>2, Zenon
  <2>3. \A d \in CPUs : mode'[d] = "swtch" <=> mode[d] = "swtch"
    BY <1>2, Zenon
  <2> QED BY <1>1, <2>1, <2>2, <2>3 DEF Running
<1> QED BY <1>3, <1>4, Zenon

\* The running processes, when no CPU changes hands and no process starts or
\* stops running.
LEMMA RunningFrame ==
    ASSUME Typed, Running, mode' = mode, proc' = proc,
           \A q \in Slots : state'[q] = "RUNNING" <=> state[q] = "RUNNING",
           \A q \in Slots : state[q] \in Stopped => state'[q] \in Stopped
    PROVE  Running'
<1>1. \A d \in CPUs : mode[d] \in OnStack => proc[d] \in Slots
  BY DEF Typed, Running
<1>2. \A d \in CPUs : mode[d] \in {"resume", "run"} => state'[proc[d]] = "RUNNING"
  BY <1>1, Zenon DEF Running, OnStack
<1>3. \A d \in CPUs : mode[d] = "swtch" => state'[proc[d]] \in Stopped
  BY <1>1, Zenon DEF Running, OnStack
<1>4. \A q \in Slots : state'[q] = "RUNNING" => \E d \in CPUs : proc[d] = q
  BY Zenon DEF Running
<1> QED BY <1>2, <1>3, <1>4 DEF Running

\* The interrupt state, when no CPU changes it and no process leaves exit().
LEMMA FlagsFrame ==
    ASSUME Flags, mode' = mode, proc' = proc, irq' = irq,
           \A d \in CPUs : mode[d] = "run" /\ at[proc[d]] = "exit" => at'[proc[d]] = "exit"
    PROVE  Flags'
BY DEF Flags

\* What sleeping processes keep, when none of them moves and none becomes a zombie.
LEMMA KeptFrame ==
    ASSUME Kept, mode' = mode, proc' = proc, irq' = irq, intena' = intena, how' = how,
           \A q \in Slots : how[q] \in {"sleep", "wait"} => at'[q] = at[q],
           \A q \in Slots : state'[q] = "ZOMBIE" => state[q] = "ZOMBIE"
    PROVE  Kept'
BY DEF Kept

\* The sleepers in wait(), when none is added, and none of them sees a change in
\* its own fields or a new zombie.
LEMMA WaitingFrame ==
    ASSUME Waiting, parent' = parent,
           \A q \in Slots : state'[q] = "SLEEPING" =>
              /\ state[q] = "SLEEPING" /\ how'[q] = how[q]
              /\ chan'[q] = chan[q] /\ killed'[q] = killed[q],
           \A q \in Slots : state'[q] = "ZOMBIE" => state[q] = "ZOMBIE"
    PROVE  Waiting'
BY DEF Waiting

\* Slots and parents, when the table is left alone.
LEMMA TableFrame ==
    ASSUME state' = state, kstack' = kstack, parent' = parent, Owned, Family
    PROVE  Owned' /\ Family'
<1>1. Owned'
  BY Zenon DEF Owned
<1>2. Family'
  BY Zenon DEF Family
<1> QED BY <1>1, <1>2, Zenon

\* The slots fork() is filling, when no process enters or leaves that part of
\* fork().
LEMMA FilledFrame ==
    ASSUME Filled, state' = state, kstack' = kstack, parent' = parent, np' = np,
           \A q \in Slots : at'[q] = at[q] \/ (at[q] \notin Filling /\ at'[q] \notin Filling)
    PROVE  Filled'
<1>1. \A q \in Slots : at'[q] \in Filling <=> at[q] \in Filling
  BY Zenon
<1>2. \A q \in Slots : np[q] # NoProc => at'[q] = at[q]
  BY Zenon DEF Filled
<1> QED BY <1>1, <1>2 DEF Filled

\* scheduler() takes ptable.lock.
LEMMA EnterStep ==
    ASSUME IInv, NEW c \in CPUs, SchedulerEnter(c)
    PROVE  IInv'
<1>1. /\ mode[c] = "idle" /\ lock = None /\ lock' = c /\ mode' = [mode EXCEPT ![c] = "scan"]
      /\ irq' = [irq EXCEPT ![c] = pushcli(irq[c])]
      /\ state' = state /\ proc' = proc /\ scan' = scan /\ intena' = intena /\ at' = at
      /\ how' = how /\ np' = np /\ panicked' = panicked /\ UNCHANGED tableVars
  BY Zenon DEF SchedulerEnter, acquire, acquireOn, cpuVars
<1>2. /\ pid' = pid /\ parent' = parent /\ killed' = killed /\ chan' = chan /\ kstack' = kstack
      /\ nextpid' = nextpid
  BY <1>1, Zenon DEF tableVars
<1>3. /\ mode \in [CPUs -> Modes] /\ irq \in [CPUs -> Irqs]
      /\ Holder /\ Running /\ Flags /\ Kept /\ Owned /\ Filled /\ Family /\ Waiting /\ Panics /\ Typed
  BY Zenon DEF IInv, Typed
<1>4. mode[c] \notin Locked \cup OnStack /\ mode[c] # "run" /\ "scan" \in Locked \cap Modes
      /\ "scan" \notin OnStack \cup {"run", "swtch", "idle"}
  BY <1>1, Zenon DEF Locked, OnStack, Modes
<1>5. irq[c] \in Irqs /\ irq[c].ncli = 0
  BY <1>1, <1>3, Zenon DEF Flags
<1>6. pushcli(irq[c]) \in Irqs /\ pushcli(irq[c]).ncli = 1 /\ ~pushcli(irq[c]).ie
  BY <1>5, Push, Zenon
<1>7. /\ mode'[c] = "scan" /\ (\A d \in CPUs : d # c => mode'[d] = mode[d])
      /\ irq'[c].ncli = 1 /\ ~irq'[c].ie /\ (\A d \in CPUs : d # c => irq'[d] = irq[d])
  BY <1>1, <1>3, <1>6, Zenon
<1>8. Typed'
  <2>1. irq' \in [CPUs -> Irqs] /\ mode' \in [CPUs -> Modes] /\ lock' \in CPUs \cup {None}
    BY <1>1, <1>3, <1>4, <1>6, Zenon
  <2> QED BY <1>1, <1>2, <1>3, <2>1, Zenon DEF Typed
<1>9. Holder'
  BY <1>1, <1>3, <1>4, <1>7, Basics, Zenon DEF Holder
<1>10. Running'
  BY <1>1, <1>3, <1>4, <1>7 DEF Running, Stopped, Locked, OnStack, Modes
<1>11. Flags'
  BY <1>1, <1>3, <1>4, <1>7, Zenon DEF Flags
<1>12. Kept'
  BY <1>1, <1>3, <1>4, <1>7 DEF Kept
<1>13. Owned' /\ Filled' /\ Family' /\ Waiting'
  BY <1>1, <1>2, <1>3 DEF Owned, Filled, Family, Waiting
<1>14. Panics'
  BY <1>1, <1>3, <1>7, Zenon DEF Panics
<1> QED BY <1>8, <1>9, <1>10, <1>11, <1>12, <1>13, <1>14, Zenon DEF IInv

\* release() by the CPU that has ptable.lock: it does not panic, and interrupts
\* come back as the CPU had them.
LEMMA Released ==
    ASSUME IInv, NEW c \in CPUs, mode[c] \in Locked,
           NEW r \in Irqs, r.ncli = 1, ~r.ie, NEW on \in BOOLEAN, release(c, r, on)
    PROVE  /\ lock' = None /\ panicked' = panicked /\ irq' \in [CPUs -> Irqs]
           /\ irq'[c].ncli = 0 /\ (on => irq'[c].ie) /\ (r.intena => irq'[c].ie)
           /\ \A d \in CPUs : d # c => irq'[d] = irq[d]
<1> DEFINE s == [popcli(r) EXCEPT !.ie = @ \/ on]
<1>1. lock = c /\ irq \in [CPUs -> Irqs] /\ panicked \in BOOLEAN
  BY Zenon DEF IInv, Holder, Typed
<1>2. s \in Irqs /\ s.ncli = 0 /\ (on => s.ie) /\ (r.intena => s.ie)
  BY PopOn, Zenon
<1>3. lock' = None /\ irq' = [irq EXCEPT ![c] = s]
  BY Zenon DEF release
<1>4. panicked' = panicked
  BY <1>1 DEF release
<1> HIDE DEF s
<1> QED BY <1>1, <1>2, <1>3, <1>4, Zenon

\* scheduler() picks a RUNNABLE process: it is on no stack, so no other CPU has it.
LEMMA PickStep ==
    ASSUME IInv, NEW c \in CPUs, SchedulerPick(c)
    PROVE  IInv'
<1>1. PICK p \in Slots :
        /\ mode[c] = "scan" /\ state[p] = "RUNNABLE" /\ state' = [state EXCEPT ![p] = "RUNNING"]
        /\ proc' = [proc EXCEPT ![c] = p] /\ scan' = [scan EXCEPT ![c] = p + 1]
        /\ mode' = [mode EXCEPT ![c] = "resume"]
        /\ UNCHANGED <<tableVars, lock, irqVars, at, how, np, panicked>>
  <2>1. scan[c] \in Nat \ {0}
    BY Zenon DEF IInv, Typed
  <2>2. Ready(c) \subseteq Slots /\ (\A p \in Ready(c) : state[p] = "RUNNABLE")
    BY <2>1, ProcAssumption DEF Ready, In, Slots
  <2> QED BY <2>2, Zenon DEF SchedulerPick, Picked, AfterPick, First
<1>2. /\ pid' = pid /\ parent' = parent /\ killed' = killed /\ chan' = chan /\ kstack' = kstack
      /\ nextpid' = nextpid /\ lock' = lock /\ irq' = irq /\ intena' = intena /\ at' = at /\ how' = how
      /\ np' = np /\ panicked' = panicked
  BY <1>1, Zenon DEF tableVars, irqVars
<1>3. /\ state \in [Slots -> States] /\ mode \in [CPUs -> Modes] /\ proc \in [CPUs -> Slots \cup {NoProc}]
      /\ scan \in [CPUs -> Nat \ {0}] /\ p + 1 \in Nat \ {0}
      /\ Holder /\ Running /\ Flags /\ Kept /\ Owned /\ Filled /\ Family /\ Waiting /\ Panics /\ Typed
  BY Basics DEF IInv, Typed
<1>4. \A d \in CPUs : proc[d] # p
  <2>1. \A d \in CPUs : mode[d] = "swtch" => d = c
    BY <1>1, <1>3, Zenon DEF Holder, Locked
  <2> QED BY <1>1, <1>3, <2>1, Basics DEF Running, Stopped, OnStack
<1>5. Typed'
  BY <1>1, <1>2, <1>3, Zenon DEF Typed, States, Modes
<1>6. Holder'
  BY <1>1, <1>2, <1>3, Zenon DEF Holder, Locked
<1>7. Running'
  BY <1>1, <1>3, <1>4, Basics DEF Running, Stopped, OnStack
<1>8. Flags'
  BY <1>1, <1>2, <1>3, <1>4, Zenon DEF Flags, Locked
<1>9. Kept'
  BY <1>1, <1>2, <1>3, <1>4, Basics DEF Kept, Running, Stopped, OnStack
<1>10. Owned' /\ Filled'
  BY <1>1, <1>2, <1>3 DEF Owned, Filled
<1>11. Family' /\ Waiting'
  BY <1>1, <1>2, <1>3 DEF Family, Waiting
<1>12. Panics'
  BY <1>1, <1>2, <1>3 DEF Panics
<1> QED BY <1>5, <1>6, <1>7, <1>8, <1>9, <1>10, <1>11, <1>12, Zenon DEF IInv

\* scheduler() finds nothing more and releases ptable.lock.
LEMMA LeaveStep ==
    ASSUME IInv, NEW c \in CPUs, SchedulerLeave(c)
    PROVE  IInv'
<1>1. /\ mode[c] = "scan" /\ release(c, irq[c], TRUE)
      /\ scan' = [scan EXCEPT ![c] = 1] /\ mode' = [mode EXCEPT ![c] = "idle"]
      /\ state' = state /\ proc' = proc /\ intena' = intena /\ at' = at /\ how' = how /\ np' = np
      /\ pid' = pid /\ parent' = parent /\ killed' = killed /\ chan' = chan /\ kstack' = kstack
      /\ nextpid' = nextpid
  BY Zenon DEF SchedulerLeave, tableVars
<1>2. /\ mode \in [CPUs -> Modes] /\ scan \in [CPUs -> Nat \ {0}] /\ irq[c] \in Irqs
      /\ Holder /\ Running /\ Flags /\ Kept /\ Owned /\ Filled /\ Family /\ Waiting /\ Panics /\ Typed
  BY Zenon DEF IInv, Typed
<1>3. mode[c] \in Locked /\ irq[c].ncli = 1 /\ ~irq[c].ie
  BY <1>1, <1>2, Zenon DEF Flags, Locked
<1>4. /\ lock' = None /\ panicked' = panicked /\ irq' \in [CPUs -> Irqs]
      /\ irq'[c].ncli = 0 /\ irq'[c].ie /\ \A d \in CPUs : d # c => irq'[d] = irq[d]
  BY <1>1, <1>2, <1>3, Released, Zenon
<1>5. Typed'
  BY <1>1, <1>2, <1>4 DEF Typed, Modes
<1>6. Holder' /\ Running'
  BY <1>1, <1>2, <1>4, Basics DEF Holder, Locked, Running, Stopped, OnStack
<1>7. Flags' /\ Kept'
  BY <1>1, <1>2, <1>4 DEF Flags, Locked, Kept
<1>8. Owned' /\ Filled' /\ Family' /\ Waiting'
  BY <1>1, <1>2 DEF Owned, Filled, Family, Waiting
<1>9. Panics'
  BY <1>1, <1>2, <1>4, Zenon DEF Panics
<1> QED BY <1>5, <1>6, <1>7, <1>8, <1>9, Zenon DEF IInv

\* sched(): its four checks hold, and the CPU goes back to the scheduler.
LEMMA schedStep ==
    ASSUME IInv, NEW c \in CPUs, sched(c)
    PROVE  IInv'
<1>1. /\ ~panicked /\ mode[c] = "swtch"
      /\ panicked' = (lock # c \/ irq[c].ncli # 1 \/ In(proc[c], "RUNNING") \/ irq[c].ie)
      /\ intena' = [intena EXCEPT ![proc[c]] = irq[c].intena]
      /\ proc' = [proc EXCEPT ![c] = NoProc] /\ mode' = [mode EXCEPT ![c] = "scan"]
      /\ state' = state /\ lock' = lock /\ scan' = scan /\ irq' = irq /\ at' = at /\ how' = how /\ np' = np
      /\ pid' = pid /\ parent' = parent /\ killed' = killed /\ chan' = chan /\ kstack' = kstack
      /\ nextpid' = nextpid
  BY Zenon DEF sched, tableVars
<1>2. /\ mode \in [CPUs -> Modes] /\ proc \in [CPUs -> Slots \cup {NoProc}] /\ irq[c] \in Irqs
      /\ intena \in [Slots -> BOOLEAN]
      /\ Holder /\ Running /\ Flags /\ Kept /\ Owned /\ Filled /\ Family /\ Waiting /\ Panics /\ Typed
  BY Zenon DEF IInv, Typed
<1>3. proc[c] \in Slots /\ proc[c] # NoProc /\ irq[c].intena \in BOOLEAN
  BY <1>1, <1>2 DEF Running, Stopped, OnStack, Irqs
<1>4. panicked' = FALSE
  BY <1>1, <1>2, Zenon DEF Holder, Flags, Running, Stopped, Locked, In
<1>5. Typed'
  BY <1>1, <1>2, <1>3, <1>4, Zenon DEF Typed, Modes
<1>6. Holder' /\ Running'
  BY <1>1, <1>2, <1>3 DEF Holder, Locked, Running, Stopped, OnStack
<1>7. Flags' /\ Kept'
  BY <1>1, <1>2, <1>3 DEF Flags, Locked, Kept
<1>8. Owned' /\ Filled' /\ Family' /\ Waiting'
  BY <1>1, <1>2 DEF Owned, Filled, Family, Waiting
<1>9. Panics'
  BY <1>4, Zenon DEF Panics
<1> QED BY <1>5, <1>6, <1>7, <1>8, <1>9, Zenon DEF IInv

\* What a process finds when the scheduler has switched to it.
LEMMA Resumed ==
    ASSUME IInv, NEW c \in CPUs, NEW p \in Slots, NEW h, Resumes(c, p, h)
    PROVE  /\ mode[c] = "resume" /\ mode[c] \in Locked /\ p = proc[c] /\ how[p] = h
           /\ irq[c] \in Irqs /\ irq[c].ncli = 1 /\ ~irq[c].ie
           /\ Restored(c, p) \in Irqs /\ Restored(c, p).ncli = 1 /\ ~Restored(c, p).ie
           /\ (h \in {"sleep", "wait"} => Restored(c, p).intena /\ at[p] = h)
           /\ \A d \in CPUs : proc[d] = p => d = c
<1>1. mode[c] = "resume" /\ p = proc[c] /\ how[p] = h
  BY Zenon DEF Resumes
<1>2. irq \in [CPUs -> Irqs] /\ Flags /\ Kept /\ Running /\ Typed
  BY Zenon DEF IInv, Typed
<1>3. mode[c] \in Locked /\ irq[c].ncli = 1 /\ ~irq[c].ie /\ irq[c] \in Irqs
  BY <1>1, <1>2, Zenon DEF Flags, Locked
<1>4. \A d \in CPUs : proc[d] = p => d = c
  BY <1>1, <1>2, Basics, Zenon DEF Running, Stopped
<1>5. h \in {"sleep", "wait"} => intena[p] /\ at[p] = h
  BY <1>1, <1>2, <1>4 DEF Kept
<1>6. /\ Restored(c, p) \in Irqs /\ Restored(c, p).ncli = irq[c].ncli /\ Restored(c, p).ie = irq[c].ie
      /\ Restored(c, p).intena = intena[p]
  BY <1>2, Restore, Zenon
<1> QED BY <1>1, <1>3, <1>4, <1>5, <1>6, Zenon

\* The first return of a new process.
LEMMA forkretStep ==
    ASSUME IInv, NEW c \in CPUs, forkret(c)
    PROVE  IInv'
<1>1. PICK p \in Slots :
        /\ Resumes(c, p, "forkret") /\ release(c, irq[c], TRUE)
        /\ how' = [how EXCEPT ![p] = "none"] /\ mode' = [mode EXCEPT ![c] = "run"]
        /\ state' = state /\ proc' = proc /\ scan' = scan /\ intena' = intena /\ at' = at /\ np' = np
        /\ pid' = pid /\ parent' = parent /\ killed' = killed /\ chan' = chan /\ kstack' = kstack
        /\ nextpid' = nextpid
  BY Zenon DEF forkret, tableVars, cpuVars
<1>2. /\ mode \in [CPUs -> Modes]
      /\ how \in [Slots -> {"none", "forkret", "yield", "sleep", "wait"}]
      /\ Holder /\ Running /\ Flags /\ Kept /\ Owned /\ Filled /\ Family /\ Waiting /\ Panics /\ Typed
  BY Zenon DEF IInv, Typed
<1>3. /\ mode[c] = "resume" /\ mode[c] \in Locked /\ p = proc[c]
      /\ irq[c] \in Irqs /\ irq[c].ncli = 1 /\ ~irq[c].ie /\ \A d \in CPUs : proc[d] = p => d = c
  BY <1>1, Resumed, Zenon
<1>4. /\ lock' = None /\ panicked' = panicked /\ irq' \in [CPUs -> Irqs]
      /\ irq'[c].ncli = 0 /\ irq'[c].ie /\ \A d \in CPUs : d # c => irq'[d] = irq[d]
  BY <1>1, <1>3, Released, Zenon
<1>5. Typed'
  BY <1>1, <1>2, <1>4, Zenon DEF Typed, Modes
<1>6. Holder' /\ Running'
  BY <1>1, <1>3, <1>4, ResumeFrame, Zenon
<1>7. Flags' /\ Kept'
  BY <1>1, <1>2, <1>3, <1>4 DEF Flags, Locked, Kept
<1>0. state[p] = "RUNNING"
  BY <1>2, <1>3, Zenon DEF Running
<1>8. Owned' /\ Family'
  BY <1>1, <1>2, TableFrame, Zenon
<1>10. Filled'
  BY <1>1, <1>2, FilledFrame, Zenon
<1>11. Waiting'
  <2>1. \A q \in Slots : state'[q] = "SLEEPING" =>
          /\ state[q] = "SLEEPING" /\ how'[q] = how[q]
          /\ chan'[q] = chan[q] /\ killed'[q] = killed[q]
    BY <1>0, <1>1, <1>2, Zenon
  <2>2. \A q \in Slots : state'[q] = "ZOMBIE" => state[q] = "ZOMBIE"
    BY <1>1, Zenon
  <2> QED BY <1>1, <1>2, <2>1, <2>2, WaitingFrame, Zenon
<1>9. Panics'
  BY <1>1, <1>2, <1>3, <1>4, Zenon DEF Panics
<1> QED BY <1>5, <1>6, <1>7, <1>8, <1>9, <1>10, <1>11, Zenon DEF IInv

\* The return from yield(), to user code, a system call or exit().
LEMMA yieldRetStep ==
    ASSUME IInv, NEW c \in CPUs, yieldRet(c)
    PROVE  IInv'
<1>1. PICK p \in Slots :
        /\ Resumes(c, p, "yield") /\ release(c, Restored(c, p), ~(at[p] = "user" /\ killed[p]))
        /\ intena' = [intena EXCEPT ![p] = FALSE]
        /\ how' = [how EXCEPT ![p] = "none"] /\ mode' = [mode EXCEPT ![c] = "run"]
        /\ IF at[p] = "user" /\ killed[p] THEN at' = [at EXCEPT ![p] = "exit"] ELSE at' = at
        /\ state' = state /\ proc' = proc /\ scan' = scan /\ np' = np
        /\ pid' = pid /\ parent' = parent /\ killed' = killed /\ chan' = chan /\ kstack' = kstack
        /\ nextpid' = nextpid
  BY Zenon DEF yieldRet, tableVars, cpuVars, Forget, Goto
<1>2. /\ mode \in [CPUs -> Modes] /\ intena \in [Slots -> BOOLEAN] /\ at \in [Slots -> Places]
      /\ how \in [Slots -> {"none", "forkret", "yield", "sleep", "wait"}]
      /\ Holder /\ Running /\ Flags /\ Kept /\ Owned /\ Filled /\ Family /\ Waiting /\ Panics /\ Typed
  BY Zenon DEF IInv, Typed
<1>3. /\ mode[c] = "resume" /\ mode[c] \in Locked /\ p = proc[c] /\ \A d \in CPUs : proc[d] = p => d = c
      /\ Restored(c, p) \in Irqs /\ Restored(c, p).ncli = 1 /\ ~Restored(c, p).ie
  BY <1>1, Resumed
<1>4. /\ lock' = None /\ panicked' = panicked /\ irq' \in [CPUs -> Irqs] /\ irq'[c].ncli = 0
      /\ (~(at[p] = "user" /\ killed[p]) => irq'[c].ie) /\ \A d \in CPUs : d # c => irq'[d] = irq[d]
  <2>1. (~(at[p] = "user" /\ killed[p])) \in BOOLEAN
    BY Zenon
  <2> QED BY <1>1, <1>3, <2>1, Released, Zenon
<1>5. at' \in [Slots -> Places] /\ (\A q \in Slots : at'[q] = at[q] \/ (q = p /\ at[q] = "user" /\ at'[q] = "exit"))
  BY <1>1, <1>2, Zenon DEF Places
<1>6. irq'[c].ie \/ at'[p] = "exit"
  BY <1>1, <1>2, <1>4, Zenon
<1>7. Typed'
  BY <1>1, <1>2, <1>4, <1>5, Zenon DEF Typed, Modes
<1>8. Holder' /\ Running'
  BY <1>1, <1>3, <1>4, ResumeFrame, Zenon
<1>9. Flags'
  <2>1. \A d \in CPUs : mode[d] = "run" => proc[d] \in Slots /\ proc[d] # p
    BY <1>3, OnSlots, Zenon DEF OnStack
  <2>2. \A d \in CPUs : mode[d] = "run" => at'[proc[d]] = at[proc[d]]
    BY <1>5, <2>1, Zenon
  <2> QED BY <1>1, <1>2, <1>3, <1>4, <1>6, <2>2 DEF Flags, Locked
<1>10. Kept'
  BY <1>1, <1>2, <1>3, <1>4, <1>5 DEF Kept
<1>0. state[p] = "RUNNING"
  BY <1>2, <1>3, Zenon DEF Running
<1>11. Owned' /\ Family'
  BY <1>1, <1>2, TableFrame, Zenon
<1>14. Waiting'
  <2>1. \A q \in Slots : state'[q] = "SLEEPING" =>
          /\ state[q] = "SLEEPING" /\ how'[q] = how[q]
          /\ chan'[q] = chan[q] /\ killed'[q] = killed[q]
    BY <1>0, <1>1, <1>2, Zenon
  <2>2. \A q \in Slots : state'[q] = "ZOMBIE" => state[q] = "ZOMBIE"
    BY <1>1, Zenon
  <2> QED BY <1>1, <1>2, <2>1, <2>2, WaitingFrame, Zenon
<1>12. Filled'
  <2>1. \A q \in Slots : at'[q] = at[q] \/ (at[q] \notin Filling /\ at'[q] \notin Filling)
    BY <1>5, Zenon DEF Filling
  <2> QED BY <1>1, <1>2, <2>1, FilledFrame, Zenon
<1>13. Panics'
  BY <1>1, <1>2, <1>3, <1>4, <1>5, Basics, Zenon DEF Panics
<1> QED BY <1>7, <1>8, <1>9, <1>10, <1>11, <1>12, <1>13, <1>14, Zenon DEF IInv

\* The return from sleep().
LEMMA sleepRetStep ==
    ASSUME IInv, NEW c \in CPUs, sleepRet(c)
    PROVE  IInv'
<1>1. PICK p \in Slots, a \in {"sleep", "sysret"} :
        /\ Resumes(c, p, "sleep") /\ release(c, Restored(c, p), FALSE)
        /\ intena' = [intena EXCEPT ![p] = FALSE] /\ chan' = [chan EXCEPT ![p] = NoProc]
        /\ how' = [how EXCEPT ![p] = "none"] /\ mode' = [mode EXCEPT ![c] = "run"]
        /\ at' = [at EXCEPT ![p] = a]
        /\ state' = state /\ proc' = proc /\ scan' = scan /\ np' = np
        /\ pid' = pid /\ parent' = parent /\ killed' = killed /\ kstack' = kstack
        /\ nextpid' = nextpid
  BY Zenon DEF sleepRet, cpuVars, Forget, Goto
<1>2. /\ mode \in [CPUs -> Modes] /\ intena \in [Slots -> BOOLEAN] /\ at \in [Slots -> Places]
      /\ how \in [Slots -> {"none", "forkret", "yield", "sleep", "wait"}]
      /\ chan \in [Slots -> Slots \cup {NoProc, Event}]
      /\ Holder /\ Running /\ Flags /\ Kept /\ Owned /\ Filled /\ Family /\ Waiting /\ Panics /\ Typed
  BY Zenon DEF IInv, Typed
<1>3. /\ mode[c] = "resume" /\ mode[c] \in Locked /\ p = proc[c] /\ \A d \in CPUs : proc[d] = p => d = c
      /\ Restored(c, p) \in Irqs /\ Restored(c, p).ncli = 1 /\ ~Restored(c, p).ie
      /\ Restored(c, p).intena /\ at[p] = "sleep"
  BY <1>1, Resumed
<1>4. /\ lock' = None /\ panicked' = panicked /\ irq' \in [CPUs -> Irqs] /\ irq'[c].ncli = 0
      /\ irq'[c].ie /\ \A d \in CPUs : d # c => irq'[d] = irq[d]
  BY <1>1, <1>3, Released, Zenon
<1>5. Typed'
  BY <1>1, <1>2, <1>4, Zenon DEF Typed, Modes, Places
<1>6. Holder' /\ Running'
  BY <1>1, <1>3, <1>4, ResumeFrame, Zenon
<1>7. Flags'
  <2>1. \A d \in CPUs : mode[d] = "run" => proc[d] \in Slots /\ proc[d] # p
    BY <1>3, OnSlots, Zenon DEF OnStack
  <2>2. \A d \in CPUs : mode[d] = "run" => at'[proc[d]] = at[proc[d]]
    BY <1>1, <1>2, <2>1, Zenon
  <2> QED BY <1>1, <1>2, <1>3, <1>4, <2>2 DEF Flags, Locked
<1>8. Kept'
  BY <1>1, <1>2, <1>3, <1>4 DEF Kept
<1>9. state[p] = "RUNNING"
  BY <1>2, <1>3, Zenon DEF Running, Stopped
<1>10. Owned' /\ Family'
  BY <1>1, <1>2, TableFrame, Zenon
<1>13. Waiting'
  <2>1. \A q \in Slots : state'[q] = "SLEEPING" =>
          /\ state[q] = "SLEEPING" /\ how'[q] = how[q]
          /\ chan'[q] = chan[q] /\ killed'[q] = killed[q]
    BY <1>1, <1>2, <1>9, Zenon
  <2>2. \A q \in Slots : state'[q] = "ZOMBIE" => state[q] = "ZOMBIE"
    BY <1>1, Zenon
  <2> QED BY <1>1, <1>2, <2>1, <2>2, WaitingFrame, Zenon
<1>11. Filled'
  <2>1. \A q \in Slots : at'[q] = at[q] \/ (at[q] \notin Filling /\ at'[q] \notin Filling)
    BY <1>1, <1>2, <1>3, Zenon DEF Filling
  <2> QED BY <1>1, <1>2, <2>1, FilledFrame, Zenon
<1>12. Panics'
  BY <1>1, <1>2, <1>3, <1>4, Basics, Zenon DEF Panics
<1> QED BY <1>5, <1>6, <1>7, <1>8, <1>10, <1>11, <1>12, <1>13, Zenon DEF IInv

\* What is known of a process p that runs on c at place a.
OnCpu(c, p, a) ==
    /\ mode[c] = "run" /\ p = proc[c] /\ at[p] = a /\ ~panicked
    /\ state[p] = "RUNNING" /\ how[p] = "none"
    /\ irq[c] \in Irqs /\ irq[c].ncli = 0 /\ (a # "exit" => irq[c].ie)
    /\ \A d \in CPUs : proc[d] = p => d = c

\* The invariant gives all of that.
LEMMA Ran ==
    ASSUME IInv, NEW c \in CPUs, NEW p \in Slots, NEW a, Runs(c, p, a)
    PROVE  OnCpu(c, p, a)
<1>1. mode[c] = "run" /\ p = proc[c] /\ at[p] = a /\ ~panicked
  BY Zenon DEF Runs
<1>2. irq \in [CPUs -> Irqs] /\ Flags /\ Kept /\ Running
  BY Zenon DEF IInv, Typed
<1>3. irq[c].ncli = 0 /\ (a # "exit" => irq[c].ie) /\ irq[c] \in Irqs /\ how[p] = "none"
  BY <1>1, <1>2 DEF Flags, Kept
<1>4. state[p] = "RUNNING" /\ \A d \in CPUs : proc[d] = p => d = c
  BY <1>1, <1>2, Basics, Zenon DEF Running, Stopped
<1> QED BY <1>1, <1>3, <1>4, Zenon DEF OnCpu

\* A trap or a system call only moves the process, and may end it.
Traps(c, p, b) ==
    /\ at' = [at EXCEPT ![p] = b]
    /\ irq' = irq \/ (b = "exit" /\ irq' = [irq EXCEPT ![c] = Gated(irq[c])])
    /\ killed' = killed \/ killed' = [killed EXCEPT ![p] = TRUE]
    /\ UNCHANGED <<state, pid, parent, chan, kstack, nextpid, lock, mode, proc, scan,
                   intena, how, np, panicked>>

\* Such a step keeps the invariant.
LEMMA TrapStep ==
    ASSUME IInv, NEW c \in CPUs, NEW p \in Slots,
           NEW a \in {"user", "sysret"}, NEW b \in {"user", "fork", "wait", "sleep", "kill", "exit"},
           Runs(c, p, a), Traps(c, p, b)
    PROVE  IInv'
<1>1. /\ state' = state /\ pid' = pid /\ parent' = parent /\ chan' = chan /\ kstack' = kstack
      /\ nextpid' = nextpid /\ lock' = lock /\ mode' = mode /\ proc' = proc /\ scan' = scan
      /\ intena' = intena /\ how' = how /\ np' = np /\ panicked' = panicked
  BY Zenon DEF Traps
<1>2. /\ irq \in [CPUs -> Irqs] /\ at \in [Slots -> Places] /\ killed \in [Slots -> BOOLEAN]
      /\ Holder /\ Running /\ Flags /\ Kept /\ Owned /\ Filled /\ Family /\ Waiting /\ Panics /\ Typed
  BY Zenon DEF IInv, Typed
<1>3. /\ mode[c] = "run" /\ p = proc[c] /\ at[p] = a /\ ~panicked /\ state[p] = "RUNNING"
      /\ how[p] = "none" /\ irq[c] \in Irqs /\ irq[c].ncli = 0 /\ irq[c].ie
      /\ \A d \in CPUs : proc[d] = p => d = c
  <2>1. OnCpu(c, p, a)
    BY Ran, Zenon
  <2> QED BY <2>1, Zenon DEF OnCpu
<1>4. Gated(irq[c]) \in Irqs /\ Gated(irq[c]).ncli = irq[c].ncli
  BY <1>3, Gate, Zenon
<1>5. /\ irq' \in [CPUs -> Irqs] /\ irq'[c].ncli = 0 /\ (irq'[c].ie \/ b = "exit")
      /\ \A d \in CPUs : d # c => irq'[d] = irq[d]
  BY <1>2, <1>3, <1>4, Zenon DEF Traps
<1>6. killed' \in [Slots -> BOOLEAN] /\ \A q \in Slots : q # p => killed'[q] = killed[q]
  BY <1>2, Zenon DEF Traps
<1>7. at' \in [Slots -> Places] /\ at'[p] = b /\ \A q \in Slots : q # p => at'[q] = at[q]
  BY <1>2, Zenon DEF Places, Traps
<1>8. Typed'
  BY <1>1, <1>2, <1>5, <1>6, <1>7, Zenon DEF Typed
<1>9. Holder' /\ Running'
  <2>1. Holder'
    BY <1>1, <1>2, Zenon DEF Holder
  <2> QED BY <1>1, <1>2, <2>1, RunningFrame, Zenon
<1>10. Flags'
  <2>1. \A d \in CPUs : mode[d] = "run" => proc[d] \in Slots
    BY OnSlots, Zenon DEF OnStack
  <2> QED BY <1>1, <1>2, <1>3, <1>5, <1>7, <2>1 DEF Flags, Locked
<1>11. Kept'
  <2>1. \A d \in CPUs : mode[d] = "swtch" => d # c
    BY <1>3, Zenon
  <2> QED BY <1>1, <1>2, <1>3, <1>5, <1>7, <2>1 DEF Kept
<1>12. Owned' /\ Family'
  BY <1>1, <1>2, TableFrame, Zenon
<1>13. Filled'
  <2>1. \A q \in Slots : at'[q] = at[q] \/ (at[q] \notin Filling /\ at'[q] \notin Filling)
    BY <1>3, <1>7, Zenon DEF Filling
  <2> QED BY <1>1, <1>2, <2>1, FilledFrame, Zenon
<1>14. Waiting'
  <2>1. \A q \in Slots : state'[q] = "SLEEPING" =>
          /\ state[q] = "SLEEPING" /\ how'[q] = how[q]
          /\ chan'[q] = chan[q] /\ killed'[q] = killed[q]
    BY <1>1, <1>3, <1>6, Zenon
  <2>2. \A q \in Slots : state'[q] = "ZOMBIE" => state[q] = "ZOMBIE"
    BY <1>1, Zenon
  <2> QED BY <1>1, <1>2, <2>1, <2>2, WaitingFrame, Zenon
<1>15. Panics'
  BY <1>1, <1>3 DEF Panics
<1> QED BY <1>8, <1>9, <1>10, <1>11, <1>12, <1>13, <1>14, <1>15, Zenon DEF IInv

\* The entries to the kernel and the returns to user code.
LEMMA trapSteps ==
    ASSUME IInv, NEW c \in CPUs, Syscall(c) \/ SysRet(c) \/ Fault(c) \/ TimerExit(c)
    PROVE  IInv'
<1> DEFINE Fixed == UNCHANGED <<state, pid, parent, chan, kstack, nextpid, lock, mode, proc, scan,
                                intena, how, np, panicked>>
<1> DEFINE To == {"user", "fork", "wait", "sleep", "kill", "exit"}
<1>1. CASE Syscall(c)
  <2>1. PICK p \in Slots :
          /\ Runs(c, p, "user")
          /\ at' = [at EXCEPT ![p] = "exit"] \/ \E b \in Calls(p) \ {"fault"} : at' = [at EXCEPT ![p] = b]
          /\ irq' = irq /\ killed' = killed /\ Fixed
    BY <1>1, Zenon DEF Syscall, Goto, tableVars, cpuVars, irqVars
  <2>2. "exit" \in To /\ (\A b \in Calls(p) \ {"fault"} : b \in To) /\ "user" \in {"user", "sysret"}
    BY ProcAssumption, Zenon
  <2>3. PICK b \in To : at' = [at EXCEPT ![p] = b]
    BY <2>1, <2>2, Zenon
  <2>4. Traps(c, p, b)
    BY <2>1, <2>3, Zenon DEF Traps
  <2> QED BY <2>1, <2>2, <2>3, <2>4, TrapStep, Zenon
<1>2. CASE SysRet(c)
  <2>1. PICK p \in Slots, b \in {"exit", "user"} :
          /\ Runs(c, p, "sysret") /\ at' = [at EXCEPT ![p] = b]
          /\ irq' = irq /\ killed' = killed /\ Fixed
    BY <1>2, Zenon DEF SysRet, Goto, tableVars, cpuVars, irqVars
  <2>2. b \in To /\ "sysret" \in {"user", "sysret"}
    BY <2>1, Zenon
  <2>3. Traps(c, p, b)
    BY <2>1, Zenon DEF Traps
  <2> QED BY <2>1, <2>2, <2>3, TrapStep, Zenon
<1>3. CASE Fault(c) \/ TimerExit(c)
  <2>1. PICK p \in Slots :
          /\ Runs(c, p, "user") /\ at' = [at EXCEPT ![p] = "exit"]
          /\ irq' = [irq EXCEPT ![c] = Gated(irq[c])]
          /\ killed' = killed \/ killed' = [killed EXCEPT ![p] = TRUE]
          /\ Fixed
    BY <1>3, Zenon DEF Fault, TimerExit, Goto, tableVars, cpuVars
  <2>2. "exit" \in To /\ "user" \in {"user", "sysret"}
    BY Zenon
  <2>3. Traps(c, p, "exit")
    BY <2>1, Zenon DEF Traps
  <2> QED BY <2>1, <2>2, <2>3, TrapStep, Zenon
<1> QED BY <1>1, <1>2, <1>3, Zenon

\* exit() by initproc panics, and that is the panic the invariant allows.
LEMMA InitExitStep ==
    ASSUME IInv, NEW c \in CPUs, InitExit(c)
    PROVE  IInv'
<1>1. /\ Runs(c, initproc, "exit") /\ panicked' = TRUE
      /\ state' = state /\ pid' = pid /\ parent' = parent /\ chan' = chan /\ kstack' = kstack
      /\ nextpid' = nextpid /\ lock' = lock /\ mode' = mode /\ proc' = proc /\ scan' = scan
      /\ intena' = intena /\ how' = how /\ np' = np /\ killed' = killed /\ at' = at /\ irq' = irq
  BY Zenon DEF InitExit, tableVars, cpuVars, irqVars
<1>2. Holder /\ Running /\ Flags /\ Kept /\ Owned /\ Filled /\ Family /\ Waiting /\ Typed
  BY Zenon DEF IInv
<1>3. Typed' /\ Holder' /\ Running'
  <2>1. Typed'
    BY <1>1, <1>2, Zenon DEF Typed
  <2>2. Holder'
    BY <1>1, <1>2, Zenon DEF Holder
  <2> QED BY <1>1, <1>2, <2>1, <2>2, RunningFrame, Zenon
<1>4. Flags' /\ Kept' /\ Owned' /\ Filled'
  BY <1>1, <1>2 DEF Flags, Kept, Owned, Filled
<1>5. Family' /\ Waiting'
  BY <1>1, <1>2, Zenon DEF Family, Waiting
<1>6. Panics'
  BY <1>1, Zenon DEF Panics, Runs
<1> QED BY <1>3, <1>4, <1>5, <1>6, Zenon DEF IInv

\* A step under ptable.lock that makes sleepers RUNNABLE, kills, or returns from
\* a call without doing anything.
Wakes ==
    /\ lock = None /\ ~panicked
    /\ state' \in [Slots -> States] /\ killed' \in [Slots -> BOOLEAN] /\ at' \in [Slots -> Places]
    /\ \A q \in Slots : state'[q] = state[q] \/ (state[q] = "SLEEPING" /\ state'[q] = "RUNNABLE")
    /\ \A q \in Slots : state'[q] = "SLEEPING" => killed'[q] = killed[q]
    /\ \A q \in Slots : at'[q] = at[q] \/ (at[q] \in {"kill", "fork"} /\ at'[q] = "sysret")
    /\ UNCHANGED <<pid, parent, chan, kstack, nextpid, lock, mode, proc, scan, irq,
                   intena, how, np, panicked>>

\* Such a step keeps the invariant: no sleeper is running and none is a zombie.
LEMMA WokenStep ==
    ASSUME IInv, Wakes
    PROVE  IInv'
<1>1. /\ pid' = pid /\ parent' = parent /\ chan' = chan /\ kstack' = kstack
      /\ nextpid' = nextpid /\ lock' = lock /\ mode' = mode /\ proc' = proc /\ scan' = scan
      /\ irq' = irq /\ intena' = intena /\ how' = how /\ np' = np /\ panicked' = panicked
  BY Zenon DEF Wakes
<1>2. /\ Holder /\ Running /\ Flags /\ Kept /\ Owned /\ Filled /\ Family /\ Waiting /\ Panics /\ Typed
  BY Zenon DEF IInv
<1>3. Typed'
  BY <1>1, <1>2, Zenon DEF Typed, Wakes
<1>4. Holder'
  BY <1>1, <1>2, Zenon DEF Holder
<1>5. \A d \in CPUs : mode[d] \in {"run", "resume"} => proc[d] \in Slots
  BY OnSlots, Zenon DEF OnStack
<1>6. /\ \A q \in Slots : state'[q] = "RUNNING" <=> state[q] = "RUNNING"
      /\ \A q \in Slots : state[q] \in Stopped => state'[q] \in Stopped
      /\ \A q \in Slots : state'[q] = "ZOMBIE" <=> state[q] = "ZOMBIE"
      /\ \A q \in Slots : state'[q] = "EMBRYO" <=> state[q] = "EMBRYO"
      /\ \A q \in Slots : state'[q] = "UNUSED" <=> state[q] = "UNUSED"
  BY Zenon DEF Wakes, Stopped
<1>7. Running'
  BY <1>1, <1>2, <1>6, RunningFrame, Zenon
<1>8. Flags'
  <2>1. \A d \in CPUs : mode[d] = "run" /\ at[proc[d]] = "exit" => at'[proc[d]] = "exit"
    BY <1>5, Zenon DEF Wakes
  <2> QED BY <1>1, <1>2, <2>1, FlagsFrame, Zenon
<1>9. Kept'
  <2>1. \A q \in Slots : how[q] \in {"sleep", "wait"} => at'[q] = at[q]
    BY <1>2, Zenon DEF Kept, Wakes
  <2> QED BY <1>1, <1>2, <1>6, <2>1, KeptFrame, Zenon
<1>10. Owned'
  BY <1>1, <1>2, <1>6, Zenon DEF Owned
<1>11. Filled'
  <2>1. \A q \in Slots : np[q] # NoProc => np[q] \in Slots /\ at'[q] = at[q]
    BY <1>2, Zenon DEF Filled, Filling, Typed, Wakes
  <2>2. \A q \in Slots : at'[q] \in Filling <=> at[q] \in Filling
    BY Zenon DEF Filling, Wakes
  <2>3. \A q \in Slots : state[q] \in {"RUNNING", "RUNNABLE"} => state'[q] = state[q]
    BY Zenon DEF Wakes
  <2> QED BY <1>1, <1>2, <1>6, <2>1, <2>2, <2>3 DEF Filled
<1>12. Family'
  BY <1>1, <1>2, Basics, Zenon DEF Family, Wakes
<1>13. Waiting'
  <2>1. \A q \in Slots : state'[q] = "SLEEPING" =>
          /\ state[q] = "SLEEPING" /\ how'[q] = how[q]
          /\ chan'[q] = chan[q] /\ killed'[q] = killed[q]
    BY <1>1, Zenon DEF Wakes
  <2> QED BY <1>1, <1>2, <1>6, <2>1, WaitingFrame, Zenon
<1>14. Panics'
  BY Zenon DEF Panics, Wakes
<1> QED BY <1>3, <1>4, <1>7, <1>8, <1>9, <1>10, <1>11, <1>12, <1>13, <1>14, Zenon DEF IInv

\* wakeup().
LEMMA wakeupStep ==
    ASSUME IInv, NEW c \in CPUs, wakeup(c)
    PROVE  IInv'
<1>1. /\ ~panicked /\ lock = None
      /\ state' = [q \in Slots |-> IF Woken(q, {Event}) THEN "RUNNABLE" ELSE state[q]]
      /\ at' = at /\ killed' = killed
      /\ UNCHANGED <<pid, parent, chan, kstack, nextpid, lock, mode, proc, scan, irq, intena, how, np, panicked>>
  BY Zenon DEF wakeup, tableVars, cpuVars, irqVars
<1>2. state \in [Slots -> States] /\ at \in [Slots -> Places] /\ killed \in [Slots -> BOOLEAN]
  BY Zenon DEF IInv, Typed
<1>3. /\ state' \in [Slots -> States]
      /\ \A q \in Slots : state'[q] = state[q] \/ (state[q] = "SLEEPING" /\ state'[q] = "RUNNABLE")
  BY <1>1, <1>2, Zenon DEF Woken, In, States
<1>4. Wakes
  BY <1>1, <1>2, <1>3, Zenon DEF Wakes
<1> QED BY <1>4, WokenStep, Zenon

\* kill().
LEMMA killStep ==
    ASSUME IInv, NEW c \in CPUs, NEW n \in KillPids, kill(c, n)
    PROVE  IInv'
<1>1. PICK p \in Slots :
        /\ Runs(c, p, "kill") /\ lock = None /\ at' = [at EXCEPT ![p] = "sysret"]
        /\ \/ UNCHANGED <<state, killed>>
           \/ \E q \in Slots :
                /\ killed' = [killed EXCEPT ![q] = TRUE]
                /\ state' = [state EXCEPT ![q] = IF @ = "SLEEPING" THEN "RUNNABLE" ELSE @]
        /\ UNCHANGED <<pid, parent, chan, kstack, nextpid, lock, mode, proc, scan, irq, intena, how, np, panicked>>
  BY Zenon DEF kill, Goto, cpuVars, irqVars, First
<1>2. state \in [Slots -> States] /\ at \in [Slots -> Places] /\ killed \in [Slots -> BOOLEAN]
  BY Zenon DEF IInv, Typed
<1>3. at[p] = "kill" /\ ~panicked
  <2>1. OnCpu(c, p, "kill")
    BY <1>1, Ran, Zenon
  <2> QED BY <2>1, Zenon DEF OnCpu
<1>4. at' \in [Slots -> Places] /\ \A q \in Slots : at'[q] = at[q] \/ (at[q] \in {"kill", "fork"} /\ at'[q] = "sysret")
  BY <1>1, <1>2, <1>3, Zenon DEF Places
<1>5. /\ state' \in [Slots -> States] /\ killed' \in [Slots -> BOOLEAN]
      /\ \A q \in Slots : state'[q] = state[q] \/ (state[q] = "SLEEPING" /\ state'[q] = "RUNNABLE")
      /\ \A q \in Slots : state'[q] = "SLEEPING" => killed'[q] = killed[q]
  BY <1>1, <1>2, Zenon DEF States
<1>6. Wakes
  BY <1>1, <1>3, <1>4, <1>5, Zenon DEF Wakes
<1> QED BY <1>6, WokenStep, Zenon
-----------------------------------------------------------------------------

\* A process with ptable.lock sets its state to s, for the reason h, and is about
\* to call sched().
Leaves(c, p, s, h) ==
    /\ p = proc[c] /\ mode[c] \in {"run", "resume"} /\ (~panicked \/ mode[c] = "resume")
    /\ lock \in {None, c} /\ lock' = c /\ SwitchOut(c, p, s, h)
    /\ irq' \in [CPUs -> Irqs] /\ irq'[c].ncli = 1 /\ ~irq'[c].ie
    /\ \A d \in CPUs : d # c => irq'[d] = irq[d]
    /\ intena' \in [Slots -> BOOLEAN] /\ (\A q \in Slots : q # p => intena'[q] = intena[q])
    /\ chan' \in [Slots -> Slots \cup {NoProc, Event}] /\ (\A q \in Slots : q # p => chan'[q] = chan[q])
    /\ \/ s = "RUNNABLE" /\ h = "yield"
       \/ s = "SLEEPING" /\ h \in {"sleep", "wait"} /\ at[p] = h /\ irq'[c].intena
    /\ h = "wait" =>
          /\ chan'[p] = p /\ ~killed[p] /\ \E q \in Slots : parent[q] = p
          /\ \A q \in Slots : parent[q] = p => state[q] # "ZOMBIE"
    /\ UNCHANGED <<pid, parent, killed, kstack, nextpid, proc, scan, at, np, panicked>>

\* Such a step keeps the invariant.
LEMMA SwitchStep ==
    ASSUME IInv, NEW c \in CPUs, NEW p \in Slots, NEW s, NEW h, Leaves(c, p, s, h)
    PROVE  IInv'
<1>0. /\ p = proc[c] /\ mode[c] \in {"run", "resume"} /\ (~panicked \/ mode[c] = "resume")
      /\ lock \in {None, c} /\ lock' = c
      /\ irq' \in [CPUs -> Irqs] /\ irq'[c].ncli = 1 /\ ~irq'[c].ie
      /\ (\A d \in CPUs : d # c => irq'[d] = irq[d])
      /\ intena' \in [Slots -> BOOLEAN] /\ (\A q \in Slots : q # p => intena'[q] = intena[q])
      /\ chan' \in [Slots -> Slots \cup {NoProc, Event}] /\ (\A q \in Slots : q # p => chan'[q] = chan[q])
      /\ \/ s = "RUNNABLE" /\ h = "yield"
         \/ s = "SLEEPING" /\ h \in {"sleep", "wait"} /\ at[p] = h /\ irq'[c].intena
  BY Zenon DEF Leaves
<1>1. /\ pid' = pid /\ parent' = parent /\ killed' = killed /\ kstack' = kstack
      /\ nextpid' = nextpid /\ proc' = proc /\ scan' = scan
      /\ at' = at /\ np' = np /\ panicked' = panicked
  BY Zenon DEF Leaves
<1>2. state' = [state EXCEPT ![p] = s] /\ how' = [how EXCEPT ![p] = h] /\ mode' = [mode EXCEPT ![c] = "swtch"]
  BY Zenon DEF Leaves, SwitchOut
<1>3. /\ state \in [Slots -> States] /\ mode \in [CPUs -> Modes]
      /\ how \in [Slots -> {"none", "forkret", "yield", "sleep", "wait"}]
      /\ Holder /\ Running /\ Flags /\ Kept /\ Owned /\ Filled /\ Family /\ Waiting /\ Panics /\ Typed
  BY Zenon DEF IInv, Typed
<1>4. state[p] = "RUNNING" /\ (\A d \in CPUs : proc[d] = p => d = c) /\ p # NoProc
  BY <1>0, <1>3, Basics DEF Running, Stopped
<1>5. Typed'
  <2>1. /\ state' \in [Slots -> States] /\ mode' \in [CPUs -> Modes]
        /\ how' \in [Slots -> {"none", "forkret", "yield", "sleep", "wait"}]
    BY <1>0, <1>2, <1>3, Zenon DEF States, Modes
  <2> QED BY <1>0, <1>1, <1>3, <2>1, Zenon DEF Typed
<1>6. Holder'
  BY <1>0, <1>2, <1>3, Basics DEF Holder, Locked
<1>7. Running'
  BY <1>0, <1>1, <1>2, <1>3, <1>4, Basics DEF Running, Stopped, OnStack
<1>8. Flags'
  BY <1>0, <1>1, <1>2, <1>3 DEF Flags, Locked
<1>9. Kept'
  BY <1>0, <1>1, <1>2, <1>3, <1>4 DEF Kept
<1>10. Owned'
  BY <1>0, <1>1, <1>2, <1>3, <1>4, Zenon DEF Owned
<1>11. Filled'
  BY <1>0, <1>1, <1>2, <1>3, <1>4 DEF Filled, Filling
<1>12. Family'
  BY <1>0, <1>1, <1>2, <1>3, <1>4, Basics, Zenon DEF Family
<1>13. Waiting'
  <2>1. h = "wait" => /\ chan'[p] = p /\ ~killed[p] /\ \E q \in Slots : parent[q] = p
                      /\ \A q \in Slots : parent[q] = p => state[q] # "ZOMBIE"
    BY Zenon DEF Leaves
  <2>2. \A q \in Slots : state'[q] = "ZOMBIE" => state[q] = "ZOMBIE"
    BY <1>0, <1>2, <1>3, Zenon
  <2> QED BY <1>0, <1>1, <1>2, <1>3, <1>4, <2>1, <2>2 DEF Waiting
<1>14. Panics'
  BY <1>0, <1>1, <1>2, <1>3, Zenon DEF Panics
<1> QED BY <1>5, <1>6, <1>7, <1>8, <1>9, <1>10, <1>11, <1>12, <1>13, <1>14, Zenon DEF IInv

\* yield().
LEMMA yieldStep ==
    ASSUME IInv, NEW c \in CPUs, yield(c)
    PROVE  IInv'
<1>1. PICK p \in Slots :
        /\ Runs(c, p, at[p]) /\ lock = None /\ lock' = c
        /\ irq' = [irq EXCEPT ![c] = pushcli(Gated(irq[c]))] /\ SwitchOut(c, p, "RUNNABLE", "yield")
        /\ chan' = chan /\ intena' = intena
        /\ UNCHANGED <<pid, parent, killed, kstack, nextpid, proc, scan, at, np, panicked>>
  BY Zenon DEF yield, acquireOn, tableVars, cpuVars
<1>2. irq \in [CPUs -> Irqs] /\ chan \in [Slots -> Slots \cup {NoProc, Event}] /\ intena \in [Slots -> BOOLEAN]
  BY Zenon DEF IInv, Typed
<1>3. mode[c] = "run" /\ p = proc[c] /\ ~panicked /\ irq[c] \in Irqs /\ irq[c].ncli = 0
  <2>1. OnCpu(c, p, at[p])
    BY <1>1, Ran, Zenon
  <2> QED BY <2>1, Zenon DEF OnCpu
<1>4. Gated(irq[c]) \in Irqs /\ Gated(irq[c]).ncli = 0
  BY <1>3, Gate, Zenon
<1>5. /\ pushcli(Gated(irq[c])) \in Irqs /\ pushcli(Gated(irq[c])).ncli = 1
      /\ ~pushcli(Gated(irq[c])).ie
  BY <1>4, Push, Zenon
<1>6. /\ irq' \in [CPUs -> Irqs] /\ irq'[c].ncli = 1 /\ ~irq'[c].ie
      /\ \A d \in CPUs : d # c => irq'[d] = irq[d]
  BY <1>1, <1>2, <1>5, Zenon
<1>7. Leaves(c, p, "RUNNABLE", "yield")
  BY <1>1, <1>2, <1>3, <1>6, Zenon DEF Leaves
<1> QED BY <1>7, SwitchStep, Zenon

\* sleep(), with its exchange of locks.
LEMMA sleepStep ==
    ASSUME IInv, NEW c \in CPUs, sleep(c)
    PROVE  IInv'
<1>1. PICK p \in Slots :
        /\ Runs(c, p, "sleep") /\ lock = None /\ lock' = c
        /\ irq' = [irq EXCEPT ![c] = popcli(pushcli(pushcli(irq[c])))]
        /\ chan' = [chan EXCEPT ![p] = Event] /\ intena' = intena
        /\ SwitchOut(c, p, "SLEEPING", "sleep")
        /\ UNCHANGED <<pid, parent, killed, kstack, nextpid, proc, scan, at, np, panicked>>
  BY Zenon DEF sleep, cpuVars
<1>2. irq \in [CPUs -> Irqs] /\ chan \in [Slots -> Slots \cup {NoProc, Event}] /\ intena \in [Slots -> BOOLEAN]
  BY Zenon DEF IInv, Typed
<1>3. mode[c] = "run" /\ p = proc[c] /\ at[p] = "sleep" /\ ~panicked /\ irq[c] \in Irqs /\ irq[c].ncli = 0 /\ irq[c].ie
  <2>1. OnCpu(c, p, "sleep")
    BY <1>1, Ran, Zenon
  <2> QED BY <2>1, Zenon DEF OnCpu
<1>4. \A r \in Irqs : r.ncli = 0 /\ r.ie =>
        LET s == popcli(pushcli(pushcli(r))) IN s \in Irqs /\ s.ncli = 1 /\ ~s.ie /\ s.intena
  <2>1. \A r \in Irqs : r.ncli = 1 =>
          pushcli(r) \in Irqs /\ pushcli(r).ncli = 2 /\ pushcli(r).intena = r.intena
    BY DEF Irqs, pushcli
  <2>2. ASSUME NEW r \in Irqs, r.ncli = 2
        PROVE  popcli(r) \in Irqs /\ popcli(r).ncli = 1 /\ popcli(r).ie = FALSE /\ popcli(r).intena = r.intena
    <3>1. r.intena \in BOOLEAN /\ ~(r.ncli = 1) /\ r.ncli > 1 /\ r.ncli - 1 = 1
      BY <2>2 DEF Irqs
    <3>2. (r.ncli = 1 /\ r.intena) = FALSE /\ (r.ncli > 1 /\ r.intena) = r.intena
      BY <3>1, Zenon
    <3>3. popcli(r) = [ie |-> FALSE, ncli |-> 1, intena |-> r.intena]
      BY <3>1, <3>2, Zenon DEF popcli
    <3> QED BY <3>1, <3>3 DEF Irqs
  <2>3. TAKE r \in Irqs
  <2>4. HAVE r.ncli = 0 /\ r.ie
  <2>5. pushcli(r) \in Irqs /\ pushcli(r).ncli = 1 /\ pushcli(r).intena = r.ie
    BY <2>4, Push, Zenon
  <2>6. /\ pushcli(pushcli(r)) \in Irqs /\ pushcli(pushcli(r)).ncli = 2
        /\ pushcli(pushcli(r)).intena = r.ie
    BY <2>1, <2>5, Zenon
  <2> QED BY <2>2, <2>4, <2>6, Zenon
<1>5. /\ irq' \in [CPUs -> Irqs] /\ irq'[c].ncli = 1 /\ ~irq'[c].ie /\ irq'[c].intena
      /\ \A d \in CPUs : d # c => irq'[d] = irq[d]
  BY <1>1, <1>2, <1>3, <1>4, Zenon
<1>6. /\ chan' \in [Slots -> Slots \cup {NoProc, Event}]
      /\ \A q \in Slots : q # p => chan'[q] = chan[q]
  BY <1>1, <1>2, Zenon
<1>7. Leaves(c, p, "SLEEPING", "sleep")
  BY <1>1, <1>2, <1>3, <1>5, <1>6, Zenon DEF Leaves
<1> QED BY <1>7, SwitchStep, Zenon

\* A process inside wait() with ptable.lock, the interrupt state being r.
WaitsHolding(c, p, r) ==
    /\ r \in Irqs /\ r.ncli = 1 /\ ~r.ie /\ r.intena
    /\ p = proc[c] /\ at[p] = "wait" /\ (\A d \in CPUs : proc[d] = p => d = c)
    /\ mode[c] \in {"run", "resume"} /\ lock \in {None, c} /\ (~panicked \/ mode[c] = "resume")
    /\ state[p] = "RUNNING"

\* wait() has the lock when it starts its loop, the first time and after sleeping.
LEMMA Waits ==
    ASSUME IInv, NEW c \in CPUs, NEW p \in Slots, NEW r,
           \/ Runs(c, p, "wait") /\ lock = None /\ r = pushcli(irq[c])
           \/ Resumes(c, p, "wait") /\ r = Restored(c, p)
    PROVE  WaitsHolding(c, p, r)
<1>1. CASE Runs(c, p, "wait") /\ lock = None /\ r = pushcli(irq[c])
  <2>1. /\ mode[c] = "run" /\ p = proc[c] /\ at[p] = "wait" /\ ~panicked /\ state[p] = "RUNNING"
        /\ irq[c] \in Irqs /\ irq[c].ncli = 0 /\ irq[c].ie /\ (\A d \in CPUs : proc[d] = p => d = c)
    <3>1. OnCpu(c, p, "wait")
      BY <1>1, Ran, Zenon
    <3> QED BY <3>1, Zenon DEF OnCpu
  <2>2. r \in Irqs /\ r.ncli = 1 /\ ~r.ie /\ r.intena
    BY <1>1, <2>1, Push, Zenon
  <2> QED BY <1>1, <2>1, <2>2, Zenon DEF WaitsHolding
<1>2. CASE Resumes(c, p, "wait") /\ r = Restored(c, p)
  <2>1. /\ mode[c] = "resume" /\ mode[c] \in Locked /\ p = proc[c] /\ at[p] = "wait"
        /\ r \in Irqs /\ r.ncli = 1 /\ ~r.ie /\ r.intena /\ (\A d \in CPUs : proc[d] = p => d = c)
    BY <1>2, Resumed
  <2>2. lock = c /\ state[p] = "RUNNING"
    BY <2>1, Zenon DEF IInv, Holder, Running, Stopped
  <2> QED BY <2>1, <2>2, Zenon DEF WaitsHolding
<1> QED BY <1>1, <1>2, Zenon

\* What the table may look like when wait() returns: as before, or with one zombie
\* child of p gone.
Reaping(p) ==
    /\ state' \in [Slots -> States] /\ parent' \in [Slots -> Slots \cup {NoProc}]
    /\ kstack' \in [Slots -> BOOLEAN] /\ killed' \in [Slots -> BOOLEAN] /\ intena' \in [Slots -> BOOLEAN]
    /\ \A x \in Slots :
          \/ /\ state'[x] = state[x] /\ parent'[x] = parent[x] /\ kstack'[x] = kstack[x]
             /\ killed'[x] = killed[x] /\ (x # p => intena'[x] = intena[x])
          \/ /\ parent[x] = p /\ state[x] = "ZOMBIE"
             /\ state'[x] = "UNUSED" /\ parent'[x] = NoProc /\ ~kstack'[x]

\* wait() returns: only a zombie's slot is freed, and no CPU is on its stack.
LEMMA ReturnStep ==
    ASSUME IInv, NEW c \in CPUs, NEW p \in Slots, NEW r, WaitsHolding(c, p, r), WaitReturn(c, p, r),
           UNCHANGED <<nextpid, proc, scan, np, panicked>>, pid' \in [Slots -> Nat], Reaping(p)
    PROVE  IInv'
<1>1. /\ nextpid' = nextpid /\ proc' = proc /\ scan' = scan /\ np' = np /\ panicked' = panicked
      /\ chan' = [chan EXCEPT ![p] = NoProc] /\ lock' = None /\ irq' = [irq EXCEPT ![c] = popcli(r)]
      /\ mode' = [mode EXCEPT ![c] = "run"] /\ at' = [at EXCEPT ![p] = "sysret"]
      /\ how' = [how EXCEPT ![p] = "none"]
  BY Zenon DEF WaitReturn, Goto
<1>0. /\ r \in Irqs /\ r.ncli = 1 /\ r.intena /\ p = proc[c] /\ at[p] = "wait"
      /\ (\A d \in CPUs : proc[d] = p => d = c)
      /\ mode[c] \in {"run", "resume"} /\ lock \in {None, c} /\ (~panicked \/ mode[c] = "resume")
      /\ state[p] = "RUNNING"
  BY Zenon DEF WaitsHolding
<1>2. /\ state \in [Slots -> States] /\ mode \in [CPUs -> Modes] /\ irq \in [CPUs -> Irqs]
      /\ how \in [Slots -> {"none", "forkret", "yield", "sleep", "wait"}] /\ at \in [Slots -> Places]
      /\ chan \in [Slots -> Slots \cup {NoProc, Event}] /\ parent \in [Slots -> Slots \cup {NoProc}]
      /\ kstack \in [Slots -> BOOLEAN] /\ killed \in [Slots -> BOOLEAN] /\ np \in [Slots -> Slots \cup {NoProc}]
      /\ proc \in [CPUs -> Slots \cup {NoProc}]
  BY Zenon DEF IInv, Typed
<1>3. Holder /\ Running /\ Flags /\ Kept /\ Owned /\ Filled /\ Family /\ Waiting /\ Panics /\ Typed
  BY Zenon DEF IInv
<1>4. popcli(r) \in Irqs /\ popcli(r).ncli = 0 /\ popcli(r).ie
  BY <1>0, Pop, Zenon
<1>5. /\ irq' \in [CPUs -> Irqs] /\ irq'[c].ncli = 0 /\ irq'[c].ie
      /\ \A d \in CPUs : d # c => irq'[d] = irq[d]
  BY <1>1, <1>2, <1>4, Zenon
<1>6. /\ state' \in [Slots -> States] /\ parent' \in [Slots -> Slots \cup {NoProc}] /\ kstack' \in [Slots -> BOOLEAN]
      /\ killed' \in [Slots -> BOOLEAN] /\ intena' \in [Slots -> BOOLEAN]
      /\ \A x \in Slots : \/ /\ state'[x] = state[x] /\ parent'[x] = parent[x] /\ kstack'[x] = kstack[x]
                             /\ killed'[x] = killed[x] /\ (x # p => intena'[x] = intena[x])
                          \/ /\ x # p /\ parent[x] = p /\ state[x] = "ZOMBIE"
                             /\ state'[x] = "UNUSED" /\ parent'[x] = NoProc /\ ~kstack'[x]
  BY <1>0, Zenon DEF Reaping
<1>7. /\ mode' \in [CPUs -> Modes] /\ chan' \in [Slots -> Slots \cup {NoProc, Event}] /\ at' \in [Slots -> Places]
      /\ how' \in [Slots -> {"none", "forkret", "yield", "sleep", "wait"}]
  BY <1>1, <1>2, Zenon DEF Modes, Places
<1>8. \A d \in CPUs : mode[d] \in Locked => d = c
  BY <1>0, <1>3, Basics, Zenon DEF Holder
<1>9. \A d \in CPUs : mode[d] \in {"run", "resume"} => proc[d] \in Slots /\ state[proc[d]] = "RUNNING"
  BY <1>0, <1>2, <1>3, SMTT(20) DEF Running, Stopped, OnStack
<1>10. Typed'
  BY <1>1, <1>3, <1>5, <1>6, <1>7 DEF Typed
<1>11. Holder'
  BY <1>0, <1>1, <1>2, <1>3, <1>8, Basics, Zenon DEF Holder, Locked
<1>12. Running'
  BY <1>0, <1>1, <1>2, <1>3, <1>6, <1>8, <1>9 DEF Running, Stopped, OnStack, Locked
<1>13. Flags'
  BY <1>0, <1>1, <1>2, <1>3, <1>5, <1>9 DEF Flags, Locked
<1>14. Kept'
  BY <1>0, <1>1, <1>2, <1>3, <1>6, <1>8, <1>9 DEF Kept, Locked
<1>15. Owned'
  BY <1>3, <1>6, Zenon DEF Owned
<1>16. Filled'
  <2>1. \A x \in Slots : np[x] # NoProc =>
          /\ np[x] \in Slots /\ x # p /\ at'[x] = at[x] /\ state'[x] = state[x]
          /\ state'[np[x]] = "EMBRYO" /\ kstack'[np[x]] = kstack[np[x]] /\ parent'[np[x]] = parent[np[x]]
    BY <1>0, <1>1, <1>2, <1>3, <1>6 DEF Filled, Filling
  <2>2. \A x \in Slots : at'[x] \in Filling <=> at[x] \in Filling
    BY <1>0, <1>1, <1>2, Zenon DEF Filling
  <2>3. \A x \in Slots : state'[x] = "EMBRYO" => state[x] = "EMBRYO"
    BY <1>6, Zenon
  <2> QED BY <1>1, <1>3, <2>1, <2>2, <2>3 DEF Filled
<1>17. Family'
  BY <1>3, <1>6, Basics DEF Family
<1>18. Waiting'
  BY <1>0, <1>1, <1>2, <1>3, <1>6 DEF Waiting
<1>19. Panics'
  BY <1>0, <1>1, <1>2, <1>3, Basics DEF Panics
<1> QED BY <1>10, <1>11, <1>12, <1>13, <1>14, <1>15, <1>16, <1>17, <1>18, <1>19, Zenon DEF IInv

\* wait() sleeps only with a child and no zombie.
LEMMA WaitSleepStep ==
    ASSUME IInv, NEW c \in CPUs, NEW p \in Slots, NEW r, WaitsHolding(c, p, r), WaitSleep(c, p, r),
           UNCHANGED <<nextpid, proc, scan, np, panicked>>
    PROVE  IInv'
<1>1. /\ Zombies(p) = {} /\ Kids(p) # {} /\ ~killed[p] /\ chan' = [chan EXCEPT ![p] = p] /\ lock' = c
      /\ irq' = [irq EXCEPT ![c] = r] /\ intena' = [intena EXCEPT ![p] = FALSE]
      /\ SwitchOut(c, p, "SLEEPING", "wait")
      /\ UNCHANGED <<pid, parent, killed, kstack, nextpid, proc, scan, at, np, panicked>>
  BY Zenon DEF WaitSleep, NobodyToWaitFor, Forget
<1>2. /\ irq \in [CPUs -> Irqs] /\ chan \in [Slots -> Slots \cup {NoProc, Event}] /\ intena \in [Slots -> BOOLEAN]
  BY Zenon DEF IInv, Typed
<1>3. /\ r \in Irqs /\ r.ncli = 1 /\ ~r.ie /\ r.intena /\ p = proc[c] /\ at[p] = "wait"
      /\ mode[c] \in {"run", "resume"} /\ lock \in {None, c} /\ (~panicked \/ mode[c] = "resume")
  BY Zenon DEF WaitsHolding
<1>4. /\ irq' \in [CPUs -> Irqs] /\ irq'[c].ncli = 1 /\ ~irq'[c].ie /\ irq'[c].intena
      /\ \A d \in CPUs : d # c => irq'[d] = irq[d]
  BY <1>1, <1>2, <1>3, Zenon
<1>5. /\ intena' \in [Slots -> BOOLEAN] /\ (\A q \in Slots : q # p => intena'[q] = intena[q])
      /\ chan' \in [Slots -> Slots \cup {NoProc, Event}] /\ chan'[p] = p
      /\ (\A q \in Slots : q # p => chan'[q] = chan[q])
  BY <1>1, <1>2, Zenon
<1>6. (\E q \in Slots : parent[q] = p) /\ \A q \in Slots : parent[q] = p => state[q] # "ZOMBIE"
  BY <1>1, Zenon DEF Kids, Zombies, In
<1>7. Leaves(c, p, "SLEEPING", "wait")
  BY <1>1, <1>3, <1>4, <1>5, <1>6, Zenon DEF Leaves
<1> QED BY <1>7, SwitchStep, Zenon

\* The three outcomes of the loop of wait().
LEMMA waitStep ==
    ASSUME IInv, NEW c \in CPUs, wait(c)
    PROVE  IInv'
<1>1. PICK p \in Slots :
        /\ \/ Runs(c, p, "wait") /\ lock = None /\ WaitLoop(c, p, pushcli(irq[c]))
           \/ Resumes(c, p, "wait") /\ WaitLoop(c, p, Restored(c, p))
        /\ UNCHANGED <<nextpid, proc, scan, np, panicked>>
  BY Zenon DEF wait, cpuVars
<1>2. PICK r :
        /\ \/ Runs(c, p, "wait") /\ lock = None /\ r = pushcli(irq[c])
           \/ Resumes(c, p, "wait") /\ r = Restored(c, p)
        /\ WaitLoop(c, p, r)
  BY <1>1, Zenon
<1>3. WaitsHolding(c, p, r)
  BY <1>2, Waits, Zenon
<1>4. /\ pid \in [Slots -> Nat] /\ killed \in [Slots -> BOOLEAN] /\ intena \in [Slots -> BOOLEAN]
      /\ irq \in [CPUs -> Irqs] /\ chan \in [Slots -> Slots \cup {NoProc, Event}]
      /\ state \in [Slots -> States] /\ parent \in [Slots -> Slots \cup {NoProc}] /\ kstack \in [Slots -> BOOLEAN]
  BY Zenon DEF IInv, Typed
<1>5. CASE WaitReap(c, p, r)
  <2>1. WaitReturn(c, p, r)
    BY <1>5, Zenon DEF WaitReap
  <2>2. PICK q \in Slots :
          /\ parent[q] = p /\ state[q] = "ZOMBIE"
          /\ state' = [state EXCEPT ![q] = "UNUSED"] /\ pid' = [pid EXCEPT ![q] = 0]
          /\ parent' = [parent EXCEPT ![q] = NoProc] /\ killed' = [killed EXCEPT ![q] = FALSE]
          /\ kstack' = [kstack EXCEPT ![q] = FALSE]
          /\ intena' = [intena EXCEPT ![q] = FALSE, ![p] = FALSE]
    BY <1>5, Zenon DEF WaitReap, First, Zombies, Kids, In
  <2>4. pid' \in [Slots -> Nat] /\ Reaping(p)
    BY <1>4, <2>2, Zenon DEF Reaping, States
  <2> QED BY <1>1, <1>3, <2>1, <2>4, ReturnStep, Zenon
<1>6. CASE WaitFail(c, p, r)
  <2>1. /\ WaitReturn(c, p, r) /\ intena' = [intena EXCEPT ![p] = FALSE]
        /\ UNCHANGED <<state, parent, killed, kstack>> /\ pid' = pid /\ killed' = killed
    BY <1>6, Zenon DEF WaitFail, Forget
  <2>2. pid' \in [Slots -> Nat] /\ Reaping(p)
    BY <1>4, <2>1, Zenon DEF Reaping
  <2> QED BY <1>1, <1>3, <2>1, <2>2, ReturnStep, Zenon
<1>7. CASE WaitSleep(c, p, r)
  BY <1>1, <1>3, <1>7, WaitSleepStep, Zenon
<1> QED BY <1>2, <1>5, <1>6, <1>7, Zenon DEF WaitLoop

\* exit(): the parent, and initproc when it inherits a zombie, are woken before
\* ptable.lock is released, so that none of them sleeps on.
LEMMA exitStep ==
    ASSUME IInv, NEW c \in CPUs, exit(c)
    PROVE  IInv'
<1>1. PICK p \in Slots :
        /\ Runs(c, p, "exit") /\ p # initproc /\ lock = None /\ lock' = c
        /\ irq' = [irq EXCEPT ![c] = pushcli(irq[c])]
        /\ state' = [q \in Slots |-> IF q = p THEN "ZOMBIE"
                                     ELSE IF Woken(q, ExitWakes(p)) THEN "RUNNABLE" ELSE state[q]]
        /\ parent' = Adopt(p) /\ mode' = [mode EXCEPT ![c] = "swtch"]
        /\ pid' = pid /\ killed' = killed /\ chan' = chan /\ kstack' = kstack /\ nextpid' = nextpid
        /\ proc' = proc /\ scan' = scan /\ intena' = intena /\ at' = at /\ how' = how /\ np' = np
        /\ panicked' = panicked
  BY Zenon DEF exit, ExitLock, acquire, acquireOn, cpuVars
<1>2. /\ state \in [Slots -> States] /\ mode \in [CPUs -> Modes] /\ irq \in [CPUs -> Irqs]
      /\ parent \in [Slots -> Slots \cup {NoProc}] /\ np \in [Slots -> Slots \cup {NoProc}]
      /\ proc \in [CPUs -> Slots \cup {NoProc}]
  BY Zenon DEF IInv, Typed
<1>3. Holder /\ Running /\ Flags /\ Kept /\ Owned /\ Filled /\ Family /\ Waiting /\ Panics /\ Typed
  BY Zenon DEF IInv
<1>4. /\ mode[c] = "run" /\ p = proc[c] /\ at[p] = "exit" /\ ~panicked /\ state[p] = "RUNNING" /\ how[p] = "none"
      /\ irq[c] \in Irqs /\ irq[c].ncli = 0 /\ (\A d \in CPUs : proc[d] = p => d = c)
  <2>1. OnCpu(c, p, "exit")
    BY <1>1, Ran, Zenon
  <2> QED BY <2>1, Zenon DEF OnCpu
<1>5. pushcli(irq[c]) \in Irqs /\ pushcli(irq[c]).ncli = 1 /\ ~pushcli(irq[c]).ie
  BY <1>4, Push, Zenon
<1>6. /\ irq' \in [CPUs -> Irqs] /\ irq'[c].ncli = 1 /\ ~irq'[c].ie
      /\ \A d \in CPUs : d # c => irq'[d] = irq[d]
  BY <1>1, <1>2, <1>5, Zenon
<1>7. /\ state' \in [Slots -> States] /\ state'[p] = "ZOMBIE"
      /\ \A q \in Slots : q # p =>
            state'[q] = state[q] \/ (state[q] = "SLEEPING" /\ state'[q] = "RUNNABLE")
  BY <1>1, <1>2, Zenon DEF States, Woken, In
<1>8. /\ parent' \in [Slots -> Slots \cup {NoProc}]
      /\ \A q \in Slots : parent'[q] = (IF parent[q] = p THEN initproc ELSE parent[q])
  BY <1>1, <1>2, Basics, Zenon DEF Adopt
<1>9. /\ \A d \in CPUs : mode[d] \notin Locked
      /\ \A d \in CPUs : mode[d] = "run" => proc[d] \in Slots
  BY <1>1, <1>2, <1>3, Basics DEF Holder, Running, Stopped, OnStack
<1>10. Typed'
  <2>1. mode' \in [CPUs -> Modes] /\ lock' \in CPUs \cup {None}
    BY <1>1, <1>2, Zenon DEF Modes
  <2> QED BY <1>1, <1>3, <1>6, <1>7, <1>8, <2>1, Zenon DEF Typed
<1>11. Holder'
  BY <1>1, <1>2, <1>3, <1>9, Zenon DEF Holder, Locked
<1>12. Running'
  BY <1>1, <1>2, <1>3, <1>4, <1>7, <1>9 DEF Running, Stopped, OnStack, Locked
<1>13. Flags'
  BY <1>1, <1>2, <1>3, <1>6, <1>9, Zenon DEF Flags, Locked
<1>14. Kept'
  BY <1>1, <1>2, <1>3, <1>4, <1>6, <1>7, <1>9 DEF Kept, Locked
<1>15. Owned'
  BY <1>1, <1>3, <1>4, <1>7, <1>8, Basics DEF Owned
<1>16. Filled'
  <2>1. \A q \in Slots : np[q] # NoProc => np[q] \in Slots /\ np[q] # p /\ q # p
    BY <1>2, <1>3, <1>4 DEF Filled, Filling
  <2>2. \A q \in Slots : np[q] # NoProc => (parent[np[q]] = NoProc => parent'[np[q]] = NoProc)
    BY <1>8, <2>1, Basics, Zenon
  <2>3. \A q \in Slots : state'[q] = "EMBRYO" => state[q] = "EMBRYO"
    BY <1>7, Zenon
  <2>4. \A q \in Slots : q # p /\ state[q] \in {"RUNNING", "RUNNABLE", "EMBRYO"} => state'[q] = state[q]
    BY <1>7, Zenon
  <2>5. \A q \in Slots : np[q] # NoProc => state'[q] = state[q] /\ state'[np[q]] = state[np[q]]
    BY <1>3, <2>1, <2>4, Zenon DEF Filled
  <2> QED BY <1>1, <1>3, <2>2, <2>3, <2>5, Zenon DEF Filled
<1>17. Family'
  BY <1>1, <1>3, <1>7, <1>8, Basics, Zenon DEF Family
<1>18. Waiting'
  <2> SUFFICES ASSUME NEW w \in Slots, state'[w] = "SLEEPING", how[w] = "wait"
               PROVE  /\ chan[w] = w /\ ~killed[w]
                      /\ \E q \in Slots : parent'[q] = w
                      /\ \A q \in Slots : parent'[q] = w => state'[q] # "ZOMBIE"
    BY <1>1, Zenon DEF Waiting
  <2>1. w # p /\ state[w] = "SLEEPING" /\ chan[w] \notin ExitWakes(p)
    BY <1>1, <1>2, <1>7, Zenon DEF Woken, In
  <2>2. /\ chan[w] = w /\ ~killed[w] /\ (\E q \in Slots : parent[q] = w)
        /\ \A q \in Slots : parent[q] = w => state[q] # "ZOMBIE"
    BY <1>3, <2>1, Zenon DEF Waiting
  <2>3. parent[p] # w
    BY <2>1, <2>2, Zenon DEF ExitWakes
  <2>4. \E q \in Slots : parent'[q] = w
    BY <1>8, <2>1, <2>2, Zenon
  <2>5. ASSUME NEW q \in Slots, parent'[q] = w PROVE state'[q] # "ZOMBIE"
    <3>1. CASE parent[q] = p
      <4>1. w = initproc /\ q # p
        BY <1>3, <1>8, <2>5, <3>1, Zenon DEF Family
      <4>2. state[q] # "ZOMBIE"
        BY <2>1, <2>2, <3>1, <4>1, Zenon DEF ExitWakes, In
      <4> QED BY <1>7, <4>1, <4>2, Zenon
    <3>2. CASE parent[q] # p
      BY <1>7, <1>8, <2>2, <2>3, <2>5, <3>2, Zenon
    <3> QED BY <3>1, <3>2, Zenon
  <2> QED BY <2>2, <2>4, <2>5, Zenon
<1>19. Panics'
  BY <1>1, <1>4, Zenon DEF Panics
<1> QED BY <1>10, <1>11, <1>12, <1>13, <1>14, <1>15, <1>16, <1>17, <1>18, <1>19, Zenon DEF IInv

\* allocproc() takes the free slot u for p.
Embryo(p, u) ==
    /\ state[u] = "UNUSED" /\ state' = [state EXCEPT ![u] = "EMBRYO"]
    /\ np' = [np EXCEPT ![p] = u] /\ at' = [at EXCEPT ![p] = "kalloc"]
    /\ pid' \in [Slots -> Nat] /\ nextpid' \in Nat
    /\ UNCHANGED <<parent, killed, chan, kstack, lock, mode, proc, scan, irq, intena, how, panicked>>

\* Such a step keeps the invariant.
LEMMA EmbryoStep ==
    ASSUME IInv, NEW c \in CPUs, NEW p \in Slots, NEW u \in Slots, Runs(c, p, "fork"), Embryo(p, u)
    PROVE  IInv'
<1>1. /\ parent' = parent /\ killed' = killed /\ chan' = chan /\ kstack' = kstack /\ lock' = lock
      /\ mode' = mode /\ proc' = proc /\ scan' = scan /\ irq' = irq /\ intena' = intena /\ how' = how
      /\ panicked' = panicked
  BY Zenon DEF Embryo
<1>2. /\ Holder /\ Running /\ Flags /\ Kept /\ Owned /\ Filled /\ Family /\ Waiting /\ Panics /\ Typed
  BY Zenon DEF IInv
<1>3. OnCpu(c, p, "fork")
  BY Ran, Zenon
<1>4. /\ state' \in [Slots -> States] /\ state[u] = "UNUSED" /\ state'[u] = "EMBRYO"
      /\ \A q \in Slots : q # u => state'[q] = state[q]
  BY <1>2, Zenon DEF Embryo, Typed, States
<1>5. /\ np' \in [Slots -> Slots \cup {NoProc}] /\ np'[p] = u
      /\ \A q \in Slots : q # p => np'[q] = np[q]
  BY <1>2, Zenon DEF Embryo, Typed
<1>6. /\ at' \in [Slots -> Places] /\ at'[p] = "kalloc"
      /\ \A q \in Slots : q # p => at'[q] = at[q]
  BY <1>2, Zenon DEF Embryo, Typed, Places, Filling
<1>7. u # p /\ u # NoProc /\ state[p] = "RUNNING"
  BY <1>3, <1>4, Basics, Zenon DEF OnCpu
<1>8. /\ \A q \in Slots : state'[q] = "RUNNING" <=> state[q] = "RUNNING"
      /\ \A q \in Slots : state[q] \in Stopped => state'[q] \in Stopped
      /\ \A q \in Slots : state'[q] = "SLEEPING" => state[q] = "SLEEPING"
      /\ \A q \in Slots : state'[q] = "ZOMBIE" => state[q] = "ZOMBIE"
  BY <1>4, Zenon DEF Stopped
<1>9. Typed'
  BY <1>1, <1>2, <1>4, <1>5, <1>6, Zenon DEF Typed, Embryo
<1>10. Holder'
  BY <1>1, <1>2, Zenon DEF Holder
<1>11. Running'
  BY <1>1, <1>2, <1>8, RunningFrame, Zenon
<1>12. Flags'
  <2>1. \A d \in CPUs : mode[d] = "run" => proc[d] \in Slots
    BY <1>2 DEF Running, OnStack, Typed
  <2>2. \A d \in CPUs : mode[d] = "run" /\ at[proc[d]] = "exit" => at'[proc[d]] = "exit"
    BY <1>3, <1>6, <2>1, Zenon DEF OnCpu
  <2> QED BY <1>1, <1>2, <2>2, FlagsFrame, Zenon
<1>13. Kept'
  <2>1. \A q \in Slots : how[q] \in {"sleep", "wait"} => at'[q] = at[q]
    BY <1>3, <1>6, Zenon DEF OnCpu
  <2> QED BY <1>1, <1>2, <1>8, <2>1, KeptFrame, Zenon
<1>14. Owned'
  BY <1>1, <1>2, <1>4, Zenon DEF Owned
<1>15. Filled'
  <2>1. /\ \A q \in Slots : at[q] \in Filling <=> np[q] # NoProc
        /\ \A q \in Slots : np[q] # NoProc =>
              state[q] \in {"RUNNING", "RUNNABLE"} /\ state[np[q]] = "EMBRYO" /\ np[q] \in Slots
        /\ \A q, x \in Slots : np[q] = np[x] /\ np[q] # NoProc => q = x
        /\ \A q \in Slots : state[q] = "EMBRYO" => \E x \in Slots : np[x] = q
        /\ \A q \in Slots : np[q] # NoProc =>
              /\ kstack[np[q]] <=> at[q] # "kalloc"
              /\ at[q] # "publish" => parent[np[q]] = NoProc
    BY <1>2, Zenon DEF Filled, Typed
  <2>2. ~kstack[u] /\ parent[u] = NoProc /\ np[p] = NoProc /\ "kalloc" \in Filling
    BY <1>2, <1>3, <1>4, <2>1, Zenon DEF Owned, OnCpu, Filling
  <2>3. \A q \in Slots : q # p /\ np'[q] # NoProc =>
          /\ np'[q] = np[q] /\ np[q] \in Slots /\ np[q] # u /\ q # u /\ at'[q] = at[q]
          /\ state'[q] = state[q] /\ state'[np[q]] = "EMBRYO"
    BY <1>4, <1>5, <1>6, <2>1, SMTT(20)
  <2>4. \A q \in Slots : at'[q] \in Filling <=> np'[q] # NoProc
    BY <1>5, <1>6, <1>7, <2>1, <2>2, SMTT(20)
  <2>5. \A q \in Slots : np'[q] # NoProc =>
          /\ state'[q] \in {"RUNNING", "RUNNABLE"} /\ state'[np'[q]] = "EMBRYO"
          /\ kstack[np'[q]] <=> at'[q] # "kalloc"
          /\ at'[q] # "publish" => parent[np'[q]] = NoProc
    <3>1. /\ state'[p] = "RUNNING" /\ state'[np'[p]] = "EMBRYO" /\ ~kstack[np'[p]] /\ at'[p] = "kalloc"
          /\ parent[np'[p]] = NoProc
      BY <1>4, <1>5, <1>6, <1>7, <2>2, Zenon
    <3> QED BY <2>1, <2>3, <3>1
  <2>6. \A q, x \in Slots : np'[q] = np'[x] /\ np'[q] # NoProc => q = x
    BY <1>5, <2>1, <2>3
  <2>7. \A q \in Slots : state'[q] = "EMBRYO" => \E x \in Slots : np'[x] = q
    <3>1. ASSUME NEW q \in Slots, state'[q] = "EMBRYO", q # u PROVE \E x \in Slots : np'[x] = q
      <4>1. PICK x \in Slots : np[x] = q
        BY <1>4, <2>1, <3>1, Zenon
      <4>2. x # p
        BY <2>2, <4>1, Basics, Zenon
      <4> QED BY <1>5, <4>1, <4>2, Zenon
    <3> QED BY <1>5, <3>1, Zenon
  <2> QED BY <1>1, <2>4, <2>5, <2>6, <2>7, Zenon DEF Filled
<1>16. Family'
  BY <1>1, <1>2, <1>4, Basics, Zenon DEF Family
<1>17. Waiting'
  <2>1. \A q \in Slots : state'[q] = "SLEEPING" =>
          /\ state[q] = "SLEEPING" /\ how'[q] = how[q]
          /\ chan'[q] = chan[q] /\ killed'[q] = killed[q]
    BY <1>1, <1>8, Zenon
  <2> QED BY <1>1, <1>2, <1>8, <2>1, WaitingFrame, Zenon
<1>18. Panics'
  <2>1. panicked' = panicked /\ ~panicked
    BY <1>1, <1>3, Zenon DEF OnCpu
  <2> QED BY <2>1, Zenon DEF Panics
<1> QED BY <1>9, <1>10, <1>11, <1>12, <1>13, <1>14, <1>15, <1>16, <1>17, <1>18, Zenon DEF IInv

\* allocproc(), with and without a free slot.
LEMMA allocprocStep ==
    ASSUME IInv, NEW c \in CPUs, allocproc(c)
    PROVE  IInv'
<1>1. PICK p \in Slots :
        /\ Runs(c, p, "fork") /\ lock = None
        /\ \/ at' = [at EXCEPT ![p] = "sysret"] /\ UNCHANGED <<state, pid, nextpid, np>>
           \/ /\ \E u \in Slots :
                   /\ state[u] = "UNUSED" /\ state' = [state EXCEPT ![u] = "EMBRYO"]
                   /\ pid' = [pid EXCEPT ![u] = nextpid] /\ np' = [np EXCEPT ![p] = u]
              /\ nextpid' = nextpid + 1 /\ at' = [at EXCEPT ![p] = "kalloc"]
        /\ UNCHANGED <<parent, killed, chan, kstack, lock, mode, proc, scan, irq, intena, how, panicked>>
  BY Zenon DEF allocproc, Goto, cpuVars, irqVars, First, In
<1>2. CASE at' = [at EXCEPT ![p] = "sysret"] /\ UNCHANGED <<state, pid, nextpid, np>>
  <2>1. state \in [Slots -> States] /\ at \in [Slots -> Places] /\ killed \in [Slots -> BOOLEAN]
    BY Zenon DEF IInv, Typed
  <2>2. at[p] = "fork" /\ ~panicked
    BY <1>1, Zenon DEF Runs
  <2>3. /\ at' \in [Slots -> Places]
        /\ \A q \in Slots : at'[q] = at[q] \/ (at[q] \in {"kill", "fork"} /\ at'[q] = "sysret")
    BY <1>2, <2>1, <2>2, Zenon DEF Places
  <2>4. Wakes
    BY <1>1, <1>2, <2>1, <2>2, <2>3, Zenon DEF Wakes
  <2> QED BY <2>4, WokenStep, Zenon
<1>3. ASSUME NEW u \in Slots, state[u] = "UNUSED", state' = [state EXCEPT ![u] = "EMBRYO"],
             pid' = [pid EXCEPT ![u] = nextpid], np' = [np EXCEPT ![p] = u],
             nextpid' = nextpid + 1, at' = [at EXCEPT ![p] = "kalloc"]
      PROVE  IInv'
  <2>1. pid \in [Slots -> Nat] /\ nextpid \in Nat
    BY Zenon DEF IInv, Typed
  <2>2. pid' \in [Slots -> Nat] /\ nextpid' \in Nat
    BY <1>3, <2>1
  <2>3. Embryo(p, u)
    BY <1>1, <1>3, <2>2, Zenon DEF Embryo
  <2> QED BY <1>1, <2>3, EmbryoStep, Zenon
<1> QED BY <1>1, <1>2, <1>3, Zenon

\* A step of fork() by p on its slot q, without ptable.lock: the slot stays an
\* embryo that has its stack once kalloc has given one, is given back empty, or
\* becomes RUNNABLE with its stack.
Fills(p, q) ==
    /\ state' \in [Slots -> States] /\ kstack' \in [Slots -> BOOLEAN]
    /\ parent' \in [Slots -> Slots \cup {NoProc}] /\ np' \in [Slots -> Slots \cup {NoProc}]
    /\ how' \in [Slots -> {"none", "forkret", "yield", "sleep", "wait"}] /\ at' \in [Slots -> Places]
    /\ \A x \in Slots : x # q =>
          state'[x] = state[x] /\ kstack'[x] = kstack[x] /\ parent'[x] = parent[x] /\ how'[x] = how[x]
    /\ \A x \in Slots : x # p => np'[x] = np[x] /\ (x # q => at'[x] = at[x])
    /\ \/ parent'[q] = parent[q] /\ how'[q] = how[q] /\ at'[q] = at[q]
       \/ /\ parent[q] = NoProc /\ parent'[q] = p /\ how'[q] = "forkret" /\ at'[q] = "user"
          /\ at'[p] = "publish"
    /\ \/ /\ state'[q] = "EMBRYO" /\ np'[p] = q /\ at'[p] \in Filling
          /\ kstack'[q] <=> at'[p] # "kalloc"
          /\ at'[p] # "publish" => parent'[q] = NoProc
       \/ /\ np'[p] = NoProc /\ at'[p] = "sysret"
          /\ \/ state'[q] = "UNUSED" /\ ~kstack'[q] /\ parent'[q] = NoProc
             \/ state'[q] = "RUNNABLE" /\ kstack'[q]
    /\ UNCHANGED <<pid, killed, chan, nextpid, lock, mode, proc, scan, irq, intena, panicked>>

\* Such a step keeps the invariant, though other CPUs change the rest of the table.
LEMMA FillStep ==
    ASSUME IInv, NEW c \in CPUs, NEW p \in Slots, NEW q \in Slots, NEW a \in Filling,
           Runs(c, p, a), q = np[p], Fills(p, q)
    PROVE  IInv'
<1>1. /\ pid' = pid /\ killed' = killed /\ chan' = chan /\ nextpid' = nextpid /\ lock' = lock /\ mode' = mode
      /\ proc' = proc /\ scan' = scan /\ irq' = irq /\ intena' = intena /\ panicked' = panicked
  BY Zenon DEF Fills
<1>2. /\ np \in [Slots -> Slots \cup {NoProc}] /\ proc \in [CPUs -> Slots \cup {NoProc}]
      /\ Holder /\ Running /\ Flags /\ Kept /\ Owned /\ Filled /\ Family /\ Waiting /\ Panics /\ Typed
  BY Zenon DEF IInv, Typed
<1>3. /\ mode[c] = "run" /\ p = proc[c] /\ at[p] = a /\ ~panicked /\ state[p] = "RUNNING" /\ how[p] = "none"
      /\ (a # "exit" => irq[c].ie) /\ (\A d \in CPUs : proc[d] = p => d = c)
  <2>1. OnCpu(c, p, a)
    BY Ran, Zenon
  <2> QED BY <2>1, Zenon DEF OnCpu, Filling
<1>4. state[q] = "EMBRYO" /\ q # p /\ q # NoProc /\ (\A x \in Slots : np[x] = q => x = p) /\ at[q] \notin Filling
  BY <1>2, <1>3, Basics, Zenon DEF Filled
<1>5. \A d \in CPUs : mode[d] \in OnStack => proc[d] \in Slots /\ proc[d] # q
  BY <1>2, <1>4 DEF Running, Stopped, OnStack
<1>6. a # "exit" /\ irq[c].ie
  BY <1>3, Zenon DEF Filling
<1>7. Typed' /\ Holder'
  BY <1>1, <1>2 DEF Typed, Holder, Fills
<1>8. Running'
  <2>1. \A x \in Slots : x # q => state'[x] = state[x]
    BY Zenon DEF Fills
  <2>2. state'[q] # "RUNNING"
    BY Zenon DEF Fills
  <2>3. mode' = mode /\ proc' = proc /\ Typed /\ Running
    BY <1>1, <1>2, Zenon
  <2>4. /\ \A x \in Slots : state'[x] = "RUNNING" <=> state[x] = "RUNNING"
        /\ \A x \in Slots : state[x] \in Stopped => state'[x] \in Stopped
    BY <1>4, <2>1, <2>2, Zenon DEF Stopped
  <2> QED BY <2>3, <2>4, RunningFrame, Zenon
<1>9. Flags'
  <2>1. \A d \in CPUs : mode[d] = "run" => proc[d] \in Slots /\ proc[d] # q
    BY <1>5, Zenon DEF OnStack
  <2>2. \A d \in CPUs : mode[d] = "run" /\ at[proc[d]] = "exit" => proc[d] # p
    BY <1>3, <1>6, Zenon
  <2>3. \A d \in CPUs : mode[d] = "run" /\ at[proc[d]] = "exit" => at'[proc[d]] = "exit"
    BY <2>1, <2>2, Zenon DEF Fills
  <2>4. mode' = mode /\ proc' = proc /\ irq' = irq /\ Flags
    BY <1>1, <1>2, Zenon
  <2> QED BY <2>3, <2>4, FlagsFrame, Zenon
<1>10. Kept'
  <2>1. /\ \A x \in Slots : x # q => how'[x] = how[x] /\ state'[x] = state[x]
        /\ \A x \in Slots : x # p /\ x # q => at'[x] = at[x]
        /\ (how'[q] = how[q] /\ at'[q] = at[q]) \/ how'[q] = "forkret"
        /\ state'[q] # "ZOMBIE"
    BY <1>4, Zenon DEF Fills
  <2> QED BY <1>1, <1>2, <1>3, <1>5, <2>1 DEF Kept, OnStack
<1>11. Owned'
  BY <1>2, <1>4 DEF Owned, Fills
<1>12. Filled'
  <2>1. \A x \in Slots : x # p /\ np[x] # NoProc =>
          /\ np[x] \in Slots /\ np[x] # q /\ x # q /\ np'[x] = np[x] /\ at'[x] = at[x] /\ state'[x] = state[x]
          /\ state'[np[x]] = state[np[x]] /\ kstack'[np[x]] = kstack[np[x]] /\ parent'[np[x]] = parent[np[x]]
    BY <1>2, <1>4 DEF Filled, Fills
  <2>2. \A x \in Slots : x # p => (at'[x] \in Filling <=> np'[x] # NoProc) /\ np'[x] = np[x]
    BY <1>2, <1>4 DEF Filled, Fills, Filling
  <2>3. state'[p] = "RUNNING" /\ (at'[p] \in Filling <=> np'[p] # NoProc) /\ np'[p] \in {q, NoProc}
    BY <1>3, <1>4, Zenon DEF Fills, Filling
  <2>4. np'[p] # NoProc =>
          /\ np'[p] = q /\ state'[q] = "EMBRYO" /\ (kstack'[q] <=> at'[p] # "kalloc")
          /\ at'[p] # "publish" => parent'[q] = NoProc
    BY Zenon DEF Fills
  <2>5. \A x \in Slots : state'[x] = "EMBRYO" => \E y \in Slots : np'[y] = x
    <3>1. \A x \in Slots : x # q /\ state'[x] = "EMBRYO" => \E y \in Slots : y # p /\ np[y] = x
      BY <1>2 DEF Filled, Fills
    <3>2. state'[q] = "EMBRYO" => np'[p] = q
      BY Zenon DEF Fills
    <3> QED BY <2>2, <3>1, <3>2, Zenon
  <2> QED BY <1>2, <1>4, <2>1, <2>2, <2>3, <2>4, <2>5 DEF Filled
<1>13. Family'
  BY <1>2, <1>4, Basics DEF Family, Fills
<1>14. Waiting'
  <2>1. \A x \in Slots : x # q => state'[x] = state[x] /\ parent'[x] = parent[x] /\ how'[x] = how[x]
    BY Zenon DEF Fills
  <2>2. state'[q] # "SLEEPING" /\ state'[q] # "ZOMBIE" /\ (parent'[q] = parent[q] \/ (parent[q] = NoProc /\ parent'[q] = p))
    BY Zenon DEF Fills
  <2>3. ASSUME NEW w \in Slots, state'[w] = "SLEEPING", how'[w] = "wait"
        PROVE  /\ chan'[w] = w /\ ~killed'[w] /\ (\E x \in Slots : parent'[x] = w)
               /\ \A x \in Slots : parent'[x] = w => state'[x] # "ZOMBIE"
    <3>1. w # q /\ w # p /\ w # NoProc /\ state[w] = "SLEEPING" /\ how[w] = "wait"
      BY <1>3, <2>1, <2>2, <2>3, Basics, Zenon
    <3>2. /\ chan[w] = w /\ ~killed[w] /\ (\E x \in Slots : parent[x] = w)
          /\ \A x \in Slots : parent[x] = w => state[x] # "ZOMBIE"
      BY <1>2, <3>1, Zenon DEF Waiting
    <3>3. \A x \in Slots : parent'[x] = w => x # q \/ parent[q] = w
      BY <2>2, <3>1, Zenon
    <3>4. \A x \in Slots : parent'[x] = w => state'[x] # "ZOMBIE"
      BY <2>1, <2>2, <3>2, <3>3, Zenon
    <3>5. \E x \in Slots : parent'[x] = w
      BY <2>1, <2>2, <3>1, <3>2, Zenon
    <3>6. chan'[w] = w /\ ~killed'[w]
      BY <1>1, <3>2, Zenon
    <3> QED BY <3>4, <3>5, <3>6, Zenon
  <2> QED BY <2>3, Zenon DEF Waiting
<1>15. Panics'
  <2>1. panicked' = panicked /\ ~panicked
    BY <1>1, <1>3, Zenon
  <2> QED BY <2>1, Zenon DEF Panics
<1> QED BY <1>7, <1>8, <1>9, <1>10, <1>11, <1>12, <1>13, <1>14, <1>15, Zenon DEF IInv

\* The steps of fork() after allocproc().
LEMMA forkSteps ==
    ASSUME IInv, NEW c \in CPUs, ForkStack(c) \/ ForkCopy(c) \/ ForkPublish(c)
    PROVE  IInv'
<1>1. /\ state \in [Slots -> States] /\ kstack \in [Slots -> BOOLEAN] /\ at \in [Slots -> Places]
      /\ parent \in [Slots -> Slots \cup {NoProc}] /\ np \in [Slots -> Slots \cup {NoProc}]
      /\ how \in [Slots -> {"none", "forkret", "yield", "sleep", "wait"}] /\ Filled
  BY Zenon DEF IInv, Typed
<1>2. \A p \in Slots : at[p] \in Filling =>
        /\ np[p] \in Slots /\ np[p] # p /\ state[np[p]] = "EMBRYO" /\ (kstack[np[p]] <=> at[p] # "kalloc")
        /\ at[p] # "publish" => parent[np[p]] = NoProc
  BY <1>1, Zenon DEF Filled
<1>3. CASE ForkStack(c)
  <2>1. PICK p \in Slots :
          /\ Runs(c, p, "kalloc")
          /\ \/ /\ kstack' = [kstack EXCEPT ![np[p]] = TRUE] /\ at' = [at EXCEPT ![p] = "copyuvm"]
                /\ state' = state /\ np' = np
             \/ /\ state' = [state EXCEPT ![np[p]] = "UNUSED"] /\ np' = [np EXCEPT ![p] = NoProc]
                /\ at' = [at EXCEPT ![p] = "sysret"] /\ kstack' = kstack
          /\ parent' = parent /\ how' = how
          /\ UNCHANGED <<pid, killed, chan, nextpid, lock, mode, proc, scan, irq, intena, panicked>>
    BY <1>3, Zenon DEF ForkStack, Goto, cpuVars, irqVars
  <2>2. at[p] = "kalloc" /\ "kalloc" \in Filling
    BY <2>1, Zenon DEF Runs, Filling
  <2>3. PICK q \in Slots : q = np[p] /\ q # p /\ state[q] = "EMBRYO" /\ ~kstack[q] /\ parent[q] = NoProc
    BY <1>2, <2>2, Zenon
  <2>4. UNCHANGED <<pid, killed, chan, nextpid, lock, mode, proc, scan, irq, intena, panicked>>
    BY <2>1, Zenon
  <2>5. Fills(p, q)
    <3>1. CASE state' = state
      <4>1. /\ kstack' = [kstack EXCEPT ![q] = TRUE] /\ at' = [at EXCEPT ![p] = "copyuvm"]
            /\ np' = np /\ parent' = parent /\ how' = how
        BY <1>1, <2>1, <2>3, <3>1, Zenon DEF States
      <4> QED BY <1>1, <2>2, <2>3, <2>4, <3>1, <4>1, Zenon DEF Fills, Places, Filling
    <3>2. CASE state' # state
      <4>1. /\ state' = [state EXCEPT ![q] = "UNUSED"] /\ np' = [np EXCEPT ![p] = NoProc]
            /\ at' = [at EXCEPT ![p] = "sysret"] /\ kstack' = kstack /\ parent' = parent /\ how' = how
        BY <2>1, <2>3, <3>2, Zenon
      <4> QED BY <1>1, <2>2, <2>3, <2>4, <4>1, Zenon DEF Fills, States, Places
    <3> QED BY <3>1, <3>2, Zenon
  <2> QED BY <2>1, <2>2, <2>3, <2>5, FillStep, Zenon
<1>4. CASE ForkCopy(c)
  <2>1. PICK p \in Slots :
          /\ Runs(c, p, "copyuvm")
          /\ \/ /\ parent' = [parent EXCEPT ![np[p]] = p]
                /\ at' = [at EXCEPT ![p] = "publish", ![np[p]] = "user"]
                /\ how' = [how EXCEPT ![np[p]] = "forkret"] /\ state' = state /\ kstack' = kstack /\ np' = np
             \/ /\ kstack' = [kstack EXCEPT ![np[p]] = FALSE] /\ state' = [state EXCEPT ![np[p]] = "UNUSED"]
                /\ np' = [np EXCEPT ![p] = NoProc] /\ at' = [at EXCEPT ![p] = "sysret"]
                /\ parent' = parent /\ how' = how
          /\ UNCHANGED <<pid, killed, chan, nextpid, lock, mode, proc, scan, irq, intena, panicked>>
    BY <1>4, Zenon DEF ForkCopy, CopyFailed, Goto, cpuVars, irqVars
  <2>2. at[p] = "copyuvm" /\ "copyuvm" \in Filling
    BY <2>1, Zenon DEF Runs, Filling
  <2>3. PICK q \in Slots : q = np[p] /\ q # p /\ state[q] = "EMBRYO" /\ kstack[q] /\ parent[q] = NoProc
    BY <1>2, <2>2, Zenon
  <2>4. UNCHANGED <<pid, killed, chan, nextpid, lock, mode, proc, scan, irq, intena, panicked>>
    BY <2>1, Zenon
  <2>5. Fills(p, q)
    <3>1. CASE parent' = [parent EXCEPT ![np[p]] = p]
      <4>1. /\ parent' = [parent EXCEPT ![q] = p] /\ at' = [at EXCEPT ![p] = "publish", ![q] = "user"]
            /\ how' = [how EXCEPT ![q] = "forkret"] /\ state' = state /\ kstack' = kstack /\ np' = np
        BY <1>1, <2>1, <2>3, <3>1, Basics, Zenon
      <4> QED BY <1>1, <2>3, <2>4, <4>1, Zenon DEF Fills, Places, Filling
    <3>2. CASE parent' = parent
      <4>1. /\ kstack' = [kstack EXCEPT ![q] = FALSE] /\ state' = [state EXCEPT ![q] = "UNUSED"]
            /\ np' = [np EXCEPT ![p] = NoProc] /\ at' = [at EXCEPT ![p] = "sysret"] /\ how' = how
        BY <1>1, <2>1, <2>3, <3>2, Basics, Zenon
      <4> QED BY <1>1, <2>3, <2>4, <3>2, <4>1, Zenon DEF Fills, States, Places
    <3> QED BY <2>1, <3>1, <3>2, Zenon
  <2> QED BY <2>1, <2>2, <2>3, <2>5, FillStep, Zenon
<1>5. CASE ForkPublish(c)
  <2>1. PICK p \in Slots :
          /\ Runs(c, p, "publish") /\ state' = [state EXCEPT ![np[p]] = "RUNNABLE"]
          /\ np' = [np EXCEPT ![p] = NoProc] /\ at' = [at EXCEPT ![p] = "sysret"]
          /\ kstack' = kstack /\ parent' = parent /\ how' = how
          /\ UNCHANGED <<pid, killed, chan, nextpid, lock, mode, proc, scan, irq, intena, panicked>>
    BY <1>5, Zenon DEF ForkPublish, Goto, tableVars, cpuVars, irqVars
  <2>2. at[p] = "publish" /\ "publish" \in Filling
    BY <2>1, Zenon DEF Runs, Filling
  <2>3. PICK q \in Slots : q = np[p] /\ q # p /\ state[q] = "EMBRYO" /\ kstack[q]
    BY <1>2, <2>2, Zenon
  <2>4. Fills(p, q)
    BY <1>1, <2>1, <2>2, <2>3, Zenon DEF Fills, States, Places, Filling
  <2> QED BY <2>1, <2>2, <2>3, <2>4, FillStep, Zenon
<1> QED BY <1>3, <1>4, <1>5, Zenon

\* Every step keeps the invariant.
LEMMA NextStep == IInv /\ [Next]_vars => IInv'
<1>1. ASSUME IInv, NEW c \in CPUs,
             Scheduler(c) \/ Switch(c) \/ Work(c) \/ Timer(c) \/ Syscall(c) \/ Fault(c) \/ wakeup(c)
      PROVE  IInv'
  <2>1. CASE Scheduler(c)
    BY <1>1, <2>1, EnterStep, PickStep, LeaveStep, Zenon DEF Scheduler
  <2>2. CASE Switch(c)
    BY <1>1, <2>2, schedStep, forkretStep, yieldRetStep, sleepRetStep, Zenon DEF Switch
  <2>3. CASE Work(c)
    BY <1>1, <2>3, trapSteps, allocprocStep, forkSteps, exitStep, InitExitStep, waitStep, sleepStep,
       killStep, Zenon DEF Work
  <2>4. CASE Timer(c)
    BY <1>1, <2>4, trapSteps, yieldStep, Zenon DEF Timer
  <2>5. CASE Syscall(c) \/ Fault(c)
    BY <1>1, <2>5, trapSteps, Zenon
  <2>6. CASE wakeup(c)
    BY <1>1, <2>6, wakeupStep, Zenon
  <2> QED BY <1>1, <2>1, <2>2, <2>3, <2>4, <2>5, <2>6, Zenon
<1>2. ASSUME IInv, UNCHANGED vars
      PROVE  IInv'
  <2>1. /\ state' = state /\ pid' = pid /\ parent' = parent /\ chan' = chan /\ kstack' = kstack
        /\ nextpid' = nextpid /\ lock' = lock /\ mode' = mode /\ proc' = proc /\ scan' = scan
        /\ intena' = intena /\ how' = how /\ np' = np /\ killed' = killed /\ at' = at /\ irq' = irq
        /\ panicked' = panicked
    BY <1>2, Zenon DEF vars, tableVars, cpuVars, irqVars
  <2>2. Holder /\ Running /\ Flags /\ Kept /\ Owned /\ Filled /\ Family /\ Waiting /\ Panics /\ Typed
    BY <1>2, Zenon DEF IInv
  <2>3. Typed' /\ Holder' /\ Running' /\ Flags' /\ Kept'
    BY <2>1, <2>2 DEF Typed, Holder, Running, Stopped, Flags, Kept
  <2>4. Owned' /\ Filled' /\ Family' /\ Waiting' /\ Panics'
    BY <2>1, <2>2 DEF Owned, Filled, Family, Waiting, Panics
  <2> QED BY <2>3, <2>4, Zenon DEF IInv
<1> QED BY <1>1, <1>2, Zenon DEF Next

\* So it holds in every state.
LEMMA Invariance == Spec => []IInv
BY InitStep, NextStep, PTL DEF Spec

-----------------------------------------------------------------------------
\* proc.c: a process runs on at most one CPU, and outside sched() and the scheduler
\* RUNNING is the state of exactly the processes that run.
THEOREM OneCpuHolds == Spec => []OneCpu
<1>1. IInv => OneCpu
  <2> SUFFICES ASSUME IInv PROVE OneCpu
    BY Zenon
  <2>1. Holder /\ Running /\ Typed
    BY Zenon DEF IInv
  <2>2. lock = None => \A c \in CPUs : mode[c] \notin Locked
    BY <2>1, Basics, Zenon DEF Holder
  <2>3. ASSUME lock = None, NEW p \in Slots
        PROVE  In(p, "RUNNING") <=> \E c \in CPUs : proc[c] = p
    <3>1. ASSUME NEW c \in CPUs, proc[c] = p PROVE state[p] = "RUNNING"
      <4>1. mode[c] \in OnStack /\ mode[c] \notin Locked
        BY <2>1, <2>2, <2>3, <3>1, Basics, Zenon DEF Running, Stopped
      <4>2. mode[c] = "run"
        BY <4>1, Zenon DEF OnStack, Locked
      <4> QED BY <2>1, <3>1, <4>2, Zenon DEF Running, Stopped
    <3>2. state[p] = "RUNNING" => \E c \in CPUs : proc[c] = p
      BY <2>1, Zenon DEF Running, Stopped
    <3> QED BY <3>1, <3>2, Zenon DEF In
  <2>4. \A c, d \in CPUs : proc[c] = proc[d] /\ c # d => proc[c] = NoProc
    BY <2>1, Zenon DEF Running, Stopped
  <2> QED BY <2>3, <2>4, Zenon DEF OneCpu
<1> QED BY <1>1, Invariance, PTL

\* proc.c: no CPU runs on a kernel stack that wait() or a failed fork() has freed.
THEOREM StackHolds == Spec => []StackLive
<1>1. IInv => StackLive
  <2> SUFFICES ASSUME IInv PROVE StackLive
    BY Zenon
  <2>1. Running /\ Owned /\ Typed
    BY Zenon DEF IInv
  <2>2. \A c \in CPUs : mode[c] \in OnStack => proc[c] \in Slots /\ state[proc[c]] \notin {"UNUSED", "EMBRYO"}
    BY <2>1 DEF Running, Stopped, OnStack, Typed
  <2> QED BY <2>1, <2>2, Zenon DEF StackLive, Owned, OnStack, In
<1> QED BY <1>1, Invariance, PTL

\* proc.c, spinlock.c: the panics of sched(), release() and popcli() are not
\* reached; only exit() by initproc panics.
THEOREM SchedHolds == Spec => []SchedNeverPanics
<1>1. IInv => SchedNeverPanics
  BY Zenon DEF IInv, Panics, SchedNeverPanics
<1> QED BY <1>1, Invariance, PTL

\* proc.c, spinlock.c: interrupts are off exactly while a CPU has a spin lock or
\* ends a process in a trap handler, whatever CPU a process comes back on.
THEOREM InterruptsHold == Spec => []Interruptible
<1>1. IInv => Interruptible
  <2> SUFFICES ASSUME IInv PROVE Interruptible
    BY Zenon
  <2>1. Flags /\ \A c \in CPUs : mode[c] \in Modes
    BY Zenon DEF IInv, Typed
  <2> QED BY <2>1, Zenon DEF Flags, Interruptible, Modes, Locked
<1> QED BY <1>1, Invariance, PTL

\* proc.c: no process sleeps in wait() with a zombie child, without a child, or
\* killed; the wakeup of exit() is never lost.
THEOREM WaitersHold == Spec => []WaitersWait
<1>1. IInv => WaitersWait
  BY Zenon DEF IInv, Waiting, WaitersWait, Kids, Zombies, In
<1> QED BY <1>1, Invariance, PTL

\* proc.c: a free slot holds nothing, and an embryo has one process that fills it.
THEOREM SlotsHold == Spec => []SlotsAccounted
<1>1. IInv => SlotsAccounted
  <2> SUFFICES ASSUME IInv, NEW p \in Slots
               PROVE  /\ In(p, "UNUSED") => ~kstack[p] /\ parent[p] = NoProc
                      /\ In(p, "EMBRYO") =>
                           \E q \in Slots : {r \in Slots : Live(r) /\ np[r] = p /\ ~In(r, "ZOMBIE")} = {q}
    BY Zenon DEF SlotsAccounted
  <2>1. Owned /\ Filled
    BY Zenon DEF IInv
  <2>2. In(p, "UNUSED") => ~kstack[p] /\ parent[p] = NoProc
    BY <2>1, Zenon DEF Owned, In
  <2>3. ASSUME In(p, "EMBRYO")
        PROVE  \E q \in Slots : {r \in Slots : Live(r) /\ np[r] = p /\ ~In(r, "ZOMBIE")} = {q}
    <3>1. PICK q \in Slots : np[q] = p
      BY <2>1, <2>3, Zenon DEF Filled, In
    <3>2. p # NoProc /\ Live(q) /\ ~In(q, "ZOMBIE") /\ \A x \in Slots : np[x] = p => x = q
      BY <2>1, <3>1, Basics, Zenon DEF Filled, Live, In
    <3>3. {x \in Slots : Live(x) /\ np[x] = p /\ ~In(x, "ZOMBIE")} = {q}
      BY <3>1, <3>2, Zenon
    <3> QED BY <3>3, Zenon
  <2> QED BY <2>2, <2>3, Zenon
<1> QED BY <1>1, Invariance, PTL
=============================================================================
