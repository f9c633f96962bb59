--------------------------------- MODULE Vm ---------------------------------
(***************************************************************************)
(* Address spaces: the page tables of vm.c, what fork, exec, sbrk, exit    *)
(* and wait do with them, and the free list of kalloc.c that they share.   *)
(* A kalloc is a step, so memory runs out at every point of every call,    *)
(* also because another process took the last page.  Addresses are uints.  *)
(*                                                                         *)
(* Frames have no identity but their use, so kalloc takes the least one.   *)
(* What a call frees it frees in one step: nobody else sees that space.    *)
(***************************************************************************)
EXTENDS Integers

CONSTANTS
    NPROC,            \* slots of the process table; slot 1 is init's
    NFRAMES,          \* pages of kalloc
    PGSIZE, KERNBASE,
    TabSize,          \* NPTENTRIES
    Deltas,           \* bound: the arguments of sbrk
    SegEnds,          \* bound: vaddr + memsz of program headers
    MaxSegs           \* bound: program headers of a file

UINT == 2 * KERNBASE
Slots == 1..NPROC
Frames == 1..NFRAMES
UserPages == 0..KERNBASE \div PGSIZE - 1
KernTab == KERNBASE \div (PGSIZE * TabSize)   \* one table stands for the kernel's
Tabs == 0..KernTab

ASSUME VmAssumption ==
    /\ NPROC \in Nat \ {0} /\ NFRAMES \in Nat /\ NFRAMES >= 5
    /\ PGSIZE \in Nat \ {0} /\ TabSize \in Nat \ {0}
    /\ KERNBASE \in Nat \ {0} /\ KERNBASE % (PGSIZE * TabSize) = 0
    /\ Deltas \subseteq -KERNBASE..KERNBASE - 1 /\ SegEnds \subseteq 0..UINT - 1 /\ MaxSegs \in Nat

VARIABLES
    free,             \* kmem.freelist
    state, parent, kstack, pgdir, sz,    \* ptable
    cr3,              \* the page directory that is loaded while a process runs
    new,              \* a space that a process builds, or is about to free
    job,              \* the call a process is in
    panicked

vars == <<free, state, parent, kstack, pgdir, sz, cr3, new, job, panicked>>
ptable == <<state, parent, kstack, pgdir, sz, cr3>>

\* A page directory with its tables and pages; 0 is a pointer that is not set.
NoSpace == [dir |-> 0, tabs |-> [t \in Tabs |-> 0], pages |-> [n \in UserPages |-> 0]]
NoJob == [op |-> "none", phase |-> "none", at |-> 0, end |-> 0, hand |-> 0, child |-> 0, segs |-> 0]

PGROUNDUP(a) == (((a + PGSIZE - 1) \div PGSIZE) * PGSIZE) % UINT
Page(a) == a \div PGSIZE
PDX(a) == a \div (PGSIZE * TabSize)

\* The frames of a space.
InSpace(s) ==
    ({s.dir} \cup {s.tabs[t] : t \in Tabs} \cup {s.pages[n] : n \in UserPages}) \ {0}

\* After userinit: initcode in one page.
Init ==
    /\ state = [p \in Slots |-> IF p = 1 THEN "RUN" ELSE "UNUSED"]
    /\ parent = [p \in Slots |-> 0]
    /\ kstack = [p \in Slots |-> IF p = 1 THEN 1 ELSE 0]
    /\ pgdir = [p \in Slots |-> IF p = 1
         THEN [dir |-> 2, tabs |-> [NoSpace.tabs EXCEPT ![KernTab] = 3, ![0] = 4],
               pages |-> [NoSpace.pages EXCEPT ![0] = 5]]
         ELSE NoSpace]
    /\ sz = [p \in Slots |-> IF p = 1 THEN PGSIZE ELSE 0]
    /\ cr3 = [p \in Slots |-> IF p = 1 THEN 2 ELSE 0]
    /\ free = Frames \ 1..5
    /\ new = [p \in Slots |-> NoSpace] /\ job = [p \in Slots |-> NoJob]
    /\ panicked = FALSE
-----------------------------------------------------------------------------
First(S) == {x \in S : \A y \in S : x <= y}    \* at most one
kalloc == First(free)

\* deallocuvm clears the pages from PGROUNDUP(newsz) up to oldsz.
AboveDown(oldsz, newsz) ==               \* faulty: rounds newsz down
    {n \in UserPages : Page(newsz) <= n /\ n * PGSIZE < oldsz}

Above(oldsz, newsz) == {n \in UserPages : PGROUNDUP(newsz) <= n * PGSIZE /\ n * PGSIZE < oldsz}

deallocuvm(s, oldsz, newsz) ==
    [s EXCEPT !.pages = [n \in UserPages |-> IF n \in Above(oldsz, newsz) THEN 0 ELSE @[n]]]

\* kfree of what s had and t has no more.
Freed(s, t) == InSpace(s) \ InSpace(t)

\* The space that a call of p adds to.
Target(p) == IF job[p].op = "grow" THEN pgdir[p] ELSE new[p]

Built(p, s) ==
    IF job[p].op = "grow" THEN pgdir' = [pgdir EXCEPT ![p] = s] /\ UNCHANGED new
    ELSE new' = [new EXCEPT ![p] = s] /\ UNCHANGED pgdir

Goto(p, j) == job' = [job EXCEPT ![p] = j]

\* The call of p fails: allocuvm gives back the pages it has added, copyuvm and
\* exec free the space, fork gives up the child; and the page in hand is freed.
FailsLeaks(p) ==                         \* faulty: mem is not freed
    LET j == job[p]
        s == IF j.op = "grow" THEN deallocuvm(Target(p), j.end, sz[p]) ELSE NoSpace
    IN
    /\ free' = free \cup Freed(Target(p), s) \cup
                 (IF j.op = "fork" THEN {kstack[j.child]} \ {0} ELSE {})
    /\ Built(p, s)
    /\ IF j.op = "fork"
       THEN kstack' = [kstack EXCEPT ![j.child] = 0] /\ state' = [state EXCEPT ![j.child] = "UNUSED"]
       ELSE UNCHANGED <<kstack, state>>
    /\ Goto(p, NoJob)
    /\ UNCHANGED <<parent, sz, cr3, panicked>>

Fails(p) ==
    LET j == job[p]
        s == IF j.op = "grow" THEN deallocuvm(Target(p), j.end, sz[p]) ELSE NoSpace
    IN
    /\ free' = free \cup Freed(Target(p), s) \cup ({j.hand} \ {0}) \cup
                 (IF j.op = "fork" THEN {kstack[j.child]} \ {0} ELSE {})
    /\ Built(p, s)
    /\ IF j.op = "fork"
       THEN kstack' = [kstack EXCEPT ![j.child] = 0] /\ state' = [state EXCEPT ![j.child] = "UNUSED"]
       ELSE UNCHANGED <<kstack, state>>
    /\ Goto(p, NoJob)
    /\ UNCHANGED <<parent, sz, cr3, panicked>>
-----------------------------------------------------------------------------
\* setupkvm: the directory, then the kernel's tables.
setupkvm(p) ==
    /\ job[p].phase = "setup"
    /\ IF free = {} THEN Fails(p)
       ELSE /\ \E f \in kalloc :
                 /\ free' = free \ {f}
                 /\ new' = IF new[p].dir = 0 THEN [new EXCEPT ![p].dir = f]
                           ELSE [new EXCEPT ![p].tabs[KernTab] = f]
            /\ IF new[p].dir = 0 THEN UNCHANGED job
               ELSE Goto(p, IF job[p].op = "fork"
                            THEN [job[p] EXCEPT !.phase = "pages", !.end = sz[p]]
                            ELSE [job[p] EXCEPT !.phase = "segs"])
            /\ UNCHANGED <<ptable, panicked>>

\* The loops of allocuvm and copyuvm: a page, then its place in the tables.
Looping(p) == job[p].phase = "pages" /\ job[p].at < job[p].end

\* "copyuvm: pte should exist", "copyuvm: page not present"
Absent(p) == job[p].op = "fork" /\ pgdir[p].pages[Page(job[p].at)] = 0

PageAlloc(p) ==
    /\ Looping(p) /\ job[p].hand = 0
    /\ IF Absent(p) THEN panicked' = TRUE /\ UNCHANGED <<free, ptable, new, job>>
       ELSE IF free = {} THEN Fails(p)
       ELSE /\ \E f \in kalloc : free' = free \ {f} /\ Goto(p, [job[p] EXCEPT !.hand = f])
            /\ UNCHANGED <<ptable, new, panicked>>

\* walkpgdir makes the table if there is none; "remap" is a panic.
mappages(p) ==
    LET j == job[p] s == Target(p) t == PDX(j.at) n == Page(j.at) IN
    /\ Looping(p) /\ j.hand # 0
    /\ IF s.tabs[t] = 0 /\ free = {} THEN Fails(p)
       ELSE /\ \E f \in IF s.tabs[t] = 0 THEN kalloc ELSE {s.tabs[t]} :
                 /\ free' = IF s.tabs[t] = 0 THEN free \ {f} ELSE free
                 /\ Built(p, [s EXCEPT !.tabs[t] = f, !.pages[n] = j.hand])
            /\ panicked' = (s.pages[n] # 0)
            /\ Goto(p, [j EXCEPT !.at = @ + PGSIZE, !.hand = 0])
            /\ UNCHANGED <<state, parent, kstack, sz, cr3>>

\* Loop done: the rest of growproc, of fork, or on with exec.
Looped(p) == job[p].phase = "pages" /\ job[p].at >= job[p].end

Grown(p) ==
    /\ Looped(p) /\ job[p].op = "grow"
    /\ sz' = [sz EXCEPT ![p] = job[p].end]
    /\ cr3' = [cr3 EXCEPT ![p] = pgdir[p].dir]
    /\ Goto(p, NoJob)
    /\ UNCHANGED <<free, state, parent, kstack, pgdir, new, panicked>>

ForkDone(p) ==
    LET q == job[p].child IN
    /\ Looped(p) /\ job[p].op = "fork"
    /\ pgdir' = [pgdir EXCEPT ![q] = new[p]] /\ new' = [new EXCEPT ![p] = NoSpace]
    /\ sz' = [sz EXCEPT ![q] = sz[p]] /\ parent' = [parent EXCEPT ![q] = p]
    /\ state' = [state EXCEPT ![q] = "RUN"] /\ cr3' = [cr3 EXCEPT ![q] = new[p].dir]
    /\ Goto(p, NoJob)
    /\ UNCHANGED <<free, kstack, panicked>>

ExecAllocated(p) ==
    /\ Looped(p) /\ job[p].op = "exec"
    /\ Goto(p, [job[p] EXCEPT !.phase = IF job[p].segs > MaxSegs THEN "args" ELSE "segs", !.at = 0])
    /\ UNCHANGED <<free, ptable, new, panicked>>
-----------------------------------------------------------------------------
\* A process without its first page faults as soon as it is back in user mode,
\* and is killed.
InUser(p) == state[p] = "RUN" /\ job[p] = NoJob
Able(p) == InUser(p) /\ pgdir[p].pages[0] # 0

\* sys_sbrk and growproc.  init does not call it.
sbrk(p) == \E d \in Deltas :
    LET newsz == (sz[p] + d + UINT) % UINT
        s == deallocuvm(pgdir[p], sz[p], newsz)
    IN
    /\ p # 1 /\ Able(p)
    /\ \/ /\ d > 0 /\ newsz < KERNBASE
          /\ Goto(p, [NoJob EXCEPT !.op = "grow", !.phase = "pages",
                                   !.at = PGROUNDUP(sz[p]), !.end = newsz])
          /\ UNCHANGED <<free, ptable, new, panicked>>
       \/ /\ d < 0 /\ newsz < sz[p]
          /\ pgdir' = [pgdir EXCEPT ![p] = s]
          /\ free' = free \cup Freed(pgdir[p], s)
          /\ sz' = IF newsz = 0 THEN sz ELSE [sz EXCEPT ![p] = newsz]
          /\ cr3' = [cr3 EXCEPT ![p] = s.dir]
          /\ UNCHANGED <<state, parent, kstack, new, job, panicked>>

\* fork: allocproc takes a slot, then a kernel stack.
fork(p) ==
    /\ Able(p)
    /\ \E q \in First({q \in Slots : state[q] = "UNUSED"}) :
         /\ state' = [state EXCEPT ![q] = "EMBRYO"]
         /\ Goto(p, [NoJob EXCEPT !.op = "fork", !.phase = "kstack", !.child = q])
    /\ UNCHANGED <<free, parent, kstack, pgdir, sz, cr3, new, panicked>>

allocproc(p) ==
    /\ job[p].phase = "kstack"
    /\ IF free = {} THEN Fails(p)
       ELSE /\ \E f \in kalloc :
                 free' = free \ {f} /\ kstack' = [kstack EXCEPT ![job[p].child] = f]
            /\ Goto(p, [job[p] EXCEPT !.phase = "setup"])
            /\ UNCHANGED <<state, parent, pgdir, sz, cr3, new, panicked>>

exec(p) ==
    /\ Able(p)
    /\ Goto(p, [NoJob EXCEPT !.op = "exec", !.phase = "setup"])
    /\ UNCHANGED <<free, ptable, new, panicked>>

\* allocuvm for a program header; end is exec's sz.
ExecSegment(p) == \E v \in SegEnds :
    LET j == job[p] IN
    /\ j.phase = "segs" /\ j.segs < MaxSegs
    /\ \/ (v >= KERNBASE \/ (v = 0 /\ j.end = 0)) /\ Fails(p)
       \/ /\ v < j.end
          /\ Goto(p, [j EXCEPT !.segs = @ + 1])
          /\ UNCHANGED <<free, ptable, new, panicked>>
       \/ /\ v < KERNBASE /\ v >= j.end /\ v > 0
          /\ Goto(p, [j EXCEPT !.segs = @ + 1, !.phase = "pages", !.at = PGROUNDUP(j.end), !.end = v])
          /\ UNCHANGED <<free, ptable, new, panicked>>

ExecStack(p) ==
    LET j == job[p] top == PGROUNDUP(j.end) + 2 * PGSIZE IN
    /\ j.phase = "segs"
    /\ IF top >= KERNBASE THEN Fails(p)
       ELSE /\ Goto(p, [j EXCEPT !.segs = MaxSegs + 1, !.phase = "pages",
                                 !.at = PGROUNDUP(j.end), !.end = top])
            /\ UNCHANGED <<free, ptable, new, panicked>>

\* A header or segment that cannot be read, arguments that do not fit.
ExecBad(p) == job[p].phase \in {"segs", "args"} /\ Fails(p)

ExecCommitLate(p) ==                     \* faulty: switchuvm is left to the scheduler
    /\ job[p].phase = "args"
    /\ pgdir' = [pgdir EXCEPT ![p] = new[p]] /\ new' = [new EXCEPT ![p] = pgdir[p]]
    /\ sz' = [sz EXCEPT ![p] = job[p].end]
    /\ Goto(p, [NoJob EXCEPT !.op = "exec", !.phase = "freeold"])
    /\ UNCHANGED <<free, state, parent, kstack, cr3, panicked>>

ExecCommit(p) ==
    /\ job[p].phase = "args"
    /\ pgdir' = [pgdir EXCEPT ![p] = new[p]] /\ new' = [new EXCEPT ![p] = pgdir[p]]
    /\ sz' = [sz EXCEPT ![p] = job[p].end]
    /\ cr3' = [cr3 EXCEPT ![p] = new[p].dir]
    /\ Goto(p, [NoJob EXCEPT !.op = "exec", !.phase = "freeold"])
    /\ UNCHANGED <<free, state, parent, kstack, panicked>>

freevm(p) ==
    /\ job[p].phase = "freeold"
    /\ free' = free \cup InSpace(new[p]) /\ new' = [new EXCEPT ![p] = NoSpace]
    /\ Goto(p, NoJob)
    /\ UNCHANGED <<ptable, panicked>>
-----------------------------------------------------------------------------
exit(p) ==
    /\ p # 1 /\ InUser(p)
    /\ state' = [state EXCEPT ![p] = "ZOMBIE"]
    /\ cr3' = [cr3 EXCEPT ![p] = 0]
    /\ parent' = [q \in Slots |-> IF parent[q] = p THEN 1 ELSE parent[q]]
    /\ UNCHANGED <<free, kstack, pgdir, sz, new, job, panicked>>

wait(p) == \E q \in Slots :
    /\ Able(p) /\ parent[q] = p /\ state[q] = "ZOMBIE"
    /\ free' = free \cup InSpace(pgdir[q]) \cup {kstack[q]}
    /\ kstack' = [kstack EXCEPT ![q] = 0] /\ pgdir' = [pgdir EXCEPT ![q] = NoSpace]
    /\ sz' = [sz EXCEPT ![q] = 0]
    /\ parent' = [parent EXCEPT ![q] = 0] /\ state' = [state EXCEPT ![q] = "UNUSED"]
    /\ UNCHANGED <<cr3, new, job, panicked>>

Next ==
    /\ ~panicked
    /\ \E p \in Slots :
         \/ setupkvm(p) \/ PageAlloc(p) \/ mappages(p) \/ Grown(p) \/ ForkDone(p) \/ ExecAllocated(p)
         \/ sbrk(p) \/ fork(p) \/ allocproc(p) \/ exit(p) \/ wait(p)
         \/ exec(p) \/ ExecSegment(p) \/ ExecStack(p) \/ ExecBad(p) \/ ExecCommit(p) \/ freevm(p)
Spec == Init /\ [][Next]_vars
-----------------------------------------------------------------------------
\* Every pointer to a frame, with the place it is in.
PointersIn(s, p, name) ==
    {<<p, name, "dir", 0, s.dir>>}
    \cup {<<p, name, "tab", t, s.tabs[t]>> : t \in Tabs}
    \cup {<<p, name, "page", n, s.pages[n]>> : n \in UserPages}

Pointers == {r \in UNION {
    {<<p, "kstack", "", 0, kstack[p]>>, <<p, "hand", "", 0, job[p].hand>>}
        \cup PointersIn(pgdir[p], p, "pgdir") \cup PointersIn(new[p], p, "new") : p \in Slots} :
    r[5] # 0}

\* Every page of memory is on the free list or in exactly one place of one
\* process: no failure of fork, exec or sbrk, wherever memory runs out, loses a
\* page, frees one twice or leaves one shared.
FramesExact ==
    /\ {r[5] : r \in Pointers} = Frames \ free
    /\ \A r, s \in Pointers : r[5] = s[5] => r = s

\* The pages a process has are those below its size, while sbrk grows it those
\* below where it has got to; the only exception is a process that gave up all
\* of its memory.  So fork and exec do not find pages missing or mapped: they
\* do not panic.
SizeMapped ==
    /\ ~panicked
    /\ \A p \in Slots : state[p] = "RUN" /\ pgdir[p].pages[0] # 0 =>
         LET top == IF job[p].op = "grow" THEN job[p].at ELSE sz[p] IN
         {n \in UserPages : pgdir[p].pages[n] # 0} = {n \in UserPages : n * PGSIZE < top}

\* The page directory that is loaded while a process runs is never freed: exec
\* switches to the new one before it frees the old one.
LoadedLive == \A p \in Slots : state[p] = "RUN" => cr3[p] \in Frames \ free
=============================================================================
