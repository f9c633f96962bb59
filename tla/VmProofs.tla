------------------------------ MODULE VmProofs ------------------------------
(***************************************************************************)
(* Proofs about Vm: the steps of the calls that VmSteps does not have, of  *)
(* a process alone or with its child, the invariance of IInv, and the      *)
(* theorems.                                                               *)
(***************************************************************************)
EXTENDS VmSteps

(* The steps of a process in the rest of its calls *)

\* A process in user mode: a call that begins finds it whole.
LEMMA InUserMode ==
  ASSUME IInv, NEW p \in Slots, Able(p)
  PROVE  /\ state[p] = "RUN" /\ kstack[p] # 0 /\ cr3[p] = pgdir[p].dir /\ pgdir[p].dir # 0
         /\ job[p] = NoJob /\ new[p] = NoSpace /\ pgdir[p].pages[0] # 0 /\ Mapped(pgdir[p]) = Below(sz[p])
  <1>1. Fits(state[p], kstack[p], pgdir[p], sz[p], cr3[p], new[p], job[p])
    BY Known, Zenon
  <1>2. state[p] = "RUN" /\ job[p] = NoJob /\ pgdir[p].pages[0] # 0
    BY Zenon DEF Able, InUser
  <1>3. kstack[p] # 0 /\ cr3[p] = pgdir[p].dir /\ pgdir[p].dir # 0 /\ new[p] = NoSpace
    BY <1>1, <1>2, Zenon DEF Fits, Placed
  <1>4. Mapped(pgdir[p]) = Below(sz[p])
    BY <1>1, <1>2, NoJobOk DEF Fits, Sized
  <1> QED BY <1>2, <1>3, <1>4, Zenon

\* A step of p that only moves on in its call.
LEMMA CallStep ==
  ASSUME IInv, NEW p \in Slots, NEW j \in Jobs, Goto(p, j), UNCHANGED <<free, ptable, new, panicked>>,
         j.hand = job[p].hand, Fits(state[p], kstack[p], pgdir[p], sz[p], cr3[p], new[p], j), SameFork(p, j)
  PROVE  IInv'
  <1>1. Typed /\ sz[p] \in 0..KERNBASE /\ cr3[p] \in Ptrs
    BY Known, Zenon DEF IInv
  <1>2. UNCHANGED <<state, parent, kstack, panicked>> /\ pgdir' = pgdir /\ sz' = sz /\ cr3' = cr3 /\ new' = new /\ free' = free
    BY DEF ptable
  <1>3. Update(p, pgdir[p], new[p], sz[p], cr3[p], j)
    BY <1>1, <1>2, Same, Zenon DEF Update, Goto
  <1> QED BY <1>1, <1>2, <1>3, QuietStep, Zenon

\* growproc is done.
LEMMA GrownStep ==
  ASSUME IInv, NEW p \in Slots, Grown(p)
  PROVE  IInv'
  <1> DEFINE j == job[p]
  <1>1. /\ Typed /\ pgdir[p] \in Space /\ new[p] \in Space /\ j \in Jobs /\ sz[p] \in 0..KERNBASE /\ cr3[p] \in Ptrs
    BY Known, Zenon DEF IInv
  <1>2. /\ j.phase = "pages" /\ j.at >= j.end /\ j.op = "grow"
        /\ sz' = [sz EXCEPT ![p] = j.end] /\ cr3' = [cr3 EXCEPT ![p] = pgdir[p].dir]
        /\ job' = [job EXCEPT ![p] = NoJob]
        /\ UNCHANGED <<free, state, parent, kstack, pgdir, new, panicked>>
    BY Zenon DEF Grown, Looped, Goto
  <1>3. j.at \in Nat /\ j.end \in 0..KERNBASE /\ j.end \in Nat
    BY <1>1, Sizes DEF Jobs
  <1>4. /\ state[p] = "RUN" /\ kstack[p] # 0 /\ cr3[p] = pgdir[p].dir /\ pgdir[p].dir # 0
        /\ Grows(pgdir[p], sz[p], new[p], j)
    BY <1>2, InCall DEF Forks, Execs
  <1>5. /\ new[p] = NoSpace /\ Mapped(pgdir[p]) = Below(j.at) /\ Aligned(j.at) /\ j.at < j.end + PGSIZE
        /\ j.hand = 0 /\ j.end <= j.at
    BY <1>2, <1>3, <1>4 DEF Grows, Loop
  <1>6. Below(j.at) = Below(j.end)
    BY <1>3, <1>5, BelowPage, Zenon
  <1>7. Sized("RUN", pgdir[p], j.end, NoJob)
    BY <1>5, <1>6, Zenon DEF Sized
  <1>8. Fits(state[p], kstack[p], pgdir[p], j.end, cr3[p], new[p], NoJob)
    BY <1>4, <1>5, <1>7, Idle, Zenon
  <1>9. Update(p, pgdir[p], new[p], j.end, cr3[p], NoJob)
    BY <1>1, <1>2, <1>4, Same DEF Update
  <1>10. SameFork(p, NoJob) /\ NoJob.hand = j.hand /\ NoJob \in Jobs /\ free' = free
    BY <1>2, <1>5, NoJobOk DEF SameFork
  <1> QED BY <1>1, <1>3, <1>8, <1>9, <1>10, QuietStep, Zenon

\* exec's loop is done.
LEMMA AllocatedStep ==
  ASSUME IInv, NEW p \in Slots, ExecAllocated(p)
  PROVE  IInv'
  <1> DEFINE j == job[p]
             k == [j EXCEPT !.phase = IF j.segs > MaxSegs THEN "args" ELSE "segs", !.at = 0]
  <1>1. j \in Jobs
    BY Known, Zenon
  <1>2. /\ j.phase = "pages" /\ j.at >= j.end /\ j.op = "exec"
        /\ Goto(p, k) /\ UNCHANGED <<free, ptable, new, panicked>>
    BY Zenon DEF ExecAllocated, Looped
  <1>3. j.at \in Nat /\ j.end \in 0..KERNBASE /\ j.end \in Nat
    BY <1>1, Sizes DEF Jobs
  <1>4. /\ state[p] = "RUN" /\ kstack[p] # 0 /\ cr3[p] = pgdir[p].dir /\ pgdir[p].dir # 0
        /\ Execs(new[p], j) /\ Sized("RUN", pgdir[p], sz[p], j)
    BY <1>2, InCall DEF Forks, Grows
  <1>5. /\ new[p].dir # 0 /\ Mapped(new[p]) = Below(j.at) /\ Aligned(j.at) /\ j.at < j.end + PGSIZE
        /\ j.hand = 0 /\ j.end <= j.at
    BY <1>2, <1>3, <1>4 DEF Execs, Loop
  <1>6. Below(j.at) = Below(j.end)
    BY <1>3, <1>5, BelowPage, Zenon
  <1>7. /\ k \in Jobs /\ k.op = "exec" /\ k.phase \in {"segs", "args"} /\ k.end = j.end /\ k.hand = j.hand
    <2>1. 0 \in 0..KERNBASE
      BY Sizes
    <2> DEFINE ph == IF j.segs > MaxSegs THEN "args" ELSE "segs"
    <2>2. ph \in {"segs", "args"}
      BY Zenon
    <2> HIDE DEF ph
    <2>3. /\ [j EXCEPT !.phase = ph, !.at = 0] \in Jobs
          /\ LET u == [j EXCEPT !.phase = ph, !.at = 0]
             IN u.op = j.op /\ u.phase = ph /\ u.end = j.end /\ u.hand = j.hand
      BY <1>1, <2>1, <2>2, Zenon DEF Jobs
    <2> QED BY <1>2, <2>2, <2>3, Zenon DEF ph
  <1> HIDE DEF k
  <1>8. Execs(new[p], k) /\ Sized("RUN", pgdir[p], sz[p], k) /\ k # NoJob /\ SameFork(p, k)
    BY <1>2, <1>4, <1>5, <1>6, <1>7, NoJobOk, Zenon DEF Execs, Sized, SameFork
  <1>9. Fits(state[p], kstack[p], pgdir[p], sz[p], cr3[p], new[p], k)
    BY <1>4, <1>8, Calling, Zenon
  <1> QED BY <1>2, <1>7, <1>8, <1>9, CallStep, Zenon

\* exec begins.
LEMMA ExecBegins ==
  ASSUME IInv, NEW p \in Slots, exec(p)
  PROVE  IInv'
  <1> DEFINE k == [NoJob EXCEPT !.op = "exec", !.phase = "setup"]
  <1>1. Able(p) /\ Goto(p, k) /\ UNCHANGED <<free, ptable, new, panicked>>
    BY Zenon DEF exec
  <1>2. /\ state[p] = "RUN" /\ kstack[p] # 0 /\ cr3[p] = pgdir[p].dir /\ pgdir[p].dir # 0
        /\ job[p] = NoJob /\ new[p] = NoSpace /\ Mapped(pgdir[p]) = Below(sz[p])
    BY <1>1, InUserMode
  <1>3. k \in Jobs /\ k.op = "exec" /\ k.phase = "setup" /\ k.end = 0 /\ k.hand = 0
    BY NoJobOk, Zenon DEF Jobs
  <1> HIDE DEF k
  <1>4. Execs(new[p], k) /\ Sized("RUN", pgdir[p], sz[p], k) /\ k # NoJob /\ SameFork(p, k) /\ k.hand = job[p].hand
    BY <1>2, <1>3, NoJobOk, Nothing, Zenon DEF Execs, Sized, SameFork
  <1>5. Fits(state[p], kstack[p], pgdir[p], sz[p], cr3[p], new[p], k)
    BY <1>2, <1>4, Calling, Zenon
  <1> QED BY <1>1, <1>3, <1>4, <1>5, CallStep, Zenon

\* exec's loop begins, for a segment or the stack.
LEMMA LoopBegins ==
  ASSUME IInv, NEW p \in Slots, job[p].phase = "segs", NEW g \in Nat, NEW e \in 0..KERNBASE, job[p].end <= e,
         Goto(p, [job[p] EXCEPT !.segs = g, !.phase = "pages", !.at = PGROUNDUP(job[p].end), !.end = e]),
         UNCHANGED <<free, ptable, new, panicked>>
  PROVE  IInv'
  <1> DEFINE j == job[p]
             a == PGROUNDUP(j.end)
             k == [j EXCEPT !.segs = g, !.phase = "pages", !.at = a, !.end = e]
  <1>1. j \in Jobs /\ j.end \in 0..KERNBASE /\ j.end \in Nat
    BY Known, Sizes DEF Jobs
  <1>2. /\ state[p] = "RUN" /\ kstack[p] # 0 /\ cr3[p] = pgdir[p].dir /\ pgdir[p].dir # 0
        /\ Execs(new[p], j) /\ Sized("RUN", pgdir[p], sz[p], j)
    BY InCall DEF Forks, Grows
  <1>3. j.op = "exec" /\ new[p].dir # 0 /\ Mapped(new[p]) = Below(j.end) /\ j.hand = 0
    BY <1>2 DEF Execs
  <1>4. a \in 0..KERNBASE /\ Aligned(a) /\ j.end <= a /\ a < j.end + PGSIZE
    BY <1>1, Rounded, Zenon
  <1> HIDE DEF a
  <1>5. Below(a) = Below(j.end) /\ a < e + PGSIZE
    <2>1. PGSIZE \in Nat
      BY Sizes
    <2>2. a < e + PGSIZE
      BY <1>1, <1>4, <2>1
    <2> QED BY <1>1, <1>4, <2>2, BelowPage, Zenon
  <1>6. /\ k \in Jobs /\ k.op = j.op /\ k.phase = "pages" /\ k.at = a /\ k.end = e /\ k.hand = j.hand
    BY <1>1, <1>4, Zenon DEF Jobs
  <1>7. Goto(p, k)
    BY Zenon DEF a
  <1> HIDE DEF k
  <1>8. Execs(new[p], k) /\ Sized("RUN", pgdir[p], sz[p], k) /\ k # NoJob /\ SameFork(p, k)
    BY <1>2, <1>3, <1>4, <1>5, <1>6, NoJobOk DEF Execs, Sized, SameFork, Loop
  <1>9. Fits(state[p], kstack[p], pgdir[p], sz[p], cr3[p], new[p], k)
    BY <1>2, <1>8, Calling, Zenon
  <1> QED BY <1>6, <1>7, <1>8, <1>9, CallStep, Zenon

\* A program header, and the stack.
LEMMA SegmentStep ==
  ASSUME IInv, NEW p \in Slots, ExecSegment(p), ~Fails(p)
  PROVE  IInv'
  <1> DEFINE j == job[p]
  <1>1. PICK v \in SegEnds :
          /\ j.phase = "segs" /\ j.segs < MaxSegs
          /\ \/ (v >= KERNBASE \/ (v = 0 /\ j.end = 0)) /\ Fails(p)
             \/ /\ v < j.end
                /\ Goto(p, [j EXCEPT !.segs = @ + 1])
                /\ UNCHANGED <<free, ptable, new, panicked>>
             \/ /\ v < KERNBASE /\ v >= j.end /\ v > 0
                /\ Goto(p, [j EXCEPT !.segs = @ + 1, !.phase = "pages", !.at = PGROUNDUP(j.end), !.end = v])
                /\ UNCHANGED <<free, ptable, new, panicked>>
    BY Zenon DEF ExecSegment
  <1>2. j \in Jobs /\ j.end \in Nat /\ j.segs \in Nat /\ j.segs + 1 \in Nat
    BY Known, Sizes DEF Jobs
  <1>3. v \in Nat
    BY VmAssumption
  <1>4. CASE /\ Goto(p, [j EXCEPT !.segs = @ + 1])
             /\ UNCHANGED <<free, ptable, new, panicked>>
    <2> DEFINE k == [j EXCEPT !.segs = @ + 1]
    <2>1. /\ k \in Jobs /\ k.op = j.op /\ k.phase = j.phase /\ k.at = j.at /\ k.end = j.end /\ k.hand = j.hand
      BY <1>2 DEF Jobs
    <2>2. Goto(p, k)
      BY <1>4, Zenon
    <2> HIDE DEF k
    <2>3. /\ state[p] = "RUN" /\ kstack[p] # 0 /\ cr3[p] = pgdir[p].dir /\ pgdir[p].dir # 0
          /\ Execs(new[p], j) /\ Sized("RUN", pgdir[p], sz[p], j)
      BY <1>1, InCall DEF Forks, Grows
    <2>4. Execs(new[p], k) /\ Sized("RUN", pgdir[p], sz[p], k) /\ k # NoJob /\ SameFork(p, k)
      BY <1>1, <2>1, <2>3, NoJobOk DEF Execs, Sized, SameFork
    <2>5. Fits(state[p], kstack[p], pgdir[p], sz[p], cr3[p], new[p], k)
      BY <2>3, <2>4, Calling, Zenon
    <2> QED BY <1>4, <2>1, <2>2, <2>4, <2>5, CallStep, Zenon
  <1>5. CASE /\ v < KERNBASE /\ v >= j.end /\ v > 0
             /\ Goto(p, [j EXCEPT !.segs = @ + 1, !.phase = "pages", !.at = PGROUNDUP(j.end), !.end = v])
             /\ UNCHANGED <<free, ptable, new, panicked>>
    <2>1. v \in 0..KERNBASE /\ j.end <= v
      BY <1>2, <1>3, <1>5, Sizes
    <2>2. Goto(p, [j EXCEPT !.segs = j.segs + 1, !.phase = "pages", !.at = PGROUNDUP(j.end), !.end = v])
      BY <1>2, <1>5 DEF Jobs
    <2> QED BY <1>1, <1>2, <1>5, <2>1, <2>2, LoopBegins, Zenon
  <1> QED BY <1>1, <1>4, <1>5, Zenon

\* exec allocates its stack.
LEMMA StackStep ==
  ASSUME IInv, NEW p \in Slots, ExecStack(p), ~Fails(p)
  PROVE  IInv'
  <1> DEFINE j == job[p]
             top == PGROUNDUP(j.end) + 2 * PGSIZE
  <1>1. /\ j.phase = "segs" /\ ~(top >= KERNBASE)
        /\ Goto(p, [j EXCEPT !.segs = MaxSegs + 1, !.phase = "pages", !.at = PGROUNDUP(j.end), !.end = top])
        /\ UNCHANGED <<free, ptable, new, panicked>>
    BY Zenon DEF ExecStack
  <1>2. j.end \in 0..KERNBASE /\ MaxSegs + 1 \in Nat
    BY Known, VmAssumption DEF Jobs
  <1>3. PGROUNDUP(j.end) \in 0..KERNBASE /\ j.end <= PGROUNDUP(j.end)
    BY <1>2, Rounded, Zenon
  <1>4. top \in 0..KERNBASE /\ j.end <= top
    BY <1>1, <1>2, <1>3, Sizes
  <1> HIDE DEF top
  <1> QED BY <1>1, <1>2, <1>4, LoopBegins, Zenon

\* exec takes over the new space.
LEMMA CommitStep ==
  ASSUME IInv, NEW p \in Slots, ExecCommit(p)
  PROVE  IInv'
  <1> DEFINE j == job[p]
             k == [NoJob EXCEPT !.op = "exec", !.phase = "freeold"]
             s == pgdir[p]
             t == new[p]
  <1>1. /\ j.phase = "args" /\ pgdir' = [pgdir EXCEPT ![p] = t] /\ new' = [new EXCEPT ![p] = s]
        /\ sz' = [sz EXCEPT ![p] = j.end] /\ cr3' = [cr3 EXCEPT ![p] = t.dir]
        /\ job' = [job EXCEPT ![p] = k] /\ UNCHANGED <<free, state, parent, kstack, panicked>>
    BY Zenon DEF ExecCommit, Goto
  <1>2. /\ Typed /\ Exact /\ free \subseteq Frames /\ s \in Space /\ t \in Space /\ j \in Jobs /\ Distinct(s) /\ Distinct(t)
    BY Known, Zenon DEF IInv
  <1>3. /\ state[p] = "RUN" /\ kstack[p] # 0 /\ s.dir # 0 /\ Execs(t, j)
    BY <1>1, InCall DEF Forks, Grows
  <1>4. t.dir # 0 /\ Mapped(t) = Below(j.end) /\ j.hand = 0
    BY <1>1, <1>3 DEF Execs
  <1>5. k \in Jobs /\ k.op = "exec" /\ k.phase = "freeold" /\ k.hand = 0
    BY NoJobOk, Zenon DEF Jobs
  <1>6. Update(p, t, s, j.end, t.dir, k)
    BY <1>1 DEF Update
  <1> HIDE DEF k
  <1>7. Values(t, s, j.end, t.dir, k) /\ free' \subseteq Frames
    BY <1>1, <1>2, <1>5 DEF Values, Space, Jobs
  <1>8. Exact'
    <2>1. /\ Held(p, "pgdir")' = InSpace(t) /\ Held(p, "new")' = InSpace(s)
          /\ Held(p, "hand")' = {k.hand} \ {0} /\ Held(p, "kstack")' = Held(p, "kstack")
          /\ \A q \in Slots, l \in Kinds : q # p => Held(q, l)' = Held(q, l)
      BY <1>2, <1>6, <1>7, Updated
    <2>2. /\ Held(p, "pgdir")' = Held(p, "new") /\ Held(p, "new")' = Held(p, "pgdir")
          /\ Held(p, "hand")' = Held(p, "hand")
      BY <1>4, <1>5, <2>1, Places, Zenon
    <2>3. \A q \in Slots, l \in Kinds : q # p \/ l \notin {"pgdir", "new"} => Held(q, l)' = Held(q, l)
      BY <2>1, <2>2, Zenon DEF Kinds
    <2>4. free' = free
      BY <1>1
    <2> QED BY <1>2, <2>2, <2>3, <2>4, Swapped, Zenon
  <1>9. Execs(s, k) /\ Sized("RUN", t, j.end, k) /\ k # NoJob /\ SameFork(p, k)
    BY <1>4, <1>5, NoJobOk DEF Execs, Sized, SameFork
  <1>10. Fits(state[p], kstack[p], t, j.end, t.dir, s, k)
    BY <1>3, <1>4, <1>9, Calling, Zenon
  <1> QED BY <1>2, <1>6, <1>7, <1>8, <1>9, <1>10, UpdateStep, Zenon

\* The size that growproc computes: a wrapped sum is never below the old size.
LEMMA NewSize ==
  ASSUME NEW z \in 0..KERNBASE, NEW d \in Deltas, NEW y, y = (z + d + UINT) % UINT
  PROVE  /\ d > 0 => y = z + d /\ z < y
         /\ d < 0 /\ y < z => y = z + d /\ y \in 0..KERNBASE /\ y <= z
         /\ y < KERNBASE => y \in 0..KERNBASE
  <1>1. KERNBASE \in Nat \ {0} /\ z \in Nat /\ z <= KERNBASE /\ d \in Int /\ -KERNBASE <= d /\ d <= KERNBASE - 1
    BY VmAssumption
  <1> DEFINE u == 2 * KERNBASE
  <1>2. y = (z + d + u) % u
    BY Zenon DEF UINT
  <1>3. u \in Nat \ {0} /\ u = KERNBASE + KERNBASE
    BY <1>1
  <1> HIDE DEF u
  <1>4. CASE z + d >= 0
    <2>1. z + d < u /\ z + d \in Nat
      BY <1>1, <1>3, <1>4
    <2> DEFINE w == z + d
    <2>2. w \in Nat /\ w < u /\ y = (w + u) % u
      BY <1>2, <2>1
    <2> HIDE DEF w
    <2>3. y = w
      BY <1>3, <2>2
    <2> QED BY <1>1, <1>4, <2>3 DEF w
  <1>5. CASE z + d < 0
    <2> DEFINE w == z + d + u
    <2>1. w \in Nat /\ w < u /\ z <= w /\ KERNBASE <= w
      BY <1>1, <1>3, <1>5
    <2>2. y = w % u
      BY <1>2
    <2> HIDE DEF w
    <2>3. y = w
      BY <1>3, <2>1, <2>2
    <2> QED BY <1>1, <1>5, <2>1, <2>3
  <1> QED BY <1>1, <1>4, <1>5

\* sbrk begins to grow, or gives back pages at once.
LEMMA SbrkStep ==
  ASSUME IInv, NEW p \in Slots, sbrk(p)
  PROVE  IInv'
  <1>1. PICK d \in Deltas :
          LET newsz == (sz[p] + d + UINT) % UINT
              s == deallocuvm(pgdir[p], sz[p], newsz)
          IN
          /\ p # 1 /\ Able(p)
          /\ \/ /\ d > 0 /\ newsz < KERNBASE
                /\ Goto(p, [NoJob EXCEPT !.op = "grow", !.phase = "pages",
                                         !.at = PGROUNDUP(sz[p]), !.end = newsz])
                /\ UNCHANGED <<free, ptable, new, panicked>>
             \/ /\ d < 0 /\ newsz < sz[p]
                /\ pgdir' = [pgdir EXCEPT ![p] = s]
                /\ free' = free \cup Freed(pgdir[p], s)
                /\ sz' = IF newsz = 0 THEN sz ELSE [sz EXCEPT ![p] = newsz]
                /\ cr3' = [cr3 EXCEPT ![p] = s.dir]
                /\ UNCHANGED <<state, parent, kstack, new, job, panicked>>
    BY Zenon DEF sbrk
  <1> DEFINE y == (sz[p] + d + UINT) % UINT
             s == deallocuvm(pgdir[p], sz[p], y)
             a == PGROUNDUP(sz[p])
  <1>2. Able(p)
    BY <1>1, Zenon
  <1>3. /\ state[p] = "RUN" /\ kstack[p] # 0 /\ cr3[p] = pgdir[p].dir /\ pgdir[p].dir # 0
        /\ job[p] = NoJob /\ new[p] = NoSpace /\ Mapped(pgdir[p]) = Below(sz[p])
    BY <1>2, InUserMode
  <1>4. /\ Typed /\ pgdir[p] \in Space /\ sz[p] \in 0..KERNBASE /\ cr3[p] \in Ptrs /\ Distinct(pgdir[p])
    BY Known, Zenon DEF IInv
  <1>5. /\ d > 0 => y = sz[p] + d /\ sz[p] < y
        /\ d < 0 /\ y < sz[p] => y = sz[p] + d /\ y \in 0..KERNBASE /\ y <= sz[p]
        /\ y < KERNBASE => y \in 0..KERNBASE
    BY <1>4, NewSize, Zenon
  <1>6. CASE /\ d > 0 /\ y < KERNBASE
             /\ Goto(p, [NoJob EXCEPT !.op = "grow", !.phase = "pages", !.at = a, !.end = y])
             /\ UNCHANGED <<free, ptable, new, panicked>>
    <2> DEFINE k == [NoJob EXCEPT !.op = "grow", !.phase = "pages", !.at = a, !.end = y]
    <2>1. a \in 0..KERNBASE /\ Aligned(a) /\ sz[p] <= a /\ a < sz[p] + PGSIZE
      BY <1>4, Rounded, Zenon
    <2>2. y \in 0..KERNBASE /\ sz[p] < y
      BY <1>5, <1>6, Zenon
    <2> HIDE DEF a, y
    <2>3. Below(a) = Below(sz[p]) /\ a < y + PGSIZE /\ sz[p] \in Nat
      <3>1. PGSIZE \in Nat /\ sz[p] \in Nat
        BY <1>4, Sizes
      <3>2. a < y + PGSIZE
        BY <2>1, <2>2, <3>1
      <3> QED BY <2>1, <3>1, <3>2, BelowPage, Zenon
    <2>4. k \in Jobs /\ k.op = "grow" /\ k.phase = "pages" /\ k.at = a /\ k.end = y /\ k.hand = 0
      BY <2>1, <2>2, NoJobOk, Zenon DEF Jobs
    <2>5. Goto(p, k) /\ UNCHANGED <<free, ptable, new, panicked>>
      BY <1>6, Zenon
    <2> HIDE DEF k
    <2>6. /\ Grows(pgdir[p], sz[p], new[p], k) /\ Sized("RUN", pgdir[p], sz[p], k) /\ k # NoJob
          /\ SameFork(p, k) /\ k.hand = job[p].hand
      BY <1>3, <2>1, <2>2, <2>3, <2>4, NoJobOk DEF Grows, Loop, Sized, SameFork
    <2>7. Fits(state[p], kstack[p], pgdir[p], sz[p], cr3[p], new[p], k)
      BY <1>3, <2>6, Calling, Zenon
    <2> QED BY <2>4, <2>5, <2>6, <2>7, CallStep, Zenon
  <1>7. CASE /\ d < 0 /\ y < sz[p]
             /\ pgdir' = [pgdir EXCEPT ![p] = s]
             /\ free' = free \cup Freed(pgdir[p], s)
             /\ sz' = IF y = 0 THEN sz ELSE [sz EXCEPT ![p] = y]
             /\ cr3' = [cr3 EXCEPT ![p] = s.dir]
             /\ UNCHANGED <<state, parent, kstack, new, job, panicked>>
    <2>1. y \in 0..KERNBASE /\ y <= sz[p] /\ sz[p] <= sz[p]
      BY <1>4, <1>5, <1>7
    <2> HIDE DEF y
    <2>2. Below(sz[p]) \ Above(sz[p], y) = Below(y)
      BY <1>4, <2>1, Shrunk
    <2>3. /\ s \in Space /\ Distinct(s) /\ Mapped(s) = Mapped(pgdir[p]) \ Above(sz[p], y)
          /\ (\A f \in InSpace(s) : f \in InSpace(pgdir[p])) /\ s.dir = pgdir[p].dir
      BY <1>4, Dealloc
    <2> DEFINE z == IF y = 0 THEN sz[p] ELSE y
    <2>4. sz' = [sz EXCEPT ![p] = z]
      BY <1>4, <1>7, Same, Zenon
    <2>5. Mapped(s) = Below(y) /\ (y = 0 => s.pages[0] = 0)
      <3>1. Mapped(s) = Below(y)
        BY <1>3, <2>2, <2>3, Zenon
      <3>2. y = 0 => Mapped(s) = {} /\ 0 \in UserPages
        BY <3>1, BelowZero, Zenon
      <3> QED BY <3>1, <3>2, Zenon DEF Mapped
    <2> HIDE DEF s
    <2>6. Sized("RUN", s, z, NoJob) /\ z \in 0..KERNBASE
      BY <1>4, <2>1, <2>5, Zenon DEF Sized
    <2> HIDE DEF z
    <2>7. Fits(state[p], kstack[p], s, z, cr3[p], NoSpace, NoJob)
      BY <1>3, <2>3, <2>6, Idle, Zenon
    <2>8. Update(p, s, NoSpace, z, cr3[p], NoJob)
      <3>1. cr3' = [cr3 EXCEPT ![p] = cr3[p]]
        BY <1>3, <1>7, <2>3, Zenon
      <3>2. new' = [new EXCEPT ![p] = NoSpace] /\ job' = [job EXCEPT ![p] = NoJob]
        BY <1>3, <1>4, <1>7, Same
      <3> QED BY <1>7, <2>4, <3>1, <3>2, Zenon DEF Update
    <2>9. Values(s, NoSpace, z, cr3[p], NoJob)
      BY <1>4, <2>3, <2>6, Nothing, NoJobOk, Zenon DEF Values
    <2>10. SameFork(p, NoJob)
      BY NoJobOk DEF SameFork
    <2>11. \A f : f \in free' <=> \/ f \in free
                                  \/ f \in InSpace(pgdir[p]) /\ f \notin InSpace(s)
                                  \/ f \in InSpace(new[p]) /\ f \notin InSpace(NoSpace)
                                  \/ f # 0 /\ f = job[p].hand /\ f # NoJob.hand
      BY <1>3, <1>7, Zenon DEF Freed
    <2>12. InSpace(s) \subseteq InSpace(pgdir[p]) /\ InSpace(NoSpace) \subseteq InSpace(new[p])
      BY <2>3, Nothing, Zenon
    <2> QED BY <2>3, <2>7, <2>8, <2>9, <2>10, <2>11, <2>12, NoJobOk, Nothing, GiveStep, Zenon
  <1> QED BY <1>1, <1>6, <1>7, Zenon
-----------------------------------------------------------------------------
(* Steps of a process and its child *)

\* A step leaves a process alone.
Untouched(r) ==
    /\ state'[r] = state[r] /\ kstack'[r] = kstack[r] /\ pgdir'[r] = pgdir[r] /\ sz'[r] = sz[r]
    /\ cr3'[r] = cr3[r] /\ new'[r] = new[r] /\ job'[r] = job[r]

\* A process fits together after a step.
Good(r) ==
    /\ Fits(state'[r], kstack'[r], pgdir'[r], sz'[r], cr3'[r], new'[r], job'[r])
    /\ Distinct(pgdir'[r]) /\ Distinct(new'[r])

\* A step of p that also changes q keeps the invariant when both come out good.
LEMMA PairStep ==
  ASSUME IInv, NEW p \in Slots, NEW q \in Slots, \A r \in Slots : r # p /\ r # q => Untouched(r),
         Good(p), Good(q), Typed', Exact', Children', panicked' = panicked
  PROVE  IInv'
  <1>1. ASSUME NEW r \in Slots PROVE Good(r)
    <2>1. CASE r # p /\ r # q
      <3>1. Untouched(r)
        BY <2>1, Zenon
      <3>2. /\ Fits(state[r], kstack[r], pgdir[r], sz[r], cr3[r], new[r], job[r])
            /\ Distinct(pgdir[r]) /\ Distinct(new[r])
        BY Known, Zenon
      <3> QED BY <3>1, <3>2, Zenon DEF Untouched, Good
    <2> QED BY <2>1, Zenon
  <1>2. Tidy' /\ Local'
    BY <1>1, Zenon DEF Tidy, Local, Good
  <1>3. panicked' = FALSE
    BY DEF IInv
  <1> QED BY <1>2, <1>3, Zenon DEF IInv

\* The forks under way keep their children when p begins, moves on in or ends a fork.
LEMMA ChildrenStep ==
  ASSUME Children, NEW p \in Slots, \A r \in Slots : r # p => job'[r] = job[r],
         \A c \in Slots : state[c] = "EMBRYO" /\ (job[p].op = "fork" => c # job[p].child)
                             => state'[c] = state[c] /\ kstack'[c] = kstack[c],
         job'[p].op = "fork" =>
            /\ job'[p].child \in Slots /\ state'[job'[p].child] = "EMBRYO"
            /\ kstack'[job'[p].child] = 0 <=> job'[p].phase = "kstack"
            /\ \A r \in Slots : r # p /\ job[r].op = "fork" => job[r].child # job'[p].child
  PROVE  Children'
  <1>1. ASSUME NEW r \in Slots, job'[r].op = "fork"
        PROVE  /\ job'[r].child \in Slots /\ state'[job'[r].child] = "EMBRYO"
               /\ kstack'[job'[r].child] = 0 <=> job'[r].phase = "kstack"
    <2>1. CASE r = p
      BY <1>1, <2>1
    <2>2. CASE r # p
      <3>1. job'[r] = job[r] /\ job[r].op = "fork"
        BY <1>1, <2>2, Zenon
      <3>2. /\ job[r].child \in Slots /\ state[job[r].child] = "EMBRYO"
            /\ kstack[job[r].child] = 0 <=> job[r].phase = "kstack"
            /\ job[p].op = "fork" => job[r].child # job[p].child
        BY <2>2, <3>1, Zenon DEF Children
      <3>3. state'[job[r].child] = state[job[r].child] /\ kstack'[job[r].child] = kstack[job[r].child]
        BY <3>2, Zenon
      <3> QED BY <3>1, <3>2, <3>3
    <2> QED BY <2>1, <2>2, Zenon
  <1>2. \A q, r \in Slots : job'[q].op = "fork" /\ job'[r].op = "fork" /\ job'[q].child = job'[r].child => q = r
    BY DEF Children
  <1> QED BY <1>1, <1>2, Zenon DEF Children

\* Places that give up all they hold.
LEMMA Dropped ==
  ASSUME Exact, NEW D \in SUBSET (Slots \X Kinds), NEW S, free' = free \cup S,
         \A f : f \in S <=> \E r \in Slots, l \in Kinds : <<r, l>> \in D /\ f \in Held(r, l),
         \A r \in Slots, l \in Kinds : <<r, l>> \in D => Held(r, l)' = {},
         \A r \in Slots, l \in Kinds : <<r, l>> \notin D => Held(r, l)' = Held(r, l)
  PROVE  Exact'
  <1>1. ASSUME NEW r \in Slots, NEW l \in Kinds, NEW f PROVE f \in Held(r, l)' <=> f \in Held(r, l) /\ f \notin S
    <2>1. CASE <<r, l>> \in D
      BY <2>1, Zenon
    <2>2. CASE <<r, l>> \notin D
      <3>1. f \in Held(r, l) => f \notin S
        <4>1. SUFFICES ASSUME f \in Held(r, l), f \in S PROVE FALSE
          BY Zenon
        <4>2. PICK q \in Slots, m \in Kinds : <<q, m>> \in D /\ f \in Held(q, m)
          BY <4>1, Zenon
        <4>3. q = r /\ m = l
          BY <4>1, <4>2, Alone, Zenon
        <4> QED BY <2>2, <4>2, <4>3, Zenon
      <3> QED BY <2>2, <3>1, Zenon
    <2> QED BY <2>1, <2>2, Zenon
  <1>2. \A f \in S : \E r \in Slots, l \in Kinds : f \in Held(r, l)
    BY Zenon
  <1> QED BY <1>1, <1>2, Gave, Zenon

\* fork has a child of its own, a slot with nothing in it but a stack.
LEMMA Child ==
  ASSUME IInv, NEW p \in Slots, job[p].op = "fork"
  PROVE  /\ job[p].child \in Slots /\ state[job[p].child] = "EMBRYO" /\ job[p].child # p
         /\ kstack[job[p].child] = 0 <=> job[p].phase = "kstack"
         /\ pgdir[job[p].child] = NoSpace /\ new[job[p].child] = NoSpace /\ job[job[p].child] = NoJob
         /\ Forks(pgdir[p], sz[p], new[p], job[p])
  <1>1. /\ job[p].child \in Slots /\ state[job[p].child] = "EMBRYO"
        /\ kstack[job[p].child] = 0 <=> job[p].phase = "kstack"
    BY Zenon DEF IInv, Children
  <1>2. state[p] = "RUN" /\ Forks(pgdir[p], sz[p], new[p], job[p])
    BY InCall DEF Grows, Execs
  <1>3. job[p].child # p
    BY <1>1, <1>2
  <1>4. \A q \in Slots : state[q] = "EMBRYO" => pgdir[q] = NoSpace /\ new[q] = NoSpace /\ job[q] = NoJob
    <2>1. \A q \in Slots : Fits(state[q], kstack[q], pgdir[q], sz[q], cr3[q], new[q], job[q])
      BY Zenon DEF IInv, Local
    <2> QED BY <2>1 DEF Fits, Placed
  <1> QED BY <1>1, <1>2, <1>3, <1>4, Zenon

\* What Fits asks of a slot that no process runs in.
LEMMA AtRest ==
  ASSUME NEW st, NEW ks, NEW s, NEW z, NEW c,
         \/ st = "UNUSED" /\ ks = 0 /\ s = NoSpace
         \/ st = "EMBRYO" /\ s = NoSpace
         \/ st = "ZOMBIE" /\ ks # 0
  PROVE  Fits(st, ks, s, z, c, NoSpace, NoJob)
  BY DEF Fits, Placed, Sized, Works

\* fork fails: the child's slot and stack, the copy and the page in hand are free.
LEMMA ForkFails ==
  ASSUME IInv, NEW p \in Slots, Fails(p), job[p].op = "fork"
  PROVE  IInv'
  <1> DEFINE j == job[p]
             s == pgdir[p]
  <1>1. PICK q \in Slots : q = j.child
    BY Child, Zenon
  <1>2. /\ state[q] = "EMBRYO" /\ q # p /\ pgdir[q] = NoSpace /\ new[q] = NoSpace /\ job[q] = NoJob
    BY <1>1, Child, Zenon
  <1>3. /\ Typed /\ Exact /\ Children /\ free \subseteq Frames /\ s \in Space /\ new[p] \in Space /\ j \in Jobs /\ Distinct(s)
        /\ kstack[q] \in Ptrs
    BY Known, Zenon DEF IInv
  <1>4. /\ state[p] = "RUN" /\ kstack[p] # 0 /\ cr3[p] = s.dir /\ s.dir # 0 /\ Sized("RUN", s, sz[p], j)
    BY InCall
  <1>5. Target(p) = new[p]
    BY DEF Target
  <1>6. free' = free \cup Freed(new[p], NoSpace) \cup ({j.hand} \ {0}) \cup ({kstack[q]} \ {0})
    BY <1>1, <1>5 DEF Fails
  <1>7. /\ new' = [new EXCEPT ![p] = NoSpace] /\ pgdir' = pgdir /\ job' = [job EXCEPT ![p] = NoJob]
        /\ kstack' = [kstack EXCEPT ![q] = 0] /\ state' = [state EXCEPT ![q] = "UNUSED"]
        /\ UNCHANGED <<parent, sz, cr3, panicked>>
    BY <1>1, <1>5 DEF Fails, Goto, Built
  <1> DEFINE S == InSpace(new[p]) \cup ({j.hand} \ {0}) \cup ({kstack[q]} \ {0})
  <1>8. free' = free \cup S /\ S \subseteq Frames
    <2>1. j.hand \in Ptrs
      BY <1>3 DEF Jobs
    <2>2. \A f : f \in S <=> f \in InSpace(new[p]) \/ (f # 0 /\ f = j.hand) \/ (f # 0 /\ f = kstack[q])
      BY Zenon
    <2>3. \A f \in InSpace(new[p]) : f \in Frames
      BY <1>3, InFrames
    <2>4. S \subseteq Frames
      <3> HIDE DEF S
      <3> QED BY <1>3, <2>1, <2>2, <2>3, NoFrame
    <2>5. free' = free \cup S
      BY <1>6, Nothing DEF Freed
    <2> QED BY <2>4, <2>5, Zenon
  <1>9. Typed'
    <2>1. free' \subseteq Frames
      BY <1>3, <1>8, Zenon
    <2> QED BY <1>3, <1>7, <2>1, Nothing, NoJobOk, NoFrame DEF Typed, States
  <1>10. /\ state'[p] = "RUN" /\ kstack'[p] = kstack[p] /\ pgdir'[p] = s /\ sz'[p] = sz[p] /\ cr3'[p] = cr3[p]
         /\ new'[p] = NoSpace /\ job'[p] = NoJob
         /\ state'[q] = "UNUSED" /\ kstack'[q] = 0 /\ pgdir'[q] = NoSpace /\ new'[q] = NoSpace /\ job'[q] = NoJob
         /\ \A r \in Slots : r # p /\ r # q => Untouched(r)
    BY <1>2, <1>3, <1>4, <1>7 DEF Typed, Untouched
  <1>11. Good(p) /\ Good(q)
    <2>1. Sized("RUN", s, sz[p], NoJob)
      BY <1>4 DEF Sized
    <2>2. Fits("RUN", kstack[p], s, sz[p], cr3[p], NoSpace, NoJob)
      BY <1>4, <2>1, Idle, Zenon
    <2>3. Fits("UNUSED", 0, NoSpace, sz'[q], cr3'[q], NoSpace, NoJob)
      BY AtRest, Zenon
    <2> QED BY <1>3, <1>10, <2>2, <2>3, Nothing, Zenon DEF Good
  <1>12. Children'
    <2>1. \A r \in Slots : r # p => job'[r] = job[r]
      BY <1>3, <1>7 DEF Typed
    <2>2. \A c \in Slots : state[c] = "EMBRYO" /\ (j.op = "fork" => c # j.child)
                             => state'[c] = state[c] /\ kstack'[c] = kstack[c]
      BY <1>1, <1>3, <1>7 DEF Typed
    <2>3. job'[p].op # "fork"
      BY <1>10, NoJobOk
    <2> QED BY <1>3, <2>1, <2>2, <2>3, ChildrenStep, Zenon
  <1>13. Exact'
    <2> DEFINE D == {<<p, "new">>, <<p, "hand">>, <<q, "kstack">>}
    <2>1. D \in SUBSET (Slots \X Kinds)
      BY DEF Kinds
    <2>2. \A r \in Slots, l \in Kinds : <<r, l>> \in D <=> (r = p /\ l \in {"new", "hand"}) \/ (r = q /\ l = "kstack")
      OBVIOUS
    <2> HIDE DEF D
    <2>3. /\ Held(p, "new")' = {} /\ Held(p, "hand")' = {} /\ Held(q, "kstack")' = {}
      BY <1>10, Places, Nothing, NoJobOk
    <2>4. /\ Held(p, "pgdir")' = Held(p, "pgdir") /\ Held(p, "kstack")' = Held(p, "kstack")
          /\ Held(q, "pgdir")' = Held(q, "pgdir") /\ Held(q, "new")' = Held(q, "new")
          /\ Held(q, "hand")' = Held(q, "hand")
      <3>1. /\ kstack'[p] = kstack[p] /\ pgdir'[p] = pgdir[p]
            /\ pgdir'[q] = pgdir[q] /\ new'[q] = new[q] /\ job'[q].hand = job[q].hand
        BY <1>2, <1>10, Zenon
      <3> QED BY <3>1, Stays, Zenon
    <2>5. \A r \in Slots, l \in Kinds : r # p /\ r # q => Held(r, l)' = Held(r, l)
      BY <1>10, Zenon DEF Untouched, Held
    <2>6. \A r \in Slots, l \in Kinds : <<r, l>> \in D => Held(r, l)' = {}
      BY <2>2, <2>3, Zenon
    <2>7. \A r \in Slots, l \in Kinds : <<r, l>> \notin D => Held(r, l)' = Held(r, l)
      BY <2>2, <2>4, <2>5, Zenon DEF Kinds
    <2>8. \A f : f \in S <=> f \in Held(p, "new") \/ f \in Held(p, "hand") \/ f \in Held(q, "kstack")
      BY Places, Zenon
    <2> HIDE DEF S
    <2>9. "new" \in Kinds /\ "hand" \in Kinds /\ "kstack" \in Kinds
      BY DEF Kinds
    <2>10. \A f : f \in S <=> \E r \in Slots, l \in Kinds : <<r, l>> \in D /\ f \in Held(r, l)
      BY <2>2, <2>8, <2>9, Zenon
    <2> QED BY <1>3, <1>8, <2>1, <2>6, <2>7, <2>10, Dropped, Zenon
  <1>14. panicked' = panicked
    BY <1>7
  <1> QED BY <1>9, <1>10, <1>11, <1>12, <1>13, <1>14, PairStep, Zenon

\* fork begins with a slot that was not in use.
LEMMA ForkBegins ==
  ASSUME IInv, NEW p \in Slots, fork(p)
  PROVE  IInv'
  <1>1. PICK q \in First({q \in Slots : state[q] = "UNUSED"}) :
          /\ state' = [state EXCEPT ![q] = "EMBRYO"]
          /\ Goto(p, [NoJob EXCEPT !.op = "fork", !.phase = "kstack", !.child = q])
    BY Zenon DEF fork
  <1> DEFINE k == [NoJob EXCEPT !.op = "fork", !.phase = "kstack", !.child = q]
             s == pgdir[p]
  <1>2. q \in Slots /\ state[q] = "UNUSED"
    BY Zenon DEF First
  <1>3. Able(p) /\ job' = [job EXCEPT ![p] = k] /\ UNCHANGED <<free, parent, kstack, pgdir, sz, cr3, new, panicked>>
    BY <1>1, Zenon DEF fork, Goto
  <1>4. /\ state[p] = "RUN" /\ kstack[p] # 0 /\ cr3[p] = s.dir /\ s.dir # 0
        /\ job[p] = NoJob /\ new[p] = NoSpace /\ s.pages[0] # 0 /\ Mapped(s) = Below(sz[p])
    BY <1>3, InUserMode
  <1>5. /\ Typed /\ Exact /\ Children /\ free \subseteq Frames /\ Distinct(s) /\ Distinct(pgdir[q])
        /\ Fits(state[q], kstack[q], pgdir[q], sz[q], cr3[q], new[q], job[q])
    BY <1>2, Known, Zenon DEF IInv
  <1>6. kstack[q] = 0 /\ pgdir[q] = NoSpace /\ new[q] = NoSpace /\ job[q] = NoJob
    BY <1>2, <1>5 DEF Fits, Placed
  <1>7. k \in Jobs /\ k.op = "fork" /\ k.phase = "kstack" /\ k.at = 0 /\ k.hand = 0 /\ k.child = q
    BY <1>2, NoJobOk, Zenon DEF Jobs
  <1> HIDE DEF k
  <1>8. Typed'
    BY <1>1, <1>2, <1>3, <1>5, <1>7 DEF Typed, States
  <1>9. /\ state'[p] = "RUN" /\ kstack'[p] = kstack[p] /\ pgdir'[p] = s /\ sz'[p] = sz[p] /\ cr3'[p] = cr3[p]
        /\ new'[p] = NoSpace /\ job'[p] = k
        /\ state'[q] = "EMBRYO" /\ kstack'[q] = 0 /\ pgdir'[q] = NoSpace /\ new'[q] = NoSpace /\ job'[q] = NoJob
        /\ \A r \in Slots : r # p /\ r # q => Untouched(r)
    BY <1>1, <1>2, <1>3, <1>4, <1>5, <1>6 DEF Typed, Untouched
  <1>10. Good(p) /\ Good(q)
    <2>1. Sized("RUN", s, sz[p], k) /\ Forks(s, sz[p], NoSpace, k) /\ k # NoJob
      BY <1>4, <1>7, NoJobOk DEF Sized, Forks
    <2>2. Fits("RUN", kstack[p], s, sz[p], cr3[p], NoSpace, k)
      BY <1>4, <2>1, Calling, Zenon
    <2>3. Fits("EMBRYO", 0, NoSpace, sz'[q], cr3'[q], NoSpace, NoJob)
      BY AtRest, Zenon
    <2> QED BY <1>5, <1>9, <2>2, <2>3, Nothing, Zenon DEF Good
  <1>11. Children'
    <2>1. \A r \in Slots : r # p => job'[r] = job[r]
      BY <1>3, <1>5 DEF Typed
    <2>2. \A c \in Slots : state[c] = "EMBRYO" /\ (job[p].op = "fork" => c # job[p].child)
                             => state'[c] = state[c] /\ kstack'[c] = kstack[c]
      BY <1>1, <1>2, <1>3, <1>5 DEF Typed
    <2>3. \A r \in Slots : r # p /\ job[r].op = "fork" => job[r].child # q
      BY <1>2, <1>5 DEF Children
    <2>4. /\ job'[p].child \in Slots /\ state'[job'[p].child] = "EMBRYO"
          /\ kstack'[job'[p].child] = 0 <=> job'[p].phase = "kstack"
          /\ \A r \in Slots : r # p /\ job[r].op = "fork" => job[r].child # job'[p].child
      BY <1>2, <1>7, <1>9, <2>3
    <2> QED BY <1>5, <2>1, <2>2, <2>4, ChildrenStep, Zenon
  <1>12. Exact'
    <2>1. job'[p].hand = job[p].hand
      BY <1>4, <1>7, <1>9, NoJobOk
    <2>2. \A r \in Slots : job'[r].hand = job[r].hand
      BY <1>3, <1>5, <2>1 DEF Typed
    <2>3. \A r \in Slots, l \in Kinds : Held(r, l)' = Held(r, l)
      BY <1>3, <2>2 DEF Held
    <2> QED BY <1>3, <1>5, <2>3, Stayed
  <1>13. panicked' = panicked
    BY <1>3
  <1> QED BY <1>2, <1>8, <1>9, <1>10, <1>11, <1>12, <1>13, PairStep, Zenon

\* allocproc gives the child a stack.
LEMMA StackTaken ==
  ASSUME IInv, NEW p \in Slots, allocproc(p), free # {}
  PROVE  IInv'
  <1> DEFINE j == job[p]
             k == [j EXCEPT !.phase = "setup"]
             s == pgdir[p]
  <1>1. j.phase = "kstack"
    BY Zenon DEF allocproc
  <1>2. j.op = "fork"
    BY <1>1, InCall DEF Grows, Forks, Execs
  <1>3. PICK q \in Slots : q = j.child
    BY <1>2, Child, Zenon
  <1>4. PICK f \in kalloc : free' = free \ {f} /\ kstack' = [kstack EXCEPT ![q] = f]
    BY <1>3, Zenon DEF allocproc
  <1>5. job' = [job EXCEPT ![p] = k] /\ UNCHANGED <<state, parent, pgdir, sz, cr3, new, panicked>>
    BY Zenon DEF allocproc, Goto
  <1>6. /\ state[q] = "EMBRYO" /\ q # p /\ kstack[q] = 0 /\ pgdir[q] = NoSpace /\ new[q] = NoSpace /\ job[q] = NoJob
        /\ Forks(s, sz[p], new[p], j)
    BY <1>1, <1>2, <1>3, Child
  <1>7. /\ state[p] = "RUN" /\ kstack[p] # 0 /\ cr3[p] = s.dir /\ s.dir # 0 /\ Sized("RUN", s, sz[p], j)
    BY <1>2, InCall
  <1>8. /\ Typed /\ Exact /\ Children /\ free \subseteq Frames /\ Distinct(s) /\ j \in Jobs
        /\ f \in free /\ f \in Frames /\ f # 0 /\ f \in Ptrs
    BY Known, Zenon DEF IInv
  <1>9. new[p] = NoSpace /\ j.at = 0 /\ j.hand = 0 /\ s.pages[0] # 0
    BY <1>1, <1>6 DEF Forks
  <1>10. k \in Jobs /\ k.op = "fork" /\ k.phase = "setup" /\ k.at = 0 /\ k.hand = 0 /\ k.child = q
    BY <1>2, <1>3, <1>8, <1>9 DEF Jobs
  <1> HIDE DEF k
  <1>11. Typed'
    BY <1>4, <1>5, <1>8, <1>10 DEF Typed
  <1>12. /\ state'[p] = "RUN" /\ kstack'[p] = kstack[p] /\ pgdir'[p] = s /\ sz'[p] = sz[p] /\ cr3'[p] = cr3[p]
         /\ new'[p] = NoSpace /\ job'[p] = k
         /\ state'[q] = "EMBRYO" /\ kstack'[q] = f /\ pgdir'[q] = NoSpace /\ new'[q] = NoSpace /\ job'[q] = NoJob
         /\ \A r \in Slots : r # p /\ r # q => Untouched(r)
    BY <1>4, <1>5, <1>6, <1>7, <1>8, <1>9 DEF Typed, Untouched
  <1>13. Good(p) /\ Good(q)
    <2>1. Sized("RUN", s, sz[p], k) /\ Forks(s, sz[p], NoSpace, k) /\ k # NoJob
      BY <1>2, <1>7, <1>9, <1>10, NoJobOk, Nothing DEF Sized, Forks
    <2>2. Fits("RUN", kstack[p], s, sz[p], cr3[p], NoSpace, k)
      BY <1>7, <2>1, Calling, Zenon
    <2>3. Fits("EMBRYO", f, NoSpace, sz'[q], cr3'[q], NoSpace, NoJob)
      BY AtRest, Zenon
    <2> QED BY <1>8, <1>12, <2>2, <2>3, Nothing, Zenon DEF Good
  <1>14. Children'
    <2>1. \A r \in Slots : r # p => job'[r] = job[r]
      BY <1>5, <1>8 DEF Typed
    <2>2. \A c \in Slots : state[c] = "EMBRYO" /\ (job[p].op = "fork" => c # job[p].child)
                             => state'[c] = state[c] /\ kstack'[c] = kstack[c]
      BY <1>2, <1>3, <1>4, <1>5, <1>8 DEF Typed
    <2>3. \A r \in Slots : r # p /\ job[r].op = "fork" => job[r].child # q
      BY <1>2, <1>3, <1>8 DEF Children
    <2>4. /\ job'[p].child \in Slots /\ state'[job'[p].child] = "EMBRYO"
          /\ kstack'[job'[p].child] = 0 <=> job'[p].phase = "kstack"
          /\ \A r \in Slots : r # p /\ job[r].op = "fork" => job[r].child # job'[p].child
      BY <1>8, <1>10, <1>12, <2>3
    <2> QED BY <1>8, <2>1, <2>2, <2>4, ChildrenStep, Zenon
  <1>15. Exact'
    <2>1. Held(q, "kstack")' = Held(q, "kstack") \cup {f}
      BY <1>6, <1>8, <1>12, Places
    <2>2. \A r \in Slots : job'[r].hand = job[r].hand /\ (r # q => kstack'[r] = kstack[r])
      BY <1>4, <1>5, <1>8, <1>9, <1>10 DEF Typed
    <2>3. \A r \in Slots : /\ Held(r, "pgdir")' = Held(r, "pgdir") /\ Held(r, "new")' = Held(r, "new")
                           /\ Held(r, "hand")' = Held(r, "hand") /\ (r # q => Held(r, "kstack")' = Held(r, "kstack"))
      BY <1>5, <2>2, Stays
    <2>4. \A r \in Slots, l \in Kinds : r # q \/ l # "kstack" => Held(r, l)' = Held(r, l)
      BY <2>3, Zenon DEF Kinds
    <2>5. "kstack" \in Kinds
      BY DEF Kinds
    <2> QED BY <1>4, <1>8, <2>1, <2>4, <2>5, Taken, Zenon
  <1>16. panicked' = panicked
    BY <1>5
  <1> QED BY <1>11, <1>12, <1>13, <1>14, <1>15, <1>16, PairStep, Zenon

\* fork is done: the child has the copy, and runs.
LEMMA ForkEnds ==
  ASSUME IInv, NEW p \in Slots, ForkDone(p)
  PROVE  IInv'
  <1> DEFINE j == job[p]
             s == pgdir[p]
             t == new[p]
  <1>1. j.phase = "pages" /\ j.at >= j.end /\ j.op = "fork"
    BY Zenon DEF ForkDone, Looped
  <1>2. PICK q \in Slots : q = j.child
    BY <1>1, Child, Zenon
  <1>3. /\ pgdir' = [pgdir EXCEPT ![q] = t] /\ new' = [new EXCEPT ![p] = NoSpace]
        /\ sz' = [sz EXCEPT ![q] = sz[p]] /\ parent' = [parent EXCEPT ![q] = p]
        /\ state' = [state EXCEPT ![q] = "RUN"] /\ cr3' = [cr3 EXCEPT ![q] = t.dir]
        /\ job' = [job EXCEPT ![p] = NoJob] /\ UNCHANGED <<free, kstack, panicked>>
    BY <1>2, Zenon DEF ForkDone, Goto
  <1>4. /\ state[q] = "EMBRYO" /\ q # p /\ kstack[q] # 0 /\ pgdir[q] = NoSpace /\ new[q] = NoSpace /\ job[q] = NoJob
        /\ Forks(s, sz[p], t, j)
    BY <1>1, <1>2, Child, SMTT(20)
  <1>5. /\ state[p] = "RUN" /\ kstack[p] # 0 /\ cr3[p] = s.dir /\ s.dir # 0 /\ Sized("RUN", s, sz[p], j)
    BY <1>1, InCall, SMTT(20)
  <1>6. /\ Typed /\ Exact /\ Children /\ Distinct(s) /\ Distinct(t) /\ j \in Jobs /\ t \in Space
        /\ sz[p] \in 0..KERNBASE
    BY Known, Zenon DEF IInv
  <1>7. t.dir \in Ptrs /\ j.at \in Nat /\ j.end \in Nat
    BY <1>6, Sizes, SMTT(20) DEF Space, Jobs
  <1>8. /\ t.dir # 0 /\ Mapped(t) = Below(j.at) /\ Aligned(j.at) /\ j.at < j.end + PGSIZE /\ j.end = sz[p]
        /\ j.hand = 0 /\ j.end <= j.at
    BY <1>1, <1>4, <1>7 DEF Forks, Loop
  <1>9. Mapped(t) = Below(sz[p])
    BY <1>7, <1>8, BelowPage, Zenon
  <1>10. Typed'
    BY <1>3, <1>6, <1>7, Nothing, NoJobOk DEF Typed, States
  <1>11. /\ state'[p] = "RUN" /\ kstack'[p] = kstack[p] /\ pgdir'[p] = s /\ sz'[p] = sz[p] /\ cr3'[p] = cr3[p]
         /\ new'[p] = NoSpace /\ job'[p] = NoJob
         /\ state'[q] = "RUN" /\ kstack'[q] = kstack[q] /\ pgdir'[q] = t /\ sz'[q] = sz[p] /\ cr3'[q] = t.dir
         /\ new'[q] = NoSpace /\ job'[q] = NoJob
         /\ \A r \in Slots : r # p /\ r # q => Untouched(r)
    BY <1>3, <1>4, <1>5, <1>6 DEF Typed, Untouched
  <1>12. Good(p) /\ Good(q)
    <2>1. Sized("RUN", s, sz[p], NoJob)
      BY <1>1, <1>5 DEF Sized
    <2>2. Sized("RUN", t, sz[p], NoJob)
      BY <1>9, Zenon DEF Sized
    <2>3. Fits("RUN", kstack[p], s, sz[p], cr3[p], NoSpace, NoJob)
      BY <1>5, <2>1, Idle, Zenon
    <2>4. Fits("RUN", kstack[q], t, sz[p], t.dir, NoSpace, NoJob)
      BY <1>4, <1>8, <2>2, Idle, Zenon
    <2> QED BY <1>6, <1>11, <2>3, <2>4, Nothing, Zenon DEF Good
  <1>13. Children'
    <2>1. \A r \in Slots : r # p => job'[r] = job[r]
      BY <1>3, <1>6 DEF Typed
    <2>2. \A c \in Slots : state[c] = "EMBRYO" /\ (j.op = "fork" => c # j.child)
                             => state'[c] = state[c] /\ kstack'[c] = kstack[c]
      BY <1>1, <1>2, <1>3, <1>6 DEF Typed
    <2>3. job'[p].op # "fork"
      BY <1>11, NoJobOk
    <2> QED BY <1>6, <2>1, <2>2, <2>3, ChildrenStep, Zenon
  <1>14. Exact'
    <2>1. Held(q, "pgdir") = {} /\ Held(q, "pgdir")' = Held(p, "new") /\ Held(p, "new")' = {}
      <3>1. /\ Held(q, "pgdir") = InSpace(pgdir[q]) /\ Held(q, "pgdir")' = InSpace(pgdir'[q])
            /\ Held(p, "new") = InSpace(t) /\ Held(p, "new")' = InSpace(new'[p])
        BY <1>1, Places, Zenon
      <3> QED BY <1>4, <1>11, <3>1, Nothing, Zenon
    <2>2. \A r \in Slots : /\ kstack'[r] = kstack[r] /\ job'[r].hand = job[r].hand
                           /\ (r # q => pgdir'[r] = pgdir[r]) /\ (r # p => new'[r] = new[r])
      BY <1>3, <1>6, <1>8, NoJobOk DEF Typed
    <2>3. \A r \in Slots : /\ Held(r, "kstack")' = Held(r, "kstack") /\ Held(r, "hand")' = Held(r, "hand")
                           /\ (r # q => Held(r, "pgdir")' = Held(r, "pgdir"))
                           /\ (r # p => Held(r, "new")' = Held(r, "new"))
      BY <2>2, Stays
    <2>4. \A r \in Slots, l \in Kinds : (r # q \/ l # "pgdir") /\ (r # p \/ l # "new") => Held(r, l)' = Held(r, l)
      BY <2>3 DEF Kinds
    <2>5. free' = free
      BY <1>3
    <2> QED BY <1>6, <2>1, <2>4, <2>5, Handed
  <1>15. panicked' = panicked
    BY <1>3
  <1> QED BY <1>10, <1>11, <1>12, <1>13, <1>14, <1>15, PairStep, Zenon

\* exit leaves its space to wait.
LEMMA ExitStep ==
  ASSUME IInv, NEW p \in Slots, exit(p)
  PROVE  IInv'
  <1>1. /\ state[p] = "RUN" /\ job[p] = NoJob
        /\ state' = [state EXCEPT ![p] = "ZOMBIE"] /\ cr3' = [cr3 EXCEPT ![p] = 0]
        /\ parent' = [q \in Slots |-> IF parent[q] = p THEN 1 ELSE parent[q]]
        /\ UNCHANGED <<free, kstack, pgdir, sz, new, job, panicked>>
    BY Zenon DEF exit, InUser
  <1>2. /\ Typed /\ Exact /\ Children /\ Distinct(pgdir[p]) /\ Distinct(new[p])
        /\ Fits(state[p], kstack[p], pgdir[p], sz[p], cr3[p], new[p], job[p])
    BY Known, Zenon DEF IInv
  <1>3. kstack[p] # 0 /\ new[p] = NoSpace
    BY <1>1, <1>2 DEF Fits, Placed
  <1>4. Typed'
    <2>1. 1 \in Slots
      BY VmAssumption DEF Slots
    <2>2. parent' \in [Slots -> Slots \cup {0}]
      BY <1>1, <1>2, <2>1 DEF Typed
    <2> QED BY <1>1, <1>2, <2>2, NoFrame DEF Typed, States
  <1>5. /\ state'[p] = "ZOMBIE" /\ kstack'[p] = kstack[p] /\ pgdir'[p] = pgdir[p] /\ new'[p] = NoSpace /\ job'[p] = NoJob
        /\ \A r \in Slots : r # p => Untouched(r)
    BY <1>1, <1>2, <1>3 DEF Typed, Untouched
  <1>6. Good(p)
    <2>1. Fits("ZOMBIE", kstack[p], pgdir[p], sz'[p], cr3'[p], NoSpace, NoJob)
      BY <1>3, AtRest, Zenon
    <2> QED BY <1>2, <1>5, <2>1, Nothing, Zenon DEF Good
  <1>7. Children'
    <2>1. \A r \in Slots : r # p => job'[r] = job[r]
      BY <1>1
    <2>2. \A c \in Slots : state[c] = "EMBRYO" => state'[c] = state[c] /\ kstack'[c] = kstack[c]
      BY <1>1, <1>2 DEF Typed
    <2>3. job'[p].op # "fork"
      BY <1>5, NoJobOk, SMTT(20)
    <2> QED BY <1>2, <2>1, <2>2, <2>3, ChildrenStep, Zenon
  <1>8. Exact'
    <2>1. \A r \in Slots, l \in Kinds : Held(r, l)' = Held(r, l)
      BY <1>1 DEF Held
    <2> QED BY <1>1, <1>2, <2>1, Stayed
  <1>9. panicked' = panicked
    BY <1>1
  <1> QED BY <1>4, <1>5, <1>6, <1>7, <1>8, <1>9, PairStep, Zenon

\* wait frees the stack and the space of a zombie.
LEMMA WaitStep ==
  ASSUME IInv, NEW p \in Slots, wait(p)
  PROVE  IInv'
  <1>1. PICK q \in Slots :
          /\ state[q] = "ZOMBIE" /\ free' = free \cup InSpace(pgdir[q]) \cup {kstack[q]}
          /\ kstack' = [kstack EXCEPT ![q] = 0] /\ pgdir' = [pgdir EXCEPT ![q] = NoSpace]
          /\ sz' = [sz EXCEPT ![q] = 0]
          /\ parent' = [parent EXCEPT ![q] = 0] /\ state' = [state EXCEPT ![q] = "UNUSED"]
          /\ UNCHANGED <<cr3, new, job, panicked>>
    BY Zenon DEF wait
  <1>2. /\ Typed /\ Exact /\ Children /\ free \subseteq Frames /\ pgdir[q] \in Space /\ kstack[q] \in Ptrs
        /\ Fits(state[q], kstack[q], pgdir[q], sz[q], cr3[q], new[q], job[q])
    BY Known, Zenon DEF IInv
  <1>3. kstack[q] # 0 /\ new[q] = NoSpace /\ job[q] = NoJob
    BY <1>1, <1>2 DEF Fits, Placed
  <1> DEFINE S == InSpace(pgdir[q]) \cup {kstack[q]}
  <1>4. free' = free \cup S /\ S \subseteq Frames
    <2>1. \A f \in InSpace(pgdir[q]) : f \in Frames
      BY <1>2, InFrames
    <2> QED BY <1>1, <1>2, <1>3, <2>1, NoFrame, Zenon
  <1>5. Typed'
    <2>1. free' \subseteq Frames /\ 0 \in 0..KERNBASE
      BY <1>2, <1>4, Sizes
    <2> QED BY <1>1, <1>2, <2>1, Nothing, NoFrame DEF Typed, States
  <1>6. /\ state'[q] = "UNUSED" /\ kstack'[q] = 0 /\ pgdir'[q] = NoSpace /\ new'[q] = NoSpace /\ job'[q] = NoJob
        /\ \A r \in Slots : r # q => Untouched(r)
    BY <1>1, <1>2, <1>3 DEF Typed, Untouched
  <1>7. Good(q)
    <2>1. Fits("UNUSED", 0, NoSpace, sz'[q], cr3'[q], NoSpace, NoJob)
      BY AtRest, Zenon
    <2> QED BY <1>6, <2>1, Nothing, Zenon DEF Good
  <1>8. Children'
    <2>1. \A r \in Slots : r # q => job'[r] = job[r]
      BY <1>1
    <2>2. \A c \in Slots : state[c] = "EMBRYO" => state'[c] = state[c] /\ kstack'[c] = kstack[c]
      BY <1>1, <1>2 DEF Typed
    <2>3. job'[q].op # "fork"
      BY <1>6, NoJobOk
    <2> QED BY <1>2, <2>1, <2>2, <2>3, ChildrenStep, Zenon
  <1>9. Exact'
    <2> DEFINE D == {<<q, "pgdir">>, <<q, "kstack">>}
    <2>1. D \in SUBSET (Slots \X Kinds)
      BY DEF Kinds
    <2>2. \A r \in Slots, l \in Kinds : <<r, l>> \in D <=> r = q /\ l \in {"pgdir", "kstack"}
      OBVIOUS
    <2> HIDE DEF D
    <2>3. Held(q, "pgdir")' = {} /\ Held(q, "kstack")' = {}
      BY <1>6, Places, Nothing
    <2>4. Held(q, "new")' = Held(q, "new") /\ Held(q, "hand")' = Held(q, "hand")
      <3>1. new'[q] = new[q] /\ job'[q].hand = job[q].hand
        BY <1>3, <1>6, Zenon
      <3> QED BY <3>1, Stays, Zenon
    <2>5. \A r \in Slots, l \in Kinds : r # q => Held(r, l)' = Held(r, l)
      BY <1>6, Zenon DEF Untouched, Held
    <2>6. \A r \in Slots, l \in Kinds : <<r, l>> \in D => Held(r, l)' = {}
      BY <2>2, <2>3, Zenon
    <2>7. \A r \in Slots, l \in Kinds : <<r, l>> \notin D => Held(r, l)' = Held(r, l)
      BY <2>2, <2>4, <2>5, Zenon DEF Kinds
    <2>8. \A f : f \in S <=> f \in Held(q, "pgdir") \/ f \in Held(q, "kstack")
      BY <1>3, Places, Zenon
    <2> HIDE DEF S
    <2>9. "pgdir" \in Kinds /\ "kstack" \in Kinds
      BY DEF Kinds
    <2>10. \A f : f \in S <=> \E r \in Slots, l \in Kinds : <<r, l>> \in D /\ f \in Held(r, l)
      BY <2>2, <2>8, <2>9, Zenon
    <2> QED BY <1>2, <1>4, <2>1, <2>6, <2>7, <2>10, Dropped, Zenon
  <1>10. panicked' = panicked
    BY <1>1
  <1> QED BY <1>5, <1>6, <1>7, <1>8, <1>9, <1>10, PairStep, Zenon
-----------------------------------------------------------------------------
(* The invariant *)

\* After userinit.
LEMMA InitHolds == Init => IInv
  <1> SUFFICES ASSUME Init PROVE IInv
    OBVIOUS
  <1> DEFINE tb == [NoSpace.tabs EXCEPT ![KernTab] = 3, ![0] = 4]
             pg == [NoSpace.pages EXCEPT ![0] = 5]
             s == [dir |-> 2, tabs |-> tb, pages |-> pg]
  <1>1. KernTab \in Tabs /\ 0 \in Tabs /\ KernTab # 0 /\ 0 \in UserPages
    <2>1. 0 \in 0..KERNBASE - 1
      BY Sizes
    <2> QED BY <2>1, TableOf, BelowZero, Zenon
  <1>2. {1, 2, 3, 4, 5} \subseteq Frames /\ 1..5 = {1, 2, 3, 4, 5} /\ 1 \in Slots
    BY VmAssumption DEF Frames, Slots
  <1>3. /\ NoSpace.tabs \in [Tabs -> {0}] /\ NoSpace.pages \in [UserPages -> {0}]
    BY DEF NoSpace
  <1>4. /\ s.dir = 2 /\ s.tabs = tb /\ s.pages = pg
        /\ tb \in [Tabs -> Ptrs] /\ pg \in [UserPages -> Ptrs]
        /\ tb[KernTab] = 3 /\ tb[0] = 4 /\ (\A t \in Tabs : t # 0 /\ t # KernTab => tb[t] = 0)
        /\ pg[0] = 5 /\ \A n \in UserPages : n # 0 => pg[n] = 0
    BY <1>1, <1>2, <1>3 DEF Ptrs
  <1>5. s \in Space
    BY <1>2, <1>4 DEF Space, Ptrs
  <1>6. /\ state = [p \in Slots |-> IF p = 1 THEN "RUN" ELSE "UNUSED"]
        /\ parent = [p \in Slots |-> 0]
        /\ kstack = [p \in Slots |-> IF p = 1 THEN 1 ELSE 0]
        /\ pgdir = [p \in Slots |-> IF p = 1 THEN s ELSE NoSpace]
        /\ sz = [p \in Slots |-> IF p = 1 THEN PGSIZE ELSE 0]
        /\ cr3 = [p \in Slots |-> IF p = 1 THEN 2 ELSE 0]
        /\ free = Frames \ 1..5
        /\ new = [p \in Slots |-> NoSpace] /\ job = [p \in Slots |-> NoJob]
        /\ panicked = FALSE
    BY Zenon DEF Init
  <1> HIDE DEF s, tb, pg
  <1>7. PGSIZE \in 0..KERNBASE /\ 0 \in 0..KERNBASE
    BY <1>1, Sizes, PageStep, BelowZero
  <1>8. Typed
    BY <1>2, <1>5, <1>6, <1>7, Nothing, NoJobOk, NoFrame DEF Typed, States, Ptrs
  <1>9. \A p \in Slots : p # 1 => /\ state[p] = "UNUSED" /\ kstack[p] = 0 /\ pgdir[p] = NoSpace
                                  /\ new[p] = NoSpace /\ job[p] = NoJob
    BY <1>6
  <1>10. /\ state[1] = "RUN" /\ kstack[1] = 1 /\ pgdir[1] = s /\ sz[1] = PGSIZE /\ cr3[1] = 2
         /\ new[1] = NoSpace /\ job[1] = NoJob
    BY <1>2, <1>6
  <1>11. Distinct(s)
    BY <1>4 DEF Distinct
  <1>12. Mapped(s) = Below(PGSIZE)
    <2>1. Mapped(s) = {0}
      BY <1>1, <1>4 DEF Mapped
    <2> QED BY <2>1, BelowZero, Zenon
  <1>13. \A f : f \in InSpace(s) <=> f \in {2, 3, 4, 5}
    BY <1>1, <1>4, InIt
  <1>14. Tidy
    BY <1>9, <1>10, <1>11, Nothing, Zenon DEF Tidy
  <1>15. Local
    <2>1. Fits("RUN", 1, s, PGSIZE, 2, NoSpace, NoJob)
      <3>1. Sized("RUN", s, PGSIZE, NoJob)
        BY <1>12, Zenon DEF Sized
      <3> QED BY <1>4, <3>1, Idle
    <2>2. \A p \in Slots : p # 1 => Fits("UNUSED", 0, NoSpace, sz[p], cr3[p], NoSpace, NoJob)
      BY AtRest, Zenon
    <2> QED BY <1>9, <1>10, <2>1, <2>2, Zenon DEF Local
  <1>16. Children
    BY <1>6, NoJobOk DEF Children
  <1>17. Exact
    <2>1. /\ Held(1, "pgdir") = InSpace(s) /\ Held(1, "new") = {} /\ Held(1, "hand") = {} /\ Held(1, "kstack") = {1}
      BY <1>10, Places, Nothing, NoJobOk, SMTT(20)
    <2>2. \A p \in Slots : p # 1 => /\ Held(p, "pgdir") = {} /\ Held(p, "new") = {}
                                    /\ Held(p, "hand") = {} /\ Held(p, "kstack") = {}
      BY <1>9, Places, Nothing, NoJobOk
    <2>3. \A p \in Slots, k \in Kinds : \A f : f \in Held(p, k) <=>
            p = 1 /\ ((k = "pgdir" /\ f \in {2, 3, 4, 5}) \/ (k = "kstack" /\ f = 1))
      BY <1>13, <2>1, <2>2 DEF Kinds
    <2>4. "pgdir" \in Kinds /\ "kstack" \in Kinds
      BY DEF Kinds
    <2> QED BY <1>2, <1>6, <2>3, <2>4 DEF Exact
  <1> QED BY <1>6, <1>8, <1>14, <1>15, <1>16, <1>17, Zenon DEF IInv

\* A call that fails, whichever it is.
LEMMA FailStep ==
  ASSUME IInv, NEW p \in Slots, Fails(p), job[p].op # "none" \/ job[p].phase # "none",
         job[p].op = "grow" => Looping(p)
  PROVE  IInv'
  <1>1. job[p].op \in {"grow", "fork", "exec"}
    BY InCall, SMTT(20) DEF Grows, Forks, Execs
  <1> QED BY <1>1, GrowFails, ForkFails, ExecFails, SMTT(20)

\* Only the loops of allocuvm and copyuvm work for sbrk.
LEMMA Elsewhere ==
  ASSUME IInv, NEW p \in Slots, job[p].phase \in {"kstack", "setup", "segs", "args"}
  PROVE  job[p].op # "grow"
  BY InCall DEF Grows, Forks, Execs

\* Every step of every process keeps the invariant.
LEMMA NextKeeps == IInv /\ [Next]_vars => IInv'
  <1> SUFFICES ASSUME IInv, [Next]_vars PROVE IInv'
    OBVIOUS
  <1>1. CASE UNCHANGED vars
    <2>1. /\ free' = free /\ state' = state /\ parent' = parent /\ kstack' = kstack /\ pgdir' = pgdir
          /\ sz' = sz /\ cr3' = cr3 /\ new' = new /\ job' = job /\ panicked' = panicked
      BY <1>1, Zenon DEF vars
    <2>2. Typed' /\ Tidy' /\ Local' /\ Children' /\ panicked' = FALSE
      BY <2>1 DEF IInv, Typed, Tidy, Local, Children
    <2>3. Exact'
      <3>1. \A r \in Slots, l \in Kinds : Held(r, l)' = Held(r, l)
        BY <2>1 DEF Held
      <3> QED BY <2>1, <3>1, Stayed DEF IInv
    <2> QED BY <2>2, <2>3, Zenon DEF IInv
  <1>2. ASSUME NEW p \in Slots, setupkvm(p) PROVE IInv'
    <2>1. CASE free = {}
      <3>1. Fails(p) /\ job[p].phase = "setup"
        BY <1>2, <2>1, Zenon DEF setupkvm
      <3> QED BY <3>1, FailStep, Elsewhere
    <2> QED BY <1>2, <2>1, SetupStep, Zenon
  <1>3. ASSUME NEW p \in Slots, PageAlloc(p) PROVE IInv'
    <2>1. CASE free = {}
      <3>1. Looping(p)
        BY <1>3, Zenon DEF PageAlloc
      <3>2. ~Absent(p) /\ job[p].op \in {"grow", "fork", "exec"}
        BY <3>1, Present, Zenon
      <3>3. Fails(p)
        BY <1>3, <2>1, <3>2, Zenon DEF PageAlloc
      <3> QED BY <3>1, <3>2, <3>3, FailStep
    <2> QED BY <1>3, <2>1, PageStepKeeps, Zenon
  <1>4. ASSUME NEW p \in Slots, mappages(p) PROVE IInv'
    <2>1. CASE Target(p).tabs[PDX(job[p].at)] = 0 /\ free = {}
      <3>1. Looping(p) /\ Fails(p)
        BY <1>4, <2>1, Zenon DEF mappages
      <3>2. job[p].op \in {"grow", "fork", "exec"}
        BY <3>1, Present, Zenon
      <3> QED BY <3>1, <3>2, FailStep
    <2> QED BY <1>4, <2>1, MapStep, Zenon
  <1>5. ASSUME NEW p \in Slots, allocproc(p) PROVE IInv'
    <2>1. CASE free = {}
      <3>1. Fails(p) /\ job[p].phase = "kstack"
        BY <1>5, <2>1, Zenon DEF allocproc
      <3> QED BY <3>1, FailStep, Elsewhere
    <2> QED BY <1>5, <2>1, StackTaken, Zenon
  <1>6. ASSUME NEW p \in Slots, ExecSegment(p) PROVE IInv'
    <2>1. job[p].phase = "segs"
      BY <1>6, Zenon DEF ExecSegment
    <2>2. Fails(p) => IInv'
      BY <2>1, FailStep, Elsewhere
    <2> QED BY <1>6, <2>2, SegmentStep, Zenon
  <1>7. ASSUME NEW p \in Slots, ExecStack(p) PROVE IInv'
    <2>1. job[p].phase = "segs"
      BY <1>7, Zenon DEF ExecStack
    <2>2. Fails(p) => IInv'
      BY <2>1, FailStep, Elsewhere
    <2> QED BY <1>7, <2>2, StackStep, Zenon
  <1>8. ASSUME NEW p \in Slots, ExecBad(p) PROVE IInv'
    <2>1. job[p].phase \in {"segs", "args"} /\ Fails(p)
      BY <1>8, Zenon DEF ExecBad
    <2> QED BY <2>1, FailStep, Elsewhere
  <1>9. CASE Next
    <2>1. PICK p \in Slots :
            \/ setupkvm(p) \/ PageAlloc(p) \/ mappages(p) \/ Grown(p) \/ ForkDone(p) \/ ExecAllocated(p)
            \/ sbrk(p) \/ fork(p) \/ allocproc(p) \/ exit(p) \/ wait(p)
            \/ exec(p) \/ ExecSegment(p) \/ ExecStack(p) \/ ExecBad(p) \/ ExecCommit(p) \/ freevm(p)
      BY <1>9, Zenon DEF Next
    <2>2. CASE setupkvm(p) \/ PageAlloc(p) \/ mappages(p) \/ allocproc(p) \/ ExecSegment(p) \/ ExecStack(p) \/ ExecBad(p)
      BY <1>2, <1>3, <1>4, <1>5, <1>6, <1>7, <1>8, <2>2, Zenon
    <2>3. CASE Grown(p) \/ ForkDone(p) \/ ExecAllocated(p) \/ sbrk(p) \/ fork(p)
      BY <2>3, GrownStep, ForkEnds, AllocatedStep, SbrkStep, ForkBegins, Zenon
    <2>4. CASE exit(p) \/ wait(p) \/ exec(p) \/ ExecCommit(p) \/ freevm(p)
      BY <2>4, ExitStep, WaitStep, ExecBegins, CommitStep, FreeOld, Zenon
    <2> QED BY <2>1, <2>2, <2>3, <2>4, Zenon
  <1> QED BY <1>1, <1>9, Zenon

\* IInv is invariant: it holds after userinit, and every step of every process
\* keeps it.
THEOREM Invariance == Spec => []IInv
  <1> QED BY InitHolds, NextKeeps, PTL DEF Spec

\* Every page of memory is on the free list or in exactly one place of one
\* process, wherever in fork, exec or sbrk memory runs out: FramesExact, for any
\* number of processes and pages.
THEOREM FramesHold == Spec => []FramesExact
  <1> QED BY Invariance, ExactFrames, PTL

\* A process has the pages below its size, so copyuvm finds every page it copies,
\* mappages remaps none, and nothing here panics: SizeMapped, for any sizes.
THEOREM SizesHold == Spec => []SizeMapped
  <1> QED BY Invariance, SizesMapped, PTL

\* The loaded page directory is never on the free list: LoadedLive.
THEOREM LoadedHolds == Spec => []LoadedLive
  <1> QED BY Invariance, LoadedIsLive, PTL
=============================================================================
