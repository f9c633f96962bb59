------------------------------ MODULE VmSteps -------------------------------
(***************************************************************************)
(* Proofs about Vm, for any number of slots and frames, any sizes of pages *)
(* and tables, and any arguments of sbrk and program headers: the          *)
(* inductive invariant and what it says, lemmas about pages, spaces and    *)
(* frames, and the steps that build and free a space.                      *)
(***************************************************************************)
EXTENDS Vm, TLAPS

\* The pages a space has, and those below an address.
Mapped(s) == {n \in UserPages : s.pages[n] # 0}
Below(a) == {n \in UserPages : n * PGSIZE < a}
Aligned(a) == \E k \in 0..KERNBASE \div PGSIZE : a = k * PGSIZE

\* The values the variables range over.
Ptrs == Frames \cup {0}
States == {"UNUSED", "EMBRYO", "RUN", "ZOMBIE"}
Space == [dir : Ptrs, tabs : [Tabs -> Ptrs], pages : [UserPages -> Ptrs]]
Jobs == [op : {"none", "grow", "fork", "exec"},
         phase : {"none", "kstack", "setup", "pages", "segs", "args", "freeold"},
         at : 0..KERNBASE, end : 0..KERNBASE, hand : Ptrs, child : Slots \cup {0}, segs : Nat]

\* The type of every variable.
Typed ==
    /\ free \subseteq Frames /\ state \in [Slots -> States]
    /\ parent \in [Slots -> Slots \cup {0}] /\ kstack \in [Slots -> Ptrs]
    /\ pgdir \in [Slots -> Space] /\ new \in [Slots -> Space]
    /\ sz \in [Slots -> 0..KERNBASE] /\ cr3 \in [Slots -> Ptrs] /\ job \in [Slots -> Jobs]

\* No frame is at two places of a space.
Distinct(s) ==
    /\ \A t \in Tabs : s.tabs[t] # 0 => s.tabs[t] # s.dir /\ \A u \in Tabs : s.tabs[u] = s.tabs[t] => u = t
    /\ \A n \in UserPages : s.pages[n] # 0 =>
         /\ s.pages[n] # s.dir /\ \A t \in Tabs : s.tabs[t] # s.pages[n]
         /\ \A m \in UserPages : s.pages[m] = s.pages[n] => m = n

\* What a process holds frames for.
Kinds == {"pgdir", "new", "kstack", "hand"}
HeldIn(k, ks, pd, nw, h) ==
    CASE k = "pgdir" -> InSpace(pd) [] k = "new" -> InSpace(nw)
      [] k = "kstack" -> {ks} \ {0} [] k = "hand" -> {h} \ {0}
Held(p, k) == HeldIn(k, kstack[p], pgdir[p], new[p], job[p].hand)

\* FramesExact, frame by frame.
Exact ==
    /\ \A p \in Slots, k \in Kinds : \A f \in Held(p, k) : f \in Frames /\ f \notin free
    /\ \A p, q \in Slots, k, l \in Kinds : \A f \in Held(p, k) : f \in Held(q, l) => p = q /\ k = l
    /\ \A f \in Frames : f \in free \/ \E p \in Slots, k \in Kinds : f \in Held(p, k)
Tidy == \A p \in Slots : Distinct(pgdir[p]) /\ Distinct(new[p])

\* The loop over pages is at a page, at most one past the end, and has a page in
\* hand only where it has one to map.
Loop(j) == Aligned(j.at) /\ j.at < j.end + PGSIZE /\ (j.hand # 0 => j.at < j.end)
Bare(s) == s.tabs = NoSpace.tabs /\ s.pages = NoSpace.pages

\* A call of sbrk, fork or exec under way, with the space pd of size z that the
\* process has and the space nw that it builds.
Grows(pd, z, nw, j) ==
    /\ j.op = "grow" /\ j.phase = "pages" /\ nw = NoSpace
    /\ Mapped(pd) = Below(j.at) /\ Loop(j) /\ z <= j.at /\ z < j.end
Forks(pd, z, nw, j) ==
    /\ j.op = "fork" /\ pd.pages[0] # 0
    /\ \/ j.phase = "kstack" /\ nw = NoSpace /\ j.at = 0 /\ j.hand = 0
       \/ j.phase = "setup" /\ Bare(nw) /\ j.at = 0 /\ j.hand = 0
       \/ j.phase = "pages" /\ nw.dir # 0 /\ Mapped(nw) = Below(j.at) /\ Loop(j) /\ j.end = z
Execs(nw, j) ==
    /\ j.op = "exec"
    /\ \/ j.phase = "setup" /\ Bare(nw) /\ j.end = 0 /\ j.hand = 0
       \/ j.phase \in {"segs", "args"} /\ nw.dir # 0 /\ Mapped(nw) = Below(j.end) /\ j.hand = 0
       \/ j.phase = "pages" /\ nw.dir # 0 /\ Mapped(nw) = Below(j.at) /\ Loop(j)
       \/ j.phase = "freeold" /\ j.hand = 0

\* What is known of a process by itself: its stack and its space by its state, the
\* loaded directory, its size, and the call it is in.
Placed(st, ks, pd, c, nw, j) ==
    /\ st = "UNUSED" => ks = 0
    /\ st \in {"RUN", "ZOMBIE"} => ks # 0
    /\ st \in {"UNUSED", "EMBRYO"} => pd = NoSpace
    /\ st = "RUN" => c = pd.dir /\ pd.dir # 0
    /\ st # "RUN" => j = NoJob
    /\ j = NoJob => nw = NoSpace
Sized(st, pd, z, j) == st = "RUN" /\ pd.pages[0] # 0 /\ j.op # "grow" => Mapped(pd) = Below(z)
Works(pd, z, nw, j) == j = NoJob \/ Grows(pd, z, nw, j) \/ Forks(pd, z, nw, j) \/ Execs(nw, j)
Fits(st, ks, pd, z, c, nw, j) == Placed(st, ks, pd, c, nw, j) /\ Sized(st, pd, z, j) /\ Works(pd, z, nw, j)
Local == \A p \in Slots : Fits(state[p], kstack[p], pgdir[p], sz[p], cr3[p], new[p], job[p])

\* A fork has a slot of its own, with a stack once allocproc is done.
Children ==
    /\ \A p \in Slots : job[p].op = "fork" =>
         /\ job[p].child \in Slots /\ state[job[p].child] = "EMBRYO"
         /\ kstack[job[p].child] = 0 <=> job[p].phase = "kstack"
    /\ \A p, q \in Slots : job[p].op = "fork" /\ job[q].op = "fork" /\ job[p].child = job[q].child => p = q

\* The inductive invariant.
IInv == Typed /\ Exact /\ Tidy /\ Local /\ Children /\ panicked = FALSE
-----------------------------------------------------------------------------
(* Pages and addresses *)

\* A page has a size, and user memory is a whole number of pages.
LEMMA Sizes ==
  /\ PGSIZE \in Nat \ {0} /\ KERNBASE \in Nat \ {0} /\ KERNBASE \div PGSIZE \in Nat \ {0}
  /\ KERNBASE = (KERNBASE \div PGSIZE) * PGSIZE
  <1> DEFINE w == KERNBASE \div (PGSIZE * TabSize)
  <1>1. PGSIZE \in Nat \ {0} /\ KERNBASE \in Nat \ {0} /\ TabSize \in Nat \ {0}
    BY VmAssumption
  <1>2. PGSIZE * TabSize \in Nat \ {0}
    BY <1>1
  <1>3. KERNBASE % (PGSIZE * TabSize) = 0
    BY VmAssumption
  <1>4. w \in Nat /\ KERNBASE = w * (PGSIZE * TabSize)
    BY <1>1, <1>2, <1>3
  <1> HIDE DEF w
  <1>5. w * TabSize \in Nat /\ KERNBASE = (w * TabSize) * PGSIZE
    BY <1>1, <1>4
  <1> DEFINE v == w * TabSize
  <1>6. v \in Nat /\ KERNBASE = v * PGSIZE
    BY <1>5
  <1> HIDE DEF v
  <1>7. KERNBASE \div PGSIZE = v
    BY <1>1, <1>6
  <1>8. v # 0
    BY <1>1, <1>6
  <1> QED BY <1>1, <1>6, <1>7, <1>8

\* Every user address has a table, and the kernel's table is another one.
LEMMA TableOf ==
  ASSUME NEW a \in 0..KERNBASE - 1
  PROVE  PDX(a) \in Tabs /\ KernTab \in Tabs /\ 0 \in Tabs /\ KernTab # 0
  <1> DEFINE d == PGSIZE * TabSize
             w == KERNBASE \div d
  <1>1. KERNBASE \in Nat \ {0} /\ PGSIZE \in Nat \ {0} /\ TabSize \in Nat \ {0}
    BY VmAssumption
  <1>2. d \in Nat \ {0} /\ KERNBASE % d = 0
    BY <1>1, VmAssumption
  <1>3. PDX(a) = a \div d /\ KernTab = w
    BY Zenon DEF PDX, KernTab
  <1> HIDE DEF d
  <1>4. w \in Nat /\ KERNBASE = w * d
    BY <1>1, <1>2
  <1>5. a \div d \in Nat /\ (a \div d) * d <= a
    BY <1>1, <1>2
  <1> DEFINE b == a \div d
  <1> HIDE DEF w, b
  <1>6. b \in Nat /\ b * d <= a /\ a < w * d
    BY <1>1, <1>4, <1>5 DEF b
  <1>7. b < w
    BY <1>2, <1>4, <1>6
  <1>8. PDX(a) = b /\ KernTab = w
    BY <1>3 DEF b
  <1> QED BY <1>4, <1>6, <1>7, <1>8 DEF Tabs

\* No page is below 0, and the first one is below PGSIZE.
LEMMA BelowZero == Below(0) = {} /\ Aligned(0) /\ 0 \in UserPages /\ Below(PGSIZE) = {0}
  <1> DEFINE w == KERNBASE \div PGSIZE
  <1>1. PGSIZE \in Nat \ {0} /\ w \in Nat \ {0}
    BY Sizes
  <1>2. UserPages = 0..w - 1
    BY Zenon DEF UserPages
  <1> HIDE DEF w
  <1>3. \A n \in UserPages : ~(n * PGSIZE < 0) /\ (n * PGSIZE < PGSIZE <=> n = 0)
    BY <1>1, <1>2
  <1>4. 0 \in UserPages /\ 0 * PGSIZE = 0 /\ 0 \in 0..w
    BY <1>1, <1>2
  <1>5. Aligned(0)
    BY <1>4, Zenon DEF Aligned, w
  <1> QED BY <1>3, <1>4, <1>5, Zenon DEF Below

\* Rounding up moves to a page and over none.
LEMMA Rounded ==
  ASSUME NEW a \in 0..KERNBASE
  PROVE  /\ PGROUNDUP(a) \in 0..KERNBASE /\ Aligned(PGROUNDUP(a))
         /\ a <= PGROUNDUP(a) /\ PGROUNDUP(a) < a + PGSIZE
  <1> DEFINE w == KERNBASE \div PGSIZE
             q == (a + PGSIZE - 1) \div PGSIZE
  <1>1. PGSIZE \in Nat \ {0} /\ KERNBASE \in Nat \ {0} /\ w \in Nat \ {0} /\ KERNBASE = w * PGSIZE /\ a \in Nat
    BY Sizes
  <1>2. q \in Nat /\ q * PGSIZE <= a + PGSIZE - 1 /\ a + PGSIZE - 1 < q * PGSIZE + PGSIZE
    BY <1>1
  <1>3. PGROUNDUP(a) = (q * PGSIZE) % (2 * KERNBASE)
    BY Zenon DEF PGROUNDUP, UINT
  <1> HIDE DEF q, w
  <1>4. q * PGSIZE < w * PGSIZE + PGSIZE
    BY <1>1, <1>2
  <1>5. q <= w
    BY <1>1, <1>2, <1>4
  <1>6. q * PGSIZE <= KERNBASE /\ q * PGSIZE \in Nat
    BY <1>1, <1>2, <1>5
  <1>7. PGROUNDUP(a) = q * PGSIZE
    BY <1>1, <1>3, <1>6
  <1>8. q \in 0..w
    BY <1>1, <1>2, <1>5
  <1>9. Aligned(PGROUNDUP(a))
    BY <1>7, <1>8, Zenon DEF Aligned, w
  <1> QED BY <1>1, <1>2, <1>6, <1>7, <1>9

\* Up to the next page boundary there is no other page.
LEMMA BelowPage ==
  ASSUME NEW a \in Nat, NEW r, Aligned(r), a <= r, r < a + PGSIZE
  PROVE  Below(r) = Below(a)
  <1> DEFINE w == KERNBASE \div PGSIZE
  <1>1. PICK k \in 0..w : r = k * PGSIZE
    BY Zenon DEF Aligned
  <1>2. PGSIZE \in Nat \ {0} /\ w \in Nat \ {0} /\ UserPages = 0..w - 1
    BY Sizes DEF UserPages
  <1> HIDE DEF w
  <1>3. ASSUME NEW n \in UserPages PROVE n * PGSIZE < r <=> n * PGSIZE < a
    <2>1. n \in Nat /\ k \in Nat /\ n * PGSIZE \in Nat /\ k * PGSIZE \in Nat
      BY <1>1, <1>2
    <2>2. n < k => n * PGSIZE + PGSIZE <= k * PGSIZE
      BY <1>2, <2>1
    <2>3. ~(n < k) => k * PGSIZE <= n * PGSIZE
      BY <1>2, <2>1
    <2> QED BY <1>1, <1>2, <2>1, <2>2, <2>3
  <1> QED BY <1>3, Zenon DEF Below

\* A step of the loop over pages.
LEMMA PageStep ==
  ASSUME NEW a \in Nat, Aligned(a), a < KERNBASE
  PROVE  /\ Page(a) \in UserPages /\ Page(a) * PGSIZE = a /\ Page(a) \notin Below(a)
         /\ Below(a + PGSIZE) = Below(a) \cup {Page(a)}
         /\ Aligned(a + PGSIZE) /\ a + PGSIZE \in 0..KERNBASE
  <1> DEFINE w == KERNBASE \div PGSIZE
  <1>1. PICK k \in 0..w : a = k * PGSIZE
    BY Zenon DEF Aligned
  <1>2. /\ PGSIZE \in Nat \ {0} /\ w \in Nat \ {0} /\ UserPages = 0..w - 1 /\ KERNBASE = w * PGSIZE
        /\ k \in Nat
    BY Sizes DEF UserPages
  <1>3. Page(a) = k
    BY <1>1, <1>2 DEF Page
  <1> HIDE DEF w
  <1>4. k < w
    BY <1>1, <1>2
  <1>5. k + 1 \in 0..w /\ a + PGSIZE = (k + 1) * PGSIZE /\ (k + 1) * PGSIZE <= w * PGSIZE
    BY <1>1, <1>2, <1>4
  <1>6. Aligned(a + PGSIZE)
    BY <1>5, Zenon DEF Aligned, w
  <1>7. k \in UserPages
    BY <1>2, <1>4
  <1>8. ASSUME NEW n \in UserPages PROVE n * PGSIZE < a + PGSIZE <=> n * PGSIZE < a \/ n = k
    <2>1. n \in Nat
      BY <1>2
    <2>2. n * PGSIZE < (k + 1) * PGSIZE <=> n < k + 1
      BY <1>2, <2>1
    <2>3. n * PGSIZE < k * PGSIZE <=> n < k
      BY <1>2, <2>1
    <2>4. n < k + 1 <=> n < k \/ n = k
      BY <1>2, <2>1
    <2> QED BY <1>1, <1>5, <2>2, <2>3, <2>4, Zenon
  <1>9. ~(k * PGSIZE < a)
    BY <1>1, <1>2
  <1>10. Below(a + PGSIZE) = Below(a) \cup {k}
    BY <1>7, <1>8, Zenon DEF Below
  <1>11. a + PGSIZE \in 0..KERNBASE
    BY <1>1, <1>2, <1>5
  <1> QED BY <1>1, <1>3, <1>6, <1>7, <1>9, <1>10, <1>11, Zenon DEF Below

\* deallocuvm leaves the pages below newsz.
LEMMA Shrunk ==
  ASSUME NEW o \in 0..KERNBASE, NEW z \in 0..KERNBASE, NEW b \in 0..KERNBASE, z <= b, b <= o
  PROVE  Below(b) \ Above(o, z) = Below(z)
  <1>1. /\ PGROUNDUP(z) \in 0..KERNBASE /\ Aligned(PGROUNDUP(z))
        /\ z <= PGROUNDUP(z) /\ PGROUNDUP(z) < z + PGSIZE /\ z \in Nat
    BY Rounded, Sizes
  <1>2. Below(PGROUNDUP(z)) = Below(z)
    BY <1>1, BelowPage, Zenon
  <1> DEFINE r == PGROUNDUP(z)
  <1>3. \A n \in UserPages : n * PGSIZE < r <=> n * PGSIZE < z
    BY <1>2, Zenon DEF Below
  <1>4. r \in Nat /\ PGSIZE \in Nat
    BY <1>1, Sizes
  <1> HIDE DEF r
  <1>5. ASSUME NEW n \in UserPages
        PROVE  n * PGSIZE < b /\ ~(r <= n * PGSIZE /\ n * PGSIZE < o) <=> n * PGSIZE < z
    <2>1. n * PGSIZE \in Int
      BY <1>4 DEF UserPages
    <2> DEFINE m == n * PGSIZE
    <2>2. m \in Int /\ (m < r <=> m < z)
      BY <1>3, <2>1, Zenon
    <2> HIDE DEF m
    <2>3. m < b /\ ~(r <= m /\ m < o) <=> m < z
      BY <1>4, <2>2
    <2> QED BY <2>3 DEF m
  <1> QED BY <1>5, Zenon DEF Below, Above, r
-----------------------------------------------------------------------------
(* Spaces *)

\* The frames of a space, place by place.
LEMMA InIt ==
  \A s, f : f \in InSpace(s) <=>
    f # 0 /\ (f = s.dir \/ (\E t \in Tabs : s.tabs[t] = f) \/ (\E n \in UserPages : s.pages[n] = f))
  BY Zenon DEF InSpace

\* The pointer that is not set is no frame.
LEMMA NoFrame == 0 \notin Frames /\ 0 \in Ptrs /\ \A f \in Ptrs : f # 0 => f \in Frames
  BY VmAssumption DEF Frames, Ptrs

\* A space has frames of the memory.
LEMMA InFrames == \A s \in Space : \A f \in InSpace(s) : f \in Frames
  BY InIt, NoFrame DEF Space

\* A space that has nothing but a directory, or not even that.
LEMMA BareSpace ==
  ASSUME NEW s \in Space, Bare(s)
  PROVE  /\ Mapped(s) = {} /\ Distinct(s)
         /\ (\A t \in Tabs : s.tabs[t] = 0) /\ (\A n \in UserPages : s.pages[n] = 0)
         /\ \A f : f \in InSpace(s) <=> f # 0 /\ f = s.dir
  <1>1. (\A t \in Tabs : s.tabs[t] = 0) /\ (\A n \in UserPages : s.pages[n] = 0)
    BY Zenon DEF Bare, NoSpace
  <1>2. Mapped(s) = {}
    BY <1>1, Zenon DEF Mapped
  <1>3. Distinct(s)
    BY <1>1, Zenon DEF Distinct
  <1>4. \A f : f \in InSpace(s) <=> f # 0 /\ f = s.dir
    BY <1>1, InIt
  <1> QED BY <1>1, <1>2, <1>3, <1>4, Zenon

\* The empty space.
LEMMA Nothing ==
  /\ NoSpace \in Space /\ Bare(NoSpace) /\ NoSpace.dir = 0
  /\ Mapped(NoSpace) = {} /\ Distinct(NoSpace) /\ InSpace(NoSpace) = {}
  <1>1. NoSpace \in Space
    BY NoFrame DEF NoSpace, Space
  <1>2. Bare(NoSpace) /\ NoSpace.dir = 0
    BY DEF Bare, NoSpace
  <1> QED BY <1>1, <1>2, BareSpace, Zenon

\* A process that is in no call.
LEMMA NoJobOk ==
  /\ NoJob \in Jobs /\ NoJob.op = "none" /\ NoJob.phase = "none" /\ NoJob.hand = 0
  /\ NoJob.at = 0 /\ NoJob.end = 0
  BY NoFrame, VmAssumption DEF NoJob, Jobs

\* kalloc of a directory: the space has one frame more, and nothing else.
LEMMA AddDir ==
  ASSUME NEW s \in Space, NEW f \in Frames, s.dir = 0, f \notin InSpace(s), Distinct(s)
  PROVE  LET r == [s EXCEPT !.dir = f]
         IN /\ r \in Space /\ InSpace(r) = InSpace(s) \cup {f} /\ Distinct(r)
            /\ r.dir = f /\ r.tabs = s.tabs /\ r.pages = s.pages
  <1> DEFINE r == [s EXCEPT !.dir = f]
  <1>1. r \in Space /\ r.dir = f /\ r.tabs = s.tabs /\ r.pages = s.pages /\ f # 0
    BY NoFrame DEF Space, Ptrs
  <1> HIDE DEF r
  <1>2. \A g : g \in InSpace(r) <=> g \in InSpace(s) \/ g = f
    BY <1>1, InIt
  <1>3. InSpace(r) = InSpace(s) \cup {f}
    BY <1>2, Zenon
  <1>4. Distinct(r)
    <2>1. (\A t \in Tabs : s.tabs[t] # f) /\ (\A n \in UserPages : s.pages[n] # f)
      BY <1>1, InIt, Zenon
    <2> QED BY <1>1, <2>1, Zenon DEF Distinct
  <1> QED BY <1>1, <1>3, <1>4, Zenon DEF r

\* The same of a table.
LEMMA AddTab ==
  ASSUME NEW s \in Space, NEW f \in Frames, NEW t \in Tabs, s.tabs[t] = 0, f \notin InSpace(s), Distinct(s)
  PROVE  LET r == [s EXCEPT !.tabs[t] = f]
         IN /\ r \in Space /\ InSpace(r) = InSpace(s) \cup {f} /\ Distinct(r)
            /\ r.dir = s.dir /\ r.pages = s.pages
  <1> DEFINE r == [s EXCEPT !.tabs[t] = f]
  <1>0. f \in Ptrs /\ f # 0
    BY NoFrame, Zenon DEF Ptrs
  <1>1. /\ r \in Space /\ r.dir = s.dir /\ r.pages = s.pages /\ f # 0
        /\ r.tabs[t] = f /\ \A u \in Tabs : u # t => r.tabs[u] = s.tabs[u]
    BY <1>0 DEF Space
  <1> HIDE DEF r
  <1>2. \A g : g \in InSpace(r) <=> g \in InSpace(s) \/ g = f
    BY <1>1, InIt
  <1>3. InSpace(r) = InSpace(s) \cup {f}
    BY <1>2, Zenon
  <1>4. Distinct(r)
    <2>1. s.dir # f /\ (\A u \in Tabs : s.tabs[u] # f) /\ (\A n \in UserPages : s.pages[n] # f)
      BY <1>1, InIt, Zenon
    <2> QED BY <1>1, <2>1 DEF Distinct
  <1> QED BY <1>1, <1>3, <1>4, Zenon DEF r

\* The same of a page.
LEMMA AddPage ==
  ASSUME NEW s \in Space, NEW f \in Frames, NEW n \in UserPages, s.pages[n] = 0, f \notin InSpace(s), Distinct(s)
  PROVE  LET r == [s EXCEPT !.pages[n] = f]
         IN /\ r \in Space /\ InSpace(r) = InSpace(s) \cup {f} /\ Distinct(r)
            /\ r.dir = s.dir /\ r.tabs = s.tabs /\ Mapped(r) = Mapped(s) \cup {n}
            /\ \A m \in UserPages : s.pages[m] # 0 => r.pages[m] # 0
  <1> DEFINE r == [s EXCEPT !.pages[n] = f]
  <1>0. f \in Ptrs /\ f # 0
    BY NoFrame, Zenon DEF Ptrs
  <1>1. /\ r \in Space /\ r.dir = s.dir /\ r.tabs = s.tabs /\ f # 0
        /\ r.pages[n] = f /\ \A m \in UserPages : m # n => r.pages[m] = s.pages[m]
    BY <1>0 DEF Space
  <1> HIDE DEF r
  <1>2. \A g : g \in InSpace(r) <=> g \in InSpace(s) \/ g = f
    BY <1>1, InIt
  <1>3. InSpace(r) = InSpace(s) \cup {f}
    BY <1>2, Zenon
  <1>4. Distinct(r)
    <2>1. s.dir # f /\ (\A t \in Tabs : s.tabs[t] # f) /\ (\A m \in UserPages : s.pages[m] # f)
      BY <1>1, InIt, Zenon
    <2> QED BY <1>1, <2>1 DEF Distinct
  <1>5. Mapped(r) = Mapped(s) \cup {n}
    BY <1>1, Zenon DEF Mapped
  <1> QED BY <1>1, <1>3, <1>4, <1>5, Zenon DEF r

\* mappages: the page in hand, and its table, old or new.
WithPage(s, t, f, n, h) == [s EXCEPT !.tabs[t] = f, !.pages[n] = h]

\* The space then has these frames and this page more.
LEMMA MapPage ==
  ASSUME NEW s \in Space, NEW h \in Frames, NEW n \in UserPages, s.pages[n] = 0, h \notin InSpace(s),
         Distinct(s), NEW t \in Tabs, NEW f,
         \/ f = s.tabs[t] /\ f # 0
         \/ f \in Frames /\ s.tabs[t] = 0 /\ f \notin InSpace(s) /\ f # h
  PROVE  LET r == WithPage(s, t, f, n, h)
         IN /\ r \in Space /\ InSpace(r) = InSpace(s) \cup {f, h} /\ Distinct(r)
            /\ r.dir = s.dir /\ Mapped(r) = Mapped(s) \cup {n}
            /\ \A m \in UserPages : s.pages[m] # 0 => r.pages[m] # 0
  <1> DEFINE u == [s EXCEPT !.tabs[t] = f]
             r == [u EXCEPT !.pages[n] = h]
  <1>1. r = WithPage(s, t, f, n, h)
    BY DEF WithPage
  <1>2. /\ u \in Space /\ InSpace(u) = InSpace(s) \cup {f} /\ Distinct(u)
        /\ u.dir = s.dir /\ u.pages = s.pages
    <2>1. CASE f = s.tabs[t] /\ f # 0
      <3>1. u = s
        BY <2>1 DEF Space
      <3>2. f \in InSpace(s)
        BY <2>1, InIt, Zenon
      <3> QED BY <3>1, <3>2, Zenon
    <2>2. CASE f \in Frames /\ s.tabs[t] = 0 /\ f \notin InSpace(s) /\ f # h
      BY <2>2, AddTab, Zenon
    <2> QED BY <2>1, <2>2, Zenon
  <1> HIDE DEF u
  <1>3. u.pages[n] = 0 /\ h \notin InSpace(u)
    <2>1. h # f
      <3>1. f # 0 /\ f = s.tabs[t] => f \in InSpace(s)
        BY InIt, Zenon
      <3> QED BY <3>1, Zenon
    <2> QED BY <1>2, <2>1, Zenon
  <1>4. /\ r \in Space /\ InSpace(r) = InSpace(u) \cup {h} /\ Distinct(r)
        /\ r.dir = u.dir /\ Mapped(r) = Mapped(u) \cup {n}
        /\ \A m \in UserPages : u.pages[m] # 0 => r.pages[m] # 0
    BY <1>2, <1>3, AddPage
  <1> HIDE DEF r
  <1>5. Mapped(u) = Mapped(s)
    BY <1>2, Zenon DEF Mapped
  <1>6. InSpace(s) \cup {f} \cup {h} = InSpace(s) \cup {f, h}
    BY Zenon
  <1>7. /\ r \in Space /\ InSpace(r) = InSpace(s) \cup {f, h} /\ Distinct(r)
        /\ r.dir = s.dir /\ Mapped(r) = Mapped(s) \cup {n}
        /\ \A m \in UserPages : s.pages[m] # 0 => r.pages[m] # 0
    BY <1>2, <1>4, <1>5, <1>6, Zenon
  <1> QED BY <1>1, <1>7, Zenon

\* deallocuvm takes the pages from a space that are above, and adds nothing.
LEMMA Dealloc ==
  ASSUME NEW s \in Space, Distinct(s), NEW o, NEW z
  PROVE  LET r == deallocuvm(s, o, z)
         IN /\ r \in Space /\ Distinct(r) /\ Mapped(r) = Mapped(s) \ Above(o, z)
            /\ (\A f \in InSpace(r) : f \in InSpace(s)) /\ r.dir = s.dir /\ r.tabs = s.tabs
            /\ \A n \in UserPages : r.pages[n] # 0 => s.pages[n] # 0
  <1> DEFINE r == deallocuvm(s, o, z)
  <1>1. /\ r \in Space /\ r.dir = s.dir /\ r.tabs = s.tabs
        /\ \A n \in UserPages : r.pages[n] = IF n \in Above(o, z) THEN 0 ELSE s.pages[n]
    BY NoFrame DEF deallocuvm, Space
  <1> HIDE DEF r
  <1>2. \A f \in InSpace(r) : f \in InSpace(s)
    BY <1>1, InIt
  <1>3. Distinct(r)
    BY <1>1, Zenon DEF Distinct
  <1>4. Mapped(r) = Mapped(s) \ Above(o, z)
    BY <1>1, Zenon DEF Mapped
  <1>5. \A n \in UserPages : r.pages[n] # 0 => s.pages[n] # 0
    BY <1>1, Zenon
  <1> QED BY <1>1, <1>2, <1>3, <1>4, <1>5, Zenon DEF r
-----------------------------------------------------------------------------
(* Frames change hands *)

\* HeldIn, case by case.
LEMMA Holdings ==
  \A ks, pd, nw, h :
    /\ HeldIn("pgdir", ks, pd, nw, h) = InSpace(pd) /\ HeldIn("new", ks, pd, nw, h) = InSpace(nw)
    /\ HeldIn("kstack", ks, pd, nw, h) = {ks} \ {0} /\ HeldIn("hand", ks, pd, nw, h) = {h} \ {0}
  BY DEF HeldIn

\* A frame has one place.
LEMMA Alone ==
  ASSUME Exact
  PROVE  \A p, q \in Slots, k, l \in Kinds : \A f : f \in Held(p, k) /\ f \in Held(q, l) => p = q /\ k = l
  BY Zenon DEF Exact

\* kalloc for one place.
LEMMA Taken ==
  ASSUME Exact, NEW p \in Slots, NEW k \in Kinds, NEW f \in free, f \in Frames, free' = free \ {f},
         Held(p, k)' = Held(p, k) \cup {f},
         \A q \in Slots, l \in Kinds : q # p \/ l # k => Held(q, l)' = Held(q, l)
  PROVE  Exact'
  <1>1. \A q \in Slots, l \in Kinds : \A g : g \in Held(q, l)' <=> g \in Held(q, l) \/ (q = p /\ l = k /\ g = f)
    BY Zenon
  <1>2. \A q \in Slots, l \in Kinds : f \notin Held(q, l)
    BY Zenon DEF Exact
  <1>3. \A q \in Slots, l \in Kinds : \A g \in Held(q, l)' : g \in Frames /\ g \notin free'
    BY <1>1, <1>2, Zenon DEF Exact
  <1>4. \A q, r \in Slots, l, m \in Kinds : \A g \in Held(q, l)' : g \in Held(r, m)' => q = r /\ l = m
    BY <1>1, <1>2, Alone
  <1>5. \A g \in Frames : g \in free' \/ \E q \in Slots, l \in Kinds : g \in Held(q, l)'
    BY <1>1, Zenon DEF Exact
  <1> QED BY <1>3, <1>4, <1>5, Zenon DEF Exact

\* kfree of a set of frames, wherever they were.
LEMMA Gave ==
  ASSUME Exact, NEW S, free' = free \cup S,
         \A f \in S : \E p \in Slots, k \in Kinds : f \in Held(p, k),
         \A p \in Slots, k \in Kinds : \A f : f \in Held(p, k)' <=> f \in Held(p, k) /\ f \notin S
  PROVE  Exact'
  <1>1. \A q \in Slots, l \in Kinds : \A g \in Held(q, l)' : g \in Frames /\ g \notin free'
    BY Zenon DEF Exact
  <1>2. \A q, r \in Slots, l, m \in Kinds : \A g \in Held(q, l)' : g \in Held(r, m)' => q = r /\ l = m
    BY Alone
  <1>3. \A g \in Frames : g \in free' \/ \E q \in Slots, l \in Kinds : g \in Held(q, l)'
    BY Zenon DEF Exact
  <1> QED BY <1>1, <1>2, <1>3, Zenon DEF Exact

\* A page in hand is mapped, with a new table or without.
LEMMA Moved ==
  ASSUME Exact, NEW p \in Slots, NEW k \in {"pgdir", "new"}, NEW T \in SUBSET free, T \subseteq Frames,
         free' = free \ T, Held(p, "hand")' = {}, Held(p, k)' = Held(p, k) \cup T \cup Held(p, "hand"),
         \A q \in Slots, l \in Kinds : q # p \/ l \notin {k, "hand"} => Held(q, l)' = Held(q, l)
  PROVE  Exact'
  <1>0. k \in Kinds /\ "hand" \in Kinds /\ k # "hand"
    BY DEF Kinds
  <1>1. \A q \in Slots, l \in Kinds : \A g : g \in Held(q, l)' <=>
          \/ g \in Held(q, l) /\ ~(q = p /\ l = "hand")
          \/ q = p /\ l = k /\ (g \in T \/ g \in Held(p, "hand"))
    BY <1>0, Zenon
  <1>2. \A q \in Slots, l \in Kinds : \A g \in T : g \notin Held(q, l)
    BY Zenon DEF Exact
  <1>3. \A q \in Slots, l \in Kinds : \A g \in Held(q, l)' : g \in Frames /\ g \notin free'
    BY <1>0, <1>1, <1>2, Zenon DEF Exact
  <1>4. \A q, r \in Slots, l, m \in Kinds : \A g \in Held(q, l)' : g \in Held(r, m)' => q = r /\ l = m
    BY <1>0, <1>1, <1>2, Alone
  <1>5. \A g \in Frames : g \in free' \/ \E q \in Slots, l \in Kinds : g \in Held(q, l)'
    BY <1>0, <1>1, Zenon DEF Exact
  <1> QED BY <1>3, <1>4, <1>5, Zenon DEF Exact

\* exec exchanges two spaces.
LEMMA Swapped ==
  ASSUME Exact, NEW p \in Slots, free' = free,
         Held(p, "pgdir")' = Held(p, "new"), Held(p, "new")' = Held(p, "pgdir"),
         \A q \in Slots, l \in Kinds : q # p \/ l \notin {"pgdir", "new"} => Held(q, l)' = Held(q, l)
  PROVE  Exact'
  <1>0. "pgdir" \in Kinds /\ "new" \in Kinds /\ "pgdir" # "new"
    BY DEF Kinds
  <1>1. \A q \in Slots, l \in Kinds : \A g : g \in Held(q, l)' <=>
          \/ g \in Held(q, l) /\ (q # p \/ l \notin {"pgdir", "new"})
          \/ q = p /\ l = "pgdir" /\ g \in Held(p, "new")
          \/ q = p /\ l = "new" /\ g \in Held(p, "pgdir")
    BY <1>0, Zenon
  <1>3. \A q \in Slots, l \in Kinds : \A g \in Held(q, l)' : g \in Frames /\ g \notin free'
    BY <1>0, <1>1, Zenon DEF Exact
  <1>4. \A q, r \in Slots, l, m \in Kinds : \A g \in Held(q, l)' : g \in Held(r, m)' => q = r /\ l = m
    BY <1>0, <1>1, Alone
  <1>5. \A g \in Frames : g \in free' \/ \E q \in Slots, l \in Kinds : g \in Held(q, l)'
    BY <1>0, <1>1, Zenon DEF Exact
  <1> QED BY <1>3, <1>4, <1>5, Zenon DEF Exact

\* fork gives the child the space it has built.
LEMMA Handed ==
  ASSUME Exact, NEW p \in Slots, NEW q \in Slots, free' = free, Held(q, "pgdir") = {},
         Held(q, "pgdir")' = Held(p, "new"), Held(p, "new")' = {},
         \A r \in Slots, l \in Kinds :
            (r # q \/ l # "pgdir") /\ (r # p \/ l # "new") => Held(r, l)' = Held(r, l)
  PROVE  Exact'
  <1>0. "pgdir" \in Kinds /\ "new" \in Kinds /\ "pgdir" # "new"
    BY DEF Kinds
  <1>1. \A r \in Slots, l \in Kinds : \A g : g \in Held(r, l)' <=>
          \/ g \in Held(r, l) /\ ~(r = p /\ l = "new")
          \/ r = q /\ l = "pgdir" /\ g \in Held(p, "new")
    BY <1>0, Zenon
  <1>3. \A r \in Slots, l \in Kinds : \A g \in Held(r, l)' : g \in Frames /\ g \notin free'
    BY <1>0, <1>1, Zenon DEF Exact
  <1>4. \A s, r \in Slots, l, m \in Kinds : \A g \in Held(s, l)' : g \in Held(r, m)' => s = r /\ l = m
    BY <1>0, <1>1, Alone
  <1>5. \A g \in Frames : g \in free' \/ \E r \in Slots, l \in Kinds : g \in Held(r, l)'
    BY <1>0, <1>1, Zenon DEF Exact
  <1> QED BY <1>3, <1>4, <1>5, Zenon DEF Exact

\* Nothing changes hands.
LEMMA Stayed ==
  ASSUME Exact, free' = free, \A q \in Slots, l \in Kinds : Held(q, l)' = Held(q, l)
  PROVE  Exact'
  BY DEF Exact
-----------------------------------------------------------------------------
(* Steps of one process *)

\* Where a process holds frames, before and after a step.
LEMMA Places ==
  \A p : /\ Held(p, "pgdir") = InSpace(pgdir[p]) /\ Held(p, "pgdir")' = InSpace(pgdir'[p])
         /\ Held(p, "new") = InSpace(new[p]) /\ Held(p, "new")' = InSpace(new'[p])
         /\ Held(p, "kstack") = {kstack[p]} \ {0} /\ Held(p, "kstack")' = {kstack'[p]} \ {0}
         /\ Held(p, "hand") = {job[p].hand} \ {0} /\ Held(p, "hand")' = {job'[p].hand} \ {0}
  BY Holdings DEF Held

\* What does not change holds the same frames.
LEMMA Stays ==
  \A p : /\ pgdir'[p] = pgdir[p] => Held(p, "pgdir")' = Held(p, "pgdir")
         /\ new'[p] = new[p] => Held(p, "new")' = Held(p, "new")
         /\ kstack'[p] = kstack[p] => Held(p, "kstack")' = Held(p, "kstack")
         /\ job'[p].hand = job[p].hand => Held(p, "hand")' = Held(p, "hand")
  <1> TAKE p
  <1>1. pgdir'[p] = pgdir[p] => Held(p, "pgdir")' = Held(p, "pgdir")
    BY Places, Zenon
  <1>2. new'[p] = new[p] => Held(p, "new")' = Held(p, "new")
    BY Places, Zenon
  <1>3. ASSUME kstack'[p] = kstack[p] PROVE Held(p, "kstack")' = Held(p, "kstack")
    <2>1. Held(p, "kstack") = {kstack[p]} \ {0} /\ Held(p, "kstack")' = {kstack'[p]} \ {0}
      BY Places, Zenon
    <2> QED BY <1>3, <2>1, Zenon
  <1>4. ASSUME job'[p].hand = job[p].hand PROVE Held(p, "hand")' = Held(p, "hand")
    <2>1. Held(p, "hand") = {job[p].hand} \ {0} /\ Held(p, "hand")' = {job'[p].hand} \ {0}
      BY Places, Zenon
    <2> QED BY <1>4, <2>1, Zenon
  <1> QED BY <1>1, <1>2, <1>3, <1>4, Zenon

\* A step of p leaves alone what the others have.
Others(p) ==
    \A q \in Slots : q # p =>
        /\ pgdir'[q] = pgdir[q] /\ new'[q] = new[q] /\ sz'[q] = sz[q]
        /\ cr3'[q] = cr3[q] /\ job'[q] = job[q]

\* A step of p that changes no stack leaves every other process its frames.
LEMMA OthersHold ==
  ASSUME NEW p \in Slots, Others(p), kstack' = kstack
  PROVE  /\ \A q \in Slots, l \in Kinds : q # p => Held(q, l)' = Held(q, l)
         /\ Held(p, "kstack")' = Held(p, "kstack")
  <1>1. ASSUME NEW q \in Slots, NEW l \in Kinds, q # p PROVE Held(q, l)' = Held(q, l)
    <2>1. kstack'[q] = kstack[q] /\ pgdir'[q] = pgdir[q] /\ new'[q] = new[q] /\ job'[q].hand = job[q].hand
      BY <1>1, Zenon DEF Others
    <2> QED BY <2>1, Zenon DEF Held
  <1>2. Held(p, "kstack")' = Held(p, "kstack")
    BY Places, Zenon
  <1> QED BY <1>1, <1>2, Zenon

\* What p does to its own spaces, size, directory and call keeps the invariant, if
\* the frames stay accounted for and what p has still fits together.
LEMMA OwnStep ==
  ASSUME IInv, NEW p \in Slots, Others(p), Typed', Exact', UNCHANGED <<state, parent, kstack, panicked>>,
         Fits(state[p], kstack[p], pgdir'[p], sz'[p], cr3'[p], new'[p], job'[p]),
         Distinct(pgdir'[p]), Distinct(new'[p]),
         job'[p].op = "fork" =>
            /\ job[p].op = "fork" /\ job'[p].child = job[p].child
            /\ job'[p].phase = "kstack" <=> job[p].phase = "kstack"
  PROVE  IInv'
  <1>0. state' = state /\ kstack' = kstack /\ panicked' = panicked
    OBVIOUS
  <1>1. Tidy'
    <2>1. ASSUME NEW q \in Slots PROVE Distinct(pgdir'[q]) /\ Distinct(new'[q])
      <3>1. q # p => pgdir'[q] = pgdir[q] /\ new'[q] = new[q]
        BY Zenon DEF Others
      <3> QED BY <3>1, Zenon DEF IInv, Tidy
    <2> QED BY <2>1, Zenon DEF Tidy
  <1>2. Local'
    <2>1. ASSUME NEW q \in Slots PROVE Fits(state'[q], kstack'[q], pgdir'[q], sz'[q], cr3'[q], new'[q], job'[q])
      <3>1. CASE q = p
        BY <1>0, <3>1, Zenon
      <3>2. CASE q # p
        <4>1. /\ pgdir'[q] = pgdir[q] /\ new'[q] = new[q] /\ sz'[q] = sz[q]
              /\ cr3'[q] = cr3[q] /\ job'[q] = job[q]
          BY <3>2, Zenon DEF Others
        <4> QED BY <1>0, <4>1, Zenon DEF IInv, Local
      <3> QED BY <3>1, <3>2, Zenon
    <2> QED BY <2>1, Zenon DEF Local
  <1>3. Children'
    <2>1. \A q \in Slots : job'[q].op = "fork" =>
            /\ job[q].op = "fork" /\ job'[q].child = job[q].child
            /\ job'[q].phase = "kstack" <=> job[q].phase = "kstack"
      BY Zenon DEF Others
    <2>2. \A q \in Slots : job'[q].op = "fork" =>
            /\ job'[q].child \in Slots /\ state'[job'[q].child] = "EMBRYO"
            /\ kstack'[job'[q].child] = 0 <=> job'[q].phase = "kstack"
      BY <1>0, <2>1 DEF IInv, Children
    <2>3. \A q, r \in Slots : job'[q].op = "fork" /\ job'[r].op = "fork" /\ job'[q].child = job'[r].child => q = r
      BY <2>1 DEF IInv, Children
    <2> QED BY <2>2, <2>3, Zenon DEF Children
  <1>4. panicked' = FALSE
    BY <1>0 DEF IInv
  <1> QED BY <1>1, <1>2, <1>3, <1>4, Zenon DEF IInv

\* The variables of a process, with a kalloc.
LEMMA Known ==
  ASSUME IInv, NEW p \in Slots
  PROVE  /\ pgdir[p] \in Space /\ new[p] \in Space /\ job[p] \in Jobs
         /\ sz[p] \in 0..KERNBASE /\ cr3[p] \in Ptrs /\ kstack[p] \in Ptrs /\ state[p] \in States
         /\ Distinct(pgdir[p]) /\ Distinct(new[p])
         /\ Fits(state[p], kstack[p], pgdir[p], sz[p], cr3[p], new[p], job[p])
         /\ free \subseteq Frames /\ Exact
         /\ \A f \in kalloc : f \in free /\ f \in Frames /\ f # 0 /\ f \in Ptrs
         /\ \A f \in free : f \in Frames /\ \A q \in Slots, k \in Kinds : f \notin Held(q, k)
  <1>1. /\ pgdir[p] \in Space /\ new[p] \in Space /\ job[p] \in Jobs
        /\ sz[p] \in 0..KERNBASE /\ cr3[p] \in Ptrs /\ kstack[p] \in Ptrs /\ state[p] \in States
    BY DEF IInv, Typed
  <1>2. /\ Distinct(pgdir[p]) /\ Distinct(new[p])
        /\ Fits(state[p], kstack[p], pgdir[p], sz[p], cr3[p], new[p], job[p])
    BY Zenon DEF IInv, Tidy, Local
  <1>3. free \subseteq Frames /\ Exact
    BY Zenon DEF IInv, Typed
  <1>4. \A f \in kalloc : f \in free /\ f \in Frames /\ f # 0 /\ f \in Ptrs
    BY <1>3, NoFrame, Zenon DEF kalloc, First, Ptrs
  <1>5. \A f \in free : f \in Frames /\ \A q \in Slots, k \in Kinds : f \notin Held(q, k)
    BY <1>3, Zenon DEF Exact
  <1> QED BY <1>1, <1>2, <1>3, <1>4, <1>5, Zenon

\* A variable that stays, as an update of p.
LEMMA Same ==
  ASSUME Typed, NEW p \in Slots
  PROVE  /\ pgdir = [pgdir EXCEPT ![p] = pgdir[p]] /\ new = [new EXCEPT ![p] = new[p]]
         /\ sz = [sz EXCEPT ![p] = sz[p]] /\ cr3 = [cr3 EXCEPT ![p] = cr3[p]]
         /\ job = [job EXCEPT ![p] = job[p]]
  BY DEF Typed

\* The step that gives p the spaces s and t, the size z, the directory c and the
\* call j.
Update(p, s, t, z, c, j) ==
    /\ pgdir' = [pgdir EXCEPT ![p] = s] /\ new' = [new EXCEPT ![p] = t]
    /\ sz' = [sz EXCEPT ![p] = z] /\ cr3' = [cr3 EXCEPT ![p] = c]
    /\ job' = [job EXCEPT ![p] = j]
    /\ UNCHANGED <<state, parent, kstack, panicked>>
\* Values of the types.
Values(s, t, z, c, j) == s \in Space /\ t \in Space /\ z \in 0..KERNBASE /\ c \in Ptrs /\ j \in Jobs

\* A step that gives p new values keeps the types, and they hold what they have.
LEMMA Updated ==
  ASSUME Typed, NEW p \in Slots, NEW s, NEW t, NEW z, NEW c, NEW j,
         Values(s, t, z, c, j), Update(p, s, t, z, c, j), free' \subseteq Frames
  PROVE  /\ Typed' /\ Others(p)
         /\ pgdir'[p] = s /\ new'[p] = t /\ sz'[p] = z /\ cr3'[p] = c /\ job'[p] = j
         /\ Held(p, "pgdir")' = InSpace(s) /\ Held(p, "new")' = InSpace(t)
         /\ Held(p, "hand")' = {j.hand} \ {0} /\ Held(p, "kstack")' = Held(p, "kstack")
         /\ \A q \in Slots, l \in Kinds : q # p => Held(q, l)' = Held(q, l)
  <1>1. Typed'
    BY DEF Typed, Values, Update
  <1>2. pgdir'[p] = s /\ new'[p] = t /\ sz'[p] = z /\ cr3'[p] = c /\ job'[p] = j
    BY DEF Typed, Update
  <1>3. Others(p)
    BY DEF Typed, Update, Others
  <1>4. kstack' = kstack
    BY DEF Update
  <1>5. /\ Held(p, "kstack")' = Held(p, "kstack")
        /\ \A q \in Slots, l \in Kinds : q # p => Held(q, l)' = Held(q, l)
    BY <1>3, <1>4, OthersHold, Zenon
  <1>6. /\ Held(p, "pgdir")' = InSpace(s) /\ Held(p, "new")' = InSpace(t)
        /\ Held(p, "hand")' = {j.hand} \ {0}
    BY <1>2, Places, Zenon
  <1> QED BY <1>1, <1>2, <1>3, <1>5, <1>6, Zenon

\* The call of p goes on as the same fork or is none.
SameFork(p, j) ==
    j.op = "fork" =>
        /\ job[p].op = "fork" /\ j.child = job[p].child
        /\ j.phase = "kstack" <=> job[p].phase = "kstack"

\* Such a step keeps the invariant when the frames add up and the values fit.
LEMMA UpdateStep ==
  ASSUME IInv, NEW p \in Slots, NEW s, NEW t, NEW z, NEW c, NEW j,
         Values(s, t, z, c, j), Update(p, s, t, z, c, j), free' \subseteq Frames, Exact',
         Fits(state[p], kstack[p], s, z, c, t, j), Distinct(s), Distinct(t), SameFork(p, j)
  PROVE  IInv'
  <1>1. Typed
    BY Zenon DEF IInv
  <1>2. /\ Typed' /\ Others(p)
        /\ pgdir'[p] = s /\ new'[p] = t /\ sz'[p] = z /\ cr3'[p] = c /\ job'[p] = j
    BY <1>1, Updated, Zenon
  <1>3. UNCHANGED <<state, parent, kstack, panicked>>
    BY Zenon DEF Update
  <1> QED BY <1>2, <1>3, OwnStep, Zenon DEF SameFork
-----------------------------------------------------------------------------
(* What the invariant says: the three properties *)

\* The pointers of a space, and the frames it has.
LEMMA SpacePointers ==
  ASSUME NEW s, NEW p, NEW nm
  PROVE  /\ \A r \in PointersIn(s, p, nm) : r[5] # 0 => r[1] = p /\ r[2] = nm /\ r[5] \in InSpace(s)
         /\ \A f \in InSpace(s) : \E r \in PointersIn(s, p, nm) : r[5] = f /\ r[5] # 0
         /\ Distinct(s) => \A r, u \in PointersIn(s, p, nm) : r[5] # 0 /\ r[5] = u[5] => r = u
  <1> DEFINE D == <<p, nm, "dir", 0, s.dir>>
             T(t) == <<p, nm, "tab", t, s.tabs[t]>>
             P(n) == <<p, nm, "page", n, s.pages[n]>>
  <1>1. \A r : r \in PointersIn(s, p, nm) <=> r = D \/ (\E t \in Tabs : r = T(t)) \/ \E n \in UserPages : r = P(n)
    BY Zenon DEF PointersIn
  <1>2. /\ D[1] = p /\ D[2] = nm /\ D[5] = s.dir
        /\ \A t : T(t)[1] = p /\ T(t)[2] = nm /\ T(t)[5] = s.tabs[t]
        /\ \A n : P(n)[1] = p /\ P(n)[2] = nm /\ P(n)[5] = s.pages[n]
    OBVIOUS
  <1> HIDE DEF D, T, P
  <1>3. \A f : f \in InSpace(s) <=>
          f # 0 /\ (f = s.dir \/ (\E t \in Tabs : f = s.tabs[t]) \/ \E n \in UserPages : f = s.pages[n])
    BY Zenon DEF InSpace
  <1>4. \A r \in PointersIn(s, p, nm) : r[5] # 0 => r[1] = p /\ r[2] = nm /\ r[5] \in InSpace(s)
    BY <1>1, <1>2, <1>3
  <1>5. \A f \in InSpace(s) : \E r \in PointersIn(s, p, nm) : r[5] = f /\ r[5] # 0
    BY <1>1, <1>2, <1>3
  <1>6. ASSUME Distinct(s), NEW r \in PointersIn(s, p, nm), NEW u \in PointersIn(s, p, nm), r[5] # 0, r[5] = u[5]
        PROVE  r = u
    <2>1. CASE r = D
      BY <1>1, <1>2, <1>6, <2>1 DEF Distinct
    <2>2. ASSUME NEW t \in Tabs, r = T(t) PROVE r = u
      BY <1>1, <1>2, <1>6, <2>2 DEF Distinct
    <2>3. ASSUME NEW n \in UserPages, r = P(n) PROVE r = u
      BY <1>1, <1>2, <1>6, <2>3 DEF Distinct
    <2> QED BY <1>1, <2>1, <2>2, <2>3, Zenon
  <1> QED BY <1>4, <1>5, <1>6, Zenon

\* The pointers of the system, and the frames that are held.
LEMMA HeldPointers ==
  ASSUME Tidy
  PROVE  /\ \A r \in Pointers : \E p \in Slots, k \in Kinds : r[1] = p /\ r[2] = k /\ r[5] \in Held(p, k)
         /\ \A p \in Slots, k \in Kinds : \A f \in Held(p, k) : \E r \in Pointers : r[5] = f
         /\ \A r, s \in Pointers : r[1] = s[1] /\ r[2] = s[2] /\ r[5] = s[5] => r = s
  <1> DEFINE K(p) == <<p, "kstack", "", 0, kstack[p]>>
             H(p) == <<p, "hand", "", 0, job[p].hand>>
             In(r, p) == \/ r = K(p) \/ r = H(p)
                         \/ r \in PointersIn(pgdir[p], p, "pgdir") \/ r \in PointersIn(new[p], p, "new")
  <1>1. \A r : r \in Pointers <=> r[5] # 0 /\ \E p \in Slots : In(r, p)
    <2> DEFINE S(p) == {K(p), H(p)} \cup PointersIn(pgdir[p], p, "pgdir") \cup PointersIn(new[p], p, "new")
    <2>1. Pointers = {r \in UNION {S(p) : p \in Slots} : r[5] # 0}
      BY Zenon DEF Pointers
    <2>2. \A p, r : r \in S(p) <=> In(r, p)
      <3> HIDE DEF K, H
      <3> QED BY Zenon
    <2> HIDE DEF S, In
    <2> QED BY <2>1, <2>2, Zenon
  <1>2. \A p : /\ K(p)[1] = p /\ K(p)[2] = "kstack" /\ K(p)[5] = kstack[p]
               /\ H(p)[1] = p /\ H(p)[2] = "hand" /\ H(p)[5] = job[p].hand
    OBVIOUS
  <1> HIDE DEF K, H
  <1>3. \A p : \A f : /\ f \in Held(p, "pgdir") <=> f \in InSpace(pgdir[p])
                      /\ f \in Held(p, "new") <=> f \in InSpace(new[p])
                      /\ f \in Held(p, "kstack") <=> f = kstack[p] /\ f # 0
                      /\ f \in Held(p, "hand") <=> f = job[p].hand /\ f # 0
    BY Places
  <1>4. "pgdir" \in Kinds /\ "new" \in Kinds /\ "kstack" \in Kinds /\ "hand" \in Kinds
    BY DEF Kinds
  <1>5. ASSUME NEW r \in Pointers, NEW p \in Slots, In(r, p)
        PROVE  \/ r[1] = p /\ r[2] = "kstack" /\ r[5] \in Held(p, "kstack") /\ r = K(p)
               \/ r[1] = p /\ r[2] = "hand" /\ r[5] \in Held(p, "hand") /\ r = H(p)
               \/ r[1] = p /\ r[2] = "pgdir" /\ r[5] \in Held(p, "pgdir") /\ r \in PointersIn(pgdir[p], p, "pgdir")
               \/ r[1] = p /\ r[2] = "new" /\ r[5] \in Held(p, "new") /\ r \in PointersIn(new[p], p, "new")
    <2>1. r[5] # 0
      BY <1>1, Zenon
    <2>2. CASE r = K(p)
      BY <1>2, <1>3, <2>1, <2>2, Zenon
    <2>3. CASE r = H(p)
      BY <1>2, <1>3, <2>1, <2>3, Zenon
    <2>4. CASE r \in PointersIn(pgdir[p], p, "pgdir")
      BY <1>3, <2>1, <2>4, SpacePointers
    <2>5. CASE r \in PointersIn(new[p], p, "new")
      BY <1>3, <2>1, <2>5, SpacePointers
    <2> QED BY <1>5, <2>2, <2>3, <2>4, <2>5, Zenon
  <1>6. \A r \in Pointers : \E p \in Slots, k \in Kinds : r[1] = p /\ r[2] = k /\ r[5] \in Held(p, k)
    <2> TAKE r \in Pointers
    <2>1. PICK p \in Slots : In(r, p)
      BY <1>1, Zenon
    <2> HIDE DEF In
    <2> QED BY <1>4, <1>5, <2>1, Zenon
  <1>7. ASSUME NEW p \in Slots, NEW k \in Kinds, NEW f \in Held(p, k) PROVE \E r \in Pointers : r[5] = f
    <2>1. CASE k = "kstack"
      <3>1. f = kstack[p] /\ f # 0
        BY <1>3, <1>7, <2>1, Zenon
      <3>2. K(p) \in Pointers
        BY <1>1, <1>2, <3>1, Zenon
      <3> QED BY <1>2, <3>1, <3>2, Zenon
    <2>2. CASE k = "hand"
      <3>1. f = job[p].hand /\ f # 0
        BY <1>3, <1>7, <2>2, Zenon
      <3>2. H(p) \in Pointers
        BY <1>1, <1>2, <3>1, Zenon
      <3> QED BY <1>2, <3>1, <3>2, Zenon
    <2>3. CASE k = "pgdir"
      <3>1. PICK r \in PointersIn(pgdir[p], p, "pgdir") : r[5] = f /\ r[5] # 0
        BY <1>3, <1>7, <2>3, SpacePointers
      <3> QED BY <1>1, <3>1, Zenon
    <2>4. CASE k = "new"
      <3>1. PICK r \in PointersIn(new[p], p, "new") : r[5] = f /\ r[5] # 0
        BY <1>3, <1>7, <2>4, SpacePointers
      <3> QED BY <1>1, <3>1, Zenon
    <2> QED BY <2>1, <2>2, <2>3, <2>4, Zenon DEF Kinds
  <1>8. ASSUME NEW r \in Pointers, NEW s \in Pointers, r[1] = s[1], r[2] = s[2], r[5] = s[5] PROVE r = s
    <2>1. PICK p \in Slots : In(r, p)
      BY <1>1, Zenon
    <2>2. PICK q \in Slots : In(s, q)
      BY <1>1, Zenon
    <2> HIDE DEF In
    <2>3. r[1] = p /\ s[1] = q
      BY <1>5, <2>1, <2>2, Zenon
    <2>4. p = q /\ r[5] # 0 /\ Distinct(pgdir[p]) /\ Distinct(new[p])
      BY <1>1, <1>8, <2>3, Zenon DEF Tidy
    <2>5. In(s, p)
      BY <2>2, <2>4, Zenon
    <2>6. CASE r[2] = "kstack"
      <3>1. r = K(p) /\ s = K(p)
        BY <1>5, <1>8, <2>1, <2>5, <2>6, Zenon
      <3> QED BY <3>1, Zenon
    <2>7. CASE r[2] = "hand"
      <3>1. r = H(p) /\ s = H(p)
        BY <1>5, <1>8, <2>1, <2>5, <2>7, Zenon
      <3> QED BY <3>1, Zenon
    <2>8. CASE r[2] = "pgdir"
      <3>1. r \in PointersIn(pgdir[p], p, "pgdir") /\ s \in PointersIn(pgdir[p], p, "pgdir")
        BY <1>5, <1>8, <2>1, <2>5, <2>8, Zenon
      <3> QED BY <1>8, <2>4, <3>1, SpacePointers, Zenon
    <2>9. CASE r[2] = "new"
      <3>1. r \in PointersIn(new[p], p, "new") /\ s \in PointersIn(new[p], p, "new")
        BY <1>5, <1>8, <2>1, <2>5, <2>9, Zenon
      <3> QED BY <1>8, <2>4, <3>1, SpacePointers, Zenon
    <2> QED BY <1>5, <2>1, <2>6, <2>7, <2>8, <2>9, Zenon
  <1> QED BY <1>6, <1>7, <1>8, Zenon

\* Exact and Tidy say of the frames what FramesExact says of the pointers.
LEMMA ExactFrames == IInv => FramesExact
  <1> SUFFICES ASSUME IInv PROVE FramesExact
    OBVIOUS
  <1>1. Exact /\ Tidy /\ free \subseteq Frames
    BY Zenon DEF IInv, Typed
  <1>2. \A f : (\E r \in Pointers : f = r[5]) <=> f \in Frames \ free
    <2>1. ASSUME NEW r \in Pointers PROVE r[5] \in Frames \ free
      BY <1>1, HeldPointers, Zenon DEF Exact
    <2>2. ASSUME NEW f \in Frames \ free PROVE \E r \in Pointers : f = r[5]
      BY <1>1, HeldPointers DEF Exact
    <2> QED BY <2>1, <2>2, Zenon
  <1>3. ASSUME NEW r \in Pointers, NEW s \in Pointers, r[5] = s[5] PROVE r = s
    <2>1. PICK p \in Slots, k \in Kinds : r[1] = p /\ r[2] = k /\ r[5] \in Held(p, k)
      BY <1>1, HeldPointers, Zenon
    <2>2. PICK q \in Slots, l \in Kinds : s[1] = q /\ s[2] = l /\ s[5] \in Held(q, l)
      BY <1>1, HeldPointers, Zenon
    <2>3. p = q /\ k = l
      BY <1>1, <1>3, <2>1, <2>2 DEF Exact
    <2> QED BY <1>1, <1>3, <2>1, <2>2, <2>3, HeldPointers
  <1>4. {r[5] : r \in Pointers} = Frames \ free
    BY <1>2, Zenon
  <1> QED BY <1>3, <1>4, Zenon DEF FramesExact

\* What sizes say, with sbrk under way or not.
LEMMA SizesMapped == IInv => SizeMapped
  <1> SUFFICES ASSUME IInv PROVE SizeMapped
    OBVIOUS
  <1>1. ~panicked
    BY DEF IInv
  <1>2. ASSUME NEW p \in Slots, state[p] = "RUN", pgdir[p].pages[0] # 0
        PROVE  Mapped(pgdir[p]) = Below(IF job[p].op = "grow" THEN job[p].at ELSE sz[p])
    <2>1. Sized(state[p], pgdir[p], sz[p], job[p]) /\ Works(pgdir[p], sz[p], new[p], job[p])
      BY Zenon DEF IInv, Local, Fits
    <2>2. job[p].op # "grow" => Mapped(pgdir[p]) = Below(sz[p])
      BY <1>2, <2>1, Zenon DEF Sized
    <2>3. job[p].op = "grow" => Mapped(pgdir[p]) = Below(job[p].at)
      BY <2>1, NoJobOk DEF Works, Grows, Forks, Execs, NoJob
    <2> QED BY <2>2, <2>3, Zenon
  <1> QED BY <1>1, <1>2, Zenon DEF SizeMapped, Mapped, Below

\* The loaded directory is one that the process holds.
LEMMA LoadedIsLive == IInv => LoadedLive
  <1> SUFFICES ASSUME IInv, NEW p \in Slots, state[p] = "RUN" PROVE cr3[p] \in Frames \ free
    BY Zenon DEF LoadedLive
  <1>1. cr3[p] = pgdir[p].dir /\ pgdir[p].dir # 0
    BY Zenon DEF IInv, Local, Fits, Placed
  <1>2. cr3[p] \in Held(p, "pgdir")
    BY <1>1, Places, Zenon DEF InSpace
  <1>3. "pgdir" \in Kinds
    BY DEF Kinds
  <1> QED BY <1>2, <1>3, Zenon DEF IInv, Exact
-----------------------------------------------------------------------------
(* The calls, step by step *)

\* A process in a call runs, with the stack, the directory and the space of one
\* that runs.
LEMMA InCall ==
  ASSUME IInv, NEW p \in Slots, job[p].op # "none" \/ job[p].phase # "none"
  PROVE  /\ state[p] = "RUN" /\ kstack[p] # 0 /\ cr3[p] = pgdir[p].dir /\ pgdir[p].dir # 0
         /\ \/ Grows(pgdir[p], sz[p], new[p], job[p])
            \/ Forks(pgdir[p], sz[p], new[p], job[p])
            \/ Execs(new[p], job[p])
         /\ Sized("RUN", pgdir[p], sz[p], job[p])
  <1>1. Fits(state[p], kstack[p], pgdir[p], sz[p], cr3[p], new[p], job[p])
    BY Known, Zenon
  <1>2. job[p] # NoJob
    BY NoJobOk, Zenon
  <1>3. state[p] = "RUN"
    BY <1>1, <1>2, Zenon DEF Fits, Placed
  <1>4. kstack[p] # 0 /\ cr3[p] = pgdir[p].dir /\ pgdir[p].dir # 0
    BY <1>1, <1>3, Zenon DEF Fits, Placed
  <1> QED BY <1>1, <1>2, <1>3, <1>4, Zenon DEF Fits, Works

\* What Fits asks of a process that runs and is in a call.
LEMMA Calling ==
  ASSUME NEW ks, NEW s, NEW z, NEW c, NEW t, NEW j, ks # 0, c = s.dir, s.dir # 0, j # NoJob,
         Grows(s, z, t, j) \/ Forks(s, z, t, j) \/ Execs(t, j), Sized("RUN", s, z, j)
  PROVE  Fits("RUN", ks, s, z, c, t, j)
  BY Zenon DEF Fits, Placed, Works

\* What Fits asks of a process that runs and is in no call.
LEMMA Idle ==
  ASSUME NEW ks, NEW s, NEW z, NEW c, ks # 0, c = s.dir, s.dir # 0, Sized("RUN", s, z, NoJob)
  PROVE  Fits("RUN", ks, s, z, c, NoSpace, NoJob)
  BY Zenon DEF Fits, Placed, Works

\* setupkvm adds a frame f to the space that p builds.
LEMMA TakeNew ==
  ASSUME IInv, NEW p \in Slots, NEW f \in kalloc, free' = free \ {f}, NEW t \in Space, NEW j \in Jobs,
         Update(p, pgdir[p], t, sz[p], cr3[p], j),
         InSpace(t) = InSpace(new[p]) \cup {f}, j.hand = job[p].hand, Distinct(t),
         Fits(state[p], kstack[p], pgdir[p], sz[p], cr3[p], t, j), SameFork(p, j)
  PROVE  IInv'
  <1>1. /\ Values(pgdir[p], t, sz[p], cr3[p], j) /\ free' \subseteq Frames /\ Typed /\ Distinct(pgdir[p])
        /\ Exact /\ f \in free /\ f \in Frames
    BY Known, Zenon DEF Values, IInv
  <1>2. "new" \in Kinds /\ Kinds = {"pgdir", "new", "kstack", "hand"}
    BY DEF Kinds
  <1>3. /\ Held(p, "pgdir")' = InSpace(pgdir[p]) /\ Held(p, "new")' = InSpace(t)
        /\ Held(p, "hand")' = {j.hand} \ {0} /\ Held(p, "kstack")' = Held(p, "kstack")
        /\ \A q \in Slots, l \in Kinds : q # p => Held(q, l)' = Held(q, l)
    BY <1>1, Updated, Zenon
  <1>4. /\ Held(p, "pgdir")' = Held(p, "pgdir") /\ Held(p, "new")' = Held(p, "new") \cup {f}
        /\ Held(p, "hand")' = Held(p, "hand")
    BY <1>3, Places, Zenon
  <1>5. \A q \in Slots, l \in Kinds : q # p \/ l # "new" => Held(q, l)' = Held(q, l)
    BY <1>2, <1>3, <1>4, Zenon
  <1>6. Exact'
    BY <1>1, <1>2, <1>4, <1>5, Taken, Zenon
  <1> QED BY <1>1, <1>6, UpdateStep, Zenon

\* setupkvm with a page to take: the directory, or the kernel's table.
LEMMA SetupStep ==
  ASSUME IInv, NEW p \in Slots, setupkvm(p), free # {}
  PROVE  IInv'
  <1> DEFINE s == pgdir[p]
             t == new[p]
             j == job[p]
  <1>1. PICK f \in kalloc :
          /\ free' = free \ {f}
          /\ new' = IF t.dir = 0 THEN [new EXCEPT ![p].dir = f] ELSE [new EXCEPT ![p].tabs[KernTab] = f]
    BY Zenon DEF setupkvm
  <1>2. /\ j.phase = "setup" /\ UNCHANGED <<ptable, panicked>>
        /\ IF t.dir = 0 THEN UNCHANGED job
           ELSE Goto(p, IF j.op = "fork" THEN [j EXCEPT !.phase = "pages", !.end = sz[p]]
                        ELSE [j EXCEPT !.phase = "segs"])
    BY Zenon DEF setupkvm
  <1>3. /\ state[p] = "RUN" /\ kstack[p] # 0 /\ cr3[p] = s.dir /\ s.dir # 0
        /\ Grows(s, sz[p], t, j) \/ Forks(s, sz[p], t, j) \/ Execs(t, j)
        /\ Sized("RUN", s, sz[p], j)
    BY <1>2, InCall, Zenon
  <1>4. j.op \in {"fork", "exec"} /\ Bare(t) /\ j.hand = 0 /\ (j.op = "fork" => j.at = 0 /\ s.pages[0] # 0)
    BY <1>2, <1>3 DEF Grows, Forks, Execs
  <1>5. j.op = "exec" => j.end = 0
    BY <1>2, <1>3 DEF Grows, Forks, Execs
  <1>6. t \in Space /\ j \in Jobs /\ sz[p] \in 0..KERNBASE /\ Typed /\ Distinct(t) /\ f \notin InSpace(t) /\ f \in Frames
    <2>1. "new" \in Kinds
      BY DEF Kinds
    <2>2. /\ t \in Space /\ j \in Jobs /\ sz[p] \in 0..KERNBASE /\ Typed /\ Distinct(t)
          /\ f \in Frames /\ f \notin Held(p, "new")
      BY <2>1, Known, Zenon DEF IInv
    <2> QED BY <2>2, Places, Zenon
  <1>7. UNCHANGED <<state, parent, kstack, panicked>> /\ pgdir' = pgdir /\ sz' = sz /\ cr3' = cr3
    BY <1>2 DEF ptable
  <1>8. CASE t.dir = 0
    <2> DEFINE r == [t EXCEPT !.dir = f]
    <2>1. /\ r \in Space /\ InSpace(r) = InSpace(t) \cup {f} /\ Distinct(r)
          /\ r.dir = f /\ r.tabs = t.tabs /\ r.pages = t.pages
      BY <1>6, <1>8, AddDir
    <2>2. new' = [new EXCEPT ![p] = r] /\ job' = job
      BY <1>1, <1>2, <1>8
    <2> HIDE DEF r
    <2>3. Update(p, s, r, sz[p], cr3[p], j)
      BY <1>6, <1>7, <2>2, Same, Zenon DEF Update
    <2>4. Forks(s, sz[p], r, j) \/ Execs(r, j)
      BY <1>2, <1>3, <1>4, <2>1 DEF Grows, Forks, Execs, Bare
    <2>5. Fits(state[p], kstack[p], s, sz[p], cr3[p], r, j)
      BY <1>2, <1>3, <2>4, NoJobOk, Calling, Zenon
    <2>6. SameFork(p, j)
      BY Zenon DEF SameFork
    <2> QED BY <1>1, <1>6, <2>1, <2>3, <2>5, <2>6, TakeNew, Zenon
  <1>9. CASE t.dir # 0
    <2> DEFINE r == [t EXCEPT !.tabs[KernTab] = f]
               k == IF j.op = "fork" THEN [j EXCEPT !.phase = "pages", !.end = sz[p]] ELSE [j EXCEPT !.phase = "segs"]
    <2>0. KernTab \in Tabs /\ t.tabs[KernTab] = 0 /\ t.pages = t.pages /\ Mapped(t) = {}
      <3>1. KernTab \in Tabs
        BY TableOf, Sizes, BelowZero
      <3> QED BY <1>4, <1>6, <3>1, BareSpace, Zenon
    <2>1. /\ r \in Space /\ InSpace(r) = InSpace(t) \cup {f} /\ Distinct(r)
          /\ r.dir = t.dir /\ r.pages = t.pages
      BY <1>6, <2>0, AddTab
    <2>2. new' = [new EXCEPT ![p] = r] /\ job' = [job EXCEPT ![p] = k]
      BY <1>1, <1>2, <1>9 DEF Goto
    <2> HIDE DEF r
    <2>3. Update(p, s, r, sz[p], cr3[p], k)
      BY <1>6, <1>7, <2>2, Same, Zenon DEF Update
    <2>4. Mapped(r) = Below(0) /\ Aligned(0) /\ 0 < sz[p] + PGSIZE
      <3>1. Mapped(r) = {}
        BY <2>0, <2>1, Zenon DEF Mapped
      <3>2. 0 < sz[p] + PGSIZE
        BY <1>6, Sizes
      <3> QED BY <3>1, <3>2, BelowZero, Zenon
    <2>5. /\ k \in Jobs /\ k.op = j.op /\ k.hand = 0 /\ k.child = j.child /\ k.at = j.at /\ k.phase # "kstack"
          /\ k.op = "fork" => k.phase = "pages" /\ k.end = sz[p]
          /\ k.op = "exec" => k.phase = "segs" /\ k.end = j.end
      BY <1>4, <1>6, Zenon DEF Jobs
    <2> HIDE DEF k
    <2>6. Forks(s, sz[p], r, k) \/ Execs(r, k)
      <3>1. CASE j.op = "fork"
        BY <1>4, <1>9, <2>1, <2>4, <2>5, <3>1 DEF Forks, Loop
      <3>2. CASE j.op = "exec"
        BY <1>5, <1>9, <2>1, <2>4, <2>5, <3>2 DEF Execs
      <3> QED BY <1>4, <3>1, <3>2
    <2>7. k # NoJob /\ Sized("RUN", s, sz[p], k)
      BY <1>3, <1>4, <2>5, NoJobOk DEF Sized
    <2>8. Fits(state[p], kstack[p], s, sz[p], cr3[p], r, k)
      BY <1>3, <2>6, <2>7, Calling, Zenon
    <2>9. SameFork(p, k) /\ k.hand = j.hand
      BY <1>2, <1>4, <2>5 DEF SameFork
    <2> QED BY <1>1, <1>6, <2>1, <2>3, <2>5, <2>8, <2>9, TakeNew, Zenon
  <1> QED BY <1>8, <1>9, Zenon

\* A step of p that moves no frame.
LEMMA QuietStep ==
  ASSUME IInv, NEW p \in Slots, NEW z \in 0..KERNBASE, NEW c \in Ptrs, NEW j \in Jobs,
         Update(p, pgdir[p], new[p], z, c, j), free' = free, j.hand = job[p].hand,
         Fits(state[p], kstack[p], pgdir[p], z, c, new[p], j), SameFork(p, j)
  PROVE  IInv'
  <1>1. /\ Values(pgdir[p], new[p], z, c, j) /\ free' \subseteq Frames /\ Typed /\ Exact
        /\ Distinct(pgdir[p]) /\ Distinct(new[p])
    BY Known, Zenon DEF Values, IInv
  <1>2. /\ Held(p, "pgdir")' = InSpace(pgdir[p]) /\ Held(p, "new")' = InSpace(new[p])
        /\ Held(p, "hand")' = {j.hand} \ {0} /\ Held(p, "kstack")' = Held(p, "kstack")
        /\ \A q \in Slots, l \in Kinds : q # p => Held(q, l)' = Held(q, l)
    BY <1>1, Updated, Zenon
  <1>3. /\ Held(p, "pgdir")' = Held(p, "pgdir") /\ Held(p, "new")' = Held(p, "new")
        /\ Held(p, "hand")' = Held(p, "hand")
    BY <1>2, Places, Zenon
  <1>4. \A q \in Slots, l \in Kinds : Held(q, l)' = Held(q, l)
    BY <1>2, <1>3, Zenon DEF Kinds
  <1>5. Exact'
    BY <1>1, <1>4, Stayed, Zenon
  <1> QED BY <1>1, <1>5, UpdateStep, Zenon

\* The copy of fork finds the page it is at.
LEMMA Present ==
  ASSUME IInv, NEW p \in Slots, Looping(p)
  PROVE  /\ ~Absent(p) /\ Page(job[p].at) \in UserPages /\ Target(p).pages[Page(job[p].at)] = 0
         /\ job[p].at \in Nat /\ Aligned(job[p].at) /\ job[p].at < KERNBASE
         /\ job[p].op \in {"grow", "fork", "exec"}
  <1> DEFINE j == job[p]
             n == Page(j.at)
  <1>1. j.phase = "pages" /\ j.at < j.end /\ j \in Jobs /\ pgdir[p] \in Space /\ new[p] \in Space /\ sz[p] \in 0..KERNBASE
    BY Known, Zenon DEF Looping
  <1>2. j.at \in Nat /\ j.at < KERNBASE /\ j.end \in 0..KERNBASE
    BY <1>1, Sizes DEF Jobs
  <1>3. /\ Grows(pgdir[p], sz[p], new[p], j) \/ Forks(pgdir[p], sz[p], new[p], j) \/ Execs(new[p], j)
        /\ Sized("RUN", pgdir[p], sz[p], j)
    BY <1>1, InCall, SMTT(20)
  <1>4. /\ Aligned(j.at) /\ Mapped(Target(p)) = Below(j.at)
        /\ j.op = "fork" => j.end = sz[p] /\ Mapped(pgdir[p]) = Below(sz[p])
        /\ j.op \in {"grow", "fork", "exec"}
    BY <1>1, <1>3 DEF Grows, Forks, Execs, Loop, Target, Sized
  <1>5. n \in UserPages /\ n * PGSIZE = j.at /\ n \notin Below(j.at)
    BY <1>2, <1>4, PageStep
  <1> HIDE DEF n
  <1>6. Target(p).pages[n] = 0
    BY <1>4, <1>5, Zenon DEF Mapped
  <1>7. ~Absent(p)
    <2>1. j.op = "fork" => n \in Below(sz[p])
      <3>1. j.op = "fork" => n * PGSIZE < sz[p]
        BY <1>1, <1>4, <1>5
      <3> QED BY <1>5, <3>1, Zenon DEF Below
    <2> QED BY <1>4, <2>1, Zenon DEF Absent, Mapped, n
  <1> QED BY <1>2, <1>4, <1>5, <1>6, <1>7, Zenon DEF n

\* The loops take a page in hand.
LEMMA PageStepKeeps ==
  ASSUME IInv, NEW p \in Slots, PageAlloc(p), free # {}
  PROVE  IInv'
  <1> DEFINE j == job[p]
  <1>1. Looping(p) /\ j.hand = 0
    BY Zenon DEF PageAlloc
  <1>2. ~Absent(p)
    BY <1>1, Present, Zenon
  <1>3. /\ \E f \in kalloc : free' = free \ {f} /\ Goto(p, [j EXCEPT !.hand = f])
        /\ UNCHANGED <<ptable, new, panicked>>
    BY <1>1, <1>2, Zenon DEF PageAlloc
  <1>4. PICK f \in kalloc : free' = free \ {f} /\ Goto(p, [j EXCEPT !.hand = f])
    BY <1>3, Zenon
  <1> DEFINE k == [j EXCEPT !.hand = f]
  <1>5. /\ Typed /\ Exact /\ f \in free /\ f \in Frames /\ f # 0 /\ f \in Ptrs /\ j \in Jobs /\ free \subseteq Frames
        /\ Distinct(pgdir[p]) /\ Distinct(new[p])
        /\ pgdir[p] \in Space /\ new[p] \in Space /\ sz[p] \in 0..KERNBASE /\ cr3[p] \in Ptrs
    BY Known, Zenon DEF IInv
  <1>6. /\ k \in Jobs /\ k.hand = f /\ k.op = j.op /\ k.phase = j.phase /\ k.at = j.at /\ k.end = j.end
        /\ k.child = j.child
    BY <1>5 DEF Jobs
  <1>7. job' = [job EXCEPT ![p] = k]
    BY <1>4, Zenon DEF Goto
  <1> HIDE DEF k
  <1>8. Update(p, pgdir[p], new[p], sz[p], cr3[p], k)
    <2>1. UNCHANGED <<state, parent, kstack, panicked>> /\ pgdir' = pgdir /\ sz' = sz /\ cr3' = cr3 /\ new' = new
      BY <1>3 DEF ptable
    <2> QED BY <1>5, <1>7, <2>1, Same, Zenon DEF Update
  <1>9. Values(pgdir[p], new[p], sz[p], cr3[p], k) /\ free' \subseteq Frames
    BY <1>4, <1>5, <1>6, Zenon DEF Values
  <1>10. Exact'
    <2>1. /\ Held(p, "pgdir")' = InSpace(pgdir[p]) /\ Held(p, "new")' = InSpace(new[p])
          /\ Held(p, "hand")' = {k.hand} \ {0} /\ Held(p, "kstack")' = Held(p, "kstack")
          /\ \A q \in Slots, l \in Kinds : q # p => Held(q, l)' = Held(q, l)
      BY <1>5, <1>8, <1>9, Updated, Zenon
    <2>2. /\ Held(p, "pgdir")' = Held(p, "pgdir") /\ Held(p, "new")' = Held(p, "new")
      BY <2>1, Places, Zenon
    <2>3. Held(p, "hand") = {} /\ Held(p, "hand")' = {f}
      BY <1>1, <1>5, <1>6, <2>1, Places, Zenon
    <2>4. "hand" \in Kinds /\ Kinds = {"pgdir", "new", "kstack", "hand"}
      BY DEF Kinds
    <2>5. \A q \in Slots, l \in Kinds : q # p \/ l # "hand" => Held(q, l)' = Held(q, l)
      BY <2>1, <2>2, <2>4, Zenon
    <2>6. Held(p, "hand")' = Held(p, "hand") \cup {f}
      BY <2>3, Zenon
    <2> QED BY <1>4, <1>5, <2>4, <2>5, <2>6, Taken, Zenon
  <1>11. Fits(state[p], kstack[p], pgdir[p], sz[p], cr3[p], new[p], k)
    <2>1. j.phase = "pages" /\ j.at < j.end
      BY <1>1, Zenon DEF Looping
    <2>2. /\ state[p] = "RUN" /\ kstack[p] # 0 /\ cr3[p] = pgdir[p].dir /\ pgdir[p].dir # 0
          /\ Grows(pgdir[p], sz[p], new[p], j) \/ Forks(pgdir[p], sz[p], new[p], j) \/ Execs(new[p], j)
          /\ Sized("RUN", pgdir[p], sz[p], j)
      BY <2>1, InCall
    <2>3. /\ Grows(pgdir[p], sz[p], new[p], k) \/ Forks(pgdir[p], sz[p], new[p], k) \/ Execs(new[p], k)
          /\ Sized("RUN", pgdir[p], sz[p], k) /\ k # NoJob
      BY <1>6, <2>1, <2>2, NoJobOk DEF Grows, Forks, Execs, Loop, Sized
    <2> QED BY <2>2, <2>3, Calling, Zenon
  <1>12. SameFork(p, k)
    BY <1>6, Zenon DEF SameFork
  <1> QED BY <1>5, <1>8, <1>9, <1>10, <1>11, <1>12, UpdateStep, Zenon

\* mappages takes a table if it needs one, and maps the page in hand.
LEMMA MapStep ==
  ASSUME IInv, NEW p \in Slots, mappages(p),
         ~(Target(p).tabs[PDX(job[p].at)] = 0 /\ free = {})
  PROVE  IInv'
  <1> DEFINE j == job[p]
             s == Target(p)
             t == PDX(j.at)
             n == Page(j.at)
             k == [j EXCEPT !.at = @ + PGSIZE, !.hand = 0]
  <1>1. /\ Looping(p) /\ j.hand # 0 /\ panicked' = (s.pages[n] # 0)
        /\ \E f \in IF s.tabs[t] = 0 THEN kalloc ELSE {s.tabs[t]} :
             /\ free' = IF s.tabs[t] = 0 THEN free \ {f} ELSE free
             /\ Built(p, [s EXCEPT !.tabs[t] = f, !.pages[n] = j.hand])
        /\ Goto(p, k) /\ UNCHANGED <<state, parent, kstack, sz, cr3>>
    BY Zenon DEF mappages
  <1>2. PICK f \in IF s.tabs[t] = 0 THEN kalloc ELSE {s.tabs[t]} :
             /\ free' = IF s.tabs[t] = 0 THEN free \ {f} ELSE free
             /\ Built(p, [s EXCEPT !.tabs[t] = f, !.pages[n] = j.hand])
    BY <1>1, Zenon
  <1> DEFINE r == WithPage(s, t, f, n, j.hand)
             T == IF s.tabs[t] = 0 THEN {f} ELSE {}
  <1>3. /\ n \in UserPages /\ s.pages[n] = 0 /\ j.at \in Nat /\ Aligned(j.at) /\ j.at < KERNBASE
        /\ j.op \in {"grow", "fork", "exec"}
    BY <1>1, Present, Zenon
  <1>4. /\ Typed /\ Exact /\ j \in Jobs /\ free \subseteq Frames
        /\ Distinct(pgdir[p]) /\ Distinct(new[p])
        /\ pgdir[p] \in Space /\ new[p] \in Space /\ sz[p] \in 0..KERNBASE /\ cr3[p] \in Ptrs
        /\ \A g \in kalloc : g \in free /\ g \in Frames
        /\ \A g \in free : \A q \in Slots, l \in Kinds : g \notin Held(q, l)
    BY Known, Zenon DEF IInv
  <1>a. PICK kd \in {"pgdir", "new"} :
          (j.op = "grow" => kd = "pgdir") /\ (j.op # "grow" => kd = "new")
    BY Zenon
  <1>b. Looping(p) /\ j.hand # 0
    BY <1>1, Zenon
  <1>5. /\ kd \in Kinds /\ kd \in {"pgdir", "new"} /\ "hand" \in Kinds /\ kd # "hand"
        /\ Kinds = {"pgdir", "new", "kstack", "hand"} /\ "hand" # "pgdir" /\ "hand" # "new"
    BY DEF Kinds
  <1>6. Held(p, kd) = InSpace(s) /\ s \in Space /\ Distinct(s) /\ Held(p, "hand") = {j.hand}
    <2>1. Held(p, "hand") = {j.hand}
      BY <1>b, Places, Zenon
    <2>2. /\ j.op = "grow" => kd = "pgdir" /\ s = pgdir[p]
          /\ j.op # "grow" => kd = "new" /\ s = new[p]
      BY <1>a, Zenon DEF Target
    <2> HIDE DEF s
    <2>3. CASE j.op = "grow"
      BY <1>4, <2>1, <2>2, <2>3, Places, Zenon
    <2>4. CASE j.op # "grow"
      BY <1>4, <2>1, <2>2, <2>4, Places, Zenon
    <2> QED BY <2>3, <2>4, Zenon
  <1>7. j.hand \in Frames /\ j.hand \notin InSpace(s) /\ j.hand \notin free
    <2>1. j.hand \in Held(p, "hand")
      BY <1>6, Zenon
    <2>2. \A g \in Held(p, "hand") : g \in Frames /\ g \notin free /\ g \notin Held(p, kd)
      BY <1>4, <1>5, Zenon DEF Exact
    <2> HIDE DEF s
    <2> QED BY <1>6, <2>1, <2>2, Zenon
  <1>8. t \in Tabs
    <2>1. j.at \in 0..KERNBASE - 1
      BY <1>3, Sizes
    <2> QED BY <2>1, TableOf, Zenon
  <1> HIDE DEF s, t, n
  <1>9. \/ f = s.tabs[t] /\ f # 0
        \/ f \in Frames /\ s.tabs[t] = 0 /\ f \notin InSpace(s) /\ f # j.hand
    <2>1. CASE s.tabs[t] = 0
      <3>1. f \in free /\ f \in Frames
        BY <1>2, <1>4, <2>1, Zenon
      <3>2. f \notin Held(p, kd)
        BY <1>4, <1>5, <3>1, Zenon
      <3> QED BY <1>6, <1>7, <2>1, <3>1, <3>2, Zenon
    <2>2. CASE s.tabs[t] # 0
      BY <1>2, <2>2, Zenon
    <2> QED BY <2>1, <2>2, Zenon
  <1>10. /\ r \in Space /\ InSpace(r) = InSpace(s) \cup {f, j.hand} /\ Distinct(r)
         /\ r.dir = s.dir /\ Mapped(r) = Mapped(s) \cup {n}
         /\ \A m \in UserPages : s.pages[m] # 0 => r.pages[m] # 0
    <2>1. j.hand \in Frames /\ n \in UserPages /\ s.pages[n] = 0 /\ j.hand \notin InSpace(s) /\ s \in Space /\ Distinct(s)
      BY <1>3, <1>6, <1>7, Zenon
    <2> HIDE DEF j
    <2> QED BY <2>1, <1>8, <1>9, MapPage
  <1>11. /\ Below(j.at + PGSIZE) = Below(j.at) \cup {n} /\ Aligned(j.at + PGSIZE) /\ j.at + PGSIZE \in 0..KERNBASE
    BY <1>3, PageStep, Zenon DEF n
  <1>12. /\ k \in Jobs /\ k.hand = 0 /\ k.op = j.op /\ k.phase = j.phase /\ k.at = j.at + PGSIZE /\ k.end = j.end
         /\ k.child = j.child
    BY <1>4, <1>11, NoFrame, Zenon DEF Jobs
  <1>13. job' = [job EXCEPT ![p] = k] /\ Built(p, r)
    BY <1>1, <1>2, Zenon DEF Goto, WithPage
  <1> HIDE DEF k, r
  <1> DEFINE pd == IF j.op = "grow" THEN r ELSE pgdir[p]
             nw == IF j.op = "grow" THEN new[p] ELSE r
  <1>14. Update(p, pd, nw, sz[p], cr3[p], k)
    <2>0. UNCHANGED <<state, parent, kstack, panicked>> /\ sz' = sz /\ cr3' = cr3
      <3>1. panicked = FALSE /\ panicked' = FALSE
        BY <1>1, <1>3, Zenon DEF IInv
      <3> QED BY <1>1, <3>1, Zenon
    <2>1. pgdir' = [pgdir EXCEPT ![p] = pd] /\ new' = [new EXCEPT ![p] = nw]
      BY <1>4, <1>13, Same, Zenon DEF Built
    <2> HIDE DEF pd, nw
    <2> QED BY <1>4, <1>13, <2>0, <2>1, Same, Zenon DEF Update
  <1>15. Values(pd, nw, sz[p], cr3[p], k) /\ free' \subseteq Frames /\ Distinct(pd) /\ Distinct(nw)
    BY <1>2, <1>4, <1>10, <1>12, Zenon DEF Values
  <1>16. Exact'
    <2> HIDE DEF pd, nw
    <2>1. /\ Held(p, "pgdir")' = InSpace(pd) /\ Held(p, "new")' = InSpace(nw)
          /\ Held(p, "hand")' = {k.hand} \ {0} /\ Held(p, "kstack")' = Held(p, "kstack")
          /\ \A q \in Slots, l \in Kinds : q # p => Held(q, l)' = Held(q, l)
      BY <1>4, <1>14, <1>15, Updated, Zenon
    <2>2. Held(p, "hand")' = {}
      BY <1>12, <2>1, Zenon
    <2>3. Held(p, kd)' = InSpace(r) /\ \A l \in {"pgdir", "new"} : l # kd => Held(p, l)' = Held(p, l)
      <3>1. CASE j.op = "grow"
        <4>1. kd = "pgdir" /\ pd = r /\ nw = new[p]
          BY <1>a, <3>1, Zenon DEF pd, nw
        <4>2. Held(p, "pgdir")' = InSpace(r) /\ Held(p, "new")' = Held(p, "new")
          BY <2>1, <4>1, Places, Zenon
        <4> QED BY <4>1, <4>2, Zenon
      <3>2. CASE j.op # "grow"
        <4>1. kd = "new" /\ pd = pgdir[p] /\ nw = r
          BY <1>a, <3>2, Zenon DEF pd, nw
        <4>2. Held(p, "new")' = InSpace(r) /\ Held(p, "pgdir")' = Held(p, "pgdir")
          BY <2>1, <4>1, Places, Zenon
        <4> QED BY <4>1, <4>2, Zenon
      <3> QED BY <3>1, <3>2, Zenon
    <2>4. \A q \in Slots, l \in Kinds : q # p \/ l \notin {kd, "hand"} => Held(q, l)' = Held(q, l)
      BY <1>5, <2>1, <2>3, Zenon
    <2>5. T \in SUBSET free /\ T \subseteq Frames /\ free' = free \ T
      BY <1>2, <1>4, Zenon
    <2>6. s.tabs[t] # 0 => f \in InSpace(s)
      BY <1>2, <1>8, InIt, Zenon
    <2>7. Held(p, kd)' = Held(p, kd) \cup T \cup Held(p, "hand")
      <3>1. \A g : g \in InSpace(r) <=> g \in InSpace(s) \/ g \in T \/ g = j.hand
        BY <1>10, <2>6, Zenon
      <3> HIDE DEF T
      <3> QED BY <1>6, <2>3, <3>1, Zenon
    <2> HIDE DEF T
    <2> QED BY <1>4, <1>5, <2>2, <2>4, <2>5, <2>7, Moved
  <1>17. Fits(state[p], kstack[p], pd, sz[p], cr3[p], nw, k)
    <2>1. j.phase = "pages" /\ j.at < j.end
      BY <1>1, Zenon DEF Looping
    <2>2. /\ state[p] = "RUN" /\ kstack[p] # 0 /\ cr3[p] = pgdir[p].dir /\ pgdir[p].dir # 0
          /\ Grows(pgdir[p], sz[p], new[p], j) \/ Forks(pgdir[p], sz[p], new[p], j) \/ Execs(new[p], j)
          /\ Sized("RUN", pgdir[p], sz[p], j)
      BY <2>1, InCall
    <2>3. /\ Aligned(k.at) /\ k.at < k.end + PGSIZE /\ (sz[p] <= j.at => sz[p] <= k.at)
      <3>1. j.end \in Nat /\ PGSIZE \in Nat
        BY <1>4, Sizes DEF Jobs
      <3> QED BY <1>3, <1>4, <1>11, <1>12, <2>1, <3>1
    <2>4. Loop(k)
      BY <1>12, <2>3 DEF Loop
    <2>5. Mapped(s) = Below(j.at) => Mapped(r) = Below(k.at)
      BY <1>10, <1>11, <1>12, Zenon
    <2>6. k # NoJob
      BY <1>3, <1>12, NoJobOk
    <2>7. CASE j.op = "grow"
      <3>1. Grows(pgdir[p], sz[p], new[p], j)
        BY <2>2, <2>7 DEF Forks, Execs
      <3>2. Grows(r, sz[p], new[p], k) /\ Sized("RUN", r, sz[p], k)
        BY <1>12, <2>3, <2>4, <2>5, <2>7, <3>1, Zenon DEF Grows, Sized, Target, Loop, s
      <3>3. cr3[p] = r.dir /\ r.dir # 0
        BY <1>10, <2>2, <2>7, Zenon DEF Target, s
      <3>4. Fits("RUN", kstack[p], r, sz[p], cr3[p], new[p], k)
        BY <2>2, <2>6, <3>2, <3>3, Calling, Zenon
      <3> QED BY <2>2, <2>7, <3>4, Zenon
    <2>8. CASE j.op # "grow"
      <3>1. Forks(pgdir[p], sz[p], new[p], j) \/ Execs(new[p], j)
        BY <2>2, <2>8, Zenon DEF Grows
      <3>2. Target(p) = new[p]
        BY <2>8, Zenon DEF Target
      <3>3. Forks(pgdir[p], sz[p], r, k) \/ Execs(r, k)
        BY <1>10, <1>12, <2>1, <2>4, <2>5, <3>1, <3>2 DEF Forks, Execs, s
      <3>4. Sized("RUN", pgdir[p], sz[p], k)
        BY <1>12, <2>2, Zenon DEF Sized
      <3>5. Fits("RUN", kstack[p], pgdir[p], sz[p], cr3[p], r, k)
        BY <2>2, <2>6, <3>3, <3>4, Calling, Zenon
      <3> QED BY <2>2, <2>8, <3>5, Zenon
    <2> QED BY <2>7, <2>8, Zenon
  <1>18. SameFork(p, k)
    BY <1>12, Zenon DEF SameFork
  <1> HIDE DEF pd, nw
  <1> QED BY <1>4, <1>14, <1>15, <1>16, <1>17, <1>18, UpdateStep, Zenon

\* A step of p that frees what it takes out of its spaces and its hand.
LEMMA GiveStep ==
  ASSUME IInv, NEW p \in Slots, NEW s, NEW t, NEW z, NEW c, NEW j,
         Values(s, t, z, c, j), Update(p, s, t, z, c, j),
         InSpace(s) \subseteq InSpace(pgdir[p]), InSpace(t) \subseteq InSpace(new[p]),
         j.hand = 0 \/ j.hand = job[p].hand,
         \A f : f \in free' <=> \/ f \in free
                                \/ f \in InSpace(pgdir[p]) /\ f \notin InSpace(s)
                                \/ f \in InSpace(new[p]) /\ f \notin InSpace(t)
                                \/ f # 0 /\ f = job[p].hand /\ f # j.hand,
         Fits(state[p], kstack[p], s, z, c, t, j), Distinct(s), Distinct(t), SameFork(p, j)
  PROVE  IInv'
  <1> DEFINE S == {f \in Frames : \/ f \in InSpace(pgdir[p]) /\ f \notin InSpace(s)
                                  \/ f \in InSpace(new[p]) /\ f \notin InSpace(t)
                                  \/ f # 0 /\ f = job[p].hand /\ f # j.hand}
  <1>1. Typed /\ Exact /\ free \subseteq Frames /\ pgdir[p] \in Space /\ new[p] \in Space /\ job[p] \in Jobs
    BY Known, Zenon DEF IInv
  <1>2. job[p].hand \in Ptrs
    BY <1>1 DEF Jobs
  <1>3. \A f : f \in S <=> \/ f \in InSpace(pgdir[p]) /\ f \notin InSpace(s)
                           \/ f \in InSpace(new[p]) /\ f \notin InSpace(t)
                           \/ f # 0 /\ f = job[p].hand /\ f # j.hand
    BY <1>1, <1>2, InFrames, NoFrame, Zenon
  <1>4. S \subseteq Frames
    BY Zenon
  <1> HIDE DEF S
  <1>5. free' = free \cup S /\ free' \subseteq Frames
    <2>1. \A f : f \in free' <=> f \in free \/ f \in S
      BY <1>3, Zenon
    <2> QED BY <1>1, <1>4, <2>1, Zenon
  <1>6. /\ Held(p, "pgdir")' = InSpace(s) /\ Held(p, "new")' = InSpace(t)
        /\ Held(p, "hand")' = {j.hand} \ {0} /\ Held(p, "kstack")' = Held(p, "kstack")
        /\ \A q \in Slots, l \in Kinds : q # p => Held(q, l)' = Held(q, l)
    BY <1>1, <1>5, Updated, Zenon
  <1>7. /\ \A l : l \in Kinds <=> l \in {"pgdir", "new", "kstack", "hand"}
        /\ \A l, m \in {"pgdir", "new", "kstack", "hand"} : l \in Kinds
        /\ "pgdir" # "new" /\ "pgdir" # "hand" /\ "new" # "hand" /\ "kstack" \notin {"pgdir", "new", "hand"}
    BY DEF Kinds
  <1>8. \A f \in S : \E l \in {"pgdir", "new", "hand"} : f \in Held(p, l)
    BY <1>3, Places, Zenon
  <1>9. ASSUME NEW q \in Slots, NEW l \in Kinds, q # p \/ l = "kstack", NEW f \in Held(q, l)
        PROVE  f \notin S
    <2>1. SUFFICES ASSUME f \in S PROVE FALSE
      BY Zenon
    <2>2. PICK m \in {"pgdir", "new", "hand"} : f \in Held(p, m)
      BY <1>8, <2>1, Zenon
    <2>3. m \in Kinds /\ m # "kstack"
      BY <1>7, Zenon
    <2>4. q = p /\ l = m
      BY <1>1, <1>9, <2>2, <2>3, Alone, Zenon
    <2> QED BY <1>9, <2>3, <2>4, Zenon
  <1>10. \A f : /\ f \in Held(p, "pgdir") => f \notin Held(p, "new") /\ f \notin Held(p, "hand")
                /\ f \in Held(p, "new") => f \notin Held(p, "hand")
    BY <1>1, <1>7, Alone, Zenon
  <1>11. \A f : /\ f \in Held(p, "pgdir") <=> f \in InSpace(pgdir[p])
                /\ f \in Held(p, "new") <=> f \in InSpace(new[p])
                /\ f \in Held(p, "hand") <=> f # 0 /\ f = job[p].hand
    BY Places, SMTT(20)
  <1>12. \A f : /\ f \in Held(p, "pgdir")' <=> f \in Held(p, "pgdir") /\ f \notin S
                /\ f \in Held(p, "new")' <=> f \in Held(p, "new") /\ f \notin S
                /\ f \in Held(p, "hand")' <=> f \in Held(p, "hand") /\ f \notin S
    BY <1>3, <1>6, <1>10, <1>11
  <1>13. \A q \in Slots, l \in Kinds : \A f : f \in Held(q, l)' <=> f \in Held(q, l) /\ f \notin S
    <2>1. ASSUME NEW q \in Slots, NEW l \in Kinds, NEW f PROVE f \in Held(q, l)' <=> f \in Held(q, l) /\ f \notin S
      <3>1. CASE q # p
        BY <1>6, <1>9, <3>1, Zenon
      <3>2. CASE q = p /\ l = "kstack"
        BY <1>6, <1>9, <3>2, Zenon
      <3>3. CASE q = p /\ l # "kstack"
        <4>1. l = "pgdir" \/ l = "new" \/ l = "hand"
          BY <1>7, <3>3, Zenon
        <4> QED BY <1>12, <3>3, <4>1, Zenon
      <3> QED BY <3>1, <3>2, <3>3, Zenon
    <2> QED BY <2>1, Zenon
  <1>14. \A f \in S : \E q \in Slots, l \in Kinds : f \in Held(q, l)
    BY <1>7, <1>8, Zenon
  <1>15. Exact'
    BY <1>1, <1>5, <1>13, <1>14, Gave, Zenon
  <1> QED BY <1>5, <1>15, UpdateStep, Zenon

\* allocuvm gives back what it has added: sbrk fails and the size fits again.
LEMMA GrowFails ==
  ASSUME IInv, NEW p \in Slots, Fails(p), Looping(p), job[p].op = "grow"
  PROVE  IInv'
  <1> DEFINE j == job[p]
             r == deallocuvm(pgdir[p], j.end, sz[p])
  <1>1. /\ Typed /\ pgdir[p] \in Space /\ new[p] \in Space /\ j \in Jobs /\ sz[p] \in 0..KERNBASE /\ cr3[p] \in Ptrs
        /\ Distinct(pgdir[p])
    BY Known, Zenon DEF IInv
  <1>2. j.phase = "pages" /\ j.at < j.end /\ j.at \in 0..KERNBASE /\ j.end \in 0..KERNBASE
    BY <1>1, SMTT(20) DEF Looping, Jobs
  <1>3. /\ state[p] = "RUN" /\ kstack[p] # 0 /\ cr3[p] = pgdir[p].dir /\ pgdir[p].dir # 0
        /\ Grows(pgdir[p], sz[p], new[p], j)
    BY <1>2, InCall DEF Forks, Execs
  <1>4. new[p] = NoSpace /\ Mapped(pgdir[p]) = Below(j.at) /\ sz[p] <= j.at
    BY <1>3, Zenon DEF Grows
  <1>5. Below(j.at) \ Above(j.end, sz[p]) = Below(sz[p])
    <2>1. j.at <= j.end
      BY <1>2
    <2> QED BY <1>1, <1>2, <1>4, <2>1, Shrunk
  <1>6. /\ r \in Space /\ Distinct(r) /\ Mapped(r) = Mapped(pgdir[p]) \ Above(j.end, sz[p])
        /\ (\A f \in InSpace(r) : f \in InSpace(pgdir[p])) /\ r.dir = pgdir[p].dir
    BY <1>1, Dealloc
  <1>7. Target(p) = pgdir[p]
    BY Zenon DEF Target
  <1>8. free' = free \cup Freed(pgdir[p], r) \cup ({j.hand} \ {0}) \cup {}
    BY <1>7 DEF Fails
  <1>9. pgdir' = [pgdir EXCEPT ![p] = r] /\ new' = new
    BY <1>7 DEF Fails, Built
  <1>10. job' = [job EXCEPT ![p] = NoJob] /\ UNCHANGED <<kstack, state, parent, sz, cr3, panicked>>
    BY DEF Fails, Goto
  <1> HIDE DEF r
  <1>11. Update(p, r, NoSpace, sz[p], cr3[p], NoJob)
    BY <1>1, <1>4, <1>9, <1>10, Same, Zenon DEF Update
  <1>12. Values(r, NoSpace, sz[p], cr3[p], NoJob)
    BY <1>1, <1>6, Nothing, NoJobOk, Zenon DEF Values
  <1>13. Sized("RUN", r, sz[p], NoJob)
    BY <1>4, <1>5, <1>6, Zenon DEF Sized
  <1>14. Fits(state[p], kstack[p], r, sz[p], cr3[p], NoSpace, NoJob)
    BY <1>3, <1>6, <1>13, Idle, Zenon
  <1>15. SameFork(p, NoJob)
    BY NoJobOk DEF SameFork
  <1>16. \A f : f \in free' <=> \/ f \in free
                                \/ f \in InSpace(pgdir[p]) /\ f \notin InSpace(r)
                                \/ f \in InSpace(new[p]) /\ f \notin InSpace(NoSpace)
                                \/ f # 0 /\ f = j.hand /\ f # NoJob.hand
    BY <1>4, <1>8, NoJobOk, Zenon DEF Freed
  <1>17. InSpace(r) \subseteq InSpace(pgdir[p]) /\ InSpace(NoSpace) \subseteq InSpace(new[p])
    BY <1>4, <1>6, Zenon
  <1> QED BY <1>6, <1>11, <1>12, <1>14, <1>15, <1>16, <1>17, NoJobOk, Nothing, GiveStep, Zenon

\* exec fails: it frees the space it has built, and the page in hand.
LEMMA ExecFails ==
  ASSUME IInv, NEW p \in Slots, Fails(p), job[p].op = "exec"
  PROVE  IInv'
  <1> DEFINE j == job[p]
             s == pgdir[p]
  <1>1. /\ Typed /\ s \in Space /\ new[p] \in Space /\ j \in Jobs /\ sz[p] \in 0..KERNBASE /\ cr3[p] \in Ptrs
        /\ Distinct(s)
    BY Known, Zenon DEF IInv
  <1>2. /\ state[p] = "RUN" /\ kstack[p] # 0 /\ cr3[p] = s.dir /\ s.dir # 0 /\ Sized("RUN", s, sz[p], j)
    BY InCall
  <1>3. Target(p) = new[p]
    BY DEF Target
  <1>4. free' = free \cup Freed(new[p], NoSpace) \cup ({j.hand} \ {0}) \cup {}
    BY <1>3 DEF Fails
  <1>5. new' = [new EXCEPT ![p] = NoSpace] /\ pgdir' = pgdir
    BY <1>3 DEF Fails, Built
  <1>6. job' = [job EXCEPT ![p] = NoJob] /\ UNCHANGED <<kstack, state, parent, sz, cr3, panicked>>
    BY DEF Fails, Goto
  <1>7. Update(p, s, NoSpace, sz[p], cr3[p], NoJob)
    BY <1>1, <1>5, <1>6, Same, Zenon DEF Update
  <1>8. Values(s, NoSpace, sz[p], cr3[p], NoJob)
    BY <1>1, Nothing, NoJobOk, Zenon DEF Values
  <1>9. Sized("RUN", s, sz[p], NoJob)
    BY <1>2 DEF Sized
  <1>10. Fits(state[p], kstack[p], s, sz[p], cr3[p], NoSpace, NoJob)
    BY <1>2, <1>9, Idle, Zenon
  <1>11. SameFork(p, NoJob)
    BY NoJobOk DEF SameFork
  <1>12. \A f : f \in free' <=> \/ f \in free
                                \/ f \in InSpace(pgdir[p]) /\ f \notin InSpace(s)
                                \/ f \in InSpace(new[p]) /\ f \notin InSpace(NoSpace)
                                \/ f # 0 /\ f = j.hand /\ f # NoJob.hand
    BY <1>4, NoJobOk, Zenon DEF Freed
  <1>13. InSpace(s) \subseteq InSpace(pgdir[p]) /\ InSpace(NoSpace) \subseteq InSpace(new[p])
    BY Nothing, Zenon
  <1> QED BY <1>1, <1>7, <1>8, <1>10, <1>11, <1>12, <1>13, NoJobOk, Nothing, GiveStep, Zenon

\* exec frees the space it has left.
LEMMA FreeOld ==
  ASSUME IInv, NEW p \in Slots, freevm(p)
  PROVE  IInv'
  <1> DEFINE j == job[p]
             s == pgdir[p]
  <1>1. /\ Typed /\ s \in Space /\ new[p] \in Space /\ j \in Jobs /\ sz[p] \in 0..KERNBASE /\ cr3[p] \in Ptrs
        /\ Distinct(s)
    BY Known, Zenon DEF IInv
  <1>2. /\ j.phase = "freeold" /\ free' = free \cup InSpace(new[p]) /\ new' = [new EXCEPT ![p] = NoSpace]
        /\ job' = [job EXCEPT ![p] = NoJob]
        /\ UNCHANGED <<kstack, state, parent, panicked>> /\ pgdir' = pgdir /\ sz' = sz /\ cr3' = cr3
    BY SMTT(20) DEF freevm, Goto, ptable
  <1>3. /\ state[p] = "RUN" /\ kstack[p] # 0 /\ cr3[p] = s.dir /\ s.dir # 0 /\ Sized("RUN", s, sz[p], j)
        /\ j.op = "exec" /\ j.hand = 0
    BY <1>2, InCall DEF Grows, Forks, Execs
  <1>4. Update(p, s, NoSpace, sz[p], cr3[p], NoJob)
    BY <1>1, <1>2, Same, Zenon DEF Update
  <1>5. Values(s, NoSpace, sz[p], cr3[p], NoJob)
    BY <1>1, Nothing, NoJobOk, Zenon DEF Values
  <1>6. Sized("RUN", s, sz[p], NoJob)
    BY <1>3 DEF Sized
  <1>7. Fits(state[p], kstack[p], s, sz[p], cr3[p], NoSpace, NoJob)
    BY <1>3, <1>6, Idle, Zenon
  <1>8. SameFork(p, NoJob)
    BY NoJobOk DEF SameFork
  <1>9. \A f : f \in free' <=> \/ f \in free
                               \/ f \in InSpace(pgdir[p]) /\ f \notin InSpace(s)
                               \/ f \in InSpace(new[p]) /\ f \notin InSpace(NoSpace)
                               \/ f # 0 /\ f = j.hand /\ f # NoJob.hand
    BY <1>2, <1>3, Nothing, Zenon
  <1>10. InSpace(s) \subseteq InSpace(pgdir[p]) /\ InSpace(NoSpace) \subseteq InSpace(new[p])
    BY Nothing, Zenon
  <1> QED BY <1>1, <1>4, <1>5, <1>7, <1>8, <1>9, <1>10, NoJobOk, Nothing, GiveStep, Zenon
=============================================================================
