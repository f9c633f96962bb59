----------------------------- MODULE BioProofs -----------------------------
(***************************************************************************)
(* Proofs about Bio, for any sets of processes, buffers, blocks and        *)
(* contents and whichever commands fail: reference counts are exact, the   *)
(* queue of the driver is the processes that wait for it, and the cache    *)
(* with the driver implements the block store.                             *)
(***************************************************************************)
EXTENDS Bio, FiniteSetTheorems, TLAPS

Places == {"idle", "lock", "read", "reading", "have", "writing", "release"}
Holding == {"read", "reading", "have", "writing"}
Commands == [block : Blocks, op : {"read", "write"}, data : Values]

CacheTypes ==
    /\ blockno \in [Bufs -> Blocks \cup {NoBlock}]
    /\ data \in [Bufs -> Values]
    /\ valid \in [Bufs -> BOOLEAN] /\ dirty \in [Bufs -> BOOLEAN]
    /\ refcnt \in [Bufs -> Nat]
    /\ holder \in [Bufs -> Procs \cup {None}]
    /\ list \in [1..Cardinality(Bufs) -> Bufs]
    /\ pc \in [Procs -> Places]
    /\ want \in [Procs -> Blocks \cup {NoBlock}]
    /\ cur \in [Procs -> Bufs \cup {None}]

DriverTypes ==
    /\ disk \in [Blocks -> Values]
    /\ idequeue \in Seq(Bufs)
    /\ cmd \in Commands \cup {None}
    /\ irq \in {"no", "done", "failed"}
    /\ io \in [Bufs -> {"out", "asleep", "awake"}]
    /\ bad \in SUBSET Blocks

Listed == \A b \in Bufs : \E i \in 1..Cardinality(Bufs) : list[i] = b

\* A process in a call has the buffer of the block it asked for.
Named == \A p \in Procs :
    /\ pc[p] = "idle" <=> cur[p] = None
    /\ pc[p] = "idle" => want[p] = NoBlock
    /\ pc[p] # "idle" => want[p] \in Blocks /\ blockno[cur[p]] = want[p]

\* No block has two buffers.
OneCopy == \A b, c \in Bufs : blockno[b] = blockno[c] /\ blockno[b] # NoBlock => b = c

\* The holder of a buffer's lock is the process that is between acquiresleep and
\* releasesleep on it.
Holders == \A p \in Procs, b \in Bufs : holder[b] = p <=> cur[p] = b /\ pc[p] \in Holding

\* Where a process is says what its buffer's flags are; only a process that
\* waits for the driver has its buffer there.
Flags ==
    /\ \A b \in Bufs : dirty[b] => valid[b]
    /\ \A b \in Bufs : valid[b] => blockno[b] \in Blocks
    /\ \A b \in Bufs : io[b] # "out" => holder[b] # None /\ pc[holder[b]] \in {"reading", "writing"}
    /\ \A p \in Procs :
         /\ pc[p] \in {"have", "writing"} => valid[cur[p]]
         /\ pc[p] = "read" => ~valid[cur[p]]
         /\ pc[p] = "reading" => ~dirty[cur[p]]
         /\ pc[p] \in {"reading", "writing"} /\ io[cur[p]] = "out" =>
              valid[cur[p]] /\ ~dirty[cur[p]]

\* What the controller has been told is what the head of the queue holds, and
\* what it has done is on the disk.
Command ==
    /\ irq # "no" => cmd # None
    /\ cmd # None /\ cmd.op = "write" => cmd.data = data[Head(idequeue)]
    /\ cmd # None /\ cmd.op = "write" /\ irq = "done" => disk[cmd.block] = cmd.data
    /\ irq = "failed" => cmd.block \in bad

\* A buffer that is neither new nor dirty is the block on the disk, unless a
\* command for that block failed.
Synced == \A b \in Bufs :
    valid[b] /\ ~dirty[b] => data[b] = disk[blockno[b]] \/ blockno[b] \in bad

IInv ==
    /\ CacheTypes /\ DriverTypes /\ Listed /\ Named /\ OneCopy /\ Holders /\ Flags
    /\ RefsExact /\ QueueIsWaiters /\ Command /\ Synced
-----------------------------------------------------------------------------
LEMMA InitIInv == Init => IInv
  <1> SUFFICES ASSUME Init PROVE IInv
    BY Zenon
  <1> USE BioAssumption DEF Init, ideinit
  <1>1. CacheTypes
    BY Zenon DEF CacheTypes, Places
  <1>2. DriverTypes
    BY DEF DriverTypes
  <1>3. Listed /\ Named /\ OneCopy /\ Holders /\ Flags /\ Command /\ Synced
    BY Zenon DEF Listed, Named, OneCopy, Holders, Flags, Command, Synced, Holding
  <1>4. RefsExact
    <2> SUFFICES ASSUME NEW b \in Bufs PROVE refcnt[b] = Cardinality({p \in Procs : cur[p] = b})
      BY Zenon DEF RefsExact
    <2>1. {p \in Procs : cur[p] = b} = {}
      BY Zenon
    <2> QED
      BY <2>1, FS_EmptySet, Zenon
  <1>5. QueueIsWaiters
    BY DEF QueueIsWaiters, Queued, Range, IsInjective
  <1> QED
    BY <1>1, <1>2, <1>3, <1>4, <1>5, Zenon DEF IInv

\* What most steps leave alone.
LEMMA SameRefs == RefsExact /\ UNCHANGED <<refcnt, cur>> => RefsExact'
  BY Zenon DEF RefsExact

\* A buffer that nobody refers to is not locked and not with the driver.
LEMMA FreeBuffer ==
  ASSUME IInv, NEW b \in Bufs, refcnt[b] = 0
  PROVE  /\ \A p \in Procs : cur[p] # b
         /\ holder[b] = None /\ io[b] = "out" /\ b \notin Queued
  <1> USE BioAssumption
  <1>1. \A p \in Procs : cur[p] # b
    <2>1. IsFiniteSet({p \in Procs : cur[p] = b})
      BY FS_Subset, Zenon
    <2>2. Cardinality({p \in Procs : cur[p] = b}) = 0
      BY Zenon DEF IInv, RefsExact
    <2>3. {p \in Procs : cur[p] = b} = {}
      BY <2>1, <2>2, FS_EmptySet, Zenon
    <2> QED
      BY <2>3, Zenon
  <1>2. holder[b] = None
    BY <1>1 DEF IInv, Holders, CacheTypes
  <1>3. io[b] = "out"
    BY <1>2, Zenon DEF IInv, Flags
  <1> QED
    BY <1>1, <1>2, <1>3, Zenon DEF IInv, QueueIsWaiters

LEMMA LockedStep ==
  ASSUME IInv, NEW p \in Procs, Locked(p)
  PROVE  IInv'
  <1> USE BioAssumption DEF IInv, Locked, driver
  <1>1. CacheTypes'
    BY Zenon DEF CacheTypes, Places
  <1>2. DriverTypes'
    BY Zenon DEF DriverTypes
  <1>3. Listed'
    BY Zenon DEF Listed
  <1>4. Named'
    BY DEF Named, CacheTypes
  <1>5. OneCopy'
    BY Zenon DEF OneCopy
  <1>6. Holders'
    BY DEF Holders, CacheTypes, Named, Holding
  <1>7. Flags'
    BY DEF Flags, CacheTypes, Named, Holders, Holding
  <1>8. RefsExact'
    BY SameRefs, Zenon
  <1>9. QueueIsWaiters'
    BY Zenon DEF QueueIsWaiters, Queued
  <1>10. Command'
    BY Zenon DEF Command
  <1>11. Synced'
    BY Zenon DEF Synced
  <1> QED
    BY <1>1, <1>2, <1>3, <1>4, <1>5, <1>6, <1>7, <1>8, <1>9, <1>10, <1>11, Zenon

LEMMA brelseStep ==
  ASSUME IInv, NEW p \in Procs, brelse(p)
  PROVE  IInv'
  <1> USE BioAssumption DEF IInv, brelse, driver
  <1>1. CacheTypes'
    BY Zenon DEF CacheTypes, Places
  <1>2. DriverTypes'
    BY Zenon DEF DriverTypes
  <1>3. Listed'
    BY Zenon DEF Listed
  <1>4. Named'
    BY Zenon DEF Named, CacheTypes
  <1>5. OneCopy'
    BY Zenon DEF OneCopy
  <1>6. Holders'
    BY DEF Holders, CacheTypes, Named, Holding
  <1>7. Flags'
    BY DEF Flags, CacheTypes, Named, Holders, Holding
  <1>8. RefsExact'
    BY SameRefs, Zenon
  <1>9. QueueIsWaiters'
    BY Zenon DEF QueueIsWaiters, Queued
  <1>10. Command'
    BY Zenon DEF Command
  <1>11. Synced'
    BY Zenon DEF Synced
  <1> QED
    BY <1>1, <1>2, <1>3, <1>4, <1>5, <1>6, <1>7, <1>8, <1>9, <1>10, <1>11, Zenon

LEMMA TransferredStep ==
  ASSUME IInv, NEW p \in Procs, Transferred(p)
  PROVE  IInv'
  <1> USE BioAssumption DEF IInv, Transferred, driver
  <1>1. CacheTypes'
    BY Zenon DEF CacheTypes, Places
  <1>2. DriverTypes'
    BY Zenon DEF DriverTypes
  <1>3. Listed'
    BY Zenon DEF Listed
  <1>4. Named'
    BY Zenon DEF Named, CacheTypes
  <1>5. OneCopy'
    BY Zenon DEF OneCopy
  <1>6. Holders'
    BY DEF Holders, CacheTypes, Named, Holding
  <1>7. Flags'
    BY DEF Flags, CacheTypes, Named, Holders, Holding
  <1>8. RefsExact'
    BY SameRefs, Zenon
  <1>9. QueueIsWaiters'
    BY Zenon DEF QueueIsWaiters, Queued
  <1>10. Command'
    BY Zenon DEF Command
  <1>11. Synced'
    BY Zenon DEF Synced
  <1> QED
    BY <1>1, <1>2, <1>3, <1>4, <1>5, <1>6, <1>7, <1>8, <1>9, <1>10, <1>11, Zenon

LEMMA NoneNoCommand == None \notin Commands
  BY BioAssumption, Zenon DEF Commands

LEMMA HeadQueued == DriverTypes /\ idequeue # <<>> => Head(idequeue) \in Queued /\ Head(idequeue) \in Bufs
  BY DEF DriverTypes, Queued, Range

LEMMA CommandMade ==
  ASSUME NEW k \in Blocks, NEW v \in Values, NEW w
  PROVE  [block |-> k, op |-> IF w THEN "write" ELSE "read", data |-> v] \in Commands
  BY DEF Commands

\* The queue after a request is added.
LEMMA Appended ==
  ASSUME NEW q \in Seq(Bufs), NEW b \in Bufs, NEW r, r = Append(q, b)
  PROVE  /\ r \in Seq(Bufs) /\ r # <<>>
         /\ Range(r) = Range(q) \cup {b}
         /\ Head(r) = IF q = <<>> THEN b ELSE Head(q)
         /\ b \notin Range(q) /\ IsInjective(q) => IsInjective(r)
  <1>1. r \in Seq(Bufs) /\ Len(r) = Len(q) + 1 /\ Len(q) \in Nat
    OBVIOUS
  <1>2. DOMAIN r = 1..Len(q) + 1 /\ DOMAIN q = 1..Len(q)
    BY <1>1
  <1>3. \A i \in 1..Len(q) : r[i] = q[i]
    OBVIOUS
  <1>4. r[Len(q) + 1] = b
    OBVIOUS
  <1>5. Range(r) = Range(q) \cup {b}
    <2>1. ASSUME NEW i \in DOMAIN r PROVE r[i] \in Range(q) \cup {b}
      BY <1>1, <1>2, <1>3, <1>4 DEF Range
    <2>2. ASSUME NEW j \in DOMAIN q PROVE q[j] \in Range(r)
      <3>1. j \in DOMAIN r /\ q[j] = r[j]
        BY <1>1, <1>2, <1>3
      <3> QED
        BY <3>1, Zenon DEF Range
    <2>3. b \in Range(r)
      BY <1>1, <1>2, <1>4 DEF Range
    <2> QED
      BY <2>1, <2>2, <2>3, Zenon DEF Range
  <1>6. r # <<>> /\ Head(r) = IF q = <<>> THEN b ELSE Head(q)
    BY <1>1
  <1>7. ASSUME b \notin Range(q), IsInjective(q) PROVE IsInjective(r)
    BY <1>1, <1>2, <1>3, <1>4, <1>7 DEF Range, IsInjective
  <1> QED
    BY <1>1, <1>5, <1>6, <1>7, Zenon

\* The queue after its head is served.
LEMMA Served ==
  ASSUME NEW q \in Seq(Bufs), q # <<>>, IsInjective(q), NEW r, r = Tail(q)
  PROVE  /\ r \in Seq(Bufs) /\ IsInjective(r)
         /\ Range(r) = Range(q) \ {Head(q)}
         /\ r # <<>> => Head(r) \in Range(r)
  <1>1. r \in Seq(Bufs) /\ Len(q) \in Nat \ {0} /\ Len(r) = Len(q) - 1
    OBVIOUS
  <1>2. DOMAIN r = 1..Len(q) - 1 /\ DOMAIN q = 1..Len(q)
    BY <1>1
  <1>3. \A i \in 1..Len(q) - 1 : r[i] = q[i + 1] /\ i + 1 \in 1..Len(q)
    BY <1>1
  <1>4. Head(q) = q[1] /\ 1 \in DOMAIN q
    BY <1>1, <1>2
  <1>5. Range(r) = Range(q) \ {Head(q)}
    <2>1. ASSUME NEW i \in DOMAIN r PROVE r[i] \in Range(q) \ {Head(q)}
      <3>1. r[i] = q[i + 1] /\ i + 1 \in DOMAIN q /\ i + 1 # 1
        BY <1>1, <1>2, <1>3
      <3> QED
        BY <1>4, <3>1, Zenon DEF Range, IsInjective
    <2>2. ASSUME NEW j \in DOMAIN q, q[j] # Head(q) PROVE q[j] \in Range(r)
      <3>1. j # 1
        BY <1>4, <2>2, Zenon
      <3>2. j - 1 \in DOMAIN r /\ (j - 1) + 1 = j
        BY <1>1, <1>2, <3>1
      <3>3. r[j - 1] = q[j]
        BY <1>2, <1>3, <3>2, Zenon
      <3> QED
        BY <3>2, <3>3, Zenon DEF Range
    <2> QED
      BY <2>1, <2>2, Zenon DEF Range
  <1>6. ASSUME NEW i \in DOMAIN r, NEW j \in DOMAIN r, r[i] = r[j] PROVE i = j
    <2>1. q[i + 1] = q[j + 1] /\ i + 1 \in DOMAIN q /\ j + 1 \in DOMAIN q
      BY <1>2, <1>3, <1>6, Zenon
    <2>2. i + 1 = j + 1
      BY <2>1, Zenon DEF IsInjective
    <2> QED
      BY <1>1, <1>2, <2>2
  <1>7. ASSUME r # <<>> PROVE Head(r) \in Range(r)
    <2>1. Head(r) = r[1] /\ 1 \in DOMAIN r
      BY <1>1, <1>7
    <2> QED
      BY <2>1, Zenon DEF Range
  <1> QED
    BY <1>1, <1>5, <1>6, <1>7, Zenon DEF IsInjective

\* The process whose request is with the driver holds the buffer of its block.
LEMMA WaiterHolds ==
  ASSUME IInv, NEW b \in Bufs, io[b] # "out"
  PROVE  holder[b] \in Procs /\ cur[holder[b]] = b /\ blockno[b] \in Blocks
  <1>1. holder[b] \in Procs /\ pc[holder[b]] \in {"reading", "writing"}
    BY Zenon DEF IInv, Flags, CacheTypes
  <1>2. cur[holder[b]] = b
    BY <1>1, Zenon DEF IInv, Holders
  <1> QED
    BY <1>1, <1>2, Zenon DEF IInv, Named

LEMMA brelseRefStep ==
  ASSUME IInv, NEW p \in Procs, brelseRef(p)
  PROVE  IInv'
  <1> USE BioAssumption DEF IInv, brelseRef, driver
  <1>1. CacheTypes'
    <2>1. cur[p] \in Bufs
      BY Zenon DEF CacheTypes, Named
    <2>2. p \in {q \in Procs : cur[q] = cur[p]} /\ IsFiniteSet({q \in Procs : cur[q] = cur[p]})
      BY FS_Subset, Zenon
    <2>a. Cardinality({q \in Procs : cur[q] = cur[p]}) # 0
      BY <2>2, FS_EmptySet, Zenon
    <2>b. refcnt[cur[p]] = Cardinality({q \in Procs : cur[q] = cur[p]})
      BY <2>1, Zenon DEF RefsExact
    <2>3. refcnt[cur[p]] - 1 \in Nat
      BY <2>1, <2>a, <2>b DEF CacheTypes
    <2>4. Cardinality(Bufs) \in Nat
      BY FS_CardinalityType, Zenon
    <2>5. list' \in [1..Cardinality(Bufs) -> Bufs]
      BY <2>1, <2>4 DEF CacheTypes, ToFront
    <2> QED
      BY <2>1, <2>3, <2>5, Zenon DEF CacheTypes, Places
  <1>2. DriverTypes'
    BY Zenon DEF DriverTypes
  <1>3. Listed'
    <2> DEFINE b == cur[p]
               k == CHOOSE i \in DOMAIN list : list[i] = b
    <2>1. b \in Bufs
      BY Zenon DEF Named, CacheTypes
    <2>2. DOMAIN list = 1..Cardinality(Bufs) /\ Cardinality(Bufs) \in Nat
      BY FS_CardinalityType, Zenon DEF CacheTypes
    <2>3. k \in DOMAIN list /\ list[k] = b
      BY <2>1, <2>2, Zenon DEF Listed
    <2>0. list' = list \/ list' = [i \in 1..Cardinality(Bufs) |->
                IF i = 1 THEN b ELSE IF i <= k THEN list[i - 1] ELSE list[i]]
      BY <2>2, Zenon DEF ToFront
    <2> HIDE DEF k
    <2>4. ASSUME NEW c \in Bufs PROVE \E i \in 1..Cardinality(Bufs) : list'[i] = c
      <3>1. PICK i \in 1..Cardinality(Bufs) : list[i] = c
        BY Zenon DEF Listed
      <3>2. CASE c = b
        <4>1. 1 \in 1..Cardinality(Bufs)
          BY <2>2, <3>1
        <4> QED
          BY <2>0, <3>1, <3>2, <4>1, Zenon
      <3>3. CASE c # b /\ i <= k
        <4>1. i + 1 \in 1..Cardinality(Bufs) /\ i + 1 <= k /\ i + 1 # 1 /\ (i + 1) - 1 = i
          BY <2>2, <2>3, <3>1, <3>3
        <4>2. list' = list \/ list'[i + 1] = c
          BY <2>0, <3>1, <4>1, Zenon
        <4> QED
          BY <3>1, <4>1, <4>2, Zenon
      <3>4. CASE c # b /\ i > k
        <4>1. i # 1 /\ ~(i <= k)
          BY <2>2, <2>3, <3>1, <3>4
        <4> QED
          BY <2>0, <3>1, <4>1, Zenon
      <3> QED
        BY <2>2, <2>3, <3>2, <3>3, <3>4
    <2> QED
      BY <2>4, Zenon DEF Listed
  <1>4. Named'
    BY Zenon DEF Named, CacheTypes
  <1>5. OneCopy'
    BY Zenon DEF OneCopy
  <1>6. Holders'
    BY DEF Holders, CacheTypes, Named, Holding
  <1>7. Flags'
    BY DEF Flags, CacheTypes, Named, Holders, Holding
  <1>8. RefsExact'
    <2> SUFFICES ASSUME NEW b \in Bufs
                 PROVE refcnt'[b] = Cardinality({q \in Procs : cur'[q] = b})
      BY Zenon DEF RefsExact
    <2> DEFINE Users == {q \in Procs : cur[q] = b}
    <2>1. {q \in Procs : cur'[q] = b} = Users \ {p}
      BY Zenon DEF CacheTypes
    <2>2. IsFiniteSet(Users)
      BY FS_Subset, Zenon
    <2>3. Cardinality(Users \ {p}) = IF p \in Users THEN Cardinality(Users) - 1 ELSE Cardinality(Users)
      BY <2>2, FS_RemoveElement, Zenon
    <2>4. p \in Users <=> cur[p] = b
      BY Zenon
    <2> HIDE DEF Users
    <2>5. refcnt[b] = Cardinality(Users)
      BY Zenon DEF RefsExact, Users
    <2> QED
      BY <2>1, <2>3, <2>4, <2>5, Zenon DEF CacheTypes
  <1>9. QueueIsWaiters'
    BY Zenon DEF QueueIsWaiters, Queued
  <1>10. Command'
    BY Zenon DEF Command
  <1>11. Synced'
    BY Zenon DEF Synced
  <1> QED
    BY <1>1, <1>2, <1>3, <1>4, <1>5, <1>6, <1>7, <1>8, <1>9, <1>10, <1>11, Zenon

LEMMA CachedStep ==
  ASSUME IInv, NEW p \in Procs, pc[p] = "idle", NEW k \in Blocks, NEW b \in Cached(k),
         refcnt' = [refcnt EXCEPT ![b] = @ + 1], Got(p, k, b), UNCHANGED <<blockno, valid, dirty>>
  PROVE  IInv'
  <1> USE BioAssumption DEF IInv, Cached, Got, driver
  <1>1. CacheTypes'
    BY DEF CacheTypes, Places
  <1>2. DriverTypes'
    BY Zenon DEF DriverTypes
  <1>3. Listed'
    BY Zenon DEF Listed
  <1>4. Named'
    BY Zenon DEF Named, CacheTypes
  <1>5. OneCopy'
    BY Zenon DEF OneCopy
  <1>6. Holders'
    BY DEF Holders, CacheTypes, Named, Holding
  <1>7. Flags'
    BY DEF Flags, CacheTypes, Named, Holders, Holding
  <1>8. RefsExact'
    <2> SUFFICES ASSUME NEW c \in Bufs
                 PROVE refcnt'[c] = Cardinality({q \in Procs : cur'[q] = c})
      BY Zenon DEF RefsExact
    <2> DEFINE Users == {q \in Procs : cur[q] = c}
    <2>1. {q \in Procs : cur'[q] = c} = IF c = b THEN Users \cup {p} ELSE Users
      BY DEF CacheTypes, Named
    <2>2. IsFiniteSet(Users)
      BY FS_Subset, Zenon
    <2>3. p \notin Users
      BY Zenon DEF Named
    <2>4. Cardinality(Users \cup {p}) = Cardinality(Users) + 1
      BY <2>2, <2>3, FS_AddElement, Zenon
    <2> HIDE DEF Users
    <2>5. refcnt[c] = Cardinality(Users)
      BY Zenon DEF RefsExact, Users
    <2>6. b \in Bufs /\ refcnt'[b] = refcnt[b] + 1 /\ (c # b => refcnt'[c] = refcnt[c])
      BY Zenon DEF CacheTypes
    <2> QED
      BY <2>1, <2>4, <2>5, <2>6, Zenon
  <1>9. QueueIsWaiters'
    BY Zenon DEF QueueIsWaiters, Queued
  <1>10. Command'
    BY Zenon DEF Command
  <1>11. Synced'
    BY Zenon DEF Synced
  <1> QED
    BY <1>1, <1>2, <1>3, <1>4, <1>5, <1>6, <1>7, <1>8, <1>9, <1>10, <1>11, Zenon

LEMMA RecycledStep ==
  ASSUME IInv, NEW p \in Procs, pc[p] = "idle", NEW k \in Blocks, NEW b \in Unused, Cached(k) = {},
         blockno' = [blockno EXCEPT ![b] = k], valid' = [valid EXCEPT ![b] = FALSE],
         dirty' = [dirty EXCEPT ![b] = FALSE], refcnt' = [refcnt EXCEPT ![b] = 1], Got(p, k, b)
  PROVE  IInv'
  <1> USE BioAssumption DEF IInv, Cached, Unused, Got, driver
  <1>a. /\ \A q \in Procs : cur[q] # b
        /\ holder[b] = None /\ io[b] = "out" /\ b \notin Queued
    BY FreeBuffer, Zenon
  <1>1. CacheTypes'
    BY Zenon DEF CacheTypes, Places
  <1>2. DriverTypes'
    BY Zenon DEF DriverTypes
  <1>3. Listed'
    BY Zenon DEF Listed
  <1>4. Named'
    BY <1>a DEF Named, CacheTypes
  <1>5. OneCopy'
    BY Zenon DEF OneCopy, Cached, CacheTypes
  <1>6. Holders'
    BY <1>a DEF Holders, CacheTypes, Named, Holding
  <1>7. Flags'
    BY <1>a DEF Flags, CacheTypes, Named, Holders, Holding
  <1>8. RefsExact'
    <2> SUFFICES ASSUME NEW c \in Bufs
                 PROVE refcnt'[c] = Cardinality({q \in Procs : cur'[q] = c})
      BY Zenon DEF RefsExact
    <2> DEFINE Users == {q \in Procs : cur[q] = c}
    <2>1. {q \in Procs : cur'[q] = c} = IF c = b THEN Users \cup {p} ELSE Users
      BY DEF CacheTypes, Named
    <2>2. IsFiniteSet(Users)
      BY FS_Subset, Zenon
    <2>3. p \notin Users
      BY Zenon DEF Named
    <2>4. Cardinality(Users \cup {p}) = Cardinality(Users) + 1
      BY <2>2, <2>3, FS_AddElement, Zenon
    <2> HIDE DEF Users
    <2>5. refcnt[c] = Cardinality(Users)
      BY Zenon DEF RefsExact, Users
    <2>6. b \in Bufs /\ refcnt'[b] = refcnt[b] + 1 /\ (c # b => refcnt'[c] = refcnt[c])
      BY DEF CacheTypes
    <2> QED
      BY <2>1, <2>4, <2>5, <2>6, Zenon
  <1>9. QueueIsWaiters'
    BY <1>a, HeadQueued DEF QueueIsWaiters, Queued, CacheTypes
  <1>10. Command'
    BY <1>a, Zenon DEF Command
  <1>11. Synced'
    BY Zenon DEF Synced, CacheTypes
  <1> QED
    BY <1>1, <1>2, <1>3, <1>4, <1>5, <1>6, <1>7, <1>8, <1>9, <1>10, <1>11, Zenon

LEMMA log_writeStep ==
  ASSUME IInv, NEW p \in Procs, log_write(p)
  PROVE  IInv'
  <1> USE BioAssumption DEF IInv, log_write, Changed, driver
  <1>a. cur[p] \in Bufs /\ valid[cur[p]] /\ io[cur[p]] = "out" /\ cur[p] \notin Queued
    <2>1. cur[p] \in Bufs /\ holder[cur[p]] = p
      BY DEF CacheTypes, Named, Holders, Holding
    <2>2. io[cur[p]] = "out"
      BY <2>1, Zenon DEF Flags
    <2> QED
      BY <2>1, <2>2, Zenon DEF Flags, QueueIsWaiters
  <1>1. CacheTypes'
    <2>1. PICK v \in Values : Changed(p, v)
      BY Zenon
    <2>2. data' \in [Bufs -> Values] /\ dirty' \in [Bufs -> BOOLEAN]
      BY <2>1, Zenon DEF CacheTypes
    <2> QED
      BY <2>2 DEF CacheTypes, Places
  <1>2. DriverTypes'
    BY Zenon DEF DriverTypes
  <1>3. Listed'
    BY Zenon DEF Listed
  <1>4. Named'
    BY Zenon DEF Named, CacheTypes
  <1>5. OneCopy'
    BY Zenon DEF OneCopy
  <1>6. Holders'
    BY DEF Holders, CacheTypes, Named, Holding
  <1>7. Flags'
    BY DEF Flags, CacheTypes, Named, Holders, Holding
  <1>8. RefsExact'
    BY SameRefs, Zenon
  <1>9. QueueIsWaiters'
    BY <1>a, HeadQueued DEF QueueIsWaiters, Queued, CacheTypes
  <1>10. Command'
    BY <1>a, HeadQueued, Zenon DEF Command, QueueIsWaiters, CacheTypes
  <1>11. Synced'
    BY DEF Synced, CacheTypes, Named
  <1> QED
    BY <1>1, <1>2, <1>3, <1>4, <1>5, <1>6, <1>7, <1>8, <1>9, <1>10, <1>11, Zenon

\* A read or a write of b goes to the driver.
LEMMA iderwStep ==
  ASSUME IInv, NEW p \in Procs, NEW b, cur[p] = b, bread(p) \/ bwrite(p)
  PROVE  IInv'
  <1>1. PICK w \in {"reading", "writing"} :
          pc' = [pc EXCEPT ![p] = w] /\ pc[p] = IF w = "reading" THEN "read" ELSE "have"
    BY Zenon DEF bread, bwrite, Changed
  <1>a. pc[p] \in Holding /\ w \in Holding /\ pc[p] # "idle" /\ w # "idle"
    BY <1>1 DEF Holding
  <1>2. b \in Bufs /\ blockno[b] \in Blocks /\ holder[b] = p
    <2>1. b \in Bufs /\ blockno[b] \in Blocks
      BY <1>a, Zenon DEF IInv, CacheTypes, Named
    <2> QED
      BY <1>a, <2>1, Zenon DEF IInv, Holders
  <1>3. io[b] = "out" /\ b \notin Queued
    BY <1>1, <1>2, Zenon DEF IInv, Flags, QueueIsWaiters
  <1>4. UNCHANGED <<blockno, valid, list, refcnt, holder, want, cur>>
    BY Zenon DEF bread, bwrite, Changed
  <1>5. /\ data' \in [Bufs -> Values] /\ dirty' \in [Bufs -> BOOLEAN]
        /\ \A c \in Bufs : c # b => data'[c] = data[c] /\ dirty'[c] = dirty[c]
        /\ dirty'[b] <=> w = "writing"
        /\ valid[b] <=> w = "writing"
    <2>1. CASE w = "reading"
      <3>1. UNCHANGED <<data, dirty>> /\ ~valid[b] /\ ~dirty[b]
        BY <1>1, <1>2, <2>1, Zenon DEF bread, bwrite, Changed, IInv, Flags
      <3> QED
        BY <2>1, <3>1, Zenon DEF IInv, CacheTypes
    <2>2. CASE w = "writing"
      <3>1. PICK v \in Values : data' = [data EXCEPT ![b] = v] /\ dirty' = [dirty EXCEPT ![b] = TRUE]
        BY <1>1, <2>2, Zenon DEF bread, bwrite, Changed
      <3>2. valid[b]
        BY <1>1, <2>2, Zenon DEF IInv, Flags
      <3> QED
        BY <1>2, <2>2, <3>1, <3>2, Zenon DEF IInv, CacheTypes
    <2> QED
      BY <2>1, <2>2, Zenon
  <1>6. /\ idequeue' = Append(idequeue, b) /\ io' = [io EXCEPT ![b] = "asleep"]
        /\ UNCHANGED <<disk, irq, bad>>
        /\ IF idequeue = <<>> THEN idestart(b) ELSE cmd' = cmd
    BY Zenon DEF bread, bwrite, iderw
  <1>7. /\ idequeue' \in Seq(Bufs) /\ IsInjective(idequeue') /\ Queued' = Queued \cup {b}
        /\ idequeue' # <<>> /\ Head(idequeue') = IF idequeue = <<>> THEN b ELSE Head(idequeue)
    <2>1. idequeue \in Seq(Bufs) /\ IsInjective(idequeue) /\ b \notin Range(idequeue)
      BY <1>3, Zenon DEF IInv, DriverTypes, QueueIsWaiters, Queued
    <2> QED
      BY <1>2, <1>6, <2>1, Appended, Zenon DEF Queued
  <1>8. idequeue # <<>> => Head(idequeue) \in Queued /\ Head(idequeue) \in Bufs /\ Head(idequeue) # b
    BY <1>3, HeadQueued, Zenon DEF IInv
  <1>9. /\ cmd' \in Commands /\ cmd'.block = blockno[Head(idequeue')]
        /\ cmd'.op = "write" <=> dirty'[Head(idequeue')]
        /\ cmd'.op = "write" => cmd'.data = data'[Head(idequeue')]
        /\ irq # "no" => cmd # None /\ cmd' = cmd
    <2>1. CASE idequeue = <<>>
      <3>1. /\ cmd' \in Commands /\ cmd'.block = blockno[b] /\ cmd'.data = data'[b]
            /\ cmd'.op = "write" <=> dirty'[b]
        BY <1>2, <1>5, <1>6, <2>1 DEF idestart, Commands
      <3>2. irq = "no"
        BY <2>1, Zenon DEF IInv, Command, QueueIsWaiters
      <3> QED
        BY <1>7, <2>1, <3>1, <3>2, Zenon
    <2>2. CASE idequeue # <<>>
      <3>1. /\ cmd \in Commands /\ cmd.block = blockno[Head(idequeue)] /\ cmd # None
            /\ cmd.op = "write" <=> dirty[Head(idequeue)]
            /\ cmd.op = "write" => cmd.data = data[Head(idequeue)]
        BY <2>2, Zenon DEF IInv, Command, QueueIsWaiters, DriverTypes
      <3>2. cmd' = cmd /\ Head(idequeue') = Head(idequeue)
        BY <1>6, <1>7, <2>2, Zenon
      <3>3. dirty'[Head(idequeue)] = dirty[Head(idequeue)] /\ data'[Head(idequeue)] = data[Head(idequeue)]
        BY <1>5, <1>8, <2>2, Zenon
      <3> QED
        BY <3>1, <3>2, <3>3, Zenon
    <2> QED
      BY <2>1, <2>2, Zenon
  <1>10. CacheTypes'
    BY <1>1, <1>4, <1>5, Zenon DEF IInv, CacheTypes, Places
  <1>11. DriverTypes'
    BY <1>2, <1>6, <1>7, <1>9, Zenon DEF IInv, DriverTypes
  <1>12. Listed' /\ OneCopy' /\ RefsExact'
    BY <1>4, SameRefs, Zenon DEF IInv, Listed, OneCopy
  <1>13. \A q \in Procs : pc'[q] = IF q = p THEN w ELSE pc[q]
    BY <1>1, Zenon DEF IInv, CacheTypes
  <1>14. Named'
    BY <1>a, <1>4, <1>13, Zenon DEF IInv, Named
  <1>15. Holders'
    <2>1. \A q \in Procs : pc'[q] \in Holding <=> pc[q] \in Holding
      BY <1>a, <1>13, Zenon
    <2> QED
      BY <1>4, <2>1, Zenon DEF IInv, Holders
  <1>16. \A c \in Bufs : io'[c] = IF c = b THEN "asleep" ELSE io[c]
    BY <1>6, Zenon DEF IInv, DriverTypes
  <1>17. Flags'
    <2>1. ASSUME NEW c \in Bufs
          PROVE  /\ dirty'[c] => valid'[c]
                 /\ valid'[c] => blockno'[c] \in Blocks
                 /\ io'[c] # "out" => holder'[c] # None /\ pc'[holder'[c]] \in {"reading", "writing"}
      <3>1. CASE c = b
        BY <1>2, <1>4, <1>5, <1>13, <3>1, BioAssumption, Zenon
      <3>2. CASE c # b
        <4>1. io[c] # "out" => holder[c] \in Procs /\ holder[c] # p
          BY <1>2, <3>2, WaiterHolds, Zenon
        <4> QED
          BY <1>4, <1>5, <1>13, <1>16, <3>2, <4>1, Zenon DEF IInv, Flags
      <3> QED
        BY <3>1, <3>2, Zenon
    <2>2. ASSUME NEW q \in Procs
          PROVE  /\ pc'[q] \in {"have", "writing"} => valid'[cur'[q]]
                 /\ pc'[q] = "read" => ~valid'[cur'[q]]
                 /\ pc'[q] = "reading" => ~dirty'[cur'[q]]
                 /\ pc'[q] \in {"reading", "writing"} /\ io'[cur'[q]] = "out" =>
                      valid'[cur'[q]] /\ ~dirty'[cur'[q]]
      <3>1. CASE q = p
        BY <1>1, <1>2, <1>4, <1>5, <1>13, <1>16, <3>1, Zenon
      <3>2. CASE q # p
        <4>1. pc[q] \in Holding => cur[q] # b
          BY <1>2, <3>2, Zenon DEF IInv, Holders
        <4>2. pc[q] \in Holding => cur[q] \in Bufs
          BY Zenon DEF IInv, Named, CacheTypes, Holding
        <4>3. /\ cur'[q] = cur[q] /\ pc'[q] = pc[q] /\ valid'[cur[q]] = valid[cur[q]]
              /\ pc[q] \in Holding => dirty'[cur[q]] = dirty[cur[q]] /\ io'[cur[q]] = io[cur[q]]
          BY <1>4, <1>5, <1>13, <1>16, <3>2, <4>1, <4>2, Zenon
        <4> QED
          BY <4>3, Zenon DEF IInv, Flags, Holding
      <3> QED
        BY <3>1, <3>2, Zenon
    <2> QED
      BY <2>1, <2>2, Zenon DEF Flags
  <1>18. QueueIsWaiters'
    <2>1. \A c \in Bufs : c \in Queued' <=> io'[c] # "out" /\ (dirty'[c] \/ ~valid'[c])
      BY <1>4, <1>5, <1>7, <1>16, Zenon DEF IInv, QueueIsWaiters
    <2> QED
      BY <1>4, <1>7, <1>9, <2>1, NoneNoCommand, Zenon DEF QueueIsWaiters
  <1>19. Command'
    BY <1>6, <1>9, NoneNoCommand, Zenon DEF IInv, Command
  <1>20. Synced'
    BY <1>4, <1>5, <1>6, Zenon DEF IInv, Synced
  <1> QED
    BY <1>10, <1>11, <1>12, <1>14, <1>15, <1>17, <1>18, <1>19, <1>20, Zenon DEF IInv

\* The driver leaves the cache alone but for the flags and the data.
LEMMA CacheSame ==
  ASSUME IInv, UNCHANGED <<blockno, list, refcnt, holder, pc, want, cur>>
  PROVE  Listed' /\ Named' /\ OneCopy' /\ Holders' /\ RefsExact'
  <1>1. Listed' /\ Named' /\ OneCopy'
    BY Zenon DEF IInv, Listed, Named, OneCopy
  <1>2. Holders' /\ RefsExact'
    BY SameRefs, Zenon DEF IInv, Holders
  <1> QED
    BY <1>1, <1>2, Zenon

LEMMA FinishStep ==
  ASSUME IInv, Finish, UNCHANGED cache
  PROVE  IInv'
  <1> USE DEF IInv, Finish, cache
  <1>1. Listed' /\ Named' /\ OneCopy' /\ Holders' /\ RefsExact'
    BY CacheSame, Zenon
  <1>2. CacheTypes'
    BY Zenon DEF CacheTypes
  <1>3. DriverTypes'
    BY Zenon DEF DriverTypes, Commands
  <1>4. Flags'
    BY Zenon DEF Flags
  <1>5. QueueIsWaiters'
    BY Zenon DEF QueueIsWaiters, Queued
  <1>6. Command'
    BY Zenon DEF Command, DriverTypes, Commands
  <1>7. Synced'
    <2>1. CASE cmd.op = "write"
      <3>1. idequeue # <<>> /\ Head(idequeue) \in Bufs
        BY HeadQueued, Zenon DEF QueueIsWaiters
      <3>2. blockno[Head(idequeue)] = cmd.block /\ cmd.block \in Blocks /\ dirty[Head(idequeue)]
        BY <2>1, <3>1, Zenon DEF QueueIsWaiters, DriverTypes, Commands
      <3>3. \A b \in Bufs : blockno[b] = cmd.block => dirty[b]
        BY <3>1, <3>2, BioAssumption, Zenon DEF OneCopy
      <3> QED
        BY <2>1, <3>2, <3>3, Zenon DEF Synced, DriverTypes, Flags
    <2>2. CASE cmd.op # "write"
      BY <2>2, Zenon DEF Synced
    <2> QED
      BY <2>1, <2>2, Zenon
  <1> QED
    BY <1>1, <1>2, <1>3, <1>4, <1>5, <1>6, <1>7, Zenon

LEMMA FailStep ==
  ASSUME IInv, Fail, UNCHANGED cache
  PROVE  IInv'
  <1> USE DEF IInv, Fail, cache
  <1>1. Listed' /\ Named' /\ OneCopy' /\ Holders' /\ RefsExact'
    BY CacheSame, Zenon
  <1>2. CacheTypes'
    BY Zenon DEF CacheTypes
  <1>3. DriverTypes'
    BY Zenon DEF DriverTypes, Commands
  <1>4. Flags'
    BY Zenon DEF Flags
  <1>5. QueueIsWaiters'
    BY Zenon DEF QueueIsWaiters, Queued
  <1>6. Command' /\ Synced'
    BY Zenon DEF Command, Synced
  <1> QED
    BY <1>1, <1>2, <1>3, <1>4, <1>5, <1>6, Zenon

\* kill and the loop of iderw change one io, out of "asleep" or "awake".
LEMMA WakeStep ==
  ASSUME IInv, NEW b \in Bufs, Kill(b) \/ iderwAwake(b), UNCHANGED cache
  PROVE  IInv'
  <1> USE DEF IInv
  <1>1. /\ UNCHANGED <<disk, blockno, data, valid, dirty, idequeue, cmd, irq, bad>>
        /\ UNCHANGED <<list, refcnt, holder, pc, want, cur>>
    BY Zenon DEF Kill, iderwAwake, cache
  <1>2. PICK w \in {"out", "asleep", "awake"} : io' = [io EXCEPT ![b] = w]
    BY Zenon DEF Kill, iderwAwake
  <1>3. io[b] # "out" /\ (w = "out" => valid[b] /\ ~dirty[b])
    <2>1. io'[b] = w
      BY <1>2, Zenon DEF DriverTypes
    <2> QED
      BY <1>2, <2>1, Zenon DEF Kill, iderwAwake, DriverTypes
  <1>4. \A c \in Bufs : io'[c] = IF c = b THEN w ELSE io[c]
    BY <1>2, Zenon DEF DriverTypes
  <1>5. Listed' /\ Named' /\ OneCopy' /\ Holders' /\ RefsExact'
    BY <1>1, CacheSame, Zenon
  <1>6. CacheTypes' /\ DriverTypes'
    BY <1>1, <1>2, Zenon DEF CacheTypes, DriverTypes
  <1>7. Flags'
    <2>1. ASSUME NEW q \in Procs, pc[q] \in {"reading", "writing"}, io'[cur[q]] = "out"
          PROVE  valid[cur[q]] /\ ~dirty[cur[q]]
      <3>1. cur[q] \in Bufs
        BY <2>1, Zenon DEF Named, CacheTypes
      <3> QED
        BY <1>3, <1>4, <2>1, <3>1, Zenon DEF Flags
    <2>2. \A c \in Bufs : io'[c] # "out" => io[c] # "out"
      BY <1>3, <1>4, Zenon
    <2> QED
      BY <1>1, <2>1, <2>2, Zenon DEF Flags
  <1>8. QueueIsWaiters'
    BY <1>1, <1>3, <1>4, Zenon DEF QueueIsWaiters, Queued
  <1>9. Command' /\ Synced'
    BY <1>1, Zenon DEF Command, Synced
  <1> QED
    BY <1>5, <1>6, <1>7, <1>8, <1>9, Zenon

LEMMA ideintrStep ==
  ASSUME IInv, ideintr, UNCHANGED cache
  PROVE  IInv'
  <1> USE BioAssumption DEF IInv, ideintr, cache
  <1> DEFINE b == Head(idequeue)
  <1>a. /\ idequeue # <<>> /\ b \in Bufs /\ cmd \in Commands
        /\ blockno[b] = cmd.block /\ (cmd.op = "write" <=> dirty[b])
        /\ io[b] # "out" /\ b \in Queued
    <2>1. cmd # None
      BY Zenon DEF Command
    <2>2. idequeue # <<>>
      BY <2>1, Zenon DEF QueueIsWaiters
    <2>3. b \in Bufs /\ b \in Queued
      BY <2>2 DEF DriverTypes, Queued, Range
    <2> QED
      BY <2>1, <2>2, <2>3, Zenon DEF QueueIsWaiters, DriverTypes
  <1>d. /\ idequeue' \in Seq(Bufs)
        /\ Queued' = Queued \ {b}
        /\ IsInjective(idequeue')
        /\ idequeue' # <<>> => Head(idequeue') \in Queued'
    <2>1. /\ idequeue \in Seq(Bufs) /\ idequeue # <<>> /\ idequeue' = Tail(idequeue)
          /\ IsInjective(idequeue)
      BY <1>a, Zenon DEF DriverTypes, QueueIsWaiters
    <2> QED
      BY <2>1, Served, Zenon DEF Queued
  <1>e. ASSUME idequeue' # <<>>
        PROVE  Head(idequeue') \in Bufs /\ Head(idequeue') # b /\ cmd' \in Commands
    <2>1. Head(idequeue') \in Bufs /\ Head(idequeue') # b /\ Head(idequeue') \in Queued
      BY <1>d, <1>e
    <2>2. io[Head(idequeue')] # "out"
      BY <2>1, Zenon DEF QueueIsWaiters
    <2>3. blockno[Head(idequeue')] \in Blocks
      BY <2>1, <2>2, WaiterHolds, Zenon
    <2>4. data'[Head(idequeue')] \in Values
      BY <2>1, Zenon DEF CacheTypes
    <2> QED
      BY <1>e, <2>1, <2>3, <2>4, CommandMade, Zenon DEF NextRequest, idestart
  <1>1. CacheTypes'
    BY <1>a, Zenon DEF CacheTypes, DriverTypes, Commands
  <1>2. DriverTypes'
    <2>1. cmd' \in Commands \cup {None}
      BY <1>e, Zenon DEF NextRequest
    <2>2. io' \in [Bufs -> {"out", "asleep", "awake"}]
      BY <1>a, Zenon DEF DriverTypes
    <2> QED
      BY <1>d, <2>1, <2>2, Zenon DEF DriverTypes
  <1>3. Listed' /\ Named' /\ OneCopy' /\ Holders' /\ RefsExact'
    BY CacheSame, Zenon
  <1>7. Flags'
    <2>1. \A c \in Bufs : (valid'[c] <=> valid[c] \/ c = b) /\ (dirty'[c] <=> dirty[c] /\ c # b)
      BY <1>a, Zenon DEF CacheTypes
    <2>5. \A c \in Bufs : io'[c] = "out" <=> io[c] = "out"
      BY <1>a, Zenon DEF DriverTypes
    <2>2. holder[b] \in Procs /\ cur[holder[b]] = b /\ blockno[b] \in Blocks
      BY <1>a, WaiterHolds, Zenon
    <2>3. \A q \in Procs : pc[q] # "idle" => cur[q] \in Bufs
      BY Zenon DEF Named, CacheTypes
    <2>4. \A q \in Procs : pc[q] = "read" => cur[q] # b
      BY <1>a, <2>2 DEF Flags, Holders, Holding
    <2> QED
      BY <2>1, <2>2, <2>3, <2>4, <2>5 DEF Flags, CacheTypes
  <1>9. QueueIsWaiters'
    <2>1. \A c \in Bufs : c \in Queued' <=> io'[c] # "out" /\ (dirty'[c] \/ ~valid'[c])
      BY <1>a, <1>d, Zenon DEF QueueIsWaiters, CacheTypes, DriverTypes
    <2>2. idequeue' = <<>> => cmd' = None
      BY Zenon DEF NextRequest
    <2>3. ASSUME idequeue' # <<>>
          PROVE  /\ cmd' # None /\ cmd'.block = blockno'[Head(idequeue')]
                 /\ cmd'.op = "write" <=> dirty'[Head(idequeue')]
      BY <1>e, <2>3, NoneNoCommand DEF NextRequest, idestart
    <2> QED
      BY <1>d, <2>1, <2>2, <2>3, Zenon DEF QueueIsWaiters
  <1>10. Command'
    BY <1>e DEF Command, NextRequest, idestart
  <1>11. Synced'
    <2>1. \A c \in Bufs : c # b => valid'[c] = valid[c] /\ dirty'[c] = dirty[c] /\ data'[c] = data[c]
      BY <1>a, Zenon DEF CacheTypes
    <2>2. data'[b] = disk[blockno[b]] \/ blockno[b] \in bad
      <3>1. CASE irq = "failed"
        BY <1>a, <3>1, Zenon DEF Command
      <3>2. CASE irq = "done" /\ dirty[b]
        BY <1>a, <3>2, Zenon DEF Command
      <3>3. CASE irq = "done" /\ ~dirty[b]
        BY <1>a, <3>3, Zenon DEF CacheTypes
      <3> QED
        BY <3>1, <3>2, <3>3, Zenon DEF DriverTypes
    <2> QED
      BY <2>1, <2>2, Zenon DEF Synced
  <1> QED
    BY <1>1, <1>2, <1>3, <1>7, <1>9, <1>10, <1>11, Zenon

LEMMA StandStill ==
  ASSUME IInv, UNCHANGED <<disk, idequeue, cmd, irq, bad, io, data, valid, dirty>>,
         UNCHANGED <<blockno, list, refcnt, holder, pc, want, cur>>
  PROVE  IInv'
  <1>1. Listed' /\ Named' /\ OneCopy' /\ Holders' /\ RefsExact'
    BY CacheSame, Zenon
  <1>2. CacheTypes' /\ DriverTypes'
    BY Zenon DEF IInv, CacheTypes, DriverTypes
  <1>3. Flags' /\ QueueIsWaiters'
    BY Zenon DEF IInv, Flags, QueueIsWaiters, Queued
  <1>4. Command' /\ Synced'
    BY Zenon DEF IInv, Command, Synced
  <1> QED
    BY <1>1, <1>2, <1>3, <1>4, Zenon DEF IInv

LEMMA bgetStep ==
  ASSUME IInv, NEW p \in Procs, bget(p)
  PROVE  IInv'
  <1>1. PICK k \in Blocks : bgetCached(p, k) \/ bgetRecycle(p, k) \/ bgetPanic(p, k)
    BY Zenon DEF bget
  <1>2. pc[p] = "idle"
    BY Zenon DEF bget
  <1>3. CASE bgetCached(p, k)
    BY <1>2, <1>3, CachedStep, Zenon DEF bgetCached
  <1>4. CASE bgetRecycle(p, k)
    BY <1>2, <1>4, RecycledStep, Zenon DEF bgetRecycle
  <1>5. CASE bgetPanic(p, k)
    BY <1>5, StandStill, Zenon DEF bgetPanic, driver
  <1> QED
    BY <1>1, <1>3, <1>4, <1>5, Zenon

LEMMA NextIInv == IInv /\ [Next]_vars => IInv'
  <1> SUFFICES ASSUME IInv, [Next]_vars PROVE IInv'
    BY Zenon
  <1>1. CASE Driver /\ UNCHANGED cache
    BY <1>1, FinishStep, FailStep, ideintrStep, WakeStep, Zenon DEF Driver
  <1>2. ASSUME NEW p \in Procs,
               \/ bget(p) \/ Locked(p) \/ bread(p) \/ bwrite(p) \/ Transferred(p)
               \/ log_write(p) \/ brelse(p) \/ brelseRef(p)
        PROVE  IInv'
    BY <1>2, bgetStep, LockedStep, iderwStep, TransferredStep, log_writeStep,
       brelseStep, brelseRefStep, Zenon
  <1>3. CASE UNCHANGED vars
    BY <1>3, StandStill, Zenon DEF vars, driver
  <1> QED
    BY <1>1, <1>2, <1>3, Zenon DEF Next

LEMMA Invariance == Spec => []IInv
  BY InitIInv, NextIInv, PTL DEF Spec

\* For any numbers of processes and buffers the reference counts of bio.c are
\* exact: bget recycles no buffer that a process has or waits for.
THEOREM RefsCorrect == Spec => []RefsExact
  <1>1. IInv => RefsExact
    BY Zenon DEF IInv
  <1> QED
    BY <1>1, Invariance, PTL

\* The queue of ide.c is the requests that are not done, once each, although
\* kill wakes processes early and commands fail.
THEOREM QueueCorrect == Spec => []QueueIsWaiters
  <1>1. IInv => QueueIsWaiters
    BY Zenon DEF IInv
  <1> QED
    BY <1>1, Invariance, PTL
-----------------------------------------------------------------------------

store == [k \in Blocks |-> Contents(k)]
hand == [p \in Procs |-> IF pc[p] \in {"have", "writing"} THEN want[p] ELSE NoBlock]

\* The contents of a block are those of its buffer, if that is valid, else those
\* of the disk.
StoreIs == \A k \in Blocks :
    /\ \A b \in Bufs : blockno[b] = k /\ valid[b] => store[k] = data[b]
    /\ (\A b \in Bufs : ~(blockno[b] = k /\ valid[b])) => store[k] = disk[k]
    /\ store[k] \in Values

LEMMA StoreInv == IInv => StoreIs
  <1> SUFFICES ASSUME IInv, NEW k \in Blocks
               PROVE /\ \A b \in Bufs : blockno[b] = k /\ valid[b] => Contents(k) = data[b]
                     /\ (\A b \in Bufs : ~(blockno[b] = k /\ valid[b])) => Contents(k) = disk[k]
                     /\ Contents(k) \in Values
    BY Zenon DEF StoreIs, store
  <1>1. ASSUME NEW b \in Bufs, blockno[b] = k, valid[b] PROVE Contents(k) = data[b]
    <2>1. \A c \in Bufs : blockno[c] = k /\ valid[c] => c = b
      BY <1>1, BioAssumption, Zenon DEF IInv, OneCopy
    <2>2. (CHOOSE c \in Bufs : blockno[c] = k /\ valid[c]) = b
      BY <1>1, <2>1, Zenon
    <2> QED
      BY <1>1, <2>2, Zenon DEF Contents
  <1>2. (\A b \in Bufs : ~(blockno[b] = k /\ valid[b])) => Contents(k) = disk[k]
    BY Zenon DEF Contents
  <1> QED
    BY <1>1, <1>2, Zenon DEF IInv, CacheTypes, DriverTypes

LEMMA InitRefines == Init => B!Init
  <1> SUFFICES ASSUME Init PROVE B!Init
    BY Zenon
  <1>1. store \in [Blocks -> Values]
    BY InitIInv, StoreInv, Zenon DEF StoreIs, store
  <1>2. hand = [p \in Procs |-> NoBlock] /\ bad = {}
    BY Zenon DEF Init, ideinit, hand
  <1> QED
    BY <1>1, <1>2, Zenon DEF B!Init, store, hand

LEMMA SameStore == UNCHANGED <<blockno, valid, data, disk>> => UNCHANGED store
  BY Zenon DEF store, Contents

\* A process that gets a block in hand is alone with it.
LEMMA TakeStep ==
  ASSUME IInv, NEW p \in Procs, UNCHANGED <<blockno, valid, data, disk, want, bad>>,
         cur[p] \in Bufs, want[p] \in Blocks, blockno[cur[p]] = want[p],
         pc[p] \notin {"have", "writing"}, pc' = [pc EXCEPT ![p] = "have"],
         holder[cur[p]] \in {None, p}
  PROVE  B!Take(p, want[p])
  <1> USE BioAssumption
  <1>1. ASSUME NEW q \in Procs PROVE hand[q] # want[p]
    <2>1. CASE pc[q] \in {"have", "writing"}
      <3>1. q # p /\ cur[q] \in Bufs /\ blockno[cur[q]] = want[q] /\ holder[cur[q]] = q
        BY <2>1 DEF IInv, Named, CacheTypes, Holders, Holding
      <3>2. want[q] # want[p]
        BY <3>1, Zenon DEF IInv, OneCopy
      <3> QED
        BY <2>1, <3>2, Zenon DEF hand
    <2>2. CASE pc[q] \notin {"have", "writing"}
      BY <2>2, Zenon DEF hand
    <2> QED
      BY <2>1, <2>2, Zenon
  <1>2. hand[p] = NoBlock /\ hand' = [hand EXCEPT ![p] = want[p]]
    BY Zenon DEF hand, IInv, CacheTypes
  <1>3. store' = store
    BY SameStore, Zenon
  <1> QED
    BY <1>1, <1>2, <1>3, Zenon DEF B!Take, store, hand

\* A process that has a block in hand changes it.
LEMMA ChangeStep ==
  ASSUME IInv, StoreIs, StoreIs', NEW p \in Procs, NEW v \in Values, Changed(p, v), disk' = disk, bad' = bad,
         pc' = pc \/ pc' = [pc EXCEPT ![p] = "writing"]
  PROVE  B!Change(p, v)
  <1> USE BioAssumption
  <1>1. cur[p] \in Bufs /\ valid[cur[p]] /\ want[p] \in Blocks /\ blockno[cur[p]] = want[p]
    BY DEF IInv, Named, CacheTypes, Flags, Changed
  <1>2. hand[p] = want[p] /\ hand[p] # NoBlock /\ hand' = hand
    BY <1>1 DEF hand, Changed, IInv, CacheTypes
  <1>3. store'[want[p]] = v
    BY <1>1 DEF StoreIs, Changed, IInv, CacheTypes
  <1>4. ASSUME NEW k \in Blocks, k # want[p] PROVE store'[k] = store[k]
    <2>1. CASE \E b \in Bufs : blockno[b] = k /\ valid[b]
      BY <1>1, <1>4, <2>1 DEF StoreIs, Changed, IInv, CacheTypes
    <2>2. CASE \A b \in Bufs : ~(blockno[b] = k /\ valid[b])
      BY <2>2, Zenon DEF StoreIs, Changed
    <2> QED
      BY <2>1, <2>2, Zenon
  <1>5. store' = [store EXCEPT ![hand[p]] = v]
    BY <1>2, <1>3, <1>4, Zenon DEF store
  <1> QED
    BY <1>2, <1>5, Zenon DEF B!Change, store, hand

\* A read or write that the controller finishes changes no contents.
LEMMA FinishRefines ==
  ASSUME IInv, StoreIs, StoreIs', Finish, UNCHANGED cache
  PROVE  UNCHANGED <<store, hand, bad>>
  <1> USE BioAssumption
  <1>1. UNCHANGED <<hand, bad>>
    BY Zenon DEF Finish, cache, hand
  <1>2. CASE cmd.op # "write"
    BY <1>1, <1>2, SameStore, Zenon DEF Finish
  <1>3. CASE cmd.op = "write"
    <2> DEFINE b == Head(idequeue)
    <2>1. b \in Bufs /\ blockno[b] = cmd.block /\ cmd.block \in Blocks /\ valid[b]
      BY <1>3, HeadQueued, Zenon DEF IInv, QueueIsWaiters, DriverTypes, Commands, Finish, Flags
    <2>2. ASSUME NEW k \in Blocks PROVE store'[k] = store[k]
      <3>1. CASE \E c \in Bufs : blockno[c] = k /\ valid[c]
        BY <3>1 DEF StoreIs, Finish
      <3>2. CASE \A c \in Bufs : ~(blockno[c] = k /\ valid[c])
        <4>1. k # cmd.block
          BY <2>1, <3>2, Zenon
        <4>2. disk'[k] = disk[k]
          BY <4>1, Zenon DEF Finish, IInv, DriverTypes
        <4> QED
          BY <3>2, <4>2, Zenon DEF StoreIs, Finish
      <3> QED
        BY <3>1, <3>2, Zenon
    <2> QED
      BY <1>1, <2>2, Zenon DEF store
  <1> QED
    BY <1>2, <1>3, Zenon

\* The interrupt handler changes only the block of a command that failed.
LEMMA ideintrRefines ==
  ASSUME IInv, StoreIs, StoreIs', ideintr, UNCHANGED cache
  PROVE  B!Next \/ UNCHANGED <<store, hand, bad>>
  <1> USE BioAssumption
  <1> DEFINE b == Head(idequeue)
             k == blockno[b]
  <1>1. /\ b \in Bufs /\ k \in Blocks /\ k = cmd.block
        /\ dirty[b] \/ ~valid[b]
    <2>1. cmd # None /\ idequeue # <<>>
      BY Zenon DEF IInv, Command, QueueIsWaiters, ideintr
    <2>2. b \in Bufs /\ b \in Queued
      BY <2>1, HeadQueued, Zenon DEF IInv
    <2> QED
      BY <2>1, <2>2, WaiterHolds, Zenon DEF IInv, QueueIsWaiters
  <1>2. hand' = hand /\ bad' = bad
    BY Zenon DEF ideintr, cache, hand
  <1>3. store'[k] = data'[b] /\ data'[b] \in Values
    <2>1. valid'[b] /\ blockno'[b] = k
      BY <1>1, Zenon DEF ideintr, IInv, CacheTypes
    <2> QED
      BY <1>1, <2>1 DEF StoreIs
  <1>4. ASSUME NEW m \in Blocks, m # k PROVE store'[m] = store[m]
    <2>1. \A c \in Bufs : blockno[c] = m => valid'[c] = valid[c] /\ data'[c] = data[c]
      BY <1>1, <1>4, Zenon DEF ideintr, IInv, CacheTypes
    <2>2. CASE \E c \in Bufs : blockno[c] = m /\ valid[c]
      <3>1. PICK c \in Bufs : blockno[c] = m /\ valid[c]
        BY <2>2, Zenon
      <3>2. blockno'[c] = m /\ valid'[c] /\ data'[c] = data[c]
        BY <2>1, <3>1, Zenon DEF ideintr
      <3> QED
        BY <3>1, <3>2, Zenon DEF StoreIs
    <2>3. CASE \A c \in Bufs : ~(blockno[c] = m /\ valid[c])
      BY <2>1, <2>3, Zenon DEF StoreIs, ideintr
    <2> QED
      BY <2>2, <2>3, Zenon
  <1>5. CASE k \in bad
    <2>1. store' = [store EXCEPT ![k] = data'[b]]
      BY <1>1, <1>3, <1>4, Zenon DEF store
    <2>2. B!Spoilt(k, data'[b])
      BY <1>2, <1>5, <2>1, Zenon DEF B!Spoilt, store, hand
    <2> QED
      BY <1>1, <1>3, <2>2, Zenon DEF B!Next
  <1>6. CASE k \notin bad
    <2>1. irq = "done"
      BY <1>1, <1>6, Zenon DEF IInv, Command, DriverTypes, ideintr
    <2>2. CASE dirty[b]
      <3>1. valid[b] /\ data'[b] = data[b]
        BY <1>1, <2>2, Zenon DEF ideintr, IInv, Flags
      <3> QED
        BY <1>1, <1>2, <1>3, <1>4, <3>1 DEF StoreIs, store
    <2>3. CASE ~dirty[b]
      <3>1. data'[b] = disk[k]
        BY <1>1, <2>1, <2>3, Zenon DEF ideintr, IInv, CacheTypes
      <3>2. \A c \in Bufs : ~(blockno[c] = k /\ valid[c])
        BY <1>1, <2>3, Zenon DEF IInv, OneCopy
      <3>3. store[k] = disk[k]
        BY <1>1, <3>2, Zenon DEF StoreIs
      <3> QED
        BY <1>1, <1>2, <1>3, <1>4, <3>1, <3>3, Zenon DEF store
    <2> QED
      BY <2>2, <2>3, Zenon
  <1> QED
    BY <1>5, <1>6, Zenon

\* What a recycled buffer had is on the disk, unless a command for it failed.
LEMMA RecycleRefines ==
  ASSUME IInv, StoreIs, StoreIs', NEW p \in Procs, NEW k \in Blocks, pc[p] = "idle", bgetRecycle(p, k)
  PROVE  B!Next \/ UNCHANGED <<store, hand, bad>>
  <1> USE BioAssumption
  <1>1. PICK i \in DOMAIN list :
          /\ Cached(k) = {} /\ list[i] \in Unused
          /\ blockno' = [blockno EXCEPT ![list[i]] = k]
          /\ valid' = [valid EXCEPT ![list[i]] = FALSE]
          /\ Got(p, k, list[i])
    BY Zenon DEF bgetRecycle
  <1> DEFINE b == list[i]
             m == blockno[b]
  <1>2. b \in Bufs /\ ~dirty[b]
    BY <1>1, Zenon DEF Unused
  <1>3. hand' = hand /\ bad' = bad /\ data' = data /\ disk' = disk
    BY <1>1, Zenon DEF hand, Got, driver, IInv, CacheTypes
  <1>4. ASSUME NEW n \in Blocks, n # m \/ ~valid[b] PROVE store'[n] = store[n]
    <2>1. \A c \in Bufs : blockno'[c] = n /\ valid'[c] <=> blockno[c] = n /\ valid[c]
      BY <1>1, <1>2, <1>4, Zenon DEF IInv, CacheTypes
    <2>2. CASE \E c \in Bufs : blockno[c] = n /\ valid[c]
      BY <1>3, <2>1, <2>2 DEF StoreIs
    <2>3. CASE \A c \in Bufs : ~(blockno[c] = n /\ valid[c])
      BY <1>3, <2>1, <2>3, Zenon DEF StoreIs
    <2> QED
      BY <2>2, <2>3, Zenon
  <1>5. CASE ~valid[b]
    BY <1>3, <1>4, <1>5, Zenon DEF store
  <1>6. CASE valid[b]
    <2>1. m \in Blocks /\ store[m] = data[b]
      BY <1>2, <1>6 DEF IInv, Flags, StoreIs
    <2>2. \A c \in Bufs : ~(blockno'[c] = m /\ valid'[c])
      BY <1>1, <1>2, <2>1, Zenon DEF IInv, OneCopy, CacheTypes
    <2>3. store'[m] = disk[m] /\ disk[m] \in Values
      BY <1>3, <2>1, <2>2, Zenon DEF StoreIs, IInv, DriverTypes
    <2>4. data[b] = disk[m] \/ m \in bad
      BY <1>2, <1>6, Zenon DEF IInv, Synced
    <2>5. CASE m \in bad
      <3>1. store' = [store EXCEPT ![m] = disk[m]]
        BY <1>4, <2>1, <2>3, Zenon DEF store
      <3>2. B!Spoilt(m, disk[m])
        BY <1>3, <2>5, <3>1, Zenon DEF B!Spoilt, store, hand
      <3> QED
        BY <2>1, <2>3, <3>2, Zenon DEF B!Next
    <2>6. CASE data[b] = disk[m]
      BY <1>3, <1>4, <2>1, <2>3, <2>6 DEF store
    <2> QED
      BY <2>4, <2>5, <2>6, Zenon
  <1> QED
    BY <1>5, <1>6, Zenon

LEMMA DriverRefines ==
  ASSUME IInv, StoreIs, StoreIs', Driver, UNCHANGED cache
  PROVE  B!Next \/ UNCHANGED <<store, hand, bad>>
  <1>1. CASE Finish
    BY <1>1, FinishRefines, Zenon
  <1>2. CASE Fail
    <2>1. cmd.block \in Blocks
      BY <1>2, Zenon DEF Fail, IInv, DriverTypes, Commands
    <2>2. UNCHANGED <<store, hand>>
      BY <1>2, SameStore, Zenon DEF Fail, cache, hand
    <2>3. B!Fail(cmd.block)
      BY <1>2, <2>2, Zenon DEF B!Fail, Fail, store, hand
    <2> QED
      BY <2>1, <2>3, Zenon DEF B!Next
  <1>3. CASE ideintr
    BY <1>3, ideintrRefines, Zenon
  <1>4. ASSUME NEW b \in Bufs, Kill(b) \/ iderwAwake(b) PROVE UNCHANGED <<store, hand, bad>>
    BY <1>4, SameStore, Zenon DEF Kill, iderwAwake, cache, hand
  <1> QED
    BY <1>1, <1>2, <1>3, <1>4, Zenon DEF Driver

\* Every step of bio.c is a step of the store of blocks or leaves it alone.
LEMMA ProcRefines ==
  ASSUME IInv, StoreIs, StoreIs', NEW p \in Procs,
         \/ bget(p) \/ Locked(p) \/ bread(p) \/ bwrite(p) \/ Transferred(p)
         \/ log_write(p) \/ brelse(p) \/ brelseRef(p)
  PROVE  B!Next \/ UNCHANGED <<store, hand, bad>>
  <1> USE BioAssumption
  <1>1. CASE bget(p)
    <2>1. PICK k \in Blocks : pc[p] = "idle" /\ (bgetCached(p, k) \/ bgetRecycle(p, k) \/ bgetPanic(p, k))
      BY <1>1, Zenon DEF bget
    <2>2. CASE bgetCached(p, k)
      BY <2>1, <2>2, SameStore, Zenon DEF bgetCached, Got, driver, hand, IInv, CacheTypes
    <2>3. CASE bgetPanic(p, k)
      BY <2>1, <2>3, SameStore, Zenon DEF bgetPanic, driver, hand
    <2> QED
      BY <2>1, <2>2, <2>3, RecycleRefines, Zenon
  <1>2. CASE Locked(p)
    <2>1. CASE valid[cur[p]]
      <3>1. cur[p] \in Bufs /\ want[p] \in Blocks /\ blockno[cur[p]] = want[p]
        BY <1>2 DEF Locked, IInv, Named, CacheTypes
      <3>2. /\ UNCHANGED <<blockno, valid, data, disk, want, bad>>
            /\ pc[p] \notin {"have", "writing"} /\ pc' = [pc EXCEPT ![p] = "have"]
            /\ holder[cur[p]] \in {None, p}
        BY <1>2, <2>1, Zenon DEF Locked, driver
      <3>3. B!Take(p, want[p])
        BY <3>1, <3>2, TakeStep, Zenon
      <3> QED
        BY <3>1, <3>3, Zenon DEF B!Next, B!Take
    <2>2. CASE ~valid[cur[p]]
      <3>1. /\ UNCHANGED <<blockno, valid, data, disk, want, bad>>
            /\ pc[p] = "lock" /\ pc' = [pc EXCEPT ![p] = "read"]
        BY <1>2, <2>2, Zenon DEF Locked, driver
      <3>2. \A q \in Procs : pc'[q] \in {"have", "writing"} <=> pc[q] \in {"have", "writing"}
        BY <3>1 DEF IInv, CacheTypes
      <3>3. hand' = hand
        BY <3>1, <3>2, Zenon DEF hand
      <3> QED
        BY <3>1, <3>3, SameStore, Zenon
    <2> QED
      BY <2>1, <2>2, Zenon
  <1>3. CASE bread(p)
    BY <1>3, SameStore, Zenon DEF bread, iderw, hand, IInv, CacheTypes
  <1>4. CASE bwrite(p)
    <2>1. PICK v \in Values : Changed(p, v)
      BY <1>4, Zenon DEF bwrite
    <2>2. B!Change(p, v)
      BY <1>4, <2>1, ChangeStep, Zenon DEF bwrite, iderw
    <2> QED
      BY <2>2, Zenon DEF B!Next
  <1>5. CASE Transferred(p)
    <2>1. CASE pc[p] = "writing"
      <3>1. /\ UNCHANGED <<blockno, valid, data, disk, want, bad>>
            /\ pc' = [pc EXCEPT ![p] = "have"]
        BY <1>5, Zenon DEF Transferred, driver
      <3>2. \A q \in Procs : pc'[q] \in {"have", "writing"} <=> pc[q] \in {"have", "writing"}
        BY <2>1, <3>1 DEF IInv, CacheTypes
      <3>3. hand' = hand
        BY <3>1, <3>2, Zenon DEF hand
      <3> QED
        BY <3>1, <3>3, SameStore, Zenon
    <2>2. CASE pc[p] = "reading"
      <3>1. /\ cur[p] \in Bufs /\ want[p] \in Blocks /\ blockno[cur[p]] = want[p]
            /\ holder[cur[p]] = p
        BY <2>2 DEF IInv, Named, CacheTypes, Holders, Holding
      <3>2. /\ UNCHANGED <<blockno, valid, data, disk, want, bad>>
            /\ pc[p] \notin {"have", "writing"} /\ pc' = [pc EXCEPT ![p] = "have"]
            /\ holder[cur[p]] \in {None, p}
        BY <1>5, <2>2, <3>1, Zenon DEF Transferred, driver
      <3>3. B!Take(p, want[p])
        BY <3>1, <3>2, TakeStep, Zenon
      <3> QED
        BY <3>1, <3>3, Zenon DEF B!Next, B!Take
    <2> QED
      BY <1>5, <2>1, <2>2, Zenon DEF Transferred
  <1>6. CASE log_write(p)
    <2>1. PICK v \in Values : Changed(p, v)
      BY <1>6, Zenon DEF log_write
    <2>2. B!Change(p, v)
      BY <1>6, <2>1, ChangeStep, Zenon DEF log_write, driver
    <2> QED
      BY <2>2, Zenon DEF B!Next
  <1>7. CASE brelse(p)
    <2>1. hand' = [hand EXCEPT ![p] = NoBlock] /\ store' = store /\ bad' = bad
      BY <1>7, SameStore, Zenon DEF brelse, driver, hand, IInv, CacheTypes
    <2>2. B!Give(p)
      BY <2>1, Zenon DEF B!Give, store, hand
    <2> QED
      BY <2>2, Zenon DEF B!Next
  <1>8. CASE brelseRef(p)
    BY <1>8, SameStore, Zenon DEF brelseRef, driver, hand, IInv, CacheTypes
  <1> QED
    BY <1>1, <1>2, <1>3, <1>4, <1>5, <1>6, <1>7, <1>8, Zenon

LEMMA StepRefines == IInv /\ StoreIs /\ StoreIs' /\ [Next]_vars => [B!Next]_(B!vars)
  <1> SUFFICES ASSUME IInv, StoreIs, StoreIs', [Next]_vars
               PROVE B!Next \/ UNCHANGED <<store, hand, bad>>
    BY Zenon DEF B!vars, store, hand
  <1>1. CASE UNCHANGED vars
    BY <1>1, SameStore, Zenon DEF vars, driver, hand
  <1>2. CASE Next
    BY <1>2, DriverRefines, ProcRefines, Zenon DEF Next
  <1> QED
    BY <1>1, <1>2, Zenon

\* The buffer cache and the disk driver implement the store of blocks for any
\* numbers of processes, buffers and blocks: whoever has a block in hand is alone
\* with it and sees what was last written to it, unless a command for it failed.
THEOREM BlockStoreImplemented == Spec => ImplementsBlockStore
  BY InitRefines, StepRefines, StoreInv, Invariance, PTL DEF Spec, B!Spec, ImplementsBlockStore
=============================================================================
