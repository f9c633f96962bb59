-------------------------------- MODULE Bio --------------------------------
(***************************************************************************)
(* The buffer cache of bio.c on top of the driver of ide.c: bget, bread,   *)
(* bwrite, brelse and the pinning of log_write.  bcache.lock makes each    *)
(* pass over the list one step; the sleep lock of a buffer (Sleeplock) and *)
(* the transfer (Ide) are steps of their own, so buffers are found,        *)
(* recycled, locked, queued, filled and released in every interleaving,    *)
(* and the controller may fail a command.                                  *)
(***************************************************************************)
EXTENDS Ide

CONSTANTS
    Procs,            \* uses of a buffer: a process that holds two is two
    NoBlock,          \* the block of a buffer that was never used
    Pins              \* bound: buffers that the log keeps dirty at a time

ASSUME BioAssumption ==
    /\ IsFiniteSet(Procs) /\ IsFiniteSet(Bufs) /\ Pins \in Nat
    /\ NoBlock \notin Blocks /\ None \notin Procs \cup Bufs
    /\ None \notin [block : Blocks, op : {"read", "write"}, data : Values]
    /\ Faults \subseteq {"read", "write"} /\ Failing \subseteq Blocks

VARIABLES
    list,             \* bcache.head.next ..., most recently used first
    refcnt,
    holder,           \* of b->lock
    pc, want, cur,    \* of a process: the block it asked for, its buffer
    panicked

vars == <<driver, blockno, data, valid, dirty, list, refcnt, holder, pc, want, cur, panicked>>

Init ==
    /\ ideinit
    /\ list \in [1..Cardinality(Bufs) -> Bufs] /\ \A b \in Bufs : \E i \in DOMAIN list : list[i] = b
    /\ blockno = [b \in Bufs |-> NoBlock]
    /\ valid = [b \in Bufs |-> FALSE] /\ dirty = [b \in Bufs |-> FALSE]
    /\ refcnt = [b \in Bufs |-> 0]
    /\ \E v \in Values : data = [b \in Bufs |-> v]
    /\ holder = [b \in Bufs |-> None]
    /\ disk \in [Blocks -> Values]
    /\ pc = [p \in Procs |-> "idle"]
    /\ want = [p \in Procs |-> NoBlock] /\ cur = [p \in Procs |-> None]
    /\ panicked = FALSE
-----------------------------------------------------------------------------
Cached(k) == {b \in Bufs : blockno[b] = k}

UnusedDirty == {b \in Bufs : refcnt[b] = 0}   \* faulty: forgets B_DIRTY

Unused == {b \in Bufs : refcnt[b] = 0 /\ ~dirty[b]}

\* The process has a reference to b and goes on to its sleep lock.
Got(p, k, b) ==
    /\ pc' = [pc EXCEPT ![p] = "lock"]
    /\ want' = [want EXCEPT ![p] = k]
    /\ cur' = [cur EXCEPT ![p] = b]
    /\ UNCHANGED <<driver, list, data, holder, panicked>>

bgetCached(p, k) == \E b \in Cached(k) :
    /\ refcnt' = [refcnt EXCEPT ![b] = @ + 1]
    /\ Got(p, k, b)
    /\ UNCHANGED <<blockno, valid, dirty>>

\* The least recently used buffer that is free.
bgetRecycle(p, k) == \E i \in DOMAIN list :
    LET b == list[i] IN
    /\ Cached(k) = {} /\ b \in Unused
    /\ \A j \in DOMAIN list : list[j] \in Unused => j <= i
    /\ blockno' = [blockno EXCEPT ![b] = k]
    /\ valid' = [valid EXCEPT ![b] = FALSE] /\ dirty' = [dirty EXCEPT ![b] = FALSE]
    /\ refcnt' = [refcnt EXCEPT ![b] = 1]
    /\ Got(p, k, b)

bgetPanic(p, k) ==
    /\ Cached(k) = {} /\ Unused = {}
    /\ panicked' = TRUE
    /\ UNCHANGED <<driver, blockno, data, valid, dirty, list, refcnt, holder, pc, want, cur>>

bget(p) ==
    /\ pc[p] = "idle"
    /\ \E k \in Blocks : bgetCached(p, k) \/ bgetRecycle(p, k) \/ bgetPanic(p, k)

\* The end of bget; bread goes on to iderw when the buffer is not valid.
Locked(p) ==
    /\ pc[p] = "lock" /\ holder[cur[p]] = None
    /\ holder' = [holder EXCEPT ![cur[p]] = p]
    /\ pc' = [pc EXCEPT ![p] = IF valid[cur[p]] THEN "have" ELSE "read"]
    /\ UNCHANGED <<driver, blockno, data, valid, dirty, list, refcnt, want, cur, panicked>>

bread(p) ==
    /\ pc[p] = "read"
    /\ UNCHANGED <<blockno, data, valid, dirty, list, refcnt, holder, want, cur, panicked>>
    /\ iderw(cur[p])
    /\ pc' = [pc EXCEPT ![p] = "reading"]

\* The holder changes the data and writes it, at once or through the log.
Changed(p, v) ==
    /\ pc[p] = "have"
    /\ data' = [data EXCEPT ![cur[p]] = v]
    /\ dirty' = [dirty EXCEPT ![cur[p]] = TRUE]
    /\ UNCHANGED <<blockno, valid, list, refcnt, holder, want, cur, panicked>>

bwrite(p) ==
    /\ \E v \in Values : Changed(p, v)
    /\ iderw(cur[p])
    /\ pc' = [pc EXCEPT ![p] = "writing"]

\* iderw returned.
Transferred(p) ==
    /\ pc[p] \in {"reading", "writing"} /\ io[cur[p]] = "out"
    /\ pc' = [pc EXCEPT ![p] = "have"]
    /\ UNCHANGED <<driver, blockno, data, valid, dirty, list, refcnt, holder, want, cur, panicked>>

Pinned == {b \in Bufs : dirty[b] /\ io[b] = "out"}

log_write(p) ==
    /\ Cardinality(Pinned \cup {cur[p]}) <= Pins
    /\ \E v \in Values : Changed(p, v)
    /\ UNCHANGED <<driver, pc>>

\* brelse: the lock first, then the reference.
brelse(p) ==
    /\ pc[p] = "have"
    /\ holder' = [holder EXCEPT ![cur[p]] = None]
    /\ pc' = [pc EXCEPT ![p] = "release"]
    /\ UNCHANGED <<driver, blockno, data, valid, dirty, list, refcnt, want, cur, panicked>>

\* To the front of the list, if nobody waits for it.
ToFront(b) ==
    LET k == CHOOSE i \in DOMAIN list : list[i] = b IN
    IF refcnt[b] = 1
    THEN [i \in DOMAIN list |-> IF i = 1 THEN b ELSE IF i <= k THEN list[i - 1] ELSE list[i]]
    ELSE list

brelseRefKept(p) ==                      \* faulty: counts only the last release
    /\ pc[p] = "release"
    /\ refcnt' = [refcnt EXCEPT ![cur[p]] = IF @ = 1 THEN 0 ELSE @]
    /\ list' = ToFront(cur[p])
    /\ pc' = [pc EXCEPT ![p] = "idle"]
    /\ want' = [want EXCEPT ![p] = NoBlock] /\ cur' = [cur EXCEPT ![p] = None]
    /\ UNCHANGED <<driver, blockno, data, valid, dirty, holder, panicked>>

brelseRef(p) ==
    /\ pc[p] = "release"
    /\ refcnt' = [refcnt EXCEPT ![cur[p]] = @ - 1]
    /\ list' = ToFront(cur[p])
    /\ pc' = [pc EXCEPT ![p] = "idle"]
    /\ want' = [want EXCEPT ![p] = NoBlock] /\ cur' = [cur EXCEPT ![p] = None]
    /\ UNCHANGED <<driver, blockno, data, valid, dirty, holder, panicked>>

cache == <<list, refcnt, holder, pc, want, cur, panicked>>

Next ==
    /\ ~panicked
    /\ \/ Driver /\ UNCHANGED cache
       \/ \E p \in Procs : bget(p) \/ Locked(p) \/ bread(p) \/ bwrite(p) \/ Transferred(p)
                             \/ log_write(p) \/ brelse(p) \/ brelseRef(p)
Spec == Init /\ [][Next]_vars

\* The controller answers every command, the interrupt is taken and a process
\* that is awake runs.  Nothing makes a process start a request.
DriverFairness ==
    /\ WF_vars(~panicked /\ (Finish \/ Fail) /\ UNCHANGED cache)
    /\ WF_vars(~panicked /\ ideintr /\ UNCHANGED cache)
    /\ \A b \in Bufs : WF_vars(~panicked /\ iderwAwake(b) /\ UNCHANGED cache)
-----------------------------------------------------------------------------
\* A reference is counted for every process between bget and the end of brelse,
\* those that wait for the lock included, and for no other; that is what keeps
\* a buffer from being recycled under a process that waits for it.
RefsExact == \A b \in Bufs : refcnt[b] = Cardinality({p \in Procs : cur[p] = b})

\* Every request that is queued is served, and its process goes on, unless bget
\* stops the system for want of a buffer.
RequestsEnd == \A b \in Bufs : io[b] = "asleep" ~> io[b] = "out" \/ panicked

Contents(k) ==
    IF \E b \in Bufs : blockno[b] = k /\ valid[b]
    THEN data[CHOOSE b \in Bufs : blockno[b] = k /\ valid[b]]
    ELSE disk[k]

B == INSTANCE BlockStore WITH
       store <- [k \in Blocks |-> Contents(k)],
       hand <- [p \in Procs |-> IF pc[p] \in {"have", "writing"} THEN want[p] ELSE NoBlock]

\* Every bread gives the block that was asked for with what was last written to
\* it, though it was only written to the cache, and one process at a time;
\* recycling loses nothing.  A command that failed spoils its own block only.
ImplementsBlockStore == B!Spec
=============================================================================
