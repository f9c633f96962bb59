-------------------------------- MODULE Log --------------------------------
(***************************************************************************)
(* The redo log of log.c.  Processes run file system calls between         *)
(* begin_op and end_op; each call changes blocks in the buffer cache and   *)
(* passes them to log_write; the call that leaves no other outstanding     *)
(* commits the group: log blocks, header, home blocks, empty header.  The  *)
(* machine may stop between any two disk writes and then recovers.         *)
(*                                                                         *)
(* A disk write is one sector (BSIZE = SECTOR_SIZE) and atomic.  What      *)
(* log.lock protects is one step.  A buffer is locked from bread to brelse.*)
(***************************************************************************)
EXTENDS Integers, Sequences, FiniteSets

CONSTANTS
    Procs, Blocks, Values, Zero,
    NoBlock,          \* no buffer in the caller's hands
    MAXOPBLOCKS, LOGSIZE,
    SIZE,             \* log.size, the blocks of the on-disk log with its header
    OpBlocks          \* distinct blocks one file system call writes

ASSUME LogAssumption ==
    /\ IsFiniteSet(Procs) /\ Zero \in Values /\ NoBlock \notin Blocks
    /\ MAXOPBLOCKS \in Nat \ {0} /\ LOGSIZE \in Nat /\ MAXOPBLOCKS <= LOGSIZE
    /\ SIZE \in Nat \ {0} /\ SIZE <= LOGSIZE + 1
    /\ OpBlocks \in 0..MAXOPBLOCKS

VARIABLES
    disk, area, head,                   \* home blocks, log blocks, header on disk
    cache, dirty,                       \* what bread returns; buffers with B_DIRTY
    lh, outstanding, committing,        \* struct log; Len(lh) is log.lh.n
    pc, wrote, buf,                     \* a call's place, its blocks, its locked buffer
    phase, tail,                        \* the place of commit() or recovery, the loop's tail
    panicked

diskVars == <<disk, area, head>>
cacheVars == <<cache, dirty>>
logVars == <<lh, outstanding, committing>>
callVars == <<pc, wrote, buf>>
vars == <<diskVars, cacheVars, logVars, callVars, phase, tail, panicked>>

LogBlocks == 0..(SIZE - 2)
Listed(h) == {h[i] : i \in 1..Len(h)}

Init ==
    /\ disk = [b \in Blocks |-> Zero]
    /\ area = [i \in LogBlocks |-> Zero]
    /\ head = <<>>
    /\ cache = disk /\ dirty = {}
    /\ lh = <<>> /\ outstanding = 0 /\ committing = FALSE
    /\ pc = [p \in Procs |-> "idle"]
    /\ wrote = [p \in Procs |-> {}]
    /\ buf = [p \in Procs |-> NoBlock]
    /\ phase = "boot" /\ tail = 0
    /\ panicked = FALSE
-----------------------------------------------------------------------------
wakeupNone == pc       \* faulty: no wakeup

wakeup == [p \in Procs |-> IF pc[p] = "asleep" THEN "begin" ELSE pc[p]]

MustWaitLate ==        \* faulty: does not count the caller itself
    committing \/ Len(lh) + outstanding * MAXOPBLOCKS > LOGSIZE

MustWait ==
    committing \/ Len(lh) + (outstanding + 1) * MAXOPBLOCKS > LOGSIZE

\* begin_op, from its entry or after a sleep.
begin_op(p) ==
    /\ phase # "boot" /\ phase # "recover" /\ phase # "clear"
    /\ ~panicked /\ pc[p] \in {"idle", "begin"}
    /\ \/ /\ MustWait
          /\ pc' = [pc EXCEPT ![p] = "asleep"]
          /\ UNCHANGED outstanding
       \/ /\ ~MustWait
          /\ outstanding' = outstanding + 1
          /\ pc' = [pc EXCEPT ![p] = "op"]
    /\ UNCHANGED <<diskVars, cacheVars, lh, committing, wrote, buf, phase, tail, panicked>>

TooBig == Len(lh) >= LOGSIZE \/ Len(lh) >= SIZE - 1 \/ outstanding < 1

\* The caller locks a buffer, changes it and enters log_write, whose tests of
\* log.lh.n are made before log.lock is taken.
Modify(p, b, v) ==
    /\ ~panicked /\ pc[p] = "op"
    /\ Cardinality(wrote[p] \cup {b}) <= OpBlocks
    /\ \A q \in Procs : buf[q] # b
    /\ cache' = [cache EXCEPT ![b] = v]
    /\ buf' = [buf EXCEPT ![p] = b]
    /\ wrote' = [wrote EXCEPT ![p] = @ \cup {b}]
    /\ pc' = [pc EXCEPT ![p] = "append"]
    /\ panicked' = TooBig
    /\ UNCHANGED <<diskVars, dirty, logVars, phase, tail>>

PinNothing(p) ==       \* faulty: B_DIRTY is not set
    /\ ~panicked /\ pc[p] = "append"
    /\ lh' = IF buf[p] \in Listed(lh) THEN lh ELSE Append(lh, buf[p])
    /\ buf' = [buf EXCEPT ![p] = NoBlock]
    /\ pc' = [pc EXCEPT ![p] = "op"]
    /\ UNCHANGED <<diskVars, cacheVars, outstanding, committing, wrote, phase, tail, panicked>>

\* The rest of log_write, and brelse.
log_write(p) ==
    /\ ~panicked /\ pc[p] = "append"
    /\ lh' = IF buf[p] \in Listed(lh) THEN lh ELSE Append(lh, buf[p])
    /\ dirty' = dirty \cup {buf[p]}
    /\ buf' = [buf EXCEPT ![p] = NoBlock]
    /\ pc' = [pc EXCEPT ![p] = "op"]
    /\ UNCHANGED <<diskVars, cache, outstanding, committing, wrote, phase, tail, panicked>>

end_op(p) ==
    /\ ~panicked /\ pc[p] = "op"
    /\ outstanding' = outstanding - 1
    /\ panicked' = committing
    /\ \/ /\ outstanding' = 0
          /\ committing' = TRUE
          /\ phase' = IF lh = <<>> THEN "done" ELSE "log"
          /\ pc' = [pc EXCEPT ![p] = "commit"]
       \/ /\ outstanding' # 0
          /\ pc' = [wakeup EXCEPT ![p] = "idle"]
          /\ UNCHANGED <<committing, phase>>
    /\ wrote' = [wrote EXCEPT ![p] = {}]
    /\ UNCHANGED <<diskVars, cacheVars, lh, buf, tail>>
-----------------------------------------------------------------------------
\* The disk writes of commit(), one step each.
After(now, next) ==
    IF tail + 1 < Len(lh) THEN phase' = now /\ tail' = tail + 1
                          ELSE phase' = next /\ tail' = 0

write_log ==
    /\ ~panicked /\ phase = "log"
    /\ area' = [area EXCEPT ![tail] = cache[lh[tail + 1]]]
    /\ After("log", "head")
    /\ UNCHANGED <<disk, head, cacheVars, logVars, callVars, panicked>>

\* The header write that commits.
write_head ==
    /\ ~panicked /\ phase = "head"
    /\ head' = lh
    /\ phase' = "install"
    /\ UNCHANGED <<disk, area, cacheVars, logVars, callVars, tail, panicked>>

\* install_trans, in commit() or in recovery.
install_trans ==
    /\ ~panicked /\ phase \in {"install", "recover"}
    /\ LET b == lh[tail + 1] IN
         /\ disk' = [disk EXCEPT ![b] = area[tail]]
         /\ cache' = [cache EXCEPT ![b] = area[tail]]
         /\ dirty' = dirty \ {b}
    /\ After(phase, IF phase = "install" THEN "erase" ELSE "clear")
    /\ UNCHANGED <<area, head, logVars, callVars, panicked>>

\* log.lh.n = 0 and the second write_head, in commit() or in recovery.
erase ==
    /\ ~panicked /\ phase \in {"erase", "clear"}
    /\ lh' = <<>> /\ head' = <<>>
    /\ phase' = IF phase = "erase" THEN "done" ELSE "up"
    /\ UNCHANGED <<disk, area, cacheVars, outstanding, committing, callVars, tail, panicked>>

\* The end of end_op after commit().
end_commit(p) ==
    /\ ~panicked /\ phase = "done" /\ pc[p] = "commit"
    /\ committing' = FALSE
    /\ phase' = "up"
    /\ pc' = [wakeup EXCEPT ![p] = "idle"]
    /\ UNCHANGED <<diskVars, cacheVars, lh, outstanding, wrote, buf, tail, panicked>>
-----------------------------------------------------------------------------
\* bget recycles a buffer without B_DIRTY that nobody has locked; the next
\* bread gets the block from the disk.
Recycle(b) ==
    /\ ~panicked /\ b \notin dirty /\ \A p \in Procs : buf[p] # b
    /\ cache' = [cache EXCEPT ![b] = disk[b]]
    /\ UNCHANGED <<diskVars, dirty, logVars, callVars, phase, tail, panicked>>

\* The machine stops, from a panic or by itself, and starts again.
Crash ==
    /\ cache' = disk /\ dirty' = {}
    /\ lh' = <<>> /\ outstanding' = 0 /\ committing' = FALSE
    /\ pc' = [p \in Procs |-> "idle"]
    /\ wrote' = [p \in Procs |-> {}]
    /\ buf' = [p \in Procs |-> NoBlock]
    /\ phase' = "boot" /\ tail' = 0
    /\ panicked' = FALSE
    /\ UNCHANGED diskVars

\* initlog reads the header; recover_from_log goes on with install_trans.
read_head ==
    /\ phase = "boot"
    /\ lh' = head
    /\ phase' = IF head = <<>> THEN "clear" ELSE "recover"
    /\ UNCHANGED <<diskVars, cacheVars, outstanding, committing, callVars, tail, panicked>>

Call(p) ==
    \/ begin_op(p) \/ log_write(p) \/ end_op(p) \/ end_commit(p)
    \/ \E b \in Blocks, v \in Values : Modify(p, b, v)

Writer == write_log \/ write_head \/ install_trans \/ erase \/ read_head

Next ==
    \/ \E p \in Procs : Call(p)
    \/ Writer
    \/ \E b \in Blocks : Recycle(b)
    \/ Crash

Spec == Init /\ [][Next]_vars

\* commit() and recovery go on, a process that wakeup has made runnable runs
\* again, and a call that has begun ends: it makes finitely many log_writes.
Fairness ==
    /\ WF_vars(Writer)
    /\ \A p \in Procs :
         /\ WF_vars(pc[p] = "begin" /\ begin_op(p))
         /\ WF_vars(log_write(p) \/ end_commit(p))
         /\ SF_vars(end_op(p))

FairSpec == Spec /\ Fairness
-----------------------------------------------------------------------------
\* log_write never finds the log full, and the on-disk log has a block for
\* every block log.lh lists: what begin_op reserves is enough although
\* log_write tests log.lh.n without the lock.
NeverTooBig == ~panicked /\ Len(lh) < SIZE

\* What a crash leaves: the log block of a block the header lists, else the
\* home block.
Durable ==
    [b \in Blocks |->
        IF b \in Listed(head) THEN area[(CHOOSE i \in 1..Len(head) : head[i] = b) - 1]
                              ELSE disk[b]]

Atomic == INSTANCE AtomicDisk WITH
    stable <- Durable,
    mem    <- IF phase \in {"boot", "recover", "clear"} THEN Durable ELSE cache,
    active <- {p \in Procs : pc[p] \in {"op", "append"}}

\* The log implements the atomic disk: a group becomes durable whole, at the
\* header write, or not at all, with a crash at any point of the commit or of
\* the recovery from an earlier crash.
ImplementsAtomicDisk == Atomic!Spec

\* A process asleep in begin_op is woken, whatever the others do.
SleepersWake == \A p \in Procs : pc[p] = "asleep" ~> pc[p] # "asleep"
=============================================================================
