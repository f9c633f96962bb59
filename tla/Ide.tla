-------------------------------- MODULE Ide --------------------------------
(***************************************************************************)
(* The disk driver of ide.c: the request queue, the command in the         *)
(* controller, its interrupt, and the processes asleep in iderw().  A      *)
(* buffer in the queue stands for the process that has it locked, so io is *)
(* kept per buffer.  idelock is held over the whole of ideintr and of      *)
(* iderw up to its sleep.  Bio makes the requests.                         *)
(***************************************************************************)
EXTENDS Naturals, Sequences, FiniteSets, Functions

CONSTANTS
    Bufs, Blocks,
    Values,           \* contents of a block
    None,             \* no command in the controller
    Faults,           \* commands that may fail: a subset of {"read", "write"}
    Failing           \* blocks whose commands may fail

VARIABLES
    disk,             \* the blocks on the platter
    blockno, data, valid, dirty,
    idequeue,         \* its head is the active request
    cmd,              \* the command in the controller, as idestart gave it
    irq,              \* its interrupt: "no", "done", "failed"
    io,               \* of the holder of a buffer: "out" of iderw, "asleep", "awake"
    bad               \* history: the blocks of the commands that failed

driver == <<disk, idequeue, cmd, irq, io, bad>>

ideinit ==
    /\ idequeue = <<>> /\ cmd = None /\ irq = "no" /\ bad = {}
    /\ io = [b \in Bufs |-> "out"]

\* The controller takes the block and, for a write, the data.
idestart(b) ==
    cmd' = [block |-> blockno[b], op |-> IF dirty'[b] THEN "write" ELSE "read",
            data |-> data'[b]]

\* iderw up to its sleep; the caller says what becomes of data and dirty.
iderw(b) ==
    /\ idequeue' = Append(idequeue, b)
    /\ IF idequeue = <<>> THEN idestart(b) ELSE cmd' = cmd
    /\ io' = [io EXCEPT ![b] = "asleep"]
    /\ UNCHANGED <<disk, irq, bad>>

\* The controller finishes its command, or fails it, and interrupts.
Finish ==
    /\ cmd # None /\ irq = "no"
    /\ irq' = "done"
    /\ disk' = IF cmd.op = "write" THEN [disk EXCEPT ![cmd.block] = cmd.data] ELSE disk
    /\ UNCHANGED <<blockno, data, valid, dirty, idequeue, cmd, io, bad>>

Fail ==
    /\ cmd # None /\ irq = "no" /\ cmd.op \in Faults /\ cmd.block \in Failing
    /\ irq' = "failed"
    /\ bad' = bad \cup {cmd.block}
    /\ UNCHANGED <<disk, blockno, data, valid, dirty, idequeue, cmd, io>>

\* ideintr starts the next request, if there is one.
NextRequestLater(q) == cmd' = None       \* faulty: the next one is not started

NextRequest(q) == IF q = <<>> THEN cmd' = None ELSE idestart(Head(q))

\* A read that failed leaves the data as it was; a write that failed is not
\* noticed at all.
ideintr ==
    /\ irq # "no"
    /\ LET b == Head(idequeue) IN
       /\ idequeue' = Tail(idequeue)
       /\ data' = IF ~dirty[b] /\ irq = "done" THEN [data EXCEPT ![b] = disk[cmd.block]] ELSE data
       /\ valid' = [valid EXCEPT ![b] = TRUE]
       /\ dirty' = [dirty EXCEPT ![b] = FALSE]
       /\ io' = IF io[b] = "asleep" THEN [io EXCEPT ![b] = "awake"] ELSE io
    /\ NextRequest(idequeue')
    /\ irq' = "no"
    /\ UNCHANGED <<disk, blockno, bad>>

\* kill() makes a sleeping process runnable, whatever it waits for.
Kill(b) ==
    /\ io[b] = "asleep"
    /\ io' = [io EXCEPT ![b] = "awake"]
    /\ UNCHANGED <<disk, blockno, data, valid, dirty, idequeue, cmd, irq, bad>>

\* The loop of iderw around sleep.
iderwAwakeOnce(b) ==                     \* faulty: if for while
    /\ io[b] = "awake"
    /\ io' = [io EXCEPT ![b] = "out"]
    /\ UNCHANGED <<disk, blockno, data, valid, dirty, idequeue, cmd, irq, bad>>

iderwAwake(b) ==
    /\ io[b] = "awake"
    /\ io' = [io EXCEPT ![b] = IF valid[b] /\ ~dirty[b] THEN "out" ELSE "asleep"]
    /\ UNCHANGED <<disk, blockno, data, valid, dirty, idequeue, cmd, irq, bad>>

Driver == Finish \/ Fail \/ ideintr \/ \E b \in Bufs : Kill(b) \/ iderwAwake(b)
-----------------------------------------------------------------------------
Queued == Range(idequeue)

\* The processes in iderw whose request is not done, and no others, are in the
\* queue, once each: none waits for a request that nobody will serve, and the
\* driver keeps no pointer to a buffer whose process went on or that bget gave
\* to another block.  The command in the controller is the one for the head.
QueueIsWaiters ==
    /\ IsInjective(idequeue)
    /\ \A b \in Bufs : b \in Queued <=> io[b] # "out" /\ (dirty[b] \/ ~valid[b])
    /\ cmd # None <=> idequeue # <<>>
    /\ cmd # None => cmd.block = blockno[Head(idequeue)] /\ (cmd.op = "write" <=> dirty[Head(idequeue)])
=============================================================================
