-------------------------------- MODULE Pipe --------------------------------
(***************************************************************************)
(* pipe.c: writers and readers of one pipe, its ring buffer with two uint  *)
(* counters that wrap, sleeping and waking, kill() and the two closes.     *)
(*                                                                         *)
(* p->lock is held over several steps.  sleep() is one step, as proc.c     *)
(* changes the state and gives up p->lock under ptable.lock.               *)
(***************************************************************************)
EXTENDS Integers, Sequences, FiniteSets

CONSTANTS
    Writers, Readers,
    None,             \* nobody holds p->lock
    Bytes,
    PIPESIZE,
    UINT,             \* uint counts modulo UINT
    MaxN,             \* bound: the largest n of a call
    Killable          \* the processes that kill() may hit

PipeAssumption ==
    /\ Writers \cap Readers = {} /\ None \notin Writers \cup Readers
    /\ PIPESIZE \in Nat \ {0} /\ UINT \in Nat /\ UINT % PIPESIZE = 0 /\ UINT > PIPESIZE
    /\ MaxN \in Nat

Users == Writers \cup Readers

VARIABLES
    data, nread, nwrite, readopen, writeopen, freed,    \* struct pipe
    lock,
    pc, todo,            \* a process's place, the bytes its call has still to move
    got,                 \* the byte that was copied to a reader last
    killed

pipeVars == <<data, nread, nwrite, readopen, writeopen, freed>>
vars == <<pipeVars, lock, pc, todo, got, killed>>

\* pipealloc: the ring is not cleared, the counters are.
Init ==
    /\ data \in [0..PIPESIZE - 1 -> Bytes]
    /\ nread = 0 /\ nwrite = 0
    /\ readopen = TRUE /\ writeopen = TRUE /\ freed = FALSE
    /\ lock = None
    /\ pc = [p \in Users |-> "out"]
    /\ todo = [p \in Users |-> 0]
    /\ got \in Bytes
    /\ killed = [p \in Users |-> FALSE]

Full == nwrite = (nread + PIPESIZE) % UINT
Empty == nread = nwrite
Goto(p, a) == pc' = [pc EXCEPT ![p] = a]

\* wakeup on the channel that the processes in S sleep on, while p goes to a.
WakeOne(S, p, a) ==                      \* faulty: stops at the first sleeper
    LET A == {q \in S : pc[q] = "asleep"} IN
    IF A = {} THEN Goto(p, a) ELSE \E q \in A : pc' = [pc EXCEPT ![p] = a, ![q] = "acquire"]

WakeAll(S, p, a) ==
    pc' = [q \in Users |->
        IF q = p THEN a ELSE IF q \in S /\ pc[q] = "asleep" THEN "acquire" ELSE pc[q]]
-----------------------------------------------------------------------------
\* sys_read or sys_write of n bytes, then acquire(&p->lock); a killed process
\* does not come back from trap() to make another call.
Call(p, n) ==
    /\ pc[p] = "out" /\ ~killed[p]
    /\ IF p \in Writers THEN writeopen ELSE readopen
    /\ Goto(p, "acquire")
    /\ todo' = [todo EXCEPT ![p] = n]
    /\ UNCHANGED <<pipeVars, lock, got, killed>>

acquire(p) ==
    /\ pc[p] = "acquire" /\ lock = None
    /\ lock' = p
    /\ Goto(p, IF p \in Writers THEN "write" ELSE "wait")
    /\ UNCHANGED <<pipeVars, todo, got, killed>>

\* release and return; todo is cleared.
Return(p) ==
    /\ lock' = None
    /\ todo' = [todo EXCEPT ![p] = 0]

WriteByte(w, v) ==
    /\ pc[w] = "write" /\ todo[w] > 0 /\ ~Full
    /\ data' = [data EXCEPT ![nwrite % PIPESIZE] = v]
    /\ nwrite' = (nwrite + 1) % UINT
    /\ todo' = [todo EXCEPT ![w] = @ - 1]
    /\ UNCHANGED <<nread, readopen, writeopen, freed, lock, pc, got, killed>>

WriteFails(w) ==
    /\ pc[w] = "write" /\ todo[w] > 0 /\ Full /\ (~readopen \/ killed[w])
    /\ Return(w) /\ Goto(w, "out")
    /\ UNCHANGED <<pipeVars, got, killed>>

WriteFull(w) ==
    /\ pc[w] = "write" /\ todo[w] > 0 /\ Full /\ readopen /\ ~killed[w]
    /\ WakeAll(Readers, w, "sleep")
    /\ UNCHANGED <<pipeVars, lock, todo, got, killed>>

WriteDone(w) ==
    /\ pc[w] = "write" /\ todo[w] = 0
    /\ WakeAll(Readers, w, "out") /\ Return(w)
    /\ UNCHANGED <<pipeVars, got, killed>>

sleep(p) ==
    /\ pc[p] = "sleep"
    /\ lock' = None
    /\ Goto(p, "asleep")
    /\ UNCHANGED <<pipeVars, todo, got, killed>>
-----------------------------------------------------------------------------
ReadWaits(r) ==
    /\ pc[r] = "wait" /\ Empty /\ writeopen /\ ~killed[r]
    /\ Goto(r, "sleep")
    /\ UNCHANGED <<pipeVars, lock, todo, got, killed>>

ReadFails(r) ==
    /\ pc[r] = "wait" /\ Empty /\ writeopen /\ killed[r]
    /\ Return(r) /\ Goto(r, "out")
    /\ UNCHANGED <<pipeVars, got, killed>>

ReadStarts(r) ==
    /\ pc[r] = "wait" /\ ~(Empty /\ writeopen)
    /\ Goto(r, "copy")
    /\ UNCHANGED <<pipeVars, lock, todo, got, killed>>

SourceNext == (nread + 1) % UINT         \* faulty: ++nread for nread++

Source == nread

ReadByte(r) ==
    /\ pc[r] = "copy" /\ todo[r] > 0 /\ ~Empty
    /\ got' = data[Source % PIPESIZE]
    /\ nread' = (nread + 1) % UINT
    /\ todo' = [todo EXCEPT ![r] = @ - 1]
    /\ UNCHANGED <<data, nwrite, readopen, writeopen, freed, lock, pc, killed>>

ReadDone(r) ==
    /\ pc[r] = "copy" /\ (todo[r] = 0 \/ Empty)
    /\ WakeAll(Writers, r, "out") /\ Return(r)
    /\ UNCHANGED <<pipeVars, got, killed>>
-----------------------------------------------------------------------------
\* pipeclose, when the last file that refers to the end is closed: no process
\* is in a call on that end.
Idle(S) == \A p \in S : pc[p] = "out"

FreeIfBoth == ~readopen' /\ ~writeopen'

CloseWrite ==
    /\ writeopen /\ Idle(Writers) /\ lock = None
    /\ writeopen' = FALSE
    /\ UNCHANGED readopen
    /\ freed' = FreeIfBoth
    /\ pc' = [q \in Users |-> IF q \in Readers /\ pc[q] = "asleep" THEN "acquire" ELSE pc[q]]
    /\ UNCHANGED <<data, nread, nwrite, lock, todo, got, killed>>

CloseRead ==
    /\ readopen /\ Idle(Readers) /\ lock = None
    /\ readopen' = FALSE
    /\ UNCHANGED writeopen
    /\ freed' = FreeIfBoth
    /\ pc' = [q \in Users |-> IF q \in Writers /\ pc[q] = "asleep" THEN "acquire" ELSE pc[q]]
    /\ UNCHANGED <<data, nread, nwrite, lock, todo, got, killed>>

\* kill() from another process: it wakes p if p sleeps.
kill(p) ==
    /\ p \in Killable /\ ~killed[p]
    /\ killed' = [killed EXCEPT ![p] = TRUE]
    /\ Goto(p, IF pc[p] = "asleep" THEN "acquire" ELSE pc[p])
    /\ UNCHANGED <<pipeVars, lock, todo, got>>

Write(w) == WriteFails(w) \/ WriteFull(w) \/ WriteDone(w) \/ \E v \in Bytes : WriteByte(w, v)
Read(r) == ReadWaits(r) \/ ReadFails(r) \/ ReadStarts(r) \/ ReadByte(r) \/ ReadDone(r)

Step(p) == acquire(p) \/ sleep(p) \/ (p \in Writers /\ Write(p)) \/ (p \in Readers /\ Read(p))

\* Both ends are closed: there is nothing left to do.
Closed == freed /\ Idle(Users) /\ UNCHANGED vars

Next ==
    \/ \E p \in Users : Step(p) \/ kill(p) \/ \E n \in 0..MaxN : Call(p, n)
    \/ CloseWrite \/ CloseRead
    \/ Closed

Spec == Init /\ [][Next]_vars

\* Readers go on reading and writers writing, or the end is closed.
Reads == CloseRead \/ \E r \in Readers, n \in 1..MaxN : Call(r, n)
Writes == CloseWrite \/ \E w \in Writers, n \in 1..MaxN : Call(w, n)
-----------------------------------------------------------------------------
Count == (nwrite - nread) % UINT

Stream == INSTANCE ByteStream WITH
    Room <- PIPESIZE,
    queue <- [i \in 1..Count |-> data[((nread + i - 1) % UINT) % PIPESIZE]]

\* The ring buffer is the byte stream: what is read is what was written, in
\* order, across the wrap of the index and of the counters.
ImplementsStream == Stream!Spec

\* A process asleep in piperead or pipewrite wakes up, as long as the other end
\* is used or closed: each wakeup reaches everyone who waits for it, though the
\* writer fills the pipe again before they run.
SleepersWake == \A p \in Users : pc[p] = "asleep" ~> pc[p] # "asleep"
=============================================================================
