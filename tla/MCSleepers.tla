----------------------------- MODULE MCSleepers -----------------------------
(***************************************************************************)
(* Instances of a sleep lock and of a pipe for TLC.  The two share no      *)
(* lock, no channel and no data, so in each behaviour one of them moves.   *)
(***************************************************************************)
EXTENDS Sleeplock, TLC

CONSTANTS p1, p2, p3, p4

Four == {p1, p2, p3, p4}

VARIABLES
    part,
    data, nread, nwrite, readopen, writeopen, freed, plock, ppc, todo, got, killed

lock == vars
pipe == <<data, nread, nwrite, readopen, writeopen, freed, plock, ppc, todo, got, killed>>
all == <<part, lock, pipe>>

P == INSTANCE Pipe WITH
       Writers <- {p1, p2}, Readers <- {p3}, Killable <- {p3},
       Bytes <- {0, 1}, PIPESIZE <- 2, UINT <- 4, MaxN <- 2,
       lock <- plock, pc <- ppc

ASSUME PipeConstants == P!PipeAssumption

MCInit ==
    /\ part \in {"lock", "pipe"}
    /\ Init /\ P!Init
    /\ part = "lock" => data = [i \in 0..1 |-> 0] /\ got = 0

OnLock(A) == part = "lock" /\ A /\ UNCHANGED <<part, pipe>>
OnPipe(A) == part = "pipe" /\ A /\ UNCHANGED <<part, lock>>

MCNext == OnLock(Next) \/ OnPipe(P!Next)

\* A process in a call goes on.  On one CPU p->lock is free whenever a process
\* waits for it, for its holder runs with interrupts off.  Pipes are read and
\* written, or closed.
MCSpec ==
    /\ MCInit /\ [][MCNext]_all
    /\ \A p \in {p1, p2, p3} : SF_all(OnPipe(P!Step(p)))
    /\ SF_all(OnPipe(P!Reads)) /\ SF_all(OnPipe(P!Writes))

ImplementsStream == P!ImplementsStream
SleepersWake == P!SleepersWake
=============================================================================
