------------------------------ MODULE Console ------------------------------
(***************************************************************************)
(* Reads and writes of the console: the input ring of console.c with its   *)
(* read, write and edit indices, the keyboard interrupt, and the lock of   *)
(* the console's inode, which is a mutex (see Sleeplock).  The indices are *)
(* uints that wrap.  consoleread and consolewrite give up ip->lock before  *)
(* they take cons.lock, and take it again at the end.  A reader has        *)
(* cons.lock from one sleep to the next; the interrupt handler and         *)
(* consolewrite have it for one step.                                      *)
(***************************************************************************)
EXTENDS Naturals, Sequences

CONSTANTS
    Procs, None,
    Text, NL, EOF,    \* ordinary characters, '\n' and C('D')
    INPUT_BUF,
    UINT,             \* 2^32; INPUT_BUF divides it
    MaxN              \* bound: bytes asked for

ConsoleAssumption ==
    /\ INPUT_BUF \in Nat \ {0} /\ UINT \in Nat /\ UINT > INPUT_BUF /\ UINT % INPUT_BUF = 0
    /\ NL # EOF /\ {NL, EOF} \cap Text = {} /\ None \notin Procs

Chars == Text \cup {NL, EOF}

VARIABLES
    buf, r, w, e,     \* input
    cons,             \* the process that has cons.lock
    ip,               \* the process that has ip->lock
    io,               \* a process's place in read or write
    n, target,        \* of consoleread; target is 0 in a write
    killed

input == <<buf, r, w, e>>
calls == <<cons, ip, io, n, target, killed>>
vars == <<input, calls>>

Init ==
    /\ \E c \in Text : buf = [i \in 0..INPUT_BUF - 1 |-> c]
    /\ r = 0 /\ w = 0 /\ e = 0
    /\ cons = None /\ ip = None
    /\ io = [p \in Procs |-> "user"]
    /\ n = [p \in Procs |-> 0] /\ target = [p \in Procs |-> 0]
    /\ killed = [p \in Procs |-> FALSE]

Inc(x) == (x + 1) % UINT
Dec(x) == (x + UINT - 1) % UINT
Diff(x, y) == (x + UINT - y) % UINT
Place(p, a) == io' = [io EXCEPT ![p] = a]
-----------------------------------------------------------------------------
\* consoleintr, one character at a time; the reader it wakes is awake before
\* the lock is released.
Wake == io' = [p \in Procs |-> IF io[p] = "asleep" THEN "awake" ELSE io[p]]

\* input.e - input.r < INPUT_BUF
Room == Diff(e, r) < INPUT_BUF

Enters(c) == c \in {NL, EOF} \/ e' = (r + INPUT_BUF) % UINT

consoleintr == \E c \in Chars :
    /\ cons = None /\ Room
    /\ buf' = [buf EXCEPT ![e % INPUT_BUF] = c]
    /\ e' = Inc(e)
    /\ IF Enters(c) THEN w' = e' /\ Wake ELSE UNCHANGED <<w, io>>
    /\ UNCHANGED <<r, cons, ip, n, target, killed>>

\* C('H')
BackspaceAny ==                          \* faulty: entered lines are erased too
    /\ cons = None /\ e # r
    /\ e' = Dec(e)
    /\ UNCHANGED <<buf, r, w, calls>>

Backspace ==
    /\ cons = None /\ e # w
    /\ e' = Dec(e)
    /\ UNCHANGED <<buf, r, w, calls>>

\* C('U'): back to the start of the line, or to a '\n'.
KillLine ==
    /\ cons = None /\ e # w
    /\ LET stops == {k \in 0..Diff(e, w) :
                       k = Diff(e, w) \/ buf[(e + UINT - k - 1) % INPUT_BUF] = NL}
           back == CHOOSE k \in stops : \A j \in stops : k <= j
       IN  e' = (e + UINT - back) % UINT
    /\ UNCHANGED <<buf, r, w, calls>>
-----------------------------------------------------------------------------
\* fileread and filewrite: ilock, then readi or writei calls the device, which
\* gives up the lock.
Call(p) == \E k \in 0..MaxN :
    /\ io[p] = "user" /\ ip = None
    /\ ip' = p
    /\ Place(p, "locked")
    /\ n' = [n EXCEPT ![p] = k] /\ target' = [target EXCEPT ![p] = k]
    /\ UNCHANGED <<input, cons, killed>>

iunlock(p) ==
    /\ io[p] = "locked"
    /\ ip' = None
    /\ Place(p, "device")
    /\ UNCHANGED <<input, cons, n, target, killed>>

ilock(p) ==
    /\ io[p] = "done" /\ ip = None
    /\ ip' = p
    /\ Place(p, "relocked")
    /\ n' = [n EXCEPT ![p] = 0] /\ target' = [target EXCEPT ![p] = 0]
    /\ UNCHANGED <<input, cons, killed>>

\* The end of the call; a killed process does not get back to user space, and
\* another takes its place.
Done(p) ==
    /\ io[p] = "relocked"
    /\ ip' = None
    /\ Place(p, "user")
    /\ killed' = [killed EXCEPT ![p] = FALSE]
    /\ UNCHANGED <<input, cons, n, target>>

consolewrite(p) ==
    /\ io[p] = "device" /\ target[p] = 0 /\ cons = None
    /\ Place(p, "done")
    /\ UNCHANGED <<input, cons, ip, n, target, killed>>

consoleread(p) ==
    /\ io[p] = "device" /\ target[p] > 0 /\ cons = None
    /\ cons' = p
    /\ Place(p, "loop")
    /\ UNCHANGED <<input, ip, n, target, killed>>

Return(p) == cons' = None /\ Place(p, "done")

Sleep(p) ==
    /\ io[p] = "loop" /\ r = w /\ ~killed[p]
    /\ cons' = None
    /\ Place(p, "asleep")
    /\ UNCHANGED <<input, ip, n, target, killed>>

Awake(p) ==
    /\ io[p] = "awake" /\ cons = None
    /\ cons' = p
    /\ Place(p, "loop")
    /\ UNCHANGED <<input, ip, n, target, killed>>

\* The read fails, whatever it has read.
Killed(p) ==
    /\ io[p] = "loop" /\ r = w /\ killed[p]
    /\ Return(p)
    /\ UNCHANGED <<input, ip, n, target, killed>>

Front == buf[r % INPUT_BUF]

\* One character; the read ends with a line, with the last byte wanted, and
\* before an end of file that is not its first character.
Saved(p) == Front = EOF /\ n[p] < target[p]

TakeChar(p) ==
    /\ io[p] = "loop" /\ r # w
    /\ r' = IF Saved(p) THEN r ELSE Inc(r)
    /\ n' = [n EXCEPT ![p] = IF Front = EOF THEN @ ELSE @ - 1]
    /\ IF Front \in {NL, EOF} \/ n[p] = 1 THEN Return(p) ELSE UNCHANGED <<cons, io>>
    /\ UNCHANGED <<buf, w, e, ip, target, killed>>

kill(p) ==
    /\ ~killed[p] /\ target[p] > 0
    /\ killed' = [killed EXCEPT ![p] = TRUE]
    /\ Place(p, IF io[p] = "asleep" THEN "awake" ELSE io[p])
    /\ UNCHANGED <<input, cons, ip, n, target>>

Step(p) ==
    \/ iunlock(p) \/ ilock(p) \/ Done(p) \/ consolewrite(p)
    \/ consoleread(p) \/ Sleep(p) \/ Awake(p) \/ Killed(p) \/ TakeChar(p)

Next ==
    \/ consoleintr \/ Backspace \/ KillLine
    \/ \E p \in Procs : Call(p) \/ Step(p) \/ kill(p)
Spec == Init /\ [][Next]_vars
-----------------------------------------------------------------------------
Ring(from, to) == [i \in 1..Diff(to, from) |-> buf[(from + i - 1) % INPUT_BUF]]

L == INSTANCE LineInput WITH
       line <- Ring(w, e), ready <- Ring(r, w), Enter <- {NL, EOF}, Size <- INPUT_BUF

\* The ring is the line input: what is typed is read once and in order, only
\* the line being edited is erased, nothing unread is overwritten, and the
\* indices may wrap.
ImplementsLineInput == L!Spec
=============================================================================
