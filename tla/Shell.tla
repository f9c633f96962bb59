------------------------------- MODULE Shell -------------------------------
(***************************************************************************)
(* init, the shell, and the processes that runcmd makes of a line: who     *)
(* forks whom, who waits for whom, which descriptors each keeps, and when  *)
(* a pipe comes to its end.  A system call is a step.  Of the kernel there *)
(* is what the shell sees: fork until the table is full, exit and wait     *)
(* with orphans going to init, descriptors, and pipes that hold bytes and  *)
(* are open while somebody has the end.                                    *)
(***************************************************************************)
EXTENDS ShParser

CONSTANTS
    NPROC,            \* slots; slot 1 is init
    NPIPES,           \* bound: pipes that there is memory for
    PIPESIZE,
    Program,          \* file name -> what its program does
    Lines,            \* bound: the lines that are typed
    MaxLines,         \* bound: how many
    MaxBytes          \* bound: what a program writes, and what a file holds

ASSUME ShellAssumption ==
    /\ NPROC \in Nat \ {0} /\ NPIPES \in Nat /\ PIPESIZE \in Nat \ {0} /\ MaxLines \in Nat
    /\ MaxBytes \in Nat
    /\ \A f \in DOMAIN Program : Program[f] \in {"echo", "cat"}

Slots == 1..NPROC
Pipes == 1..NPIPES
FDs == 0..4

VARIABLES
    proc,             \* the processes
    sh,               \* init's pid
    data,             \* bytes in each pipe
    typed,            \* lines so far
    panicked          \* the kernel's "init exiting"

vars == <<proc, sh, data, typed, panicked>>

\* What a descriptor is open on: the end of pipe x, or the console or a file.
Closed == [on |-> "nothing", x |-> 0]
Inode == [on |-> "inode", x |-> 0]
ReadEnd(x) == [on |-> "read", x |-> x]
WriteEnd(x) == [on |-> "write", x |-> x]

None == execcmd(<<>>)
Three == [fd \in FDs |-> IF fd < 3 THEN Inode ELSE Closed]

\* at: where in init.c, sh.c or a program; cmd: what runcmd runs; p: its pipe's
\* descriptors; left: bytes a program has yet to write or its file to give;
\* awaited (history): the shells that are to wait for this process.
Unused == [state |-> "UNUSED", parent |-> 0, at |-> "none", cmd |-> None,
           fd |-> [fd \in FDs |-> Closed], p |-> <<0, 0>>, left |-> 0, awaited |-> {}]

\* init has the console as 0, 1 and 2.
Init ==
    /\ proc = [s \in Slots |->
                 IF s = 1 THEN [Unused EXCEPT !.state = "RUN", !.at = "init", !.fd = Three] ELSE Unused]
    /\ sh = 0
    /\ data = [x \in Pipes |-> 0]
    /\ typed = 0
    /\ panicked = FALSE

Is(s, a) == ~panicked /\ proc[s].state = "RUN" /\ proc[s].at = a
Runs(s, type) == Is(s, "run") /\ proc[s].cmd.type = type
Goto(s, a) == proc' = [proc EXCEPT ![s].at = a]
-----------------------------------------------------------------------------
(* System calls *)

\* fork: the child has its parent's descriptors and goes on at "at".
Free == {s \in Slots : proc[s].state = "UNUSED"}

fork(s, a, at, cmd, awaited) ==
    proc' = [proc EXCEPT ![s].at = a,
        ![Min(Free)] = [proc[s] EXCEPT !.parent = s, !.at = at, !.cmd = cmd, !.awaited = awaited]]

\* Orphans go to init.
exit(s) ==
    /\ Is(s, "exit")
    /\ proc' = [q \in Slots |->
           CASE q = s -> [Unused EXCEPT !.state = "ZOMBIE", !.parent = proc[s].parent]
             [] q # s /\ proc[q].parent = s -> [proc[q] EXCEPT !.parent = 1]
             [] OTHER -> proc[q]]
    /\ panicked' = (s = 1)
    /\ UNCHANGED <<sh, data, typed>>

Dead(s) == {q \in Slots : proc[q].parent = s /\ proc[q].state = "ZOMBIE"}

\* wait: reaps a dead child (whoever waits here has one, dead or alive).  Then
\* the process is at "a" with the command cmd.
wait(s, a, cmd) ==
    /\ Dead(s) # {}
    /\ proc' = [proc EXCEPT ![s].at = a, ![s].cmd = cmd, ![Min(Dead(s))] = Unused]
    /\ UNCHANGED <<sh, data, typed, panicked>>

Open(end) == \E s \in Slots : end \in Range(proc[s].fd)
LowestFree(f) == Min({fd \in FDs : f[fd] = Closed})
dup(f, fd) == [f EXCEPT ![LowestFree(f)] = f[fd]]
-----------------------------------------------------------------------------
\* init.c: a shell, and another one when it has ended; orphans are reaped.
InitFork(s) ==
    /\ Is(s, "init")
    /\ IF Free = {} THEN Goto(s, "exit") /\ UNCHANGED sh
       ELSE fork(s, "reap", "prompt", None, {}) /\ sh' = Min(Free)
    /\ UNCHANGED <<data, typed, panicked>>

InitWait(s) ==
    /\ Is(s, "reap")
    /\ wait(s, IF Min(Dead(s)) = sh THEN "init" ELSE "reap", None)

\* fork1: without a free slot the process panics, which is to exit, and leaves
\* behind what it would have waited for.
fork1(s, a, at, cmd, awaited) ==
    IF Free # {} THEN fork(s, a, at, cmd, awaited)
    ELSE proc' = [q \in Slots |->
           CASE q = s -> [proc[s] EXCEPT !.at = "exit"]
             [] s \in proc[q].awaited -> [proc[q] EXCEPT !.awaited = {}]
             [] OTHER -> proc[q]]

Awaited(s) == proc[s].awaited \cup {s}

\* main: a line is read, and a child parses and runs it; cd is for the shell
\* itself.
Chdir(line) == Len(line) >= 3 /\ SubSeq(line, 1, 3) = <<"c", "d", " ">>

Line(s) == \E line \in Lines :
    LET r == parsecmd(line) IN
    /\ Is(s, "prompt") /\ typed < MaxLines
    /\ typed' = typed + 1
    /\ IF Chdir(line) THEN UNCHANGED proc
       ELSE IF r.ok THEN fork1(s, "sh", "run", r.cmd, Awaited(s))
       ELSE fork1(s, "sh", "exit", None, Awaited(s))
    /\ UNCHANGED <<sh, data, panicked>>

EndOfFile(s) ==
    /\ Is(s, "prompt")
    /\ Goto(s, "exit")
    /\ UNCHANGED <<sh, data, typed, panicked>>

ShWait(s) == Is(s, "sh") /\ wait(s, "prompt", None)
-----------------------------------------------------------------------------
(* runcmd, by the type of the command *)

\* exec of a file that is not there fails.
Starts(argv) ==
    IF argv = <<>> \/ Head(argv) \notin DOMAIN Program THEN "exit"
    ELSE IF Program[Head(argv)] = "echo" THEN "echo" ELSE "read"

Exec(s) == \E n \in 0..MaxBytes :
    LET a == Starts(proc[s].cmd.argv) IN
    /\ Runs(s, "EXEC")
    /\ a = "echo" \/ (a = "read" /\ proc[s].fd[0] = Inode) \/ n = 0
    /\ proc' = [proc EXCEPT ![s].at = a, ![s].cmd = None, ![s].left = n]
    /\ UNCHANGED <<sh, data, typed, panicked>>

\* close and open, which may fail.
Redir(s) ==
    /\ Runs(s, "REDIR")
    /\ LET c == proc[s].cmd IN
       \/ proc' = [proc EXCEPT ![s].fd[c.fd] = Inode, ![s].cmd = c.cmd]
       \/ proc' = [proc EXCEPT ![s].fd[c.fd] = Closed, ![s].at = "exit"]
    /\ UNCHANGED <<sh, data, typed, panicked>>

List(s) ==
    /\ Runs(s, "LIST")
    /\ fork1(s, "list", "run", proc[s].cmd.left, Awaited(s))
    /\ UNCHANGED <<sh, data, typed, panicked>>

ListWait(s) == Is(s, "list") /\ wait(s, "run", proc[s].cmd.right)

Back(s) ==
    /\ Runs(s, "BACK")
    /\ fork1(s, "exit", "run", proc[s].cmd.cmd, {})
    /\ UNCHANGED <<sh, data, typed, panicked>>

\* pipe() fails without memory: panic.
FreePipes == {x \in Pipes : ~Open(ReadEnd(x)) /\ ~Open(WriteEnd(x))}

Pipe(s) ==
    LET f == proc[s].fd
        x == Min(FreePipes)
        p0 == LowestFree(f)
        p1 == LowestFree([f EXCEPT ![p0] = ReadEnd(x)])
    IN
    /\ Runs(s, "PIPE")
    /\ IF FreePipes = {} THEN Goto(s, "exit") /\ UNCHANGED data
       ELSE /\ proc' = [proc EXCEPT ![s].at = "left", ![s].p = <<p0, p1>>,
                                    ![s].fd = [f EXCEPT ![p0] = ReadEnd(x), ![p1] = WriteEnd(x)]]
            /\ data' = [data EXCEPT ![x] = 0]
    /\ UNCHANGED <<sh, typed, panicked>>

PipeLeft(s) ==
    /\ Is(s, "left")
    /\ fork1(s, "right", "leftend", proc[s].cmd.left, Awaited(s))
    /\ UNCHANGED <<sh, data, typed, panicked>>

PipeRight(s) ==
    /\ Is(s, "right")
    /\ fork1(s, "close", "rightend", proc[s].cmd.right, Awaited(s))
    /\ UNCHANGED <<sh, data, typed, panicked>>

\* close(fd); dup(p[i]); close(p[0]); close(p[1]).  In between the child has the
\* end that it keeps once or twice, and no end that it did not have before.
Connected(f, fd, p, i) ==
    LET g == dup([f EXCEPT ![fd] = Closed], p[i]) IN [g EXCEPT ![p[1]] = Closed, ![p[2]] = Closed]

LeftEnd(s) ==
    /\ Is(s, "leftend")
    /\ proc' = [proc EXCEPT ![s].at = "run", ![s].fd = Connected(@, 1, proc[s].p, 2), ![s].p = <<0, 0>>]
    /\ UNCHANGED <<sh, data, typed, panicked>>

RightEnd(s) ==
    /\ Is(s, "rightend")
    /\ proc' = [proc EXCEPT ![s].at = "run", ![s].fd = Connected(@, 0, proc[s].p, 1), ![s].p = <<0, 0>>]
    /\ UNCHANGED <<sh, data, typed, panicked>>

PipeCloseOne(s) ==                       \* faulty: p[1] is left open
    /\ Is(s, "close")
    /\ proc' = [proc EXCEPT ![s].at = "wait", ![s].fd[proc[s].p[1]] = Closed]
    /\ UNCHANGED <<sh, data, typed, panicked>>

PipeClose(s) ==
    /\ Is(s, "close")
    /\ proc' = [proc EXCEPT ![s].at = "wait", ![s].fd[proc[s].p[1]] = Closed, ![s].fd[proc[s].p[2]] = Closed]
    /\ UNCHANGED <<sh, data, typed, panicked>>

\* wait(); wait();
PipeWaitOnce(s) == Is(s, "wait") /\ wait(s, "exit", None)    \* faulty

PipeWait(s) ==
    \/ Is(s, "wait") /\ wait(s, "wait again", None)
    \/ Is(s, "wait again") /\ wait(s, "exit", None)
-----------------------------------------------------------------------------
(* Two programs: echo writes and ends, cat copies what it reads. *)

\* A write to fd 1 fails when nobody can read it, waits for room in a pipe, or
\* succeeds.
Write(s) ==
    LET out == proc[s].fd[1]
        toPipe == out.on = "write" /\ Open(ReadEnd(out.x))
        fails == ~toPipe /\ out.on # "inode"
    IN
    /\ Is(s, "write") \/ (Is(s, "echo") /\ proc[s].left > 0)
    /\ toPipe => data[out.x] < PIPESIZE
    /\ data' = IF toPipe THEN [data EXCEPT ![out.x] = @ + 1] ELSE data
    /\ IF proc[s].at = "echo" THEN proc' = [proc EXCEPT ![s].left = @ - 1]
       ELSE Goto(s, IF fails THEN "exit" ELSE "read")
    /\ UNCHANGED <<sh, typed, panicked>>

EchoDone(s) ==
    /\ Is(s, "echo") /\ proc[s].left = 0
    /\ Goto(s, "exit")
    /\ UNCHANGED <<sh, data, typed, panicked>>

\* A read of fd 0 gives a byte, the end, or an error, and waits for a pipe that
\* is empty and can be written.
Read(s) ==
    LET in == proc[s].fd[0] IN
    /\ Is(s, "read")
    /\ CASE in.on = "read" /\ data[in.x] > 0 ->
              Goto(s, "write") /\ data' = [data EXCEPT ![in.x] = @ - 1]
         [] in.on = "inode" /\ proc[s].left > 0 ->
              proc' = [proc EXCEPT ![s].at = "write", ![s].left = @ - 1] /\ UNCHANGED data
         [] OTHER ->
              /\ ~(in.on = "read" /\ Open(WriteEnd(in.x)))
              /\ Goto(s, "exit") /\ UNCHANGED data
    /\ UNCHANGED <<sh, typed, panicked>>
-----------------------------------------------------------------------------
runcmd(s) ==
    \/ Exec(s) \/ Redir(s) \/ List(s) \/ ListWait(s) \/ Back(s)
    \/ Pipe(s) \/ PipeLeft(s) \/ PipeRight(s) \/ LeftEnd(s) \/ RightEnd(s) \/ PipeClose(s) \/ PipeWait(s)

Step(s) ==
    \/ InitFork(s) \/ InitWait(s) \/ ShWait(s) \/ runcmd(s)
    \/ Write(s) \/ EchoDone(s) \/ Read(s) \/ exit(s)

Next == \E s \in Slots : Step(s) \/ Line(s) \/ EndOfFile(s)
Spec == Init /\ [][Next]_vars

\* As long as some process can go on, one does; nobody has to type.
FairSpec == Spec /\ WF_vars(\E s \in Slots : Step(s))
-----------------------------------------------------------------------------
\* A shell goes on to the next command, to the prompt or to its end only when
\* everything it has started in the foreground has ended, the parts of its parts
\* included: each wait() reaps the child it is meant for, though background
\* commands end at any time.  (A process that cannot fork leaves its children.)
Waited == \A q \in Slots : proc[q].state = "RUN" =>
    \A s \in proc[q].awaited :
        proc[s].state = "RUN" /\ proc[s].at \in {"sh", "list", "right", "close", "wait", "wait again"}

\* The shell waits for a line's command.
AtWork == sh # 0 /\ Is(sh, "sh")

\* The prompt comes back: no pipeline hangs, for the last writer's end of every
\* pipe is closed when the writers are gone and the last reader's end when the
\* readers are, also when forks fail halfway.
PromptReturns == AtWork ~> ~AtWork
=============================================================================
