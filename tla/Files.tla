------------------------------- MODULE Files -------------------------------
(***************************************************************************)
(* The open files: the table of file.c, the descriptors of every process   *)
(* (proc->ofile), and the calls that pass references among them: open,     *)
(* pipe, dup, close, fork and exit, with all their failures.  A hold of    *)
(* ftable.lock is one step; a process's own descriptors need no lock.      *)
(* Pipes are counted by their open ends, the one inode by its references.  *)
(***************************************************************************)
EXTENDS Naturals, FiniteSets, Sequences, SequencesExt, FiniteSetsExt

CONSTANTS
    Procs,
    NOFILE, NFILE,
    Pipes,            \* pages kalloc may give to pipes
    None

ASSUME FilesAssumption ==
    /\ IsFiniteSet(Procs) /\ IsFiniteSet(Pipes) /\ None \notin Procs \cup Pipes
    /\ NOFILE \in Nat \ {0} /\ NFILE \in Nat \ {0}

FileNos == 1..NFILE
NoFile == 0

VARIABLES
    ref, type, pipe, writable,   \* ftable.file; pipe and writable outlive a close
    ends,             \* pipe -> its open ends; a free page has none
    iref,             \* references to the inode
    ofile,            \* process -> descriptor -> file
    pc,               \* the call a process is in
    got,              \* files a call has allocated and not yet installed
    todo,             \* files it still has to close
    ff,               \* fileclose's copy of the file
    child             \* fork: the new process and the descriptors still to copy

table == <<ref, type, pipe, writable>>
vars == <<table, ends, iref, ofile, pc, got, todo, ff, child>>

NoCopy == [type |-> "none", pipe |-> None, writable |-> FALSE]
NoChild == [proc |-> None, fds |-> {}]
Closed == [fd \in 1..NOFILE |-> NoFile]

\* One process runs; the others are UNUSED until a fork.
Init ==
    /\ ref = [f \in FileNos |-> 0] /\ type = [f \in FileNos |-> "none"]
    /\ pipe = [f \in FileNos |-> None] /\ writable = [f \in FileNos |-> FALSE]
    /\ ends = [x \in Pipes |-> {}]
    /\ iref = 0
    /\ ofile = [p \in Procs |-> Closed]
    /\ \E p \in Procs : pc = [q \in Procs |-> IF q = p THEN "user" ELSE "unused"]
    /\ got = [p \in Procs |-> <<>>] /\ todo = [p \in Procs |-> <<>>]
    /\ ff = [p \in Procs |-> NoCopy] /\ child = [p \in Procs |-> NoChild]

Goto(p, a) == pc' = [pc EXCEPT ![p] = a]

\* The first free descriptor, or 0.
Free(p) == {fd \in 1..NOFILE : ofile[p][fd] = NoFile}

fdalloc(p) == IF Free(p) = {} THEN 0 ELSE Min(Free(p))

\* filealloc takes the first file with no references; the rest of it is as it
\* was left.  It fails when there is none.
Unreferenced == {f \in FileNos : ref[f] = 0}

filealloc(p) ==
    LET f == Min(Unreferenced) IN
    /\ Unreferenced # {}
    /\ ref' = [ref EXCEPT ![f] = 1]
    /\ got' = [got EXCEPT ![p] = Append(@, f)]
    /\ UNCHANGED <<type, pipe, writable>>

\* A call closes the files s, one after the other, and ends.
CloseAll(p, s) == todo' = [todo EXCEPT ![p] = s] /\ Goto(p, IF s = <<>> THEN "user" ELSE "close")
-----------------------------------------------------------------------------
\* sys_open: namei or create has given a reference to the inode.
OpenLookup(p) ==
    /\ pc[p] = "user"
    /\ iref' = iref + 1
    /\ Goto(p, "open")
    /\ UNCHANGED <<table, ends, ofile, got, todo, ff, child>>

OpenAlloc(p) ==
    /\ pc[p] = "open"
    /\ filealloc(p)
    /\ Goto(p, "opened")
    /\ UNCHANGED <<ends, iref, ofile, todo, ff, child>>

OpenNoFile(p) ==
    /\ pc[p] = "open" /\ Unreferenced = {}
    /\ iref' = iref - 1
    /\ Goto(p, "user")
    /\ UNCHANGED <<table, ends, ofile, got, todo, ff, child>>

OpenDone(p) ==
    /\ pc[p] = "opened" /\ fdalloc(p) # 0
    /\ LET f == Head(got[p]) IN
       /\ ofile' = [ofile EXCEPT ![p][fdalloc(p)] = f]
       /\ type' = [type EXCEPT ![f] = "inode"]
       /\ writable' = [writable EXCEPT ![f] = FALSE]
    /\ got' = [got EXCEPT ![p] = <<>>]
    /\ Goto(p, "user")
    /\ UNCHANGED <<ref, pipe, ends, iref, todo, ff, child>>

OpenNoFdLeak(p) ==                       \* faulty: the file is not closed
    /\ pc[p] = "opened" /\ fdalloc(p) = 0
    /\ got' = [got EXCEPT ![p] = <<>>]
    /\ Goto(p, "user")
    /\ iref' = iref - 1
    /\ UNCHANGED <<table, ends, ofile, todo, ff, child>>

OpenNoFd(p) ==
    /\ pc[p] = "opened" /\ fdalloc(p) = 0
    /\ CloseAll(p, got[p])
    /\ got' = [got EXCEPT ![p] = <<>>]
    /\ iref' = iref - 1
    /\ UNCHANGED <<table, ends, ofile, ff, child>>
-----------------------------------------------------------------------------
\* pipealloc and sys_pipe.
PipeFile(p) ==
    /\ pc[p] \in {"user", "pipe"}
    /\ filealloc(p)
    /\ Goto(p, IF pc[p] = "user" THEN "pipe" ELSE "pipe2")
    /\ UNCHANGED <<ends, iref, ofile, todo, ff, child>>

PipeMemory(p) == \E x \in Pipes :
    /\ pc[p] = "pipe2" /\ ends[x] = {}
    /\ ends' = [ends EXCEPT ![x] = {"read", "write"}]
    /\ type' = [f \in FileNos |-> IF f \in ToSet(got[p]) THEN "pipe" ELSE type[f]]
    /\ pipe' = [f \in FileNos |-> IF f \in ToSet(got[p]) THEN x ELSE pipe[f]]
    /\ writable' = [writable EXCEPT ![got[p][1]] = FALSE, ![got[p][2]] = TRUE]
    /\ Goto(p, "pipe3")
    /\ UNCHANGED <<ref, iref, ofile, got, todo, ff, child>>

\* "bad": no second file, or no page.
PipeBad(p) ==
    /\ \/ pc[p] = "pipe" /\ Unreferenced = {}
       \/ pc[p] = "pipe2"
    /\ CloseAll(p, got[p])
    /\ got' = [got EXCEPT ![p] = <<>>]
    /\ UNCHANGED <<table, ends, iref, ofile, ff, child>>

PipeDone(p) ==
    /\ pc[p] = "pipe3" /\ Cardinality(Free(p)) >= 2
    /\ LET fd0 == fdalloc(p) IN
       ofile' = [ofile EXCEPT ![p][fd0] = got[p][1], ![p][Min(Free(p) \ {fd0})] = got[p][2]]
    /\ got' = [got EXCEPT ![p] = <<>>]
    /\ Goto(p, "user")
    /\ UNCHANGED <<table, ends, iref, todo, ff, child>>

\* ofile[fd0] is set and cleared again.
PipeNoFd(p) ==
    /\ pc[p] = "pipe3" /\ Cardinality(Free(p)) < 2
    /\ CloseAll(p, got[p])
    /\ got' = [got EXCEPT ![p] = <<>>]
    /\ UNCHANGED <<table, ends, iref, ofile, ff, child>>
-----------------------------------------------------------------------------
\* sys_dup: the descriptor first, then the reference.
Dup(p) == \E fd \in 1..NOFILE :
    /\ pc[p] = "user" /\ ofile[p][fd] # NoFile /\ fdalloc(p) # 0
    /\ ofile' = [ofile EXCEPT ![p][fdalloc(p)] = ofile[p][fd]]
    /\ got' = [got EXCEPT ![p] = <<ofile[p][fd]>>]
    /\ Goto(p, "dup")
    /\ UNCHANGED <<table, ends, iref, todo, ff, child>>

filedup(p) ==
    /\ pc[p] = "dup"
    /\ ref' = [ref EXCEPT ![Head(got[p])] = @ + 1]
    /\ got' = [got EXCEPT ![p] = <<>>]
    /\ Goto(p, "user")
    /\ UNCHANGED <<type, pipe, writable, ends, iref, ofile, todo, ff, child>>

\* fork copies the descriptors in order; the child runs when it has them all.
Fork(p) == \E q \in Procs :
    /\ pc[p] = "user" /\ pc[q] = "unused"
    /\ pc' = [pc EXCEPT ![p] = "fork", ![q] = "embryo"]
    /\ child' = [child EXCEPT ![p] = [proc |-> q, fds |-> 1..NOFILE \ Free(p)]]
    /\ UNCHANGED <<table, ends, iref, ofile, got, todo, ff>>

ForkCopy(p) ==
    LET fd == Min(child[p].fds) f == ofile[p][fd] IN
    /\ pc[p] = "fork" /\ child[p].fds # {}
    /\ ref' = [ref EXCEPT ![f] = @ + 1]
    /\ ofile' = [ofile EXCEPT ![child[p].proc][fd] = f]
    /\ child' = [child EXCEPT ![p].fds = @ \ {fd}]
    /\ UNCHANGED <<type, pipe, writable, ends, iref, pc, got, todo, ff>>

ForkDone(p) ==
    /\ pc[p] = "fork" /\ child[p].fds = {}
    /\ pc' = [pc EXCEPT ![p] = "user", ![child[p].proc] = "user"]
    /\ child' = [child EXCEPT ![p] = NoChild]
    /\ UNCHANGED <<table, ends, iref, ofile, got, todo, ff>>
-----------------------------------------------------------------------------
Close(p) == \E fd \in 1..NOFILE :
    /\ pc[p] = "user" /\ ofile[p][fd] # NoFile
    /\ ofile' = [ofile EXCEPT ![p][fd] = NoFile]
    /\ CloseAll(p, <<ofile[p][fd]>>)
    /\ UNCHANGED <<table, ends, iref, got, ff, child>>

\* exit closes everything; the process is reaped when it has.
Exit(p) ==
    /\ pc[p] = "user" /\ \E q \in Procs \ {p} : pc[q] = "user"
    /\ ofile' = [ofile EXCEPT ![p] = Closed]
    /\ todo' = [todo EXCEPT ![p] = SelectSeq(ofile[p], LAMBDA f : f # NoFile)]
    /\ Goto(p, "exit")
    /\ UNCHANGED <<table, ends, iref, got, ff, child>>

\* fileclose under the lock: the last reference copies the file and frees it.
Copy(f) == CASE type[f] = "pipe" -> [type |-> "pipe", pipe |-> pipe[f], writable |-> writable[f]]
             [] type[f] = "inode" -> [NoCopy EXCEPT !.type = "inode"]
             [] OTHER -> NoCopy

filecloseTyped(p) ==                     \* faulty: f->type is left
    LET f == Head(todo[p]) IN
    /\ todo[p] # <<>> /\ ff[p] = NoCopy
    /\ ref' = [ref EXCEPT ![f] = @ - 1]
    /\ todo' = [todo EXCEPT ![p] = Tail(@)]
    /\ IF ref[f] = 1 THEN ff' = [ff EXCEPT ![p] = Copy(f)] ELSE UNCHANGED ff
    /\ UNCHANGED <<type, pipe, writable, ends, iref, ofile, pc, got, child>>

fileclose(p) ==
    LET f == Head(todo[p]) IN
    /\ todo[p] # <<>> /\ ff[p] = NoCopy
    /\ ref' = [ref EXCEPT ![f] = @ - 1]
    /\ todo' = [todo EXCEPT ![p] = Tail(@)]
    /\ IF ref[f] = 1
       THEN ff' = [ff EXCEPT ![p] = Copy(f)] /\ type' = [type EXCEPT ![f] = "none"]
       ELSE UNCHANGED <<ff, type>>
    /\ UNCHANGED <<pipe, writable, ends, iref, ofile, pc, got, child>>

\* The rest of fileclose, without the lock: by now the file may be another's.
Released(p) ==
    /\ ff[p] # NoCopy
    /\ IF ff[p].type = "pipe"
       THEN /\ ends' = [ends EXCEPT ![ff[p].pipe] =
                 @ \ {IF ff[p].writable THEN "write" ELSE "read"}]
            /\ UNCHANGED iref
       ELSE iref' = iref - 1 /\ UNCHANGED ends
    /\ ff' = [ff EXCEPT ![p] = NoCopy]
    /\ UNCHANGED <<table, ofile, pc, got, todo, child>>

Closing(p) == todo[p] # <<>> \/ ff[p] # NoCopy

\* A call that closed files returns; an exit is done and is reaped.
Return(p) ==
    /\ pc[p] \in {"close", "exit"} /\ ~Closing(p)
    /\ Goto(p, IF pc[p] = "close" THEN "user" ELSE "unused")
    /\ UNCHANGED <<table, ends, iref, ofile, got, todo, ff, child>>

Next == \E p \in Procs :
    \/ OpenLookup(p) \/ OpenAlloc(p) \/ OpenNoFile(p) \/ OpenDone(p) \/ OpenNoFd(p)
    \/ PipeFile(p) \/ PipeMemory(p) \/ PipeBad(p) \/ PipeDone(p) \/ PipeNoFd(p)
    \/ Dup(p) \/ filedup(p) \/ Fork(p) \/ ForkCopy(p) \/ ForkDone(p)
    \/ Close(p) \/ Exit(p) \/ fileclose(p) \/ Released(p) \/ Return(p)
Spec == Init /\ [][Next]_vars
-----------------------------------------------------------------------------
Occurrences(f, s) == Cardinality({i \in DOMAIN s : s[i] = f})

\* The pointers to file f that a process has: descriptors, and files a call in
\* progress has allocated or has still to close.  dup() counts after the fact.
Pointers(p, f) ==
    Occurrences(f, ofile[p]) + Occurrences(f, todo[p])
        + (IF pc[p] = "dup" THEN 0 ELSE Occurrences(f, got[p]))

NotCounted(f) == {p \in Procs : pc[p] = "dup" /\ Head(got[p]) = f}

\* A file's reference count is the number of pointers to it, through every
\* failure of open and pipe, and while other processes fork, close and exit: no
\* file is freed while a descriptor names it, and none is lost.
RefsExact == \A f \in FileNos :
    ref[f] + Cardinality(NotCounted(f)) = MapThenSumSet(LAMBDA p : Pointers(p, f), Procs)

End(w) == IF w THEN "write" ELSE "read"

EndsExact == \A x \in Pipes, w \in BOOLEAN :
    LET files == {f \in FileNos :
                    ref[f] > 0 /\ type[f] = "pipe" /\ pipe[f] = x /\ writable[f] = w}
        copies == {p \in Procs : ff[p] = [type |-> "pipe", pipe |-> x, writable |-> w]}
    IN  Cardinality(files) + Cardinality(copies) = IF End(w) \in ends[x] THEN 1 ELSE 0

InodeRefsExact ==
    iref = Cardinality({f \in FileNos : ref[f] > 0 /\ type[f] = "inode"})
           + Cardinality({p \in Procs : ff[p].type = "inode"})
           + Cardinality({p \in Procs : pc[p] \in {"open", "opened"}})

\* Each open end of a pipe belongs to exactly one file, or to the copy of one
\* that is being closed, and each reference that open took on an inode to a file,
\* to such a copy or to an open under way: what a file stands for is given back
\* once, with its last descriptor or when open fails, and never on behalf of a
\* file that was reused in the meantime.
HoldingsExact == EndsExact /\ InodeRefsExact
=============================================================================
