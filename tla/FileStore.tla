------------------------------ MODULE FileStore ------------------------------
(* What the file layer promises: a file is a sequence of bytes, reads and the
   pieces of a write are atomic, an open file has one offset for all who share
   it, and contents go away only when the inode is neither linked nor open. *)
EXTENDS Naturals, Sequences

CONSTANTS
    Procs, Files, Inums, None,
    Initial,          \* the contents to start from
    Counts, Pieces    \* how much is read, what is written at a time

VARIABLES
    contents,         \* of every inode
    file,             \* the open files: inode and offset
    linked,           \* inodes that have a name
    got               \* what the last read of a process returned

vars == <<contents, file, linked, got>>

Init ==
    /\ contents \in Initial
    /\ linked = {i \in Inums : contents[i] # <<>>}     \* mkfs makes no empty file
    /\ file \in [Files -> {None} \cup [ip : linked, off : {0}]]
    /\ got = [p \in Procs |-> <<>>]

Least(a, b) == IF a < b THEN a ELSE b
InUse == linked \cup {file[f].ip : f \in {g \in Files : file[g] # None}}

Open(f, i) ==
    /\ UNCHANGED <<linked, got>>
    /\ file[f] = None /\ i \in linked
    /\ file' = [file EXCEPT ![f] = [ip |-> i, off |-> 0]]
    /\ UNCHANGED contents

Create(f, i) ==
    /\ UNCHANGED got
    /\ linked' = linked \cup {i}
    /\ file[f] = None /\ i \notin InUse /\ contents[i] = <<>>
    /\ file' = [file EXCEPT ![f] = [ip |-> i, off |-> 0]]
    /\ UNCHANGED contents

Close(f) ==
    /\ UNCHANGED <<linked, got>>
    /\ file' = [file EXCEPT ![f] = None]
    /\ UNCHANGED contents

Unlink(i) ==
    /\ UNCHANGED <<file, got>>
    /\ linked' = linked \ {i}
    /\ UNCHANGED contents

Free(i) ==
    /\ UNCHANGED <<file, linked, got>>
    /\ i \notin InUse
    /\ contents' = [contents EXCEPT ![i] = <<>>]

\* From the offset, as many of n bytes as there are.
Read(p, f, n) ==
    /\ UNCHANGED linked
    /\ file[f] # None
    /\ LET s == contents[file[f].ip]
           k == Least(n, Len(s) - file[f].off)
       IN  /\ file' = [file EXCEPT ![f].off = @ + k]
           /\ got' = [got EXCEPT ![p] = SubSeq(s, file[f].off + 1, file[f].off + k)]
    /\ UNCHANGED contents

\* Over what is there, and beyond its end.
Write(f, bytes) ==
    /\ UNCHANGED <<linked, got>>
    /\ file[f] # None
    /\ file' = [file EXCEPT ![f].off = @ + Len(bytes)]
    /\ LET o == file[f].off
           rest(s) == SubSeq(s, o + Len(bytes) + 1, Len(s))
       IN  contents' = [contents EXCEPT ![file[f].ip] = SubSeq(@, 1, o) \o bytes \o rest(@)]

Next ==
    \/ \E i \in Inums : Unlink(i) \/ Free(i) \/ \E f \in Files : Open(f, i) \/ Create(f, i)
    \/ \E f \in Files :
          \/ Close(f)
          \/ \E n \in Counts, p \in Procs : Read(p, f, n)
          \/ \E bytes \in Pieces : Write(f, bytes)
Spec == Init /\ [][Next]_vars
=============================================================================
