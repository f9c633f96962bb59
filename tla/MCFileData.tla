----------------------------- MODULE MCFileData -----------------------------
(* An instance of FileData for TLC: blocks of two bytes, one direct block and
   three in the indirect block, so that three inodes of up to eight bytes share
   a disk that can fill up. *)
EXTENDS FileData, TLC

CONSTANTS p1, p2, f1, f2

TwoProcs == {p1, p2}
TwoFiles == {f1, f2}
\* mkfs is given one file, short or long.
MCImages == {<<<<7>>>>, <<<<7, 8, 7, 8, 7>>>>}
MCWrites == {<<5>>, <<3, 4, 3, 4, 3, 4>>}
MCCounts == {3}
Symmetric == Permutations(TwoProcs) \cup Permutations(TwoFiles)

\* One file is open on the file that mkfs wrote; the other may be.
MCInit == Init /\ \E f \in Files : file[f] = [ip |-> 2, off |-> 0]
MCSpec == MCInit /\ [][Next]_vars
=============================================================================
