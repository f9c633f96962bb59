------------------------------ MODULE MCInodes ------------------------------
(* An instance of Inodes for TLC. *)
EXTENDS Inodes

CONSTANTS p1, p2, a

TwoProcs == {p1, p2}
OneName == {a}
Symmetric == Permutations(TwoProcs)
=============================================================================
