------------------------------- MODULE MCLog -------------------------------
(* An instance of Log for TLC: two processes, and more blocks than one call
   may write, so that the log fills and is absorbed into. *)
EXTENDS Log

CONSTANTS p1, p2, b1, b2, b3

TwoProcs == {p1, p2}
ThreeBlocks == {b1, b2, b3}
=============================================================================
