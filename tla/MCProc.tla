------------------------------- MODULE MCProc -------------------------------
(* Instances of Proc for TLC. *)
EXTENDS Proc, TLC

CONSTANTS c1, c2

OneCPU == {c1}
TwoCPUs == {c1, c2}
Symmetric == Permutations(TwoCPUs)

AllCalls(p) == {"fork", "wait", "sleep", "kill", "exit", "fault"}
=============================================================================
