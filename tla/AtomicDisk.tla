----------------------------- MODULE AtomicDisk -----------------------------
(***************************************************************************)
(* What log.c promises the file system: the calls that overlap form a      *)
(* group, and what survives a crash is a whole number of groups.           *)
(***************************************************************************)
CONSTANTS Procs, Blocks, Values, Zero

VARIABLES
    stable,     \* what a crash leaves
    mem,        \* what a read returns
    active      \* the calls between begin_op and end_op

vars == <<stable, mem, active>>

Init ==
    /\ stable = [b \in Blocks |-> Zero]
    /\ mem = stable
    /\ active = {}

Begin(p) == p \notin active /\ active' = active \cup {p} /\ UNCHANGED <<stable, mem>>

Write(p, b, v) == p \in active /\ mem' = [mem EXCEPT ![b] = v] /\ UNCHANGED <<stable, active>>

End(p) == p \in active /\ active' = active \ {p} /\ UNCHANGED <<stable, mem>>

Commit == active = {} /\ stable' = mem /\ UNCHANGED <<mem, active>>

Crash == mem' = stable /\ active' = {} /\ UNCHANGED stable

Next ==
    \/ \E p \in Procs :
         \/ Begin(p) \/ End(p)
         \/ \E b \in Blocks, v \in Values : Write(p, b, v)
    \/ Commit
    \/ Crash

Spec == Init /\ [][Next]_vars
=============================================================================
