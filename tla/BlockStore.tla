----------------------------- MODULE BlockStore -----------------------------
(* What bio.c and ide.c promise: one copy of every block, which one process at
   a time has in hand, and which only that process changes, unless a command
   for that block failed. *)
CONSTANTS Procs, Blocks, Values, NoBlock

VARIABLES
    store,            \* contents of every block
    hand,             \* the block a process has in hand
    bad               \* blocks that a failed command may have spoilt

vars == <<store, hand, bad>>

Init ==
    /\ store \in [Blocks -> Values]
    /\ hand = [p \in Procs |-> NoBlock]
    /\ bad = {}

Take(p, k) ==
    /\ hand[p] = NoBlock /\ \A q \in Procs : hand[q] # k
    /\ hand' = [hand EXCEPT ![p] = k]
    /\ UNCHANGED <<store, bad>>

Change(p, v) ==
    /\ hand[p] # NoBlock
    /\ store' = [store EXCEPT ![hand[p]] = v]
    /\ UNCHANGED <<hand, bad>>

Give(p) ==
    /\ hand' = [hand EXCEPT ![p] = NoBlock]
    /\ UNCHANGED <<store, bad>>

Fail(k) ==
    /\ bad' = bad \cup {k}
    /\ UNCHANGED <<store, hand>>

\* What is read of a spoilt block may be anything.
Spoilt(k, v) ==
    /\ k \in bad
    /\ store' = [store EXCEPT ![k] = v]
    /\ UNCHANGED <<hand, bad>>

Next ==
    \/ \E p \in Procs :
          Give(p) \/ (\E k \in Blocks : Take(p, k)) \/ (\E v \in Values : Change(p, v))
    \/ \E k \in Blocks : Fail(k) \/ \E v \in Values : Spoilt(k, v)
Spec == Init /\ [][Next]_vars
=============================================================================
