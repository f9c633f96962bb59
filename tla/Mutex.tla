------------------------------- MODULE Mutex -------------------------------
(* What sleeplock.c promises: a lock that one process at a time holds. *)
CONSTANTS Procs, None

VARIABLE holder

Init == holder = None
Take(p) == holder = None /\ holder' = p
Give == holder # None /\ holder' = None
Next == Give \/ \E p \in Procs : Take(p)
Spec == Init /\ [][Next]_holder
=============================================================================
