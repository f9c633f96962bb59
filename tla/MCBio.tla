------------------------------- MODULE MCBio -------------------------------
(* An instance of Bio for TLC. *)
EXTENDS Bio, TLC

CONSTANTS b1, b2, p1, p2, k1, k2, k3, v1, v2

TwoProcs == {p1, p2}
TwoBufs == {b1, b2}
ThreeBlocks == {k1, k2, k3}
TwoValues == {v1, v2}
\* Which block it is makes no difference.
OneBlock == {k1}

\* One order of the list and one content of the disk: the others differ by the
\* names of the buffers and of the values.
MCInit == Init /\ list = <<b1, b2>> /\ disk = [k \in Blocks |-> v1] /\ data[b1] = v1
MCSpec ==
    /\ MCInit /\ [][Next]_vars
    /\ DriverFairness
=============================================================================
