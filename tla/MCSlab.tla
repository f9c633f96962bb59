------------------------------- MODULE MCSlab -------------------------------
(* Instances of Slab for TLC. *)
EXTENDS Slab, TLC

CONSTANTS f1, f2, f3, f4, f5, t1, t2

FiveFrames == {f1, f2, f3, f4, f5}
TwoThreads == {t1, t2}

\* Nothing in Slab orders frames or threads: which frames the classes start
\* with makes no difference, and the others may be permuted.
FirstFixed == \A c \in Class : page[c][1] = <<f1, f2, f3>>[c + 1]
MCInit == Init /\ FirstFixed
MCSpec == MCInit /\ [][Next]_vars
Symmetric == Permutations(Frames \ {f1, f2, f3}) \cup Permutations(Threads)

\* Nobody uses class 0; the other classes may be filled to their limits.
DemandLimit == [c \in Class |-> IF c = 0 THEN 0 ELSE Capacity(c)]
\* One object more than a class can hold.
DemandOver == [c \in Class |-> Capacity(c) + 1]
-----------------------------------------------------------------------------
S == INSTANCE SlabSizes WITH NSLAB <- 9, Sizes <- 0..2100
B == INSTANCE SlabBits WITH Rows <- 2, PerPage <- {2, 4, 8, 16},
                            Bytes <- {0, 1, 3, 4, 15, 16, 64, 127, 128, 240, 254, 255}

\* The table as slabinit leaves it.  The property below is about the
\* code that every later step runs and not about a state: it is evaluated
\* here, once.
AtBoot ==
    /\ \A c \in Class : /\ bitmap[c] = {} /\ live[c] = {}
                        /\ \A k \in 2..MAX_PAGES_PER_SLAB : page[c][k] = Null
    /\ others = {} /\ \A t \in Threads : pc[t] = "idle"

\* What Slab takes of its helpers is what they compute.  A request goes to the
\* smallest class that holds it, at exact powers of two too (nextPowerOf2 and
\* getslabIdx, in SlabSizes).  setBitmap, clearBitmap, checkEmpty, checkNewpage
\* and getpageNum, by rows and columns of bytes, do on the set of objects what
\* Slab says, for pages of less than a byte and of several (SlabBits).
HelpersFaithful == AtBoot => S!BestFit /\ B!BitmapFaithful
=============================================================================
