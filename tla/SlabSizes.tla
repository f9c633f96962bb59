----------------------------- MODULE SlabSizes -----------------------------
(***************************************************************************)
(* How slab.c turns a number of bytes into a size class.  kmalloc rounds   *)
(* the size up before it looks for the class; kmfree takes the size as it  *)
(* is given.                                                               *)
(***************************************************************************)
EXTENDS Integers, Bitwise

CONSTANTS NSLAB, Sizes      \* 9 classes; the sizes that are tried

MaxSize == 8 * 2^(NSLAB - 1)      \* 2048

RECURSIVE getnumofBits(_)
getnumofBits(n) == IF n = 0 THEN 0 ELSE 1 + getnumofBits(shiftR(n, 1))

nextPowerOf2(n) ==
    IF n < 8 THEN 8
    ELSE IF n & (n - 1) = 0 THEN n
    ELSE 2^getnumofBits(n)

\* The unsigned difference is stored in an int: below 8 the index is negative.
getslabIdx(n) == getnumofBits(n) - 4

kmallocClass(n) == getslabIdx(nextPowerOf2(n))
kmfreeClass(n) == getslabIdx(n)

Accepted(n) == n > 0 /\ n <= MaxSize
-----------------------------------------------------------------------------
\* kmalloc serves an accepted size from the smallest class whose objects are
\* large enough, and kmfree finds that class exactly when the caller passes it
\* the size of the class and not the size that was asked for.
BestFit ==
    \A size \in {n \in Sizes : Accepted(n)} :
      LET c == kmallocClass(size) IN
      /\ c \in 0..NSLAB - 1
      /\ size <= 8 * 2^c
      /\ \A d \in 0..NSLAB - 1 : size <= 8 * 2^d => c <= d
      /\ kmfreeClass(size) = c <=> size = 8 * 2^c
=============================================================================
