------------------------------ MODULE SlabBits ------------------------------
(***************************************************************************)
(* The bitmap of a size class at the level of slab.c: an array of bytes    *)
(* that setBitmap, checkEmpty, checkNewpage and getpageNum address by row  *)
(* and column.  Each does what Slab, where an object is <<page, slot>>,    *)
(* takes it to do.                                                         *)
(***************************************************************************)
EXTENDS Integers, FiniteSets

CONSTANTS
    Rows,        \* bytes of the bitmap (PGSIZE in the code)
    Bytes,       \* the values of a byte that are tried
    PerPage      \* the values of num_objects_per_page: 512, 256, ..., 4, 2

Row == 0..Rows - 1
Offsets == 0..8 * Rows - 1

get_bit(num, i) == (num \div 2^i) % 2 = 1
set_bit(num, i) == IF get_bit(num, i) THEN num ELSE num + 2^i
clear_bit(num, i) == IF get_bit(num, i) THEN num - 2^i ELSE num

returnOffset(row, column) == 8 * row + column
getRow(offset) == offset \div 8
getColumn(offset) == offset % 8

IsSet(bits, offset) == get_bit(bits[getRow(offset)], getColumn(offset))
-----------------------------------------------------------------------------
\* The first row that is not full, its first clear column; 0 if there is none.
setBitmap(bits) ==
    IF \A j \in Row : bits[j] = 255 THEN 0
    ELSE LET j == CHOOSE j \in Row : bits[j] # 255 /\ \A r \in 0..j - 1 : bits[r] = 255
             k == CHOOSE k \in 0..7 : /\ ~get_bit(bits[j], k)
                                     /\ \A i \in 0..k - 1 : get_bit(bits[j], i)
         IN returnOffset(j, k)

setBit(bits, offset) ==
    [bits EXCEPT ![getRow(offset)] = set_bit(@, getColumn(offset))]
clearBitmap(bits, offset) ==
    [bits EXCEPT ![getRow(offset)] = clear_bit(@, getColumn(offset))]

checkEmpty(bits, startOffset, endOffset) ==
    \A i \in getRow(startOffset)..getRow(endOffset),
       j \in getColumn(startOffset)..getColumn(endOffset) : ~get_bit(bits[i], j)

\* cnt of checkNewpage: the leading set bits, row by row.
LeadingOnes(bits) ==
    CHOOSE cnt \in 0..8 * Rows :
      /\ \A o \in 0..cnt - 1 : IsSet(bits, o)
      /\ cnt < 8 * Rows => ~IsSet(bits, cnt)

checkNewpage(bits, n) ==
    LET cnt == LeadingOnes(bits)
        start == (cnt \div n) * n
    IN IF cnt % n = 0 /\ cnt < 8 * Rows /\ checkEmpty(bits, start, start + n - 1)
         THEN start ELSE 0

getpageNumRows(bits, n) == Cardinality({i \in Row : bits[i] # 0})      \* faulty

\* Classes with less than a byte of objects on a page are counted column by
\* column, the others row by row.
getpageNum(bits, n) ==
    IF n < 8
      THEN Cardinality({<<i, j>> \in Row \X (0..7) :
             j % n = 0 /\ \E k \in j..j + n - 1 : get_bit(bits[i], k)})
      ELSE Cardinality({i \in Row :
             i % (n \div 8) = 0 /\ \E j \in i..i + n \div 8 - 1 : bits[j] # 0})
-----------------------------------------------------------------------------
(* The bitmap as Slab sees it, with n objects to a page. *)

SetBits(bits) == {o \in Offsets : IsSet(bits, o)}
PageNo(o, n) == o \div n + 1
PageBits(k, n) == {o \in Offsets : PageNo(o, n) = k}

\* setBitmap finds the lowest clear bit; setting and clearing a bit changes no
\* other; the rectangle that checkEmpty scans is the page; checkNewpage names a
\* page exactly when the lowest clear bit opens one that has no object; and
\* getpageNum counts the pages with an object, whichever way it scans.
BitmapFaithful ==
    \A bits \in [Row -> Bytes], n \in PerPage :
      LET set == SetBits(bits)
          clear == Offsets \ set
          first == CHOOSE o \in clear : \A q \in clear : o <= q
          page == PageNo(first, n)
      IN /\ setBitmap(bits) = IF clear = {} THEN 0 ELSE first
         /\ \A o \in Offsets : /\ SetBits(setBit(bits, o)) = set \cup {o}
                               /\ SetBits(clearBitmap(bits, o)) = set \ {o}
         /\ \A k \in 1..PageNo(8 * Rows - 1, n) :
              checkEmpty(bits, (k - 1) * n, k * n - 1) <=> PageBits(k, n) \cap set = {}
         /\ checkNewpage(bits, n) =
              IF clear # {} /\ first % n = 0 /\ PageBits(page, n) \cap set = {}
                THEN first ELSE 0
         /\ getpageNum(bits, n) = Cardinality({PageNo(o, n) : o \in set})
=============================================================================
