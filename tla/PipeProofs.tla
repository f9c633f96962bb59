----------------------------- MODULE PipeProofs -----------------------------
(***************************************************************************)
(* Proofs about Pipe, for any writers and readers, any size of the ring    *)
(* and any width of the counters: the ring buffer is the byte stream.      *)
(***************************************************************************)
EXTENDS Pipe, TLAPS

\* Where a process is in its call.
Places == {"out", "acquire", "write", "sleep", "asleep", "wait", "copy"}

\* Types, the ring never over-full, and a process in a call has its end open: so
\* whoever moves a byte may.
Typed ==
    /\ data \in [0..PIPESIZE - 1 -> Bytes] /\ got \in Bytes
    /\ nread \in 0..UINT - 1 /\ nwrite \in 0..UINT - 1
    /\ pc \in [Users -> Places]
Open ==
    /\ \A w \in Writers : pc[w] # "out" => writeopen
    /\ \A r \in Readers : pc[r] # "out" => readopen

\* The inductive invariant.
IInv == Typed /\ Count \in 0..PIPESIZE /\ Open
-----------------------------------------------------------------------------
(* Arithmetic modulo the width of the counters and the size of the ring *)

\* Division with remainder is unique.
LEMMA Remainder ==
  ASSUME NEW m \in Nat \ {0}, NEW q \in Int, NEW r \in 0..m - 1
  PROVE  (q * m + r) % m = r
  <1> DEFINE x == q * m + r
             d == x \div m
             e == x % m
  <1>1. x \in Int
    OBVIOUS
  <1> HIDE DEF x
  <1>2. d \in Int /\ e \in 0..m - 1 /\ x = d * m + e
    BY <1>1
  <1> HIDE DEF d, e
  <1>3. (q - d) * m = e - r
    BY <1>2 DEF x
  <1>4. q - d \in Int /\ e - r < m /\ e - r > -m
    BY <1>2
  <1>5. q - d < 1
    <2> SUFFICES ASSUME q - d >= 1 PROVE FALSE
      BY <1>4
    <2>1. (q - d) * m >= m
      BY <1>2
    <2> QED BY <1>2, <1>3, <1>4, <2>1
  <1>6. q - d > -1
    <2> SUFFICES ASSUME q - d <= -1 PROVE FALSE
      BY <1>4
    <2>1. (q - d) * m <= -m
      BY <1>2
    <2> QED BY <1>2, <1>3, <1>4, <2>1
  <1>7. q = d
    BY <1>2, <1>5, <1>6
  <1>8. e = r
    BY <1>2, <1>7 DEF x
  <1> QED BY <1>8 DEF e, x

\* A counter wraps at most once in what pipe.c computes, upwards or downwards.
LEMMA Wrap ==
  ASSUME NEW m \in Nat \ {0}, NEW x \in Int
  PROVE  /\ x \in 0..m - 1 => x % m = x
         /\ x \in m..2 * m - 1 => x % m = x - m
         /\ x \in -m..-1 => x % m = x + m
  <1>1. ASSUME x \in 0..m - 1 PROVE x % m = x
    BY <1>1
  <1>2. ASSUME x \in m..2 * m - 1 PROVE x % m = x - m
    <2>1. (1 * m + (x - m)) % m = x - m
      <3>1. x - m \in 0..m - 1 /\ 1 \in Int
        BY <1>2
      <3> QED BY <3>1, Remainder
    <2> QED BY <2>1
  <1>3. ASSUME x \in -m..-1 PROVE x % m = x + m
    <2>1. (-1 * m + (x + m)) % m = x + m
      <3>1. x + m \in 0..m - 1 /\ -1 \in Int
        BY <1>3
      <3> QED BY <3>1, Remainder
    <2> QED BY <2>1
  <1> QED BY <1>1, <1>2, <1>3

\* A counter that is added to.
LEMMA WrapUp ==
  ASSUME NEW m \in Nat \ {0}, NEW x \in 0..2 * m - 1
  PROVE  x % m = IF x < m THEN x ELSE x - m
  <1>1. x \in Int /\ (x < m => x \in 0..m - 1) /\ (~(x < m) => x \in m..2 * m - 1)
    OBVIOUS
  <1> QED BY <1>1, Wrap, Zenon

\* A difference of two counters.
LEMMA WrapDown ==
  ASSUME NEW m \in Nat \ {0}, NEW x \in -m..m - 1
  PROVE  x % m = IF x < 0 THEN x + m ELSE x
  <1>1. x \in Int /\ (x < 0 => x \in -m..-1) /\ (~(x < 0) => x \in 0..m - 1)
    OBVIOUS
  <1> QED BY <1>1, Wrap, Zenon

\* The slot of a counter does not change when the counter wraps, for the ring's
\* size divides the counter's width.
LEMMA SlotOf ==
  ASSUME NEW m \in Nat \ {0}, NEW u \in Nat, u % m = 0, NEW x \in Nat, x < 2 * u
  PROVE  (x % u) % m = x % m /\ x % m \in 0..m - 1
  <1>1. PICK k \in Nat : u = k * m
    <2> DEFINE d == u \div m
    <2>1. d \in Nat /\ u = d * m
      OBVIOUS
    <2> QED BY <2>1
  <1> DEFINE q == x \div m
             r == x % m
  <1>2. q \in Nat /\ r \in 0..m - 1 /\ x = q * m + r
    OBVIOUS
  <1>3. u # 0 /\ u \in Nat \ {0}
    OBVIOUS
  <1> HIDE DEF q, r
  <1>4. CASE x < u
    <2>1. x % u = x
      BY <1>3, <1>4
    <2> QED BY <1>2, <2>1 DEF r
  <1>5. CASE x >= u
    <2>1. x % u = x - u
      <3>1. x \in 0..2 * u - 1 /\ ~(x < u)
        BY <1>5
      <3> QED BY <1>3, <3>1, WrapUp, Zenon
    <2>2. x - u = (q - k) * m + r /\ q - k \in Int
      BY <1>1, <1>2
    <2>3. ((q - k) * m + r) % m = r
      BY <1>2, <2>2, Remainder
    <2> QED BY <1>2, <2>1, <2>2, <2>3 DEF r
  <1> QED BY <1>4, <1>5

\* Counters less than a ring's size apart have different slots.
LEMMA SlotsApart ==
  ASSUME NEW m \in Nat \ {0}, NEW x \in Nat, NEW y \in Nat, x < y, y < x + m
  PROVE  x % m # y % m
  <1> SUFFICES ASSUME x % m = y % m PROVE FALSE
    OBVIOUS
  <1> DEFINE a == x \div m
             b == y \div m
             r == x % m
  <1>1. a \in Nat /\ b \in Nat /\ r \in 0..m - 1 /\ x = a * m + r /\ y = b * m + r
    OBVIOUS
  <1> HIDE DEF a, b, r
  <1>2. (b - a) * m = y - x /\ b - a \in Int
    BY <1>1
  <1>3. CASE b - a <= 0
    <2>1. (b - a) * m <= 0
      BY <1>1, <1>3
    <2> QED BY <1>2, <2>1
  <1>4. CASE b - a >= 1
    <2>1. (b - a) * m >= m
      BY <1>1, <1>4
    <2> QED BY <1>2, <2>1
  <1> QED BY <1>2, <1>3, <1>4
-----------------------------------------------------------------------------
(* The ring *)

\* The bytes in a pipe, oldest first, with ring d, reading counter r and c bytes.
RingOf(d, r, c) == [i \in 1..c |-> d[((r + i - 1) % UINT) % PIPESIZE]]
Ring == RingOf(data, nread, Count)

\* What PipeAssumption says of the width and the size.
LEMMA Widths ==
  ASSUME PipeAssumption
  PROVE  /\ PIPESIZE \in Nat \ {0} /\ UINT \in Nat \ {0} /\ UINT > PIPESIZE /\ UINT % PIPESIZE = 0
  BY DEF PipeAssumption

\* The i-th byte is in its slot, and the bytes are a sequence.
LEMMA Bytewise ==
  ASSUME PipeAssumption, NEW d \in [0..PIPESIZE - 1 -> Bytes], NEW r \in 0..UINT - 1, NEW c \in 0..PIPESIZE
  PROVE  /\ \A i \in 1..PIPESIZE : /\ ((r + i - 1) % UINT) % PIPESIZE = (r + i - 1) % PIPESIZE
                                   /\ (r + i - 1) % PIPESIZE \in 0..PIPESIZE - 1
         /\ RingOf(d, r, c) \in [1..c -> Bytes] /\ RingOf(d, r, c) \in Seq(Bytes) /\ Len(RingOf(d, r, c)) = c
  <1>1. ASSUME NEW i \in 1..PIPESIZE
        PROVE  ((r + i - 1) % UINT) % PIPESIZE = (r + i - 1) % PIPESIZE /\ (r + i - 1) % PIPESIZE \in 0..PIPESIZE - 1
    <2> DEFINE x == r + i - 1
    <2>1. x \in Nat /\ x < 2 * UINT
      BY Widths
    <2> HIDE DEF x
    <2>2. (x % UINT) % PIPESIZE = x % PIPESIZE /\ x % PIPESIZE \in 0..PIPESIZE - 1
      BY <2>1, Widths, SlotOf
    <2> QED BY <2>2, Zenon DEF x
  <1>2. c \in Nat /\ \A i \in 1..c : i \in 1..PIPESIZE
    BY Widths
  <1>3. \A i \in 1..c : d[((r + i - 1) % UINT) % PIPESIZE] \in Bytes
    BY <1>1, <1>2, Zenon
  <1>4. RingOf(d, r, c) \in [1..c -> Bytes]
    BY <1>3, Zenon DEF RingOf
  <1>5. RingOf(d, r, c) \in Seq(Bytes) /\ Len(RingOf(d, r, c)) = c
    BY <1>2, <1>4
  <1> QED BY <1>1, <1>4, <1>5, Zenon

\* pipewrite puts a byte behind the others and overwrites none of them.
LEMMA Pushed ==
  ASSUME PipeAssumption, NEW d \in [0..PIPESIZE - 1 -> Bytes], NEW r \in 0..UINT - 1,
         NEW c \in 0..PIPESIZE, c # PIPESIZE, NEW v \in Bytes,
         NEW e, e = [d EXCEPT ![((r + c) % UINT) % PIPESIZE] = v]
  PROVE  RingOf(e, r, c + 1) = Append(RingOf(d, r, c), v)
  <1> DEFINE n == ((r + c) % UINT) % PIPESIZE
             A == RingOf(d, r, c)
             B == RingOf(e, r, c + 1)
             at(i) == ((r + i - 1) % UINT) % PIPESIZE
  <1>1. c \in Nat /\ c + 1 \in 1..PIPESIZE /\ c + 1 \in 0..PIPESIZE /\ PIPESIZE \in Nat \ {0} /\ r \in Nat
    BY Widths
  <1>2. \A i \in 1..PIPESIZE : at(i) = (r + i - 1) % PIPESIZE /\ at(i) \in 0..PIPESIZE - 1
    BY Bytewise, Zenon
  <1>3. r + (c + 1) - 1 = r + c
    BY <1>1
  <1>4. n = at(c + 1) /\ n \in 0..PIPESIZE - 1
    BY <1>1, <1>2, <1>3, Zenon
  <1>5. e \in [0..PIPESIZE - 1 -> Bytes] /\ e[n] = v /\ \A m \in 0..PIPESIZE - 1 : m # n => e[m] = d[m]
    BY <1>4
  <1>6. ASSUME NEW i \in 1..c PROVE at(i) # n
    <2> DEFINE x == r + i - 1
               y == r + (c + 1) - 1
    <2>1. x \in Nat /\ y \in Nat /\ x < y /\ y < x + PIPESIZE
      BY <1>1
    <2>2. i \in 1..PIPESIZE
      BY <1>1
    <2>3. at(i) = x % PIPESIZE /\ n = y % PIPESIZE
      BY <1>1, <1>2, <1>4, <2>2, Zenon
    <2> HIDE DEF x, y
    <2>4. x % PIPESIZE # y % PIPESIZE
      BY <1>1, <2>1, SlotsApart
    <2> QED BY <2>3, <2>4, Zenon
  <1>7. /\ A = [i \in 1..c |-> d[at(i)]] /\ B = [i \in 1..c + 1 |-> e[at(i)]]
    BY Zenon DEF RingOf
  <1>8. \A i \in 1..c : i \in 1..PIPESIZE /\ i \in 1..c + 1
    BY <1>1
  <1> HIDE DEF at
  <1>9. \A i \in 1..c : B[i] = A[i]
    BY <1>2, <1>5, <1>6, <1>7, <1>8, Zenon
  <1>10. B[c + 1] = v
    <2>1. c + 1 \in 1..c + 1
      BY <1>1
    <2> QED BY <1>4, <1>5, <1>7, <2>1, Zenon
  <1>11. /\ A \in Seq(Bytes) /\ Len(A) = c /\ B \in Seq(Bytes) /\ Len(B) = c + 1
    BY <1>1, <1>5, Bytewise, Zenon
  <1> HIDE DEF A, B
  <1>12. B = Append(A, v)
    BY <1>1, <1>9, <1>10, <1>11
  <1> QED BY <1>12 DEF A, B

\* piperead takes the oldest byte.
LEMMA Popped ==
  ASSUME PipeAssumption, NEW d \in [0..PIPESIZE - 1 -> Bytes], NEW r \in 0..UINT - 1,
         NEW c \in 0..PIPESIZE, c # 0
  PROVE  /\ RingOf(d, r, c) # <<>> /\ Head(RingOf(d, r, c)) = d[r % PIPESIZE] /\ d[r % PIPESIZE] \in Bytes
         /\ RingOf(d, (r + 1) % UINT, c - 1) = Tail(RingOf(d, r, c))
  <1> DEFINE s == (r + 1) % UINT
             A == RingOf(d, r, c)
             B == RingOf(d, s, c - 1)
             at(x) == (x % UINT) % PIPESIZE
  <1>1. /\ c \in Nat /\ c - 1 \in Nat /\ c - 1 \in 0..PIPESIZE /\ r \in Nat /\ r < UINT /\ 1 \in 1..c
        /\ PIPESIZE \in Nat \ {0} /\ UINT \in Nat \ {0} /\ PIPESIZE < UINT /\ c <= PIPESIZE
    BY Widths
  <1>2. s = (IF r + 1 < UINT THEN r + 1 ELSE 0) /\ s \in 0..UINT - 1
    <2> DEFINE x == r + 1
    <2>1. x \in 0..2 * UINT - 1
      BY <1>1
    <2> HIDE DEF x
    <2>2. x % UINT = IF x < UINT THEN x ELSE x - UINT
      BY <1>1, <2>1, WrapUp, Zenon
    <2> QED BY <1>1, <2>2 DEF x
  <1> HIDE DEF s
  <1>3. ASSUME NEW i \in 1..c - 1 PROVE (s + i - 1) % UINT = (r + (i + 1) - 1) % UINT
    <2> DEFINE x == s + i - 1
               y == r + (i + 1) - 1
    <2>1. x \in 0..2 * UINT - 1 /\ y \in 0..2 * UINT - 1 /\ (x = y \/ (x = y - UINT /\ x < UINT))
      BY <1>1, <1>2
    <2> HIDE DEF x, y
    <2>2. x % UINT = (IF x < UINT THEN x ELSE x - UINT) /\ y % UINT = IF y < UINT THEN y ELSE y - UINT
      BY <1>1, <2>1, WrapUp, Zenon
    <2>3. x % UINT = y % UINT
      BY <1>1, <2>1, <2>2
    <2> QED BY <2>3, Zenon DEF x, y
  <1>4. /\ A = [i \in 1..c |-> d[at(r + i - 1)]] /\ B = [i \in 1..c - 1 |-> d[at(s + i - 1)]]
    BY Zenon DEF RingOf
  <1>5. r + 1 - 1 = r /\ r % UINT = r
    BY <1>1
  <1>6. A[1] = d[r % PIPESIZE]
    <2>1. A[1] = d[at(r + 1 - 1)]
      BY <1>1, <1>4, Zenon
    <2>2. at(r + 1 - 1) = at(r) /\ at(r) = r % PIPESIZE
      BY <1>5, Zenon
    <2> QED BY <2>1, <2>2, Zenon
  <1>7. ASSUME NEW i \in 1..c - 1 PROVE B[i] = A[i + 1]
    <2>1. i + 1 \in 1..c
      BY <1>1
    <2> QED BY <1>3, <1>4, <2>1, Zenon
  <1>8. /\ A \in Seq(Bytes) /\ Len(A) = c /\ B \in Seq(Bytes) /\ Len(B) = c - 1 /\ A[1] \in Bytes
    <2>1. A \in Seq(Bytes) /\ Len(A) = c /\ A \in [1..c -> Bytes]
      BY Bytewise, Zenon
    <2>2. B \in Seq(Bytes) /\ Len(B) = c - 1
      BY <1>1, <1>2, Bytewise, Zenon
    <2> QED BY <1>1, <2>1, <2>2, Zenon
  <1> HIDE DEF A, B
  <1>9. A # <<>> /\ Head(A) = A[1] /\ Tail(A) \in Seq(Bytes) /\ Len(Tail(A)) = c - 1
    BY <1>1, <1>8
  <1>10. \A i \in 1..c - 1 : Tail(A)[i] = A[i + 1]
    BY <1>1, <1>8
  <1>11. B = Tail(A)
    BY <1>1, <1>7, <1>8, <1>9, <1>10
  <1> QED BY <1>6, <1>8, <1>9, <1>11 DEF A, B, s

\* The counters tell an empty and a full ring apart.
LEMMA Counters ==
  ASSUME PipeAssumption, IInv
  PROVE  /\ Empty <=> Count = 0
         /\ Full <=> Count = PIPESIZE
         /\ nwrite = (nread + Count) % UINT
         /\ ~Full => (((nwrite + 1) % UINT) - nread) % UINT = Count + 1 /\ Count + 1 \in 0..PIPESIZE
         /\ ~Empty => (nwrite - ((nread + 1) % UINT)) % UINT = Count - 1 /\ Count - 1 \in 0..PIPESIZE
         /\ (nwrite + 1) % UINT \in 0..UINT - 1 /\ (nread + 1) % UINT \in 0..UINT - 1
  <1> DEFINE a == nread
             b == nwrite
             U == UINT
             S == PIPESIZE
  <1>1. a \in 0..U - 1 /\ b \in 0..U - 1 /\ S \in Nat \ {0} /\ U \in Nat \ {0} /\ S < U /\ Count \in 0..S
    BY Widths DEF IInv, Typed
  <1>2. Count = IF b >= a THEN b - a ELSE b - a + U
    <2> DEFINE x == b - a
    <2>1. x \in -U..U - 1 /\ (x < 0 <=> ~(b >= a))
      BY <1>1
    <2>2. Count = x % U
      BY Zenon DEF Count
    <2> HIDE DEF x
    <2>3. x % U = IF x < 0 THEN x + U ELSE x
      BY <1>1, <2>1, WrapDown, Zenon
    <2> QED BY <1>1, <2>1, <2>2, <2>3 DEF x
  <1>3. \A x \in 0..2 * U - 1 : x % U = IF x < U THEN x ELSE x - U
    BY <1>1, WrapUp, Zenon
  <1>4. \A x \in -U..U - 1 : x % U = IF x < 0 THEN x + U ELSE x
    BY <1>1, WrapDown, Zenon
  <1>5. /\ (a + S) % U = IF a + S < U THEN a + S ELSE a + S - U
        /\ (a + 1) % U = IF a + 1 < U THEN a + 1 ELSE 0
        /\ (b + 1) % U = IF b + 1 < U THEN b + 1 ELSE 0
        /\ (a + Count) % U = IF a + Count < U THEN a + Count ELSE a + Count - U
    <2> DEFINE y1 == a + S
               y2 == a + Count
               y3 == a + 1
               y4 == b + 1
    <2>1. /\ y1 \in 0..2 * U - 1 /\ y2 \in 0..2 * U - 1 /\ y3 \in 0..2 * U - 1 /\ y4 \in 0..2 * U - 1
      BY <1>1
    <2> HIDE DEF y1, y2, y3, y4
    <2>2. /\ y1 % U = IF y1 < U THEN y1 ELSE y1 - U
          /\ y2 % U = IF y2 < U THEN y2 ELSE y2 - U
          /\ y3 % U = IF y3 < U THEN y3 ELSE y3 - U
          /\ y4 % U = IF y4 < U THEN y4 ELSE y4 - U
      BY <1>3, <2>1, Zenon
    <2> QED BY <1>1, <2>2 DEF y1, y2, y3, y4
  <1> DEFINE c == (b + 1) % U
             d == (a + 1) % U
  <1>6. c \in 0..U - 1 /\ d \in 0..U - 1
    BY <1>1, <1>5
  <1>7. /\ (c - a) % U = IF c - a < 0 THEN c - a + U ELSE c - a
        /\ (b - d) % U = IF b - d < 0 THEN b - d + U ELSE b - d
    <2> DEFINE y1 == c - a
               y2 == b - d
    <2>1. y1 \in -U..U - 1 /\ y2 \in -U..U - 1
      BY <1>1, <1>6
    <2> HIDE DEF y1, y2
    <2>2. y1 % U = (IF y1 < 0 THEN y1 + U ELSE y1) /\ y2 % U = IF y2 < 0 THEN y2 + U ELSE y2
      BY <1>4, <2>1, Zenon
    <2> QED BY <2>2, Zenon DEF y1, y2
  <1>8. Empty <=> a = b
    BY DEF Empty
  <1>9. Full <=> b = (a + S) % U
    BY DEF Full
  <1>10. (Empty <=> Count = 0) /\ (Full <=> Count = S) /\ b = (a + Count) % U
    BY <1>1, <1>2, <1>5, <1>8, <1>9
  <1>11. ~Full => (c - a) % U = Count + 1 /\ Count + 1 \in 0..S
    BY <1>1, <1>2, <1>5, <1>7, <1>10
  <1>12. ~Empty => (b - d) % U = Count - 1 /\ Count - 1 \in 0..S
    BY <1>1, <1>2, <1>5, <1>7, <1>10
  <1> QED BY <1>6, <1>10, <1>11, <1>12
-----------------------------------------------------------------------------
(* The refinement *)

\* pipealloc makes an empty stream.
LEMMA InitRefines == PipeAssumption /\ Init => IInv /\ Stream!Init
  <1> SUFFICES ASSUME PipeAssumption, Init PROVE IInv /\ Stream!Init
    OBVIOUS
  <1>1. UINT \in Nat \ {0} /\ PIPESIZE \in Nat \ {0}
    BY Widths, Zenon
  <1>2. nread = 0 /\ nwrite = 0 /\ readopen = TRUE /\ writeopen = TRUE /\ got \in Bytes
    BY Zenon DEF Init
  <1>3. Count = 0
    BY <1>1, <1>2 DEF Count
  <1>4. Typed /\ Open
    BY <1>1 DEF Init, Typed, Open, Places, Users
  <1>5. IInv
    BY <1>1, <1>3, <1>4 DEF IInv
  <1>6. [i \in 1..Count |-> data[((nread + i - 1) % UINT) % PIPESIZE]] = <<>>
    BY <1>3
  <1> QED BY <1>2, <1>5, <1>6, Zenon DEF Stream!Init

\* A byte is written: it is the last of the stream.
LEMMA WriteRefines ==
  ASSUME PipeAssumption, IInv, NEW w \in Writers, NEW v \in Bytes, WriteByte(w, v)
  PROVE  IInv' /\ Stream!Put(v)
  <1>1. /\ pc[w] = "write" /\ ~Full
        /\ data' = [data EXCEPT ![nwrite % PIPESIZE] = v] /\ nwrite' = (nwrite + 1) % UINT
        /\ UNCHANGED <<nread, readopen, writeopen, pc, got>>
    BY Zenon DEF WriteByte
  <1>2. Typed /\ Open /\ Count \in 0..PIPESIZE /\ PIPESIZE \in Nat \ {0}
    BY Widths, Zenon DEF IInv
  <1>3. /\ Count # PIPESIZE /\ Count' = Count + 1 /\ Count' \in 0..PIPESIZE /\ nwrite' \in 0..UINT - 1
        /\ nwrite = (nread + Count) % UINT
    <2>1. Count' = (((nwrite + 1) % UINT) - nread) % UINT
      BY <1>1, Zenon DEF Count
    <2> QED BY <1>1, <2>1, Counters
  <1>4. Ring' = Append(Ring, v)
    <2>1. PICK c \in 0..PIPESIZE : c = Count
      BY <1>2
    <2>2. data \in [0..PIPESIZE - 1 -> Bytes] /\ nread \in 0..UINT - 1
      BY <1>2, Zenon DEF Typed
    <2>3. c # PIPESIZE /\ data' = [data EXCEPT ![((nread + c) % UINT) % PIPESIZE] = v]
      BY <1>1, <1>3, <2>1, Zenon
    <2>4. RingOf(data', nread, c + 1) = Append(RingOf(data, nread, c), v)
      BY <2>2, <2>3, Pushed
    <2>5. Ring' = RingOf(data', nread, Count + 1)
      BY <1>1, <1>3, Zenon DEF Ring
    <2> QED BY <2>1, <2>4, <2>5, Zenon DEF Ring
  <1>5. Len(Ring) < PIPESIZE
    <2>1. Len(Ring) = Count
      BY <1>2, Bytewise, Zenon DEF Ring, Typed
    <2> QED BY <1>2, <1>3, <2>1
  <1>6. data' \in [0..PIPESIZE - 1 -> Bytes]
    BY <1>1, <1>2 DEF Typed
  <1>7. IInv'
    <2>1. Typed'
      BY <1>1, <1>2, <1>3, <1>6, Zenon DEF Typed
    <2>2. Open'
      BY <1>1, <1>2, Zenon DEF Open
    <2> QED BY <1>3, <2>1, <2>2, Zenon DEF IInv
  <1>8. writeopen
    BY <1>1, <1>2 DEF Open
  <1> QED BY <1>1, <1>4, <1>5, <1>7, <1>8, Zenon DEF Stream!Put, Ring, RingOf

\* A byte is read: it was the first of the stream.
LEMMA ReadRefines ==
  ASSUME PipeAssumption, IInv, NEW r \in Readers, ReadByte(r)
  PROVE  IInv' /\ Stream!Get
  <1>1. /\ pc[r] = "copy" /\ ~Empty /\ got' = data[nread % PIPESIZE] /\ nread' = (nread + 1) % UINT
        /\ UNCHANGED <<data, nwrite, readopen, writeopen, pc>>
    BY Zenon DEF ReadByte, Source
  <1>2. Typed /\ Open /\ Count \in 0..PIPESIZE /\ PIPESIZE \in Nat \ {0}
    BY Widths, Zenon DEF IInv
  <1>3. Count # 0 /\ Count' = Count - 1 /\ Count' \in 0..PIPESIZE /\ nread' \in 0..UINT - 1
    <2>1. Count' = (nwrite - ((nread + 1) % UINT)) % UINT
      BY <1>1, Zenon DEF Count
    <2> QED BY <1>1, <2>1, Counters
  <1>4. Ring # <<>> /\ got' = Head(Ring) /\ got' \in Bytes /\ Ring' = Tail(Ring)
    <2>1. data \in [0..PIPESIZE - 1 -> Bytes] /\ nread \in 0..UINT - 1
      BY <1>2, Zenon DEF Typed
    <2>2. /\ Ring # <<>> /\ Head(Ring) = data[nread % PIPESIZE] /\ data[nread % PIPESIZE] \in Bytes
          /\ RingOf(data, (nread + 1) % UINT, Count - 1) = Tail(Ring)
      BY <1>2, <1>3, <2>1, Popped DEF Ring
    <2>3. Ring' = RingOf(data, (nread + 1) % UINT, Count - 1)
      BY <1>1, <1>3, Zenon DEF Ring
    <2> QED BY <1>1, <2>2, <2>3, Zenon
  <1>5. IInv'
    <2>1. Typed'
      BY <1>1, <1>2, <1>3, <1>4, Zenon DEF Typed
    <2>2. Open'
      BY <1>1, <1>2, Zenon DEF Open
    <2> QED BY <1>3, <2>1, <2>2, Zenon DEF IInv
  <1>6. readopen
    BY <1>1, <1>2 DEF Open
  <1> QED BY <1>1, <1>4, <1>5, <1>6, Zenon DEF Stream!Get, Ring, RingOf

\* A step that moves no byte and closes no end, and after which whoever is in a
\* call was in it before or has begun it on an open end.
Aside ==
    /\ UNCHANGED <<data, nread, nwrite, readopen, writeopen, got>>
    /\ pc' \in [Users -> Places]
    /\ \A w \in Writers : pc'[w] # "out" => pc[w] # "out" \/ writeopen
    /\ \A r \in Readers : pc'[r] # "out" => pc[r] # "out" \/ readopen

\* Such a step leaves the stream alone.
LEMMA AsideStays == ASSUME IInv, Aside PROVE IInv' /\ UNCHANGED Stream!vars
  <1>1. UNCHANGED <<data, nread, nwrite, readopen, writeopen, got>>
    BY Zenon DEF Aside
  <1>2. Count' = Count
    BY <1>1, Zenon DEF Count
  <1>3. Typed'
    BY <1>1, Zenon DEF IInv, Typed, Aside
  <1>4. Open'
    <2>1. writeopen' = writeopen /\ readopen' = readopen
      BY <1>1, Zenon
    <2>2. Open
      BY Zenon DEF IInv
    <2> QED BY <2>1, <2>2 DEF Open, Aside
  <1>5. UNCHANGED Stream!vars
    BY <1>1, <1>2, Zenon DEF Stream!vars
  <1> QED BY <1>2, <1>3, <1>4, <1>5, Zenon DEF IInv

\* wakeup moves a process from "asleep" to "acquire": it stays in its call.
LEMMA Woken ==
  ASSUME IInv, NEW S, NEW p \in Users, NEW a \in Places, pc[p] # "out", WakeAll(S, p, a),
         UNCHANGED <<data, nread, nwrite, readopen, writeopen, got>>
  PROVE  Aside
  <1>1. pc \in [Users -> Places] /\ "acquire" \in Places
    BY DEF IInv, Typed, Places
  <1>2. pc' \in [Users -> Places] /\ \A q \in Users : pc'[q] # "out" => pc[q] # "out"
    BY <1>1 DEF WakeAll
  <1> QED BY <1>2 DEF Aside, Users

\* A process goes on to another place of its call, or out of it.
LEMMA Moves ==
  ASSUME IInv, NEW p \in Users, NEW a \in Places, pc[p] # "out" \/ a = "out", Goto(p, a),
         UNCHANGED <<data, nread, nwrite, readopen, writeopen, got>>
  PROVE  Aside
  <1>1. pc \in [Users -> Places]
    BY Zenon DEF IInv, Typed
  <1>2. pc' \in [Users -> Places] /\ \A q \in Users : pc'[q] # "out" => pc[q] # "out"
    BY <1>1 DEF Goto
  <1> QED BY <1>2 DEF Aside, Users

\* The steps of a process.
LEMMA StepRefines ==
  ASSUME PipeAssumption, IInv, NEW p \in Users, Step(p)
  PROVE  IInv' /\ [Stream!Next]_(Stream!vars)
  <1>1. \A a : a \in Places <=> a \in {"out", "acquire", "write", "sleep", "asleep", "wait", "copy"}
    BY DEF Places
  <1>2. CASE acquire(p)
    <2>1. PICK a \in {"write", "wait"} : Goto(p, a)
      BY <1>2 DEF acquire
    <2>2. Aside
      BY <1>1, <1>2, <2>1, Moves DEF acquire, pipeVars
    <2> QED BY <2>2, AsideStays, Zenon
  <1>3. CASE sleep(p)
    <2>1. Aside
      BY <1>1, <1>3, Moves DEF sleep, pipeVars
    <2> QED BY <2>1, AsideStays, Zenon
  <1>4. CASE p \in Writers /\ Write(p)
    <2>1. ASSUME NEW v \in Bytes, WriteByte(p, v) PROVE IInv' /\ Stream!Next
      BY <1>4, <2>1, WriteRefines, Zenon DEF Stream!Next
    <2>2. ASSUME WriteFails(p) PROVE Aside
      BY <1>1, <2>2, Moves DEF WriteFails, pipeVars
    <2>3. ASSUME WriteFull(p) PROVE Aside
      BY <1>1, <2>3, Woken DEF WriteFull, pipeVars
    <2>4. ASSUME WriteDone(p) PROVE Aside
      BY <1>1, <2>4, Woken DEF WriteDone, pipeVars
    <2> QED BY <1>4, <2>1, <2>2, <2>3, <2>4, AsideStays, Zenon DEF Write
  <1>5. CASE p \in Readers /\ Read(p)
    <2>1. CASE ReadByte(p)
      BY <1>5, <2>1, ReadRefines, Zenon DEF Stream!Next
    <2>2. ASSUME ReadWaits(p) PROVE Aside
      BY <1>1, <2>2, Moves DEF ReadWaits, pipeVars
    <2>3. ASSUME ReadFails(p) PROVE Aside
      BY <1>1, <2>3, Moves DEF ReadFails, pipeVars
    <2>4. ASSUME ReadStarts(p) PROVE Aside
      BY <1>1, <2>4, Moves DEF ReadStarts, pipeVars
    <2>5. ASSUME ReadDone(p) PROVE Aside
      BY <1>1, <2>5, Woken DEF ReadDone, pipeVars
    <2> QED BY <1>5, <2>1, <2>2, <2>3, <2>4, <2>5, AsideStays, Zenon DEF Read
  <1> QED BY <1>2, <1>3, <1>4, <1>5, Zenon DEF Step

\* Every step of the pipe is a step of the byte stream or leaves it alone.
LEMMA NextRefines ==
  ASSUME PipeAssumption, IInv, [Next]_vars
  PROVE  IInv' /\ [Stream!Next]_(Stream!vars)
  <1>1. Typed /\ Open /\ pc \in [Users -> Places]
    BY Zenon DEF IInv, Typed
  <1>2. ASSUME NEW p \in Users, NEW n \in 0..MaxN, Call(p, n) PROVE Aside
    <2>1. /\ pc' = [pc EXCEPT ![p] = "acquire"] /\ UNCHANGED <<data, nread, nwrite, readopen, writeopen, got>>
          /\ (p \in Writers => writeopen) /\ (p \notin Writers => readopen)
      BY <1>2, Zenon DEF Call, Goto, pipeVars
    <2>2. \A q \in Users : q # p => pc'[q] = pc[q]
      BY <1>1, <2>1
    <2>3. pc' \in [Users -> Places]
      BY <1>1, <2>1 DEF Places
    <2>4. p \in Writers \/ p \in Readers
      BY DEF Users
    <2>5. \A w \in Writers : w \notin Readers
      BY DEF PipeAssumption
    <2>6. \A w \in Writers : pc'[w] # "out" => pc[w] # "out" \/ writeopen
      BY <2>1, <2>2 DEF Users
    <2>7. \A r \in Readers : pc'[r] # "out" => pc[r] # "out" \/ readopen
      BY <2>1, <2>2, <2>5 DEF Users
    <2> QED BY <2>1, <2>3, <2>6, <2>7, Zenon DEF Aside
  <1>3. ASSUME NEW p \in Users, kill(p) PROVE Aside
    <2>1. PICK a : a = IF pc[p] = "asleep" THEN "acquire" ELSE pc[p]
      OBVIOUS
    <2>2. a \in Places /\ (pc[p] # "out" \/ a = "out")
      BY <1>1, <2>1 DEF Places
    <2>3. Goto(p, a) /\ UNCHANGED <<data, nread, nwrite, readopen, writeopen, got>>
      BY <1>3, <2>1, Zenon DEF kill, pipeVars
    <2> QED BY <2>2, <2>3, Moves
  <1>4. ASSUME CloseWrite PROVE IInv' /\ Stream!Next
    <2>1. /\ writeopen /\ writeopen' = FALSE /\ UNCHANGED <<data, nread, nwrite, readopen, got>>
          /\ \A w \in Writers : pc[w] = "out"
      BY <1>4, Zenon DEF CloseWrite, Idle
    <2>2. pc' \in [Users -> Places] /\ \A q \in Users : pc'[q] # "out" => pc[q] # "out"
      BY <1>1, <1>4 DEF CloseWrite, Places
    <2>3. Count' = Count
      BY <2>1, Zenon DEF Count
    <2>4. Typed'
      BY <1>1, <2>1, <2>2, Zenon DEF Typed
    <2>5. Open'
      BY <1>1, <2>1, <2>2 DEF Open, Users
    <2>6. Stream!CloseWrite
      BY <2>1, <2>3, Zenon DEF Stream!CloseWrite
    <2>7. IInv'
      BY <2>3, <2>4, <2>5, Zenon DEF IInv
    <2> QED BY <2>6, <2>7, Zenon DEF Stream!Next
  <1>5. ASSUME CloseRead PROVE IInv' /\ Stream!Next
    <2>1. /\ readopen /\ readopen' = FALSE /\ UNCHANGED <<data, nread, nwrite, writeopen, got>>
          /\ \A r \in Readers : pc[r] = "out"
      BY <1>5, Zenon DEF CloseRead, Idle
    <2>2. pc' \in [Users -> Places] /\ \A q \in Users : pc'[q] # "out" => pc[q] # "out"
      BY <1>1, <1>5 DEF CloseRead, Places
    <2>3. Count' = Count
      BY <2>1, Zenon DEF Count
    <2>4. Typed'
      BY <1>1, <2>1, <2>2, Zenon DEF Typed
    <2>5. Open'
      BY <1>1, <2>1, <2>2 DEF Open, Users
    <2>6. Stream!CloseRead
      BY <2>1, <2>3, Zenon DEF Stream!CloseRead
    <2>7. IInv'
      BY <2>3, <2>4, <2>5, Zenon DEF IInv
    <2> QED BY <2>6, <2>7, Zenon DEF Stream!Next
  <1>6. ASSUME UNCHANGED vars PROVE Aside
    BY <1>1, <1>6, Zenon DEF vars, pipeVars, Aside
  <1>7. CASE Next
    BY <1>2, <1>3, <1>4, <1>5, <1>6, <1>7, StepRefines, AsideStays, Zenon DEF Next, Closed
  <1> QED BY <1>6, <1>7, AsideStays, Zenon

\* The ring buffer of pipe.c is the byte stream, for every size of the ring that
\* divides the width of the counters: across every wrap of the index and of the
\* counters, what is read is what was written, in order, with no byte lost,
\* repeated or overwritten.
THEOREM StreamImplemented == PipeAssumption => (Spec => ImplementsStream)
  <1> SUFFICES ASSUME PipeAssumption PROVE Spec => ImplementsStream
    OBVIOUS
  <1>1. Init => IInv /\ Stream!Init
    BY InitRefines, Zenon
  <1>2. IInv /\ [Next]_vars => IInv' /\ [Stream!Next]_(Stream!vars)
    BY NextRefines, Zenon
  <1> QED BY <1>1, <1>2, PTL DEF Spec, Stream!Spec, ImplementsStream
=============================================================================
