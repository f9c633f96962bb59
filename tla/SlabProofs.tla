----------------------------- MODULE SlabProofs -----------------------------
(***************************************************************************)
(* Proofs about Slab, for any number of classes, pages, frames and threads.*)
(***************************************************************************)
EXTENDS Slab, FiniteSetTheorems, TLAPS

LEMMA FirstObject == \A c \in Class : <<1, 0>> \in Objects(c)
  <1> SUFFICES ASSUME NEW c \in Class PROVE <<1, 0>> \in Objects(c)
    BY Zenon
  <1>1. BitmapPages(c) \in Nat /\ BitmapPages(c) >= 1
    BY LimitsAssumption DEF BitmapPages
  <1>2. 0 \in Slots(c)
    BY SizesAssumption DEF Slots
  <1> QED
    BY <1>1, <1>2 DEF Objects

\* Counting pages of a set of objects gives a number.
LEMMA PageCount ==
  ASSUME NEW c \in Class, NEW bits \in SUBSET Objects(c)
  PROVE  getpageNum(bits) \in Nat
  <1>1. BitmapPages(c) \in Nat
    BY LimitsAssumption DEF BitmapPages
  <1>2. {o[1] : o \in bits} \in SUBSET (1..BitmapPages(c))
    BY Zenon DEF Objects
  <1>3. IsFiniteSet(1..BitmapPages(c))
    BY <1>1, FS_Interval
  <1>4. IsFiniteSet({o[1] : o \in bits})
    BY <1>2, <1>3, FS_Subset, Zenon
  <1> QED
    BY <1>4, FS_CardinalityType, Zenon DEF getpageNum

LEMMA NextClass == \A c \in Class : c # Last => c + 1 \in Class
  BY SizesAssumption DEF Class, Last

LEMMA OneOrNone == \A n : n = 0 \/ n = 1 => -n \in Int
  OBVIOUS

LEMMA OneLess == \A n \in Int : n - 1 \in Int
  OBVIOUS

\* The two counters move together.
LEMMA TallyType ==
  ASSUME num_free_objects \in [Class -> Int], num_used_objects \in [Class -> Int],
         NEW c \in Class, NEW n \in Int, Tally(c, n)
  PROVE  /\ num_free_objects' \in [Class -> Int]
         /\ num_used_objects' \in [Class -> Int]
  BY DEF Tally

\* Every reachable state of the allocator has the shape TypeOK says: objects
\* lie inside their pages, addresses handed out lie on frames.
THEOREM TypeCorrect == Spec => []TypeOK
  <1> USE SizesAssumption, LimitsAssumption, FramesAssumption, FirstObject
  <1>1. Init => TypeOK
    <2> SUFFICES ASSUME Init PROVE TypeOK
      BY Zenon
    <2>1. 0 \in Class
      BY DEF Class
    <2>2. free \subseteq Frames /\ others \subseteq Frames
      BY Zenon DEF Init
    <2>3. DOMAIN size = Class /\ \A c \in Class : size[c] = SlabSize(c)
      BY Zenon DEF Init
    <2>4. /\ num_pages \in [Class -> Int]
          /\ num_used_objects \in [Class -> Int]
      BY DEF Init
    <2>5. \A c \in Class : Capacity(c) \in Int
      BY DEF Capacity
    <2>6. num_free_objects \in [Class -> Int]
      BY <2>5, Zenon DEF Init
    <2>7. DOMAIN bitmap = Class /\ \A c \in Class : bitmap[c] \subseteq Objects(c)
      BY Zenon DEF Init
    <2>8. page \in [Class -> [1..MAX_PAGES_PER_SLAB + SPILL -> Frames \cup {Null}]]
      BY DEF Init
    <2>9. hung \in BOOLEAN /\ stray \in BOOLEAN
      BY Zenon DEF Init
    <2>10. pc \in [Threads -> {"idle", "first", "lock", "return", "hung"}]
      BY Zenon DEF Init
    <2>11. idx \in [Threads -> Class]
      BY <2>1, Zenon DEF Init
    <2>12. DOMAIN off = Threads /\ \A t \in Threads : off[t] = <<1, 0>>
      BY Zenon DEF Init
    <2>13. DOMAIN live = Class /\ \A c \in Class : live[c] = {}
      BY Zenon DEF Init
    <2>14. \A t \in Threads : off[t] \in Objects(idx[t])
      BY <2>11, <2>12, Zenon
    <2> QED
      BY <2>2, <2>3, <2>4, <2>6, <2>7, <2>8, <2>9, <2>10, <2>11, <2>12, <2>13, <2>14, Zenon
      DEF TypeOK
  <1>2. TypeOK /\ [Next]_vars => TypeOK'
    <2> SUFFICES ASSUME TypeOK, [Next]_vars PROVE TypeOK'
      BY Zenon
    <2> USE DEF TypeOK
    <2>1. CASE UNCHANGED vars
      BY <2>1, Zenon DEF vars, slabVars, Objects, Slots
    <2>2. ASSUME NEW t \in Threads, NEW c \in Class, KmallocEnter(t, c)
          PROVE  TypeOK'
      <3>1. /\ pc' \in [Threads -> {"idle", "first", "lock", "return", "hung"}]
            /\ idx' \in [Threads -> Class]
        BY <2>2, Zenon DEF KmallocEnter
      <3>2. \A u \in Threads : /\ off'[u] \in Objects(idx'[u])
                               /\ (pc'[u] # "return" => off'[u] = <<1, 0>>)
        <4>1. off[t] = <<1, 0>> /\ off' = off
          BY <2>2, Zenon DEF KmallocEnter
        <4>2. off'[t] \in Objects(idx'[t])
          BY <2>2, <4>1, FirstObject, Zenon DEF KmallocEnter
        <4> QED
          BY <2>2, <4>1, <4>2, Zenon DEF KmallocEnter
      <3> QED
        BY <2>2, <3>1, <3>2, Zenon DEF KmallocEnter, slabVars
    <2>3. ASSUME NEW t \in Threads, KmallocFirst(t)
          PROVE  TypeOK'
      <3>1. 0 \in Class
        BY DEF Class
      <3>2. /\ pc' \in [Threads -> {"idle", "first", "lock", "return", "hung"}]
            /\ idx' \in [Threads -> Class]
        BY <2>3, <3>1, Zenon DEF KmallocFirst
      <3>3. \A u \in Threads : /\ off'[u] \in Objects(idx'[u])
                               /\ (pc'[u] # "return" => off'[u] = <<1, 0>>)
        BY <2>3, <3>1, Zenon DEF KmallocFirst
      <3> QED
        BY <2>3, <3>2, <3>3, Zenon DEF KmallocFirst, slabVars
    <2>4. ASSUME NEW t \in Threads, NEW o \in Objects(idx[t]), TakeObject(t, o)
          PROVE  /\ free' \subseteq Frames
                 /\ DOMAIN size' = Class
                 /\ \A c \in Class : size'[c] \in {SlabSize(c), Null} \cup Frames
                 /\ DOMAIN bitmap' = Class
                 /\ \A c \in Class : bitmap'[c] \subseteq Objects(c)
                 /\ page' \in [Class -> [1..MAX_PAGES_PER_SLAB + SPILL -> Frames \cup {Null}]]
      <3>1. DOMAIN bitmap' = Class /\ \A c \in Class : bitmap'[c] \subseteq Objects(c)
        BY <2>4, Zenon DEF TakeObject
      <3>2. CASE UNCHANGED <<free, page, size>>
        BY <3>1, <3>2, Zenon
      <3>3. ASSUME NEW k \in 1..BitmapPages(idx[t]) + 1, NEW f \in kallocResults,
                   free' = free \ {f}, StorePage(idx[t], k, f)
            PROVE  /\ free' \subseteq Frames
                   /\ DOMAIN size' = Class
                   /\ \A c \in Class : size'[c] \in {SlabSize(c), Null} \cup Frames
                   /\ page' \in [Class -> [1..MAX_PAGES_PER_SLAB + SPILL -> Frames \cup {Null}]]
        <4>1. f \in Frames \cup {Null}
          BY <3>3, Zenon DEF kallocResults
        <4>2. CASE k = MAX_PAGES_PER_SLAB /\ idx[t] # Last
          <5>1. size' = [size EXCEPT ![idx[t] + 1] = f] /\ page' = page
            BY <3>3, <4>2, Zenon DEF StorePage
          <5> QED
            BY <3>3, <4>1, <5>1, Zenon
        <4>3. CASE ~(k = MAX_PAGES_PER_SLAB /\ idx[t] # Last)
          <5>1. page' = [page EXCEPT ![idx[t]][k] = f] /\ size' = size
            BY <3>3, <4>3, Zenon DEF StorePage
          <5> QED
            BY <3>3, <4>1, <5>1, Zenon
        <4> QED
          BY <4>2, <4>3, Zenon
      <3> QED
        BY <2>4, <3>1, <3>2, <3>3, Zenon DEF TakeObject, NewPage
    <2>5. ASSUME NEW t \in Threads, NEW o \in Objects(idx[t]), KmallocTake(t, o)
          PROVE  TypeOK'
      <3>1. TakeObject(t, o)
        BY <2>5, Zenon DEF KmallocTake
      <3>2. /\ num_pages' \in [Class -> Int]
            /\ num_free_objects' \in [Class -> Int]
            /\ num_used_objects' \in [Class -> Int]
        <4>1. getpageNum(bitmap[idx[t]] \cup {o}) \in Int
          BY PageCount
        <4> QED
          BY <2>5, <4>1 DEF KmallocTake, Tally
      <3>3. /\ pc' \in [Threads -> {"idle", "first", "lock", "return", "hung"}]
            /\ DOMAIN off' = Threads
            /\ \A u \in Threads : /\ off'[u] \in Objects(idx'[u])
                                  /\ (pc'[u] # "return" => off'[u] = <<1, 0>>)
        BY <2>5, Zenon DEF KmallocTake
      <3>4. stray' \in BOOLEAN
        BY <2>5, Zenon DEF KmallocTake
      <3> QED
        BY <2>4, <2>5, <3>1, <3>2, <3>3, <3>4, Zenon DEF KmallocTake
    <2>6. ASSUME NEW t \in Threads, NEW o \in Objects(idx[t]), KmallocHang(t, o)
          PROVE  TypeOK'
      <3>1. TakeObject(t, o)
        BY <2>6, Zenon DEF KmallocHang
      <3>2. pc' \in [Threads -> {"idle", "first", "lock", "return", "hung"}]
        BY <2>6, Zenon DEF KmallocHang
      <3>3. \A u \in Threads : /\ off'[u] \in Objects(idx'[u])
                               /\ (pc'[u] # "return" => off'[u] = <<1, 0>>)
        BY <2>6, <3>1, Zenon DEF KmallocHang, TakeObject
      <3> QED
        BY <2>4, <2>6, <3>1, <3>2, <3>3, Zenon DEF KmallocHang
    <2>7. ASSUME NEW t \in Threads, KmallocReturn(t)
          PROVE  TypeOK'
      <3>1. 0 \in Class
        BY DEF Class
      <3>2. /\ pc' \in [Threads -> {"idle", "first", "lock", "return", "hung"}]
            /\ idx' \in [Threads -> Class]
            /\ DOMAIN off' = Threads
            /\ \A u \in Threads : /\ off'[u] \in Objects(idx'[u])
                                  /\ (pc'[u] # "return" => off'[u] = <<1, 0>>)
        BY <2>7, <3>1, Zenon DEF KmallocReturn
      <3>3. Address(idx[t], off[t]) \in (Frames \cup {Null} \cup Nat) \X Slots(idx[t])
        <4>1. /\ off[t][1] \in 1..MAX_PAGES_PER_SLAB + SPILL
              /\ off[t][2] \in Slots(idx[t])
          BY DEF Objects, BitmapPages
        <4>2. idx[t] # Last => idx[t] + 1 \in Class
          BY NextClass, Zenon
        <4>3. PageAt(idx[t], off[t][1]) \in Frames \cup {Null} \cup Nat
          BY <4>1, <4>2 DEF PageAt
        <4> QED
          BY <4>1, <4>3, Zenon DEF Address
      <3>4. /\ DOMAIN live' = Class
            /\ \A c \in Class : live'[c] \subseteq (Frames \cup {Null} \cup Nat) \X Slots(c)
        BY <2>7, <3>3, Zenon DEF KmallocReturn
      <3> QED
        BY <2>7, <3>2, <3>4, Zenon DEF KmallocReturn, slabVars
    <2>8. ASSUME NEW t \in Threads, NEW c \in Class, NEW a \in live[c], kmfree(t, c, a)
          PROVE  TypeOK'
      <3>1. /\ DOMAIN live' = Class
            /\ \A d \in Class : live'[d] \subseteq (Frames \cup {Null} \cup Nat) \X Slots(d)
        BY <2>8, Zenon DEF kmfree
      <3>2. /\ DOMAIN bitmap' = Class
            /\ \A d \in Class : bitmap'[d] \subseteq Objects(d)
        BY <2>8 DEF kmfree
      <3>3. free' \subseteq Frames /\ hung' \in BOOLEAN
        BY <2>8, Zenon DEF kmfree
      <3>4. /\ num_pages' \in [Class -> Int]
            /\ num_free_objects' \in [Class -> Int]
            /\ num_used_objects' \in [Class -> Int]
        <4>1. PICK k \in 1..MAX_PAGES_PER_SLAB :
                 LET o == <<k, SlotOf(c, a[2])>>
                     n == IF o \in bitmap[c] THEN 1 ELSE 0
                     last == k # 1 /\ EmptyIn(bitmap[c] \ {o}, k)
                 IN /\ Tally(c, -n)
                    /\ num_pages' = [num_pages EXCEPT ![c] = IF last THEN @ - 1 ELSE @]
          BY <2>8, Zenon DEF kmfree
        <4> DEFINE n == IF <<k, SlotOf(c, a[2])>> \in bitmap[c] THEN 1 ELSE 0
        <4>4. Tally(c, -n) /\ (n = 0 \/ n = 1)
          BY <4>1, Zenon
        <4> HIDE DEF n
        <4>2. -n \in Int
          BY <4>4, OneOrNone, Zenon
        <4>3. num_pages' \in [Class -> Int]
          <5>1. num_pages[c] \in Int /\ num_pages[c] - 1 \in Int
            BY OneLess, Zenon
          <5>2. \/ num_pages' = [num_pages EXCEPT ![c] = num_pages[c]]
                \/ num_pages' = [num_pages EXCEPT ![c] = num_pages[c] - 1]
            BY <4>1, Zenon
          <5> QED
            BY <5>1, <5>2, Zenon
        <4> QED
          BY <4>2, <4>3, <4>4, TallyType, Zenon
      <3> QED
        BY <2>8, <3>1, <3>2, <3>3, <3>4, Zenon DEF kmfree
    <2>9. ASSUME NEW t \in Threads, NEW c \in Class, NEW a \in live[c], KmfreeLost(t, c, a)
          PROVE  TypeOK'
      BY <2>9, Zenon DEF KmfreeLost, slabVars
    <2>10. ASSUME NEW f \in Frames, RestAlloc(f)
           PROVE  TypeOK'
      BY <2>10, Zenon DEF RestAlloc, slabVars
    <2>11. ASSUME NEW f \in Frames, RestFree(f)
           PROVE  TypeOK'
      BY <2>11, Zenon DEF RestFree, slabVars
    <2>12. ASSUME NEW t \in Threads, NEW c \in Class, KmallocOwnFull(t, c)
           PROVE  TypeOK'
      BY <2>1, <2>12, Zenon DEF KmallocOwnFull
    <2> QED
      BY <2>1, <2>2, <2>3, <2>5, <2>6, <2>7, <2>8, <2>9, <2>10, <2>11, <2>12, Zenon
      DEF Next, Step, Rest
  <1> QED
    BY <1>1, <1>2, PTL DEF Spec
-----------------------------------------------------------------------------
(* Objects do not overlap as long as callers ask for no more objects than a  *)
(* class has.                                                                *)

DemandFits == \A c \in Class : Demand[c] <= Capacity(c)

Counted == \A c \in Class :
    /\ num_used_objects[c] = Cardinality(bitmap[c])
    /\ num_used_objects[c] + Cardinality(Asking(c)) <= Demand[c]

Bounded == \A c \in Class : \A k \in Backed(c) : k \in 1..MAX_PAGES_PER_SLAB

\* FramesApart, element by element.
Apart ==
    /\ \A c, d \in Class : \A j \in Backed(c), k \in Backed(d) :
         PageAt(c, j) = PageAt(d, k) => c = d /\ j = k
    /\ \A c \in Class : \A k \in Backed(c) :
         PageAt(c, k) \in Frames /\ PageAt(c, k) \notin free /\ PageAt(c, k) \notin others
    /\ \A f \in free : f \notin others
    /\ \A f \in Frames : f \in free \/ f \in others
                         \/ \E c \in Class : \E k \in Backed(c) : PageAt(c, k) = f

\* BitsAreObjects, object by object.
Held == \A c \in Class :
    /\ \A o \in bitmap[c] : Address(c, o) \in live[c] \/ \E t \in Returning(c) : off[t] = o
    /\ \A a \in live[c] : \E o \in bitmap[c] : Address(c, o) = a
    /\ \A t \in Returning(c) : off[t] \in bitmap[c]

Unique == \A c \in Class : \A t \in Returning(c) :
    /\ \A o \in bitmap[c] : off[t] = o => Address(c, o) \notin live[c]
    /\ \A u \in Returning(c) : off[u] = off[t] => u = t

\* No page that is in use, or was, has the frame of a later page in use.
Found == \A c \in Class : \A k \in Backed(c) : \A j \in 1..k - 1 : PageAt(c, j) # PageAt(c, k)

Good == Counted /\ Bounded /\ Apart /\ Held /\ Unique /\ Found
IInv == Sound => Good

LEMMA InBacked == \A c \in Class : \A k : k \in Backed(c) <=> k = 1 \/ \E o \in bitmap[c] : o[1] = k
  BY Zenon DEF Backed

\* Two objects with the same address are one.
LEMMA AddressOnce ==
  ASSUME TypeOK, Apart, NEW c \in Class, NEW o \in bitmap[c], NEW q \in bitmap[c],
         Address(c, o) = Address(c, q)
  PROVE  o = q
  <1>1. o \in Objects(c) /\ q \in Objects(c)
    BY Zenon DEF TypeOK
  <1>2. o = <<o[1], o[2]>> /\ q = <<q[1], q[2]>>
    BY <1>1 DEF Objects
  <1>3. o[2] = q[2] /\ PageAt(c, o[1]) = PageAt(c, q[1])
    BY Zenon DEF Address
  <1>4. o[1] \in Backed(c) /\ q[1] \in Backed(c)
    BY InBacked, Zenon
  <1> QED
    BY <1>2, <1>3, <1>4, Zenon DEF Apart

LEMMA AskingFinite == \A c \in Class : IsFiniteSet(Asking(c)) /\ Cardinality(Asking(c)) \in Nat
  <1>1. \A c \in Class : IsFiniteSet(Asking(c))
    BY CallersAssumption, FS_Subset, Zenon DEF Asking
  <1> QED
    BY <1>1, FS_CardinalityType, Zenon

LEMMA ObjectsFinite ==
  ASSUME NEW c \in Class
  PROVE  /\ IsFiniteSet(Objects(c)) /\ Cardinality(Objects(c)) \in Nat
         /\ Cardinality(Objects(c)) >= Capacity(c)
  <1> DEFINE n == num_objects_per_page(c)
             m == BitmapPages(c)
             e == IF c = 0 THEN FIRST_PAGES ELSE MAX_PAGES_PER_SLAB
  <1>1. n \in Nat /\ m \in Nat /\ e \in Nat /\ e <= m
    BY SizesAssumption, LimitsAssumption DEF BitmapPages
  <1>2. IsFiniteSet(1..m) /\ Cardinality(1..m) = m
    BY <1>1, FS_Interval
  <1>3. IsFiniteSet(Slots(c)) /\ Cardinality(Slots(c)) = n
    <2>1. n - 1 \in Int /\ n >= 1
      BY <1>1, SizesAssumption
    <2> QED
      BY <1>1, <2>1, FS_Interval DEF Slots
  <1>4. IsFiniteSet(Objects(c)) /\ Cardinality(Objects(c)) = m * n
    <2>1. \A A, B : IsFiniteSet(A) /\ IsFiniteSet(B) =>
            IsFiniteSet(A \X B) /\ Cardinality(A \X B) = Cardinality(A) * Cardinality(B)
      BY FS_Product, Zenon
    <2>2. Objects(c) = (1..m) \X Slots(c)
      BY Zenon DEF Objects
    <2> HIDE DEF m, n
    <2>3. IsFiniteSet((1..m) \X Slots(c)) /\ Cardinality((1..m) \X Slots(c)) = m * n
      BY <1>2, <1>3, <2>1, Zenon
    <2> QED
      BY <2>2, <2>3, Zenon
  <1>5. Capacity(c) = n * e
    BY Zenon DEF Capacity
  <1> HIDE DEF n, m, e
  <1>6. m * n \in Nat /\ m * n >= n * e
    <2>1. PICK d \in Nat : m = e + d
      <3>1. m - e \in Nat /\ m = e + (m - e)
        BY <1>1
      <3> QED
        BY <3>1, Zenon
    <2>2. m * n = e * n + d * n /\ d * n \in Nat /\ e * n \in Nat /\ n * e = e * n
      BY <1>1, <2>1
    <2> QED
      BY <1>1, <2>2
  <1> QED
    BY <1>4, <1>5, <1>6, Zenon

LEMMA BitmapFinite ==
  ASSUME TypeOK, NEW c \in Class
  PROVE  IsFiniteSet(bitmap[c]) /\ Cardinality(bitmap[c]) \in Nat /\ (Cardinality(bitmap[c]) = 0 <=> bitmap[c] = {})
  <1>1. bitmap[c] \in SUBSET Objects(c)
    BY Zenon DEF TypeOK
  <1>2. IsFiniteSet(bitmap[c])
    BY <1>1, ObjectsFinite, FS_Subset, Zenon
  <1> QED
    BY <1>2, FS_CardinalityType, FS_EmptySet, Zenon

\* A call that has passed its tests finds a clear bit.
LEMMA NotFull ==
  ASSUME DemandFits, TypeOK, Counted, NEW t \in Threads, pc[t] = "lock"
  PROVE  bitmap[idx[t]] # Objects(idx[t])
  <1> DEFINE c == idx[t]
  <1>1. c \in Class /\ t \in Asking(c)
    BY Zenon DEF TypeOK, Asking
  <1>2. Cardinality(Asking(c)) \in Nat /\ Cardinality(Asking(c)) # 0
    <2>1. Asking(c) # {} /\ IsFiniteSet(Asking(c))
      BY <1>1, AskingFinite, Zenon
    <2> QED
      BY <2>1, FS_CardinalityType, FS_EmptySet, Zenon
  <1>3. Cardinality(bitmap[c]) + Cardinality(Asking(c)) <= Demand[c] /\ Demand[c] <= Capacity(c)
    BY <1>1, Zenon DEF Counted, DemandFits
  <1>4. Cardinality(bitmap[c]) \in Nat /\ Cardinality(Objects(c)) \in Nat /\ Cardinality(Objects(c)) >= Capacity(c)
    BY <1>1, BitmapFinite, ObjectsFinite, Zenon
  <1>5. Demand[c] \in Nat /\ Capacity(c) \in Int
    BY <1>1, CallersAssumption, SizesAssumption, LimitsAssumption DEF Capacity
  <1>6. Cardinality(bitmap[c]) # Cardinality(Objects(c))
    BY <1>2, <1>3, <1>4, <1>5
  <1> QED
    BY <1>6, Zenon

\* There is one first clear bit.
LEMMA FirstOnce ==
  ASSUME NEW c \in Class, NEW o, NEW q, FirstZero(c, o), FirstZero(c, q)
  PROVE  o = q
  <1>1. o \in Objects(c) /\ q \in Objects(c) /\ o \notin bitmap[c] /\ q \notin bitmap[c]
    BY Zenon DEF FirstZero
  <1>2. /\ o = <<o[1], o[2]>> /\ q = <<q[1], q[2]>>
        /\ o[1] \in Int /\ o[2] \in Int /\ q[1] \in Int /\ q[2] \in Int
    BY <1>1 DEF Objects, Slots
  <1>3. ~Before(o, q) /\ ~Before(q, o)
    BY <1>1, Zenon DEF FirstZero
  <1>4. o[1] = q[1] /\ o[2] = q[2]
    BY <1>2, <1>3 DEF Before
  <1> QED
    BY <1>2, <1>4, Zenon
-----------------------------------------------------------------------------
(* Steps of kmalloc and kmfree *)

\* A size field that holds a pointer, and memory that was hit, stay so.
LEMMA SoundBack == TypeOK /\ Sound' /\ [Next]_vars => Sound
  <1> SUFFICES ASSUME TypeOK, Sound', [Next]_vars PROVE Sound
    BY Zenon
  <1>1. CASE UNCHANGED <<size, stray>>
    BY <1>1, Zenon DEF Sound
  <1>2. ASSUME NEW t \in Threads, NEW o \in Objects(idx[t]), TakeObject(t, o)
        PROVE  \A c \in Class : size'[c] = SlabSize(c) => size[c] = SlabSize(c)
    <2>1. CASE UNCHANGED size
      BY <2>1, Zenon
    <2>2. ASSUME NEW c \in Class, NEW f \in kallocResults, size' = [size EXCEPT ![c + 1] = f]
          PROVE  \A d \in Class : size'[d] = SlabSize(d) => size[d] = SlabSize(d)
      <3>1. f \in Frames \cup {Null}
        BY <2>2, Zenon DEF kallocResults, TypeOK
      <3>2. \A d \in Class : f # SlabSize(d)
        BY <3>1, FramesAssumption, SizesAssumption
      <3> QED
        BY <2>2, <3>2, Zenon DEF TypeOK
    <2>3. idx[t] \in Class
      BY Zenon DEF TypeOK
    <2> QED
      BY <1>2, <2>1, <2>2, <2>3, Zenon DEF TakeObject, NewPage, StorePage
  <1>3. ASSUME NEW t \in Threads, NEW o \in Objects(idx[t]), KmallocTake(t, o)
        PROVE  Sound
    BY <1>2, <1>3, Zenon DEF KmallocTake, Sound
  <1>4. ASSUME NEW t \in Threads, NEW o \in Objects(idx[t]), KmallocHang(t, o)
        PROVE  Sound
    BY <1>2, <1>4, Zenon DEF KmallocHang, Sound
  <1>5. ASSUME NEW t \in Threads, NEW c \in Class, NEW a \in live[c], KmfreeLost(t, c, a)
        PROVE  Sound
    BY <1>5 DEF KmfreeLost, Sound, slabVars
  <1>6. CASE UNCHANGED vars
    BY <1>6, Zenon DEF vars, slabVars, Sound
  <1>7. CASE Rest
    BY <1>1, <1>7, Zenon DEF Rest, RestAlloc, RestFree, slabVars
  <1>8. ASSUME NEW t \in Threads,
               \/ \E c \in Class : \/ KmallocOwnFull(t, c) \/ KmallocEnter(t, c)
                                  \/ \E a \in live[c] : kmfree(t, c, a)
               \/ KmallocFirst(t) \/ KmallocReturn(t)
        PROVE  UNCHANGED <<size, stray>>
    BY <1>8, Zenon
    DEF KmallocOwnFull, KmallocEnter, KmallocFirst, KmallocReturn, kmfree, slabVars, vars
  <1> QED
    BY <1>1, <1>3, <1>4, <1>5, <1>6, <1>7, <1>8, Zenon DEF Next, Step

LEMMA SamePages ==
  ASSUME UNCHANGED <<size, page>>
  PROVE  \A c, k : PageAt(c, k)' = PageAt(c, k)
  BY Zenon DEF PageAt

\* What depends on the table and on the callers only.
LEMMA SameObjects ==
  ASSUME Good, UNCHANGED <<size, page, bitmap, live, off, free, others>>,
         \A c \in Class : Returning(c)' = Returning(c)
  PROVE  (Bounded /\ Apart /\ Held /\ Unique /\ Found)'
  <1>1. \A c, k : PageAt(c, k)' = PageAt(c, k)
    BY SamePages, Zenon
  <1>2. \A c : Backed(c)' = Backed(c)
    BY Zenon DEF Backed
  <1>3. \A c, o : Address(c, o)' = Address(c, o)
    BY <1>1, Zenon DEF Address
  <1>4. Bounded'
    BY <1>2, Zenon DEF Good, Bounded
  <1>5. Apart'
    BY <1>1, <1>2 DEF Good, Apart
  <1>6. Held'
    BY <1>3, Zenon DEF Good, Held
  <1>7. Unique'
    BY <1>3, Zenon DEF Good, Unique
  <1>8. Found'
    BY <1>1, <1>2, Zenon DEF Good, Found
  <1> QED
    BY <1>4, <1>5, <1>6, <1>7, <1>8, Zenon

\* kmalloc sets the first clear bit, and if no object lay on that page yet it
\* has put a free frame there, below which every page is in use.
TakeOld(c, o) ==
    /\ o[1] \in Backed(c)
    /\ free' = free
    /\ \A d \in Class : \A j \in 1..MAX_PAGES_PER_SLAB : PageAt(d, j)' = PageAt(d, j)

TakeNew(c, o) ==
    /\ o[1] \notin Backed(c)
    /\ PageAt(c, o[1])' \in free
    /\ free' = free \ {PageAt(c, o[1])'}
    /\ \A j \in 1..o[1] - 1 : j \in Backed(c)
    /\ \A d \in Class : \A j \in 1..MAX_PAGES_PER_SLAB :
         d # c \/ j # o[1] => PageAt(d, j)' = PageAt(d, j)

LEMMA EmptyFirst ==
  ASSUME NEW c \in Class, bitmap[c] = {}
  PROVE  FirstZero(c, <<1, 0>>)
  <1>1. \A q \in Objects(c) : ~Before(q, <<1, 0>>)
    <2> SUFFICES ASSUME NEW q \in Objects(c) PROVE ~Before(q, <<1, 0>>)
      BY Zenon
    <2>1. q[1] \in Int /\ q[1] >= 1 /\ q[2] \in Int /\ q[2] >= 0
      BY DEF Objects, Slots
    <2> QED
      BY <2>1 DEF Before
  <1> QED
    BY <1>1, FirstObject, Zenon DEF FirstZero

\* The first clear bit opens every page that it is the first object of.
LEMMA OpensPage ==
  ASSUME NEW c \in Class, NEW o \in Objects(c), FirstZero(c, o), o[1] \notin Backed(c)
  PROVE  checkNewpage(c, o[1]) /\ o = <<o[1], 0>>
  <1>1. o[1] # 1 /\ \A q \in bitmap[c] : q[1] # o[1]
    BY InBacked, Zenon
  <1>2. /\ o = <<o[1], o[2]>> /\ o[1] \in 1..BitmapPages(c) /\ o[1] \in Int
        /\ o[2] \in Int /\ o[2] >= 0
    BY DEF Objects, Slots
  <1>3. <<o[1], 0>> \in Objects(c) /\ <<o[1], 0>> \notin bitmap[c]
    <2>1. 0 \in Slots(c)
      BY SizesAssumption DEF Slots
    <2> QED
      BY <1>1, <1>2, <2>1, Zenon DEF Objects
  <1>4. ~Before(<<o[1], 0>>, o)
    BY <1>3, Zenon DEF FirstZero
  <1>5. o[2] = 0
    BY <1>2, <1>4 DEF Before
  <1> QED
    BY <1>1, <1>2, <1>5, Zenon DEF checkNewpage, checkEmpty, EmptyIn

LEMMA TakeShape ==
  ASSUME DemandFits, TypeOK, TypeOK', Sound, Sound', Good,
         NEW t \in Threads, NEW c \in Class, idx[t] = c, NEW o \in Objects(c), KmallocTake(t, o)
  PROVE  /\ o[1] \in 1..MAX_PAGES_PER_SLAB
         /\ o \notin bitmap[c]
         /\ TakeOld(c, o) \/ TakeNew(c, o)
  <1>1. pc[t] = "lock" /\ TakeObject(t, o) /\ idx'[t] = c
    BY Zenon DEF KmallocTake, TakeObject
  <1>2. bitmap[c] # Objects(c)
    BY <1>1, NotFull, Zenon DEF Good
  <1>3. FirstZero(c, o) /\ NewPage(c)
    BY <1>1, <1>2, Zenon DEF TakeObject, setBitmap
  <1>4. o \notin bitmap[c]
    BY <1>3, Zenon DEF FirstZero
  <1>5. o[1] \in 1..MAX_PAGES_PER_SLAB /\ PageAt(c, o[1])' # Null
    <2>1. ~(o[1] > MAX_PAGES_PER_SLAB) /\ PageAt(c, o[1])' # Null
      BY <1>1, Zenon DEF KmallocTake, Sound, PageAt
    <2>2. o[1] \in Int /\ o[1] >= 1
      BY DEF Objects
    <2> QED
      BY <2>1, <2>2, LimitsAssumption
  <1>6. CASE UNCHANGED <<free, page, size>>
             /\ (num_used_objects[c] = 0 \/ \A k \in 1..BitmapPages(c) : ~checkNewpage(c, k))
    <2>1. o[1] \in Backed(c)
      <3>1. CASE num_used_objects[c] = 0
        <4>1. bitmap[c] = {}
          BY <1>1, <3>1, BitmapFinite, Zenon DEF Good, Counted
        <4>2. o = <<1, 0>>
          BY <1>1, <1>3, <4>1, EmptyFirst, FirstOnce, Zenon
        <4> QED
          BY <1>1, <4>2, InBacked, Zenon
      <3>2. CASE \A k \in 1..BitmapPages(c) : ~checkNewpage(c, k)
        <4>1. o[1] \in 1..BitmapPages(c)
          BY Zenon DEF Objects
        <4> QED
          BY <1>1, <1>3, <3>2, <4>1, OpensPage, Zenon
      <3> QED
        BY <1>6, <3>1, <3>2, Zenon
    <2>2. TakeOld(c, o)
      BY <1>6, <2>1, SamePages, Zenon DEF TakeOld
    <2> QED
      BY <1>4, <1>5, <2>2, Zenon
  <1>7. ASSUME NEW k \in 1..BitmapPages(c) + 1, checkNewpage(c, k) \/ checkPastEnd(c, k),
               NEW f \in kallocResults, free' = free \ {f}, StorePage(c, k, f)
        PROVE  TakeNew(c, o)
    <2>1. checkNewpage(c, k)
      BY <1>2, <1>7, Zenon DEF checkPastEnd
    <2>2. o = <<k, 0>>
      BY <1>1, <1>3, <2>1, FirstOnce, Zenon DEF checkNewpage
    <2>3. o[1] = k
      BY <2>2, Zenon
    <2>4. k \notin Backed(c)
      BY <1>1, <2>1, InBacked, Zenon DEF checkNewpage, checkEmpty, EmptyIn
    <2>5. f \in Frames \cup {Null}
      BY Zenon DEF kallocResults, TypeOK
    <2>6. ~(k = MAX_PAGES_PER_SLAB /\ c # Last)
      <3> SUFFICES ASSUME k = MAX_PAGES_PER_SLAB /\ c # Last PROVE FALSE
        BY Zenon
      <3>1. c + 1 \in Class
        BY <1>1, NextClass, Zenon
      <3>2. size'[c + 1] = f
        BY <1>7, <3>1, Zenon DEF StorePage, TypeOK
      <3>3. size'[c + 1] = SlabSize(c + 1)
        BY <3>1, Zenon DEF Sound
      <3> QED
        BY <2>5, <3>1, <3>2, <3>3, FramesAssumption, SizesAssumption
    <2>7. page' = [page EXCEPT ![c][k] = f] /\ size' = size
      BY <1>7, <2>6, Zenon DEF StorePage
    <2>8. k \in 1..MAX_PAGES_PER_SLAB + SPILL
      BY <1>5, <2>3, LimitsAssumption
    <2>9. /\ page'[c][k] = f
          /\ \A d \in Class : \A j \in 1..MAX_PAGES_PER_SLAB :
               d # c \/ j # k => page'[d][j] = page[d][j]
      <3>1. page \in [Class -> [1..MAX_PAGES_PER_SLAB + SPILL -> Frames \cup {Null}]]
        BY Zenon DEF TypeOK
      <3> QED
        BY <2>7, <2>8, <3>1, LimitsAssumption
    <2>10. /\ PageAt(c, k)' = f
           /\ \A d \in Class : \A j \in 1..MAX_PAGES_PER_SLAB :
                d # c \/ j # k => PageAt(d, j)' = PageAt(d, j)
      BY <2>6, <2>7, <2>9, Zenon DEF PageAt
    <2>11. f \in free
      BY <1>5, <1>7, <2>3, <2>10, Zenon DEF kallocResults
    <2>12. \A j \in 1..k - 1 : j \in Backed(c)
      <3> SUFFICES ASSUME NEW j \in 1..k - 1 PROVE j \in Backed(c)
        BY Zenon
      <3>1. k \in 1..BitmapPages(c) /\ 0 \in Slots(c)
        BY <2>2, Zenon DEF Objects
      <3>2. BitmapPages(c) \in Int
        BY LimitsAssumption DEF BitmapPages
      <3>3. <<j, 0>> \in Objects(c)
        BY <3>1, <3>2 DEF Objects
      <3>4. Before(<<j, 0>>, o)
        BY <2>2, <3>1, <3>2 DEF Before
      <3>5. <<j, 0>> \in bitmap[c]
        BY <1>3, <3>3, <3>4, Zenon DEF FirstZero
      <3> QED
        BY <1>1, <3>5, InBacked, Zenon
    <2> QED
      BY <1>7, <2>3, <2>4, <2>10, <2>11, <2>12, Zenon DEF TakeNew
  <1>8. TakeOld(c, o) \/ TakeNew(c, o)
    BY <1>3, <1>6, <1>7, Zenon DEF NewPage
  <1> QED
    BY <1>4, <1>5, <1>8, Zenon

\* The bit, the counter and the caller's claim move together.
LEMMA TakeCounted ==
  ASSUME TypeOK, Counted, NEW t \in Threads, NEW c \in Class, idx[t] = c,
         NEW o \in Objects(c), o \notin bitmap[c], KmallocTake(t, o)
  PROVE  Counted'
  <1>1. /\ pc[t] = "lock" /\ pc' = [pc EXCEPT ![t] = "return"] /\ idx' = idx
        /\ num_used_objects' = [num_used_objects EXCEPT ![c] = @ + 1]
        /\ bitmap' = [bitmap EXCEPT ![c] = @ \cup {o}]
    BY Zenon DEF KmallocTake, TakeObject, Tally
  <1> SUFFICES ASSUME NEW d \in Class
               PROVE  /\ num_used_objects'[d] = Cardinality(bitmap'[d])
                      /\ num_used_objects'[d] + Cardinality(Asking(d)') <= Demand[d]
    BY Zenon DEF Counted
  <1>2. CASE d # c
    <2>1. Asking(d)' = Asking(d)
      BY <1>1, <1>2, Zenon DEF Asking, TypeOK
    <2>2. num_used_objects'[d] = num_used_objects[d] /\ bitmap'[d] = bitmap[d]
      BY <1>1, <1>2, Zenon DEF TypeOK
    <2> QED
      BY <2>1, <2>2, Zenon DEF Counted
  <1>3. CASE d = c
    <2>1. Asking(c)' = Asking(c) \ {t} /\ t \in Asking(c)
      BY <1>1, Zenon DEF Asking, TypeOK
    <2>2. Cardinality(Asking(c) \ {t}) = Cardinality(Asking(c)) - 1
      BY <2>1, AskingFinite, FS_RemoveElement, Zenon
    <2>3. num_used_objects'[c] = num_used_objects[c] + 1 /\ bitmap'[c] = bitmap[c] \cup {o}
      BY <1>1, Zenon DEF TypeOK
    <2>4. Cardinality(bitmap[c] \cup {o}) = Cardinality(bitmap[c]) + 1
      BY BitmapFinite, FS_AddElement, Zenon
    <2>5. num_used_objects[c] \in Int /\ Cardinality(Asking(c)) \in Nat /\ Demand[c] \in Nat
      BY AskingFinite, CallersAssumption, Zenon DEF TypeOK
    <2> QED
      BY <1>3, <2>1, <2>2, <2>3, <2>4, <2>5 DEF Counted
  <1> QED
    BY <1>2, <1>3, Zenon

LEMMA TakeGood ==
  ASSUME DemandFits, TypeOK, TypeOK', Sound, Sound', Good,
         NEW t \in Threads, NEW c \in Class, idx[t] = c, NEW o \in Objects(c), KmallocTake(t, o)
  PROVE  Good'
  <1>1. /\ o[1] \in 1..MAX_PAGES_PER_SLAB /\ o \notin bitmap[c]
        /\ TakeOld(c, o) \/ TakeNew(c, o)
    BY TakeShape, Zenon
  <1>2. /\ pc[t] = "lock" /\ pc' = [pc EXCEPT ![t] = "return"] /\ idx' = idx
        /\ off' = [off EXCEPT ![t] = o] /\ live' = live /\ others' = others
        /\ bitmap' = [bitmap EXCEPT ![c] = @ \cup {o}]
    BY Zenon DEF KmallocTake, TakeObject
  <1>3. Counted'
    BY <1>1, TakeCounted, Zenon DEF Good
  <1>4. bitmap'[c] = bitmap[c] \cup {o} /\ \A d \in Class : d # c => bitmap'[d] = bitmap[d]
    BY <1>2, Zenon DEF TypeOK
  <1>5. \A d \in Class : \A k : k \in Backed(d)' <=> k \in Backed(d) \/ (d = c /\ k = o[1])
    BY <1>4, Zenon DEF Backed
  <1>6. \A d \in Class : \A k \in Backed(d) : k \in 1..MAX_PAGES_PER_SLAB
    BY Zenon DEF Good, Bounded
  <1>7. \A d \in Class : \A k \in Backed(d) : PageAt(d, k)' = PageAt(d, k)
    BY <1>1, <1>6, Zenon DEF TakeOld, TakeNew
  <1>8. \A d \in Class : \A q \in bitmap[d] : q[1] \in Backed(d)
    BY InBacked, Zenon
  <1>9. \A d \in Class : \A q \in bitmap[d] : Address(d, q)' = Address(d, q)
    BY <1>7, <1>8, Zenon DEF Address
  <1>10. \A d \in Class : \A u : u \in Returning(d)' <=> u \in Returning(d) \/ (d = c /\ u = t)
    BY <1>2 DEF Returning, TypeOK
  <1>11. t \notin Returning(c) /\ off'[t] = o /\ \A u \in Threads : u # t => off'[u] = off[u]
    BY <1>2, Zenon DEF Returning, TypeOK
  <1>12. Bounded'
    BY <1>1, <1>5, <1>6, Zenon DEF Bounded
  <1>13. \A d \in Class : \A u \in Returning(d) : u \in Threads /\ u # t /\ off[u] \in bitmap[d]
    BY <1>2, Zenon DEF Returning, Good, Held
  <1>14. Held'
    <2> SUFFICES ASSUME NEW d \in Class
                 PROVE  /\ \A q \in bitmap'[d] : Address(d, q)' \in live'[d]
                                                 \/ \E u \in Returning(d)' : off'[u] = q
                        /\ \A a \in live'[d] : \E q \in bitmap'[d] : Address(d, q)' = a
                        /\ \A u \in Returning(d)' : off'[u] \in bitmap'[d]
      BY Zenon DEF Held
    <2>1. \A q \in bitmap[d] : Address(d, q)' \in live'[d] \/ \E u \in Returning(d)' : off'[u] = q
      BY <1>2, <1>9, <1>10, <1>11, <1>13 DEF Good, Held
    <2>2. d = c => t \in Returning(d)' /\ off'[t] = o
      BY <1>10, <1>11, Zenon
    <2>3. \A a \in live'[d] : \E q \in bitmap'[d] : Address(d, q)' = a
      BY <1>2, <1>4, <1>9 DEF Good, Held
    <2>4. \A u \in Returning(d)' : off'[u] \in bitmap'[d]
      BY <1>4, <1>10, <1>11, <1>13, Zenon
    <2> QED
      BY <1>4, <2>1, <2>2, <2>3, <2>4, Zenon
  <1>15. \A q \in bitmap[c] : Address(c, o)' # Address(c, q)
    <2> SUFFICES ASSUME NEW q \in bitmap[c], Address(c, o)' = Address(c, q) PROVE FALSE
      BY Zenon
    <2>1. PageAt(c, o[1])' = PageAt(c, q[1]) /\ o[2] = q[2]
      BY Zenon DEF Address
    <2>2. q[1] \in Backed(c) /\ PageAt(c, q[1]) \notin free
      BY <1>8, Zenon DEF Good, Apart
    <2>3. CASE TakeOld(c, o)
      <3>1. o[1] = q[1]
        BY <1>7, <2>1, <2>2, <2>3 DEF TakeOld, Good, Apart
      <3>2. q \in Objects(c)
        BY Zenon DEF TypeOK
      <3>3. o = q
        BY <2>1, <3>1, <3>2 DEF Objects
      <3> QED
        BY <1>1, <3>3, Zenon
    <2> QED
      BY <1>1, <2>1, <2>2, <2>3, Zenon DEF TakeNew
  <1>16. Unique'
    <2> SUFFICES ASSUME NEW d \in Class, NEW u \in Returning(d)'
                 PROVE  /\ \A q \in bitmap'[d] : off'[u] = q => Address(d, q)' \notin live'[d]
                        /\ \A w \in Returning(d)' : off'[w] = off'[u] => w = u
      BY Zenon DEF Unique
    <2>1. CASE u \in Returning(d)
      <3>1. off'[u] = off[u] /\ off[u] \in bitmap[d]
        BY <1>11, <1>13, <2>1, Zenon
      <3>2. ASSUME NEW q \in bitmap'[d], off'[u] = q
            PROVE  Address(d, q)' \notin live'[d]
        <4>1. q \in bitmap[d] /\ off[u] = q
          BY <3>1, <3>2, Zenon
        <4>2. Address(d, q) \notin live[d]
          BY <2>1, <4>1, Zenon DEF Good, Unique
        <4>3. Address(d, q)' = Address(d, q) /\ live' = live
          BY <1>2, <1>9, <4>1, Zenon
        <4> QED
          BY <4>2, <4>3, Zenon
      <3>3. \A w \in Returning(d) : off'[w] = off'[u] => w = u
        BY <1>11, <1>13, <2>1, <3>1, Zenon DEF Good, Unique
      <3>4. d = c => off'[t] # off'[u]
        BY <1>1, <1>11, <3>1, Zenon
      <3> QED
        BY <1>10, <3>2, <3>3, <3>4, Zenon
    <2>2. CASE d = c /\ u = t
      <3>1. Address(c, o)' \notin live'[c]
        BY <1>2, <1>15, Zenon DEF Good, Held
      <3>2. \A w \in Returning(c) : off'[w] # off'[t]
        BY <1>1, <1>11, <1>13, Zenon
      <3> QED
        BY <1>10, <1>11, <2>2, <3>1, <3>2, Zenon
    <2> QED
      BY <1>10, <2>1, <2>2, Zenon
  <1>17. Apart' /\ Found'
    <2>1. CASE TakeOld(c, o)
      <3>1. \A d \in Class : \A k : k \in Backed(d)' <=> k \in Backed(d)
        BY <1>5, <2>1, Zenon DEF TakeOld
      <3>2. Apart'
        BY <1>2, <1>7, <2>1, <3>1 DEF TakeOld, Good, Apart
      <3>3. \A d \in Class : \A k \in Backed(d) : \A j \in 1..k - 1 : j \in 1..MAX_PAGES_PER_SLAB
        BY <1>6, LimitsAssumption
      <3>4. Found'
        BY <1>7, <2>1, <3>1, <3>3 DEF TakeOld, Good, Found
      <3> QED
        BY <3>2, <3>4, Zenon
    <2>2. CASE TakeNew(c, o)
      <3>1. PICK f \in free : PageAt(c, o[1])' = f /\ free' = free \ {f}
        BY <2>2, Zenon DEF TakeNew
      <3>2. f \in Frames /\ f \notin others
        BY Zenon DEF TypeOK, Good, Apart
      <3>3. \A d \in Class : \A k \in Backed(d) : PageAt(d, k) # f
        BY DEF Good, Apart
      <3>4. Apart'
        <4>1. \A d, e \in Class : \A j \in Backed(d)', k \in Backed(e)' :
                PageAt(d, j)' = PageAt(e, k)' => d = e /\ j = k
          BY <1>5, <1>7, <3>1, <3>3 DEF Good, Apart
        <4>2. \A d \in Class : \A k \in Backed(d)' :
                PageAt(d, k)' \in Frames /\ PageAt(d, k)' \notin free' /\ PageAt(d, k)' \notin others'
          BY <1>2, <1>5, <1>7, <3>1, <3>2 DEF Good, Apart
        <4>3. \A g \in free' : g \notin others'
          BY <1>2, <3>1, Zenon DEF Good, Apart
        <4>4. \A g \in Frames : g \in free' \/ g \in others'
                \/ \E d \in Class : \E k \in Backed(d)' : PageAt(d, k)' = g
          BY <1>2, <1>5, <1>7, <3>1 DEF Good, Apart
        <4> QED
          BY <4>1, <4>2, <4>3, <4>4, Zenon DEF Apart
      <3>5. Found'
        <4> SUFFICES ASSUME NEW d \in Class, NEW k \in Backed(d)', NEW j \in 1..k - 1
                     PROVE  PageAt(d, j)' # PageAt(d, k)'
          BY Zenon DEF Found
        <4>1. CASE d = c /\ k = o[1]
          <5>1. j \in Backed(c)
            BY <2>2, <4>1, Zenon DEF TakeNew
          <5> QED
            BY <1>7, <3>1, <3>3, <4>1, <5>1, Zenon
        <4>2. CASE k \in Backed(d)
          <5>1. PageAt(d, k)' = PageAt(d, k) /\ PageAt(d, j) # PageAt(d, k) /\ PageAt(d, k) # f
            BY <1>7, <3>3, <4>2, Zenon DEF Good, Found
          <5>2. j \in 1..MAX_PAGES_PER_SLAB
            BY <1>6, <4>2, LimitsAssumption
          <5>3. (d = c /\ j = o[1]) \/ PageAt(d, j)' = PageAt(d, j)
            BY <2>2, <5>2, Zenon DEF TakeNew
          <5> QED
            BY <3>1, <5>1, <5>3, Zenon
        <4> QED
          BY <1>5, <4>1, <4>2, Zenon
      <3> QED
        BY <3>4, <3>5, Zenon
    <2> QED
      BY <1>1, <2>1, <2>2, Zenon
  <1> QED
    BY <1>3, <1>12, <1>14, <1>16, <1>17, Zenon DEF Good

\* kmfree clears the bit of the object at the address, and frees the frame
\* when that was the last object of a page other than the first.
LEMMA FreeShape ==
  ASSUME TypeOK, Sound, Good, NEW t \in Threads, NEW c \in Class, NEW a \in live[c],
         kmfree(t, c, a)
  PROVE  \E q \in bitmap[c] :
           /\ Address(c, q) = a
           /\ bitmap' = [bitmap EXCEPT ![c] = @ \ {q}]
           /\ num_used_objects' = [num_used_objects EXCEPT ![c] = @ - 1]
           /\ free' = IF q[1] \in Backed(c)' THEN free ELSE free \cup {PageAt(c, q[1])}
           /\ num_free_objects' = [num_free_objects EXCEPT ![c] = @ + 1]
           /\ num_pages' = [num_pages EXCEPT ![c] = IF q[1] \in Backed(c)' THEN @ ELSE @ - 1]
  <1>1. PICK q \in bitmap[c] : Address(c, q) = a
    BY Zenon DEF Good, Held
  <1>2. /\ q = <<q[1], q[2]>> /\ a = <<PageAt(c, q[1]), q[2]>>
        /\ a[1] = PageAt(c, q[1]) /\ a[2] = q[2]
    <2>1. q \in Objects(c)
      BY Zenon DEF TypeOK
    <2> QED
      BY <1>1, <2>1 DEF Objects, Address
  <1>3. q[1] \in Backed(c) /\ q[1] \in 1..MAX_PAGES_PER_SLAB /\ PageAt(c, q[1]) \in Frames
    BY InBacked, Zenon DEF Good, Bounded, Apart
  <1>4. PICK k \in 1..MAX_PAGES_PER_SLAB :
          LET o == <<k, SlotOf(c, a[2])>>
              bits == bitmap[c] \ {o}
              n == IF o \in bitmap[c] THEN 1 ELSE 0
              last == k # 1 /\ EmptyIn(bits, k)
          IN /\ FindPage(c, a[1], k)
             /\ bitmap' = [bitmap EXCEPT ![c] = bits]
             /\ Tally(c, -n)
             /\ free' = IF last THEN free \cup ({a[1]} \cap Frames) ELSE free
             /\ num_pages' = [num_pages EXCEPT ![c] = IF last THEN @ - 1 ELSE @]
    BY Zenon DEF kmfree
  <1>5. k = q[1]
    <2>1. ~(k < q[1])
      <3> SUFFICES ASSUME k < q[1] PROVE FALSE
        BY Zenon
      <3>1. k \in 1..q[1] - 1
        BY <1>3
      <3>2. PageAt(c, k) = PageAt(c, q[1])
        BY <1>2, <1>4, Zenon DEF FindPage
      <3> QED
        BY <1>3, <3>1, <3>2, Zenon DEF Good, Found
    <2>2. ~(q[1] < k)
      <3> SUFFICES ASSUME q[1] < k PROVE FALSE
        BY Zenon
      <3>1. q[1] \in 1..k - 1
        BY <1>3
      <3> QED
        BY <1>2, <1>4, <3>1, Zenon DEF FindPage
    <2> QED
      BY <1>3, <2>1, <2>2
  <1>6. <<k, SlotOf(c, a[2])>> = q
    BY <1>2, <1>5, Zenon DEF SlotOf, Sound
  <1>7. /\ bitmap' = [bitmap EXCEPT ![c] = @ \ {q}]
        /\ Tally(c, -1)
        /\ free' = IF q[1] # 1 /\ EmptyIn(bitmap[c] \ {q}, q[1])
                     THEN free \cup ({a[1]} \cap Frames) ELSE free
        /\ num_pages' = [num_pages EXCEPT ![c] = IF q[1] # 1 /\ EmptyIn(bitmap[c] \ {q}, q[1])
                                                THEN @ - 1 ELSE @]
    BY <1>4, <1>5, <1>6, Zenon
  <1>8. num_used_objects' = [num_used_objects EXCEPT ![c] = @ - 1]
    BY <1>7, Zenon DEF Tally, TypeOK
  <1>9. bitmap'[c] = bitmap[c] \ {q}
    BY <1>7, Zenon DEF TypeOK
  <1>10. q[1] \in Backed(c)' <=> ~(q[1] # 1 /\ EmptyIn(bitmap[c] \ {q}, q[1]))
    BY <1>9, Zenon DEF Backed, EmptyIn
  <1>11. free' = IF q[1] \in Backed(c)' THEN free ELSE free \cup {PageAt(c, q[1])}
    BY <1>2, <1>3, <1>7, <1>10, Zenon
  <1>12. num_free_objects' = [num_free_objects EXCEPT ![c] = @ + 1]
    <2>1. num_free_objects \in [Class -> Int]
      BY Zenon DEF TypeOK
    <2>2. num_free_objects[c] - (-1) = num_free_objects[c] + 1
      BY <2>1
    <2>3. num_free_objects' = [num_free_objects EXCEPT ![c] = num_free_objects[c] - (-1)]
      BY <1>7, Zenon DEF Tally
    <2> QED
      BY <2>2, <2>3, Zenon
  <1>13. num_pages' = [num_pages EXCEPT ![c] = IF q[1] \in Backed(c)' THEN @ ELSE @ - 1]
    BY <1>7, <1>10, Zenon
  <1> QED
    BY <1>1, <1>7, <1>8, <1>11, <1>12, <1>13, Zenon

LEMMA FreeGood ==
  ASSUME TypeOK, Sound, Good, NEW t \in Threads, NEW c \in Class, NEW a \in live[c],
         kmfree(t, c, a)
  PROVE  Good'
  <1>1. PICK q \in bitmap[c] :
           /\ Address(c, q) = a
           /\ bitmap' = [bitmap EXCEPT ![c] = @ \ {q}]
           /\ num_used_objects' = [num_used_objects EXCEPT ![c] = @ - 1]
           /\ free' = IF q[1] \in Backed(c)' THEN free ELSE free \cup {PageAt(c, q[1])}
    BY FreeShape, Zenon
  <1>2. /\ live' = [live EXCEPT ![c] = @ \ {a}]
        /\ UNCHANGED <<others, size, page, pc, idx, off>>
    BY Zenon DEF kmfree
  <1>3. /\ bitmap'[c] = bitmap[c] \ {q} /\ live'[c] = live[c] \ {a}
        /\ num_used_objects'[c] = num_used_objects[c] - 1
        /\ \A d \in Class : d # c => /\ bitmap'[d] = bitmap[d] /\ live'[d] = live[d]
                                     /\ num_used_objects'[d] = num_used_objects[d]
    BY <1>1, <1>2, Zenon DEF TypeOK
  <1>4. \A d, k : PageAt(d, k)' = PageAt(d, k)
    BY <1>2, SamePages, Zenon
  <1>5. \A d, o : Address(d, o)' = Address(d, o)
    BY <1>4, Zenon DEF Address
  <1>6. \A d : Returning(d)' = Returning(d) /\ Asking(d)' = Asking(d)
    BY <1>2, Zenon DEF Returning, Asking
  <1>7. /\ \A d \in Class : \A k \in Backed(d)' : k \in Backed(d)
        /\ \A d \in Class : \A k \in Backed(d) : d # c \/ k # q[1] => k \in Backed(d)'
    BY <1>3 DEF Backed
  <1>8. q[1] \in Backed(c)
    BY InBacked, Zenon
  <1>9. Counted'
    <2> SUFFICES ASSUME NEW d \in Class
                 PROVE  /\ num_used_objects'[d] = Cardinality(bitmap'[d])
                        /\ num_used_objects'[d] + Cardinality(Asking(d)') <= Demand[d]
      BY Zenon DEF Counted
    <2>1. CASE d # c
      BY <1>3, <1>6, <2>1, Zenon DEF Good, Counted
    <2>2. CASE d = c
      <3>1. Cardinality(bitmap[c] \ {q}) = Cardinality(bitmap[c]) - 1
        BY BitmapFinite, FS_RemoveElement, Zenon
      <3>2. num_used_objects[c] \in Int /\ Cardinality(Asking(c)) \in Nat /\ Demand[c] \in Nat
        BY AskingFinite, CallersAssumption, Zenon DEF TypeOK
      <3>3. /\ num_used_objects[c] = Cardinality(bitmap[c])
            /\ num_used_objects[c] + Cardinality(Asking(c)) <= Demand[c]
        BY Zenon DEF Good, Counted
      <3>4. num_used_objects'[c] = Cardinality(bitmap'[c])
        BY <1>3, <3>1, <3>3, Zenon
      <3>5. Asking(c)' = Asking(c)
        BY <1>6, Zenon
      <3>6. num_used_objects'[c] + Cardinality(Asking(c)) <= Demand[c]
        BY <1>3, <3>2, <3>3
      <3> QED
        BY <2>2, <3>4, <3>5, <3>6, Zenon
    <2> QED
      BY <2>1, <2>2, Zenon
  <1>10. Bounded'
    BY <1>7, Zenon DEF Good, Bounded
  <1>11. Apart'
    <2>1. \A d, e \in Class : \A j \in Backed(d)', k \in Backed(e)' :
            PageAt(d, j)' = PageAt(e, k)' => d = e /\ j = k
      BY <1>4, <1>7 DEF Good, Apart
    <2>2. \A d \in Class : \A k \in Backed(d)' :
            PageAt(d, k)' \in Frames /\ PageAt(d, k)' \notin free' /\ PageAt(d, k)' \notin others'
      <3> SUFFICES ASSUME NEW d \in Class, NEW k \in Backed(d)'
                   PROVE  PageAt(d, k) \in Frames /\ PageAt(d, k) \notin free' /\ PageAt(d, k) \notin others
        BY <1>2, <1>4, Zenon
      <3>1. k \in Backed(d)
        BY <1>7, Zenon
      <3>2. PageAt(d, k) \in Frames /\ PageAt(d, k) \notin free /\ PageAt(d, k) \notin others
        BY <3>1, Zenon DEF Good, Apart
      <3>3. q[1] \notin Backed(c)' => PageAt(d, k) # PageAt(c, q[1])
        BY <1>8, <3>1 DEF Good, Apart
      <3> QED
        BY <1>1, <3>2, <3>3, Zenon
    <2>3. \A f \in free' : f \notin others'
      BY <1>1, <1>2, <1>8 DEF Good, Apart
    <2>4. \A f \in Frames : f \in free' \/ f \in others'
            \/ \E d \in Class : \E k \in Backed(d)' : PageAt(d, k)' = f
      <3> SUFFICES ASSUME NEW f \in Frames, f \notin free', f \notin others'
                   PROVE  \E d \in Class : \E k \in Backed(d)' : PageAt(d, k)' = f
        BY Zenon
      <3>1. f \notin free /\ f \notin others
        BY <1>1, <1>2, Zenon
      <3>2. PICK d \in Class : \E k \in Backed(d) : PageAt(d, k) = f
        BY <3>1, Zenon DEF Good, Apart
      <3>3. PICK k \in Backed(d) : PageAt(d, k) = f
        BY <3>2, Zenon
      <3>4. k \in Backed(d)'
        BY <1>1, <1>7, <3>3, Zenon
      <3> QED
        BY <1>4, <3>3, <3>4, Zenon
    <2> QED
      BY <2>1, <2>2, <2>3, <2>4, Zenon DEF Apart
  <1>12. \A p \in bitmap[c] : Address(c, p) = a => p = q
    BY <1>1, AddressOnce, Zenon DEF Good
  <1>13. \A u \in Returning(c) : off[u] \in bitmap[c] /\ off[u] # q
    BY <1>1, Zenon DEF Good, Held, Unique
  <1>14. Held'
    <2> SUFFICES ASSUME NEW d \in Class
                 PROVE  /\ \A p \in bitmap'[d] : Address(d, p) \in live'[d]
                                                 \/ \E u \in Returning(d) : off[u] = p
                        /\ \A b \in live'[d] : \E p \in bitmap'[d] : Address(d, p) = b
                        /\ \A u \in Returning(d) : off[u] \in bitmap'[d]
      BY <1>2, <1>5, <1>6, Zenon DEF Held
    <2>1. CASE d # c
      BY <1>3, <2>1, Zenon DEF Good, Held
    <2>2. CASE d = c
      <3>1. \A p \in bitmap'[c] : Address(c, p) \in live'[c] \/ \E u \in Returning(c) : off[u] = p
        BY <1>3, <1>12, Zenon DEF Good, Held
      <3>2. \A b \in live'[c] : \E p \in bitmap'[c] : Address(c, p) = b
        BY <1>1, <1>3, Zenon DEF Good, Held
      <3>3. \A u \in Returning(c) : off[u] \in bitmap'[c]
        BY <1>3, <1>13, Zenon
      <3> QED
        BY <2>2, <3>1, <3>2, <3>3, Zenon
    <2> QED
      BY <2>1, <2>2, Zenon
  <1>15. Unique'
    <2>1. \A d \in Class : /\ \A p \in bitmap'[d] : p \in bitmap[d]
                           /\ \A b \in live'[d] : b \in live[d]
      BY <1>3, Zenon
    <2> QED
      BY <1>2, <1>5, <1>6, <2>1, Zenon DEF Good, Unique
  <1>16. Found'
    BY <1>4, <1>7, Zenon DEF Good, Found
  <1> QED
    BY <1>9, <1>10, <1>11, <1>14, <1>15, <1>16, Zenon DEF Good

LEMMA NeverLost ==
  ASSUME Good, TypeOK, NEW t \in Threads, NEW c \in Class, NEW a \in live[c], KmfreeLost(t, c, a)
  PROVE  FALSE
  <1>1. PICK q \in bitmap[c] : Address(c, q) = a
    BY Zenon DEF Good, Held
  <1>2. num_used_objects[c] # 0
    <2>1. bitmap[c] # {}
      BY Zenon
    <2> QED
      BY <2>1, BitmapFinite, Zenon DEF Good, Counted
  <1>3. q[1] \in 1..MAX_PAGES_PER_SLAB /\ a[1] = PageAt(c, q[1])
    BY <1>1, InBacked, Zenon DEF Good, Bounded, Address
  <1> QED
    BY <1>2, <1>3, Zenon DEF KmfreeLost

\* The object of a returning call passes from the call to its caller.
LEMMA ReturnGood ==
  ASSUME TypeOK, Good, NEW t \in Threads, NEW c \in Class, idx[t] = c,
         NEW o \in Objects(c), off[t] = o, KmallocReturn(t)
  PROVE  Good'
  <1>1. /\ pc[t] = "return" /\ pc' = [pc EXCEPT ![t] = "idle"]
        /\ idx' = [idx EXCEPT ![t] = 0] /\ off' = [off EXCEPT ![t] = <<1, 0>>]
        /\ UNCHANGED <<free, others, size, page, bitmap, num_used_objects>>
    BY Zenon DEF KmallocReturn, slabVars
  <1>2. t \in Returning(c) /\ o \in bitmap[c]
    BY <1>1, Zenon DEF Returning, Good, Held
  <1>3. Address(c, o) # <<Null, 0>>
    <2>1. PageAt(c, o[1]) \in Frames
      BY <1>2, InBacked, Zenon DEF Good, Apart
    <2> QED
      BY <2>1, FramesAssumption, Zenon DEF Address
  <1>4. /\ live'[c] = live[c] \cup {Address(c, o)}
        /\ \A d \in Class : d # c => live'[d] = live[d]
    <2>1. live' = [live EXCEPT ![c] = @ \cup {Address(c, o)}]
      BY <1>3, Zenon DEF KmallocReturn
    <2> QED
      BY <2>1, Zenon DEF TypeOK
  <1>5. \A d, k : PageAt(d, k)' = PageAt(d, k)
    BY <1>1, SamePages, Zenon
  <1>6. \A d, p : Address(d, p)' = Address(d, p)
    BY <1>5, Zenon DEF Address
  <1>7. \A d : Backed(d)' = Backed(d)
    BY <1>1, Zenon DEF Backed
  <1>8. \A d \in Class : \A u : u \in Returning(d)' <=> u \in Returning(d) /\ u # t
    BY <1>1, Zenon DEF Returning, TypeOK
  <1>9. \A d \in Class : Asking(d)' = Asking(d)
    BY <1>1, Zenon DEF Asking, TypeOK
  <1>10. \A d \in Class : \A u \in Returning(d)' : off'[u] = off[u] /\ off[u] \in bitmap[d]
    <2>1. \A d \in Class : \A u \in Returning(d)' : u \in Threads /\ u # t
      BY <1>8, Zenon DEF Returning
    <2> QED
      BY <1>1, <1>8, <2>1, Zenon DEF Good, Held, TypeOK
  <1>11. \A d \in Class : t \in Returning(d) => d = c
    BY Zenon DEF Returning
  <1>12. Counted'
    BY <1>1, <1>9, Zenon DEF Good, Counted
  <1>13. Bounded' /\ Apart' /\ Found'
    BY <1>1, <1>5, <1>7 DEF Good, Bounded, Apart, Found
  <1>14. Held'
    <2> SUFFICES ASSUME NEW d \in Class
                 PROVE  /\ \A p \in bitmap[d] : Address(d, p) \in live'[d]
                                                \/ \E u \in Returning(d)' : off'[u] = p
                        /\ \A b \in live'[d] : \E p \in bitmap[d] : Address(d, p) = b
                        /\ \A u \in Returning(d)' : off'[u] \in bitmap[d]
      BY <1>1, <1>6, Zenon DEF Held
    <2>1. \A p \in bitmap[d] : Address(d, p) \in live'[d] \/ \E u \in Returning(d)' : off'[u] = p
      <3> SUFFICES ASSUME NEW p \in bitmap[d], Address(d, p) \notin live'[d]
                   PROVE  \E u \in Returning(d)' : off'[u] = p
        BY Zenon
      <3>1. Address(d, p) \notin live[d]
        BY <1>4, Zenon
      <3>2. PICK u \in Returning(d) : off[u] = p
        BY <3>1, Zenon DEF Good, Held
      <3>3. u # t
        BY <1>4, <1>11, <3>2, Zenon
      <3> QED
        BY <1>8, <1>10, <3>2, <3>3, Zenon
    <2>2. \A b \in live'[d] : \E p \in bitmap[d] : Address(d, p) = b
      BY <1>2, <1>4 DEF Good, Held
    <2> QED
      BY <1>10, <2>1, <2>2, Zenon
  <1>15. Unique'
    <2> SUFFICES ASSUME NEW d \in Class, NEW u \in Returning(d)'
                 PROVE  /\ \A p \in bitmap[d] : off'[u] = p => Address(d, p) \notin live'[d]
                        /\ \A w \in Returning(d)' : off'[w] = off'[u] => w = u
      BY <1>1, <1>6, Zenon DEF Unique
    <2>1. u \in Returning(d) /\ u # t /\ off'[u] = off[u]
      BY <1>8, <1>10, Zenon
    <2>2. \A w \in Returning(d)' : off'[w] = off'[u] => w = u
      BY <1>8, <1>10, <2>1, Zenon DEF Good, Unique
    <2>3. ASSUME NEW p \in bitmap[d], off'[u] = p
          PROVE  Address(d, p) \notin live'[d]
      <3>1. Address(d, p) \notin live[d]
        BY <2>1, <2>3, Zenon DEF Good, Unique
      <3>2. CASE d # c
        BY <1>4, <3>1, <3>2, Zenon
      <3>3. CASE d = c
        <4>1. off[u] # off[t]
          BY <1>2, <2>1, <3>3, Zenon DEF Good, Unique
        <4>2. p # o
          BY <2>1, <2>3, <4>1, Zenon
        <4>3. Address(c, p) # Address(c, o)
          BY <1>2, <2>3, <3>3, <4>2, AddressOnce, Zenon DEF Good
        <4> QED
          BY <1>4, <3>1, <3>3, <4>3, Zenon
      <3> QED
        BY <3>2, <3>3, Zenon
    <2> QED
      BY <2>2, <2>3, Zenon
  <1> QED
    BY <1>12, <1>13, <1>14, <1>15, Zenon DEF Good

LEMMA EnterGood ==
  ASSUME TypeOK, Good, NEW t \in Threads, NEW c \in Class, KmallocEnter(t, c)
  PROVE  Good'
  <1>1. /\ pc[t] = "idle" /\ pc' = [pc EXCEPT ![t] = "first"] /\ idx' = [idx EXCEPT ![t] = c]
        /\ UNCHANGED <<free, others, size, page, bitmap, num_used_objects, off, live>>
    BY Zenon DEF KmallocEnter, slabVars
  <1>2. \A d \in Class : Returning(d)' = Returning(d)
    BY <1>1, Zenon DEF Returning, TypeOK
  <1>3. t \notin Asking(c) /\ Asking(c)' = Asking(c) \cup {t}
    BY <1>1, Zenon DEF Asking, TypeOK
  <1>4. \A d \in Class : d # c => Asking(d)' = Asking(d)
    BY <1>1, Zenon DEF Asking, TypeOK
  <1>5. Cardinality(Asking(c) \cup {t}) = Cardinality(Asking(c)) + 1
    BY <1>3, AskingFinite, FS_AddElement, Zenon
  <1>6. num_used_objects[c] + Cardinality(Asking(c)) < Demand[c]
    BY Zenon DEF KmallocEnter, Wanted
  <1>7. num_used_objects[c] \in Int /\ Cardinality(Asking(c)) \in Nat /\ Demand[c] \in Nat
    BY AskingFinite, CallersAssumption, Zenon DEF TypeOK
  <1>8. num_used_objects[c] + Cardinality(Asking(c)') <= Demand[c]
    BY <1>3, <1>5, <1>6, <1>7
  <1>9. Counted'
    BY <1>1, <1>4, <1>8, Zenon DEF Good, Counted
  <1> QED
    BY <1>1, <1>2, <1>9, SameObjects, Zenon DEF Good

LEMMA FirstGood ==
  ASSUME TypeOK, Good, NEW t \in Threads, KmallocFirst(t)
  PROVE  Good'
  <1>1. /\ pc[t] = "first" /\ \A u \in Threads : u # t => pc'[u] = pc[u] /\ idx'[u] = idx[u]
        /\ (pc'[t] = "idle" \/ (pc'[t] = "lock" /\ idx'[t] = idx[t]))
        /\ UNCHANGED <<free, others, size, page, bitmap, num_used_objects, off, live>>
    BY Zenon DEF KmallocFirst, slabVars, TypeOK
  <1>2. \A d \in Class : Returning(d)' = Returning(d)
    BY <1>1, Zenon DEF Returning
  <1>3. \A d \in Class : \A u \in Asking(d)' : u \in Asking(d)
    BY <1>1, Zenon DEF Asking
  <1>4. Counted'
    <2> SUFFICES ASSUME NEW d \in Class
                 PROVE  num_used_objects[d] + Cardinality(Asking(d)') <= Demand[d]
      BY <1>1, Zenon DEF Good, Counted
    <2>1. Asking(d)' \in SUBSET Asking(d)
      BY <1>3, Zenon
    <2>2. Cardinality(Asking(d)') <= Cardinality(Asking(d)) /\ Cardinality(Asking(d)') \in Nat
      BY <2>1, AskingFinite, FS_Subset, FS_CardinalityType, Zenon
    <2>3. num_used_objects[d] \in Int /\ Cardinality(Asking(d)) \in Nat /\ Demand[d] \in Nat
      BY AskingFinite, CallersAssumption, Zenon DEF TypeOK
    <2>4. num_used_objects[d] + Cardinality(Asking(d)) <= Demand[d]
      BY Zenon DEF Good, Counted
    <2> QED
      BY <2>2, <2>3, <2>4
  <1> QED
    BY <1>1, <1>2, <1>4, SameObjects, Zenon DEF Good

LEMMA RestGood ==
  ASSUME Good, NEW f \in Frames, RestAlloc(f) \/ RestFree(f)
  PROVE  Good'
  <1>1. UNCHANGED <<size, page, bitmap, num_used_objects, pc, idx, off, live>>
    BY Zenon DEF RestAlloc, RestFree, slabVars
  <1>2. \A c, k : PageAt(c, k)' = PageAt(c, k)
    BY <1>1, SamePages, Zenon
  <1>3. \A c : Backed(c)' = Backed(c) /\ Returning(c)' = Returning(c) /\ Asking(c)' = Asking(c)
    BY <1>1, Zenon DEF Backed, Returning, Asking
  <1>4. \A c, o : Address(c, o)' = Address(c, o)
    BY <1>2, Zenon DEF Address
  <1>5. Counted' /\ Bounded' /\ Found'
    BY <1>1, <1>2, <1>3, Zenon DEF Good, Counted, Bounded, Found
  <1>6. Held' /\ Unique'
    BY <1>1, <1>3, <1>4, Zenon DEF Good, Held, Unique
  <1>7. Apart'
    <2>1. CASE RestAlloc(f)
      BY <1>2, <1>3, <2>1 DEF RestAlloc, Good, Apart
    <2>2. CASE RestFree(f)
      BY <1>2, <1>3, <2>2 DEF RestFree, Good, Apart
    <2> QED
      BY <2>1, <2>2, Zenon
  <1> QED
    BY <1>5, <1>6, <1>7, Zenon DEF Good

LEMMA StillGood ==
  ASSUME Good, UNCHANGED vars
  PROVE  Good'
  <1>1. UNCHANGED <<size, page, bitmap, live, off, free, others, pc, idx, num_used_objects>>
    BY Zenon DEF vars, slabVars
  <1>2. \A c : Returning(c)' = Returning(c) /\ Asking(c)' = Asking(c)
    BY <1>1, Zenon DEF Returning, Asking
  <1>3. Counted'
    BY <1>1, <1>2, Zenon DEF Good, Counted
  <1> QED
    BY <1>1, <1>2, <1>3, SameObjects, Zenon DEF Good
-----------------------------------------------------------------------------
LEMMA InitGood == TypeOK /\ Init => Good
  <1> SUFFICES ASSUME TypeOK, Init PROVE Good
    BY Zenon
  <1>1. PICK first \in [Class -> Frames] :
          /\ \A c, d \in Class : first[c] = first[d] => c = d
          /\ page = [c \in Class |-> [k \in 1..MAX_PAGES_PER_SLAB + SPILL |->
                                        IF k = 1 THEN first[c] ELSE Null]]
          /\ free = {f \in Frames : \A c \in Class : first[c] # f}
    BY Zenon DEF Init
  <1>2. \A c \in Class : bitmap[c] = {} /\ live[c] = {} /\ num_used_objects[c] = 0
    BY Zenon DEF Init
  <1>3. \A c : Asking(c) = {} /\ Returning(c) = {}
    BY Zenon DEF Init, Asking, Returning
  <1>4. \A c \in Class : \A k : k \in Backed(c) <=> k = 1
    BY <1>2, InBacked, Zenon
  <1>5. 1 \in 1..MAX_PAGES_PER_SLAB /\ 1 # MAX_PAGES_PER_SLAB /\ 1 \in 1..MAX_PAGES_PER_SLAB + SPILL
    BY LimitsAssumption
  <1>6. \A c \in Class : PageAt(c, 1) = first[c]
    BY <1>1, <1>5, Zenon DEF PageAt
  <1>7. Counted
    <2>1. \A c \in Class : Demand[c] \in Nat
      BY CallersAssumption, Zenon
    <2>2. \A c \in Class : Cardinality(bitmap[c]) = 0 /\ Cardinality(Asking(c)) = 0
      BY <1>2, <1>3, FS_EmptySet, Zenon
    <2> QED
      BY <1>2, <2>1, <2>2 DEF Counted
  <1>8. Bounded /\ Found
    BY <1>4, <1>5 DEF Bounded, Found
  <1>9. Apart
    <2>1. others = {}
      BY Zenon DEF Init
    <2> QED
      BY <1>1, <1>4, <1>6, <2>1 DEF Apart
  <1>10. Held /\ Unique
    BY <1>2, <1>3, Zenon DEF Held, Unique
  <1> QED
    BY <1>7, <1>8, <1>9, <1>10, Zenon DEF Good

LEMMA NextGood == DemandFits /\ TypeOK /\ TypeOK' /\ IInv /\ [Next]_vars => IInv'
  <1> SUFFICES ASSUME DemandFits, TypeOK, TypeOK', IInv, [Next]_vars, Sound' PROVE Good'
    BY Zenon DEF IInv
  <1>1. Sound /\ Good
    BY SoundBack, Zenon DEF IInv
  <1>2. ASSUME NEW t \in Threads, Step(t)
        PROVE  Good'
    <2>1. PICK c \in Class : idx[t] = c
      BY Zenon DEF TypeOK
    <2>2. ASSUME NEW d \in Class, KmallocOwnFull(t, d) PROVE Good'
      BY <1>1, <2>2, StillGood, Zenon DEF KmallocOwnFull
    <2>3. ASSUME NEW d \in Class, KmallocEnter(t, d) PROVE Good'
      BY <1>1, <2>3, EnterGood, Zenon
    <2>4. ASSUME KmallocFirst(t) PROVE Good'
      BY <1>1, <2>4, FirstGood, Zenon
    <2>5. ASSUME NEW o \in Objects(idx[t]), KmallocTake(t, o) PROVE Good'
      BY <1>1, <2>1, <2>5, TakeGood, Zenon
    <2>6. ASSUME NEW o \in Objects(idx[t]), KmallocHang(t, o) PROVE Good'
      BY <1>1, <2>1, <2>6, Zenon DEF KmallocHang, Sound
    <2>7. ASSUME KmallocReturn(t) PROVE Good'
      <3>1. PICK o \in Objects(c) : off[t] = o
        BY <2>1, Zenon DEF TypeOK
      <3> QED
        BY <1>1, <2>1, <2>7, <3>1, ReturnGood, Zenon
    <2>8. ASSUME NEW d \in Class, NEW a \in live[d], kmfree(t, d, a) PROVE Good'
      BY <1>1, <2>8, FreeGood, Zenon
    <2>9. ASSUME NEW d \in Class, NEW a \in live[d], KmfreeLost(t, d, a) PROVE Good'
      BY <1>1, <2>9, NeverLost, Zenon
    <2> QED
      BY <1>2, <2>2, <2>3, <2>4, <2>5, <2>6, <2>7, <2>8, <2>9, Zenon DEF Step
  <1>3. ASSUME Rest PROVE Good'
    BY <1>1, <1>3, RestGood, Zenon DEF Rest
  <1>4. CASE UNCHANGED vars
    BY <1>1, <1>4, StillGood, Zenon
  <1> QED
    BY <1>2, <1>3, <1>4, Zenon DEF Next

LEMMA GoodAlways ==
  ASSUME DemandFits
  PROVE  Spec => [](TypeOK /\ IInv)
  <1>1. TypeOK /\ Init => IInv
    BY InitGood, Zenon DEF IInv
  <1>2. TypeOK /\ TypeOK' /\ IInv /\ [Next]_vars => IInv'
    BY NextGood, Zenon
  <1> QED
    BY <1>1, <1>2, TypeCorrect, PTL DEF Spec

\* For callers that ask for no more objects of a class than it has, whatever
\* their number and however their calls of kmalloc and kmfree interleave, no
\* object is handed out twice.
THEOREM NoOverlapHolds == DemandFits => (Spec => []NoOverlap)
  <1> SUFFICES ASSUME DemandFits PROVE Spec => []NoOverlap
    BY Zenon
  <1>1. TypeOK /\ IInv => NoOverlap
    BY Zenon DEF IInv, Good, Held, Unique, NoOverlap
  <1> QED
    BY <1>1, GoodAlways, PTL

\* Under the same assumption the bitmaps say exactly which objects are held.
THEOREM BitsHold == DemandFits => (Spec => []BitsAreObjects)
  <1> SUFFICES ASSUME DemandFits PROVE Spec => []BitsAreObjects
    BY Zenon
  <1>1. TypeOK /\ IInv => BitsAreObjects
    BY DEF IInv, Good, Held, BitsAreObjects
  <1> QED
    BY <1>1, GoodAlways, PTL

\* Under the same assumption slab pages share no frame with each other, with
\* the free list or with the rest of the kernel, and no frame is lost.
THEOREM FramesHold == DemandFits => (Spec => []FramesApart)
  <1> SUFFICES ASSUME DemandFits PROVE Spec => []FramesApart
    BY Zenon
  <1>1. TypeOK /\ IInv => FramesApart
    <2> SUFFICES ASSUME TypeOK, Apart PROVE
          /\ free \cap others = {}
          /\ Frames = free \cup others \cup UNION {{PageAt(c, k) : k \in Backed(c)} : c \in Class}
      BY Zenon DEF IInv, Good, Apart, FramesApart
    <2>1. free \cap others = {}
      BY Zenon DEF Apart
    <2>2. \A f : f \in UNION {{PageAt(c, k) : k \in Backed(c)} : c \in Class}
                 <=> \E c \in Class : \E k \in Backed(c) : PageAt(c, k) = f
      OBVIOUS
    <2>3. \A f : f \in Frames <=> f \in free \/ f \in others
                                  \/ \E c \in Class : \E k \in Backed(c) : PageAt(c, k) = f
      <3>1. free \subseteq Frames /\ others \subseteq Frames
        BY Zenon DEF TypeOK
      <3> QED
        BY <3>1 DEF Apart
    <2> QED
      BY <2>1, <2>2, <2>3, Zenon
  <1> QED
    BY <1>1, GoodAlways, PTL

\* Under the same assumption kmfree's search of page[] finds the page of every
\* object, past the frames of pages that were freed.
THEOREM SearchHolds == DemandFits => (Spec => []SearchFinds)
  <1> SUFFICES ASSUME DemandFits PROVE Spec => []SearchFinds
    BY Zenon
  <1>1. TypeOK /\ IInv => SearchFinds
    BY Zenon DEF IInv, Good, Found, SearchFinds, FindPage
  <1> QED
    BY <1>1, GoodAlways, PTL
-----------------------------------------------------------------------------
(* The counters that slabdump prints *)

\* The rest of CountersExact: objects left, and pages.
Tallied == \A c \in Class :
    /\ num_free_objects[c] = Capacity(c) - num_used_objects[c]
    /\ num_pages[c] = Cardinality(Backed(c))

\* The capacity of a class is a number.
LEMMA CapacityType == \A c \in Class : Capacity(c) \in Int
  BY SizesAssumption, LimitsAssumption DEF Capacity

\* A class uses finitely many pages.
LEMMA BackedFinite ==
  ASSUME TypeOK, NEW c \in Class
  PROVE  IsFiniteSet(Backed(c)) /\ Cardinality(Backed(c)) \in Nat
  <1>1. BitmapPages(c) \in Nat /\ BitmapPages(c) >= 1
    BY LimitsAssumption DEF BitmapPages
  <1>2. IsFiniteSet(1..BitmapPages(c)) /\ 1 \in 1..BitmapPages(c)
    BY <1>1, FS_Interval
  <1>3. \A o \in bitmap[c] : o[1] \in 1..BitmapPages(c)
    BY Zenon DEF TypeOK, Objects
  <1>4. Backed(c) \in SUBSET (1..BitmapPages(c))
    BY <1>2, <1>3, Zenon DEF Backed
  <1> QED
    BY <1>2, <1>4, FS_Subset, FS_CardinalityType, Zenon

\* Once setBitmap has set a bit, page 1 has one: getpageNum counts it.
LEMMA FirstPageUsed ==
  ASSUME NEW c \in Class, NEW o \in Objects(c), FirstZero(c, o)
  PROVE  {q[1] : q \in bitmap[c] \cup {o}} = {1} \cup {q[1] : q \in bitmap[c] \cup {o}}
  <1>1. /\ o = <<o[1], o[2]>> /\ o[1] \in Int /\ o[1] >= 1
    BY DEF Objects, Slots
  <1>2. CASE o[1] = 1
    BY <1>2, Zenon
  <1>3. CASE o[1] # 1
    <2>1. Before(<<1, 0>>, o)
      BY <1>1, <1>3 DEF Before
    <2>2. <<1, 0>> \in bitmap[c] /\ <<1, 0>>[1] = 1
      BY <2>1, FirstObject, Zenon DEF FirstZero
    <2> QED
      BY <2>2, Zenon
  <1> QED
    BY <1>2, <1>3, Zenon

\* kmalloc recounts the pages.
LEMMA TakeTallied ==
  ASSUME DemandFits, TypeOK, Good, Tallied,
         NEW t \in Threads, NEW c \in Class, idx[t] = c, NEW o \in Objects(c), KmallocTake(t, o)
  PROVE  Tallied'
  <1>1. /\ pc[t] = "lock" /\ setBitmap(c, o) /\ bitmap' = [bitmap EXCEPT ![c] = @ \cup {o}]
        /\ num_pages' = [num_pages EXCEPT ![c] = getpageNum(bitmap[c] \cup {o})]
        /\ num_used_objects' = [num_used_objects EXCEPT ![c] = @ + 1]
        /\ num_free_objects' = [num_free_objects EXCEPT ![c] = @ - 1]
    BY Zenon DEF KmallocTake, TakeObject, Tally
  <1>2. FirstZero(c, o)
    BY <1>1, NotFull, Zenon DEF setBitmap, Good
  <1>3. /\ bitmap'[c] = bitmap[c] \cup {o} /\ num_pages'[c] = getpageNum(bitmap[c] \cup {o})
        /\ num_used_objects'[c] = num_used_objects[c] + 1
        /\ num_free_objects'[c] = num_free_objects[c] - 1
        /\ \A d \in Class : d # c =>
             /\ bitmap'[d] = bitmap[d] /\ num_pages'[d] = num_pages[d]
             /\ num_used_objects'[d] = num_used_objects[d]
             /\ num_free_objects'[d] = num_free_objects[d]
    BY <1>1, Zenon DEF TypeOK
  <1>4. num_pages'[c] = Cardinality(Backed(c)')
    BY <1>2, <1>3, FirstPageUsed, Zenon DEF Backed, getpageNum
  <1>5. num_free_objects'[c] = Capacity(c) - num_used_objects'[c]
    <2>1. num_free_objects[c] \in Int /\ num_used_objects[c] \in Int /\ Capacity(c) \in Int
      BY CapacityType, Zenon DEF TypeOK
    <2>2. num_free_objects[c] = Capacity(c) - num_used_objects[c]
      BY Zenon DEF Tallied
    <2> QED
      BY <1>3, <2>1, <2>2
  <1>6. \A d \in Class : d # c => Backed(d)' = Backed(d)
    BY <1>3, Zenon DEF Backed
  <1> QED
    BY <1>3, <1>4, <1>5, <1>6, Zenon DEF Tallied

\* kmfree counts down when it empties a page other than the first.
LEMMA FreeTallied ==
  ASSUME TypeOK, Sound, Good, Tallied, NEW t \in Threads, NEW c \in Class, NEW a \in live[c],
         kmfree(t, c, a)
  PROVE  Tallied'
  <1>1. PICK q \in bitmap[c] :
           /\ bitmap' = [bitmap EXCEPT ![c] = @ \ {q}]
           /\ num_used_objects' = [num_used_objects EXCEPT ![c] = @ - 1]
           /\ num_free_objects' = [num_free_objects EXCEPT ![c] = @ + 1]
           /\ num_pages' = [num_pages EXCEPT ![c] = IF q[1] \in Backed(c)' THEN @ ELSE @ - 1]
    BY FreeShape, Zenon
  <1>2. /\ bitmap'[c] = bitmap[c] \ {q}
        /\ num_pages'[c] = IF q[1] \in Backed(c)' THEN num_pages[c] ELSE num_pages[c] - 1
        /\ num_used_objects'[c] = num_used_objects[c] - 1
        /\ num_free_objects'[c] = num_free_objects[c] + 1
        /\ \A d \in Class : d # c =>
             /\ bitmap'[d] = bitmap[d] /\ num_pages'[d] = num_pages[d]
             /\ num_used_objects'[d] = num_used_objects[d]
             /\ num_free_objects'[d] = num_free_objects[d]
    BY <1>1, Zenon DEF TypeOK
  <1>3. num_free_objects'[c] = Capacity(c) - num_used_objects'[c]
    <2>1. num_free_objects[c] \in Int /\ num_used_objects[c] \in Int /\ Capacity(c) \in Int
      BY CapacityType, Zenon DEF TypeOK
    <2>2. num_free_objects[c] = Capacity(c) - num_used_objects[c]
      BY Zenon DEF Tallied
    <2> QED
      BY <1>2, <2>1, <2>2
  <1>4. num_pages'[c] = Cardinality(Backed(c)')
    <2>1. q[1] \in Backed(c) /\ num_pages[c] = Cardinality(Backed(c))
      BY InBacked, Zenon DEF Tallied
    <2>2. CASE q[1] \in Backed(c)'
      <3>1. Backed(c)' = Backed(c)
        BY <1>2, <2>1, <2>2, Zenon DEF Backed
      <3> QED
        BY <1>2, <2>1, <2>2, <3>1, Zenon
    <2>3. CASE q[1] \notin Backed(c)'
      <3>1. Backed(c)' = Backed(c) \ {q[1]}
        <4>1. \A k : k \in Backed(c)' <=> k = 1 \/ \E o \in bitmap[c] \ {q} : o[1] = k
          BY <1>2, Zenon DEF Backed
        <4>2. \A k : k \in Backed(c)' <=> k \in Backed(c) /\ k # q[1]
          BY <2>3, <4>1, InBacked, Zenon
        <4> QED
          BY <4>2, Zenon
      <3>2. Cardinality(Backed(c) \ {q[1]}) = Cardinality(Backed(c)) - 1
        BY <2>1, BackedFinite, FS_RemoveElement, Zenon
      <3> QED
        BY <1>2, <2>1, <2>3, <3>1, <3>2, Zenon
    <2> QED
      BY <2>2, <2>3, Zenon
  <1>5. \A d \in Class : d # c => Backed(d)' = Backed(d)
    BY <1>2, Zenon DEF Backed
  <1> QED
    BY <1>2, <1>3, <1>4, <1>5, Zenon DEF Tallied

\* Every step keeps the counters, as long as the allocator is sound.
LEMMA NextTallied ==
  ASSUME DemandFits, TypeOK, IInv, Sound => Tallied, [Next]_vars
  PROVE  Sound' => Tallied'
  <1> SUFFICES ASSUME Sound' PROVE Tallied'
    BY Zenon
  <1>1. Sound /\ Good /\ Tallied
    BY SoundBack, Zenon DEF IInv
  <1>2. CASE UNCHANGED <<bitmap, num_pages, num_free_objects, num_used_objects>>
    BY <1>1, <1>2, Zenon DEF Tallied, Backed
  <1>3. ASSUME NEW t \in Threads, Step(t) PROVE Tallied'
    <2>1. PICK c \in Class : idx[t] = c
      BY Zenon DEF TypeOK
    <2>2. ASSUME NEW o \in Objects(idx[t]), KmallocTake(t, o) PROVE Tallied'
      BY <1>1, <2>1, <2>2, TakeTallied, Zenon
    <2>3. ASSUME NEW o \in Objects(idx[t]), KmallocHang(t, o) PROVE Tallied'
      BY <1>1, <2>1, <2>3, Zenon DEF KmallocHang, Sound
    <2>4. ASSUME NEW d \in Class, NEW a \in live[d], kmfree(t, d, a) PROVE Tallied'
      BY <1>1, <2>4, FreeTallied, Zenon
    <2>5. ASSUME \/ \E d \in Class : \/ KmallocOwnFull(t, d) \/ KmallocEnter(t, d)
                                     \/ \E a \in live[d] : KmfreeLost(t, d, a)
                 \/ KmallocFirst(t) \/ KmallocReturn(t)
          PROVE  Tallied'
      BY <1>2, <2>5, Zenon
      DEF KmallocOwnFull, KmallocEnter, KmallocFirst, KmallocReturn, KmfreeLost, slabVars, vars
    <2> QED
      BY <1>3, <2>2, <2>3, <2>4, <2>5, Zenon DEF Step
  <1>4. ASSUME Rest PROVE Tallied'
    BY <1>2, <1>4, Zenon DEF Rest, RestAlloc, RestFree, slabVars
  <1>5. CASE UNCHANGED vars
    BY <1>2, <1>5, Zenon DEF vars, slabVars
  <1> QED
    BY <1>3, <1>4, <1>5, Zenon DEF Next

\* Under the same assumption, and before a size field is overwritten or a page is
\* missing, the counters agree with the bitmap, though kmalloc recounts the pages
\* and kmfree counts them down.
THEOREM CountersHold == DemandFits => (Spec => [](Sound => CountersExact))
  <1> SUFFICES ASSUME DemandFits PROVE Spec => [](Sound => CountersExact)
    BY Zenon
  <1>1. Init => Tallied
    <2> SUFFICES ASSUME Init PROVE Tallied
      BY Zenon
    <2>1. \A c \in Class : bitmap[c] = {} /\ num_used_objects[c] = 0 /\ num_pages[c] = 1
                           /\ num_free_objects[c] = Capacity(c)
      BY Zenon DEF Init
    <2>2. \A c \in Class : Cardinality(Backed(c)) = 1
      <3>1. \A c \in Class : Backed(c) = {1}
        BY <2>1, Zenon DEF Backed
      <3>2. Cardinality({1}) = 1
        BY FS_Singleton, Zenon
      <3> QED
        BY <3>1, <3>2, Zenon
    <2> QED
      BY <2>1, <2>2, CapacityType DEF Tallied
  <1>2. TypeOK /\ IInv /\ (Sound => Tallied) /\ [Next]_vars => (Sound => Tallied)'
    BY NextTallied, Zenon
  <1>3. IInv /\ (Sound => Tallied) => (Sound => CountersExact)
    BY Zenon DEF IInv, Good, Counted, Tallied, CountersExact
  <1> QED
    BY <1>1, <1>2, <1>3, GoodAlways, PTL DEF Spec
=============================================================================
