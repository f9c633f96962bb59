-------------------------------- MODULE Slab --------------------------------
(***************************************************************************)
(* The slab allocator of slab.c: NSLAB size classes, each with a bitmap of *)
(* its objects, a table page[] of the frames that hold them, and counters, *)
(* all under the one lock stable.lock.  kmalloc tests for a full class     *)
(* before it takes the lock and reads page[] after it has released it, so  *)
(* a call is three steps; kmfree is one critical section and one step.     *)
(*                                                                         *)
(* An object is <<k, i>>, slot i of page k of its class; the code's bit    *)
(* offset is (k-1)*num_objects_per_page + i (SlabBits relates the two).    *)
(* An address is <<f, i>>, slot i of the frame f.  A request is named by   *)
(* its class (SlabSizes shows what class a size goes to).                  *)
(***************************************************************************)
EXTENDS Integers, FiniteSets

CONSTANTS
    NSLAB,               \* number of size classes (9 in slab.h)
    PGSIZE,              \* bytes in a page (4096)
    MAX_PAGES_PER_SLAB,  \* the length of page[] and the page limit (100)
    FIRST_PAGES,         \* pages that the bitmap of class 0 can number (64)
    SPILL,               \* pages past the limit that the model can still number
    Frames,              \* physical pages that kalloc() hands out
    Null,                \* the null pointer
    Threads,             \* processes inside the kernel
    Demand               \* Demand[c]: objects of class c that callers ask for

VARIABLES
    free,                \* frames on the free list of kalloc.c
    others,              \* frames that the rest of the kernel holds
    size, num_pages, num_free_objects, num_used_objects, bitmap, page,
                         \* the fields of struct slab, by class
    hung,                \* a caller loops or panics and keeps stable.lock for ever
    stray,               \* memory that is no slab page has been written
    pc, idx, off,        \* each thread's place in kmalloc, slabIdx, bitOffset
    live                 \* live[c]: addresses of class c in callers' hands

slabVars == <<size, num_pages, num_free_objects, num_used_objects, bitmap, page>>
vars == <<free, others, slabVars, hung, stray, pc, idx, off, live>>

Class == 0..NSLAB - 1
Last == NSLAB - 1

SlabSize(c) == 8 * 2^c
num_objects_per_page(c) == PGSIZE \div SlabSize(c)

\* The pages that the bitmap of class c numbers.  For c > 0 the bitmap has
\* room for far more than the limit; the model follows SPILL of them.
BitmapPages(c) == IF c = 0 THEN FIRST_PAGES ELSE MAX_PAGES_PER_SLAB + SPILL
Slots(c) == 0..num_objects_per_page(c) - 1
Objects(c) == (1..BitmapPages(c)) \X Slots(c)

\* num_free_objects + num_used_objects, as slabinit sets it up.
Capacity(c) ==
    num_objects_per_page(c) * (IF c = 0 THEN FIRST_PAGES ELSE MAX_PAGES_PER_SLAB)

ASSUME SizesAssumption ==
    /\ NSLAB \in Nat \ {0}
    /\ \A c \in Class : /\ num_objects_per_page(c) \in Nat \ {0}
                        /\ SlabSize(c) \in Nat
ASSUME LimitsAssumption ==
    /\ MAX_PAGES_PER_SLAB \in Nat
    /\ FIRST_PAGES \in 1..MAX_PAGES_PER_SLAB - 2
    /\ SPILL \in Nat
ASSUME FramesAssumption == Null \notin Frames /\ Frames \cap Int = {} /\ Null \notin Int
\* A class between the first and the last is not followed past its limit,
\* where page[] lies on further fields of the next class.
ASSUME CallersAssumption ==
    /\ IsFiniteSet(Threads)
    /\ Demand \in [Class -> Nat]
    /\ \A c \in Class \ {0, Last} : Demand[c] <= Capacity(c)
    /\ Last # 0 => Demand[Last] <= num_objects_per_page(Last) * BitmapPages(Last)
-----------------------------------------------------------------------------
(* page[] has MAX_PAGES_PER_SLAB entries and the code uses the indices       *)
(* 1..MAX_PAGES_PER_SLAB: the last one lies on the next class's size field,  *)
(* and for the last class on padding behind the table.                       *)

PageAt(c, k) ==
    IF k = MAX_PAGES_PER_SLAB /\ c # Last THEN size[c + 1] ELSE page[c][k]

StorePage(c, k, f) ==
    IF k = MAX_PAGES_PER_SLAB /\ c # Last
      THEN size' = [size EXCEPT ![c + 1] = f] /\ UNCHANGED page
      ELSE page' = [page EXCEPT ![c][k] = f] /\ UNCHANGED size

Address(c, o) == <<PageAt(c, o[1]), o[2]>>

\* What kalloc() may return: which of the free pages is not ours to say.
kallocResults == IF free = {} THEN {Null} ELSE free
-----------------------------------------------------------------------------
(* The bitmap *)

Before(o, q) == o[1] < q[1] \/ (o[1] = q[1] /\ o[2] < q[2])

\* Faulty: first in its page, but of any page.
FirstInPage(c, o) ==
    /\ o \in Objects(c) \ bitmap[c]
    /\ \A q \in Objects(c) : q[1] = o[1] /\ q[2] < o[2] => q \in bitmap[c]

\* o is the first clear bit.
FirstZero(c, o) ==
    /\ o \in Objects(c) \ bitmap[c]
    /\ \A q \in Objects(c) : Before(q, o) => q \in bitmap[c]

\* setBitmap returns o: the first clear bit, and offset 0 if there is none.
setBitmap(c, o) ==
    \/ FirstZero(c, o)
    \/ bitmap[c] = Objects(c) /\ o = <<1, 0>>

EmptyFirstSlot(bits, k) == <<k, 0>> \notin bits      \* faulty: looks at one bit
EmptyIn(bits, k) == \A o \in bits : o[1] # k
checkEmpty(c, k) == EmptyIn(bitmap[c], k)

\* checkNewpage returns the start of page k, not 0: the first clear bit is the
\* first bit of a page other than page 1 and that page has no set bit.
checkNewpage(c, k) == FirstZero(c, <<k, 0>>) /\ k # 1 /\ checkEmpty(c, k)

\* On a full bitmap the test reads the bytes behind it and may find them clear.
checkPastEnd(c, k) == bitmap[c] = Objects(c) /\ k = BitmapPages(c) + 1

getpageNumObjects(bits) == Cardinality(bits)      \* faulty: counts every object
getpageNum(bits) == Cardinality({o[1] : o \in bits})
-----------------------------------------------------------------------------
Init ==
    /\ others = {}
    /\ size = [c \in Class |-> SlabSize(c)]
    /\ num_pages = [c \in Class |-> 1]
    /\ num_free_objects = [c \in Class |-> Capacity(c)]
    /\ num_used_objects = [c \in Class |-> 0]
    /\ bitmap = [c \in Class |-> {}]
    /\ \E first \in [Class -> Frames] :
         /\ \A c, d \in Class : first[c] = first[d] => c = d
         /\ page = [c \in Class |-> [k \in 1..MAX_PAGES_PER_SLAB + SPILL |->
                                       IF k = 1 THEN first[c] ELSE Null]]
         /\ free = {f \in Frames : \A c \in Class : first[c] # f}
    /\ hung = FALSE
    /\ stray = FALSE
    /\ pc = [t \in Threads |-> "idle"]
    /\ idx = [t \in Threads |-> 0]
    /\ off = [t \in Threads |-> <<1, 0>>]
    /\ live = [c \in Class |-> {}]
-----------------------------------------------------------------------------
(* kmalloc *)

\* Calls for class c that have not yet taken their object.
Asking(c) == {t \in Threads : pc[t] \in {"first", "lock"} /\ idx[t] = c}
Wanted(c) == num_used_objects[c] + Cardinality(Asking(c)) < Demand[c]

\* The test for a full class, without the lock.
OwnClassFull(c) == num_used_objects[c] = num_objects_per_page(c) * MAX_PAGES_PER_SLAB
FirstClassFull == num_used_objects[0] = num_objects_per_page(0) * FIRST_PAGES

\* A call that is refused is not counted in the demand.
KmallocOwnFull(t, c) ==
    /\ pc[t] = "idle" /\ OwnClassFull(c)
    /\ UNCHANGED vars

KmallocEnter(t, c) ==
    /\ pc[t] = "idle" /\ Wanted(c)
    /\ ~OwnClassFull(c)
    /\ pc' = [pc EXCEPT ![t] = "first"]
    /\ idx' = [idx EXCEPT ![t] = c]
    /\ UNCHANGED <<free, others, slabVars, hung, stray, off, live>>

KmallocFirst(t) ==
    /\ pc[t] = "first"
    /\ pc' = [pc EXCEPT ![t] = IF FirstClassFull THEN "idle" ELSE "lock"]
    /\ idx' = [idx EXCEPT ![t] = IF FirstClassFull THEN 0 ELSE @]
    /\ UNCHANGED <<free, others, slabVars, hung, stray, off, live>>

\* A new page, if the first clear bit opens one.
NewPage(c) ==
    \/ \E k \in 1..BitmapPages(c) + 1 :
         /\ checkNewpage(c, k) \/ checkPastEnd(c, k)
         /\ num_used_objects[c] # 0
         /\ \E f \in kallocResults : free' = free \ {f} /\ StorePage(c, k, f)
    \/ /\ num_used_objects[c] = 0 \/ \A k \in 1..BitmapPages(c) : ~checkNewpage(c, k)
       /\ UNCHANGED <<free, page, size>>

\* The critical section up to getpageNum, for the object o.
TakeObject(t, o) ==
    /\ pc[t] = "lock" /\ ~hung
    /\ setBitmap(idx[t], o)
    /\ NewPage(idx[t])
    /\ bitmap' = [bitmap EXCEPT ![idx[t]] = @ \cup {o}]

\* n more objects of class c are used.
Tally(c, n) ==
    /\ num_used_objects' = [num_used_objects EXCEPT ![c] = @ + n]
    /\ num_free_objects' = [num_free_objects EXCEPT ![c] = @ - n]

KmallocTake(t, o) ==
    LET c == idx[t] IN
    /\ TakeObject(t, o)
    /\ size[c] = SlabSize(c)
    /\ num_pages' = [num_pages EXCEPT ![c] = getpageNum(bitmap[c] \cup {o})]
    /\ Tally(c, 1)
    /\ off' = [off EXCEPT ![t] = o]
    /\ pc' = [pc EXCEPT ![t] = "return"]
    /\ UNCHANGED <<others, hung, idx, live>>
    \* an entry behind page[] was written, or the object on a null page cleared
    /\ stray' = (stray \/ o[1] > MAX_PAGES_PER_SLAB \/ PageAt(c, o[1])' = Null)

\* getpageNum steps by PGSIZE/size and 512/size, which are 0 when size is a
\* pointer: its loop does not end and the lock is not released.
KmallocHang(t, o) ==
    /\ TakeObject(t, o)
    /\ size[idx[t]] # SlabSize(idx[t])
    /\ hung' = TRUE
    /\ pc' = [pc EXCEPT ![t] = "hung"]
    /\ UNCHANGED <<others, num_pages, num_free_objects, num_used_objects, stray,
                   idx, off, live>>

\* page[] is read again after the release; 0 tells the caller that it failed.
KmallocReturn(t) ==
    LET a == Address(idx[t], off[t]) IN
    /\ pc[t] = "return"
    /\ pc' = [pc EXCEPT ![t] = "idle"]
    /\ live' = [live EXCEPT ![idx[t]] = IF a = <<Null, 0>> THEN @ ELSE @ \cup {a}]
    /\ idx' = [idx EXCEPT ![t] = 0]
    /\ off' = [off EXCEPT ![t] = <<1, 0>>]
    /\ UNCHANGED <<free, others, slabVars, hung, stray>>
-----------------------------------------------------------------------------
(* kmfree *)

\* The loop over page[1..100] stops at k.
FindPage(c, f, k) ==
    /\ PageAt(c, k) = f
    /\ \A j \in 1..k - 1 : PageAt(c, j) # f

\* (addr - page)/size; the quotient is 0 when size is a pointer.
SlotOfPage(c, i) == 0      \* faulty: drops the offset in the page
SlotOf(c, i) == IF size[c] = SlabSize(c) THEN i ELSE 0

kmfree(t, c, a) ==
    /\ pc[t] = "idle" /\ ~hung
    /\ a \in live[c]
    /\ live' = [live EXCEPT ![c] = @ \ {a}]
    /\ num_used_objects[c] # 0
    /\ \E k \in 1..MAX_PAGES_PER_SLAB :
         LET o == <<k, SlotOf(c, a[2])>>
             bits == bitmap[c] \ {o}
             n == IF o \in bitmap[c] THEN 1 ELSE 0
             last == k # 1 /\ EmptyIn(bits, k)
         IN /\ FindPage(c, a[1], k)
            /\ bitmap' = [bitmap EXCEPT ![c] = bits]
            /\ Tally(c, -n)
            /\ free' = IF last THEN free \cup ({a[1]} \cap Frames) ELSE free
            /\ hung' = (last /\ a[1] \notin Frames)      \* kfree panics
            /\ num_pages' = [num_pages EXCEPT ![c] = IF last THEN @ - 1 ELSE @]
    /\ UNCHANGED <<others, size, page, stray, pc, idx, off>>

\* The class counts no object, or page[] has no frame for the address: the
\* object stays taken, and in the second case a bit far outside is cleared.
KmfreeLost(t, c, a) ==
    /\ pc[t] = "idle" /\ ~hung
    /\ a \in live[c]
    /\ live' = [live EXCEPT ![c] = @ \ {a}]
    /\ \/ num_used_objects[c] = 0 /\ UNCHANGED stray
       \/ /\ num_used_objects[c] # 0
          /\ \A k \in 1..MAX_PAGES_PER_SLAB : PageAt(c, k) # a[1]
          /\ stray' = TRUE
    /\ UNCHANGED <<free, others, slabVars, hung, pc, idx, off>>
-----------------------------------------------------------------------------
(* The rest of the kernel takes and returns frames of its own. *)

RestAlloc(f) ==
    /\ f \in free
    /\ free' = free \ {f}
    /\ others' = others \cup {f}
    /\ UNCHANGED <<slabVars, hung, stray, pc, idx, off, live>>

RestFree(f) ==
    /\ f \in others
    /\ others' = others \ {f}
    /\ free' = free \cup {f}
    /\ UNCHANGED <<slabVars, hung, stray, pc, idx, off, live>>
-----------------------------------------------------------------------------
Step(t) ==
    \/ \E c \in Class : KmallocOwnFull(t, c) \/ KmallocEnter(t, c)
    \/ KmallocFirst(t)
    \/ \E o \in Objects(idx[t]) : KmallocTake(t, o) \/ KmallocHang(t, o)
    \/ KmallocReturn(t)
    \/ \E c \in Class : \E a \in live[c] : kmfree(t, c, a) \/ KmfreeLost(t, c, a)

Rest == \E f \in Frames : RestAlloc(f) \/ RestFree(f)

\* Calls of different threads overlap as the scheduler likes.
Next == (\E t \in Threads : Step(t)) \/ Rest
Spec == Init /\ [][Next]_vars

-----------------------------------------------------------------------------
TypeOK ==
    /\ free \subseteq Frames /\ others \subseteq Frames
    /\ DOMAIN size = Class
    /\ \A c \in Class : size[c] \in {SlabSize(c), Null} \cup Frames
    /\ num_pages \in [Class -> Int]
    /\ num_free_objects \in [Class -> Int]
    /\ num_used_objects \in [Class -> Int]
    /\ DOMAIN bitmap = Class /\ \A c \in Class : bitmap[c] \subseteq Objects(c)
    /\ page \in [Class -> [1..MAX_PAGES_PER_SLAB + SPILL -> Frames \cup {Null}]]
    /\ hung \in BOOLEAN /\ stray \in BOOLEAN
    /\ pc \in [Threads -> {"idle", "first", "lock", "return", "hung"}]
    /\ idx \in [Threads -> Class]
    /\ DOMAIN off = Threads
    /\ \A t \in Threads : /\ off[t] \in Objects(idx[t])
                           /\ (pc[t] # "return" => off[t] = <<1, 0>>)
    /\ DOMAIN live = Class
    /\ \A c \in Class : live[c] \subseteq (Frames \cup {Null} \cup Nat) \X Slots(c)

\* Pages that hold a frame: page 1 for ever, a later one while it has objects.
Backed(c) == {1} \cup {o[1] : o \in bitmap[c]}
Returning(c) == {t \in Threads : pc[t] = "return" /\ idx[t] = c}

\* kalloc() has not failed under kmalloc, and no size field is overwritten.
Sound == ~stray /\ \A c \in Class : size[c] = SlabSize(c)

\* The object a kmalloc is about to return is in nobody's hands and no other
\* call is about to return it (slabtest TEST4: every object keeps what was
\* written to it), as long as kalloc() has not failed under kmalloc.
NoOverlap == Sound =>
    \A c \in Class : \A t \in Returning(c) :
      /\ Address(c, off[t]) \notin live[c]
      /\ \A u \in Returning(c) : off[u] = off[t] => u = t

\* The set bits of a class are the objects callers hold or are about to get:
\* none is lost, none is handed out without its bit.
BitsAreObjects == Sound =>
    \A c \in Class :
      {Address(c, o) : o \in bitmap[c]} =
        live[c] \cup {Address(c, off[t]) : t \in Returning(c)}

\* A frame backs one page of one class, and while it does it is neither on
\* the free list nor in use by the rest of the kernel; kmfree and kmalloc
\* lose no frame.
FramesApart == Sound =>
    /\ \A c, d \in Class : \A j \in Backed(c), k \in Backed(d) :
         PageAt(c, j) = PageAt(d, k) => c = d /\ j = k
    /\ \A c \in Class : \A k \in Backed(c) : PageAt(c, k) \in Frames \ (free \cup others)
    /\ free \cap others = {}
    /\ Frames = free \cup others \cup UNION {{PageAt(c, k) : k \in Backed(c)} : c \in Class}

\* The counters that slabdump prints agree with the bitmap, although
\* num_pages is recounted by kmalloc and decremented by kmfree, until a call
\* hangs half way.
CountersExact == ~hung =>
    \A c \in Class :
      /\ num_used_objects[c] = Cardinality(bitmap[c])
      /\ num_free_objects[c] = Capacity(c) - num_used_objects[c]
      /\ num_pages[c] = Cardinality(Backed(c))

\* kmfree leaves stale frames in page[]: none of them hides a page that is in
\* use from the search that kmfree makes.
SearchFinds == Sound =>
    \A c \in Class : \A k \in Backed(c) : FindPage(c, PageAt(c, k), k)
=============================================================================
