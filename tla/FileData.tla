------------------------------ MODULE FileData ------------------------------
(***************************************************************************)
(* The contents of files: balloc, bfree, bmap, itrunc, readi and writei of *)
(* fs.c under fileread and filewrite of file.c, from an image that mkfs    *)
(* wrote.  The inode lock is held over readi, writei and itrunc, the       *)
(* bitmap buffer over one search of it; so there is one step for each      *)
(* block copied, for each bit set or cleared, and for each block zeroed.   *)
(* Names, reference counts and the log are in Inodes and Log: here an      *)
(* inode is linked or not, and a transaction is the set of blocks that its *)
(* call gave to log_write.                                                 *)
(***************************************************************************)
EXTENDS Mkfs

CONSTANTS
    Procs,
    Files,            \* struct file
    None,
    Images,           \* lists of files that mkfs is given
    Counts,           \* numbers of bytes that are read
    Writes,           \* sequences of bytes that are written
    MAXOPBLOCKS,
    MaxCalls          \* bound: calls that are made

ASSUME FileDataAssumption ==
    /\ IsFiniteSet(Procs) /\ IsFiniteSet(Files) /\ None \notin Procs
    /\ Counts \subseteq Nat \ {0} /\ MAXOPBLOCKS \in Nat /\ MaxCalls \in Nat

VARIABLES
    bitmap,           \* the blocks whose bit is set
    block,            \* contents of the blocks, as the buffer cache has them
    dinode, ip,       \* the inodes on disk, and in memory
    lock,             \* ip->lock
    file, linked,
    call,             \* of a process: what it does and how far it is
    wrote,            \* the blocks a process gave to log_write in its transaction
    got,              \* what its last read returned
    before,           \* history: contents of an inode when it was last locked
    calls, panicked

fs == <<bitmap, block, dinode>>
vars == <<fs, ip, lock, file, linked, call, wrote, got, before, calls, panicked>>

Blocks == 0 .. FSSIZE - 1
Least(a, b) == IF a < b THEN a ELSE b

Cell(b, c) == Get(block[b], c)

\* The address of block bn of inode i, 0 if it has none.
Addr(i, bn) ==
    IF bn < NDIRECT THEN ip[i].addrs[bn]
    ELSE IF ip[i].addrs[NDIRECT] = 0 THEN 0
    ELSE Cell(ip[i].addrs[NDIRECT], bn - NDIRECT)

Bytes(i) == [k \in 1 .. ip[i].size |-> Cell(Addr(i, (k - 1) \div BSIZE), (k - 1) % BSIZE)]

Idle == [pc |-> "idle"]

Init ==
    /\ \E files \in Images : LET img == Mkfs(files) IN
          /\ bitmap = balloc(img.freeblock)
          /\ block = img.block
          /\ dinode = img.dinode
          /\ linked = 1 .. Len(files) + ROOTINO
    /\ ip = dinode
    /\ lock = [i \in Inums |-> None]
    /\ file \in [Files -> {None} \cup [ip : linked, off : {0}]]    \* some are open
    /\ call = [p \in Procs |-> Idle]
    /\ wrote = [p \in Procs |-> {}]
    /\ got = [p \in Procs |-> <<>>]
    /\ before = [i \in Inums |-> Bytes(i)]
    /\ calls = 0 /\ panicked = FALSE
-----------------------------------------------------------------------------
\* Files are opened, made and unlinked by the calls of Inodes.
Opened(f, i) == file' = [file EXCEPT ![f] = [ip |-> i, off |-> 0]]

open(f, i) ==
    /\ file[f] = None /\ i \in linked
    /\ Opened(f, i)
    /\ UNCHANGED <<fs, ip, lock, linked, call, wrote, got, before, panicked>>

create(f) ==
    LET free == {i \in Inums : dinode[i].type = "free"} IN
    /\ file[f] = None /\ free # {}
    /\ LET i == CHOOSE i \in free : \A j \in free : i <= j IN
       /\ lock[i] = None
       /\ dinode' = [dinode EXCEPT ![i] = [FreeDinode EXCEPT !.type = "file"]]
       /\ ip' = [ip EXCEPT ![i] = dinode'[i]]
       /\ linked' = linked \cup {i}
       /\ Opened(f, i)
    /\ UNCHANGED <<bitmap, block, lock, call, wrote, got, before, panicked>>

\* A call that goes for the lock of inode i.
Call(op, f, i, n, data) ==
    [pc |-> "lock", op |-> op, f |-> f, i |-> i, n |-> n, tot |-> 0, b |-> 0, data |-> data]

Begin(p, c) ==
    /\ call' = [call EXCEPT ![p] = c]
    /\ wrote' = [wrote EXCEPT ![p] = {}]
    /\ UNCHANGED <<fs, ip, lock, got, before, panicked>>

fileread(p, f) ==
    /\ file[f] # None
    /\ \E n \in Counts : Begin(p, Call("read", f, file[f].ip, n, <<>>))
    /\ UNCHANGED <<file, linked>>

\* Each round of filewrite is a transaction of its own, of at most chunk bytes.
chunkWhole == BSIZE * MAXFILE            \* faulty: all in one transaction

chunk == ((MAXOPBLOCKS - 1 - 1 - 2) \div 2) * BSIZE

Round(f, i, bytes) == Call("write", f, i, Least(Len(bytes), chunk), bytes)

filewrite(p, f) ==
    /\ file[f] # None /\ ip[file[f].ip].type = "file"
    /\ \E bytes \in Writes : Begin(p, Round(f, file[f].ip, bytes))
    /\ UNCHANGED <<file, linked>>

\* The last reference to an open file goes, or a name; then iput.
close(p, f) ==
    /\ file[f] # None /\ \A q \in Procs : call[q] # Idle => call[q].f # f
    /\ file' = [file EXCEPT ![f] = None]
    /\ Begin(p, Call("iput", None, file[f].ip, 0, <<>>))
    /\ UNCHANGED linked

unlink(p, i) ==
    /\ i \in linked \ {ROOTINO} /\ lock[i] = None
    /\ linked' = linked \ {i}
    /\ Begin(p, Call("iput", None, i, 0, <<>>))
    /\ UNCHANGED file

Start(p) ==
    /\ call[p] = Idle /\ calls < MaxCalls
    /\ calls' = calls + 1
    /\ \/ \E f \in Files : create(f) \/ fileread(p, f) \/ filewrite(p, f) \/ close(p, f)
       \/ \E i \in Inums : unlink(p, i) \/ \E f \in Files : open(f, i)
-----------------------------------------------------------------------------
Refs(i) == Cardinality({f \in Files : file[f] # None /\ file[f].ip = i})
             + Cardinality({q \in Procs : call[q] # Idle /\ call[q].op = "iput" /\ call[q].i = i})

\* The checks that readi, writei and iput make once they have the lock.
readi(c) == LET off == file[c.f].off IN
    IF off > ip[c.i].size THEN [c EXCEPT !.pc = "failed"]
    ELSE [c EXCEPT !.pc = "copy", !.n = Least(@, ip[c.i].size - off)]

writei(c) == LET off == file[c.f].off IN
    [c EXCEPT !.pc = IF off > ip[c.i].size \/ off + c.n > MAXFILE * BSIZE THEN "failed" ELSE "copy"]

iputUnlinked(c) ==                       \* faulty: does not look at the references
    [c EXCEPT !.pc = IF c.i \notin linked THEN "trunc" ELSE "unlock"]

iput(c) == [c EXCEPT !.pc = IF c.i \notin linked /\ Refs(c.i) = 1 THEN "trunc" ELSE "unlock"]

ilock(p) == LET c == call[p] IN
    /\ c.pc = "lock" /\ lock[c.i] = None
    /\ lock' = [lock EXCEPT ![c.i] = p]
    /\ before' = [before EXCEPT ![c.i] = Bytes(c.i)]
    /\ call' = [call EXCEPT ![p] = CASE c.op = "read" -> readi(c)
                                     [] c.op = "write" -> writei(c)
                                     [] c.op = "iput" -> iput(c)]
    /\ UNCHANGED <<fs, ip, file, linked, wrote, got, calls, panicked>>

\* The loop of readi and writei: at byte Off of the file, in block bn.
Off(c) == file[c.f].off + c.tot
bn(c) == Off(c) \div BSIZE
Copying(c) == c.pc = "copy" /\ c.tot < c.n
Wrote(p, bs) == wrote' = [wrote EXCEPT ![p] = @ \cup bs]
Panic == panicked' = TRUE /\ UNCHANGED <<fs, ip, lock, file, linked, call, wrote, got, before, calls>>

\* bmap finds no address: balloc takes the first free block.
FreeBlocksAll == Blocks \ (bitmap \ {FSSIZE - 1})   \* faulty: one bit too many

FreeBlocks == Blocks \ bitmap

ballocBit(p) == LET b == CHOOSE b \in FreeBlocks : \A k \in FreeBlocks : b <= k IN
    /\ Copying(call[p]) /\ Addr(call[p].i, bn(call[p])) = 0 /\ FreeBlocks # {}
    /\ bitmap' = bitmap \cup {b}
    /\ Wrote(p, {BBLOCK(b)})
    /\ call' = [call EXCEPT ![p].pc = "zero", ![p].b = b]
    /\ UNCHANGED <<block, dinode, ip, lock, file, linked, got, before, calls, panicked>>

ballocPanic(p) ==
    /\ Copying(call[p]) /\ Addr(call[p].i, bn(call[p])) = 0 /\ FreeBlocks = {}
    /\ Panic

\* The end of balloc, and what bmap does with the new block.
bmap(p) ==
    LET c == call[p]
        n == IF bn(c) < NDIRECT THEN bn(c) ELSE NDIRECT
        ind == ip[c.i].addrs[NDIRECT]
        zeroed == [block EXCEPT ![c.b] = Zeroes]
    IN
    /\ c.pc = "zero"
    /\ IF n < NDIRECT \/ ind = 0
       THEN /\ ip' = [ip EXCEPT ![c.i].addrs[n] = c.b]
            /\ block' = zeroed
            /\ Wrote(p, {c.b})
       ELSE /\ block' = [zeroed EXCEPT ![ind] = Put(@, bn(c) - NDIRECT, c.b)]
            /\ Wrote(p, {c.b, ind})
            /\ UNCHANGED ip
    /\ call' = [call EXCEPT ![p].pc = "copy", ![p].b = 0]
    /\ UNCHANGED <<bitmap, dinode, lock, file, linked, got, before, calls, panicked>>

\* One block is copied: m bytes from or to place at of the block.
copy(p) ==
    LET c == call[p]
        a == Addr(c.i, bn(c))
        at == Off(c) % BSIZE
        m == Least(c.n - c.tot, BSIZE - at)
    IN
    /\ Copying(c) /\ a # 0
    /\ IF c.op = "read"
       THEN /\ call' = [call EXCEPT ![p].tot = @ + m,
                                    ![p].data = @ \o [k \in 1 .. m |-> Cell(a, at + k - 1)]]
            /\ UNCHANGED <<block, wrote>>
       ELSE /\ block' = [block EXCEPT ![a] =
                           [x \in DOMAIN @ \cup at .. at + m - 1 |->
                              IF x \in at .. at + m - 1 THEN c.data[c.tot + x - at + 1] ELSE @[x]]]
            /\ Wrote(p, {a})
            /\ call' = [call EXCEPT ![p].tot = @ + m]
    /\ UNCHANGED <<bitmap, dinode, ip, lock, file, linked, got, before, calls, panicked>>

\* The end of readi, and of fileread.
readDone(p) == LET c == call[p] IN
    /\ c.pc = "copy" /\ c.op = "read" /\ c.tot = c.n
    /\ file' = [file EXCEPT ![c.f].off = @ + c.n]
    /\ got' = [got EXCEPT ![p] = c.data]
    /\ lock' = [lock EXCEPT ![c.i] = None]
    /\ call' = [call EXCEPT ![p] = Idle]
    /\ UNCHANGED <<fs, ip, linked, wrote, before, calls, panicked>>

\* The end of writei: the size grows, and the inode is written.
iupdate(p, i) == dinode' = [dinode EXCEPT ![i] = ip'[i]] /\ Wrote(p, {IBLOCK(i)})

GrowsAlways(c) == c.n > 0                \* faulty: sets the size after any write

Grows(c) == c.n > 0 /\ Off(c) > ip[c.i].size

writeDone(p) == LET c == call[p] IN
    /\ c.pc = "copy" /\ c.op = "write" /\ c.tot = c.n
    /\ IF Grows(c)
       THEN ip' = [ip EXCEPT ![c.i].size = Off(c)] /\ iupdate(p, c.i)
       ELSE UNCHANGED <<ip, dinode, wrote>>
    /\ file' = [file EXCEPT ![c.f].off = @ + c.n]
    /\ lock' = [lock EXCEPT ![c.i] = None]
    /\ call' = [call EXCEPT ![p].pc = "next"]
    /\ UNCHANGED <<bitmap, block, linked, got, before, calls, panicked>>

failed(p) == LET c == call[p] IN
    /\ c.pc = "failed"
    /\ lock' = [lock EXCEPT ![c.i] = None]
    /\ call' = [call EXCEPT ![p] = Idle]
    /\ UNCHANGED <<fs, ip, file, linked, wrote, got, before, calls, panicked>>

\* The loop of filewrite.
NextRound(p) == LET c == call[p] IN
    /\ c.pc = "next"
    /\ IF Len(c.data) > c.n
       THEN Begin(p, Round(c.f, c.i, SubSeq(c.data, c.n + 1, Len(c.data))))
       ELSE /\ call' = [call EXCEPT ![p] = Idle]
            /\ UNCHANGED <<fs, ip, lock, wrote, got, before, panicked>>
    /\ UNCHANGED <<file, linked, calls>>
-----------------------------------------------------------------------------
bfree(p, b) ==
    /\ bitmap' = bitmap \ {b}
    /\ Wrote(p, {BBLOCK(b)})

\* itrunc: the direct blocks, the blocks of the indirect block (tot counts them),
\* and that block.
Direct(i) == {n \in 0 .. NDIRECT - 1 : ip[i].addrs[n] # 0}
Truncating(p) == call[p].pc = "trunc"

truncDirect(p) == \E n \in Direct(call[p].i) : LET i == call[p].i IN
    /\ Truncating(p) /\ \A k \in Direct(i) : n <= k
    /\ bfree(p, ip[i].addrs[n])
    /\ ip' = [ip EXCEPT ![i].addrs[n] = 0]
    /\ UNCHANGED <<block, dinode, lock, file, linked, call, got, before, calls, panicked>>

truncEntry(p) == LET i == call[p].i  ind == ip[i].addrs[NDIRECT]  j == call[p].tot IN
    /\ Truncating(p) /\ Direct(i) = {} /\ ind # 0 /\ j < NINDIRECT
    /\ IF Cell(ind, j) # 0 THEN bfree(p, Cell(ind, j)) ELSE UNCHANGED <<bitmap, wrote>>
    /\ call' = [call EXCEPT ![p].tot = @ + 1]
    /\ UNCHANGED <<block, dinode, ip, lock, file, linked, got, before, calls, panicked>>

truncIndirect(p) == LET i == call[p].i  ind == ip[i].addrs[NDIRECT] IN
    /\ Truncating(p) /\ Direct(i) = {} /\ ind # 0 /\ call[p].tot = NINDIRECT
    /\ bfree(p, ind)
    /\ ip' = [ip EXCEPT ![i].addrs[NDIRECT] = 0]
    /\ UNCHANGED <<block, dinode, lock, file, linked, call, got, before, calls, panicked>>

\* The inode is free, on disk too.
truncEnd(p) == LET i == call[p].i IN
    /\ Truncating(p) /\ Direct(i) = {} /\ ip[i].addrs[NDIRECT] = 0
    /\ ip' = [ip EXCEPT ![i].size = 0, ![i].type = "free"]
    /\ iupdate(p, i)
    /\ call' = [call EXCEPT ![p].pc = "unlock"]
    /\ UNCHANGED <<bitmap, block, lock, file, linked, got, before, calls, panicked>>

\* The end of iput: the lock, then the reference.
iunlock(p) ==
    /\ call[p].pc = "unlock"
    /\ lock' = [lock EXCEPT ![call[p].i] = None]
    /\ call' = [call EXCEPT ![p].pc = "drop"]
    /\ UNCHANGED <<fs, ip, file, linked, wrote, got, before, calls, panicked>>

idrop(p) ==
    /\ call[p].pc = "drop"
    /\ call' = [call EXCEPT ![p] = Idle]
    /\ UNCHANGED <<fs, ip, lock, file, linked, wrote, got, before, calls, panicked>>

Step(p) ==
    \/ ilock(p) \/ ballocBit(p) \/ ballocPanic(p) \/ bmap(p) \/ copy(p)
    \/ readDone(p) \/ writeDone(p) \/ failed(p) \/ NextRound(p)
    \/ truncDirect(p) \/ truncEntry(p) \/ truncIndirect(p) \/ truncEnd(p) \/ iunlock(p) \/ idrop(p)

Next == ~panicked /\ \E p \in Procs : Start(p) \/ (call[p] # Idle /\ Step(p))
Spec == Init /\ [][Next]_vars
-----------------------------------------------------------------------------
\* The places that refer to a block: metadata, addresses in memory, entries of
\* indirect blocks not yet freed, and the variable of a process between balloc
\* and bmap.
Places ==
    {<<"meta", b>> : b \in 0 .. nmeta - 1}
      \cup {<<"addr", i, n>> : i \in Inums, n \in 0 .. NDIRECT}
      \cup {<<"entry", i, e>> : i \in Inums, e \in 0 .. NINDIRECT - 1}
      \cup {<<"call", p>> : p \in Procs}

Freed(i, e) == \E p \in Procs : lock[i] = p /\ Truncating(p) /\ e < call[p].tot

At(pl) ==
    CASE pl[1] = "meta" -> pl[2]
      [] pl[1] = "addr" -> ip[pl[2]].addrs[pl[3]]
      [] pl[1] = "entry" -> IF Freed(pl[2], pl[3]) THEN 0 ELSE Addr(pl[2], NDIRECT + pl[3])
      [] pl[1] = "call" -> IF call[pl[2]] = Idle THEN 0 ELSE call[pl[2]].b

\* A block is marked in the bitmap exactly if something refers to it, and one
\* thing only: no block of one file, or of the inodes or the log, becomes a
\* block of another file, and none is lost, whatever calls race in balloc and
\* bfree (so "freeing free block" cannot happen).  Block 0 is the boot block.
BlocksExact ==
    LET used == {pl \in Places : At(pl) # 0}
    IN  /\ bitmap = {0} \cup {At(pl) : pl \in used}
        /\ Cardinality(used) = Cardinality({At(pl) : pl \in used})

\* An inode that is not locked is on disk as it is in memory, and has a block
\* for every byte up to its size and no other: fileread, which runs outside of
\* any transaction, never gets to balloc, and no address is lost when the inode
\* leaves the cache.
NoHoles == \A i \in Inums : lock[i] = None =>
    /\ ip[i] = dinode[i]
    /\ \A n \in 0 .. MAXFILE - 1 : Addr(i, n) # 0 <=> n * BSIZE < ip[i].size

\* A call gives at most MAXOPBLOCKS different blocks to log_write between
\* begin_op and end_op, which is what begin_op reserves for it.
OpFits == \A p \in Procs : Cardinality(wrote[p]) <= MAXOPBLOCKS

PiecesOf(s) == {SubSeq(s, j, k) : j \in 1 .. Len(s), k \in 1 .. Len(s)}

\* What mkfs was given: the directory, filled with free entries to whole blocks.
Given(files) == [i \in Inums |->
    IF i = ROOTINO
    THEN LET n == 2 + Len(files) IN
         [k \in 1 .. RootSize(n) |-> IF k <= 2 THEN 1 ELSE IF k <= n THEN k - 1 ELSE 0]
    ELSE IF i - ROOTINO <= Len(files) THEN files[i - ROOTINO] ELSE <<>>]

F == INSTANCE FileStore WITH
       contents <- [i \in Inums |-> IF lock[i] = None THEN Bytes(i) ELSE before[i]],
       Initial <- {Given(files) : files \in Images},
       Pieces <- UNION {PiecesOf(s) : s \in Writes}

\* Reads return what was last written, from the offset that the processes which
\* share the file have reached together; a round of a write is one step for
\* everyone else; an extension shows no old contents of its blocks; contents
\* last while the file is linked or open.
ImplementsFileStore == F!Spec
=============================================================================
