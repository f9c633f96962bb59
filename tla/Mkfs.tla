-------------------------------- MODULE Mkfs --------------------------------
(***************************************************************************)
(* The disk layout of fs.h and mkfs.c, the program that writes the first   *)
(* image of the file system.  A block is a partial function from cell      *)
(* numbers to bytes or block numbers; a cell outside its domain is 0.      *)
(***************************************************************************)
EXTENDS Naturals, Sequences, FiniteSets, SequencesExt, Folds

CONSTANTS
    BSIZE,            \* bytes in a block; a directory entry is one byte
    NDIRECT, NINDIRECT,
    IPB, BPB,         \* inodes, bits in a block
    NINODES, FSSIZE, LOGSIZE

ASSUME LayoutAssumption ==
    /\ {BSIZE, NDIRECT, NINDIRECT, IPB, BPB, NINODES, FSSIZE, LOGSIZE} \subseteq Nat \ {0}
    /\ FSSIZE <= BPB              \* "assert(used < BSIZE*8)": one bitmap block

MAXFILE == NDIRECT + NINDIRECT
ROOTINO == 1
Inums == 1 .. NINODES - 1

nbitmap == FSSIZE \div BPB + 1
ninodeblocks == NINODES \div IPB + 1
nmeta == 2 + LOGSIZE + ninodeblocks + nbitmap
sb == [size |-> FSSIZE, ninodes |-> NINODES, logstart |-> 2,
       inodestart |-> 2 + LOGSIZE, bmapstart |-> 2 + LOGSIZE + ninodeblocks]

IBLOCK(i) == i \div IPB + sb.inodestart
BBLOCK(b) == b \div BPB + sb.bmapstart

Zeroes == [c \in {} |-> 0]
Get(blk, c) == IF c \in DOMAIN blk THEN blk[c] ELSE 0
Put(blk, c, v) == [x \in DOMAIN blk \cup {c} |-> IF x = c THEN v ELSE blk[x]]

FreeDinode == [type |-> "free", size |-> 0, addrs |-> [n \in 0 .. NDIRECT |-> 0]]

\* The image as it grows: the blocks, the inodes, and freeblock.
Empty == [block |-> [b \in 0 .. FSSIZE - 1 |-> Zeroes],
          dinode |-> [i \in Inums |-> FreeDinode], freeblock |-> nmeta]

rinode(img, inum) == img.dinode[inum]
winode(img, inum, din) == [img EXCEPT !.dinode[inum] = din]

ialloc(img, inum, type) == winode(img, inum, [FreeDinode EXCEPT !.type = type])

\* An address that is 0 takes the next free block.
Fresh(img, addr) == IF addr = 0 THEN img.freeblock ELSE addr
Taken(img, addr) == IF addr = 0 THEN img.freeblock + 1 ELSE img.freeblock

iappendDirect(img, inum, off, byte) ==
    LET fbn == off \div BSIZE
        x == Fresh(img, img.dinode[inum].addrs[fbn])
    IN  [img EXCEPT !.freeblock = Taken(img, img.dinode[inum].addrs[fbn]),
                    !.dinode[inum].addrs[fbn] = x,
                    !.block[x] = Put(@, off % BSIZE, byte)]

iappendIndirect(img, inum, off, byte) ==
    LET e == off \div BSIZE - NDIRECT
        ind == Fresh(img, img.dinode[inum].addrs[NDIRECT])
        img1 == [img EXCEPT !.freeblock = Taken(img, img.dinode[inum].addrs[NDIRECT]),
                            !.dinode[inum].addrs[NDIRECT] = ind]
        x == Fresh(img1, Get(img1.block[ind], e))
    IN  [img1 EXCEPT !.freeblock = Taken(img1, Get(img1.block[ind], e)),
                     !.block = [@ EXCEPT ![ind] = Put(@, e, x), ![x] = Put(@, off % BSIZE, byte)]]

\* iappend, a byte at a time.
iappendByte(img, inum, byte) ==
    LET off == rinode(img, inum).size
        img1 == IF off \div BSIZE < NDIRECT THEN iappendDirect(img, inum, off, byte)
                                            ELSE iappendIndirect(img, inum, off, byte)
    IN  winode(img1, inum, [rinode(img1, inum) EXCEPT !.size = off + 1])

iappend(img, inum, bytes) == FoldLeft(LAMBDA im, b : iappendByte(im, inum, b), img, bytes)

\* A file, from its directory entry to its contents.
AddFile(img, inum, bytes) ==
    iappend(iappend(ialloc(img, inum, "file"), ROOTINO, <<inum>>), inum, bytes)

\* "fix size of root inode dir": whole blocks.
RootSizeNext(off) == off + BSIZE         \* faulty: a block more than there is

RootSize(off) == (off \div BSIZE + 1) * BSIZE

\* The image of the directory ".", ".." and the given files, and its bitmap.
Mkfs(files) ==
    LET root == iappend(ialloc(Empty, ROOTINO, "dir"), ROOTINO, <<ROOTINO, ROOTINO>>)
        full == FoldLeft(LAMBDA im, k : AddFile(im, k + ROOTINO, files[k]), root,
                         [k \in 1 .. Len(files) |-> k])
    IN  winode(full, ROOTINO, [rinode(full, ROOTINO) EXCEPT !.size = RootSize(@)])

balloc(used) == 0 .. used - 1
=============================================================================
