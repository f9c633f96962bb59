------------------------------- MODULE Inodes -------------------------------
(***************************************************************************)
(* Inodes and directories: the inode cache of fs.c and the calls of        *)
(* sysfile.c that take, link and give up inodes.  A step is a stretch of   *)
(* code between two points where another process can get in: taking the    *)
(* sleep lock of an inode, a hold of icache.lock, the search of ialloc.    *)
(* Every call is inside one transaction (Log), so a crash is not a concern *)
(* of this module.  A path is one name below the root or the current       *)
(* directory; a longer one is walked by the same step again.               *)
(***************************************************************************)
EXTENDS Naturals, FiniteSets, Sequences, SequencesExt, FiniteSetsExt

CONSTANTS
    Procs,
    None,             \* no process
    NINODES,          \* sb.ninodes: inodes 1..NINODES, of which 1 is the root
    Names, DotDot,    \* names of a directory's entries; its parent's
    Calls,            \* the system calls made
    Bases,            \* where paths start: a subset of {"/", "."}
    MaxOpen,          \* bound: processes with an open file, or opening one
    StaleParent       \* bound: whether ".." is looked up in removed directories

ROOTINO == 1
Inums == 1..NINODES
Entries == 1..NINODES      \* bound: NINODE is large enough for every inode
AllNames == Names \cup {DotDot}

ASSUME InodesAssumption ==
    /\ NINODES \in Nat \ {0} /\ DotDot \notin Names /\ None \notin Procs
    /\ IsFiniteSet(Procs) /\ IsFiniteSet(Names) /\ Bases \subseteq {"/", "."}
    /\ StaleParent \in BOOLEAN /\ MaxOpen \in Nat

VARIABLES
    dinode,           \* the inodes on disk and what their directories contain
    cache,            \* icache.inode
    lock,             \* cache entry -> the process that has ip->lock
    fh, cwd,          \* process -> entry of its open file (0: none), of its directory
    pc, arg, dp, ip,  \* process -> step, arguments and inodes of its call
    put,              \* process -> entries it is to iput, before its next step
    stage,            \* process -> where in iput it is
    panicked

vars == <<dinode, cache, lock, fh, cwd, pc, arg, dp, ip, put, stage, panicked>>
calls == <<pc, arg, dp, ip, put, stage>>

Empty == [n \in AllNames |-> 0]
NoArg == [call |-> "none", base |-> "/", name |-> DotDot, new |-> DotDot]
Free == [type |-> "free", nlink |-> 0, ents |-> Empty]

\* An entry without references.  What the last inode left in it (and iget
\* must not believe) is abstracted to one content, marked valid.
Stale == [inum |-> 0, ref |-> 0, valid |-> TRUE, type |-> "free", nlink |-> 0]

\* A new file system; every process is in its root directory.
Init ==
    /\ dinode = [i \in Inums |->
          IF i = ROOTINO THEN [type |-> "dir", nlink |-> 1, ents |-> [Empty EXCEPT ![DotDot] = ROOTINO]]
          ELSE Free]
    /\ cache = [e \in Entries |->
          IF e = 1 THEN [inum |-> ROOTINO, ref |-> Cardinality(Procs), valid |-> FALSE,
                         type |-> "free", nlink |-> 0]
          ELSE Stale]
    /\ lock = [e \in Entries |-> None]
    /\ fh = [p \in Procs |-> 0] /\ cwd = [p \in Procs |-> 1]
    /\ pc = [p \in Procs |-> "user"] /\ arg = [p \in Procs |-> NoArg]
    /\ dp = [p \in Procs |-> 0] /\ ip = [p \in Procs |-> 0]
    /\ put = [p \in Procs |-> <<>>] /\ stage = [p \in Procs |-> "lock"]
    /\ panicked = "no"
-----------------------------------------------------------------------------
Cached(c, i) == {e \in Entries : c[e].ref > 0 /\ c[e].inum = i}

\* iget, as the entry it returns and the cache it leaves.
igot(c, i) == IF Cached(c, i) # {} THEN Min(Cached(c, i)) ELSE Min({e \in Entries : c[e].ref = 0})

igetStale(c, i) ==                       \* faulty: ip->valid is left
    IF Cached(c, i) # {} THEN [c EXCEPT ![igot(c, i)].ref = @ + 1]
    ELSE [c EXCEPT ![igot(c, i)].inum = i, ![igot(c, i)].ref = 1]

iget(c, i) ==
    IF Cached(c, i) # {} THEN [c EXCEPT ![igot(c, i)].ref = @ + 1]
    ELSE [c EXCEPT ![igot(c, i)].inum = i, ![igot(c, i)].ref = 1, ![igot(c, i)].valid = FALSE]

idup(c, e) == [c EXCEPT ![e].ref = @ + 1]

\* ilock: the lock is free, and the entry is read if it is not valid.
CanLock(p, e) == lock[e] \in {None, p}

ilock(c, e) ==
    IF c[e].valid THEN c
    ELSE LET d == dinode[c[e].inum] IN
         [c EXCEPT ![e].valid = TRUE, ![e].type = d.type, ![e].nlink = d.nlink]

\* "ilock: no type"
NoType(e) == ~cache[e].valid /\ dinode[cache[e].inum].type = "free"

\* iupdate with a new link count: the cache is write-through.
SetLinks(c, e, n) == [c EXCEPT ![e].nlink = n]
iupdate(d, c, e) == [d EXCEPT ![c[e].inum].nlink = c[e].nlink, ![c[e].inum].type = c[e].type]

Hold(p, e) == lock' = [lock EXCEPT ![e] = p]
Unlock(e) == lock' = [lock EXCEPT ![e] = None]

\* A process at step a of its call, with nothing to put first.
At(p, a) == panicked = "no" /\ pc[p] = a /\ put[p] = <<>>

\* It waits for the lock of e and has it; "ilock: no type" is a panic.
Locks(p, e) == CanLock(p, e) /\ panicked' = IF NoType(e) THEN "ilock: no type" ELSE "no"

\* It puts the entries s and goes on at a, or returns to the user.
Goto(p, a, s) ==
    /\ pc' = [pc EXCEPT ![p] = a] /\ put' = [put EXCEPT ![p] = s]
    /\ UNCHANGED <<arg, stage>>

Return(p, s) ==
    /\ pc' = [pc EXCEPT ![p] = "user"] /\ put' = [put EXCEPT ![p] = s]
    /\ arg' = [arg EXCEPT ![p] = NoArg]
    /\ dp' = [dp EXCEPT ![p] = 0] /\ ip' = [ip EXCEPT ![p] = 0]
    /\ UNCHANGED stage

\* The start of namex: the root or the current directory, referenced.
StartDir(p, c) == IF arg'[p].base = "/" THEN igot(c, ROOTINO) ELSE cwd[p]
FromDir(p, c) == IF arg'[p].base = "/" THEN iget(c, ROOTINO) ELSE idup(c, cwd[p])

Child(c, e, n) == dinode[c[e].inum].ents[n]
-----------------------------------------------------------------------------
Arguments ==
    [call : Calls \cap {"chdir"}, base : Bases, name : AllNames, new : {DotDot}]
    \cup [call : Calls \cap {"open", "create", "mkdir", "unlink"}, base : Bases, name : Names, new : {DotDot}]
    \cup [call : Calls \cap {"link"}, base : Bases, name : Names, new : Names]

Opening == {"open", "create"}
Open == {p \in Procs : fh[p] # 0 \/ arg[p].call \in Opening}

Call(p) == \E a \in Arguments :
    /\ At(p, "user")
    /\ a.call \in Opening => fh[p] = 0 /\ Cardinality(Open) < MaxOpen
    /\ arg' = [arg EXCEPT ![p] = a]
    /\ cache' = FromDir(p, cache) /\ dp' = [dp EXCEPT ![p] = StartDir(p, cache)]
    /\ pc' = [pc EXCEPT ![p] = IF a.call \in {"open", "chdir", "link"} THEN "namei" ELSE a.call]
    /\ UNCHANGED <<dinode, lock, fh, cwd, ip, put, stage, panicked>>

sys_close(p) ==
    /\ At(p, "user") /\ fh[p] # 0
    /\ Return(p, <<fh[p]>>)
    /\ fh' = [fh EXCEPT ![p] = 0]
    /\ UNCHANGED <<dinode, cache, lock, cwd, panicked>>

Named(i) == Cardinality({x \in Inums \X Names : dinode[x[1]].ents[x[2]] = i})

\* The parent of a directory that was removed may be gone, and its number
\* another inode's.
LeavesRemoved(p, e) == arg[p].name = DotDot /\ cache[e].inum # ROOTINO /\ Named(cache[e].inum) = 0

\* namei: the entry is looked up and referenced under the directory's lock.
namei(p) ==
    LET e == dp[p] c == ilock(cache, e) i == Child(c, e, arg[p].name) IN
    /\ At(p, "namei") /\ Locks(p, e)
    /\ LeavesRemoved(p, e) => StaleParent
    /\ IF c[e].type # "dir" \/ i = 0
       THEN cache' = c /\ Return(p, <<e>>)
       ELSE /\ cache' = iget(c, i) /\ ip' = [ip EXCEPT ![p] = igot(c, i)]
            /\ Goto(p, arg[p].call, <<e>>) /\ dp' = [dp EXCEPT ![p] = 0]
    /\ UNCHANGED <<dinode, lock, fh, cwd>>

\* The ends of sys_open and sys_chdir.
open(p) ==
    LET e == ip[p] IN
    /\ At(p, "open") /\ Locks(p, e)
    /\ cache' = ilock(cache, e)
    /\ fh' = [fh EXCEPT ![p] = e]
    /\ Return(p, <<>>)
    /\ UNCHANGED <<dinode, lock, cwd>>

chdirLeak(p) ==                          \* faulty: the old directory is not put
    LET e == ip[p] c == ilock(cache, e) IN
    /\ At(p, "chdir") /\ Locks(p, e)
    /\ cache' = c
    /\ cwd' = [cwd EXCEPT ![p] = e] /\ Return(p, <<>>)
    /\ UNCHANGED <<dinode, lock, fh>>

chdir(p) ==
    LET e == ip[p] c == ilock(cache, e) IN
    /\ At(p, "chdir") /\ Locks(p, e)
    /\ cache' = c
    /\ IF c[e].type = "dir"
       THEN cwd' = [cwd EXCEPT ![p] = e] /\ Return(p, <<cwd[p]>>)
       ELSE UNCHANGED cwd /\ Return(p, <<e>>)
    /\ UNCHANGED <<dinode, lock, fh>>
-----------------------------------------------------------------------------
\* sys_link: one more link under the inode's lock; then nameiparent of the new
\* name and, under the directory's lock, its entry.
link(p) ==
    LET e == ip[p]
        c == ilock(cache, e)
        d == SetLinks(c, e, c[e].nlink + 1) IN
    /\ At(p, "link") /\ Locks(p, e)
    /\ IF c[e].type = "dir"
       THEN cache' = c /\ UNCHANGED dinode /\ Return(p, <<e>>)
       ELSE /\ dinode' = iupdate(dinode, d, e)
            /\ Goto(p, "dirlink", <<>>)
            /\ cache' = FromDir(p, d) /\ dp' = [dp EXCEPT ![p] = StartDir(p, d)] /\ UNCHANGED ip
    /\ UNCHANGED <<lock, fh, cwd>>

\* dirlink of the new name; a name that exists is referenced, and put while the
\* directory is locked.
dirlink(p) ==
    LET e == dp[p] c == ilock(cache, e) i == Child(c, e, arg[p].new) IN
    /\ At(p, "dirlink") /\ Locks(p, e)
    /\ \/ /\ i # 0
          /\ cache' = iget(c, i) /\ Hold(p, e) /\ UNCHANGED <<dinode, dp, ip>>
          /\ Goto(p, "unlockdir", <<igot(c, i)>>)
       \/ /\ i = 0
          /\ cache' = c
          /\ dinode' = [dinode EXCEPT ![c[e].inum].ents[arg[p].new] = c[ip[p]].inum]
          /\ UNCHANGED lock /\ Return(p, <<e, ip[p]>>)
    /\ UNCHANGED <<fh, cwd>>

linkbad(p) ==
    LET e == ip[p] c == ilock(cache, e) d == SetLinks(c, e, c[e].nlink - 1) IN
    /\ At(p, "linkbad") /\ Locks(p, e)
    /\ cache' = d /\ dinode' = iupdate(dinode, d, e)
    /\ Return(p, <<e>>)
    /\ UNCHANGED <<lock, fh, cwd>>

\* iunlockput(dp) on the failing paths of dirlink and sys_unlink.
unlockdir(p) ==
    /\ At(p, "unlockdir")
    /\ Unlock(dp[p])
    /\ IF arg[p].call = "link"
       THEN Goto(p, "linkbad", <<dp[p]>>) /\ dp' = [dp EXCEPT ![p] = 0] /\ UNCHANGED ip
       ELSE Return(p, <<dp[p]>>)
    /\ UNCHANGED <<dinode, cache, fh, cwd, panicked>>
-----------------------------------------------------------------------------
\* sys_unlink: the directory is locked, then the inode.
unlink(p) ==
    LET e == dp[p] c == ilock(cache, e) i == Child(c, e, arg[p].name) IN
    /\ At(p, "unlink") /\ Locks(p, e)
    /\ IF i = 0
       THEN cache' = c /\ UNCHANGED lock /\ Return(p, <<e>>)
       ELSE /\ cache' = iget(c, i) /\ Hold(p, e)
            /\ ip' = [ip EXCEPT ![p] = igot(c, i)] /\ Goto(p, "erase", <<>>) /\ UNCHANGED dp
    /\ UNCHANGED <<dinode, fh, cwd>>

isdirempty(i) == \A n \in Names : dinode[i].ents[n] = 0

\* The entry is erased, and the directory unlocked and put, with the inode
\* locked; "unlink: nlink < 1" is a panic.
erase(p) ==
    LET e == ip[p]
        c == ilock(cache, e)
        parent == IF c[e].type = "dir" THEN SetLinks(c, dp[p], c[dp[p]].nlink - 1) ELSE c
    IN
    /\ At(p, "erase") /\ CanLock(p, e)
    /\ panicked' = CASE NoType(e) -> "ilock: no type"
                     [] c[e].nlink < 1 -> "unlink: nlink < 1"
                     [] OTHER -> "no"
    /\ IF c[e].type = "dir" /\ ~isdirempty(c[e].inum)
       THEN /\ cache' = c /\ UNCHANGED <<dinode, lock, dp>> /\ ip' = [ip EXCEPT ![p] = 0]
            /\ Goto(p, "unlockdir", <<e>>)
       ELSE /\ cache' = parent
            /\ dinode' = [iupdate(dinode, parent, dp[p]) EXCEPT
                            ![c[dp[p]].inum].ents[arg[p].name] = 0]
            /\ lock' = [lock EXCEPT ![dp[p]] = None, ![e] = p]
            /\ Goto(p, "unlinked", <<dp[p]>>) /\ dp' = [dp EXCEPT ![p] = 0] /\ UNCHANGED ip
    /\ UNCHANGED <<fh, cwd>>

unlinked(p) ==
    LET e == ip[p] c == SetLinks(cache, e, cache[e].nlink - 1) IN
    /\ At(p, "unlinked")
    /\ cache' = c /\ dinode' = iupdate(dinode, c, e)
    /\ Unlock(e)
    /\ Return(p, <<e>>)
    /\ UNCHANGED <<fh, cwd, panicked>>
-----------------------------------------------------------------------------
\* create, for sys_open with O_CREATE and for sys_mkdir.
create(p) ==
    LET e == dp[p] c == ilock(cache, e) i == Child(c, e, arg[p].name) IN
    /\ (At(p, "create") \/ At(p, "mkdir")) /\ Locks(p, e)
    /\ IF i = 0
       THEN cache' = c /\ Hold(p, e) /\ Goto(p, "ialloc", <<>>) /\ UNCHANGED <<dp, ip>>
       ELSE /\ cache' = iget(c, i) /\ ip' = [ip EXCEPT ![p] = igot(c, i)]
            /\ Goto(p, "exists", <<e>>) /\ dp' = [dp EXCEPT ![p] = 0] /\ UNCHANGED lock
    /\ UNCHANGED <<dinode, fh, cwd>>

exists(p) ==
    LET e == ip[p] c == ilock(cache, e) IN
    /\ At(p, "exists") /\ Locks(p, e)
    /\ cache' = c
    /\ IF arg[p].call = "create" /\ c[e].type = "file"
       THEN fh' = [fh EXCEPT ![p] = e] /\ Return(p, <<>>)
       ELSE UNCHANGED fh /\ Return(p, <<e>>)
    /\ UNCHANGED <<dinode, lock, cwd>>

\* ialloc marks the first free inode on disk, under its buffer's lock; the
\* reference to it is taken in a later step.  The number is kept in ip until
\* then.  "ialloc: no inodes" is a panic.
FreeInums == {i \in Inums : dinode[i].type = "free"}
NewType(p) == IF arg[p].call = "mkdir" THEN "dir" ELSE "file"

ialloc(p) ==
    /\ At(p, "ialloc")
    /\ IF FreeInums = {}
       THEN panicked' = "ialloc: no inodes" /\ UNCHANGED <<dinode, calls>>
       ELSE /\ dinode' = [dinode EXCEPT ![Min(FreeInums)] =
                 [type |-> NewType(p), nlink |-> 0, ents |-> Empty]]
            /\ ip' = [ip EXCEPT ![p] = Min(FreeInums)]
            /\ Goto(p, "iget", <<>>) /\ UNCHANGED <<dp, panicked>>
    /\ UNCHANGED <<cache, lock, fh, cwd>>

iallocated(p) ==
    /\ At(p, "iget")
    /\ cache' = iget(cache, ip[p]) /\ ip' = [ip EXCEPT ![p] = igot(cache, ip[p])]
    /\ Goto(p, "fill", <<>>)
    /\ UNCHANGED <<dinode, lock, fh, cwd, dp, panicked>>

\* The new inode is given its link, a directory its "..", and then its name;
\* the directory is put with the inode locked.
fill(p) ==
    LET e == ip[p]
        c == ilock(cache, e)
        one == SetLinks(c, e, 1)
        dir == arg[p].call = "mkdir"
        d == IF dir THEN SetLinks(one, dp[p], one[dp[p]].nlink + 1) ELSE one
        parent == c[dp[p]].inum
    IN
    /\ At(p, "fill") /\ Locks(p, e)
    /\ cache' = d
    /\ dinode' = [iupdate(iupdate(dinode, d, e), d, dp[p]) EXCEPT
                    ![parent].ents[arg[p].name] = c[e].inum,
                    ![c[e].inum].ents[DotDot] = IF dir THEN parent ELSE 0]
    /\ lock' = [lock EXCEPT ![dp[p]] = None, ![e] = p]
    /\ Goto(p, "created", <<dp[p]>>) /\ dp' = [dp EXCEPT ![p] = 0]
    /\ UNCHANGED <<fh, cwd, ip>>

created(p) ==
    /\ At(p, "created")
    /\ Unlock(ip[p])
    /\ IF arg[p].call = "create"
       THEN fh' = [fh EXCEPT ![p] = ip[p]] /\ Return(p, <<>>)
       ELSE UNCHANGED fh /\ Return(p, <<ip[p]>>)
    /\ UNCHANGED <<dinode, cache, cwd, panicked>>
-----------------------------------------------------------------------------
\* iput: under the inode's lock it finds out whether the inode is to be freed.
LastUseLinked(e) == cache[e].valid /\ cache[e].ref = 1   \* faulty: forgets nlink

LastUse(e) == cache[e].valid /\ cache[e].nlink = 0 /\ cache[e].ref = 1

iput(p) ==
    LET e == Head(put[p]) IN
    /\ panicked = "no" /\ put[p] # <<>> /\ stage[p] = "lock" /\ lock[e] = None
    /\ IF LastUse(e) THEN Hold(p, e) ELSE UNCHANGED lock
    /\ stage' = [stage EXCEPT ![p] = IF LastUse(e) THEN "free" ELSE "drop"]
    /\ UNCHANGED <<dinode, cache, fh, cwd, pc, arg, dp, ip, put, panicked>>

\* itrunc, type 0, iupdate.
ifree(p) ==
    LET e == Head(put[p]) IN
    /\ panicked = "no" /\ put[p] # <<>> /\ stage[p] = "free"
    /\ dinode' = [dinode EXCEPT ![cache[e].inum] = Free]
    /\ cache' = [cache EXCEPT ![e].type = "free", ![e].valid = FALSE]
    /\ Unlock(e)
    /\ stage' = [stage EXCEPT ![p] = "drop"]
    /\ UNCHANGED <<fh, cwd, pc, arg, dp, ip, put, panicked>>

idrop(p) ==
    /\ panicked = "no" /\ put[p] # <<>> /\ stage[p] = "drop"
    /\ cache' = [cache EXCEPT ![Head(put[p])] = IF @.ref = 1 THEN Stale ELSE [@ EXCEPT !.ref = @ - 1]]
    /\ put' = [put EXCEPT ![p] = Tail(@)] /\ stage' = [stage EXCEPT ![p] = "lock"]
    /\ UNCHANGED <<dinode, lock, fh, cwd, pc, arg, dp, ip, panicked>>

Next == \E p \in Procs :
    \/ Call(p) \/ sys_close(p) \/ namei(p) \/ open(p) \/ chdir(p)
    \/ link(p) \/ dirlink(p) \/ linkbad(p) \/ unlockdir(p)
    \/ unlink(p) \/ erase(p) \/ unlinked(p)
    \/ create(p) \/ exists(p) \/ ialloc(p) \/ iallocated(p) \/ fill(p) \/ created(p)
    \/ iput(p) \/ ifree(p) \/ idrop(p)
Spec == Init /\ [][Next]_vars
-----------------------------------------------------------------------------
\* The entries a process has a pointer to; ialloc's number is not one.
Has(p, e) ==
    Cardinality({i \in DOMAIN put[p] : put[p][i] = e})
    + Cardinality({x \in {"fh", "cwd", "dp", "ip"} :
         e = CASE x = "fh" -> fh[p] [] x = "cwd" -> cwd[p] [] x = "dp" -> dp[p]
               [] x = "ip" -> IF pc[p] = "iget" THEN 0 ELSE ip[p]})

\* "ip->ref tracks the number of in-memory pointers to the entry": open files,
\* current directories and the inodes of calls in progress, on every path
\* through every call.
RefsExact == \A e \in Entries : cache[e].ref = MapThenSumSet(LAMBDA p : Has(p, e), Procs)

\* What a lock holder sees of an inode is what is on disk, also after the inode
\* was freed and allocated again under an entry that stayed in use.
WriteThrough == \A e \in Entries :
    cache[e].ref > 0 /\ cache[e].valid =>
        cache[e].type = dinode[cache[e].inum].type /\ cache[e].nlink = dinode[cache[e].inum].nlink

\* No name leads to an inode that is free, and no process has one open or as
\* its directory: iput frees only what has neither links nor references.  (A
\* panic of ilock stops the call that the step goes on with.)
NoDangling == panicked = "no" =>
    /\ \A i \in Inums : Named(i) > 0 => dinode[i].type # "free"
    /\ \A p \in Procs, e \in Entries : e \in {fh[p], cwd[p]} => dinode[cache[e].inum].type # "free"

\* "If that was the last reference and the inode has no links to it, free the
\* inode (and its content) on disk": iput leaves no inode allocated that has no
\* name and that nothing refers to.
FreedWhenUnused == \A i \in Inums \ {ROOTINO} :
    Named(i) = 0 /\ Cached(cache, i) = {} /\ (\A p \in Procs : pc[p] = "iget" => ip[p] # i)
      => dinode[i].type = "free"
=============================================================================
