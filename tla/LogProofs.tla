----------------------------- MODULE LogProofs -----------------------------
(***************************************************************************)
(* Proofs about Log, for any numbers of processes, blocks and log blocks.  *)
(***************************************************************************)
EXTENDS Log, FiniteSetTheorems, TLAPS

Places == {"idle", "begin", "asleep", "op", "append", "commit"}
Recovering == {"boot", "recover", "clear"}
Committing == {"log", "head", "install", "erase", "done"}

Types ==
    /\ disk \in [Blocks -> Values] /\ cache \in [Blocks -> Values] /\ dirty \subseteq Blocks
    /\ area \in [LogBlocks -> Values] /\ head \in Seq(Blocks) /\ lh \in Seq(Blocks)
    /\ outstanding \in Nat /\ committing \in BOOLEAN
    /\ pc \in [Procs -> Places] /\ wrote \in [Procs -> SUBSET Blocks]
    /\ buf \in [Procs -> Blocks \cup {NoBlock}]
    /\ phase \in Recovering \cup Committing \cup {"up"} /\ tail \in Nat

OnceEach(h) == \A i, j \in 1..Len(h) : h[i] = h[j] => i = j

Active == {p \in Procs : pc[p] \in {"op", "append"}}

\* Calls are counted, and none is under way in a commit or a recovery.
Calls ==
    /\ outstanding = Cardinality(Active)
    /\ phase # "up" => Active = {}
    /\ committing <=> phase \in Committing
    /\ \A p \in Procs : buf[p] # NoBlock <=> pc[p] = "append"

\* The header on disk is empty, or it is the one the commit or recovery works on.
Header ==
    /\ OnceEach(lh) /\ OnceEach(head) /\ Len(head) < SIZE
    /\ phase \in {"up", "log", "head", "done"} => head = <<>>
    /\ phase \in {"recover", "clear", "install", "erase"} => head = lh
    /\ phase \in {"boot", "done"} => lh = <<>>
    /\ phase = "head" => lh # <<>>
    /\ IF phase \in {"log", "recover", "install"} THEN tail < Len(lh) ELSE tail = 0

\* The log blocks that are written are copies of the cached blocks.
Copied ==
    /\ phase = "log" => \A i \in 1..tail : area[i - 1] = cache[lh[i]]
    /\ phase \in {"head", "install"} => \A i \in 1..Len(lh) : area[i - 1] = cache[lh[i]]

\* The home blocks that are written are copies of the log blocks.
Installed ==
    /\ phase \in {"install", "recover"} => \A i \in 1..tail : disk[lh[i]] = area[i - 1]
    /\ phase \in {"erase", "clear"} => \A i \in 1..Len(lh) : disk[lh[i]] = area[i - 1]

\* Only buffers that are locked or pinned differ from the disk, and the pinned
\* ones are those the log has still to install.
Synced == \A b \in Blocks : b \notin dirty /\ (\A p \in Procs : buf[p] # b) => cache[b] = disk[b]

Pinned ==
    /\ phase \in {"up", "log", "head"} => \A b \in dirty : \E i \in 1..Len(lh) : lh[i] = b
    /\ phase = "install" => \A b \in dirty : \E i \in (tail + 1)..Len(lh) : lh[i] = b
    /\ phase \notin {"up", "log", "head", "install"} => dirty = {}

IInv == Types /\ Calls /\ Header /\ Copied /\ Installed /\ Synced /\ Pinned

LEMMA InitIInv == Init => IInv
  <1> SUFFICES ASSUME Init PROVE IInv
    BY Zenon
  <1> USE LogAssumption
  <1>1. Types
    <2>1. disk \in [Blocks -> Values] /\ cache \in [Blocks -> Values] /\ area \in [LogBlocks -> Values]
      BY Zenon DEF Init
    <2>2. lh \in Seq(Blocks) /\ head \in Seq(Blocks) /\ dirty \subseteq Blocks
      BY DEF Init
    <2>3. pc \in [Procs -> Places] /\ wrote \in [Procs -> SUBSET Blocks] /\ buf \in [Procs -> Blocks \cup {NoBlock}]
      BY Zenon DEF Init, Places
    <2> QED
      BY <2>1, <2>2, <2>3, Zenon DEF Init, Types, Recovering
  <1>2. Active = {}
    BY Zenon DEF Init, Active
  <1>3. Calls
    BY <1>2, FS_EmptySet, Zenon DEF Init, Calls, Committing
  <1>4. Header
    BY DEF Init, Header, OnceEach
  <1> QED
    BY <1>1, <1>3, <1>4, Zenon DEF Init, IInv, Copied, Installed, Synced, Pinned

LEMMA ActiveFinite ==
    /\ IsFiniteSet(Active) /\ Cardinality(Active) \in Nat
    /\ Cardinality(Active) = 0 <=> Active = {}
  <1>1. IsFiniteSet(Active)
    BY LogAssumption, FS_Subset, Zenon DEF Active
  <1> QED
    BY <1>1, FS_CardinalityType, FS_EmptySet, Zenon

\* A call is under way only while the log is neither committed nor recovered.
LEMMA CallUp == ASSUME IInv, NEW p \in Procs, pc[p] \in {"op", "append"} PROVE phase = "up"
  BY Zenon DEF IInv, Calls, Active

LEMMA begin_opStep == ASSUME IInv, NEW p \in Procs, begin_op(p) PROVE IInv'
  <1> USE LogAssumption
  <1>1. UNCHANGED <<disk, area, head, cache, dirty, lh, committing, wrote, buf, phase, tail>>
    BY Zenon DEF begin_op, diskVars, cacheVars
  <1>2. Header' /\ Copied' /\ Installed' /\ Synced' /\ Pinned'
    BY <1>1 DEF IInv, Header, OnceEach, Copied, Installed, Synced, Pinned, Listed
  <1>3. CASE pc' = [pc EXCEPT ![p] = "asleep"] /\ outstanding' = outstanding
    <2>1. Active' = Active
      BY <1>3, Zenon DEF Active, begin_op, IInv, Types
    <2>2. Calls'
      BY <1>1, <1>3, <2>1 DEF Calls, IInv, Types, begin_op
    <2>3. Types'
      BY <1>1, <1>3, Zenon DEF IInv, Types, Places, LogBlocks
    <2> QED
      BY <1>2, <2>2, <2>3, Zenon DEF IInv
  <1>4. CASE ~MustWait /\ outstanding' = outstanding + 1 /\ pc' = [pc EXCEPT ![p] = "op"]
    <2>1. phase = "up"
      BY <1>4, Zenon DEF IInv, Types, Calls, Recovering, Committing, begin_op, MustWait
    <2>2. Active' = Active \cup {p} /\ p \notin Active
      BY <1>4 DEF Active, begin_op, IInv, Types
    <2>3. Cardinality(Active') = Cardinality(Active) + 1
      BY <2>2, ActiveFinite, FS_AddElement, Zenon
    <2>4. Calls'
      BY <1>1, <1>4, <2>1, <2>3 DEF Calls, IInv, Types, begin_op
    <2>5. Types'
      BY <1>1, <1>4 DEF IInv, Types, Places, LogBlocks
    <2> QED
      BY <1>2, <2>4, <2>5, Zenon DEF IInv
  <1> QED
    BY <1>3, <1>4, Zenon DEF begin_op

LEMMA ModifyStep == ASSUME IInv, NEW p \in Procs, NEW b \in Blocks, NEW v \in Values, Modify(p, b, v)
                    PROVE  IInv'
  <1> USE LogAssumption
  <1>1. phase = "up" /\ pc[p] = "op"
    BY CallUp, Zenon DEF Modify
  <1>2. /\ UNCHANGED <<disk, area, head, dirty, lh, outstanding, committing, phase, tail>>
        /\ cache' = [cache EXCEPT ![b] = v] /\ buf' = [buf EXCEPT ![p] = b]
        /\ wrote' = [wrote EXCEPT ![p] = @ \cup {b}] /\ pc' = [pc EXCEPT ![p] = "append"]
    BY Zenon DEF Modify, diskVars, logVars
  <1>3. Types'
    BY <1>2, Zenon DEF IInv, Types, Places, LogBlocks
  <1>4. Active' = Active
    BY <1>1, <1>2, Zenon DEF Active, IInv, Types
  <1>5. Calls'
    BY <1>1, <1>2, <1>4, Zenon DEF Calls, IInv, Types
  <1>6. Header' /\ Copied' /\ Installed' /\ Pinned'
    BY <1>1, <1>2 DEF IInv, Header, OnceEach, Copied, Installed, Pinned
  <1>7. Synced'
    <2> SUFFICES ASSUME NEW c \in Blocks, c \notin dirty, \A q \in Procs : buf'[q] # c
                 PROVE  cache'[c] = disk[c]
      BY <1>2, Zenon DEF Synced
    <2>1. c # b /\ \A q \in Procs : buf[q] # c
      BY <1>1, <1>2, Zenon DEF IInv, Types, Calls
    <2> QED
      BY <1>2, <2>1, Zenon DEF IInv, Types, Synced
  <1> QED
    BY <1>3, <1>5, <1>6, <1>7, Zenon DEF IInv

LEMMA log_writeStep == ASSUME IInv, NEW p \in Procs, log_write(p) PROVE IInv'
  <1> USE LogAssumption
  <1>1. phase = "up" /\ pc[p] = "append" /\ buf[p] \in Blocks /\ head = <<>> /\ tail = 0
    BY CallUp, Zenon DEF log_write, IInv, Calls, Types, Header
  <1>2. /\ UNCHANGED <<disk, area, head, cache, outstanding, committing, wrote, phase, tail>>
        /\ dirty' = dirty \cup {buf[p]} /\ buf' = [buf EXCEPT ![p] = NoBlock]
        /\ pc' = [pc EXCEPT ![p] = "op"]
    BY Zenon DEF log_write, diskVars
  <1>3. /\ lh' \in Seq(Blocks) /\ OnceEach(lh')
        /\ \E i \in 1..Len(lh') : lh'[i] = buf[p]
        /\ Len(lh) <= Len(lh') /\ \A i \in 1..Len(lh) : lh'[i] = lh[i]
    <2>0. lh \in Seq(Blocks) /\ OnceEach(lh) /\ Len(lh) \in Nat
      BY DEF IInv, Types, Header
    <2>1. CASE buf[p] \in Listed(lh)
      BY <2>0, <2>1 DEF log_write, Listed
    <2>2. CASE buf[p] \notin Listed(lh)
      <3>1. lh' = Append(lh, buf[p])
        BY <2>2, Zenon DEF log_write
      <3>2. lh' \in Seq(Blocks) /\ Len(lh') = Len(lh) + 1 /\ lh'[Len(lh) + 1] = buf[p]
            /\ \A i \in 1..Len(lh) : lh'[i] = lh[i]
        BY <1>1, <2>0, <3>1
      <3>3. \A i \in 1..Len(lh) : lh[i] # buf[p]
        BY <2>2, Zenon DEF Listed
      <3>4. OnceEach(lh')
        BY <2>0, <3>2, <3>3 DEF OnceEach
      <3> QED
        BY <2>0, <3>2, <3>4
    <2> QED
      BY <2>1, <2>2, Zenon
  <1>4. Types'
    BY <1>1, <1>2, <1>3, Zenon DEF IInv, Types, Places, LogBlocks
  <1>5. Active' = Active
    BY <1>1, <1>2, Zenon DEF Active, IInv, Types
  <1>6. Calls'
    BY <1>1, <1>2, <1>5, Zenon DEF Calls, IInv, Types
  <1>7. Header' /\ Copied' /\ Installed'
    BY <1>1, <1>2, <1>3, Zenon DEF IInv, Header, Copied, Installed
  <1>8. Pinned'
    <2> SUFFICES ASSUME NEW c \in dirty' PROVE \E i \in 1..Len(lh') : lh'[i] = c
      BY <1>1, <1>2, Zenon DEF Pinned
    <2>1. CASE c \in dirty
      <3>1. PICK i \in 1..Len(lh) : lh[i] = c
        BY <1>1, <2>1, Zenon DEF IInv, Pinned
      <3>2. i \in 1..Len(lh') /\ lh'[i] = c
        BY <1>3, <3>1 DEF IInv, Types
      <3> QED
        BY <3>2, Zenon
    <2> QED
      BY <1>2, <1>3, <2>1, Zenon
  <1>9. Synced'
    BY <1>1, <1>2, Zenon DEF IInv, Synced, Types
  <1> QED
    BY <1>4, <1>6, <1>7, <1>8, <1>9, Zenon DEF IInv

\* Waking changes no call that is under way.
LEMMA Woken == ASSUME pc \in [Procs -> Places]
               PROVE  /\ wakeup \in [Procs -> Places]
                      /\ \A q \in Procs : wakeup[q] \in {"op", "append"} <=> pc[q] \in {"op", "append"}
                      /\ \A q \in Procs : wakeup[q] = "append" <=> pc[q] = "append"
  BY Zenon DEF wakeup, Places

LEMMA end_opStep == ASSUME IInv, NEW p \in Procs, end_op(p) PROVE IInv'
  <1> USE LogAssumption
  <1>1. phase = "up" /\ pc[p] = "op" /\ ~committing /\ tail = 0 /\ head = <<>>
    BY CallUp, Zenon DEF end_op, IInv, Calls, Header, Committing
  <1>2. /\ UNCHANGED <<disk, area, head, cache, dirty, lh, buf, tail>>
        /\ outstanding' = outstanding - 1 /\ wrote' = [wrote EXCEPT ![p] = {}]
    BY Zenon DEF end_op, diskVars, cacheVars
  <1>3. /\ pc' \in [Procs -> Places] /\ Active' = Active \ {p}
        /\ \A q \in Procs : pc'[q] = "append" <=> pc[q] = "append"
    <2>1. CASE pc' = [pc EXCEPT ![p] = "commit"]
      BY <1>1, <2>1, Zenon DEF Active, IInv, Types, Places
    <2>2. CASE pc' = [wakeup EXCEPT ![p] = "idle"]
      BY <1>1, <2>2, Woken, Zenon DEF Active, IInv, Types, Places
    <2> QED
      BY <2>1, <2>2, Zenon DEF end_op
  <1>4. p \in Active /\ outstanding' = Cardinality(Active') /\ outstanding' \in Nat /\ (outstanding' = 0 <=> Active' = {})
    <2>1. p \in Active
      BY <1>1, Zenon DEF Active
    <2>2. Cardinality(Active') = Cardinality(Active) - 1 /\ IsFiniteSet(Active')
      BY <1>3, <2>1, ActiveFinite, FS_RemoveElement, Zenon
    <2> QED
      BY <1>2, <2>1, <2>2, FS_CardinalityType, FS_EmptySet, Zenon DEF IInv, Calls
  <1>5. Synced'
    BY <1>2, Zenon DEF IInv, Synced
  <1>6. CASE outstanding' = 0
    <2>1. committing' = TRUE /\ phase' = IF lh = <<>> THEN "done" ELSE "log"
      BY <1>6, Zenon DEF end_op
    <2>2. Types' /\ Calls'
      BY <1>1, <1>2, <1>3, <1>4, <1>6, <2>1, Zenon DEF IInv, Types, Calls, Committing, LogBlocks
    <2>3. Header' /\ Copied' /\ Installed'
      BY <1>1, <1>2, <2>1 DEF IInv, Types, Header, OnceEach, Copied, Installed
    <2>4. Pinned'
      BY <1>1, <1>2, <2>1 DEF IInv, Types, Pinned
    <2> QED
      BY <1>5, <2>2, <2>3, <2>4, Zenon DEF IInv
  <1>7. CASE outstanding' # 0
    <2>1. UNCHANGED <<committing, phase>>
      BY <1>7, Zenon DEF end_op
    <2>2. Types' /\ Calls'
      BY <1>1, <1>2, <1>3, <1>4, <2>1, Zenon DEF IInv, Types, Calls, LogBlocks
    <2>3. Header' /\ Copied' /\ Installed' /\ Pinned'
      BY <1>1, <1>2, <2>1 DEF IInv, Header, OnceEach, Copied, Installed, Pinned
    <2> QED
      BY <1>5, <2>2, <2>3, Zenon DEF IInv
  <1> QED
    BY <1>6, <1>7, Zenon

\* Outside "up" nothing is locked, so what is not pinned is on disk.
LEMMA Quiet == ASSUME IInv, phase # "up"
               PROVE  /\ \A p \in Procs : buf[p] = NoBlock
                      /\ \A b \in Blocks : b \notin dirty => cache[b] = disk[b]
  <1>1. \A p \in Procs : buf[p] = NoBlock
    BY Zenon DEF IInv, Calls, Active
  <1> QED
    BY <1>1, LogAssumption, Zenon DEF IInv, Synced

LEMMA write_logStep == ASSUME IInv, NeverTooBig, write_log PROVE IInv'
  <1> USE LogAssumption
  <1>1. /\ phase = "log" /\ tail \in Nat /\ tail < Len(lh) /\ Len(lh) \in Nat /\ tail \in LogBlocks
        /\ lh \in Seq(Blocks) /\ head = <<>>
    BY DEF write_log, IInv, Header, Types, NeverTooBig, LogBlocks
  <1>2. /\ UNCHANGED <<disk, head, cache, dirty, lh, outstanding, committing, pc, wrote, buf>>
        /\ area' = [area EXCEPT ![tail] = cache[lh[tail + 1]]]
    BY Zenon DEF write_log, cacheVars, logVars, callVars
  <1>3. \/ tail + 1 < Len(lh) /\ phase' = "log" /\ tail' = tail + 1
        \/ tail + 1 = Len(lh) /\ phase' = "head" /\ tail' = 0
    BY <1>1 DEF write_log, After
  <1>4. Types'
    <2>1. cache[lh[tail + 1]] \in Values
      BY <1>1 DEF IInv, Types
    <2>2. area' \in [LogBlocks -> Values]
      BY <1>1, <1>2, <2>1, Zenon DEF IInv, Types
    <2> QED
      BY <1>1, <1>2, <1>3, <2>2 DEF IInv, Types, Committing
  <1>5. Calls'
    <2>1. Active' = Active
      BY <1>2, Zenon DEF Active
    <2> QED
      BY <1>1, <1>2, <1>3, <2>1, Zenon DEF IInv, Calls, Committing
  <1>6. Header' /\ Installed' /\ Synced' /\ Pinned'
    BY <1>1, <1>2, <1>3 DEF IInv, Header, OnceEach, Installed, Synced, Pinned
  <1>7. Copied'
    <2>1. ASSUME NEW i \in 1..(tail + 1) PROVE area'[i - 1] = cache[lh[i]]
      <3>1. CASE i = tail + 1
        BY <1>1, <1>2, <3>1 DEF IInv, Types
      <3>2. CASE i \in 1..tail
        <4>1. i - 1 \in LogBlocks /\ i - 1 # tail
          BY <1>1, <3>2 DEF LogBlocks
        <4>2. area'[i - 1] = area[i - 1]
          BY <1>2, <4>1, Zenon DEF IInv, Types
        <4> QED
          BY <1>1, <3>2, <4>2, Zenon DEF IInv, Copied
      <3> QED
        BY <1>1, <3>1, <3>2
    <2> QED
      BY <1>1, <1>2, <1>3, <2>1, Zenon DEF Copied
  <1> QED
    BY <1>4, <1>5, <1>6, <1>7, Zenon DEF IInv

LEMMA write_headStep == ASSUME IInv, NeverTooBig, write_head PROVE IInv'
  <1> USE LogAssumption
  <1>1. /\ phase = "head" /\ tail = 0 /\ lh \in Seq(Blocks) /\ Len(lh) \in Nat /\ lh # <<>>
    BY DEF write_head, IInv, Header, Types
  <1>2. /\ UNCHANGED <<disk, area, cache, dirty, lh, outstanding, committing, pc, wrote, buf, tail>>
        /\ head' = lh /\ phase' = "install"
    BY Zenon DEF write_head, cacheVars, logVars, callVars
  <1>3. Types'
    BY <1>1, <1>2, Zenon DEF IInv, Types, Committing
  <1>4. Active' = Active
    BY <1>2, Zenon DEF Active
  <1>5. Calls'
    BY <1>1, <1>2, <1>4, Zenon DEF IInv, Calls, Committing
  <1>6. Header' /\ Copied' /\ Installed' /\ Synced' /\ Pinned'
    BY <1>1, <1>2 DEF IInv, Header, NeverTooBig, OnceEach, Copied, Installed, Synced, Pinned
  <1> QED
    BY <1>3, <1>5, <1>6, Zenon DEF IInv

LEMMA install_transStep == ASSUME IInv, NeverTooBig, install_trans PROVE IInv'
  <1> USE LogAssumption
  <1> DEFINE b == lh[tail + 1]
             v == area[tail]
  <1>1. /\ phase \in {"install", "recover"} /\ tail \in Nat /\ tail < Len(lh) /\ Len(lh) \in Nat
        /\ lh \in Seq(Blocks) /\ head = lh /\ tail \in LogBlocks
    BY DEF install_trans, IInv, Header, Types, NeverTooBig, LogBlocks
  <1>2. b \in Blocks /\ v \in Values
    BY <1>1 DEF IInv, Types
  <1>3. /\ UNCHANGED <<area, head, lh, outstanding, committing, pc, wrote, buf>>
        /\ disk' = [disk EXCEPT ![b] = v] /\ cache' = [cache EXCEPT ![b] = v]
        /\ dirty' = dirty \ {b}
    BY Zenon DEF install_trans, logVars, callVars
  <1>4. \/ tail + 1 < Len(lh) /\ phase' = phase /\ tail' = tail + 1
        \/ tail + 1 = Len(lh) /\ phase' = (IF phase = "install" THEN "erase" ELSE "clear") /\ tail' = 0
    BY <1>1 DEF install_trans, After
  <1>5. Types'
    <2>1. disk' \in [Blocks -> Values] /\ cache' \in [Blocks -> Values] /\ dirty' \subseteq Blocks
      BY <1>2, <1>3, Zenon DEF IInv, Types
    <2> QED
      BY <1>1, <1>3, <1>4, <2>1 DEF IInv, Types, Committing, Recovering
  <1>6. Active' = Active
    BY <1>3, Zenon DEF Active
  <1>7. Calls'
    BY <1>1, <1>3, <1>4, <1>6, Zenon DEF IInv, Calls, Committing
  <1>8. Header'
    BY <1>1, <1>3, <1>4 DEF IInv, Header, OnceEach
  <1>9. \A i \in 1..Len(lh) : lh[i] = b => i = tail + 1
    BY <1>1 DEF IInv, Header, OnceEach
  <1>10. \A c \in Blocks : c # b => disk'[c] = disk[c] /\ cache'[c] = cache[c]
    BY <1>3, Zenon DEF IInv, Types
  <1>11. disk'[b] = v /\ cache'[b] = v
    BY <1>2, <1>3, Zenon DEF IInv, Types
  <1>12. Copied'
    <2>1. CASE phase = "install"
      <3>1. v = cache[b]
        BY <1>1, <2>1 DEF IInv, Copied
      <3>2. \A c \in Blocks : cache'[c] = cache[c]
        BY <1>10, <1>11, <3>1, Zenon
      <3> QED
        BY <1>1, <1>3, <1>4, <2>1, <3>2 DEF IInv, Copied, Types
    <2>2. CASE phase = "recover"
      BY <1>4, <2>2, Zenon DEF Copied
    <2> QED
      BY <1>1, <2>1, <2>2, Zenon
  <1>13. Installed'
    <2>1. ASSUME NEW i \in 1..(tail + 1) PROVE disk'[lh[i]] = area[i - 1]
      <3>1. CASE i = tail + 1
        BY <1>1, <1>11, <3>1
      <3>2. CASE i \in 1..tail
        <4>1. lh[i] \in Blocks /\ lh[i] # b
          BY <1>1, <1>9, <3>2
        <4> QED
          BY <1>1, <1>10, <3>2, <4>1, Zenon DEF IInv, Installed
      <3> QED
        BY <1>1, <3>1, <3>2
    <2> QED
      BY <1>1, <1>3, <1>4, <2>1, Zenon DEF Installed
  <1>14. Synced'
    BY <1>1, <1>3, <1>10, <1>11, Quiet, Zenon DEF Synced
  <1>15. Pinned'
    <2>1. CASE phase = "install"
      <3>1. ASSUME NEW c \in dirty' PROVE \E i \in (tail + 2)..Len(lh) : lh[i] = c
        <4>1. PICK i \in (tail + 1)..Len(lh) : lh[i] = c
          BY <1>3, <2>1, Zenon DEF IInv, Pinned
        <4>2. i # tail + 1
          BY <1>3, <4>1, Zenon
        <4> QED
          BY <1>1, <4>1, <4>2
      <3>2. CASE tail + 1 < Len(lh) /\ phase' = phase /\ tail' = tail + 1
        BY <1>1, <1>3, <2>1, <3>1, <3>2 DEF Pinned
      <3>3. CASE tail + 1 = Len(lh) /\ phase' = "erase" /\ tail' = 0
        <4>1. dirty' = {}
          BY <1>1, <3>1, <3>3
        <4> QED
          BY <3>3, <4>1, Zenon DEF Pinned
      <3> QED
        BY <1>4, <2>1, <3>2, <3>3, Zenon
    <2>2. CASE phase = "recover"
      BY <1>3, <1>4, <2>2, Zenon DEF IInv, Pinned
    <2> QED
      BY <1>1, <2>1, <2>2, Zenon
  <1> QED
    BY <1>5, <1>7, <1>8, <1>12, <1>13, <1>14, <1>15, Zenon DEF IInv

LEMMA eraseStep == ASSUME IInv, erase PROVE IInv'
  <1> USE LogAssumption
  <1>1. phase \in {"erase", "clear"} /\ tail = 0 /\ dirty = {}
    BY Zenon DEF erase, IInv, Header, Pinned
  <1>2. /\ UNCHANGED <<disk, area, cache, dirty, outstanding, committing, pc, wrote, buf, tail>>
        /\ lh' = <<>> /\ head' = <<>> /\ phase' = IF phase = "erase" THEN "done" ELSE "up"
    BY Zenon DEF erase, cacheVars, callVars
  <1>3. Types'
    BY <1>1, <1>2 DEF IInv, Types, Committing
  <1>4. Active' = Active
    BY <1>2, Zenon DEF Active
  <1>5. Calls'
    BY <1>1, <1>2, <1>4, Zenon DEF IInv, Calls, Committing
  <1>6. Header' /\ Copied' /\ Installed' /\ Synced' /\ Pinned'
    BY <1>1, <1>2 DEF IInv, Header, OnceEach, Copied, Installed, Synced, Pinned
  <1> QED
    BY <1>3, <1>5, <1>6, Zenon DEF IInv

LEMMA end_commitStep == ASSUME IInv, NEW p \in Procs, end_commit(p) PROVE IInv'
  <1> USE LogAssumption
  <1>1. phase = "done" /\ pc[p] = "commit" /\ head = <<>> /\ lh = <<>> /\ tail = 0 /\ dirty = {} /\ Active = {}
    BY Zenon DEF end_commit, IInv, Header, Pinned, Calls
  <1>2. /\ UNCHANGED <<disk, area, head, cache, dirty, lh, outstanding, wrote, buf, tail>>
        /\ committing' = FALSE /\ phase' = "up" /\ pc' = [wakeup EXCEPT ![p] = "idle"]
    BY Zenon DEF end_commit, diskVars, cacheVars
  <1>3. /\ pc' \in [Procs -> Places] /\ Active' = Active
        /\ \A q \in Procs : pc'[q] = "append" <=> pc[q] = "append"
    BY <1>1, <1>2, Woken, Zenon DEF Active, IInv, Types, Places
  <1>4. Types'
    BY <1>1, <1>2, <1>3, Zenon DEF IInv, Types, Committing
  <1>5. Calls'
    BY <1>1, <1>2, <1>3, Zenon DEF IInv, Calls, Committing
  <1>6. Header' /\ Copied' /\ Installed' /\ Pinned'
    BY <1>1, <1>2 DEF IInv, Header, OnceEach, Copied, Installed, Pinned
  <1>7. Synced'
    BY <1>2, Zenon DEF IInv, Synced
  <1> QED
    BY <1>4, <1>5, <1>6, <1>7, Zenon DEF IInv

\* Recycling a buffer that is neither pinned nor locked loses nothing.
LEMMA RecycleSame == ASSUME IInv, NEW b \in Blocks, Recycle(b) PROVE UNCHANGED cache
  <1>1. cache[b] = disk[b]
    BY Zenon DEF Recycle, IInv, Synced
  <1> QED
    BY <1>1, Zenon DEF Recycle, IInv, Types

LEMMA CrashStep == ASSUME IInv, Crash PROVE IInv'
  <1> USE LogAssumption
  <1>1. UNCHANGED <<disk, area, head>> /\ cache' = disk /\ dirty' = {} /\ lh' = <<>> /\ phase' = "boot" /\ tail' = 0
    BY Zenon DEF Crash, diskVars
  <1>2. Types'
    <2>1. cache' \in [Blocks -> Values] /\ lh' \in Seq(Blocks)
      BY <1>1 DEF IInv, Types
    <2>2. pc' \in [Procs -> Places] /\ wrote' \in [Procs -> SUBSET Blocks] /\ buf' \in [Procs -> Blocks \cup {NoBlock}]
      BY Zenon DEF Crash, Places
    <2>3. dirty' \subseteq Blocks /\ outstanding' \in Nat /\ committing' \in BOOLEAN
      BY Zenon DEF Crash
    <2>4. disk' \in [Blocks -> Values] /\ area' \in [LogBlocks -> Values] /\ head' \in Seq(Blocks)
      BY <1>1, Zenon DEF IInv, Types
    <2> QED
      BY <1>1, <2>1, <2>2, <2>3, <2>4, Zenon DEF Types, Recovering
  <1>3. Active' = {}
    BY Zenon DEF Crash, Active
  <1>4. Calls'
    BY <1>1, <1>3, FS_EmptySet, Zenon DEF Crash, Calls, Committing
  <1>5. Header' /\ Copied' /\ Installed' /\ Synced' /\ Pinned'
    BY <1>1 DEF IInv, Header, OnceEach, Copied, Installed, Synced, Pinned
  <1> QED
    BY <1>2, <1>4, <1>5, Zenon DEF IInv

LEMMA read_headStep == ASSUME IInv, read_head PROVE IInv'
  <1> USE LogAssumption
  <1>1. phase = "boot" /\ tail = 0 /\ dirty = {} /\ head \in Seq(Blocks)
    BY Zenon DEF read_head, IInv, Header, Pinned, Types
  <1>2. /\ UNCHANGED <<disk, area, head, cache, dirty, outstanding, committing, pc, wrote, buf, tail>>
        /\ lh' = head /\ phase' = IF head = <<>> THEN "clear" ELSE "recover"
    BY Zenon DEF read_head, diskVars, cacheVars, callVars
  <1>3. Types'
    BY <1>1, <1>2, Zenon DEF IInv, Types, Recovering
  <1>4. Active' = Active
    BY <1>2, Zenon DEF Active
  <1>5. Calls'
    BY <1>1, <1>2, <1>4, Zenon DEF IInv, Calls, Committing
  <1>6. Header' /\ Copied' /\ Installed' /\ Synced' /\ Pinned'
    BY <1>1, <1>2 DEF IInv, Header, OnceEach, Copied, Installed, Synced, Pinned
  <1> QED
    BY <1>3, <1>5, <1>6, Zenon DEF IInv

LEMMA NextIInv == IInv /\ NeverTooBig /\ [Next]_vars => IInv'
  <1> SUFFICES ASSUME IInv, NeverTooBig, [Next]_vars PROVE IInv'
    BY Zenon
  <1>1. ASSUME NEW p \in Procs, Call(p) PROVE IInv'
    BY <1>1, begin_opStep, log_writeStep, end_opStep, end_commitStep, ModifyStep, Zenon DEF Call
  <1>2. CASE Writer
    BY <1>2, write_logStep, write_headStep, install_transStep, eraseStep, read_headStep, Zenon DEF Writer
  <1>3. ASSUME NEW b \in Blocks, Recycle(b) PROVE IInv'
    <2>1. UNCHANGED <<disk, area, head, cache, dirty, lh, outstanding, committing, pc, wrote, buf, phase, tail>>
      BY <1>3, RecycleSame, Zenon DEF Recycle, diskVars, logVars, callVars
    <2> QED
      BY <2>1 DEF IInv, Types, Calls, Active, Header, OnceEach, Copied, Installed, Synced, Pinned
  <1>4. CASE UNCHANGED vars
    BY <1>4 DEF vars, diskVars, cacheVars, logVars, callVars,
                IInv, Types, Calls, Active, Header, OnceEach, Copied, Installed, Synced, Pinned
  <1> QED
    BY <1>1, <1>2, <1>3, <1>4, CrashStep, Zenon DEF Next
-----------------------------------------------------------------------------
(* The refinement *)

mem == IF phase \in {"boot", "recover", "clear"} THEN Durable ELSE cache
abstract == <<Durable, mem, Active>>

\* What a crash leaves: the log block of every block that the header lists.
DurableIs ==
    /\ \A i \in 1..Len(head) : Durable[head[i]] = area[i - 1]
    /\ \A b \in Blocks : (\A i \in 1..Len(head) : head[i] # b) => Durable[b] = disk[b]

LEMMA DurableInv == IInv => DurableIs
  <1> SUFFICES ASSUME IInv PROVE DurableIs
    BY Zenon
  <1>1. ASSUME NEW i \in 1..Len(head) PROVE Durable[head[i]] = area[i - 1]
    <2>1. head[i] \in Blocks /\ head[i] \in Listed(head)
      BY DEF IInv, Types, Listed
    <2>2. \A j \in 1..Len(head) : head[j] = head[i] => j = i
      BY Zenon DEF IInv, Header, OnceEach
    <2>3. (CHOOSE j \in 1..Len(head) : head[j] = head[i]) = i
      BY <2>2, Zenon
    <2> QED
      BY <2>1, <2>3, Zenon DEF Durable
  <1>2. ASSUME NEW b \in Blocks, \A i \in 1..Len(head) : head[i] # b PROVE Durable[b] = disk[b]
    BY <1>2, Zenon DEF Durable, Listed
  <1> QED
    BY <1>1, <1>2, Zenon DEF DurableIs

LEMMA SameDurable == UNCHANGED <<disk, area, head>> => UNCHANGED Durable
  BY DEF Durable, Listed

LEMMA InitRefines == Init => Atomic!Init
  <1> SUFFICES ASSUME Init PROVE Atomic!Init
    BY Zenon
  <1>1. head = <<>> /\ Len(head) = 0
    BY Zenon DEF Init
  <1>2. Durable = [b \in Blocks |-> Zero]
    BY <1>1 DEF Durable, Listed, Init
  <1>3. mem = Durable /\ Active = {}
    BY Zenon DEF Init, mem, Active
  <1> QED
    BY <1>2, <1>3, Zenon DEF Atomic!Init, mem, Active

\* The steps of a call.
LEMMA CallRefines ==
  ASSUME IInv, NEW p \in Procs, Call(p)
  PROVE  Atomic!Next \/ UNCHANGED abstract
  <1> USE LogAssumption
  <1>1. CASE begin_op(p)
    <2>1. UNCHANGED <<Durable, mem>>
      BY <1>1, SameDurable, Zenon DEF begin_op, diskVars, cacheVars, mem
    <2>2. CASE pc' = [pc EXCEPT ![p] = "asleep"]
      <3>1. Active' = Active
        BY <1>1, <2>2, Zenon DEF Active, begin_op, IInv, Types
      <3> QED
        BY <2>1, <3>1, Zenon DEF abstract
    <2>3. CASE pc' = [pc EXCEPT ![p] = "op"]
      <3>1. Active' = Active \cup {p} /\ p \notin Active
        BY <1>1, <2>3 DEF Active, begin_op, IInv, Types
      <3>2. Atomic!Begin(p)
        BY <2>1, <3>1, Zenon DEF Atomic!Begin, mem, Active
      <3> QED
        BY <3>2, Zenon DEF Atomic!Next
    <2> QED
      BY <1>1, <2>2, <2>3, Zenon DEF begin_op
  <1>2. CASE log_write(p)
    <2>1. UNCHANGED <<Durable, mem>>
      BY <1>2, SameDurable, Zenon DEF log_write, diskVars, mem
    <2>2. Active' = Active
      BY <1>2, Zenon DEF log_write, Active, IInv, Types
    <2> QED
      BY <2>1, <2>2, Zenon DEF abstract
  <1>3. CASE end_op(p)
    <2>1. phase = "up" /\ phase' \in {"up", "done", "log"}
      BY <1>3, CallUp, Zenon DEF end_op
    <2>2. UNCHANGED <<Durable, mem>>
      BY <1>3, <2>1, SameDurable, Zenon DEF end_op, diskVars, cacheVars, mem
    <2>3. Active' = Active \ {p} /\ p \in Active
      <3>1. CASE pc' = [pc EXCEPT ![p] = "commit"]
        BY <1>3, <3>1, Zenon DEF end_op, Active, IInv, Types
      <3>2. CASE pc' = [wakeup EXCEPT ![p] = "idle"]
        BY <1>3, <3>2, Woken, Zenon DEF end_op, Active, IInv, Types
      <3> QED
        BY <1>3, <3>1, <3>2, Zenon DEF end_op
    <2>4. Atomic!End(p)
      BY <2>2, <2>3, Zenon DEF Atomic!End, mem, Active
    <2> QED
      BY <2>4, Zenon DEF Atomic!Next
  <1>4. CASE end_commit(p)
    <2>1. UNCHANGED <<Durable, mem>>
      BY <1>4, SameDurable, Zenon DEF end_commit, diskVars, cacheVars, mem
    <2>2. Active' = Active
      BY <1>4, Woken, Zenon DEF end_commit, Active, IInv, Types
    <2> QED
      BY <2>1, <2>2, Zenon DEF abstract
  <1>5. ASSUME NEW b \in Blocks, NEW v \in Values, Modify(p, b, v) PROVE Atomic!Next
    <2>1. phase = "up" /\ phase' = "up" /\ p \in Active
      BY <1>5, CallUp, Zenon DEF Modify, Active
    <2>2. mem' = [mem EXCEPT ![b] = v]
      BY <1>5, <2>1, Zenon DEF Modify, mem
    <2>3. UNCHANGED <<Durable, Active>>
      BY <1>5, SameDurable, Zenon DEF Modify, diskVars, Active, IInv, Types
    <2>4. Atomic!Write(p, b, v)
      BY <2>1, <2>2, <2>3, Zenon DEF Atomic!Write, mem, Active
    <2> QED
      BY <2>4, Zenon DEF Atomic!Next
  <1> QED
    BY <1>1, <1>2, <1>3, <1>4, <1>5, Zenon DEF Call

\* The header write makes the whole group durable at once.
LEMMA CommitRefines ==
  ASSUME IInv, DurableIs', write_head
  PROVE  Atomic!Commit
  <1> USE LogAssumption
  <1>1. /\ phase = "head" /\ phase' = "install" /\ head' = lh /\ lh \in Seq(Blocks)
        /\ UNCHANGED <<disk, area, cache, dirty, pc, lh>>
    BY Zenon DEF write_head, cacheVars, logVars, callVars, IInv, Types
  <1>2. Active = {} /\ Active' = Active
    BY <1>1, Zenon DEF IInv, Calls, Active
  <1>3. mem = cache /\ mem' = mem
    BY <1>1, Zenon DEF mem
  <1>4. ASSUME NEW b \in Blocks PROVE Durable'[b] = cache[b]
    <2>1. CASE \E i \in 1..Len(lh) : lh[i] = b
      <3>1. PICK i \in 1..Len(lh) : lh[i] = b
        BY <2>1, Zenon
      <3>2. Durable'[b] = area[i - 1]
        BY <1>1, <3>1, Zenon DEF DurableIs
      <3>3. area[i - 1] = cache[b]
        BY <1>1, <3>1, Zenon DEF IInv, Copied
      <3> QED
        BY <3>2, <3>3, Zenon
    <2>2. CASE \A i \in 1..Len(lh) : lh[i] # b
      <3>1. b \notin dirty
        BY <1>1, <2>2, Zenon DEF IInv, Pinned
      <3>2. cache[b] = disk[b]
        BY <1>1, <3>1, Quiet, Zenon
      <3> QED
        BY <1>1, <2>2, <3>2, Zenon DEF DurableIs
    <2> QED
      BY <2>1, <2>2, Zenon
  <1>5. Durable' = mem
    <2>1. Durable' = [b \in Blocks |-> Durable'[b]]
      BY DEF Durable
    <2> QED
      BY <1>3, <1>4, <2>1, Zenon DEF IInv, Types
  <1> QED
    BY <1>2, <1>3, <1>5, Zenon DEF Atomic!Commit, mem, Active

LEMMA InstallRefines ==
  ASSUME IInv, NeverTooBig, DurableIs, DurableIs', install_trans
  PROVE  UNCHANGED abstract
  <1> USE LogAssumption
  <1> DEFINE b == lh[tail + 1]
             v == area[tail]
  <1>1. /\ phase \in {"install", "recover"} /\ tail \in Nat /\ tail < Len(lh) /\ Len(lh) \in Nat
        /\ lh \in Seq(Blocks) /\ head = lh
    BY DEF install_trans, IInv, Header, Types
  <1>2. /\ UNCHANGED <<area, head, pc>>
        /\ disk' = [disk EXCEPT ![b] = v] /\ cache' = [cache EXCEPT ![b] = v]
        /\ phase' \in {phase, IF phase = "install" THEN "erase" ELSE "clear"}
    BY Zenon DEF install_trans, callVars, After
  <1>3. ASSUME NEW c \in Blocks PROVE Durable'[c] = Durable[c]
    <2>1. CASE \E i \in 1..Len(head) : head[i] = c
      <3>1. PICK i \in 1..Len(head) : head[i] = c
        BY <2>1, Zenon
      <3> QED
        BY <1>2, <3>1, Zenon DEF DurableIs
    <2>2. CASE \A i \in 1..Len(head) : head[i] # c
      <3>1. c # b
        BY <1>1, <2>2
      <3>2. disk'[c] = disk[c]
        BY <1>2, <3>1, Zenon DEF IInv, Types
      <3> QED
        BY <1>2, <2>2, <3>2, Zenon DEF DurableIs
    <2> QED
      BY <2>1, <2>2, Zenon
  <1>4. Durable' = Durable
    <2>1. Durable' = [c \in Blocks |-> Durable'[c]] /\ Durable = [c \in Blocks |-> Durable[c]]
      BY DEF Durable
    <2> QED
      BY <1>3, <2>1, Zenon
  <1>5. phase = "install" => cache' = cache
    <2> SUFFICES ASSUME phase = "install" PROVE cache' = cache
      BY Zenon
    <2>1. v = cache[b]
      BY <1>1 DEF IInv, Copied
    <2> QED
      BY <1>2, <2>1, Zenon DEF IInv, Types
  <1>6. mem' = mem
    BY <1>1, <1>2, <1>4, <1>5, Zenon DEF mem
  <1>7. Active' = Active
    BY <1>2, Zenon DEF Active
  <1> QED
    BY <1>4, <1>6, <1>7, Zenon DEF abstract

\* The header is cleared when all home blocks are written.
LEMMA EraseRefines ==
  ASSUME IInv, DurableIs, DurableIs', erase
  PROVE  UNCHANGED abstract
  <1> USE LogAssumption
  <1>1. /\ phase \in {"erase", "clear"} /\ head = lh /\ lh \in Seq(Blocks) /\ dirty = {}
        /\ \A i \in 1..Len(lh) : disk[lh[i]] = area[i - 1]
    BY Zenon DEF erase, IInv, Header, Types, Installed, Pinned
  <1>2. /\ UNCHANGED <<disk, area, cache, pc>> /\ head' = <<>>
        /\ phase' = IF phase = "erase" THEN "done" ELSE "up"
    BY Zenon DEF erase, cacheVars, callVars
  <1>3. ASSUME NEW c \in Blocks PROVE Durable'[c] = disk[c] /\ Durable[c] = disk[c]
    <2>1. Durable'[c] = disk[c]
      BY <1>2 DEF DurableIs
    <2>2. CASE \E i \in 1..Len(head) : head[i] = c
      BY <1>1, <2>1, <2>2 DEF DurableIs
    <2>3. CASE \A i \in 1..Len(head) : head[i] # c
      BY <2>1, <2>3, Zenon DEF DurableIs
    <2> QED
      BY <2>1, <2>2, <2>3, Zenon
  <1>4. Durable' = disk /\ Durable = disk
    <2>1. Durable' = [c \in Blocks |-> Durable'[c]] /\ Durable = [c \in Blocks |-> Durable[c]]
      BY DEF Durable
    <2> QED
      BY <1>3, <2>1, Zenon DEF IInv, Types
  <1>5. cache = disk
    BY <1>1, Quiet DEF IInv, Types
  <1>6. mem' = mem
    BY <1>1, <1>2, <1>4, <1>5, Zenon DEF mem
  <1>7. Active' = Active
    BY <1>2, Zenon DEF Active
  <1> QED
    BY <1>4, <1>6, <1>7, Zenon DEF abstract

LEMMA WriterRefines ==
  ASSUME IInv, NeverTooBig, DurableIs, DurableIs', Writer
  PROVE  Atomic!Next \/ UNCHANGED abstract
  <1> USE LogAssumption
  <1>1. CASE write_log
    <2>1. head = <<>> /\ head' = <<>> /\ disk' = disk
      BY <1>1, Zenon DEF write_log, IInv, Header
    <2>2. Durable' = Durable
      BY <2>1 DEF Durable, Listed
    <2>3. mem' = mem /\ Active' = Active
      BY <1>1, Zenon DEF write_log, After, cacheVars, callVars, mem, Active
    <2> QED
      BY <2>2, <2>3, Zenon DEF abstract
  <1>2. CASE write_head
    BY <1>2, CommitRefines, Zenon DEF Atomic!Next
  <1>3. CASE read_head
    <2>1. UNCHANGED <<Durable, Active>>
      BY <1>3, SameDurable, Zenon DEF read_head, diskVars, callVars, Active
    <2>2. mem' = mem
      BY <1>3, <2>1, Zenon DEF read_head, mem
    <2> QED
      BY <2>1, <2>2, Zenon DEF abstract
  <1> QED
    BY <1>1, <1>2, <1>3, InstallRefines, EraseRefines, Zenon DEF Writer

LEMMA StepRefines ==
    IInv /\ NeverTooBig /\ DurableIs /\ DurableIs' /\ [Next]_vars => [Atomic!Next]_(Atomic!vars)
  <1> SUFFICES ASSUME IInv, NeverTooBig, DurableIs, DurableIs', [Next]_vars
               PROVE  Atomic!Next \/ UNCHANGED abstract
    BY Zenon DEF Atomic!vars, abstract, mem, Active
  <1>1. ASSUME NEW b \in Blocks, Recycle(b) PROVE UNCHANGED abstract
    BY <1>1, RecycleSame, SameDurable, Zenon DEF Recycle, diskVars, callVars, abstract, mem, Active
  <1>2. CASE Crash
    <2>1. Durable' = Durable
      BY <1>2, SameDurable, Zenon DEF Crash, diskVars
    <2>2. mem' = Durable /\ Active' = {}
      BY <1>2, <2>1, Zenon DEF Crash, mem, Active
    <2>3. Atomic!Crash
      BY <2>1, <2>2, Zenon DEF Atomic!Crash, mem, Active
    <2> QED
      BY <2>3, Zenon DEF Atomic!Next
  <1>3. CASE UNCHANGED vars
    BY <1>3, SameDurable, Zenon DEF vars, diskVars, cacheVars, callVars, abstract, mem, Active
  <1> QED
    BY <1>1, <1>2, <1>3, CallRefines, WriterRefines, Zenon DEF Next

\* As long as the log does not overflow, it implements the atomic disk, for any
\* numbers of processes, blocks and log blocks: whatever the calls write and
\* wherever the machine stops, in a commit or in a recovery, a group of calls is
\* on disk whole or not at all.
THEOREM AtomicDiskImplemented == Spec /\ []NeverTooBig => ImplementsAtomicDisk
  BY InitIInv, NextIInv, InitRefines, StepRefines, DurableInv, PTL
  DEF Spec, Atomic!Spec, ImplementsAtomicDisk
-----------------------------------------------------------------------------
(* What begin_op reserves is enough *)

\* A call logs so much less than MAXOPBLOCKS that the last call of a group finds
\* room: with the LOGSIZE of 30, the log of 30 blocks and the MAXOPBLOCKS of 10
\* of param.h and mkfs.c, a call logs 8 blocks at most.
LogFits == LOGSIZE - MAXOPBLOCKS + OpBlocks < SIZE - 1

U == UNION {wrote[p] : p \in Active}

\* The blocks that ended calls have listed leave room for the reservations.
Reserved ==
    /\ \A p \in Procs : IsFiniteSet(wrote[p]) /\ Cardinality(wrote[p]) <= OpBlocks
    /\ \A p \in Procs : p \notin Active => wrote[p] = {}
    /\ \A p \in Procs : buf[p] # NoBlock => buf[p] \in wrote[p]
    /\ Cardinality(Listed(lh) \ U) + outstanding * MAXOPBLOCKS <= LOGSIZE
    /\ Len(head) <= LOGSIZE

LEMMA ListedCard == ASSUME NEW h \in Seq(Blocks), OnceEach(h)
                    PROVE  IsFiniteSet(Listed(h)) /\ Cardinality(Listed(h)) = Len(h)
  <1> DEFINE f == [i \in 1..Len(h) |-> h[i]]
  <1>1. f \in Bijection(1..Len(h), Listed(h))
    <2>1. f \in [1..Len(h) -> Listed(h)]
      BY Zenon DEF Listed
    <2>2. f \in Injection(1..Len(h), Listed(h))
      BY <2>1, Zenon DEF Injection, IsInjective, OnceEach
    <2>3. f \in Surjection(1..Len(h), Listed(h))
      BY <2>1, Zenon DEF Surjection, Listed
    <2> QED
      BY <2>2, <2>3, Zenon DEF Bijection
  <1>2. IsFiniteSet(1..Len(h)) /\ Cardinality(1..Len(h)) = Len(h)
    <2>1. Len(h) \in Nat
      OBVIOUS
    <2>2. \A n \in Nat : IsFiniteSet(1..n) /\ Cardinality(1..n) = n
      BY FS_Interval
    <2> QED
      BY <2>1, <2>2, Zenon
  <1> QED
    BY <1>1, <1>2, FS_Bijection DEF ExistsBijection

\* The size of a union of sets of at most n elements.
LEMMA UnionBound ==
  ASSUME NEW A, IsFiniteSet(A), NEW n \in Nat, NEW W,
         \A a \in A : IsFiniteSet(W[a]) /\ Cardinality(W[a]) <= n
  PROVE  /\ IsFiniteSet(UNION {W[a] : a \in A})
         /\ Cardinality(UNION {W[a] : a \in A}) <= Cardinality(A) * n
  <1> DEFINE V == UNION {W[a] : a \in A}
             F(a) == CHOOSE f : f \in Bijection(1..Cardinality(W[a]), W[a])
             D == {x \in A \X (1..n) : x[2] <= Cardinality(W[x[1]])}
             g == [x \in D |-> F(x[1])[x[2]]]
  <1>1. \A a \in A : Cardinality(W[a]) \in Nat /\ F(a) \in Bijection(1..Cardinality(W[a]), W[a])
    BY FS_CardinalityType, Zenon DEF ExistsBijection
  <1>2. g \in [D -> V]
    <2> SUFFICES ASSUME NEW x \in D PROVE F(x[1])[x[2]] \in V
      BY Zenon
    <2>1. x[1] \in A /\ x[2] \in 1..Cardinality(W[x[1]])
      BY <1>1
    <2>2. F(x[1])[x[2]] \in W[x[1]]
      BY <1>1, <2>1, Zenon DEF Bijection, Injection
    <2> QED
      BY <2>1, <2>2, Zenon
  <1>3. ASSUME NEW v \in V PROVE \E x \in D : g[x] = v
    <2>1. PICK a \in A : v \in W[a]
      BY Zenon
    <2>2. PICK i \in 1..Cardinality(W[a]) : F(a)[i] = v
      BY <1>1, <2>1, Zenon DEF Bijection, Surjection
    <2>3. <<a, i>> \in D
      <3>1. Cardinality(W[a]) \in Nat /\ Cardinality(W[a]) <= n
        BY FS_CardinalityType, Zenon
      <3>2. i \in 1..n /\ i <= Cardinality(W[a])
        BY ONLY n \in Nat, <2>2, <3>1
      <3>3. <<a, i>> \in A \X (1..n) /\ <<a, i>>[1] = a /\ <<a, i>>[2] = i
        BY <3>2, Zenon
      <3>4. <<a, i>>[2] <= Cardinality(W[<<a, i>>[1]])
        BY <3>2, <3>3, Zenon
      <3> QED
        BY <3>3, <3>4, Zenon
    <2>4. g[<<a, i>>] = v
      BY <2>2, <2>3, Zenon
    <2> QED
      BY <2>3, <2>4, Zenon
  <1>4. g \in Surjection(D, V)
    BY <1>2, <1>3, Zenon DEF Surjection
  <1>5. IsFiniteSet(A \X (1..n)) /\ Cardinality(A \X (1..n)) = Cardinality(A) * n
    <2>1. IsFiniteSet(1..n) /\ Cardinality(1..n) = n
      BY FS_Interval
    <2> QED
      BY <2>1, FS_Product, Zenon
  <1>6. IsFiniteSet(D) /\ Cardinality(D) <= Cardinality(A) * n /\ Cardinality(D) \in Nat
    <2>1. D \in SUBSET (A \X (1..n))
      BY Zenon
    <2> QED
      BY <1>5, <2>1, FS_Subset, FS_CardinalityType, Zenon
  <1>7. IsFiniteSet(V) /\ Cardinality(V) <= Cardinality(D) /\ Cardinality(V) \in Nat
    BY <1>4, <1>6, FS_Surjection, FS_CardinalityType
  <1>8. Cardinality(A) * n \in Nat
    BY FS_CardinalityType
  <1> HIDE DEF V, D, g, F
  <1>9. IsFiniteSet(V) /\ Cardinality(V) <= Cardinality(A) * n
    BY <1>6, <1>7, <1>8
  <1> QED
    BY <1>9, Zenon DEF V

LEMMA Product == ASSUME NEW n \in Nat, NEW a \in Nat, NEW b \in Nat, b <= a, n >= 1
                 PROVE  n * a - n * b >= a - b /\ n * a \in Nat /\ n * b \in Nat
  <1>1. PICK d \in Nat : a = b + d
    <2>1. a - b \in Nat /\ a = b + (a - b)
      OBVIOUS
    <2> QED
      BY <2>1, Zenon
  <1>2. PICK m \in Nat : n = m + 1
    <2>1. n - 1 \in Nat /\ n = (n - 1) + 1
      OBVIOUS
    <2> QED
      BY <2>1, Zenon
  <1>3. n * a = n * b + n * d
    BY <1>1
  <1>4. n * d = m * d + d
    BY <1>2
  <1>5. m * d \in Nat /\ n * d \in Nat /\ n * a \in Nat /\ n * b \in Nat
    OBVIOUS
  <1> QED
    BY <1>1, <1>3, <1>4, <1>5

\* While a call is under way, the log has room for one more block.
LEMMA Fits == ASSUME LogFits, IInv, Reserved, Active # {} PROVE ~TooBig
  <1> USE LogAssumption
  <1>1. outstanding \in Nat /\ outstanding >= 1 /\ outstanding = Cardinality(Active)
    BY ActiveFinite DEF IInv, Calls
  <1>2. IsFiniteSet(Listed(lh)) /\ Cardinality(Listed(lh)) = Len(lh) /\ Len(lh) \in Nat
    BY ListedCard DEF IInv, Types, Header
  <1>3. IsFiniteSet(U) /\ Cardinality(U) <= outstanding * OpBlocks /\ Cardinality(U) \in Nat
    <2>1. \A p \in Active : IsFiniteSet(wrote[p]) /\ Cardinality(wrote[p]) <= OpBlocks
      BY Zenon DEF Reserved, Active
    <2>2. IsFiniteSet(U) /\ Cardinality(U) <= outstanding * OpBlocks
      <3>1. /\ IsFiniteSet(UNION {wrote[p] : p \in Active})
            /\ Cardinality(UNION {wrote[p] : p \in Active}) <= Cardinality(Active) * OpBlocks
        <4>1. OpBlocks \in Nat /\ IsFiniteSet(Active)
          BY ActiveFinite
        <4> QED
          BY <2>1, <4>1, UnionBound
      <3> QED
        BY <1>1, <3>1, Zenon DEF U
    <2> QED
      BY <2>2, FS_CardinalityType, Zenon
  <1>4. Len(lh) <= Cardinality(Listed(lh) \ U) + Cardinality(U) /\ Cardinality(Listed(lh) \ U) \in Nat
    <2>1. Cardinality(Listed(lh) \ U) = Cardinality(Listed(lh)) - Cardinality(Listed(lh) \cap U)
          /\ IsFiniteSet(Listed(lh) \ U)
      BY <1>2, FS_Difference, Zenon
    <2>2. Cardinality(Listed(lh) \cap U) <= Cardinality(U) /\ IsFiniteSet(Listed(lh) \cap U)
      BY <1>3, FS_Intersection, Zenon
    <2>3. Cardinality(Listed(lh) \cap U) \in Nat /\ Cardinality(Listed(lh) \ U) \in Nat
      BY <2>1, <2>2, FS_CardinalityType, Zenon
    <2> QED
      BY <1>2, <1>3, <2>1, <2>2, <2>3
  <1>5. /\ outstanding * MAXOPBLOCKS - outstanding * OpBlocks >= MAXOPBLOCKS - OpBlocks
        /\ outstanding * MAXOPBLOCKS \in Nat /\ outstanding * OpBlocks \in Nat
    BY <1>1, Product
  <1>6. Cardinality(Listed(lh) \ U) + outstanding * MAXOPBLOCKS <= LOGSIZE
    BY Zenon DEF Reserved
  <1>7. Len(lh) < SIZE - 1 /\ Len(lh) < LOGSIZE
    BY <1>2, <1>3, <1>4, <1>5, <1>6 DEF LogFits
  <1> QED
    BY <1>1, <1>2, <1>7 DEF TooBig

LEMMA InitReserved == Init => Reserved
  <1> SUFFICES ASSUME Init PROVE Reserved
    BY Zenon
  <1>1. Listed(lh) = {} /\ Len(head) = 0
    BY DEF Init, Listed
  <1>2. Listed(lh) \ U = {}
    BY <1>1, Zenon
  <1>3. Cardinality(Listed(lh) \ U) = 0
    BY <1>2, FS_EmptySet, Zenon
  <1>4. \A p \in Procs : wrote[p] = {} /\ buf[p] = NoBlock
    BY Zenon DEF Init
  <1> QED
    BY <1>1, <1>3, <1>4, FS_EmptySet, LogAssumption DEF Init, Reserved

\* The sizes that the steps compare.
LEMMA ListedSizes == ASSUME IInv, NEW V
  PROVE /\ IsFiniteSet(Listed(lh) \ V) /\ Cardinality(Listed(lh) \ V) \in Nat
        /\ Cardinality(Listed(lh) \ V) <= Len(lh) /\ Len(lh) \in Nat
  <1>1. IsFiniteSet(Listed(lh)) /\ Cardinality(Listed(lh)) = Len(lh) /\ Len(lh) \in Nat
    BY ListedCard DEF IInv, Types, Header
  <1>2. Listed(lh) \ V \in SUBSET Listed(lh)
    BY Zenon
  <1> QED
    BY <1>1, <1>2, FS_Subset, FS_CardinalityType, Zenon

\* Without a call under way nothing is reserved.
LEMMA NoneReserved == ASSUME IInv, phase # "up"
                      PROVE  U = {} /\ outstanding = 0 /\ Listed(lh) \ U = Listed(lh)
  <1>1. Active = {}
    BY Zenon DEF IInv, Calls
  <1>2. U = {}
    BY <1>1, Zenon DEF U
  <1> QED
    BY <1>1, <1>2, FS_EmptySet, Zenon DEF IInv, Calls

LEMMA CallReserved == ASSUME IInv, Reserved, NEW p \in Procs, Call(p) PROVE Reserved'
  <1> USE LogAssumption
  <1>1. CASE begin_op(p)
    <2>1. UNCHANGED <<wrote, buf, lh, head>> /\ p \notin Active
      BY <1>1, Zenon DEF begin_op, diskVars, Active
    <2>2. CASE pc' = [pc EXCEPT ![p] = "asleep"] /\ outstanding' = outstanding
      <3>1. Active' = Active
        BY <1>1, <2>2, Zenon DEF Active, begin_op, IInv, Types
      <3> QED
        BY <2>1, <2>2, <3>1, Zenon DEF Reserved, U
    <2>3. CASE ~MustWait /\ outstanding' = outstanding + 1 /\ pc' = [pc EXCEPT ![p] = "op"]
      <3>1. Active' = Active \cup {p}
        BY <1>1, <2>3, Zenon DEF Active, begin_op, IInv, Types
      <3>2. Len(lh) + (outstanding + 1) * MAXOPBLOCKS <= LOGSIZE
        <4>1. (outstanding + 1) * MAXOPBLOCKS \in Nat
          BY DEF IInv, Types
        <4> QED
          BY <2>3, <4>1, ListedSizes DEF MustWait
      <3>3. Cardinality((Listed(lh) \ U)') <= Len(lh) /\ Cardinality((Listed(lh) \ U)') \in Nat
        BY <2>1, ListedSizes, Zenon DEF Listed
      <3>4. Cardinality((Listed(lh) \ U)') + outstanding' * MAXOPBLOCKS <= LOGSIZE
        <4>1. (outstanding + 1) * MAXOPBLOCKS \in Nat
          BY DEF IInv, Types
        <4> QED
          BY <2>3, <3>2, <3>3, <4>1, ListedSizes
      <3> QED
        BY <2>1, <3>1, <3>4, Zenon DEF Reserved
    <2> QED
      BY <1>1, <2>2, <2>3, Zenon DEF begin_op
  <1>2. ASSUME NEW b \in Blocks, NEW v \in Values, Modify(p, b, v) PROVE Reserved'
    <2>1. /\ UNCHANGED <<lh, head, outstanding>> /\ buf' = [buf EXCEPT ![p] = b]
          /\ wrote' = [wrote EXCEPT ![p] = @ \cup {b}] /\ Cardinality(wrote[p] \cup {b}) <= OpBlocks
      BY <1>2, Zenon DEF Modify, diskVars, logVars
    <2>2. Active' = Active /\ p \in Active
      BY <1>2, Zenon DEF Modify, Active, IInv, Types
    <2>3. U \subseteq U'
      BY <2>1, <2>2 DEF U, Active, IInv, Types
    <2>4. Cardinality((Listed(lh) \ U)') <= Cardinality(Listed(lh) \ U) /\ Cardinality((Listed(lh) \ U)') \in Nat
      <3>1. (Listed(lh) \ U)' \in SUBSET (Listed(lh) \ U)
        BY <2>1, <2>3, Zenon DEF Listed
      <3> QED
        BY <3>1, ListedSizes, FS_Subset, FS_CardinalityType, Zenon
    <2>5. Cardinality((Listed(lh) \ U)') + outstanding' * MAXOPBLOCKS <= LOGSIZE
      <3>1. outstanding * MAXOPBLOCKS \in Nat
        BY DEF IInv, Types
      <3>2. Cardinality(Listed(lh) \ U) \in Nat /\ Cardinality(Listed(lh) \ U) + outstanding * MAXOPBLOCKS <= LOGSIZE
        BY ListedSizes, Zenon DEF Reserved
      <3> QED
        BY <2>1, <2>4, <3>1, <3>2
    <2>6. IsFiniteSet(wrote[p] \cup {b})
      BY FS_AddElement, Zenon DEF Reserved
    <2>7. \A q \in Procs : IsFiniteSet(wrote'[q]) /\ Cardinality(wrote'[q]) <= OpBlocks
      BY <2>1, <2>6, Zenon DEF Reserved, IInv, Types
    <2> QED
      BY <2>1, <2>2, <2>5, <2>7, Zenon DEF Reserved, IInv, Types
  <1>3. CASE log_write(p)
    <2>1. /\ UNCHANGED <<wrote, head, outstanding>> /\ buf' = [buf EXCEPT ![p] = NoBlock]
          /\ lh' = IF buf[p] \in Listed(lh) THEN lh ELSE Append(lh, buf[p])
      BY <1>3, Zenon DEF log_write, diskVars
    <2>2. Active' = Active /\ p \in Active /\ buf[p] \in Blocks /\ buf[p] \in wrote[p]
      BY <1>3, Zenon DEF log_write, Active, IInv, Types, Calls, Reserved
    <2>3. U' = U /\ buf[p] \in U
      BY <2>1, <2>2, Zenon DEF U
    <2>4. Listed(lh') \subseteq Listed(lh) \cup {buf[p]} /\ Listed(lh) \subseteq Listed(lh')
      <3>1. CASE buf[p] \in Listed(lh)
        BY <2>1, <3>1, Zenon
      <3>2. CASE buf[p] \notin Listed(lh)
        <4>1. /\ Len(lh) \in Nat /\ Len(lh') = Len(lh) + 1 /\ lh'[Len(lh) + 1] = buf[p]
              /\ \A i \in 1..Len(lh) : lh'[i] = lh[i]
          BY <2>1, <2>2, <3>2 DEF IInv, Types
        <4> QED
          BY <4>1 DEF Listed
      <3> QED
        BY <3>1, <3>2, Zenon
    <2>5. (Listed(lh) \ U)' = Listed(lh) \ U
      BY <2>3, <2>4, Zenon DEF Listed
    <2> QED
      BY <2>1, <2>2, <2>5, Zenon DEF Reserved, IInv, Types
  <1>4. CASE end_op(p)
    <2>1. /\ UNCHANGED <<lh, head, buf>> /\ outstanding' = outstanding - 1
          /\ wrote' = [wrote EXCEPT ![p] = {}]
      BY <1>4, Zenon DEF end_op, diskVars
    <2>2. Active' = Active \ {p} /\ p \in Active
      <3>1. CASE pc' = [pc EXCEPT ![p] = "commit"]
        BY <1>4, <3>1, Zenon DEF end_op, Active, IInv, Types
      <3>2. CASE pc' = [wakeup EXCEPT ![p] = "idle"]
        BY <1>4, <3>2, Woken, Zenon DEF end_op, Active, IInv, Types
      <3> QED
        BY <1>4, <3>1, <3>2, Zenon DEF end_op
    <2>3. U \subseteq U' \cup wrote[p]
      BY <2>1, <2>2, Zenon DEF U, Active, IInv, Types
    <2>4. (Listed(lh) \ U)' \in SUBSET ((Listed(lh) \ U) \cup wrote[p])
      BY <2>1, <2>3, Zenon DEF Listed
    <2>5. /\ Cardinality((Listed(lh) \ U)') <= Cardinality(Listed(lh) \ U) + MAXOPBLOCKS
          /\ Cardinality((Listed(lh) \ U)') \in Nat /\ Cardinality(Listed(lh) \ U) \in Nat
      <3> DEFINE S == Listed(lh) \ U
                 T == wrote[p]
      <3>1. IsFiniteSet(S) /\ Cardinality(S) \in Nat
        BY ListedSizes, Zenon
      <3>2. IsFiniteSet(T) /\ Cardinality(T) \in Nat /\ Cardinality(T) <= MAXOPBLOCKS
        BY FS_CardinalityType DEF Reserved
      <3>3. /\ IsFiniteSet(S \cup T) /\ Cardinality(S \cap T) \in Nat
            /\ Cardinality(S \cup T) = Cardinality(S) + Cardinality(T) - Cardinality(S \cap T)
        BY <3>1, <3>2, FS_Union, FS_Intersection, FS_CardinalityType, Zenon
      <3>4. Cardinality((Listed(lh) \ U)') <= Cardinality(S \cup T) /\ Cardinality((Listed(lh) \ U)') \in Nat
        BY <2>4, <3>3, FS_Subset, FS_CardinalityType, Zenon
      <3> QED
        BY <3>1, <3>2, <3>3, <3>4
    <2>6. Cardinality((Listed(lh) \ U)') + outstanding' * MAXOPBLOCKS <= LOGSIZE
      <3>1. outstanding' * MAXOPBLOCKS = outstanding * MAXOPBLOCKS - MAXOPBLOCKS
            /\ outstanding * MAXOPBLOCKS \in Nat
        BY <2>1 DEF IInv, Types
      <3> QED
        BY <2>5, <3>1 DEF Reserved
    <2>7. \A q \in Procs : IsFiniteSet(wrote'[q]) /\ Cardinality(wrote'[q]) <= OpBlocks
      BY <2>1, FS_EmptySet DEF Reserved, IInv, Types
    <2>8. buf[p] = NoBlock
      BY <1>4, Zenon DEF end_op, IInv, Calls
    <2> QED
      BY <2>1, <2>2, <2>6, <2>7, <2>8, Zenon DEF Reserved, IInv, Types
  <1>5. CASE end_commit(p)
    <2>1. UNCHANGED <<wrote, buf, lh, head, outstanding>>
      BY <1>5, Zenon DEF end_commit, diskVars
    <2>2. Active' = Active
      BY <1>5, Woken, Zenon DEF end_commit, Active, IInv, Types
    <2> QED
      BY <2>1, <2>2, Zenon DEF Reserved, U
  <1> QED
    BY <1>1, <1>2, <1>3, <1>4, <1>5, Zenon DEF Call

LEMMA WriterReserved == ASSUME IInv, Reserved, Writer PROVE Reserved'
  <1> USE LogAssumption
  <1>1. UNCHANGED <<pc, wrote, buf, outstanding>> /\ phase # "up"
    BY Zenon DEF Writer, write_log, write_head, install_trans, erase, read_head, logVars, callVars
  <1>2. Active' = Active /\ U' = U
    BY <1>1, Zenon DEF Active, U
  <1>3. U = {} /\ outstanding = 0 /\ Cardinality(Listed(lh) \ U) <= LOGSIZE /\ Len(lh) = Cardinality(Listed(lh) \ U)
    <2>1. U = {} /\ outstanding = 0 /\ Listed(lh) \ U = Listed(lh)
      BY <1>1, NoneReserved, Zenon
    <2>2. Len(lh) = Cardinality(Listed(lh)) /\ Len(lh) \in Nat
      BY ListedCard DEF IInv, Types, Header
    <2>3. Cardinality(Listed(lh) \ U) + outstanding * MAXOPBLOCKS <= LOGSIZE
      BY Zenon DEF Reserved
    <2> QED
      BY <2>1, <2>2, <2>3
  <1>4. Len(head') <= LOGSIZE /\ Cardinality((Listed(lh) \ U)') <= LOGSIZE
    <2>1. CASE UNCHANGED <<lh, head>>
      BY <1>2, <1>3, <2>1, Zenon DEF Reserved, Listed
    <2>2. CASE write_head
      BY <1>2, <1>3, <2>2, Zenon DEF write_head, logVars, Listed
    <2>3. CASE erase
      <3>1. (Listed(lh) \ U)' = {} /\ Len(head') = 0
        BY <2>3 DEF erase, Listed
      <3> QED
        BY <3>1, FS_EmptySet
    <2>4. CASE read_head
      <3>1. (Listed(lh) \ U)' = Listed(head) /\ head' = head
        BY <1>2, <1>3, <2>4, Zenon DEF read_head, diskVars, Listed
      <3>2. Cardinality(Listed(head)) = Len(head)
        BY ListedCard, Zenon DEF IInv, Types, Header
      <3> QED
        BY <3>1, <3>2, Zenon DEF Reserved
    <2> QED
      BY <2>1, <2>2, <2>3, <2>4, Zenon DEF Writer, write_log, install_trans, logVars
  <1>5. outstanding' * MAXOPBLOCKS = 0 /\ Cardinality((Listed(lh) \ U)') + 0 <= LOGSIZE
    <2>1. IsFiniteSet((Listed(lh) \ U)')
      <3>1. CASE UNCHANGED <<lh, head>>
        BY <1>2, <3>1, ListedSizes, Zenon DEF Listed
      <3>2. CASE erase
        <4>1. (Listed(lh) \ U)' = {}
          BY <3>2 DEF erase, Listed
        <4> QED
          BY <4>1, FS_EmptySet, Zenon
      <3>3. CASE write_head
        BY <1>2, <3>3, ListedSizes, Zenon DEF write_head, logVars, Listed
      <3>4. CASE read_head
        <4>1. (Listed(lh) \ U)' = Listed(head)
          BY <1>2, <1>3, <3>4, Zenon DEF read_head, Listed
        <4> QED
          BY <4>1, ListedCard, Zenon DEF IInv, Types, Header
      <3> QED
        BY <3>1, <3>2, <3>3, <3>4, Zenon DEF Writer, write_log, install_trans, logVars
    <2> QED
      BY <1>1, <1>3, <1>4, <2>1, FS_CardinalityType
  <1> QED
    BY <1>1, <1>2, <1>3, <1>4, <1>5, Zenon DEF Reserved

LEMMA NextReserved == IInv /\ Reserved /\ [Next]_vars => Reserved'
  <1> SUFFICES ASSUME IInv, Reserved, [Next]_vars PROVE Reserved'
    BY Zenon
  <1>1. ASSUME NEW b \in Blocks, Recycle(b) PROVE Reserved'
    <2>1. UNCHANGED <<pc, wrote, buf, lh, head, outstanding>>
      BY <1>1, Zenon DEF Recycle, diskVars, logVars, callVars
    <2> QED
      BY <2>1, Zenon DEF Reserved, U, Active, Listed
  <1>2. CASE Crash
    <2>1. \A p \in Procs : wrote'[p] = {} /\ buf'[p] = NoBlock
      BY <1>2, Zenon DEF Crash
    <2>2. (Listed(lh) \ U)' = {} /\ outstanding' = 0 /\ head' = head
      BY <1>2 DEF Crash, diskVars, Listed
    <2>3. Cardinality((Listed(lh) \ U)') = 0 /\ outstanding' * MAXOPBLOCKS = 0
      BY <2>2, FS_EmptySet, LogAssumption
    <2>4. \A p \in Procs : IsFiniteSet(wrote'[p]) /\ Cardinality(wrote'[p]) <= OpBlocks
      BY <2>1, FS_EmptySet, LogAssumption
    <2> QED
      BY <2>1, <2>2, <2>3, <2>4, LogAssumption DEF Reserved
  <1>3. CASE UNCHANGED vars
    BY <1>3, Zenon DEF vars, diskVars, logVars, callVars, Reserved, U, Active, Listed
  <1> QED
    BY <1>1, <1>2, <1>3, CallReserved, WriterReserved, Zenon DEF Next

Room == Active # {} => ~TooBig

\* The log grows only while a call is under way, and then there is room.
LEMMA NextFits == IInv /\ Room /\ Room' /\ NeverTooBig /\ [Next]_vars => NeverTooBig'
  <1> SUFFICES ASSUME IInv, Room, Room', NeverTooBig, [Next]_vars PROVE NeverTooBig'
    BY Zenon
  <1> USE LogAssumption
  <1>1. ASSUME NEW p \in Procs, begin_op(p) \/ end_op(p) \/ end_commit(p) PROVE NeverTooBig'
    <2>1. lh' = lh
      BY <1>1, Zenon DEF begin_op, end_op, end_commit
    <2>2. CASE end_op(p)
      <3>1. ~committing
        BY <2>2, CallUp, Zenon DEF end_op, IInv, Calls, Committing
      <3> QED
        BY <2>1, <2>2, <3>1, Zenon DEF end_op, NeverTooBig
    <2> QED
      BY <1>1, <2>1, <2>2 DEF begin_op, end_commit, NeverTooBig
  <1>2. ASSUME NEW p \in Procs, NEW b \in Blocks, NEW v \in Values, Modify(p, b, v) PROVE NeverTooBig'
    <2>1. p \in Active
      BY <1>2, Zenon DEF Modify, Active
    <2> QED
      BY <1>2, <2>1, Zenon DEF Modify, Room, NeverTooBig, logVars
  <1>3. ASSUME NEW p \in Procs, log_write(p) PROVE NeverTooBig'
    <2>1. p \in Active'
      BY <1>3, Zenon DEF log_write, Active, IInv, Types
    <2>2. lh' \in Seq(Blocks)
      BY <1>3, log_writeStep, Zenon DEF IInv, Types
    <2>3. Len(lh') \in Nat /\ Len(lh') < SIZE - 1
      BY <2>1, <2>2 DEF Room, TooBig
    <2> QED
      BY <1>3, <2>3 DEF log_write, NeverTooBig
  <1>4. CASE Writer
    <2>1. CASE read_head
      BY <2>1, Zenon DEF read_head, NeverTooBig, IInv, Header
    <2>2. CASE erase
      BY <2>2 DEF erase, NeverTooBig
    <2> QED
      <3>1. CASE UNCHANGED <<lh, panicked>>
        BY <3>1, Zenon DEF NeverTooBig
      <3> QED
        BY <1>4, <2>1, <2>2, <3>1, Zenon DEF Writer, write_log, write_head, install_trans, logVars
  <1>5. CASE Crash
    BY <1>5 DEF Crash, NeverTooBig
  <1>6. CASE UNCHANGED vars \/ \E b \in Blocks : Recycle(b)
    BY <1>6 DEF vars, Recycle, logVars, NeverTooBig
  <1> QED
    BY <1>1, <1>2, <1>3, <1>4, <1>5, <1>6, Zenon DEF Next, Call

\* What begin_op reserves is enough for any numbers of processes and blocks and
\* any sizes that fit (LogFits): the panics of log_write are not reached, though
\* it tests log.lh.n before it takes the lock, and the on-disk log has a block
\* for each block of a group.
THEOREM ReservationSuffices == LogFits => (Spec => []NeverTooBig)
  <1> SUFFICES ASSUME LogFits PROVE Spec => []NeverTooBig
    BY Zenon
  <1>1. Init => NeverTooBig
    BY LogAssumption DEF Init, NeverTooBig
  <1>2. IInv /\ Reserved => Room
    BY Fits, Zenon DEF Room
  <1> QED
    BY <1>1, <1>2, InitIInv, NextIInv, InitReserved, NextReserved, NextFits, PTL DEF Spec

\* With such sizes the log is an atomic disk without further conditions.
THEOREM FittingLogIsAtomic == LogFits => (Spec => ImplementsAtomicDisk)
  BY ReservationSuffices, AtomicDiskImplemented, PTL
=============================================================================
