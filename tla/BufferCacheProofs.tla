------------------------- MODULE BufferCacheProofs -------------------------
(***************************************************************************)
(* Proofs about the buffer cache, for any number of processes, buffers,    *)
(* blocks and request slots.                                               *)
(*                                                                         *)
(* BuffersAccounted follows from AInv, whatever the processes do.  AInv    *)
(* replaces the cardinalities of the property by facts about owners, which *)
(* a step changes one at a time, and says what each process has at each    *)
(* place of its program (Places).                                          *)
(*                                                                         *)
(* NoLostWrite, ReadersSeeLatest and SyncFlushes follow from AInv and      *)
(* CInv.  The four are one induction: a read finds the latest contents on  *)
(* disk because no write is lost, and no write is lost because a read is   *)
(* never queued for a dirty buffer (add_request() clears b_dirt whatever   *)
(* the command), which rests on dirty buffers being up to date, and on a   *)
(* change being marked when it is made.  block_write() breaks the first,   *)
(* file_write() the second; SafeWork leaves them out.                      *)
(***************************************************************************)
EXTENDS BufferCache, SequenceTheorems, FiniteSetTheorems, TLAPS

-----------------------------------------------------------------------------
(* Sets of numbers.                                                        *)

(* The least element of a set of natural numbers.                          *)
LEMMA HasLeast ==
  ASSUME NEW S \in SUBSET Nat, S # {}
  PROVE  \E x \in S : \A y \in S : x <= y
<1>1. PICK x \in S : \A y \in S : ~(<<y, x>> \in OpToRel(<, Nat))
  BY NatLessThanWellFounded, WFMin, Zenon
<1>2. \A y \in S : y \in Nat /\ x \in Nat /\ ~(y < x)
  BY <1>1, Zenon DEF OpToRel
<1> QED
  BY <1>2

(* The greatest element of a bounded set of natural numbers.               *)
LEMMA HasGreatest ==
  ASSUME NEW n \in Nat, NEW S \in SUBSET (0 .. n), S # {}
  PROVE  \E x \in S : \A y \in S : y <= x
<1> DEFINE T == {m \in 0 .. n : n - m \in S}
<1>1. \A y \in S : n - y \in T /\ y \in 0 .. n
  OBVIOUS
<1>2. T \in SUBSET Nat
  OBVIOUS
<1>3. T # {}
  <2>1. PICK y \in S : n - y \in T
    BY <1>1
  <2> HIDE DEF T
  <2> QED
    BY <2>1
<1>4. PICK m \in T : \A y \in T : m <= y
  BY ONLY <1>2, <1>3, HasLeast
<1>5. m \in 0 .. n /\ n - m \in S
  OBVIOUS
<1> QED
  BY <1>1, <1>4, <1>5

-----------------------------------------------------------------------------
(* The inductive invariant of the accounting.                              *)
InSync == {"sync", "sync_wait", "slot_w"}

(* What a process has at each place: op "none" outside the kernel only;    *)
(* the cursor is SysSync's in sys_sync() only; a block to look for; a      *)
(* buffer; a buffer under the cursor.                                      *)
Places ==
  \A p \in Procs :
    /\ pc[p] = "idle" <=> op[p] = "none"
    /\ op[p] = "sync" <=> pc[p] \in InSync /\ sy[p].dev = SysSync
    /\ op[p] \notin {"none", "sync"} => blk[p] \in Blocks
    /\ pc[p] \in Holding \cup {"free_wait"} => bh[p] \in Buffers
    /\ pc[p] \in InSync /\ op[p] # "sync" => bh[p] \in Buffers
    /\ pc[p] \in {"sync_wait", "slot_w"} => sy[p].i \in Buffers

Holders(b) == {p \in Procs : pc[p] \in Holding /\ bh[p] = b}

Counted == \A b \in Buffers : b_count[b] = Cardinality(Holders(b))
Held == \A p \in Procs : pc[p] \in Holding => b_blk[bh[p]] = blk[p]

(* Request s, or process p on its way to a request, has buffer b locked.   *)
OwnsR(s, b) == request[s] # NoReq /\ request[s].bh = b
OwnsP(p, b) == \/ pc[p] = "slot_r" /\ bh[p] = b
               \/ pc[p] = "slot_w" /\ sy[p].i = b

Locks ==
  /\ \A b \in Buffers : b_lock[b] =>
       (\E s \in Slots : OwnsR(s, b)) \/ (\E p \in Procs : OwnsP(p, b))
  /\ \A b \in Buffers, s \in Slots : OwnsR(s, b) =>
       /\ b_lock[b]
       /\ \A s2 \in Slots : OwnsR(s2, b) => s2 = s
       /\ \A p \in Procs : ~OwnsP(p, b)
  /\ \A b \in Buffers, p \in Procs : OwnsP(p, b) =>
       /\ b_lock[b]
       /\ \A q \in Procs : OwnsP(q, b) => q = p

(* A buffer without a block is never dirty, nor locked.                    *)
BusyHasBlock == \A b \in Buffers : b_dirt[b] \/ b_lock[b] => b_blk[b] \in Blocks

AInv == TypeOK /\ Places /\ UniqueBuffer /\ Counted /\ Held /\ Locks
          /\ AllListed /\ BusyHasBlock

(* The work without the two kinds of writing that lose data                *)
(* (MCBufferCache_block.cfg, MCBufferCache_file.cfg), on a disk that can   *)
(* always be written.                                                      *)
SafeWork ==
  /\ \A p \in Procs, k \in Blocks :
       <<"block_write", k>> \notin Work[p] /\ <<"file_write", k>> \notin Work[p]
  /\ WRITE \notin FailingCmds

SafeOps == \A p \in Procs : op[p] \in {"none", "read", "update", "sync"}

(* The data: a dirty buffer is up to date, an up to date buffer has the    *)
(* latest contents, a buffer in use is up to date; a read is for a buffer  *)
(* that is not, a write for one that is.                                   *)
DirtyIsUptodate == \A b \in Buffers : b_dirt[b] => b_uptodate[b]
UptodateIsFresh == \A b \in Buffers : b_uptodate[b] => b_fresh[b]
UsedIsUptodate ==
  \A p \in Procs :
    /\ pc[p] \in {"use", "copy"} => b_uptodate[bh[p]]
    /\ pc[p] = "slot_r" => ~b_uptodate[bh[p]]
    /\ pc[p] = "slot_w" => b_dirt[sy[p].i]
RequestsFit ==
  \A s \in Slots : request[s] # NoReq =>
    /\ request[s].cmd = READ => /\ ~b_uptodate[request[s].bh]
                                /\ request[s].done => b_fresh[request[s].bh]
    /\ request[s].cmd = WRITE => b_uptodate[request[s].bh]
OwedIsDirty == \A p \in Procs : \A b \in owes[p] : b_dirt[b]

CInv == SafeOps /\ DirtyIsUptodate /\ UptodateIsFresh /\ UsedIsUptodate
          /\ RequestsFit /\ NoLostWrite /\ OwedIsDirty /\ SyncFlushes

-----------------------------------------------------------------------------
(* Initially.                                                              *)
LEMMA InitA == Init => AInv
<1> SUFFICES ASSUME Init PROVE AInv
  OBVIOUS
<1>0. NR_BUFFERS \in Nat \ {0} /\ NR_REQUEST \in Nat
  BY SizesAssumption
<1>1. free_list \in Seq(Buffers) /\ Len(free_list) = NR_BUFFERS /\ DOMAIN free_list = Buffers
  BY <1>0, LenProperties, ElementOfSeq, IsASeq, SMT DEF Init, Buffers
<1>2. TypeOK
  BY <1>0, <1>1 DEF Init, TypeOK, NoSync, PCs
<1>3. Places
  BY DEF Init, Places, InSync, Holding
<1>4. UniqueBuffer /\ Held /\ BusyHasBlock
  BY DEF Init, UniqueBuffer, Held, BusyHasBlock, Holding
<1>5. Counted
  <2> SUFFICES ASSUME NEW b \in Buffers PROVE b_count[b] = Cardinality(Holders(b))
    BY DEF Counted
  <2>1. Holders(b) = {}
    BY DEF Init, Holders, Holding
  <2> QED
    BY <2>1, FS_EmptySet DEF Init
<1>6. Locks
  BY DEF Init, Locks, OwnsR, OwnsP
<1>7. AllListed
  BY <1>0, <1>1 DEF Init, AllListed
<1> QED
  BY <1>2, <1>3, <1>4, <1>5, <1>6, <1>7 DEF AInv

-----------------------------------------------------------------------------
(* b_count follows the holders.                                            *)
LEMMA HoldersFinite == \A b : IsFiniteSet(Holders(b))
<1> SUFFICES ASSUME NEW b PROVE IsFiniteSet(Holders(b))
  OBVIOUS
<1>1. Holders(b) \subseteq Procs
  BY DEF Holders
<1> QED
  BY <1>1, FS_Subset, ProcAssumption

LEMMA HoldSame ==
  ASSUME Counted, UNCHANGED b_count,
         \A q \in Procs : /\ pc'[q] \in Holding <=> pc[q] \in Holding
                          /\ pc[q] \in Holding => bh'[q] = bh[q]
  PROVE  Counted'
<1> SUFFICES ASSUME NEW b \in Buffers PROVE b_count'[b] = Cardinality(Holders(b)')
  BY DEF Counted
<1>1. Holders(b)' = Holders(b)
  BY DEF Holders
<1> QED
  BY <1>1 DEF Counted

(* p becomes a holder of c.                                                *)
LEMMA HoldAdd ==
  ASSUME Counted, NEW p \in Procs, NEW c \in Buffers, pc[p] \notin Holding,
         pc'[p] \in Holding, bh'[p] = c, b_count \in [Buffers -> Nat],
         b_count' = [b_count EXCEPT ![c] = b_count[c] + 1],
         \A q \in Procs \ {p} : pc'[q] = pc[q] /\ bh'[q] = bh[q]
  PROVE  Counted'
<1> SUFFICES ASSUME NEW b \in Buffers PROVE b_count'[b] = Cardinality(Holders(b)')
  BY DEF Counted
<1>1. CASE b = c
  <2>1. Holders(b)' = Holders(b) \cup {p} /\ p \notin Holders(b)
    BY <1>1 DEF Holders
  <2>2. Cardinality(Holders(b)') = Cardinality(Holders(b)) + 1
    BY <2>1, HoldersFinite, FS_AddElement
  <2> QED
    BY <1>1, <2>2 DEF Counted
<1>2. CASE b # c
  <2>1. Holders(b)' = Holders(b)
    BY <1>2 DEF Holders
  <2> QED
    BY <1>2, <2>1 DEF Counted
<1> QED
  BY <1>1, <1>2

(* p was a holder of c and is none any more.                               *)
LEMMA HoldDrop ==
  ASSUME Counted, NEW p \in Procs, NEW c \in Buffers, pc[p] \in Holding, bh[p] = c,
         pc'[p] \notin Holding, b_count \in [Buffers -> Nat],
         b_count' = [b_count EXCEPT ![c] = b_count[c] - 1],
         \A q \in Procs \ {p} : pc'[q] = pc[q] /\ bh'[q] = bh[q]
  PROVE  Counted' /\ b_count' \in [Buffers -> Nat]
<1>1. ASSUME NEW b \in Buffers PROVE b_count'[b] = Cardinality(Holders(b)')
  <2>1. CASE b = c
    <3>1. Holders(b)' = Holders(b) \ {p} /\ p \in Holders(b)
      BY <2>1 DEF Holders
    <3>2. Cardinality(Holders(b)') = Cardinality(Holders(b)) - 1
      BY <3>1, HoldersFinite, FS_RemoveElement
    <3> QED
      BY <2>1, <3>2 DEF Counted
  <2>2. CASE b # c
    <3>1. Holders(b)' = Holders(b)
      BY <2>2 DEF Holders
    <3> QED
      BY <2>2, <3>1 DEF Counted
  <2> QED
    BY <2>1, <2>2
<1>2. p \in Holders(c)
  BY DEF Holders
<1>3. Cardinality(Holders(c)) # 0
  BY <1>2, HoldersFinite, FS_EmptySet
<1>4. b_count[c] \in Nat \ {0}
  BY <1>3 DEF Counted
<1> QED
  BY <1>1, <1>4 DEF Counted

(* A buffer that is not counted has no holder.                             *)
LEMMA UnusedIsFree ==
  ASSUME Counted, NEW b \in Buffers, b_count[b] = 0
  PROVE  \A p \in Procs : pc[p] \in Holding => bh[p] # b
<1>1. Holders(b) = {}
  BY HoldersFinite, FS_EmptySet DEF Counted
<1> QED
  BY <1>1 DEF Holders

(* The owners of locks are the same.                                       *)
LEMMA LocksSame ==
  ASSUME Locks, UNCHANGED <<b_lock, request>>,
         \A q \in Procs, b \in Buffers : OwnsP(q, b)' <=> OwnsP(q, b)
  PROVE  Locks'
<1>1. \A s \in Slots, b \in Buffers : OwnsR(s, b)' <=> OwnsR(s, b)
  BY DEF OwnsR
<1> QED
  BY <1>1 DEF Locks

-----------------------------------------------------------------------------
(* A step of p that leaves the buffers, the requests and what p holds or   *)
(* locks alone.                                                            *)
LEMMA PlainStep ==
  ASSUME AInv, NEW p \in Procs, UNCHANGED <<b_blk, b_count, b_lock, free_list, request>>,
         NEW at, pc' = [pc EXCEPT ![p] = at],
         \A q \in Procs \ {p} : bh'[q] = bh[q] /\ blk'[q] = blk[q] /\ sy'[q] = sy[q],
         at \in Holding <=> pc[p] \in Holding,
         pc[p] \in Holding => bh'[p] = bh[p] /\ blk'[p] = blk[p],
         at \notin {"slot_r", "slot_w"} /\ pc[p] \notin {"slot_r", "slot_w"}
  PROVE  UniqueBuffer' /\ Counted' /\ Held' /\ Locks' /\ AllListed'
<1>1. pc \in [Procs -> PCs]
  BY DEF AInv, TypeOK
<1>2. pc'[p] = at /\ \A q \in Procs \ {p} : pc'[q] = pc[q]
  BY <1>1
<1>3. UniqueBuffer' /\ AllListed'
  BY DEF AInv, UniqueBuffer, AllListed
<1>4. Counted'
  BY <1>2, HoldSame DEF AInv
<1>5. Held'
  BY <1>2 DEF AInv, Held
<1>6. \A q \in Procs, b \in Buffers : OwnsP(q, b)' <=> OwnsP(q, b)
  BY <1>2 DEF OwnsP
<1>7. Locks'
  BY <1>6, LocksSame DEF AInv
<1> QED
  BY <1>3, <1>4, <1>5, <1>7

LEMMA StartA ==
  ASSUME AInv, NEW p \in Procs, NEW o \in AllOps, NEW k \in Blocks, Start(p, o, k)
  PROVE  AInv'
<1>1. TypeOK'
  BY DEF AInv, TypeOK, Start, Goto, bufVars, diskVars, PCs
<1>2. Places'
  BY DEF AInv, TypeOK, Places, Start, Goto, bufVars, diskVars, Holding, InSync, AllOps
<1>3. UniqueBuffer' /\ Counted' /\ Held' /\ Locks' /\ AllListed'
  <2>1. \A q \in Procs \ {p} : bh'[q] = bh[q] /\ blk'[q] = blk[q] /\ sy'[q] = sy[q]
    BY DEF AInv, TypeOK, Start
  <2> QED
    BY <2>1, PlainStep DEF Start, Goto, bufVars, diskVars, Holding
<1>4. BusyHasBlock'
  BY DEF AInv, BusyHasBlock, Start, bufVars
<1> QED
  BY <1>1, <1>2, <1>3, <1>4 DEF AInv

LEMMA StartSyncA ==
  ASSUME AInv, NEW p \in Procs, StartSync(p)
  PROVE  AInv'
<1>0. NoSync \in [dev : Devs \cup {SysSync}, i : 1 .. NR_BUFFERS + 1, pass : {1, 2}]
  BY SizesAssumption DEF NoSync
<1>1. TypeOK'
  BY <1>0 DEF AInv, TypeOK, StartSync, Goto, bufVars, diskVars, PCs, AllOps
<1>2. Places'
  BY DEF AInv, TypeOK, Places, StartSync, Goto, bufVars, diskVars, Holding, InSync, NoSync
<1>3. UniqueBuffer' /\ Counted' /\ Held' /\ Locks' /\ AllListed'
  <2>1. \A q \in Procs \ {p} : bh'[q] = bh[q] /\ blk'[q] = blk[q] /\ sy'[q] = sy[q]
    BY DEF AInv, TypeOK, StartSync
  <2>2. /\ pc' = [pc EXCEPT ![p] = "sync"] /\ pc[p] = "idle"
        /\ UNCHANGED <<b_blk, b_count, b_lock, free_list, request>>
    BY DEF StartSync, Goto, bufVars, diskVars
  <2>3. /\ "sync" \notin Holding /\ "idle" \notin Holding
        /\ "sync" \notin {"slot_r", "slot_w"} /\ "idle" \notin {"slot_r", "slot_w"}
    BY DEF Holding
  <2> QED
    BY <2>1, <2>2, <2>3, PlainStep
<1>4. BusyHasBlock'
  BY DEF AInv, BusyHasBlock, StartSync, bufVars
<1> QED
  BY <1>1, <1>2, <1>3, <1>4 DEF AInv

LEMMA GetblkCandidateA ==
  ASSUME AInv, NEW p \in Procs, GetblkCandidate(p)
  PROVE  AInv'
<1>0. PICK b \in Buffers : bh' = [bh EXCEPT ![p] = b] /\ Goto(p, "free_wait", b_lock[b])
  BY DEF GetblkCandidate
<1>1. TypeOK'
  BY <1>0 DEF AInv, TypeOK, GetblkCandidate, Goto, bufVars, diskVars, PCs
<1>2. Places'
  BY <1>0 DEF AInv, TypeOK, Places, GetblkCandidate, Goto, bufVars, diskVars, Holding, InSync
<1>3. UniqueBuffer' /\ Counted' /\ Held' /\ Locks' /\ AllListed'
  <2>1. \A q \in Procs \ {p} : bh'[q] = bh[q] /\ blk'[q] = blk[q] /\ sy'[q] = sy[q]
    BY <1>0 DEF AInv, TypeOK, GetblkCandidate
  <2> QED
    BY <1>0, <2>1, PlainStep DEF GetblkCandidate, Goto, bufVars, diskVars, Holding
<1>4. BusyHasBlock'
  BY DEF AInv, BusyHasBlock, GetblkCandidate, bufVars
<1> QED
  BY <1>1, <1>2, <1>3, <1>4 DEF AInv

LEMMA GetblkNoBufferA ==
  ASSUME AInv, NEW p \in Procs, GetblkNoBuffer(p)
  PROVE  AInv'
<1>1. TypeOK'
  BY DEF AInv, TypeOK, GetblkNoBuffer, Goto, bufVars, diskVars, PCs
<1>2. Places'
  BY DEF AInv, TypeOK, Places, GetblkNoBuffer, Goto, bufVars, diskVars, Holding, InSync
<1>3. UniqueBuffer' /\ Counted' /\ Held' /\ Locks' /\ AllListed'
  BY PlainStep DEF GetblkNoBuffer, Goto, bufVars, diskVars, Holding
<1>4. BusyHasBlock'
  BY DEF AInv, BusyHasBlock, GetblkNoBuffer, bufVars
<1> QED
  BY <1>1, <1>2, <1>3, <1>4 DEF AInv

LEMMA FreeWokenA ==
  ASSUME AInv, NEW p \in Procs, FreeWoken(p)
  PROVE  AInv'
<1>1. TypeOK'
  BY DEF AInv, TypeOK, FreeWoken, Goto, bufVars, diskVars, PCs
<1>2. Places'
  BY DEF AInv, TypeOK, Places, FreeWoken, Goto, bufVars, diskVars, Holding, InSync
<1>3. UniqueBuffer' /\ Counted' /\ Held' /\ Locks' /\ AllListed'
  BY PlainStep DEF FreeWoken, Goto, bufVars, diskVars, Holding
<1>4. BusyHasBlock'
  BY DEF AInv, BusyHasBlock, FreeWoken, bufVars
<1> QED
  BY <1>1, <1>2, <1>3, <1>4 DEF AInv

LEMMA FreeRetryA ==
  ASSUME AInv, NEW p \in Procs, FreeRetry(p)
  PROVE  AInv'
<1>1. TypeOK'
  BY DEF AInv, TypeOK, FreeRetry, Goto, bufVars, diskVars, PCs
<1>2. Places'
  BY DEF AInv, TypeOK, Places, FreeRetry, Goto, bufVars, diskVars, Holding, InSync
<1>3. UniqueBuffer' /\ Counted' /\ Held' /\ Locks' /\ AllListed'
  <2>1. \A q \in Procs \ {p} : bh'[q] = bh[q] /\ blk'[q] = blk[q] /\ sy'[q] = sy[q]
    BY DEF AInv, TypeOK, FreeRetry
  <2> QED
    BY <2>1, PlainStep DEF FreeRetry, Goto, bufVars, diskVars, Holding
<1>4. BusyHasBlock'
  BY DEF AInv, BusyHasBlock, FreeRetry, bufVars
<1> QED
  BY <1>1, <1>2, <1>3, <1>4 DEF AInv

LEMMA FreeSyncA ==
  ASSUME AInv, NEW p \in Procs, FreeSync(p)
  PROVE  AInv'
<1>0. PICK d \in Devs : d = BDev(bh[p])
  <2>1. bh[p] \in Buffers /\ b_dirt[bh[p]]
    BY DEF AInv, Places, FreeSync
  <2>2. b_blk[bh[p]] \in Blocks
    BY <2>1 DEF AInv, BusyHasBlock
  <2> QED
    BY <2>2, DevAssumption DEF BDev
<1>1. d # SysSync /\ sy' = [sy EXCEPT ![p] = [dev |-> d, i |-> 1, pass |-> 1]]
  BY <1>0, DevAssumption DEF FreeSync
<1>2. TypeOK'
  BY <1>1, SizesAssumption DEF AInv, TypeOK, FreeSync, Goto, bufVars, diskVars, PCs
<1>3. Places'
  BY <1>1 DEF AInv, TypeOK, Places, FreeSync, Goto, bufVars, diskVars, Holding, InSync
<1>4. UniqueBuffer' /\ Counted' /\ Held' /\ Locks' /\ AllListed'
  <2>1. \A q \in Procs \ {p} : bh'[q] = bh[q] /\ blk'[q] = blk[q] /\ sy'[q] = sy[q]
    BY <1>1 DEF AInv, TypeOK, FreeSync
  <2>2. /\ pc' = [pc EXCEPT ![p] = "sync"] /\ pc[p] = "free_wait"
        /\ UNCHANGED <<b_blk, b_count, b_lock, free_list, request>>
    BY DEF FreeSync, Goto, bufVars, diskVars
  <2>3. /\ "sync" \notin Holding /\ "free_wait" \notin Holding
        /\ "sync" \notin {"slot_r", "slot_w"} /\ "free_wait" \notin {"slot_r", "slot_w"}
    BY DEF Holding
  <2> QED
    BY <2>1, <2>2, <2>3, PlainStep
<1>5. BusyHasBlock'
  BY DEF AInv, BusyHasBlock, FreeSync, bufVars
<1> QED
  BY <1>2, <1>3, <1>4, <1>5 DEF AInv

LEMMA IoWaitA ==
  ASSUME AInv, NEW p \in Procs, IoWait(p)
  PROVE  AInv'
<1>0. PICK at \in {"use", "brelse"} : Goto(p, at, FALSE)
  BY DEF IoWait
<1>1. TypeOK'
  BY <1>0 DEF AInv, TypeOK, IoWait, Goto, bufVars, diskVars, PCs
<1>2. Places'
  BY <1>0 DEF AInv, TypeOK, Places, IoWait, Goto, bufVars, diskVars, Holding, InSync
<1>3. UniqueBuffer' /\ Counted' /\ Held' /\ Locks' /\ AllListed'
  BY <1>0, PlainStep DEF IoWait, Goto, bufVars, diskVars, Holding
<1>4. BusyHasBlock'
  BY DEF AInv, BusyHasBlock, IoWait, bufVars
<1> QED
  BY <1>1, <1>2, <1>3, <1>4 DEF AInv

(* The buffer of a holder has a block.                                     *)
LEMMA HolderHasBlock ==
  ASSUME AInv, NEW p \in Procs, pc[p] \in Holding
  PROVE  bh[p] \in Buffers /\ b_blk[bh[p]] \in Blocks /\ b_blk[bh[p]] = blk[p]
<1>1. bh[p] \in Buffers /\ b_blk[bh[p]] = blk[p]
  BY DEF AInv, Places, Held
<1>2. pc[p] # "idle" /\ pc[p] \notin InSync
  BY DEF Holding, InSync
<1>3. blk[p] \in Blocks
  BY <1>2 DEF AInv, Places
<1> QED
  BY <1>1, <1>3

LEMMA UseA ==
  ASSUME AInv, NEW p \in Procs, Use(p)
  PROVE  AInv'
<1>0. pc[p] \in Holding /\ pc[p] = "use"
  BY DEF Use, Holding
<1>1. pc' = [pc EXCEPT ![p] = "copy"] /\ cur' \in {NoProc, p}
  BY DEF Use, Goto
<1>2. bh[p] \in Buffers /\ b_blk[bh[p]] \in Blocks
  BY <1>0, HolderHasBlock
<1>3. b_dirt' \in [Buffers -> BOOLEAN] /\ \A b \in Buffers \ {bh[p]} : b_dirt'[b] = b_dirt[b]
  <2>1. b_dirt \in [Buffers -> BOOLEAN] /\ (b_dirt[bh[p]] \/ op[p] = "file_write") \in BOOLEAN
    BY <1>2 DEF AInv, TypeOK
  <2>2. b_dirt' = [b_dirt EXCEPT ![bh[p]] = (b_dirt[bh[p]] \/ op[p] = "file_write")]
    BY DEF Use
  <2> QED
    BY <2>1, <2>2
<1>4. TypeOK'
  BY <1>1, <1>3 DEF AInv, TypeOK, Use, bufVars, diskVars, PCs
<1>5. Places'
  BY <1>0, <1>1 DEF AInv, TypeOK, Places, Use, Holding, InSync
<1>6. UniqueBuffer' /\ Counted' /\ Held' /\ Locks' /\ AllListed'
  BY <1>0, <1>1, PlainStep DEF Use, diskVars, Holding
<1>7. BusyHasBlock'
  BY <1>2, <1>3 DEF AInv, BusyHasBlock, Use
<1> QED
  BY <1>4, <1>5, <1>6, <1>7 DEF AInv

LEMMA CopyA ==
  ASSUME AInv, NEW p \in Procs, Copy(p)
  PROVE  AInv'
<1>0. pc[p] \in Holding /\ pc[p] = "copy"
  BY DEF Copy, Holding
<1>1. pc' = [pc EXCEPT ![p] = "brelse"] /\ cur' \in {NoProc, p}
  BY DEF Copy, Goto
<1>2. bh[p] \in Buffers /\ b_blk[bh[p]] \in Blocks
  BY <1>0, HolderHasBlock
<1>3. b_dirt' \in [Buffers -> BOOLEAN] /\ \A b \in Buffers \ {bh[p]} : b_dirt'[b] = b_dirt[b]
  <2>1. b_dirt \in [Buffers -> BOOLEAN]
        /\ (b_dirt[bh[p]] \/ op[p] \in {"update", "block_write"}) \in BOOLEAN
    BY <1>2 DEF AInv, TypeOK
  <2>2. b_dirt' = [b_dirt EXCEPT ![bh[p]] = (b_dirt[bh[p]] \/ op[p] \in {"update", "block_write"})]
    BY DEF Copy
  <2> QED
    BY <2>1, <2>2
<1>4. b_fresh' \in [Buffers -> BOOLEAN] /\ d_fresh' \in [Blocks -> BOOLEAN]
  <2>1. b_fresh \in [Buffers -> BOOLEAN] /\ d_fresh \in [Blocks -> BOOLEAN]
    BY DEF AInv, TypeOK
  <2>2. CASE op[p] = "read"
    BY <2>1, <2>2 DEF Copy
  <2>3. CASE op[p] # "read"
    <3>1. d_fresh' = [d_fresh EXCEPT ![b_blk[bh[p]]] = FALSE]
      BY <2>3 DEF Copy, Modify
    <3>2. b_fresh' = [c \in Buffers |->
                   IF c = bh[p] THEN b_fresh[bh[p]] \/ op[p] = "block_write"
                   ELSE b_fresh[c] /\ b_blk[c] # b_blk[bh[p]]]
      BY <2>3 DEF Copy, Modify
    <3>3. \A c \in Buffers : (IF c = bh[p] THEN b_fresh[bh[p]] \/ op[p] = "block_write"
                   ELSE b_fresh[c] /\ b_blk[c] # b_blk[bh[p]]) \in BOOLEAN
      OBVIOUS
    <3> QED
      BY <1>2, <2>1, <3>1, <3>2, <3>3
  <2> QED
    BY <2>2, <2>3
<1>5. TypeOK'
  BY <1>1, <1>3, <1>4 DEF AInv, TypeOK, Copy, PCs
<1>6. Places'
  BY <1>0, <1>1 DEF AInv, TypeOK, Places, Copy, Holding, InSync
<1>7. UniqueBuffer' /\ Counted' /\ Held' /\ Locks' /\ AllListed'
  <2>1. UNCHANGED <<b_blk, b_count, b_lock, free_list, request, bh, blk, sy>>
    BY DEF Copy
  <2>2. "brelse" \in Holding
    BY DEF Holding
  <2> QED
    BY <1>0, <1>1, <2>1, <2>2, PlainStep
<1>8. BusyHasBlock'
  BY <1>2, <1>3 DEF AInv, BusyHasBlock, Copy
<1> QED
  BY <1>5, <1>6, <1>7, <1>8 DEF AInv

(* The cursor moves on.                                                    *)
LEMMA AdvanceOK ==
  ASSUME AInv, NEW p \in Procs, Advance(p), sy[p].i \in Buffers
  PROVE  /\ sy' \in [Procs -> [dev : Devs \cup {SysSync}, i : 1 .. NR_BUFFERS + 1, pass : {1, 2}]]
         /\ sy'[p].dev = sy[p].dev /\ sy'[p].i = sy[p].i + 1
         /\ \A q \in Procs \ {p} : sy'[q] = sy[q]
<1>1. sy \in [Procs -> [dev : Devs \cup {SysSync}, i : 1 .. NR_BUFFERS + 1, pass : {1, 2}]]
  BY DEF AInv, TypeOK
<1>2. sy[p].i + 1 \in 1 .. NR_BUFFERS + 1
  BY SizesAssumption DEF Buffers
<1>3. sy' = [sy EXCEPT ![p] = [sy[p] EXCEPT !.i = sy[p].i + 1]]
  BY <1>1 DEF Advance
<1> QED
  BY <1>1, <1>2, <1>3

LEMMA SyncA ==
  ASSUME AInv, NEW p \in Procs, Sync(p)
  PROVE  AInv'
<1>0. sy[p].i \in Buffers
  <2>1. sy[p].i \in 1 .. NR_BUFFERS + 1
    BY DEF AInv, TypeOK
  <2> QED
    BY <2>1, SizesAssumption DEF Sync, Buffers
<1>1. PICK at \in {"sync", "sync_wait"} : pc' = [pc EXCEPT ![p] = at] /\ cur' \in {NoProc, p}
  BY DEF Sync, Goto
<1>2. /\ sy' \in [Procs -> [dev : Devs \cup {SysSync}, i : 1 .. NR_BUFFERS + 1, pass : {1, 2}]]
      /\ sy'[p].dev = sy[p].dev
      /\ \A q \in Procs \ {p} : sy'[q] = sy[q]
      /\ at = "sync_wait" => sy'[p].i \in Buffers
  <2>1. CASE sy[p].dev = SysSync \/ BDev(sy[p].i) = sy[p].dev
    <3>1. UNCHANGED sy
      BY <2>1 DEF Sync
    <3> QED
      BY <1>0, <3>1 DEF AInv, TypeOK
  <2>2. CASE ~(sy[p].dev = SysSync \/ BDev(sy[p].i) = sy[p].dev)
    <3>1. Advance(p) /\ pc' = [pc EXCEPT ![p] = "sync"]
      BY <2>2 DEF Sync, Goto
    <3>2. at = "sync"
      BY <1>1, <3>1 DEF AInv, TypeOK
    <3> QED
      BY <1>0, <3>1, <3>2, AdvanceOK
  <2> QED
    BY <2>1, <2>2
<1>3. UNCHANGED <<bufVars, diskVars, op, blk, bh, buffer_wait, owes>> /\ pc[p] = "sync"
  BY DEF Sync
<1>4. TypeOK'
  BY <1>1, <1>2, <1>3 DEF AInv, TypeOK, bufVars, diskVars, PCs
<1>5. Places'
  BY <1>1, <1>2, <1>3 DEF AInv, TypeOK, Places, Holding, InSync
<1>6. UniqueBuffer' /\ Counted' /\ Held' /\ Locks' /\ AllListed'
  BY <1>1, <1>2, <1>3, PlainStep DEF bufVars, diskVars, Holding
<1>7. BusyHasBlock'
  BY <1>3 DEF AInv, BusyHasBlock, bufVars
<1> QED
  BY <1>4, <1>5, <1>6, <1>7 DEF AInv

LEMMA SyncEndA ==
  ASSUME AInv, NEW p \in Procs, SyncEnd(p)
  PROVE  AInv'
<1>0. NoSync \in [dev : Devs \cup {SysSync}, i : 1 .. NR_BUFFERS + 1, pass : {1, 2}]
  BY SizesAssumption DEF NoSync
<1>1. pc[p] = "sync" /\ UNCHANGED <<bufVars, diskVars, blk, bh, buffer_wait>>
      /\ owes' = [owes EXCEPT ![p] = {}]
  BY DEF SyncEnd
<1>2. PICK at \in {"sync", "idle", "free_wait"} :
        /\ pc' = [pc EXCEPT ![p] = at] /\ cur' \in {NoProc, p}
        /\ op' = [op EXCEPT ![p] = IF op[p] = "sync" THEN "none" ELSE op[p]]
        /\ \/ /\ at = "sync" /\ sy[p].dev # SysSync
              /\ sy' = [sy EXCEPT ![p] = [sy[p] EXCEPT !.i = 1, !.pass = 2]]
           \/ at = "idle" /\ sy[p].dev = SysSync /\ sy' = [sy EXCEPT ![p] = NoSync]
           \/ at = "free_wait" /\ sy[p].dev # SysSync /\ sy' = [sy EXCEPT ![p] = NoSync]
  BY DEF SyncEnd, Goto
<1>3. sy \in [Procs -> [dev : Devs \cup {SysSync}, i : 1 .. NR_BUFFERS + 1, pass : {1, 2}]]
  BY DEF AInv, TypeOK
<1>4. /\ sy' \in [Procs -> [dev : Devs \cup {SysSync}, i : 1 .. NR_BUFFERS + 1, pass : {1, 2}]]
      /\ \A q \in Procs \ {p} : sy'[q] = sy[q]
      /\ at = "sync" => sy'[p].dev = sy[p].dev
  <2>0. 1 \in 1 .. NR_BUFFERS + 1 /\ sy[p] \in [dev : Devs \cup {SysSync}, i : 1 .. NR_BUFFERS + 1, pass : {1, 2}]
    BY <1>3, SizesAssumption
  <2>1. [sy[p] EXCEPT !.i = 1, !.pass = 2]
          \in [dev : Devs \cup {SysSync}, i : 1 .. NR_BUFFERS + 1, pass : {1, 2}]
    <3>1. ASSUME NEW D, NEW I, 1 \in I, NEW x \in [dev : D, i : I, pass : {1, 2}]
          PROVE  [x EXCEPT !.i = 1, !.pass = 2] \in [dev : D, i : I, pass : {1, 2}]
      BY ONLY <3>1
    <3> QED
      BY ONLY <2>0, <3>1
  <2>2. PICK x : x \in {[sy[p] EXCEPT !.i = 1, !.pass = 2], NoSync} /\ sy' = [sy EXCEPT ![p] = x]
                  /\ (at = "sync" => x = [sy[p] EXCEPT !.i = 1, !.pass = 2])
    BY <1>2
  <2>3. x \in [dev : Devs \cup {SysSync}, i : 1 .. NR_BUFFERS + 1, pass : {1, 2}]
    BY ONLY <1>0, <2>1, <2>2
  <2>4. at = "sync" => x.dev = sy[p].dev
    BY ONLY <2>0, <2>2
  <2> QED
    BY ONLY <1>3, <2>2, <2>3, <2>4, p \in Procs
<1>5. /\ op[p] = "sync" <=> sy[p].dev = SysSync
      /\ op[p] # "none" /\ op[p] # "sync" => bh[p] \in Buffers /\ blk[p] \in Blocks
      /\ op[p] # "none"
  BY <1>1 DEF AInv, Places, InSync
<1>6. TypeOK'
  BY <1>1, <1>2, <1>4 DEF AInv, TypeOK, bufVars, diskVars, PCs, AllOps
<1>7. Places'
  BY <1>1, <1>2, <1>4, <1>5 DEF AInv, TypeOK, Places, Holding, InSync
<1>8. UniqueBuffer' /\ Counted' /\ Held' /\ Locks' /\ AllListed'
  BY <1>1, <1>2, <1>4, PlainStep DEF bufVars, diskVars, Holding
<1>9. BusyHasBlock'
  BY <1>1 DEF AInv, BusyHasBlock, bufVars
<1> QED
  BY <1>6, <1>7, <1>8, <1>9 DEF AInv

-----------------------------------------------------------------------------
(* Steps that lock, hand over and unlock.                                  *)
LEMMA LockTaken ==
  ASSUME Locks, NEW p \in Procs, NEW c \in Buffers, ~b_lock[c],
         b_lock \in [Buffers -> BOOLEAN], b_lock' = [b_lock EXCEPT ![c] = TRUE], UNCHANGED request,
         \A b \in Buffers : ~OwnsP(p, b) /\ (OwnsP(p, b)' <=> b = c),
         \A q \in Procs \ {p}, b \in Buffers : OwnsP(q, b)' <=> OwnsP(q, b)
  PROVE  Locks'
<1>1. \A s \in Slots, b \in Buffers : OwnsR(s, b)' <=> OwnsR(s, b)
  BY DEF OwnsR
<1>2. b_lock'[c] /\ \A b \in Buffers \ {c} : b_lock'[b] = b_lock[b]
  OBVIOUS
<1>3. \A b \in Buffers : b_lock'[b] =>
       (\E s \in Slots : OwnsR(s, b)') \/ (\E q \in Procs : OwnsP(q, b)')
  BY <1>1, <1>2 DEF Locks
<1>4. \A b \in Buffers, s \in Slots : OwnsR(s, b)' =>
       /\ b_lock'[b]
       /\ \A s2 \in Slots : OwnsR(s2, b)' => s2 = s
       /\ \A q \in Procs : ~OwnsP(q, b)'
  BY <1>1, <1>2 DEF Locks
<1>5. \A b \in Buffers, q \in Procs : OwnsP(q, b)' =>
       /\ b_lock'[b]
       /\ \A r \in Procs : OwnsP(r, b)' => r = q
  BY <1>1, <1>2 DEF Locks
<1> QED
  BY <1>3, <1>4, <1>5 DEF Locks

(* The lock of p goes to request t.                                        *)
LEMMA LockMoved ==
  ASSUME Locks, NEW p \in Procs, NEW c \in Buffers, NEW t \in Slots, request[t] = NoReq,
         NEW r \in Requests, r.bh = c, request \in [Slots -> Requests \cup {NoReq}],
         request' = [request EXCEPT ![t] = r], UNCHANGED b_lock,
         \A b \in Buffers : ~OwnsP(p, b)' /\ (OwnsP(p, b) <=> b = c),
         \A q \in Procs \ {p}, b \in Buffers : OwnsP(q, b)' <=> OwnsP(q, b)
  PROVE  Locks'
<1>1. \A s \in Slots \ {t}, b \in Buffers : OwnsR(s, b)' <=> OwnsR(s, b)
  BY DEF OwnsR
<1>2. \A b \in Buffers : (OwnsR(t, b)' <=> b = c) /\ ~OwnsR(t, b)
  BY NoReqAssumption DEF OwnsR
<1>3. \A b \in Buffers : b_lock'[b] =>
       (\E s \in Slots : OwnsR(s, b)') \/ (\E q \in Procs : OwnsP(q, b)')
  <2> SUFFICES ASSUME NEW b \in Buffers, b_lock[b]
               PROVE  (\E s \in Slots : OwnsR(s, b)') \/ (\E q \in Procs : OwnsP(q, b)')
    OBVIOUS
  <2>1. CASE b = c
    BY <1>2, <2>1
  <2>2. CASE b # c
    <3>1. CASE \E s \in Slots : OwnsR(s, b)
      BY <1>1, <1>2, <3>1
    <3>2. CASE \E q \in Procs : OwnsP(q, b)
      BY <2>2, <3>2
    <3> QED
      BY <3>1, <3>2 DEF Locks
  <2> QED
    BY <2>1, <2>2
<1>4. \A b \in Buffers, s \in Slots : OwnsR(s, b)' =>
       /\ b_lock'[b]
       /\ \A s2 \in Slots : OwnsR(s2, b)' => s2 = s
       /\ \A q \in Procs : ~OwnsP(q, b)'
  <2> SUFFICES ASSUME NEW b \in Buffers, NEW s \in Slots, OwnsR(s, b)'
               PROVE  /\ b_lock[b]
                      /\ \A s2 \in Slots : OwnsR(s2, b)' => s2 = s
                      /\ \A q \in Procs : ~OwnsP(q, b)'
    OBVIOUS
  <2>1. CASE b = c
    <3>1. OwnsP(p, b)
      BY <2>1
    <3>2. b_lock[b] /\ (\A q \in Procs : OwnsP(q, b) => q = p) /\ (\A s2 \in Slots : ~OwnsR(s2, b))
      BY <3>1 DEF Locks
    <3> QED
      BY <1>1, <3>2
  <2>2. CASE b # c
    <3>1. s # t /\ OwnsR(s, b)
      BY <1>1, <1>2, <2>2
    <3> QED
      BY <1>1, <1>2, <2>2, <3>1 DEF Locks
  <2> QED
    BY <2>1, <2>2
<1>5. \A b \in Buffers, q \in Procs : OwnsP(q, b)' =>
       /\ b_lock'[b]
       /\ \A u \in Procs : OwnsP(u, b)' => u = q
  BY DEF Locks
<1> QED
  BY <1>3, <1>4, <1>5 DEF Locks

(* end_request() unlocks.                                                  *)
LEMMA LockEnded ==
  ASSUME Locks, NEW c \in Buffers, NEW t \in Slots, OwnsR(t, c),
         b_lock \in [Buffers -> BOOLEAN], request \in [Slots -> Requests \cup {NoReq}],
         request' = [request EXCEPT ![t] = NoReq], b_lock' = [b_lock EXCEPT ![c] = FALSE],
         \A q \in Procs, b \in Buffers : OwnsP(q, b)' <=> OwnsP(q, b)
  PROVE  Locks'
<1>1. \A s \in Slots \ {t}, b \in Buffers : OwnsR(s, b)' <=> OwnsR(s, b)
  BY DEF OwnsR
<1>2. \A b \in Buffers : ~OwnsR(t, b)'
  BY DEF OwnsR
<1>3. ~b_lock'[c] /\ \A b \in Buffers \ {c} : b_lock'[b] = b_lock[b]
  OBVIOUS
<1>4. (\A s \in Slots : ~OwnsR(s, c)') /\ (\A q \in Procs : ~OwnsP(q, c)')
  BY <1>1, <1>2 DEF Locks
<1>5. \A b \in Buffers \ {c} : ~OwnsR(t, b)
  BY DEF OwnsR
<1>6. \A b \in Buffers \ {c}, s \in Slots : OwnsR(s, b)' <=> OwnsR(s, b)
  BY <1>1, <1>2, <1>5
<1>7. \A b \in Buffers : b_lock'[b] =>
       (\E s \in Slots : OwnsR(s, b)') \/ (\E q \in Procs : OwnsP(q, b)')
  BY <1>3, <1>6 DEF Locks
<1>8. \A b \in Buffers, s \in Slots : OwnsR(s, b)' =>
       /\ b_lock'[b]
       /\ \A s2 \in Slots : OwnsR(s2, b)' => s2 = s
       /\ \A q \in Procs : ~OwnsP(q, b)'
  BY <1>3, <1>4, <1>6 DEF Locks
<1>9. \A b \in Buffers, q \in Procs : OwnsP(q, b)' =>
       /\ b_lock'[b]
       /\ \A u \in Procs : OwnsP(u, b)' => u = q
  BY <1>3, <1>4 DEF Locks
<1> QED
  BY <1>7, <1>8, <1>9 DEF Locks

(* make_request() finds a slot that is free.                               *)
LEMMA SlotFound ==
  ASSUME NEW cmd \in {READ, WRITE}, FreeSlots(cmd) # {}
  PROVE  Highest(FreeSlots(cmd)) \in Slots /\ request[Highest(FreeSlots(cmd))] = NoReq
<1>0. NR_REQUEST \in Nat
  BY SizesAssumption
<1>1. WriteSlots \in 0 .. NR_REQUEST
  BY <1>0 DEF WriteSlots
<1>2. FreeSlots(cmd) \in SUBSET (0 .. NR_REQUEST) /\ FreeSlots(cmd) \subseteq Slots
  BY <1>0, <1>1 DEF FreeSlots, Slots
<1>3. \E x \in FreeSlots(cmd) : \A y \in FreeSlots(cmd) : y <= x
  BY <1>0, <1>2, HasGreatest
<1>4. Highest(FreeSlots(cmd)) \in FreeSlots(cmd)
  BY <1>3 DEF Highest
<1>5. \A s \in FreeSlots(cmd) : request[s] = NoReq
  BY DEF FreeSlots
<1> QED
  BY <1>2, <1>4, <1>5

-----------------------------------------------------------------------------
(* Steps that change who uses a buffer.                                    *)
LEMMA GetblkFoundA ==
  ASSUME AInv, NEW p \in Procs, GetblkFound(p)
  PROVE  AInv'
<1>1. pc[p] = "getblk"
      /\ UNCHANGED <<b_blk, b_lock, b_dirt, b_uptodate, b_fresh, free_list,
                 diskVars, op, blk, sy, buffer_wait, owes>>
  BY DEF GetblkFound
<1>2. PICK c \in Buffers :
        /\ b_blk[c] = blk[p]
        /\ b_count' = [b_count EXCEPT ![c] = b_count[c] + 1]
        /\ bh' = [bh EXCEPT ![p] = c]
        /\ pc' = [pc EXCEPT ![p] = "hash_wait"]
        /\ cur' \in {NoProc, p}
  BY DEF GetblkFound, find_buffer, Goto
<1>3. pc \in [Procs -> PCs] /\ bh \in [Procs -> Buffers \cup {0}] /\ b_count \in [Buffers -> Nat]
  BY DEF AInv, TypeOK
<1>4. /\ pc'[p] = "hash_wait" /\ bh'[p] = c
      /\ \A q \in Procs \ {p} : pc'[q] = pc[q] /\ bh'[q] = bh[q]
  BY <1>2, <1>3
<1>5. TypeOK'
  BY <1>1, <1>2 DEF AInv, TypeOK, diskVars, PCs
<1>6. Places'
  BY <1>1, <1>4 DEF AInv, Places, Holding, InSync
<1>7. UniqueBuffer' /\ AllListed' /\ BusyHasBlock'
  BY <1>1 DEF AInv, UniqueBuffer, AllListed, BusyHasBlock
<1>8. Counted'
  BY <1>1, <1>2, <1>3, <1>4, HoldAdd DEF AInv, Holding
<1>9. Held'
  BY <1>1, <1>2, <1>4 DEF AInv, Held
<1>10. Locks'
  <2>1. \A q \in Procs, b \in Buffers : OwnsP(q, b)' <=> OwnsP(q, b)
    BY <1>1, <1>4 DEF OwnsP
  <2> QED
    BY <1>1, <2>1, LocksSame DEF AInv, diskVars
<1> QED
  BY <1>5, <1>6, <1>7, <1>8, <1>9, <1>10 DEF AInv

(* While it is counted a buffer keeps its block: get_hash_table() finds it *)
(* unchanged after its sleep.                                              *)
LEMMA HashWaitA ==
  ASSUME AInv, NEW p \in Procs, HashWait(p)
  PROVE  AInv'
<1>1. pc[p] = "hash_wait"
      /\ UNCHANGED <<b_blk, b_lock, b_dirt, b_uptodate, b_fresh, free_list,
                 diskVars, op, blk, bh, sy, buffer_wait, owes>>
  BY DEF HashWait
<1>2. b_blk[bh[p]] = blk[p]
  BY <1>1 DEF AInv, Held, Holding
<1>3. pc' = [pc EXCEPT ![p] = "got"] /\ cur' = p /\ UNCHANGED b_count
  BY <1>2 DEF HashWait, Goto
<1>4. TypeOK'
  BY <1>1, <1>3 DEF AInv, TypeOK, diskVars, PCs
<1>5. Places'
  BY <1>1, <1>3 DEF AInv, TypeOK, Places, Holding, InSync
<1>6. UniqueBuffer' /\ Counted' /\ Held' /\ Locks' /\ AllListed'
  BY <1>1, <1>3, PlainStep DEF diskVars, Holding
<1>7. BusyHasBlock'
  BY <1>1 DEF AInv, BusyHasBlock
<1> QED
  BY <1>4, <1>5, <1>6, <1>7 DEF AInv

LEMMA BrelseA ==
  ASSUME AInv, NEW p \in Procs, Brelse(p)
  PROVE  AInv'
<1>1. pc[p] = "brelse"
      /\ UNCHANGED <<b_blk, b_lock, b_dirt, b_uptodate, b_fresh, free_list,
                 diskVars, sy, owes>>
  BY DEF Brelse
<1>2. PICK c \in Buffers : c = bh[p]
  BY <1>1 DEF AInv, Places, Holding
<1>3. /\ b_count' = [b_count EXCEPT ![c] = b_count[c] - 1]
      /\ buffer_wait' = {}
      /\ op' = [op EXCEPT ![p] = "none"]
      /\ blk' = [blk EXCEPT ![p] = NoBlock]
      /\ bh' = [bh EXCEPT ![p] = 0]
      /\ pc' = [pc EXCEPT ![p] = "idle"]
      /\ cur' = NoProc
  BY <1>2 DEF Brelse, Goto
<1>4. /\ pc \in [Procs -> PCs] /\ bh \in [Procs -> Buffers \cup {0}] /\ b_count \in [Buffers -> Nat]
      /\ op \in [Procs -> AllOps \cup {"none"}] /\ blk \in [Procs -> Blocks \cup {NoBlock}]
  BY DEF AInv, TypeOK
<1>5. /\ pc'[p] = "idle" /\ op'[p] = "none"
      /\ \A q \in Procs \ {p} : /\ pc'[q] = pc[q] /\ bh'[q] = bh[q] /\ op'[q] = op[q]
                                /\ blk'[q] = blk[q]
  BY <1>3, <1>4
<1>6. Counted' /\ b_count' \in [Buffers -> Nat]
  BY <1>1, <1>2, <1>3, <1>4, <1>5, HoldDrop DEF AInv, Holding
<1>7. TypeOK'
  BY <1>1, <1>3, <1>6 DEF AInv, TypeOK, diskVars, PCs
<1>8. Places'
  BY <1>1, <1>5 DEF AInv, Places, Holding, InSync
<1>9. UniqueBuffer' /\ AllListed' /\ BusyHasBlock'
  BY <1>1 DEF AInv, UniqueBuffer, AllListed, BusyHasBlock
<1>10. Held'
  BY <1>1, <1>5 DEF AInv, Held, Holding
<1>11. Locks'
  <2>1. \A q \in Procs, b \in Buffers : OwnsP(q, b)' <=> OwnsP(q, b)
    BY <1>1, <1>5 DEF OwnsP
  <2> QED
    BY <1>1, <2>1, LocksSame DEF AInv, diskVars
<1> QED
  BY <1>6, <1>7, <1>8, <1>9, <1>10, <1>11 DEF AInv

(* remove_from_queues() and insert_into_queues() keep every buffer on the  *)
(* list.                                                                   *)
LEMMA ToTheEndOK ==
  ASSUME free_list \in Seq(Buffers), AllListed, NEW c \in Buffers
  PROVE  /\ ToTheEnd(c) \in Seq(Buffers)
         /\ Len(ToTheEnd(c)) = NR_BUFFERS
         /\ \A b \in Buffers : \E i \in DOMAIN ToTheEnd(c) : ToTheEnd(c)[i] = b
<1>0. NR_BUFFERS \in Nat \ {0} /\ Len(free_list) = NR_BUFFERS /\ DOMAIN free_list = 1 .. NR_BUFFERS
  BY SizesAssumption DEF AllListed
<1>1. PICK i \in 1 .. NR_BUFFERS : i = PlaceOf(c) /\ free_list[i] = c
  BY <1>0 DEF AllListed, PlaceOf
<1> DEFINE left == SubSeq(free_list, 1, i - 1)
           right == SubSeq(free_list, i + 1, NR_BUFFERS)
           new == ToTheEnd(c)
<1>2. new = Append(left \o right, c)
  BY <1>0, <1>1 DEF ToTheEnd, RemoveAt
<1>3. /\ left \in Seq(Buffers) /\ Len(left) = i - 1
      /\ \A j \in 1 .. i - 1 : left[j] = free_list[j]
  BY <1>0
<1>4. /\ right \in Seq(Buffers) /\ Len(right) = NR_BUFFERS - i
      /\ \A j \in 1 .. NR_BUFFERS - i : right[j] = free_list[i + j]
  BY <1>0
<1> HIDE DEF left, right
<1>5. PICK all : all = left \o right
  OBVIOUS
<1>6. /\ all \in Seq(Buffers) /\ Len(all) = NR_BUFFERS - 1
      /\ \A j \in 1 .. i - 1 : all[j] = free_list[j]
      /\ \A j \in i .. NR_BUFFERS - 1 : all[j] = free_list[j + 1]
  <2>0. all \in Seq(Buffers) /\ Len(all) = Len(left) + Len(right)
    <3>1. left \in Seq(Buffers) /\ right \in Seq(Buffers)
      BY <1>3, <1>4
    <3> QED
      BY <1>5, <3>1, ConcatProperties
  <2>1. all \in Seq(Buffers) /\ Len(all) = NR_BUFFERS - 1
    BY <1>0, <1>3, <1>4, <2>0
  <2>2. ASSUME NEW j \in 1 .. i - 1 PROVE all[j] = free_list[j]
    BY <1>0, <1>3, <1>4, <1>5
  <2>3. ASSUME NEW j \in i .. NR_BUFFERS - 1 PROVE all[j] = free_list[j + 1]
    <3>1. j - (i - 1) \in 1 .. NR_BUFFERS - i /\ i + (j - (i - 1)) = j + 1
      BY <1>0
    <3>2. all[j] = right[j - (i - 1)]
      BY <1>0, <1>3, <1>4, <1>5, <3>1
    <3> QED
      BY <1>4, <3>1, <3>2
  <2> QED
    BY <2>1, <2>2, <2>3
<1>7. /\ new \in Seq(Buffers) /\ Len(new) = NR_BUFFERS /\ DOMAIN new = 1 .. NR_BUFFERS
      /\ new[NR_BUFFERS] = c /\ \A j \in 1 .. NR_BUFFERS - 1 : new[j] = all[j]
  BY <1>0, <1>2, <1>5, <1>6
<1> HIDE DEF new
<1>8. ASSUME NEW b \in Buffers PROVE \E j \in DOMAIN new : new[j] = b
  <2>1. PICK j \in 1 .. NR_BUFFERS : free_list[j] = b
    BY <1>0 DEF AllListed
  <2>2. CASE j < i
    <3>1. j \in 1 .. NR_BUFFERS - 1 /\ j \in 1 .. i - 1
      BY <1>0, <2>2
    <3> QED
      BY <1>0, <1>6, <1>7, <2>1, <3>1
  <2>3. CASE j = i
    BY <1>0, <1>1, <1>7, <2>1, <2>3
  <2>4. CASE j > i
    <3>1. j - 1 \in 1 .. NR_BUFFERS - 1 /\ j - 1 \in i .. NR_BUFFERS - 1 /\ (j - 1) + 1 = j
      BY <1>0, <2>4
    <3>2. new[j - 1] = all[j - 1] /\ all[j - 1] = free_list[(j - 1) + 1]
      BY <1>6, <1>7, <3>1
    <3>3. j - 1 \in DOMAIN new /\ new[j - 1] = b
      BY <1>0, <1>7, <2>1, <3>1, <3>2
    <3> QED
      BY <3>3
  <2> QED
    BY <2>2, <2>3, <2>4
<1> QED
  BY <1>7, <1>8 DEF new

(* getblk() takes its candidate: it is nobody's, and the block is in no    *)
(* other buffer.                                                           *)
LEMMA FreeClaimA ==
  ASSUME AInv, NEW p \in Procs, FreeClaim(p)
  PROVE  AInv'
<1>1. pc[p] = "free_wait" /\ UNCHANGED <<b_lock, diskVars, op, blk, bh, sy, buffer_wait, owes>>
  BY DEF FreeClaim
<1>2. PICK c \in Buffers : c = bh[p]
  BY <1>1 DEF AInv, Places
<1>3. /\ b_count[c] = 0 /\ ~b_dirt[c]
      /\ \A b \in Buffers : b_blk[b] # blk[p]
      /\ b_dirt' = [b_dirt EXCEPT ![c] = FALSE]
      /\ b_uptodate' = [b_uptodate EXCEPT ![c] = FALSE]
      /\ b_blk' = [b_blk EXCEPT ![c] = blk[p]]
      /\ b_fresh' = [b_fresh EXCEPT ![c] = FALSE]
      /\ free_list' = ToTheEnd(c)
      /\ pc' = [pc EXCEPT ![p] = "got"] /\ cur' = p
  BY <1>2 DEF FreeClaim, Goto, find_buffer
<1>4. /\ b_count \in [Buffers -> Nat] /\ pc \in [Procs -> PCs] /\ b_blk \in [Buffers -> Blocks \cup {NoBlock}]
      /\ b_dirt \in [Buffers -> BOOLEAN] /\ free_list \in Seq(Buffers) /\ AllListed
  BY DEF AInv, TypeOK
<1>5. b_count' = [b_count EXCEPT ![c] = b_count[c] + 1]
  <2>1. b_count[c] + 1 = 1
    BY <1>3
  <2> QED
    BY <1>2, <2>1 DEF FreeClaim
<1>6. /\ pc'[p] = "got" /\ \A q \in Procs \ {p} : pc'[q] = pc[q]
      /\ b_blk'[c] = blk[p] /\ \A b \in Buffers \ {c} : b_blk'[b] = b_blk[b]
      /\ ~b_dirt'[c] /\ \A b \in Buffers \ {c} : b_dirt'[b] = b_dirt[b]
  BY <1>3, <1>4
<1>7. free_list' \in Seq(Buffers) /\ AllListed'
  BY <1>3, <1>4, ToTheEndOK DEF AllListed
<1>8. blk[p] \in Blocks
  BY <1>1 DEF AInv, Places, InSync
<1>9. TypeOK'
  BY <1>1, <1>3, <1>5, <1>7, <1>8 DEF AInv, TypeOK, diskVars, PCs
<1>10. Places'
  BY <1>1, <1>2, <1>6 DEF AInv, Places, Holding, InSync
<1>11. UniqueBuffer' /\ BusyHasBlock'
  BY <1>1, <1>3, <1>6, <1>8 DEF AInv, UniqueBuffer, BusyHasBlock
<1>12. Counted'
  BY <1>1, <1>2, <1>4, <1>5, <1>6, HoldAdd DEF AInv, Holding
<1>13. \A q \in Procs : pc[q] \in Holding => bh[q] # c
  BY <1>3, UnusedIsFree DEF AInv
<1>14. Held'
  <2> SUFFICES ASSUME NEW q \in Procs, pc'[q] \in Holding PROVE b_blk'[bh[q]] = blk[q]
    BY <1>1 DEF Held
  <2>1. CASE q = p
    BY <1>2, <1>6, <2>1
  <2>2. CASE q # p
    <3>1. pc[q] \in Holding /\ bh[q] \in Buffers /\ bh[q] # c
      BY <1>6, <1>13, <2>2 DEF AInv, Places
    <3> QED
      BY <1>6, <3>1 DEF AInv, Held
  <2> QED
    BY <2>1, <2>2
<1>15. Locks'
  <2>1. \A q \in Procs, b \in Buffers : OwnsP(q, b)' <=> OwnsP(q, b)
    BY <1>1, <1>6 DEF OwnsP
  <2> QED
    BY <1>1, <2>1, LocksSame DEF AInv, diskVars
<1> QED
  BY <1>7, <1>9, <1>10, <1>11, <1>12, <1>14, <1>15 DEF AInv

-----------------------------------------------------------------------------
(* Steps that change who has a buffer locked.                              *)
LEMMA GotA ==
  ASSUME AInv, NEW p \in Procs, Got(p)
  PROVE  AInv'
<1>1. pc[p] = "got"
      /\ UNCHANGED <<b_blk, b_count, b_dirt, b_uptodate, b_fresh, free_list,
                 diskVars, op, blk, bh, sy, buffer_wait, owes>>
  BY DEF Got
<1>2. PICK c \in Buffers : c = bh[p]
  BY <1>1 DEF AInv, Places, Holding
<1>3. CASE b_uptodate[c] \/ op[p] = "block_write"
  <2>1. pc' = [pc EXCEPT ![p] = "use"] /\ cur' = p /\ UNCHANGED b_lock
    BY <1>2, <1>3 DEF Got, Goto
  <2>2. TypeOK'
    BY <1>1, <2>1 DEF AInv, TypeOK, diskVars, PCs
  <2>3. Places'
    BY <1>1, <2>1 DEF AInv, TypeOK, Places, Holding, InSync
  <2>4. UniqueBuffer' /\ Counted' /\ Held' /\ Locks' /\ AllListed'
    BY <1>1, <2>1, PlainStep DEF diskVars, Holding
  <2>5. BusyHasBlock'
    BY <1>1, <2>1 DEF AInv, BusyHasBlock
  <2> QED
    BY <2>2, <2>3, <2>4, <2>5 DEF AInv
<1>4. CASE ~(b_uptodate[c] \/ op[p] = "block_write")
  <2>1. /\ ~b_lock[c] /\ b_lock' = [b_lock EXCEPT ![c] = TRUE]
        /\ pc' = [pc EXCEPT ![p] = "slot_r"] /\ cur' \in {NoProc, p}
    BY <1>2, <1>4 DEF Got, Goto
  <2>2. pc \in [Procs -> PCs] /\ b_lock \in [Buffers -> BOOLEAN]
    BY DEF AInv, TypeOK
  <2>3. pc'[p] = "slot_r" /\ \A q \in Procs \ {p} : pc'[q] = pc[q]
    BY <2>1, <2>2
  <2>4. TypeOK'
    BY <1>1, <2>1 DEF AInv, TypeOK, diskVars, PCs
  <2>5. Places'
    BY <1>1, <2>3 DEF AInv, Places, Holding, InSync
  <2>6. UniqueBuffer' /\ AllListed' /\ BusyHasBlock'
    <3>1. b_blk[c] \in Blocks
      BY <1>1, <1>2, HolderHasBlock DEF Holding
    <3> QED
      BY <1>1, <2>1, <2>2, <3>1 DEF AInv, UniqueBuffer, AllListed, BusyHasBlock
  <2>7. Counted'
    BY <1>1, <2>3, HoldSame DEF AInv, Holding
  <2>8. Held'
    BY <1>1, <2>3 DEF AInv, Held, Holding
  <2>9. Locks'
    <3>1. \A b \in Buffers : ~OwnsP(p, b) /\ (OwnsP(p, b)' <=> b = c)
      BY <1>1, <1>2, <2>3 DEF OwnsP
    <3>2. \A q \in Procs \ {p}, b \in Buffers : OwnsP(q, b)' <=> OwnsP(q, b)
      BY <1>1, <2>3 DEF OwnsP
    <3>3. UNCHANGED request /\ Locks
      BY <1>1 DEF diskVars, AInv
    <3> QED
      BY <2>1, <2>2, <3>1, <3>2, <3>3, LockTaken
  <2> QED
    BY <2>4, <2>5, <2>6, <2>7, <2>8, <2>9 DEF AInv
<1> QED
  BY <1>3, <1>4

LEMMA SyncWaitA ==
  ASSUME AInv, NEW p \in Procs, SyncWait(p)
  PROVE  AInv'
<1>1. pc[p] = "sync_wait"
      /\ UNCHANGED <<b_blk, b_count, b_dirt, b_uptodate, b_fresh, free_list,
                 diskVars, op, blk, bh, buffer_wait, owes>>
  BY DEF SyncWait
<1>2. PICK c \in Buffers : c = sy[p].i
  BY <1>1 DEF AInv, Places
<1>3. CASE ~((sy[p].dev = SysSync \/ BDev(sy[p].i) = sy[p].dev) /\ b_dirt[sy[p].i])
  <2>1. pc' = [pc EXCEPT ![p] = "sync"] /\ cur' = p /\ UNCHANGED b_lock /\ Advance(p)
    BY <1>3 DEF SyncWait, Goto
  <2>2. /\ sy' \in [Procs -> [dev : Devs \cup {SysSync}, i : 1 .. NR_BUFFERS + 1, pass : {1, 2}]]
        /\ sy'[p].dev = sy[p].dev
        /\ \A q \in Procs \ {p} : sy'[q] = sy[q]
    BY <1>2, <2>1, AdvanceOK
  <2>3. TypeOK'
    BY <1>1, <2>1, <2>2 DEF AInv, TypeOK, diskVars, PCs
  <2>4. Places'
    BY <1>1, <2>1, <2>2 DEF AInv, TypeOK, Places, Holding, InSync
  <2>5. UniqueBuffer' /\ Counted' /\ Held' /\ Locks' /\ AllListed'
    <3>1. UNCHANGED <<b_blk, b_count, b_lock, free_list, request>>
      BY <1>1, <2>1 DEF diskVars
    <3>2. /\ "sync" \notin Holding /\ "sync_wait" \notin Holding
          /\ "sync" \notin {"slot_r", "slot_w"} /\ "sync_wait" \notin {"slot_r", "slot_w"}
      BY DEF Holding
    <3> QED
      BY <1>1, <2>1, <2>2, <3>1, <3>2, PlainStep
  <2>6. BusyHasBlock'
    BY <1>1, <2>1 DEF AInv, BusyHasBlock
  <2> QED
    BY <2>3, <2>4, <2>5, <2>6 DEF AInv
<1>4. CASE (sy[p].dev = SysSync \/ BDev(sy[p].i) = sy[p].dev) /\ b_dirt[sy[p].i]
  <2>1. /\ ~b_lock[c] /\ b_lock' = [b_lock EXCEPT ![c] = TRUE]
        /\ pc' = [pc EXCEPT ![p] = "slot_w"] /\ cur' \in {NoProc, p} /\ UNCHANGED sy
    BY <1>2, <1>4 DEF SyncWait, Goto
  <2>2. pc \in [Procs -> PCs] /\ b_lock \in [Buffers -> BOOLEAN]
    BY DEF AInv, TypeOK
  <2>3. pc'[p] = "slot_w" /\ \A q \in Procs \ {p} : pc'[q] = pc[q]
    BY <2>1, <2>2
  <2>4. TypeOK'
    BY <1>1, <2>1 DEF AInv, TypeOK, diskVars, PCs
  <2>5. Places'
    BY <1>1, <2>1, <2>3 DEF AInv, Places, Holding, InSync
  <2>6. UniqueBuffer' /\ AllListed' /\ BusyHasBlock'
    <3>1. b_blk[c] \in Blocks
      BY <1>2, <1>4 DEF AInv, BusyHasBlock
    <3> QED
      BY <1>1, <2>1, <2>2, <3>1 DEF AInv, UniqueBuffer, AllListed, BusyHasBlock
  <2>7. Counted'
    BY <1>1, <2>3, HoldSame DEF AInv, Holding
  <2>8. Held'
    BY <1>1, <2>3 DEF AInv, Held, Holding
  <2>9. Locks'
    <3>1. \A b \in Buffers : ~OwnsP(p, b) /\ (OwnsP(p, b)' <=> b = c)
      BY <1>1, <1>2, <2>1, <2>3 DEF OwnsP
    <3>2. \A q \in Procs \ {p}, b \in Buffers : OwnsP(q, b)' <=> OwnsP(q, b)
      BY <1>1, <2>1, <2>3 DEF OwnsP
    <3>3. UNCHANGED request /\ Locks
      BY <1>1 DEF diskVars, AInv
    <3> QED
      BY <2>1, <2>2, <3>1, <3>2, <3>3, LockTaken
  <2> QED
    BY <2>4, <2>5, <2>6, <2>7, <2>8, <2>9 DEF AInv
<1> QED
  BY <1>3, <1>4

(* add_request() in AddRead and AddWrite.                                  *)
LEMMA AddRequestOK ==
  ASSUME AInv, NEW cmd \in {READ, WRITE}, NEW c \in Buffers, AddRequest(cmd, c)
  PROVE  \E t \in Slots, r \in Requests :
           /\ r = [cmd |-> cmd, bh |-> c, done |-> FALSE]
           /\ request[t] = NoReq
           /\ request' = [request EXCEPT ![t] = r]
           /\ request' \in [Slots -> Requests \cup {NoReq}]
           /\ b_dirt' \in [Buffers -> BOOLEAN]
           /\ ~b_dirt'[c] /\ \A b \in Buffers \ {c} : b_dirt'[b] = b_dirt[b]
<1>1. FreeSlots(cmd) # {}
  BY DEF AddRequest
<1>2. PICK t \in Slots : t = Highest(FreeSlots(cmd)) /\ request[t] = NoReq
  BY <1>1, SlotFound
<1>3. PICK r \in Requests : r = [cmd |-> cmd, bh |-> c, done |-> FALSE]
  BY DEF Requests
<1>4. request' = [request EXCEPT ![t] = r] /\ b_dirt' = [b_dirt EXCEPT ![c] = FALSE]
  BY <1>2, <1>3 DEF AddRequest
<1>5. request \in [Slots -> Requests \cup {NoReq}] /\ b_dirt \in [Buffers -> BOOLEAN]
  BY DEF AInv, TypeOK
<1>6. /\ request' \in [Slots -> Requests \cup {NoReq}]
      /\ b_dirt' \in [Buffers -> BOOLEAN]
      /\ ~b_dirt'[c] /\ \A b \in Buffers \ {c} : b_dirt'[b] = b_dirt[b]
  BY <1>4, <1>5
<1> QED
  BY <1>2, <1>3, <1>4, <1>6

LEMMA AddReadA ==
  ASSUME AInv, NEW p \in Procs, AddRead(p)
  PROVE  AInv'
<1>1. pc[p] = "slot_r"
      /\ UNCHANGED <<b_blk, b_count, b_lock, b_uptodate, b_fresh, free_list,
                 d_fresh, op, blk, bh, sy, buffer_wait, owes>>
      /\ pc' = [pc EXCEPT ![p] = "io_wait"] /\ cur' = NoProc
  BY DEF AddRead, Goto
<1>2. PICK c \in Buffers : c = bh[p] /\ AddRequest(READ, c)
  BY <1>1 DEF AInv, Places, Holding, AddRead
<1>3. PICK t \in Slots, r \in Requests :
           /\ r = [cmd |-> READ, bh |-> c, done |-> FALSE]
           /\ request[t] = NoReq
           /\ request' = [request EXCEPT ![t] = r]
           /\ request' \in [Slots -> Requests \cup {NoReq}]
           /\ b_dirt' \in [Buffers -> BOOLEAN]
           /\ ~b_dirt'[c] /\ \A b \in Buffers \ {c} : b_dirt'[b] = b_dirt[b]
  BY <1>2, AddRequestOK
<1>4. pc \in [Procs -> PCs] /\ request \in [Slots -> Requests \cup {NoReq}]
  BY DEF AInv, TypeOK
<1>5. pc'[p] = "io_wait" /\ \A q \in Procs \ {p} : pc'[q] = pc[q]
  BY <1>1, <1>4
<1>6. TypeOK'
  BY <1>1, <1>3 DEF AInv, TypeOK, PCs
<1>7. Places'
  BY <1>1, <1>5 DEF AInv, Places, Holding, InSync
<1>8. UniqueBuffer' /\ AllListed' /\ BusyHasBlock'
  BY <1>1, <1>3 DEF AInv, UniqueBuffer, AllListed, BusyHasBlock
<1>9. Counted'
  BY <1>1, <1>5, HoldSame DEF AInv, Holding
<1>10. Held'
  BY <1>1, <1>5 DEF AInv, Held, Holding
<1>11. Locks'
  <2>1. \A b \in Buffers : ~OwnsP(p, b)' /\ (OwnsP(p, b) <=> b = c)
    BY <1>1, <1>2, <1>5 DEF OwnsP
  <2>2. \A q \in Procs \ {p}, b \in Buffers : OwnsP(q, b)' <=> OwnsP(q, b)
    BY <1>1, <1>5 DEF OwnsP
  <2>3. UNCHANGED b_lock /\ Locks /\ r.bh = c
    BY <1>1, <1>3 DEF AInv
  <2> QED
    BY <1>3, <1>4, <2>1, <2>2, <2>3, LockMoved
<1> QED
  BY <1>6, <1>7, <1>8, <1>9, <1>10, <1>11 DEF AInv

LEMMA AddWriteA ==
  ASSUME AInv, NEW p \in Procs, AddWrite(p)
  PROVE  AInv'
<1>1. pc[p] = "slot_w"
      /\ UNCHANGED <<b_blk, b_count, b_lock, b_uptodate, b_fresh, free_list,
                 d_fresh, op, blk, bh, buffer_wait>>
      /\ pc' = [pc EXCEPT ![p] = "sync"] /\ cur' = p /\ Advance(p)
      /\ owes' = [q \in Procs |-> owes[q] \ {sy[p].i}]
  BY DEF AddWrite, Goto
<1>2. PICK c \in Buffers : c = sy[p].i /\ AddRequest(WRITE, c)
  BY <1>1 DEF AInv, Places, AddWrite
<1>3. PICK t \in Slots, r \in Requests :
           /\ r = [cmd |-> WRITE, bh |-> c, done |-> FALSE]
           /\ request[t] = NoReq
           /\ request' = [request EXCEPT ![t] = r]
           /\ request' \in [Slots -> Requests \cup {NoReq}]
           /\ b_dirt' \in [Buffers -> BOOLEAN]
           /\ ~b_dirt'[c] /\ \A b \in Buffers \ {c} : b_dirt'[b] = b_dirt[b]
  BY <1>2, AddRequestOK
<1>4. pc \in [Procs -> PCs] /\ request \in [Slots -> Requests \cup {NoReq}]
  BY DEF AInv, TypeOK
<1>5. pc'[p] = "sync" /\ \A q \in Procs \ {p} : pc'[q] = pc[q]
  BY <1>1, <1>4
<1>6. /\ sy' \in [Procs -> [dev : Devs \cup {SysSync}, i : 1 .. NR_BUFFERS + 1, pass : {1, 2}]]
      /\ sy'[p].dev = sy[p].dev
      /\ \A q \in Procs \ {p} : sy'[q] = sy[q]
  BY <1>1, <1>2, AdvanceOK
<1>7. owes' \in [Procs -> SUBSET Buffers]
  BY <1>1 DEF AInv, TypeOK
<1>8. TypeOK'
  BY <1>1, <1>3, <1>6, <1>7 DEF AInv, TypeOK, PCs
<1>9. Places'
  BY <1>1, <1>5, <1>6 DEF AInv, Places, Holding, InSync
<1>10. UniqueBuffer' /\ AllListed' /\ BusyHasBlock'
  BY <1>1, <1>3 DEF AInv, UniqueBuffer, AllListed, BusyHasBlock
<1>11. Counted'
  BY <1>1, <1>5, HoldSame DEF AInv, Holding
<1>12. Held'
  BY <1>1, <1>5 DEF AInv, Held, Holding
<1>13. Locks'
  <2>1. \A b \in Buffers : ~OwnsP(p, b)' /\ (OwnsP(p, b) <=> b = c)
    BY <1>1, <1>2, <1>5 DEF OwnsP
  <2>2. \A q \in Procs \ {p}, b \in Buffers : OwnsP(q, b)' <=> OwnsP(q, b)
    BY <1>1, <1>5, <1>6 DEF OwnsP
  <2>3. UNCHANGED b_lock /\ Locks /\ r.bh = c
    BY <1>1, <1>3 DEF AInv
  <2> QED
    BY <1>3, <1>4, <2>1, <2>2, <2>3, LockMoved
<1> QED
  BY <1>8, <1>9, <1>10, <1>11, <1>12, <1>13 DEF AInv

(* The drive.                                                              *)
LEMMA TransferA ==
  ASSUME AInv, NEW t \in Slots, Transfer(t)
  PROVE  AInv'
<1>1. /\ request[t] # NoReq /\ request' = [request EXCEPT ![t].done = TRUE]
      /\ UNCHANGED <<b_blk, b_count, b_lock, b_dirt, b_uptodate, free_list, procVars>>
  BY DEF Transfer
<1>2. request \in [Slots -> Requests \cup {NoReq}] /\ request[t] \in Requests
  BY <1>1 DEF AInv, TypeOK
<1>3. PICK c \in Buffers : c = request[t].bh
  BY <1>2 DEF Requests
<1>4. PICK r \in Requests : r = [request[t] EXCEPT !.done = TRUE]
  BY <1>2 DEF Requests
<1>5. /\ request' \in [Slots -> Requests \cup {NoReq}]
      /\ request'[t] = r /\ \A s \in Slots \ {t} : request'[s] = request[s]
  BY <1>1, <1>2, <1>4
<1>6. r # NoReq /\ r.bh = c
  BY <1>2, <1>3, <1>4, NoReqAssumption DEF Requests
<1>7. \A s \in Slots, b \in Buffers : OwnsR(s, b)' <=> OwnsR(s, b)
  BY <1>1, <1>3, <1>5, <1>6 DEF OwnsR
<1>8. b_fresh' \in [Buffers -> BOOLEAN] /\ d_fresh' \in [Blocks -> BOOLEAN]
  <2>1. /\ b_fresh \in [Buffers -> BOOLEAN] /\ d_fresh \in [Blocks -> BOOLEAN]
    BY DEF AInv, TypeOK
  <2>2. b_blk[c] \in Blocks
    BY <1>1, <1>3 DEF AInv, Locks, OwnsR, BusyHasBlock
  <2>3. CASE request[t].cmd = WRITE
    <3>1. UNCHANGED b_fresh /\ d_fresh' = [d_fresh EXCEPT ![b_blk[c]] = b_fresh[c]]
      BY <1>3, <2>3 DEF Transfer
    <3> QED
      BY <2>1, <3>1
  <2>4. CASE request[t].cmd # WRITE
    <3>1. UNCHANGED d_fresh /\ b_fresh' = [b_fresh EXCEPT ![c] = d_fresh[b_blk[c]]]
      BY <1>3, <2>4 DEF Transfer
    <3> QED
      BY <2>1, <2>2, <3>1
  <2> QED
    BY <2>3, <2>4
<1>9. TypeOK'
  BY <1>1, <1>5, <1>8 DEF AInv, TypeOK, procVars
<1>10. Places' /\ UniqueBuffer' /\ Held' /\ AllListed' /\ BusyHasBlock'
  BY <1>1 DEF AInv, Places, UniqueBuffer, Held, AllListed, BusyHasBlock, procVars
<1>11. Counted'
  BY <1>1, HoldSame DEF AInv, procVars
<1>12. Locks'
  <2>1. UNCHANGED b_lock /\ \A p \in Procs, b \in Buffers : OwnsP(p, b)' <=> OwnsP(p, b)
    BY <1>1 DEF procVars, OwnsP
  <2> QED
    BY <1>7, <2>1 DEF AInv, Locks
<1> QED
  BY <1>9, <1>10, <1>11, <1>12 DEF AInv

LEMMA EndRequestA ==
  ASSUME AInv, NEW t \in Slots, NEW ok \in BOOLEAN, EndRequest(t, ok)
  PROVE  AInv'
<1>1. /\ request[t] # NoReq /\ request' = [request EXCEPT ![t] = NoReq]
      /\ UNCHANGED <<b_blk, b_count, b_dirt, b_fresh, free_list, d_fresh, procVars>>
  BY DEF EndRequest
<1>2. request \in [Slots -> Requests \cup {NoReq}] /\ request[t] \in Requests
  BY <1>1 DEF AInv, TypeOK
<1>3. PICK c \in Buffers : c = request[t].bh
  BY <1>2 DEF Requests
<1>4. /\ b_uptodate' = [b_uptodate EXCEPT ![c] = ok]
      /\ b_lock' = [b_lock EXCEPT ![c] = FALSE]
  BY <1>3 DEF EndRequest
<1>5. b_lock \in [Buffers -> BOOLEAN] /\ b_uptodate \in [Buffers -> BOOLEAN]
  BY DEF AInv, TypeOK
<1>6. TypeOK'
  BY <1>1, <1>2, <1>4, <1>5 DEF AInv, TypeOK, procVars
<1>7. Places' /\ UniqueBuffer' /\ Held' /\ AllListed'
  BY <1>1 DEF AInv, Places, UniqueBuffer, Held, AllListed, procVars
<1>8. BusyHasBlock'
  BY <1>1, <1>4, <1>5 DEF AInv, BusyHasBlock
<1>9. Counted'
  BY <1>1, HoldSame DEF AInv, procVars
<1>10. Locks'
  <2>1. \A p \in Procs, b \in Buffers : OwnsP(p, b)' <=> OwnsP(p, b)
    BY <1>1 DEF procVars, OwnsP
  <2>2. Locks /\ OwnsR(t, c)
    BY <1>1, <1>3 DEF AInv, OwnsR
  <2> QED
    BY <1>1, <1>2, <1>4, <1>5, <2>1, <2>2, LockEnded
<1> QED
  BY <1>6, <1>7, <1>8, <1>9, <1>10 DEF AInv

-----------------------------------------------------------------------------
(* Every step keeps the accounting.                                        *)
LEMMA StepA ==
  ASSUME AInv, NEW p \in Procs, Step(p)
  PROVE  AInv'
  BY GetblkFoundA, GetblkCandidateA, GetblkNoBufferA, HashWaitA, FreeWokenA, FreeRetryA,
     FreeSyncA, FreeClaimA, GotA, AddReadA, IoWaitA, UseA, CopyA, BrelseA, SyncA, SyncWaitA,
     AddWriteA, SyncEndA DEF Step

LEMMA StutterA ==
  ASSUME AInv, UNCHANGED vars
  PROVE  AInv'
<1>1. UNCHANGED <<b_blk, b_count, b_lock, b_dirt, b_uptodate, b_fresh, free_list, request,
                  d_fresh, cur, pc, op, blk, bh, sy, buffer_wait, owes>>
  BY DEF vars, bufVars, diskVars, procVars
<1>2. TypeOK' /\ Places' /\ UniqueBuffer' /\ Held' /\ AllListed' /\ BusyHasBlock'
  BY <1>1 DEF AInv, TypeOK, Places, UniqueBuffer, Held, AllListed, BusyHasBlock
<1>3. Counted'
  BY <1>1, HoldSame DEF AInv
<1>4. Locks'
  BY <1>1 DEF AInv, Locks, OwnsR, OwnsP
<1> QED
  BY <1>2, <1>3, <1>4 DEF AInv

LEMMA NextA == AInv /\ [Next]_vars => AInv'
<1> SUFFICES ASSUME AInv, [Next]_vars PROVE AInv'
  OBVIOUS
<1>1. ASSUME NEW p \in Procs, NEW o \in AllOps, NEW k \in Blocks, Start(p, o, k) PROVE AInv'
  BY <1>1, StartA
<1>2. ASSUME NEW p \in Procs, StartSync(p) \/ Step(p) PROVE AInv'
  BY <1>2, StartSyncA, StepA
<1>3. ASSUME NEW s \in Slots, Disk(s) PROVE AInv'
  BY <1>3, TransferA, EndRequestA DEF Disk
<1> QED
  BY <1>1, <1>2, <1>3, StutterA DEF Next

(* The invariant holds in every reachable state.                           *)
THEOREM AInvariance == Spec => []AInv
<1> QED
  BY InitA, NextA, PTL DEF Spec

-----------------------------------------------------------------------------
(* From the invariant to the property as it is checked.                    *)
LEMMA LocksCounted == AInv => LockHasOwner
<1> SUFFICES ASSUME AInv, NEW b \in Buffers
    PROVE Cardinality({s \in Slots : OwnsR(s, b)}) + Cardinality({p \in Procs : OwnsP(p, b)})
            = IF b_lock[b] THEN 1 ELSE 0
  BY Zenon DEF LockHasOwner, OwnsR, OwnsP
<1>1. Locks
  BY DEF AInv
<1>2. CASE ~b_lock[b]
  <2>1. {s \in Slots : OwnsR(s, b)} = {} /\ {p \in Procs : OwnsP(p, b)} = {}
    BY <1>1, <1>2 DEF Locks
  <2> QED
    BY <1>2, <2>1, FS_EmptySet
<1>3. CASE b_lock[b] /\ \E s \in Slots : OwnsR(s, b)
  <2>1. PICK s \in Slots : OwnsR(s, b)
    BY <1>3
  <2>2. {t \in Slots : OwnsR(t, b)} = {s} /\ {p \in Procs : OwnsP(p, b)} = {}
    BY <1>1, <2>1 DEF Locks
  <2>3. Cardinality({s}) = 1
    BY FS_Singleton
  <2> QED
    BY <1>3, <2>2, <2>3, FS_EmptySet
<1>4. CASE b_lock[b] /\ ~\E s \in Slots : OwnsR(s, b)
  <2>1. PICK p \in Procs : OwnsP(p, b)
    BY <1>1, <1>4 DEF Locks
  <2>2. {t \in Slots : OwnsR(t, b)} = {} /\ {q \in Procs : OwnsP(q, b)} = {p}
    BY <1>1, <1>4, <2>1 DEF Locks
  <2>3. Cardinality({p}) = 1
    BY FS_Singleton
  <2> QED
    BY <1>4, <2>2, <2>3, FS_EmptySet
<1> QED
  BY <1>2, <1>3, <1>4

LEMMA HoldersCounted == AInv => CountIsHolders
  BY Zenon DEF AInv, Counted, Held, Holders, CountIsHolders

(* One buffer per block, b_count the number of users, one owner per lock,  *)
(* every buffer on the free list: for any number of processes, buffers,    *)
(* blocks and request slots, whatever the processes do and whichever       *)
(* commands fail.                                                          *)
THEOREM Accounted == Spec => []BuffersAccounted
<1>1. AInv => BuffersAccounted
  BY LocksCounted, HoldersCounted DEF AInv, BuffersAccounted
<1> QED
  BY <1>1, AInvariance, PTL

-----------------------------------------------------------------------------
(* The data.  A step that leaves the buffers' contents and the requests    *)
(* alone concerns the moving process only.                                 *)
LEMMA PlainC ==
  ASSUME CInv, NEW p \in Procs,
         UNCHANGED <<b_blk, b_dirt, b_uptodate, b_fresh, request, d_fresh>>,
         \A q \in Procs \ {p} : /\ pc'[q] = pc[q] /\ op'[q] = op[q] /\ bh'[q] = bh[q]
                                /\ sy'[q] = sy[q] /\ owes'[q] = owes[q],
         op'[p] \in {"none", "read", "update", "sync"},
         pc'[p] \in {"use", "copy"} => b_uptodate[bh'[p]],
         pc'[p] = "slot_r" => ~b_uptodate[bh'[p]],
         pc'[p] = "slot_w" => b_dirt[sy'[p].i],
         \A b \in owes'[p] : b_dirt[b],
         op'[p] = "sync" => \A b \in owes'[p] : sy'[p].i <= b
  PROVE  CInv'
<1>1. SafeOps' /\ OwedIsDirty' /\ SyncFlushes'
  BY DEF CInv, SafeOps, OwedIsDirty, SyncFlushes
<1>2. DirtyIsUptodate' /\ UptodateIsFresh' /\ RequestsFit'
  BY DEF CInv, DirtyIsUptodate, UptodateIsFresh, RequestsFit
<1>3. UsedIsUptodate'
  BY DEF CInv, UsedIsUptodate
<1>4. NoLostWrite'
  BY DEF CInv, NoLostWrite, find_buffer
<1> QED
  BY <1>1, <1>2, <1>3, <1>4 DEF CInv

LEMMA InitC == Init => CInv
<1> SUFFICES ASSUME Init PROVE CInv
  OBVIOUS
<1>1. SafeOps /\ OwedIsDirty /\ SyncFlushes /\ UsedIsUptodate
  BY DEF Init, SafeOps, OwedIsDirty, SyncFlushes, UsedIsUptodate
<1>2. DirtyIsUptodate /\ UptodateIsFresh /\ RequestsFit /\ NoLostWrite
  BY DEF Init, DirtyIsUptodate, UptodateIsFresh, RequestsFit, NoLostWrite
<1> QED
  BY <1>1, <1>2 DEF CInv

(* What the steps of a process that PlainC covers start from.              *)
LEMMA TypesC ==
  ASSUME AInv
  PROVE  /\ pc \in [Procs -> PCs] /\ op \in [Procs -> AllOps \cup {"none"}]
         /\ bh \in [Procs -> Buffers \cup {0}] /\ owes \in [Procs -> SUBSET Buffers]
         /\ sy \in [Procs -> [dev : Devs \cup {SysSync}, i : 1 .. NR_BUFFERS + 1, pass : {1, 2}]]
         /\ blk \in [Procs -> Blocks \cup {NoBlock}]
  BY DEF AInv, TypeOK

LEMMA StartC ==
  ASSUME SafeWork, AInv, CInv, NEW p \in Procs, NEW o \in AllOps, NEW k \in Blocks, Start(p, o, k)
  PROVE  CInv'
<1>1. /\ pc' = [pc EXCEPT ![p] = "getblk"] /\ op' = [op EXCEPT ![p] = o]
      /\ UNCHANGED <<bufVars, diskVars, bh, sy, owes>> /\ o # "sync" /\ <<o, k>> \in Work[p]
  BY DEF Start, Goto
<1>2. o \in {"read", "update"}
  BY <1>1 DEF SafeWork, AllOps
<1>3. UNCHANGED <<b_blk, b_dirt, b_uptodate, b_fresh, request, d_fresh>>
  BY <1>1 DEF bufVars, diskVars
<1>4. /\ pc'[p] = "getblk" /\ op'[p] = o
      /\ \A q \in Procs \ {p} : pc'[q] = pc[q] /\ op'[q] = op[q]
  BY <1>1, TypesC
<1>5. \A b \in owes[p] : b_dirt[b]
  BY DEF CInv, OwedIsDirty
<1> QED
  BY <1>1, <1>2, <1>3, <1>4, <1>5, PlainC

LEMMA StartSyncC ==
  ASSUME AInv, CInv, NEW p \in Procs, StartSync(p)
  PROVE  CInv'
<1>1. /\ pc' = [pc EXCEPT ![p] = "sync"] /\ op' = [op EXCEPT ![p] = "sync"]
      /\ sy' = [sy EXCEPT ![p] = NoSync]
      /\ owes' = [owes EXCEPT ![p] = {b \in Buffers : b_dirt[b]}]
      /\ UNCHANGED <<bufVars, diskVars, bh>>
  BY DEF StartSync, Goto
<1>2. UNCHANGED <<b_blk, b_dirt, b_uptodate, b_fresh, request, d_fresh>>
  BY <1>1 DEF bufVars, diskVars
<1>3. /\ pc'[p] = "sync" /\ op'[p] = "sync" /\ sy'[p] = NoSync
      /\ owes'[p] = {b \in Buffers : b_dirt[b]}
      /\ \A q \in Procs \ {p} : pc'[q] = pc[q] /\ op'[q] = op[q] /\ sy'[q] = sy[q]
                                  /\ owes'[q] = owes[q]
  BY <1>1, TypesC
<1>4. \A b \in owes'[p] : b_dirt[b] /\ sy'[p].i <= b
  BY <1>3, SizesAssumption DEF NoSync, Buffers
<1> QED
  BY <1>1, <1>2, <1>3, <1>4, PlainC

(* The steps of getblk() that take no buffer over, of bread() and brelse().*)
LEMMA QuietC ==
  ASSUME CInv, AInv, NEW p \in Procs, NEW at \in PCs, pc' = [pc EXCEPT ![p] = at],
         UNCHANGED <<b_blk, b_dirt, b_uptodate, b_fresh, request, d_fresh, owes>>,
         op' = op \/ op' = [op EXCEPT ![p] = "none"],
         \A q \in Procs \ {p} : bh'[q] = bh[q] /\ sy'[q] = sy[q],
         op[p] = "sync" => sy'[p] = sy[p],
         at \in {"use", "copy"} => b_uptodate[bh'[p]],
         at = "slot_r" => ~b_uptodate[bh'[p]],
         at = "slot_w" => b_dirt[sy'[p].i]
  PROVE  CInv'
<1>1. /\ pc'[p] = at /\ op'[p] \in {op[p], "none"}
      /\ \A q \in Procs \ {p} : pc'[q] = pc[q] /\ op'[q] = op[q]
  BY TypesC
<1>2. op'[p] \in {"none", "read", "update", "sync"}
  BY <1>1 DEF CInv, SafeOps
<1>3. \A b \in owes'[p] : b_dirt[b]
  BY DEF CInv, OwedIsDirty
<1>4. op'[p] = "sync" => \A b \in owes'[p] : sy'[p].i <= b
  BY <1>1 DEF CInv, SyncFlushes
<1> QED
  BY <1>1, <1>2, <1>3, <1>4, PlainC

LEMMA GetblkC ==
  ASSUME AInv, CInv, NEW p \in Procs,
         \/ GetblkFound(p) \/ GetblkCandidate(p) \/ GetblkNoBuffer(p) \/ HashWait(p)
         \/ FreeWoken(p) \/ FreeRetry(p) \/ Brelse(p)
  PROVE  CInv'
<1>1. /\ UNCHANGED <<b_blk, b_dirt, b_uptodate, b_fresh, request, d_fresh, owes, sy>>
      /\ op' = op \/ op' = [op EXCEPT ![p] = "none"]
  BY DEF GetblkFound, GetblkCandidate, GetblkNoBuffer, HashWait, FreeWoken, FreeRetry, Brelse,
         bufVars, diskVars
<1>2. \A q \in Procs \ {p} : bh'[q] = bh[q]
  BY TypesC DEF GetblkFound, GetblkCandidate, GetblkNoBuffer, HashWait, FreeWoken, FreeRetry, Brelse
<1>3. PICK at \in {"hash_wait", "free_wait", "free_sleep", "got", "getblk", "idle"} :
        pc' = [pc EXCEPT ![p] = at]
  BY DEF GetblkFound, GetblkCandidate, GetblkNoBuffer, HashWait, FreeWoken, FreeRetry, Brelse, Goto
<1>4. at \in PCs /\ at \notin {"use", "copy", "slot_r", "slot_w"}
  BY DEF PCs
<1> QED
  BY <1>1, <1>2, <1>3, <1>4, QuietC

LEMMA FreeSyncC ==
  ASSUME AInv, CInv, NEW p \in Procs, FreeSync(p)
  PROVE  CInv'
<1>1. /\ pc[p] = "free_wait" /\ pc' = [pc EXCEPT ![p] = "sync"]
      /\ UNCHANGED <<bufVars, diskVars, op, bh, owes>>
      /\ sy' = [sy EXCEPT ![p] = [dev |-> BDev(bh[p]), i |-> 1, pass |-> 1]]
  BY DEF FreeSync, Goto
<1>2. UNCHANGED <<b_blk, b_dirt, b_uptodate, b_fresh, request, d_fresh, owes>>
  BY <1>1 DEF bufVars, diskVars
<1>3. op[p] # "sync" /\ \A q \in Procs \ {p} : sy'[q] = sy[q]
  BY <1>1, TypesC DEF AInv, Places, InSync
<1>4. "sync" \in PCs /\ "sync" \notin {"use", "copy", "slot_r", "slot_w"}
  BY DEF PCs
<1> QED
  BY <1>1, <1>2, <1>3, <1>4, QuietC

LEMMA GotC ==
  ASSUME AInv, CInv, NEW p \in Procs, Got(p)
  PROVE  CInv'
<1>1. UNCHANGED <<b_blk, b_dirt, b_uptodate, b_fresh, request, d_fresh, owes, op, bh, sy>>
  BY DEF Got, diskVars
<1>2. op[p] # "block_write"
  BY DEF CInv, SafeOps
<1>3. CASE b_uptodate[bh[p]]
  <2>1. pc' = [pc EXCEPT ![p] = "use"]
    BY <1>3 DEF Got, Goto
  <2>2. "use" \in PCs /\ "use" \notin {"slot_r", "slot_w"}
    BY DEF PCs
  <2> QED
    BY <1>1, <1>3, <2>1, <2>2, QuietC
<1>4. CASE ~b_uptodate[bh[p]]
  <2>1. pc' = [pc EXCEPT ![p] = "slot_r"]
    BY <1>2, <1>4 DEF Got, Goto
  <2>2. "slot_r" \in PCs /\ "slot_r" \notin {"use", "copy", "slot_w"}
    BY DEF PCs
  <2> QED
    BY <1>1, <1>4, <2>1, <2>2, QuietC
<1> QED
  BY <1>3, <1>4

LEMMA IoWaitC ==
  ASSUME AInv, CInv, NEW p \in Procs, IoWait(p)
  PROVE  CInv'
<1>1. UNCHANGED <<b_blk, b_dirt, b_uptodate, b_fresh, request, d_fresh, owes, op, bh, sy>>
  BY DEF IoWait, bufVars, diskVars
<1>2. PICK at \in {"use", "brelse"} : /\ pc' = [pc EXCEPT ![p] = at]
                                      /\ at = "use" => b_uptodate[bh[p]]
  BY DEF IoWait, Goto
<1>3. at \in PCs /\ at \notin {"copy", "slot_r", "slot_w"}
  BY DEF PCs
<1> QED
  BY <1>1, <1>2, <1>3, QuietC

LEMMA UseC ==
  ASSUME AInv, CInv, NEW p \in Procs, Use(p)
  PROVE  CInv'
<1>1. /\ pc[p] = "use" /\ pc' = [pc EXCEPT ![p] = "copy"]
      /\ UNCHANGED <<b_blk, b_uptodate, b_fresh, diskVars, owes, op, bh, sy>>
  BY DEF Use, Goto
<1>2. UNCHANGED b_dirt
  <2>1. op[p] # "file_write" /\ b_dirt \in [Buffers -> BOOLEAN]
    BY DEF CInv, SafeOps, AInv, TypeOK
  <2>2. PICK c \in Buffers : c = bh[p]
    BY <1>1 DEF AInv, Places, Holding
  <2>3. b_dirt' = [b_dirt EXCEPT ![c] = b_dirt[c] \/ op[p] = "file_write"]
    BY <2>2 DEF Use
  <2>4. (b_dirt[c] \/ op[p] = "file_write") = b_dirt[c]
    BY <2>1, Zenon
  <2> QED
    BY <2>1, <2>3, <2>4
<1>3. UNCHANGED <<request, d_fresh>> /\ b_uptodate[bh[p]]
  BY <1>1 DEF diskVars, CInv, UsedIsUptodate
<1>4. "copy" \in PCs /\ "copy" \notin {"slot_r", "slot_w"}
  BY DEF PCs
<1> QED
  BY <1>1, <1>2, <1>3, <1>4, QuietC

(* The loops of sync.                                                      *)
LEMMA AdvanceBy ==
  ASSUME AInv, NEW p \in Procs, Advance(p)
  PROVE  sy'[p].i = sy[p].i + 1 /\ \A q \in Procs \ {p} : sy'[q] = sy[q]
  BY TypesC DEF Advance

LEMMA SyncC ==
  ASSUME AInv, CInv, NEW p \in Procs, Sync(p)
  PROVE  CInv'
<1>1. UNCHANGED <<b_blk, b_dirt, b_uptodate, b_fresh, request, d_fresh, owes, op, bh>>
  BY DEF Sync, bufVars, diskVars
<1>2. PICK at \in {"sync_wait", "sync"} : pc' = [pc EXCEPT ![p] = at]
  BY DEF Sync, Goto
<1>3. at \in PCs /\ at \notin {"use", "copy", "slot_r", "slot_w"}
  BY DEF PCs
<1>4. UNCHANGED sy \/ (Advance(p) /\ sy[p].dev # SysSync)
  BY DEF Sync
<1>5. op[p] = "sync" => sy[p].dev = SysSync
  BY DEF AInv, Places
<1>6. (\A q \in Procs \ {p} : sy'[q] = sy[q]) /\ (op[p] = "sync" => sy'[p] = sy[p])
  BY <1>4, <1>5, AdvanceBy
<1> QED
  BY <1>1, <1>2, <1>3, <1>6, QuietC

LEMMA SyncWaitC ==
  ASSUME AInv, CInv, NEW p \in Procs, SyncWait(p)
  PROVE  CInv'
<1>1. UNCHANGED <<b_blk, b_dirt, b_uptodate, b_fresh, request, d_fresh, owes, op, bh>>
  BY DEF SyncWait, diskVars
<1>2. CASE (sy[p].dev = SysSync \/ BDev(sy[p].i) = sy[p].dev) /\ b_dirt[sy[p].i]
  <2>1. pc' = [pc EXCEPT ![p] = "slot_w"] /\ UNCHANGED sy
    BY <1>2 DEF SyncWait, Goto
  <2>2. "slot_w" \in PCs /\ "slot_w" \notin {"use", "copy", "slot_r"}
    BY DEF PCs
  <2> QED
    BY <1>1, <1>2, <2>1, <2>2, QuietC
<1>3. CASE ~((sy[p].dev = SysSync \/ BDev(sy[p].i) = sy[p].dev) /\ b_dirt[sy[p].i])
  <2>1. pc' = [pc EXCEPT ![p] = "sync"] /\ Advance(p)
    BY <1>3 DEF SyncWait, Goto
  <2>2. /\ sy'[p].i = sy[p].i + 1 /\ \A q \in Procs \ {p} : sy'[q] = sy[q]
    BY <2>1, AdvanceBy
  <2>3. pc'[p] = "sync" /\ \A q \in Procs \ {p} : pc'[q] = pc[q]
    BY <2>1, TypesC
  <2>4. (\A b \in owes[p] : b_dirt[b]) /\ op[p] \in {"none", "read", "update", "sync"}
    BY DEF CInv, OwedIsDirty, SafeOps
  <2>5. ASSUME op[p] = "sync", NEW b \in owes[p] PROVE sy'[p].i <= b
    <3>1. b \in Nat /\ sy[p].i \in Nat
      BY TypesC, SizesAssumption DEF Buffers
    <3>2. sy[p].dev = SysSync
      BY <2>5 DEF AInv, Places
    <3>3. b # sy[p].i
      BY <1>3, <2>4, <3>2
    <3>4. sy[p].i <= b
      BY <2>5 DEF CInv, SyncFlushes
    <3> QED
      BY <2>2, <3>1, <3>3, <3>4
  <2> QED
    BY <1>1, <2>2, <2>3, <2>4, <2>5, PlainC
<1> QED
  BY <1>2, <1>3

LEMMA SyncEndC ==
  ASSUME AInv, CInv, NEW p \in Procs, SyncEnd(p)
  PROVE  CInv'
<1>1. /\ UNCHANGED <<b_blk, b_dirt, b_uptodate, b_fresh, request, d_fresh, bh>>
      /\ owes' = [owes EXCEPT ![p] = {}]
  BY DEF SyncEnd, bufVars, diskVars
<1>2. PICK at \in {"sync", "idle", "free_wait"} : pc' = [pc EXCEPT ![p] = at]
  BY DEF SyncEnd, Goto
<1>3. PICK o \in {op[p], "none"} : op' = [op EXCEPT ![p] = o]
  <2>1. CASE op[p] = "sync"
    BY <2>1 DEF SyncEnd
  <2>2. CASE op[p] # "sync"
    BY <2>2 DEF SyncEnd
  <2> QED
    BY <2>1, <2>2
<1>4. \A q \in Procs \ {p} : sy'[q] = sy[q]
  BY TypesC DEF SyncEnd
<1>5. /\ pc'[p] = at /\ op'[p] = o /\ owes'[p] = {}
      /\ \A q \in Procs \ {p} : pc'[q] = pc[q] /\ op'[q] = op[q] /\ owes'[q] = owes[q]
  BY <1>1, <1>2, <1>3, TypesC
<1>6. o \in {"none", "read", "update", "sync"}
  BY <1>3 DEF CInv, SafeOps
<1> QED
  BY <1>1, <1>2, <1>4, <1>5, <1>6, PlainC

-----------------------------------------------------------------------------
(* getblk() takes over a buffer that nobody uses and that is clean.        *)
LEMMA FreeClaimC ==
  ASSUME AInv, CInv, NEW p \in Procs, FreeClaim(p)
  PROVE  CInv'
<1>1. pc[p] = "free_wait" /\ UNCHANGED <<b_lock, request, d_fresh, op, bh, sy, owes>>
  BY DEF FreeClaim, diskVars
<1>2. PICK c \in Buffers : c = bh[p]
  BY <1>1 DEF AInv, Places
<1>3. /\ ~b_lock[c] /\ b_count[c] = 0 /\ ~b_dirt[c]
      /\ \A b \in Buffers : b_blk[b] # blk[p]
      /\ b_dirt' = [b_dirt EXCEPT ![c] = FALSE]
      /\ b_uptodate' = [b_uptodate EXCEPT ![c] = FALSE]
      /\ b_blk' = [b_blk EXCEPT ![c] = blk[p]]
      /\ b_fresh' = [b_fresh EXCEPT ![c] = FALSE]
      /\ pc' = [pc EXCEPT ![p] = "got"]
  BY <1>2 DEF FreeClaim, Goto, find_buffer
<1>4. /\ b_dirt \in [Buffers -> BOOLEAN] /\ b_uptodate \in [Buffers -> BOOLEAN]
      /\ b_fresh \in [Buffers -> BOOLEAN] /\ b_blk \in [Buffers -> Blocks \cup {NoBlock}]
      /\ request \in [Slots -> Requests \cup {NoReq}]
  BY DEF AInv, TypeOK
<1>5. /\ UNCHANGED b_dirt
      /\ ~b_uptodate'[c] /\ \A b \in Buffers \ {c} : b_uptodate'[b] = b_uptodate[b]
      /\ ~b_fresh'[c] /\ \A b \in Buffers \ {c} : b_fresh'[b] = b_fresh[b]
      /\ b_blk'[c] = blk[p] /\ \A b \in Buffers \ {c} : b_blk'[b] = b_blk[b]
  BY <1>3, <1>4
<1>6. pc'[p] = "got" /\ \A q \in Procs \ {p} : pc'[q] = pc[q]
  BY <1>3, TypesC
<1>7. \A q \in Procs : pc[q] \in Holding => bh[q] # c
  BY <1>3, UnusedIsFree DEF AInv
<1>8. \A s \in Slots : request[s] # NoReq => request[s].bh # c
  BY <1>3 DEF AInv, Locks, OwnsR
<1>9. SafeOps' /\ OwedIsDirty' /\ SyncFlushes'
  BY <1>1, <1>5 DEF CInv, SafeOps, OwedIsDirty, SyncFlushes
<1>10. DirtyIsUptodate' /\ UptodateIsFresh'
  BY <1>3, <1>5 DEF CInv, DirtyIsUptodate, UptodateIsFresh
<1>11. UsedIsUptodate'
  <2>1. \A q \in Procs : pc[q] \in {"use", "copy", "slot_r"} => bh[q] \in Buffers \ {c}
    BY <1>7 DEF AInv, Places, Holding
  <2> QED
    BY <1>1, <1>5, <1>6, <2>1 DEF CInv, UsedIsUptodate
<1>12. RequestsFit'
  <2>1. \A s \in Slots : request[s] # NoReq => request[s].bh \in Buffers \ {c}
    BY <1>4, <1>8 DEF Requests
  <2> QED
    BY <1>1, <1>5, <2>1 DEF CInv, RequestsFit
<1>13. NoLostWrite'
  <2> SUFFICES ASSUME NEW k \in Blocks, ~d_fresh[k]
      PROVE \E b \in find_buffer(k)' :
              b_fresh'[b] /\ (b_dirt'[b] \/ \E s \in Slots :
                 request'[s] = [cmd |-> WRITE, bh |-> b, done |-> FALSE])
    BY <1>1 DEF NoLostWrite
  <2>1. PICK b \in find_buffer(k) :
          b_fresh[b] /\ (b_dirt[b] \/ \E s \in Slots :
            request[s] = [cmd |-> WRITE, bh |-> b, done |-> FALSE])
    BY DEF CInv, NoLostWrite
  <2>2. b \in Buffers /\ b_blk[b] = k
    BY <2>1 DEF find_buffer
  <2>3. b # c
    <3>1. SUFFICES ASSUME NEW s \in Slots, request[s] = [cmd |-> WRITE, bh |-> c, done |-> FALSE]
          PROVE FALSE
      BY <1>3, <2>1
    <3>2. request[s] \in Requests /\ request[s].bh = c
      BY <3>1 DEF Requests
    <3> QED
      BY <1>8, <3>2, NoReqAssumption
  <2>4. b \in find_buffer(k)' /\ b_fresh'[b] = b_fresh[b] /\ b_dirt'[b] = b_dirt[b]
    BY <1>5, <2>2, <2>3 DEF find_buffer
  <2> QED
    BY <1>1, <2>1, <2>4
<1> QED
  BY <1>9, <1>10, <1>11, <1>12, <1>13 DEF CInv

(* A block whose latest contents are not on disk has one buffer, and that  *)
(* buffer keeps its place in NoLostWrite as long as nothing it rests on    *)
(* goes away.                                                              *)
Bound(b) == b_fresh[b] /\ (b_dirt[b] \/ \E s \in Slots :
              request[s] = [cmd |-> WRITE, bh |-> b, done |-> FALSE])

LEMMA LostKept ==
  ASSUME NoLostWrite, UNCHANGED b_blk,
         \A k \in Blocks, b \in Buffers :
           b_blk[b] = k /\ Bound(b) => d_fresh'[k] \/ Bound(b)',
         \A k \in Blocks : d_fresh[k] =>
           d_fresh'[k] \/ \E b \in Buffers : b_blk[b] = k /\ Bound(b)'
  PROVE  NoLostWrite'
<1> SUFFICES ASSUME NEW k \in Blocks PROVE d_fresh'[k] \/ \E b \in find_buffer(k)' : Bound(b)'
  BY DEF NoLostWrite, Bound
<1>1. d_fresh[k] \/ \E b \in Buffers : b_blk[b] = k /\ Bound(b)
  BY DEF NoLostWrite, find_buffer, Bound
<1> QED
  BY <1>1 DEF find_buffer

(* A read request finds its buffer clean, so that clearing b_dirt loses    *)
(* nothing.                                                                *)
LEMMA AddReadC ==
  ASSUME AInv, CInv, NEW p \in Procs, AddRead(p)
  PROVE  CInv'
<1>1. /\ pc[p] = "slot_r" /\ pc' = [pc EXCEPT ![p] = "io_wait"]
      /\ UNCHANGED <<b_blk, b_lock, b_uptodate, b_fresh, d_fresh, op, bh, sy, owes>>
  BY DEF AddRead, Goto
<1>2. PICK c \in Buffers : c = bh[p] /\ AddRequest(READ, c)
  BY <1>1 DEF AInv, Places, Holding, AddRead
<1>3. PICK t \in Slots, r \in Requests :
           /\ r = [cmd |-> READ, bh |-> c, done |-> FALSE]
           /\ request[t] = NoReq
           /\ request' = [request EXCEPT ![t] = r]
           /\ request' \in [Slots -> Requests \cup {NoReq}]
           /\ b_dirt' \in [Buffers -> BOOLEAN]
           /\ ~b_dirt'[c] /\ \A b \in Buffers \ {c} : b_dirt'[b] = b_dirt[b]
  BY <1>2, AddRequestOK
<1>4. ~b_uptodate[c] /\ ~b_dirt[c]
  BY <1>1, <1>2 DEF CInv, UsedIsUptodate, DirtyIsUptodate
<1>5. \A b \in Buffers : b_dirt'[b] <=> b_dirt[b]
  BY <1>3, <1>4
<1>6. /\ request'[t] = r /\ \A s \in Slots \ {t} : request'[s] = request[s]
      /\ request \in [Slots -> Requests \cup {NoReq}]
  BY <1>3 DEF AInv, TypeOK
<1>7. pc'[p] = "io_wait" /\ \A q \in Procs \ {p} : pc'[q] = pc[q]
  BY <1>1, TypesC
<1>8. SafeOps' /\ SyncFlushes'
  BY <1>1 DEF CInv, SafeOps, SyncFlushes
<1>9. OwedIsDirty'
  BY <1>1, <1>5, TypesC DEF CInv, OwedIsDirty
<1>10. DirtyIsUptodate' /\ UptodateIsFresh'
  BY <1>1, <1>5 DEF CInv, DirtyIsUptodate, UptodateIsFresh
<1>11. UsedIsUptodate'
  <2>1. \A q \in Procs : pc[q] = "slot_w" => sy[q].i \in Buffers
    BY DEF AInv, Places
  <2> QED
    BY <1>1, <1>5, <1>7, <2>1 DEF CInv, UsedIsUptodate
<1>12. RequestsFit'
  <2>1. r.cmd = READ /\ r.cmd # WRITE /\ r.bh = c /\ ~r.done
    BY <1>3 DEF READ, WRITE
  <2> QED
    BY <1>1, <1>4, <1>6, <2>1 DEF CInv, RequestsFit
<1>13. NoLostWrite'
  <2>1. ASSUME NEW b \in Buffers, NEW s \in Slots,
               request[s] = [cmd |-> WRITE, bh |-> b, done |-> FALSE]
        PROVE  request'[s] = [cmd |-> WRITE, bh |-> b, done |-> FALSE]
    <3>1. request[s] \in Requests
      BY <2>1 DEF Requests, WRITE
    <3> QED
      BY <1>3, <1>6, <2>1, <3>1, NoReqAssumption
  <2>2. \A b \in Buffers : Bound(b) => Bound(b)'
    BY <1>1, <1>5, <2>1 DEF Bound
  <2>3. NoLostWrite
    BY DEF CInv
  <2> QED
    BY <1>1, <2>2, <2>3, LostKept
<1> QED
  BY <1>8, <1>9, <1>10, <1>11, <1>12, <1>13 DEF CInv

(* A dirty buffer that sync hands to the driver is bound for the disk by   *)
(* the request from now on.                                                *)
LEMMA AddWriteC ==
  ASSUME AInv, CInv, NEW p \in Procs, AddWrite(p)
  PROVE  CInv'
<1>1. /\ pc[p] = "slot_w" /\ pc' = [pc EXCEPT ![p] = "sync"] /\ Advance(p)
      /\ UNCHANGED <<b_blk, b_lock, b_uptodate, b_fresh, d_fresh, op, bh>>
      /\ owes' = [q \in Procs |-> owes[q] \ {sy[p].i}]
  BY DEF AddWrite, Goto
<1>2. PICK c \in Buffers : c = sy[p].i /\ AddRequest(WRITE, c)
  BY <1>1 DEF AInv, Places, AddWrite
<1>3. PICK t \in Slots, r \in Requests :
           /\ r = [cmd |-> WRITE, bh |-> c, done |-> FALSE]
           /\ request[t] = NoReq
           /\ request' = [request EXCEPT ![t] = r]
           /\ request' \in [Slots -> Requests \cup {NoReq}]
           /\ b_dirt' \in [Buffers -> BOOLEAN]
           /\ ~b_dirt'[c] /\ \A b \in Buffers \ {c} : b_dirt'[b] = b_dirt[b]
  BY <1>2, AddRequestOK
<1>4. b_dirt[c] /\ b_uptodate[c] /\ b_fresh[c]
  BY <1>1, <1>2 DEF CInv, UsedIsUptodate, DirtyIsUptodate, UptodateIsFresh
<1>5. /\ request'[t] = r /\ \A s \in Slots \ {t} : request'[s] = request[s]
      /\ request \in [Slots -> Requests \cup {NoReq}]
  BY <1>3 DEF AInv, TypeOK
<1>6. pc'[p] = "sync" /\ \A q \in Procs \ {p} : pc'[q] = pc[q]
  BY <1>1, TypesC
<1>7. sy'[p].i = c + 1 /\ \A q \in Procs \ {p} : sy'[q] = sy[q]
  BY <1>1, <1>2, AdvanceBy
<1>8. \A q \in Procs : owes'[q] = owes[q] \ {c}
  BY <1>1, <1>2
<1>9. SafeOps'
  BY <1>1 DEF CInv, SafeOps
<1>10. SyncFlushes'
  <2> SUFFICES ASSUME NEW q \in Procs, op[q] = "sync", NEW b \in owes[q] \ {c}
      PROVE sy'[q].i <= b
    BY <1>1, <1>8 DEF SyncFlushes
  <2>1. sy[q].i <= b
    BY DEF CInv, SyncFlushes
  <2>2. b \in Nat /\ c \in Nat
    BY TypesC, SizesAssumption DEF Buffers
  <2> QED
    BY <1>2, <1>7, <2>1, <2>2
<1>11. OwedIsDirty'
  BY <1>3, <1>8, TypesC DEF CInv, OwedIsDirty
<1>12. DirtyIsUptodate' /\ UptodateIsFresh'
  BY <1>1, <1>3 DEF CInv, DirtyIsUptodate, UptodateIsFresh
<1>13. UsedIsUptodate'
  <2>1. \A q \in Procs \ {p} : pc[q] = "slot_w" => sy[q].i \in Buffers /\ sy[q].i # c
    BY <1>1, <1>2 DEF AInv, Places, Locks, OwnsP
  <2> QED
    BY <1>1, <1>3, <1>6, <1>7, <2>1 DEF CInv, UsedIsUptodate
<1>14. RequestsFit'
  <2>1. r.cmd = WRITE /\ r.cmd # READ /\ r.bh = c
    BY <1>3 DEF READ, WRITE
  <2> QED
    BY <1>1, <1>4, <1>5, <2>1 DEF CInv, RequestsFit
<1>15. NoLostWrite'
  <2>1. ASSUME NEW b \in Buffers, NEW s \in Slots,
               request[s] = [cmd |-> WRITE, bh |-> b, done |-> FALSE]
        PROVE  request'[s] = [cmd |-> WRITE, bh |-> b, done |-> FALSE]
    <3>1. request[s] \in Requests
      BY <2>1 DEF Requests, WRITE
    <3> QED
      BY <1>3, <1>5, <2>1, <3>1, NoReqAssumption
  <2>2. Bound(c)'
    BY <1>1, <1>3, <1>4, <1>5 DEF Bound
  <2>3. \A b \in Buffers \ {c} : Bound(b) => Bound(b)'
    BY <1>1, <1>3, <2>1 DEF Bound
  <2>4. NoLostWrite
    BY DEF CInv
  <2> QED
    BY <1>1, <2>2, <2>3, <2>4, LostKept
<1> QED
  BY <1>9, <1>10, <1>11, <1>12, <1>13, <1>14, <1>15 DEF CInv

(* A process changes its buffer: it is up to date, no other buffer has the *)
(* block, and it is marked at once.                                        *)
LEMMA CopyC ==
  ASSUME AInv, CInv, NEW p \in Procs, Copy(p)
  PROVE  CInv'
<1>1. /\ pc[p] = "copy" /\ pc' = [pc EXCEPT ![p] = "brelse"]
      /\ UNCHANGED <<b_blk, b_lock, b_uptodate, request, op, bh, sy, owes>>
  BY DEF Copy, Goto
<1>2. PICK c \in Buffers : c = bh[p]
  BY <1>1 DEF AInv, Places, Holding
<1>3. b_uptodate[c] /\ b_fresh[c]
  BY <1>1, <1>2 DEF CInv, UsedIsUptodate, UptodateIsFresh
<1>4. /\ b_dirt \in [Buffers -> BOOLEAN] /\ b_fresh \in [Buffers -> BOOLEAN]
      /\ d_fresh \in [Blocks -> BOOLEAN]
  BY DEF AInv, TypeOK
<1>5. b_blk[c] \in Blocks
  BY <1>1, <1>2, HolderHasBlock DEF Holding
<1>6. \A b \in Buffers : b_fresh'[b] <=> b_fresh[b]
  <2>1. CASE op[p] = "read"
    BY <2>1 DEF Copy
  <2>2. CASE op[p] # "read"
    <3>1. b_fresh' = [b \in Buffers |->
                        IF b = c THEN b_fresh[c] \/ op[p] = "block_write"
                        ELSE b_fresh[b] /\ b_blk[b] # b_blk[c]]
      BY <1>2, <2>2 DEF Copy, Modify
    <3>2. \A b \in Buffers \ {c} : b_blk[b] # b_blk[c]
      BY <1>5, DevAssumption DEF AInv, UniqueBuffer
    <3> QED
      BY <1>3, <1>4, <3>1, <3>2
  <2> QED
    BY <2>1, <2>2
<1>7. /\ \A b \in Buffers \ {c} : b_dirt'[b] = b_dirt[b]
      /\ b_dirt[c] \/ op[p] # "read" => b_dirt'[c]
  <2>1. op[p] \in {"read", "update"}
    BY <1>1 DEF CInv, SafeOps, AInv, Places, InSync
  <2>2. b_dirt' = [b_dirt EXCEPT ![c] = b_dirt[c] \/ op[p] \in {"update", "block_write"}]
    BY <1>2 DEF Copy
  <2> QED
    BY <1>4, <2>1, <2>2
<1>8. \A k \in Blocks : d_fresh[k] => d_fresh'[k] \/ (b_blk[c] = k /\ op[p] # "read")
  <2>1. CASE op[p] = "read"
    BY <2>1 DEF Copy
  <2>2. CASE op[p] # "read"
    <3>1. d_fresh' = [d_fresh EXCEPT ![b_blk[c]] = FALSE]
      BY <1>2, <2>2 DEF Copy, Modify
    <3> QED
      BY <1>4, <2>2, <3>1
  <2> QED
    BY <2>1, <2>2
<1>9. pc'[p] = "brelse" /\ \A q \in Procs \ {p} : pc'[q] = pc[q]
  BY <1>1, TypesC
<1>10. \A b \in Buffers : b_dirt[b] => b_dirt'[b]
  BY <1>7
<1>11. SafeOps' /\ SyncFlushes'
  BY <1>1 DEF CInv, SafeOps, SyncFlushes
<1>12. OwedIsDirty'
  BY <1>1, <1>10, TypesC DEF CInv, OwedIsDirty
<1>13. DirtyIsUptodate' /\ UptodateIsFresh'
  BY <1>1, <1>3, <1>6, <1>7 DEF CInv, DirtyIsUptodate, UptodateIsFresh
<1>14. UsedIsUptodate'
  <2>1. \A q \in Procs : pc[q] = "slot_w" => sy[q].i \in Buffers
    BY DEF AInv, Places
  <2> QED
    BY <1>1, <1>9, <1>10, <2>1 DEF CInv, UsedIsUptodate
<1>15. RequestsFit'
  <2>1. \A s \in Slots : request[s] # NoReq => request[s].bh \in Buffers
    BY DEF AInv, TypeOK, Requests
  <2> QED
    BY <1>1, <1>6, <2>1 DEF CInv, RequestsFit
<1>16. NoLostWrite'
  <2>1. \A b \in Buffers : Bound(b) => Bound(b)'
    BY <1>1, <1>6, <1>10 DEF Bound
  <2>2. op[p] # "read" => Bound(c)'
    BY <1>3, <1>6, <1>7 DEF Bound
  <2>3. NoLostWrite
    BY DEF CInv
  <2> QED
    BY <1>1, <1>8, <2>1, <2>2, <2>3, LostKept
<1> QED
  BY <1>11, <1>12, <1>13, <1>14, <1>15, <1>16 DEF CInv

-----------------------------------------------------------------------------
(* The drive.  A write carries the latest contents to the disk; a read     *)
(* finds them there, for they cannot be in a buffer that is not up to date.*)
LEMMA TransferC ==
  ASSUME AInv, CInv, NEW t \in Slots, Transfer(t)
  PROVE  CInv'
<1>1. /\ request[t] # NoReq /\ request' = [request EXCEPT ![t].done = TRUE]
      /\ UNCHANGED <<b_blk, b_lock, b_dirt, b_uptodate, pc, op, bh, sy, owes>>
  BY DEF Transfer, procVars
<1>2. request \in [Slots -> Requests \cup {NoReq}] /\ request[t] \in Requests
  BY <1>1 DEF AInv, TypeOK
<1>3. PICK c \in Buffers : c = request[t].bh
  BY <1>2 DEF Requests
<1>4. PICK r \in Requests : r = [request[t] EXCEPT !.done = TRUE]
  BY <1>2 DEF Requests
<1>5. r # NoReq /\ r.bh = c /\ r.done /\ r.cmd = request[t].cmd
  BY <1>2, <1>3, <1>4, NoReqAssumption DEF Requests
<1>6. request'[t] = r /\ \A s \in Slots \ {t} : request'[s] = request[s]
  BY <1>1, <1>2, <1>4
<1>7. b_blk[c] \in Blocks
  BY <1>1, <1>3 DEF AInv, Locks, OwnsR, BusyHasBlock
<1>8. \A s \in Slots \ {t} : request[s] # NoReq => request[s].bh \in Buffers \ {c}
  <2>1. \A s \in Slots : request[s] # NoReq => request[s].bh \in Buffers
    BY DEF AInv, TypeOK, Requests
  <2> QED
    BY <1>1, <1>3, <2>1 DEF AInv, Locks, OwnsR
<1>9. b_fresh \in [Buffers -> BOOLEAN] /\ d_fresh \in [Blocks -> BOOLEAN]
  BY DEF AInv, TypeOK
<1>10. r.cmd = WRITE => b_fresh[c]
  BY <1>1, <1>3, <1>5 DEF CInv, RequestsFit, UptodateIsFresh
<1>11. r.cmd # WRITE => d_fresh[b_blk[c]]
  <2>1. SUFFICES ASSUME r.cmd # WRITE, ~d_fresh[b_blk[c]] PROVE FALSE
    OBVIOUS
  <2>2. PICK b \in find_buffer(b_blk[c]) :
          b_dirt[b] \/ \E s \in Slots : request[s] = [cmd |-> WRITE, bh |-> b, done |-> FALSE]
    BY <1>7, <2>1 DEF CInv, NoLostWrite
  <2>3. b = c
    BY <1>7, <2>2, DevAssumption DEF find_buffer, AInv, UniqueBuffer
  <2>4. r.cmd = READ
    BY <2>1 DEF Requests
  <2>5. ~b_uptodate[c] /\ ~b_dirt[c]
    BY <1>1, <1>3, <1>5, <2>4 DEF CInv, RequestsFit, DirtyIsUptodate
  <2>6. PICK s \in Slots : request[s] = [cmd |-> WRITE, bh |-> c, done |-> FALSE]
    BY <2>2, <2>3, <2>5
  <2>7. request[s] # NoReq /\ request[s].cmd = WRITE /\ request[s].bh = c
    <3>1. request[s] \in Requests /\ request[s].cmd = WRITE /\ request[s].bh = c
      BY <2>6 DEF Requests, WRITE
    <3> QED
      BY <3>1, NoReqAssumption
  <2> QED
    BY <2>5, <2>7 DEF CInv, RequestsFit
<1>12. /\ b_fresh'[c] /\ \A b \in Buffers \ {c} : b_fresh'[b] = b_fresh[b]
       /\ \A k \in Blocks : d_fresh[k] => d_fresh'[k]
       /\ r.cmd = WRITE => d_fresh'[b_blk[c]]
  <2>1. CASE r.cmd = WRITE
    <3>1. UNCHANGED b_fresh /\ d_fresh' = [d_fresh EXCEPT ![b_blk[c]] = b_fresh[c]]
      BY <1>3, <1>5, <2>1 DEF Transfer
    <3> QED
      BY <1>7, <1>9, <1>10, <2>1, <3>1
  <2>2. CASE r.cmd # WRITE
    <3>1. UNCHANGED d_fresh /\ b_fresh' = [b_fresh EXCEPT ![c] = d_fresh[b_blk[c]]]
      BY <1>3, <1>5, <2>2 DEF Transfer
    <3> QED
      BY <1>7, <1>9, <1>11, <2>2, <3>1
  <2> QED
    BY <2>1, <2>2
<1>13. SafeOps' /\ SyncFlushes' /\ OwedIsDirty' /\ UsedIsUptodate' /\ DirtyIsUptodate'
  BY <1>1 DEF CInv, SafeOps, SyncFlushes, OwedIsDirty, UsedIsUptodate, DirtyIsUptodate
<1>14. UptodateIsFresh'
  BY <1>1, <1>12 DEF CInv, UptodateIsFresh
<1>15. RequestsFit'
  <2>1. /\ r.cmd = READ => ~b_uptodate[c]
        /\ r.cmd = WRITE => b_uptodate[c]
    BY <1>1, <1>3, <1>5 DEF CInv, RequestsFit
  <2>2. RequestsFit
    BY DEF CInv
  <2>3. ASSUME NEW s \in Slots, request'[s] # NoReq
        PROVE  /\ request'[s].cmd = READ => /\ ~b_uptodate'[request'[s].bh]
                                            /\ request'[s].done => b_fresh'[request'[s].bh]
               /\ request'[s].cmd = WRITE => b_uptodate'[request'[s].bh]
    <3>1. UNCHANGED b_uptodate
      BY <1>1
    <3>2. CASE s = t
      BY ONLY <1>5, <1>6, <1>12, <2>1, <3>1, <3>2
    <3>3. CASE s # t
      <4>1. request'[s] = request[s] /\ request[s].bh \in Buffers \ {c}
        BY ONLY <1>6, <1>8, <2>3, <3>3
      <4>2. b_fresh'[request[s].bh] = b_fresh[request[s].bh]
        BY ONLY <1>12, <4>1
      <4>3. /\ request[s].cmd = READ => /\ ~b_uptodate[request[s].bh]
                                        /\ request[s].done => b_fresh[request[s].bh]
            /\ request[s].cmd = WRITE => b_uptodate[request[s].bh]
        BY ONLY <2>2, <2>3, <4>1 DEF RequestsFit
      <4> QED
        BY ONLY <3>1, <4>1, <4>2, <4>3
    <3> QED
      BY ONLY <3>2, <3>3
  <2> QED
    BY ONLY <2>3 DEF RequestsFit
<1>16. NoLostWrite'
  <2>1. ASSUME NEW k \in Blocks, NEW b \in Buffers, b_blk[b] = k, Bound(b), ~d_fresh'[k]
        PROVE  Bound(b)'
    <3>1. b_fresh'[b]
      BY <1>12, <2>1 DEF Bound
    <3>2. ASSUME NEW s \in Slots, request[s] = [cmd |-> WRITE, bh |-> b, done |-> FALSE]
          PROVE  request'[s] = [cmd |-> WRITE, bh |-> b, done |-> FALSE]
      <4>1. SUFFICES s # t
        BY <1>6, <3>2
      <4>2. request[s].cmd = WRITE /\ request[s].bh = b
        BY <3>2
      <4> QED
        BY <1>3, <1>5, <1>12, <2>1, <4>2
    <3> QED
      BY <1>1, <2>1, <3>1, <3>2 DEF Bound
  <2>2. NoLostWrite
    BY DEF CInv
  <2> QED
    BY <1>1, <1>12, <2>1, <2>2, LostKept
<1> QED
  BY <1>13, <1>14, <1>15, <1>16 DEF CInv

LEMMA EndRequestC ==
  ASSUME SafeWork, AInv, CInv, NEW t \in Slots, NEW ok \in BOOLEAN, EndRequest(t, ok)
  PROVE  CInv'
<1>1. /\ request[t] # NoReq /\ request' = [request EXCEPT ![t] = NoReq]
      /\ UNCHANGED <<b_blk, b_dirt, b_fresh, d_fresh, pc, op, bh, sy, owes>>
      /\ IF ok THEN request[t].done ELSE request[t].cmd \in FailingCmds
  BY DEF EndRequest, procVars
<1>2. request \in [Slots -> Requests \cup {NoReq}] /\ request[t] \in Requests
  BY <1>1 DEF AInv, TypeOK
<1>3. PICK c \in Buffers : c = request[t].bh
  BY <1>2 DEF Requests
<1>4. b_uptodate' = [b_uptodate EXCEPT ![c] = ok] /\ b_uptodate \in [Buffers -> BOOLEAN]
  BY <1>3 DEF EndRequest, AInv, TypeOK
<1>5. b_uptodate'[c] = ok /\ \A b \in Buffers \ {c} : b_uptodate'[b] = b_uptodate[b]
  BY <1>4
<1>6. request'[t] = NoReq /\ \A s \in Slots \ {t} : request'[s] = request[s]
  BY <1>1, <1>2
<1>7. request[t].cmd \in {READ, WRITE}
  BY <1>2 DEF Requests
<1>8. ok => b_fresh[c]
  BY <1>1, <1>3, <1>7 DEF CInv, RequestsFit, UptodateIsFresh
<1>9. ~ok => request[t].cmd = READ /\ ~b_uptodate[c]
  BY <1>1, <1>3, <1>7 DEF CInv, RequestsFit, SafeWork
<1>10. \A s \in Slots \ {t} : request[s] # NoReq => request[s].bh \in Buffers \ {c}
  <2>1. \A s \in Slots : request[s] # NoReq => request[s].bh \in Buffers
    BY DEF AInv, TypeOK, Requests
  <2> QED
    BY <1>1, <1>3, <2>1 DEF AInv, Locks, OwnsR
<1>11. \A q \in Procs : pc[q] = "slot_r" => bh[q] \in Buffers \ {c}
  <2>1. \A q \in Procs : pc[q] = "slot_r" => bh[q] \in Buffers
    BY DEF AInv, Places, Holding
  <2> QED
    BY <1>1, <1>3, <2>1 DEF AInv, Locks, OwnsR, OwnsP
<1>12. SafeOps' /\ SyncFlushes' /\ OwedIsDirty'
  BY <1>1 DEF CInv, SafeOps, SyncFlushes, OwedIsDirty
<1>13. \A b \in Buffers : b_uptodate[b] => b_uptodate'[b]
  BY <1>5, <1>9
<1>14. DirtyIsUptodate' /\ UptodateIsFresh'
  BY <1>1, <1>5, <1>8, <1>13 DEF CInv, DirtyIsUptodate, UptodateIsFresh
<1>15. UsedIsUptodate'
  <2>1. \A q \in Procs : pc[q] \in {"use", "copy"} => bh[q] \in Buffers
    BY DEF AInv, Places, Holding
  <2> QED
    BY <1>1, <1>5, <1>11, <1>13, <2>1 DEF CInv, UsedIsUptodate
<1>16. RequestsFit'
  BY <1>1, <1>5, <1>6, <1>10 DEF CInv, RequestsFit
<1>17. NoLostWrite'
  <2>1. ASSUME NEW b \in Buffers, NEW s \in Slots,
               request[s] = [cmd |-> WRITE, bh |-> b, done |-> FALSE]
        PROVE  request'[s] = [cmd |-> WRITE, bh |-> b, done |-> FALSE]
    <3>1. request[s].cmd = WRITE /\ ~request[s].done /\ READ # WRITE
      BY <2>1 DEF READ, WRITE
    <3>2. s # t
      BY <1>1, <1>9, <3>1
    <3> QED
      BY <1>6, <2>1, <3>2
  <2>2. \A b \in Buffers : Bound(b) => Bound(b)'
    BY <1>1, <2>1 DEF Bound
  <2>3. NoLostWrite
    BY DEF CInv
  <2> QED
    BY <1>1, <2>2, <2>3, LostKept
<1> QED
  BY <1>12, <1>14, <1>15, <1>16, <1>17 DEF CInv

-----------------------------------------------------------------------------
LEMMA StepC ==
  ASSUME AInv, CInv, NEW p \in Procs, Step(p)
  PROVE  CInv'
  BY GetblkC, FreeSyncC, FreeClaimC, GotC, AddReadC, IoWaitC, UseC, CopyC, SyncC, SyncWaitC,
     AddWriteC, SyncEndC DEF Step

LEMMA NextC ==
  ASSUME SafeWork
  PROVE  AInv /\ CInv /\ [Next]_vars => CInv'
<1> SUFFICES ASSUME AInv, CInv, [Next]_vars PROVE CInv'
  OBVIOUS
<1>1. ASSUME NEW p \in Procs, NEW o \in AllOps, NEW k \in Blocks, Start(p, o, k) PROVE CInv'
  BY <1>1, StartC
<1>2. ASSUME NEW p \in Procs, StartSync(p) \/ Step(p) PROVE CInv'
  BY <1>2, StartSyncC, StepC
<1>3. ASSUME NEW s \in Slots, Disk(s) PROVE CInv'
  BY <1>3, TransferC, EndRequestC DEF Disk
<1>4. ASSUME UNCHANGED vars PROVE CInv'
  <2>1. UNCHANGED <<b_blk, b_dirt, b_uptodate, b_fresh, request, d_fresh, pc, op, bh, sy, owes>>
    BY <1>4 DEF vars, bufVars, diskVars, procVars
  <2>2. SafeOps' /\ SyncFlushes' /\ OwedIsDirty' /\ UsedIsUptodate' /\ DirtyIsUptodate'
    BY <2>1 DEF CInv, SafeOps, SyncFlushes, OwedIsDirty, UsedIsUptodate, DirtyIsUptodate
  <2>3. UptodateIsFresh' /\ RequestsFit' /\ NoLostWrite'
    BY <2>1 DEF CInv, UptodateIsFresh, RequestsFit, NoLostWrite, find_buffer
  <2> QED
    BY <2>2, <2>3 DEF CInv
<1> QED
  BY <1>1, <1>2, <1>3, <1>4 DEF Next

(* The contents of buffers and disk stay right in every reachable state,   *)
(* if nobody writes by file_write() or block_write(), and no write fails.  *)
THEOREM CInvariance ==
  ASSUME SafeWork
  PROVE  Spec => []CInv
<1>1. AInv /\ CInv /\ [Next]_vars => CInv'
  BY NextC
<1> QED
  BY <1>1, InitC, AInvariance, PTL DEF Spec

(* No change of a block is lost, for any number of processes, buffers and  *)
(* slots: it is on disk, or in a buffer that is dirty or in a write not    *)
(* yet transferred.                                                        *)
THEOREM NoWriteIsLost ==
  ASSUME SafeWork
  PROVE  Spec => []NoLostWrite
<1>1. CInv => NoLostWrite
  BY DEF CInv
<1> QED
  BY <1>1, CInvariance, PTL

(* Whoever uses a buffer that bread() returned sees the latest contents.   *)
THEOREM ReadersAreCurrent ==
  ASSUME SafeWork
  PROVE  Spec => []ReadersSeeLatest
<1>1. AInv /\ CInv => ReadersSeeLatest
  <2> SUFFICES ASSUME AInv, CInv, NEW p \in Procs, pc[p] \in {"use", "copy"} PROVE b_fresh[bh[p]]
    BY DEF ReadersSeeLatest
  <2>1. bh[p] \in Buffers
    BY DEF AInv, Places, Holding
  <2> QED
    BY <2>1 DEF CInv, UsedIsUptodate, UptodateIsFresh
<1> QED
  BY <1>1, AInvariance, CInvariance, PTL

(* sys_sync() has handed to the driver what was dirty when it began and    *)
(* its loop has passed.                                                    *)
THEOREM SyncIsComplete ==
  ASSUME SafeWork
  PROVE  Spec => []SyncFlushes
<1>1. CInv => SyncFlushes
  BY DEF CInv
<1> QED
  BY <1>1, CInvariance, PTL
=============================================================================
