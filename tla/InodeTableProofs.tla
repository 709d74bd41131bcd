-------------------------- MODULE InodeTableProofs --------------------------
(***************************************************************************)
(* Proofs about the inode table, for any number of slots, inodes and       *)
(* processes.                                                              *)
(*                                                                         *)
(* No property is inductive by itself, and they need one another.  That    *)
(* iget() brings no inode in twice rests on its scan being one stretch     *)
(* without a sleep (PlaceOK: the empty slot in reserve, the number         *)
(* wanted); that the counts are the references on who is at which place    *)
(* with which slot; that iput() frees a slot nobody uses on the counts;    *)
(* that nothing is lost on which slot is locked for which transfer         *)
(* (LockOK) and on what a slot in memory may differ from the disk in       *)
(* (SlotOK, DiskOK); that the bitmap is exact on every inode without a     *)
(* name being in use by somebody who will free it (UsersOK).  IInv says    *)
(* all of this at once.                                                    *)
(*                                                                         *)
(* It holds without the races of MCInodeTable_unlink.cfg and               *)
(* MCInodeTable_sync.cfg, and when no umount comes while another one has   *)
(* not cleared s_imount yet (NoRaces).  MountInv says who reads the super  *)
(* block and who umounts: it makes the reference of the mount change hands *)
(* exactly once.                                                           *)
(*                                                                         *)
(* An action is one stretch of one process, which changes one slot, or     *)
(* none.  The frame lemmas say what such a step leaves alone: Quiet (no    *)
(* slot), Touch and TouchOne (the slot the process is at), TouchReserve    *)
(* (the slot it has in reserve).                                           *)
(***************************************************************************)
EXTENDS InodeTable, FiniteSetTheorems, TLAPS

-----------------------------------------------------------------------------
(* Sets of numbers.                                                        *)

(* The least element of a set of natural numbers.                          *)
LEMMA HasLeast ==
  ASSUME NEW S \in SUBSET Nat, S # {}
  PROVE  \E x \in S : \A y \in S : x <= y
<1>1. PICK x \in S : \A y \in S : ~(<<y, x>> \in OpToRel(<, Nat))
  BY NatLessThanWellFounded, WFMin, Zenon
<1>2. \A y \in S : y \in Nat /\ x \in Nat /\ ~(y < x)
  BY <1>1, Zenon DEF OpToRel
<1> QED
  BY <1>2

(* A set has at most one element when any two of its elements are equal.   *)
LEMMA AtMostOne ==
  ASSUME NEW S, IsFiniteSet(S)
  PROVE  Cardinality(S) <= 1 <=> \A x, y \in S : x = y
<1>1. Cardinality(S) <= 1 <=> Cardinality(S) = 0 \/ Cardinality(S) = 1
  BY FS_CardinalityType
<1>2. (\A x, y \in S : x = y) <=> S = {} \/ \E m : S = {m}
  OBVIOUS
<1> QED
  BY <1>1, <1>2, FS_EmptySet, FS_Singleton

-----------------------------------------------------------------------------
(* The behaviours considered: no name is removed while it is looked up, no *)
(* sync meets an inode that is being truncated, no umount another umount.  *)
NoRaces == UnlinkRace = FALSE /\ SyncRace = FALSE /\ UmountRace = FALSE

(* References: by a process that uses slot s, that has it in reserve, by   *)
(* the mount.                                                              *)
UsingPcs == {"hold", "fresh", "rread", "put", "trunc", "super", "sread"}
Writing(p, r) == pr[p].pc \in {"wlock", "wread"} /\ pr[p].ret = r
Using(p) == pr[p].pc \in UsingPcs \/ Writing(p, "put")
Uses(p, s) == pr[p].slot = s /\ Using(p)
Putting(p) == pr[p].pc \in {"put", "trunc"} \/ Writing(p, "put")
Umounting == \E p \in Procs : pr[p].after = "umount"
Mounted(s) == sb.imount = s /\ ~Umounting

PCs == UsingPcs \cup {"out", "sync", "empty", "ewait", "wlock", "wread", "scan", "iwait",
                      "new", "umount"}
InodeRecords == [num : All \cup {0}, count : Nat, dirt : BOOLEAN, lock : BOOLEAN,
                 nlinks : {0, 1}, cur : BOOLEAN, mount : BOOLEAN]
ProcRecords == [pc : PCs, slot : Slots \cup {0}, empty : Slots \cup {0}, want : All \cup {0},
                ret : {"", "put", "sync"}, after : {"", "out", "scan", "umount"}]

TypeOK ==
  /\ table \in [Slots -> InodeRecords]
  /\ disk \in [All -> [nlinks : {0, 1}, cur : BOOLEAN]]
  /\ imap \subseteq Inodes
  /\ names \subseteq imap /\ Dirs \subseteq names
  /\ sb \in [state : {"none", "read", "up"}, imount : Slots \cup {0}]
  /\ pr \in [Procs -> ProcRecords]
  /\ cpu \in Procs \cup {None}

(* The local variables at each place of the program.                       *)
PlaceOK(p) ==
  /\ pr[p].pc = "out" => pr[p] = Out
  /\ pr[p].pc \in UsingPcs \cup {"ewait", "wlock", "wread", "iwait", "sync"}
       => pr[p].slot \in Slots
  /\ pr[p].pc \in {"scan", "iwait", "new"} \/ (Putting(p) /\ pr[p].after = "scan")
       <=> pr[p].empty # 0
  /\ pr[p].pc \in {"scan", "iwait", "rread"} => pr[p].want # 0
  /\ pr[p].pc \in {"new", "hold", "fresh", "super", "sread", "sync", "umount"} \/ Writing(p, "sync")
       \/ (Putting(p) /\ pr[p].after # "scan") => pr[p].want = 0
  /\ Putting(p) /\ pr[p].after = "scan" => pr[p].want = ROOT_INO
  /\ Putting(p) => pr[p].after # ""
  /\ pr[p].pc \in {"wlock", "wread"} => pr[p].ret # ""
  /\ pr[p].after = "umount" => Putting(p) \/ pr[p].pc = "umount"
  /\ pr[p].pc = "umount" => pr[p].after = "umount"
  /\ pr[p].pc \in {"ewait", "wlock"} => cpu = p

(* A wanted number has a name.                                             *)
WantOK(p) == pr[p].want \in names \cup {0, ROOT_INO}

(* What a process relies on in the slot it is at.                          *)
LockOK(p) ==
  LET i == table[pr[p].slot]
  IN  /\ pr[p].pc \in {"wread", "rread"} =>
           /\ i.lock
           /\ \A q \in Procs : pr[q].pc \in {"wread", "rread"} /\ pr[q].slot = pr[p].slot => q = p
      /\ pr[p].pc = "wlock" => ~i.lock
      /\ pr[p].pc \in {"wread", "wlock"} => i.dirt
ReserveOK(p) ==
  pr[p].empty # 0 => table[pr[p].empty] = [NoInode EXCEPT !.count = 1]
StageOK(p) ==
  LET i == table[pr[p].slot]
  IN  /\ pr[p].pc = "ewait" => i.count = 0
      /\ pr[p].pc = "rread" => i.num = pr[p].want /\ i.count = 1 /\ ~i.dirt
      /\ pr[p].pc = "fresh" => i.num \in Inodes \ names /\ i.nlinks = 1 /\ i.count = 1
      /\ pr[p].pc \in {"super", "sread"} => i.num \in Dirs
      /\ pr[p].pc = "trunc" => /\ i.num \in Inodes \ names /\ i.count = 1
                               /\ \A q \in Procs : pr[q].pc \in {"wlock", "wread"}
                                                     => pr[q].slot # pr[p].slot
      /\ Using(p) => i.num # 0

(* What is true of a slot.                                                 *)
Named(n) == n \in names \cup {ROOT_INO}
BeingRead(s) == \E p \in Procs : pr[p].pc = "rread" /\ pr[p].slot = s
IsFresh(s) == \E p \in Procs : pr[p].pc = "fresh" /\ pr[p].slot = s
SlotOK(s) ==
  LET i == table[s]
  IN  /\ i.num \in imap \cup {0, ROOT_INO}
      /\ i.count = 0 => ~i.dirt /\ ~i.lock
      /\ i.dirt => i.num # 0
      /\ Mounted(s) => i.num \in Dirs
      /\ i.num # 0 /\ ~BeingRead(s) =>
           i.cur /\ (i.nlinks = 1 <=> Named(i.num) \/ IsFresh(s))

(* What is true of the disk.                                               *)
DirtySlot(n) == \E s \in Slots : table[s].num = n /\ table[s].dirt
DiskOK ==
  /\ \A n \in All : disk[n].cur \/ DirtySlot(n)
  /\ \A n \in names \cup {ROOT_INO} : disk[n].nlinks = 1 \/ DirtySlot(n)
  /\ \A p \in Procs : pr[p].pc = "fresh" =>
       disk[table[pr[p].slot].num].nlinks = 1 \/ table[pr[p].slot].dirt

(* A number without a name has a user.                                     *)
UserOf(p, n) ==
  (pr[p].pc \in {"hold", "fresh"} \/ Putting(p)) /\ table[pr[p].slot].num = n
UsersOK == \A n \in imap \ names : \E p \in Procs : UserOf(p, n)

ProcOK(p) == PlaceOK(p) /\ WantOK(p) /\ LockOK(p) /\ ReserveOK(p) /\ StageOK(p)

IInv ==
  /\ TypeOK /\ UniqueInode /\ CountIsRefs
  /\ \A p \in Procs : ProcOK(p)
  /\ \A s \in Slots : SlotOK(s)
  /\ DiskOK /\ UsersOK

(* Mounting and umounting: one process reads the super block, one umounts, *)
(* and s_imount is set exactly when the super block is up with a mount.    *)
MountInv ==
  /\ \A p, q \in Procs : pr[p].after = "umount" /\ pr[q].after = "umount" => p = q
  /\ \A p, q \in Procs : pr[p].pc = "sread" /\ pr[q].pc = "sread" => p = q
  /\ Umounting => sb.imount # 0
  /\ sb.imount # 0 => sb.state = "up"
  /\ \A p \in Procs : pr[p].pc = "sread" => sb.state = "read"

-----------------------------------------------------------------------------
(* Counting references.                                                    *)
Es(s) == {p \in Procs : pr[p].empty = s}
Us(s) == {p \in Procs : Uses(p, s)}
MountRef(s) == IF Mounted(s) THEN 1 ELSE 0

LEMMA RefsAre ==
  ASSUME NEW s
  PROVE  Refs(s) = Cardinality(Es(s)) + Cardinality(Us(s)) + MountRef(s)
<1>1. {p \in Procs : pr[p].slot = s /\
       (pr[p].pc \in {"hold", "fresh", "rread", "put", "trunc", "super", "sread"}
        \/ (pr[p].pc \in {"wlock", "wread"} /\ pr[p].ret = "put"))} = Us(s)
  BY Zenon DEF Us, Uses, Using, Writing, UsingPcs
<1>2. {p \in Procs : pr[p].empty = s} = Es(s)
  BY DEF Es
<1>3. (IF sb.imount = s /\ \A p \in Procs : pr[p].after # "umount" THEN 1 ELSE 0) = MountRef(s)
  BY DEF MountRef, Mounted, Umounting
<1> QED
  BY <1>1, <1>2, <1>3 DEF Refs

LEMMA RefsAreNext ==
  ASSUME NEW s
  PROVE  Refs(s)' = Cardinality(Es(s)') + Cardinality(Us(s)') + MountRef(s)'
<1>1. {p \in Procs : pr'[p].slot = s /\
       (pr'[p].pc \in {"hold", "fresh", "rread", "put", "trunc", "super", "sread"}
        \/ (pr'[p].pc \in {"wlock", "wread"} /\ pr'[p].ret = "put"))} = Us(s)'
  BY Zenon DEF Us, Uses, Using, Writing, UsingPcs
<1>2. {p \in Procs : pr'[p].empty = s} = Es(s)'
  BY DEF Es
<1>3. (IF sb'.imount = s /\ \A p \in Procs : pr'[p].after # "umount" THEN 1 ELSE 0) = MountRef(s)'
  BY DEF MountRef, Mounted, Umounting
<1> QED
  BY <1>1, <1>2, <1>3 DEF Refs

LEMMA RefsFinite ==
  ASSUME NEW s
  PROVE  /\ IsFiniteSet(Es(s)) /\ Cardinality(Es(s)) \in Nat
         /\ IsFiniteSet(Us(s)) /\ Cardinality(Us(s)) \in Nat
         /\ MountRef(s) \in {0, 1}
<1>1. Es(s) \subseteq Procs /\ Us(s) \subseteq Procs
  BY DEF Es, Us
<1>2. IsFiniteSet(Es(s)) /\ IsFiniteSet(Us(s))
  BY <1>1, FS_Subset, ProcsAssumption
<1> QED
  BY <1>2, FS_CardinalityType DEF MountRef

(* The same sets of processes are the same number of references.           *)
LEMMA RefsSame ==
  ASSUME NEW s, Es(s)' = Es(s), Us(s)' = Us(s), Mounted(s)' <=> Mounted(s)
  PROVE  Refs(s)' = Refs(s)
<1>1. MountRef(s)' = MountRef(s)
  BY DEF MountRef
<1> QED
  BY <1>1, RefsAre, RefsAreNext

(* What p does to the references to s: e, u and m are the differences.     *)
Change1(S, T, p, d) == \/ d = 0 /\ T = S
                       \/ d = 1 /\ p \notin S /\ T = S \cup {p}
                       \/ d = -1 /\ p \in S /\ T = S \ {p}

LEMMA CardChange ==
  ASSUME NEW S, NEW T, NEW p, NEW d, IsFiniteSet(S), Change1(S, T, p, d)
  PROVE  Cardinality(T) = Cardinality(S) + d /\ d \in {-1, 0, 1}
<1>1. Cardinality(S) \in Nat
  BY FS_CardinalityType
<1>2. CASE d = 0 /\ T = S
  BY <1>1, <1>2
<1>3. CASE d = 1 /\ p \notin S /\ T = S \cup {p}
  BY <1>3, FS_AddElement
<1>4. CASE d = -1 /\ p \in S /\ T = S \ {p}
  BY <1>1, <1>4, FS_RemoveElement
<1> QED
  BY <1>2, <1>3, <1>4 DEF Change1

LEMMA RefsChange ==
  ASSUME NEW s, NEW p, NEW e, NEW u, NEW m, Change1(Es(s), Es(s)', p, e),
         Change1(Us(s), Us(s)', p, u), MountRef(s)' = MountRef(s) + m, m \in {-1, 0, 1}
  PROVE  Refs(s)' = Refs(s) + e + u + m
<1>1. Cardinality(Es(s)') = Cardinality(Es(s)) + e /\ e \in {-1, 0, 1}
  BY CardChange, RefsFinite
<1>2. Cardinality(Us(s)') = Cardinality(Us(s)) + u /\ u \in {-1, 0, 1}
  BY CardChange, RefsFinite
<1> QED
  BY <1>1, <1>2, RefsAre, RefsAreNext, RefsFinite

(* What i_count says.                                                      *)
LEMMA OnlyUser ==
  ASSUME CountIsRefs, NEW s \in Slots, table[s].count <= 1, NEW p \in Procs, Uses(p, s)
  PROVE  /\ table[s].count = 1 /\ ~Mounted(s)
         /\ \A q \in Procs : pr[q].empty # s /\ (Uses(q, s) => q = p)
<1>1. p \in Us(s)
  BY DEF Us
<1>2. Cardinality(Us(s)) >= 1
  BY <1>1, RefsFinite, FS_EmptySet
<1>3. table[s].count = Cardinality(Es(s)) + Cardinality(Us(s)) + MountRef(s)
  BY RefsAre DEF CountIsRefs
<1>4. Cardinality(Es(s)) = 0 /\ Cardinality(Us(s)) = 1 /\ MountRef(s) = 0
  BY <1>2, <1>3, RefsFinite
<1>5. Es(s) = {}
  BY <1>4, RefsFinite, FS_EmptySet
<1>6. \A q \in Us(s) : q = p
  BY <1>1, <1>4, RefsFinite, AtMostOne
<1>7. ~Mounted(s)
  BY <1>4 DEF MountRef
<1> QED
  BY <1>3, <1>4, <1>5, <1>6, <1>7 DEF Es, Us

LEMMA OnlyReserve ==
  ASSUME CountIsRefs, NEW s \in Slots, table[s].count <= 1, NEW p \in Procs, pr[p].empty = s
  PROVE  /\ table[s].count = 1 /\ ~Mounted(s)
         /\ \A q \in Procs : ~Uses(q, s) /\ (pr[q].empty = s => q = p)
<1>1. p \in Es(s)
  BY DEF Es
<1>2. Cardinality(Es(s)) >= 1
  BY <1>1, RefsFinite, FS_EmptySet
<1>3. table[s].count = Cardinality(Es(s)) + Cardinality(Us(s)) + MountRef(s)
  BY RefsAre DEF CountIsRefs
<1>4. Cardinality(Us(s)) = 0 /\ Cardinality(Es(s)) = 1 /\ MountRef(s) = 0
  BY <1>2, <1>3, RefsFinite
<1>5. Us(s) = {}
  BY <1>4, RefsFinite, FS_EmptySet
<1>6. \A q \in Es(s) : q = p
  BY <1>1, <1>4, RefsFinite, AtMostOne
<1>7. ~Mounted(s)
  BY <1>4 DEF MountRef
<1> QED
  BY <1>3, <1>4, <1>5, <1>6, <1>7 DEF Es, Us

LEMMA NoRefs ==
  ASSUME CountIsRefs, NEW s \in Slots, table[s].count = 0
  PROVE  ~Mounted(s) /\ \A q \in Procs : ~Uses(q, s) /\ pr[q].empty # s
<1>1. 0 = Cardinality(Es(s)) + Cardinality(Us(s)) + MountRef(s)
  BY RefsAre DEF CountIsRefs
<1>2. Cardinality(Es(s)) = 0 /\ Cardinality(Us(s)) = 0 /\ MountRef(s) = 0
  BY <1>1, RefsFinite
<1>3. Es(s) = {} /\ Us(s) = {}
  BY <1>2, RefsFinite, FS_EmptySet
<1>4. ~Mounted(s)
  BY <1>2 DEF MountRef
<1> QED
  BY <1>3, <1>4 DEF Es, Us

LEMMA OtherRefs ==
  ASSUME CountIsRefs, NEW s \in Slots, table[s].count > 1, NEW p \in Procs, Uses(p, s)
  PROVE  Mounted(s) \/ \E q \in Procs : pr[q].empty = s \/ (Uses(q, s) /\ q # p)
<1> SUFFICES ASSUME ~Mounted(s), \A q \in Procs : pr[q].empty # s /\ (Uses(q, s) => q = p)
    PROVE FALSE
  OBVIOUS
<1>1. table[s].count = Cardinality(Es(s)) + Cardinality(Us(s)) + MountRef(s)
  BY RefsAre DEF CountIsRefs
<1>2. Es(s) = {} /\ Us(s) = {p} /\ MountRef(s) = 0
  BY DEF Es, Us, MountRef
<1>3. Cardinality({p}) = 1
  BY FS_Singleton
<1> QED
  BY <1>1, <1>2, <1>3, FS_EmptySet

(* i_count has to follow the references of the process that moves, and of  *)
(* the mount.                                                              *)
B2N(b) == IF b THEN 1 ELSE 0

LEMMA CountStep ==
  ASSUME CountIsRefs, NEW p \in Procs, \A q \in Procs \ {p} : pr'[q] = pr[q],
         \A t \in Slots :
           table'[t].count = table[t].count
             + (B2N(pr'[p].empty = t) - B2N(pr[p].empty = t))
             + (B2N(Uses(p, t)') - B2N(Uses(p, t)))
             + (MountRef(t)' - MountRef(t))
  PROVE  CountIsRefs'
<1> SUFFICES ASSUME NEW t \in Slots PROVE table'[t].count = Refs(t)'
  BY DEF CountIsRefs
<1>1. Change1(Es(t), Es(t)', p, B2N(pr'[p].empty = t) - B2N(pr[p].empty = t))
  <2>1. \A q \in Procs \ {p} : q \in Es(t)' <=> q \in Es(t)
    BY DEF Es
  <2>2. (p \in Es(t) <=> pr[p].empty = t) /\ (p \in Es(t)' <=> pr'[p].empty = t)
    BY DEF Es
  <2>3. Es(t) \subseteq Procs /\ Es(t)' \subseteq Procs
    BY DEF Es
  <2> QED
    BY <2>1, <2>2, <2>3 DEF Change1, B2N
<1>2. Change1(Us(t), Us(t)', p, B2N(Uses(p, t)') - B2N(Uses(p, t)))
  <2>1. \A q \in Procs \ {p} : q \in Us(t)' <=> q \in Us(t)
    BY DEF Us, Uses, Using, Writing
  <2>2. (p \in Us(t) <=> Uses(p, t)) /\ (p \in Us(t)' <=> Uses(p, t)')
    BY DEF Us
  <2>3. Us(t) \subseteq Procs /\ Us(t)' \subseteq Procs
    BY DEF Us
  <2> QED
    BY <2>1, <2>2, <2>3 DEF Change1, B2N
<1>3. PICK m : m = MountRef(t)' - MountRef(t)
  OBVIOUS
<1>4. m \in {-1, 0, 1} /\ MountRef(t)' = MountRef(t) + m
  <2>1. MountRef(t) \in {0, 1} /\ MountRef(t)' \in {0, 1}
    BY DEF MountRef
  <2> QED
    BY <1>3, <2>1
<1>5. PICK e, u : /\ e = B2N(pr'[p].empty = t) - B2N(pr[p].empty = t)
                  /\ u = B2N(Uses(p, t)') - B2N(Uses(p, t))
  OBVIOUS
<1>6. Refs(t)' = Refs(t) + e + u + m
  BY <1>1, <1>2, <1>4, <1>5, RefsChange
<1>7. Refs(t) \in Nat /\ e \in {-1, 0, 1} /\ u \in {-1, 0, 1} /\ table[t].count = Refs(t)
  BY <1>5, RefsAre, RefsFinite DEF B2N, CountIsRefs
<1> QED
  BY <1>3, <1>4, <1>5, <1>6, <1>7

-----------------------------------------------------------------------------
(* The company of a process in a slot.                                     *)
LEMMA Neighbours ==
  ASSUME IInv, NEW p \in Procs, NEW s \in Slots, Uses(p, s)
  PROVE  /\ \A q \in Procs : pr[q].empty # s
         /\ \A q \in Procs \ {p} : pr[q].pc \in {"rread", "fresh", "trunc"} => pr[q].slot # s
         /\ table[s].num # 0 /\ table[s].count >= 1
<1>1. table[s].num # 0
  BY DEF IInv, ProcOK, StageOK, Uses
<1>2. \A q \in Procs : pr[q].empty # s
  <2> SUFFICES ASSUME NEW q \in Procs, pr[q].empty = s PROVE FALSE
    OBVIOUS
  <2>1. s # 0
    BY SlotsAssumption DEF Slots
  <2>2. table[s] = [NoInode EXCEPT !.count = 1]
    BY <2>1 DEF IInv, ProcOK, ReserveOK
  <2> QED
    BY <1>1, <2>2 DEF NoInode
<1>3. ASSUME NEW q \in Procs \ {p}, pr[q].pc \in {"rread", "fresh", "trunc"}, pr[q].slot = s
      PROVE  FALSE
  <2>1. Uses(q, s)
    BY <1>3 DEF Uses, Using, UsingPcs
  <2>2. table[s].count = 1 /\ CountIsRefs
    BY <1>3 DEF IInv, ProcOK, StageOK
  <2>3. table[s].count <= 1
    BY <2>2
  <2> QED
    BY <2>1, <2>2, <2>3, OnlyUser
<1>4. table[s].count \in Nat /\ CountIsRefs
  BY DEF IInv, TypeOK, InodeRecords
<1>5. table[s].count # 0
  BY <1>4, NoRefs
<1> QED
  BY <1>1, <1>2, <1>3, <1>4, <1>5

LEMMA InReserve ==
  ASSUME IInv, NEW p \in Procs, pr[p].empty # 0
  PROVE  LET e == pr[p].empty IN
         /\ e \in Slots /\ table[e] = [NoInode EXCEPT !.count = 1] /\ ~Mounted(e)
         /\ \A q \in Procs : ~Uses(q, e) /\ (pr[q].empty = e => q = p)
         /\ \A q \in Procs : pr[q].pc \in {"wread", "rread"} => pr[q].slot # e
<1>1. PICK e \in Slots : e = pr[p].empty
  BY DEF IInv, TypeOK, ProcRecords
<1>2. table[e] = [NoInode EXCEPT !.count = 1]
  BY <1>1 DEF IInv, ProcOK, ReserveOK
<1>3. table[e].count = 1 /\ table[e].lock = FALSE
  BY <1>2 DEF NoInode
<1>4. table[e].count <= 1 /\ CountIsRefs
  BY <1>3 DEF IInv
<1>5. /\ ~Mounted(e)
      /\ \A q \in Procs : ~Uses(q, e) /\ (pr[q].empty = e => q = p)
  BY <1>1, <1>4, OnlyReserve
<1>6. \A q \in Procs : pr[q].pc \in {"wread", "rread"} => pr[q].slot # e
  BY <1>3 DEF IInv, ProcOK, LockOK
<1> QED
  BY <1>1, <1>2, <1>5, <1>6

-----------------------------------------------------------------------------
(* Frames.  A step of p, which runs, that changes only the slots T: what   *)
(* is left to show of the other processes.                                 *)
LEMMA Others ==
  ASSUME IInv, NEW p \in Procs, NEW T, cpu \in {None, p},
         \A q \in Procs \ {p} : pr'[q] = pr[q],
         \A t \in Slots \ T : table'[t] = table[t],
         \A q \in Procs \ {p} :
           /\ pr[q].empty \notin T
           /\ pr[q].pc \in {"rread", "trunc"} => pr[q].slot \notin T
           /\ pr[q].pc \in {"fresh", "trunc"} => table[pr[q].slot].num \notin names'
           /\ pr[q].pc = "fresh" /\ pr[q].slot \in T =>
                table'[pr[q].slot].nlinks = table[pr[q].slot].nlinks
                /\ table'[pr[q].slot].count = table[pr[q].slot].count
           /\ pr[q].slot \in T /\ Using(q) => table'[pr[q].slot].num = table[pr[q].slot].num
           /\ pr[q].slot \in T /\ pr[q].pc = "wread" => table'[pr[q].slot].lock /\ table'[pr[q].slot].dirt
           /\ pr[q].want \in names' \cup {0, ROOT_INO}
           /\ pr'[p].pc \in {"wread", "rread"} /\ pr[q].pc \in {"wread", "rread"}
                => pr'[p].slot # pr[q].slot
           /\ pr'[p].pc \in {"wlock", "wread"} /\ pr[q].pc = "trunc" => pr'[p].slot # pr[q].slot
  PROVE  \A q \in Procs \ {p} : ProcOK(q)'
<1> SUFFICES ASSUME NEW q \in Procs \ {p} PROVE ProcOK(q)'
  OBVIOUS
<1>0. ProcOK(q)
  BY DEF IInv
<1>1. pr'[q] = pr[q] /\ pr[q].pc \notin {"ewait", "wlock"}
  BY <1>0, ProcsAssumption DEF ProcOK, PlaceOK
<1>2. PlaceOK(q)'
  BY <1>0, <1>1 DEF ProcOK, PlaceOK, Putting, Writing
<1>3. WantOK(q)'
  BY <1>1 DEF WantOK
<1>4. pr[q].empty \in Slots \cup {0} /\ pr[q].slot \in Slots \cup {0}
  BY DEF IInv, TypeOK, ProcRecords
<1>5. ReserveOK(q)'
  BY <1>0, <1>1, <1>4 DEF ProcOK, ReserveOK
<1>6. LockOK(q)'
  <2>1. ASSUME pr[q].pc \in {"wread", "rread"}
        PROVE  /\ table'[pr[q].slot].lock
               /\ pr[q].pc = "wread" => table'[pr[q].slot].dirt
    <3>1. pr[q].slot \in Slots /\ table[pr[q].slot].lock /\ (pr[q].pc = "wread" => table[pr[q].slot].dirt)
      BY <1>0, <2>1 DEF ProcOK, PlaceOK, LockOK, UsingPcs
    <3> QED
      BY <2>1, <3>1
  <2>2. ASSUME pr[q].pc \in {"wread", "rread"}, NEW x \in Procs, pr'[x].pc \in {"wread", "rread"},
               pr'[x].slot = pr[q].slot
        PROVE  x = q
    BY <1>0, <2>2 DEF ProcOK, LockOK
  <2> QED
    BY <1>1, <2>1, <2>2 DEF LockOK
<1>7. StageOK(q)'
  <2>1. ASSUME pr[q].pc \in {"rread", "trunc"} PROVE pr[q].slot \in Slots \ T
    BY <1>0, <2>1 DEF ProcOK, PlaceOK, UsingPcs
  <2>2. pr[q].pc = "rread" => table'[pr[q].slot] = table[pr[q].slot]
    BY <2>1
  <2>4. pr[q].pc = "trunc" => /\ table'[pr[q].slot].num \in Inodes \ names'
                              /\ table'[pr[q].slot].count = 1
    BY <1>0, <2>1 DEF ProcOK, StageOK
  <2>5. pr[q].pc = "trunc" => \A x \in Procs : pr'[x].pc \in {"wlock", "wread"} => pr'[x].slot # pr[q].slot
    BY <1>0 DEF ProcOK, StageOK
  <2>6. Using(q) => table'[pr[q].slot].num = table[pr[q].slot].num
    <3> SUFFICES ASSUME Using(q) PROVE table'[pr[q].slot].num = table[pr[q].slot].num
      OBVIOUS
    <3>1. pr[q].slot \in Slots
      BY <1>0 DEF ProcOK, PlaceOK, Using, Writing
    <3> QED
      BY <3>1
  <2>7. Using(q)' <=> Using(q)
    BY <1>1 DEF Using, Writing
  <2>3. pr[q].pc = "fresh" => /\ table'[pr[q].slot].num \in Inodes \ names'
                              /\ table'[pr[q].slot].nlinks = 1 /\ table'[pr[q].slot].count = 1
    <3> SUFFICES ASSUME pr[q].pc = "fresh"
                 PROVE  /\ table'[pr[q].slot].num \in Inodes \ names'
                        /\ table'[pr[q].slot].nlinks = 1 /\ table'[pr[q].slot].count = 1
      OBVIOUS
    <3>1. pr[q].slot \in Slots /\ Using(q)
      BY <1>0 DEF ProcOK, PlaceOK, Using, UsingPcs
    <3>2. /\ table[pr[q].slot].num \in Inodes \ names
          /\ table[pr[q].slot].nlinks = 1 /\ table[pr[q].slot].count = 1
      BY <1>0 DEF ProcOK, StageOK
    <3>3. table'[pr[q].slot].num = table[pr[q].slot].num
      BY <2>6, <3>1
    <3> QED
      BY <3>1, <3>2, <3>3
  <2>8. pr[q].pc \in {"super", "sread"} => table'[pr[q].slot].num \in Dirs
    BY <1>0, <2>6 DEF ProcOK, StageOK, Using, UsingPcs
  <2>9. Using(q)' => table'[pr[q].slot].num # 0
    BY <1>0, <2>6, <2>7 DEF ProcOK, StageOK
  <2>10. pr[q].pc = "rread" => table'[pr[q].slot].num = pr[q].want /\ table'[pr[q].slot].count = 1
                                 /\ ~table'[pr[q].slot].dirt
    BY <1>0, <2>2 DEF ProcOK, StageOK
  <2> QED
    BY <1>1, <2>3, <2>4, <2>5, <2>8, <2>9, <2>10 DEF StageOK
<1> QED
  BY <1>2, <1>3, <1>5, <1>6, <1>7 DEF ProcOK

(* A slot that the step does not touch.                                    *)
LEMMA SlotKept ==
  ASSUME NEW s \in Slots, SlotOK(s), table'[s] = table[s],
         table[s].num \in imap' \cup {0, ROOT_INO},
         table[s].num \in names' <=> table[s].num \in names,
         Mounted(s)' => Mounted(s), BeingRead(s)' <=> BeingRead(s), IsFresh(s)' <=> IsFresh(s)
  PROVE  SlotOK(s)'
  BY DEF SlotOK, Named

(* Who reads and what is fresh, when p does not.                           *)
LEMMA ReadersSame ==
  ASSUME NEW p \in Procs, \A q \in Procs \ {p} : pr'[q] = pr[q], NEW s,
         pr[p].pc \notin {"rread", "fresh"} \/ pr[p].slot # s,
         pr'[p].pc \notin {"rread", "fresh"} \/ pr'[p].slot # s
  PROVE  (BeingRead(s)' <=> BeingRead(s)) /\ (IsFresh(s)' <=> IsFresh(s))
<1>1. \A q \in Procs : (pr'[q].pc = "rread" /\ pr'[q].slot = s) <=> (pr[q].pc = "rread" /\ pr[q].slot = s)
  OBVIOUS
<1>2. \A q \in Procs : (pr'[q].pc = "fresh" /\ pr'[q].slot = s) <=> (pr[q].pc = "fresh" /\ pr[q].slot = s)
  OBVIOUS
<1> QED
  BY <1>1, <1>2 DEF BeingRead, IsFresh

LEMMA InitOK == Init => IInv
<1> SUFFICES ASSUME Init PROVE IInv
  OBVIOUS
<1>1. TypeOK
  <2>1. NoInode \in InodeRecords /\ Out \in ProcRecords
    BY DEF NoInode, InodeRecords, Out, ProcRecords, PCs
  <2> QED
    BY <2>1, InodesAssumption DEF Init, TypeOK
<1>2. UniqueInode
  BY DEF Init, UniqueInode, NoInode
<1>3. CountIsRefs
  <2> SUFFICES ASSUME NEW s \in Slots PROVE table[s].count = Refs(s)
    BY DEF CountIsRefs
  <2>1. s # 0
    BY SlotsAssumption DEF Slots
  <2>2. Es(s) = {} /\ Us(s) = {} /\ MountRef(s) = 0
    BY <2>1 DEF Init, Es, Us, MountRef, Uses, Mounted, Out
  <2>3. Refs(s) = Cardinality({}) + Cardinality({}) + 0
    BY <2>2, RefsAre
  <2>4. Refs(s) = 0
    BY <2>3, FS_EmptySet
  <2> QED
    BY <2>4 DEF Init, NoInode
<1>4. ASSUME NEW p \in Procs PROVE ProcOK(p)
  <2>1. pr[p] = Out
    BY DEF Init
  <2>2. /\ pr[p].pc = "out" /\ pr[p].empty = 0 /\ pr[p].want = 0 /\ pr[p].after = ""
        /\ "out" \notin UsingPcs
    <3>1. "out" \notin UsingPcs
      BY DEF UsingPcs
    <3>2. /\ Out.pc = "out" /\ Out.empty = 0 /\ Out.want = 0 /\ Out.after = ""
      BY DEF Out
    <3> QED
      BY <2>1, <3>1, <3>2
  <2>3. ~Using(p) /\ ~Putting(p) /\ ~Writing(p, "sync")
    BY <2>2 DEF Putting, Writing, Using
  <2>4. PlaceOK(p)
    BY <2>1, <2>2, <2>3 DEF PlaceOK
  <2>5. WantOK(p) /\ LockOK(p) /\ ReserveOK(p) /\ StageOK(p)
    BY <2>2, <2>3 DEF WantOK, LockOK, ReserveOK, StageOK
  <2> QED
    BY <2>4, <2>5 DEF ProcOK
<1>5. ASSUME NEW s \in Slots PROVE SlotOK(s)
  <2>1. s # 0
    BY SlotsAssumption DEF Slots
  <2> QED
    BY <2>1 DEF Init, SlotOK, NoInode, Mounted
<1>6. DiskOK
  BY InodesAssumption DEF Init, DiskOK, Out, All
<1>7. UsersOK
  BY DEF Init, UsersOK
<1> QED
  BY <1>1, <1>2, <1>3, <1>4, <1>5, <1>6, <1>7 DEF IInv

(* The disk, when nothing is written and nothing dirty disappears.         *)
LEMMA DiskKept ==
  ASSUME DiskOK, UNCHANGED <<disk, names>>,
         \A s \in Slots : table[s].dirt => table'[s].dirt /\ table'[s].num = table[s].num,
         \A q \in Procs : pr'[q].pc = "fresh" =>
           /\ pr[q].pc = "fresh" /\ pr'[q].slot = pr[q].slot /\ pr[q].slot \in Slots
           /\ table'[pr[q].slot].num = table[pr[q].slot].num
  PROVE  DiskOK'
<1>1. \A n : DirtySlot(n) => DirtySlot(n)'
  BY DEF DirtySlot
<1>2. \A q \in Procs : pr'[q].pc = "fresh" =>
        disk'[table'[pr'[q].slot].num].nlinks = 1 \/ table'[pr'[q].slot].dirt
  BY DEF DiskOK
<1>3. \A n \in All : disk'[n].cur \/ DirtySlot(n)'
  BY <1>1 DEF DiskOK
<1>4. \A n \in names' \cup {ROOT_INO} : disk'[n].nlinks = 1 \/ DirtySlot(n)'
  BY <1>1 DEF DiskOK
<1> QED
  BY <1>2, <1>3, <1>4 DEF DiskOK

(* The users of numbers without a name.                                    *)
UserPc(p) == pr[p].pc \in {"hold", "fresh"} \/ Putting(p)

LEMMA UserPcUses ==
  ASSUME NEW p \in Procs, UserPc(p)
  PROVE  Using(p)
  BY DEF UserPc, Using, UsingPcs, Putting

LEMMA UsersKept ==
  ASSUME UsersOK, NEW p \in Procs, \A q \in Procs \ {p} : pr'[q] = pr[q],
         imap' \ names' \subseteq imap \ names,
         \A q \in Procs \ {p} : Using(q) => table'[pr[q].slot].num = table[pr[q].slot].num,
         \A n \in imap' \ names' : UserOf(p, n) => \E q \in Procs : UserOf(q, n)'
  PROVE  UsersOK'
<1> SUFFICES ASSUME NEW n \in imap' \ names' PROVE \E q \in Procs : UserOf(q, n)'
  BY DEF UsersOK
<1>1. PICK q \in Procs : UserOf(q, n)
  BY DEF UsersOK
<1>2. CASE q = p
  BY <1>1, <1>2
<1>3. CASE q # p
  <2>1. Using(q)
    BY <1>1, UserPcUses DEF UserOf, UserPc
  <2>2. UserOf(q, n)'
    BY <1>1, <1>3, <2>1 DEF UserOf, Putting, Writing
  <2> QED
    BY <2>2
<1> QED
  BY <1>2, <1>3

-----------------------------------------------------------------------------
(* Steps that touch no inode: p goes from one place to another and keeps   *)
(* its references.                                                         *)
LEMMA Quiet ==
  ASSUME IInv, NEW p \in Procs, cpu \in {None, p}, cpu' \in {None, p},
         UNCHANGED <<table, disk, imap, names>>,
         sb' \in [state : {"none", "read", "up"}, imount : Slots \cup {0}], sb'.imount = sb.imount,
         pr' \in [Procs -> ProcRecords], \A q \in Procs \ {p} : pr'[q] = pr[q],
         Using(p)' <=> Using(p), Using(p) => pr'[p].slot = pr[p].slot,
         pr'[p].empty = pr[p].empty,
         pr'[p].after = "umount" <=> pr[p].after = "umount",
         pr[p].pc \notin {"wread", "rread", "fresh"},
         pr'[p].pc \notin {"wread", "rread", "fresh"},
         UserPc(p) => UserPc(p)' \/ table[pr[p].slot].num \in names,
         PlaceOK(p)', pr'[p].want \in names \cup {0, ROOT_INO},
         pr'[p].pc = "wlock" =>
           /\ ~table[pr'[p].slot].lock /\ table[pr'[p].slot].dirt
           /\ \A q \in Procs \ {p} : pr[q].pc = "trunc" => pr[q].slot # pr'[p].slot,
         pr'[p].pc = "ewait" => table[pr'[p].slot].count = 0,
         pr'[p].pc \in {"super", "sread"} => table[pr'[p].slot].num \in Dirs,
         pr'[p].pc = "trunc" =>
           /\ table[pr'[p].slot].num \in Inodes \ names /\ table[pr'[p].slot].count = 1
           /\ \A q \in Procs \ {p} : pr[q].pc \in {"wlock", "wread"} => pr[q].slot # pr'[p].slot
  PROVE  IInv'
<1>1. TypeOK'
  BY DEF IInv, TypeOK
<1>2. UniqueInode'
  BY DEF IInv, UniqueInode
<1>3. Umounting' <=> Umounting
  BY DEF Umounting
<1>4. \A s : Mounted(s)' <=> Mounted(s)
  BY <1>3 DEF Mounted
<1>5. CountIsRefs'
  <2>1. \A t \in Slots : (Uses(p, t)' <=> Uses(p, t)) /\ MountRef(t)' = MountRef(t)
    BY <1>4 DEF Uses, MountRef
  <2>2. ASSUME NEW t \in Slots
        PROVE table'[t].count = table[t].count
             + (B2N(pr'[p].empty = t) - B2N(pr[p].empty = t))
             + (B2N(Uses(p, t)') - B2N(Uses(p, t)))
             + (MountRef(t)' - MountRef(t))
    <3>1. B2N(pr'[p].empty = t) - B2N(pr[p].empty = t) = 0
      BY DEF B2N
    <3>2. B2N(Uses(p, t)') - B2N(Uses(p, t)) = 0
      BY <2>1 DEF B2N
    <3>3. MountRef(t)' - MountRef(t) = 0
      BY <2>1 DEF MountRef
    <3>4. table[t].count \in Nat
      BY DEF IInv, TypeOK, InodeRecords
    <3> QED
      BY <3>1, <3>2, <3>3, <3>4
  <2>3. CountIsRefs
    BY DEF IInv
  <2> QED
    BY <2>2, <2>3, CountStep
<1>6. ProcOK(p)'
  <2>1. WantOK(p)'
    BY DEF WantOK
  <2>2. ReserveOK(p)'
    BY DEF IInv, ProcOK, ReserveOK
  <2>3. LockOK(p)'
    BY DEF LockOK
  <2>4. Using(p)' => table'[pr'[p].slot].num # 0
    BY DEF IInv, ProcOK, StageOK
  <2>5. StageOK(p)'
    BY <2>4 DEF StageOK
  <2> QED
    BY <2>1, <2>2, <2>3, <2>5 DEF ProcOK
<1>7. \A q \in Procs \ {p} : ProcOK(q)'
  <2>1. \A q \in Procs : ProcOK(q)
    BY DEF IInv
  <2>2. \A q \in Procs : pr[q].pc \in {"fresh", "trunc"} => table[pr[q].slot].num \notin names'
    BY <2>1 DEF ProcOK, StageOK
  <2>3. \A q \in Procs : pr[q].want \in names' \cup {0, ROOT_INO}
    BY <2>1 DEF ProcOK, WantOK
  <2>4. PICK T : T = {}
    OBVIOUS
  <2>5. \A q \in Procs \ {p} :
           /\ pr[q].empty \notin T
           /\ pr[q].pc \in {"rread", "trunc"} => pr[q].slot \notin T
           /\ pr[q].pc \in {"fresh", "trunc"} => table[pr[q].slot].num \notin names'
           /\ pr[q].pc = "fresh" /\ pr[q].slot \in T =>
                table'[pr[q].slot].nlinks = table[pr[q].slot].nlinks
                /\ table'[pr[q].slot].count = table[pr[q].slot].count
           /\ pr[q].slot \in T /\ Using(q) => table'[pr[q].slot].num = table[pr[q].slot].num
           /\ pr[q].slot \in T /\ pr[q].pc = "wread" => table'[pr[q].slot].lock /\ table'[pr[q].slot].dirt
           /\ pr[q].want \in names' \cup {0, ROOT_INO}
           /\ pr'[p].pc \in {"wread", "rread"} /\ pr[q].pc \in {"wread", "rread"}
                => pr'[p].slot # pr[q].slot
           /\ pr'[p].pc \in {"wlock", "wread"} /\ pr[q].pc = "trunc" => pr'[p].slot # pr[q].slot
    BY <2>2, <2>3, <2>4
  <2>6. \A t \in Slots \ T : table'[t] = table[t]
    OBVIOUS
  <2> QED
    BY ONLY <2>5, <2>6, Others, IInv, p \in Procs, cpu \in {None, p},
            \A q \in Procs \ {p} : pr'[q] = pr[q]
<1>8. \A s \in Slots : SlotOK(s)'
  <2> SUFFICES ASSUME NEW s \in Slots PROVE SlotOK(s)'
    OBVIOUS
  <2>1. SlotOK(s)
    BY DEF IInv
  <2>2. (BeingRead(s)' <=> BeingRead(s)) /\ (IsFresh(s)' <=> IsFresh(s))
    BY ReadersSame
  <2>3. table[s].num \in imap' \cup {0, ROOT_INO}
    BY <2>1 DEF SlotOK
  <2> QED
    BY <1>4, <2>1, <2>2, <2>3, SlotKept
<1>9. DiskOK'
  <2>1. \A q \in Procs : pr'[q].pc = "fresh" => pr[q].pc = "fresh" /\ pr'[q].slot = pr[q].slot
    OBVIOUS
  <2>2. \A q \in Procs : pr[q].pc = "fresh" => pr[q].slot \in Slots
    BY DEF IInv, ProcOK, PlaceOK, UsingPcs
  <2>3. DiskOK
    BY DEF IInv
  <2> QED
    BY <2>1, <2>2, <2>3, DiskKept
<1>10. UsersOK'
  <2>1. \A n \in imap' \ names' : UserOf(p, n) => UserOf(p, n)'
    <3> SUFFICES ASSUME NEW n \in imap' \ names', UserOf(p, n) PROVE UserOf(p, n)'
      OBVIOUS
    <3>1. UserPc(p) /\ table[pr[p].slot].num = n
      BY DEF UserOf, UserPc
    <3>2. UserPc(p)' /\ Using(p)
      BY <3>1, UserPcUses
    <3> QED
      BY <3>1, <3>2 DEF UserOf, UserPc
  <2>2. UsersOK
    BY DEF IInv
  <2> QED
    BY <2>1, <2>2, UsersKept
<1> QED
  BY <1>1, <1>2, <1>5, <1>6, <1>7, <1>8, <1>9, <1>10 DEF IInv

LEMMA ProcFacts ==
  ASSUME IInv, NEW p \in Procs
  PROVE  /\ pr[p] \in ProcRecords /\ pr \in [Procs -> ProcRecords] /\ ProcOK(p)
         /\ sb \in [state : {"none", "read", "up"}, imount : Slots \cup {0}]
         /\ table \in [Slots -> InodeRecords] /\ 0 \notin Slots
         /\ disk \in [All -> [nlinks : {0, 1}, cur : BOOLEAN]]
<1>1. 0 \notin Slots
  BY SlotsAssumption DEF Slots
<1> QED
  BY <1>1 DEF IInv, TypeOK

LEMMA GoOK ==
  ASSUME IInv, NEW p \in Procs, NEW r \in ProcRecords, Go(p, r) \/ Sleep(p, r)
  PROVE  /\ pr' = [pr EXCEPT ![p] = r]
         /\ pr' \in [Procs -> ProcRecords] /\ pr'[p] = r
         /\ \A q \in Procs \ {p} : pr'[q] = pr[q]
         /\ cpu' \in {None, p}
<1>1. pr' = [pr EXCEPT ![p] = r] /\ cpu' \in {None, p}
  BY DEF Go, Sleep
<1> QED
  BY <1>1, ProcFacts

LEMMA OutIs ==
  /\ Out \in ProcRecords
  /\ Out.pc = "out" /\ Out.slot = 0 /\ Out.empty = 0 /\ Out.want = 0 /\ Out.after = "" /\ Out.ret = ""
  BY DEF Out, ProcRecords, PCs

LEMMA GetEmptyOK ==
  ASSUME IInv, NEW p \in Procs, GetEmpty(p)
  PROVE  IInv'
<1>1. /\ pr[p].pc = "empty" /\ cpu \in {None, p}
      /\ UNCHANGED <<table, disk, imap, names, sb>>
  BY DEF GetEmpty, Runs
<1>2. PICK s \in Slots : /\ table[s].count = 0
                         /\ Go(p, [pr[p] EXCEPT !.pc = "ewait", !.slot = s])
  BY DEF GetEmpty
<1>3. ~table[s].lock
  BY <1>2 DEF IInv, SlotOK
<1>4. PICK r \in ProcRecords : r = [pr[p] EXCEPT !.pc = "ewait", !.slot = s]
  <2>1. pr[p] \in ProcRecords
    BY ProcFacts
  <2> QED
    BY ONLY <2>1, s \in Slots DEF ProcRecords, PCs
<1>5. /\ r.pc = "ewait" /\ r.slot = s /\ r.empty = pr[p].empty /\ r.want = pr[p].want
      /\ r.after = pr[p].after
  BY <1>4, ProcFacts DEF ProcRecords
<1>6. /\ pr' \in [Procs -> ProcRecords] /\ pr'[p] = r
      /\ \A q \in Procs \ {p} : pr'[q] = pr[q]
  BY <1>2, <1>4, GoOK
<1>7. cpu' = p
  BY <1>1, <1>2, <1>3, <1>4, <1>5 DEF Go
<1>8. PlaceOK(p) /\ WantOK(p)
  BY ProcFacts DEF ProcOK
<1>9. ~Using(p) /\ ~Using(p)' /\ ~UserPc(p)
  BY <1>1, <1>5, <1>6 DEF Using, UserPc, Putting, Writing, UsingPcs
<1>10. PlaceOK(p)'
  BY <1>1, <1>5, <1>6, <1>7, <1>8, <1>9 DEF PlaceOK, Putting, Writing, UsingPcs
<1> QED
  BY <1>1, <1>2, <1>5, <1>6, <1>7, <1>8, <1>9, <1>10, ProcFacts, Quiet DEF WantOK

LEMMA SyncInodesOK ==
  ASSUME NoRaces, IInv, NEW p \in Procs, SyncInodes(p)
  PROVE  IInv'
<1>1. /\ pr[p].pc = "sync" /\ cpu \in {None, p}
      /\ UNCHANGED <<table, disk, imap, names, sb>>
  BY DEF SyncInodes, Runs
<1>2. PlaceOK(p) /\ WantOK(p)
  BY ProcFacts DEF ProcOK
<1>3. PICK s \in Slots : s = pr[p].slot
  BY <1>1, <1>2 DEF PlaceOK
<1>4. ~table[s].lock
  BY <1>3 DEF SyncInodes
<1>5. pr[p].want = 0 /\ pr[p].empty = 0 /\ pr[p].after # "umount"
  BY <1>1, <1>2 DEF PlaceOK, Putting, Writing
<1>6. ~Using(p) /\ ~UserPc(p)
  BY <1>1 DEF Using, UserPc, Putting, Writing, UsingPcs
<1>7. CASE table[s].dirt /\ pr[p].ret # "sync" /\ \A q \in Procs : pr[q].pc = "trunc" => pr[q].slot # s
  <2>1. Go(p, [pr[p] EXCEPT !.pc = "wlock", !.ret = "sync"])
    BY <1>3, <1>7 DEF SyncInodes
  <2>2. PICK r \in ProcRecords : r = [pr[p] EXCEPT !.pc = "wlock", !.ret = "sync"]
    <3>1. pr[p] \in ProcRecords
      BY ProcFacts
    <3> QED
      BY ONLY <3>1 DEF ProcRecords, PCs
  <2>3. /\ r.pc = "wlock" /\ r.slot = s /\ r.empty = 0 /\ r.want = 0
        /\ r.after = pr[p].after /\ r.ret = "sync"
    BY <1>3, <1>5, <2>2, ProcFacts DEF ProcRecords
  <2>4. /\ pr' \in [Procs -> ProcRecords] /\ pr'[p] = r
        /\ \A q \in Procs \ {p} : pr'[q] = pr[q]
    BY <2>1, <2>2, GoOK
  <2>5. cpu' = p
    BY <1>1, <1>4, <2>1, <2>2, <2>3 DEF Go
  <2>6. ~Using(p)' /\ ~Putting(p)'
    BY <2>3, <2>4 DEF Using, Putting, Writing, UsingPcs
  <2>7. PlaceOK(p)'
    BY <1>5, <2>3, <2>4, <2>5, <2>6 DEF PlaceOK, UsingPcs
  <2> QED
    BY <1>1, <1>4, <1>5, <1>6, <1>7, <2>3, <2>4, <2>5, <2>6, <2>7, ProcFacts, Quiet
<1>8. CASE ~(table[s].dirt /\ pr[p].ret # "sync" /\ \A q \in Procs : pr[q].pc = "trunc" => pr[q].slot # s)
  <2>1. PICK r \in ProcRecords : /\ Go(p, r) \/ Sleep(p, r)
                                 /\ \/ r = Out
                                    \/ r.pc = "sync" /\ r.slot \in Slots /\ r.empty = 0 /\ r.want = 0
                                         /\ r.after = pr[p].after
    <3>1. CASE s = NR_INODE
      <4>1. Sleep(p, Out)
        BY <1>3, <1>8, <3>1 DEF SyncInodes, NoRaces
      <4>2. Out \in ProcRecords
        BY DEF Out, ProcRecords, PCs
      <4> QED
        BY <4>1, <4>2
    <3>2. CASE s # NR_INODE
      <4>1. Go(p, [pr[p] EXCEPT !.slot = s + 1, !.ret = ""])
        BY <1>3, <1>8, <3>2 DEF SyncInodes, NoRaces
      <4>2. s + 1 \in Slots
        BY <3>2, SlotsAssumption DEF Slots
      <4>3. PICK r \in ProcRecords : r = [pr[p] EXCEPT !.slot = s + 1, !.ret = ""]
        BY <4>2, ProcFacts DEF ProcRecords
      <4>4. r.pc = "sync" /\ r.slot \in Slots /\ r.empty = 0 /\ r.want = 0 /\ r.after = pr[p].after
        BY <1>1, <1>5, <4>2, <4>3, ProcFacts DEF ProcRecords
      <4> QED
        BY <4>1, <4>3, <4>4
    <3> QED
      BY <3>1, <3>2
  <2>2. /\ r.pc \in {"out", "sync"} /\ r.empty = 0 /\ r.want = 0 /\ r.after # "umount"
        /\ r.pc = "sync" => r.slot \in Slots
        /\ r.pc = "out" => r = Out
    BY <1>5, <2>1, OutIs
  <2>3. /\ pr' \in [Procs -> ProcRecords] /\ pr'[p] = r /\ cpu' \in {None, p}
        /\ \A q \in Procs \ {p} : pr'[q] = pr[q]
    BY <2>1, GoOK
  <2>4. ~Using(p)' /\ ~Putting(p)'
    BY <2>2, <2>3 DEF Using, Putting, Writing, UsingPcs
  <2>5. PlaceOK(p)'
    BY <2>2, <2>3, <2>4 DEF PlaceOK, UsingPcs
  <2> QED
    BY <1>1, <1>5, <1>6, <2>2, <2>3, <2>4, <2>5, ProcFacts, Quiet
<1> QED
  BY <1>7, <1>8

LEMMA BeginOK ==
  ASSUME IInv, NEW p \in Procs, Begin(p)
  PROVE  IInv'
<1>1. /\ pr[p].pc = "out" /\ cpu \in {None, p}
      /\ UNCHANGED <<table, disk, imap, names, sb>>
  BY DEF Begin, Runs
<1>2. pr[p] = Out
  BY <1>1, ProcFacts DEF ProcOK, PlaceOK
<1>3. pr[p].empty = 0 /\ pr[p].after = ""
  BY <1>2, OutIs
<1>4. PICK r \in ProcRecords : /\ Go(p, r)
                               /\ r.empty = 0 /\ r.after = ""
                               /\ \/ r.pc = "empty" /\ r.want \in names \cup {0}
                                  \/ r.pc = "sync" /\ r.slot \in Slots /\ r.want = 0
  <2>1. CASE \E n \in names : Go(p, [Out EXCEPT !.pc = "empty", !.want = n])
    <3>1. PICK n \in names : Go(p, [Out EXCEPT !.pc = "empty", !.want = n])
      BY <2>1
    <3>2. n \in All
      BY DEF IInv, TypeOK, All
    <3>3. PICK r \in ProcRecords : r = [Out EXCEPT !.pc = "empty", !.want = n]
      BY <3>2 DEF Out, ProcRecords, PCs
    <3>4. r.empty = 0 /\ r.after = "" /\ r.pc = "empty" /\ r.want = n
      BY <3>3 DEF Out
    <3> QED
      BY <3>1, <3>3, <3>4
  <2>2. CASE Go(p, [Out EXCEPT !.pc = "empty"])
    <3>1. PICK r \in ProcRecords : r = [Out EXCEPT !.pc = "empty"]
      BY DEF Out, ProcRecords, PCs
    <3>2. r.empty = 0 /\ r.after = "" /\ r.pc = "empty" /\ r.want = 0
      BY <3>1 DEF Out
    <3> QED
      BY <2>2, <3>1, <3>2
  <2>3. CASE Go(p, [Out EXCEPT !.pc = "sync", !.slot = 1])
    <3>1. 1 \in Slots
      <4>1. Cardinality(Procs) \in Nat
        BY ProcsAssumption, FS_CardinalityType
      <4> QED
        BY <4>1, SlotsAssumption DEF Slots
    <3>2. PICK r \in ProcRecords : r = [Out EXCEPT !.pc = "sync", !.slot = 1]
      BY <3>1 DEF Out, ProcRecords, PCs
    <3>3. r.empty = 0 /\ r.after = "" /\ r.pc = "sync" /\ r.want = 0 /\ r.slot = 1
      BY <3>2 DEF Out
    <3> QED
      BY <2>3, <3>1, <3>2, <3>3
  <2> QED
    BY <2>1, <2>2, <2>3 DEF Begin
<1>5. /\ pr' \in [Procs -> ProcRecords] /\ pr'[p] = r /\ cpu' \in {None, p}
      /\ \A q \in Procs \ {p} : pr'[q] = pr[q]
  BY <1>4, GoOK
<1>6. ~Using(p) /\ ~UserPc(p) /\ ~Using(p)' /\ ~Putting(p)' /\ ~Writing(p, "sync")'
  BY <1>1, <1>4, <1>5 DEF Using, UserPc, Putting, Writing, UsingPcs
<1>7. PlaceOK(p)'
  BY <1>4, <1>5, <1>6 DEF PlaceOK, UsingPcs
<1> QED
  BY <1>1, <1>3, <1>4, <1>5, <1>6, <1>7, ProcFacts, Quiet

(* A holder, or one that could not mount, puts its inode.                  *)
LEMMA ToPutOK ==
  ASSUME IInv, NEW p \in Procs, pr[p].pc \in {"hold", "super", "sread"}, cpu \in {None, p},
         UNCHANGED <<table, disk, imap, names>>,
         sb' \in [state : {"none", "read", "up"}, imount : Slots \cup {0}], sb'.imount = sb.imount,
         Go(p, [pr[p] EXCEPT !.pc = "put", !.after = "out"])
  PROVE  IInv'
<1>1. PlaceOK(p) /\ WantOK(p)
  BY ProcFacts DEF ProcOK
<1>2. pr[p].want = 0 /\ pr[p].empty = 0 /\ pr[p].after # "umount" /\ pr[p].slot \in Slots
  BY <1>1 DEF PlaceOK, Putting, Writing, UsingPcs
<1>3. PICK r \in ProcRecords : r = [pr[p] EXCEPT !.pc = "put", !.after = "out"]
  <2>1. pr[p] \in ProcRecords
    BY ProcFacts
  <2> QED
    BY ONLY <2>1 DEF ProcRecords, PCs, UsingPcs
<1>4. r.pc = "put" /\ r.slot = pr[p].slot /\ r.empty = 0 /\ r.want = 0 /\ r.after = "out"
  BY <1>2, <1>3, ProcFacts DEF ProcRecords
<1>5. /\ pr' \in [Procs -> ProcRecords] /\ pr'[p] = r /\ cpu' \in {None, p}
      /\ \A q \in Procs \ {p} : pr'[q] = pr[q]
  BY <1>3, GoOK
<1>6. Using(p) /\ Using(p)' /\ Putting(p)' /\ UserPc(p)' /\ ~Writing(p, "sync")'
  BY <1>4, <1>5 DEF Using, UserPc, Putting, Writing, UsingPcs
<1>7. PlaceOK(p)'
  BY <1>2, <1>4, <1>5, <1>6 DEF PlaceOK, UsingPcs
<1> QED
  BY <1>2, <1>4, <1>5, <1>6, <1>7, ProcFacts, Quiet

(* A process goes on in sys_mount() with its directory.                    *)
LEMMA ToSuperOK ==
  ASSUME IInv, NEW p \in Procs, NEW c \in {"super", "sread"}, pr[p].pc \in {"hold", "super"},
         cpu \in {None, p}, table[pr[p].slot].num \in Dirs, UNCHANGED <<table, disk, imap, names>>,
         sb' \in [state : {"none", "read", "up"}, imount : Slots \cup {0}], sb'.imount = sb.imount,
         Sleep(p, [pr[p] EXCEPT !.pc = c])
  PROVE  IInv'
<1>1. table[pr[p].slot].num \in names
  BY DEF IInv, TypeOK
<1>2. PlaceOK(p) /\ WantOK(p)
  BY ProcFacts DEF ProcOK
<1>3. pr[p].want = 0 /\ pr[p].empty = 0 /\ pr[p].after # "umount" /\ pr[p].slot \in Slots
  BY <1>2 DEF PlaceOK, Putting, Writing, UsingPcs
<1>4. PICK r \in ProcRecords : r = [pr[p] EXCEPT !.pc = c]
  <2>1. pr[p] \in ProcRecords /\ c \in PCs
    BY ProcFacts DEF PCs, UsingPcs
  <2> QED
    BY ONLY <2>1 DEF ProcRecords
<1>5. r.pc = c /\ r.slot = pr[p].slot /\ r.empty = 0 /\ r.want = 0 /\ r.after = pr[p].after
  BY <1>3, <1>4, ProcFacts DEF ProcRecords
<1>6. /\ pr' \in [Procs -> ProcRecords] /\ pr'[p] = r /\ cpu' \in {None, p}
      /\ \A q \in Procs \ {p} : pr'[q] = pr[q]
  BY <1>4, GoOK
<1>7. Using(p) /\ Using(p)' /\ ~Putting(p)' /\ ~Writing(p, "sync")'
  BY <1>5, <1>6 DEF Using, Putting, Writing, UsingPcs
<1>8. PlaceOK(p)'
  BY <1>3, <1>5, <1>6, <1>7 DEF PlaceOK, UsingPcs
<1> QED
  BY <1>1, <1>3, <1>5, <1>6, <1>7, <1>8, Quiet

LEMMA MountOK ==
  ASSUME IInv, NEW p \in Procs, Mount(p)
  PROVE  IInv'
<1>1. /\ pr[p].pc = "hold" /\ cpu \in {None, p} /\ table[pr[p].slot].num \in Dirs
      /\ UNCHANGED <<table, disk, imap, names, sb>>
      /\ Sleep(p, [pr[p] EXCEPT !.pc = "super"])
  BY DEF Mount, Runs
<1> QED
  BY <1>1, ToSuperOK, ProcFacts

LEMMA ReadSuperOK ==
  ASSUME IInv, MountInv, NEW p \in Procs, ReadSuper(p)
  PROVE  IInv'
<1>1. /\ pr[p].pc = "super" /\ cpu \in {None, p} /\ UNCHANGED <<table, disk, imap, names>>
      /\ Sleep(p, [pr[p] EXCEPT !.pc = "sread"])
  BY DEF ReadSuper, Runs
<1>2. sb' \in [state : {"none", "read", "up"}, imount : Slots \cup {0}] /\ sb'.imount = sb.imount
  BY DEF ReadSuper, MountInv
<1>3. table[pr[p].slot].num \in Dirs
  BY <1>1, ProcFacts DEF ProcOK, StageOK
<1> QED
  BY <1>1, <1>2, <1>3, ToSuperOK

LEMMA NoSuperOK ==
  ASSUME IInv, MountInv, NEW p \in Procs, NoSuper(p)
  PROVE  IInv'
<1>1. /\ pr[p].pc = "sread" /\ cpu \in {None, p} /\ UNCHANGED <<table, disk, imap, names>>
      /\ Go(p, [pr[p] EXCEPT !.pc = "put", !.after = "out"])
  BY DEF NoSuper, Runs
<1>2. sb' \in [state : {"none", "read", "up"}, imount : Slots \cup {0}] /\ sb'.imount = sb.imount
  BY <1>1 DEF NoSuper, MountInv
<1> QED
  BY <1>1, <1>2, ToPutOK

-----------------------------------------------------------------------------
(* Steps of p that touch the slots T: what is left to show.                *)
LEMMA Touch ==
  ASSUME IInv, NEW p \in Procs, NEW T, cpu \in {None, p},
         \A q \in Procs \ {p} : pr'[q] = pr[q],
         \A t \in Slots \ T : table'[t] = table[t],
         TypeOK', UniqueInode', CountIsRefs', ProcOK(p)', DiskOK', UsersOK',
         \A q \in Procs \ {p} :
           /\ pr[q].empty \notin T
           /\ pr[q].pc \in {"rread", "trunc"} => pr[q].slot \notin T
           /\ pr[q].pc \in {"fresh", "trunc"} => table[pr[q].slot].num \notin names'
           /\ pr[q].pc = "fresh" /\ pr[q].slot \in T =>
                table'[pr[q].slot].nlinks = table[pr[q].slot].nlinks
                /\ table'[pr[q].slot].count = table[pr[q].slot].count
           /\ pr[q].slot \in T /\ Using(q) => table'[pr[q].slot].num = table[pr[q].slot].num
           /\ pr[q].slot \in T /\ pr[q].pc = "wread" => table'[pr[q].slot].lock /\ table'[pr[q].slot].dirt
           /\ pr[q].want \in names' \cup {0, ROOT_INO}
           /\ pr'[p].pc \in {"wread", "rread"} /\ pr[q].pc \in {"wread", "rread"}
                => pr'[p].slot # pr[q].slot
           /\ pr'[p].pc \in {"wlock", "wread"} /\ pr[q].pc = "trunc" => pr'[p].slot # pr[q].slot,
         \A t \in Slots \ T :
           /\ table[t].num \in imap' \cup {0, ROOT_INO}
           /\ table[t].num \in names' <=> table[t].num \in names
           /\ Mounted(t)' => Mounted(t)
           /\ pr[p].pc \notin {"rread", "fresh"} \/ pr[p].slot # t
           /\ pr'[p].pc \notin {"rread", "fresh"} \/ pr'[p].slot # t,
         \A t \in Slots : t \in T => SlotOK(t)'
  PROVE  IInv'
<1>1. \A q \in Procs \ {p} : ProcOK(q)'
  BY Others
<1>2. ASSUME NEW t \in Slots \ T PROVE SlotOK(t)'
  <2>1. SlotOK(t)
    BY DEF IInv
  <2>2. (BeingRead(t)' <=> BeingRead(t)) /\ (IsFresh(t)' <=> IsFresh(t))
    BY ReadersSame
  <2>3. table'[t] = table[t]
    OBVIOUS
  <2> QED
    BY <2>1, <2>2, <2>3, SlotKept
<1>3. \A t \in Slots : SlotOK(t)'
  BY <1>2
<1>4. \A q \in Procs : ProcOK(q)'
  BY <1>1
<1> QED
  BY <1>3, <1>4 DEF IInv

(* ... one slot, whose number and name stay what they are.                 *)
LEMMA TouchOne ==
  ASSUME IInv, NEW p \in Procs, cpu \in {None, p}, cpu' \in {None, p},
         NEW s \in Slots, NEW i \in InodeRecords, table' = [table EXCEPT ![s] = i],
         i.num = table[s].num, UNCHANGED <<imap, names, sb>>,
         disk' \in [All -> [nlinks : {0, 1}, cur : BOOLEAN]],
         pr' \in [Procs -> ProcRecords], \A q \in Procs \ {p} : pr'[q] = pr[q],
         pr'[p].after = "umount" <=> pr[p].after = "umount",
         pr'[p].empty = pr[p].empty,
         \A t \in Slots \ {s} : Uses(p, t)' <=> Uses(p, t),
         i.count = table[s].count + (B2N(Uses(p, s)') - B2N(Uses(p, s))),
         \A q \in Procs \ {p} :
           /\ pr[q].empty # s
           /\ pr[q].pc \in {"rread", "trunc"} => pr[q].slot # s
           /\ pr[q].pc = "fresh" /\ pr[q].slot = s =>
                i.nlinks = table[s].nlinks /\ i.count = table[s].count
           /\ pr[q].pc = "wread" /\ pr[q].slot = s => i.lock /\ i.dirt
           /\ pr'[p].pc \in {"wread", "rread"} /\ pr[q].pc \in {"wread", "rread"}
                => pr'[p].slot # pr[q].slot
           /\ pr'[p].pc \in {"wlock", "wread"} /\ pr[q].pc = "trunc" => pr'[p].slot # pr[q].slot,
         pr[p].pc \in {"rread", "fresh"} => pr[p].slot = s,
         pr'[p].pc \in {"rread", "fresh"} => pr'[p].slot = s,
         ProcOK(p)', SlotOK(s)', DiskOK', UsersOK'
  PROVE  IInv'
<1>1. table \in [Slots -> InodeRecords] /\ table'[s] = i
  BY ProcFacts
<1>2. \A t \in Slots : table'[t].num = table[t].num
  BY <1>1
<1>3. TypeOK'
  <2>1. TypeOK
    BY DEF IInv
  <2>2. table' \in [Slots -> InodeRecords]
    BY <1>1
  <2>3. cpu' \in Procs \cup {None}
    OBVIOUS
  <2> QED
    BY <2>1, <2>2, <2>3 DEF TypeOK
<1>4. UniqueInode'
  BY <1>2 DEF IInv, UniqueInode
<1>5. \A t : Mounted(t)' <=> Mounted(t)
  BY DEF Mounted, Umounting
<1>6. CountIsRefs'
  <2>1. ASSUME NEW t \in Slots
        PROVE table'[t].count = table[t].count
             + (B2N(pr'[p].empty = t) - B2N(pr[p].empty = t))
             + (B2N(Uses(p, t)') - B2N(Uses(p, t)))
             + (MountRef(t)' - MountRef(t))
    <3>1. B2N(pr'[p].empty = t) - B2N(pr[p].empty = t) = 0
      BY DEF B2N
    <3>2. MountRef(t)' - MountRef(t) = 0
      BY <1>5 DEF MountRef
    <3>3. table[t].count \in Nat /\ B2N(Uses(p, t)') \in {0, 1} /\ B2N(Uses(p, t)) \in {0, 1}
      BY <1>1 DEF InodeRecords, B2N
    <3>4. t # s => B2N(Uses(p, t)') - B2N(Uses(p, t)) = 0
      BY DEF B2N
    <3>5. t # s => table'[t].count = table[t].count
      BY <1>1
    <3> QED
      BY <1>1, <3>1, <3>2, <3>3, <3>4, <3>5
  <2>2. CountIsRefs
    BY DEF IInv
  <2> QED
    BY <2>1, <2>2, CountStep
<1>7. PICK T : T = {s}
  OBVIOUS
<1>8. \A q \in Procs : pr[q].pc \in {"fresh", "trunc"} => table[pr[q].slot].num \notin names'
  BY DEF IInv, ProcOK, StageOK
<1>9. \A q \in Procs : pr[q].want \in names' \cup {0, ROOT_INO}
  BY DEF IInv, ProcOK, WantOK
<1>10. \A t \in Slots : table[t].num \in imap' \cup {0, ROOT_INO}
  BY DEF IInv, SlotOK
<1>11. \A q \in Procs \ {p} :
           /\ pr[q].empty \notin T
           /\ pr[q].pc \in {"rread", "trunc"} => pr[q].slot \notin T
           /\ pr[q].pc \in {"fresh", "trunc"} => table[pr[q].slot].num \notin names'
           /\ pr[q].pc = "fresh" /\ pr[q].slot \in T =>
                table'[pr[q].slot].nlinks = table[pr[q].slot].nlinks
                /\ table'[pr[q].slot].count = table[pr[q].slot].count
           /\ pr[q].slot \in T /\ Using(q) => table'[pr[q].slot].num = table[pr[q].slot].num
           /\ pr[q].slot \in T /\ pr[q].pc = "wread" => table'[pr[q].slot].lock /\ table'[pr[q].slot].dirt
           /\ pr[q].want \in names' \cup {0, ROOT_INO}
           /\ pr'[p].pc \in {"wread", "rread"} /\ pr[q].pc \in {"wread", "rread"}
                => pr'[p].slot # pr[q].slot
           /\ pr'[p].pc \in {"wlock", "wread"} /\ pr[q].pc = "trunc" => pr'[p].slot # pr[q].slot
  BY <1>1, <1>7, <1>8, <1>9
<1>12. \A t \in Slots \ T :
           /\ table[t].num \in imap' \cup {0, ROOT_INO}
           /\ table[t].num \in names' <=> table[t].num \in names
           /\ Mounted(t)' => Mounted(t)
           /\ pr[p].pc \notin {"rread", "fresh"} \/ pr[p].slot # t
           /\ pr'[p].pc \notin {"rread", "fresh"} \/ pr'[p].slot # t
  BY <1>5, <1>7, <1>10
<1>13. \A t \in Slots \ T : table'[t] = table[t]
  BY <1>1, <1>7
<1>14. \A t \in Slots : t \in T => SlotOK(t)'
  BY <1>7
<1> QED
  BY ONLY <1>3, <1>4, <1>6, <1>11, <1>12, <1>13, <1>14, Touch, IInv, p \in Procs, cpu \in {None, p},
          \A q \in Procs \ {p} : pr'[q] = pr[q], ProcOK(p)', DiskOK', UsersOK'

-----------------------------------------------------------------------------
(* A slot with a number is nobody's reserve.                               *)
LEMMA NotReserve ==
  ASSUME IInv, NEW s \in Slots, table[s].num # 0
  PROVE  \A q \in Procs : pr[q].empty # s
<1> SUFFICES ASSUME NEW q \in Procs, pr[q].empty = s PROVE FALSE
  OBVIOUS
<1>1. table[s] = [NoInode EXCEPT !.count = 1]
  BY ProcFacts DEF IInv, ProcOK, ReserveOK
<1> QED
  BY <1>1 DEF NoInode

LEMMA WriteLockOK ==
  ASSUME IInv, NEW p \in Procs, WriteLock(p)
  PROVE  IInv'
<1>1. pr[p].pc = "wlock" /\ cpu \in {None, p} /\ UNCHANGED <<disk, imap, names, sb>>
  BY DEF WriteLock, Runs
<1>2. PlaceOK(p) /\ WantOK(p) /\ LockOK(p) /\ StageOK(p) /\ ReserveOK(p)
  BY ProcFacts DEF ProcOK
<1>3. PICK s \in Slots : s = pr[p].slot
  BY <1>1, <1>2 DEF PlaceOK
<1>4. table[s].dirt /\ ~table[s].lock /\ SlotOK(s)
  BY <1>1, <1>2, <1>3 DEF LockOK, IInv
<1>5. table[s].num # 0
  BY <1>4 DEF SlotOK
<1>6. /\ table' = [table EXCEPT ![s].lock = TRUE]
      /\ Sleep(p, [pr[p] EXCEPT !.pc = "wread"])
  BY <1>3, <1>4, <1>5 DEF WriteLock
<1>7. PICK i \in InodeRecords : i = [table[s] EXCEPT !.lock = TRUE]
  <2>1. table[s] \in InodeRecords
    BY ProcFacts
  <2> QED
    BY ONLY <2>1 DEF InodeRecords
<1>8. /\ i.num = table[s].num /\ i.count = table[s].count /\ i.dirt = table[s].dirt /\ i.lock
      /\ i.nlinks = table[s].nlinks /\ i.cur = table[s].cur /\ table[s].count \in Nat
  BY <1>7, ProcFacts DEF InodeRecords
<1>9. table' = [table EXCEPT ![s] = i] /\ table'[s] = i
  BY <1>6, <1>7, ProcFacts
<1>10. PICK r \in ProcRecords : r = [pr[p] EXCEPT !.pc = "wread"]
  <2>1. pr[p] \in ProcRecords
    BY ProcFacts
  <2> QED
    BY ONLY <2>1 DEF ProcRecords, PCs
<1>11. /\ r.pc = "wread" /\ r.slot = s /\ r.empty = pr[p].empty /\ r.want = pr[p].want
       /\ r.after = pr[p].after /\ r.ret = pr[p].ret
  BY <1>3, <1>10, ProcFacts DEF ProcRecords
<1>12. /\ pr' \in [Procs -> ProcRecords] /\ pr'[p] = r /\ cpu' \in {None, p}
       /\ \A q \in Procs \ {p} : pr'[q] = pr[q]
  BY <1>6, <1>10, GoOK
<1>13. /\ Using(p)' <=> Using(p)
       /\ Putting(p)' <=> Putting(p)
       /\ Writing(p, "sync")' <=> Writing(p, "sync")
  BY <1>1, <1>11, <1>12 DEF Using, Putting, Writing, UsingPcs
<1>14. \A q \in Procs \ {p} :
           /\ pr[q].empty # s
           /\ pr[q].pc \in {"rread", "trunc"} => pr[q].slot # s
           /\ pr[q].pc = "wread" => pr[q].slot # s
  BY <1>1, <1>3, <1>4, <1>5, NotReserve DEF IInv, ProcOK, StageOK, LockOK
<1>15. ProcOK(p)'
  <2>1. PlaceOK(p)'
    BY <1>1, <1>2, <1>3, <1>11, <1>12, <1>13 DEF PlaceOK, UsingPcs
  <2>2. WantOK(p)'
    BY <1>1, <1>2, <1>11, <1>12 DEF WantOK
  <2>3. LockOK(p)'
    <3>1. \A q \in Procs : pr'[q].pc \in {"wread", "rread"} /\ pr'[q].slot = s => q = p
      BY <1>12, <1>14
    <3>2. table'[s].lock /\ table'[s].dirt
      BY <1>4, <1>8, <1>9
    <3> QED
      BY <1>11, <1>12, <3>1, <3>2 DEF LockOK
  <2>4. ReserveOK(p)'
    <3>1. pr[p].empty # s
      BY <1>5, NotReserve
    <3>2. pr[p].empty # 0 => table'[pr[p].empty] = table[pr[p].empty]
      BY <1>9, <3>1, ProcFacts
    <3> QED
      BY <1>2, <1>11, <1>12, <3>2 DEF ReserveOK
  <2>5. StageOK(p)'
    BY <1>5, <1>8, <1>9, <1>11, <1>12 DEF StageOK
  <2> QED
    BY <2>1, <2>2, <2>3, <2>4, <2>5 DEF ProcOK
<1>16. SlotOK(s)'
  <2>1. (BeingRead(s)' <=> BeingRead(s)) /\ (IsFresh(s)' <=> IsFresh(s))
    BY <1>1, <1>11, <1>12, ReadersSame
  <2>2. Mounted(s)' <=> Mounted(s)
    BY <1>1, <1>11, <1>12 DEF Mounted, Umounting
  <2> QED
    BY <1>1, <1>4, <1>8, <1>9, <2>1, <2>2 DEF SlotOK, Named
<1>17. \A t \in Slots : table'[t].num = table[t].num /\ table'[t].dirt = table[t].dirt
  BY <1>8, <1>9, ProcFacts
<1>18. DiskOK'
  <2>1. \A q \in Procs : pr'[q].pc = "fresh" => pr[q].pc = "fresh" /\ pr'[q].slot = pr[q].slot
    BY <1>11, <1>12
  <2>2. \A q \in Procs : pr[q].pc = "fresh" => pr[q].slot \in Slots
    BY DEF IInv, ProcOK, PlaceOK, UsingPcs
  <2>3. DiskOK
    BY DEF IInv
  <2> QED
    BY <1>1, <1>17, <2>1, <2>2, <2>3, DiskKept
<1>19. UsersOK'
  <2>1. \A n \in imap' \ names' : UserOf(p, n) => UserOf(p, n)'
    BY <1>1, <1>3, <1>11, <1>12, <1>13, <1>17 DEF UserOf
  <2>2. \A q \in Procs : Using(q) => pr[q].slot \in Slots
    BY DEF IInv, ProcOK, PlaceOK, Using, Writing
  <2>3. UsersOK
    BY DEF IInv
  <2> QED
    BY <1>1, <1>12, <1>17, <2>1, <2>2, <2>3, UsersKept
<1>20. \A t \in Slots : Uses(p, t)' <=> Uses(p, t)
  BY <1>3, <1>11, <1>12, <1>13 DEF Uses
<1>21. i.count = table[s].count + (B2N(Uses(p, s)') - B2N(Uses(p, s)))
  BY <1>8, <1>20 DEF B2N
<1>22. disk' \in [All -> [nlinks : {0, 1}, cur : BOOLEAN]]
  BY <1>1, ProcFacts
<1>23. \A q \in Procs \ {p} :
           /\ pr[q].empty # s
           /\ pr[q].pc \in {"rread", "trunc"} => pr[q].slot # s
           /\ pr[q].pc = "fresh" /\ pr[q].slot = s =>
                i.nlinks = table[s].nlinks /\ i.count = table[s].count
           /\ pr[q].pc = "wread" /\ pr[q].slot = s => i.lock /\ i.dirt
           /\ pr'[p].pc \in {"wread", "rread"} /\ pr[q].pc \in {"wread", "rread"}
                => pr'[p].slot # pr[q].slot
           /\ pr'[p].pc \in {"wlock", "wread"} /\ pr[q].pc = "trunc" => pr'[p].slot # pr[q].slot
  BY <1>8, <1>11, <1>12, <1>14
<1>24. /\ pr[p].pc \in {"rread", "fresh"} => pr[p].slot = s
       /\ pr'[p].pc \in {"rread", "fresh"} => pr'[p].slot = s
       /\ pr'[p].after = "umount" <=> pr[p].after = "umount"
       /\ pr'[p].empty = pr[p].empty
  BY <1>1, <1>11, <1>12
<1> QED
  BY <1>1, <1>8, <1>9, <1>12, <1>15, <1>16, <1>18, <1>19, <1>20, <1>21, <1>22, <1>23, <1>24, TouchOne

LEMMA WriteCopyOK ==
  ASSUME IInv, NEW p \in Procs, WriteCopy(p)
  PROVE  IInv'
<1>1. pr[p].pc = "wread" /\ cpu \in {None, p} /\ UNCHANGED <<imap, names, sb>>
  BY DEF WriteCopy, Runs
<1>2. PlaceOK(p) /\ WantOK(p) /\ LockOK(p) /\ StageOK(p) /\ ReserveOK(p)
  BY ProcFacts DEF ProcOK
<1>3. PICK s \in Slots : s = pr[p].slot
  BY <1>1, <1>2 DEF PlaceOK
<1>4. table[s].dirt /\ table[s].lock /\ SlotOK(s)
  BY <1>1, <1>2, <1>3 DEF LockOK, IInv
<1>5. table[s].num # 0
  BY <1>4 DEF SlotOK
<1>6. PICK n \in All : n = table[s].num
  BY <1>5, ProcFacts DEF InodeRecords
<1>7. /\ table' = [table EXCEPT ![s].dirt = FALSE, ![s].lock = FALSE]
      /\ disk' = [disk EXCEPT ![n] = [nlinks |-> table[s].nlinks, cur |-> table[s].num = n /\ table[s].cur]]
      /\ Go(p, [pr[p] EXCEPT !.pc = pr[p].ret])
  BY <1>3, <1>5, <1>6 DEF WriteCopy
<1>8. PICK i \in InodeRecords : i = [table[s] EXCEPT !.dirt = FALSE, !.lock = FALSE]
  <2>1. table[s] \in InodeRecords
    BY ProcFacts
  <2> QED
    BY ONLY <2>1 DEF InodeRecords
<1>9. /\ i.num = table[s].num /\ i.count = table[s].count /\ ~i.dirt /\ ~i.lock
      /\ i.nlinks = table[s].nlinks /\ i.cur = table[s].cur /\ table[s].count \in Nat
  BY <1>8, ProcFacts DEF InodeRecords
<1>10. table' = [table EXCEPT ![s] = i] /\ table'[s] = i
  BY <1>7, <1>8, ProcFacts
<1>11. pr[p].ret \in {"put", "sync"}
  BY <1>1, <1>2, ProcFacts DEF PlaceOK, ProcRecords
<1>12. PICK r \in ProcRecords : r = [pr[p] EXCEPT !.pc = pr[p].ret]
  <2>1. pr[p] \in ProcRecords
    BY ProcFacts
  <2> QED
    BY ONLY <2>1, <1>11 DEF ProcRecords, PCs, UsingPcs
<1>13. /\ r.pc = pr[p].ret /\ r.slot = s /\ r.empty = pr[p].empty /\ r.want = pr[p].want
       /\ r.after = pr[p].after /\ r.ret = pr[p].ret
  BY <1>3, <1>12, ProcFacts DEF ProcRecords
<1>14. /\ pr' \in [Procs -> ProcRecords] /\ pr'[p] = r /\ cpu' \in {None, p}
       /\ \A q \in Procs \ {p} : pr'[q] = pr[q]
  BY <1>7, <1>12, GoOK
<1>15. /\ Using(p)' <=> Using(p)
       /\ Putting(p)' <=> Putting(p)
       /\ Putting(p) <=> pr[p].ret = "put"
       /\ Writing(p, "sync") <=> pr[p].ret = "sync"
       /\ ~Writing(p, "sync")'
  BY <1>1, <1>11, <1>13, <1>14 DEF Using, Putting, Writing, UsingPcs
<1>16. \A q \in Procs \ {p} :
           /\ pr[q].empty # s
           /\ pr[q].pc \in {"rread", "trunc", "wread"} => pr[q].slot # s
  BY <1>1, <1>2, <1>3, <1>5, NotReserve DEF IInv, ProcOK, StageOK, LockOK
<1>17. ProcOK(p)'
  <2>1. PlaceOK(p)'
    BY <1>1, <1>2, <1>3, <1>11, <1>13, <1>14, <1>15 DEF PlaceOK, UsingPcs
  <2>2. WantOK(p)'
    BY <1>1, <1>2, <1>13, <1>14 DEF WantOK
  <2>3. LockOK(p)'
    BY <1>11, <1>13, <1>14 DEF LockOK
  <2>4. ReserveOK(p)'
    <3>1. pr[p].empty # s
      BY <1>5, NotReserve
    <3>2. pr[p].empty # 0 => table'[pr[p].empty] = table[pr[p].empty]
      BY <1>10, <3>1, ProcFacts
    <3> QED
      BY <1>2, <1>13, <1>14, <3>2 DEF ReserveOK
  <2>5. StageOK(p)'
    BY <1>5, <1>9, <1>10, <1>11, <1>13, <1>14 DEF StageOK
  <2> QED
    BY <2>1, <2>2, <2>3, <2>4, <2>5 DEF ProcOK
<1>18. ~BeingRead(s)
  BY <1>1, <1>16 DEF BeingRead
<1>19. table[s].cur /\ (table[s].nlinks = 1 <=> Named(n) \/ IsFresh(s))
  BY <1>4, <1>5, <1>6, <1>18 DEF SlotOK
<1>20. SlotOK(s)'
  <2>1. (BeingRead(s)' <=> BeingRead(s)) /\ (IsFresh(s)' <=> IsFresh(s))
    BY <1>1, <1>11, <1>13, <1>14, ReadersSame
  <2>2. Mounted(s)' <=> Mounted(s)
    BY <1>1, <1>13, <1>14 DEF Mounted, Umounting
  <2> QED
    BY <1>1, <1>4, <1>9, <1>10, <2>1, <2>2 DEF SlotOK, Named
<1>21. /\ \A t \in Slots : table'[t].num = table[t].num
       /\ \A t \in Slots \ {s} : table'[t].dirt = table[t].dirt
  BY <1>9, <1>10, ProcFacts
<1>22. /\ disk'[n].nlinks = table[s].nlinks /\ disk'[n].cur
       /\ \A m \in All \ {n} : disk'[m] = disk[m]
       /\ disk' \in [All -> [nlinks : {0, 1}, cur : BOOLEAN]]
  <2>1. table[s].nlinks \in {0, 1} /\ table[s].cur \in BOOLEAN
    BY ProcFacts DEF InodeRecords
  <2>2. disk'[n] = [nlinks |-> table[s].nlinks, cur |-> table[s].num = n /\ table[s].cur]
    BY <1>7, ProcFacts
  <2>3. disk'[n].nlinks = table[s].nlinks /\ disk'[n].cur
    <3>1. (table[s].num = n /\ table[s].cur) = TRUE
      BY <1>6, <1>19
    <3>2. disk'[n] = [nlinks |-> table[s].nlinks, cur |-> TRUE]
      BY <2>2, <3>1
    <3> QED
      BY <3>2
  <2>4. [nlinks |-> table[s].nlinks, cur |-> table[s].num = n /\ table[s].cur]
          \in [nlinks : {0, 1}, cur : BOOLEAN]
    BY <2>1
  <2> QED
    BY <1>7, <2>3, <2>4, ProcFacts
<1>23. DiskOK'
  <2>1. DiskOK
    BY DEF IInv
  <2>2. \A m \in All \ {n} : DirtySlot(m) => DirtySlot(m)'
    BY <1>6, <1>21 DEF DirtySlot
  <2>3. \A m \in All : disk'[m].cur \/ DirtySlot(m)'
    BY <1>22, <2>1, <2>2 DEF DiskOK
  <2>4. names \cup {ROOT_INO} \subseteq All
    BY DEF IInv, TypeOK, All
  <2>5. \A m \in names' \cup {ROOT_INO} : disk'[m].nlinks = 1 \/ DirtySlot(m)'
    BY <1>1, <1>19, <1>22, <2>1, <2>2, <2>4 DEF DiskOK, Named
  <2>6. ASSUME NEW q \in Procs, pr'[q].pc = "fresh"
        PROVE  disk'[table'[pr'[q].slot].num].nlinks = 1 \/ table'[pr'[q].slot].dirt
    <3>1. q # p /\ pr'[q] = pr[q] /\ pr[q].pc = "fresh"
      BY <1>11, <1>13, <1>14, <2>6
    <3>2. pr[q].slot \in Slots /\ table[pr[q].slot].num \in Inodes /\ table[pr[q].slot].nlinks = 1
      BY <3>1 DEF IInv, ProcOK, PlaceOK, StageOK, UsingPcs
    <3>3. CASE pr[q].slot = s
      BY <1>6, <1>21, <1>22, <3>1, <3>2, <3>3
    <3>4. CASE pr[q].slot # s
      <4>1. table[pr[q].slot].num # n
        BY <1>5, <1>6, <3>2, <3>4 DEF IInv, UniqueInode
      <4>2. table[pr[q].slot].num \in All
        BY <3>2 DEF All
      <4>3. disk'[table[pr[q].slot].num] = disk[table[pr[q].slot].num]
        BY <1>22, <4>1, <4>2
      <4> QED
        BY <1>21, <2>1, <3>1, <3>2, <3>4, <4>3 DEF DiskOK
    <3> QED
      BY <3>3, <3>4
  <2> QED
    BY <2>3, <2>5, <2>6 DEF DiskOK
<1>24. UsersOK'
  <2>1. \A m \in imap' \ names' : UserOf(p, m) => UserOf(p, m)'
    BY <1>1, <1>3, <1>13, <1>14, <1>15, <1>21 DEF UserOf
  <2>2. \A q \in Procs : Using(q) => pr[q].slot \in Slots
    BY DEF IInv, ProcOK, PlaceOK, Using, Writing
  <2>3. UsersOK
    BY DEF IInv
  <2> QED
    BY <1>1, <1>14, <1>21, <2>1, <2>2, <2>3, UsersKept
<1>25. \A t \in Slots : Uses(p, t)' <=> Uses(p, t)
  BY <1>3, <1>13, <1>14, <1>15 DEF Uses
<1>26. i.count = table[s].count + (B2N(Uses(p, s)') - B2N(Uses(p, s)))
  BY <1>9, <1>25 DEF B2N
<1>27. \A q \in Procs \ {p} :
           /\ pr[q].empty # s
           /\ pr[q].pc \in {"rread", "trunc"} => pr[q].slot # s
           /\ pr[q].pc = "fresh" /\ pr[q].slot = s =>
                i.nlinks = table[s].nlinks /\ i.count = table[s].count
           /\ pr[q].pc = "wread" /\ pr[q].slot = s => i.lock /\ i.dirt
           /\ pr'[p].pc \in {"wread", "rread"} /\ pr[q].pc \in {"wread", "rread"}
                => pr'[p].slot # pr[q].slot
           /\ pr'[p].pc \in {"wlock", "wread"} /\ pr[q].pc = "trunc" => pr'[p].slot # pr[q].slot
  BY <1>9, <1>11, <1>13, <1>14, <1>16
<1>28. /\ pr[p].pc \in {"rread", "fresh"} => pr[p].slot = s
       /\ pr'[p].pc \in {"rread", "fresh"} => pr'[p].slot = s
       /\ pr'[p].after = "umount" <=> pr[p].after = "umount"
       /\ pr'[p].empty = pr[p].empty
  BY <1>1, <1>11, <1>13, <1>14
<1> QED
  BY ONLY <1>1, <1>9, <1>10, <1>14, <1>17, <1>20, <1>22, <1>23, <1>24, <1>25, <1>26, <1>27, <1>28,
     TouchOne, IInv, p \in Procs, s \in Slots, i \in InodeRecords, ZenonT(60)

(* iget() finds the inode: nobody reads, frees or creates it, since it has *)
(* a name and is not locked.                                               *)
LEMMA Found ==
  ASSUME IInv, NEW p \in Procs, NEW s \in Slots, pr[p].want # 0, table[s].num = pr[p].want,
         ~table[s].lock
  PROVE  /\ table[s].num # 0 /\ \A q \in Procs : pr[q].empty # s
         /\ \A q \in Procs : pr[q].pc \in {"rread", "wread", "fresh", "trunc"} => pr[q].slot # s
<1>1. table[s].num \in names \cup {ROOT_INO}
  BY DEF IInv, ProcOK, WantOK
<1>2. ROOT_INO \notin Inodes
  BY InodesAssumption DEF ROOT_INO
<1>3. \A q \in Procs : pr[q].pc \in {"fresh", "trunc"} => pr[q].slot # s
  BY <1>1, <1>2 DEF IInv, ProcOK, StageOK
<1>4. \A q \in Procs : pr[q].pc \in {"rread", "wread"} => pr[q].slot # s
  BY DEF IInv, ProcOK, LockOK
<1> QED
  BY <1>3, <1>4, NotReserve

LEMMA IgetWaitedMountOK ==
  ASSUME IInv, NEW p \in Procs, pr[p].pc = "iwait", cpu \in {None, p},
         NEW s \in Slots, s = pr[p].slot, ~table[s].lock, table[s].num = pr[p].want,
         table' = [table EXCEPT ![s].count = @ + 1],
         Go(p, [pr[p] EXCEPT !.pc = "put", !.after = "scan", !.want = ROOT_INO]),
         UNCHANGED <<disk, imap, names, sb>>
  PROVE  IInv'
<1>2. PlaceOK(p) /\ WantOK(p) /\ ReserveOK(p) /\ SlotOK(s)
  BY ProcFacts DEF ProcOK, IInv
<1>3. pr[p].want # 0 /\ pr[p].empty # 0 /\ pr[p].after # "umount"
  BY <1>2 DEF PlaceOK, Putting, Writing
<1>4. /\ table[s].num # 0 /\ \A q \in Procs : pr[q].empty # s
      /\ \A q \in Procs : pr[q].pc \in {"rread", "wread", "fresh", "trunc"} => pr[q].slot # s
  BY <1>3, Found
<1>5. table[s].count \in Nat
  BY ProcFacts DEF InodeRecords
<1>7. PICK i \in InodeRecords : i = [table[s] EXCEPT !.count = table[s].count + 1]
  BY <1>5, ProcFacts DEF InodeRecords
<1>8. /\ i.num = table[s].num /\ i.count = table[s].count + 1 /\ i.dirt = table[s].dirt
      /\ i.lock = table[s].lock /\ i.nlinks = table[s].nlinks /\ i.cur = table[s].cur
  BY <1>7, ProcFacts DEF InodeRecords
<1>9. table' = [table EXCEPT ![s] = i] /\ table'[s] = i
  BY <1>7, ProcFacts
<1>10. PICK r \in ProcRecords : r = [pr[p] EXCEPT !.pc = "put", !.after = "scan", !.want = ROOT_INO]
  <2>1. pr[p] \in ProcRecords
    BY ProcFacts
  <2> QED
    BY ONLY <2>1 DEF ProcRecords, PCs, UsingPcs, All
<1>11. /\ r.pc = "put" /\ r.slot = s /\ r.empty = pr[p].empty /\ r.want = ROOT_INO
       /\ r.after = "scan"
  BY <1>10, ProcFacts DEF ProcRecords
<1>12. /\ pr' \in [Procs -> ProcRecords] /\ pr'[p] = r /\ cpu' \in {None, p}
       /\ \A q \in Procs \ {p} : pr'[q] = pr[q]
  BY <1>10, GoOK
<1>13. ~Using(p) /\ Using(p)' /\ Putting(p)' /\ ~UserPc(p) /\ ~Writing(p, "sync")'
  BY <1>11, <1>12 DEF Using, Putting, Writing, UsingPcs, UserPc
<1>15. ProcOK(p)'
  <2>1. PlaceOK(p)'
    BY <1>3, <1>11, <1>12, <1>13 DEF PlaceOK, UsingPcs
  <2>2. WantOK(p)'
    BY <1>11, <1>12 DEF WantOK
  <2>3. LockOK(p)'
    BY <1>11, <1>12 DEF LockOK
  <2>4. ReserveOK(p)'
    <3>2. pr[p].empty # 0 => table'[pr[p].empty] = table[pr[p].empty]
      BY <1>4, <1>9, ProcFacts
    <3> QED
      BY <1>2, <1>11, <1>12, <3>2 DEF ReserveOK
  <2>5. StageOK(p)'
    BY <1>4, <1>8, <1>9, <1>11, <1>12 DEF StageOK
  <2> QED
    BY <2>1, <2>2, <2>3, <2>4, <2>5 DEF ProcOK
<1>16. SlotOK(s)'
  <2>1. (BeingRead(s)' <=> BeingRead(s)) /\ (IsFresh(s)' <=> IsFresh(s))
    BY <1>11, <1>12, ReadersSame
  <2>2. Mounted(s)' <=> Mounted(s)
    BY <1>3, <1>11, <1>12 DEF Mounted, Umounting
  <2>3. i.count # 0
    BY <1>5, <1>8
  <2> QED
    BY <1>2, <1>8, <1>9, <2>1, <2>2, <2>3 DEF SlotOK, Named
<1>17. \A t \in Slots : table'[t].num = table[t].num /\ table'[t].dirt = table[t].dirt
  BY <1>8, <1>9, ProcFacts
<1>18. DiskOK'
  <2>1. \A q \in Procs : pr'[q].pc = "fresh" => pr[q].pc = "fresh" /\ pr'[q].slot = pr[q].slot
    BY <1>11, <1>12
  <2>2. \A q \in Procs : pr[q].pc = "fresh" => pr[q].slot \in Slots
    BY DEF IInv, ProcOK, PlaceOK, UsingPcs
  <2>3. DiskOK
    BY DEF IInv
  <2> QED
    BY <1>17, <2>1, <2>2, <2>3, DiskKept
<1>19. UsersOK'
  <2>1. \A n \in imap' \ names' : ~UserOf(p, n)
    BY <1>13 DEF UserOf, UserPc
  <2>2. \A q \in Procs : Using(q) => pr[q].slot \in Slots
    BY DEF IInv, ProcOK, PlaceOK, Using, Writing
  <2>3. UsersOK
    BY DEF IInv
  <2> QED
    BY <1>12, <1>17, <2>1, <2>2, <2>3, UsersKept
<1>20. \A t \in Slots : ~Uses(p, t) /\ (Uses(p, t)' <=> t = s)
  BY <1>11, <1>12, <1>13 DEF Uses
<1>21. i.count = table[s].count + (B2N(Uses(p, s)') - B2N(Uses(p, s)))
  BY <1>5, <1>8, <1>20 DEF B2N
<1>22. disk' \in [All -> [nlinks : {0, 1}, cur : BOOLEAN]]
  BY ProcFacts
<1>23. \A q \in Procs \ {p} :
           /\ pr[q].empty # s
           /\ pr[q].pc \in {"rread", "trunc"} => pr[q].slot # s
           /\ pr[q].pc = "fresh" /\ pr[q].slot = s =>
                i.nlinks = table[s].nlinks /\ i.count = table[s].count
           /\ pr[q].pc = "wread" /\ pr[q].slot = s => i.lock /\ i.dirt
           /\ pr'[p].pc \in {"wread", "rread"} /\ pr[q].pc \in {"wread", "rread"}
                => pr'[p].slot # pr[q].slot
           /\ pr'[p].pc \in {"wlock", "wread"} /\ pr[q].pc = "trunc" => pr'[p].slot # pr[q].slot
  BY <1>4, <1>11, <1>12
<1>24. /\ pr[p].pc \in {"rread", "fresh"} => pr[p].slot = s
       /\ pr'[p].pc \in {"rread", "fresh"} => pr'[p].slot = s
       /\ pr'[p].after = "umount" <=> pr[p].after = "umount"
       /\ pr'[p].empty = pr[p].empty
  BY <1>3, <1>11, <1>12
<1>25. \A t \in Slots \ {s} : Uses(p, t)' <=> Uses(p, t)
  BY <1>20
<1>26. i.num = table[s].num /\ table' = [table EXCEPT ![s] = i] /\ UNCHANGED <<imap, names, sb>>
  BY <1>8, <1>9
<1> QED
  BY ONLY <1>12, <1>15, <1>16, <1>18, <1>19, <1>21, <1>22, <1>23, <1>24, <1>25, <1>26, TouchOne,
     IInv, p \in Procs, s \in Slots, i \in InodeRecords, cpu \in {None, p}

(* What iget() changes when it finds the inode after waiting for it: the   *)
(* slot in reserve is given back.                                          *)
HoldStep(p, s) ==
  /\ table' = [table EXCEPT ![s].count = @ + 1, ![pr[p].empty].count = @ - 1]
  /\ Sleep(p, [Out EXCEPT !.pc = "hold", !.slot = s])

LEMMA IgetWaitedHoldOK ==
  ASSUME IInv, NEW p \in Procs, pr[p].pc = "iwait", cpu \in {None, p},
         NEW s \in Slots, s = pr[p].slot, ~table[s].lock, table[s].num = pr[p].want,
         HoldStep(p, s), UNCHANGED <<disk, imap, names, sb>>
  PROVE  IInv'
<1>2. PlaceOK(p) /\ WantOK(p) /\ ReserveOK(p) /\ SlotOK(s)
  BY ProcFacts DEF ProcOK, IInv
<1>3. pr[p].want # 0 /\ pr[p].empty # 0 /\ pr[p].after # "umount"
  BY <1>2 DEF PlaceOK, Putting, Writing
<1>4. /\ table[s].num # 0 /\ \A q \in Procs : pr[q].empty # s
      /\ \A q \in Procs : pr[q].pc \in {"rread", "wread", "fresh", "trunc"} => pr[q].slot # s
  BY <1>3, Found
<1>5. table[s].count \in Nat
  BY ProcFacts DEF InodeRecords
<1>6. PICK e \in Slots : e = pr[p].empty
  BY <1>3, ProcFacts DEF ProcRecords
<1>7. /\ table[e] = [NoInode EXCEPT !.count = 1] /\ ~Mounted(e)
      /\ \A q \in Procs : ~Uses(q, e) /\ (pr[q].empty = e => q = p)
      /\ \A q \in Procs : pr[q].pc \in {"wread", "rread"} => pr[q].slot # e
  BY <1>3, <1>6, InReserve
<1>8. s # e
  BY <1>4, <1>6
<1>9. PICK i, j \in InodeRecords : /\ i = [table[s] EXCEPT !.count = table[s].count + 1]
                                   /\ j = [table[e] EXCEPT !.count = table[e].count - 1]
  <2>1. [table[s] EXCEPT !.count = table[s].count + 1] \in InodeRecords
    BY <1>5, ProcFacts DEF InodeRecords
  <2>2. table[e].count = 1
    BY <1>7 DEF NoInode
  <2>3. [table[e] EXCEPT !.count = table[e].count - 1] \in InodeRecords
    BY <2>2, ProcFacts DEF InodeRecords
  <2> QED
    BY <2>1, <2>3
<1>10. /\ i.num = table[s].num /\ i.count = table[s].count + 1 /\ i.dirt = table[s].dirt
       /\ i.lock = table[s].lock /\ i.nlinks = table[s].nlinks /\ i.cur = table[s].cur
  BY <1>9, ProcFacts DEF InodeRecords
<1>11. j.num = 0 /\ j.count = 0 /\ ~j.dirt /\ ~j.lock /\ table[e].count = 1 /\ table[e].num = 0 /\ ~table[e].dirt
  BY <1>7, <1>9 DEF NoInode
<1>12. /\ table' \in [Slots -> InodeRecords]
       /\ table'[s] = i /\ table'[e] = j /\ \A t \in Slots \ {s, e} : table'[t] = table[t]
  <2>1. table' = [table EXCEPT ![s] = i, ![e] = j]
    BY <1>6, <1>9, ProcFacts DEF HoldStep
  <2>2. table \in [Slots -> InodeRecords]
    BY ProcFacts
  <2> QED
    BY ONLY <1>8, <2>1, <2>2, s \in Slots, e \in Slots, i \in InodeRecords, j \in InodeRecords, SMTT(30)
<1>13. PICK r \in ProcRecords : r = [Out EXCEPT !.pc = "hold", !.slot = s]
  <2>1. Out \in ProcRecords
    BY OutIs
  <2> QED
    BY ONLY <2>1, s \in Slots DEF ProcRecords, PCs, UsingPcs
<1>14. /\ r.pc = "hold" /\ r.slot = s /\ r.empty = 0 /\ r.want = 0 /\ r.after = ""
  BY <1>13, OutIs DEF ProcRecords
<1>15. /\ pr' \in [Procs -> ProcRecords] /\ pr'[p] = r /\ cpu' \in {None, p}
       /\ \A q \in Procs \ {p} : pr'[q] = pr[q]
  <2>1. Sleep(p, r)
    BY <1>13 DEF HoldStep
  <2> QED
    BY <2>1, GoOK
<1>16. ~Using(p) /\ Using(p)' /\ ~Putting(p)' /\ ~UserPc(p) /\ ~Writing(p, "sync")'
  BY <1>14, <1>15 DEF Using, Putting, Writing, UsingPcs, UserPc
<1>17. ProcOK(p)'
  <2>1. PlaceOK(p)'
    BY <1>14, <1>15, <1>16 DEF PlaceOK, UsingPcs
  <2>2. WantOK(p)'
    BY <1>14, <1>15 DEF WantOK
  <2>3. LockOK(p)'
    BY <1>14, <1>15 DEF LockOK
  <2>4. ReserveOK(p)'
    BY <1>14, <1>15 DEF ReserveOK
  <2>5. StageOK(p)'
    BY <1>4, <1>10, <1>12, <1>14, <1>15 DEF StageOK
  <2> QED
    BY <2>1, <2>2, <2>3, <2>4, <2>5 DEF ProcOK
<1>18. \A t : Mounted(t)' <=> Mounted(t)
  BY <1>3, <1>14, <1>15 DEF Mounted, Umounting
<1>19. SlotOK(s)'
  <2>1. (BeingRead(s)' <=> BeingRead(s)) /\ (IsFresh(s)' <=> IsFresh(s))
    BY <1>14, <1>15, ReadersSame
  <2>2. i.count # 0
    BY <1>5, <1>10
  <2> QED
    BY <1>2, <1>10, <1>12, <1>18, <2>1, <2>2 DEF SlotOK, Named
<1>20. SlotOK(e)'
  BY <1>7, <1>11, <1>12, <1>18 DEF SlotOK
<1>21. \A t \in Slots : table'[t].num = table[t].num /\ (table[t].dirt => table'[t].dirt)
  BY <1>10, <1>11, <1>12
<1>22. DiskOK'
  <2>1. \A q \in Procs : pr'[q].pc = "fresh" => pr[q].pc = "fresh" /\ pr'[q].slot = pr[q].slot
    BY <1>14, <1>15
  <2>2. \A q \in Procs : pr[q].pc = "fresh" => pr[q].slot \in Slots
    BY DEF IInv, ProcOK, PlaceOK, UsingPcs
  <2>3. DiskOK
    BY DEF IInv
  <2> QED
    BY <1>21, <2>1, <2>2, <2>3, DiskKept
<1>23. UsersOK'
  <2>1. \A n \in imap' \ names' : ~UserOf(p, n)
    BY <1>16 DEF UserOf, UserPc
  <2>2. \A q \in Procs : Using(q) => pr[q].slot \in Slots
    BY DEF IInv, ProcOK, PlaceOK, Using, Writing
  <2>3. UsersOK
    BY DEF IInv
  <2> QED
    BY <1>15, <1>21, <2>1, <2>2, <2>3, UsersKept
<1>24. TypeOK'
  <2>1. TypeOK
    BY DEF IInv
  <2>2. cpu' \in Procs \cup {None}
    BY <1>15
  <2> QED
    BY <1>12, <1>15, <2>1, <2>2 DEF TypeOK
<1>25. UniqueInode'
  <2>1. UniqueInode /\ \A t \in Slots : table'[t].num = table[t].num
    BY <1>21 DEF IInv
  <2> QED
    BY ONLY <2>1 DEF UniqueInode
<1>26. CountIsRefs'
  <2>1. \A t \in Slots : ~Uses(p, t) /\ (Uses(p, t)' <=> t = s)
    BY <1>14, <1>15, <1>16 DEF Uses
  <2>2. ASSUME NEW t \in Slots
        PROVE table'[t].count = table[t].count
             + (B2N(pr'[p].empty = t) - B2N(pr[p].empty = t))
             + (B2N(Uses(p, t)') - B2N(Uses(p, t)))
             + (MountRef(t)' - MountRef(t))
    <3>1. B2N(pr'[p].empty = t) - B2N(pr[p].empty = t) = IF t = e THEN -1 ELSE 0
      <4>1. ~(pr'[p].empty = t) /\ (pr[p].empty = t <=> t = e)
        BY <1>6, <1>14, <1>15, ProcFacts
      <4> QED
        BY ONLY <4>1 DEF B2N
    <3>2. MountRef(t)' - MountRef(t) = 0
      BY <1>18 DEF MountRef
    <3>3. B2N(Uses(p, t)') - B2N(Uses(p, t)) = IF t = s THEN 1 ELSE 0
      BY <2>1 DEF B2N
    <3>4. table[t].count \in Nat
      BY ProcFacts DEF InodeRecords
    <3>5. table'[t].count = IF t = s THEN table[t].count + 1
                            ELSE IF t = e THEN 0 ELSE table[t].count
      BY <1>8, <1>10, <1>11, <1>12
    <3> QED
      BY <1>8, <1>11, <3>1, <3>2, <3>3, <3>4, <3>5
  <2>3. CountIsRefs
    BY DEF IInv
  <2> QED
    BY <1>15, <2>2, <2>3, CountStep
<1>27. PICK T : T = {s, e}
  OBVIOUS
<1>28. \A q \in Procs : pr[q].pc \in {"fresh", "trunc"} => table[pr[q].slot].num \notin names'
  BY DEF IInv, ProcOK, StageOK
<1>29. \A q \in Procs : pr[q].want \in names' \cup {0, ROOT_INO}
  BY DEF IInv, ProcOK, WantOK
<1>30. \A t \in Slots : table[t].num \in imap' \cup {0, ROOT_INO}
  BY DEF IInv, SlotOK
<1>31. \A q \in Procs : pr[q].pc \in {"rread", "wread", "fresh", "trunc"} => pr[q].slot \notin T
  <2>1. \A q \in Procs : pr[q].pc \in {"rread", "fresh", "trunc"} => pr[q].slot # e
    BY <1>7 DEF Uses, Using, UsingPcs
  <2> QED
    BY <1>4, <1>7, <1>27, <2>1
<1>32. \A q \in Procs \ {p} :
           /\ pr[q].empty \notin T
           /\ pr[q].pc \in {"rread", "trunc"} => pr[q].slot \notin T
           /\ pr[q].pc \in {"fresh", "trunc"} => table[pr[q].slot].num \notin names'
           /\ pr[q].pc = "fresh" /\ pr[q].slot \in T =>
                table'[pr[q].slot].nlinks = table[pr[q].slot].nlinks
                /\ table'[pr[q].slot].count = table[pr[q].slot].count
           /\ pr[q].slot \in T /\ Using(q) => table'[pr[q].slot].num = table[pr[q].slot].num
           /\ pr[q].slot \in T /\ pr[q].pc = "wread" => table'[pr[q].slot].lock /\ table'[pr[q].slot].dirt
           /\ pr[q].want \in names' \cup {0, ROOT_INO}
           /\ pr'[p].pc \in {"wread", "rread"} /\ pr[q].pc \in {"wread", "rread"}
                => pr'[p].slot # pr[q].slot
           /\ pr'[p].pc \in {"wlock", "wread"} /\ pr[q].pc = "trunc" => pr'[p].slot # pr[q].slot
  BY <1>4, <1>7, <1>14, <1>15, <1>21, <1>27, <1>28, <1>29, <1>31
<1>33. \A t \in Slots \ T :
           /\ table[t].num \in imap' \cup {0, ROOT_INO}
           /\ table[t].num \in names' <=> table[t].num \in names
           /\ Mounted(t)' => Mounted(t)
           /\ pr[p].pc \notin {"rread", "fresh"} \/ pr[p].slot # t
           /\ pr'[p].pc \notin {"rread", "fresh"} \/ pr'[p].slot # t
  BY <1>14, <1>15, <1>18, <1>30
<1>34. \A t \in Slots \ T : table'[t] = table[t]
  BY <1>12, <1>27
<1>35. \A t \in Slots : t \in T => SlotOK(t)'
  BY <1>19, <1>20, <1>27
<1> QED
  BY ONLY <1>15, <1>17, <1>22, <1>23, <1>24, <1>25, <1>26, <1>32, <1>33, <1>34, <1>35, Touch, IInv,
          p \in Procs, cpu \in {None, p}, SMTT(30)

LEMMA IgetWaitedOK ==
  ASSUME IInv, NEW p \in Procs, IgetWaited(p)
  PROVE  IInv'
<1>1. pr[p].pc = "iwait" /\ cpu \in {None, p} /\ UNCHANGED <<disk, imap, names, sb>>
  BY DEF IgetWaited, Runs
<1>2. PlaceOK(p) /\ WantOK(p)
  BY ProcFacts DEF ProcOK
<1>3. PICK s \in Slots : s = pr[p].slot
  BY <1>1, <1>2 DEF PlaceOK
<1>4. ~table[s].lock
  BY <1>3 DEF IgetWaited
<1>5. CASE UNCHANGED table /\ Go(p, [pr[p] EXCEPT !.pc = "scan"])
  <2>1. pr[p].want # 0 /\ pr[p].empty # 0 /\ pr[p].after # "umount"
    BY <1>1, <1>2 DEF PlaceOK, Putting, Writing
  <2>2. PICK r \in ProcRecords : r = [pr[p] EXCEPT !.pc = "scan"]
    <3>1. pr[p] \in ProcRecords
      BY ProcFacts
    <3> QED
      BY ONLY <3>1 DEF ProcRecords, PCs
  <2>3. r.pc = "scan" /\ r.empty = pr[p].empty /\ r.want = pr[p].want /\ r.after = pr[p].after
    BY <2>2, ProcFacts DEF ProcRecords
  <2>4. /\ pr' \in [Procs -> ProcRecords] /\ pr'[p] = r /\ cpu' \in {None, p}
        /\ \A q \in Procs \ {p} : pr'[q] = pr[q]
    BY <1>5, <2>2, GoOK
  <2>5. ~Using(p) /\ ~UserPc(p) /\ ~Using(p)' /\ ~Putting(p)' /\ ~Writing(p, "sync")'
    BY <1>1, <2>3, <2>4 DEF Using, UserPc, Putting, Writing, UsingPcs
  <2>6. PlaceOK(p)'
    BY <2>1, <2>3, <2>4, <2>5 DEF PlaceOK, UsingPcs
  <2>7. pr'[p].want \in names \cup {0, ROOT_INO}
    BY <1>2, <2>3, <2>4 DEF WantOK
  <2> QED
    BY <1>1, <1>5, <2>1, <2>3, <2>4, <2>5, <2>6, <2>7, ProcFacts, Quiet
<1>6. CASE /\ SameInode(p) /\ table' = [table EXCEPT ![s].count = @ + 1]
           /\ Go(p, [pr[p] EXCEPT !.pc = "put", !.after = "scan", !.want = ROOT_INO])
  BY <1>1, <1>3, <1>4, <1>6, IgetWaitedMountOK DEF SameInode
<1>7. CASE /\ SameInode(p)
           /\ table' = [table EXCEPT ![s].count = @ + 1, ![pr[p].empty].count = @ - 1]
           /\ Sleep(p, [Out EXCEPT !.pc = "hold", !.slot = s])
  BY <1>1, <1>3, <1>4, <1>7, IgetWaitedHoldOK DEF SameInode, HoldStep
<1> QED
  BY <1>3, <1>5, <1>6, <1>7 DEF IgetWaited

-----------------------------------------------------------------------------
(* Steps of p that give its reserve a number, or give it up.               *)
LEMMA TouchReserve ==
  ASSUME IInv, NEW p \in Procs, cpu \in {None, p}, cpu' \in {None, p}, NEW e \in Slots,
         e = pr[p].empty, NEW i \in InodeRecords, table' = [table EXCEPT ![e] = i],
         UNCHANGED <<names, sb>>, imap \subseteq imap', imap' \subseteq Inodes,
         disk' \in [All -> [nlinks : {0, 1}, cur : BOOLEAN]],
         pr' \in [Procs -> ProcRecords], \A q \in Procs \ {p} : pr'[q] = pr[q],
         pr[p].after # "umount", pr'[p].after # "umount", pr'[p].empty = 0,
         ~Using(p), Using(p)' => pr'[p].slot = e, i.count = B2N(Using(p)'),
         pr'[p].pc \notin {"wlock", "wread"},
         i.num # 0 => \A t \in Slots : table[t].num # i.num,
         ProcOK(p)', SlotOK(e)', DiskOK', UsersOK'
  PROVE  IInv'
<1>1. table \in [Slots -> InodeRecords] /\ table'[e] = i /\ 0 \notin Slots
  BY ProcFacts
<1>2. /\ table[e] = [NoInode EXCEPT !.count = 1] /\ ~Mounted(e)
      /\ \A q \in Procs : ~Uses(q, e) /\ (pr[q].empty = e => q = p)
      /\ \A q \in Procs : pr[q].pc \in {"wread", "rread"} => pr[q].slot # e
  BY <1>1, InReserve
<1>3. TypeOK'
  <2>1. TypeOK
    BY DEF IInv
  <2>2. table' \in [Slots -> InodeRecords]
    BY <1>1
  <2>3. cpu' \in Procs \cup {None} /\ names' \subseteq imap' /\ Dirs \subseteq names'
    BY <2>1 DEF TypeOK
  <2> QED
    BY <2>1, <2>2, <2>3 DEF TypeOK
<1>4. UniqueInode'
  <2>1. UniqueInode /\ \A t \in Slots \ {e} : table'[t] = table[t]
    BY <1>1 DEF IInv
  <2> QED
    BY <1>1, <2>1 DEF UniqueInode
<1>5. \A t : Mounted(t)' <=> Mounted(t)
  BY DEF Mounted, Umounting
<1>6. CountIsRefs'
  <2>1. \A t \in Slots : ~Uses(p, t) /\ (Uses(p, t)' <=> t = e /\ Using(p)')
    BY DEF Uses
  <2>2. table[e].count = 1
    BY <1>2 DEF NoInode
  <2>3. ASSUME NEW t \in Slots
        PROVE table'[t].count = table[t].count
             + (B2N(pr'[p].empty = t) - B2N(pr[p].empty = t))
             + (B2N(Uses(p, t)') - B2N(Uses(p, t)))
             + (MountRef(t)' - MountRef(t))
    <3>1. B2N(pr'[p].empty = t) - B2N(pr[p].empty = t) = IF t = e THEN -1 ELSE 0
      <4>1. ~(pr'[p].empty = t) /\ (pr[p].empty = t <=> t = e)
        BY <1>1
      <4> QED
        BY ONLY <4>1 DEF B2N
    <3>2. MountRef(t)' - MountRef(t) = 0
      BY <1>5 DEF MountRef
    <3>3. B2N(Uses(p, t)') - B2N(Uses(p, t)) = IF t = e THEN B2N(Using(p)') ELSE 0
      BY <2>1 DEF B2N
    <3>4. table[t].count \in Nat /\ B2N(Using(p)') \in {0, 1}
      BY <1>1 DEF InodeRecords, B2N
    <3>5. table'[t].count = IF t = e THEN B2N(Using(p)') ELSE table[t].count
      BY <1>1
    <3> QED
      BY <2>2, <3>1, <3>2, <3>3, <3>4, <3>5
  <2>4. CountIsRefs
    BY DEF IInv
  <2> QED
    BY <2>3, <2>4, CountStep
<1>7. PICK T : T = {e}
  OBVIOUS
<1>8. \A q \in Procs : pr[q].pc \in {"fresh", "trunc"} => table[pr[q].slot].num \notin names'
  BY DEF IInv, ProcOK, StageOK
<1>9. \A q \in Procs : pr[q].want \in names' \cup {0, ROOT_INO}
  BY DEF IInv, ProcOK, WantOK
<1>10. \A t \in Slots : table[t].num \in imap' \cup {0, ROOT_INO}
  BY DEF IInv, SlotOK
<1>11. \A q \in Procs : Using(q) \/ pr[q].pc \in {"rread", "wread", "fresh", "trunc"} => pr[q].slot \notin T
  <2>1. \A q \in Procs : Using(q) => pr[q].slot # e
    BY <1>2 DEF Uses
  <2>2. \A q \in Procs : pr[q].pc \in {"rread", "fresh", "trunc"} => Using(q)
    BY DEF Using, UsingPcs
  <2> QED
    BY <1>2, <1>7, <2>1, <2>2
<1>12. pr'[p].pc = "rread" => pr'[p].slot = e
  BY DEF Using, UsingPcs
<1>13. \A q \in Procs \ {p} :
           /\ pr[q].empty \notin T
           /\ pr[q].pc \in {"rread", "trunc"} => pr[q].slot \notin T
           /\ pr[q].pc \in {"fresh", "trunc"} => table[pr[q].slot].num \notin names'
           /\ pr[q].pc = "fresh" /\ pr[q].slot \in T =>
                table'[pr[q].slot].nlinks = table[pr[q].slot].nlinks
                /\ table'[pr[q].slot].count = table[pr[q].slot].count
           /\ pr[q].slot \in T /\ Using(q) => table'[pr[q].slot].num = table[pr[q].slot].num
           /\ pr[q].slot \in T /\ pr[q].pc = "wread" => table'[pr[q].slot].lock /\ table'[pr[q].slot].dirt
           /\ pr[q].want \in names' \cup {0, ROOT_INO}
           /\ pr'[p].pc \in {"wread", "rread"} /\ pr[q].pc \in {"wread", "rread"}
                => pr'[p].slot # pr[q].slot
           /\ pr'[p].pc \in {"wlock", "wread"} /\ pr[q].pc = "trunc" => pr'[p].slot # pr[q].slot
  BY <1>2, <1>7, <1>8, <1>9, <1>11, <1>12
<1>14. \A t \in Slots \ T :
           /\ table[t].num \in imap' \cup {0, ROOT_INO}
           /\ table[t].num \in names' <=> table[t].num \in names
           /\ Mounted(t)' => Mounted(t)
           /\ pr[p].pc \notin {"rread", "fresh"} \/ pr[p].slot # t
           /\ pr'[p].pc \notin {"rread", "fresh"} \/ pr'[p].slot # t
  BY <1>5, <1>7, <1>10 DEF Using, UsingPcs
<1>15. \A t \in Slots \ T : table'[t] = table[t]
  BY <1>1, <1>7
<1>16. \A t \in Slots : t \in T => SlotOK(t)'
  BY <1>7
<1> QED
  BY ONLY <1>3, <1>4, <1>6, <1>13, <1>14, <1>15, <1>16, Touch, IInv, p \in Procs, cpu \in {None, p},
          \A q \in Procs \ {p} : pr'[q] = pr[q], ProcOK(p)', DiskOK', UsersOK'

LEMMA MinIn ==
  ASSUME NEW S \in SUBSET Nat, S # {}
  PROVE  Min(S) \in S
<1>1. \E x \in S : \A y \in S : x <= y
  BY HasLeast
<1> QED
  BY <1>1 DEF Min

LEMMA IgetFoundOK ==
  ASSUME IInv, NEW p \in Procs, pr[p].pc = "scan", cpu \in {None, p},
         NEW s \in Slots, Go(p, [pr[p] EXCEPT !.pc = "iwait", !.slot = s]),
         UNCHANGED <<table, disk, imap, names, sb>>
  PROVE  IInv'
<1>1. PlaceOK(p) /\ WantOK(p)
  BY ProcFacts DEF ProcOK
<1>2. pr[p].want # 0 /\ pr[p].empty # 0 /\ pr[p].after # "umount"
  BY <1>1 DEF PlaceOK, Putting, Writing
<1>3. PICK r \in ProcRecords : r = [pr[p] EXCEPT !.pc = "iwait", !.slot = s]
  <2>1. pr[p] \in ProcRecords
    BY ProcFacts
  <2> QED
    BY ONLY <2>1, s \in Slots DEF ProcRecords, PCs
<1>4. r.pc = "iwait" /\ r.slot = s /\ r.empty = pr[p].empty /\ r.want = pr[p].want
      /\ r.after = pr[p].after
  BY <1>3, ProcFacts DEF ProcRecords
<1>5. /\ pr' \in [Procs -> ProcRecords] /\ pr'[p] = r /\ cpu' \in {None, p}
      /\ \A q \in Procs \ {p} : pr'[q] = pr[q]
  BY <1>3, GoOK
<1>6. ~Using(p) /\ ~UserPc(p) /\ ~Using(p)' /\ ~Putting(p)' /\ ~Writing(p, "sync")'
  BY <1>4, <1>5 DEF Using, UserPc, Putting, Writing, UsingPcs
<1>7. PlaceOK(p)'
  BY <1>2, <1>4, <1>5, <1>6 DEF PlaceOK, UsingPcs
<1>8. pr'[p].want \in names \cup {0, ROOT_INO}
  BY <1>1, <1>4, <1>5 DEF WantOK
<1> QED
  BY <1>2, <1>4, <1>5, <1>6, <1>7, <1>8, ProcFacts, Quiet

LEMMA IgetInstallOK ==
  ASSUME IInv, NEW p \in Procs, pr[p].pc = "scan", cpu \in {None, p},
         NEW e \in Slots, e = pr[p].empty, Matches(pr[p].want) = {},
         table' = [table EXCEPT ![e].num = pr[p].want, ![e].lock = TRUE],
         Sleep(p, [pr[p] EXCEPT !.pc = "rread", !.slot = e, !.empty = 0]),
         UNCHANGED <<disk, imap, names, sb>>
  PROVE  IInv'
<1>1. PlaceOK(p) /\ WantOK(p)
  BY ProcFacts DEF ProcOK
<1>2. pr[p].want # 0 /\ pr[p].empty # 0 /\ pr[p].after # "umount"
  BY <1>1 DEF PlaceOK, Putting, Writing
<1>3. pr[p].want \in names \cup {ROOT_INO} /\ pr[p].want \in All
  BY <1>1, <1>2, ProcFacts DEF WantOK, ProcRecords
<1>4. /\ table[e] = [NoInode EXCEPT !.count = 1] /\ ~Mounted(e)
      /\ \A q \in Procs : ~Uses(q, e) /\ (pr[q].empty = e => q = p)
      /\ \A q \in Procs : pr[q].pc \in {"wread", "rread"} => pr[q].slot # e
  BY <1>2, InReserve
<1>5. PICK i \in InodeRecords : i = [table[e] EXCEPT !.num = pr[p].want, !.lock = TRUE]
  <2>1. table[e] \in InodeRecords /\ pr[p].want \in All
    BY <1>3, ProcFacts
  <2>2. [table[e] EXCEPT !.num = pr[p].want, !.lock = TRUE] \in InodeRecords
    BY ONLY <2>1 DEF InodeRecords
  <2> QED
    BY <2>2
<1>6. i.num = pr[p].want /\ i.count = 1 /\ ~i.dirt /\ i.lock /\ ~table[e].dirt
  BY <1>4, <1>5 DEF NoInode
<1>7. table' = [table EXCEPT ![e] = i] /\ table'[e] = i
  BY <1>5, ProcFacts
<1>8. PICK r \in ProcRecords : r = [pr[p] EXCEPT !.pc = "rread", !.slot = e, !.empty = 0]
  <2>1. pr[p] \in ProcRecords
    BY ProcFacts
  <2> QED
    BY ONLY <2>1, e \in Slots DEF ProcRecords, PCs, UsingPcs
<1>9. r.pc = "rread" /\ r.slot = e /\ r.empty = 0 /\ r.want = pr[p].want /\ r.after = pr[p].after
  BY <1>8, ProcFacts DEF ProcRecords
<1>10. /\ pr' \in [Procs -> ProcRecords] /\ pr'[p] = r /\ cpu' \in {None, p}
       /\ \A q \in Procs \ {p} : pr'[q] = pr[q]
  BY <1>8, GoOK
<1>11. ~Using(p) /\ ~UserPc(p) /\ Using(p)' /\ ~Putting(p)' /\ ~Writing(p, "sync")'
  BY <1>9, <1>10 DEF Using, UserPc, Putting, Writing, UsingPcs
<1>12. ProcOK(p)'
  <2>1. PlaceOK(p)'
    BY <1>2, <1>9, <1>10, <1>11 DEF PlaceOK, UsingPcs
  <2>2. WantOK(p)'
    BY <1>3, <1>9, <1>10 DEF WantOK
  <2>3. LockOK(p)'
    <3>1. \A q \in Procs : pr'[q].pc \in {"wread", "rread"} /\ pr'[q].slot = e => q = p
      BY <1>4, <1>10
    <3> QED
      BY <1>6, <1>7, <1>9, <1>10, <3>1 DEF LockOK
  <2>4. ReserveOK(p)'
    BY <1>9, <1>10 DEF ReserveOK
  <2>5. StageOK(p)'
    BY <1>2, <1>6, <1>7, <1>9, <1>10 DEF StageOK
  <2> QED
    BY <2>1, <2>2, <2>3, <2>4, <2>5 DEF ProcOK
<1>13. SlotOK(e)'
  <2>1. BeingRead(e)'
    BY <1>9, <1>10 DEF BeingRead
  <2>2. ~Mounted(e)'
    BY <1>2, <1>4, <1>9, <1>10 DEF Mounted, Umounting
  <2>3. i.num \in imap' \cup {0, ROOT_INO}
    BY <1>3, <1>6 DEF IInv, TypeOK
  <2>4. table'[e].num \in imap' \cup {0, ROOT_INO} /\ table'[e].count # 0 /\ ~table'[e].dirt
    BY ONLY <1>6, <1>7, <2>3
  <2> QED
    BY ONLY <2>1, <2>2, <2>4 DEF SlotOK
<1>14. \A t \in Slots \ {e} : table'[t] = table[t]
  BY <1>7, ProcFacts
<1>15. \A q \in Procs : Using(q) => pr[q].slot \in Slots \ {e}
  BY <1>4 DEF IInv, ProcOK, PlaceOK, Uses, Using, Writing
<1>16. DiskOK'
  <2>1. \A q \in Procs : pr'[q].pc = "fresh" => pr[q].pc = "fresh" /\ pr'[q].slot = pr[q].slot
    BY <1>9, <1>10
  <2>2. \A q \in Procs : pr[q].pc = "fresh" => pr[q].slot \in Slots \ {e}
    BY <1>15 DEF Using, UsingPcs
  <2>3. DiskOK
    BY DEF IInv
  <2> QED
    BY <1>6, <1>14, <2>1, <2>2, <2>3, DiskKept
<1>17. UsersOK'
  <2>1. \A n \in imap' \ names' : ~UserOf(p, n)
    BY <1>11 DEF UserOf, UserPc
  <2>2. UsersOK
    BY DEF IInv
  <2> QED
    BY <1>10, <1>14, <1>15, <2>1, <2>2, UsersKept
<1>18. \A t \in Slots : table[t].num # i.num
  BY <1>6 DEF Matches
<1>19. i.count = B2N(Using(p)') /\ (Using(p)' => pr'[p].slot = e)
  BY <1>6, <1>9, <1>10, <1>11 DEF B2N
<1>20. /\ imap \subseteq imap' /\ imap' \subseteq Inodes
       /\ disk' \in [All -> [nlinks : {0, 1}, cur : BOOLEAN]]
  BY DEF IInv, TypeOK
<1>21. /\ pr[p].after # "umount" /\ pr'[p].after # "umount" /\ pr'[p].empty = 0
       /\ ~Using(p) /\ pr'[p].pc \notin {"wlock", "wread"} /\ UNCHANGED <<names, sb>>
  BY <1>2, <1>9, <1>10, <1>11
<1> QED
  BY ONLY <1>7, <1>10, <1>12, <1>13, <1>16, <1>17, <1>18, <1>19, <1>20, <1>21, TouchReserve, IInv,
     p \in Procs, cpu \in {None, p}, e \in Slots, e = pr[p].empty, i \in InodeRecords

LEMMA IgetOK ==
  ASSUME IInv, NEW p \in Procs, Iget(p)
  PROVE  IInv'
<1>1. pr[p].pc = "scan" /\ cpu \in {None, p} /\ UNCHANGED <<disk, imap, names, sb>>
  BY DEF Iget, Runs
<1>2. PICK e \in Slots : e = pr[p].empty
  BY <1>1, ProcFacts DEF ProcOK, PlaceOK, ProcRecords
<1>3. CASE /\ Matches(pr[p].want) = {}
           /\ table' = [table EXCEPT ![e].num = pr[p].want, ![e].lock = TRUE]
           /\ Sleep(p, [pr[p] EXCEPT !.pc = "rread", !.slot = e, !.empty = 0])
  BY <1>1, <1>2, <1>3, IgetInstallOK
<1>4. CASE /\ Matches(pr[p].want) # {} /\ UNCHANGED table
           /\ Go(p, [pr[p] EXCEPT !.pc = "iwait", !.slot = Min(Matches(pr[p].want))])
  <2>1. Matches(pr[p].want) \subseteq Slots /\ Slots \subseteq Nat
    BY SlotsAssumption DEF Matches, Slots
  <2>2. Min(Matches(pr[p].want)) \in Slots
    BY <1>4, <2>1, MinIn
  <2> QED
    BY <1>1, <1>4, <2>2, IgetFoundOK
<1> QED
  BY <1>2, <1>3, <1>4 DEF Iget

(* new_inode() without a free number gives the slot back.                  *)
LEMMA NewInodeFailOK ==
  ASSUME IInv, NEW p \in Procs, pr[p].pc = "new", cpu \in {None, p},
         NEW e \in Slots, e = pr[p].empty, table' = [table EXCEPT ![e].count = 0],
         Sleep(p, Out), UNCHANGED <<disk, imap, names, sb>>
  PROVE  IInv'
<1>1. PlaceOK(p) /\ WantOK(p)
  BY ProcFacts DEF ProcOK
<1>2. pr[p].empty # 0 /\ pr[p].after # "umount"
  BY <1>1 DEF PlaceOK, Putting, Writing
<1>4. /\ table[e] = [NoInode EXCEPT !.count = 1] /\ ~Mounted(e)
      /\ \A q \in Procs : ~Uses(q, e) /\ (pr[q].empty = e => q = p)
      /\ \A q \in Procs : pr[q].pc \in {"wread", "rread"} => pr[q].slot # e
  BY <1>2, InReserve
<1>5. PICK i \in InodeRecords : i = [table[e] EXCEPT !.count = 0]
  BY ProcFacts DEF InodeRecords
<1>6. i.num = 0 /\ i.count = 0 /\ ~i.dirt /\ ~i.lock /\ ~table[e].dirt
  BY <1>4, <1>5 DEF NoInode
<1>7. table' = [table EXCEPT ![e] = i] /\ table'[e] = i
  BY <1>5, ProcFacts
<1>10. /\ pr' \in [Procs -> ProcRecords] /\ pr'[p] = Out /\ cpu' \in {None, p}
       /\ \A q \in Procs \ {p} : pr'[q] = pr[q]
  BY OutIs, GoOK
<1>11. ~Using(p) /\ ~UserPc(p) /\ ~Using(p)' /\ ~Putting(p)' /\ ~Writing(p, "sync")'
  BY <1>10, OutIs DEF Using, UserPc, Putting, Writing, UsingPcs
<1>12. ProcOK(p)'
  <2>1. PlaceOK(p)'
    BY <1>10, <1>11, OutIs DEF PlaceOK, UsingPcs
  <2>2. WantOK(p)' /\ ReserveOK(p)'
    BY <1>10, OutIs DEF WantOK, ReserveOK
  <2>3. LockOK(p)'
    BY <1>10, OutIs DEF LockOK
  <2>5. StageOK(p)'
    BY <1>10, <1>11, OutIs DEF StageOK
  <2> QED
    BY <2>1, <2>2, <2>3, <2>5 DEF ProcOK
<1>13. SlotOK(e)'
  <2>2. ~Mounted(e)'
    BY <1>2, <1>4, <1>10, OutIs DEF Mounted, Umounting
  <2>4. table'[e].num = 0 /\ ~table'[e].lock /\ ~table'[e].dirt
    BY ONLY <1>6, <1>7
  <2> QED
    BY ONLY <2>2, <2>4 DEF SlotOK
<1>14. \A t \in Slots \ {e} : table'[t] = table[t]
  BY <1>7, ProcFacts
<1>15. \A q \in Procs : Using(q) => pr[q].slot \in Slots \ {e}
  BY <1>4 DEF IInv, ProcOK, PlaceOK, Uses, Using, Writing
<1>16. DiskOK'
  <2>1. \A q \in Procs : pr'[q].pc = "fresh" => pr[q].pc = "fresh" /\ pr'[q].slot = pr[q].slot
    BY <1>10, OutIs
  <2>2. \A q \in Procs : pr[q].pc = "fresh" => pr[q].slot \in Slots \ {e}
    BY <1>15 DEF Using, UsingPcs
  <2>3. DiskOK
    BY DEF IInv
  <2> QED
    BY <1>6, <1>14, <2>1, <2>2, <2>3, DiskKept
<1>17. UsersOK'
  <2>1. \A n \in imap' \ names' : ~UserOf(p, n)
    BY <1>11 DEF UserOf, UserPc
  <2>2. UsersOK
    BY DEF IInv
  <2> QED
    BY <1>10, <1>14, <1>15, <2>1, <2>2, UsersKept
<1>18. i.num # 0 => \A t \in Slots : table[t].num # i.num
  BY <1>6
<1>19. i.count = B2N(Using(p)') /\ (Using(p)' => pr'[p].slot = e)
  BY <1>6, <1>11 DEF B2N
<1>20. /\ imap \subseteq imap' /\ imap' \subseteq Inodes
       /\ disk' \in [All -> [nlinks : {0, 1}, cur : BOOLEAN]]
  BY DEF IInv, TypeOK
<1>21. /\ pr[p].after # "umount" /\ pr'[p].after # "umount" /\ pr'[p].empty = 0
       /\ ~Using(p) /\ pr'[p].pc \notin {"wlock", "wread"} /\ UNCHANGED <<names, sb>>
  BY <1>2, <1>10, <1>11, OutIs
<1> QED
  BY ONLY <1>7, <1>10, <1>12, <1>13, <1>16, <1>17, <1>18, <1>19, <1>20, <1>21, TouchReserve, IInv,
     p \in Procs, cpu \in {None, p}, e \in Slots, e = pr[p].empty, i \in InodeRecords

LEMMA NewInodeTakenOK ==
  ASSUME IInv, NEW p \in Procs, pr[p].pc = "new", cpu \in {None, p},
         NEW e \in Slots, e = pr[p].empty, NEW n \in Inodes \ imap,
         table' = [table EXCEPT ![e] = [NoInode EXCEPT !.num = n, !.count = 1,
                                                       !.nlinks = 1, !.dirt = TRUE]],
         disk' = [disk EXCEPT ![n].cur = FALSE], imap' = imap \cup {n},
         Sleep(p, [Out EXCEPT !.pc = "fresh", !.slot = e]), UNCHANGED <<names, sb>>
  PROVE  IInv'
<1>1. PlaceOK(p) /\ WantOK(p)
  BY ProcFacts DEF ProcOK
<1>2. pr[p].empty # 0 /\ pr[p].after # "umount"
  BY <1>1 DEF PlaceOK, Putting, Writing
<1>3. n \in All /\ n # 0 /\ n # ROOT_INO /\ n \notin names
  BY InodesAssumption DEF All, ROOT_INO, IInv, TypeOK
<1>4. /\ table[e] = [NoInode EXCEPT !.count = 1] /\ ~Mounted(e)
      /\ \A q \in Procs : ~Uses(q, e) /\ (pr[q].empty = e => q = p)
      /\ \A q \in Procs : pr[q].pc \in {"wread", "rread"} => pr[q].slot # e
  BY <1>2, InReserve
<1>5. PICK i \in InodeRecords : i = [NoInode EXCEPT !.num = n, !.count = 1, !.nlinks = 1, !.dirt = TRUE]
  BY <1>3 DEF InodeRecords, NoInode
<1>6. i.num = n /\ i.count = 1 /\ i.dirt /\ i.nlinks = 1 /\ i.cur /\ ~table[e].dirt
  BY <1>4, <1>5 DEF NoInode
<1>7. table' = [table EXCEPT ![e] = i] /\ table'[e] = i
  BY <1>5, ProcFacts
<1>8. PICK r \in ProcRecords : r = [Out EXCEPT !.pc = "fresh", !.slot = e]
  BY OutIs DEF ProcRecords, PCs, UsingPcs
<1>9. r.pc = "fresh" /\ r.slot = e /\ r.empty = 0 /\ r.want = 0 /\ r.after = ""
  BY <1>8, OutIs DEF ProcRecords
<1>10. /\ pr' \in [Procs -> ProcRecords] /\ pr'[p] = r /\ cpu' \in {None, p}
       /\ \A q \in Procs \ {p} : pr'[q] = pr[q]
  BY <1>8, GoOK
<1>11. ~Using(p) /\ ~UserPc(p) /\ Using(p)' /\ ~Putting(p)' /\ ~Writing(p, "sync")'
  BY <1>9, <1>10 DEF Using, UserPc, Putting, Writing, UsingPcs
<1>12. ProcOK(p)'
  <2>1. PlaceOK(p)'
    BY <1>9, <1>10, <1>11 DEF PlaceOK, UsingPcs
  <2>2. WantOK(p)' /\ ReserveOK(p)'
    BY <1>9, <1>10 DEF WantOK, ReserveOK
  <2>3. LockOK(p)'
    BY <1>9, <1>10 DEF LockOK
  <2>5. StageOK(p)'
    BY <1>3, <1>6, <1>7, <1>9, <1>10 DEF StageOK
  <2> QED
    BY <2>1, <2>2, <2>3, <2>5 DEF ProcOK
<1>13. SlotOK(e)'
  <2>1. IsFresh(e)'
    BY <1>9, <1>10 DEF IsFresh
  <2>2. ~Mounted(e)'
    BY <1>2, <1>4, <1>9, <1>10 DEF Mounted, Umounting
  <2>3. n \in imap'
    OBVIOUS
  <2>4. /\ table'[e].num \in imap' /\ table'[e].num # 0 /\ table'[e].count # 0
        /\ table'[e].cur /\ table'[e].nlinks = 1
    BY ONLY <1>3, <1>6, <1>7, <2>3
  <2> QED
    BY ONLY <2>1, <2>2, <2>4 DEF SlotOK
<1>14. \A t \in Slots \ {e} : table'[t] = table[t]
  BY <1>7, ProcFacts
<1>15. \A q \in Procs : Using(q) => pr[q].slot \in Slots \ {e}
  BY <1>4 DEF IInv, ProcOK, PlaceOK, Uses, Using, Writing
<1>16. /\ disk' \in [All -> [nlinks : {0, 1}, cur : BOOLEAN]]
       /\ \A m \in All : disk'[m].nlinks = disk[m].nlinks
       /\ \A m \in All \ {n} : disk'[m] = disk[m]
  BY <1>3, ProcFacts
<1>17. DiskOK'
  <2>1. DiskOK
    BY DEF IInv
  <2>2. \A m : DirtySlot(m) => DirtySlot(m)'
    BY <1>6, <1>14 DEF DirtySlot
  <2>3. DirtySlot(n)'
    BY <1>6, <1>7 DEF DirtySlot
  <2>4. \A m \in All : disk'[m].cur \/ DirtySlot(m)'
    BY <1>16, <2>1, <2>2, <2>3 DEF DiskOK
  <2>5. names \cup {ROOT_INO} \subseteq All
    BY DEF IInv, TypeOK, All
  <2>6. \A m \in names' \cup {ROOT_INO} : disk'[m].nlinks = 1 \/ DirtySlot(m)'
    BY <1>16, <2>1, <2>2, <2>5 DEF DiskOK
  <2>7. ASSUME NEW q \in Procs, pr'[q].pc = "fresh"
        PROVE  disk'[table'[pr'[q].slot].num].nlinks = 1 \/ table'[pr'[q].slot].dirt
    <3>1. CASE q = p
      BY <1>6, <1>7, <1>9, <1>10, <3>1
    <3>2. CASE q # p
      <4>1. pr'[q] = pr[q] /\ pr[q].pc = "fresh"
        BY <1>10, <2>7, <3>2
      <4>2. pr[q].slot \in Slots \ {e}
        BY <1>15, <4>1 DEF Using, UsingPcs
      <4>3. table[pr[q].slot].num \in All
        BY <4>1 DEF IInv, ProcOK, StageOK, All
      <4> QED
        BY <1>14, <1>16, <2>1, <4>1, <4>2, <4>3 DEF DiskOK
    <3> QED
      BY <3>1, <3>2
  <2> QED
    BY <2>4, <2>6, <2>7 DEF DiskOK
<1>18. UsersOK'
  <2> SUFFICES ASSUME NEW m \in imap' \ names' PROVE \E q \in Procs : UserOf(q, m)'
    BY DEF UsersOK
  <2>1. CASE m = n
    <3>1. UserOf(p, n)'
      BY <1>6, <1>7, <1>9, <1>10 DEF UserOf
    <3> QED
      BY <2>1, <3>1
  <2>2. CASE m # n
    <3>1. PICK q \in Procs : UserOf(q, m)
      BY <2>2 DEF IInv, UsersOK
    <3>2. UserPc(q) /\ q # p
      BY <1>11, <3>1 DEF UserOf, UserPc
    <3>3. pr[q].slot \in Slots \ {e}
      BY <1>15, <3>2, UserPcUses
    <3>4. UserOf(q, m)'
      BY <1>10, <1>14, <3>1, <3>2, <3>3 DEF UserOf, Putting, Writing
    <3> QED
      BY <3>4
  <2> QED
    BY <2>1, <2>2
<1>19. i.num # 0 => \A t \in Slots : table[t].num # i.num
  BY <1>3, <1>6 DEF IInv, SlotOK
<1>20. i.count = B2N(Using(p)') /\ (Using(p)' => pr'[p].slot = e)
  BY <1>6, <1>9, <1>10, <1>11 DEF B2N
<1>21. imap \subseteq imap' /\ imap' \subseteq Inodes
  BY DEF IInv, TypeOK
<1>22. /\ pr[p].after # "umount" /\ pr'[p].after # "umount" /\ pr'[p].empty = 0
       /\ ~Using(p) /\ pr'[p].pc \notin {"wlock", "wread"} /\ UNCHANGED <<names, sb>>
  BY <1>2, <1>9, <1>10, <1>11
<1> QED
  BY ONLY <1>7, <1>10, <1>12, <1>13, <1>16, <1>17, <1>18, <1>19, <1>20, <1>21, <1>22, TouchReserve, IInv,
     p \in Procs, cpu \in {None, p}, e \in Slots, e = pr[p].empty, i \in InodeRecords

LEMMA NewInodeOK ==
  ASSUME IInv, NEW p \in Procs, NewInode(p)
  PROVE  IInv'
<1>1. pr[p].pc = "new" /\ cpu \in {None, p} /\ UNCHANGED <<names, sb>>
  BY DEF NewInode, Runs
<1>2. PICK e \in Slots : e = pr[p].empty
  BY <1>1, ProcFacts DEF ProcOK, PlaceOK, ProcRecords
<1>3. CASE FreeBits = {}
  BY <1>1, <1>2, <1>3, NewInodeFailOK, SMTT(30) DEF NewInode
<1>4. CASE FreeBits # {}
  <2>1. FreeBits = Inodes \ imap /\ Inodes \subseteq Nat
    BY InodesAssumption DEF FreeBits
  <2>2. PICK n \in Inodes \ imap : n = Min(FreeBits)
    BY <1>4, <2>1, MinIn
  <2> QED
    BY <1>1, <1>2, <1>4, <2>2, NewInodeTakenOK DEF NewInode
<1> QED
  BY <1>3, <1>4

-----------------------------------------------------------------------------
(* get_empty_inode() clears the slot: nobody had a reference to it, and it *)
(* has been written.                                                       *)
LEMMA EmptyWaitedOK ==
  ASSUME IInv, NEW p \in Procs, EmptyWaited(p)
  PROVE  IInv'
<1>1. pr[p].pc = "ewait" /\ cpu \in {None, p} /\ UNCHANGED <<disk, imap, names, sb>>
  BY DEF EmptyWaited, Runs
<1>2. PlaceOK(p) /\ WantOK(p) /\ StageOK(p)
  BY ProcFacts DEF ProcOK
<1>3. PICK s \in Slots : s = pr[p].slot
  BY <1>1, <1>2 DEF PlaceOK
<1>4. pr[p].empty = 0 /\ pr[p].after # "umount"
  BY <1>1, <1>2 DEF PlaceOK, Putting, Writing
<1>5. table[s].count = 0 /\ ~table[s].dirt /\ ~table[s].lock
  BY <1>1, <1>2, <1>3 DEF StageOK, IInv, SlotOK
<1>6. /\ table' = [table EXCEPT ![s] = [NoInode EXCEPT !.count = 1]]
      /\ Go(p, [pr[p] EXCEPT !.pc = IF pr[p].want = 0 THEN "new" ELSE "scan", !.slot = 0, !.empty = s])
  BY <1>3, <1>5 DEF EmptyWaited, MustWrite
<1>7. PICK i \in InodeRecords : i = [NoInode EXCEPT !.count = 1]
  BY DEF NoInode, InodeRecords
<1>8. i.num = 0 /\ i.count = 1 /\ ~i.dirt
  BY <1>7 DEF NoInode
<1>9. /\ table' \in [Slots -> InodeRecords] /\ table'[s] = i
      /\ \A t \in Slots \ {s} : table'[t] = table[t]
  BY <1>6, <1>7, ProcFacts
<1>10. PICK r \in ProcRecords : r = [pr[p] EXCEPT !.pc = IF pr[p].want = 0 THEN "new" ELSE "scan",
                                                  !.slot = 0, !.empty = s]
  <2>1. pr[p] \in ProcRecords
    BY ProcFacts
  <2> QED
    BY ONLY <2>1, s \in Slots DEF ProcRecords, PCs
<1>11. /\ r.pc = (IF pr[p].want = 0 THEN "new" ELSE "scan") /\ r.empty = s /\ r.want = pr[p].want
       /\ r.after = pr[p].after
  BY <1>10, ProcFacts DEF ProcRecords
<1>12. /\ pr' \in [Procs -> ProcRecords] /\ pr'[p] = r /\ cpu' \in {None, p}
       /\ \A q \in Procs \ {p} : pr'[q] = pr[q]
  BY <1>6, <1>10, GoOK
<1>13. /\ pr'[p].pc \in {"new", "scan"}
       /\ pr'[p].pc = "new" <=> pr[p].want = 0
  BY <1>11, <1>12
<1>14. ~Using(p) /\ ~UserPc(p) /\ ~Using(p)' /\ ~Putting(p)' /\ ~Writing(p, "sync")'
  BY <1>1, <1>13 DEF Using, UserPc, Putting, Writing, UsingPcs
<1>15. ~Mounted(s) /\ \A q \in Procs : ~Uses(q, s) /\ pr[q].empty # s
  BY <1>5, NoRefs DEF IInv
<1>16. \A q \in Procs : Using(q) \/ pr[q].pc \in {"rread", "wread", "fresh", "trunc"} => pr[q].slot \in Slots \ {s}
  <2>1. \A q \in Procs : Using(q) => pr[q].slot # s
    BY <1>15 DEF Uses
  <2>2. \A q \in Procs : pr[q].pc \in {"rread", "fresh", "trunc"} => Using(q)
    BY DEF Using, UsingPcs
  <2>3. \A q \in Procs : pr[q].pc = "wread" => pr[q].slot # s
    BY <1>5 DEF IInv, ProcOK, LockOK
  <2>4. \A q \in Procs : Using(q) \/ pr[q].pc \in {"rread", "wread", "fresh", "trunc"} => pr[q].slot \in Slots
    BY DEF IInv, ProcOK, PlaceOK, Using, Writing, UsingPcs
  <2> QED
    BY <2>1, <2>2, <2>3, <2>4
<1>17. ProcOK(p)'
  <2>1. s # 0
    BY ProcFacts
  <2>2. PlaceOK(p)'
    BY <1>4, <1>11, <1>12, <1>13, <1>14, <2>1 DEF PlaceOK, UsingPcs
  <2>3. WantOK(p)'
    BY <1>1, <1>2, <1>11, <1>12 DEF WantOK
  <2>4. LockOK(p)'
    BY <1>13 DEF LockOK
  <2>5. ReserveOK(p)'
    BY <1>7, <1>9, <1>11, <1>12 DEF ReserveOK
  <2>6. StageOK(p)'
    BY <1>13, <1>14 DEF StageOK
  <2> QED
    BY <2>2, <2>3, <2>4, <2>5, <2>6 DEF ProcOK
<1>18. \A t : Mounted(t)' <=> Mounted(t)
  BY <1>1, <1>4, <1>11, <1>12 DEF Mounted, Umounting
<1>19. SlotOK(s)'
  <2>1. table'[s].num = 0 /\ table'[s].count # 0 /\ ~table'[s].dirt /\ ~Mounted(s)'
    BY <1>8, <1>9, <1>15, <1>18
  <2> QED
    BY ONLY <2>1 DEF SlotOK
<1>20. DiskOK'
  <2>1. \A q \in Procs : pr'[q].pc = "fresh" => pr[q].pc = "fresh" /\ pr'[q].slot = pr[q].slot
    BY <1>12, <1>13
  <2>2. DiskOK
    BY DEF IInv
  <2> QED
    BY <1>1, <1>5, <1>9, <1>16, <2>1, <2>2, DiskKept
<1>21. UsersOK'
  <2>1. \A n \in imap' \ names' : ~UserOf(p, n)
    BY <1>14 DEF UserOf, UserPc
  <2>2. UsersOK
    BY DEF IInv
  <2> QED
    BY <1>1, <1>9, <1>12, <1>16, <2>1, <2>2, UsersKept
<1>22. TypeOK'
  <2>1. TypeOK
    BY DEF IInv
  <2>2. cpu' \in Procs \cup {None}
    BY <1>12
  <2> QED
    BY <1>1, <1>9, <1>12, <2>1, <2>2 DEF TypeOK
<1>23. UniqueInode'
  <2>1. UniqueInode
    BY DEF IInv
  <2> QED
    BY <1>8, <1>9, <2>1 DEF UniqueInode
<1>24. CountIsRefs'
  <2>1. \A t \in Slots : ~Uses(p, t) /\ ~Uses(p, t)'
    BY <1>14 DEF Uses
  <2>2. ASSUME NEW t \in Slots
        PROVE table'[t].count = table[t].count
             + (B2N(pr'[p].empty = t) - B2N(pr[p].empty = t))
             + (B2N(Uses(p, t)') - B2N(Uses(p, t)))
             + (MountRef(t)' - MountRef(t))
    <3>1. B2N(pr'[p].empty = t) - B2N(pr[p].empty = t) = IF t = s THEN 1 ELSE 0
      <4>1. ~(pr[p].empty = t) /\ (pr'[p].empty = t <=> t = s)
        BY <1>4, <1>11, <1>12, ProcFacts
      <4> QED
        BY ONLY <4>1 DEF B2N
    <3>2. MountRef(t)' - MountRef(t) = 0
      BY <1>18 DEF MountRef
    <3>3. B2N(Uses(p, t)') - B2N(Uses(p, t)) = 0
      BY <2>1 DEF B2N
    <3>4. table[t].count \in Nat
      BY ProcFacts DEF InodeRecords
    <3>5. table'[t].count = IF t = s THEN 1 ELSE table[t].count
      BY <1>8, <1>9
    <3> QED
      BY <1>5, <3>1, <3>2, <3>3, <3>4, <3>5
  <2>3. CountIsRefs
    BY DEF IInv
  <2> QED
    BY <1>12, <2>2, <2>3, CountStep
<1>25. PICK T : T = {s}
  OBVIOUS
<1>26. \A q \in Procs : pr[q].pc \in {"fresh", "trunc"} => table[pr[q].slot].num \notin names'
  BY <1>1 DEF IInv, ProcOK, StageOK
<1>27. \A q \in Procs : pr[q].want \in names' \cup {0, ROOT_INO}
  BY <1>1 DEF IInv, ProcOK, WantOK
<1>28. \A t \in Slots : table[t].num \in imap' \cup {0, ROOT_INO}
  BY <1>1 DEF IInv, SlotOK
<1>29. \A q \in Procs \ {p} :
           /\ pr[q].empty \notin T
           /\ pr[q].pc \in {"rread", "trunc"} => pr[q].slot \notin T
           /\ pr[q].pc \in {"fresh", "trunc"} => table[pr[q].slot].num \notin names'
           /\ pr[q].pc = "fresh" /\ pr[q].slot \in T =>
                table'[pr[q].slot].nlinks = table[pr[q].slot].nlinks
                /\ table'[pr[q].slot].count = table[pr[q].slot].count
           /\ pr[q].slot \in T /\ Using(q) => table'[pr[q].slot].num = table[pr[q].slot].num
           /\ pr[q].slot \in T /\ pr[q].pc = "wread" => table'[pr[q].slot].lock /\ table'[pr[q].slot].dirt
           /\ pr[q].want \in names' \cup {0, ROOT_INO}
           /\ pr'[p].pc \in {"wread", "rread"} /\ pr[q].pc \in {"wread", "rread"}
                => pr'[p].slot # pr[q].slot
           /\ pr'[p].pc \in {"wlock", "wread"} /\ pr[q].pc = "trunc" => pr'[p].slot # pr[q].slot
  BY <1>13, <1>15, <1>16, <1>25, <1>26, <1>27
<1>30. \A t \in Slots \ T :
           /\ table[t].num \in imap' \cup {0, ROOT_INO}
           /\ table[t].num \in names' <=> table[t].num \in names
           /\ Mounted(t)' => Mounted(t)
           /\ pr[p].pc \notin {"rread", "fresh"} \/ pr[p].slot # t
           /\ pr'[p].pc \notin {"rread", "fresh"} \/ pr'[p].slot # t
  BY <1>1, <1>13, <1>18, <1>28
<1>31. \A t \in Slots \ T : table'[t] = table[t]
  BY <1>9, <1>25
<1>32. \A t \in Slots : t \in T => SlotOK(t)'
  BY <1>19, <1>25
<1>33. cpu \in {None, p} /\ \A q \in Procs \ {p} : pr'[q] = pr[q]
  BY <1>1, <1>12
<1> QED
  BY ONLY <1>17, <1>20, <1>21, <1>22, <1>23, <1>24, <1>29, <1>30, <1>31, <1>32, <1>33, Touch, IInv,
          p \in Procs

(* The disk has the latest contents of an inode that no slot has dirty.    *)
LEMMA ReadInodeOK ==
  ASSUME IInv, NEW p \in Procs, ReadInode(p)
  PROVE  IInv'
<1>1. pr[p].pc = "rread" /\ cpu \in {None, p} /\ UNCHANGED <<disk, imap, names, sb>>
  BY DEF ReadInode, Runs
<1>2. PlaceOK(p) /\ WantOK(p) /\ LockOK(p) /\ StageOK(p)
  BY ProcFacts DEF ProcOK
<1>3. PICK s \in Slots : s = pr[p].slot
  BY <1>1, <1>2 DEF PlaceOK, UsingPcs
<1>4. /\ table[s].num = pr[p].want /\ table[s].count = 1 /\ ~table[s].dirt /\ SlotOK(s)
      /\ pr[p].want # 0 /\ pr[p].empty = 0 /\ pr[p].after # "umount"
  BY <1>1, <1>2, <1>3 DEF StageOK, IInv, PlaceOK, Putting, Writing
<1>5. PICK n \in All : n = table[s].num
  BY <1>4, ProcFacts DEF InodeRecords
<1>6. n \in names \cup {ROOT_INO} /\ n # 0
  BY <1>2, <1>4, <1>5 DEF WantOK
<1>7. disk[n].cur /\ disk[n].nlinks = 1
  <2>1. ~DirtySlot(n)
    <3>1. UniqueInode
      BY SMTT(30) DEF IInv
    <3> QED
      BY <1>4, <1>5, <3>1 DEF DirtySlot, UniqueInode
  <2> QED
    BY <1>6, <2>1 DEF IInv, DiskOK
<1>8. /\ table' = [table EXCEPT ![s].nlinks = disk[n].nlinks, ![s].cur = disk[n].cur, ![s].lock = FALSE]
      /\ Sleep(p, [Out EXCEPT !.pc = "hold", !.slot = s])
  BY <1>3, <1>5 DEF ReadInode
<1>9. PICK i \in InodeRecords : i = [table[s] EXCEPT !.nlinks = disk[n].nlinks, !.cur = disk[n].cur, !.lock = FALSE]
  <2>1. table[s] \in InodeRecords
    BY ProcFacts
  <2>2. disk[n].nlinks \in {0, 1} /\ disk[n].cur \in BOOLEAN
    BY <1>7
  <2> QED
    BY ONLY <2>1, <2>2 DEF InodeRecords
<1>10. i.num = n /\ i.count = 1 /\ ~i.dirt /\ ~i.lock /\ i.nlinks = 1 /\ i.cur
  BY <1>4, <1>5, <1>7, <1>9, ProcFacts DEF InodeRecords
<1>11. table' = [table EXCEPT ![s] = i] /\ table'[s] = i
  BY <1>8, <1>9, ProcFacts
<1>12. PICK r \in ProcRecords : r = [Out EXCEPT !.pc = "hold", !.slot = s]
  BY OutIs DEF ProcRecords, PCs, UsingPcs
<1>13. r.pc = "hold" /\ r.slot = s /\ r.empty = 0 /\ r.want = 0 /\ r.after = ""
  BY <1>12, OutIs DEF ProcRecords
<1>14. /\ pr' \in [Procs -> ProcRecords] /\ pr'[p] = r /\ cpu' \in {None, p}
       /\ \A q \in Procs \ {p} : pr'[q] = pr[q]
  BY <1>8, <1>12, GoOK
<1>15. Using(p) /\ Using(p)' /\ ~Putting(p)' /\ ~UserPc(p) /\ ~Writing(p, "sync")'
  BY <1>1, <1>13, <1>14 DEF Using, Putting, Writing, UsingPcs, UserPc
<1>16. \A t \in Slots : (Uses(p, t) <=> t = s) /\ (Uses(p, t)' <=> t = s)
  BY <1>3, <1>13, <1>14, <1>15 DEF Uses
<1>17. \A q \in Procs \ {p} :
           /\ pr[q].empty # s
           /\ pr[q].pc \in {"rread", "fresh", "trunc", "wread"} => pr[q].slot # s
  <2>1. \A q \in Procs \ {p} : pr[q].pc = "wread" => pr[q].slot # s
    BY <1>1, <1>2, <1>3 DEF LockOK
  <2> QED
    BY <1>16, <2>1, Neighbours
<1>18. ProcOK(p)'
  <2>1. PlaceOK(p)'
    BY <1>13, <1>14, <1>15 DEF PlaceOK, UsingPcs
  <2>2. WantOK(p)' /\ ReserveOK(p)'
    BY <1>13, <1>14 DEF WantOK, ReserveOK
  <2>3. LockOK(p)'
    BY <1>13, <1>14 DEF LockOK
  <2>4. StageOK(p)'
    BY <1>6, <1>10, <1>11, <1>13, <1>14 DEF StageOK
  <2> QED
    BY <2>1, <2>2, <2>3, <2>4 DEF ProcOK
<1>19. \A t : Mounted(t)' <=> Mounted(t)
  BY <1>1, <1>4, <1>13, <1>14 DEF Mounted, Umounting
<1>20. SlotOK(s)'
  <2>1. Named(n)'
    BY <1>1, <1>6 DEF Named
  <2>2. /\ table'[s].num = n /\ table'[s].count = 1 /\ ~table'[s].dirt /\ table'[s].nlinks = 1
        /\ table'[s].cur
    BY ONLY <1>10, <1>11
  <2>3. n \in imap' \cup {0, ROOT_INO} /\ (Mounted(s)' => n \in Dirs)
    BY <1>1, <1>4, <1>5, <1>19 DEF SlotOK
  <2> QED
    BY ONLY <2>1, <2>2, <2>3 DEF SlotOK
<1>21. \A t \in Slots : table'[t].num = table[t].num /\ (table[t].dirt => table'[t].dirt)
  BY <1>4, <1>5, <1>10, <1>11, ProcFacts
<1>22. DiskOK'
  <2>1. \A q \in Procs : pr'[q].pc = "fresh" => pr[q].pc = "fresh" /\ pr'[q].slot = pr[q].slot
    BY <1>13, <1>14
  <2>2. \A q \in Procs : pr[q].pc = "fresh" => pr[q].slot \in Slots
    BY DEF IInv, ProcOK, PlaceOK, UsingPcs
  <2>3. DiskOK
    BY DEF IInv
  <2> QED
    BY <1>1, <1>21, <2>1, <2>2, <2>3, DiskKept
<1>23. UsersOK'
  <2>1. \A m \in imap' \ names' : ~UserOf(p, m)
    BY <1>15 DEF UserOf, UserPc
  <2>2. \A q \in Procs : Using(q) => pr[q].slot \in Slots
    BY DEF IInv, ProcOK, PlaceOK, Using, Writing
  <2>3. UsersOK
    BY DEF IInv
  <2> QED
    BY <1>1, <1>14, <1>21, <2>1, <2>2, <2>3, UsersKept
<1>24. i.count = table[s].count + (B2N(Uses(p, s)') - B2N(Uses(p, s)))
  BY <1>4, <1>10, <1>16 DEF B2N
<1>25. disk' \in [All -> [nlinks : {0, 1}, cur : BOOLEAN]]
  BY <1>1, ProcFacts
<1>26. \A q \in Procs \ {p} :
           /\ pr[q].empty # s
           /\ pr[q].pc \in {"rread", "trunc"} => pr[q].slot # s
           /\ pr[q].pc = "fresh" /\ pr[q].slot = s =>
                i.nlinks = table[s].nlinks /\ i.count = table[s].count
           /\ pr[q].pc = "wread" /\ pr[q].slot = s => i.lock /\ i.dirt
           /\ pr'[p].pc \in {"wread", "rread"} /\ pr[q].pc \in {"wread", "rread"}
                => pr'[p].slot # pr[q].slot
           /\ pr'[p].pc \in {"wlock", "wread"} /\ pr[q].pc = "trunc" => pr'[p].slot # pr[q].slot
  BY <1>13, <1>14, <1>17
<1>27. /\ pr[p].pc \in {"rread", "fresh"} => pr[p].slot = s
       /\ pr'[p].pc \in {"rread", "fresh"} => pr'[p].slot = s
       /\ pr'[p].after = "umount" <=> pr[p].after = "umount"
       /\ pr'[p].empty = pr[p].empty
       /\ cpu \in {None, p}
  BY <1>1, <1>3, <1>4, <1>13, <1>14
<1>28. \A t \in Slots \ {s} : Uses(p, t)' <=> Uses(p, t)
  BY <1>16
<1>29. i.num = table[s].num /\ table' = [table EXCEPT ![s] = i] /\ UNCHANGED <<imap, names, sb>>
  BY <1>1, <1>5, <1>10, <1>11
<1> QED
  BY ONLY <1>14, <1>18, <1>20, <1>22, <1>23, <1>24, <1>25, <1>26, <1>27, <1>28, <1>29, TouchOne,
     IInv, p \in Procs, s \in Slots, i \in InodeRecords

(* The creator of a file gives up: the inode loses its only link.          *)
LEMMA LinkFailOK ==
  ASSUME IInv, NEW p \in Procs, pr[p].pc = "fresh", cpu \in {None, p},
         NEW s \in Slots, s = pr[p].slot, table' = [table EXCEPT ![s].nlinks = 0],
         Go(p, [pr[p] EXCEPT !.pc = "put", !.after = "out"]),
         UNCHANGED <<disk, imap, names, sb>>
  PROVE  IInv'
<1>2. PlaceOK(p) /\ WantOK(p) /\ StageOK(p) /\ SlotOK(s)
  BY ProcFacts DEF ProcOK, IInv
<1>3. pr[p].want = 0 /\ pr[p].empty = 0 /\ pr[p].after # "umount"
  BY <1>2 DEF PlaceOK, Putting, Writing
<1>4. table[s].num \in Inodes \ names /\ table[s].count = 1
  BY <1>2 DEF StageOK
<1>5. table[s].num # 0 /\ table[s].num # ROOT_INO
  BY <1>4, InodesAssumption DEF ROOT_INO
<1>9. PICK i \in InodeRecords : i = [table[s] EXCEPT !.nlinks = 0]
  <2>1. table[s] \in InodeRecords
    BY ProcFacts
  <2> QED
    BY ONLY <2>1 DEF InodeRecords
<1>10. /\ i.num = table[s].num /\ i.count = 1 /\ i.dirt = table[s].dirt /\ i.lock = table[s].lock
       /\ i.nlinks = 0 /\ i.cur = table[s].cur
  BY <1>4, <1>9, ProcFacts DEF InodeRecords
<1>11. table' = [table EXCEPT ![s] = i] /\ table'[s] = i
  BY <1>9, ProcFacts
<1>12. PICK r \in ProcRecords : r = [pr[p] EXCEPT !.pc = "put", !.after = "out"]
  <2>1. pr[p] \in ProcRecords
    BY ProcFacts
  <2> QED
    BY ONLY <2>1 DEF ProcRecords, PCs, UsingPcs
<1>13. r.pc = "put" /\ r.slot = s /\ r.empty = 0 /\ r.want = 0 /\ r.after = "out"
  BY <1>3, <1>12, ProcFacts DEF ProcRecords
<1>14. /\ pr' \in [Procs -> ProcRecords] /\ pr'[p] = r /\ cpu' \in {None, p}
       /\ \A q \in Procs \ {p} : pr'[q] = pr[q]
  BY <1>12, GoOK
<1>15. Using(p) /\ Using(p)' /\ Putting(p)' /\ ~Writing(p, "sync")'
  BY <1>13, <1>14 DEF Using, Putting, Writing, UsingPcs
<1>16. \A t \in Slots : (Uses(p, t) <=> t = s) /\ (Uses(p, t)' <=> t = s)
  BY <1>13, <1>14, <1>15 DEF Uses
<1>17. \A q \in Procs \ {p} :
           /\ pr[q].empty # s
           /\ pr[q].pc \in {"rread", "fresh", "trunc"} => pr[q].slot # s
  BY <1>16, Neighbours
<1>18. ProcOK(p)'
  <2>1. PlaceOK(p)'
    BY <1>13, <1>14, <1>15 DEF PlaceOK, UsingPcs
  <2>2. WantOK(p)' /\ ReserveOK(p)'
    BY <1>13, <1>14 DEF WantOK, ReserveOK
  <2>3. LockOK(p)'
    BY <1>13, <1>14 DEF LockOK
  <2>4. StageOK(p)'
    BY <1>5, <1>10, <1>11, <1>13, <1>14 DEF StageOK
  <2> QED
    BY <2>1, <2>2, <2>3, <2>4 DEF ProcOK
<1>19. \A t : Mounted(t)' <=> Mounted(t)
  BY <1>3, <1>13, <1>14 DEF Mounted, Umounting
<1>20. SlotOK(s)'
  <2>1. ~BeingRead(s) /\ ~IsFresh(s)'
    BY <1>13, <1>14, <1>17 DEF BeingRead, IsFresh
  <2>2. table[s].cur
    BY <1>2, <1>5, <2>1 DEF SlotOK
  <2>3. i.cur
    BY <1>9, <2>2, ProcFacts DEF InodeRecords
  <2>4. /\ table'[s].num = table[s].num /\ table'[s].count # 0 /\ table'[s].nlinks # 1
        /\ table'[s].cur
    BY ONLY <1>10, <1>11, <2>3
  <2>5. table[s].num \in imap' \cup {0, ROOT_INO} /\ (Mounted(s)' => table[s].num \in Dirs)
    BY <1>2, <1>19 DEF SlotOK
  <2>6. table'[s].num \notin names' \cup {ROOT_INO}
    BY <1>4, <1>5, <2>4
  <2> QED
    BY ONLY <1>5, <2>1, <2>4, <2>5, <2>6 DEF SlotOK, Named
<1>21. \A t \in Slots : table'[t].num = table[t].num /\ (table[t].dirt => table'[t].dirt)
  BY <1>10, <1>11, ProcFacts
<1>22. DiskOK'
  <2>1. \A q \in Procs : pr'[q].pc = "fresh" => pr[q].pc = "fresh" /\ pr'[q].slot = pr[q].slot
    BY <1>13, <1>14
  <2>2. \A q \in Procs : pr[q].pc = "fresh" => pr[q].slot \in Slots
    BY DEF IInv, ProcOK, PlaceOK, UsingPcs
  <2>3. DiskOK
    BY DEF IInv
  <2> QED
    BY <1>21, <2>1, <2>2, <2>3, DiskKept
<1>23. UsersOK'
  <2>1. \A m \in imap' \ names' : UserOf(p, m) => UserOf(p, m)'
    BY <1>13, <1>14, <1>15, <1>21 DEF UserOf
  <2>2. \A q \in Procs : Using(q) => pr[q].slot \in Slots
    BY DEF IInv, ProcOK, PlaceOK, Using, Writing
  <2>3. UsersOK
    BY DEF IInv
  <2> QED
    BY <1>14, <1>21, <2>1, <2>2, <2>3, UsersKept
<1>24. i.count = table[s].count + (B2N(Uses(p, s)') - B2N(Uses(p, s)))
  BY <1>4, <1>10, <1>16 DEF B2N
<1>25. disk' \in [All -> [nlinks : {0, 1}, cur : BOOLEAN]]
  BY ProcFacts
<1>26. \A q \in Procs \ {p} :
           /\ pr[q].empty # s
           /\ pr[q].pc \in {"rread", "trunc"} => pr[q].slot # s
           /\ pr[q].pc = "fresh" /\ pr[q].slot = s =>
                i.nlinks = table[s].nlinks /\ i.count = table[s].count
           /\ pr[q].pc = "wread" /\ pr[q].slot = s => i.lock /\ i.dirt
           /\ pr'[p].pc \in {"wread", "rread"} /\ pr[q].pc \in {"wread", "rread"}
                => pr'[p].slot # pr[q].slot
           /\ pr'[p].pc \in {"wlock", "wread"} /\ pr[q].pc = "trunc" => pr'[p].slot # pr[q].slot
  <2>1. \A q \in Procs : pr[q].pc = "wread" /\ pr[q].slot = s => i.lock /\ i.dirt
    BY <1>10 DEF IInv, ProcOK, LockOK
  <2> QED
    BY <1>13, <1>14, <1>17, <2>1
<1>27. /\ pr[p].pc \in {"rread", "fresh"} => pr[p].slot = s
       /\ pr'[p].pc \in {"rread", "fresh"} => pr'[p].slot = s
       /\ pr'[p].after = "umount" <=> pr[p].after = "umount"
       /\ pr'[p].empty = pr[p].empty
  BY <1>3, <1>13, <1>14
<1>28. \A t \in Slots \ {s} : Uses(p, t)' <=> Uses(p, t)
  BY <1>16
<1>29. i.num = table[s].num /\ table' = [table EXCEPT ![s] = i] /\ UNCHANGED <<imap, names, sb>>
  BY <1>10, <1>11
<1> QED
  BY ONLY <1>14, <1>18, <1>20, <1>22, <1>23, <1>24, <1>25, <1>26, <1>27, <1>28, <1>29, TouchOne,
     IInv, p \in Procs, s \in Slots, i \in InodeRecords, cpu \in {None, p}

(* The name is entered.                                                    *)
LEMMA LinkNamedOK ==
  ASSUME IInv, NEW p \in Procs, pr[p].pc = "fresh", cpu \in {None, p},
         NEW s \in Slots, s = pr[p].slot, names' = names \cup {table[s].num},
         Sleep(p, [pr[p] EXCEPT !.pc = "hold"]),
         UNCHANGED <<table, disk, imap, sb>>
  PROVE  IInv'
<1>2. PlaceOK(p) /\ WantOK(p) /\ StageOK(p) /\ SlotOK(s)
  BY ProcFacts DEF ProcOK, IInv
<1>3. pr[p].want = 0 /\ pr[p].empty = 0 /\ pr[p].after # "umount"
  BY <1>2 DEF PlaceOK, Putting, Writing
<1>4. table[s].num \in Inodes \ names /\ table[s].count = 1 /\ table[s].nlinks = 1
  BY <1>2 DEF StageOK
<1>5. table[s].num # 0 /\ table[s].num # ROOT_INO
  BY <1>4, InodesAssumption DEF ROOT_INO
<1>6. table[s].num \in imap
  BY <1>2, <1>5 DEF SlotOK
<1>12. PICK r \in ProcRecords : r = [pr[p] EXCEPT !.pc = "hold"]
  <2>1. pr[p] \in ProcRecords
    BY ProcFacts
  <2> QED
    BY ONLY <2>1 DEF ProcRecords, PCs, UsingPcs
<1>13. r.pc = "hold" /\ r.slot = s /\ r.empty = 0 /\ r.want = 0 /\ r.after = pr[p].after
  BY <1>3, <1>12, ProcFacts DEF ProcRecords
<1>14. /\ pr' \in [Procs -> ProcRecords] /\ pr'[p] = r /\ cpu' \in {None, p}
       /\ \A q \in Procs \ {p} : pr'[q] = pr[q]
  BY <1>12, GoOK
<1>15. Using(p) /\ Using(p)' /\ ~Putting(p)' /\ ~Writing(p, "sync")'
  BY <1>13, <1>14 DEF Using, Putting, Writing, UsingPcs
<1>16. \A t \in Slots : (Uses(p, t) <=> t = s) /\ (Uses(p, t)' <=> t = s)
  BY <1>13, <1>14, <1>15 DEF Uses
<1>17. \A q \in Procs \ {p} :
           /\ pr[q].empty # s
           /\ pr[q].pc \in {"rread", "fresh", "trunc"} => pr[q].slot # s
  BY <1>16, Neighbours
<1>18. ProcOK(p)'
  <2>1. PlaceOK(p)'
    BY <1>3, <1>13, <1>14, <1>15 DEF PlaceOK, UsingPcs
  <2>2. WantOK(p)' /\ ReserveOK(p)'
    BY <1>13, <1>14 DEF WantOK, ReserveOK
  <2>3. LockOK(p)'
    BY <1>13, <1>14 DEF LockOK
  <2>4. StageOK(p)'
    BY <1>5, <1>13, <1>14 DEF StageOK
  <2> QED
    BY <2>1, <2>2, <2>3, <2>4 DEF ProcOK
<1>19. \A t : Mounted(t)' <=> Mounted(t)
  BY <1>3, <1>13, <1>14 DEF Mounted, Umounting
<1>20. SlotOK(s)'
  <2>1. ~BeingRead(s)
    BY <1>17 DEF BeingRead
  <2>2. table[s].cur
    BY <1>2, <1>5, <2>1 DEF SlotOK
  <2>3. Named(table[s].num)'
    BY DEF Named
  <2>4. table'[s] = table[s] /\ imap' = imap
    OBVIOUS
  <2> QED
    BY ONLY <1>2, <1>4, <1>5, <1>6, <1>19, <2>2, <2>3, <2>4 DEF SlotOK, Named
<1>21. \A t \in Slots \ {s} : table[t].num # table[s].num
  BY <1>5 DEF IInv, UniqueInode
<1>22. DiskOK'
  <2>1. DiskOK
    BY DEF IInv
  <2>2. \A m : DirtySlot(m)' <=> DirtySlot(m)
    BY DEF DirtySlot
  <2>3. disk[table[s].num].nlinks = 1 \/ DirtySlot(table[s].num)
    BY <2>1 DEF DiskOK, DirtySlot
  <2>4. \A m \in names' \cup {ROOT_INO} : disk'[m].nlinks = 1 \/ DirtySlot(m)'
    BY <2>1, <2>2, <2>3 DEF DiskOK
  <2>5. \A m \in All : disk'[m].cur \/ DirtySlot(m)'
    BY <2>1, <2>2 DEF DiskOK
  <2>6. \A q \in Procs : pr'[q].pc = "fresh" => pr[q].pc = "fresh" /\ pr'[q].slot = pr[q].slot
    BY <1>13, <1>14
  <2>7. \A q \in Procs : pr'[q].pc = "fresh" =>
          disk'[table'[pr'[q].slot].num].nlinks = 1 \/ table'[pr'[q].slot].dirt
    BY <2>1, <2>6 DEF DiskOK
  <2> QED
    BY <2>4, <2>5, <2>7 DEF DiskOK
<1>23. UsersOK'
  <2>1. \A m \in imap' \ names' : ~UserOf(p, m)
    BY DEF UserOf
  <2>2. UsersOK
    BY DEF IInv
  <2> QED
    BY <1>14, <2>1, <2>2, UsersKept
<1>24. TypeOK'
  <2>1. TypeOK
    BY DEF IInv
  <2>2. cpu' \in Procs \cup {None} /\ names' \subseteq imap /\ Dirs \subseteq names'
    BY <1>6, <1>14, <2>1 DEF TypeOK
  <2> QED
    BY <1>14, <2>1, <2>2 DEF TypeOK
<1>25. UniqueInode'
  BY DEF IInv, UniqueInode
<1>26. CountIsRefs'
  <2>1. ASSUME NEW t \in Slots
        PROVE table'[t].count = table[t].count
             + (B2N(pr'[p].empty = t) - B2N(pr[p].empty = t))
             + (B2N(Uses(p, t)') - B2N(Uses(p, t)))
             + (MountRef(t)' - MountRef(t))
    <3>1. B2N(pr'[p].empty = t) - B2N(pr[p].empty = t) = 0
      BY <1>3, <1>13, <1>14 DEF B2N
    <3>2. MountRef(t)' - MountRef(t) = 0
      BY <1>19 DEF MountRef
    <3>3. B2N(Uses(p, t)') - B2N(Uses(p, t)) = 0
      BY <1>16 DEF B2N
    <3>4. table[t].count \in Nat /\ table'[t].count = table[t].count
      BY ProcFacts DEF InodeRecords
    <3> QED
      BY <3>1, <3>2, <3>3, <3>4
  <2>2. CountIsRefs
    BY DEF IInv
  <2> QED
    BY <1>14, <2>1, <2>2, CountStep
<1>27. PICK T : T = {s}
  OBVIOUS
<1>28. \A q \in Procs \ {p} : pr[q].pc \in {"fresh", "trunc"} => table[pr[q].slot].num \notin names'
  <2> SUFFICES ASSUME NEW q \in Procs \ {p}, pr[q].pc \in {"fresh", "trunc"}
               PROVE  table[pr[q].slot].num \notin names'
    OBVIOUS
  <2>1. pr[q].slot \in Slots /\ table[pr[q].slot].num \notin names
    BY DEF IInv, ProcOK, StageOK, PlaceOK, UsingPcs
  <2>2. pr[q].slot \in Slots \ {s}
    BY <1>17, <2>1
  <2> QED
    BY <1>21, <2>1, <2>2
<1>29. \A q \in Procs : pr[q].want \in names' \cup {0, ROOT_INO}
  BY DEF IInv, ProcOK, WantOK
<1>30. \A t \in Slots : table[t].num \in imap' \cup {0, ROOT_INO}
  BY DEF IInv, SlotOK
<1>31. \A q \in Procs : pr[q].pc = "wread" => table[pr[q].slot].lock /\ table[pr[q].slot].dirt
  BY DEF IInv, ProcOK, LockOK
<1>32. \A q \in Procs \ {p} :
           /\ pr[q].empty \notin T
           /\ pr[q].pc \in {"rread", "trunc"} => pr[q].slot \notin T
           /\ pr[q].pc \in {"fresh", "trunc"} => table[pr[q].slot].num \notin names'
           /\ pr[q].pc = "fresh" /\ pr[q].slot \in T =>
                table'[pr[q].slot].nlinks = table[pr[q].slot].nlinks
                /\ table'[pr[q].slot].count = table[pr[q].slot].count
           /\ pr[q].slot \in T /\ Using(q) => table'[pr[q].slot].num = table[pr[q].slot].num
           /\ pr[q].slot \in T /\ pr[q].pc = "wread" => table'[pr[q].slot].lock /\ table'[pr[q].slot].dirt
           /\ pr[q].want \in names' \cup {0, ROOT_INO}
           /\ pr'[p].pc \in {"wread", "rread"} /\ pr[q].pc \in {"wread", "rread"}
                => pr'[p].slot # pr[q].slot
           /\ pr'[p].pc \in {"wlock", "wread"} /\ pr[q].pc = "trunc" => pr'[p].slot # pr[q].slot
  BY <1>13, <1>14, <1>17, <1>27, <1>28, <1>29, <1>31
<1>33. \A t \in Slots \ T :
           /\ table[t].num \in imap' \cup {0, ROOT_INO}
           /\ table[t].num \in names' <=> table[t].num \in names
           /\ Mounted(t)' => Mounted(t)
           /\ pr[p].pc \notin {"rread", "fresh"} \/ pr[p].slot # t
           /\ pr'[p].pc \notin {"rread", "fresh"} \/ pr'[p].slot # t
  BY <1>13, <1>14, <1>19, <1>21, <1>27, <1>30
<1>34. \A t \in Slots \ T : table'[t] = table[t]
  OBVIOUS
<1>35. \A t \in Slots : t \in T => SlotOK(t)'
  BY <1>20, <1>27
<1> QED
  BY ONLY <1>14, <1>18, <1>22, <1>23, <1>24, <1>25, <1>26, <1>32, <1>33, <1>34, <1>35, Touch, IInv,
          p \in Procs, cpu \in {None, p}

LEMMA LinkOK ==
  ASSUME IInv, NEW p \in Procs, Link(p)
  PROVE  IInv'
<1>1. pr[p].pc = "fresh" /\ cpu \in {None, p} /\ UNCHANGED <<disk, imap, sb>>
  BY DEF Link, Runs
<1>2. PICK s \in Slots : s = pr[p].slot
  BY <1>1, ProcFacts DEF ProcOK, PlaceOK, UsingPcs
<1>3. CASE /\ names' = names \cup {table[s].num} /\ UNCHANGED table
           /\ Sleep(p, [pr[p] EXCEPT !.pc = "hold"])
  BY <1>1, <1>2, <1>3, LinkNamedOK
<1>4. CASE /\ table' = [table EXCEPT ![s].nlinks = 0] /\ UNCHANGED names
           /\ Go(p, [pr[p] EXCEPT !.pc = "put", !.after = "out"])
  BY <1>1, <1>2, <1>4, LinkFailOK
<1> QED
  BY <1>2, <1>3, <1>4 DEF Link

-----------------------------------------------------------------------------
(* A holder changes the inode: the disk is behind, the slot is dirty.      *)
LEMMA ChangeOK ==
  ASSUME IInv, NEW p \in Procs, Change(p)
  PROVE  IInv'
<1>1. pr[p].pc = "hold" /\ cpu = None /\ UNCHANGED <<imap, names, sb, pr, cpu>>
  BY DEF Change, Runs
<1>2. ProcOK(p) /\ PlaceOK(p)
  BY ProcFacts DEF ProcOK
<1>3. PICK s \in Slots : s = pr[p].slot
  BY <1>1, <1>2 DEF PlaceOK, UsingPcs
<1>4. Uses(p, s)
  BY <1>1, <1>3 DEF Uses, Using, UsingPcs
<1>5. /\ \A q \in Procs : pr[q].empty # s
      /\ \A q \in Procs : pr[q].pc \in {"rread", "fresh", "trunc"} => pr[q].slot # s
      /\ table[s].num # 0 /\ table[s].count >= 1 /\ table[s].count \in Nat
  BY <1>1, <1>4, Neighbours, ProcFacts DEF InodeRecords
<1>6. PICK n \in All : n = table[s].num
  BY <1>5, ProcFacts DEF InodeRecords
<1>7. /\ table' = [table EXCEPT ![s].dirt = TRUE, ![s].cur = TRUE]
      /\ disk' = [disk EXCEPT ![n].cur = FALSE]
  BY <1>3, <1>6 DEF Change
<1>8. PICK i \in InodeRecords : i = [table[s] EXCEPT !.dirt = TRUE, !.cur = TRUE]
  <2>1. table[s] \in InodeRecords
    BY ProcFacts
  <2> QED
    BY ONLY <2>1 DEF InodeRecords
<1>9. /\ i.num = table[s].num /\ i.count = table[s].count /\ i.dirt /\ i.lock = table[s].lock
      /\ i.nlinks = table[s].nlinks /\ i.cur
  BY <1>8, ProcFacts DEF InodeRecords
<1>10. table' = [table EXCEPT ![s] = i] /\ table'[s] = i
  BY <1>7, <1>8, ProcFacts
<1>11. /\ disk' \in [All -> [nlinks : {0, 1}, cur : BOOLEAN]]
       /\ \A m \in All : disk'[m].nlinks = disk[m].nlinks
       /\ \A m \in All \ {n} : disk'[m] = disk[m]
  BY <1>7, ProcFacts
<1>12. \A t \in Slots : table'[t].num = table[t].num /\ (table[t].dirt => table'[t].dirt)
  BY <1>9, <1>10, ProcFacts
<1>13. ProcOK(p)'
  <2>1. PlaceOK(p)'
    BY <1>1, <1>2 DEF PlaceOK, Putting, Writing
  <2>2. WantOK(p)' /\ pr[p].empty = 0
    BY <1>1, <1>2 DEF ProcOK, WantOK, PlaceOK, Putting, Writing
  <2>3. LockOK(p)' /\ ReserveOK(p)'
    BY <1>1, <2>2 DEF LockOK, ReserveOK
  <2>4. StageOK(p)'
    BY <1>1, <1>3, <1>5, <1>12 DEF StageOK
  <2> QED
    BY <2>1, <2>2, <2>3, <2>4 DEF ProcOK
<1>14. SlotOK(s)'
  <2>1. SlotOK(s) /\ ~BeingRead(s)
    BY <1>5 DEF IInv, BeingRead
  <2>2. (IsFresh(s)' <=> IsFresh(s)) /\ (Mounted(s)' <=> Mounted(s))
    BY <1>1 DEF IsFresh, Mounted, Umounting
  <2>3. /\ table'[s].num = table[s].num /\ table'[s].count # 0 /\ table'[s].nlinks = table[s].nlinks
        /\ table'[s].cur
    BY <1>5, <1>9, <1>10
  <2>4. imap' = imap /\ names' = names
    BY <1>1
  <2> QED
    BY ONLY <1>5, <2>1, <2>2, <2>3, <2>4 DEF SlotOK, Named
<1>15. DiskOK'
  <2>1. DiskOK
    BY DEF IInv
  <2>2. \A m : DirtySlot(m) => DirtySlot(m)'
    BY <1>12 DEF DirtySlot
  <2>3. DirtySlot(n)'
    BY <1>6, <1>9, <1>10 DEF DirtySlot
  <2>4. \A m \in All : disk'[m].cur \/ DirtySlot(m)'
    BY <1>11, <2>1, <2>2, <2>3 DEF DiskOK
  <2>5. names \cup {ROOT_INO} \subseteq All
    BY DEF IInv, TypeOK, All
  <2>6. \A m \in names' \cup {ROOT_INO} : disk'[m].nlinks = 1 \/ DirtySlot(m)'
    BY <1>1, <1>11, <2>1, <2>2, <2>5 DEF DiskOK
  <2>7. ASSUME NEW q \in Procs, pr'[q].pc = "fresh"
        PROVE  disk'[table'[pr'[q].slot].num].nlinks = 1 \/ table'[pr'[q].slot].dirt
    <3>1. pr'[q] = pr[q] /\ pr[q].pc = "fresh"
      BY <1>1, <2>7
    <3>2. pr[q].slot \in Slots /\ table[pr[q].slot].num \in All
      BY <3>1 DEF IInv, ProcOK, StageOK, PlaceOK, UsingPcs, All
    <3> QED
      BY <1>11, <1>12, <2>1, <3>1, <3>2 DEF DiskOK
  <2> QED
    BY <2>4, <2>6, <2>7 DEF DiskOK
<1>16. UsersOK'
  <2>1. \A m \in imap' \ names' : UserOf(p, m) => UserOf(p, m)'
    BY <1>1, <1>3, <1>12 DEF UserOf, Putting, Writing
  <2>2. \A q \in Procs : Using(q) => pr[q].slot \in Slots
    BY DEF IInv, ProcOK, PlaceOK, Using, Writing
  <2>3. UsersOK
    BY DEF IInv
  <2> QED
    BY <1>1, <1>12, <2>1, <2>2, <2>3, UsersKept
<1>17. \A t \in Slots : Uses(p, t)' <=> Uses(p, t)
  BY <1>1 DEF Uses, Using, Writing
<1>18. i.count = table[s].count + (B2N(Uses(p, s)') - B2N(Uses(p, s)))
  BY <1>5, <1>9, <1>17 DEF B2N
<1>19. \A q \in Procs \ {p} :
           /\ pr[q].empty # s
           /\ pr[q].pc \in {"rread", "trunc"} => pr[q].slot # s
           /\ pr[q].pc = "fresh" /\ pr[q].slot = s =>
                i.nlinks = table[s].nlinks /\ i.count = table[s].count
           /\ pr[q].pc = "wread" /\ pr[q].slot = s => i.lock /\ i.dirt
           /\ pr'[p].pc \in {"wread", "rread"} /\ pr[q].pc \in {"wread", "rread"}
                => pr'[p].slot # pr[q].slot
           /\ pr'[p].pc \in {"wlock", "wread"} /\ pr[q].pc = "trunc" => pr'[p].slot # pr[q].slot
  <2>1. \A q \in Procs : pr[q].pc = "wread" /\ pr[q].slot = s => i.lock /\ i.dirt
    BY <1>9 DEF IInv, ProcOK, LockOK
  <2> QED
    BY <1>1, <1>5, <2>1
<1>20. /\ pr[p].pc \in {"rread", "fresh"} => pr[p].slot = s
       /\ pr'[p].pc \in {"rread", "fresh"} => pr'[p].slot = s
       /\ pr'[p].after = "umount" <=> pr[p].after = "umount"
       /\ pr'[p].empty = pr[p].empty
       /\ cpu \in {None, p} /\ cpu' \in {None, p}
       /\ pr' \in [Procs -> ProcRecords] /\ \A q \in Procs \ {p} : pr'[q] = pr[q]
  BY <1>1, <1>3, ProcFacts
<1>21. \A t \in Slots \ {s} : Uses(p, t)' <=> Uses(p, t)
  BY <1>17
<1>22. i.num = table[s].num /\ table' = [table EXCEPT ![s] = i] /\ UNCHANGED <<imap, names, sb>>
  BY <1>1, <1>9, <1>10
<1> QED
  BY ONLY <1>11, <1>13, <1>14, <1>15, <1>16, <1>18, <1>19, <1>20, <1>21, <1>22, TouchOne,
     IInv, p \in Procs, s \in Slots, i \in InodeRecords

(* A holder removes the name, which nobody is looking up, and puts.        *)
LEMMA UnlinkOK ==
  ASSUME NoRaces, IInv, NEW p \in Procs, Unlink(p)
  PROVE  IInv'
<1>1. pr[p].pc = "hold" /\ cpu \in {None, p} /\ UNCHANGED <<imap, sb>>
  BY DEF Unlink, Runs
<1>2. ProcOK(p) /\ PlaceOK(p)
  BY ProcFacts DEF ProcOK
<1>3. PICK s \in Slots : s = pr[p].slot
  BY <1>1, <1>2 DEF PlaceOK, UsingPcs
<1>4. PICK n : n = table[s].num
  BY SMTT(30)
<1>5. /\ n \in names \ (Dirs \cup {ROOT_INO}) /\ \A q \in Procs : pr[q].want # n
      /\ names' = names \ {n}
      /\ table' = [table EXCEPT ![s].nlinks = @ - 1, ![s].dirt = TRUE]
      /\ disk' = [disk EXCEPT ![n].cur = FALSE]
      /\ Go(p, [pr[p] EXCEPT !.pc = "put", !.after = "out"])
  BY <1>3, <1>4 DEF Unlink, LookedUp, NoRaces
<1>6. Uses(p, s)
  BY <1>1, <1>3 DEF Uses, Using, UsingPcs
<1>7. /\ \A q \in Procs : pr[q].empty # s
      /\ \A q \in Procs : pr[q].pc \in {"rread", "fresh", "trunc"} => pr[q].slot # s
      /\ n # 0 /\ table[s].count >= 1 /\ table[s].count \in Nat
  BY <1>1, <1>4, <1>6, Neighbours, ProcFacts DEF InodeRecords
<1>8. n \in All /\ n \in imap
  BY <1>5 DEF IInv, TypeOK, All
<1>9. SlotOK(s) /\ ~BeingRead(s) /\ ~IsFresh(s)
  BY <1>7 DEF IInv, BeingRead, IsFresh
<1>10. table[s].nlinks = 1 /\ table[s].cur
  BY <1>4, <1>5, <1>7, <1>9 DEF SlotOK, Named
<1>11. PICK i \in InodeRecords : i = [table[s] EXCEPT !.nlinks = table[s].nlinks - 1, !.dirt = TRUE]
  <2>1. table[s] \in InodeRecords /\ table[s].nlinks - 1 = 0
    BY <1>10, ProcFacts
  <2>2. [table[s] EXCEPT !.nlinks = table[s].nlinks - 1, !.dirt = TRUE] \in InodeRecords
    BY ONLY <2>1 DEF InodeRecords
  <2> QED
    BY <2>2
<1>12. i.num = n /\ i.count = table[s].count /\ i.dirt /\ i.lock = table[s].lock /\ i.nlinks = 0 /\ i.cur
  <2>1. table[s] \in InodeRecords /\ table[s].nlinks - 1 = 0
    BY <1>10, ProcFacts
  <2> QED
    BY ONLY <1>4, <1>10, <1>11, <2>1 DEF InodeRecords
<1>13. /\ table' \in [Slots -> InodeRecords] /\ table'[s] = i
       /\ \A t \in Slots \ {s} : table'[t] = table[t]
  BY <1>5, <1>11, ProcFacts
<1>14. PICK r \in ProcRecords : r = [pr[p] EXCEPT !.pc = "put", !.after = "out"]
  <2>1. pr[p] \in ProcRecords
    BY ProcFacts
  <2> QED
    BY ONLY <2>1 DEF ProcRecords, PCs, UsingPcs
<1>15. pr[p].want = 0 /\ pr[p].empty = 0 /\ pr[p].after # "umount"
  BY <1>1, <1>2 DEF PlaceOK, Putting, Writing
<1>16. r.pc = "put" /\ r.slot = s /\ r.empty = 0 /\ r.want = 0 /\ r.after = "out"
  BY <1>3, <1>14, <1>15, ProcFacts DEF ProcRecords
<1>17. /\ pr' \in [Procs -> ProcRecords] /\ pr'[p] = r /\ cpu' \in {None, p}
       /\ \A q \in Procs \ {p} : pr'[q] = pr[q]
  BY <1>5, <1>14, GoOK
<1>18. Using(p) /\ Using(p)' /\ Putting(p)' /\ ~Writing(p, "sync")'
  BY <1>1, <1>16, <1>17 DEF Using, Putting, Writing, UsingPcs
<1>19. \A t \in Slots : (Uses(p, t) <=> t = s) /\ (Uses(p, t)' <=> t = s)
  BY <1>3, <1>16, <1>17, <1>18 DEF Uses
<1>20. ProcOK(p)'
  <2>1. PlaceOK(p)'
    BY <1>16, <1>17, <1>18 DEF PlaceOK, UsingPcs
  <2>2. WantOK(p)' /\ ReserveOK(p)'
    BY <1>16, <1>17 DEF WantOK, ReserveOK
  <2>3. LockOK(p)'
    BY <1>16, <1>17 DEF LockOK
  <2>4. StageOK(p)'
    BY <1>7, <1>12, <1>13, <1>16, <1>17 DEF StageOK
  <2> QED
    BY <2>1, <2>2, <2>3, <2>4 DEF ProcOK
<1>21. \A t : Mounted(t)' <=> Mounted(t)
  BY <1>1, <1>15, <1>16, <1>17 DEF Mounted, Umounting
<1>22. \A t \in Slots : table'[t].num = table[t].num /\ (table[t].dirt => table'[t].dirt)
  BY <1>4, <1>12, <1>13
<1>23. SlotOK(s)'
  <2>1. ~IsFresh(s)'
    BY <1>7, <1>16, <1>17 DEF IsFresh
  <2>2. Mounted(s)' => n \in Dirs
    BY <1>4, <1>9, <1>21 DEF SlotOK
  <2>3. table'[s].num = n /\ table'[s].count # 0 /\ table'[s].nlinks # 1 /\ table'[s].cur
    BY <1>7, <1>12, <1>13
  <2>4. n \in imap' /\ n \notin names' \cup {ROOT_INO}
    BY <1>1, <1>5, <1>8
  <2> QED
    BY ONLY <1>7, <2>1, <2>2, <2>3, <2>4 DEF SlotOK, Named
<1>24. /\ disk' \in [All -> [nlinks : {0, 1}, cur : BOOLEAN]]
       /\ \A m \in All : disk'[m].nlinks = disk[m].nlinks
       /\ \A m \in All \ {n} : disk'[m] = disk[m]
  BY <1>5, <1>8, ProcFacts
<1>25. DiskOK'
  <2>1. DiskOK
    BY DEF IInv
  <2>2. \A m : DirtySlot(m) => DirtySlot(m)'
    BY <1>22 DEF DirtySlot
  <2>3. DirtySlot(n)'
    BY <1>12, <1>13 DEF DirtySlot
  <2>4. \A m \in All : disk'[m].cur \/ DirtySlot(m)'
    BY <1>24, <2>1, <2>2, <2>3 DEF DiskOK
  <2>5. names \cup {ROOT_INO} \subseteq All
    BY DEF IInv, TypeOK, All
  <2>6. \A m \in names' \cup {ROOT_INO} : disk'[m].nlinks = 1 \/ DirtySlot(m)'
    BY <1>5, <1>24, <2>1, <2>2, <2>5 DEF DiskOK
  <2>7. ASSUME NEW q \in Procs, pr'[q].pc = "fresh"
        PROVE  disk'[table'[pr'[q].slot].num].nlinks = 1 \/ table'[pr'[q].slot].dirt
    <3>1. pr'[q] = pr[q] /\ pr[q].pc = "fresh"
      BY <1>16, <1>17, <2>7
    <3>2. pr[q].slot \in Slots /\ table[pr[q].slot].num \in All
      BY <3>1 DEF IInv, ProcOK, StageOK, PlaceOK, UsingPcs, All
    <3> QED
      BY <1>22, <1>24, <2>1, <3>1, <3>2 DEF DiskOK
  <2> QED
    BY <2>4, <2>6, <2>7 DEF DiskOK
<1>26. UsersOK'
  <2> SUFFICES ASSUME NEW m \in imap' \ names' PROVE \E q \in Procs : UserOf(q, m)'
    BY DEF UsersOK
  <2>1. UserOf(p, n)'
    BY <1>12, <1>13, <1>16, <1>17, <1>18 DEF UserOf
  <2>2. CASE m # n
    <3>1. PICK q \in Procs : UserOf(q, m)
      BY <1>1, <1>5, <2>2 DEF IInv, UsersOK
    <3>2. UserPc(q) /\ q # p
      BY <1>3, <1>4, <2>2, <3>1 DEF UserOf, UserPc
    <3>3. pr[q].slot \in Slots
      BY <3>2, UserPcUses DEF IInv, ProcOK, PlaceOK, Using, Writing
    <3>4. UserOf(q, m)'
      BY <1>17, <1>22, <3>1, <3>2, <3>3 DEF UserOf, Putting, Writing
    <3> QED
      BY <3>4
  <2> QED
    BY <2>1, <2>2
<1>27. TypeOK'
  <2>1. TypeOK
    BY DEF IInv
  <2>2. cpu' \in Procs \cup {None} /\ names' \subseteq imap' /\ Dirs \subseteq names'
    BY <1>1, <1>5, <1>17, <2>1 DEF TypeOK
  <2> QED
    BY <1>1, <1>13, <1>17, <1>24, <2>1, <2>2 DEF TypeOK
<1>28. UniqueInode'
  <2>1. UniqueInode /\ \A t \in Slots : table'[t].num = table[t].num
    BY <1>22 DEF IInv
  <2> QED
    BY ONLY <2>1 DEF UniqueInode
<1>29. CountIsRefs'
  <2>1. ASSUME NEW t \in Slots
        PROVE table'[t].count = table[t].count
             + (B2N(pr'[p].empty = t) - B2N(pr[p].empty = t))
             + (B2N(Uses(p, t)') - B2N(Uses(p, t)))
             + (MountRef(t)' - MountRef(t))
    <3>1. B2N(pr'[p].empty = t) - B2N(pr[p].empty = t) = 0
      BY <1>15, <1>16, <1>17 DEF B2N
    <3>2. MountRef(t)' - MountRef(t) = 0
      BY <1>21 DEF MountRef
    <3>3. B2N(Uses(p, t)') - B2N(Uses(p, t)) = 0
      BY <1>19 DEF B2N
    <3>4. table[t].count \in Nat /\ table'[t].count = table[t].count
      BY <1>12, <1>13, ProcFacts DEF InodeRecords
    <3> QED
      BY <3>1, <3>2, <3>3, <3>4
  <2>2. CountIsRefs
    BY DEF IInv
  <2> QED
    BY <1>17, <2>1, <2>2, CountStep
<1>30. PICK T : T = {s}
  OBVIOUS
<1>31. \A q \in Procs : pr[q].pc \in {"fresh", "trunc"} => table[pr[q].slot].num \notin names'
  BY <1>5 DEF IInv, ProcOK, StageOK
<1>32. \A q \in Procs : pr[q].want \in names' \cup {0, ROOT_INO}
  BY <1>5 DEF IInv, ProcOK, WantOK
<1>33. \A t \in Slots : table[t].num \in imap' \cup {0, ROOT_INO}
  BY <1>1 DEF IInv, SlotOK
<1>34. \A q \in Procs : pr[q].pc = "wread" /\ pr[q].slot = s => table'[s].lock /\ table'[s].dirt
  BY <1>12, <1>13 DEF IInv, ProcOK, LockOK
<1>35. \A q \in Procs \ {p} :
           /\ pr[q].empty \notin T
           /\ pr[q].pc \in {"rread", "trunc"} => pr[q].slot \notin T
           /\ pr[q].pc \in {"fresh", "trunc"} => table[pr[q].slot].num \notin names'
           /\ pr[q].pc = "fresh" /\ pr[q].slot \in T =>
                table'[pr[q].slot].nlinks = table[pr[q].slot].nlinks
                /\ table'[pr[q].slot].count = table[pr[q].slot].count
           /\ pr[q].slot \in T /\ Using(q) => table'[pr[q].slot].num = table[pr[q].slot].num
           /\ pr[q].slot \in T /\ pr[q].pc = "wread" => table'[pr[q].slot].lock /\ table'[pr[q].slot].dirt
           /\ pr[q].want \in names' \cup {0, ROOT_INO}
           /\ pr'[p].pc \in {"wread", "rread"} /\ pr[q].pc \in {"wread", "rread"}
                => pr'[p].slot # pr[q].slot
           /\ pr'[p].pc \in {"wlock", "wread"} /\ pr[q].pc = "trunc" => pr'[p].slot # pr[q].slot
  BY <1>7, <1>16, <1>17, <1>22, <1>30, <1>31, <1>32, <1>34
<1>36. \A t \in Slots \ T :
           /\ table[t].num \in imap' \cup {0, ROOT_INO}
           /\ table[t].num \in names' <=> table[t].num \in names
           /\ Mounted(t)' => Mounted(t)
           /\ pr[p].pc \notin {"rread", "fresh"} \/ pr[p].slot # t
           /\ pr'[p].pc \notin {"rread", "fresh"} \/ pr'[p].slot # t
  <2>1. \A t \in Slots \ T : table[t].num # n
    BY <1>4, <1>7, <1>30 DEF IInv, UniqueInode
  <2> QED
    BY <1>1, <1>5, <1>16, <1>17, <1>21, <1>33, <2>1
<1>37. \A t \in Slots \ T : table'[t] = table[t]
  BY <1>13, <1>30
<1>38. \A t \in Slots : t \in T => SlotOK(t)'
  BY <1>23, <1>30
<1>39. cpu \in {None, p}
  BY <1>1
<1> QED
  BY ONLY <1>17, <1>20, <1>25, <1>26, <1>27, <1>28, <1>29, <1>35, <1>36, <1>37, <1>38, <1>39, Touch,
          IInv, p \in Procs, SMTT(30)

-----------------------------------------------------------------------------
(* Where iput() returns to.                                                *)
LEMMA ReturnPutOK ==
  ASSUME IInv, NEW p \in Procs, pr[p].pc \in {"put", "trunc"}, ReturnPut(p)
  PROVE  /\ pr' \in [Procs -> ProcRecords] /\ cpu' \in {None, p}
         /\ \A q \in Procs \ {p} : pr'[q] = pr[q]
         /\ pr'[p].pc \in {"out", "scan", "umount"}
         /\ pr'[p].empty = pr[p].empty
         /\ pr'[p].after = "umount" <=> pr[p].after = "umount"
         /\ ~Using(p)' /\ PlaceOK(p)' /\ WantOK(p)' /\ LockOK(p)' /\ StageOK(p)'
<1>1. PlaceOK(p) /\ Putting(p)
  BY ProcFacts DEF ProcOK, Putting
<1>2. pr[p].after \in {"out", "scan", "umount"}
  BY <1>1, ProcFacts DEF PlaceOK, ProcRecords
<1>3. /\ pr[p].after = "scan" <=> pr[p].empty # 0
      /\ pr[p].after = "scan" => pr[p].want = ROOT_INO
      /\ pr[p].after # "scan" => pr[p].want = 0
  BY <1>1 DEF PlaceOK
<1>4. CASE pr[p].after = "out"
  <2>1. Sleep(p, Out)
    BY <1>4 DEF ReturnPut
  <2>2. /\ pr' \in [Procs -> ProcRecords] /\ pr'[p] = Out /\ cpu' \in {None, p}
        /\ \A q \in Procs \ {p} : pr'[q] = pr[q]
    BY <2>1, OutIs, GoOK
  <2>3. ~Using(p)' /\ ~Putting(p)' /\ ~Writing(p, "sync")'
    BY <2>2, OutIs DEF Using, Putting, Writing, UsingPcs
  <2>4. PlaceOK(p)'
    BY <2>2, <2>3, OutIs DEF PlaceOK, UsingPcs
  <2>5. WantOK(p)' /\ LockOK(p)' /\ StageOK(p)'
    BY <2>2, <2>3, OutIs DEF WantOK, LockOK, StageOK
  <2> QED
    BY <1>3, <1>4, <2>2, <2>3, <2>4, <2>5, OutIs
<1>5. CASE pr[p].after # "out"
  <2>1. Go(p, [pr[p] EXCEPT !.pc = pr[p].after])
    BY <1>5 DEF ReturnPut
  <2>2. pr[p].after \in PCs
    BY <1>2 DEF PCs
  <2>3. PICK r \in ProcRecords : r = [pr[p] EXCEPT !.pc = pr[p].after]
    BY <2>2, ProcFacts DEF ProcRecords
  <2>4. /\ r.pc = pr[p].after /\ r.empty = pr[p].empty /\ r.want = pr[p].want /\ r.after = pr[p].after
    BY <2>3, ProcFacts DEF ProcRecords
  <2>5. /\ pr' \in [Procs -> ProcRecords] /\ pr'[p] = r /\ cpu' \in {None, p}
        /\ \A q \in Procs \ {p} : pr'[q] = pr[q]
    BY <2>1, <2>3, GoOK
  <2>6. pr'[p].pc \in {"scan", "umount"}
    BY <1>2, <1>5, <2>4, <2>5
  <2>7. ~Using(p)' /\ ~Putting(p)' /\ ~Writing(p, "sync")'
    BY <2>6 DEF Using, Putting, Writing, UsingPcs
  <2>8. PlaceOK(p)'
    <3>1. ROOT_INO # 0
      BY DEF ROOT_INO
    <3> QED
      BY <1>3, <2>4, <2>5, <2>6, <2>7, <3>1 DEF PlaceOK, UsingPcs
  <2>9. WantOK(p)'
    BY <1>3, <2>4, <2>5 DEF WantOK
  <2>10. LockOK(p)' /\ StageOK(p)'
    BY <2>6, <2>7 DEF LockOK, StageOK
  <2> QED
    BY <2>4, <2>5, <2>6, <2>7, <2>8, <2>9, <2>10
<1> QED
  BY <1>4, <1>5

(* iput() drops a reference: a number without a name keeps another user,   *)
(* and the last reference is dropped only when the inode is clean.         *)
LEMMA IputDropOK ==
  ASSUME IInv, NEW p \in Procs, pr[p].pc = "put", cpu \in {None, p},
         NEW s \in Slots, s = pr[p].slot, ~table[s].lock,
         table[s].count > 1 \/ (table[s].nlinks > 0 /\ ~table[s].dirt),
         table' = [table EXCEPT ![s].count = @ - 1], ReturnPut(p),
         UNCHANGED <<disk, imap, names, sb>>
  PROVE  IInv'
<1>1. ProcOK(p) /\ SlotOK(s)
  BY ProcFacts DEF IInv
<1>2. Uses(p, s)
  BY DEF Uses, Using, UsingPcs
<1>3. /\ \A q \in Procs : pr[q].empty # s
      /\ \A q \in Procs : pr[q].pc \in {"rread", "fresh", "trunc"} => pr[q].slot # s
      /\ table[s].num # 0 /\ table[s].count >= 1 /\ table[s].count \in Nat
  BY <1>2, Neighbours, ProcFacts DEF InodeRecords
<1>4. \A q \in Procs : pr[q].pc = "wread" => pr[q].slot # s
  BY DEF IInv, ProcOK, LockOK
<1>5. PICK i \in InodeRecords : i = [table[s] EXCEPT !.count = table[s].count - 1]
  <2>1. table[s] \in InodeRecords /\ table[s].count - 1 \in Nat
    BY <1>3, ProcFacts
  <2>2. [table[s] EXCEPT !.count = table[s].count - 1] \in InodeRecords
    BY ONLY <2>1 DEF InodeRecords
  <2> QED
    BY <2>2
<1>6. /\ i.num = table[s].num /\ i.count = table[s].count - 1 /\ i.dirt = table[s].dirt
      /\ i.lock = table[s].lock /\ i.nlinks = table[s].nlinks /\ i.cur = table[s].cur
  BY <1>5, ProcFacts DEF InodeRecords
<1>7. table' = [table EXCEPT ![s] = i] /\ table'[s] = i
  BY <1>5, ProcFacts
<1>8. /\ pr' \in [Procs -> ProcRecords] /\ cpu' \in {None, p}
      /\ \A q \in Procs \ {p} : pr'[q] = pr[q]
      /\ pr'[p].pc \in {"out", "scan", "umount"}
      /\ pr'[p].empty = pr[p].empty
      /\ pr'[p].after = "umount" <=> pr[p].after = "umount"
      /\ ~Using(p)' /\ PlaceOK(p)' /\ WantOK(p)' /\ LockOK(p)' /\ StageOK(p)'
  BY ReturnPutOK
<1>9. ProcOK(p)'
  <2>1. pr[p].empty # 0 => table'[pr[p].empty] = table[pr[p].empty]
    BY <1>3, <1>7, ProcFacts
  <2>2. ReserveOK(p)'
    BY <1>1, <1>8, <2>1 DEF ProcOK, ReserveOK
  <2> QED
    BY <1>8, <2>2 DEF ProcOK
<1>10. \A t \in Slots : table'[t].num = table[t].num /\ table'[t].dirt = table[t].dirt
  BY <1>6, <1>7, ProcFacts
<1>11. ~BeingRead(s) /\ ~IsFresh(s)
  BY <1>3 DEF BeingRead, IsFresh
<1>12. SlotOK(s)'
  <2>1. (BeingRead(s)' <=> BeingRead(s)) /\ (IsFresh(s)' <=> IsFresh(s))
    BY <1>8, ReadersSame
  <2>2. Mounted(s)' <=> Mounted(s)
    BY <1>8 DEF Mounted, Umounting
  <2>3. i.count = 0 => ~i.dirt /\ ~i.lock
    BY <1>3, <1>6
  <2> QED
    BY <1>1, <1>6, <1>7, <2>1, <2>2, <2>3 DEF SlotOK, Named
<1>13. DiskOK'
  <2>1. \A q \in Procs : pr'[q].pc = "fresh" => pr[q].pc = "fresh" /\ pr'[q].slot = pr[q].slot
    BY <1>8
  <2>2. \A q \in Procs : pr[q].pc = "fresh" => pr[q].slot \in Slots
    BY DEF IInv, ProcOK, PlaceOK, UsingPcs
  <2>3. DiskOK
    BY DEF IInv
  <2> QED
    BY <1>10, <2>1, <2>2, <2>3, DiskKept
<1>14. UsersOK'
  <2>1. ASSUME NEW n \in imap' \ names', UserOf(p, n)
        PROVE  \E q \in Procs : UserOf(q, n)'
    <3>1. n = table[s].num /\ n \notin names /\ n # ROOT_INO
      <4>1. n \in Inodes
        BY DEF IInv, TypeOK
      <4> QED
        BY <2>1, <4>1, InodesAssumption DEF UserOf, ROOT_INO
    <3>2. n \notin Dirs
      BY <3>1 DEF IInv, TypeOK
    <3>3. table[s].count > 1
      <4>1. ~(table[s].nlinks = 1)
        BY <1>1, <1>3, <1>11, <3>1 DEF SlotOK, Named
      <4>2. table[s].nlinks \in {0, 1}
        BY ProcFacts DEF InodeRecords
      <4> QED
        BY <4>1, <4>2
    <3>4. ~Mounted(s)
      BY <1>1, <3>1, <3>2 DEF SlotOK
    <3>5. CountIsRefs
      BY DEF IInv
    <3>6. PICK q \in Procs \ {p} : Uses(q, s)
      BY <1>2, <1>3, <3>3, <3>4, <3>5, OtherRefs
    <3>7. pr[q].slot = s /\ Using(q) /\ pr[q].pc # "rread"
      BY <1>3, <3>6 DEF Uses
    <3>8. pr[q].pc \notin {"super", "sread"}
      BY <3>1, <3>2, <3>7 DEF IInv, ProcOK, StageOK
    <3>9. UserPc(q)
      BY <3>7, <3>8 DEF Using, UsingPcs, UserPc, Putting
    <3>10. pr'[q] = pr[q]
      BY <1>8
    <3>11. UserOf(q, n)'
      BY <1>10, <3>1, <3>7, <3>9, <3>10 DEF UserOf, UserPc, Putting, Writing
    <3> QED
      BY <3>11
  <2>2. \A q \in Procs : Using(q) => pr[q].slot \in Slots
    BY DEF IInv, ProcOK, PlaceOK, Using, Writing
  <2>3. UsersOK
    BY DEF IInv
  <2> QED
    BY <1>8, <1>10, <2>1, <2>2, <2>3, UsersKept
<1>15. \A t \in Slots : (Uses(p, t) <=> t = s) /\ ~Uses(p, t)'
  BY <1>2, <1>8 DEF Uses
<1>16. i.count = table[s].count + (B2N(Uses(p, s)') - B2N(Uses(p, s)))
  BY <1>3, <1>6, <1>15 DEF B2N
<1>17. disk' \in [All -> [nlinks : {0, 1}, cur : BOOLEAN]]
  BY ProcFacts
<1>18. \A q \in Procs \ {p} :
           /\ pr[q].empty # s
           /\ pr[q].pc \in {"rread", "trunc"} => pr[q].slot # s
           /\ pr[q].pc = "fresh" /\ pr[q].slot = s =>
                i.nlinks = table[s].nlinks /\ i.count = table[s].count
           /\ pr[q].pc = "wread" /\ pr[q].slot = s => i.lock /\ i.dirt
           /\ pr'[p].pc \in {"wread", "rread"} /\ pr[q].pc \in {"wread", "rread"}
                => pr'[p].slot # pr[q].slot
           /\ pr'[p].pc \in {"wlock", "wread"} /\ pr[q].pc = "trunc" => pr'[p].slot # pr[q].slot
  BY <1>3, <1>4, <1>8
<1>19. /\ pr[p].pc \in {"rread", "fresh"} => pr[p].slot = s
       /\ pr'[p].pc \in {"rread", "fresh"} => pr'[p].slot = s
  BY <1>8
<1>20. \A t \in Slots \ {s} : Uses(p, t)' <=> Uses(p, t)
  BY <1>15
<1>21. i.num = table[s].num /\ table' = [table EXCEPT ![s] = i] /\ UNCHANGED <<imap, names, sb>>
  BY <1>6, <1>7
<1> QED
  BY ONLY <1>8, <1>9, <1>12, <1>13, <1>14, <1>16, <1>17, <1>18, <1>19, <1>20, <1>21, TouchOne,
     IInv, p \in Procs, s \in Slots, i \in InodeRecords, cpu \in {None, p}

LEMMA IputOK ==
  ASSUME IInv, NEW p \in Procs, Iput(p)
  PROVE  IInv' /\ panicked' = panicked
<1>1. pr[p].pc = "put" /\ cpu \in {None, p} /\ UNCHANGED <<disk, imap, names, sb>>
  BY DEF Iput, Runs
<1>2. PlaceOK(p) /\ WantOK(p)
  BY ProcFacts DEF ProcOK
<1>3. PICK s \in Slots : s = pr[p].slot
  BY <1>1, <1>2 DEF PlaceOK, UsingPcs
<1>4. ~table[s].lock
  BY <1>3 DEF Iput
<1>5. Uses(p, s) /\ SlotOK(s)
  BY <1>1, <1>3 DEF Uses, Using, UsingPcs, IInv
<1>6. /\ \A q \in Procs : pr[q].pc \in {"rread", "fresh", "trunc"} => pr[q].slot # s
      /\ table[s].num # 0 /\ table[s].count >= 1 /\ table[s].count \in Nat
  <2>1. table[s].count \in Nat
    BY ProcFacts DEF InodeRecords
  <2> QED
    BY <1>1, <1>5, <2>1, Neighbours
<1>7. \A q \in Procs \ {p} : pr[q].pc \in {"wlock", "wread"} => pr[q].slot # s
  BY <1>1, <1>4, ProcsAssumption DEF IInv, ProcOK, PlaceOK, LockOK
<1>8. /\ pr[p].after # ""
      /\ pr[p].after = "scan" <=> pr[p].empty # 0
      /\ pr[p].after = "scan" => pr[p].want = ROOT_INO
      /\ pr[p].after # "scan" => pr[p].want = 0
  BY <1>1, <1>2 DEF PlaceOK, Putting
<1>9. ASSUME table[s].count > 1 \/ (table[s].nlinks > 0 /\ ~table[s].dirt),
             table' = [table EXCEPT ![s].count = @ - 1], ReturnPut(p)
      PROVE  IInv'
  BY <1>1, <1>3, <1>4, <1>9, IputDropOK
<1>10. ASSUME table[s].count = 1, table[s].nlinks = 0, UNCHANGED table,
              Sleep(p, [pr[p] EXCEPT !.pc = "trunc"])
       PROVE  IInv'
  <2>1. PICK r \in ProcRecords : r = [pr[p] EXCEPT !.pc = "trunc"]
    <3>1. pr[p] \in ProcRecords
      BY ProcFacts
    <3> QED
      BY ONLY <3>1 DEF ProcRecords, PCs, UsingPcs
  <2>2. r.pc = "trunc" /\ r.slot = s /\ r.empty = pr[p].empty /\ r.want = pr[p].want /\ r.after = pr[p].after
    BY <1>3, <2>1, ProcFacts DEF ProcRecords
  <2>3. /\ pr' \in [Procs -> ProcRecords] /\ pr'[p] = r /\ cpu' \in {None, p}
        /\ \A q \in Procs \ {p} : pr'[q] = pr[q]
    BY <1>10, <2>1, GoOK
  <2>4. Using(p) /\ Using(p)' /\ UserPc(p)' /\ Putting(p)' /\ ~Writing(p, "sync")'
    BY <1>1, <2>2, <2>3 DEF Using, UserPc, Putting, Writing, UsingPcs
  <2>5. PlaceOK(p)'
    BY <1>8, <2>2, <2>3, <2>4 DEF PlaceOK, UsingPcs
  <2>6. pr'[p].want \in names \cup {0, ROOT_INO}
    BY <1>2, <2>2, <2>3 DEF WantOK
  <2>7. table[s].num \in Inodes \ names
    <3>1. ~BeingRead(s)
      BY <1>6 DEF BeingRead
    <3>2. ~Named(table[s].num)
      BY <1>5, <1>6, <1>10, <3>1 DEF SlotOK
    <3>3. table[s].num \in All
      BY <1>6, ProcFacts DEF InodeRecords
    <3> QED
      BY <3>2, <3>3 DEF Named, All
  <2>8. sb' \in [state : {"none", "read", "up"}, imount : Slots \cup {0}] /\ sb'.imount = sb.imount
    BY <1>1, ProcFacts
  <2>9. UNCHANGED <<table, disk, imap, names>>
    BY <1>1, <1>10
  <2>10. /\ Using(p)' <=> Using(p)
         /\ Using(p) => pr'[p].slot = pr[p].slot
         /\ pr'[p].empty = pr[p].empty
         /\ pr'[p].after = "umount" <=> pr[p].after = "umount"
         /\ pr[p].pc \notin {"wread", "rread", "fresh"}
         /\ pr'[p].pc \notin {"wread", "rread", "fresh"}
         /\ UserPc(p) => UserPc(p)' \/ table[pr[p].slot].num \in names
    BY <1>1, <1>3, <2>2, <2>3, <2>4
  <2>11. /\ pr'[p].pc = "wlock" =>
              /\ ~table[pr'[p].slot].lock /\ table[pr'[p].slot].dirt
              /\ \A q \in Procs \ {p} : pr[q].pc = "trunc" => pr[q].slot # pr'[p].slot
         /\ pr'[p].pc = "ewait" => table[pr'[p].slot].count = 0
         /\ pr'[p].pc \in {"super", "sread"} => table[pr'[p].slot].num \in Dirs
         /\ pr'[p].pc = "trunc" =>
              /\ table[pr'[p].slot].num \in Inodes \ names /\ table[pr'[p].slot].count = 1
              /\ \A q \in Procs \ {p} : pr[q].pc \in {"wlock", "wread"} => pr[q].slot # pr'[p].slot
    BY <1>7, <1>10, <2>2, <2>3, <2>7
  <2> QED
    BY ONLY <1>1, <2>3, <2>5, <2>6, <2>8, <2>9, <2>10, <2>11, Quiet, IInv, p \in Procs
<1>11. ASSUME table[s].dirt, UNCHANGED table,
              Go(p, [pr[p] EXCEPT !.pc = "wlock", !.ret = "put"])
       PROVE  IInv'
  <2>1. PICK r \in ProcRecords : r = [pr[p] EXCEPT !.pc = "wlock", !.ret = "put"]
    <3>1. pr[p] \in ProcRecords
      BY ProcFacts
    <3> QED
      BY ONLY <3>1 DEF ProcRecords, PCs
  <2>2. /\ r.pc = "wlock" /\ r.slot = s /\ r.empty = pr[p].empty /\ r.want = pr[p].want
        /\ r.after = pr[p].after /\ r.ret = "put"
    BY <1>3, <2>1, ProcFacts DEF ProcRecords
  <2>3. /\ pr' \in [Procs -> ProcRecords] /\ pr'[p] = r
        /\ \A q \in Procs \ {p} : pr'[q] = pr[q]
    BY <1>11, <2>1, GoOK
  <2>4. cpu' = p
    BY <1>4, <1>11, <2>1, <2>2 DEF Go
  <2>5. Using(p) /\ Using(p)' /\ UserPc(p)' /\ Putting(p)' /\ ~Writing(p, "sync")'
    BY <1>1, <2>2, <2>3 DEF Using, UserPc, Putting, Writing, UsingPcs
  <2>6. PlaceOK(p)'
    BY <1>8, <2>2, <2>3, <2>4, <2>5 DEF PlaceOK, UsingPcs
  <2>7. pr'[p].want \in names \cup {0, ROOT_INO}
    BY <1>2, <2>2, <2>3 DEF WantOK
  <2>8. sb' \in [state : {"none", "read", "up"}, imount : Slots \cup {0}] /\ sb'.imount = sb.imount
    BY <1>1, ProcFacts
  <2>9. UNCHANGED <<table, disk, imap, names>> /\ cpu' \in {None, p}
    BY <1>1, <1>11, <2>4
  <2>10. /\ Using(p)' <=> Using(p)
         /\ Using(p) => pr'[p].slot = pr[p].slot
         /\ pr'[p].empty = pr[p].empty
         /\ pr'[p].after = "umount" <=> pr[p].after = "umount"
         /\ pr[p].pc \notin {"wread", "rread", "fresh"}
         /\ pr'[p].pc \notin {"wread", "rread", "fresh"}
         /\ UserPc(p) => UserPc(p)' \/ table[pr[p].slot].num \in names
    BY <1>1, <1>3, <2>2, <2>3, <2>5
  <2>11. /\ pr'[p].pc = "wlock" =>
              /\ ~table[pr'[p].slot].lock /\ table[pr'[p].slot].dirt
              /\ \A q \in Procs \ {p} : pr[q].pc = "trunc" => pr[q].slot # pr'[p].slot
         /\ pr'[p].pc = "ewait" => table[pr'[p].slot].count = 0
         /\ pr'[p].pc \in {"super", "sread"} => table[pr'[p].slot].num \in Dirs
         /\ pr'[p].pc = "trunc" =>
              /\ table[pr'[p].slot].num \in Inodes \ names /\ table[pr'[p].slot].count = 1
              /\ \A q \in Procs \ {p} : pr[q].pc \in {"wlock", "wread"} => pr[q].slot # pr'[p].slot
    BY <1>4, <1>6, <1>11, <2>2, <2>3
  <2> QED
    BY ONLY <1>1, <2>3, <2>6, <2>7, <2>8, <2>9, <2>10, <2>11, Quiet, IInv, p \in Procs
<1>12. /\ UNCHANGED panicked
       /\ \/ /\ table[s].count > 1 \/ (table[s].nlinks > 0 /\ ~table[s].dirt)
             /\ table' = [table EXCEPT ![s].count = Decremented(@)] /\ ReturnPut(p)
          \/ /\ table[s].count <= 1 /\ table[s].nlinks = 0 /\ UNCHANGED table
             /\ Sleep(p, [pr[p] EXCEPT !.pc = "trunc"])
          \/ /\ table[s].dirt /\ UNCHANGED table
             /\ Go(p, [pr[p] EXCEPT !.pc = "wlock", !.ret = "put"])
  <2>1. table[s].count # 0
    BY <1>6
  <2> QED
    BY ONLY <1>3, <2>1, Iput(p) DEF Iput, MustWrite
<1>13. Decremented(table[s].count) = table[s].count - 1
  BY <1>6 DEF Decremented
<1>14. table[s].count <= 1 => table[s].count = 1
  BY <1>6
<1> QED
  BY <1>9, <1>10, <1>11, <1>12, <1>13, <1>14

(* free_inode(): the inode has no name and no other user, so that nobody   *)
(* waits for it, writes it or looks it up.                                 *)
LEMMA FreeInodeOK ==
  ASSUME IInv, NEW p \in Procs, FreeInode(p)
  PROVE  IInv' /\ panicked' = panicked
<1>1. pr[p].pc = "trunc" /\ cpu \in {None, p} /\ UNCHANGED <<names, sb>>
  BY DEF FreeInode, Runs
<1>2. ProcOK(p) /\ PlaceOK(p) /\ StageOK(p)
  BY ProcFacts DEF ProcOK
<1>3. PICK s \in Slots : s = pr[p].slot
  BY <1>1, <1>2 DEF PlaceOK, UsingPcs
<1>4. PICK n \in Inodes \ names : n = table[s].num
  BY <1>1, <1>2, <1>3 DEF StageOK
<1>5. table[s].count = 1 /\ \A q \in Procs : pr[q].pc \in {"wlock", "wread"} => pr[q].slot # s
  BY <1>1, <1>2, <1>3 DEF StageOK
<1>6. /\ imap' = imap \ {n} /\ disk' = [disk EXCEPT ![n].cur = TRUE]
      /\ table' = [table EXCEPT ![s] = NoInode] /\ ReturnPut(p) /\ UNCHANGED panicked
  BY <1>3, <1>4, <1>5 DEF FreeInode
<1>7. Uses(p, s) /\ CountIsRefs
  BY <1>1, <1>3 DEF Uses, Using, UsingPcs, IInv
<1>8. ~Mounted(s) /\ \A q \in Procs : pr[q].empty # s /\ (Uses(q, s) => q = p)
  <2>1. table[s].count <= 1
    BY <1>5
  <2> QED
    BY <1>7, <2>1, OnlyUser
<1>9. \A q \in Procs \ {p} : Using(q) \/ pr[q].pc \in {"rread", "wread", "fresh", "trunc"} => pr[q].slot \in Slots \ {s}
  <2>1. \A q \in Procs \ {p} : Using(q) => pr[q].slot # s
    BY <1>8 DEF Uses
  <2>2. \A q \in Procs : pr[q].pc \in {"rread", "fresh", "trunc"} => Using(q)
    BY DEF Using, UsingPcs
  <2>3. \A q \in Procs : Using(q) \/ pr[q].pc \in {"rread", "wread", "fresh", "trunc"} => pr[q].slot \in Slots
    BY DEF IInv, ProcOK, PlaceOK, Using, Writing, UsingPcs
  <2> QED
    BY <1>5, <2>1, <2>2, <2>3
<1>10. n \in All /\ n # 0 /\ n # ROOT_INO
  BY InodesAssumption DEF All, ROOT_INO
<1>11. /\ pr' \in [Procs -> ProcRecords] /\ cpu' \in {None, p}
       /\ \A q \in Procs \ {p} : pr'[q] = pr[q]
       /\ pr'[p].pc \in {"out", "scan", "umount"}
       /\ pr'[p].empty = pr[p].empty
       /\ pr'[p].after = "umount" <=> pr[p].after = "umount"
       /\ ~Using(p)' /\ PlaceOK(p)' /\ WantOK(p)' /\ LockOK(p)' /\ StageOK(p)'
  BY <1>1, <1>6, ReturnPutOK
<1>12. PICK i \in InodeRecords : i = NoInode
  BY DEF NoInode, InodeRecords
<1>13. i.num = 0 /\ i.count = 0 /\ ~i.dirt /\ ~i.lock
  BY <1>12 DEF NoInode
<1>14. /\ table' \in [Slots -> InodeRecords] /\ table'[s] = i
       /\ \A t \in Slots \ {s} : table'[t] = table[t]
  BY <1>6, <1>12, ProcFacts
<1>15. ProcOK(p)'
  <2>1. pr[p].empty # 0 => table'[pr[p].empty] = table[pr[p].empty]
    BY <1>8, <1>14, ProcFacts DEF ProcRecords
  <2>2. ReserveOK(p)'
    BY <1>2, <1>11, <2>1 DEF ProcOK, ReserveOK
  <2> QED
    BY <1>11, <2>2 DEF ProcOK
<1>16. \A t : Mounted(t)' <=> Mounted(t)
  BY <1>1, <1>11 DEF Mounted, Umounting
<1>17. SlotOK(s)'
  <2>1. table'[s].num = 0 /\ ~table'[s].lock /\ ~table'[s].dirt /\ ~Mounted(s)'
    BY <1>8, <1>13, <1>14, <1>16
  <2> QED
    BY ONLY <2>1 DEF SlotOK
<1>18. \A t \in Slots \ {s} : table[t].num # n
  BY <1>4, <1>10 DEF IInv, UniqueInode
<1>19. /\ disk' \in [All -> [nlinks : {0, 1}, cur : BOOLEAN]]
       /\ \A m \in All : disk'[m].nlinks = disk[m].nlinks
       /\ \A m \in All \ {n} : disk'[m] = disk[m]
       /\ disk'[n].cur
  BY <1>6, <1>10, ProcFacts
<1>20. DiskOK'
  <2>1. DiskOK
    BY DEF IInv
  <2>2. \A m \in All \ {n} : DirtySlot(m) => DirtySlot(m)'
    BY <1>4, <1>14 DEF DirtySlot
  <2>3. \A m \in All : disk'[m].cur \/ DirtySlot(m)'
    BY <1>19, <2>1, <2>2 DEF DiskOK
  <2>4. names \cup {ROOT_INO} \subseteq All \ {n}
    BY <1>10 DEF IInv, TypeOK, All
  <2>5. \A m \in names' \cup {ROOT_INO} : disk'[m].nlinks = 1 \/ DirtySlot(m)'
    BY <1>1, <1>19, <2>1, <2>2, <2>4 DEF DiskOK
  <2>6. ASSUME NEW q \in Procs, pr'[q].pc = "fresh"
        PROVE  disk'[table'[pr'[q].slot].num].nlinks = 1 \/ table'[pr'[q].slot].dirt
    <3>1. q # p /\ pr'[q] = pr[q] /\ pr[q].pc = "fresh"
      BY <1>11, <2>6
    <3>2. pr[q].slot \in Slots \ {s} /\ table[pr[q].slot].num \in All
      BY <1>9, <3>1 DEF IInv, ProcOK, StageOK, All
    <3> QED
      BY <1>14, <1>19, <2>1, <3>1, <3>2 DEF DiskOK
  <2> QED
    BY <2>3, <2>5, <2>6 DEF DiskOK
<1>21. UsersOK'
  <2> SUFFICES ASSUME NEW m \in imap' \ names' PROVE \E q \in Procs : UserOf(q, m)'
    BY DEF UsersOK
  <2>1. m # n /\ m \in imap \ names
    BY <1>1, <1>6
  <2>2. PICK q \in Procs : UserOf(q, m)
    BY <2>1 DEF IInv, UsersOK
  <2>3. UserPc(q) /\ q # p
    BY <1>3, <1>4, <2>1, <2>2 DEF UserOf, UserPc
  <2>4. pr[q].slot \in Slots \ {s}
    BY <1>9, <2>3, UserPcUses
  <2>5. UserOf(q, m)'
    BY <1>11, <1>14, <2>2, <2>3, <2>4 DEF UserOf, Putting, Writing
  <2> QED
    BY <2>5
<1>22. TypeOK'
  <2>1. TypeOK
    BY DEF IInv
  <2>2. cpu' \in Procs \cup {None} /\ names' \subseteq imap' /\ imap' \subseteq Inodes
    BY <1>1, <1>6, <1>11, <2>1 DEF TypeOK
  <2> QED
    BY <1>1, <1>11, <1>14, <1>19, <2>1, <2>2 DEF TypeOK
<1>23. UniqueInode'
  <2>1. UniqueInode
    BY DEF IInv
  <2> QED
    BY <1>13, <1>14, <2>1 DEF UniqueInode
<1>24. CountIsRefs'
  <2>1. \A t \in Slots : (Uses(p, t) <=> t = s) /\ ~Uses(p, t)'
    BY <1>7, <1>11 DEF Uses
  <2>2. ASSUME NEW t \in Slots
        PROVE table'[t].count = table[t].count
             + (B2N(pr'[p].empty = t) - B2N(pr[p].empty = t))
             + (B2N(Uses(p, t)') - B2N(Uses(p, t)))
             + (MountRef(t)' - MountRef(t))
    <3>1. B2N(pr'[p].empty = t) - B2N(pr[p].empty = t) = 0
      BY <1>11 DEF B2N
    <3>2. MountRef(t)' - MountRef(t) = 0
      BY <1>16 DEF MountRef
    <3>3. B2N(Uses(p, t)') - B2N(Uses(p, t)) = IF t = s THEN -1 ELSE 0
      BY <2>1 DEF B2N
    <3>4. table[t].count \in Nat
      BY ProcFacts DEF InodeRecords
    <3>5. table'[t].count = IF t = s THEN 0 ELSE table[t].count
      BY <1>13, <1>14
    <3> QED
      BY <1>5, <3>1, <3>2, <3>3, <3>4, <3>5
  <2> QED
    BY <1>7, <1>11, <2>2, CountStep
<1>25. PICK T : T = {s}
  OBVIOUS
<1>26. \A q \in Procs : pr[q].pc \in {"fresh", "trunc"} => table[pr[q].slot].num \notin names'
  BY <1>1 DEF IInv, ProcOK, StageOK
<1>27. \A q \in Procs : pr[q].want \in names' \cup {0, ROOT_INO}
  BY <1>1 DEF IInv, ProcOK, WantOK
<1>28. \A t \in Slots \ {s} : table[t].num \in imap' \cup {0, ROOT_INO}
  BY <1>6, <1>18 DEF IInv, SlotOK
<1>29. \A q \in Procs \ {p} :
           /\ pr[q].empty \notin T
           /\ pr[q].pc \in {"rread", "trunc"} => pr[q].slot \notin T
           /\ pr[q].pc \in {"fresh", "trunc"} => table[pr[q].slot].num \notin names'
           /\ pr[q].pc = "fresh" /\ pr[q].slot \in T =>
                table'[pr[q].slot].nlinks = table[pr[q].slot].nlinks
                /\ table'[pr[q].slot].count = table[pr[q].slot].count
           /\ pr[q].slot \in T /\ Using(q) => table'[pr[q].slot].num = table[pr[q].slot].num
           /\ pr[q].slot \in T /\ pr[q].pc = "wread" => table'[pr[q].slot].lock /\ table'[pr[q].slot].dirt
           /\ pr[q].want \in names' \cup {0, ROOT_INO}
           /\ pr'[p].pc \in {"wread", "rread"} /\ pr[q].pc \in {"wread", "rread"}
                => pr'[p].slot # pr[q].slot
           /\ pr'[p].pc \in {"wlock", "wread"} /\ pr[q].pc = "trunc" => pr'[p].slot # pr[q].slot
  BY <1>8, <1>9, <1>11, <1>25, <1>26, <1>27
<1>30. \A t \in Slots \ T :
           /\ table[t].num \in imap' \cup {0, ROOT_INO}
           /\ table[t].num \in names' <=> table[t].num \in names
           /\ Mounted(t)' => Mounted(t)
           /\ pr[p].pc \notin {"rread", "fresh"} \/ pr[p].slot # t
           /\ pr'[p].pc \notin {"rread", "fresh"} \/ pr'[p].slot # t
  BY <1>1, <1>11, <1>16, <1>25, <1>28
<1>31. \A t \in Slots \ T : table'[t] = table[t]
  BY <1>14, <1>25
<1>32. \A t \in Slots : t \in T => SlotOK(t)'
  BY <1>17, <1>25
<1>33. IInv'
  BY ONLY <1>1, <1>11, <1>15, <1>20, <1>21, <1>22, <1>23, <1>24, <1>29, <1>30, <1>31, <1>32, Touch,
          IInv, p \in Procs, SMTT(30)
<1> QED
  BY <1>6, <1>33

-----------------------------------------------------------------------------
(* The reference of the process becomes the reference of the mount.        *)
LEMMA MountDoneOK ==
  ASSUME IInv, MountInv, NEW p \in Procs, MountDone(p)
  PROVE  IInv'
<1>1. pr[p].pc \in {"super", "sread"} /\ cpu \in {None, p} /\ UNCHANGED <<disk, imap, names>>
  BY DEF MountDone, Runs
<1>2. ProcOK(p) /\ PlaceOK(p) /\ StageOK(p)
  BY ProcFacts DEF ProcOK
<1>3. PICK s \in Slots : s = pr[p].slot
  BY <1>1, <1>2 DEF PlaceOK, UsingPcs
<1>4. CASE sb.imount # 0 \/ table[s].mount
  <2>1. /\ sb' = [sb EXCEPT !.state = "up"] /\ UNCHANGED table
        /\ Go(p, [pr[p] EXCEPT !.pc = "put", !.after = "out"])
    BY <1>3, <1>4 DEF MountDone
  <2>2. sb' \in [state : {"none", "read", "up"}, imount : Slots \cup {0}] /\ sb'.imount = sb.imount
    BY <2>1, ProcFacts
  <2> QED
    BY <1>1, <2>1, <2>2, ToPutOK
<1>5. CASE sb.imount = 0 /\ ~table[s].mount
  <2>1. /\ sb' = [state |-> "up", imount |-> s]
        /\ table' = [table EXCEPT ![s].mount = TRUE, ![s].dirt = TRUE]
        /\ Sleep(p, Out)
    BY <1>3, <1>5 DEF MountDone
  <2>2. Uses(p, s)
    BY <1>1, <1>3 DEF Uses, Using, UsingPcs
  <2>3. /\ \A q \in Procs : pr[q].empty # s
        /\ \A q \in Procs : pr[q].pc \in {"rread", "fresh", "trunc"} => pr[q].slot # s
        /\ table[s].num # 0 /\ table[s].count >= 1 /\ table[s].count \in Nat
        /\ table[s].num \in Dirs
    BY <1>1, <1>2, <1>3, <2>2, Neighbours, ProcFacts DEF InodeRecords, StageOK
  <2>4. pr[p].empty = 0 /\ pr[p].after # "umount"
    BY <1>1, <1>2 DEF PlaceOK, Putting, Writing
  <2>5. ~Umounting
    BY <1>5 DEF MountInv
  <2>6. PICK i \in InodeRecords : i = [table[s] EXCEPT !.mount = TRUE, !.dirt = TRUE]
    <3>1. table[s] \in InodeRecords
      BY ProcFacts
    <3> QED
      BY ONLY <3>1 DEF InodeRecords
  <2>7. /\ i.num = table[s].num /\ i.count = table[s].count /\ i.dirt /\ i.lock = table[s].lock
        /\ i.nlinks = table[s].nlinks /\ i.cur = table[s].cur
    BY <2>6, ProcFacts DEF InodeRecords
  <2>8. /\ table' \in [Slots -> InodeRecords] /\ table'[s] = i
        /\ \A t \in Slots \ {s} : table'[t] = table[t]
    BY <2>1, <2>6, ProcFacts
  <2>9. /\ pr' \in [Procs -> ProcRecords] /\ pr'[p] = Out /\ cpu' \in {None, p}
        /\ \A q \in Procs \ {p} : pr'[q] = pr[q]
    BY <2>1, OutIs, GoOK
  <2>10. Using(p) /\ ~UserPc(p) /\ ~Using(p)' /\ ~Putting(p)' /\ ~Writing(p, "sync")'
    BY <1>1, <2>9, OutIs DEF Using, UserPc, Putting, Writing, UsingPcs
  <2>11. ProcOK(p)'
    <3>1. PlaceOK(p)'
      BY <2>9, <2>10, OutIs DEF PlaceOK, UsingPcs
    <3>2. WantOK(p)' /\ ReserveOK(p)' /\ LockOK(p)' /\ StageOK(p)'
      BY <2>9, <2>10, OutIs DEF WantOK, ReserveOK, LockOK, StageOK
    <3> QED
      BY <3>1, <3>2 DEF ProcOK
  <2>12. \A t \in Slots : ~Mounted(t) /\ (Mounted(t)' <=> t = s)
    <3>1. ~Umounting'
      BY <2>5, <2>9, OutIs DEF Umounting
    <3>2. sb'.imount = s
      BY <2>1, ProcFacts
    <3> QED
      BY <1>5, <3>1, <3>2, ProcFacts DEF Mounted
  <2>13. \A t \in Slots : table'[t].num = table[t].num /\ (table[t].dirt => table'[t].dirt)
    BY <2>7, <2>8
  <2>14. SlotOK(s)'
    <3>1. (BeingRead(s)' <=> BeingRead(s)) /\ (IsFresh(s)' <=> IsFresh(s))
      BY <1>1, <2>9, OutIs, ReadersSame
    <3>2. SlotOK(s)
      BY DEF IInv
    <3>3. /\ table'[s].num = table[s].num /\ table'[s].count # 0 /\ table'[s].nlinks = table[s].nlinks
          /\ table'[s].cur = table[s].cur
      BY <2>3, <2>7, <2>8
    <3>4. imap' = imap /\ names' = names
      BY <1>1
    <3> QED
      BY ONLY <2>3, <3>1, <3>2, <3>3, <3>4 DEF SlotOK, Named
  <2>15. DiskOK'
    <3>1. \A q \in Procs : pr'[q].pc = "fresh" => pr[q].pc = "fresh" /\ pr'[q].slot = pr[q].slot
      BY <2>9, OutIs
    <3>2. \A q \in Procs : pr[q].pc = "fresh" => pr[q].slot \in Slots
      BY DEF IInv, ProcOK, PlaceOK, UsingPcs
    <3>3. DiskOK
      BY DEF IInv
    <3> QED
      BY <1>1, <2>13, <3>1, <3>2, <3>3, DiskKept
  <2>16. UsersOK'
    <3>1. \A n \in imap' \ names' : ~UserOf(p, n)
      BY <2>10 DEF UserOf, UserPc
    <3>2. \A q \in Procs : Using(q) => pr[q].slot \in Slots
      BY DEF IInv, ProcOK, PlaceOK, Using, Writing
    <3>3. UsersOK
      BY DEF IInv
    <3> QED
      BY <1>1, <2>9, <2>13, <3>1, <3>2, <3>3, UsersKept
  <2>17. TypeOK'
    <3>1. TypeOK
      BY DEF IInv
    <3>2. cpu' \in Procs \cup {None} /\ sb' \in [state : {"none", "read", "up"}, imount : Slots \cup {0}]
      BY <2>1, <2>9, ProcFacts
    <3> QED
      BY <1>1, <2>8, <2>9, <3>1, <3>2 DEF TypeOK
  <2>18. UniqueInode'
    <3>1. UniqueInode /\ \A t \in Slots : table'[t].num = table[t].num
      BY <2>13 DEF IInv
    <3> QED
      BY ONLY <3>1 DEF UniqueInode
  <2>19. CountIsRefs'
    <3>1. \A t \in Slots : (Uses(p, t) <=> t = s) /\ ~Uses(p, t)'
      BY <2>2, <2>10 DEF Uses
    <3>2. ASSUME NEW t \in Slots
          PROVE table'[t].count = table[t].count
               + (B2N(pr'[p].empty = t) - B2N(pr[p].empty = t))
               + (B2N(Uses(p, t)') - B2N(Uses(p, t)))
               + (MountRef(t)' - MountRef(t))
      <4>1. B2N(pr'[p].empty = t) - B2N(pr[p].empty = t) = 0
        <5>1. pr'[p].empty = pr[p].empty
          BY <2>4, <2>9, OutIs
        <5> QED
          BY ONLY <5>1 DEF B2N
      <4>2. MountRef(t)' - MountRef(t) = IF t = s THEN 1 ELSE 0
        BY <2>12 DEF MountRef
      <4>3. B2N(Uses(p, t)') - B2N(Uses(p, t)) = IF t = s THEN -1 ELSE 0
        BY <3>1 DEF B2N
      <4>4. table[t].count \in Nat /\ table'[t].count = table[t].count
        BY <2>7, <2>8, ProcFacts DEF InodeRecords
      <4> QED
        BY <4>1, <4>2, <4>3, <4>4
    <3>3. CountIsRefs
      BY DEF IInv
    <3> QED
      BY <2>9, <3>2, <3>3, CountStep
  <2>20. PICK T : T = {s}
    OBVIOUS
  <2>21. \A q \in Procs : pr[q].pc \in {"fresh", "trunc"} => table[pr[q].slot].num \notin names'
    BY <1>1 DEF IInv, ProcOK, StageOK
  <2>22. \A q \in Procs : pr[q].want \in names' \cup {0, ROOT_INO}
    BY <1>1 DEF IInv, ProcOK, WantOK
  <2>23. \A t \in Slots : table[t].num \in imap' \cup {0, ROOT_INO}
    BY <1>1 DEF IInv, SlotOK
  <2>24. \A q \in Procs : pr[q].pc = "wread" /\ pr[q].slot = s => table'[s].lock /\ table'[s].dirt
    BY <2>7, <2>8 DEF IInv, ProcOK, LockOK
  <2>25. \A q \in Procs \ {p} :
           /\ pr[q].empty \notin T
           /\ pr[q].pc \in {"rread", "trunc"} => pr[q].slot \notin T
           /\ pr[q].pc \in {"fresh", "trunc"} => table[pr[q].slot].num \notin names'
           /\ pr[q].pc = "fresh" /\ pr[q].slot \in T =>
                table'[pr[q].slot].nlinks = table[pr[q].slot].nlinks
                /\ table'[pr[q].slot].count = table[pr[q].slot].count
           /\ pr[q].slot \in T /\ Using(q) => table'[pr[q].slot].num = table[pr[q].slot].num
           /\ pr[q].slot \in T /\ pr[q].pc = "wread" => table'[pr[q].slot].lock /\ table'[pr[q].slot].dirt
           /\ pr[q].want \in names' \cup {0, ROOT_INO}
           /\ pr'[p].pc \in {"wread", "rread"} /\ pr[q].pc \in {"wread", "rread"}
                => pr'[p].slot # pr[q].slot
           /\ pr'[p].pc \in {"wlock", "wread"} /\ pr[q].pc = "trunc" => pr'[p].slot # pr[q].slot
    BY <2>3, <2>9, <2>13, <2>20, <2>21, <2>22, <2>24, OutIs
  <2>26. \A t \in Slots \ T :
           /\ table[t].num \in imap' \cup {0, ROOT_INO}
           /\ table[t].num \in names' <=> table[t].num \in names
           /\ Mounted(t)' => Mounted(t)
           /\ pr[p].pc \notin {"rread", "fresh"} \/ pr[p].slot # t
           /\ pr'[p].pc \notin {"rread", "fresh"} \/ pr'[p].slot # t
    BY <1>1, <2>9, <2>12, <2>20, <2>23, OutIs
  <2>27. \A t \in Slots \ T : table'[t] = table[t]
    BY <2>8, <2>20
  <2>28. \A t \in Slots : t \in T => SlotOK(t)'
    BY <2>14, <2>20
  <2> QED
    BY ONLY <1>1, <2>9, <2>11, <2>15, <2>16, <2>17, <2>18, <2>19, <2>25, <2>26, <2>27, <2>28, Touch,
            IInv, p \in Procs
<1> QED
  BY <1>4, <1>5

(* The reference of the mount becomes the reference of the process.        *)
LEMMA UmountOK ==
  ASSUME NoRaces, IInv, NEW p \in Procs, Umount(p)
  PROVE  IInv'
<1>1. pr[p].pc = "out" /\ cpu \in {None, p} /\ UNCHANGED <<disk, imap, names, sb>>
  BY DEF Umount, Runs
<1>2. pr[p] = Out
  BY <1>1, ProcFacts DEF ProcOK, PlaceOK
<1>3. PICK s \in Slots : s = sb.imount
  BY ProcFacts DEF Umount
<1>4. /\ table' = [table EXCEPT ![s].mount = FALSE]
      /\ Go(p, [Out EXCEPT !.pc = "put", !.slot = s, !.after = "umount"])
  BY <1>3 DEF Umount
<1>5. ~Umounting
  BY DEF Umounting, Umount, NoRaces
<1>6. \A t \in Slots : Mounted(t) <=> t = s
  BY <1>3, <1>5 DEF Mounted
<1>7. SlotOK(s) /\ table[s].num \in Dirs
  BY <1>6 DEF IInv, SlotOK
<1>8. table[s].num # 0
  BY <1>7, InodesAssumption
<1>9. \A q \in Procs : pr[q].empty # s
  BY <1>8, NotReserve
<1>10. \A q \in Procs : pr[q].pc \in {"rread", "fresh", "trunc"} => pr[q].slot # s
  <2> SUFFICES ASSUME NEW q \in Procs, pr[q].pc \in {"rread", "fresh", "trunc"}, pr[q].slot = s
               PROVE  FALSE
    OBVIOUS
  <2>1. Uses(q, s) /\ CountIsRefs
    BY DEF Uses, Using, UsingPcs, IInv
  <2>2. table[s].count <= 1
    BY DEF IInv, ProcOK, StageOK
  <2> QED
    BY <1>6, <2>1, <2>2, OnlyUser
<1>11. PICK i \in InodeRecords : i = [table[s] EXCEPT !.mount = FALSE]
  <2>1. table[s] \in InodeRecords
    BY ProcFacts
  <2> QED
    BY ONLY <2>1 DEF InodeRecords
<1>12. /\ i.num = table[s].num /\ i.count = table[s].count /\ i.dirt = table[s].dirt
       /\ i.lock = table[s].lock /\ i.nlinks = table[s].nlinks /\ i.cur = table[s].cur
  BY <1>11, ProcFacts DEF InodeRecords
<1>13. /\ table' \in [Slots -> InodeRecords] /\ table'[s] = i
       /\ \A t \in Slots \ {s} : table'[t] = table[t]
  BY <1>4, <1>11, ProcFacts
<1>14. PICK r \in ProcRecords : r = [Out EXCEPT !.pc = "put", !.slot = s, !.after = "umount"]
  <2>1. Out \in ProcRecords
    BY OutIs
  <2> QED
    BY ONLY <2>1, s \in Slots DEF ProcRecords, PCs, UsingPcs
<1>15. r.pc = "put" /\ r.slot = s /\ r.empty = 0 /\ r.want = 0 /\ r.after = "umount"
  BY <1>14, OutIs DEF ProcRecords
<1>16. /\ pr' \in [Procs -> ProcRecords] /\ pr'[p] = r /\ cpu' \in {None, p}
       /\ \A q \in Procs \ {p} : pr'[q] = pr[q]
  BY <1>4, <1>14, GoOK
<1>17. ~Using(p) /\ ~UserPc(p) /\ Using(p)' /\ Putting(p)' /\ ~Writing(p, "sync")'
  BY <1>1, <1>15, <1>16 DEF Using, UserPc, Putting, Writing, UsingPcs
<1>18. ProcOK(p)'
  <2>1. PlaceOK(p)'
    BY <1>1, <1>15, <1>16, <1>17 DEF PlaceOK, UsingPcs
  <2>2. WantOK(p)' /\ ReserveOK(p)'
    BY <1>15, <1>16 DEF WantOK, ReserveOK
  <2>3. LockOK(p)'
    BY <1>15, <1>16 DEF LockOK
  <2>4. StageOK(p)'
    BY <1>8, <1>12, <1>13, <1>15, <1>16 DEF StageOK
  <2> QED
    BY <2>1, <2>2, <2>3, <2>4 DEF ProcOK
<1>19. \A t \in Slots : ~Mounted(t)'
  BY <1>15, <1>16 DEF Mounted, Umounting
<1>20. \A t \in Slots : table'[t].num = table[t].num /\ table'[t].dirt = table[t].dirt
  BY <1>12, <1>13
<1>21. SlotOK(s)'
  <2>1. (BeingRead(s)' <=> BeingRead(s)) /\ (IsFresh(s)' <=> IsFresh(s))
    BY <1>1, <1>15, <1>16, ReadersSame
  <2> QED
    BY <1>1, <1>7, <1>12, <1>13, <1>19, <2>1 DEF SlotOK, Named
<1>22. DiskOK'
  <2>1. \A q \in Procs : pr'[q].pc = "fresh" => pr[q].pc = "fresh" /\ pr'[q].slot = pr[q].slot
    BY <1>15, <1>16
  <2>2. \A q \in Procs : pr[q].pc = "fresh" => pr[q].slot \in Slots
    BY DEF IInv, ProcOK, PlaceOK, UsingPcs
  <2>3. DiskOK
    BY DEF IInv
  <2> QED
    BY <1>1, <1>20, <2>1, <2>2, <2>3, DiskKept
<1>23. UsersOK'
  <2>1. \A n \in imap' \ names' : ~UserOf(p, n)
    BY <1>17 DEF UserOf, UserPc
  <2>2. \A q \in Procs : Using(q) => pr[q].slot \in Slots
    BY DEF IInv, ProcOK, PlaceOK, Using, Writing
  <2>3. UsersOK
    BY DEF IInv
  <2> QED
    BY <1>1, <1>16, <1>20, <2>1, <2>2, <2>3, UsersKept
<1>24. TypeOK'
  <2>1. TypeOK
    BY DEF IInv
  <2>2. cpu' \in Procs \cup {None}
    BY <1>16
  <2> QED
    BY <1>1, <1>13, <1>16, <2>1, <2>2 DEF TypeOK
<1>25. UniqueInode'
  <2>1. UniqueInode /\ \A t \in Slots : table'[t].num = table[t].num
    BY <1>20 DEF IInv
  <2> QED
    BY ONLY <2>1 DEF UniqueInode
<1>26. CountIsRefs'
  <2>1. \A t \in Slots : ~Uses(p, t) /\ (Uses(p, t)' <=> t = s)
    BY <1>15, <1>16, <1>17 DEF Uses
  <2>2. pr[p].empty = 0
    BY <1>2, OutIs
  <2>3. ASSUME NEW t \in Slots
        PROVE table'[t].count = table[t].count
             + (B2N(pr'[p].empty = t) - B2N(pr[p].empty = t))
             + (B2N(Uses(p, t)') - B2N(Uses(p, t)))
             + (MountRef(t)' - MountRef(t))
    <3>1. B2N(pr'[p].empty = t) - B2N(pr[p].empty = t) = 0
      BY <1>15, <1>16, <2>2 DEF B2N
    <3>2. MountRef(t)' - MountRef(t) = IF t = s THEN -1 ELSE 0
      BY <1>6, <1>19 DEF MountRef
    <3>3. B2N(Uses(p, t)') - B2N(Uses(p, t)) = IF t = s THEN 1 ELSE 0
      BY <2>1 DEF B2N
    <3>4. table[t].count \in Nat /\ table'[t].count = table[t].count
      BY <1>12, <1>13, ProcFacts DEF InodeRecords
    <3> QED
      BY <3>1, <3>2, <3>3, <3>4
  <2>4. CountIsRefs
    BY DEF IInv
  <2> QED
    BY <1>16, <2>3, <2>4, CountStep
<1>27. PICK T : T = {s}
  OBVIOUS
<1>28. \A q \in Procs : pr[q].pc \in {"fresh", "trunc"} => table[pr[q].slot].num \notin names'
  BY <1>1 DEF IInv, ProcOK, StageOK
<1>29. \A q \in Procs : pr[q].want \in names' \cup {0, ROOT_INO}
  BY <1>1 DEF IInv, ProcOK, WantOK
<1>30. \A t \in Slots : table[t].num \in imap' \cup {0, ROOT_INO}
  BY <1>1 DEF IInv, SlotOK
<1>31. \A q \in Procs : pr[q].pc = "wread" /\ pr[q].slot = s => table'[s].lock /\ table'[s].dirt
  BY <1>12, <1>13 DEF IInv, ProcOK, LockOK
<1>32. \A q \in Procs \ {p} :
           /\ pr[q].empty \notin T
           /\ pr[q].pc \in {"rread", "trunc"} => pr[q].slot \notin T
           /\ pr[q].pc \in {"fresh", "trunc"} => table[pr[q].slot].num \notin names'
           /\ pr[q].pc = "fresh" /\ pr[q].slot \in T =>
                table'[pr[q].slot].nlinks = table[pr[q].slot].nlinks
                /\ table'[pr[q].slot].count = table[pr[q].slot].count
           /\ pr[q].slot \in T /\ Using(q) => table'[pr[q].slot].num = table[pr[q].slot].num
           /\ pr[q].slot \in T /\ pr[q].pc = "wread" => table'[pr[q].slot].lock /\ table'[pr[q].slot].dirt
           /\ pr[q].want \in names' \cup {0, ROOT_INO}
           /\ pr'[p].pc \in {"wread", "rread"} /\ pr[q].pc \in {"wread", "rread"}
                => pr'[p].slot # pr[q].slot
           /\ pr'[p].pc \in {"wlock", "wread"} /\ pr[q].pc = "trunc" => pr'[p].slot # pr[q].slot
  BY <1>9, <1>10, <1>15, <1>16, <1>20, <1>27, <1>28, <1>29, <1>31
<1>33. \A t \in Slots \ T :
           /\ table[t].num \in imap' \cup {0, ROOT_INO}
           /\ table[t].num \in names' <=> table[t].num \in names
           /\ Mounted(t)' => Mounted(t)
           /\ pr[p].pc \notin {"rread", "fresh"} \/ pr[p].slot # t
           /\ pr'[p].pc \notin {"rread", "fresh"} \/ pr'[p].slot # t
  BY <1>1, <1>15, <1>16, <1>19, <1>30
<1>34. \A t \in Slots \ T : table'[t] = table[t]
  BY <1>13, <1>27
<1>35. \A t \in Slots : t \in T => SlotOK(t)'
  BY <1>21, <1>27
<1> QED
  BY ONLY <1>1, <1>16, <1>18, <1>22, <1>23, <1>24, <1>25, <1>26, <1>32, <1>33, <1>34, <1>35, Touch,
          IInv, p \in Procs

LEMMA UmountDoneOK ==
  ASSUME IInv, NEW p \in Procs, UmountDone(p)
  PROVE  IInv'
<1>1. /\ pr[p].pc = "umount" /\ cpu \in {None, p} /\ UNCHANGED <<table, disk, imap, names>>
      /\ sb' = [state |-> "none", imount |-> 0] /\ Sleep(p, Out)
  BY DEF UmountDone, Runs
<1>2. PlaceOK(p)
  BY ProcFacts DEF ProcOK
<1>3. pr[p].empty = 0 /\ pr[p].after = "umount"
  BY <1>1, <1>2 DEF PlaceOK, Putting, Writing
<1>4. /\ pr' \in [Procs -> ProcRecords] /\ pr'[p] = Out /\ cpu' \in {None, p}
      /\ \A q \in Procs \ {p} : pr'[q] = pr[q]
  BY <1>1, OutIs, GoOK
<1>5. ~Using(p) /\ ~UserPc(p) /\ ~Using(p)' /\ ~Putting(p)' /\ ~Writing(p, "sync")'
  BY <1>1, <1>4, OutIs DEF Using, UserPc, Putting, Writing, UsingPcs
<1>6. ProcOK(p)'
  <2>1. PlaceOK(p)'
    BY <1>4, <1>5, OutIs DEF PlaceOK, UsingPcs
  <2>2. WantOK(p)' /\ ReserveOK(p)' /\ LockOK(p)' /\ StageOK(p)'
    BY <1>4, <1>5, OutIs DEF WantOK, ReserveOK, LockOK, StageOK
  <2> QED
    BY <2>1, <2>2 DEF ProcOK
<1>7. \A t \in Slots : ~Mounted(t) /\ ~Mounted(t)'
  <2>1. Umounting
    BY <1>3 DEF Umounting
  <2>2. sb'.imount = 0
    BY <1>1
  <2> QED
    BY <2>1, <2>2, ProcFacts DEF Mounted
<1>8. DiskOK'
  <2>1. \A q \in Procs : pr'[q].pc = "fresh" => pr[q].pc = "fresh" /\ pr'[q].slot = pr[q].slot
    BY <1>4, OutIs
  <2>2. \A q \in Procs : pr[q].pc = "fresh" => pr[q].slot \in Slots
    BY DEF IInv, ProcOK, PlaceOK, UsingPcs
  <2>3. DiskOK
    BY DEF IInv
  <2> QED
    BY <1>1, <2>1, <2>2, <2>3, DiskKept
<1>9. UsersOK'
  <2>1. \A n \in imap' \ names' : ~UserOf(p, n)
    BY <1>5 DEF UserOf, UserPc
  <2>2. UsersOK
    BY DEF IInv
  <2> QED
    BY <1>1, <1>4, <2>1, <2>2, UsersKept
<1>10. TypeOK'
  <2>1. TypeOK
    BY DEF IInv
  <2>2. cpu' \in Procs \cup {None} /\ sb' \in [state : {"none", "read", "up"}, imount : Slots \cup {0}]
    BY <1>1, <1>4
  <2> QED
    BY <1>1, <1>4, <2>1, <2>2 DEF TypeOK
<1>11. UniqueInode'
  BY <1>1 DEF IInv, UniqueInode
<1>12. CountIsRefs'
  <2>1. \A t \in Slots : ~Uses(p, t) /\ ~Uses(p, t)'
    BY <1>5 DEF Uses
  <2>2. ASSUME NEW t \in Slots
        PROVE table'[t].count = table[t].count
             + (B2N(pr'[p].empty = t) - B2N(pr[p].empty = t))
             + (B2N(Uses(p, t)') - B2N(Uses(p, t)))
             + (MountRef(t)' - MountRef(t))
    <3>1. B2N(pr'[p].empty = t) - B2N(pr[p].empty = t) = 0
      <4>1. pr'[p].empty = pr[p].empty
        BY <1>3, <1>4, OutIs
      <4> QED
        BY ONLY <4>1 DEF B2N
    <3>2. MountRef(t)' - MountRef(t) = 0
      BY <1>7 DEF MountRef
    <3>3. B2N(Uses(p, t)') - B2N(Uses(p, t)) = 0
      BY <2>1 DEF B2N
    <3>4. table[t].count \in Nat /\ table'[t].count = table[t].count
      BY <1>1, ProcFacts DEF InodeRecords
    <3> QED
      BY <3>1, <3>2, <3>3, <3>4
  <2>3. CountIsRefs
    BY DEF IInv
  <2> QED
    BY <1>4, <2>2, <2>3, CountStep
<1>13. PICK T : T = {}
  OBVIOUS
<1>14. \A q \in Procs : pr[q].pc \in {"fresh", "trunc"} => table[pr[q].slot].num \notin names'
  BY <1>1 DEF IInv, ProcOK, StageOK
<1>15. \A q \in Procs : pr[q].want \in names' \cup {0, ROOT_INO}
  BY <1>1 DEF IInv, ProcOK, WantOK
<1>16. \A t \in Slots : table[t].num \in imap' \cup {0, ROOT_INO}
  BY <1>1 DEF IInv, SlotOK
<1>17. \A q \in Procs \ {p} :
           /\ pr[q].empty \notin T
           /\ pr[q].pc \in {"rread", "trunc"} => pr[q].slot \notin T
           /\ pr[q].pc \in {"fresh", "trunc"} => table[pr[q].slot].num \notin names'
           /\ pr[q].pc = "fresh" /\ pr[q].slot \in T =>
                table'[pr[q].slot].nlinks = table[pr[q].slot].nlinks
                /\ table'[pr[q].slot].count = table[pr[q].slot].count
           /\ pr[q].slot \in T /\ Using(q) => table'[pr[q].slot].num = table[pr[q].slot].num
           /\ pr[q].slot \in T /\ pr[q].pc = "wread" => table'[pr[q].slot].lock /\ table'[pr[q].slot].dirt
           /\ pr[q].want \in names' \cup {0, ROOT_INO}
           /\ pr'[p].pc \in {"wread", "rread"} /\ pr[q].pc \in {"wread", "rread"}
                => pr'[p].slot # pr[q].slot
           /\ pr'[p].pc \in {"wlock", "wread"} /\ pr[q].pc = "trunc" => pr'[p].slot # pr[q].slot
  BY <1>4, <1>13, <1>14, <1>15, OutIs
<1>18. \A t \in Slots \ T :
           /\ table[t].num \in imap' \cup {0, ROOT_INO}
           /\ table[t].num \in names' <=> table[t].num \in names
           /\ Mounted(t)' => Mounted(t)
           /\ pr[p].pc \notin {"rread", "fresh"} \/ pr[p].slot # t
           /\ pr'[p].pc \notin {"rread", "fresh"} \/ pr'[p].slot # t
  BY <1>1, <1>4, <1>7, <1>16, OutIs
<1>19. \A t \in Slots \ T : table'[t] = table[t]
  BY <1>1
<1>20. \A t \in Slots : t \in T => SlotOK(t)'
  BY <1>13
<1> QED
  BY ONLY <1>1, <1>4, <1>6, <1>8, <1>9, <1>10, <1>11, <1>12, <1>17, <1>18, <1>19, <1>20, Touch,
          IInv, p \in Procs

-----------------------------------------------------------------------------
LEMMA StutterOK ==
  ASSUME IInv, UNCHANGED vars
  PROVE  IInv'
<1>1. /\ table' = table /\ disk' = disk /\ imap' = imap /\ names' = names /\ sb' = sb /\ pr' = pr
      /\ cpu' = cpu
  BY DEF vars
<1>2. \A p, r : Writing(p, r)' <=> Writing(p, r)
  BY <1>1 DEF Writing
<1>3. \A p : (Using(p)' <=> Using(p)) /\ (Putting(p)' <=> Putting(p))
  BY <1>1, <1>2 DEF Using, Putting
<1>4. \A p, s : Uses(p, s)' <=> Uses(p, s)
  BY <1>1, <1>3 DEF Uses
<1>5. \A s : /\ Mounted(s)' <=> Mounted(s)
             /\ BeingRead(s)' <=> BeingRead(s)
             /\ IsFresh(s)' <=> IsFresh(s)
             /\ DirtySlot(s)' <=> DirtySlot(s)
  BY <1>1 DEF Mounted, Umounting, BeingRead, IsFresh, DirtySlot
<1>6. TypeOK' /\ UniqueInode'
  BY <1>1 DEF IInv, TypeOK, UniqueInode
<1>7. CountIsRefs'
  <2>1. \A s : Es(s)' = Es(s) /\ Us(s)' = Us(s)
    BY <1>1, <1>4 DEF Es, Us
  <2>2. \A s : Refs(s)' = Refs(s)
    BY <1>5, <2>1, RefsSame
  <2> QED
    BY <1>1, <2>2 DEF IInv, CountIsRefs
<1>8. ASSUME NEW p \in Procs PROVE ProcOK(p)'
  <2>1. ProcOK(p)
    BY DEF IInv
  <2>2. PlaceOK(p)' /\ WantOK(p)' /\ LockOK(p)' /\ ReserveOK(p)'
    <3>1. PlaceOK(p)'
      BY ONLY <1>1, <1>2, <1>3, <2>1, p \in Procs DEF ProcOK, PlaceOK
    <3>2. WantOK(p)'
      BY ONLY <1>1, <1>2, <1>3, <2>1, p \in Procs DEF ProcOK, WantOK
    <3>3. LockOK(p)'
      BY ONLY <1>1, <1>2, <1>3, <2>1, p \in Procs DEF ProcOK, LockOK
    <3>4. ReserveOK(p)'
      BY ONLY <1>1, <1>2, <1>3, <2>1, p \in Procs DEF ProcOK, ReserveOK
    <3> QED
      BY <3>1, <3>2, <3>3, <3>4
  <2>3. StageOK(p)'
    BY <1>1, <1>3, <2>1 DEF ProcOK, StageOK
  <2> QED
    BY <2>2, <2>3 DEF ProcOK
<1>9. ASSUME NEW s \in Slots PROVE SlotOK(s)'
  BY <1>1, <1>5 DEF IInv, SlotOK, Named
<1>10. DiskOK'
  BY <1>1, <1>5 DEF IInv, DiskOK
<1>11. UsersOK'
  BY <1>1, <1>3 DEF IInv, UsersOK, UserOf
<1> QED
  BY <1>6, <1>7, <1>8, <1>9, <1>10, <1>11 DEF IInv

LEMMA NextOK ==
  ASSUME NoRaces, IInv, MountInv, ~panicked, [Next]_vars
  PROVE  IInv' /\ ~panicked'
<1>1. CASE UNCHANGED vars
  BY <1>1, StutterOK DEF vars
<1>2. CASE Next
  <2>1. PICK p \in Procs : \/ Step(p) \/ Begin(p) \/ Change(p) \/ Unlink(p) \/ Put(p)
                           \/ Mount(p) \/ Umount(p)
    BY <1>2 DEF Next
  <2>2. CASE WriteLock(p)
    <3>1. IInv'
      BY <2>2, WriteLockOK
    <3>2. UNCHANGED panicked
      BY <2>2 DEF WriteLock
    <3> QED
      BY ONLY <3>1, <3>2, ~panicked
  <2>3. CASE WriteCopy(p)
    <3>1. IInv'
      BY <2>3, WriteCopyOK
    <3>2. UNCHANGED panicked
      BY <2>3 DEF WriteCopy
    <3> QED
      BY ONLY <3>1, <3>2, ~panicked
  <2>4. CASE GetEmpty(p)
    <3>1. IInv'
      BY <2>4, GetEmptyOK
    <3>2. UNCHANGED panicked
      BY <2>4 DEF GetEmpty
    <3> QED
      BY ONLY <3>1, <3>2, ~panicked
  <2>5. CASE EmptyWaited(p)
    <3>1. IInv'
      BY <2>5, EmptyWaitedOK
    <3>2. UNCHANGED panicked
      BY <2>5 DEF EmptyWaited
    <3> QED
      BY ONLY <3>1, <3>2, ~panicked
  <2>6. CASE Iget(p)
    <3>1. IInv'
      BY <2>6, IgetOK
    <3>2. UNCHANGED panicked
      BY <2>6 DEF Iget
    <3> QED
      BY ONLY <3>1, <3>2, ~panicked
  <2>7. CASE IgetWaited(p)
    <3>1. IInv'
      BY <2>7, IgetWaitedOK
    <3>2. UNCHANGED panicked
      BY <2>7, SMTT(30) DEF IgetWaited
    <3> QED
      BY ONLY <3>1, <3>2, ~panicked
  <2>8. CASE ReadInode(p)
    <3>1. IInv'
      BY <2>8, ReadInodeOK
    <3>2. UNCHANGED panicked
      BY <2>8 DEF ReadInode
    <3> QED
      BY ONLY <3>1, <3>2, ~panicked
  <2>9. CASE NewInode(p)
    <3>1. IInv'
      BY <2>9, NewInodeOK
    <3>2. UNCHANGED panicked
      BY <2>9 DEF NewInode
    <3> QED
      BY ONLY <3>1, <3>2, ~panicked
  <2>10. CASE Link(p)
    <3>1. IInv'
      BY <2>10, LinkOK
    <3>2. UNCHANGED panicked
      BY <2>10 DEF Link
    <3> QED
      BY ONLY <3>1, <3>2, ~panicked
  <2>11. CASE Iput(p)
    BY <2>11, IputOK
  <2>12. CASE FreeInode(p)
    BY <2>12, FreeInodeOK
  <2>13. CASE SyncInodes(p)
    <3>1. IInv'
      BY <2>13, SyncInodesOK
    <3>2. UNCHANGED panicked
      BY <2>13 DEF SyncInodes
    <3> QED
      BY ONLY <3>1, <3>2, ~panicked
  <2>14. CASE MountDone(p)
    <3>1. IInv'
      BY <2>14, MountDoneOK
    <3>2. UNCHANGED panicked
      BY <2>14 DEF MountDone
    <3> QED
      BY ONLY <3>1, <3>2, ~panicked
  <2>15. CASE UmountDone(p)
    <3>1. IInv'
      BY <2>15, UmountDoneOK
    <3>2. UNCHANGED panicked
      BY <2>15 DEF UmountDone
    <3> QED
      BY ONLY <3>1, <3>2, ~panicked
  <2>16. CASE Begin(p)
    <3>1. IInv'
      BY <2>16, BeginOK
    <3>2. UNCHANGED panicked
      BY <2>16 DEF Begin
    <3> QED
      BY ONLY <3>1, <3>2, ~panicked
  <2>17. CASE Change(p)
    <3>1. IInv'
      BY <2>17, ChangeOK
    <3>2. UNCHANGED panicked
      BY <2>17, SMTT(30) DEF Change
    <3> QED
      BY ONLY <3>1, <3>2, ~panicked
  <2>18. CASE Unlink(p)
    <3>1. IInv'
      BY <2>18, UnlinkOK
    <3>2. UNCHANGED panicked
      BY <2>18 DEF Unlink
    <3> QED
      BY ONLY <3>1, <3>2, ~panicked
  <2>19. CASE Put(p)
    <3>1. pr[p].pc \in {"hold", "super", "sread"} /\ cpu \in {None, p}
      BY <2>19 DEF Put, Runs
    <3>2. IInv'
      BY <2>19, <3>1, ToPutOK, ProcFacts DEF Put
    <3>3. UNCHANGED panicked
      BY <2>19 DEF Put
    <3> QED
      BY ONLY <3>2, <3>3, ~panicked
  <2>20. CASE Mount(p)
    <3>1. IInv'
      BY <2>20, MountOK
    <3>2. UNCHANGED panicked
      BY <2>20 DEF Mount
    <3> QED
      BY ONLY <3>1, <3>2, ~panicked
  <2>21. CASE Umount(p)
    <3>1. IInv'
      BY <2>21, UmountOK
    <3>2. UNCHANGED panicked
      BY <2>21 DEF Umount
    <3> QED
      BY ONLY <3>1, <3>2, ~panicked
  <2>22. CASE ReadSuper(p)
    <3>1. IInv'
      BY <2>22, ReadSuperOK
    <3>2. UNCHANGED panicked
      BY <2>22 DEF ReadSuper
    <3> QED
      BY ONLY <3>1, <3>2, ~panicked
  <2>23. CASE NoSuper(p)
    <3>1. IInv'
      BY <2>23, NoSuperOK
    <3>2. UNCHANGED panicked
      BY <2>23 DEF NoSuper
    <3> QED
      BY ONLY <3>1, <3>2, ~panicked
  <2> QED
    BY <2>1, <2>2, <2>3, <2>4, <2>5, <2>6, <2>7, <2>8, <2>9, <2>10, <2>11, <2>12, <2>13, <2>14,
       <2>15, <2>16, <2>17, <2>18, <2>19, <2>20, <2>21, <2>22, <2>23 DEF Step
<1> QED
  BY <1>1, <1>2

(* Most steps begin neither an umount nor the reading of a super block.     *)
LEMMA MountKept ==
  ASSUME MountInv, sb' = sb,
         \A q \in Procs : /\ pr'[q].after = "umount" => pr[q].after = "umount"
                          /\ pr'[q].pc = "sread" => pr[q].pc = "sread"
  PROVE  MountInv'
BY DEF MountInv, Umounting

(* ... where a process goes, and with which record.                        *)
LEMMA GoKeeps ==
  ASSUME IInv, NEW p \in Procs, NEW r, Go(p, r) \/ Sleep(p, r),
         r.after = "umount" => pr[p].after = "umount", r.pc # "sread"
  PROVE  \A q \in Procs : /\ pr'[q].after = "umount" => pr[q].after = "umount"
                          /\ pr'[q].pc = "sread" => q # p /\ pr[q].pc = "sread"
<1>1. \A q \in Procs : pr'[q] = IF q = p THEN r ELSE pr[q]
  BY ProcFacts DEF Go, Sleep
<1> QED
  BY <1>1

LEMMA ReturnKeeps ==
  ASSUME IInv, MountInv, sb' = sb, NEW p \in Procs, ReturnPut(p)
  PROVE  MountInv'
<1>1. PICK r : /\ Go(p, r) \/ Sleep(p, r)
               /\ r = Out \/ r = [pr[p] EXCEPT !.pc = pr[p].after]
  BY DEF ReturnPut
<1>2. pr[p] \in ProcRecords
  BY ProcFacts
<1>3. (r.after = "umount" => pr[p].after = "umount") /\ r.pc # "sread"
  BY <1>1, <1>2, OutIs DEF ProcRecords
<1> QED
  BY <1>1, <1>3, GoKeeps, MountKept

LEMMA MountNext ==
  ASSUME NoRaces, IInv, MountInv, [Next]_vars
  PROVE  MountInv'
<1>1. CASE UNCHANGED vars
  BY <1>1, MountKept DEF vars
<1>2. CASE Next
  <2>1. PICK p \in Procs : \/ Step(p) \/ Begin(p) \/ Change(p) \/ Unlink(p) \/ Put(p)
                           \/ Mount(p) \/ Umount(p)
    BY <1>2 DEF Next
  <2> DEFINE Keeps == \A q \in Procs : /\ pr'[q].after = "umount" => pr[q].after = "umount"
                                       /\ pr'[q].pc = "sread" => pr[q].pc = "sread"
  <2>2. pr[p] \in ProcRecords /\ pr \in [Procs -> ProcRecords]
    BY ProcFacts
  <2>3. ASSUME sb' = sb, Keeps PROVE MountInv'
    BY <2>3, MountKept
  <2>4. CASE WriteLock(p)
    <3>1. sb' = sb
      BY <2>4 DEF WriteLock
    <3>2. PICK r : /\ Go(p, r) \/ Sleep(p, r)
                   /\ \/ r = [pr[p] EXCEPT !.pc = "wread"]
                      \/ r = [pr[p] EXCEPT !.pc = pr[p].ret]
      BY <2>4 DEF WriteLock
    <3>3. (r.after = "umount" => pr[p].after = "umount") /\ r.pc # "sread"
      BY <2>2, <3>2, OutIs DEF ProcRecords
    <3> QED
      BY <2>3, <3>1, <3>2, <3>3, GoKeeps
  <2>5. CASE WriteCopy(p)
    <3>1. sb' = sb
      BY <2>5 DEF WriteCopy
    <3>2. Keeps
      BY <2>2, <2>5, OutIs DEF WriteCopy, Go, Sleep, ProcRecords
    <3> QED
      BY <2>3, <3>1, <3>2
  <2>6. CASE GetEmpty(p)
    <3>1. sb' = sb
      BY <2>6 DEF GetEmpty
    <3>2. PICK s : Go(p, [pr[p] EXCEPT !.pc = "ewait", !.slot = s])
      BY <2>6 DEF GetEmpty
    <3>3. PICK r : Go(p, r) /\ r = [pr[p] EXCEPT !.pc = "ewait", !.slot = s]
      BY <3>2
    <3>4. (r.after = "umount" => pr[p].after = "umount") /\ r.pc # "sread"
      BY <2>2, <3>3 DEF ProcRecords
    <3> QED
      BY <2>3, <3>1, <3>3, <3>4, GoKeeps
  <2>7. CASE EmptyWaited(p)
    <3>1. sb' = sb
      BY <2>7 DEF EmptyWaited
    <3>2. PICK r : /\ Go(p, r) \/ Sleep(p, r)
                   /\ \/ r = [pr[p] EXCEPT !.pc = "wlock", !.ret = "ewait"]
                      \/ r = [pr[p] EXCEPT !.pc = "empty"]
                      \/ r = [pr[p] EXCEPT !.pc = IF pr[p].want = 0 THEN "new" ELSE "scan", !.slot = 0, !.empty = pr[p].slot]
      BY <2>7 DEF EmptyWaited
    <3>3. (r.after = "umount" => pr[p].after = "umount") /\ r.pc # "sread"
      BY <2>2, <3>2, OutIs DEF ProcRecords
    <3> QED
      BY <2>3, <3>1, <3>2, <3>3, GoKeeps
  <2>8. CASE Iget(p)
    <3>1. sb' = sb
      BY <2>8 DEF Iget
    <3>2. PICK r : /\ Go(p, r) \/ Sleep(p, r)
                   /\ \/ r = [pr[p] EXCEPT !.pc = "rread", !.slot = pr[p].empty, !.empty = 0]
                      \/ r = [pr[p] EXCEPT !.pc = "iwait", !.slot = Min(Matches(pr[p].want))]
      BY <2>8 DEF Iget
    <3>3. (r.after = "umount" => pr[p].after = "umount") /\ r.pc # "sread"
      BY <2>2, <3>2, OutIs DEF ProcRecords
    <3> QED
      BY <2>3, <3>1, <3>2, <3>3, GoKeeps
  <2>9. CASE IgetWaited(p)
    <3>1. sb' = sb
      BY <2>9 DEF IgetWaited
    <3>2. PICK r : /\ Go(p, r) \/ Sleep(p, r)
                   /\ \/ r = [pr[p] EXCEPT !.pc = "scan"]
                      \/ r = [pr[p] EXCEPT !.pc = "put", !.after = "scan", !.want = ROOT_INO]
                      \/ r = [Out EXCEPT !.pc = "hold", !.slot = pr[p].slot]
      BY <2>9 DEF IgetWaited
    <3>3. (r.after = "umount" => pr[p].after = "umount") /\ r.pc # "sread"
      BY <2>2, <3>2, OutIs DEF ProcRecords
    <3> QED
      BY <2>3, <3>1, <3>2, <3>3, GoKeeps
  <2>10. CASE ReadInode(p)
    <3>1. sb' = sb
      BY <2>10 DEF ReadInode
    <3>2. Keeps
      BY <2>2, <2>10, OutIs DEF ReadInode, Go, Sleep, ProcRecords
    <3> QED
      BY <2>3, <3>1, <3>2
  <2>11. CASE NewInode(p)
    <3>1. sb' = sb
      BY <2>11 DEF NewInode
    <3>2. PICK r : /\ Go(p, r) \/ Sleep(p, r)
                   /\ \/ r = Out
                      \/ r = [Out EXCEPT !.pc = "fresh", !.slot = pr[p].empty]
      BY <2>11 DEF NewInode
    <3>3. (r.after = "umount" => pr[p].after = "umount") /\ r.pc # "sread"
      BY <2>2, <3>2, OutIs DEF ProcRecords
    <3> QED
      BY <2>3, <3>1, <3>2, <3>3, GoKeeps
  <2>12. CASE Link(p)
    <3>1. sb' = sb
      BY <2>12 DEF Link
    <3>2. PICK r : /\ Go(p, r) \/ Sleep(p, r)
                   /\ \/ r = [pr[p] EXCEPT !.pc = "hold"]
                      \/ r = [pr[p] EXCEPT !.pc = "put", !.after = "out"]
      BY <2>12 DEF Link
    <3>3. (r.after = "umount" => pr[p].after = "umount") /\ r.pc # "sread"
      BY <2>2, <3>2, OutIs DEF ProcRecords
    <3> QED
      BY <2>3, <3>1, <3>2, <3>3, GoKeeps
  <2>13. CASE SyncInodes(p)
    <3>1. sb' = sb
      BY <2>13 DEF SyncInodes
    <3>2. PICK r : /\ Go(p, r) \/ Sleep(p, r)
                   /\ \/ r = [pr[p] EXCEPT !.pc = "wlock", !.ret = "sync"]
                      \/ r = Out
                      \/ r = [pr[p] EXCEPT !.slot = pr[p].slot + 1, !.ret = ""]
      BY <2>13 DEF SyncInodes
    <3>3. (r.after = "umount" => pr[p].after = "umount") /\ r.pc # "sread"
      <4>1. pr[p].pc = "sync"
        BY <2>13 DEF SyncInodes, Runs
      <4> QED
        BY <2>2, <3>2, <4>1, OutIs DEF ProcRecords
    <3> QED
      BY <2>3, <3>1, <3>2, <3>3, GoKeeps
  <2>14. CASE Begin(p)
    <3>1. sb' = sb
      BY <2>14 DEF Begin
    <3>2. PICK r : /\ Go(p, r)
                   /\ \/ \E n \in names : r = [Out EXCEPT !.pc = "empty", !.want = n]
                      \/ r = [Out EXCEPT !.pc = "empty"]
                      \/ r = [Out EXCEPT !.pc = "sync", !.slot = 1]
      BY <2>14 DEF Begin
    <3>3. (r.after = "umount" => pr[p].after = "umount") /\ r.pc # "sread"
      BY <3>2, OutIs DEF ProcRecords
    <3> QED
      BY <2>3, <3>1, <3>2, <3>3, GoKeeps
  <2>15. CASE Unlink(p)
    <3>1. sb' = sb
      BY <2>15 DEF Unlink
    <3>2. Keeps
      BY <2>2, <2>15, OutIs DEF Unlink, Go, Sleep, ProcRecords
    <3> QED
      BY <2>3, <3>1, <3>2
  <2>16. CASE Put(p)
    <3>1. sb' = sb
      BY <2>16 DEF Put
    <3>2. Keeps
      BY <2>2, <2>16, OutIs DEF Put, Go, Sleep, ProcRecords
    <3> QED
      BY <2>3, <3>1, <3>2
  <2>17. CASE Mount(p)
    <3>1. sb' = sb
      BY <2>17 DEF Mount
    <3>2. Keeps
      BY <2>2, <2>17, OutIs DEF Mount, Go, Sleep, ProcRecords
    <3> QED
      BY <2>3, <3>1, <3>2
  <2>18. CASE Change(p)
    <3>1. sb' = sb /\ pr' = pr
      BY <2>18 DEF Change
    <3> QED
      BY <3>1, MountKept
  <2>19. CASE Iput(p)
    <3>1. sb' = sb
      BY <2>19 DEF Iput
    <3>2. CASE ReturnPut(p) \/ pr' = pr
      BY <3>1, <3>2, ReturnKeeps, MountKept
    <3>3. CASE ~ReturnPut(p) /\ pr' # pr
      <4>1. PICK r : /\ Go(p, r) \/ Sleep(p, r)
                     /\ \/ r = [pr[p] EXCEPT !.pc = "trunc"]
                        \/ r = [pr[p] EXCEPT !.pc = "wlock", !.ret = "put"]
        BY <2>19, <3>3 DEF Iput
      <4>2. (r.after = "umount" => pr[p].after = "umount") /\ r.pc # "sread"
        BY <2>2, <4>1 DEF ProcRecords
      <4> QED
        BY <2>3, <3>1, <4>1, <4>2, GoKeeps
    <3> QED
      BY <3>2, <3>3
  <2>20. CASE FreeInode(p)
    <3>1. sb' = sb
      BY <2>20 DEF FreeInode
    <3>2. ReturnPut(p) \/ pr' = pr
      BY <2>20 DEF FreeInode
    <3> QED
      BY <3>1, <3>2, ReturnKeeps, MountKept
  <2>21. CASE ReadSuper(p)
    <3>1. sb.state = "none" /\ sb'.state = "read" /\ sb'.imount = 0
      BY <2>21 DEF ReadSuper
    <3>2. \A q \in Procs : /\ pr'[q].after = "umount" => pr[q].after = "umount"
                           /\ pr'[q].pc = "sread" => q = p \/ pr[q].pc = "sread"
      BY <2>2, <2>21 DEF ReadSuper, Sleep, ProcRecords
    <3> QED
      BY <3>1, <3>2 DEF MountInv, Umounting
  <2>22. CASE NoSuper(p)
    <3>1. pr[p].pc = "sread" /\ sb'.imount = 0
      BY <2>22 DEF NoSuper, Runs
    <3>2. \A q \in Procs : /\ pr'[q].after = "umount" => pr[q].after = "umount"
                           /\ pr'[q].pc = "sread" => q # p /\ pr[q].pc = "sread"
      BY <2>2, <2>22 DEF NoSuper, Go, ProcRecords
    <3> QED
      BY <3>1, <3>2 DEF MountInv, Umounting
  <2>23. CASE MountDone(p)
    <3>1. /\ pr[p].pc = "sread" \/ sb.state = "up"
          /\ sb'.state = "up" /\ (sb.imount # 0 => sb'.imount # 0)
      <4>1. \A q \in Procs : pr[q].pc = "super" \/ pr[q].pc = "sread" => pr[q].slot # 0
        BY ProcFacts DEF ProcOK, PlaceOK, UsingPcs
      <4> QED
        BY <2>23, <4>1, ProcFacts DEF MountDone, Runs
    <3>2. \A q \in Procs : /\ pr'[q].after = "umount" => pr[q].after = "umount"
                           /\ pr'[q].pc = "sread" => q # p /\ pr[q].pc = "sread"
      <4>1. PICK r : /\ Go(p, r) \/ Sleep(p, r)
                     /\ \/ r = [pr[p] EXCEPT !.pc = "put", !.after = "out"]
                        \/ r = Out
        BY <2>23 DEF MountDone
      <4>2. (r.after = "umount" => pr[p].after = "umount") /\ r.pc # "sread"
        BY <2>2, <4>1, OutIs DEF ProcRecords
      <4> QED
        BY ONLY <4>1, <4>2, GoKeeps, IInv, p \in Procs
    <3> QED
      BY <3>1, <3>2 DEF MountInv, Umounting
  <2>24. CASE Umount(p)
    <3>1. /\ sb' = sb /\ sb.imount # 0 /\ ~Umounting /\ pr[p].pc = "out"
      BY <2>24 DEF Umount, Umounting, NoRaces, Runs
    <3>2. \A q \in Procs : /\ pr'[q].after = "umount" => q = p \/ pr[q].after = "umount"
                           /\ pr'[q].pc = "sread" => pr[q].pc = "sread"
      BY <2>2, <2>24, OutIs DEF Umount, Go, ProcRecords
    <3> QED
      BY <3>1, <3>2 DEF MountInv, Umounting
  <2>25. CASE UmountDone(p)
    <3>1. pr[p].after = "umount" /\ sb'.imount = 0 /\ sb.state # "read"
      BY <2>25, ProcFacts DEF UmountDone, Runs, ProcOK, PlaceOK
    <3>2. \A q \in Procs : /\ pr'[q].after = "umount" => q # p /\ pr[q].after = "umount"
                           /\ pr'[q].pc = "sread" => pr[q].pc = "sread"
      BY <2>2, <2>25, OutIs DEF UmountDone, Sleep
    <3> QED
      BY <3>1, <3>2 DEF MountInv, Umounting
  <2> QED
    BY <2>1, <2>4, <2>5, <2>6, <2>7, <2>8, <2>9, <2>10, <2>11, <2>12, <2>13, <2>14, <2>15,
       <2>16, <2>17, <2>18, <2>19, <2>20, <2>21, <2>22, <2>23, <2>24, <2>25 DEF Step
<1> QED
  BY <1>1, <1>2

(* The inductive invariant, with the panics of iput() and free_inode() not *)
(* reached.                                                                *)
THEOREM Invariance ==
  ASSUME NoRaces
  PROVE  Spec => [](IInv /\ MountInv /\ ~panicked)
<1>1. Init => IInv /\ ~panicked
  BY InitOK DEF Init
<1>2. Init => MountInv
  <2>1. ASSUME Init PROVE MountInv
    <3>1. sb.imount = 0 /\ \A p \in Procs : pr[p] = Out
      BY <2>1 DEF Init
    <3> QED
      BY <3>1, OutIs DEF MountInv, Umounting
  <2> QED
    BY <2>1
<1>3. IInv /\ MountInv /\ ~panicked /\ [Next]_vars => (IInv /\ MountInv /\ ~panicked)'
  BY NextOK, MountNext
<1> QED
  BY <1>1, <1>2, <1>3, PTL DEF Spec

(* iget() never puts an inode into the table twice, although it sleeps     *)
(* between its scan and the moment the inode is ready.                     *)
THEOREM Unique ==
  ASSUME NoRaces
  PROVE  Spec => []UniqueInode
<1>1. IInv => UniqueInode
  BY DEF IInv
<1> QED
  BY <1>1, Invariance, PTL

(* i_count is the number of references at every moment.                    *)
THEOREM Counted ==
  ASSUME NoRaces
  PROVE  Spec => []CountIsRefs
<1>1. IInv => CountIsRefs
  BY DEF IInv
<1> QED
  BY <1>1, Invariance, PTL

(* Holders see the latest contents; what no slot has dirty is on disk.     *)
THEOREM ChangesSurvive ==
  ASSUME NoRaces
  PROVE  Spec => []NothingLost
<1>1. ASSUME IInv PROVE NothingLost
  <2>1. ASSUME NEW p \in Procs, pr[p].pc = "hold" PROVE table[pr[p].slot].cur
    <3>1. PICK s \in Slots : s = pr[p].slot
      BY <1>1, <2>1 DEF IInv, ProcOK, PlaceOK, UsingPcs
    <3>2. Uses(p, s)
      BY <2>1, <3>1 DEF Uses, Using, UsingPcs
    <3>3. table[s].num # 0 /\ ~BeingRead(s)
      BY <1>1, <2>1, <3>2, Neighbours DEF BeingRead
    <3> QED
      BY <1>1, <3>1, <3>3 DEF IInv, SlotOK
  <2>2. \A n \in All : disk[n].cur \/ \E s \in Slots : table[s].num = n /\ table[s].dirt
    BY <1>1 DEF IInv, DiskOK, DirtySlot
  <2> QED
    BY <2>1, <2>2 DEF NothingLost
<1> QED
  BY <1>1, Invariance, PTL

(* The bitmap has the numbers with a name or a user and no other.          *)
THEOREM BitmapIsExact ==
  ASSUME NoRaces
  PROVE  Spec => []BitmapExact
<1>1. ASSUME IInv PROVE BitmapExact
  <2> DEFINE U == {q \in Procs : pr[q].slot # 0 /\ table[pr[q].slot].num \in Inodes
                    /\ (pr[q].pc \in {"hold", "fresh", "put", "trunc"}
                        \/ (pr[q].ret = "put" /\ pr[q].pc \in {"wlock", "wread"}))}
             N == {table[pr[p].slot].num : p \in U}
  <2>1. ASSUME NEW n \in imap PROVE n \in names \cup N
    <3> SUFFICES ASSUME n \notin names PROVE n \in N
      OBVIOUS
    <3>1. PICK q \in Procs : UserOf(q, n)
      BY <1>1 DEF IInv, UsersOK
    <3>2. UserPc(q) /\ table[pr[q].slot].num = n
      BY <3>1 DEF UserOf, UserPc
    <3>3. pr[q].slot \in Slots /\ 0 \notin Slots
      BY <1>1, <3>2, UserPcUses, ProcFacts DEF IInv, ProcOK, PlaceOK, Using, Writing
    <3>4. n \in Inodes
      BY <1>1 DEF IInv, TypeOK
    <3>5. q \in U
      BY <3>2, <3>3, <3>4 DEF UserPc, Putting, Writing
    <3> HIDE DEF U
    <3> QED
      BY <3>2, <3>5
  <2>2. ASSUME NEW n \in names \cup N PROVE n \in imap
    <3>1. CASE n \in names
      BY <1>1, <3>1 DEF IInv, TypeOK
    <3>2. CASE n \in N
      <4>1. PICK p \in U : n = table[pr[p].slot].num
        BY <3>2
      <4>2. p \in Procs /\ pr[p].slot # 0 /\ n \in Inodes
        BY <4>1
      <4>3. pr[p].slot \in Slots
        BY <1>1, <4>2, ProcFacts DEF ProcRecords
      <4>4. n \in imap \cup {0, ROOT_INO}
        BY <1>1, <4>1, <4>3 DEF IInv, SlotOK
      <4> QED
        BY <4>2, <4>4, InodesAssumption DEF ROOT_INO
    <3> QED
      BY <3>1, <3>2
  <2>3. imap = names \cup N
    <3> HIDE DEF N, U
    <3> QED
      BY <2>1, <2>2
  <2> QED
    BY <2>3 DEF BitmapExact
<1> QED
  BY <1>1, Invariance, PTL
=============================================================================
