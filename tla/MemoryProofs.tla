---------------------------- MODULE MemoryProofs ----------------------------
(***************************************************************************)
(* Proofs about the memory manager, for any number of tasks (up to what a  *)
(* byte counts), pages, page tables and addresses.                         *)
(*                                                                         *)
(* RefCounts is not inductive: un_wp_page() trusts a count of 1 to mean    *)
(* that no other task has the page, and get_free_page() a count of 0 to    *)
(* mean that nobody has it in any way.  The accounts (Acc) therefore tell  *)
(* apart the two ways to hold a page.  A page has one owner (a task_struct,*)
(* a page table, or a task asleep with it) and no entry refers to it, or   *)
(* it is counted by the tasks that map it; a task maps it once, since all  *)
(* of them have it at the same address, which is what fork() and           *)
(* try_to_share() see to.  With that a count is a number of tasks and fits *)
(* a byte, and a failed fork(), exec() or fault gives back exactly what it *)
(* took.                                                                   *)
(*                                                                         *)
(* PlaceOK says what a task has at each place: no entry without its page   *)
(* table (fork() copies table by table), no page table at all once it is   *)
(* dead, and at least one while it is alive, so that execve() with strings *)
(* always finds a page for its table.  Private is WritableIsPrivate without*)
(* the counts; OwnWrites needs it.                                         *)
(*                                                                         *)
(* The lemmas up to AccSame are about the accounts alone, one for each way *)
(* they change; then there is one lemma for every action.                  *)
(***************************************************************************)
EXTENDS Memory, FiniteSetTheorems, TLAPS

-----------------------------------------------------------------------------
(* Sets of numbers.                                                        *)

(* The least element of a set of natural numbers.                          *)
LEMMA HasLeast ==
  ASSUME NEW S \in SUBSET Nat, S # {}
  PROVE  \E x \in S : \A y \in S : x <= y
<1>1. PICK x \in S : \A y \in S : ~(<<y, x>> \in OpToRel(<, Nat))
  BY NatLessThanWellFounded, WFMin, Zenon
<1>2. \A y \in S : y \in Nat /\ x \in Nat /\ ~(y < x)
  BY <1>1, Zenon DEF OpToRel
<1> QED
  BY <1>2

(* The greatest element of a bounded set of natural numbers.               *)
LEMMA HasGreatest ==
  ASSUME NEW n \in Nat, NEW S \in SUBSET (0 .. n), S # {}
  PROVE  \E x \in S : \A y \in S : y <= x
<1> DEFINE T == {m \in 0 .. n : n - m \in S}
<1>1. \A y \in S : n - y \in T /\ y \in 0 .. n
  OBVIOUS
<1>2. T \in SUBSET Nat
  OBVIOUS
<1>3. T # {}
  <2>1. PICK y \in S : n - y \in T
    BY <1>1
  <2> HIDE DEF T
  <2> QED
    BY <2>1
<1>4. PICK m \in T : \A y \in T : m <= y
  BY ONLY <1>2, <1>3, HasLeast
<1>5. m \in 0 .. n /\ n - m \in S
  OBVIOUS
<1> QED
  BY <1>1, <1>4, <1>5

-----------------------------------------------------------------------------
(* Who refers to a page: entries of tables, which share it, and owners,    *)
(* which do not: page tables (their number), the task (-1), the page a     *)
(* sleeping do_no_page() has not mapped yet (0) and the page of strings    *)
(* (-2).  A page that is lost is held by nobody and never free again.      *)
Keys == -2 .. NR_DIRS
At == [t \in Tasks |-> [a \in Addrs |-> IF pte[t][a] = NoPage THEN NoPage ELSE pte[t][a].page]]
Ow == [t \in Tasks |-> [k \in Keys |->
         IF k = -2 THEN strings[t]
         ELSE IF k = -1 THEN task[t]
         ELSE IF k = 0 THEN (IF loading[t] = NoPage THEN NoPage ELSE loading[t][1])
         ELSE dir[t][k]]]

On(at, p) == {t \in Tasks : \E a \in Addrs : at[t][a] = p}
IsOwned(ow, ls, p) == p \in ls \/ \E t \in Tasks, k \in Keys : ow[t][k] = p

(* The accounts are in order: a page with an owner or lost (ls) has no     *)
(* other reference, any other is counted by the tasks that map it, each at *)
(* the same address.                                                       *)
Acc(m, at, ow, ls) ==
  /\ \A p \in Pages : m[p] \in Nat
  /\ \A t \in Tasks, a \in Addrs : at[t][a] \in Pages \cup {LOW, NoPage}
  /\ \A t \in Tasks, k \in Keys : ow[t][k] \in Pages \cup {NoPage}
  /\ ls \subseteq Pages
  /\ \A t \in Tasks, k \in Keys : ow[t][k] \notin ls
  /\ \A p \in Pages : IsOwned(ow, ls, p) => m[p] = 1 /\ On(at, p) = {}
  /\ \A p \in Pages : ~IsOwned(ow, ls, p) => m[p] = Cardinality(On(at, p))
  /\ \A t, u \in Tasks, k, l \in Keys :
       ow[t][k] \in Pages /\ ow[t][k] = ow[u][l] => t = u /\ k = l
  /\ \A t, u \in Tasks, a, b \in Addrs :
       at[t][a] \in Pages /\ at[t][a] = at[u][b] => a = b

Types ==
  /\ mem_map \in [Pages -> Nat]
  /\ dir \in [Tasks -> [Dirs -> Pages \cup {NoPage}]]
  /\ pte \in [Tasks -> [Addrs -> PTE \cup {NoPage}]]
  /\ task \in [Tasks -> Pages \cup {NoPage}]
  /\ alive \in SUBSET Tasks
  /\ exe \in [Tasks -> Exes \cup {NoExe}]
  /\ pc \in [Tasks -> {"run", "no_page", "copy_strings", "closing"}]
  /\ loading \in [Tasks -> (Pages \X Addrs) \cup {NoPage}]
  /\ strings \in [Tasks -> Pages \cup {NoPage}] /\ lost \in SUBSET Pages
  /\ data \in [Pages \cup {LOW} -> Contents]
  /\ view \in [Tasks -> [Addrs -> Contents]]

(* What a task has at each place, alive or dead.                           *)
PlaceOK(t) ==
  /\ pc[t] = "run" => strings[t] = NoPage
  /\ pc[t] = "copy_strings" => strings[t] # NoPage
  /\ pc[t] # "no_page" => loading[t] = NoPage
  /\ pc[t] = "no_page" => loading[t] # NoPage /\ pte[t][loading[t][2]] = NoPage
  /\ t \in alive => task[t] # NoPage /\ \E d \in Dirs : dir[t][d] # NoPage
  /\ t \notin alive => pc[t] = "run" /\ dir[t] = NoDirs /\ pte[t] = NoPTEs
  /\ \A a \in Addrs : pte[t][a] # NoPage => dir[t][DirOf[a]] # NoPage

(* A page somebody can write is mapped by nobody else.                     *)
Private ==
  \A t \in Tasks, a \in Addrs : pte[t][a] # NoPage /\ pte[t][a].w =>
    /\ pte[t][a].page # LOW
    /\ \A u \in Tasks, b \in Addrs : pte[u][b] # NoPage /\ pte[u][b].page = pte[t][a].page => u = t

IInv ==
  /\ Types /\ Acc(mem_map, At, Ow, lost)
  /\ \A t \in Tasks : PlaceOK(t)
  /\ Private /\ OwnWrites

-----------------------------------------------------------------------------
(* get_free_page(): the k-th element of a set, from the top.               *)
Above(S, p) == {q \in S : q > p}

LEMMA KthLargest ==
  ASSUME NEW n \in Nat, NEW S \in SUBSET (0 .. n)
  PROVE  \A k \in 1 .. Cardinality(S) : \E p \in S : Cardinality(Above(S, p)) = k - 1
<1> DEFINE bad == {k \in Nat : k \in 1 .. Cardinality(S)
                                 /\ \A p \in S : Cardinality(Above(S, p)) # k - 1}
<1>0. IsFiniteSet(S) /\ Cardinality(S) \in Nat
  <2>1. IsFiniteSet(0 .. n)
    BY FS_Interval
  <2> QED
    BY <2>1, FS_Subset, FS_CardinalityType
<1>9. \A q \in S : q \in Int
  OBVIOUS
<1>1. SUFFICES ASSUME bad # {} PROVE FALSE
  BY <1>0
<1>2. PICK k \in bad : \A j \in bad : k <= j
  <2>1. bad \in SUBSET Nat
    OBVIOUS
  <2> QED
    BY <1>1, <2>1, HasLeast
<1>3. k \in 1 .. Cardinality(S) /\ k \in Nat /\ \A p \in S : Cardinality(Above(S, p)) # k - 1
  BY <1>2
<1>4. S # {}
  BY <1>0, <1>3, FS_EmptySet
<1>10. \A p \in S : Above(S, p) \subseteq S /\ \A q \in S : q \in Above(S, p) <=> q > p
  BY DEF Above
<1> HIDE DEF bad
<1>5. CASE k = 1
  <2>1. PICK p \in S : \A q \in S : q <= p
    BY <1>4, HasGreatest
  <2>2. Above(S, p) = {}
    <3>1. ASSUME NEW q \in Above(S, p) PROVE FALSE
      <4>1. q \in S /\ q > p
        BY <1>10
      <4>2. q \in Int /\ p \in Int /\ q <= p
        BY <4>1, <1>9, <2>1
      <4> QED
        BY <4>1, <4>2
    <3> QED
      BY <3>1
  <2>3. Cardinality(Above(S, p)) = k - 1
    BY <2>2, <1>5, FS_EmptySet
  <2> QED
    BY <1>3, <2>3
<1>6. CASE k > 1
  <2>1. k - 1 \in Nat /\ k - 1 \in 1 .. Cardinality(S) /\ ~(k <= k - 1)
    BY <1>0, <1>3, <1>6
  <2>2. PICK p \in S : Cardinality(Above(S, p)) = (k - 1) - 1
    BY <1>2, <2>1 DEF bad
  <2> DEFINE low == {q \in S : q < p}
  <2>3. low # {}
    <3>1. SUFFICES ASSUME low = {} PROVE FALSE
      OBVIOUS
    <3>2. S = Above(S, p) \cup {p}
      <4>1. ASSUME NEW q \in S PROVE q \in Above(S, p) \/ q = p
        <5>1. q \in Int /\ p \in Int /\ ~(q < p)
          BY <3>1, <1>9
        <5>2. q > p \/ q = p
          BY <5>1
        <5> QED
          BY <5>2, <1>10
      <4> QED
        BY <4>1, <1>10
    <3>3. p \notin Above(S, p) /\ Above(S, p) \in SUBSET S
      BY DEF Above
    <3>4. IsFiniteSet(Above(S, p))
      BY <3>3, <1>0, FS_Subset
    <3>5. Cardinality(S) = Cardinality(Above(S, p)) + 1
      BY <3>2, <3>3, <3>4, FS_AddElement
    <3> QED
      BY <3>5, <2>2, <1>3, <1>0
  <2>4. PICK r \in low : \A q \in low : q <= r
    BY <2>3, HasGreatest
  <2>5. Above(S, r) = Above(S, p) \cup {p}
    <3>0. r \in S /\ r < p /\ r \in Int /\ p \in Int
      BY <2>4, <1>9
    <3>1. ASSUME NEW q \in S PROVE q > r <=> q > p \/ q = p
      <4>1. q \in Int
        BY <1>9
      <4>2. q < p => q <= r
        BY <2>4
      <4> QED
        BY <4>1, <4>2, <3>0
    <3>2. ASSUME NEW q \in S PROVE q \in Above(S, r) <=> q \in Above(S, p) \cup {p}
      BY <3>0, <3>1, <1>10
    <3>3. Above(S, r) \subseteq S /\ Above(S, p) \cup {p} \subseteq S
      BY <3>0, <1>10
    <3> QED
      BY <3>2, <3>3
  <2>6. p \notin Above(S, p) /\ IsFiniteSet(Above(S, p))
    <3>1. Above(S, p) \in SUBSET S
      BY DEF Above
    <3> QED
      BY <3>1, <1>0, FS_Subset DEF Above
  <2>7. Cardinality(Above(S, r)) = ((k - 1) - 1) + 1
    BY <2>2, <2>5, <2>6, FS_AddElement
  <2>8. ((k - 1) - 1) + 1 = k - 1
    BY <1>3
  <2> QED
    BY <2>4, <2>7, <2>8, <1>3
<1> QED
  BY <1>5, <1>6, <1>3

(* ... and from below.                                                     *)
UpTo(S, p) == {q \in S : q <= p}

LEMMA KthSmallest ==
  ASSUME NEW n \in Nat, NEW S \in SUBSET (0 .. n)
  PROVE  /\ IsFiniteSet(S) /\ Cardinality(S) \in Nat
         /\ \A p \in S : Cardinality(UpTo(S, p)) \in 1 .. Cardinality(S)
         /\ \A k \in 1 .. Cardinality(S) : \E p \in S : Cardinality(UpTo(S, p)) = k
         /\ \A p, q \in S : Cardinality(UpTo(S, p)) = Cardinality(UpTo(S, q)) => p = q
<1>0. IsFiniteSet(S) /\ Cardinality(S) \in Nat
  <2>1. IsFiniteSet(0 .. n)
    BY FS_Interval
  <2> QED
    BY <2>1, FS_Subset, FS_CardinalityType
<1>9. \A q \in S : q \in Int
  OBVIOUS
<1>10. \A p \in S : /\ Above(S, p) \subseteq S /\ UpTo(S, p) \subseteq S
                    /\ \A q \in S : q \in Above(S, p) <=> q > p
                    /\ \A q \in S : q \in UpTo(S, p) <=> q <= p
  BY DEF Above, UpTo
<1>1. ASSUME NEW p \in S
      PROVE  /\ Cardinality(UpTo(S, p)) = Cardinality(S) - Cardinality(Above(S, p))
             /\ Cardinality(Above(S, p)) \in Nat
             /\ Cardinality(UpTo(S, p)) \in 1 .. Cardinality(S)
  <2>1. Above(S, p) \in SUBSET S /\ UpTo(S, p) \in SUBSET S
    BY DEF Above, UpTo
  <2>2. UpTo(S, p) = S \ Above(S, p) /\ S \cap Above(S, p) = Above(S, p)
    <3>1. ASSUME NEW q \in S PROVE q <= p <=> ~(q > p)
      BY <1>9
    <3>2. ASSUME NEW q \in S PROVE q \in UpTo(S, p) <=> q \notin Above(S, p)
      <4>1. q \in UpTo(S, p) <=> q <= p
        BY DEF UpTo
      <4>2. q \in Above(S, p) <=> q > p
        BY DEF Above
      <4> QED
        BY <4>1, <4>2, <3>1
    <3> QED
      BY <3>2, <2>1
  <2>3. Cardinality(UpTo(S, p)) = Cardinality(S) - Cardinality(Above(S, p))
    BY <2>2, <1>0, FS_Difference
  <2>4. IsFiniteSet(UpTo(S, p)) /\ Cardinality(UpTo(S, p)) <= Cardinality(S)
    BY <2>1, <1>0, FS_Subset
  <2>5. Cardinality(UpTo(S, p)) \in Nat
    BY <2>4, FS_CardinalityType
  <2>6. Cardinality(UpTo(S, p)) # 0
    <3>1. p \in UpTo(S, p)
      BY DEF UpTo
    <3> QED
      BY <3>1, <2>4, FS_EmptySet
  <2>7. Cardinality(Above(S, p)) \in Nat
    BY <2>1, <1>0, FS_Subset, FS_CardinalityType
  <2> QED
    BY <2>3, <2>4, <2>5, <2>6, <2>7, <1>0
<1>2. ASSUME NEW k \in 1 .. Cardinality(S)
      PROVE  \E p \in S : Cardinality(UpTo(S, p)) = k
  <2>1. Cardinality(S) - k + 1 \in 1 .. Cardinality(S)
    BY <1>0
  <2>2. PICK p \in S : Cardinality(Above(S, p)) = (Cardinality(S) - k + 1) - 1
    BY <2>1, KthLargest
  <2>3. Cardinality(UpTo(S, p)) = k
    BY <2>2, <1>1, <1>0
  <2> QED
    BY <2>3
<1>3. ASSUME NEW p \in S, NEW q \in S, p < q
      PROVE  Cardinality(UpTo(S, p)) # Cardinality(UpTo(S, q))
  <2>1. UpTo(S, q) \in SUBSET S /\ UpTo(S, p) \in SUBSET UpTo(S, q)
    <3>1. ASSUME NEW r \in S, r <= p PROVE r <= q
      BY <1>3, <1>9, <3>1
    <3>2. ASSUME NEW r \in UpTo(S, p) PROVE r \in UpTo(S, q)
      <4>1. r \in S /\ r <= p
        BY DEF UpTo
      <4>2. r <= q
        BY <4>1, <3>1
      <4> QED
        BY <4>1, <4>2 DEF UpTo
    <3>3. UpTo(S, q) \subseteq S
      BY <1>10
    <3> QED
      BY <3>2, <3>3
  <2>2. IsFiniteSet(UpTo(S, q))
    BY <2>1, <1>0, FS_Subset
  <2>3. UpTo(S, p) # UpTo(S, q)
    BY <1>3 DEF UpTo
  <2> QED
    BY <2>1, <2>2, <2>3, FS_Subset
<1>4. ASSUME NEW p \in S, NEW q \in S, Cardinality(UpTo(S, p)) = Cardinality(UpTo(S, q))
      PROVE  p = q
  <2>1. ~(p < q) /\ ~(q < p)
    BY <1>3, <1>4
  <2> QED
    BY <2>1
<1> QED
  BY <1>0, <1>1, <1>2, <1>4

LEMMA FreePageProps ==
  ASSUME NEW m
  PROVE  /\ IsFiniteSet(FreeIn(m)) /\ Cardinality(FreeIn(m)) \in Nat
         /\ \A k \in 1 .. Cardinality(FreeIn(m)) :
              FreePage(m, k) \in Pages /\ m[FreePage(m, k)] = 0
         /\ \A k, l \in 1 .. Cardinality(FreeIn(m)) :
              FreePage(m, k) = FreePage(m, l) => k = l
<1>0. NR_PAGES \in Nat /\ FreeIn(m) \in SUBSET (0 .. NR_PAGES)
  BY SizesAssumption DEF FreeIn, Pages
<1>1. IsFiniteSet(FreeIn(m)) /\ Cardinality(FreeIn(m)) \in Nat
  BY <1>0, KthSmallest
<1>2. ASSUME NEW k \in 1 .. Cardinality(FreeIn(m))
      PROVE  /\ FreePage(m, k) \in FreeIn(m)
             /\ Cardinality({q \in FreeIn(m) : q > FreePage(m, k)}) = k - 1
  <2>1. \E p \in FreeIn(m) : Cardinality(Above(FreeIn(m), p)) = k - 1
    BY <1>0, KthLargest
  <2>2. \E p \in FreeIn(m) : Cardinality({q \in FreeIn(m) : q > p}) = k - 1
    BY <2>1 DEF Above
  <2> QED
    BY <2>2 DEF FreePage
<1>3. ASSUME NEW k \in 1 .. Cardinality(FreeIn(m)), NEW l \in 1 .. Cardinality(FreeIn(m)),
             FreePage(m, k) = FreePage(m, l)
      PROVE  k = l
  <2>1. k - 1 = l - 1
    BY <1>2, <1>3
  <2> QED
    BY <2>1, <1>1
<1>4. \A p \in FreeIn(m) : p \in Pages /\ m[p] = 0
  BY DEF FreeIn
<1> QED
  BY <1>1, <1>2, <1>3, <1>4

-----------------------------------------------------------------------------
(* The accounts through elementary changes.                                *)
LEMMA OnFinite ==
  ASSUME NEW at, NEW p
  PROVE  /\ IsFiniteSet(On(at, p)) /\ Cardinality(On(at, p)) \in 0 .. NR_TASKS
         /\ Cardinality(On(at, p)) = 0 <=> On(at, p) = {}
<1>1. IsFiniteSet(Tasks) /\ Cardinality(Tasks) = NR_TASKS
  <2>1. 1 \in Int /\ NR_TASKS \in Int /\ ~(1 > NR_TASKS) /\ NR_TASKS - 1 + 1 = NR_TASKS
    BY SizesAssumption
  <2> QED
    BY <2>1, FS_Interval DEF Tasks
<1>2. On(at, p) \in SUBSET Tasks
  BY DEF On
<1>3. IsFiniteSet(On(at, p)) /\ Cardinality(On(at, p)) <= NR_TASKS
  BY <1>1, <1>2, FS_Subset
<1>4. Cardinality(On(at, p)) \in Nat
  BY <1>3, FS_CardinalityType
<1> QED
  BY <1>3, <1>4, FS_EmptySet, SizesAssumption

LEMMA FreeMeans ==
  ASSUME NEW m, NEW at, NEW ow, NEW ls, Acc(m, at, ow, ls), NEW p \in Pages, m[p] = 0
  PROVE  /\ \A t \in Tasks, k \in Keys : ow[t][k] # p
         /\ \A t \in Tasks, a \in Addrs : at[t][a] # p
         /\ On(at, p) = {} /\ p \notin ls
<1>1. ~IsOwned(ow, ls, p)
  BY DEF Acc
<1>2. m[p] = Cardinality(On(at, p))
  BY <1>1 DEF Acc
<1>3. On(at, p) = {}
  BY <1>2, OnFinite
<1> QED
  BY <1>1, <1>3 DEF IsOwned, On

(* No count leaves a byte.                                                 *)
LEMMA CountsFit ==
  ASSUME NEW m, NEW at, NEW ow, NEW ls, Acc(m, at, ow, ls)
  PROVE  \A p \in Pages : m[p] \in 0 .. 255
<1> TAKE p \in Pages
<1>1. CASE IsOwned(ow, ls, p)
  BY <1>1 DEF Acc
<1>2. CASE ~IsOwned(ow, ls, p)
  <2>1. m[p] = Cardinality(On(at, p))
    BY <1>2 DEF Acc
  <2> QED
    BY <2>1, OnFinite, SizesAssumption
<1> QED
  BY <1>1, <1>2

(* A free page gets an owner.                                              *)
LEMMA TakeOwn ==
  ASSUME NEW m, NEW at, NEW ow, NEW ls, Acc(m, at, ow, ls),
         NEW t \in Tasks, NEW k \in Keys, NEW p \in Pages, ow[t][k] = NoPage, m[p] = 0,
         NEW m2, NEW ow2,
         \A q \in Pages : m2[q] = IF q = p THEN 1 ELSE m[q],
         \A u \in Tasks, l \in Keys : ow2[u][l] = IF u = t /\ l = k THEN p ELSE ow[u][l]
  PROVE  Acc(m2, at, ow2, ls)
<1>1. /\ \A u \in Tasks, l \in Keys : ow[u][l] # p
      /\ \A u \in Tasks, a \in Addrs : at[u][a] # p
      /\ On(at, p) = {} /\ p \notin ls
  BY FreeMeans
<1>2. \A q \in Pages : m2[q] \in Nat
  BY DEF Acc
<1>3. /\ \A u \in Tasks, l \in Keys : ow2[u][l] \in Pages \cup {NoPage} /\ ow2[u][l] \notin ls
      /\ ls \subseteq Pages
  BY <1>1 DEF Acc
<1>4. ASSUME NEW q \in Pages, q # p PROVE IsOwned(ow2, ls, q) <=> IsOwned(ow, ls, q)
  <2>1. NoPage # q
    BY NoPageAssumption
  <2> QED
    BY <1>4, <2>1 DEF IsOwned
<1>5. IsOwned(ow2, ls, p)
  BY DEF IsOwned
<1>6. \A q \in Pages : IsOwned(ow2, ls, q) => m2[q] = 1 /\ On(at, q) = {}
  BY <1>1, <1>4 DEF Acc
<1>7. \A q \in Pages : ~IsOwned(ow2, ls, q) => m2[q] = Cardinality(On(at, q))
  BY <1>5, <1>4 DEF Acc
<1>8. \A u, v \in Tasks, l, j \in Keys :
        ow2[u][l] \in Pages /\ ow2[u][l] = ow2[v][j] => u = v /\ l = j
  BY <1>1 DEF Acc
<1> QED
  BY <1>2, <1>3, <1>6, <1>7, <1>8 DEF Acc

(* The owner gives its page back.                                          *)
LEMMA DropOwn ==
  ASSUME NEW m, NEW at, NEW ow, NEW ls, Acc(m, at, ow, ls),
         NEW t \in Tasks, NEW k \in Keys, NEW p \in Pages, ow[t][k] = p,
         NEW m2, NEW ow2,
         \A q \in Pages : m2[q] = IF q = p THEN m[q] - 1 ELSE m[q],
         \A u \in Tasks, l \in Keys : ow2[u][l] = IF u = t /\ l = k THEN NoPage ELSE ow[u][l]
  PROVE  Acc(m2, at, ow2, ls) /\ m2[p] = 0
<1>0. NoPage \notin Pages
  BY NoPageAssumption
<1>1. IsOwned(ow, ls, p) /\ m[p] = 1 /\ On(at, p) = {}
  BY DEF Acc, IsOwned
<1>2. p \notin ls /\ \A u \in Tasks, l \in Keys : ow2[u][l] # p
  BY <1>0 DEF Acc
<1>3. m2[p] = 0 /\ \A q \in Pages : m2[q] \in Nat
  BY <1>1 DEF Acc
<1>4. /\ \A u \in Tasks, l \in Keys : ow2[u][l] \in Pages \cup {NoPage} /\ ow2[u][l] \notin ls
      /\ ls \subseteq Pages
  BY <1>0 DEF Acc
<1>5. ASSUME NEW q \in Pages, q # p PROVE IsOwned(ow2, ls, q) <=> IsOwned(ow, ls, q)
  BY <1>5, <1>0 DEF IsOwned
<1>6. ~IsOwned(ow2, ls, p) /\ Cardinality(On(at, p)) = 0
  BY <1>1, <1>2, FS_EmptySet DEF IsOwned
<1>7. \A q \in Pages : IsOwned(ow2, ls, q) => m2[q] = 1 /\ On(at, q) = {}
  BY <1>5, <1>6 DEF Acc
<1>8. \A q \in Pages : ~IsOwned(ow2, ls, q) => m2[q] = Cardinality(On(at, q))
  BY <1>3, <1>5, <1>6 DEF Acc
<1>9. \A u, v \in Tasks, l, j \in Keys :
        ow2[u][l] \in Pages /\ ow2[u][l] = ow2[v][j] => u = v /\ l = j
  BY <1>0 DEF Acc
<1> QED
  BY <1>3, <1>4, <1>7, <1>8, <1>9 DEF Acc

(* The owner of a page is gone and has not given it back.                  *)
LEMMA LoseOwn ==
  ASSUME NEW m, NEW at, NEW ow, NEW ls, Acc(m, at, ow, ls),
         NEW t \in Tasks, NEW k \in Keys, NEW p \in Pages, ow[t][k] = p,
         NEW ow2,
         \A u \in Tasks, l \in Keys : ow2[u][l] = IF u = t /\ l = k THEN NoPage ELSE ow[u][l]
  PROVE  Acc(m, at, ow2, ls \cup {p})
<1>0. NoPage \notin Pages
  BY NoPageAssumption
<1>1. IsOwned(ow, ls, p)
  BY DEF IsOwned
<1>2. \A u \in Tasks, l \in Keys : ow2[u][l] # p
  BY <1>0 DEF Acc
<1>3. /\ \A u \in Tasks, l \in Keys : /\ ow2[u][l] \in Pages \cup {NoPage}
                                       /\ ow2[u][l] \notin ls \cup {p}
      /\ ls \cup {p} \subseteq Pages
  BY <1>0, <1>2 DEF Acc
<1>4. ASSUME NEW q \in Pages PROVE IsOwned(ow2, ls \cup {p}, q) <=> IsOwned(ow, ls, q)
  <2>1. CASE q = p
    BY <1>1, <2>1 DEF IsOwned
  <2>2. CASE q # p
    BY <1>0, <2>2 DEF IsOwned
  <2> QED
    BY <2>1, <2>2
<1>5. \A u, v \in Tasks, l, j \in Keys :
        ow2[u][l] \in Pages /\ ow2[u][l] = ow2[v][j] => u = v /\ l = j
  BY <1>0 DEF Acc
<1> QED
  BY <1>3, <1>4, <1>5 DEF Acc

(* A free page is mapped.                                                  *)
LEMMA MapNew ==
  ASSUME NEW m, NEW at, NEW ow, NEW ls, Acc(m, at, ow, ls),
         NEW t \in Tasks, NEW a \in Addrs, NEW p \in Pages, at[t][a] = NoPage, m[p] = 0,
         NEW m2, NEW at2,
         \A q \in Pages : m2[q] = IF q = p THEN 1 ELSE m[q],
         \A u \in Tasks, b \in Addrs : at2[u][b] = IF u = t /\ b = a THEN p ELSE at[u][b]
  PROVE  Acc(m2, at2, ow, ls)
<1>0. NoPage \notin Pages
  BY NoPageAssumption
<1>1. /\ \A u \in Tasks, l \in Keys : ow[u][l] # p
      /\ \A u \in Tasks, b \in Addrs : at[u][b] # p
      /\ p \notin ls
  BY FreeMeans
<1>2. \A q \in Pages : m2[q] \in Nat
  BY DEF Acc
<1>3. \A u \in Tasks, b \in Addrs : at2[u][b] \in Pages \cup {LOW, NoPage}
  BY DEF Acc
<1>4. ASSUME NEW q \in Pages, q # p PROVE On(at2, q) = On(at, q)
  BY <1>4, <1>0 DEF On
<1>5. On(at2, p) = {t}
  BY <1>1 DEF On
<1>6. Cardinality(On(at2, p)) = 1
  BY <1>5, FS_Singleton
<1>7. ~IsOwned(ow, ls, p)
  BY <1>1 DEF IsOwned
<1>8. \A q \in Pages : IsOwned(ow, ls, q) => m2[q] = 1 /\ On(at2, q) = {}
  BY <1>4, <1>7 DEF Acc
<1>9. \A q \in Pages : ~IsOwned(ow, ls, q) => m2[q] = Cardinality(On(at2, q))
  BY <1>4, <1>6 DEF Acc
<1>10. \A u, v \in Tasks, b, c \in Addrs :
         at2[u][b] \in Pages /\ at2[u][b] = at2[v][c] => b = c
  BY <1>1 DEF Acc
<1> QED
  BY <1>2, <1>3, <1>8, <1>9, <1>10 DEF Acc

(* A page that u maps at a is mapped there by t too.                       *)
LEMMA MapShared ==
  ASSUME NEW m, NEW at, NEW ow, NEW ls, Acc(m, at, ow, ls),
         NEW t \in Tasks, NEW u \in Tasks, NEW a \in Addrs, NEW p \in Pages,
         at[t][a] = NoPage, at[u][a] = p,
         NEW m2, NEW at2,
         \A q \in Pages : m2[q] = IF q = p THEN m[q] + 1 ELSE m[q],
         \A v \in Tasks, b \in Addrs : at2[v][b] = IF v = t /\ b = a THEN p ELSE at[v][b]
  PROVE  Acc(m2, at2, ow, ls)
<1>0. NoPage \notin Pages
  BY NoPageAssumption
<1>1. u \in On(at, p) /\ t \notin On(at, p)
  BY <1>0 DEF Acc, On
<1>2. ~IsOwned(ow, ls, p) /\ m[p] = Cardinality(On(at, p))
  BY <1>1 DEF Acc
<1>3. \A q \in Pages : m2[q] \in Nat
  BY DEF Acc
<1>4. \A v \in Tasks, b \in Addrs : at2[v][b] \in Pages \cup {LOW, NoPage}
  BY DEF Acc
<1>5. ASSUME NEW q \in Pages, q # p PROVE On(at2, q) = On(at, q)
  BY <1>5, <1>0 DEF On
<1>6. On(at2, p) = On(at, p) \cup {t}
  BY <1>0 DEF On
<1>7. Cardinality(On(at2, p)) = Cardinality(On(at, p)) + 1
  <2>1. IsFiniteSet(On(at, p))
    BY OnFinite
  <2>2. Cardinality(On(at, p) \cup {t}) = Cardinality(On(at, p)) + 1
    BY <1>1, <2>1, FS_AddElement
  <2> QED
    BY <1>6, <2>2
<1>8. \A q \in Pages : IsOwned(ow, ls, q) => m2[q] = 1 /\ On(at2, q) = {}
  BY <1>5, <1>2 DEF Acc
<1>9. \A q \in Pages : ~IsOwned(ow, ls, q) => m2[q] = Cardinality(On(at2, q))
  BY <1>2, <1>5, <1>7 DEF Acc
<1>10. \A v, w \in Tasks, b, c \in Addrs :
         at2[v][b] \in Pages /\ at2[v][b] = at2[w][c] => b = c
  BY DEF Acc
<1> QED
  BY <1>3, <1>4, <1>8, <1>9, <1>10 DEF Acc

(* An entry is taken away.                                                 *)
LEMMA Unmap ==
  ASSUME NEW m, NEW at, NEW ow, NEW ls, Acc(m, at, ow, ls),
         NEW t \in Tasks, NEW a \in Addrs,
         NEW m2, NEW at2,
         \A q \in Pages : m2[q] = IF q = at[t][a] THEN m[q] - 1 ELSE m[q],
         \A u \in Tasks, b \in Addrs : at2[u][b] = IF u = t /\ b = a THEN NoPage ELSE at[u][b]
  PROVE  Acc(m2, at2, ow, ls)
<1>0. NoPage \notin Pages
  BY NoPageAssumption
<1>1. \A u \in Tasks, b \in Addrs : at2[u][b] \in Pages \cup {LOW, NoPage}
  BY DEF Acc
<1>2. ASSUME NEW q \in Pages, q # at[t][a]
      PROVE  m2[q] = m[q] /\ On(at2, q) = On(at, q)
  BY <1>2, <1>0 DEF On
<1>3. ASSUME NEW q \in Pages, q = at[t][a]
      PROVE  ~IsOwned(ow, ls, q) /\ m2[q] \in Nat /\ m2[q] = Cardinality(On(at2, q))
  <2>1. t \in On(at, q)
    BY <1>3 DEF On
  <2>2. ~IsOwned(ow, ls, q) /\ m[q] = Cardinality(On(at, q))
    BY <2>1 DEF Acc
  <2>3. On(at2, q) = On(at, q) \ {t}
    <3>1. \A b \in Addrs : b # a => at[t][b] # q
      BY <1>3 DEF Acc
    <3> QED
      BY <3>1, <1>0, <1>3 DEF On
  <2>4. Cardinality(On(at2, q)) = Cardinality(On(at, q)) - 1
    <3>1. IsFiniteSet(On(at, q))
      BY OnFinite
    <3> QED
      BY <2>1, <2>3, <3>1, FS_RemoveElement
  <2>5. Cardinality(On(at2, q)) \in Nat
    BY OnFinite
  <2> QED
    BY <1>3, <2>2, <2>4, <2>5
<1>4. \A q \in Pages : m2[q] \in Nat
  BY <1>2, <1>3 DEF Acc
<1>5. \A q \in Pages : IsOwned(ow, ls, q) => m2[q] = 1 /\ On(at2, q) = {}
  BY <1>2, <1>3 DEF Acc
<1>6. \A q \in Pages : ~IsOwned(ow, ls, q) => m2[q] = Cardinality(On(at2, q))
  BY <1>2, <1>3 DEF Acc
<1>7. \A u, v \in Tasks, b, c \in Addrs :
        at2[u][b] \in Pages /\ at2[u][b] = at2[v][c] => b = c
  BY <1>0 DEF Acc
<1> QED
  BY <1>1, <1>4, <1>5, <1>6, <1>7 DEF Acc

(* One task refers to a page once.                                         *)
LEMMA MapsOnce ==
  ASSUME NEW m, NEW at, NEW ow, NEW ls, Acc(m, at, ow, ls), NEW t \in Tasks, NEW q \in Pages
  PROVE  /\ t \in On(at, q) => Cardinality({a \in Addrs : at[t][a] = q}) = 1
         /\ t \notin On(at, q) => Cardinality({a \in Addrs : at[t][a] = q}) = 0
<1>1. ASSUME t \in On(at, q) PROVE Cardinality({a \in Addrs : at[t][a] = q}) = 1
  <2>1. PICK a \in Addrs : at[t][a] = q
    BY <1>1 DEF On
  <2>2. {b \in Addrs : at[t][b] = q} = {a}
    BY <2>1 DEF Acc
  <2> QED
    BY <2>2, FS_Singleton
<1>2. ASSUME t \notin On(at, q) PROVE Cardinality({a \in Addrs : at[t][a] = q}) = 0
  <2>1. {b \in Addrs : at[t][b] = q} = {}
    BY <1>2 DEF On
  <2> QED
    BY <2>1, FS_EmptySet
<1> QED
  BY <1>1, <1>2

LEMMA OwnsOnce ==
  ASSUME NEW m, NEW at, NEW ow, NEW ls, Acc(m, at, ow, ls), NEW t \in Tasks, NEW q \in Pages
  PROVE  /\ (\E d \in Dirs : ow[t][d] = q) => Cardinality({d \in Dirs : ow[t][d] = q}) = 1
         /\ (~\E d \in Dirs : ow[t][d] = q) => Cardinality({d \in Dirs : ow[t][d] = q}) = 0
<1>1. ASSUME NEW d \in Dirs, ow[t][d] = q PROVE Cardinality({e \in Dirs : ow[t][e] = q}) = 1
  <2>1. \A e \in Dirs : e \in Keys
    BY AddrsAssumption DEF Dirs, Keys
  <2>2. {e \in Dirs : ow[t][e] = q} = {d}
    BY <1>1, <2>1 DEF Acc
  <2> QED
    BY <2>2, FS_Singleton
<1>2. ASSUME ~\E d \in Dirs : ow[t][d] = q PROVE Cardinality({d \in Dirs : ow[t][d] = q}) = 0
  <2>1. {e \in Dirs : ow[t][e] = q} = {}
    BY <1>2
  <2> QED
    BY <2>1, FS_EmptySet
<1> QED
  BY <1>1, <1>2

(* free_page_tables() for the whole space of t.                            *)
Cleared(t, m, at, ow, m2, at2, ow2) ==
  /\ \A q \in Pages : m2[q] = m[q] - (Cardinality({a \in Addrs : at[t][a] = q})
                                      + Cardinality({d \in Dirs : ow[t][d] = q}))
  /\ \A u \in Tasks, b \in Addrs : at2[u][b] = IF u = t THEN NoPage ELSE at[u][b]
  /\ \A u \in Tasks, l \in Keys : ow2[u][l] = IF u = t /\ l \in Dirs THEN NoPage ELSE ow[u][l]

LEMMA Clear ==
  ASSUME NEW m, NEW at, NEW ow, NEW ls, Acc(m, at, ow, ls), NEW t \in Tasks,
         NEW m2, NEW at2, NEW ow2, Cleared(t, m, at, ow, m2, at2, ow2)
  PROVE  /\ Acc(m2, at2, ow2, ls)
         /\ \A d \in Dirs : ow[t][d] \in Pages => m2[ow[t][d]] = 0
         /\ \A q \in Pages : m[q] = 0 => m2[q] = 0
<1> USE DEF Cleared
<1>0. NoPage \notin Pages /\ \A d \in Dirs : d \in Keys
  BY NoPageAssumption, AddrsAssumption DEF Dirs, Keys
<1>1. /\ \A u \in Tasks, b \in Addrs : at2[u][b] \in Pages \cup {LOW, NoPage}
      /\ \A u \in Tasks, l \in Keys : ow2[u][l] \in Pages \cup {NoPage} /\ ow2[u][l] \notin ls
      /\ ls \subseteq Pages
  BY <1>0 DEF Acc
<1> DEFINE ok(q) == /\ m2[q] \in Nat /\ (m[q] = 0 => m2[q] = 0)
                    /\ IsOwned(ow2, ls, q) => m2[q] = 1 /\ On(at2, q) = {}
                    /\ ~IsOwned(ow2, ls, q) => m2[q] = Cardinality(On(at2, q))
<1>2. ASSUME NEW q \in Pages, NEW d \in Dirs, ow[t][d] = q PROVE ok(q) /\ m2[q] = 0
  <2>1. IsOwned(ow, ls, q)
    BY <1>0, <1>2 DEF IsOwned
  <2>2. m[q] = 1 /\ On(at, q) = {}
    BY <2>1 DEF Acc
  <2>3. m2[q] = 0
    <3>1. t \notin On(at, q) /\ \E e \in Dirs : ow[t][e] = q
      BY <2>2, <1>2
    <3>2. Cardinality({a \in Addrs : at[t][a] = q}) = 0 /\ Cardinality({e \in Dirs : ow[t][e] = q}) = 1
      BY <3>1, MapsOnce, OwnsOnce
    <3>3. m2[q] = 1 - (0 + 1)
      BY <3>2, <2>2
    <3> QED
      BY <3>3
  <2>4. ~IsOwned(ow2, ls, q)
    <3>1. q \notin ls /\ \A u \in Tasks, l \in Keys : ow[u][l] = q => u = t /\ l = d
      BY <1>0, <1>2 DEF Acc
    <3> QED
      BY <1>0, <3>1 DEF IsOwned
  <2>5. On(at2, q) = {}
    BY <1>0, <2>2 DEF On
  <2> QED
    BY <2>3, <2>4, <2>5, FS_EmptySet
<1>3. ASSUME NEW q \in Pages, t \in On(at, q) PROVE ok(q)
  <2>1. ~IsOwned(ow, ls, q)
    BY <1>3 DEF Acc
  <2>2. m[q] = Cardinality(On(at, q))
    BY <2>1 DEF Acc
  <2>3. ~IsOwned(ow2, ls, q)
    BY <1>0, <2>1 DEF IsOwned
  <2>4. On(at2, q) = On(at, q) \ {t}
    BY <1>0 DEF On
  <2>5. Cardinality(On(at, q) \ {t}) = Cardinality(On(at, q)) - 1
    <3>1. IsFiniteSet(On(at, q))
      BY OnFinite
    <3> QED
      BY <1>3, <3>1, FS_RemoveElement
  <2>6. m2[q] = m[q] - 1
    <3>1. ~\E e \in Dirs : ow[t][e] = q
      BY <1>0, <2>1 DEF IsOwned
    <3>2. Cardinality({a \in Addrs : at[t][a] = q}) = 1 /\ Cardinality({e \in Dirs : ow[t][e] = q}) = 0
      BY <1>3, <3>1, MapsOnce, OwnsOnce
    <3> QED
      BY <3>2, <2>2, OnFinite
  <2>7. Cardinality(On(at2, q)) \in Nat /\ Cardinality(On(at, q)) \in Nat
    BY OnFinite
  <2>8. m2[q] = Cardinality(On(at2, q))
    BY <2>2, <2>4, <2>5, <2>6
  <2>9. m2[q] \in Nat /\ m[q] # 0
    BY <2>7, <2>8, <2>6, <2>2
  <2> QED
    BY <2>3, <2>8, <2>9
<1>4. ASSUME NEW q \in Pages, t \notin On(at, q), ~\E d \in Dirs : ow[t][d] = q PROVE ok(q)
  <2>1. m[q] \in Nat
    BY DEF Acc
  <2>2. m2[q] = m[q]
    <3>1. Cardinality({a \in Addrs : at[t][a] = q}) = 0 /\ Cardinality({e \in Dirs : ow[t][e] = q}) = 0
      BY <1>4, MapsOnce, OwnsOnce
    <3>2. m2[q] = m[q] - (0 + 0)
      BY <3>1
    <3> QED
      BY <3>2, <2>1
  <2>3. IsOwned(ow2, ls, q) <=> IsOwned(ow, ls, q)
    BY <1>0, <1>4 DEF IsOwned
  <2>4. On(at2, q) = On(at, q)
    BY <1>0, <1>4 DEF On
  <2> QED
    BY <2>1, <2>2, <2>3, <2>4 DEF Acc
<1>5. \A q \in Pages : ok(q)
  BY <1>2, <1>3, <1>4
<1>6. \A u, v \in Tasks, l, j \in Keys :
        ow2[u][l] \in Pages /\ ow2[u][l] = ow2[v][j] => u = v /\ l = j
  BY <1>0 DEF Acc
<1>7. \A u, v \in Tasks, b, c \in Addrs :
        at2[u][b] \in Pages /\ at2[u][b] = at2[v][c] => b = c
  BY <1>0 DEF Acc
<1>8. Acc(m2, at2, ow2, ls)
  BY <1>1, <1>5, <1>6, <1>7 DEF Acc
<1> QED
  BY <1>2, <1>5, <1>8

(* copy_page_tables(): c gets pages of its own and shares those t maps.    *)
ForkedAccounts(m, at, ow, t, c, m2, at2, ow2) ==
  /\ t # c
  /\ \A k \in Keys : ow[c][k] = NoPage
  /\ \A a \in Addrs : at[c][a] = NoPage
  /\ \A k \in Keys : ow2[c][k] = NoPage \/ (ow2[c][k] \in Pages /\ m[ow2[c][k]] = 0)
  /\ \A k, l \in Keys : ow2[c][k] \in Pages /\ ow2[c][k] = ow2[c][l] => k = l
  /\ \A u \in Tasks, l \in Keys : u # c => ow2[u][l] = ow[u][l]
  /\ \A u \in Tasks, b \in Addrs : at2[u][b] = IF u = c THEN at[t][b] ELSE at[u][b]
  /\ \A q \in Pages : m2[q] = IF \E k \in Keys : ow2[c][k] = q THEN 1
                               ELSE m[q] + Cardinality({a \in Addrs : at[t][a] = q})

LEMMA ForkAcc ==
  ASSUME NEW m, NEW at, NEW ow, NEW ls, Acc(m, at, ow, ls), NEW t \in Tasks, NEW c \in Tasks,
         NEW m2, NEW at2, NEW ow2, ForkedAccounts(m, at, ow, t, c, m2, at2, ow2)
  PROVE  Acc(m2, at2, ow2, ls)
<1> USE DEF ForkedAccounts
<1>0. NoPage \notin Pages
  BY NoPageAssumption
<1>1. /\ \A u \in Tasks, b \in Addrs : at2[u][b] \in Pages \cup {LOW, NoPage}
      /\ \A u \in Tasks, l \in Keys : ow2[u][l] \in Pages \cup {NoPage} /\ ow2[u][l] \notin ls
      /\ ls \subseteq Pages
  <2>1. \A q \in ls : q \in Pages /\ m[q] = 1
    BY DEF Acc, IsOwned
  <2> QED
    BY <1>0, <2>1 DEF Acc
<1> DEFINE ok(q) == /\ m2[q] \in Nat
                    /\ IsOwned(ow2, ls, q) => m2[q] = 1 /\ On(at2, q) = {}
                    /\ ~IsOwned(ow2, ls, q) => m2[q] = Cardinality(On(at2, q))
<1>2. ASSUME NEW q \in Pages, NEW k \in Keys, ow2[c][k] = q
      PROVE  ok(q) /\ q \notin ls /\ \A u \in Tasks, l \in Keys : ow[u][l] # q
  <2>1. m[q] = 0
    BY <1>0, <1>2
  <2>2. On(at, q) = {} /\ q \notin ls /\ \A u \in Tasks, l \in Keys : ow[u][l] # q
    BY <2>1, FreeMeans
  <2>3. On(at2, q) = {}
    BY <2>2 DEF On
  <2>4. IsOwned(ow2, ls, q) /\ m2[q] = 1
    BY <1>2 DEF IsOwned
  <2> QED
    BY <2>2, <2>3, <2>4
<1>3. ASSUME NEW q \in Pages, \A k \in Keys : ow2[c][k] # q, IsOwned(ow, ls, q)
      PROVE  ok(q)
  <2>1. m[q] = 1 /\ On(at, q) = {}
    BY <1>3 DEF Acc
  <2>2. IsOwned(ow2, ls, q)
    BY <1>0, <1>3 DEF IsOwned
  <2>3. On(at2, q) = {}
    BY <2>1 DEF On
  <2>4. Cardinality({a \in Addrs : at[t][a] = q}) = 0
    <3>1. t \notin On(at, q)
      BY <2>1
    <3> QED
      BY ONLY Acc(m, at, ow, ls), t \in Tasks, q \in Pages, <3>1, MapsOnce
  <2>5. m2[q] = 1
    BY <1>3, <2>1, <2>4
  <2> QED
    BY <2>2, <2>3, <2>5
<1>4. ASSUME NEW q \in Pages, \A k \in Keys : ow2[c][k] # q, ~IsOwned(ow, ls, q)
      PROVE  ok(q)
  <2>1. m[q] = Cardinality(On(at, q)) /\ Cardinality(On(at, q)) \in Nat /\ IsFiniteSet(On(at, q))
    BY <1>4, OnFinite DEF Acc
  <2>2. ~IsOwned(ow2, ls, q)
    BY <1>4 DEF IsOwned
  <2>3. c \notin On(at, q)
    BY <1>0 DEF On
  <2>4. CASE t \in On(at, q)
    <3>1. On(at2, q) = On(at, q) \cup {c}
      BY <1>0, <2>4 DEF On
    <3>2. Cardinality(On(at, q) \cup {c}) = Cardinality(On(at, q)) + 1
      BY <2>1, <2>3, FS_AddElement
    <3>3. Cardinality({a \in Addrs : at[t][a] = q}) = 1
      BY ONLY Acc(m, at, ow, ls), t \in Tasks, q \in Pages, <2>4, MapsOnce
    <3>4. m2[q] = m[q] + 1
      BY <1>4, <3>3
    <3> QED
      BY <2>1, <2>2, <3>1, <3>2, <3>4
  <2>5. CASE t \notin On(at, q)
    <3>1. On(at2, q) = On(at, q)
      BY <1>0, <2>5 DEF On
    <3>2. Cardinality({a \in Addrs : at[t][a] = q}) = 0
      BY ONLY Acc(m, at, ow, ls), t \in Tasks, q \in Pages, <2>5, MapsOnce
    <3>3. m2[q] = m[q] + 0
      BY <1>4, <3>2
    <3> QED
      BY <2>1, <2>2, <3>1, <3>3
  <2> QED
    BY <2>4, <2>5
<1>5. \A q \in Pages : ok(q)
  BY <1>2, <1>3, <1>4
<1>6. \A u, v \in Tasks, l, j \in Keys :
        ow2[u][l] \in Pages /\ ow2[u][l] = ow2[v][j] => u = v /\ l = j
  <2> SUFFICES ASSUME NEW u \in Tasks, NEW v \in Tasks, NEW l \in Keys, NEW j \in Keys,
                      ow2[u][l] \in Pages, ow2[u][l] = ow2[v][j]
               PROVE  u = v /\ l = j
    OBVIOUS
  <2>1. CASE u = c /\ v = c
    BY <2>1
  <2>2. CASE u # c /\ v # c
    BY <2>2 DEF Acc
  <2>3. CASE u = c /\ v # c
    BY <2>3, <1>2
  <2>4. CASE u # c /\ v = c
    BY <2>4, <1>2
  <2> QED
    BY <2>1, <2>2, <2>3, <2>4
<1>7. \A u, v \in Tasks, b, d \in Addrs :
        at2[u][b] \in Pages /\ at2[u][b] = at2[v][d] => b = d
  BY <1>0 DEF Acc
<1> QED
  BY <1>1, <1>5, <1>6, <1>7 DEF Acc

(* Only the values count.                                                  *)
LEMMA AccSame ==
  ASSUME NEW m, NEW at, NEW ow, NEW ls, Acc(m, at, ow, ls), NEW m2, NEW at2, NEW ow2,
         \A q \in Pages : m2[q] = m[q],
         \A u \in Tasks, b \in Addrs : at2[u][b] = at[u][b],
         \A u \in Tasks, l \in Keys : ow2[u][l] = ow[u][l]
  PROVE  Acc(m2, at2, ow2, ls)
<1>1. \A q \in Pages : On(at2, q) = On(at, q)
  BY DEF On
<1>2. \A q \in Pages : IsOwned(ow2, ls, q) <=> IsOwned(ow, ls, q)
  BY DEF IsOwned
<1> QED
  BY <1>1, <1>2 DEF Acc

-----------------------------------------------------------------------------
(* The accounts and the state.                                             *)
LEMMA KeysAre ==
  /\ -2 \in Keys /\ -1 \in Keys /\ 0 \in Keys
  /\ \A d \in Dirs : d \in Keys /\ d # 0 /\ d # -1 /\ d # -2
  /\ \A k \in Keys : k = -2 \/ k = -1 \/ k = 0 \/ k \in Dirs
BY AddrsAssumption DEF Keys, Dirs

LEMMA AtIs ==
  /\ \A t \in Tasks, a \in Addrs :
       At[t][a] = IF pte[t][a] = NoPage THEN NoPage ELSE pte[t][a].page
  /\ \A t \in Tasks, a \in Addrs :
       At'[t][a] = IF pte'[t][a] = NoPage THEN NoPage ELSE pte'[t][a].page
BY DEF At

LEMMA OwIs ==
  /\ \A t \in Tasks : /\ Ow[t][-2] = strings[t] /\ Ow[t][-1] = task[t]
                      /\ Ow[t][0] = IF loading[t] = NoPage THEN NoPage ELSE loading[t][1]
                      /\ \A d \in Dirs : Ow[t][d] = dir[t][d]
  /\ \A t \in Tasks : /\ Ow'[t][-2] = strings'[t] /\ Ow'[t][-1] = task'[t]
                      /\ Ow'[t][0] = IF loading'[t] = NoPage THEN NoPage ELSE loading'[t][1]
                      /\ \A d \in Dirs : Ow'[t][d] = dir'[t][d]
BY KeysAre DEF Ow

(* An entry is no page number.                                             *)
LEMMA EntryIs ==
  ASSUME Types, NEW t \in Tasks, NEW a \in Addrs, pte[t][a] # NoPage
  PROVE  /\ pte[t][a] \in PTE
         /\ pte[t][a].page \in Pages \cup {LOW} /\ pte[t][a].page # NoPage
         /\ pte[t][a].w \in BOOLEAN /\ pte[t][a].d \in BOOLEAN
<1>1. pte[t][a] \in PTE
  BY DEF Types
<1> QED
  BY <1>1, NoPageAssumption DEF PTE

LEMMA InitOK == Init => IInv
<1> SUFFICES ASSUME Init PROVE IInv
  OBVIOUS
<1>0. /\ NR_TASKS \in Nat /\ NR_TASKS >= 1 /\ NR_PAGES \in Nat /\ NR_DIRS \in Nat
      /\ 1 + NR_DIRS <= NR_PAGES /\ 1 \in Tasks
  BY SizesAssumption, AddrsAssumption DEF Tasks
<1>1. Types
  <2>1. mem_map \in [Pages -> Nat]
    BY DEF Init
  <2>2. dir \in [Tasks -> [Dirs -> Pages \cup {NoPage}]]
    <3>1. \A d \in Dirs : NR_PAGES - d \in Pages
      BY <1>0 DEF Dirs, Pages
    <3> QED
      BY <3>1 DEF Init, NoDirs
  <2>3. pte \in [Tasks -> [Addrs -> PTE \cup {NoPage}]]
    BY DEF Init, NoPTEs, PTE
  <2>4. task \in [Tasks -> Pages \cup {NoPage}] /\ alive \in SUBSET Tasks
    BY <1>0 DEF Init, Pages
  <2>5. /\ exe \in [Tasks -> Exes \cup {NoExe}]
        /\ pc \in [Tasks -> {"run", "no_page", "copy_strings", "closing"}]
        /\ loading \in [Tasks -> (Pages \X Addrs) \cup {NoPage}]
        /\ strings \in [Tasks -> Pages \cup {NoPage}] /\ lost \in SUBSET Pages
    BY DEF Init
  <2>6. data \in [Pages \cup {LOW} -> Contents] /\ view \in [Tasks -> [Addrs -> Contents]]
    BY DEF Init, Contents
  <2> QED
    BY <2>1, <2>2, <2>3, <2>4, <2>5, <2>6 DEF Types
<1>2. Acc(mem_map, At, Ow, lost)
  <2>1. \A t \in Tasks, a \in Addrs : At[t][a] \in {LOW, NoPage}
    BY AtIs DEF Init, NoPTEs
  <2>2. \A q \in Pages : On(At, q) = {} /\ Cardinality(On(At, q)) = 0
    <3>1. \A q \in Pages : q # LOW /\ q # NoPage
      BY NoPageAssumption DEF Pages, LOW
    <3>2. \A q \in Pages : On(At, q) = {}
      BY <2>1, <3>1 DEF On
    <3> QED
      BY <3>2, FS_EmptySet
  <2>3. \A t \in Tasks : /\ Ow[t][-1] = IF t = 1 THEN NR_PAGES ELSE NoPage
                         /\ Ow[t][0] = NoPage /\ Ow[t][-2] = NoPage
                         /\ \A d \in Dirs : Ow[t][d] = IF t = 1 THEN NR_PAGES - d ELSE NoPage
    BY OwIs DEF Init, NoDirs
  <2>4. \A d \in Dirs : NR_PAGES - d \in Pages /\ NR_PAGES - d # NR_PAGES /\ d \in Int
    BY <1>0 DEF Dirs, Pages
  <2>5. NR_PAGES \in Pages
    BY <1>0 DEF Pages
  <2>6. \A t \in Tasks, k \in Keys : Ow[t][k] \in Pages \cup {NoPage}
    BY <2>3, <2>4, <2>5, KeysAre
  <2>7. ASSUME NEW q \in Pages PROVE IsOwned(Ow, lost, q) <=> q > NR_PAGES - (1 + NR_DIRS)
    <3>1. q # NoPage /\ q \in 1 .. NR_PAGES /\ lost = {}
      BY NoPageAssumption DEF Pages, Init
    <3>2. ASSUME q > NR_PAGES - (1 + NR_DIRS) PROVE IsOwned(Ow, lost, q)
      <4>1. q = NR_PAGES \/ (NR_PAGES - q \in Dirs /\ NR_PAGES - (NR_PAGES - q) = q)
        BY <1>0, <3>1, <3>2 DEF Dirs
      <4> QED
        BY <4>1, <2>3, <1>0, KeysAre DEF IsOwned
    <3>3. ASSUME IsOwned(Ow, lost, q) PROVE q > NR_PAGES - (1 + NR_DIRS)
      <4>1. PICK t \in Tasks, k \in Keys : Ow[t][k] = q
        BY <3>1, <3>3 DEF IsOwned
      <4>2. q = NR_PAGES \/ \E d \in Dirs : q = NR_PAGES - d
        BY <4>1, <3>1, <2>3, KeysAre
      <4> QED
        BY <4>2, <1>0 DEF Dirs
    <3> QED
      BY <3>2, <3>3
  <2>8. \A q \in Pages : IsOwned(Ow, lost, q) => mem_map[q] = 1
    BY <2>7 DEF Init
  <2>9. \A q \in Pages : ~IsOwned(Ow, lost, q) => mem_map[q] = 0
    BY <2>7 DEF Init
  <2>10. \A t, u \in Tasks, k, l \in Keys :
           Ow[t][k] \in Pages /\ Ow[t][k] = Ow[u][l] => t = u /\ k = l
    <3>1. NoPage \notin Pages
      BY NoPageAssumption
    <3>2. \A d, e \in Dirs : NR_PAGES - d = NR_PAGES - e => d = e
      BY <2>4, <1>0
    <3> QED
      BY <3>1, <3>2, <2>3, <2>4, KeysAre
  <2>11. \A t \in Tasks, a \in Addrs : At[t][a] \notin Pages
    BY <2>1, NoPageAssumption DEF Pages, LOW
  <2>12. \A q \in Pages : mem_map[q] \in Nat
    BY <1>1 DEF Types
  <2>13. lost = {}
    BY DEF Init
  <2> QED
    BY <2>1, <2>2, <2>6, <2>8, <2>9, <2>10, <2>11, <2>12, <2>13 DEF Acc
<1>3. \A t \in Tasks : PlaceOK(t)
  <2>1. \A d \in Dirs : NR_PAGES - d # NoPage
    <3>1. \A d \in Dirs : NR_PAGES - d \in Pages
      BY <1>0 DEF Dirs, Pages
    <3> QED
      BY <3>1, NoPageAssumption
  <2>2. NR_PAGES # NoPage
    <3>1. NR_PAGES \in Pages
      BY <1>0 DEF Pages
    <3> QED
      BY <3>1, NoPageAssumption
  <2>3. DirOf[StackAddr] \in Dirs /\ \A a \in Addrs : DirOf[a] \in Dirs
    BY AddrsAssumption
  <2> TAKE t \in Tasks
  <2>4. pc[t] = "run" /\ loading[t] = NoPage /\ strings[t] = NoPage /\ (t \in alive <=> t = 1)
    BY DEF Init
  <2>5. t = 1 => task[t] # NoPage /\ \A d \in Dirs : dir[t][d] # NoPage
    BY <2>1, <2>2 DEF Init
  <2>6. t # 1 => dir[t] = NoDirs /\ pte[t] = NoPTEs
    BY DEF Init
  <2>7. ASSUME NEW a \in Addrs, pte[t][a] # NoPage PROVE dir[t][DirOf[a]] # NoPage
    <3>1. t = 1
      BY <2>6, <2>7 DEF NoPTEs
    <3> QED
      BY <3>1, <2>3, <2>5
  <2>8. t \in alive => task[t] # NoPage /\ \E d \in Dirs : dir[t][d] # NoPage
    BY <2>3, <2>4, <2>5
  <2> QED
    BY <2>4, <2>6, <2>7, <2>8 DEF PlaceOK
<1>4. Private
  BY DEF Private, Init, NoPTEs
<1>5. OwnWrites
  BY DEF OwnWrites, Init, NoPTEs, Mapped, LOW
<1> QED
  BY <1>1, <1>2, <1>3, <1>4, <1>5 DEF IInv

-----------------------------------------------------------------------------
(* One lemma for each action.                                              *)

(* A page that t can write is mapped there and nowhere else.               *)
LEMMA OnlyHere ==
  ASSUME IInv, NEW t \in Tasks, NEW a \in Addrs, pte[t][a] # NoPage, pte[t][a].w
  PROVE  /\ pte[t][a].page \in Pages
         /\ \A u \in Tasks, b \in Addrs :
              pte[u][b] # NoPage /\ pte[u][b].page = pte[t][a].page => u = t /\ b = a
<1>1. Types
  BY DEF IInv
<1>2. pte[t][a].page \in Pages
  BY <1>1, EntryIs DEF IInv, Private
<1>3. ASSUME NEW u \in Tasks, NEW b \in Addrs, pte[u][b] # NoPage,
             pte[u][b].page = pte[t][a].page
      PROVE  u = t /\ b = a
  <2>1. u = t
    BY <1>3 DEF IInv, Private
  <2>2. At[u][b] = At[t][a] /\ At[t][a] \in Pages
    BY <1>2, <1>3, AtIs
  <2> QED
    BY <2>1, <2>2 DEF IInv, Acc
<1> QED
  BY <1>2, <1>3

(* A step that changes no owner, no count and no page of an entry.         *)
LEMMA AccStays ==
  ASSUME IInv,
         \A p \in Pages : mem_map'[p] = mem_map[p],
         \A u \in Tasks, b \in Addrs : At'[u][b] = At[u][b],
         lost' = lost,
         \A u \in Tasks : /\ task'[u] = task[u] /\ loading'[u] = loading[u] /\ strings'[u] = strings[u]
                          /\ \A d \in Dirs : dir'[u][d] = dir[u][d]
  PROVE  Acc(mem_map', At', Ow', lost')
<1>1. \A u \in Tasks, l \in Keys : Ow'[u][l] = Ow[u][l]
  BY OwIs, KeysAre
<1>2. Acc(mem_map, At, Ow, lost)
  BY DEF IInv
<1> QED
  BY <1>1, <1>2, AccSame

LEMMA WriteOK ==
  ASSUME IInv, NEW t \in Tasks, NEW a \in Addrs, Write(t, a)
  PROVE  IInv'
<1>0. Types /\ pte[t][a] # NoPage /\ pte[t][a].w
  BY DEF IInv, Write, Mapped
<1>1. pte[t][a] \in PTE /\ pte[t][a].page \in Pages
  BY <1>0, EntryIs, OnlyHere
<1>2. PICK e \in PTE : e.page = pte[t][a].page /\ e.w = pte[t][a].w
                       /\ pte' = [pte EXCEPT ![t][a] = e]
  BY <1>1 DEF Write, PTE
<1>3. e # NoPage
  BY NoPageAssumption
<1>4. \A u \in Tasks, b \in Addrs : pte'[u][b] = IF u = t /\ b = a THEN e ELSE pte[u][b]
  BY <1>0, <1>2 DEF Types
<1>5. Types'
  <2>1. pte' \in [Tasks -> [Addrs -> PTE \cup {NoPage}]]
    BY <1>0, <1>2 DEF Types
  <2>2. data' \in [Pages \cup {LOW} -> Contents] /\ view' \in [Tasks -> [Addrs -> Contents]]
    BY <1>0, <1>1 DEF Types, Write, Contents
  <2> QED
    BY <1>0, <2>1, <2>2 DEF Types, Write
<1>6. Acc(mem_map', At', Ow', lost')
  <2>1. \A u \in Tasks, b \in Addrs : At'[u][b] = At[u][b]
    BY <1>0, <1>2, <1>3, <1>4, AtIs
  <2> QED
    BY <2>1, AccStays DEF Write
<1>7. \A u \in Tasks : PlaceOK(u)'
  <2> TAKE u \in Tasks
  <2>1. PlaceOK(u)
    BY DEF IInv
  <2>2. \A b \in Addrs : pte'[u][b] = NoPage <=> pte[u][b] = NoPage
    BY <1>0, <1>3, <1>4
  <2>3. u \notin alive => pte'[u] = pte[u]
    <3>1. t \in alive
      BY DEF Write, Runs
    <3> QED
      BY <1>0, <1>2, <3>1 DEF Types
  <2>4. loading[u] # NoPage => loading[u][2] \in Addrs
    BY <1>0 DEF Types
  <2> QED
    BY <2>1, <2>2, <2>3, <2>4 DEF PlaceOK, Write
<1>8. Private'
  BY <1>0, <1>2, <1>3, <1>4 DEF IInv, Private
<1>9. OwnWrites'
  <2> SUFFICES ASSUME NEW u \in Tasks, NEW b \in Addrs, pte'[u][b] # NoPage, view'[u][b] # IMAGE
               PROVE  data'[pte'[u][b].page] = view'[u][b]
    BY DEF OwnWrites, Mapped
  <2>0. /\ \A q \in Pages \cup {LOW} : data'[q] = IF q = pte[t][a].page THEN t ELSE data[q]
        /\ view'[u][b] = IF u = t /\ b = a THEN t ELSE view[u][b]
    BY <1>0, <1>1 DEF Types, Write
  <2>1. CASE u = t /\ b = a
    BY <2>0, <2>1, <1>1, <1>2, <1>4
  <2>2. CASE ~(u = t /\ b = a)
    <3>1. pte'[u][b] = pte[u][b] /\ pte[u][b].page \in Pages \cup {LOW}
      BY <1>0, <1>4, <2>2, EntryIs
    <3>2. pte[u][b].page # pte[t][a].page
      BY <1>0, <2>2, <3>1, OnlyHere
    <3>3. data[pte[u][b].page] = view[u][b]
      BY <2>0, <2>2, <3>1 DEF IInv, OwnWrites, Mapped
    <3> QED
      BY <2>0, <2>2, <3>1, <3>2, <3>3
  <2> QED
    BY <2>1, <2>2
<1> QED
  BY <1>5, <1>6, <1>7, <1>8, <1>9 DEF IInv

(* un_wp_page(), the last user of the page.                                *)
LEMMA UnprotectOK ==
  ASSUME IInv, NEW t \in Tasks, NEW a \in Addrs, Runs(t), pte[t][a] # NoPage, ~pte[t][a].w,
         pte[t][a].page # LOW, mem_map[pte[t][a].page] = 1,
         pte' = [pte EXCEPT ![t][a].w = TRUE],
         UNCHANGED <<mem_map, dir, task, alive, exe, pc, loading, strings, lost, data, view>>
  PROVE  IInv'
<1>0. Types
  BY DEF IInv
<1>1. pte[t][a] \in PTE /\ pte[t][a].page \in Pages
  BY <1>0, EntryIs
<1>2. PICK e \in PTE : e.page = pte[t][a].page /\ e.w = TRUE
                       /\ pte' = [pte EXCEPT ![t][a] = e]
  BY <1>1 DEF PTE
<1>3. e # NoPage
  BY NoPageAssumption
<1>4. \A u \in Tasks, b \in Addrs : pte'[u][b] = IF u = t /\ b = a THEN e ELSE pte[u][b]
  BY ONLY <1>0, <1>2, t \in Tasks, a \in Addrs DEF Types
<1>5. Types'
  <2>1. pte' \in [Tasks -> [Addrs -> PTE \cup {NoPage}]]
    BY ONLY <1>0, <1>2, e \in PTE, t \in Tasks, a \in Addrs DEF Types
  <2> QED
    BY <1>0, <2>1 DEF Types
<1>6. Acc(mem_map', At', Ow', lost')
  <2>1. \A u \in Tasks, b \in Addrs : At'[u][b] = At[u][b]
    BY ONLY <1>2, <1>3, <1>4, pte[t][a] # NoPage, AtIs
  <2> QED
    BY <2>1, AccStays
<1>7. \A u \in Tasks : PlaceOK(u)'
  <2> TAKE u \in Tasks
  <2>1. PlaceOK(u)
    BY DEF IInv
  <2>2. \A b \in Addrs : pte'[u][b] = NoPage <=> pte[u][b] = NoPage
    BY ONLY <1>0, <1>3, <1>4, pte[t][a] # NoPage
  <2>3. u \notin alive => pte'[u] = pte[u]
    <3>1. t \in alive
      BY DEF Runs
    <3> QED
      BY <1>0, <1>2, <3>1 DEF Types
  <2>4. loading[u] # NoPage => loading[u][2] \in Addrs
    BY <1>0 DEF Types
  <2> QED
    BY <2>1, <2>2, <2>3, <2>4 DEF PlaceOK
<1>8. ASSUME NEW u \in Tasks, NEW b \in Addrs, pte[u][b] # NoPage, pte[u][b].page = pte[t][a].page
      PROVE  u = t
  <2> DEFINE p == pte[t][a].page
  <2>1. At[t][a] = p /\ At[u][b] = p
    BY <1>8, AtIs
  <2>2. t \in On(At, p) /\ u \in On(At, p)
    BY <2>1 DEF On
  <2>3. mem_map[p] = Cardinality(On(At, p))
    BY <1>1, <2>2 DEF IInv, Acc
  <2>4. \E x : On(At, p) = {x}
    <3>1. IsFiniteSet(On(At, p))
      BY OnFinite
    <3> QED
      BY <3>1, <2>3, FS_Singleton
  <2> QED
    BY <2>2, <2>4
<1>9. Private'
  <2> SUFFICES ASSUME NEW u \in Tasks, NEW b \in Addrs, pte'[u][b] # NoPage, pte'[u][b].w,
                      NEW v \in Tasks, NEW c \in Addrs
               PROVE  /\ pte'[u][b].page # LOW
                      /\ pte'[v][c] # NoPage /\ pte'[v][c].page = pte'[u][b].page => v = u
    BY DEF Private
  <2>1. CASE u = t /\ b = a
    BY <2>1, <1>2, <1>4, <1>8
  <2>2. CASE ~(u = t /\ b = a)
    BY <2>2, <1>2, <1>4 DEF IInv, Private
  <2> QED
    BY <2>1, <2>2
<1>10. OwnWrites'
  BY <1>2, <1>4 DEF IInv, OwnWrites, Mapped
<1> QED
  BY <1>5, <1>6, <1>7, <1>9, <1>10 DEF IInv

LEMMA GetFree ==
  ASSUME NEW k \in Nat, k >= 1, Cardinality(Free) >= k
  PROVE  get_free_page(k) \in Pages /\ mem_map[get_free_page(k)] = 0
<1>1. k \in 1 .. Cardinality(FreeIn(mem_map))
  BY FreePageProps DEF Free
<1> QED
  BY <1>1, FreePageProps DEF get_free_page

LEMMA SomeFree == Free # {} => Cardinality(Free) >= 1
<1>1. IsFiniteSet(Free) /\ Cardinality(Free) \in Nat
  BY FreePageProps DEF Free
<1> QED
  BY <1>1, FS_EmptySet

(* At most one new entry, for a page nobody else maps.                     *)
LEMMA EntryNew ==
  ASSUME IInv, NEW t \in Tasks, NEW a \in Addrs, NEW n \in Pages, NEW e \in PTE, e.page = n,
         pte'[t][a] = e,
         \A u \in Tasks, b \in Addrs : ~(u = t /\ b = a) /\ pte'[u][b] # NoPage =>
           pte'[u][b] = pte[u][b] /\ pte[u][b].page # n,
         \A q \in Pages \cup {LOW} : q # n => data'[q] = data[q],
         \A u \in Tasks, b \in Addrs : ~(u = t /\ b = a) => view'[u][b] = view[u][b],
         view'[t][a] # IMAGE => data'[n] = view'[t][a]
  PROVE  Private' /\ OwnWrites'
<1>0. Types /\ n # LOW
  BY DEF IInv, Pages, LOW
<1>1. Private'
  <2> SUFFICES ASSUME NEW u \in Tasks, NEW b \in Addrs, pte'[u][b] # NoPage, pte'[u][b].w,
                      NEW v \in Tasks, NEW c \in Addrs
               PROVE  /\ pte'[u][b].page # LOW
                      /\ pte'[v][c] # NoPage /\ pte'[v][c].page = pte'[u][b].page => v = u
    BY DEF Private
  <2>1. CASE u = t /\ b = a
    BY <2>1, <1>0
  <2>2. CASE ~(u = t /\ b = a)
    BY <2>2, <1>0 DEF IInv, Private
  <2> QED
    BY <2>1, <2>2
<1>2. OwnWrites'
  <2> SUFFICES ASSUME NEW u \in Tasks, NEW b \in Addrs, pte'[u][b] # NoPage, view'[u][b] # IMAGE
               PROVE  data'[pte'[u][b].page] = view'[u][b]
    BY DEF OwnWrites, Mapped
  <2>1. CASE u = t /\ b = a
    BY <2>1
  <2>2. CASE ~(u = t /\ b = a)
    <3>1. pte'[u][b] = pte[u][b] /\ pte[u][b].page # n /\ pte[u][b] # NoPage /\ view'[u][b] = view[u][b]
      BY <2>2
    <3>2. pte[u][b].page \in Pages \cup {LOW}
      BY <1>0, <3>1, EntryIs
    <3>3. data[pte[u][b].page] = view[u][b]
      BY <3>1 DEF IInv, OwnWrites, Mapped
    <3> QED
      BY <3>1, <3>2, <3>3
  <2> QED
    BY <2>1, <2>2
<1> QED
  BY <1>1, <1>2

(* No new entry.                                                           *)
LEMMA EntriesGone ==
  ASSUME IInv, \A u \in Tasks, b \in Addrs : pte'[u][b] # NoPage => pte'[u][b] = pte[u][b],
         data' = data, view' = view
  PROVE  Private' /\ OwnWrites'
<1>1. Private'
  BY DEF IInv, Private
<1>2. OwnWrites'
  BY DEF IInv, OwnWrites, Mapped
<1> QED
  BY <1>1, <1>2

(* The other tasks are as they were.                                       *)
LEMMA PlaceStays ==
  ASSUME IInv, NEW u \in Tasks, pc'[u] = pc[u], loading'[u] = loading[u], strings'[u] = strings[u],
         task'[u] = task[u],
         dir'[u] = dir[u], u \in alive' <=> u \in alive, pte'[u] = pte[u]
  PROVE  PlaceOK(u)'
BY DEF IInv, PlaceOK

(* un_wp_page(), a copy.                                                   *)
LEMMA CopyOK ==
  ASSUME IInv, NEW t \in Tasks, NEW a \in Addrs, Runs(t), pte[t][a] # NoPage,
         NEW n \in Pages, mem_map[n] = 0,
         mem_map' = [p \in Pages |-> IF p = n THEN 1
                                     ELSE IF p = pte[t][a].page THEN mem_map[p] - 1
                                     ELSE mem_map[p]],
         pte' = [pte EXCEPT ![t][a] = [page |-> n, w |-> TRUE, d |-> FALSE]],
         data' = [data EXCEPT ![n] = data[pte[t][a].page]],
         UNCHANGED <<dir, task, alive, exe, pc, loading, strings, lost, view>>
  PROVE  IInv'
<1>0. Types /\ Acc(mem_map, At, Ow, lost)
  BY DEF IInv
<1>1. PICK e \in PTE : e.page = n /\ e = [page |-> n, w |-> TRUE, d |-> FALSE]
  BY DEF PTE
<1>2. e # NoPage /\ pte[t][a] \in PTE /\ pte[t][a].page \in Pages \cup {LOW}
  BY <1>0, EntryIs, NoPageAssumption
<1>3. \A u \in Tasks, b \in Addrs : pte'[u][b] = IF u = t /\ b = a THEN e ELSE pte[u][b]
  BY <1>0, <1>1 DEF Types
<1>4. \A u \in Tasks, b \in Addrs : At[u][b] # n
  BY <1>0, FreeMeans
<1> DEFINE m1 == [p \in Pages |-> IF p = At[t][a] THEN mem_map[p] - 1 ELSE mem_map[p]]
           at1 == [u \in Tasks |-> [b \in Addrs |-> IF u = t /\ b = a THEN NoPage ELSE At[u][b]]]
<1>5. Acc(m1, at1, Ow, lost)
  BY <1>0, Unmap
<1>6. At[t][a] = pte[t][a].page /\ At[t][a] # n
  BY <1>4, AtIs
<1>7. Acc(mem_map', At', Ow, lost)
  <2>1. m1[n] = 0 /\ at1[t][a] = NoPage
    BY <1>6
  <2>2. \A q \in Pages : mem_map'[q] = IF q = n THEN 1 ELSE m1[q]
    BY <1>6
  <2>3. \A u \in Tasks, b \in Addrs : At'[u][b] = IF u = t /\ b = a THEN n ELSE at1[u][b]
    BY <1>1, <1>2, <1>3, AtIs
  <2> HIDE DEF m1, at1
  <2> QED
    BY ONLY <1>5, <2>1, <2>2, <2>3, t \in Tasks, a \in Addrs, n \in Pages, MapNew
<1>8. Acc(mem_map', At', Ow', lost')
  <2>1. \A u \in Tasks, l \in Keys : Ow'[u][l] = Ow[u][l]
    BY OwIs, KeysAre
  <2> QED
    BY <1>7, <2>1, AccSame
<1>9. Types'
  <2>1. pte' \in [Tasks -> [Addrs -> PTE \cup {NoPage}]]
    BY <1>0, <1>1 DEF Types
  <2>2. data' \in [Pages \cup {LOW} -> Contents]
    BY <1>0, <1>2 DEF Types
  <2>3. mem_map' \in [Pages -> Nat]
    BY <1>8 DEF Acc
  <2> QED
    BY <1>0, <2>1, <2>2, <2>3 DEF Types
<1>10. \A u \in Tasks : PlaceOK(u)'
  <2> TAKE u \in Tasks
  <2>1. PlaceOK(u)
    BY DEF IInv
  <2>2. \A b \in Addrs : pte'[u][b] = NoPage <=> pte[u][b] = NoPage
    BY ONLY <1>2, <1>3, pte[t][a] # NoPage
  <2>3. u \notin alive => pte'[u] = pte[u]
    <3>1. t \in alive
      BY DEF Runs
    <3> QED
      BY <1>0, <3>1 DEF Types
  <2>4. loading[u] # NoPage => loading[u][2] \in Addrs
    BY <1>0 DEF Types
  <2> QED
    BY <2>1, <2>2, <2>3, <2>4 DEF PlaceOK
<1>11. Private' /\ OwnWrites'
  <2>1. \A u \in Tasks, b \in Addrs : ~(u = t /\ b = a) /\ pte'[u][b] # NoPage =>
           pte'[u][b] = pte[u][b] /\ pte[u][b].page # n
    BY <1>3, <1>4, AtIs
  <2>2. \A q \in Pages \cup {LOW} : data'[q] = IF q = n THEN data[pte[t][a].page] ELSE data[q]
    BY <1>0 DEF Types
  <2>3. view'[t][a] # IMAGE => data'[n] = view'[t][a]
    BY <2>2 DEF IInv, OwnWrites, Mapped
  <2>4. pte'[t][a] = e
    BY <1>3
  <2> QED
    BY ONLY IInv, t \in Tasks, a \in Addrs, n \in Pages, e \in PTE, <1>1, <2>1, <2>2, <2>3, <2>4,
            view' = view, EntryNew
<1> QED
  BY <1>8, <1>9, <1>10, <1>11 DEF IInv

(* do_exit() of t: its space is freed, then nothing is left but the task   *)
(* and, lost, a page of strings.                                           *)
LEMMA ExitOK ==
  ASSUME IInv, NEW t \in Tasks, NEW map, NEW ow, Acc(map, At, ow, lost),
         \A u \in Tasks, l \in Keys : ow[u][l] = IF u = t /\ l = 0 THEN NoPage ELSE Ow[u][l],
         ExitFrom(t, map)
  PROVE  IInv'
<1>0. Types
  BY DEF IInv
<1>1. /\ \A u \in Tasks, b \in Addrs : pte'[u][b] = IF u = t THEN NoPage ELSE pte[u][b]
      /\ \A u \in Tasks, d \in Dirs : dir'[u][d] = IF u = t THEN NoPage ELSE dir[u][d]
      /\ \A u \in Tasks : /\ loading'[u] = IF u = t THEN NoPage ELSE loading[u]
                          /\ strings'[u] = IF u = t THEN NoPage ELSE strings[u]
      /\ lost' = lost \cup ({strings[t]} \ {NoPage})
      /\ \A u \in Tasks : u # t => pc'[u] = pc[u] /\ dir'[u] = dir[u] /\ pte'[u] = pte[u]
      /\ pc'[t] = "run" /\ dir'[t] = NoDirs /\ pte'[t] = NoPTEs
      /\ alive' = alive \ {t} /\ task' = task /\ data' = data /\ view' = view
      /\ mem_map' = [p \in Pages |-> map[p] - Uses(t, p)]
  BY <1>0 DEF Types, ExitFrom, NoDirs, NoPTEs
<1>2. Acc(mem_map', At', Ow', lost')
  <2>1. ASSUME NEW q \in Pages
        PROVE  mem_map'[q] = map[q] - (Cardinality({a \in Addrs : At[t][a] = q})
                                       + Cardinality({d \in Dirs : ow[t][d] = q}))
    <3>1. q # NoPage
      BY NoPageAssumption
    <3>2. {a \in Addrs : Mapped(t, a) /\ pte[t][a].page = q} = {a \in Addrs : At[t][a] = q}
      BY <3>1, AtIs DEF Mapped
    <3>3. {d \in Dirs : dir[t][d] = q} = {d \in Dirs : ow[t][d] = q}
      BY OwIs, KeysAre
    <3> QED
      BY <1>1, <3>2, <3>3 DEF Uses
  <2>2. \A u \in Tasks, b \in Addrs : At'[u][b] = IF u = t THEN NoPage ELSE At[u][b]
    BY <1>1, AtIs
  <2>3. PICK ow2 : ow2 = [u \in Tasks |-> [l \in Keys |-> IF u = t /\ l = -2 THEN NoPage ELSE ow[u][l]]]
    OBVIOUS
  <2>4. \A u \in Tasks, l \in Keys : ow2[u][l] = IF u = t /\ l = -2 THEN NoPage ELSE ow[u][l]
    BY <2>3
  <2>5. ow[t][-2] = strings[t] /\ -2 \in Keys
    BY OwIs, KeysAre
  <2>6. Acc(map, At, ow2, lost')
    <3>1. CASE strings[t] = NoPage
      <4>1. lost' = lost
        BY <1>1, <3>1
      <4>2. \A u \in Tasks, l \in Keys : ow2[u][l] = ow[u][l]
        BY <2>4, <2>5, <3>1
      <4>3. Acc(map, At, ow2, lost)
        BY ONLY <4>2, Acc(map, At, ow, lost), AccSame
      <4> QED
        BY <4>1, <4>3
    <3>2. CASE strings[t] # NoPage
      <4>1. PICK p \in Pages : p = strings[t]
        BY <1>0, <3>2 DEF Types
      <4>2. lost' = lost \cup {p}
        BY <1>1, <3>2, <4>1
      <4>3. ow[t][-2] = p
        BY <2>5, <4>1
      <4>4. Acc(map, At, ow2, lost \cup {p})
        BY ONLY <2>4, <2>5, <4>3, p \in Pages, t \in Tasks, Acc(map, At, ow, lost), LoseOwn
      <4> QED
        BY <4>2, <4>4
    <3> QED
      BY <3>1, <3>2
  <2>7. {d \in Dirs : ow2[t][d] = NoPage} = {d \in Dirs : ow[t][d] = NoPage}
        /\ \A q \in Pages : {d \in Dirs : ow2[t][d] = q} = {d \in Dirs : ow[t][d] = q}
    BY <2>4, KeysAre
  <2>8. \A q \in Pages : mem_map'[q] = map[q] - (Cardinality({a \in Addrs : At[t][a] = q})
                                                 + Cardinality({d \in Dirs : ow2[t][d] = q}))
    BY <2>1, <2>7
  <2>9. \A u \in Tasks, l \in Keys : Ow'[u][l] = IF u = t /\ l \in Dirs THEN NoPage ELSE ow2[u][l]
    BY <1>1, <2>4, OwIs, KeysAre
  <2>10. Cleared(t, map, At, ow2, mem_map', At', Ow')
    BY ONLY <2>2, <2>8, <2>9 DEF Cleared
  <2> QED
    BY ONLY <2>6, <2>10, t \in Tasks, Clear
<1>3. Types'
  <2>1. mem_map' \in [Pages -> Nat]
    BY <1>1, <1>2 DEF Acc
  <2>2. dir' \in [Tasks -> [Dirs -> Pages \cup {NoPage}]]
    BY <1>0 DEF Types, ExitFrom, NoDirs
  <2>3. pte' \in [Tasks -> [Addrs -> PTE \cup {NoPage}]]
    BY <1>0 DEF Types, ExitFrom, NoPTEs
  <2>4. alive' \in SUBSET Tasks /\ task' \in [Tasks -> Pages \cup {NoPage}]
    BY <1>0, <1>1 DEF Types
  <2>5. /\ exe' \in [Tasks -> Exes \cup {NoExe}]
        /\ pc' \in [Tasks -> {"run", "no_page", "copy_strings", "closing"}]
        /\ loading' \in [Tasks -> (Pages \X Addrs) \cup {NoPage}]
        /\ strings' \in [Tasks -> Pages \cup {NoPage}] /\ lost' \in SUBSET Pages
    BY <1>0 DEF Types, ExitFrom
  <2> QED
    BY <1>0, <1>1, <2>1, <2>2, <2>3, <2>4, <2>5 DEF Types
<1>4. ASSUME NEW u \in Tasks PROVE PlaceOK(u)'
  <2>1. CASE u = t
    BY <2>1, <1>1 DEF PlaceOK, NoPTEs
  <2>2. CASE u # t
    BY <2>2, <1>1, PlaceStays
  <2> QED
    BY <2>1, <2>2
<1>5. Private' /\ OwnWrites'
  BY <1>1, EntriesGone
<1> QED
  BY <1>2, <1>3, <1>4, <1>5 DEF IInv

LEMMA OomOK ==
  ASSUME IInv, NEW t \in Tasks, loading[t] = NoPage, Oom(t)
  PROVE  IInv'
<1>1. Acc(mem_map, At, Ow, lost)
  BY DEF IInv
<1>2. \A u \in Tasks, l \in Keys : Ow[u][l] = IF u = t /\ l = 0 THEN NoPage ELSE Ow[u][l]
  BY OwIs
<1> QED
  BY <1>1, <1>2, ExitOK DEF Oom

LEMMA UnWpPageOK ==
  ASSUME IInv, NEW t \in Tasks, NEW a \in Addrs, UnWpPage(t, a)
  PROVE  IInv'
<1>1. Runs(t) /\ pte[t][a] # NoPage /\ ~pte[t][a].w
  BY DEF UnWpPage, Mapped
<1>2. CASE /\ pte[t][a].page # LOW /\ mem_map[pte[t][a].page] = 1
           /\ pte' = [pte EXCEPT ![t][a].w = TRUE]
           /\ UNCHANGED <<mem_map, dir, task, alive, exe, pc, loading, strings, lost, data, view>>
  BY <1>1, <1>2, UnprotectOK
<1>3. CASE /\ Free # {}
           /\ mem_map' = [p \in Pages |->
                            IF p = get_free_page(1) THEN 1
                            ELSE IF p = pte[t][a].page THEN mem_map[p] - 1
                            ELSE mem_map[p]]
           /\ pte' = [pte EXCEPT ![t][a] =
                        [page |-> get_free_page(1), w |-> TRUE, d |-> FALSE]]
           /\ data' = [data EXCEPT ![get_free_page(1)] = data[pte[t][a].page]]
           /\ UNCHANGED <<dir, task, alive, exe, pc, loading, strings, lost, view>>
  <2>1. get_free_page(1) \in Pages /\ mem_map[get_free_page(1)] = 0
    BY <1>3, SomeFree, GetFree
  <2> QED
    BY <1>1, <1>3, <2>1, CopyOK
<1>4. CASE Oom(t)
  <2>1. loading[t] = NoPage
    BY <1>1 DEF IInv, PlaceOK, Runs
  <2> QED
    BY <1>4, <2>1, OomOK
<1> QED
  BY <1>2, <1>3, <1>4 DEF UnWpPage

(* put_page(): a page table may be needed.                                 *)
TableAdded(t, d, n, m, ow) ==
  /\ dir[t][d] = NoPage => n \in Pages /\ m[n] = 0
  /\ \A q \in Pages : mem_map'[q] = IF dir[t][d] = NoPage /\ q = n THEN 1 ELSE m[q]
  /\ \A u \in Tasks, e \in Dirs :
       dir'[u][e] = IF dir[t][d] = NoPage /\ u = t /\ e = d THEN n ELSE dir[u][e]
  /\ \A u \in Tasks : ow[u][-1] = Ow'[u][-1] /\ ow[u][0] = Ow'[u][0] /\ ow[u][-2] = Ow'[u][-2]
  /\ \A u \in Tasks, e \in Dirs : ow[u][e] = dir[u][e]

LEMMA TableAcc ==
  ASSUME Types, NEW t \in Tasks, NEW d \in Dirs, NEW n, NEW m, NEW ow, Acc(m, At', ow, lost),
         TableAdded(t, d, n, m, ow), lost' = lost
  PROVE  Acc(mem_map', At', Ow', lost')
<1> USE DEF TableAdded
<1>1. \A u \in Tasks, l \in Keys :
        Ow'[u][l] = IF dir[t][d] = NoPage /\ u = t /\ l = d THEN n ELSE ow[u][l]
  BY OwIs, KeysAre
<1>2. CASE dir[t][d] # NoPage
  BY <1>1, <1>2, AccSame
<1>3. CASE dir[t][d] = NoPage
  <2>1. ow[t][d] = NoPage /\ d \in Keys /\ n \in Pages /\ m[n] = 0
    BY <1>3, KeysAre
  <2>2. \A q \in Pages : mem_map'[q] = IF q = n THEN 1 ELSE m[q]
    BY <1>3
  <2>3. \A u \in Tasks, l \in Keys : Ow'[u][l] = IF u = t /\ l = d THEN n ELSE ow[u][l]
    BY <1>1, <1>3
  <2>4. ASSUME NEW m2, NEW at, NEW ow2, NEW ls, m2 = mem_map', at = At', ow2 = Ow', ls = lost
        PROVE  Acc(m2, at, ow2, ls)
    <3>1. Acc(m, at, ow, ls)
      BY ONLY <2>4, Acc(m, At', ow, lost)
    <3>2. \A q \in Pages : m2[q] = IF q = n THEN 1 ELSE m[q]
      BY ONLY <2>2, <2>4
    <3>3. \A u \in Tasks, l \in Keys : ow2[u][l] = IF u = t /\ l = d THEN n ELSE ow[u][l]
      BY ONLY <2>3, <2>4
    <3> QED
      BY ONLY <2>1, <3>1, <3>2, <3>3, t \in Tasks, TakeOwn
  <2>5. Acc(mem_map', At', Ow', lost)
    BY ONLY <2>4
  <2> QED
    BY <2>5
<1> QED
  BY <1>2, <1>3

LEMMA PutPlaces ==
  ASSUME IInv, NEW t \in alive, NEW a \in Addrs, NEW n,
         dir[t][DirOf[a]] = NoPage => n \in Pages,
         \A u \in Tasks, e \in Dirs :
           dir'[u][e] = IF dir[t][DirOf[a]] = NoPage /\ u = t /\ e = DirOf[a] THEN n ELSE dir[u][e],
         \A u \in Tasks : u # t => dir'[u] = dir[u],
         \A u \in Tasks, b \in Addrs :
           ~(u = t /\ b = a) => (pte'[u][b] = NoPage <=> pte[u][b] = NoPage),
         \A u \in Tasks : u \notin alive => pte'[u] = pte[u],
         alive' = alive, task' = task, strings' = strings, loading'[t] = NoPage,
         pc'[t] = IF strings[t] = NoPage THEN "run" ELSE "copy_strings",
         \A u \in Tasks : u # t => pc'[u] = pc[u] /\ loading'[u] = loading[u]
  PROVE  \A u \in Tasks : PlaceOK(u)'
<1>0. Types /\ t \in Tasks /\ \A b \in Addrs : DirOf[b] \in Dirs
  BY AddrsAssumption DEF IInv, Types
<1>1. n \in Pages => n # NoPage
  BY NoPageAssumption
<1>2. ASSUME NEW u \in Tasks, u # t PROVE PlaceOK(u)'
  <2>1. PlaceOK(u)
    BY DEF IInv
  <2>2. loading[u] # NoPage => loading[u][2] \in Addrs
    BY <1>0 DEF Types
  <2>3. \A b \in Addrs : pte'[u][b] = NoPage <=> pte[u][b] = NoPage
    BY <1>2
  <2>4. dir'[u] = dir[u] /\ pc'[u] = pc[u] /\ loading'[u] = loading[u]
    BY <1>2
  <2> QED
    BY <2>1, <2>2, <2>3, <2>4 DEF PlaceOK
<1>3. PlaceOK(t)'
  <2>1. PlaceOK(t)
    BY <1>0 DEF IInv
  <2>6. /\ pc'[t] = "run" => strings'[t] = NoPage
        /\ pc'[t] = "copy_strings" => strings'[t] # NoPage
        /\ pc'[t] # "no_page"
    OBVIOUS
  <2>2. dir'[t][DirOf[a]] # NoPage
    BY <1>0, <1>1
  <2>3. \A e \in Dirs : dir[t][e] # NoPage => dir'[t][e] # NoPage
    BY <1>0
  <2>4. \A b \in Addrs : pte'[t][b] # NoPage => dir'[t][DirOf[b]] # NoPage
    <3> TAKE b \in Addrs
    <3>1. CASE b = a
      BY <2>2, <3>1
    <3>2. CASE b # a
      BY <2>1, <2>3, <3>2, <1>0 DEF PlaceOK
    <3> QED
      BY <3>1, <3>2
  <2>5. task'[t] # NoPage /\ \E e \in Dirs : dir'[t][e] # NoPage
    BY <2>1, <2>2, <1>0 DEF PlaceOK
  <2> QED
    BY <2>4, <2>5, <2>6 DEF PlaceOK
<1> QED
  BY <1>2, <1>3

LEMMA NoPageEmptyOK ==
  ASSUME IInv, NEW t \in Tasks, NEW a \in Addrs, NoPageEmpty(t, a)
  PROVE  IInv'
<1>0. /\ Types /\ Acc(mem_map, At, Ow, lost) /\ t \in alive /\ loading[t] = NoPage
      /\ pc[t] = IF strings[t] = NoPage THEN "run" ELSE "copy_strings"
      /\ pte[t][a] = NoPage /\ DirOf[a] \in Dirs
  BY AddrsAssumption DEF IInv, NoPageEmpty, Reads, Mapped, PlaceOK
<1>1. CASE Oom(t)
  BY <1>0, <1>1, OomOK
<1>2. CASE /\ Cardinality(Free) >= 1 + TableNeed(t, a)
           /\ PutPage(t, a, [page |-> get_free_page(1), w |-> TRUE, d |-> FALSE], 2)
           /\ mem_map' = TableTaken(t, a, [mem_map EXCEPT ![get_free_page(1)] = 1], 2)
           /\ data' = [data EXCEPT ![get_free_page(1)] = ZERO]
           /\ view' = [view EXCEPT ![t][a] = ZERO]
           /\ UNCHANGED <<task, alive, exe, pc, loading, strings, lost>>
  <2>0. Cardinality(Free) \in Nat
    BY FreePageProps DEF Free
  <2>1. PICK n \in Pages : n = get_free_page(1) /\ mem_map[n] = 0
    <3>1. Cardinality(Free) >= 1
      BY <1>2, <2>0 DEF TableNeed
    <3> QED
      BY <3>1, GetFree
  <2>2. PICK n2 : /\ n2 = get_free_page(2)
                  /\ dir[t][DirOf[a]] = NoPage => n2 \in Pages /\ mem_map[n2] = 0 /\ n2 # n
    <3>1. ASSUME dir[t][DirOf[a]] = NoPage
          PROVE  get_free_page(2) \in Pages /\ mem_map[get_free_page(2)] = 0 /\ get_free_page(2) # n
      <4>1. Cardinality(Free) >= 2
        BY <1>2, <2>0, <3>1 DEF TableNeed
      <4>2. 1 \in 1 .. Cardinality(FreeIn(mem_map)) /\ 2 \in 1 .. Cardinality(FreeIn(mem_map))
        BY <4>1, <2>0 DEF Free
      <4>3. get_free_page(2) # n
        BY <4>2, <2>1, FreePageProps DEF get_free_page
      <4> QED
        BY <4>1, <4>3, GetFree
    <3> QED
      BY <3>1
  <2>3. PICK e \in PTE : e.page = n /\ e = [page |-> n, w |-> TRUE, d |-> FALSE]
    BY DEF PTE
  <2>4. e # NoPage
    BY NoPageAssumption
  <2>5. pte' = [pte EXCEPT ![t][a] = e]
    BY <1>2, <2>1, <2>3 DEF PutPage
  <2>6. dir' = IF dir[t][DirOf[a]] # NoPage THEN dir ELSE [dir EXCEPT ![t][DirOf[a]] = n2]
    BY <1>2, <2>2 DEF PutPage
  <2>7. mem_map' = IF dir[t][DirOf[a]] # NoPage THEN [mem_map EXCEPT ![n] = 1]
                   ELSE [[mem_map EXCEPT ![n] = 1] EXCEPT ![n2] = 1]
    BY <1>2, <2>1, <2>2 DEF TableTaken
  <2>8. \A u \in Tasks, b \in Addrs : pte'[u][b] = IF u = t /\ b = a THEN e ELSE pte[u][b]
    BY <1>0, <2>5 DEF Types
  <2>9. \A u \in Tasks, x \in Dirs :
           dir'[u][x] = IF dir[t][DirOf[a]] = NoPage /\ u = t /\ x = DirOf[a] THEN n2 ELSE dir[u][x]
    BY ONLY <1>0, <2>6, t \in Tasks DEF Types
  <2>10. \A u \in Tasks, b \in Addrs : At[u][b] # n
    BY <1>0, <2>1, FreeMeans
  <2>11. Acc(mem_map', At', Ow', lost')
    <3> DEFINE m1 == [mem_map EXCEPT ![n] = 1]
    <3>1. \A q \in Pages : m1[q] = IF q = n THEN 1 ELSE mem_map[q]
      BY <1>0 DEF Types
    <3>2. \A q \in Pages : mem_map'[q] = IF dir[t][DirOf[a]] = NoPage /\ q = n2 THEN 1 ELSE m1[q]
      BY <1>0, <2>2, <2>7 DEF Types
    <3>3. dir[t][DirOf[a]] = NoPage => n2 \in Pages /\ m1[n2] = 0
      BY <2>2, <3>1
    <3> HIDE DEF m1
    <3>4. At[t][a] = NoPage /\ \A u \in Tasks, b \in Addrs : At'[u][b] = IF u = t /\ b = a THEN n ELSE At[u][b]
      BY <1>0, <2>3, <2>4, <2>8, AtIs
    <3>5. Acc(m1, At', Ow, lost)
      BY ONLY <1>0, <2>1, <3>1, <3>4, n \in Pages, t \in Tasks, a \in Addrs, MapNew
    <3>6. \A u \in Tasks : /\ Ow[u][-1] = Ow'[u][-1] /\ Ow[u][0] = Ow'[u][0]
                          /\ Ow[u][-2] = Ow'[u][-2]
      BY <1>2, OwIs
    <3>7. \A u \in Tasks, x \in Dirs : Ow[u][x] = dir[u][x]
      BY OwIs
    <3>8. TableAdded(t, DirOf[a], n2, m1, Ow)
      BY ONLY <2>9, <3>2, <3>3, <3>6, <3>7 DEF TableAdded
    <3> QED
      BY <1>0, <1>2, <3>5, <3>8, TableAcc
  <2>12. Types'
    <3>1. pte' \in [Tasks -> [Addrs -> PTE \cup {NoPage}]]
      BY <1>0, <2>5 DEF Types
    <3>2. data' \in [Pages \cup {LOW} -> Contents] /\ view' \in [Tasks -> [Addrs -> Contents]]
      BY <1>0, <1>2 DEF Types, Contents
    <3>3. mem_map' \in [Pages -> Nat]
      BY <1>0, <2>1, <2>2, <2>7 DEF Types
    <3>4. dir' \in [Tasks -> [Dirs -> Pages \cup {NoPage}]]
      BY ONLY <1>0, <2>2, <2>6, t \in Tasks DEF Types
    <3> QED
      BY <1>0, <1>2, <3>1, <3>2, <3>3, <3>4 DEF Types
  <2>13. \A u \in Tasks : PlaceOK(u)'
    <3>1. \A u \in Tasks : u # t => dir'[u] = dir[u] /\ pte'[u] = pte[u]
      BY <1>0, <2>5, <2>6 DEF Types
    <3>2. \A u \in Tasks, b \in Addrs :
            ~(u = t /\ b = a) => (pte'[u][b] = NoPage <=> pte[u][b] = NoPage)
      BY <2>8
    <3>3. \A u \in Tasks : u \notin alive => pte'[u] = pte[u]
      BY <1>0, <3>1
    <3>4. alive' = alive /\ task' = task /\ pc' = pc /\ loading' = loading /\ strings' = strings
      BY <1>2
    <3> QED
      BY ONLY IInv, <1>0, <2>2, <2>9, <3>1, <3>2, <3>3, <3>4, a \in Addrs, PutPlaces
  <2>14. Private' /\ OwnWrites'
    <3>1. \A u \in Tasks, b \in Addrs : ~(u = t /\ b = a) /\ pte'[u][b] # NoPage =>
             pte'[u][b] = pte[u][b] /\ pte[u][b].page # n
      BY <2>8, <2>10, AtIs
    <3>2. \A q \in Pages \cup {LOW} : data'[q] = IF q = n THEN ZERO ELSE data[q]
      BY <1>0, <1>2, <2>1 DEF Types
    <3>3. \A u \in Tasks, b \in Addrs : view'[u][b] = IF u = t /\ b = a THEN ZERO ELSE view[u][b]
      BY <1>0, <1>2 DEF Types
    <3>4. pte'[t][a] = e
      BY <2>8
    <3> QED
      BY ONLY IInv, t \in Tasks, a \in Addrs, n \in Pages, e \in PTE, <2>3, <3>1, <3>2, <3>3, <3>4,
              EntryNew
  <2> QED
    BY <2>11, <2>12, <2>13, <2>14 DEF IInv
<1> QED
  BY <1>1, <1>2 DEF NoPageEmpty

LEMMA NoPageShareOK ==
  ASSUME IInv, NEW t \in Tasks, NEW a \in Addrs, NoPageShare(t, a)
  PROVE  IInv'
<1>0. /\ Types /\ Acc(mem_map, At, Ow, lost) /\ t \in alive /\ loading[t] = NoPage
      /\ pc[t] = IF strings[t] = NoPage THEN "run" ELSE "copy_strings"
      /\ pte[t][a] = NoPage /\ DirOf[a] \in Dirs
  BY AddrsAssumption DEF IInv, NoPageShare, Reads, Mapped, PlaceOK
<1> DEFINE u == CHOOSE x \in Sharers(t, a) : \A y \in Sharers(t, a) : y <= x
           entry == [pte[u][a] EXCEPT !.w = FALSE]
<1>1. u \in Sharers(t, a)
  <2>1. Sharers(t, a) \in SUBSET (0 .. NR_TASKS) /\ Sharers(t, a) # {} /\ NR_TASKS \in Nat
    BY SizesAssumption DEF Sharers, Tasks, NoPageShare
  <2>2. \E x \in Sharers(t, a) : \A y \in Sharers(t, a) : y <= x
    BY <2>1, HasGreatest
  <2> QED
    BY <2>2
<1>2. CASE Oom(t)
  BY <1>0, <1>2, OomOK
<1>3. CASE /\ Cardinality(Free) >= TableNeed(t, a)
           /\ pte' = [pte EXCEPT ![u][a] = entry, ![t][a] = entry]
           /\ dir' = IF dir[t][DirOf[a]] # NoPage THEN dir
                     ELSE [dir EXCEPT ![t][DirOf[a]] = get_free_page(1)]
           /\ mem_map' = TableTaken(t, a, [mem_map EXCEPT ![entry.page] = @ + 1], 1)
           /\ view' = [view EXCEPT ![t][a] = IMAGE]
           /\ UNCHANGED <<task, alive, exe, pc, loading, strings, lost, data>>
  <2>1. PICK s \in Tasks : s = u /\ s # t /\ pte[s][a] # NoPage /\ pte[s][a].page # LOW
    BY <1>1 DEF Sharers, CanShare, Mapped
  <2>2. pte[s][a] \in PTE
    BY <1>0, <2>1, EntryIs
  <2>3. PICK p \in Pages : p = pte[s][a].page
    BY <1>0, <2>1, EntryIs
  <2>4. PICK e \in PTE : e = entry /\ e.page = p /\ e.w = FALSE
    <3>1. entry = [pte[s][a] EXCEPT !.w = FALSE]
      BY <2>1
    <3>2. [pte[s][a] EXCEPT !.w = FALSE] \in PTE
      BY ONLY <2>2 DEF PTE
    <3>3. /\ [pte[s][a] EXCEPT !.w = FALSE].page = pte[s][a].page
          /\ [pte[s][a] EXCEPT !.w = FALSE].w = FALSE
      BY ONLY <2>2 DEF PTE
    <3> HIDE DEF entry
    <3> QED
      BY <3>1, <3>2, <3>3, <2>3
  <2>5. e # NoPage
    BY NoPageAssumption
  <2>6. /\ pte' = [pte EXCEPT ![s][a] = e, ![t][a] = e]
        /\ mem_map' = TableTaken(t, a, [mem_map EXCEPT ![p] = @ + 1], 1)
    BY <1>3, <2>1, <2>4
  <2> HIDE DEF u, entry
  <2>7. PICK n : /\ n = get_free_page(1)
                 /\ dir[t][DirOf[a]] = NoPage => n \in Pages /\ mem_map[n] = 0 /\ n # p
    <3>1. ASSUME dir[t][DirOf[a]] = NoPage
          PROVE  get_free_page(1) \in Pages /\ mem_map[get_free_page(1)] = 0 /\ get_free_page(1) # p
      <4>1. Cardinality(Free) >= 1
        BY <1>3, <3>1 DEF TableNeed
      <4>2. get_free_page(1) \in Pages /\ mem_map[get_free_page(1)] = 0
        BY <4>1, GetFree
      <4>3. At[s][a] = p
        BY <2>1, <2>3, AtIs
      <4> QED
        BY <1>0, <4>2, <4>3, FreeMeans
    <3> QED
      BY <3>1
  <2>8. \A v \in Tasks, b \in Addrs : pte'[v][b] = IF v \in {s, t} /\ b = a THEN e ELSE pte[v][b]
    BY <1>0, <2>1, <2>6 DEF Types
  <2>9. \A v \in Tasks, x \in Dirs :
           dir'[v][x] = IF dir[t][DirOf[a]] = NoPage /\ v = t /\ x = DirOf[a] THEN n ELSE dir[v][x]
    BY <1>0, <1>3, <2>7 DEF Types
  <2>10. Acc(mem_map', At', Ow', lost')
    <3> DEFINE m1 == [mem_map EXCEPT ![p] = @ + 1]
    <3>1. \A q \in Pages : m1[q] = IF q = p THEN mem_map[q] + 1 ELSE mem_map[q]
      BY <1>0 DEF Types
    <3>2. \A q \in Pages : mem_map'[q] = IF dir[t][DirOf[a]] = NoPage /\ q = n THEN 1 ELSE m1[q]
      <4>1. mem_map' = IF dir[t][DirOf[a]] # NoPage THEN m1 ELSE [m1 EXCEPT ![n] = 1]
        BY <2>6, <2>7 DEF TableTaken
      <4>2. m1 \in [Pages -> Nat]
        BY <1>0 DEF Types
      <4> HIDE DEF m1
      <4> QED
        BY <4>1, <4>2, <2>7
    <3>3. dir[t][DirOf[a]] = NoPage => n \in Pages /\ m1[n] = 0
      BY <2>7, <3>1
    <3> HIDE DEF m1
    <3>4. /\ At[t][a] = NoPage /\ At[s][a] = p
          /\ \A v \in Tasks, b \in Addrs : At'[v][b] = IF v = t /\ b = a THEN p ELSE At[v][b]
      BY <1>0, <2>1, <2>3, <2>4, <2>5, <2>8, AtIs
    <3>5. Acc(m1, At', Ow, lost)
      BY ONLY <1>0, <3>1, <3>4, p \in Pages, t \in Tasks, s \in Tasks, a \in Addrs, MapShared
    <3>6. \A v \in Tasks : /\ Ow[v][-1] = Ow'[v][-1] /\ Ow[v][0] = Ow'[v][0]
                          /\ Ow[v][-2] = Ow'[v][-2]
      BY <1>3, OwIs
    <3>7. \A v \in Tasks, x \in Dirs : Ow[v][x] = dir[v][x]
      BY OwIs
    <3>8. TableAdded(t, DirOf[a], n, m1, Ow)
      BY ONLY <2>9, <3>2, <3>3, <3>6, <3>7 DEF TableAdded
    <3> QED
      BY <1>0, <1>3, <3>5, <3>8, TableAcc
  <2>11. Types'
    <3>1. pte' \in [Tasks -> [Addrs -> PTE \cup {NoPage}]]
      BY <1>0, <2>6 DEF Types
    <3>2. view' \in [Tasks -> [Addrs -> Contents]]
      BY <1>0, <1>3 DEF Types, Contents
    <3>3. mem_map' \in [Pages -> Nat]
      <4>1. [mem_map EXCEPT ![p] = @ + 1] \in [Pages -> Nat]
        BY <1>0 DEF Types
      <4> QED
        BY <4>1, <2>6, <2>7 DEF TableTaken
    <3>4. dir' \in [Tasks -> [Dirs -> Pages \cup {NoPage}]]
      BY <1>0, <1>3, <2>7 DEF Types
    <3> QED
      BY <1>0, <1>3, <3>1, <3>2, <3>3, <3>4 DEF Types
  <2>12. \A v \in Tasks : PlaceOK(v)'
    <3>1. \A v \in Tasks : v # t => dir'[v] = dir[v]
      BY <1>0, <1>3 DEF Types
    <3>2. \A v \in Tasks, b \in Addrs :
            ~(v = t /\ b = a) => (pte'[v][b] = NoPage <=> pte[v][b] = NoPage)
      BY <2>1, <2>5, <2>8
    <3>3. ASSUME NEW v \in Tasks, v \notin alive PROVE pte'[v] = pte[v]
      <4>1. s \in alive
        BY <2>1 DEF IInv, PlaceOK, NoPTEs
      <4> QED
        BY <1>0, <2>6, <3>3, <4>1 DEF Types
    <3>4. alive' = alive /\ task' = task /\ pc' = pc /\ loading' = loading /\ strings' = strings
      BY <1>3
    <3> QED
      BY ONLY IInv, <1>0, <2>7, <2>9, <3>1, <3>2, <3>3, <3>4, a \in Addrs, PutPlaces
  <2>13. Private'
    <3> SUFFICES ASSUME NEW v \in Tasks, NEW b \in Addrs, pte'[v][b] # NoPage, pte'[v][b].w,
                        NEW w \in Tasks, NEW c \in Addrs, pte'[w][c] # NoPage,
                        pte'[w][c].page = pte'[v][b].page
                 PROVE  v = w
      <4>1. \A v \in Tasks, b \in Addrs : pte'[v][b] # NoPage /\ pte'[v][b].w => pte'[v][b].page # LOW
        BY <2>4, <2>8 DEF IInv, Private
      <4> QED
        BY <4>1 DEF Private
    <3>1. ~(v \in {s, t} /\ b = a) /\ pte'[v][b] = pte[v][b]
      BY <2>4, <2>8
    <3>2. \A x \in Tasks, y \in Addrs :
            pte[x][y] # NoPage /\ pte[x][y].page = pte[v][b].page => x = v /\ y = b
      BY <3>1, OnlyHere
    <3>3. pte[v][b].page # p
      BY <2>1, <2>3, <3>1, <3>2
    <3> QED
      BY <2>4, <2>8, <3>1, <3>2, <3>3
  <2>14. OwnWrites'
    <3>1. \A v \in Tasks, b \in Addrs : view'[v][b] = IF v = t /\ b = a THEN IMAGE ELSE view[v][b]
      BY <1>0, <1>3 DEF Types
    <3> SUFFICES ASSUME NEW v \in Tasks, NEW b \in Addrs, pte'[v][b] # NoPage, view'[v][b] # IMAGE
                 PROVE  data'[pte'[v][b].page] = view'[v][b]
      BY DEF OwnWrites, Mapped
    <3>2. ~(v = t /\ b = a) /\ view'[v][b] = view[v][b] /\ data' = data
      BY <1>3, <3>1
    <3>3. pte[v][b] # NoPage /\ pte'[v][b].page = pte[v][b].page
      BY <2>1, <2>3, <2>4, <2>8, <3>2
    <3>4. data[pte[v][b].page] = view[v][b]
      BY <3>2, <3>3 DEF IInv, OwnWrites, Mapped
    <3> QED
      BY <3>2, <3>3, <3>4
  <2> QED
    BY <2>10, <2>11, <2>12, <2>13, <2>14 DEF IInv
<1> QED
  BY <1>2, <1>3 DEF NoPageShare

(* The account of a page under its owner at key 0 opened.                  *)
LEMMA LoadingOpens ==
  ASSUME IInv, NEW t \in Tasks, NEW a \in Addrs, Reads(t), Free # {},
         mem_map' = [mem_map EXCEPT ![get_free_page(1)] = 1],
         loading' = [loading EXCEPT ![t] = <<get_free_page(1), a>>],
         pc' = [pc EXCEPT ![t] = "no_page"], pte[t][a] = NoPage,
         UNCHANGED <<dir, pte, task, alive, exe, strings, lost, data, view>>
  PROVE  IInv'
<1>0. /\ Types /\ Acc(mem_map, At, Ow, lost) /\ t \in alive /\ loading[t] = NoPage
  BY DEF IInv, Reads, PlaceOK
<1>1. PICK n \in Pages : n = get_free_page(1) /\ mem_map[n] = 0
  BY SomeFree, GetFree
<1>2. PICK l \in Pages \X Addrs : l = <<n, a>> /\ l[1] = n /\ l[2] = a
  <2>1. <<n, a>> \in Pages \X Addrs
    BY ONLY n \in Pages, a \in Addrs
  <2>2. <<n, a>>[1] = n /\ <<n, a>>[2] = a
    BY ONLY TRUE
  <2> QED
    BY <2>1, <2>2
<1>3. l # NoPage
  BY NoPageAssumption
<1>4. /\ mem_map' = [mem_map EXCEPT ![n] = 1] /\ loading' = [loading EXCEPT ![t] = l]
  BY <1>1, <1>2
<1>5. Types'
  <2>1. mem_map' \in [Pages -> Nat]
    BY <1>0, <1>4 DEF Types
  <2>2. loading' \in [Tasks -> (Pages \X Addrs) \cup {NoPage}]
    BY ONLY <1>0, <1>4, l \in Pages \X Addrs, t \in Tasks DEF Types
  <2>3. pc' \in [Tasks -> {"run", "no_page", "copy_strings", "closing"}]
    BY <1>0 DEF Types
  <2> QED
    BY <1>0, <2>1, <2>2, <2>3 DEF Types
<1>6. \A u \in Tasks : loading'[u] = IF u = t THEN l ELSE loading[u]
  BY ONLY <1>0, <1>4, t \in Tasks DEF Types
<1>7. Acc(mem_map', At', Ow', lost')
  <2>1. \A u \in Tasks, b \in Addrs : At'[u][b] = At[u][b]
    BY AtIs
  <2>2. Ow[t][0] = NoPage /\ 0 \in Keys
    BY <1>0, OwIs, KeysAre
  <2>3. \A u \in Tasks, k \in Keys : Ow'[u][k] = IF u = t /\ k = 0 THEN n ELSE Ow[u][k]
    BY ONLY <1>2, <1>3, <1>6, task' = task, dir' = dir, strings' = strings, OwIs, KeysAre
  <2>4. \A q \in Pages : mem_map'[q] = IF q = n THEN 1 ELSE mem_map[q]
    BY <1>0, <1>4 DEF Types
  <2>5. Acc(mem_map', At, Ow', lost)
    BY ONLY <1>0, <1>1, <2>2, <2>3, <2>4, t \in Tasks, n \in Pages, TakeOwn
  <2> QED
    BY <2>1, <2>5, AccSame
<1>8. ASSUME NEW u \in Tasks PROVE PlaceOK(u)'
  <2>1. PlaceOK(u) /\ pc'[u] = IF u = t THEN "no_page" ELSE pc[u]
    BY <1>0 DEF IInv, Types
  <2>2. CASE u = t
    <3>1. loading'[u] = l /\ l # NoPage /\ l[2] = a /\ pc'[u] = "no_page"
      BY <1>2, <1>3, <1>6, <2>1, <2>2
    <3> QED
      BY <1>0, <2>1, <2>2, <3>1 DEF PlaceOK
  <2>3. CASE u # t
    <3>1. loading'[u] = loading[u] /\ pc'[u] = pc[u]
      BY <1>6, <2>1, <2>3
    <3> QED
      BY <3>1, PlaceStays
  <2> QED
    BY <2>2, <2>3
<1>9. Private' /\ OwnWrites'
  BY EntriesGone
<1> QED
  BY <1>5, <1>7, <1>8, <1>9 DEF IInv

LEMMA NoPageReadOK ==
  ASSUME IInv, NEW t \in Tasks, NEW a \in Addrs, NoPageRead(t, a)
  PROVE  IInv'
<1>0. Reads(t) /\ pte[t][a] = NoPage /\ loading[t] = NoPage
  BY DEF IInv, NoPageRead, Mapped, Reads, PlaceOK
<1>1. CASE Free # {}
  <2>1. /\ mem_map' = [mem_map EXCEPT ![get_free_page(1)] = 1]
        /\ loading' = [loading EXCEPT ![t] = <<get_free_page(1), a>>]
        /\ pc' = [pc EXCEPT ![t] = "no_page"]
        /\ UNCHANGED <<dir, pte, task, alive, exe, strings, lost, data, view>>
    BY <1>1 DEF NoPageRead
  <2> QED
    BY <1>0, <1>1, <2>1, LoadingOpens
<1>2. CASE Free = {}
  BY <1>0, <1>2, OomOK DEF NoPageRead
<1> QED
  BY <1>1, <1>2

LEMMA ExecStringsOK ==
  ASSUME IInv, NEW t \in Tasks, ExecStrings(t)
  PROVE  IInv'
<1>0. /\ Types /\ Acc(mem_map, At, Ow, lost) /\ t \in alive
      /\ loading[t] = NoPage /\ strings[t] = NoPage /\ Free # {}
  BY DEF IInv, ExecStrings, Runs, PlaceOK
<1>1. PICK n \in Pages : n = get_free_page(1) /\ mem_map[n] = 0
  BY <1>0, SomeFree, GetFree
<1>2. /\ mem_map' = [mem_map EXCEPT ![n] = 1] /\ strings' = [strings EXCEPT ![t] = n]
      /\ pc' = [pc EXCEPT ![t] = "copy_strings"]
      /\ UNCHANGED <<dir, pte, task, alive, exe, loading, lost, data, view>>
  BY <1>1 DEF ExecStrings
<1>3. n # NoPage
  BY NoPageAssumption
<1>4. Types'
  <2>1. mem_map' \in [Pages -> Nat]
    BY <1>0, <1>2 DEF Types
  <2>2. strings' \in [Tasks -> Pages \cup {NoPage}]
    BY <1>0, <1>2 DEF Types
  <2>3. pc' \in [Tasks -> {"run", "no_page", "copy_strings", "closing"}]
    BY <1>0, <1>2 DEF Types
  <2> QED
    BY <1>0, <1>2, <2>1, <2>2, <2>3 DEF Types
<1>5. \A u \in Tasks : /\ strings'[u] = IF u = t THEN n ELSE strings[u]
                       /\ pc'[u] = IF u = t THEN "copy_strings" ELSE pc[u]
  BY <1>0, <1>2 DEF Types
<1>6. Acc(mem_map', At', Ow', lost')
  <2>1. \A u \in Tasks, b \in Addrs : At'[u][b] = At[u][b]
    BY <1>2, AtIs
  <2>2. Ow[t][-2] = NoPage /\ -2 \in Keys
    BY <1>0, OwIs, KeysAre
  <2>3. \A u \in Tasks, k \in Keys : Ow'[u][k] = IF u = t /\ k = -2 THEN n ELSE Ow[u][k]
    BY <1>2, <1>5, OwIs, KeysAre
  <2>4. \A q \in Pages : mem_map'[q] = IF q = n THEN 1 ELSE mem_map[q]
    BY <1>0, <1>2 DEF Types
  <2>5. Acc(mem_map', At, Ow', lost)
    BY ONLY <1>0, <1>1, <2>2, <2>3, <2>4, t \in Tasks, n \in Pages, TakeOwn
  <2>6. Acc(mem_map', At', Ow', lost)
    BY <2>1, <2>5, AccSame
  <2> QED
    BY <1>2, <2>6
<1>7. ASSUME NEW u \in Tasks PROVE PlaceOK(u)'
  <2>1. CASE u = t
    BY <1>0, <1>2, <1>3, <1>5, <2>1 DEF IInv, PlaceOK
  <2>2. CASE u # t
    BY <1>2, <1>5, <2>2, PlaceStays
  <2> QED
    BY <2>1, <2>2
<1>8. Private' /\ OwnWrites'
  BY <1>2, EntriesGone
<1> QED
  BY <1>4, <1>6, <1>7, <1>8 DEF IInv

(* The page a task owns at key h, given up.                                *)
Without(t, h) == [u \in Tasks |-> [k \in Keys |-> IF u = t /\ k = h THEN NoPage ELSE Ow[u][k]]]
Uncounted(p) == [mem_map EXCEPT ![p] = @ - 1]

LEMMA HeldCloses ==
  ASSUME IInv, NEW t \in Tasks, NEW h \in {0, -2}, NEW p \in Pages, Ow[t][h] = p
  PROVE  /\ mem_map[p] = 1
         /\ \A u \in Tasks, b \in Addrs : At[u][b] # p
         /\ \A u \in Tasks, d \in Dirs : dir[u][d] # p
         /\ \A q \in Pages : Uncounted(p)[q] = IF q = p THEN 0 ELSE mem_map[q]
         /\ Acc(Uncounted(p), At, Without(t, h), lost)
<1>0. Types /\ Acc(mem_map, At, Ow, lost)
  BY DEF IInv
<1>2. h \in Keys
  BY KeysAre
<1>3. IsOwned(Ow, lost, p)
  BY <1>2 DEF IsOwned
<1>4. mem_map[p] = 1 /\ On(At, p) = {}
  BY <1>0, <1>3 DEF Acc
<1>5. \A u \in Tasks, b \in Addrs : At[u][b] # p
  BY <1>4 DEF On
<1>6. ASSUME NEW u \in Tasks, NEW d \in Dirs PROVE dir[u][d] # p
  <2>1. Ow[u][d] = dir[u][d] /\ d \in Keys /\ d # h
    BY OwIs, KeysAre
  <2> QED
    BY <1>0, <1>2, <2>1 DEF Acc
<1>7. \A q \in Pages : Uncounted(p)[q] = IF q = p THEN 0 ELSE mem_map[q]
  BY <1>0, <1>4 DEF Uncounted, Types
<1>8. Acc(Uncounted(p), At, Without(t, h), lost)
  <2>1. \A q \in Pages : Uncounted(p)[q] = IF q = p THEN mem_map[q] - 1 ELSE mem_map[q]
    BY <1>0 DEF Uncounted, Types
  <2>2. \A u \in Tasks, k \in Keys : Without(t, h)[u][k] = IF u = t /\ k = h THEN NoPage ELSE Ow[u][k]
    BY DEF Without
  <2>3. ASSUME NEW m, NEW m2, NEW at, NEW ow, NEW ow2, NEW ls, NEW k \in Keys, k = h,
               m = mem_map, m2 = Uncounted(p), at = At, ow = Ow, ow2 = Without(t, h), ls = lost
        PROVE  Acc(m2, at, ow2, ls)
    <3>1. Acc(m, at, ow, ls) /\ ow[t][k] = p
      BY ONLY <1>0, <2>3, Ow[t][h] = p
    <3>2. \A q \in Pages : m2[q] = IF q = p THEN m[q] - 1 ELSE m[q]
      BY ONLY <2>1, <2>3
    <3>3. \A u \in Tasks, l \in Keys : ow2[u][l] = IF u = t /\ l = k THEN NoPage ELSE ow[u][l]
      BY ONLY <2>2, <2>3
    <3> QED
      BY ONLY <3>1, <3>2, <3>3, t \in Tasks, k \in Keys, p \in Pages, DropOwn
  <2> QED
    BY <1>2, <2>3
<1> QED
  BY <1>4, <1>5, <1>6, <1>7, <1>8

LEMMA NoPageDoneOK ==
  ASSUME IInv, NEW t \in Tasks, NoPageDone(t)
  PROVE  IInv'
<1>0. /\ Types /\ Acc(mem_map, At, Ow, lost) /\ t \in alive /\ loading[t] # NoPage /\ pc[t] = "no_page"
      /\ pte[t][loading[t][2]] = NoPage
  BY DEF IInv, NoPageDone, PlaceOK
<1>1. PICK p \in Pages, a \in Addrs : p = loading[t][1] /\ a = loading[t][2]
  BY <1>0 DEF Types
<1>6. Ow[t][0] = p
  BY <1>0, <1>1, OwIs
<1>2. /\ mem_map[p] = 1 /\ \A u \in Tasks, b \in Addrs : At[u][b] # p
      /\ \A q \in Pages : Uncounted(p)[q] = IF q = p THEN 0 ELSE mem_map[q]
      /\ Acc(Uncounted(p), At, Without(t, 0), lost)
  BY <1>6, HeldCloses
<1>3. /\ DirOf[a] \in Dirs
      /\ \A u \in Tasks, k \in Keys : Without(t, 0)[u][k] = IF u = t /\ k = 0 THEN NoPage ELSE Ow[u][k]
  BY AddrsAssumption DEF Without
<1>4. CASE ExitFrom(t, [mem_map EXCEPT ![p] = @ - 1])
  BY <1>2, <1>3, <1>4, ExitOK DEF Uncounted
<1>5. CASE /\ Cardinality(Free) >= TableNeed(t, a)
           /\ PutPage(t, a, [page |-> p, w |-> TRUE, d |-> FALSE], 1)
           /\ mem_map' = TableTaken(t, a, mem_map, 1)
           /\ data' = [data EXCEPT ![p] = IMAGE]
           /\ view' = [view EXCEPT ![t][a] = IMAGE]
           /\ pc' = [pc EXCEPT ![t] = IF strings[t] = NoPage THEN "run" ELSE "copy_strings"]
           /\ loading' = [loading EXCEPT ![t] = NoPage]
           /\ UNCHANGED <<task, alive, exe, strings, lost>>
  <2>1. PICK e \in PTE : e.page = p /\ e = [page |-> p, w |-> TRUE, d |-> FALSE]
    BY DEF PTE
  <2>2. e # NoPage
    BY NoPageAssumption
  <2>3. PICK n : /\ n = get_free_page(1)
                 /\ dir[t][DirOf[a]] = NoPage => n \in Pages /\ mem_map[n] = 0
    <3>1. ASSUME dir[t][DirOf[a]] = NoPage
          PROVE  get_free_page(1) \in Pages /\ mem_map[get_free_page(1)] = 0
      <4>1. Cardinality(Free) >= 1
        BY <1>5, <3>1 DEF TableNeed
      <4> QED
        BY <4>1, GetFree
    <3> QED
      BY <3>1
  <2>4. pte' = [pte EXCEPT ![t][a] = e]
    BY <1>5, <2>1 DEF PutPage
  <2>5. dir' = IF dir[t][DirOf[a]] # NoPage THEN dir ELSE [dir EXCEPT ![t][DirOf[a]] = n]
    BY <1>5, <2>3 DEF PutPage
  <2>6. mem_map' = IF dir[t][DirOf[a]] # NoPage THEN mem_map ELSE [mem_map EXCEPT ![n] = 1]
    BY <1>5, <2>3 DEF TableTaken
  <2>7. \A u \in Tasks, b \in Addrs : pte'[u][b] = IF u = t /\ b = a THEN e ELSE pte[u][b]
    BY <1>0, <2>4 DEF Types
  <2>8. \A u \in Tasks, x \in Dirs :
           dir'[u][x] = IF dir[t][DirOf[a]] = NoPage /\ u = t /\ x = DirOf[a] THEN n ELSE dir[u][x]
    BY ONLY <1>0, <1>3, <2>5, t \in Tasks DEF Types
  <2>9. \A u \in Tasks : /\ u # t => pc'[u] = pc[u]
                         /\ pc'[t] = IF strings[t] = NoPage THEN "run" ELSE "copy_strings"
                         /\ loading'[u] = IF u = t THEN NoPage ELSE loading[u]
    BY ONLY <1>0, <1>5, t \in Tasks DEF Types
  <2>10. Acc(mem_map', At', Ow', lost')
    <3>1. \A q \in Pages : mem_map[q] = IF q = p THEN 1 ELSE Uncounted(p)[q]
      BY <1>2
    <3>2. /\ At[t][a] = NoPage
          /\ \A u \in Tasks, b \in Addrs : At'[u][b] = IF u = t /\ b = a THEN p ELSE At[u][b]
      BY <1>0, <1>1, <2>1, <2>2, <2>7, AtIs
    <3>3. Uncounted(p)[p] = 0
      BY <1>2
    <3>4. Acc(mem_map, At', Without(t, 0), lost)
      BY ONLY <1>2, <3>1, <3>2, <3>3, p \in Pages, t \in Tasks, a \in Addrs, MapNew
    <3>5. \A u \in Tasks : Without(t, 0)[u][-1] = Ow'[u][-1] /\ Without(t, 0)[u][0] = Ow'[u][0]
                         /\ Without(t, 0)[u][-2] = Ow'[u][-2]
      BY ONLY <1>3, <1>5, <2>9, OwIs, KeysAre
    <3>6. \A u \in Tasks, x \in Dirs : Without(t, 0)[u][x] = dir[u][x]
      BY <1>3, OwIs, KeysAre
    <3>7. \A q \in Pages : mem_map'[q] = IF dir[t][DirOf[a]] = NoPage /\ q = n THEN 1 ELSE mem_map[q]
      BY <1>0, <2>3, <2>6 DEF Types
    <3>8. TableAdded(t, DirOf[a], n, mem_map, Without(t, 0))
      BY ONLY <2>3, <2>8, <3>5, <3>6, <3>7 DEF TableAdded
    <3> QED
      BY <1>0, <1>3, <1>5, <3>4, <3>8, TableAcc
  <2>11. Types'
    <3>1. pte' \in [Tasks -> [Addrs -> PTE \cup {NoPage}]]
      BY <1>0, <2>4 DEF Types
    <3>2. data' \in [Pages \cup {LOW} -> Contents] /\ view' \in [Tasks -> [Addrs -> Contents]]
      BY <1>0, <1>5 DEF Types, Contents
    <3>3. mem_map' \in [Pages -> Nat]
      BY <1>0, <2>3, <2>6 DEF Types
    <3>4. dir' \in [Tasks -> [Dirs -> Pages \cup {NoPage}]]
      BY ONLY <1>0, <1>3, <2>3, <2>5, t \in Tasks DEF Types
    <3>5. /\ pc' \in [Tasks -> {"run", "no_page", "copy_strings", "closing"}]
          /\ loading' \in [Tasks -> (Pages \X Addrs) \cup {NoPage}]
      BY ONLY <1>0, <1>5, t \in Tasks DEF Types
    <3> QED
      BY <1>0, <1>5, <3>1, <3>2, <3>3, <3>4, <3>5 DEF Types
  <2>12. \A u \in Tasks : PlaceOK(u)'
    <3>1. \A u \in Tasks : u # t => dir'[u] = dir[u] /\ pte'[u] = pte[u]
      BY <1>0, <2>4, <2>5 DEF Types
    <3>2. \A u \in Tasks, b \in Addrs :
            ~(u = t /\ b = a) => (pte'[u][b] = NoPage <=> pte[u][b] = NoPage)
      BY <2>7
    <3>3. \A u \in Tasks : u \notin alive => pte'[u] = pte[u]
      BY <1>0, <3>1
    <3>4. alive' = alive /\ task' = task /\ strings' = strings
      BY <1>5
    <3> QED
      BY ONLY IInv, <1>0, <2>3, <2>8, <2>9, <3>1, <3>2, <3>3, <3>4, t \in Tasks, a \in Addrs, PutPlaces
  <2>13. Private' /\ OwnWrites'
    <3>1. \A u \in Tasks, b \in Addrs : ~(u = t /\ b = a) /\ pte'[u][b] # NoPage =>
             pte'[u][b] = pte[u][b] /\ pte[u][b].page # p
      BY <1>2, <2>7, AtIs
    <3>2. \A q \in Pages \cup {LOW} : data'[q] = IF q = p THEN IMAGE ELSE data[q]
      BY <1>0, <1>5 DEF Types
    <3>3. \A u \in Tasks, b \in Addrs : view'[u][b] = IF u = t /\ b = a THEN IMAGE ELSE view[u][b]
      BY <1>0, <1>5 DEF Types
    <3>4. pte'[t][a] = e
      BY <2>7
    <3> QED
      BY ONLY IInv, t \in Tasks, a \in Addrs, p \in Pages, e \in PTE, <2>1, <3>1, <3>2, <3>3, <3>4,
              EntryNew
  <2> QED
    BY <2>10, <2>11, <2>12, <2>13 DEF IInv
<1> QED
  BY <1>1, <1>4, <1>5 DEF NoPageDone

LEMMA ExitCallOK ==
  ASSUME IInv, NEW t \in Tasks, Exit(t)
  PROVE  IInv'
<1>1. loading[t] = NoPage /\ Oom(t)
  BY DEF IInv, PlaceOK, Exit, Runs
<1> QED
  BY <1>1, OomOK

LEMMA ReleaseOK ==
  ASSUME IInv, NEW t \in Tasks, Release(t)
  PROVE  IInv'
<1>0. Types /\ Acc(mem_map, At, Ow, lost) /\ t \notin alive
  BY DEF IInv, Release
<1>1. PICK p \in Pages : task[t] = p
  BY <1>0 DEF Release, Types
<1>2. \A u \in Tasks : task'[u] = IF u = t THEN NoPage ELSE task[u]
  BY <1>0 DEF Release, Types
<1>3. Acc(mem_map', At', Ow', lost')
  <2>1. Ow[t][-1] = p /\ -1 \in Keys
    BY <1>1, OwIs, KeysAre
  <2>2. \A q \in Pages : mem_map'[q] = IF q = p THEN mem_map[q] - 1 ELSE mem_map[q]
    BY <1>0, <1>1 DEF Release, Types
  <2>3. \A u \in Tasks, k \in Keys : Ow'[u][k] = IF u = t /\ k = -1 THEN NoPage ELSE Ow[u][k]
    BY <1>2, OwIs, KeysAre DEF Release
  <2>4. Acc(mem_map', At, Ow', lost)
    BY ONLY <1>0, <2>1, <2>2, <2>3, t \in Tasks, p \in Pages, DropOwn
  <2>5. \A u \in Tasks, b \in Addrs : At'[u][b] = At[u][b]
    BY AtIs DEF Release
  <2>6. Acc(mem_map', At', Ow', lost)
    BY ONLY <2>4, <2>5, AccSame
  <2>7. lost' = lost
    BY DEF Release
  <2> QED
    BY <2>6, <2>7
<1>4. Types'
  <2>1. mem_map' \in [Pages -> Nat]
    BY <1>0, <1>3 DEF Acc, Types, Release
  <2>2. task' \in [Tasks -> Pages \cup {NoPage}]
    BY <1>0 DEF Release, Types
  <2> QED
    BY <1>0, <2>1, <2>2 DEF Types, Release
<1>5. ASSUME NEW u \in Tasks PROVE PlaceOK(u)'
  <2>1. CASE u = t
    BY <1>0, <2>1 DEF IInv, PlaceOK, Release
  <2>2. CASE u # t
    BY <1>2, <2>2, PlaceStays DEF Release
  <2> QED
    BY <2>1, <2>2
<1>6. Private' /\ OwnWrites'
  BY EntriesGone DEF Release
<1> QED
  BY <1>3, <1>4, <1>5, <1>6 DEF IInv

LEMMA ExecFailsOK ==
  ASSUME IInv, NEW t \in Tasks, ExecFails(t)
  PROVE  IInv'
<1>0. Types /\ Acc(mem_map, At, Ow, lost) /\ t \in alive /\ strings[t] # NoPage
  BY DEF IInv, ExecFails, PlaceOK
<1>1. PICK p \in Pages : p = strings[t]
  BY <1>0 DEF Types
<1>2. mem_map' = Uncounted(p) /\ Acc(Uncounted(p), At, Without(t, -2), lost)
  <2>1. Ow[t][-2] = p
    BY <1>1, OwIs
  <2> QED
    BY <1>1, <2>1, HeldCloses DEF ExecFails, Uncounted
<1>3. \A u \in Tasks : /\ pc'[u] = IF u = t THEN "run" ELSE pc[u]
                       /\ strings'[u] = IF u = t THEN NoPage ELSE strings[u]
  BY <1>0 DEF Types, ExecFails
<1>4. Acc(mem_map', At', Ow', lost')
  <2>1. \A u \in Tasks, k \in Keys : Ow'[u][k] = Without(t, -2)[u][k]
    BY <1>3, OwIs, KeysAre DEF Without, ExecFails
  <2>2. \A u \in Tasks, b \in Addrs : At'[u][b] = At[u][b]
    BY AtIs DEF ExecFails
  <2>3. Acc(mem_map', At', Ow', lost)
    BY <1>2, <2>1, <2>2, AccSame
  <2> QED
    BY <2>3 DEF ExecFails
<1>5. Types'
  <2>1. mem_map' \in [Pages -> Nat]
    BY <1>0, <1>4 DEF Acc, Types, ExecFails
  <2>2. /\ pc' \in [Tasks -> {"run", "no_page", "copy_strings", "closing"}]
        /\ strings' \in [Tasks -> Pages \cup {NoPage}]
    BY <1>0 DEF Types, ExecFails
  <2> QED
    BY <1>0, <2>1, <2>2 DEF Types, ExecFails
<1>6. ASSUME NEW u \in Tasks PROVE PlaceOK(u)'
  <2>1. CASE u = t
    BY <1>0, <1>3, <2>1 DEF IInv, PlaceOK, ExecFails
  <2>2. CASE u # t
    BY <1>3, <2>2, PlaceStays DEF ExecFails
  <2> QED
    BY <2>1, <2>2
<1>7. Private' /\ OwnWrites'
  BY EntriesGone DEF ExecFails
<1> QED
  BY <1>4, <1>5, <1>6, <1>7 DEF IInv

LEMMA ExecCommitOK ==
  ASSUME IInv, NEW t \in Tasks, NEW e \in Exes, ExecCommit(t, e)
  PROVE  IInv'
<1>0. Types /\ t \in alive
  BY DEF IInv, ExecCommit
<1>1. \A u \in Tasks : pc'[u] = IF u = t THEN "closing" ELSE pc[u]
  BY <1>0 DEF Types, ExecCommit
<1>2. Acc(mem_map', At', Ow', lost')
  BY AtIs, AccStays DEF ExecCommit
<1>3. Types'
  BY <1>0 DEF Types, ExecCommit
<1>4. ASSUME NEW u \in Tasks PROVE PlaceOK(u)'
  <2>1. CASE u = t
    BY <1>0, <1>1, <2>1 DEF IInv, PlaceOK, ExecCommit
  <2>2. CASE u # t
    BY <1>1, <2>2, PlaceStays DEF ExecCommit
  <2> QED
    BY <2>1, <2>2
<1>5. Private' /\ OwnWrites'
  BY EntriesGone DEF ExecCommit
<1> QED
  BY <1>2, <1>3, <1>4, <1>5 DEF IInv

(* The references free_page_tables() takes away.                           *)
LEMMA UsesAre ==
  ASSUME NEW t \in Tasks, NEW q \in Pages
  PROVE  Uses(t, q) = Cardinality({a \in Addrs : At[t][a] = q})
                      + Cardinality({d \in Dirs : Ow[t][d] = q})
<1>1. q # NoPage
  BY NoPageAssumption
<1>2. {a \in Addrs : Mapped(t, a) /\ pte[t][a].page = q} = {a \in Addrs : At[t][a] = q}
  BY <1>1, AtIs DEF Mapped
<1>3. {d \in Dirs : dir[t][d] = q} = {d \in Dirs : Ow[t][d] = q}
  BY OwIs
<1> QED
  BY <1>2, <1>3 DEF Uses

(* What do_execve() leaves of the accounts of t between freeing the old    *)
(* space and building the new one: its task, and the pages it may take.    *)
AtGone(t) == [u \in Tasks |-> [b \in Addrs |-> IF u = t THEN NoPage ELSE At[u][b]]]
OwGone(t) == [u \in Tasks |-> [k \in Keys |-> IF u = t /\ k # -1 THEN NoPage ELSE Ow[u][k]]]
MapGone(t) == [p \in Pages |-> mem_map[p] - Uses(t, p)]

LEMMA SpaceGone ==
  ASSUME IInv, NEW t \in alive, loading[t] = NoPage, strings[t] = NoPage
  PROVE  Acc(MapGone(t), AtGone(t), OwGone(t), lost)
<1>0. Acc(mem_map, At, Ow, lost) /\ t \in Tasks
  BY DEF IInv, Types
<1>1. \A q \in Pages : MapGone(t)[q] = mem_map[q] - (Cardinality({a \in Addrs : At[t][a] = q})
                                                     + Cardinality({d \in Dirs : Ow[t][d] = q}))
  BY <1>0, UsesAre DEF MapGone
<1>2. \A u \in Tasks, b \in Addrs : AtGone(t)[u][b] = IF u = t THEN NoPage ELSE At[u][b]
  BY DEF AtGone
<1>3. \A u \in Tasks, k \in Keys : OwGone(t)[u][k] = IF u = t /\ k \in Dirs THEN NoPage ELSE Ow[u][k]
  BY OwIs, KeysAre DEF OwGone
<1>4. ASSUME NEW m2, NEW at2, NEW ow2, NEW at, NEW ow, NEW m, NEW u \in Tasks, NEW ls, ls = lost,
             m2 = MapGone(t), at2 = AtGone(t), ow2 = OwGone(t), at = At, ow = Ow, m = mem_map, u = t
      PROVE  Acc(m2, at2, ow2, ls)
  <2>1. Acc(m, at, ow, ls)
    BY ONLY <1>0, <1>4
  <2>2. \A q \in Pages : m2[q] = m[q] - (Cardinality({a \in Addrs : at[u][a] = q})
                                          + Cardinality({d \in Dirs : ow[u][d] = q}))
    BY ONLY <1>1, <1>4
  <2>3. \A v \in Tasks, b \in Addrs : at2[v][b] = IF v = u THEN NoPage ELSE at[v][b]
    BY ONLY <1>2, <1>4
  <2>4. \A v \in Tasks, l \in Keys : ow2[v][l] = IF v = u /\ l \in Dirs THEN NoPage ELSE ow[v][l]
    BY ONLY <1>3, <1>4
  <2>5. Cleared(u, m, at, ow, m2, at2, ow2)
    BY ONLY <2>2, <2>3, <2>4 DEF Cleared
  <2> QED
    BY ONLY <2>1, <2>5, u \in Tasks, Clear
<1> QED
  BY <1>0, <1>4

(* ... with a page of strings: p is still counted by MapGone.              *)
LEMMA SpaceGoneStrings ==
  ASSUME IInv, NEW t \in alive, loading[t] = NoPage, strings[t] # NoPage, NEW p, p = strings[t]
  PROVE  /\ p \in Pages /\ MapGone(t)[p] = 1
         /\ Acc([q \in Pages |-> IF q = p THEN 0 ELSE MapGone(t)[q]], AtGone(t), OwGone(t), lost)
         /\ FreeIn(MapGone(t)) # {}
<1>0. Types /\ t \in Tasks /\ p \in Pages /\ Ow[t][-2] = p
  BY OwIs DEF IInv, Types
<1>1. /\ mem_map[p] = 1 /\ \A u \in Tasks, b \in Addrs : At[u][b] # p
      /\ \A u \in Tasks, d \in Dirs : dir[u][d] # p
      /\ \A q \in Pages : Uncounted(p)[q] = IF q = p THEN 0 ELSE mem_map[q]
      /\ Acc(Uncounted(p), At, Without(t, -2), lost)
  BY <1>0, HeldCloses
<1>2. \A d \in Dirs : Without(t, -2)[t][d] = Ow[t][d]
  BY <1>0, KeysAre DEF Without
<1>3. Uses(t, p) = 0
  <2>1. {a \in Addrs : At[t][a] = p} = {} /\ {d \in Dirs : Ow[t][d] = p} = {}
    BY <1>0, <1>1, OwIs
  <2> QED
    BY <1>0, <2>1, UsesAre, FS_EmptySet
<1>4. MapGone(t)[p] = 1
  BY <1>0, <1>1, <1>3 DEF MapGone
<1> DEFINE m2 == [q \in Pages |-> IF q = p THEN 0 ELSE MapGone(t)[q]]
<1>5. \A q \in Pages : m2[q] = Uncounted(p)[q] - (Cardinality({a \in Addrs : At[t][a] = q})
                                             + Cardinality({d \in Dirs : Without(t, -2)[t][d] = q}))
  <2> TAKE q \in Pages
  <2>1. {d \in Dirs : Without(t, -2)[t][d] = q} = {d \in Dirs : Ow[t][d] = q}
    BY <1>2
  <2>2. Uses(t, q) = Cardinality({a \in Addrs : At[t][a] = q})
                     + Cardinality({d \in Dirs : Without(t, -2)[t][d] = q})
    BY <1>0, <2>1, UsesAre
  <2>3. CASE q = p
    <3>1. Uncounted(p)[q] - Uses(t, q) = 0
      BY <1>1, <1>3, <2>3
    <3> QED
      BY <2>2, <2>3, <3>1
  <2>4. CASE q # p
    <3>1. m2[q] = mem_map[q] - Uses(t, q) /\ Uncounted(p)[q] = mem_map[q]
      BY <1>1, <2>4 DEF MapGone
    <3> QED
      BY <2>2, <3>1
  <2> QED
    BY <2>3, <2>4
<1>6. \A u \in Tasks, b \in Addrs : AtGone(t)[u][b] = IF u = t THEN NoPage ELSE At[u][b]
  BY DEF AtGone
<1>7. \A u \in Tasks, k \in Keys :
        OwGone(t)[u][k] = IF u = t /\ k \in Dirs THEN NoPage ELSE Without(t, -2)[u][k]
  BY OwIs, KeysAre DEF OwGone, Without
<1> HIDE DEF m2
<1>8. /\ Acc(m2, AtGone(t), OwGone(t), lost)
      /\ \A d \in Dirs : Without(t, -2)[t][d] \in Pages => m2[Without(t, -2)[t][d]] = 0
  <2>0. ASSUME NEW at2, NEW ow2, NEW at, NEW ow, NEW m, NEW u \in Tasks, NEW m3, m3 = m2,
               NEW ls, ls = lost,
               at2 = AtGone(t), ow2 = OwGone(t), at = At, ow = Without(t, -2), m = Uncounted(p), u = t
        PROVE  Acc(m3, at2, ow2, ls) /\ \A d \in Dirs : ow[u][d] \in Pages => m3[ow[u][d]] = 0
    <3>1. Acc(m, at, ow, ls)
      BY ONLY <1>1, <2>0
    <3>2. \A q \in Pages : m3[q] = m[q] - (Cardinality({a \in Addrs : at[u][a] = q})
                                            + Cardinality({d \in Dirs : ow[u][d] = q}))
      BY ONLY <1>5, <2>0
    <3>3. \A v \in Tasks, b \in Addrs : at2[v][b] = IF v = u THEN NoPage ELSE at[v][b]
      BY ONLY <1>6, <2>0
    <3>4. \A v \in Tasks, l \in Keys : ow2[v][l] = IF v = u /\ l \in Dirs THEN NoPage ELSE ow[v][l]
      BY ONLY <1>7, <2>0
    <3>5. Acc(m3, at2, ow2, ls)
      <4>1. Cleared(u, m, at, ow, m3, at2, ow2)
        BY ONLY <3>2, <3>3, <3>4 DEF Cleared
      <4> QED
        BY ONLY <3>1, <4>1, u \in Tasks, Clear
    <3>6. \A d \in Dirs : ow[u][d] \in Pages => m3[ow[u][d]] = 0
      <4> SUFFICES ASSUME NEW d \in Dirs, ow[u][d] \in Pages PROVE m3[ow[u][d]] = 0
        OBVIOUS
      <4>1. d \in Keys /\ NoPage \notin Pages
        BY KeysAre, NoPageAssumption
      <4>2. On(at, ow[u][d]) = {}
        BY ONLY <3>1, <4>1, u \in Tasks, ow[u][d] \in Pages DEF Acc, IsOwned
      <4>3. On(at2, ow[u][d]) = {}
        BY ONLY <3>3, <4>1, <4>2, ow[u][d] \in Pages DEF On
      <4>4. ~IsOwned(ow2, ls, ow[u][d])
        BY ONLY <3>1, <3>4, <4>1, u \in Tasks, d \in Dirs, ow[u][d] \in Pages DEF Acc, IsOwned
      <4>5. m3[ow[u][d]] = Cardinality(On(at2, ow[u][d]))
        BY ONLY <3>5, <4>4, ow[u][d] \in Pages DEF Acc
      <4> QED
        BY <4>3, <4>5, FS_EmptySet
    <3> QED
      BY <3>5, <3>6
  <2> QED
    BY <1>0, <2>0
<1>9. FreeIn(MapGone(t)) # {}
  <2>1. PICK d \in Dirs : dir[t][d] # NoPage
    BY <1>0 DEF IInv, PlaceOK
  <2>2. dir[t][d] \in Pages /\ dir[t][d] # p
    BY <1>0, <1>1, <2>1 DEF Types
  <2>3. m2[dir[t][d]] = 0
    BY <1>0, <1>2, <1>8, <2>2, OwIs
  <2>4. MapGone(t)[dir[t][d]] = 0
    BY <2>2, <2>3 DEF m2
  <2> QED
    BY <2>2, <2>4 DEF FreeIn
<1> QED
  BY <1>0, <1>4, <1>8, <1>9 DEF m2

(* ... and the new space: a page for the stack and a page table.           *)
LEMMA ExecSpaceOK ==
  ASSUME IInv, NEW t \in alive, NEW m, Acc(m, AtGone(t), OwGone(t), lost),
         NEW p \in Pages, NEW n \in Pages, p # n, m[p] = 0, m[n] = 0,
         mem_map' \in [Pages -> Nat],
         \A q \in Pages : mem_map'[q] = IF q \in {p, n} THEN 1 ELSE m[q],
         dir' = [dir EXCEPT ![t] = [NoDirs EXCEPT ![DirOf[StackAddr]] = n]],
         pte' = [pte EXCEPT ![t] = [NoPTEs EXCEPT ![StackAddr] =
                                      [page |-> p, w |-> TRUE, d |-> TRUE]]],
         data' = [data EXCEPT ![p] = t],
         view' = [view EXCEPT ![t][StackAddr] = t],
         pc' = [pc EXCEPT ![t] = "run"],
         strings' = [strings EXCEPT ![t] = NoPage], loading[t] = NoPage,
         UNCHANGED <<task, alive, exe, loading, lost>>
  PROVE  IInv'
<1>0. Types /\ t \in Tasks /\ StackAddr \in Addrs /\ DirOf[StackAddr] \in Dirs
  BY AddrsAssumption DEF IInv, Types
<1>1. PICK e \in PTE : e.page = p /\ e = [page |-> p, w |-> TRUE, d |-> TRUE]
  BY DEF PTE
<1>2. e # NoPage /\ n # NoPage
  BY NoPageAssumption
<1>3. \A u \in Tasks, b \in Addrs :
        pte'[u][b] = IF u # t THEN pte[u][b] ELSE IF b = StackAddr THEN e ELSE NoPage
  BY <1>0, <1>1 DEF Types, NoPTEs
<1>4. \A u \in Tasks, x \in Dirs :
        dir'[u][x] = IF u # t THEN dir[u][x] ELSE IF x = DirOf[StackAddr] THEN n ELSE NoPage
  BY <1>0 DEF Types, NoDirs
<1>5. \A u \in Tasks : /\ pc'[u] = IF u = t THEN "run" ELSE pc[u]
                       /\ strings'[u] = IF u = t THEN NoPage ELSE strings[u]
                       /\ loading'[u] = loading[u]
                       /\ u # t => dir'[u] = dir[u] /\ pte'[u] = pte[u]
  BY <1>0 DEF Types
<1>6. Acc(mem_map', At', Ow', lost')
  <2> DEFINE m1 == [q \in Pages |-> IF q = p THEN 1 ELSE m[q]]
  <2>1. \A q \in Pages : m1[q] = IF q = p THEN 1 ELSE m[q]
    OBVIOUS
  <2>2. m1[n] = 0 /\ \A q \in Pages : mem_map'[q] = IF q = n THEN 1 ELSE m1[q]
    OBVIOUS
  <2> HIDE DEF m1
  <2>3. AtGone(t)[t][StackAddr] = NoPage
    BY <1>0 DEF AtGone
  <2>4. \A u \in Tasks, b \in Addrs :
          At'[u][b] = IF u = t /\ b = StackAddr THEN p ELSE AtGone(t)[u][b]
    BY <1>1, <1>2, <1>3, AtIs DEF AtGone
  <2>5. Acc(m1, At', OwGone(t), lost)
    BY ONLY <1>0, <2>1, <2>3, <2>4, Acc(m, AtGone(t), OwGone(t), lost), p \in Pages, m[p] = 0, MapNew
  <2>6. OwGone(t)[t][DirOf[StackAddr]] = NoPage /\ DirOf[StackAddr] \in Keys
    BY <1>0, KeysAre DEF OwGone
  <2>7. \A u \in Tasks, k \in Keys :
          Ow'[u][k] = IF u = t /\ k = DirOf[StackAddr] THEN n ELSE OwGone(t)[u][k]
    <3>1. task' = task
      OBVIOUS
    <3>2. ASSUME NEW u \in Tasks, NEW k \in Keys
          PROVE  Ow'[u][k] = IF u = t /\ k = DirOf[StackAddr] THEN n ELSE OwGone(t)[u][k]
      <4>1. OwGone(t)[u][k] = IF u = t /\ k # -1 THEN NoPage ELSE Ow[u][k]
        BY DEF OwGone
      <4>2. CASE k = -1
        BY ONLY <1>0, <3>1, <4>1, <4>2, u \in Tasks, OwIs, KeysAre
      <4>3. CASE k = 0
        <5>1. loading'[u] = loading[u] /\ loading[t] = NoPage
          BY <1>5
        <5> QED
          BY ONLY <1>0, <4>1, <4>3, <5>1, u \in Tasks, OwIs, KeysAre
      <4>4. CASE k = -2
        BY ONLY <1>0, <1>5, <4>1, <4>4, u \in Tasks, OwIs, KeysAre
      <4>5. CASE k \in Dirs
        BY ONLY <1>0, <1>4, <4>1, <4>5, u \in Tasks, OwIs, KeysAre
      <4> QED
        BY <4>2, <4>3, <4>4, <4>5, KeysAre
    <3> QED
      BY ONLY <3>2
  <2>8. ASSUME NEW m2, NEW at, NEW ow, NEW ow2, NEW ls, NEW k \in Keys, k = DirOf[StackAddr],
               m2 = mem_map', at = At', ow = OwGone(t), ow2 = Ow', ls = lost
        PROVE  Acc(m2, at, ow2, ls)
    <3>1. Acc(m1, at, ow, ls) /\ ow[t][k] = NoPage
      BY ONLY <2>5, <2>6, <2>8
    <3>2. \A q \in Pages : m2[q] = IF q = n THEN 1 ELSE m1[q]
      BY ONLY <2>2, <2>8
    <3>3. \A u \in Tasks, l \in Keys : ow2[u][l] = IF u = t /\ l = k THEN n ELSE ow[u][l]
      BY ONLY <2>7, <2>8
    <3>4. m1[n] = 0
      BY <2>2
    <3> QED
      BY ONLY <1>0, <3>1, <3>2, <3>3, <3>4, k \in Keys, n \in Pages, TakeOwn
  <2>9. Acc(mem_map', At', Ow', lost)
    BY ONLY <2>6, <2>8
  <2> QED
    BY <2>9
<1>7. Types'
  <2>1. pte' \in [Tasks -> [Addrs -> PTE \cup {NoPage}]]
    BY <1>0, <1>1 DEF Types, NoPTEs
  <2>2. data' \in [Pages \cup {LOW} -> Contents] /\ view' \in [Tasks -> [Addrs -> Contents]]
    BY <1>0 DEF Types, Contents
  <2>3. dir' \in [Tasks -> [Dirs -> Pages \cup {NoPage}]]
    BY <1>0 DEF Types, NoDirs
  <2>4. /\ pc' \in [Tasks -> {"run", "no_page", "copy_strings", "closing"}]
        /\ strings' \in [Tasks -> Pages \cup {NoPage}]
    BY <1>0 DEF Types
  <2> QED
    BY <1>0, <2>1, <2>2, <2>3, <2>4 DEF Types
<1>8. ASSUME NEW u \in Tasks PROVE PlaceOK(u)'
  <2>1. CASE u = t
    <3>1. task[t] # NoPage
      BY <1>0 DEF IInv, PlaceOK
    <3>2. \E d \in Dirs : dir'[t][d] # NoPage
      BY <1>0, <1>2, <1>4
    <3>3. \A b \in Addrs : pte'[t][b] # NoPage => dir'[t][DirOf[b]] # NoPage
      BY <1>0, <1>2, <1>3, <1>4
    <3> QED
      BY <1>0, <1>5, <2>1, <3>1, <3>2, <3>3 DEF PlaceOK
  <2>2. CASE u # t
    BY <1>5, <2>2, PlaceStays
  <2> QED
    BY <2>1, <2>2
<1>9. Private' /\ OwnWrites'
  <2>1. \A u \in Tasks, b \in Addrs : AtGone(t)[u][b] # p
    BY FreeMeans
  <2>2. \A u \in Tasks, b \in Addrs : ~(u = t /\ b = StackAddr) /\ pte'[u][b] # NoPage =>
           pte'[u][b] = pte[u][b] /\ pte[u][b].page # p
    BY <1>3, <2>1, AtIs DEF AtGone
  <2>3. \A q \in Pages \cup {LOW} : data'[q] = IF q = p THEN t ELSE data[q]
    BY <1>0 DEF Types
  <2>4. \A u \in Tasks, b \in Addrs : view'[u][b] = IF u = t /\ b = StackAddr THEN t ELSE view[u][b]
    BY <1>0 DEF Types
  <2>5. pte'[t][StackAddr] = e
    BY <1>0, <1>3
  <2> QED
    BY ONLY IInv, <1>0, p \in Pages, e \in PTE, <1>1, <2>2, <2>3, <2>4, <2>5, EntryNew
<1> QED
  BY <1>6, <1>7, <1>8, <1>9 DEF IInv

LEMMA ExecDoneOK ==
  ASSUME IInv, NEW t \in Tasks, ExecDone(t)
  PROVE  IInv'
<1>0. Types /\ t \in alive /\ loading[t] = NoPage
  BY DEF IInv, ExecDone, PlaceOK
<1>1. PICK m : m = MapGone(t) /\ IsFiniteSet(FreeIn(m)) /\ Cardinality(FreeIn(m)) \in Nat
  BY FreePageProps
<1> DEFINE Build(p, n) ==
      /\ mem_map' = [m EXCEPT ![p] = 1, ![n] = 1]
      /\ dir' = [dir EXCEPT ![t] = [NoDirs EXCEPT ![DirOf[StackAddr]] = n]]
      /\ pte' = [pte EXCEPT ![t] = [NoPTEs EXCEPT ![StackAddr] =
                                      [page |-> p, w |-> TRUE, d |-> TRUE]]]
      /\ data' = [data EXCEPT ![p] = t]
      /\ view' = [view EXCEPT ![t][StackAddr] = t]
      /\ pc' = [pc EXCEPT ![t] = "run"]
      /\ strings' = [strings EXCEPT ![t] = NoPage]
      /\ UNCHANGED <<task, alive, exe, loading, lost>>
<1>2. ASSUME NEW p \in Pages, NEW n \in Pages, p # n, Build(p, n),
             NEW m0, Acc(m0, AtGone(t), OwGone(t), lost), m0[p] = 0, m0[n] = 0,
             \A q \in Pages : q # p => m0[q] = m[q]
      PROVE  IInv'
  <2>1. mem_map' = [[m EXCEPT ![p] = 1] EXCEPT ![n] = 1]
    BY ONLY <1>2
  <2>2. m = [q \in Pages |-> mem_map[q] - Uses(t, q)]
    BY <1>1 DEF MapGone
  <2>3. \A q \in Pages : mem_map'[q] = IF q \in {p, n} THEN 1 ELSE m0[q]
    BY ONLY <2>1, <2>2, p \in Pages, n \in Pages, \A q \in Pages : q # p => m0[q] = m[q]
  <2>4. DOMAIN mem_map' = Pages /\ mem_map' = [q \in Pages |-> mem_map'[q]]
    BY ONLY <2>1, <2>2
  <2>5. \A q \in Pages : m0[q] \in Nat
    BY <1>2 DEF Acc
  <2>6. mem_map' \in [Pages -> Nat]
    <3>1. \A q \in Pages : mem_map'[q] \in Nat
      BY <2>3, <2>5
    <3> QED
      BY ONLY <2>4, <3>1
  <2> QED
    BY ONLY IInv, <1>0, <1>2, <2>3, <2>6, ExecSpaceOK
<1> HIDE DEF Build
<1>3. CASE strings[t] # NoPage
  <2>1. PICK p : p = strings[t]
    OBVIOUS
  <2>2. /\ p \in Pages /\ m[p] = 1 /\ FreeIn(m) # {}
        /\ Acc([q \in Pages |-> IF q = p THEN 0 ELSE m[q]], AtGone(t), OwGone(t), lost)
    BY <1>0, <1>1, <1>3, <2>1, SpaceGoneStrings
  <2>3. Cardinality(FreeIn(m)) >= 1
    BY <1>1, <2>2, FS_EmptySet
  <2>4. FreePage(m, 1) \in Pages /\ m[FreePage(m, 1)] = 0
    <3>1. 1 \in 1 .. Cardinality(FreeIn(m))
      BY <1>1, <2>3
    <3> QED
      BY <3>1, FreePageProps
  <2>5. PICK n : n = FreePage(m, 1)
    OBVIOUS
  <2>6. Build(p, n)
    BY <1>1, <1>3, <2>1, <2>3, <2>5 DEF ExecDone, Build, MapGone
  <2>7. PICK m0 : m0 = [q \in Pages |-> IF q = p THEN 0 ELSE m[q]]
    OBVIOUS
  <2>8. n \in Pages /\ m[n] = 0 /\ p # n
    BY <2>2, <2>4, <2>5
  <2>9. m0[p] = 0 /\ m0[n] = 0 /\ \A q \in Pages : q # p => m0[q] = m[q]
    BY <2>2, <2>7, <2>8
  <2>10. Acc(m0, AtGone(t), OwGone(t), lost)
    BY <2>2, <2>7
  <2> QED
    BY ONLY <1>2, <2>2, <2>6, <2>8, <2>9, <2>10
<1>4. CASE strings[t] = NoPage /\ Cardinality(FreeIn(m)) >= 2
  <2>1. 1 \in 1 .. Cardinality(FreeIn(m)) /\ 2 \in 1 .. Cardinality(FreeIn(m))
    BY <1>1, <1>4
  <2>2. PICK p, n : p = FreePage(m, 1) /\ n = FreePage(m, 2)
    OBVIOUS
  <2>3. p \in Pages /\ m[p] = 0 /\ n \in Pages /\ m[n] = 0 /\ p # n
    BY <2>1, <2>2, FreePageProps
  <2>4. Build(p, n)
    BY <1>1, <1>4, <2>2 DEF ExecDone, Build, MapGone
  <2>5. Acc(m, AtGone(t), OwGone(t), lost)
    BY <1>0, <1>1, <1>4, SpaceGone
  <2> QED
    BY ONLY <1>2, <2>3, <2>4, <2>5
<1>5. CASE strings[t] = NoPage /\ ~(Cardinality(FreeIn(m)) >= 2)
  <2>1. Oom(t)
    BY <1>1, <1>5 DEF ExecDone, MapGone
  <2> QED
    BY <1>0, <2>1, OomOK
<1> QED
  BY <1>3, <1>4, <1>5

-----------------------------------------------------------------------------
(* copy_page_tables().                                                     *)
LEMMA WriteProtectIs ==
  ASSUME NEW e \in PTE
  PROVE  /\ WriteProtect(e) \in PTE /\ WriteProtect(e) # NoPage
         /\ WriteProtect(e).page = e.page /\ WriteProtect(e).w = FALSE
<1>1. e # NoPage
  BY NoPageAssumption
<1>2. WriteProtect(e) = [e EXCEPT !.w = FALSE]
  BY <1>1 DEF WriteProtect
<1>3. /\ [e EXCEPT !.w = FALSE] \in PTE
      /\ [e EXCEPT !.w = FALSE].page = e.page /\ [e EXCEPT !.w = FALSE].w = FALSE
  BY ONLY e \in PTE DEF PTE
<1> QED
  BY <1>2, <1>3, NoPageAssumption

Present(t) == {d \in Dirs : dir[t][d] # NoPage}
Nth(t, d) == Cardinality({e \in Present(t) : e <= d})

(* The pages fork() takes, one after the other: the task's, then one for   *)
(* every page table of the parent.                                         *)
LEMMA ForkPages ==
  ASSUME NEW t \in Tasks, Free # {},
         \A d \in Present(t) : 1 + Nth(t, d) <= Cardinality(Free)
  PROVE  /\ get_free_page(1) \in Pages /\ mem_map[get_free_page(1)] = 0
         /\ \A d \in Present(t) :
              /\ get_free_page(1 + Nth(t, d)) \in Pages
              /\ mem_map[get_free_page(1 + Nth(t, d))] = 0
              /\ get_free_page(1 + Nth(t, d)) # get_free_page(1)
         /\ \A d, e \in Present(t) :
              get_free_page(1 + Nth(t, d)) = get_free_page(1 + Nth(t, e)) => d = e
         /\ \A p : p \in {get_free_page(k) : k \in 1 .. 1 + Cardinality(Present(t))} <=>
                     \/ p = get_free_page(1)
                     \/ \E d \in Present(t) : p = get_free_page(1 + Nth(t, d))
<1>0. NR_DIRS \in Nat /\ Present(t) \in SUBSET (0 .. NR_DIRS)
  BY AddrsAssumption DEF Present, Dirs
<1>1. \A d \in Present(t) : Cardinality(UpTo(Present(t), d)) = Nth(t, d)
  BY DEF UpTo, Nth
<1>2. /\ Cardinality(Present(t)) \in Nat
      /\ \A d \in Present(t) : Nth(t, d) \in 1 .. Cardinality(Present(t))
      /\ \A k \in 1 .. Cardinality(Present(t)) : \E d \in Present(t) : Nth(t, d) = k
      /\ \A d, e \in Present(t) : Nth(t, d) = Nth(t, e) => d = e
  <2>1. /\ Cardinality(Present(t)) \in Nat
        /\ \A d \in Present(t) : Cardinality(UpTo(Present(t), d)) \in 1 .. Cardinality(Present(t))
        /\ \A k \in 1 .. Cardinality(Present(t)) :
             \E d \in Present(t) : Cardinality(UpTo(Present(t), d)) = k
        /\ \A d, e \in Present(t) :
             Cardinality(UpTo(Present(t), d)) = Cardinality(UpTo(Present(t), e)) => d = e
    <3>1. ASSUME NEW S \in SUBSET (0 .. NR_DIRS)
          PROVE  /\ Cardinality(S) \in Nat
                 /\ \A d \in S : Cardinality(UpTo(S, d)) \in 1 .. Cardinality(S)
                 /\ \A k \in 1 .. Cardinality(S) : \E d \in S : Cardinality(UpTo(S, d)) = k
                 /\ \A d, e \in S : Cardinality(UpTo(S, d)) = Cardinality(UpTo(S, e)) => d = e
      BY <1>0, KthSmallest
    <3> QED
      BY ONLY <1>0, <3>1
  <2> QED
    BY <1>1, <2>1
<1>3. Cardinality(Free) \in Nat /\ Cardinality(Free) >= 1
  BY SomeFree, FreePageProps DEF Free
<1>4. /\ \A k \in 1 .. Cardinality(Free) : get_free_page(k) \in Pages /\ mem_map[get_free_page(k)] = 0
      /\ \A k, l \in 1 .. Cardinality(Free) : get_free_page(k) = get_free_page(l) => k = l
  BY FreePageProps DEF Free, get_free_page
<1>5. 1 \in 1 .. Cardinality(Free)
  BY <1>3
<1>6. ASSUME NEW d \in Present(t)
      PROVE  1 + Nth(t, d) \in 1 .. Cardinality(Free) /\ 1 + Nth(t, d) # 1 /\ Nth(t, d) \in Int
  <2>1. Nth(t, d) \in 1 .. Cardinality(Present(t)) /\ 1 + Nth(t, d) <= Cardinality(Free)
    BY <1>2
  <2> QED
    BY <1>2, <1>3, <2>1
<1>7. ASSUME NEW d \in Present(t), NEW e \in Present(t),
             get_free_page(1 + Nth(t, d)) = get_free_page(1 + Nth(t, e))
      PROVE  d = e
  <2>1. 1 + Nth(t, d) = 1 + Nth(t, e) /\ Nth(t, d) \in Int /\ Nth(t, e) \in Int
    BY <1>4, <1>6, <1>7
  <2>2. Nth(t, d) = Nth(t, e)
    BY <2>1
  <2> QED
    BY <1>2, <2>2
<1>8. ASSUME NEW p, NEW k \in 1 .. 1 + Cardinality(Present(t)), p = get_free_page(k)
      PROVE  \/ p = get_free_page(1)
             \/ \E d \in Present(t) : p = get_free_page(1 + Nth(t, d))
  <2>1. CASE k = 1
    BY <1>8, <2>1
  <2>2. CASE k # 1
    <3>1. k - 1 \in 1 .. Cardinality(Present(t)) /\ 1 + (k - 1) = k
      BY <1>2, <2>2
    <3>2. PICK d \in Present(t) : Nth(t, d) = k - 1
      BY <1>2, <3>1
    <3>3. 1 + Nth(t, d) = k
      BY <3>1, <3>2
    <3> QED
      BY <1>8, <3>3
  <2> QED
    BY <2>1, <2>2
<1>9. 1 \in 1 .. 1 + Cardinality(Present(t))
  BY <1>2
<1>10. ASSUME NEW d \in Present(t) PROVE 1 + Nth(t, d) \in 1 .. 1 + Cardinality(Present(t))
  <2>1. Nth(t, d) \in 1 .. Cardinality(Present(t))
    BY <1>2
  <2> QED
    BY <1>2, <2>1
<1>11. ASSUME NEW p
       PROVE  p \in {get_free_page(k) : k \in 1 .. 1 + Cardinality(Present(t))} <=>
                \/ p = get_free_page(1)
                \/ \E d \in Present(t) : p = get_free_page(1 + Nth(t, d))
  BY <1>8, <1>9, <1>10
<1>12. /\ get_free_page(1) \in Pages /\ mem_map[get_free_page(1)] = 0
       /\ \A d \in Present(t) :
            /\ get_free_page(1 + Nth(t, d)) \in Pages
            /\ mem_map[get_free_page(1 + Nth(t, d))] = 0
            /\ get_free_page(1 + Nth(t, d)) # get_free_page(1)
  BY <1>4, <1>5, <1>6
<1> QED
  BY <1>7, <1>11, <1>12

(* What fork() does to the entries: the parent's and the child's refer to  *)
(* the same pages, and a page both map is writable for neither.            *)
ForkedEntries(t, c, copied, present) ==
  [u \in Tasks |->
     IF u = c /\ copied = present THEN [a \in Addrs |-> WriteProtect(pte[t][a])]
     ELSE [a \in Addrs |->
             IF /\ u = t /\ DirOf[a] \in copied
                /\ Mapped(t, a) /\ pte[t][a].page # LOW
             THEN WriteProtect(pte[t][a]) ELSE pte[u][a]]]

EntriesForked(t, c, ok) ==
  /\ pte' \in [Tasks -> [Addrs -> PTE \cup {NoPage}]]
  /\ \A u \in Tasks : u # t /\ ~(u = c /\ ok) => pte'[u] = pte[u]
  /\ \A u \in Tasks, b \in Addrs : ~(u = c /\ ok) =>
       /\ At'[u][b] = At[u][b]
       /\ pte'[u][b] = NoPage <=> pte[u][b] = NoPage
       /\ pte'[u][b] # NoPage /\ pte'[u][b].w => pte[u][b].w
  /\ ok => \A b \in Addrs :
       /\ At'[c][b] = At[t][b]
       /\ pte'[c][b] = NoPage <=> pte[t][b] = NoPage
       /\ pte'[c][b] # NoPage => ~pte'[c][b].w
       /\ pte'[t][b] # NoPage => ~pte'[t][b].w

LEMMA ForkEntries ==
  ASSUME IInv, NEW t \in Tasks, NEW c \in Tasks, t # c, NEW copied, NEW present,
         copied = present => \A a \in Addrs : pte[t][a] # NoPage => DirOf[a] \in copied,
         pte' = ForkedEntries(t, c, copied, present)
  PROVE  EntriesForked(t, c, copied = present)
<1>0. Types
  BY DEF IInv
<1>1. \A u \in Tasks, a \in Addrs :
        pte'[u][a] = IF u = c /\ copied = present THEN WriteProtect(pte[t][a])
                     ELSE IF /\ u = t /\ DirOf[a] \in copied
                             /\ Mapped(t, a) /\ pte[t][a].page # LOW
                          THEN WriteProtect(pte[t][a]) ELSE pte[u][a]
  BY DEF ForkedEntries
<1>2. WriteProtect(NoPage) = NoPage
  BY DEF WriteProtect
<1>3. \A u \in Tasks, a \in Addrs : pte[u][a] # NoPage => pte[u][a] \in PTE
  BY <1>0, EntryIs
<1>4. \A a \in Addrs : WriteProtect(pte[t][a]) \in PTE \cup {NoPage}
  BY <1>2, <1>3, WriteProtectIs
<1>5. pte' \in [Tasks -> [Addrs -> PTE \cup {NoPage}]]
  BY <1>0, <1>4 DEF Types, ForkedEntries
<1>6. ASSUME NEW u \in Tasks, u # t, ~(u = c /\ copied = present) PROVE pte'[u] = pte[u]
  <2>1. pte'[u] = [a \in Addrs |-> pte[u][a]]
    BY <1>6 DEF ForkedEntries
  <2>2. pte[u] = [a \in Addrs |-> pte[u][a]]
    BY <1>0 DEF Types
  <2> QED
    BY <2>1, <2>2
<1>7. ASSUME NEW u \in Tasks, NEW b \in Addrs, ~(u = c /\ copied = present)
      PROVE  /\ At'[u][b] = At[u][b]
             /\ pte'[u][b] = NoPage <=> pte[u][b] = NoPage
             /\ pte'[u][b] # NoPage /\ pte'[u][b].w => pte[u][b].w
  <2>1. CASE pte'[u][b] = pte[u][b]
    BY <2>1, AtIs
  <2>2. CASE pte'[u][b] # pte[u][b]
    <3>1. u = t /\ pte[t][b] # NoPage /\ pte'[t][b] = WriteProtect(pte[t][b])
      BY <1>1, <1>7, <2>2 DEF Mapped
    <3>2. /\ WriteProtect(pte[t][b]) # NoPage /\ WriteProtect(pte[t][b]).w = FALSE
          /\ WriteProtect(pte[t][b]).page = pte[t][b].page
      BY <1>3, <3>1, WriteProtectIs
    <3>3. At'[t][b] = At[t][b]
      BY <3>1, <3>2, AtIs
    <3> QED
      BY <3>1, <3>2, <3>3
  <2> QED
    BY <2>1, <2>2
<1>8. ASSUME copied = present, NEW b \in Addrs
      PROVE  /\ At'[c][b] = At[t][b]
             /\ pte'[c][b] = NoPage <=> pte[t][b] = NoPage
             /\ pte'[c][b] # NoPage => ~pte'[c][b].w
             /\ pte'[t][b] # NoPage => ~pte'[t][b].w
  <2>1. pte'[c][b] = WriteProtect(pte[t][b])
    BY <1>1, <1>8
  <2>2. CASE pte[t][b] = NoPage
    <3>1. pte'[c][b] = NoPage /\ pte'[t][b] = NoPage
      BY <1>1, <1>2, <2>1, <2>2 DEF Mapped
    <3> QED
      BY <2>2, <3>1, AtIs
  <2>3. CASE pte[t][b] # NoPage
    <3>2. /\ WriteProtect(pte[t][b]) # NoPage /\ WriteProtect(pte[t][b]).w = FALSE
          /\ WriteProtect(pte[t][b]).page = pte[t][b].page
      BY <1>3, <2>3, WriteProtectIs
    <3>3. At'[c][b] = At[t][b]
      BY <2>1, <2>3, <3>2, AtIs
    <3>4. ~pte'[t][b].w
      <4>1. CASE pte[t][b].page = LOW
        <5>1. pte'[t][b] = pte[t][b]
          BY <1>1, <4>1
        <5>2. ~pte[t][b].w
          BY <2>3, <4>1 DEF IInv, Private
        <5> QED
          BY <5>1, <5>2
      <4>2. CASE pte[t][b].page # LOW
        <5>1. DirOf[b] \in copied
          BY <1>8, <2>3
        <5>2. pte'[t][b] = WriteProtect(pte[t][b])
          BY <1>1, <2>3, <4>2, <5>1 DEF Mapped
        <5> QED
          BY <3>2, <5>2
      <4> QED
        BY <4>1, <4>2
    <3> QED
      BY <2>1, <2>3, <3>2, <3>3, <3>4
  <2> QED
    BY <2>2, <2>3
<1> QED
  BY <1>5, <1>6, <1>7, <1>8 DEF EntriesForked

LEMMA ForkOK ==
  ASSUME IInv, NEW t \in Tasks, NEW c \in Tasks, Fork(t, c)
  PROVE  IInv'
<1>0. Types /\ t \in alive /\ Free # {} /\ task[c] = NoPage
  BY DEF IInv, Fork, Runs
<1>1. /\ t # c /\ c \notin alive /\ pc[c] = "run" /\ loading[c] = NoPage /\ strings[c] = NoPage
      /\ dir[c] = NoDirs /\ pte[c] = NoPTEs
  BY <1>0 DEF IInv, PlaceOK
<1>2. PICK copied, present :
        /\ present = Present(t)
        /\ copied = {d \in Present(t) : 1 + Nth(t, d) <= Cardinality(Free)}
        /\ pte' = ForkedEntries(t, c, copied, present)
  BY DEF Fork, Present, Nth, ForkedEntries
<1>3. copied = present => \A a \in Addrs : pte[t][a] # NoPage => DirOf[a] \in copied
  <2>1. \A a \in Addrs : pte[t][a] # NoPage => DirOf[a] \in Present(t)
    BY AddrsAssumption DEF IInv, PlaceOK, Present
  <2> QED
    BY <1>2, <2>1
<1>4. /\ pte' \in [Tasks -> [Addrs -> PTE \cup {NoPage}]]
      /\ \A u \in Tasks : u # t /\ ~(u = c /\ copied = present) => pte'[u] = pte[u]
      /\ \A u \in Tasks, b \in Addrs : ~(u = c /\ copied = present) =>
           /\ At'[u][b] = At[u][b]
           /\ pte'[u][b] = NoPage <=> pte[u][b] = NoPage
           /\ pte'[u][b] # NoPage /\ pte'[u][b].w => pte[u][b].w
      /\ copied = present => \A b \in Addrs :
           /\ At'[c][b] = At[t][b]
           /\ pte'[c][b] = NoPage <=> pte[t][b] = NoPage
           /\ pte'[c][b] # NoPage => ~pte'[c][b].w
           /\ pte'[t][b] # NoPage => ~pte'[t][b].w
  <2>1. t # c /\ pte' = ForkedEntries(t, c, copied, present)
    BY <1>1, <1>2
  <2>2. EntriesForked(t, c, copied = present)
    BY ONLY IInv, <1>3, <2>1, t \in Tasks, c \in Tasks, ForkEntries
  <2> QED
    BY ONLY <2>2 DEF EntriesForked
<1>5. pc' = pc /\ loading' = loading /\ strings' = strings /\ lost' = lost /\ data' = data
  BY DEF Fork
<1>6. ASSUME copied # present PROVE IInv'
  <2>1. UNCHANGED <<mem_map, task, dir, alive, exe, view>>
    BY <1>2, <1>6 DEF Fork, Present, Nth
  <2>2. Acc(mem_map', At', Ow', lost')
    BY <1>4, <1>5, <1>6, <2>1, AccStays
  <2>3. Types'
    BY <1>0, <1>4, <1>5, <2>1 DEF Types
  <2>4. ASSUME NEW u \in Tasks PROVE PlaceOK(u)'
    <3>1. CASE u = t
      <4>1. pc[t] = "run"
        BY DEF Fork, Runs
      <4>2. PlaceOK(t)
        BY DEF IInv
      <4>3. \A b \in Addrs : pte'[t][b] # NoPage => dir[t][DirOf[b]] # NoPage
        BY <1>1, <1>4, <4>2 DEF PlaceOK
      <4> QED
        BY <1>0, <1>5, <2>1, <3>1, <4>1, <4>2, <4>3 DEF PlaceOK
    <3>2. CASE u # t
      BY <1>4, <1>5, <1>6, <2>1, <3>2, PlaceStays
    <3> QED
      BY <3>1, <3>2
  <2>5. ASSUME NEW u \in Tasks, NEW b \in Addrs, pte'[u][b] # NoPage
        PROVE  /\ pte[u][b] # NoPage /\ pte'[u][b].page = pte[u][b].page
               /\ pte'[u][b].w => pte[u][b].w
    BY <1>4, <1>6, <2>5, AtIs
  <2>6. Private'
    BY <2>5 DEF IInv, Private
  <2>7. OwnWrites'
    BY <1>5, <2>1, <2>5 DEF IInv, OwnWrites, Mapped
  <2> QED
    BY <2>2, <2>3, <2>4, <2>6, <2>7 DEF IInv
<1>7. ASSUME copied = present PROVE IInv'
  <2>0. PICK new : new = {get_free_page(k) : k \in 1 .. 1 + Cardinality(Present(t))}
    OBVIOUS
  <2>1. /\ mem_map' = [p \in Pages |->
                         IF p \in new THEN 1
                         ELSE mem_map[p] + Cardinality(
                                {a \in Addrs : Mapped(t, a) /\ pte[t][a].page = p})]
        /\ task' = [task EXCEPT ![c] = get_free_page(1)]
        /\ dir' = [dir EXCEPT ![c] = [d \in Dirs |->
                         IF d \in Present(t) THEN get_free_page(1 + Nth(t, d)) ELSE NoPage]]
        /\ alive' = alive \cup {c}
        /\ exe' = [exe EXCEPT ![c] = exe[t]]
        /\ view' = [view EXCEPT ![c] = view[t]]
    BY <1>2, <1>7, <2>0 DEF Fork, Present, Nth
  <2>2. \A d \in Present(t) : 1 + Nth(t, d) <= Cardinality(Free)
    BY <1>2, <1>7
  <2>3. /\ get_free_page(1) \in Pages /\ mem_map[get_free_page(1)] = 0
        /\ \A d \in Present(t) :
             /\ get_free_page(1 + Nth(t, d)) \in Pages
             /\ mem_map[get_free_page(1 + Nth(t, d))] = 0
             /\ get_free_page(1 + Nth(t, d)) # get_free_page(1)
        /\ \A d, e \in Present(t) :
             get_free_page(1 + Nth(t, d)) = get_free_page(1 + Nth(t, e)) => d = e
        /\ \A p : p \in new <=> \/ p = get_free_page(1)
                                \/ \E d \in Present(t) : p = get_free_page(1 + Nth(t, d))
    BY <1>0, <2>0, <2>2, ForkPages
  <2>4. /\ \A u \in Tasks : task'[u] = IF u = c THEN get_free_page(1) ELSE task[u]
        /\ \A u \in Tasks : u # c => dir'[u] = dir[u] /\ view'[u] = view[u]
        /\ \A d \in Dirs : dir'[c][d] = IF d \in Present(t) THEN get_free_page(1 + Nth(t, d))
                                        ELSE NoPage
        /\ view'[c] = view[t]
    BY <1>0, <2>1 DEF Types
  <2>5. NoPage \notin Pages
    BY NoPageAssumption
  <2>6. /\ Ow'[c][-1] = get_free_page(1) /\ Ow'[c][0] = NoPage /\ Ow'[c][-2] = NoPage
        /\ \A d \in Dirs : Ow'[c][d] = IF d \in Present(t) THEN get_free_page(1 + Nth(t, d))
                                       ELSE NoPage
    BY <1>1, <1>5, <2>4, OwIs
  <2>7. \A d \in Present(t) : d \in Dirs
    BY DEF Present
  <2>8. Acc(mem_map', At', Ow', lost')
    <3>1. Acc(mem_map, At, Ow, lost)
      BY DEF IInv
    <3>2. (\A k \in Keys : Ow[c][k] = NoPage) /\ \A a \in Addrs : At[c][a] = NoPage
      BY <1>0, <1>1, OwIs, AtIs, KeysAre DEF NoDirs, NoPTEs
    <3>3. \A k \in Keys : Ow'[c][k] = NoPage \/ (Ow'[c][k] \in Pages /\ mem_map[Ow'[c][k]] = 0)
      BY <2>3, <2>6, KeysAre
    <3>4. \A k, l \in Keys : Ow'[c][k] \in Pages /\ Ow'[c][k] = Ow'[c][l] => k = l
      BY <2>3, <2>5, <2>6, KeysAre
    <3>5. \A u \in Tasks, l \in Keys : u # c => Ow'[u][l] = Ow[u][l]
      BY <1>5, <2>4, OwIs, KeysAre
    <3>6. \A u \in Tasks, b \in Addrs : At'[u][b] = IF u = c THEN At[t][b] ELSE At[u][b]
      BY <1>4, <1>7
    <3>7. ASSUME NEW q \in Pages
          PROVE  mem_map'[q] = IF \E k \in Keys : Ow'[c][k] = q THEN 1
                               ELSE mem_map[q] + Cardinality({a \in Addrs : At[t][a] = q})
      <4>1. q \in new <=> \E k \in Keys : Ow'[c][k] = q
        BY <2>3, <2>5, <2>6, <2>7, KeysAre
      <4>2. {a \in Addrs : Mapped(t, a) /\ pte[t][a].page = q} = {a \in Addrs : At[t][a] = q}
        BY <2>5, AtIs DEF Mapped
      <4> QED
        BY <2>1, <4>1, <4>2
    <3>8. ForkedAccounts(mem_map, At, Ow, t, c, mem_map', At', Ow')
      BY <1>1, <3>2, <3>3, <3>4, <3>5, <3>6, <3>7 DEF ForkedAccounts
    <3>9. Acc(mem_map', At', Ow', lost)
      BY <3>1, <3>8, ForkAcc
    <3> QED
      BY <1>5, <3>9
  <2>9. Types'
    <3>1. mem_map' \in [Pages -> Nat]
      BY <2>1, <2>8 DEF Acc
    <3>2. task' \in [Tasks -> Pages \cup {NoPage}] /\ alive' \in SUBSET Tasks
      BY <1>0, <2>1, <2>3 DEF Types
    <3>3. dir' \in [Tasks -> [Dirs -> Pages \cup {NoPage}]]
      <4>1. [d \in Dirs |-> IF d \in Present(t) THEN get_free_page(1 + Nth(t, d)) ELSE NoPage]
              \in [Dirs -> Pages \cup {NoPage}]
        BY <2>3
      <4> QED
        BY <1>0, <2>1, <4>1 DEF Types
    <3>4. exe' \in [Tasks -> Exes \cup {NoExe}] /\ view' \in [Tasks -> [Addrs -> Contents]]
      BY <1>0, <2>1 DEF Types
    <3> QED
      BY <1>0, <1>4, <1>5, <3>1, <3>2, <3>3, <3>4 DEF Types
  <2>10. PlaceOK(t)
    BY DEF IInv
  <2>11. ASSUME NEW u \in Tasks PROVE PlaceOK(u)'
    <3>1. CASE u = t
      <4>1. pc[t] = "run"
        BY DEF Fork, Runs
      <4>2. \A b \in Addrs : pte'[t][b] # NoPage => dir[t][DirOf[b]] # NoPage
        BY <1>1, <1>4, <2>10 DEF PlaceOK
      <4>3. dir'[t] = dir[t] /\ task'[t] = task[t] /\ t \in alive'
        BY <1>0, <1>1, <2>1, <2>4
      <4> QED
        BY <1>0, <1>5, <3>1, <4>1, <4>2, <4>3, <2>10 DEF PlaceOK
    <3>2. CASE u = c
      <4>1. task'[c] # NoPage /\ c \in alive'
        BY <2>1, <2>3, <2>4, <2>5
      <4>2. \A d \in Present(t) : dir'[c][d] # NoPage
        BY <2>3, <2>4, <2>5, <2>7
      <4>3. \E d \in Dirs : dir'[c][d] # NoPage
        BY <1>0, <2>10, <4>2 DEF PlaceOK, Present
      <4>4. \A b \in Addrs : pte'[c][b] # NoPage => dir'[c][DirOf[b]] # NoPage
        BY <1>3, <1>4, <1>7, <1>2, <4>2
      <4> QED
        BY <1>1, <1>5, <3>2, <4>1, <4>3, <4>4 DEF PlaceOK
    <3>3. CASE u # t /\ u # c
      <4>1. u \in alive' <=> u \in alive
        BY <2>1, <3>3
      <4> QED
        BY <1>4, <1>5, <2>4, <3>3, <4>1, PlaceStays
    <3> QED
      BY <3>1, <3>2, <3>3
  <2>12. ASSUME NEW u \in Tasks, NEW b \in Addrs, pte'[u][b] # NoPage
         PROVE  \E v \in Tasks :
                  /\ v = IF u = c THEN t ELSE u
                  /\ pte[v][b] # NoPage /\ pte'[u][b].page = pte[v][b].page
                  /\ view'[u] = view[v]
                  /\ pte'[u][b].w => u # c /\ u # t /\ pte[u][b].w
    <3>1. CASE u = c
      BY <1>4, <1>7, <2>4, <2>12, <3>1, AtIs
    <3>2. CASE u # c
      BY <1>4, <1>7, <2>4, <2>12, <3>2, AtIs
    <3> QED
      BY <3>1, <3>2
  <2>13. Private'
    <3> SUFFICES ASSUME NEW u \in Tasks, NEW b \in Addrs, pte'[u][b] # NoPage, pte'[u][b].w
                 PROVE  /\ pte'[u][b].page # LOW
                        /\ \A v \in Tasks, x \in Addrs :
                             pte'[v][x] # NoPage /\ pte'[v][x].page = pte'[u][b].page => v = u
      BY DEF Private
    <3>1. u # c /\ u # t /\ pte[u][b].w /\ pte[u][b] # NoPage /\ pte'[u][b].page = pte[u][b].page
      BY <2>12
    <3>2. /\ pte[u][b].page # LOW
          /\ \A v \in Tasks, x \in Addrs :
               pte[v][x] # NoPage /\ pte[v][x].page = pte[u][b].page => v = u
      BY <3>1 DEF IInv, Private
    <3> QED
      BY <2>12, <3>1, <3>2
  <2>14. OwnWrites'
    <3> SUFFICES ASSUME NEW u \in Tasks, NEW b \in Addrs, pte'[u][b] # NoPage,
                        view'[u][b] # IMAGE
                 PROVE  data'[pte'[u][b].page] = view'[u][b]
      BY DEF OwnWrites, Mapped
    <3>1. PICK v \in Tasks : /\ pte[v][b] # NoPage /\ pte'[u][b].page = pte[v][b].page
                             /\ view'[u] = view[v]
      BY <2>12
    <3> QED
      BY <1>5, <3>1 DEF IInv, OwnWrites, Mapped
  <2> QED
    BY <2>8, <2>9, <2>11, <2>13, <2>14 DEF IInv
<1> QED
  BY <1>6, <1>7

-----------------------------------------------------------------------------
LEMMA NextOK == IInv /\ [Next]_vars => IInv'
<1> SUFFICES ASSUME IInv, [Next]_vars PROVE IInv'
  OBVIOUS
<1>1. CASE UNCHANGED vars
  <2>1. UNCHANGED <<mem_map, dir, pte, task, alive, exe, pc, loading, strings, lost, data, view>>
    BY <1>1 DEF vars
  <2>2. Acc(mem_map', At', Ow', lost')
    BY <2>1, AtIs, AccStays
  <2>3. Types'
    BY <2>1 DEF IInv, Types
  <2>4. \A t \in Tasks : PlaceOK(t)'
    BY <2>1, PlaceStays
  <2>5. Private' /\ OwnWrites'
    BY <2>1, EntriesGone
  <2> QED
    BY <2>2, <2>3, <2>4, <2>5 DEF IInv
<1>2. CASE Next
  <2>1. PICK t \in Tasks :
          \/ \E c \in Tasks : Fork(t, c)
          \/ \E a \in Addrs : \/ Write(t, a) \/ UnWpPage(t, a)
                              \/ NoPageEmpty(t, a) \/ NoPageShare(t, a) \/ NoPageRead(t, a)
          \/ NoPageDone(t)
          \/ Exit(t) \/ Release(t)
          \/ ExecStrings(t) \/ ExecFails(t) \/ ExecDone(t)
          \/ \E e \in Exes : ExecCommit(t, e)
    BY <1>2 DEF Next
  <2>2. CASE \E c \in Tasks : Fork(t, c)
    BY <2>2, ForkOK
  <2>3. CASE \E a \in Addrs : Write(t, a)
    BY <2>3, WriteOK
  <2>4. CASE \E a \in Addrs : UnWpPage(t, a)
    BY <2>4, UnWpPageOK
  <2>5. CASE \E a \in Addrs : NoPageEmpty(t, a)
    BY <2>5, NoPageEmptyOK
  <2>6. CASE \E a \in Addrs : NoPageShare(t, a)
    BY <2>6, NoPageShareOK
  <2>7. CASE \E a \in Addrs : NoPageRead(t, a)
    BY <2>7, NoPageReadOK
  <2>8. CASE NoPageDone(t)
    BY <2>8, NoPageDoneOK
  <2>9. CASE Exit(t)
    BY <2>9, ExitCallOK
  <2>10. CASE Release(t)
    BY <2>10, ReleaseOK
  <2>11. CASE ExecStrings(t)
    BY <2>11, ExecStringsOK
  <2>12. CASE ExecFails(t)
    BY <2>12, ExecFailsOK
  <2>13. CASE ExecDone(t)
    BY <2>13, ExecDoneOK
  <2>14. CASE \E e \in Exes : ExecCommit(t, e)
    BY <2>14, ExecCommitOK
  <2> QED
    BY <2>1, <2>2, <2>3, <2>4, <2>5, <2>6, <2>7, <2>8, <2>9, <2>10, <2>11, <2>12, <2>13, <2>14
<1> QED
  BY <1>1, <1>2

(* Every step of every task keeps the accounts: page faults, fork and      *)
(* exec with and without memory, exit and release.                         *)
THEOREM Invariance == Spec => []IInv
<1>1. Init => IInv
  BY InitOK
<1>2. IInv /\ [Next]_vars => IInv'
  BY NextOK
<1> QED
  BY <1>1, <1>2, PTL DEF Spec

(* As many entries refer to a page as tasks map it.                        *)
LEMMA EntriesCounted ==
  ASSUME IInv, NEW p \in Pages
  PROVE  Cardinality({x \in Tasks \X Addrs : Mapped(x[1], x[2]) /\ pte[x[1]][x[2]].page = p})
           = Cardinality(On(At, p))
<1> DEFINE E == {x \in Tasks \X Addrs : Mapped(x[1], x[2]) /\ pte[x[1]][x[2]].page = p}
<1>0. p # NoPage /\ \A t, u \in Tasks, a, b \in Addrs : At[t][a] = p /\ At[u][b] = p => a = b
  BY NoPageAssumption DEF IInv, Acc
<1>1. \A x \in E : /\ x[1] \in Tasks /\ x[2] \in Addrs /\ x = <<x[1], x[2]>>
                   /\ At[x[1]][x[2]] = p
  BY AtIs DEF Mapped
<1>2. \A t \in Tasks, a \in Addrs : At[t][a] = p => <<t, a>> \in E
  <2> SUFFICES ASSUME NEW t \in Tasks, NEW a \in Addrs, At[t][a] = p PROVE <<t, a>> \in E
    OBVIOUS
  <2>1. Mapped(t, a) /\ pte[t][a].page = p
    BY <1>0, AtIs DEF Mapped
  <2>2. <<t, a>> \in Tasks \X Addrs /\ <<t, a>>[1] = t /\ <<t, a>>[2] = a
    OBVIOUS
  <2> QED
    BY <2>1, <2>2
<1> HIDE DEF E
<1>3. \A x, y \in E : x[1] = y[1] => x = y
  BY <1>0, <1>1
<1>4. \A t \in On(At, p) : \E a \in Addrs : t \in Tasks /\ At[t][a] = p
  BY DEF On
<1>5. PICK f : f = [t \in On(At, p) |-> <<t, CHOOSE a \in Addrs : At[t][a] = p>>]
  OBVIOUS
<1>6. \A t \in On(At, p) : f[t] \in E /\ f[t][1] = t
  <2> TAKE t \in On(At, p)
  <2>1. PICK b : b = CHOOSE a \in Addrs : At[t][a] = p
    OBVIOUS
  <2>2. b \in Addrs /\ At[t][b] = p /\ t \in Tasks
    BY <1>4, <2>1
  <2>3. f[t] = <<t, b>> /\ <<t, b>>[1] = t
    BY <1>5, <2>1
  <2> QED
    BY <1>2, <2>2, <2>3
<1>7. f \in [On(At, p) -> E]
  BY <1>5, <1>6
<1>8. \A x \in E : x[1] \in On(At, p) /\ f[x[1]] = x
  <2> TAKE x \in E
  <2>1. x[1] \in On(At, p)
    BY <1>1 DEF On
  <2>2. f[x[1]] \in E /\ f[x[1]][1] = x[1]
    BY <2>1, <1>6
  <2> QED
    BY <1>3, <2>1, <2>2
<1>9. f \in Injection(On(At, p), E)
  <2>1. DOMAIN f = On(At, p)
    BY <1>7
  <2>2. \A t, u \in On(At, p) : f[t] = f[u] => t = u
    BY <1>6
  <2> QED
    BY <1>7, <2>1, <2>2 DEF Injection, IsInjective
<1>10. f \in Surjection(On(At, p), E)
  BY <1>7, <1>8 DEF Surjection
<1>11. ExistsBijection(On(At, p), E)
  BY <1>9, <1>10 DEF ExistsBijection, Bijection
<1>12. Cardinality(E) = Cardinality(On(At, p))
  BY <1>11, OnFinite, FS_Bijection
<1> QED
  BY <1>12 DEF E

LEMMA CountsAreRefs == IInv => RefCounts
<1> SUFFICES ASSUME IInv, NEW p \in Pages
             PROVE  mem_map[p] =
                      Cardinality({x \in Tasks \X Addrs :
                                     Mapped(x[1], x[2]) /\ pte[x[1]][x[2]].page = p})
                      + Cardinality({x \in Tasks \X Dirs : dir[x[1]][x[2]] = p})
                      + Cardinality({t \in Tasks : task[t] = p})
                      + Cardinality({t \in Tasks : loading[t] # NoPage /\ loading[t][1] = p})
                      + Cardinality({t \in Tasks : strings[t] = p})
                      + Cardinality({q \in lost : q = p})
  BY DEF RefCounts
<1> DEFINE E == {x \in Tasks \X Addrs : Mapped(x[1], x[2]) /\ pte[x[1]][x[2]].page = p}
           D == {x \in Tasks \X Dirs : dir[x[1]][x[2]] = p}
           T == {t \in Tasks : task[t] = p}
           L == {t \in Tasks : loading[t] # NoPage /\ loading[t][1] = p}
           S == {t \in Tasks : strings[t] = p}
           G == {q \in lost : q = p}
           Refs == Cardinality(E) + Cardinality(D) + Cardinality(T) + Cardinality(L)
                   + Cardinality(S) + Cardinality(G)
<1>0. p # NoPage
  BY NoPageAssumption
<1>1. Cardinality(E) = Cardinality(On(At, p)) /\ Cardinality(On(At, p)) \in Nat
  <2>1. Cardinality(E) = Cardinality(On(At, p))
    BY EntriesCounted
  <2>2. Cardinality(On(At, p)) \in 0 .. NR_TASKS
    BY OnFinite
  <2> QED
    BY <2>1, <2>2
<1>2. /\ \A t \in Tasks, d \in Dirs : <<t, d>> \in D <=> Ow[t][d] = p
      /\ \A x \in D : x[1] \in Tasks /\ x[2] \in Dirs /\ x = <<x[1], x[2]>>
      /\ \A t \in Tasks : t \in T <=> Ow[t][-1] = p
      /\ \A t \in Tasks : t \in L <=> Ow[t][0] = p
      /\ \A t \in Tasks : t \in S <=> Ow[t][-2] = p
  <2>1. \A t \in Tasks, d \in Dirs : <<t, d>> \in D <=> dir[t][d] = p
    OBVIOUS
  <2> QED
    BY <1>0, <2>1, OwIs
<1>3. \A t \in T : t \in Tasks
  OBVIOUS
<1>10. p \in lost => G = {p}
  OBVIOUS
<1>11. p \notin lost => G = {}
  OBVIOUS
<1>4. \A t \in L \cup S : t \in Tasks
  OBVIOUS
<1>5. Acc(mem_map, At, Ow, lost)
  BY DEF IInv
<1>6. /\ \A x : Cardinality({x}) = 1
      /\ Cardinality({}) = 0
  BY FS_Singleton, FS_EmptySet
<1> HIDE DEF E, D, T, L, S, G
<1>7. ASSUME ~IsOwned(Ow, lost, p)
      PROVE  mem_map[p] = Refs
  <2>1. p \notin lost /\ \A t \in Tasks, k \in Keys : Ow[t][k] # p
    BY <1>7 DEF IsOwned
  <2>2. D = {}
    BY <1>2, <2>1, KeysAre
  <2>3. T = {} /\ L = {} /\ S = {}
    BY <1>2, <1>3, <1>4, <2>1, KeysAre
  <2>5. G = {}
    BY <1>11, <2>1
  <2>6. /\ Cardinality(D) = 0 /\ Cardinality(T) = 0 /\ Cardinality(L) = 0
        /\ Cardinality(S) = 0 /\ Cardinality(G) = 0
    BY ONLY <1>6, <2>2, <2>3, <2>5
  <2>4. mem_map[p] = Cardinality(On(At, p))
    BY <1>5, <1>7 DEF Acc
  <2> QED
    BY ONLY <1>1, <2>4, <2>6
<1>8. ASSUME NEW t \in Tasks, NEW k \in Keys, Ow[t][k] = p
      PROVE  mem_map[p] = Refs
  <2>1. mem_map[p] = 1 /\ On(At, p) = {}
    BY <1>5, <1>8 DEF Acc, IsOwned
  <2>2. \A u \in Tasks, l \in Keys : Ow[u][l] = p => u = t /\ l = k
    BY <1>5, <1>8 DEF Acc
  <2>3. Cardinality(E) = 0
    BY <1>1, <1>6, <2>1
  <2>8. G = {}
    BY <1>5, <1>8, <1>11 DEF Acc
  <2>4. CASE k = -1
    <3>1. D = {}
      BY <1>2, <2>2, <2>4, KeysAre
    <3>2. T = {t} /\ L = {} /\ S = {}
      BY <1>2, <1>3, <1>4, <1>8, <2>2, <2>4, KeysAre
    <3>3. Cardinality(D) = 0 /\ Cardinality(T) = 1 /\ Cardinality(L) = 0
          /\ Cardinality(S) = 0 /\ Cardinality(G) = 0
      BY ONLY <1>6, <2>8, <3>1, <3>2
    <3> QED
      BY ONLY <2>1, <2>3, <3>3
  <2>5. CASE k = 0
    <3>1. D = {}
      BY <1>2, <2>2, <2>5, KeysAre
    <3>2. T = {} /\ L = {t} /\ S = {}
      BY <1>2, <1>3, <1>4, <1>8, <2>2, <2>5, KeysAre
    <3>3. Cardinality(D) = 0 /\ Cardinality(T) = 0 /\ Cardinality(L) = 1
          /\ Cardinality(S) = 0 /\ Cardinality(G) = 0
      BY ONLY <1>6, <2>8, <3>1, <3>2
    <3> QED
      BY ONLY <2>1, <2>3, <3>3
  <2>6. CASE k \in Dirs
    <3>1. D = {<<t, k>>}
      <4>1. <<t, k>> \in D
        BY <1>2, <1>8, <2>6
      <4>2. ASSUME NEW x \in D PROVE x = <<t, k>>
        <5>1. x[1] \in Tasks /\ x[2] \in Dirs /\ x = <<x[1], x[2]>>
          BY <1>2
        <5>2. Ow[x[1]][x[2]] = p /\ x[2] \in Keys
          BY <1>2, <5>1, KeysAre
        <5>3. x[1] = t /\ x[2] = k
          BY <2>2, <5>1, <5>2
        <5> QED
          BY <5>1, <5>3
      <4> QED
        BY <4>1, <4>2
    <3>2. T = {} /\ L = {} /\ S = {}
      BY <1>2, <1>3, <1>4, <2>2, <2>6, KeysAre
    <3>3. Cardinality(D) = 1 /\ Cardinality(T) = 0 /\ Cardinality(L) = 0
          /\ Cardinality(S) = 0 /\ Cardinality(G) = 0
      BY ONLY <1>6, <2>8, <3>1, <3>2
    <3> QED
      BY ONLY <2>1, <2>3, <3>3
  <2>7. CASE k = -2
    <3>1. D = {}
      BY <1>2, <2>2, <2>7, KeysAre
    <3>2. T = {} /\ L = {} /\ S = {t}
      BY <1>2, <1>3, <1>4, <1>8, <2>2, <2>7, KeysAre
    <3>3. Cardinality(D) = 0 /\ Cardinality(T) = 0 /\ Cardinality(L) = 0
          /\ Cardinality(S) = 1 /\ Cardinality(G) = 0
      BY ONLY <1>6, <2>8, <3>1, <3>2
    <3> QED
      BY ONLY <2>1, <2>3, <3>3
  <2> QED
    BY <2>4, <2>5, <2>6, <2>7, KeysAre
<1>12. ASSUME p \in lost PROVE mem_map[p] = Refs
  <2>1. mem_map[p] = 1 /\ On(At, p) = {} /\ \A t \in Tasks, k \in Keys : Ow[t][k] # p
    BY <1>5, <1>12 DEF Acc, IsOwned
  <2>2. D = {} /\ G = {p}
    BY <1>2, <1>10, <1>12, <2>1, KeysAre
  <2>3. T = {} /\ L = {} /\ S = {}
    BY <1>2, <1>3, <1>4, <2>1, KeysAre
  <2>4. Cardinality(E) = 0
    BY <1>1, <1>6, <2>1
  <2>5. /\ Cardinality(D) = 0 /\ Cardinality(T) = 0 /\ Cardinality(L) = 0
        /\ Cardinality(S) = 0 /\ Cardinality(G) = 1
    BY ONLY <1>6, <2>2, <2>3
  <2> QED
    BY ONLY <2>1, <2>4, <2>5
<1>9. mem_map[p] = Refs
  <2>1. CASE p \in lost
    BY <1>12, <2>1
  <2>2. CASE p \notin lost
    BY <1>7, <1>8, <2>2 DEF IsOwned
  <2> QED
    BY <2>1, <2>2
<1> QED
  BY <1>9 DEF E, D, T, L, S, G

LEMMA WritableCountsOne == IInv => WritableIsPrivate
<1> SUFFICES ASSUME IInv, NEW t \in Tasks, NEW a \in Addrs, pte[t][a] # NoPage, pte[t][a].w
             PROVE  pte[t][a].page # LOW /\ mem_map[pte[t][a].page] = 1
  BY DEF WritableIsPrivate, Mapped
<1>1. PICK p : p = pte[t][a].page
  OBVIOUS
<1>2. p \in Pages /\ p # LOW
  BY <1>1, OnlyHere DEF IInv, Private
<1>3. \A u \in Tasks, b \in Addrs : pte[u][b] # NoPage /\ pte[u][b].page = p => u = t
  BY <1>1 DEF IInv, Private
<1>4. p # NoPage
  BY <1>2, NoPageAssumption
<1>5. \A u \in Tasks, b \in Addrs : At[u][b] = p => u = t
  BY <1>3, <1>4, AtIs
<1>6. At[t][a] = p
  BY <1>1, AtIs
<1>7. On(At, p) = {t}
  BY <1>5, <1>6 DEF On
<1>8. ~IsOwned(Ow, lost, p) /\ mem_map[p] = Cardinality(On(At, p))
  BY <1>2, <1>7 DEF IInv, Acc
<1> QED
  BY <1>1, <1>2, <1>7, <1>8, FS_Singleton

(* mem_map[] counts the references to every page exactly and in a byte,    *)
(* whatever tasks fork, share, fault, exec, fail and exit; a page that can *)
(* be written is private; the dead hold nothing.  A page without reference *)
(* that is not free is one copy_strings() had when its task ran out of     *)
(* memory, and nothing else loses pages.                                   *)
THEOREM Accounted == Spec => []PagesAccounted
<1>1. ASSUME IInv PROVE PagesAccounted
  <2>1. \A p \in Pages : mem_map[p] \in 0 .. 255
    BY <1>1, CountsFit DEF IInv
  <2>2. TypeOK
    BY <1>1, <2>1 DEF IInv, Types, TypeOK
  <2>3. DeadHoldNothing
    BY <1>1 DEF IInv, PlaceOK, DeadHoldNothing
  <2> QED
    BY <1>1, <2>2, <2>3, CountsAreRefs, WritableCountsOne DEF PagesAccounted
<1> QED
  BY <1>1, Invariance, PTL

(* Copy-on-write is invisible: no write of another task changes what a     *)
(* task finds where it wrote, or where its parent had.                     *)
THEOREM CopyOnWrite == Spec => []OwnWrites
<1>1. IInv => OwnWrites
  BY DEF IInv
<1> QED
  BY <1>1, Invariance, PTL
=============================================================================
