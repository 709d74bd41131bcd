--------------------------- MODULE HardDiskProofs ---------------------------
(***************************************************************************)
(* Proofs about the request queue and the hard disk driver on top of it,   *)
(* for any number of slots, processes, blocks and errors.                  *)
(*                                                                         *)
(* The driver's steps are steps of the queue (HdStepIsQueueStep), so what  *)
(* holds of the queue by itself holds under the driver.  QueueSound is not *)
(* inductive: that add_request() breaks the order at most once rests on    *)
(* the requests being for different blocks (OneOwner), and that a sleeper  *)
(* no request has overtaken has somebody to wake it rests on what the      *)
(* steps of sleep_on() find in the queue while interrupts come between     *)
(* them (EntryOK).  EndedIsComplete rests on CURRENT and the command in    *)
(* the drive agreeing on how far the transfer is.                          *)
(***************************************************************************)
EXTENDS HardDisk, SequenceTheorems, FiniteSetTheorems, TLAPS

-----------------------------------------------------------------------------
(* Sets of numbers.                                                        *)

(* The least element of a set of natural numbers.                          *)
LEMMA HasLeast ==
  ASSUME NEW S \in SUBSET Nat, S # {}
  PROVE  \E x \in S : \A y \in S : x <= y
<1>1. PICK x \in S : \A y \in S : ~(<<y, x>> \in OpToRel(<, Nat))
  BY NatLessThanWellFounded, WFMin, Zenon
<1>2. \A y \in S : y \in Nat /\ x \in Nat /\ ~(y < x)
  BY <1>1, Zenon DEF OpToRel
<1> QED
  BY <1>2

(* The greatest element of a bounded set of natural numbers.               *)
LEMMA HasGreatest ==
  ASSUME NEW n \in Nat, NEW S \in SUBSET (0 .. n), S # {}
  PROVE  \E x \in S : \A y \in S : y <= x
<1> DEFINE T == {m \in 0 .. n : n - m \in S}
<1>1. \A y \in S : n - y \in T /\ y \in 0 .. n
  OBVIOUS
<1>2. T \in SUBSET Nat
  OBVIOUS
<1>3. T # {}
  <2>1. PICK y \in S : n - y \in T
    BY <1>1
  <2> HIDE DEF T
  <2> QED
    BY <2>1
<1>4. PICK m \in T : \A y \in T : m <= y
  BY ONLY <1>2, <1>3, HasLeast
<1>5. m \in 0 .. n /\ n - m \in S
  OBVIOUS
<1> QED
  BY <1>1, <1>4, <1>5

(* A set has at most one element when any two of its elements are equal.   *)
LEMMA AtMostOne ==
  ASSUME NEW S, IsFiniteSet(S)
  PROVE  Cardinality(S) <= 1 <=> \A x, y \in S : x = y
<1>1. Cardinality(S) <= 1 <=> Cardinality(S) = 0 \/ Cardinality(S) = 1
  BY FS_CardinalityType
<1>2. (\A x, y \in S : x = y) <=> S = {} \/ \E m : S = {m}
  OBVIOUS
<1> QED
  BY <1>1, <1>2, FS_EmptySet, FS_Singleton

-----------------------------------------------------------------------------
(* The sequence InsertAt() builds, element by element.                     *)
LEMMA InsertAtProps ==
  ASSUME NEW S, NEW q \in Seq(S), NEW k \in 0 .. Len(q), NEW s \in S
  PROVE  /\ InsertAt(q, k + 1, s) \in Seq(S)
         /\ Len(InsertAt(q, k + 1, s)) = Len(q) + 1
         /\ \A i \in 1 .. Len(q) + 1 :
              InsertAt(q, k + 1, s)[i] =
                IF i <= k THEN q[i] ELSE IF i = k + 1 THEN s ELSE q[i - 1]
<1> DEFINE a == SubSeq(q, 1, k)
           b == SubSeq(q, k + 1, Len(q))
           r == InsertAt(q, k + 1, s)
<1>0. k \in Int /\ Len(q) \in Nat
  OBVIOUS
<1>1. a \in Seq(S) /\ Len(a) = k /\ \A i \in 1 .. k : a[i] = q[i]
  <2>1. \A i \in 1 .. k : q[i] \in S
    OBVIOUS
  <2> QED
    BY <2>1, SubSeqProperties
<1>2. b \in Seq(S) /\ Len(b) = Len(q) - k /\ \A i \in 1 .. Len(q) - k : b[i] = q[k + i]
  <2>1. \A i \in k + 1 .. Len(q) : q[i] \in S
    OBVIOUS
  <2>2. k + 1 \in Int /\ Len(q) \in Int
    OBVIOUS
  <2>3. /\ b \in Seq(S)
        /\ Len(b) = IF k + 1 <= Len(q) THEN Len(q) - (k + 1) + 1 ELSE 0
        /\ \A i \in 1 .. Len(q) - (k + 1) + 1 : b[i] = q[k + 1 + i - 1]
    BY <2>1, <2>2, SubSeqProperties
  <2>4. Len(b) = Len(q) - k
    BY <2>3, <1>0
  <2>5. ASSUME NEW i \in 1 .. Len(q) - k PROVE b[i] = q[k + i]
    <3>1. i \in 1 .. Len(q) - (k + 1) + 1 /\ k + 1 + i - 1 = k + i
      BY <1>0
    <3> QED
      BY <3>1, <2>3
  <2> QED
    BY <2>3, <2>4, <2>5
<1>3. r = (a \o <<s>>) \o b
  <2>1. (k + 1) - 1 = k
    BY <1>0
  <2> QED
    BY <2>1 DEF InsertAt
<1> HIDE DEF a, b, r
<1>4. /\ a \o <<s>> \in Seq(S) /\ Len(a \o <<s>>) = k + 1
      /\ \A i \in 1 .. k + 1 : (a \o <<s>>)[i] = IF i <= k THEN a[i] ELSE s
  BY <1>1, <1>0
<1>5. /\ r \in Seq(S) /\ Len(r) = Len(q) + 1
      /\ \A i \in 1 .. Len(q) + 1 :
           r[i] = IF i <= k + 1 THEN (a \o <<s>>)[i] ELSE b[i - (k + 1)]
  <2>1. \A i \in 1 .. (k + 1) + (Len(q) - k) : r[i] = IF i <= k + 1 THEN (a \o <<s>>)[i] ELSE b[i - (k + 1)]
    BY <1>2, <1>3, <1>4, ConcatProperties
  <2>2. (k + 1) + (Len(q) - k) = Len(q) + 1
    BY <1>0
  <2> QED
    BY <1>2, <1>3, <1>4, <2>1, <2>2, ConcatProperties
<1>6. ASSUME NEW i \in 1 .. Len(q) + 1
      PROVE  r[i] = IF i <= k THEN q[i] ELSE IF i = k + 1 THEN s ELSE q[i - 1]
  <2>1. CASE i <= k
    BY <2>1, <1>0, <1>1, <1>4, <1>5
  <2>2. CASE i = k + 1
    BY <2>2, <1>0, <1>4, <1>5
  <2>3. CASE i > k + 1
    <3>1. i - (k + 1) \in 1 .. Len(q) - k /\ k + (i - (k + 1)) = i - 1
      BY <2>3, <1>0
    <3>2. b[i - (k + 1)] = q[i - 1]
      BY <3>1, <1>2
    <3> QED
      BY <2>3, <1>0, <3>2, <1>5
  <2> QED
    BY <2>1, <2>2, <2>3, <1>0
<1> QED
  BY <1>5, <1>6 DEF r


-----------------------------------------------------------------------------
(* IN_ORDER() compares any two requests for different blocks.              *)
LEMMA OrderTotal ==
  ASSUME NEW a \in Requests, NEW b \in Requests, a.blk # b.blk
  PROVE  IN_ORDER(a, b) \/ IN_ORDER(b, a)
<1>1. /\ a.cmd \in {0, 1} /\ b.cmd \in {0, 1}
      /\ a.blk \in Blocks /\ b.blk \in Blocks
  BY DEF Requests, READ, WRITE
<1>2. /\ a.blk \in [dev : Nat, sector : Nat]
      /\ b.blk \in [dev : Nat, sector : Nat]
  BY <1>1, BlocksAssumption
<1>3. a.blk.dev # b.blk.dev \/ a.blk.sector # b.blk.sector
  BY <1>2
<1> QED
  BY <1>1, <1>2, <1>3 DEF IN_ORDER

(* The list of add_request() with req linked in behind element k.          *)
Linked(q, n, k, req) ==
  [i \in 1 .. n + 1 |-> IF i <= k THEN q[i] ELSE IF i = k + 1 THEN req ELSE q[i - 1]]

Broken(q, i) == ~IN_ORDER(q[i], q[i + 1])

(* Where add_request() links a request in, it breaks the order at most as  *)
(* often as before.                                                        *)
LEMMA ElevatorInsert ==
  ASSUME NEW n \in Nat, NEW q \in [1 .. n -> Requests], NEW req \in Requests,
         \A i \in 1 .. n : q[i].blk # req.blk,
         \A i, j \in 1 .. n - 1 : Broken(q, i) /\ Broken(q, j) => i = j,
         NEW k \in 0 .. n,
         \/ k \in 1 .. n - 1 /\ Fits(q, k, req)
         \/ k = n /\ \A i \in 1 .. n - 1 : ~Fits(q, i, req)
  PROVE  \A i, j \in 1 .. n :
           Broken(Linked(q, n, k, req), i) /\ Broken(Linked(q, n, k, req), j) => i = j
<1> DEFINE r == Linked(q, n, k, req)
<1>0. \A i \in 1 .. n + 1 :
        r[i] = IF i <= k THEN q[i] ELSE IF i = k + 1 THEN req ELSE q[i - 1]
  BY DEF Linked
<1> HIDE DEF r
<1>1. CASE k \in 1 .. n - 1 /\ Fits(q, k, req)
  <2> DEFINE old(i) == IF i <= k THEN i ELSE i - 1
  <2>1. ASSUME NEW i \in 1 .. n, Broken(r, i)
        PROVE  i # k + 1 /\ old(i) \in 1 .. n - 1 /\ Broken(q, old(i))
    <3>1. CASE i < k
      <4>1. r[i] = q[i] /\ r[i + 1] = q[i + 1]
        BY <3>1, <1>0, <1>1
      <4> QED
        BY <3>1, <4>1, <1>1, <2>1 DEF Broken
    <3>2. CASE i = k
      <4>1. r[i] = q[k] /\ r[i + 1] = req
        BY <3>2, <1>0, <1>1
      <4> QED
        BY <3>2, <4>1, <1>1, <2>1 DEF Broken, Fits
    <3>3. CASE i = k + 1
      <4>1. r[i] = req /\ r[i + 1] = q[k + 1]
        BY <3>3, <1>0, <1>1
      <4> QED
        BY <3>3, <4>1, <1>1, <2>1 DEF Broken, Fits
    <3>4. CASE i > k + 1
      <4>1. r[i] = q[i - 1] /\ r[i + 1] = q[(i + 1) - 1] /\ (i + 1) - 1 = (i - 1) + 1
        BY <3>4, <1>0, <1>1
      <4>2. r[i + 1] = q[(i - 1) + 1]
        BY <4>1
      <4> QED
        BY <3>4, <4>1, <4>2, <1>1, <2>1 DEF Broken
    <3> QED
      BY <3>1, <3>2, <3>3, <3>4
  <2>2. ASSUME NEW i \in 1 .. n, NEW j \in 1 .. n, Broken(r, i), Broken(r, j)
        PROVE  i = j
    <3>1. old(i) = old(j) /\ i # k + 1 /\ j # k + 1
      BY <2>1, <2>2
    <3> QED
      BY <3>1
  <2> QED
    BY <2>2 DEF r
<1>2. CASE k = n /\ \A i \in 1 .. n - 1 : ~Fits(q, i, req)
  <2>1. ASSUME NEW i \in 1 .. n - 1
        PROVE  Broken(r, i) <=> Broken(q, i)
    BY <1>0, <1>2 DEF Broken
  <2>2. ASSUME NEW j \in 1 .. n - 1, Broken(q, j), Broken(r, n) PROVE FALSE
    <3>1. r[n] = q[n] /\ r[n + 1] = req
      BY <1>0, <1>2, <2>2
    <3>2. IN_ORDER(req, q[n])
      BY <2>2, <3>1, OrderTotal DEF Broken
    <3> DEFINE above == {k2 \in j + 1 .. n : IN_ORDER(req, q[k2])}
    <3>3. above \in SUBSET Nat /\ n \in above
      BY <3>2
    <3>4. PICK m \in above : \A k2 \in above : m <= k2
      <4> HIDE DEF above
      <4> QED
        BY <3>3, HasLeast
    <3>5. m \in j + 1 .. n /\ IN_ORDER(req, q[m])
      BY <3>4
    <3>6. CASE m = j + 1
      <4>1. Fits(q, j, req)
        BY <2>2, <3>5, <3>6 DEF Fits, Broken
      <4> QED
        BY <1>2, <4>1
    <3>7. CASE m > j + 1
      <4>1. m - 1 \in j + 1 .. n /\ m - 1 \notin above /\ m - 1 \in 1 .. n - 1
        BY <3>4, <3>7
      <4>2. ~IN_ORDER(req, q[m - 1])
        BY <4>1
      <4>3. q[m - 1] \in Requests /\ q[m - 1].blk # req.blk
        BY <4>1
      <4>4. IN_ORDER(q[m - 1], req)
        BY <4>2, <4>3, OrderTotal
      <4>5. (m - 1) + 1 = m
        BY <3>5
      <4>6. Fits(q, m - 1, req)
        BY <3>5, <4>4, <4>5 DEF Fits
      <4> QED
        BY <1>2, <4>1, <4>6
    <3> QED
      BY <3>5, <3>6, <3>7
  <2>3. ASSUME NEW i \in 1 .. n, NEW j \in 1 .. n, Broken(r, i), Broken(r, j)
        PROVE  i = j
    BY <2>1, <2>2, <2>3
  <2> QED
    BY <2>3 DEF r
<1> QED
  BY <1>1, <1>2
-----------------------------------------------------------------------------
(* The inductive invariant of the request queue.                           *)

(* The requests in the order of the list.                                  *)
Listed == [i \in 1 .. Len(queue) |-> request[queue[i]]]

(* OneWrap without counting: any two breaks of the order are the same.     *)
OneBreak ==
  \A i, j \in 1 .. Len(queue) - 1 : Broken(Listed, i) /\ Broken(Listed, j) => i = j

(* lock_buffer(): no two requests, placed or waiting, are for one block.   *)
OneOwner ==
  /\ \A s, u \in Slots :
       request[s] # NoReq /\ request[u] # NoReq /\ request[s].blk = request[u].blk => s = u
  /\ \A s \in Slots, p \in Procs :
       request[s] # NoReq /\ wanted[p] # NoReq => request[s].blk # wanted[p].blk
  /\ \A p, q \in Procs :
       wanted[p] # NoReq /\ wanted[q] # NoReq /\ wanted[p].blk = wanted[q].blk => p = q

(* Whoever is inside make_request() without a slot wants one.              *)
WantedInside == \A p \in Procs : wanted[p] # NoReq <=> pc[p] # "idle"

(* The kernel is not preempted between the scan and the sleep.             *)
OneScan == \A p, q \in Procs : Entering(p) /\ Entering(q) => p = q

(* On the way from the scan to the sleep: if no request has ended, there   *)
(* are some under way, and sleep_on() finds in the queue what it stored.   *)
(* An interrupt in between can only have emptied the wait queue.           *)
EntryOK ==
  \A p \in Procs :
    /\ Entering(p) /\ p \notin overtaken => queue # <<>>
    /\ pc[p] = "saved" => head = NoProc \/ tmp[p] = head
    /\ pc[p] = "named" /\ p \notin overtaken => head = p

(* tmp is a variable of sleep_on().                                        *)
TmpInside == \A p \in Procs : pc[p] \in {"idle", "scan"} => tmp[p] = NoProc

QInv ==
  /\ TypeOK
  /\ ListIsArray
  /\ OneBreak
  /\ OneOwner
  /\ WantedInside
  /\ OneScan
  /\ EntryOK
  /\ TmpInside
  /\ SleeperHasWaker

(* A list that holds every slot a write may take is that long.             *)
LEMMA FullList ==
  ASSUME TypeOK, ListIsArray, \A s \in 1 .. WriteSlots : request[s] # NoReq
  PROVE  Len(queue) >= WriteSlots
<1>1. WriteSlots \in Nat /\ WriteSlots <= NR_REQUEST
  BY SlotsAssumption DEF WriteSlots
<1>2. queue \in Seq(Slots) /\ Len(queue) \in Nat /\ DOMAIN queue = 1 .. Len(queue)
  BY DEF TypeOK
<1>3. queue \in Surjection(1 .. Len(queue), Range(queue))
  BY <1>2 DEF Surjection, Range
<1>4. IsFiniteSet(1 .. Len(queue)) /\ Cardinality(1 .. Len(queue)) = Len(queue)
  BY <1>2, FS_Interval
<1>5. IsFiniteSet(Range(queue)) /\ Cardinality(Range(queue)) <= Len(queue)
  BY <1>3, <1>4, FS_Surjection
<1>6. 1 .. WriteSlots \in SUBSET Range(queue)
  BY <1>1, SlotsAssumption DEF ListIsArray, Slots
<1>7. Cardinality(1 .. WriteSlots) = WriteSlots
  BY <1>1, FS_Interval
<1>8. Cardinality(1 .. WriteSlots) <= Cardinality(Range(queue))
  BY <1>5, <1>6, FS_Subset
<1>9. Cardinality(Range(queue)) \in Nat
  BY <1>5, FS_CardinalityType
<1> QED
  BY <1>1, <1>2, <1>5, <1>7, <1>8, <1>9

(* blk_dev_init()'s state.                                                 *)
LEMMA QInit == Init => QInv
<1> SUFFICES ASSUME Init PROVE QInv
  OBVIOUS
<1>1. Len(queue) = 0 /\ Range(queue) = {} /\ DOMAIN queue = {}
  BY DEF Init, Range
<1>2. TypeOK
  BY SlotsAssumption DEF Init, TypeOK
<1>3. ListIsArray
  BY <1>1 DEF Init, ListIsArray, IsInjective
<1>4. OneBreak
  BY <1>1 DEF OneBreak
<1> QED
  BY <1>2, <1>3, <1>4
     DEF Init, QInv, OneOwner, WantedInside, OneScan, EntryOK, Entering,
         TmpInside, SleeperHasWaker

(* Where add_request() links a request in: where it fits, or at the end.   *)
LEMMA AddRequestPlace ==
  ASSUME Len(queue) \in Nat, NEW s, NEW req
  PROVE  \E k \in 0 .. Len(queue) :
           /\ AddRequest(s, req) = InsertAt(queue, k + 1, s)
           /\ \/ k \in 1 .. Len(queue) - 1 /\ Fits(Listed, k, req)
              \/ k = Len(queue) /\ \A i \in 1 .. Len(queue) - 1 : ~Fits(Listed, i, req)
<1> DEFINE n == Len(queue)
           fits == {i \in 1 .. n - 1 : Fits(Listed, i, req)}
           after == IF fits = {} THEN n ELSE CHOOSE i \in fits : \A j \in fits : i <= j
<1>1. /\ after \in 0 .. n
      /\ \/ after \in 1 .. n - 1 /\ Fits(Listed, after, req)
         \/ after = n /\ \A i \in 1 .. n - 1 : ~Fits(Listed, i, req)
  <2>1. CASE fits = {}
    BY <2>1
  <2>2. CASE fits # {}
    <3>1. fits \in SUBSET Nat
      OBVIOUS
    <3>2. \E i \in fits : \A j \in fits : i <= j
      <4> HIDE DEF fits
      <4> QED
        BY <2>2, <3>1, HasLeast
    <3>3. after \in fits
      BY <2>2, <3>2
    <3>4. after \in 1 .. n - 1 /\ Fits(Listed, after, req)
      <4> HIDE DEF after
      <4> QED
        BY <3>3
    <3>5. after \in 0 .. n
      <4> HIDE DEF after
      <4> QED
        BY <3>4
    <3> QED
      BY <3>4, <3>5
  <2> QED
    BY <2>1, <2>2
<1>2. AddRequest(s, req) = InsertAt(queue, after + 1, s)
  BY DEF AddRequest, Listed
<1> HIDE DEF after
<1> QED
  BY <1>1, <1>2

LEMMA QInvBreak == QInv => OneBreak
  BY DEF QInv

(* A process that leaves sleep_on(), or was never in it, passes the        *)
(* wake-up on to its tmp and scans the slots.                              *)
LEMMA PassedOn ==
  ASSUME QInv, NEW p \in Procs, Schedulable, pc[p] \in {"idle", "woken"},
         NEW at \in {"idle", "scan"},
         pc' = [Wake(tmp[p]) EXCEPT ![p] = at],
         tmp' = [tmp EXCEPT ![p] = NoProc],
         overtaken' = overtaken \ {p, tmp[p]},
         UNCHANGED head,
         queue' # <<>>
  PROVE  OneScan' /\ EntryOK' /\ TmpInside' /\ SleeperHasWaker'
<1>1. /\ pc \in [Procs -> {"idle", "scan", "saved", "named", "sleep", "woken"}]
      /\ tmp \in [Procs -> Procs \cup {NoProc}]
  BY DEF QInv, TypeOK
<1>2. /\ pc'[p] = at /\ tmp'[p] = NoProc
      /\ \A q \in Procs \ {p} :
           /\ tmp'[q] = tmp[q]
           /\ pc'[q] = IF q = tmp[p] /\ pc[q] = "sleep" THEN "woken" ELSE pc[q]
  BY <1>1 DEF Wake
<1>3. \A q \in Procs \ {p} : ~Entering(q)'
  BY <1>1, <1>2 DEF Entering, Schedulable
<1>4. OneScan'
  BY <1>3 DEF OneScan
<1>5. EntryOK'
  BY <1>2, <1>3 DEF EntryOK, Entering
<1>6. TmpInside'
  BY <1>1, <1>2 DEF QInv, TmpInside
<1>7. ASSUME NEW q \in Procs, pc'[q] = "sleep", q \notin overtaken'
      PROVE  (head' = q /\ queue' # <<>>) \/ \E u \in Procs \ {q} : tmp'[u] = q
  <2>1. q # p /\ q # tmp[p] /\ pc[q] = "sleep" /\ q \notin overtaken
    BY <1>1, <1>2, <1>7
  <2>2. head = q \/ \E u \in Procs \ {q} : tmp[u] = q
    BY <2>1 DEF QInv, SleeperHasWaker
  <2> QED
    BY <1>2, <2>1, <2>2
<1> QED
  BY <1>4, <1>5, <1>6, <1>7 DEF SleeperHasWaker

(* make_request() that finds a slot: add_request() keeps the list sound.   *)
LEMMA LinkOK ==
  ASSUME QInv, NEW p \in Procs, NEW req \in Requests, NEW s \in Slots,
         request[s] = NoReq,
         \A u \in Slots : request[u] # NoReq => request[u].blk # req.blk,
         \A q \in Procs \ {p} : wanted[q] # NoReq => wanted[q].blk # req.blk,
         queue' = AddRequest(s, req),
         request' = [request EXCEPT ![s] = req],
         wanted' = [wanted EXCEPT ![p] = NoReq],
         pc' = [Wake(tmp[p]) EXCEPT ![p] = "idle"],
         tmp' = [tmp EXCEPT ![p] = NoProc],
         overtaken' = overtaken \ {p, tmp[p]},
         UNCHANGED head,
         pc[p] \in {"idle", "woken"},
         Schedulable
  PROVE  QInv'
<1> DEFINE n == Len(queue)
<1>0. queue \in Seq(Slots) /\ Len(queue) \in Nat
  BY DEF QInv, TypeOK
<1>1. /\ queue \in Seq(Slots) /\ n \in Nat /\ DOMAIN queue = 1 .. n
      /\ request \in [Slots -> Requests \cup {NoReq}]
      /\ \A i \in 1 .. n : queue[i] \in Slots /\ request[queue[i]] # NoReq
      /\ IsInjective(queue) /\ Range(queue) = {u \in Slots : request[u] # NoReq}
  BY DEF QInv, TypeOK, ListIsArray, Range
<1>3. PICK k \in 0 .. Len(queue) :
        /\ queue' = InsertAt(queue, k + 1, s)
        /\ \/ k \in 1 .. n - 1 /\ Fits(Listed, k, req)
           \/ k = n /\ \A i \in 1 .. n - 1 : ~Fits(Listed, i, req)
  BY <1>0, AddRequestPlace
<1>4. /\ queue' \in Seq(Slots) /\ Len(queue') = n + 1
      /\ \A i \in 1 .. n + 1 :
           queue'[i] = IF i <= k THEN queue[i]
                       ELSE IF i = k + 1 THEN s ELSE queue[i - 1]
  <2>1. /\ InsertAt(queue, k + 1, s) \in Seq(Slots)
        /\ Len(InsertAt(queue, k + 1, s)) = Len(queue) + 1
        /\ \A i \in 1 .. Len(queue) + 1 :
             InsertAt(queue, k + 1, s)[i] =
               IF i <= k THEN queue[i] ELSE IF i = k + 1 THEN s ELSE queue[i - 1]
    BY <1>0, InsertAtProps
  <2>2. queue' = InsertAt(queue, k + 1, s)
    BY <1>3
  <2> QED
    BY <2>1, <2>2
<1>5. DOMAIN queue' = 1 .. n + 1
  BY <1>4
<1>6. \A i \in 1 .. n : queue[i] # s
  BY <1>1
<1>7. IsInjective(queue')
  <2>1. \A i, j \in 1 .. n : queue[i] = queue[j] => i = j
    BY <1>1 DEF IsInjective
  <2>2. ASSUME NEW i \in 1 .. n + 1, NEW j \in 1 .. n + 1, queue'[i] = queue'[j]
        PROVE  i = j
    BY <1>1, <1>4, <1>6, <2>1, <2>2
  <2> QED
    BY <1>5, <2>2 DEF IsInjective
<1>8. Range(queue') = {u \in Slots : request'[u] # NoReq}
  <2>1. ASSUME NEW u \in Slots, request'[u] # NoReq PROVE \E i \in 1 .. n + 1 : queue'[i] = u
    <3>1. CASE u = s
      <4>1. k + 1 \in 1 .. n + 1 /\ ~(k + 1 <= k)
        BY <1>0
      <4> QED
        BY <3>1, <4>1, <1>4
    <3>2. CASE u # s
      <4>1. u \in Range(queue)
        BY <1>1, <2>1, <3>2
      <4>2. PICK i \in 1 .. n : queue[i] = u
        BY <1>1, <4>1 DEF Range
      <4>3. CASE i <= k
        BY <4>2, <4>3, <1>1, <1>4
      <4>4. CASE i > k
        <5>1. i + 1 \in 1 .. n + 1 /\ ~(i + 1 <= k) /\ i + 1 # k + 1 /\ (i + 1) - 1 = i
          BY <4>4, <1>0
        <5>2. queue'[i + 1] = u
          BY <4>2, <5>1, <1>4
        <5> QED
          BY <5>1, <5>2
      <4> QED
        BY <4>3, <4>4, <1>0
    <3> QED
      BY <3>1, <3>2
  <2>2. ASSUME NEW i \in 1 .. n + 1 PROVE queue'[i] \in Slots /\ request'[queue'[i]] # NoReq
    <3>1. \A j \in 1 .. n : request'[queue[j]] # NoReq
      BY <1>1, <1>6
    <3>2. request'[s] # NoReq
      BY <1>1, NoReqAssumption
    <3>3. \/ i \in 1 .. n /\ queue'[i] = queue[i]
          \/ queue'[i] = s
          \/ i - 1 \in 1 .. n /\ queue'[i] = queue[i - 1]
      BY ONLY <1>1, <1>4, k \in 0 .. Len(queue), i \in 1 .. n + 1
    <3> QED
      BY <1>1, <3>1, <3>2, <3>3
  <2> QED
    BY <1>5, <2>1, <2>2 DEF Range
<1>9. TypeOK'
  BY <1>1, <1>4 DEF QInv, TypeOK, Wake
<1>10. OneBreak'
  <2>1. Listed \in [1 .. n -> Requests]
    BY <1>1 DEF Listed
  <2>2. \A i \in 1 .. n : Listed[i].blk # req.blk
    BY <1>1 DEF Listed
  <2>3. \A i, j \in 1 .. n - 1 : Broken(Listed, i) /\ Broken(Listed, j) => i = j
    <3>1. OneBreak
      BY QInvBreak, SMTT(30)
    <3> QED
      BY ONLY <3>1 DEF OneBreak, n
  <2>4. \A i, j \in 1 .. n : /\ Broken(Linked(Listed, n, k, req), i)
                            /\ Broken(Linked(Listed, n, k, req), j) => i = j
    BY <1>1, <1>3, <2>1, <2>2, <2>3, ElevatorInsert
  <2>5. Listed' = Linked(Listed, n, k, req)
    <3>1. ASSUME NEW i \in 1 .. n + 1
          PROVE  request'[queue'[i]] = IF i <= k THEN Listed[i]
                                       ELSE IF i = k + 1 THEN req ELSE Listed[i - 1]
      BY <1>1, <1>4, <1>6 DEF Listed
    <3>2. Len(queue') = n + 1
      BY <1>4
    <3>3. Listed' = [i \in 1 .. n + 1 |-> request'[queue'[i]]]
      BY <3>2 DEF Listed
    <3> QED
      BY <3>1, <3>3 DEF Linked
  <2>6. (n + 1) - 1 = n
    BY <1>1
  <2>7. Len(queue') = n + 1
    BY <1>4
  <2>8. \A i, j \in 1 .. Len(queue') - 1 : Broken(Listed', i) /\ Broken(Listed', j) => i = j
    BY ONLY <2>4, <2>5, <2>6, <2>7
  <2> QED
    BY ONLY <2>8 DEF OneBreak, Broken
<1>11. OneOwner'
  BY <1>1, NoReqAssumption DEF QInv, TypeOK, OneOwner
<1>12. WantedInside'
  BY DEF QInv, TypeOK, WantedInside, Wake
<1>13. OneScan' /\ EntryOK' /\ TmpInside' /\ SleeperHasWaker'
  <2>1. queue' # <<>>
    BY ONLY <1>1, <1>4
  <2> QED
    BY <2>1, PassedOn
<1> QED
  BY <1>7, <1>8, <1>9, <1>10, <1>11, <1>12, <1>13 DEF QInv, ListIsArray

(* make_request() that finds none: then requests are under way.            *)
LEMMA NoSlotOK ==
  ASSUME QInv, NEW p \in Procs, NEW req \in Requests,
         FreeSlots(req.cmd) = {},
         \A u \in Slots : request[u] # NoReq => request[u].blk # req.blk,
         \A q \in Procs \ {p} : wanted[q] # NoReq => wanted[q].blk # req.blk,
         wanted' = [wanted EXCEPT ![p] = req],
         pc' = [Wake(tmp[p]) EXCEPT ![p] = "scan"],
         tmp' = [tmp EXCEPT ![p] = NoProc],
         overtaken' = overtaken \ {p, tmp[p]},
         UNCHANGED <<request, queue, head>>,
         pc[p] \in {"idle", "woken"},
         Schedulable
  PROVE  QInv'
<1>1. WriteSlots \in Nat /\ WriteSlots <= NR_REQUEST /\ NR_REQUEST \in Nat
  BY SlotsAssumption DEF WriteSlots
<1>2. \A s \in 1 .. WriteSlots : request[s] # NoReq
  BY <1>1 DEF FreeSlots, Limit
<1>3. Len(queue) >= WriteSlots /\ Len(queue) \in Nat
  BY <1>2, FullList DEF QInv, TypeOK
<1>4. TypeOK'
  BY DEF QInv, TypeOK, Wake
<1>5. ListIsArray' /\ OneBreak'
  BY DEF QInv, ListIsArray, OneBreak, Listed
<1>6. OneOwner'
  BY DEF QInv, TypeOK, OneOwner
<1>7. WantedInside'
  BY NoReqAssumption DEF QInv, TypeOK, WantedInside, Wake
<1>8. OneScan' /\ EntryOK' /\ TmpInside' /\ SleeperHasWaker'
  <2>1. Len(queue) > 0
    BY <1>1, <1>3, SlotsAssumption
  <2>2. queue' # <<>>
    BY <2>1
  <2> QED
    BY <2>2, PassedOn
<1> QED
  BY <1>4, <1>5, <1>6, <1>7, <1>8 DEF QInv

(* The rest of make_request() after the scan, for a request that is alone  *)
(* with its block.                                                         *)
LEMMA PlaceOK ==
  ASSUME QInv, NEW p \in Procs, NEW req \in Requests, NEW ahead \in BOOLEAN,
         \A u \in Slots : request[u] # NoReq => request[u].blk # req.blk,
         \A q \in Procs \ {p} : wanted[q] # NoReq => wanted[q].blk # req.blk,
         Place(p, req, ahead), Schedulable, pc[p] \in {"idle", "woken"}
  PROVE  QInv'
<1>1. CASE FreeSlots(req.cmd) = {}
  BY <1>1, NoSlotOK DEF Place
<1>2. CASE FreeSlots(req.cmd) # {}
  <2> DEFINE s == CHOOSE x \in FreeSlots(req.cmd) :
                    \A y \in FreeSlots(req.cmd) : y <= x
  <2>1. req.cmd \in {READ, WRITE} /\ Limit(req.cmd) \in 0 .. NR_REQUEST
    BY SlotsAssumption DEF Requests, Limit, WriteSlots
  <2>2. FreeSlots(req.cmd) \in SUBSET (0 .. NR_REQUEST) /\ NR_REQUEST \in Nat
    BY <2>1, SlotsAssumption DEF FreeSlots
  <2>3. s \in FreeSlots(req.cmd)
    BY <1>2, <2>2, HasGreatest
  <2>4. s \in Slots /\ request[s] = NoReq
    BY <2>1, <2>3, SlotsAssumption DEF FreeSlots, Slots
  <2>5. /\ queue' = AddRequest(s, req)
        /\ request' = [request EXCEPT ![s] = req]
        /\ wanted' = [wanted EXCEPT ![p] = NoReq]
        /\ pc' = [Wake(tmp[p]) EXCEPT ![p] = "idle"]
        /\ tmp' = [tmp EXCEPT ![p] = NoProc]
        /\ overtaken' = overtaken \ {p, tmp[p]}
        /\ UNCHANGED head
    BY <1>2 DEF Place
  <2> HIDE DEF s
  <2> QED
    BY <2>4, <2>5, LinkOK
<1> QED
  BY <1>1, <1>2

(* make_request() on a buffer that was not locked.                         *)
LEMMA MakeRequestOK ==
  ASSUME QInv, NEW p \in Procs, NEW cmd \in {READ, WRITE}, NEW b \in Blocks,
         NEW ahead \in BOOLEAN, MakeRequest(p, cmd, b, ahead)
  PROVE  QInv'
<1> DEFINE req == [cmd |-> cmd, blk |-> b]
<1>1. req \in Requests /\ req.blk = b
  BY DEF Requests
<1>2. /\ \A u \in Slots : request[u] # NoReq => request[u].blk # b
      /\ \A q \in Procs : wanted[q] # NoReq => wanted[q].blk # b
  BY DEF MakeRequest, Locked
<1>3. Place(p, req, ahead) /\ Schedulable /\ pc[p] = "idle"
  BY DEF MakeRequest
<1> HIDE DEF req
<1> QED
  BY <1>1, <1>2, <1>3, PlaceOK

(* A woken process tries again.                                            *)
LEMMA RepeatOK ==
  ASSUME QInv, NEW p \in Procs, Repeat(p)
  PROVE  QInv'
<1>1. wanted[p] \in Requests /\ wanted[p] # NoReq
  BY DEF QInv, TypeOK, WantedInside, Repeat
<1>2. /\ \A u \in Slots : request[u] # NoReq => request[u].blk # wanted[p].blk
      /\ \A q \in Procs \ {p} : wanted[q] # NoReq => wanted[q].blk # wanted[p].blk
  BY <1>1 DEF QInv, OneOwner
<1>3. Place(p, wanted[p], FALSE) /\ Schedulable /\ pc[p] = "woken"
  BY DEF Repeat
<1> QED
  BY <1>1, <1>2, <1>3, PlaceOK

(* The assignments of sleep_on(): the older sleepers stay named, and who   *)
(* was not overtaken falls asleep at the head.                             *)
LEMMA SleepOK ==
  ASSUME QInv, NEW p \in Procs, Sleep(p)
  PROVE  QInv'
<1> USE DEF Sleep, SaveHead, NameSelf, FallAsleep
<1>1. TypeOK'
  BY DEF QInv, TypeOK
<1>2. ListIsArray' /\ OneBreak' /\ OneOwner'
  BY DEF QInv, ListIsArray, OneBreak, Listed, OneOwner
<1>3. WantedInside' /\ OneScan' /\ TmpInside'
  BY DEF QInv, TypeOK, WantedInside, OneScan, Entering, TmpInside
<1>4. EntryOK'
  BY DEF QInv, TypeOK, OneScan, Entering, EntryOK
<1>5. SleeperHasWaker'
  <2>1. CASE SaveHead(p)
    BY <2>1, NoProcAssumption DEF QInv, TypeOK, TmpInside, SleeperHasWaker
  <2>2. CASE NameSelf(p)
    BY <2>2, NoProcAssumption DEF QInv, TypeOK, EntryOK, SleeperHasWaker
  <2>3. CASE FallAsleep(p)
    BY <2>3 DEF QInv, TypeOK, EntryOK, Entering, SleeperHasWaker
  <2> QED
    BY <2>1, <2>2, <2>3
<1> QED
  BY <1>1, <1>2, <1>3, <1>4, <1>5 DEF QInv

(* end_request(): the first element leaves the list and frees its slot.    *)
LEMMA EndRequestOK ==
  ASSUME QInv, EndRequest
  PROVE  QInv'
<1> DEFINE n == Len(queue)
<1>1. /\ queue \in Seq(Slots) /\ n \in Nat /\ n > 0 /\ DOMAIN queue = 1 .. n
      /\ queue' = Tail(queue)
  BY DEF QInv, TypeOK, EndRequest
<1>2. /\ queue' \in Seq(Slots) /\ Len(queue') = n - 1
      /\ DOMAIN queue' = 1 .. n - 1
      /\ \A i \in 1 .. n - 1 : queue'[i] = queue[i + 1]
  BY <1>1
<1>3. Head(queue) = queue[1] /\ queue[1] \in Slots
  BY <1>1
<1>4. \A i, j \in 1 .. n : queue[i] = queue[j] => i = j
  BY <1>1 DEF QInv, ListIsArray, IsInjective
<1>5. /\ request \in [Slots -> Requests \cup {NoReq}]
      /\ request' = [request EXCEPT ![queue[1]] = NoReq]
  BY <1>3 DEF QInv, TypeOK, EndRequest
<1>6. \A u \in Slots : request[u] # NoReq <=> \E i \in 1 .. n : queue[i] = u
  BY <1>1 DEF QInv, ListIsArray, Range
<1>7. \A i \in 1 .. n - 1 : queue[i + 1] \in Slots /\ queue[i + 1] # queue[1]
  BY <1>1, <1>4
<1>8. ListIsArray'
  <2>1. IsInjective(queue')
    BY <1>1, <1>2, <1>4 DEF IsInjective
  <2>2. ASSUME NEW u \in Slots PROVE u \in Range(queue') <=> request'[u] # NoReq
    <3>1. CASE u = queue[1]
      BY <3>1, <1>2, <1>5, <1>7 DEF Range
    <3>2. CASE u # queue[1]
      <4>1. request'[u] = request[u]
        BY <3>2, <1>5
      <4>2. ASSUME NEW i \in 1 .. n, queue[i] = u PROVE u \in Range(queue')
        <5>1. i - 1 \in 1 .. n - 1 /\ (i - 1) + 1 = i
          BY <1>1, <3>2, <4>2
        <5>2. queue'[i - 1] = u
          BY <1>2, <4>2, <5>1
        <5> QED
          BY <1>2, <5>1, <5>2 DEF Range
      <4>3. ASSUME NEW i \in 1 .. n - 1, queue'[i] = u PROVE request[u] # NoReq
        <5>1. i + 1 \in 1 .. n
          BY <1>1
        <5> QED
          BY <1>2, <1>6, <4>3, <5>1
      <4> QED
        BY <1>2, <1>6, <4>1, <4>2, <4>3 DEF Range
    <3> QED
      BY <3>1, <3>2
  <2>3. Range(queue') \subseteq Slots
    BY <1>2 DEF Range
  <2> QED
    BY <2>1, <2>2, <2>3 DEF ListIsArray
<1>9. OneBreak'
  <2>1. ASSUME NEW i \in 1 .. n - 1
        PROVE  Listed'[i] = Listed[i + 1]
    <3>1. Listed'[i] = request'[queue'[i]]
      BY <1>2 DEF Listed
    <3>2. i + 1 \in 1 .. n
      BY <1>1
    <3>3. Listed[i + 1] = request[queue[i + 1]]
      BY <3>2 DEF Listed
    <3> QED
      BY <1>2, <1>5, <1>7, <3>1, <3>3
  <2>2. ASSUME NEW i \in 1 .. n - 2, Broken(Listed', i) PROVE i + 1 \in 1 .. n - 1 /\ Broken(Listed, i + 1)
    <3>1. i \in 1 .. n - 1 /\ i + 1 \in 1 .. n - 1
      BY <1>1
    <3> QED
      BY <2>1, <2>2, <3>1 DEF Broken
  <2>3. ASSUME NEW i \in 1 .. n - 2, NEW j \in 1 .. n - 2,
               Broken(Listed', i), Broken(Listed', j)
        PROVE  i = j
    <3>1. i + 1 = j + 1
      BY <2>2, <2>3 DEF QInv, OneBreak
    <3> QED
      BY <3>1
  <2>4. Len(queue') - 1 = n - 2
    BY <1>1, <1>2
  <2> QED
    BY <2>3, <2>4 DEF OneBreak
<1>10. TypeOK'
  BY <1>2, <1>3, <1>5 DEF QInv, TypeOK, EndRequest, Wake
<1>11. OneOwner'
  BY <1>3, <1>5 DEF QInv, TypeOK, OneOwner, EndRequest
<1>12. WantedInside' /\ OneScan' /\ TmpInside'
  BY DEF QInv, TypeOK, WantedInside, OneScan, Entering, TmpInside, EndRequest, Wake
<1>13. EntryOK'
  BY DEF QInv, TypeOK, Entering, EntryOK, EndRequest, Wake
<1>14. SleeperHasWaker'
  BY DEF QInv, TypeOK, Entering, SleeperHasWaker, EndRequest, Wake
<1> QED
  BY <1>8, <1>9, <1>10, <1>11, <1>12, <1>13, <1>14 DEF QInv

(* Every step of the queue keeps the invariant.                            *)
LEMMA QNext ==
  ASSUME QInv, [Next]_vars
  PROVE  QInv'
<1>1. ASSUME NEW p \in Procs, NEW cmd \in {READ, WRITE}, NEW b \in Blocks,
             NEW ahead \in BOOLEAN, MakeRequest(p, cmd, b, ahead)
      PROVE  QInv'
  BY <1>1, MakeRequestOK
<1>2. ASSUME NEW p \in Procs, Sleep(p) PROVE QInv'
  BY <1>2, SleepOK
<1>3. ASSUME NEW p \in Procs, Repeat(p) PROVE QInv'
  BY <1>3, RepeatOK
<1>4. CASE EndRequest
  BY <1>4, EndRequestOK
<1>5. CASE UNCHANGED vars
  BY <1>5 DEF vars, QInv, TypeOK, ListIsArray, OneBreak, Listed, OneOwner,
              WantedInside, OneScan, Entering, EntryOK, TmpInside, SleeperHasWaker
<1> QED
  BY <1>1, <1>2, <1>3, <1>4, <1>5 DEF Next

(* The invariant says what QueueSound does.                                *)
LEMMA QInvSound == QInv => QueueSound
<1> SUFFICES ASSUME QInv PROVE QueueSound
  OBVIOUS
<1> DEFINE S == {i \in 1 .. Len(queue) - 1 :
                   ~IN_ORDER(request[queue[i]], request[queue[i + 1]])}
<1>1. Len(queue) \in Nat
  BY DEF QInv, TypeOK
<1>2. IsFiniteSet(S)
  <2>1. IsFiniteSet(1 .. Len(queue) - 1)
    BY <1>1, FS_Interval
  <2>2. S \in SUBSET (1 .. Len(queue) - 1)
    OBVIOUS
  <2> QED
    BY <2>1, <2>2, FS_Subset
<1>3. \A x, y \in S : x = y
  <2>1. ASSUME NEW x \in S PROVE x \in 1 .. Len(queue) - 1 /\ Broken(Listed, x)
    BY <1>1 DEF Broken, Listed
  <2> QED
    BY <2>1 DEF QInv, OneBreak
<1>4. Cardinality(S) <= 1
  <2> HIDE DEF S
  <2> QED
    BY <1>2, <1>3, AtMostOne
<1> QED
  BY <1>4 DEF QInv, QueueSound, OneWrap

-----------------------------------------------------------------------------
(* The driver is a client of the queue: whatever an interrupt, an error or *)
(* a reset makes it do, the queue sees one of its own operations or none.  *)
LEMMA HdStepIsQueueStep == [HdNext]_allvars => [Next]_vars
<1> SUFFICES ASSUME [HdNext]_allvars PROVE [Next]_vars
  OBVIOUS
<1>1. ASSUME NEW p \in Procs, NEW cmd \in {READ, WRITE}, NEW b \in Blocks,
             NEW ahead \in BOOLEAN, HdQueueStep(MakeRequest(p, cmd, b, ahead))
      PROVE  Next
  BY <1>1 DEF HdQueueStep, Next
<1>2. ASSUME NEW p \in Procs, HdQueueStep(Sleep(p)) \/ HdQueueStep(Repeat(p))
      PROVE  Next
  BY <1>2 DEF HdQueueStep, Next
<1>3. ASSUME NEW err \in BOOLEAN, HdInterrupt(err) PROVE EndRequest \/ UNCHANGED vars
  BY <1>3 DEF HdInterrupt, SectorDone, ReadMore, WriteMore, EndCurrent, BadRwIntr
<1>4. ASSUME NEW drq \in BOOLEAN, DoHdRequest(drq) PROVE EndRequest \/ UNCHANGED vars
  BY <1>4 DEF DoHdRequest, ResetHd, HdOut, EndCurrent, BadRwIntr
<1>5. CASE UNCHANGED allvars
  BY <1>5 DEF allvars
<1> QED
  BY <1>1, <1>2, <1>3, <1>4, <1>5 DEF HdNext, Next

(* The queue under the driver is the queue by itself.                      *)
THEOREM DriverUsesQueue == HdSpec => Spec
<1>1. HdInit => Init
  BY DEF HdInit
<1> QED
  BY <1>1, HdStepIsQueueStep, PTL DEF HdSpec, Spec

(* The inductive invariant holds under the driver.                         *)
THEOREM QueueInvariance == HdSpec => []QInv
<1>1. Spec => []QInv
  BY QInit, QNext, PTL DEF Spec
<1> QED
  BY <1>1, DriverUsesQueue, PTL

(* For any number of slots, processes and blocks: the list is the array    *)
(* without its free slots, and the order is broken at most once.           *)
THEOREM QueueIsSound == HdSpec => []QueueSound
  BY QueueInvariance, QInvSound, PTL

(* Wherever interrupts fall between the scan of make_request() and the     *)
(* last assignment of sleep_on(): only a process that a request's end      *)
(* overtook there can be left without a waker.                             *)
THEOREM SleepersAreWoken == HdSpec => []SleeperHasWaker
<1>1. QInv => SleeperHasWaker
  BY DEF QInv
<1> QED
  BY <1>1, QueueInvariance, PTL

-----------------------------------------------------------------------------
(* The driver's own invariant.                                             *)

HdTypeOK ==
  /\ call \in BOOLEAN
  /\ do_hd \in {"none", "read", "write", "recal"}
  /\ cur \in [errors : Nat, sector : Nat, buffer : Nat, nr_sectors : Nat]
  /\ drive \in [left : Int, sec : Nat, data : Nat]

(* CURRENT says how far the transfer is: nothing was moved, or the first   *)
(* sector was, to or from the first half of the buffer.                    *)
Progress ==
  \/ cur.nr_sectors = 2 /\ cur.sector = 0 /\ cur.buffer = 0 /\ moved = {}
  \/ cur.nr_sectors = 1 /\ cur.sector = 1 /\ cur.buffer = 1 /\ moved = {<<0, 0>>}

(* A transfer the drive works on is the one CURRENT asks for.              *)
CommandMatches ==
  drive.left > 0 /\ do_hd \in {"read", "write"} =>
    drive.sec = cur.sector /\ drive.data = cur.buffer

(* The drive is idle while the driver is about to give a command, and when *)
(* there is nothing to do.                                                 *)
DriveIdle == call \/ queue = <<>> => drive.left <= 0

HdInv == HdTypeOK /\ Progress /\ CommandMatches /\ DriveIdle /\ EndedIsComplete

(* hd_init()'s state.                                                      *)
LEMMA HdInitOK == HdInit => HdInv
<1> SUFFICES ASSUME HdInit PROVE HdInv
  OBVIOUS
<1>1. HdTypeOK
  <2>1. call \in BOOLEAN
    BY DEF HdInit
  <2>2. /\ do_hd \in {"none", "read", "write", "recal"}
        /\ cur \in [errors : Nat, sector : Nat, buffer : Nat, nr_sectors : Nat]
        /\ drive \in [left : Int, sec : Nat, data : Nat]
    BY DEF HdInit, Fresh, Idle
  <2> QED
    BY <2>1, <2>2 DEF HdTypeOK
<1>2. Progress /\ CommandMatches /\ DriveIdle /\ EndedIsComplete
  BY DEF HdInit, Progress, CommandMatches, DriveIdle, EndedIsComplete,
         Fresh, Idle, NoEnd
<1> QED
  BY <1>1, <1>2 DEF HdInv

(* end_request() of whatever the driver was doing.                         *)
LEMMA EndFailedOK ==
  ASSUME HdInv, NEW e, NEW m, EndCurrent(FALSE, e, m), drive'.left <= 0,
         call' \in BOOLEAN, do_hd' \in {"none", "read", "write", "recal"},
         drive' \in [left : Int, sec : Nat, data : Nat]
  PROVE  HdInv'
  BY DEF HdInv, HdTypeOK, Progress, CommandMatches, DriveIdle,
         EndedIsComplete, EndCurrent, Fresh

(* bad_rw_intr() after a command that failed.                              *)
LEMMA BadOK ==
  ASSUME HdInv, BadRwIntr, drive'.left <= 0,
         call' \in BOOLEAN, do_hd' \in {"none", "read", "write", "recal"},
         drive' \in [left : Int, sec : Nat, data : Nat]
  PROVE  HdInv'
<1> DEFINE e == cur.errors + 1
<1>1. CASE e >= MAX_ERRORS
  <2>1. EndCurrent(FALSE, e, moved)
    BY <1>1 DEF BadRwIntr
  <2> QED
    BY <2>1, EndFailedOK
<1>2. CASE ~(e >= MAX_ERRORS)
  <2>1. cur' = [cur EXCEPT !.errors = e] /\ ended' = NoEnd /\ moved' = moved
    BY <1>2 DEF BadRwIntr
  <2>2. e \in Nat
    BY DEF HdInv, HdTypeOK
  <2> QED
    BY <2>1, <2>2, SMTT(30) DEF HdInv, HdTypeOK, Progress, CommandMatches, DriveIdle,
                                EndedIsComplete, NoEnd, Whole
<1> QED
  BY <1>1, <1>2

(* A sector was moved: the next one, or the end of the request.            *)
LEMMA SectorOK ==
  ASSUME HdInv, NEW rd \in BOOLEAN, NEW part, part = cur.buffer,
         drive.sec = cur.sector, drive.left > 0, ~call, SectorDone(rd, part)
  PROVE  HdInv'
<1> USE DEF HdInv, HdTypeOK
<1>1. CASE cur.nr_sectors > 1
  <2>1. /\ cur.nr_sectors = 2 /\ cur.sector = 0 /\ cur.buffer = 0 /\ moved = {}
        /\ drive.sec = 0
    BY <1>1 DEF Progress
  <2>2. /\ do_hd' = IF rd THEN "read" ELSE "write"
        /\ UNCHANGED <<vars, call, reset>>
        /\ cur' = NextSector(rd)
        /\ drive' = [left |-> drive.left - 1, sec |-> drive.sec + 1,
                     data |-> cur'.buffer]
        /\ moved' = moved \cup {<<drive.sec, part>>}
        /\ ended' = NoEnd
    BY <1>1 DEF SectorDone, ReadMore, WriteMore
  <2>3. /\ cur' \in [errors : Nat, sector : Nat, buffer : Nat, nr_sectors : Nat]
        /\ cur'.nr_sectors = 1 /\ cur'.sector = 1 /\ cur'.buffer = 1
    BY <2>1, <2>2 DEF NextSector
  <2>4. moved' = {<<0, 0>>}
    BY <2>1, <2>2
  <2>5. /\ drive' \in [left : Int, sec : Nat, data : Nat]
        /\ drive'.sec = 1 /\ drive'.data = 1
    BY <2>1, <2>2, <2>3
  <2>6. HdTypeOK' /\ Progress' /\ CommandMatches'
    BY <2>2, <2>3, <2>4, <2>5 DEF Progress, CommandMatches
  <2>7. DriveIdle'
    BY <2>2 DEF DriveIdle, vars
  <2>8. EndedIsComplete'
    BY <2>2 DEF EndedIsComplete, NoEnd
  <2> QED
    BY <2>6, <2>7, <2>8
<1>2. CASE ~(cur.nr_sectors > 1)
  <2>1. /\ cur.sector = 1 /\ cur.buffer = 1 /\ moved = {<<0, 0>>}
    BY <1>2 DEF Progress
  <2>2. /\ EndCurrent(TRUE, cur.errors, moved \cup {<<drive.sec, part>>})
        /\ do_hd' = "none" /\ drive' = Idle /\ call' = TRUE
    BY <1>2 DEF SectorDone
  <2>3. moved \cup {<<drive.sec, part>>} = Whole
    BY <2>1 DEF Whole
  <2>4. cur' = Fresh /\ moved' = {} /\ ended'.moved = Whole
    BY <2>2, <2>3 DEF EndCurrent
  <2> QED
    BY <2>2, <2>4 DEF Progress, CommandMatches, DriveIdle, EndedIsComplete,
                      Fresh, Idle
<1> QED
  BY <1>1, <1>2

(* hd_interrupt, whichever handler do_hd names.                            *)
LEMMA InterruptOK ==
  ASSUME HdInv, NEW err \in BOOLEAN, HdInterrupt(err)
  PROVE  HdInv'
<1>1. ~call /\ drive.left > 0 /\ UNCHANGED recalibrate
  BY DEF HdInterrupt
<1>2. CASE do_hd = "read" /\ ~err
  <2>1. SectorDone(TRUE, cur.buffer) /\ drive.sec = cur.sector
    BY <1>1, <1>2 DEF HdInterrupt, HdInv, CommandMatches
  <2> QED
    BY <1>1, <2>1, SectorOK
<1>3. CASE do_hd = "write" /\ ~err
  <2>1. SectorDone(FALSE, drive.data) /\ drive.sec = cur.sector /\ drive.data = cur.buffer
    BY <1>1, <1>3 DEF HdInterrupt, HdInv, CommandMatches
  <2> QED
    BY <1>1, <2>1, SectorOK
<1>4. CASE do_hd # "none" /\ err
  <2>1. BadRwIntr /\ do_hd' = "none" /\ drive' = Idle /\ call' = TRUE
    BY <1>4 DEF HdInterrupt
  <2>2. drive'.left <= 0 /\ drive' \in [left : Int, sec : Nat, data : Nat]
    BY <2>1 DEF Idle
  <2> QED
    BY <2>1, <2>2, BadOK
<1>5. CASE (do_hd = "recal" /\ ~err) \/ do_hd = "none"
  <2>1. /\ drive' = Idle /\ ended' = NoEnd /\ UNCHANGED <<vars, cur, moved>>
        /\ do_hd' = "none" /\ call' \in BOOLEAN
    BY <1>1, <1>5 DEF HdInterrupt, HdInv, HdTypeOK
  <2> QED
    BY <2>1 DEF HdInv, HdTypeOK, Progress, CommandMatches, DriveIdle,
                EndedIsComplete, NoEnd, Whole, Idle, vars
<1> QED
  BY <1>2, <1>3, <1>4, <1>5 DEF HdInv, HdTypeOK

(* hd_out() of a command for CURRENT, or of a recalibration.               *)
LEMMA HdOutOK ==
  ASSUME HdInv, NEW h \in {"read", "write", "recal"}, NEW n \in Nat,
         HdOut(h, n), queue # <<>>
  PROVE  HdInv'
<1>1. HdTypeOK'
  <2>1. call' \in BOOLEAN
    BY DEF HdOut
  <2>2. cur.sector \in Nat /\ cur.buffer \in Nat
    BY DEF HdInv, HdTypeOK
  <2>3. do_hd' \in {"none", "read", "write", "recal"} /\ UNCHANGED cur
    BY DEF HdOut
  <2>4. drive' \in [left : Int, sec : Nat, data : Nat]
    BY <2>2 DEF HdOut
  <2> QED
    BY <2>1, <2>3, <2>4 DEF HdInv, HdTypeOK
<1>2. Progress'
  BY DEF HdOut, HdInv, Progress
<1>3. CommandMatches'
  BY DEF HdOut, HdInv, HdTypeOK, CommandMatches
<1>4. DriveIdle' /\ EndedIsComplete'
  BY DEF HdOut, DriveIdle, EndedIsComplete, NoEnd, vars
<1> QED
  BY <1>1, <1>2, <1>3, <1>4 DEF HdInv

(* One round of do_hd_request().                                           *)
LEMMA DoRequestOK ==
  ASSUME HdInv, NEW drq \in BOOLEAN, DoHdRequest(drq)
  PROVE  HdInv'
<1>1. call /\ drive.left <= 0 /\ drive \in [left : Int, sec : Nat, data : Nat]
  BY DEF DoHdRequest, HdInv, HdTypeOK, DriveIdle
<1>2. CASE /\ queue = <<>> /\ call' = FALSE /\ ended' = NoEnd
           /\ UNCHANGED <<vars, do_hd, reset, recalibrate, cur, drive, moved>>
  BY <1>1, <1>2 DEF HdInv, HdTypeOK, Progress, CommandMatches, DriveIdle,
                    EndedIsComplete, NoEnd, Whole, vars
<1>3. CASE /\ EndCurrent(FALSE, cur.errors, moved)
           /\ UNCHANGED <<call, do_hd, reset, recalibrate, drive>>
  BY <1>1, <1>3, EndFailedOK DEF HdInv, HdTypeOK
<1>4. ASSUME NEW h \in {"read", "write", "recal"}, NEW n \in Nat,
             HdOut(h, n), queue # <<>>
      PROVE  HdInv'
  BY <1>4, HdOutOK
<1>5. CASE do_hd' = "write" /\ BadRwIntr /\ UNCHANGED <<call, recalibrate, drive>>
  BY <1>1, <1>5, BadOK DEF HdInv, HdTypeOK
<1>6. cur.nr_sectors \in Nat
  BY DEF HdInv, HdTypeOK
<1> QED
  BY <1>2, <1>3, <1>4, <1>5, <1>6 DEF DoHdRequest, ResetHd

(* A step of the queue calls the driver only if the list was empty.        *)
LEMMA QueueStepOK ==
  ASSUME HdInv, ~call, call' = (queue = <<>> /\ queue' # <<>>),
         queue' = <<>> => queue = <<>>, ended' = NoEnd,
         UNCHANGED <<do_hd, reset, recalibrate, cur, drive, moved>>
  PROVE  HdInv'
  BY DEF HdInv, HdTypeOK, Progress, CommandMatches, DriveIdle,
         EndedIsComplete, NoEnd, Whole

(* No step but end_request() empties the list.                             *)
LEMMA PlaceFills ==
  ASSUME QInv, NEW p \in Procs, NEW req, NEW ahead, Place(p, req, ahead), queue' = <<>>
  PROVE  queue = <<>>
<1>1. CASE FreeSlots(req.cmd) = {}
  BY <1>1 DEF Place
<1>2. CASE FreeSlots(req.cmd) # {}
  <2>1. PICK s : queue' = AddRequest(s, req)
    BY <1>2 DEF Place
  <2>2. queue \in Seq(Slots) /\ Len(queue) \in Nat
    BY DEF QInv, TypeOK
  <2>3. PICK k \in 0 .. Len(queue) : queue' = InsertAt(queue, k + 1, s)
    BY <2>1, <2>2, AddRequestPlace
  <2> DEFINE T == Slots \cup {s}
  <2>4. queue \in Seq(T) /\ s \in T
    BY <2>2, SeqMonotonic
  <2> HIDE DEF T
  <2>5. Len(InsertAt(queue, k + 1, s)) = Len(queue) + 1
    BY <2>4, InsertAtProps
  <2> QED
    BY <2>2, <2>3, <2>5
<1> QED
  BY <1>1, <1>2

(* Every step of the driver and of the processes keeps the invariant.      *)
LEMMA HdNextOK ==
  ASSUME QInv, HdInv, [HdNext]_allvars
  PROVE  HdInv'
<1>1. ASSUME NEW p \in Procs, NEW cmd \in {READ, WRITE}, NEW b \in Blocks,
             NEW ahead \in BOOLEAN, HdQueueStep(MakeRequest(p, cmd, b, ahead))
      PROVE  HdInv'
  <2>1. queue' = <<>> => queue = <<>>
    BY <1>1, PlaceFills DEF HdQueueStep, MakeRequest
  <2> QED
    BY <1>1, <2>1, QueueStepOK DEF HdQueueStep
<1>2. ASSUME NEW p \in Procs, HdQueueStep(Sleep(p)) PROVE HdInv'
  <2>1. queue' = queue
    BY <1>2 DEF HdQueueStep, Sleep, SaveHead, NameSelf, FallAsleep
  <2> QED
    BY <1>2, <2>1, QueueStepOK DEF HdQueueStep
<1>3. ASSUME NEW p \in Procs, HdQueueStep(Repeat(p)) PROVE HdInv'
  <2>1. queue' = <<>> => queue = <<>>
    BY <1>3, PlaceFills DEF HdQueueStep, Repeat
  <2> QED
    BY <1>3, <2>1, QueueStepOK DEF HdQueueStep
<1>4. ASSUME NEW err \in BOOLEAN, HdInterrupt(err) PROVE HdInv'
  BY <1>4, InterruptOK
<1>5. ASSUME NEW drq \in BOOLEAN, DoHdRequest(drq) PROVE HdInv'
  BY <1>5, DoRequestOK
<1>6. CASE UNCHANGED allvars
  BY <1>6 DEF allvars, vars, hdvars, HdInv, HdTypeOK, Progress, CommandMatches,
              DriveIdle, EndedIsComplete
<1> QED
  BY <1>1, <1>2, <1>3, <1>4, <1>5, <1>6 DEF HdNext

(* Both invariants together.                                               *)
THEOREM Invariance == HdSpec => [](QInv /\ HdInv)
<1>1. HdInit => HdInv
  BY HdInitOK
<1>2. QInv /\ HdInv /\ [HdNext]_allvars => HdInv'
  BY HdNextOK
<1> QED
  BY <1>1, <1>2, QueueInvariance, PTL DEF HdSpec

(* Whatever the number of errors a request survives, and wherever resets   *)
(* and recalibrations interrupt it: a request that ends well has moved     *)
(* both sectors, each to or from its own half of the buffer.               *)
THEOREM EndedComplete == HdSpec => []EndedIsComplete
<1>1. HdInv => EndedIsComplete
  BY DEF HdInv
<1> QED
  BY <1>1, Invariance, PTL
=============================================================================
