---------------------------- MODULE RequestQueue ----------------------------
(***************************************************************************)
(* The request array and the elevator of kernel/blk_drv/ll_rw_blk.c:       *)
(* make_request(), add_request() and, from blk.h, end_request(), for one   *)
(* block device driver.                                                    *)
(*                                                                         *)
(* A request takes a slot of the array request[]; the driver's list links  *)
(* the used slots in the order of service, its first element being the one *)
(* the drive works on.  A process that finds no slot sleeps on             *)
(* wait_for_request, with its buffer locked.  end_request() runs in the    *)
(* disk interrupt.  The kernel is not preempted, so only the interrupt can *)
(* come between the scan for a slot and the end of the sleep_on() that     *)
(* follows it.  Nothing closes this window: make_request() has no cli(),   *)
(* so requests end, and call wake_up(), between any two assignments of     *)
(* sleep_on() (kernel/sched.c), which are therefore steps of their own.    *)
(***************************************************************************)
EXTENDS Naturals, Sequences, FiniteSets, SequencesExt

CONSTANTS
  Procs,        (* processes that read and write blocks                    *)
  Blocks,       (* blocks, as records of a device and a sector number      *)
  NR_REQUEST,   (* size of request[]                                       *)
  NoReq,        (* dev = -1: the slot is free; or: nothing is wanted       *)
  NoProc        (* NULL as a task pointer                                  *)

(* Slots a write may take: the last third is kept for reads.               *)
WriteSlots == (NR_REQUEST * 2) \div 3

ASSUME BlocksAssumption == Blocks \subseteq [dev : Nat, sector : Nat]
ASSUME SlotsAssumption == NR_REQUEST \in Nat /\ WriteSlots > 0
ASSUME NoProcAssumption == NoProc \notin Procs

READ == 0
WRITE == 1
Requests == [cmd : {READ, WRITE}, blk : Blocks]
Slots == 1 .. NR_REQUEST

ASSUME NoReqAssumption == NoReq \notin Requests

VARIABLES
  request,      (* the array: a request per slot, or NoReq                 *)
  queue,        (* current_request and what follows it, as slot numbers    *)
  wanted,       (* the request a process could not place yet, or NoReq     *)
  pc,           (* where that process is: see TypeOK                       *)
  head,         (* wait_for_request: the process that slept last           *)
  tmp,          (* the local tmp of sleep_on()                             *)
  overtaken     (* history: processes that a request's end overtook after  *)
                (* their last scan and before they were asleep, and that   *)
                (* nobody has woken since                                  *)

vars == <<request, queue, wanted, pc, head, tmp, overtaken>>

(* "idle": outside make_request(); "scan": found no slot, about to sleep;  *)
(* "saved", "named": inside sleep_on(), past tmp = *p and past *p =        *)
(* current; "sleep": asleep on wait_for_request; "woken": runnable again.  *)
TypeOK ==
  /\ request \in [Slots -> Requests \cup {NoReq}]
  /\ queue \in Seq(Slots)
  /\ wanted \in [Procs -> Requests \cup {NoReq}]
  /\ pc \in [Procs -> {"idle", "scan", "saved", "named", "sleep", "woken"}]
  /\ head \in Procs \cup {NoProc}
  /\ tmp \in [Procs -> Procs \cup {NoProc}]
  /\ overtaken \in SUBSET Procs

(* On its way from the scan to being asleep.                               *)
Entering(p) == pc[p] \in {"scan", "saved", "named"}

-----------------------------------------------------------------------------
(* IN_ORDER(s1,s2): reads before writes, then by device and sector.        *)
IN_ORDER(s1, s2) ==
  \/ s1.cmd < s2.cmd
  \/ /\ s1.cmd = s2.cmd
     /\ \/ s1.blk.dev < s2.blk.dev
        \/ s1.blk.dev = s2.blk.dev /\ s1.blk.sector < s2.blk.sector

(* Faulty variants, used only as mutations.                                *)

(* The elevator that takes any place where the order is broken already.    *)
Fits_AnyBreak(q, i, req) ==
  \/ IN_ORDER(q[i], req) /\ IN_ORDER(req, q[i + 1])
  \/ ~IN_ORDER(q[i], q[i + 1])

(* end_request() wakes the waiter of the block, not those of the slot.     *)
EndRequest_NoWake ==
  /\ queue # <<>>
  /\ request' = [request EXCEPT ![Head(queue)] = NoReq]
  /\ queue' = Tail(queue)
  /\ overtaken' = {p \in Procs : Entering(p) \/ p \in overtaken}
  /\ UNCHANGED <<wanted, pc, head, tmp>>

-----------------------------------------------------------------------------

(* blk_dev_init().                                                         *)
Init ==
  /\ request = [s \in Slots |-> NoReq]
  /\ queue = <<>>
  /\ wanted = [p \in Procs |-> NoReq]
  /\ pc = [p \in Procs |-> "idle"]
  /\ head = NoProc
  /\ tmp = [p \in Procs |-> NoProc]
  /\ overtaken = {}

(* The test of the loop in add_request(): req may go between q[i] and the  *)
(* one after it.                                                           *)
Fits(q, i, req) ==
  /\ IN_ORDER(q[i], req) \/ ~IN_ORDER(q[i], q[i + 1])
  /\ IN_ORDER(req, q[i + 1])

(* add_request(): the list with slot s, holding req, linked in behind the  *)
(* first element where it fits, or at the end.  The first element itself   *)
(* is being served and is never displaced.                                 *)
AddRequest(s, req) ==
  LET reqs == [i \in 1 .. Len(queue) |-> request[queue[i]]]
      fits == {i \in 1 .. Len(queue) - 1 : Fits(reqs, i, req)}
      after == IF fits = {} THEN Len(queue)
               ELSE CHOOSE i \in fits : \A j \in fits : i <= j
  IN  InsertAt(queue, after + 1, s)

(* One past the last slot the scan may look at.                            *)
Limit(cmd) == IF cmd = READ THEN NR_REQUEST ELSE WriteSlots

FreeSlots(cmd) == {s \in 1 .. Limit(cmd) : request[s] = NoReq}

(* Making a process runnable matters if it sleeps.                         *)
Wake(q) == [p \in Procs |-> IF p = q /\ pc[p] = "sleep" THEN "woken" ELSE pc[p]]

(* The scan of make_request(), from the highest slot down, and what        *)
(* follows it: the request is filled in and queued; with no free slot a    *)
(* read-ahead is given up and any other process prepares to sleep.  The    *)
(* process has just made tmp runnable if it comes from sleep_on().         *)
Place(p, req, ahead) ==
  /\ overtaken' = overtaken \ {p, tmp[p]}
  /\ tmp' = [tmp EXCEPT ![p] = NoProc]
  /\ UNCHANGED head
  /\ IF FreeSlots(req.cmd) # {}
     THEN LET s == CHOOSE x \in FreeSlots(req.cmd) :
                     \A y \in FreeSlots(req.cmd) : y <= x
          IN  /\ queue' = AddRequest(s, req)
              /\ request' = [request EXCEPT ![s] = req]
              /\ wanted' = [wanted EXCEPT ![p] = NoReq]
              /\ pc' = [Wake(tmp[p]) EXCEPT ![p] = "idle"]
     ELSE /\ ~ahead
          /\ wanted' = [wanted EXCEPT ![p] = req]
          /\ pc' = [Wake(tmp[p]) EXCEPT ![p] = "scan"]
          /\ UNCHANGED <<request, queue>>

(* lock_buffer() kept others out: a block has one request at a time.       *)
Locked(b) ==
  \/ \E s \in Slots : request[s] # NoReq /\ request[s].blk = b
  \/ \E p \in Procs : wanted[p] # NoReq /\ wanted[p].blk = b

(* No process is on its way to sleep_on(): another one can run.            *)
Schedulable == \A p \in Procs : ~Entering(p)

(* make_request(major, rw, bh) on a buffer that is not locked.  READA and  *)
(* WRITEA are the calls with ahead set.                                    *)
MakeRequest(p, cmd, b, ahead) ==
  /\ Schedulable
  /\ pc[p] = "idle"
  /\ ~Locked(b)
  /\ Place(p, [cmd |-> cmd, blk |-> b], ahead)

(* sleep_on(&wait_for_request): tmp = *p ...                               *)
SaveHead(p) ==
  /\ pc[p] = "scan"
  /\ tmp' = [tmp EXCEPT ![p] = head]
  /\ pc' = [pc EXCEPT ![p] = "saved"]
  /\ UNCHANGED <<request, queue, wanted, head, overtaken>>

(* ... *p = current ...                                                    *)
NameSelf(p) ==
  /\ pc[p] = "saved"
  /\ head' = p
  /\ pc' = [pc EXCEPT ![p] = "named"]
  /\ UNCHANGED <<request, queue, wanted, tmp, overtaken>>

(* ... and current->state = TASK_UNINTERRUPTIBLE with the switch to        *)
(* another task.                                                           *)
FallAsleep(p) ==
  /\ pc[p] = "named"
  /\ pc' = [pc EXCEPT ![p] = "sleep"]
  /\ UNCHANGED <<request, queue, wanted, head, tmp, overtaken>>

Sleep(p) == SaveHead(p) \/ NameSelf(p) \/ FallAsleep(p)

(* A woken process leaves sleep_on(), which passes the wake-up on to tmp,  *)
(* and goes back to "repeat:".                                             *)
Repeat(p) ==
  /\ Schedulable
  /\ pc[p] = "woken"
  /\ Place(p, wanted[p], FALSE)

(* end_request() for the first element: the slot is free, wake_up() makes  *)
(* the process at the head runnable and clears the head, the list moves    *)
(* on.                                                                     *)
EndRequest ==
  /\ queue # <<>>
  /\ request' = [request EXCEPT ![Head(queue)] = NoReq]
  /\ queue' = Tail(queue)
  /\ pc' = Wake(head)
  /\ head' = NoProc
  /\ overtaken' = {p \in Procs : Entering(p) \/ p \in overtaken \ {head}}
  /\ UNCHANGED <<wanted, tmp>>

Next ==
  \/ \E p \in Procs, cmd \in {READ, WRITE}, b \in Blocks, ahead \in BOOLEAN :
       MakeRequest(p, cmd, b, ahead)
  \/ \E p \in Procs : Sleep(p) \/ Repeat(p)
  \/ EndRequest

Spec == Init /\ [][Next]_vars

(* The drive ends every request it works on, with or without an error (the *)
(* driver counts errors up to a limit), and a process about to sleep does. *)
Fairness ==
  /\ WF_vars(EndRequest)
  /\ \A p \in Procs : WF_vars(Sleep(p)) /\ WF_vars(Repeat(p))

FairSpec == Spec /\ Fairness

-----------------------------------------------------------------------------
(* The list and the array agree: the list links every used slot once, and  *)
(* no free one, whatever the order in which slots are taken and freed.     *)
ListIsArray ==
  /\ IsInjective(queue)
  /\ Range(queue) = {s \in Slots : request[s] # NoReq}

(* The elevator sweeps: along the list the order is broken at most once,   *)
(* where one sweep ends and the next begins.  (So a read can stand behind  *)
(* a write: it is not true that "reads always go before writes", blk.h.)   *)
OneWrap ==
  Cardinality({i \in 1 .. Len(queue) - 1 :
                 ~IN_ORDER(request[queue[i]], request[queue[i + 1]])}) <= 1

(* The request structures are sound: the parts above, through sleeps for a *)
(* free slot and transfers that end at any moment.                         *)
QueueSound == TypeOK /\ ListIsArray /\ OneWrap

(* A process asleep for want of a slot has somebody to wake it: it is at   *)
(* the head of the wait queue and a request is still to end, or the tmp of *)
(* another process inside sleep_on() names it - unless a request ended     *)
(* between its scan and its falling asleep, in any of the steps of         *)
(* make_request() and sleep_on(), which nothing prevents.                  *)
SleeperHasWaker ==
  \A p \in Procs : pc[p] = "sleep" /\ p \notin overtaken =>
    \/ head = p /\ queue # <<>>
    \/ \E q \in Procs \ {p} : tmp[q] = p

(* What make_request() counts on, and does not get: whoever sleeps for a   *)
(* slot waits for a request that is still to end.                          *)
SomeRequestEnds == \A p \in Procs : pc[p] = "sleep" => queue # <<>>

(* The elevator starves nobody: with new requests coming in without end,   *)
(* each queued block is served, also a write behind a stream of reads.     *)
Queued(b) == \E s \in Slots : request[s] # NoReq /\ request[s].blk = b
QueuedIsServed == \A b \in Blocks : Queued(b) ~> ~Queued(b)
=============================================================================
