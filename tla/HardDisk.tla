------------------------------ MODULE HardDisk ------------------------------
(***************************************************************************)
(* The hard disk driver, kernel/blk_drv/hd.c, on top of the request queue. *)
(*                                                                         *)
(* The driver works on the first request of the list (CURRENT).  A command *)
(* is given by hd_out(), which arms do_hd; the drive answers with an       *)
(* interrupt per sector, whose handler moves the data, counts errors, ends *)
(* the request and calls do_hd_request() for the next command.  When call  *)
(* is TRUE the processor is inside do_hd_request(), at "repeat:"; nothing  *)
(* else runs then.  The drive is external: it owes an interrupt for every  *)
(* sector of a command and reports an error whenever it likes.             *)
(***************************************************************************)
EXTENDS RequestQueue

CONSTANTS
  MAX_ERRORS,   (* errors after which a request is given up                *)
  NrSects       (* hd[dev].nr_sects of the devices that exist              *)

ASSUME ErrorsAssumption == MAX_ERRORS \in Nat \ {0}

VARIABLES
  call,         (* inside do_hd_request()                                  *)
  do_hd,        (* the handler of the next interrupt                       *)
  reset,        (* the controller has to be reset                          *)
  recalibrate,  (* the heads have to be recalibrated                       *)
  cur,          (* CURRENT: errors, sector and buffer (both in sectors     *)
                (* past the start of the block) and nr_sectors             *)
  drive,        (* the command: sectors left, the sector it is at and the  *)
                (* sector of the buffer it was sent (writes)               *)
  moved,        (* history: <<sector, part of the buffer>> moved so far    *)
  ended         (* history: how the request ended that just ended          *)

hdvars == <<call, do_hd, reset, recalibrate, cur, drive, moved, ended>>
allvars == <<vars, hdvars>>

(* The fields make_request() fills in; only CURRENT's ever change.         *)
Fresh == [errors |-> 0, sector |-> 0, buffer |-> 0, nr_sectors |-> 2]
Idle == [left |-> 0, sec |-> 0, data |-> 0]
Whole == {<<0, 0>>, <<1, 1>>}
NoEnd == [uptodate |-> TRUE, moved |-> Whole, errors |-> 0, start |-> TRUE]

HdInit ==
  /\ Init
  /\ call = FALSE /\ do_hd = "none" /\ reset = TRUE /\ recalibrate = TRUE
  /\ cur = Fresh /\ drive = Idle /\ moved = {} /\ ended = NoEnd

Current == request[Head(queue)]

(* The test of do_hd_request(), for a sector of the current block.         *)
Outside(sector) ==
  Current.blk.dev \in DOMAIN NrSects =>
    Current.blk.sector + sector + 2 > NrSects[Current.blk.dev]

-----------------------------------------------------------------------------
(* Mutations. *)

(* write_intr() leaves CURRENT->sector where it was.                       *)
NextSector_Stays(rd) ==
  [cur EXCEPT !.buffer = @ + 1, !.nr_sectors = @ - 1]

(* The second sector of a read finds no handler.                           *)
ReadMore_NotArmed ==
  /\ do_hd' = "none"
  /\ UNCHANGED <<vars, call, reset>>
-----------------------------------------------------------------------------

(* end_request(uptodate), with e errors counted and the data in m moved.   *)
EndCurrent(uptodate, e, m) ==
  /\ EndRequest
  /\ cur' = Fresh
  /\ moved' = {}
  /\ ended' = [uptodate |-> uptodate, moved |-> m, errors |-> e,
               start |-> Outside(0)]

(* bad_rw_intr().  After end_request() the errors looked at are those of   *)
(* the next request, which are 0, or, with no next request, whatever lies  *)
(* at the address a null CURRENT gives.                                    *)
BadRwIntr ==
  LET e == cur.errors + 1
  IN  IF e >= MAX_ERRORS
      THEN /\ EndCurrent(FALSE, e, moved)
           /\ reset' \in IF Len(queue) > 1 THEN {reset} ELSE {reset, TRUE}
      ELSE /\ cur' = [cur EXCEPT !.errors = e]
           /\ reset' = (reset \/ e > MAX_ERRORS \div 2)
           /\ ended' = NoEnd
           /\ UNCHANGED <<vars, moved>>

(* CURRENT after a sector was moved: a read forgets the errors.            *)
NextSector(rd) ==
  [errors |-> IF rd THEN 0 ELSE cur.errors, sector |-> cur.sector + 1,
   buffer |-> cur.buffer + 1, nr_sectors |-> cur.nr_sectors - 1]

(* More sectors to come: the handler of a read arms itself again ...       *)
ReadMore ==
  /\ do_hd' = "read"
  /\ UNCHANGED <<vars, call, reset>>

(* ... and that of a write also sends the next part of the buffer.         *)
WriteMore ==
  /\ do_hd' = "write"
  /\ UNCHANGED <<vars, call, reset>>

(* read_intr() and write_intr() when the drive reports no error; part is   *)
(* the part of the buffer that was moved.                                  *)
SectorDone(rd, part) ==
  LET m == moved \cup {<<drive.sec, part>>}
  IN  IF cur.nr_sectors > 1
      THEN /\ IF rd THEN ReadMore ELSE WriteMore
           /\ cur' = NextSector(rd)
           /\ drive' = [left |-> drive.left - 1, sec |-> drive.sec + 1,
                        data |-> cur'.buffer]
           /\ moved' = m
           /\ ended' = NoEnd
      ELSE /\ EndCurrent(TRUE, cur.errors, m)
           /\ do_hd' = "none" /\ drive' = Idle /\ call' = TRUE
           /\ UNCHANGED reset

(* hd_interrupt: the handler is taken out of do_hd and runs; err is what   *)
(* win_result() returns.  An error, or the answer to a reset or a          *)
(* recalibration, leads back to do_hd_request().  With no handler armed    *)
(* there is only a message.                                                *)
HdInterrupt(err) ==
  /\ ~call
  /\ drive.left > 0
  /\ UNCHANGED recalibrate
  /\ CASE do_hd = "read" /\ ~err -> SectorDone(TRUE, cur.buffer)
       [] do_hd = "write" /\ ~err -> SectorDone(FALSE, drive.data)
       [] do_hd # "none" /\ err ->
            BadRwIntr /\ do_hd' = "none" /\ drive' = Idle /\ call' = TRUE
       [] do_hd = "recal" /\ ~err ->
            /\ do_hd' = "none" /\ drive' = Idle /\ call' = TRUE
            /\ ended' = NoEnd
            /\ UNCHANGED <<vars, reset, cur, moved>>
       [] OTHER ->
            /\ drive' = Idle /\ ended' = NoEnd
            /\ UNCHANGED <<vars, call, do_hd, reset, cur, moved>>

(* hd_out(): a command for n sectors, answered by handler h.               *)
HdOut(h, n) ==
  /\ do_hd' = h
  /\ drive' = [left |-> n, sec |-> cur.sector, data |-> cur.buffer]
  /\ call' = FALSE
  /\ ended' = NoEnd
  /\ UNCHANGED <<vars, cur, moved>>

(* reset_hd(): the controller is reset and given the drive's parameters;   *)
(* the heads have to be recalibrated afterwards.                           *)
ResetHd == reset /\ reset' = FALSE /\ recalibrate' = TRUE /\ HdOut("recal", 1)

(* One round of do_hd_request().  drq: the drive asks for the data of a    *)
(* write in time; if not, the command counts as an error.                  *)
DoHdRequest(drq) ==
  /\ call
  /\ \/ /\ queue = <<>>
        /\ call' = FALSE /\ ended' = NoEnd
        /\ UNCHANGED <<vars, do_hd, reset, recalibrate, cur, drive, moved>>
     \/ /\ queue # <<>> /\ Outside(cur.sector)
        /\ EndCurrent(FALSE, cur.errors, moved)
        /\ UNCHANGED <<call, do_hd, reset, recalibrate, drive>>
     \/ /\ queue # <<>> /\ ~Outside(cur.sector)
        /\ \/ ResetHd
           \/ /\ ~reset /\ recalibrate
              /\ recalibrate' = FALSE
              /\ HdOut("recal", 1)
              /\ UNCHANGED reset
           \/ /\ ~reset /\ ~recalibrate /\ (Current.cmd = READ \/ drq)
              /\ HdOut(IF Current.cmd = READ THEN "read" ELSE "write",
                       cur.nr_sectors)
              /\ UNCHANGED <<reset, recalibrate>>
           \/ /\ ~reset /\ ~recalibrate /\ Current.cmd = WRITE /\ ~drq
              /\ do_hd' = "write"
              /\ BadRwIntr
              /\ UNCHANGED <<call, recalibrate, drive>>

(* The steps of the request queue.  add_request() calls the driver when    *)
(* its list was empty.                                                     *)
HdQueueStep(A) ==
  /\ ~call
  /\ A
  /\ call' = (queue = <<>> /\ queue' # <<>>)
  /\ ended' = NoEnd
  /\ UNCHANGED <<do_hd, reset, recalibrate, cur, drive, moved>>

HdNext ==
  \/ \E p \in Procs, cmd \in {READ, WRITE}, b \in Blocks, ahead \in BOOLEAN :
       HdQueueStep(MakeRequest(p, cmd, b, ahead))
  \/ \E p \in Procs : HdQueueStep(Sleep(p)) \/ HdQueueStep(Repeat(p))
  \/ \E err \in BOOLEAN : HdInterrupt(err)
  \/ \E drq \in BOOLEAN : DoHdRequest(drq)

HdSpec == HdInit /\ [][HdNext]_allvars

(* The processor goes on, the drive answers, and a process about to sleep  *)
(* does; nothing is assumed of errors.                                     *)
HdFairness ==
  /\ WF_allvars(\E err \in BOOLEAN : HdInterrupt(err))
  /\ WF_allvars(\E drq \in BOOLEAN : DoHdRequest(drq))
  /\ \A p \in Procs : WF_allvars(HdQueueStep(Sleep(p)))

HdFairSpec == HdSpec /\ HdFairness

-----------------------------------------------------------------------------
(* A request that ends well has moved both its sectors, each to or from    *)
(* its own half of the buffer, however often it was interrupted by errors, *)
(* resets and recalibrations (read_intr(), write_intr()).                  *)
EndedIsComplete == ended.uptodate => ended.moved = Whole

(* The driver gives a request up only after "Max read/write errors/sector" *)
(* errors, or because it lies outside the partition.                       *)
FailedWasRetried ==
  ~ended.uptodate => ended.errors >= MAX_ERRORS \/ ended.start
=============================================================================
