---------------------------- MODULE BufferCache ----------------------------
(***************************************************************************)
(* The buffer cache of fs/buffer.c with the request side it drives         *)
(* (make_request(), add_request(), end_request()), used by processes that  *)
(* read and modify blocks and call sync.                                   *)
(*                                                                         *)
(* The kernel is not preempted: cur is the process that runs, NoProc when  *)
(* the last one went to sleep and any runnable process may be next.  Only  *)
(* the disk interrupt (Transfer, EndRequest) comes in between at any time. *)
(* A loop "while (b_lock) sleep_on(b_wait)" is the guard ~b_lock[b] of the *)
(* action that follows it: unlock_buffer() wakes everyone (module          *)
(* WaitQueue) and the test is repeated under cli().  In the same way a     *)
(* process waiting for a request slot goes on once one is free (module     *)
(* RequestQueue has the window and the order of service; here the drive    *)
(* serves its requests in any order).  buffer_wait is explicit, because    *)
(* not every b_count-- wakes it.                                           *)
(*                                                                         *)
(* The contents of a block are abstracted to one bit: whether they are the *)
(* latest that was written to the block.  The inodes that sync_inodes()    *)
(* puts into buffers are not part of this module.                          *)
(***************************************************************************)
EXTENDS Naturals, Sequences, FiniteSets, SequencesExt

CONSTANTS
  Procs, NoProc,
  Devs, Blocks, NoBlock,  (* NoBlock: b_dev = 0                            *)
  DevOf,                  (* [Blocks -> Devs]                              *)
  NR_BUFFERS,
  NR_REQUEST,
  NoReq,                  (* dev = -1: the slot is free                    *)
  Work,                   (* per process, the <<operation, block>> it does *)
  FailingCmds             (* the commands that can end in an I/O error     *)

Buffers == 1 .. NR_BUFFERS
Slots == 1 .. NR_REQUEST
WriteSlots == (NR_REQUEST * 2) \div 3
SysSync == "all devices"      (* sys_sync(), as opposed to sync_dev(dev)   *)

(* "read": bread, look, brelse.  "update": bread, hold the buffer, maybe   *)
(* across a sleep, then modify it and mark it, brelse (bitmaps, inodes,    *)
(* directories, a part of a block in block_write()).  "file_write" and     *)
(* "block_write": the copy loops of file_dev.c and block_dev.c, which may  *)
(* sleep in get_fs_byte(); the latter here replaces a whole block.  "sync" *)
(* takes no block: any will do.                                            *)
AllOps == {"read", "update", "file_write", "block_write", "sync"}

ASSUME WorkAssumption == Work \in [Procs -> SUBSET (AllOps \X Blocks)]
ASSUME SizesAssumption == NR_BUFFERS \in Nat \ {0} /\ NR_REQUEST \in Nat
ASSUME DevAssumption ==
  DevOf \in [Blocks -> Devs] /\ SysSync \notin Devs /\ NoBlock \notin Blocks
ASSUME ProcAssumption == NoProc \notin Procs /\ IsFiniteSet(Procs)
ASSUME FailsAssumption == FailingCmds \subseteq {"READ", "WRITE"}

VARIABLES
  (* struct buffer_head *)
  b_blk, b_count, b_lock, b_dirt, b_uptodate,
  b_fresh,      (* b_data holds the latest contents of the block           *)
  free_list,    (* all buffers, in the order getblk() looks at them        *)
  request,      (* request[]: [cmd, bh, done] or NoReq                     *)
  d_fresh,      (* the disk holds the latest contents of the block         *)
  (* processes *)
  cur, pc, op,
  blk,          (* the block a process is after                            *)
  bh,           (* its buffer: the one it holds or the candidate; 0: none  *)
  sy,           (* the cursor of sys_sync() or sync_dev()                  *)
  buffer_wait,  (* processes asleep on buffer_wait                         *)
  owes          (* history: buffers dirty when sync began, not written yet *)

bufVars == <<b_blk, b_count, b_lock, b_dirt, b_uptodate, b_fresh, free_list>>
diskVars == <<request, d_fresh>>
procVars == <<cur, pc, op, blk, bh, sy, buffer_wait, owes>>
vars == <<bufVars, diskVars, procVars>>

READ == "READ"
WRITE == "WRITE"
Requests == [cmd : {READ, WRITE}, bh : Buffers, done : BOOLEAN]
ASSUME NoReqAssumption == NoReq \notin Requests

(* The cursor at the start of sys_sync(), and of a process not in sync.    *)
NoSync == [dev |-> SysSync, i |-> 1, pass |-> 1]

PCs == {"idle", "getblk", "hash_wait", "free_sleep", "free_wait", "got",
        "slot_r", "io_wait", "use", "copy", "brelse",
        "sync", "sync_wait", "slot_w"}

TypeOK ==
  /\ b_blk \in [Buffers -> Blocks \cup {NoBlock}]
  /\ b_count \in [Buffers -> Nat]
  /\ b_lock \in [Buffers -> BOOLEAN]
  /\ b_dirt \in [Buffers -> BOOLEAN]
  /\ b_uptodate \in [Buffers -> BOOLEAN]
  /\ b_fresh \in [Buffers -> BOOLEAN]
  /\ free_list \in Seq(Buffers)
  /\ request \in [Slots -> Requests \cup {NoReq}]
  /\ d_fresh \in [Blocks -> BOOLEAN]
  /\ cur \in Procs \cup {NoProc}
  /\ pc \in [Procs -> PCs]
  /\ op \in [Procs -> AllOps \cup {"none"}]
  /\ blk \in [Procs -> Blocks \cup {NoBlock}]
  /\ bh \in [Procs -> Buffers \cup {0}]
  /\ sy \in [Procs -> [dev : Devs \cup {SysSync}, i : 1 .. NR_BUFFERS + 1,
                       pass : {1, 2}]]
  /\ buffer_wait \in SUBSET Procs
  /\ owes \in [Procs -> SUBSET Buffers]

(* buffer_init() and blk_dev_init().                                       *)
Init ==
  /\ b_blk = [b \in Buffers |-> NoBlock]
  /\ b_count = [b \in Buffers |-> 0]
  /\ b_lock = [b \in Buffers |-> FALSE]
  /\ b_dirt = [b \in Buffers |-> FALSE]
  /\ b_uptodate = [b \in Buffers |-> FALSE]
  /\ b_fresh = [b \in Buffers |-> FALSE]
  /\ free_list = [b \in Buffers |-> b]
  /\ request = [s \in Slots |-> NoReq]
  /\ d_fresh = [k \in Blocks |-> TRUE]
  /\ cur = NoProc
  /\ pc = [p \in Procs |-> "idle"]
  /\ op = [p \in Procs |-> "none"]
  /\ blk = [p \in Procs |-> NoBlock]
  /\ bh = [p \in Procs |-> 0]
  /\ sy = [p \in Procs |-> NoSync]
  /\ buffer_wait = {}
  /\ owes = [p \in Procs |-> {}]

-----------------------------------------------------------------------------
(* p runs, or is the next to run.                                          *)
Runs(p) == cur \in {NoProc, p}

(* p goes to at, and keeps the processor unless it has to sleep there.     *)
Goto(p, at, sleeps) ==
  /\ pc' = [pc EXCEPT ![p] = at]
  /\ cur' = IF sleeps THEN NoProc ELSE p

(* find_buffer(): the hash chain holds every buffer that has a block.      *)
find_buffer(k) == {b \in Buffers : b_blk[b] = k}

(* The device of a buffer's block; no device at all for b_dev = 0.         *)
BDev(b) == IF b_blk[b] = NoBlock THEN "no device" ELSE DevOf[b_blk[b]]

BADNESS(b) == (IF b_dirt[b] THEN 2 ELSE 0) + (IF b_lock[b] THEN 1 ELSE 0)

(* The free list: where a buffer is, and the list once it is moved to the  *)
(* end.                                                                    *)
PlaceOf(b) == CHOOSE i \in DOMAIN free_list : free_list[i] = b
ToTheEnd(b) == Append(RemoveAt(free_list, PlaceOf(b)), b)

(* getblk()'s walk along the free list: the first of the least bad buffers *)
(* nobody uses.                                                            *)
IsCandidate(b) ==
  /\ b_count[b] = 0
  /\ \A c \in Buffers \ {b} :
       b_count[c] = 0 =>
         \/ BADNESS(b) < BADNESS(c)
         \/ BADNESS(b) = BADNESS(c) /\ PlaceOf(b) < PlaceOf(c)

(* The slots make_request() may take.                                      *)
FreeSlots(cmd) ==
  {s \in 1 .. (IF cmd = READ THEN NR_REQUEST ELSE WriteSlots) :
     request[s] = NoReq}

Highest(S) == CHOOSE s \in S : \A t \in S : t <= s

-----------------------------------------------------------------------------
(* Faulty variants, used only as mutations.                                *)

(* The second find_buffer() of getblk() left out.                          *)
FreeClaim_NoRecheck(p) ==
  /\ Runs(p) /\ pc[p] = "free_wait" /\ ~b_lock[bh[p]]
  /\ b_count[bh[p]] = 0 /\ ~b_dirt[bh[p]]
  /\ b_count' = [b_count EXCEPT ![bh[p]] = 1]
  /\ b_dirt' = [b_dirt EXCEPT ![bh[p]] = FALSE]
  /\ b_uptodate' = [b_uptodate EXCEPT ![bh[p]] = FALSE]
  /\ b_blk' = [b_blk EXCEPT ![bh[p]] = blk[p]]
  /\ b_fresh' = [b_fresh EXCEPT ![bh[p]] = FALSE]
  /\ free_list' = ToTheEnd(bh[p])
  /\ Goto(p, "got", FALSE)
  /\ UNCHANGED <<b_lock, diskVars, op, blk, bh, sy, buffer_wait, owes>>

(* b_uptodate = 0 left out: the new block comes with the old contents.     *)
FreeClaim_KeepsUptodate(p) ==
  /\ Runs(p) /\ pc[p] = "free_wait" /\ ~b_lock[bh[p]]
  /\ b_count[bh[p]] = 0 /\ ~b_dirt[bh[p]]
  /\ find_buffer(blk[p]) = {}
  /\ b_count' = [b_count EXCEPT ![bh[p]] = 1]
  /\ b_blk' = [b_blk EXCEPT ![bh[p]] = blk[p]]
  /\ b_fresh' = [b_fresh EXCEPT ![bh[p]] = FALSE]
  /\ free_list' = ToTheEnd(bh[p])
  /\ Goto(p, "got", FALSE)
  /\ UNCHANGED <<b_lock, b_dirt, b_uptodate, diskVars, op, blk, bh, sy,
                 buffer_wait, owes>>

(* sync steps over a locked buffer instead of waiting for it.              *)
SyncWait_SkipLocked(p) ==
  /\ Runs(p) /\ pc[p] = "sync_wait"
  /\ IF /\ sy[p].dev = SysSync \/ BDev(sy[p].i) = sy[p].dev
        /\ b_dirt[sy[p].i] /\ ~b_lock[sy[p].i]
     THEN /\ b_lock' = [b_lock EXCEPT ![sy[p].i] = TRUE]
          /\ Goto(p, "slot_w", FreeSlots(WRITE) = {})
          /\ UNCHANGED sy
     ELSE /\ Goto(p, "sync", FALSE)
          /\ sy' = [sy EXCEPT ![p].i = @ + 1]
          /\ UNCHANGED b_lock
  /\ UNCHANGED <<b_blk, b_count, b_dirt, b_uptodate, b_fresh, free_list,
                 diskVars, op, blk, bh, buffer_wait, owes>>

(* "if (!(buf->b_count--))" without the wake_up() that follows it.         *)
Brelse_NoWake(p) ==
  /\ Runs(p) /\ pc[p] = "brelse" /\ ~b_lock[bh[p]]
  /\ b_count' = [b_count EXCEPT ![bh[p]] = @ - 1]
  /\ op' = [op EXCEPT ![p] = "none"]
  /\ blk' = [blk EXCEPT ![p] = NoBlock]
  /\ bh' = [bh EXCEPT ![p] = 0]
  /\ Goto(p, "idle", TRUE)
  /\ UNCHANGED <<b_blk, b_lock, b_dirt, b_uptodate, b_fresh, free_list,
                 diskVars, sy, buffer_wait, owes>>

(* b_dirt cleared when the write ends, not when it is queued.              *)
EndRequest_ClearsDirt(s, uptodate) ==
  /\ request[s] # NoReq
  /\ IF uptodate THEN request[s].done ELSE request[s].cmd \in FailingCmds
  /\ b_uptodate' = [b_uptodate EXCEPT ![request[s].bh] = uptodate]
  /\ b_lock' = [b_lock EXCEPT ![request[s].bh] = FALSE]
  /\ b_dirt' = [b_dirt EXCEPT ![request[s].bh] = FALSE]
  /\ request' = [request EXCEPT ![s] = NoReq]
  /\ UNCHANGED <<b_blk, b_count, b_fresh, free_list, d_fresh, procVars>>
-----------------------------------------------------------------------------
(* System calls.  A process outside the kernel starts an operation.        *)
Start(p, o, k) ==
  /\ Runs(p) /\ pc[p] = "idle"
  /\ o # "sync" /\ <<o, k>> \in Work[p]
  /\ op' = [op EXCEPT ![p] = o]
  /\ blk' = [blk EXCEPT ![p] = k]
  /\ Goto(p, "getblk", FALSE)
  /\ UNCHANGED <<bufVars, diskVars, bh, sy, buffer_wait, owes>>

StartSync(p) ==
  /\ Runs(p) /\ pc[p] = "idle"
  /\ \E k \in Blocks : <<"sync", k>> \in Work[p]
  /\ op' = [op EXCEPT ![p] = "sync"]
  /\ sy' = [sy EXCEPT ![p] = NoSync]
  /\ owes' = [owes EXCEPT ![p] = {b \in Buffers : b_dirt[b]}]
  /\ Goto(p, "sync", FALSE)
  /\ UNCHANGED <<bufVars, diskVars, blk, bh, buffer_wait>>

(* getblk() at "repeat:".  get_hash_table() found the block: its count is  *)
(* raised before the wait for the lock.                                    *)
GetblkFound(p) ==
  /\ Runs(p) /\ pc[p] = "getblk"
  /\ \E b \in find_buffer(blk[p]) :
       /\ b_count' = [b_count EXCEPT ![b] = @ + 1]
       /\ bh' = [bh EXCEPT ![p] = b]
       /\ Goto(p, "hash_wait", b_lock[b])
  /\ UNCHANGED <<b_blk, b_lock, b_dirt, b_uptodate, b_fresh, free_list,
                 diskVars, op, blk, sy, buffer_wait, owes>>

(* ... it is not cached and some buffer is unused: a candidate is chosen,  *)
(* without a count.                                                        *)
GetblkCandidate(p) ==
  /\ Runs(p) /\ pc[p] = "getblk"
  /\ find_buffer(blk[p]) = {}
  /\ \E b \in Buffers :
       /\ IsCandidate(b)
       /\ bh' = [bh EXCEPT ![p] = b]
       /\ Goto(p, "free_wait", b_lock[b])
  /\ UNCHANGED <<bufVars, diskVars, op, blk, sy, buffer_wait, owes>>

(* ... and every buffer is in use: sleep_on(&buffer_wait).                 *)
GetblkNoBuffer(p) ==
  /\ Runs(p) /\ pc[p] = "getblk"
  /\ find_buffer(blk[p]) = {}
  /\ \A b \in Buffers : b_count[b] > 0
  /\ buffer_wait' = buffer_wait \cup {p}
  /\ Goto(p, "free_sleep", TRUE)
  /\ UNCHANGED <<bufVars, diskVars, op, blk, bh, sy, owes>>

(* get_hash_table() after wait_on_buffer(): is it still the same block?    *)
HashWait(p) ==
  /\ Runs(p) /\ pc[p] = "hash_wait" /\ ~b_lock[bh[p]]
  /\ IF b_blk[bh[p]] = blk[p]
     THEN Goto(p, "got", FALSE) /\ UNCHANGED b_count
     ELSE /\ b_count' = [b_count EXCEPT ![bh[p]] = @ - 1]
          /\ Goto(p, "getblk", FALSE)
  /\ UNCHANGED <<b_blk, b_lock, b_dirt, b_uptodate, b_fresh, free_list,
                 diskVars, op, blk, bh, sy, buffer_wait, owes>>

(* Woken from buffer_wait: goto repeat.                                    *)
FreeWoken(p) ==
  /\ Runs(p) /\ pc[p] = "free_sleep" /\ p \notin buffer_wait
  /\ Goto(p, "getblk", FALSE)
  /\ UNCHANGED <<bufVars, diskVars, op, blk, bh, sy, buffer_wait, owes>>

(* getblk() after wait_on_buffer() on the candidate: somebody took it, or  *)
(* somebody put the wanted block into the cache meanwhile.                 *)
FreeRetry(p) ==
  /\ Runs(p) /\ pc[p] = "free_wait" /\ ~b_lock[bh[p]]
  /\ \/ b_count[bh[p]] > 0
     \/ ~b_dirt[bh[p]] /\ find_buffer(blk[p]) # {}
  /\ bh' = [bh EXCEPT ![p] = 0]
  /\ Goto(p, "getblk", FALSE)
  /\ UNCHANGED <<bufVars, diskVars, op, blk, sy, buffer_wait, owes>>

(* ... it is dirty: sync_dev(bh->b_dev), and look again.                   *)
FreeSync(p) ==
  /\ Runs(p) /\ pc[p] = "free_wait" /\ ~b_lock[bh[p]]
  /\ b_count[bh[p]] = 0 /\ b_dirt[bh[p]]
  /\ sy' = [sy EXCEPT ![p] = [dev |-> BDev(bh[p]), i |-> 1, pass |-> 1]]
  /\ Goto(p, "sync", FALSE)
  /\ UNCHANGED <<bufVars, diskVars, op, blk, bh, buffer_wait, owes>>

(* ... unused, unlocked, clean, and the only one of its kind: it is taken. *)
(* remove_from_queues() and insert_into_queues() put it at the end of the  *)
(* free list.                                                              *)
FreeClaim(p) ==
  /\ Runs(p) /\ pc[p] = "free_wait" /\ ~b_lock[bh[p]]
  /\ b_count[bh[p]] = 0 /\ ~b_dirt[bh[p]]
  /\ find_buffer(blk[p]) = {}
  /\ b_count' = [b_count EXCEPT ![bh[p]] = 1]
  /\ b_dirt' = [b_dirt EXCEPT ![bh[p]] = FALSE]
  /\ b_uptodate' = [b_uptodate EXCEPT ![bh[p]] = FALSE]
  /\ b_blk' = [b_blk EXCEPT ![bh[p]] = blk[p]]
  /\ b_fresh' = [b_fresh EXCEPT ![bh[p]] = FALSE]
  /\ free_list' = ToTheEnd(bh[p])
  /\ Goto(p, "got", FALSE)
  /\ UNCHANGED <<b_lock, diskVars, op, blk, bh, sy, buffer_wait, owes>>

(* getblk() returned.  bread() is done if the buffer is up to date, else   *)
(* it calls make_request(READ), which locks the buffer; block_write() of a *)
(* whole block asks for no more than the buffer.                           *)
Got(p) ==
  /\ Runs(p) /\ pc[p] = "got"
  /\ IF b_uptodate[bh[p]] \/ op[p] = "block_write"
     THEN Goto(p, "use", FALSE) /\ UNCHANGED b_lock
     ELSE /\ ~b_lock[bh[p]]
          /\ b_lock' = [b_lock EXCEPT ![bh[p]] = TRUE]
          /\ Goto(p, "slot_r", FreeSlots(READ) = {})
  /\ UNCHANGED <<b_blk, b_count, b_dirt, b_uptodate, b_fresh, free_list,
                 diskVars, op, blk, bh, sy, buffer_wait, owes>>

(* make_request() finds a slot, add_request() clears b_dirt, whatever the  *)
(* command, and hands the request to the driver.                           *)
AddRequest(cmd, b) ==
  /\ FreeSlots(cmd) # {}
  /\ request' = [request EXCEPT ![Highest(FreeSlots(cmd))] =
                   [cmd |-> cmd, bh |-> b, done |-> FALSE]]
  /\ b_dirt' = [b_dirt EXCEPT ![b] = FALSE]

(* The rest of make_request(READ), and bread()'s wait_on_buffer().         *)
AddRead(p) ==
  /\ Runs(p) /\ pc[p] = "slot_r"
  /\ AddRequest(READ, bh[p])
  /\ Goto(p, "io_wait", TRUE)
  /\ UNCHANGED <<b_blk, b_count, b_lock, b_uptodate, b_fresh, free_list,
                 d_fresh, op, blk, bh, sy, buffer_wait, owes>>

(* bread() after the wait: the buffer, or brelse() and NULL.               *)
IoWait(p) ==
  /\ Runs(p) /\ pc[p] = "io_wait" /\ ~b_lock[bh[p]]
  /\ Goto(p, IF b_uptodate[bh[p]] THEN "use" ELSE "brelse", FALSE)
  /\ UNCHANGED <<bufVars, diskVars, op, blk, bh, sy, buffer_wait, owes>>

(* Bytes are stored into buffer b: what the disk and any other buffer hold *)
(* of the block is out of date; b is as good as it was, or complete if the *)
(* whole block was replaced.                                               *)
Modify(b, whole) ==
  /\ d_fresh' = [d_fresh EXCEPT ![b_blk[b]] = FALSE]
  /\ b_fresh' = [c \in Buffers |->
                   IF c = b THEN b_fresh[b] \/ whole
                   ELSE b_fresh[c] /\ b_blk[c] # b_blk[b]]

(* The user of the buffer goes on to other things, or begins to copy from  *)
(* or to user space, and may sleep.  file_write() marks the buffer now.    *)
Use(p) ==
  /\ Runs(p) /\ pc[p] = "use"
  /\ b_dirt' = [b_dirt EXCEPT ![bh[p]] = @ \/ op[p] = "file_write"]
  /\ \E sleeps \in BOOLEAN : Goto(p, "copy", sleeps)
  /\ UNCHANGED <<b_blk, b_count, b_lock, b_uptodate, b_fresh, free_list,
                 diskVars, op, blk, bh, sy, buffer_wait, owes>>

(* The data has been looked at or changed.  All but file_write() mark the  *)
(* changed buffer now.                                                     *)
Copy(p) ==
  /\ Runs(p) /\ pc[p] = "copy"
  /\ IF op[p] = "read"
     THEN UNCHANGED <<d_fresh, b_fresh>>
     ELSE Modify(bh[p], op[p] = "block_write")
  /\ b_dirt' = [b_dirt EXCEPT ![bh[p]] = @ \/ op[p] \in {"update", "block_write"}]
  /\ Goto(p, "brelse", b_lock[bh[p]])
  /\ UNCHANGED <<b_blk, b_count, b_lock, b_uptodate, free_list, request,
                 op, blk, bh, sy, buffer_wait, owes>>

(* brelse(): the count goes down, wake_up(&buffer_wait) releases all.      *)
Brelse(p) ==
  /\ Runs(p) /\ pc[p] = "brelse" /\ ~b_lock[bh[p]]
  /\ b_count' = [b_count EXCEPT ![bh[p]] = @ - 1]
  /\ buffer_wait' = {}
  /\ op' = [op EXCEPT ![p] = "none"]
  /\ blk' = [blk EXCEPT ![p] = NoBlock]
  /\ bh' = [bh EXCEPT ![p] = 0]
  /\ Goto(p, "idle", TRUE)
  /\ UNCHANGED <<b_blk, b_lock, b_dirt, b_uptodate, b_fresh, free_list,
                 diskVars, sy, owes>>

Advance(p) == sy' = [sy EXCEPT ![p].i = @ + 1]

(* The head of the loops of sys_sync() and sync_dev(): a buffer of another *)
(* device is skipped, on any other one the loop waits for the lock.        *)
Sync(p) ==
  /\ Runs(p) /\ pc[p] = "sync" /\ sy[p].i <= NR_BUFFERS
  /\ IF sy[p].dev = SysSync \/ BDev(sy[p].i) = sy[p].dev
     THEN Goto(p, "sync_wait", b_lock[sy[p].i]) /\ UNCHANGED sy
     ELSE Goto(p, "sync", FALSE) /\ Advance(p)
  /\ UNCHANGED <<bufVars, diskVars, op, blk, bh, buffer_wait, owes>>

(* After wait_on_buffer(): if it still is of the device and dirty it is    *)
(* locked for make_request(WRITE).                                         *)
SyncWait(p) ==
  /\ Runs(p) /\ pc[p] = "sync_wait" /\ ~b_lock[sy[p].i]
  /\ IF /\ sy[p].dev = SysSync \/ BDev(sy[p].i) = sy[p].dev
        /\ b_dirt[sy[p].i]
     THEN /\ b_lock' = [b_lock EXCEPT ![sy[p].i] = TRUE]
          /\ Goto(p, "slot_w", FreeSlots(WRITE) = {})
          /\ UNCHANGED sy
     ELSE Goto(p, "sync", FALSE) /\ Advance(p) /\ UNCHANGED b_lock
  /\ UNCHANGED <<b_blk, b_count, b_dirt, b_uptodate, b_fresh, free_list,
                 diskVars, op, blk, bh, buffer_wait, owes>>

(* The rest of make_request(WRITE); the loop goes on without waiting.      *)
AddWrite(p) ==
  /\ Runs(p) /\ pc[p] = "slot_w"
  /\ AddRequest(WRITE, sy[p].i)
  /\ owes' = [q \in Procs |-> owes[q] \ {sy[p].i}]
  /\ Advance(p)
  /\ Goto(p, "sync", FALSE)
  /\ UNCHANGED <<b_blk, b_count, b_lock, b_uptodate, b_fresh, free_list,
                 d_fresh, op, blk, bh, buffer_wait>>

(* The end of the loop: sync_dev() runs it twice and returns to getblk(),  *)
(* which waits for its candidate again; sys_sync() returns.                *)
SyncEnd(p) ==
  /\ Runs(p) /\ pc[p] = "sync" /\ sy[p].i = NR_BUFFERS + 1
  /\ IF sy[p].dev # SysSync /\ sy[p].pass = 1
     THEN /\ sy' = [sy EXCEPT ![p] = [@ EXCEPT !.i = 1, !.pass = 2]]
          /\ Goto(p, "sync", FALSE)
     ELSE /\ sy' = [sy EXCEPT ![p] = NoSync]
          /\ IF sy[p].dev = SysSync THEN Goto(p, "idle", TRUE)
             ELSE Goto(p, "free_wait", b_lock[bh[p]])
  /\ op' = [op EXCEPT ![p] = IF @ = "sync" THEN "none" ELSE @]
  /\ owes' = [owes EXCEPT ![p] = {}]
  /\ UNCHANGED <<bufVars, diskVars, blk, bh, buffer_wait>>

-----------------------------------------------------------------------------
(* The drive moves the data of a request; the buffer may be modified       *)
(* before and after.                                                       *)
Transfer(s) ==
  /\ request[s] # NoReq /\ ~request[s].done
  /\ LET b == request[s].bh
         k == b_blk[b]
     IN  IF request[s].cmd = WRITE
         THEN d_fresh' = [d_fresh EXCEPT ![k] = b_fresh[b]] /\ UNCHANGED b_fresh
         ELSE b_fresh' = [b_fresh EXCEPT ![b] = d_fresh[k]] /\ UNCHANGED d_fresh
  /\ request' = [request EXCEPT ![s].done = TRUE]
  /\ UNCHANGED <<b_blk, b_count, b_lock, b_dirt, b_uptodate, free_list,
                 procVars>>

(* end_request(uptodate) in the disk interrupt.                            *)
EndRequest(s, uptodate) ==
  /\ request[s] # NoReq
  /\ IF uptodate THEN request[s].done ELSE request[s].cmd \in FailingCmds
  /\ b_uptodate' = [b_uptodate EXCEPT ![request[s].bh] = uptodate]
  /\ b_lock' = [b_lock EXCEPT ![request[s].bh] = FALSE]
  /\ request' = [request EXCEPT ![s] = NoReq]
  /\ UNCHANGED <<b_blk, b_count, b_dirt, b_fresh, free_list, d_fresh,
                 procVars>>

Step(p) ==
  \/ GetblkFound(p) \/ GetblkCandidate(p) \/ GetblkNoBuffer(p)
  \/ HashWait(p) \/ FreeWoken(p) \/ FreeRetry(p) \/ FreeSync(p) \/ FreeClaim(p)
  \/ Got(p) \/ AddRead(p) \/ IoWait(p)
  \/ Use(p) \/ Copy(p) \/ Brelse(p)
  \/ Sync(p) \/ SyncWait(p) \/ AddWrite(p) \/ SyncEnd(p)

Disk(s) == Transfer(s) \/ \E ok \in BOOLEAN : EndRequest(s, ok)

Next ==
  \/ \E p \in Procs, o \in AllOps, k \in Blocks : Start(p, o, k)
  \/ \E p \in Procs : StartSync(p) \/ Step(p)
  \/ \E s \in Slots : Disk(s)

Spec == Init /\ [][Next]_vars

(* A runnable process is scheduled in the end; the drive ends what it      *)
(* began.  Nobody is obliged to start an operation.                        *)
Fairness ==
  /\ \A p \in Procs : WF_vars(Step(p))
  /\ \A s \in Slots : WF_vars(Disk(s))

FairSpec == Spec /\ Fairness

-----------------------------------------------------------------------------
Holding == {"hash_wait", "got", "slot_r", "io_wait", "use", "copy", "brelse"}

(* One buffer per block: two processes that miss the same block at the     *)
(* same time and sleep on different candidates do not both install it.     *)
UniqueBuffer ==
  \A b, c \in Buffers : b_blk[b] = b_blk[c] /\ b_blk[b] # NoBlock => b = c

(* b_count is the number of processes that use the buffer, so brelse()     *)
(* never panics ("Trying to free free buffer"), and a process keeps the    *)
(* block it asked for across every sleep.                                  *)
CountIsHolders ==
  /\ \A b \in Buffers :
       b_count[b] = Cardinality({p \in Procs : pc[p] \in Holding /\ bh[p] = b})
  /\ \A p \in Procs : pc[p] \in Holding => b_blk[bh[p]] = blk[p]

(* A locked buffer is one with a request, or one a process holds locked    *)
(* while it waits for a slot, and has one such owner: the driver never     *)
(* panics with "block not locked", and no lock is left behind.             *)
LockHasOwner ==
  \A b \in Buffers :
    Cardinality({s \in Slots : request[s] # NoReq /\ request[s].bh = b})
      + Cardinality({p \in Procs : \/ pc[p] = "slot_r" /\ bh[p] = b
                                   \/ pc[p] = "slot_w" /\ sy[p].i = b})
      = IF b_lock[b] THEN 1 ELSE 0

(* Every buffer stays on the free list, once, where getblk() can find it.  *)
AllListed ==
  /\ Len(free_list) = NR_BUFFERS
  /\ \A b \in Buffers : \E i \in DOMAIN free_list : free_list[i] = b

(* Buffers are accounted for: the parts above, over every sleep of         *)
(* getblk(), bread(), sync and the drivers' errors.                        *)
BuffersAccounted ==
  TypeOK /\ UniqueBuffer /\ CountIsHolders /\ LockHasOwner /\ AllListed

(* The latest contents of a block are on disk, or in its buffer and bound  *)
(* for the disk: marked dirty, or in a write that has not been transferred.*)
NoLostWrite ==
  \A k \in Blocks :
    \/ d_fresh[k]
    \/ \E b \in find_buffer(k) :
         /\ b_fresh[b]
         /\ \/ b_dirt[b]
            \/ \E s \in Slots : request[s] = [cmd |-> WRITE, bh |-> b,
                                              done |-> FALSE]

(* Whoever uses a buffer that bread() returned sees the latest contents,   *)
(* also when it was read, written back, evicted and read again meanwhile.  *)
ReadersSeeLatest ==
  \A p \in Procs :
    pc[p] \in {"use", "copy"} /\ op[p] # "block_write" => b_fresh[bh[p]]

(* sys_sync() misses nothing: what was dirty when it began is handed to    *)
(* the driver by the time its loop has passed it.                          *)
SyncFlushes ==
  \A p \in Procs :
    op[p] = "sync" => \A b \in owes[p] : sy[p].i <= b

(* When no new operation begins, all operations end: no lost wake-up, no   *)
(* ring of processes waiting for one another's buffers or slots.           *)
Quiesces ==
  <>[][\A p \in Procs : ~(pc[p] = "idle" /\ pc'[p] # "idle")]_vars
    => \A p \in Procs : <>[](pc[p] = "idle")
=============================================================================
