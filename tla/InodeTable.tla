----------------------------- MODULE InodeTable -----------------------------
(***************************************************************************)
(* The inodes in memory: fs/inode.c, with new_inode() and free_inode() of  *)
(* fs/bitmap.c and the mounting of one device, fs/super.c, by any process. *)
(*                                                                         *)
(* The kernel is not preempted: a process keeps the processor (cpu) from   *)
(* one sleep to the next.  It sleeps when it finds an inode locked and     *)
(* while a block is read.  Waiting for a lock is a guard here; the queue   *)
(* behind it is module WaitQueue's subject.  An inode's contents are       *)
(* abstracted to its link count and to whether they are current.  A change *)
(* of the disk in the drive (check_disk_change()) is left out.             *)
(***************************************************************************)
EXTENDS Naturals, FiniteSets, FiniteSetsExt

CONSTANTS
  Procs,
  Inodes,         (* inode numbers of the root device                      *)
  Dirs,           (* those of them that are directories and stay           *)
  NR_INODE,       (* size of inode_table                                   *)
  None,           (* no process                                            *)
  UnlinkRace,     (* a name may be removed while another process looks it  *)
                  (* up                                                    *)
  SyncRace,       (* sync may meet an inode whose file is being truncated  *)
  UmountRace      (* umount may come while another one is under way        *)

ROOT_INO == 100   (* the root inode of the other device                    *)
Slots == 1 .. NR_INODE
All == Inodes \cup {ROOT_INO}

ASSUME InodesAssumption == Inodes \subseteq 1 .. 99 /\ Dirs \subseteq Inodes
ASSUME ProcsAssumption == IsFiniteSet(Procs) /\ None \notin Procs
(* Enough slots: get_empty_inode() panics when all are in use.             *)
ASSUME SlotsAssumption == NR_INODE \in Nat /\ NR_INODE > Cardinality(Procs)

VARIABLES
  table,          (* inode_table                                           *)
  disk,           (* the inodes on disk                                    *)
  imap,           (* numbers marked used in the inode bitmap               *)
  names,          (* numbers some directory entry has                      *)
  sb,             (* super block of the other device: none, being read or  *)
                  (* up; s_imount                                          *)
  pr,             (* where each process is, with its local variables       *)
  cpu,            (* the process in the middle of a step, or None          *)
  panicked        (* free_inode() found the inode in use, or iput() unused *)

vars == <<table, disk, imap, names, sb, pr, cpu, panicked>>

NoInode == [num |-> 0, count |-> 0, dirt |-> FALSE, lock |-> FALSE,
            nlinks |-> 0, cur |-> TRUE, mount |-> FALSE]
(* slot: the inode worked on or held; empty: the one iget() has in         *)
(* reserve; want: number looked for (0: a new one); ret, after: where      *)
(* write_inode() and iput() return to.                                     *)
Out == [pc |-> "out", slot |-> 0, empty |-> 0, want |-> 0, ret |-> "", after |-> ""]

Init ==
  /\ table = [s \in Slots |-> NoInode]
  /\ disk = [n \in All |-> [nlinks |-> IF n \in Dirs \cup {ROOT_INO} THEN 1 ELSE 0,
                            cur |-> TRUE]]
  /\ imap = Dirs /\ names = Dirs
  /\ sb = [state |-> "none", imount |-> 0]
  /\ pr = [p \in Procs |-> Out]
  /\ cpu = None /\ panicked = FALSE

(* p may take a step; it goes on at rec.pc, keeping the processor unless   *)
(* it meets a lock there.                                                  *)
Runs(p, pc) == pr[p].pc = pc /\ cpu \in {None, p} /\ ~panicked
Sleep(p, rec) == pr' = [pr EXCEPT ![p] = rec] /\ cpu' = None
Go(p, rec) ==
  /\ pr' = [pr EXCEPT ![p] = rec]
  /\ cpu' = IF /\ rec.pc \in {"wlock", "ewait", "iwait", "put", "sync"}
               /\ table'[rec.slot].lock
            THEN None ELSE p
ReturnPut(p) ==
  IF pr[p].after = "out" THEN Sleep(p, Out)
  ELSE Go(p, [pr[p] EXCEPT !.pc = pr[p].after])

-----------------------------------------------------------------------------
(* Mutations. *)

(* iget() passes over cached inodes that nobody uses.                      *)
Matches_UsedOnly(n) == {s \in Slots : table[s].num = n /\ table[s].count > 0}

(* A dirty inode is dropped without being written.                         *)
MustWrite_Never(s) == FALSE

(* new_inode() takes the first number, used or not.                        *)
FreeBits_All == Inodes

(* sys_mount() puts the directory it mounts on.                            *)
MountDone_Puts(p) ==
  LET s == pr[p].slot
  IN  /\ Runs(p, "sread")
      /\ sb' = [state |-> "up", imount |-> s]
      /\ table' = [table EXCEPT ![s].mount = TRUE, ![s].dirt = TRUE,
                                ![s].count = @ - 1]
      /\ Sleep(p, Out)
      /\ UNCHANGED <<disk, imap, names, panicked>>
-----------------------------------------------------------------------------
(* write_inode(): p takes the lock if there is anything to write, and      *)
(* sleeps until the block is there.                                        *)
WriteLock(p) ==
  LET s == pr[p].slot
      writes == table[s].dirt /\ table[s].num # 0
  IN  /\ Runs(p, "wlock") /\ ~table[s].lock
      /\ IF writes
         THEN /\ table' = [table EXCEPT ![s].lock = TRUE]
              /\ Sleep(p, [pr[p] EXCEPT !.pc = "wread"])
         ELSE UNCHANGED table /\ Go(p, [pr[p] EXCEPT !.pc = pr[p].ret])
      /\ UNCHANGED <<disk, imap, names, sb, panicked>>

(* The copy, to where i_num says now: should the inode have been cleared   *)
(* meanwhile, that is some other inode of the block.                       *)
WriteCopy(p) ==
  LET s == pr[p].slot
  IN  /\ Runs(p, "wread")
      /\ \E n \in IF table[s].num = 0 THEN All ELSE {table[s].num} :
           disk' = [disk EXCEPT ![n] = [nlinks |-> table[s].nlinks,
                                        cur |-> table[s].num = n /\ table[s].cur]]
      /\ table' = [table EXCEPT ![s].dirt = FALSE, ![s].lock = FALSE]
      /\ Go(p, [pr[p] EXCEPT !.pc = pr[p].ret])
      /\ UNCHANGED <<imap, names, sb, panicked>>

-----------------------------------------------------------------------------
(* get_empty_inode(): a free slot, clean and unlocked if there is one.     *)
GetEmpty(p) ==
  LET free == {s \in Slots : table[s].count = 0}
      clean == {s \in free : ~table[s].dirt /\ ~table[s].lock}
  IN  /\ Runs(p, "empty")
      /\ UNCHANGED <<table, disk, imap, names, sb, panicked>>
      /\ \E s \in IF clean # {} THEN clean ELSE free :
           Go(p, [pr[p] EXCEPT !.pc = "ewait", !.slot = s])

MustWrite(s) == table[s].dirt

(* After wait_on_inode(): write it if dirty, start over if it was taken    *)
(* meanwhile, else clear it and take it.                                   *)
EmptyWaited(p) ==
  LET s == pr[p].slot
  IN  /\ Runs(p, "ewait") /\ ~table[s].lock
      /\ IF MustWrite(s)
         THEN /\ UNCHANGED table
              /\ Go(p, [pr[p] EXCEPT !.pc = "wlock", !.ret = "ewait"])
         ELSE IF table[s].count > 0
         THEN UNCHANGED table /\ Go(p, [pr[p] EXCEPT !.pc = "empty"])
         ELSE /\ table' = [table EXCEPT ![s] = [NoInode EXCEPT !.count = 1]]
              /\ Go(p, [pr[p] EXCEPT !.pc = IF pr[p].want = 0 THEN "new" ELSE "scan",
                                     !.slot = 0, !.empty = s])
      /\ UNCHANGED <<disk, imap, names, sb, panicked>>

-----------------------------------------------------------------------------
Matches(n) == {s \in Slots : table[s].num = n}

(* iget(dev, nr): the scan of the table finds the inode, or installs the   *)
(* reserve, which read_inode() then locks and reads.                       *)
Iget(p) ==
  LET found == Matches(pr[p].want)
      e == pr[p].empty
  IN  /\ Runs(p, "scan")
      /\ \/ /\ found = {}
            /\ table' = [table EXCEPT ![e].num = pr[p].want, ![e].lock = TRUE]
            /\ Sleep(p, [pr[p] EXCEPT !.pc = "rread", !.slot = e, !.empty = 0])
         \/ /\ found # {} /\ UNCHANGED table
            /\ LET s == Min(found)
               IN  Go(p, [pr[p] EXCEPT !.pc = "iwait", !.slot = s])
      /\ UNCHANGED <<disk, imap, names, sb, panicked>>

SameInode(p) == table[pr[p].slot].num = pr[p].want

(* The inode may have changed during wait_on_inode().  A directory that is *)
(* mounted on leads to the root of the mounted device: it is put and the   *)
(* scan starts again.                                                      *)
IgetWaited(p) ==
  LET s == pr[p].slot
      e == pr[p].empty
  IN  /\ Runs(p, "iwait") /\ ~table[s].lock
      /\ \/ ~SameInode(p) /\ UNCHANGED table /\ Go(p, [pr[p] EXCEPT !.pc = "scan"])
         \/ /\ SameInode(p) /\ table[s].mount
            /\ table' = [table EXCEPT ![s].count = @ + 1]
            /\ Go(p, [pr[p] EXCEPT !.pc = "put", !.after = "scan", !.want = ROOT_INO])
         \/ /\ SameInode(p) /\ ~table[s].mount
            /\ table' = [table EXCEPT ![s].count = @ + 1, ![e].count = @ - 1]
            /\ Sleep(p, [Out EXCEPT !.pc = "hold", !.slot = s])
      /\ UNCHANGED <<disk, imap, names, sb, panicked>>

(* The end of read_inode().                                                *)
ReadInode(p) ==
  LET s == pr[p].slot
  IN  /\ Runs(p, "rread")
      /\ table' = [table EXCEPT ![s].nlinks = disk[table[s].num].nlinks,
                                ![s].cur = disk[table[s].num].cur,
                                ![s].lock = FALSE]
      /\ Sleep(p, [Out EXCEPT !.pc = "hold", !.slot = s])
      /\ UNCHANGED <<disk, imap, names, sb, panicked>>

FreeBits == Inodes \ imap

(* new_inode(): the first free number, or failure.                         *)
NewInode(p) ==
  LET e == pr[p].empty
  IN  /\ Runs(p, "new")
      /\ IF FreeBits = {}
         THEN /\ table' = [table EXCEPT ![e].count = 0]
              /\ Sleep(p, Out)
              /\ UNCHANGED <<disk, imap>>
         ELSE LET n == Min(FreeBits)
              IN  /\ imap' = imap \cup {n}
                  /\ table' = [table EXCEPT ![e] = [NoInode EXCEPT !.num = n,
                                 !.count = 1, !.nlinks = 1, !.dirt = TRUE]]
                  /\ disk' = [disk EXCEPT ![n].cur = FALSE]
                  /\ Sleep(p, [Out EXCEPT !.pc = "fresh", !.slot = e])
      /\ UNCHANGED <<names, sb, panicked>>

(* The caller of new_inode() enters a name for it, or takes the link back. *)
Link(p) ==
  LET s == pr[p].slot
  IN  /\ Runs(p, "fresh")
      /\ \/ /\ names' = names \cup {table[s].num}
            /\ Sleep(p, [pr[p] EXCEPT !.pc = "hold"])
            /\ UNCHANGED table
         \/ /\ table' = [table EXCEPT ![s].nlinks = 0]
            /\ Go(p, [pr[p] EXCEPT !.pc = "put", !.after = "out"])
            /\ UNCHANGED names
      /\ UNCHANGED <<disk, imap, sb, panicked>>

-----------------------------------------------------------------------------
(* i_count is an unsigned short.                                          *)
Decremented(n) == IF n = 0 THEN 65535 ELSE n - 1

(* iput(): after wait_on_inode(), drop one of several references; free an  *)
(* inode without links; write a dirty one and look again; drop the last.   *)
(* That there is a reference is tested on entry, not after a write.        *)
Iput(p) ==
  LET s == pr[p].slot
      i == table[s]
  IN  /\ Runs(p, "put") /\ ~i.lock
      /\ UNCHANGED <<disk, imap, names, sb>>
      /\ IF i.count = 0 /\ pr[p].ret # "put"
         THEN panicked' = TRUE /\ UNCHANGED <<table, pr, cpu>>
         ELSE /\ UNCHANGED panicked
              /\ \/ /\ i.count > 1 \/ (i.nlinks > 0 /\ ~MustWrite(s))
                    /\ table' = [table EXCEPT ![s].count = Decremented(@)]
                    /\ ReturnPut(p)
                 \/ /\ i.count <= 1 /\ i.nlinks = 0 /\ UNCHANGED table
                    /\ Sleep(p, [pr[p] EXCEPT !.pc = "trunc"])
                 \/ /\ i.count <= 1 /\ i.nlinks > 0 /\ MustWrite(s) /\ UNCHANGED table
                    /\ Go(p, [pr[p] EXCEPT !.pc = "wlock", !.ret = "put"])

(* truncate() has slept; free_inode() clears the bit and the slot.         *)
FreeInode(p) ==
  LET s == pr[p].slot
  IN  /\ Runs(p, "trunc")
      /\ IF table[s].count > 1
         THEN panicked' = TRUE /\ UNCHANGED <<table, imap, disk, pr, cpu>>
         ELSE /\ imap' = imap \ {table[s].num}
              /\ disk' = [disk EXCEPT ![table[s].num].cur = TRUE]
              /\ table' = [table EXCEPT ![s] = NoInode]
              /\ ReturnPut(p)
              /\ UNCHANGED panicked
      /\ UNCHANGED <<names, sb>>

(* sync_inodes(): slot after slot.                                         *)
SyncInodes(p) ==
  LET s == pr[p].slot
  IN  /\ Runs(p, "sync") /\ ~table[s].lock
      /\ UNCHANGED <<table, disk, imap, names, sb, panicked>>
      /\ IF table[s].dirt /\ pr[p].ret # "sync"
            /\ (SyncRace \/ \A q \in Procs : pr[q].pc = "trunc" => pr[q].slot # s)
         THEN Go(p, [pr[p] EXCEPT !.pc = "wlock", !.ret = "sync"])
         ELSE IF s = NR_INODE THEN Sleep(p, Out)
         ELSE Go(p, [pr[p] EXCEPT !.slot = s + 1, !.ret = ""])

-----------------------------------------------------------------------------
(* What processes ask for: a name is looked up, a file created, a sync.    *)
Begin(p) ==
  /\ Runs(p, "out")
  /\ UNCHANGED <<table, disk, imap, names, sb, panicked>>
  /\ \/ \E n \in names : Go(p, [Out EXCEPT !.pc = "empty", !.want = n])
     \/ Go(p, [Out EXCEPT !.pc = "empty"])
     \/ Go(p, [Out EXCEPT !.pc = "sync", !.slot = 1])

(* A holder changes the inode, removes its name, or puts it.               *)
Change(p) ==
  LET s == pr[p].slot
  IN  /\ Runs(p, "hold") /\ cpu = None
      /\ table' = [table EXCEPT ![s].dirt = TRUE, ![s].cur = TRUE]
      /\ disk' = [disk EXCEPT ![table[s].num].cur = FALSE]
      /\ UNCHANGED <<imap, names, sb, pr, cpu, panicked>>

LookedUp(n) == \E q \in Procs : pr[q].want = n

Unlink(p) ==
  LET s == pr[p].slot
      n == table[s].num
  IN  /\ Runs(p, "hold") /\ cpu = None
      /\ n \in names \ (Dirs \cup {ROOT_INO})
      /\ UnlinkRace \/ ~LookedUp(n)
      /\ names' = names \ {n}
      /\ table' = [table EXCEPT ![s].nlinks = @ - 1, ![s].dirt = TRUE]
      /\ disk' = [disk EXCEPT ![n].cur = FALSE]
      /\ Go(p, [pr[p] EXCEPT !.pc = "put", !.after = "out"])
      /\ UNCHANGED <<imap, sb, panicked>>

Put(p) ==
  /\ Runs(p, "hold")
  /\ UNCHANGED <<table, disk, imap, names, sb, panicked>>
  /\ Go(p, [pr[p] EXCEPT !.pc = "put", !.after = "out"])

(* sys_mount() on the directory p holds: it must be nobody else's.         *)
(* read_super() begins with check_disk_change(), which may sleep.          *)
Mount(p) ==
  LET s == pr[p].slot
  IN  /\ Runs(p, "hold")
      /\ table[s].num \in Dirs /\ table[s].count = 1
      /\ Sleep(p, [pr[p] EXCEPT !.pc = "super"])
      /\ UNCHANGED <<table, disk, imap, names, sb, panicked>>

(* ... no super block of the device is there: one is locked and read.      *)
ReadSuper(p) ==
  /\ Runs(p, "super") /\ sb.state = "none"
  /\ sb' = [state |-> "read", imount |-> 0]
  /\ Sleep(p, [pr[p] EXCEPT !.pc = "sread"])
  /\ UNCHANGED <<table, disk, imap, names, panicked>>

(* ... it cannot be read, or is none.                                      *)
NoSuper(p) ==
  /\ Runs(p, "sread")
  /\ sb' = [state |-> "none", imount |-> 0]
  /\ UNCHANGED <<table, disk, imap, names, panicked>>
  /\ Go(p, [pr[p] EXCEPT !.pc = "put", !.after = "out"])

(* ... it is there, since before or now: unless the device or the          *)
(* directory is mounted already, s_imount keeps the reference to it.       *)
MountDone(p) ==
  LET s == pr[p].slot
  IN  /\ Runs(p, "sread") \/ (Runs(p, "super") /\ sb.state = "up")
      /\ IF sb.imount # 0 \/ table[s].mount
         THEN /\ sb' = [sb EXCEPT !.state = "up"]
              /\ UNCHANGED table
              /\ Go(p, [pr[p] EXCEPT !.pc = "put", !.after = "out"])
         ELSE /\ sb' = [state |-> "up", imount |-> s]
              /\ table' = [table EXCEPT ![s].mount = TRUE, ![s].dirt = TRUE]
              /\ Sleep(p, Out)
      /\ UNCHANGED <<disk, imap, names, panicked>>

(* sys_umount(): not while an inode of the device is in use.  s_imount is  *)
(* cleared only after iput(), which may sleep: another umount would put it *)
(* once more.                                                              *)
Umount(p) ==
  /\ Runs(p, "out")
  /\ sb.imount # 0
  /\ UmountRace \/ \A q \in Procs : pr[q].after # "umount"
  /\ \A s \in Slots : table[s].num = ROOT_INO => table[s].count = 0
  /\ table' = [table EXCEPT ![sb.imount].mount = FALSE]
  /\ Go(p, [Out EXCEPT !.pc = "put", !.slot = sb.imount, !.after = "umount"])
  /\ UNCHANGED <<disk, imap, names, sb, panicked>>

(* ... put_super() and sync_dev(): the inodes of the device may stay.      *)
UmountDone(p) ==
  /\ Runs(p, "umount") /\ sb.state # "read"
  /\ sb' = [state |-> "none", imount |-> 0]
  /\ Sleep(p, Out)
  /\ UNCHANGED <<table, disk, imap, names, panicked>>

Step(p) ==
  \/ WriteLock(p) \/ WriteCopy(p) \/ GetEmpty(p) \/ EmptyWaited(p)
  \/ Iget(p) \/ IgetWaited(p) \/ ReadInode(p) \/ NewInode(p) \/ Link(p)
  \/ Iput(p) \/ FreeInode(p) \/ SyncInodes(p)
  \/ ReadSuper(p) \/ NoSuper(p) \/ MountDone(p) \/ UmountDone(p)

Next ==
  \E p \in Procs :
    Step(p) \/ Begin(p) \/ Change(p) \/ Unlink(p) \/ Put(p) \/ Mount(p) \/ Umount(p)

Spec == Init /\ [][Next]_vars

-----------------------------------------------------------------------------
(* An inode is in the table at most once, although iget() sleeps between   *)
(* its scan and the moment the inode is ready.                             *)
UniqueInode ==
  \A s, t \in Slots : table[s].num = table[t].num /\ table[s].num # 0 => s = t

(* i_count is the number of references: of processes that hold the inode,  *)
(* have it in reserve or are reading it, and of the mount.                 *)
Refs(s) ==
  Cardinality({p \in Procs : pr[p].empty = s})
  + Cardinality({p \in Procs : pr[p].slot = s /\
       (pr[p].pc \in {"hold", "fresh", "rread", "put", "trunc", "super", "sread"}
        \/ (pr[p].pc \in {"wlock", "wread"} /\ pr[p].ret = "put"))})
  + (IF sb.imount = s /\ \A p \in Procs : pr[p].after # "umount" THEN 1 ELSE 0)
CountIsRefs == \A s \in Slots : table[s].count = Refs(s)

(* Whoever holds an unlocked inode sees its latest contents, and what is   *)
(* not in the table is current on disk: no change is lost between          *)
(* write_inode(), reuse of the slot and read_inode().                      *)
NothingLost ==
  /\ \A p \in Procs : pr[p].pc = "hold" /\ ~table[pr[p].slot].lock
                        => table[pr[p].slot].cur
  /\ \A n \in All : disk[n].cur \/ \E s \in Slots : table[s].num = n /\ table[s].dirt

(* The bitmap has exactly the inodes with a name or a user: none leaks,    *)
(* none that is named is free for new_inode().                             *)
BitmapExact ==
  imap = names \cup {table[pr[p].slot].num :
           p \in {q \in Procs : pr[q].slot # 0 /\ table[pr[q].slot].num \in Inodes
                    /\ (pr[q].pc \in {"hold", "fresh", "put", "trunc"}
                        \/ (pr[q].ret = "put" /\ pr[q].pc \in {"wlock", "wread"}))}}

(* free_inode() frees no inode in use, iput() puts none that is not: their *)
(* panics are not reached.  Refuted with UnlinkRace and with UmountRace.   *)
FreeUnused == ~panicked
=============================================================================
