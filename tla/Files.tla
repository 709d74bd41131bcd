-------------------------------- MODULE Files --------------------------------
(***************************************************************************)
(* The file table, the descriptors of the processes and pipes: fs/open.c,  *)
(* fs/fcntl.c, fs/pipe.c, the file part of fs/read_write.c, and what       *)
(* fork() (kernel/fork.c), do_exit() (kernel/exit.c) and iput() of a pipe  *)
(* (fs/inode.c) do to them.                                                *)
(*                                                                         *)
(* There is one pipe inode at a time and one regular file.  A byte is its  *)
(* number in the stream, modulo Stream.  A process is in user mode or in   *)
(* one of the calls that can sleep; sleep_on() and wake_up() are those of  *)
(* module WaitSet: whoever sleeps is woken.                                *)
(***************************************************************************)
EXTENDS Naturals, FiniteSets, FiniteSetsExt

CONSTANTS
  Procs,
  First,          (* the process that exists at the start                  *)
  NR_OPEN,        (* descriptors of a process                              *)
  NR_FILE,        (* entries of file_table                                 *)
  PAGE_SIZE,      (* bytes of a pipe's page                                *)
  MaxBytes,       (* bytes of one read or write                            *)
  PipeRace        (* others may use a pipe while a copy to or from user    *)
                  (* space sleeps                                          *)

Stream == 2 * PAGE_SIZE

ASSUME FirstAssumption == First \in Procs
ASSUME SizesAssumption == NR_OPEN \in Nat /\ NR_FILE \in Nat /\ PAGE_SIZE \in Nat \ {0, 1}

VARIABLES
  file,           (* f_count, f_inode and f_mode of the file_table entries *)
  filp,           (* the descriptors of each process; 0 is NULL            *)
  ino,            (* i_count of the regular file                           *)
  pipe,           (* i_count, PIPE_HEAD, PIPE_TAIL and the page; sent and  *)
                  (* got count the bytes in and out, modulo Stream         *)
  pr,             (* the call a process is in                              *)
  wrong           (* a reader got a byte that was not the next one         *)

vars == <<file, filp, ino, pipe, pr, wrong>>

Fds == 0 .. NR_OPEN - 1
Entries == 1 .. NR_FILE
NoFile == [count |-> 0, inode |-> "none", mode |-> "none"]
NoPipe == [count |-> 0, head |-> 0, tail |-> 0, sent |-> 0, got |-> 0,
           page |-> [k \in 0 .. PAGE_SIZE - 1 |-> 0]]
(* fd: a descriptor taken by the call; left: bytes still to move; at, n:   *)
(* bytes whose room is taken, not copied yet.                              *)
User == [pc |-> "user", fd |-> {}, left |-> 0, at |-> 0, n |-> 0]

Init ==
  /\ file = [f \in Entries |-> NoFile]
  /\ filp = [p \in Procs |-> [d \in Fds |-> 0]]
  /\ ino = 0 /\ pipe = NoPipe
  /\ pr = [p \in Procs |-> [User EXCEPT !.pc = IF p = First THEN "user" ELSE "none"]]
  /\ wrong = FALSE

-----------------------------------------------------------------------------
(* Mutations. *)

(* fork() forgets to count the files.                                      *)
Inherit_NoCount(p) == file

(* A chunk that does not stop at the end of the page.                      *)
Chunk_NoWrap(from, wanted, available) == Min({wanted, available})

(* iput() of a pipe without wake_up().                                     *)
PutPipe_NoWake(s) == [s EXCEPT !.pipe = IF @.count = 1 THEN NoPipe ELSE [@ EXCEPT !.count = @ - 1]]
-----------------------------------------------------------------------------
State == [file |-> file, filp |-> filp, ino |-> ino, pipe |-> pipe, pr |-> pr]
Become(s) ==
  /\ file' = s.file /\ filp' = s.filp /\ ino' = s.ino /\ pipe' = s.pipe /\ pr' = s.pr

(* wake_up(&inode->i_wait): sleeping readers and writers look again.       *)
WakeUp(r) ==
  [p \in Procs |-> CASE r[p].pc = "read asleep" -> [r[p] EXCEPT !.pc = "read"]
                     [] r[p].pc = "write asleep" -> [r[p] EXCEPT !.pc = "write"]
                     [] OTHER -> r[p]]

(* iput(): of the pipe, of the regular file.                               *)
PutPipe(s) ==
  [s EXCEPT !.pr = WakeUp(@),
            !.pipe = IF @.count = 1 THEN NoPipe ELSE [@ EXCEPT !.count = @ - 1]]

Iput(s, i) == IF i = "pipe" THEN PutPipe(s) ELSE [s EXCEPT !.ino = @ - 1]

(* sys_close() of descriptor d; nothing if it is not open.                 *)
Close(s, p, d) ==
  LET f == s.filp[p][d]
      t == [s EXCEPT !.filp[p][d] = 0, !.file[f].count = @ - 1]
  IN  IF f = 0 THEN s
      ELSE IF t.file[f].count > 0 THEN t
      ELSE Iput([t EXCEPT !.file[f] = NoFile], s.file[f].inode)

FreeFds(p) == {d \in Fds : filp[p][d] = 0}
FreeFiles == {f \in Entries : file[f].count = 0}

-----------------------------------------------------------------------------
(* sys_open(): a descriptor and an entry are taken, then open_namei() may  *)
(* sleep; it fails, or brings the inode.                                   *)
Open(p) ==
  /\ pr[p].pc = "user" /\ FreeFds(p) # {} /\ FreeFiles # {}
  /\ LET d == Min(FreeFds(p))
         f == Min(FreeFiles)
     IN  /\ filp' = [filp EXCEPT ![p][d] = f]
         /\ file' = [file EXCEPT ![f].count = 1]
         /\ pr' = [pr EXCEPT ![p].pc = "open", ![p].fd = {d}]
  /\ UNCHANGED <<ino, pipe, wrong>>

OpenFails(p) ==
  LET d == CHOOSE d \in pr[p].fd : TRUE
  IN  /\ pr[p].pc = "open"
      /\ file' = [file EXCEPT ![filp[p][d]] = NoFile]
      /\ filp' = [filp EXCEPT ![p][d] = 0]
      /\ pr' = [pr EXCEPT ![p] = User]
      /\ UNCHANGED <<ino, pipe, wrong>>

Opened(p) ==
  LET d == CHOOSE d \in pr[p].fd : TRUE
  IN  /\ pr[p].pc = "open"
      /\ file' = [file EXCEPT ![filp[p][d]] = [count |-> 1, inode |-> "file", mode |-> "both"]]
      /\ ino' = ino + 1
      /\ pr' = [pr EXCEPT ![p] = User]
      /\ UNCHANGED <<filp, pipe, wrong>>

(* sys_pipe(): two entries, two descriptors; with fewer of either it gives *)
(* back what it took.  get_pipe_inode() may sleep and may fail.            *)
Pipe(p) ==
  /\ pr[p].pc = "user" /\ Cardinality(FreeFds(p)) > 1 /\ Cardinality(FreeFiles) > 1
  /\ LET d1 == Min(FreeFds(p))
         d2 == Min(FreeFds(p) \ {d1})
         f1 == Min(FreeFiles)
         f2 == Min(FreeFiles \ {f1})
     IN  /\ filp' = [filp EXCEPT ![p][d1] = f1, ![p][d2] = f2]
         /\ file' = [file EXCEPT ![f1].count = 1, ![f2].count = 1]
         /\ pr' = [pr EXCEPT ![p].pc = "pipe", ![p].fd = {d1, d2}]
  /\ UNCHANGED <<ino, pipe, wrong>>

PipeMade(p) ==
  LET r == Min(pr[p].fd)
      w == Max(pr[p].fd)
  IN  /\ pr[p].pc = "pipe" /\ pipe.count = 0
      /\ pipe' = [NoPipe EXCEPT !.count = 2]
      /\ file' = [file EXCEPT ![filp[p][r]] = [count |-> 1, inode |-> "pipe", mode |-> "read"],
                              ![filp[p][w]] = [count |-> 1, inode |-> "pipe", mode |-> "write"]]
      /\ pr' = [pr EXCEPT ![p] = User]
      /\ UNCHANGED <<filp, ino, wrong>>

PipeFails(p) ==
  /\ pr[p].pc = "pipe"
  /\ filp' = [filp EXCEPT ![p] = [d \in Fds |-> IF d \in pr[p].fd THEN 0 ELSE @[d]]]
  /\ file' = [f \in Entries |-> IF \E d \in pr[p].fd : filp[p][d] = f THEN NoFile ELSE file[f]]
  /\ pr' = [pr EXCEPT ![p] = User]
  /\ UNCHANGED <<ino, pipe, wrong>>

SysClose(p, d) ==
  /\ pr[p].pc = "user" /\ filp[p][d] # 0
  /\ Become(Close(State, p, d)) /\ UNCHANGED wrong

(* dupfd(): the first free descriptor from arg on.                         *)
DupFd(s, p, d, arg) ==
  LET free == {e \in Fds : e >= arg /\ s.filp[p][e] = 0}
  IN  IF s.filp[p][d] = 0 \/ free = {} THEN s
      ELSE [s EXCEPT !.filp[p][Min(free)] = s.filp[p][d],
                     !.file[s.filp[p][d]].count = @ + 1]

SysDup(p, d) ==
  /\ pr[p].pc = "user"
  /\ Become(DupFd(State, p, d, 0)) /\ UNCHANGED wrong

SysDup2(p, d, e) ==
  /\ pr[p].pc = "user"
  /\ Become(DupFd(Close(State, p, e), p, d, e)) /\ UNCHANGED wrong

(* copy_process(): the child has the father's descriptors.                 *)
Inherit(p) ==
  [f \in Entries |-> [file[f] EXCEPT !.count =
                        @ + Cardinality({d \in Fds : filp[p][d] = f})]]

Fork(p, q) ==
  /\ pr[p].pc = "user" /\ pr[q].pc = "none"
  /\ filp' = [filp EXCEPT ![q] = filp[p]]
  /\ file' = Inherit(p)
  /\ pr' = [pr EXCEPT ![q] = User]
  /\ UNCHANGED <<ino, pipe, wrong>>

(* do_exit(): every descriptor is closed.                                  *)
DoExit(p) ==
  LET closed[d \in 0 .. NR_OPEN] ==
        IF d = 0 THEN State ELSE Close(closed[d - 1], p, d - 1)
      s == closed[NR_OPEN]
  IN  /\ pr[p].pc = "user" /\ \E q \in Procs \ {p} : pr[q].pc # "none"
      /\ Become([s EXCEPT !.pr[p].pc = "none"])
      /\ UNCHANGED wrong

-----------------------------------------------------------------------------
(* read_pipe() and write_pipe().                                           *)
Size == (pipe.head + PAGE_SIZE - pipe.tail) % PAGE_SIZE
Chunk(from, wanted, available) == Min({PAGE_SIZE - from, wanted, available})

(* sys_read() and sys_write() of n bytes of the pipe.                      *)
Call(p, d, n, pc, mode) ==
  /\ pr[p].pc = "user" /\ filp[p][d] # 0
  /\ file[filp[p][d]].inode = "pipe" /\ file[filp[p][d]].mode = mode
  /\ pr' = [pr EXCEPT ![p].pc = pc, ![p].left = n]
  /\ UNCHANGED <<file, filp, ino, pipe, wrong>>

(* Nothing to read, no room to write: wake the others, and return if the   *)
(* other end is gone, or sleep.                                            *)
Wait(p, asleep) ==
  /\ pr' = [WakeUp(pr) EXCEPT ![p] = IF pipe.count # 2 THEN User ELSE [pr[p] EXCEPT !.pc = asleep]]
  /\ UNCHANGED <<file, filp, ino, pipe, wrong>>

ReadWaits(p) == pr[p].pc = "read" /\ pr[p].left > 0 /\ Size = 0 /\ Wait(p, "read asleep")
WriteWaits(p) ==
  pr[p].pc = "write" /\ pr[p].left > 0 /\ Size = PAGE_SIZE - 1 /\ Wait(p, "write asleep")

(* The bytes copied from cell at on (past the page is a wrong byte), and   *)
(* to cell at on.                                                          *)
Bad(at, n) ==
  \E k \in 0 .. n - 1 : at + k >= PAGE_SIZE \/ pipe.page[at + k] # (pipe.got + k) % Stream

Fetched(pp, n) == [pp EXCEPT !.got = (@ + n) % Stream]

Filled(pp, at, n) ==
  [pp EXCEPT !.sent = (@ + n) % Stream,
             !.page = [k \in 0 .. PAGE_SIZE - 1 |->
                         IF k >= at /\ k < at + n THEN (pp.sent + (k - at)) % Stream ELSE @[k]]]

(* The tail is moved first, the bytes are copied then; the copy may meet a *)
(* page fault and sleep.                                                   *)
Quiet == PipeRace \/ \A q \in Procs : pr[q].pc \notin {"fetch", "fill"}

ReadChunk(p) ==
  LET n == Chunk(pipe.tail, pr[p].left, Size)
      moved == [pipe EXCEPT !.tail = (@ + n) % PAGE_SIZE]
  IN  /\ pr[p].pc = "read" /\ pr[p].left > 0 /\ Size > 0 /\ Quiet
      /\ \/ /\ pipe' = Fetched(moved, n)
            /\ wrong' = (wrong \/ Bad(pipe.tail, n))
            /\ pr' = [pr EXCEPT ![p].left = @ - n]
         \/ /\ pipe' = moved
            /\ pr' = [pr EXCEPT ![p] = [@ EXCEPT !.pc = "fetch", !.at = pipe.tail, !.n = n]]
            /\ UNCHANGED wrong
      /\ UNCHANGED <<file, filp, ino>>

WriteChunk(p) ==
  LET n == Chunk(pipe.head, pr[p].left, PAGE_SIZE - 1 - Size)
      moved == [pipe EXCEPT !.head = (@ + n) % PAGE_SIZE]
  IN  /\ pr[p].pc = "write" /\ pr[p].left > 0 /\ Size < PAGE_SIZE - 1 /\ Quiet
      /\ \/ /\ pipe' = Filled(moved, pipe.head, n)
            /\ pr' = [pr EXCEPT ![p].left = @ - n]
         \/ /\ pipe' = moved
            /\ pr' = [pr EXCEPT ![p] = [@ EXCEPT !.pc = "fill", !.at = pipe.head, !.n = n]]
      /\ UNCHANGED <<file, filp, ino, wrong>>

SlowFetch(p) ==
  /\ pr[p].pc = "fetch"
  /\ pipe' = Fetched(pipe, pr[p].n)
  /\ wrong' = (wrong \/ Bad(pr[p].at, pr[p].n))
  /\ pr' = [pr EXCEPT ![p] = [User EXCEPT !.pc = "read", !.left = pr[p].left - pr[p].n]]
  /\ UNCHANGED <<file, filp, ino>>

SlowFill(p) ==
  /\ pr[p].pc = "fill"
  /\ pipe' = Filled(pipe, pr[p].at, pr[p].n)
  /\ pr' = [pr EXCEPT ![p] = [User EXCEPT !.pc = "write", !.left = pr[p].left - pr[p].n]]
  /\ UNCHANGED <<file, filp, ino, wrong>>

(* All bytes moved: wake the others and return.                            *)
Return(p) ==
  /\ pr[p].pc \in {"read", "write"} /\ pr[p].left = 0
  /\ pr' = [WakeUp(pr) EXCEPT ![p] = User]
  /\ UNCHANGED <<file, filp, ino, pipe, wrong>>

-----------------------------------------------------------------------------
InCall(p) ==
  \/ ReadWaits(p) \/ WriteWaits(p) \/ ReadChunk(p) \/ WriteChunk(p) \/ Return(p)
  \/ SlowFetch(p) \/ SlowFill(p)

Next ==
  \E p \in Procs :
    \/ Open(p) \/ OpenFails(p) \/ Opened(p)
    \/ Pipe(p) \/ PipeMade(p) \/ PipeFails(p)
    \/ \E d \in Fds : \/ SysClose(p, d) \/ SysDup(p, d)
                      \/ \E e \in Fds : SysDup2(p, d, e)
                      \/ \E n \in 1 .. MaxBytes : \/ Call(p, d, n, "read", "read")
                                                  \/ Call(p, d, n, "write", "write")
    \/ \E q \in Procs : Fork(p, q)
    \/ DoExit(p)
    \/ InCall(p)

Spec == Init /\ [][Next]_vars

-----------------------------------------------------------------------------
Refs(f) == {<<p, d>> \in Procs \X Fds : filp[p][d] = f}
Ends(mode) == {f \in Entries : file[f].inode = "pipe" /\ file[f].mode = mode /\ file[f].count > 0}

(* FilesCounted: through fork(), dup(), dup2(), close(), exit() and the    *)
(* failures of open() and pipe(), f_count is the number of descriptors of  *)
(* an entry, and i_count the number of entries of an inode: so a pipe's    *)
(* i_count is 2 exactly while both ends are open, which is what the test   *)
(* "are there any writers?" (fs/pipe.c) relies on.                         *)
FilesCounted ==
  /\ \A f \in Entries : file[f].count = Cardinality(Refs(f))
  /\ ino = Cardinality({f \in Entries : file[f].inode = "file"})
  /\ pipe.count = Cardinality(Ends("read")) + Cardinality(Ends("write"))
  /\ Cardinality(Ends("read")) < 2 /\ Cardinality(Ends("write")) < 2

(* FifoIntact: what readers get from a pipe is what writers put in, in     *)
(* order and once, round the end of the page and with several readers and  *)
(* writers (fs/pipe.c).                                                    *)
FifoIntact == ~wrong

(* SleeperJustified: a reader sleeps only on an empty pipe with an open    *)
(* write end, a writer only on a full one with an open read end: the last  *)
(* close of the other end and every completed transfer wake it.            *)
SleeperJustified ==
  \A p \in Procs :
    /\ pr[p].pc = "read asleep" => (Size = 0 \/ \E q \in Procs : pr[q].pc \in {"write", "fill"}) /\ Ends("write") # {}
    /\ pr[p].pc = "write asleep" =>
         (Size = PAGE_SIZE - 1 \/ \E q \in Procs : pr[q].pc \in {"read", "fetch"}) /\ Ends("read") # {}
=============================================================================
