----------------------------- MODULE Directories -----------------------------
(***************************************************************************)
(* Path names and directories: fs/namei.c, with the block bitmap           *)
(* (new_block(), free_block()) and truncate().                             *)
(*                                                                         *)
(* A system call runs in steps, between which it sleeps and others run.    *)
(* A directory is its list of entries past "." and ".."; an entry whose    *)
(* inode is 0 is free.  Names are one or two components long.  Inodes are  *)
(* got and put in one step: their locking is module InodeTable's subject.  *)
(* All processes are the super-user.                                       *)
(***************************************************************************)
EXTENDS Naturals, Sequences, FiniteSets, FiniteSetsExt, Functions

CONSTANTS
  Procs,
  PathsOf,        (* the path names a process uses                         *)
  MayRemove,      (* those of them it may remove                           *)
  Inodes,         (* inode numbers, 1 the root                             *)
  Blocks,         (* data blocks of the disk                               *)
  PerBlock,       (* entries of a directory block                          *)
  FullMkdir,      (* mkdir() may find no room for its entry                *)
  RmdirRace,      (* a directory may be entered while rmdir() reads it     *)
  AllocRace       (* two calls may extend one inode at the same time       *)

ROOT == 1
ASSUME RootAssumption == ROOT \in Inodes /\ Inodes \cup Blocks \subseteq Nat \ {0}
ASSUME PerBlockAssumption == PerBlock \in Nat /\ PerBlock > 2

VARIABLES
  ino,            (* the inodes: kind, nlinks, count, zones                *)
  zmap,           (* blocks marked used                                    *)
  ents,           (* the entries of each directory                         *)
  pr,             (* the system call a process is in                       *)
  panicked        (* free_block() found the bit cleared already            *)

vars == <<ino, zmap, ents, pr, panicked>>

NoEntry == [name |-> "", ino |-> 0]
Free == [kind |-> "none", nlinks |-> 0, count |-> 0, zones |-> <<>>]
(* dir, ino: inodes held (0: none); slot: the entry found, or where        *)
(* add_entry() looks on; zone: the i_zone[] worked on; blk: the block that *)
(* new_block() got for it; len: the i_size empty_dir() started from.       *)
Idle == [pc |-> "idle", op |-> "", path |-> <<>>, dir |-> 0, ino |-> 0, slot |-> 0,
         zone |-> 0, blk |-> 0, len |-> 0]

Init ==
  LET b == Min(Blocks)
  IN  /\ ino = [i \in Inodes |->
                  IF i = ROOT THEN [kind |-> "dir", nlinks |-> 2, count |-> 1, zones |-> <<b>>]
                  ELSE Free]
      /\ zmap = {b}
      /\ ents = [i \in Inodes |-> <<>>]
      /\ pr = [p \in Procs |-> Idle]
      /\ panicked = FALSE

-----------------------------------------------------------------------------
(* Mutations. *)

(* rmdir() leaves the link of ".." in the parent.                          *)
Removed_KeepsParent(t, d, i) == [t EXCEPT ![i].nlinks = 0]


(* The entry exists already: the directory is not put.                     *)
Exists_NoPut(p) ==
  /\ pr' = [pr EXCEPT ![p] = Idle]
  /\ UNCHANGED <<ino, zmap, ents, panicked>>
-----------------------------------------------------------------------------
State == [ino |-> ino, zmap |-> zmap, bad |-> FALSE]
Become(st) ==
  /\ ino' = st.ino /\ zmap' = st.zmap
  /\ panicked' = (panicked \/ st.bad)

(* free_block() of the blocks in bs.                                       *)
FreeBlocks(st, bs) ==
  [st EXCEPT !.zmap = @ \ bs, !.bad = @ \/ ~(bs \subseteq st.zmap)]

(* truncate(): only what is a file or a directory has blocks to free.      *)
Truncate(st, i) ==
  IF st.ino[i].kind \in {"file", "dir"}
  THEN [FreeBlocks(st, Range(st.ino[i].zones)) EXCEPT !.ino[i].zones = <<>>]
  ELSE st

(* iput(i); 0 is no inode.                                                 *)
Put(st, i) ==
  IF i = 0 THEN st
  ELSE IF st.ino[i].count = 1 /\ st.ino[i].nlinks = 0
  THEN [Truncate(st, i) EXCEPT !.ino[i] = Free]
  ELSE [st EXCEPT !.ino[i].count = @ - 1]

Get(t, i) == [t EXCEPT ![i].count = @ + 1]

(* find_entry(): the entry of that name, the first of them, or 0.          *)
FindEntry(d, name) ==
  LET hits == {k \in 1 .. Len(ents[d]) : ents[d][k].ino # 0 /\ ents[d][k].name = name}
  IN  IF hits = {} THEN 0 ELSE Min(hits)

Name(p) == pr[p].path[Len(pr[p].path)]
(* A call ends: what it holds is put, with the changes of t made first.    *)
Done(p, st) ==
  /\ Become(Put(Put(st, pr[p].dir), pr[p].ino))
  /\ pr' = [pr EXCEPT ![p] = Idle]

-----------------------------------------------------------------------------
(* A call starts: dir_namei() from the root.                               *)
Begin(p, op, path) ==
  /\ pr[p].pc = "idle"
  /\ pr' = [pr EXCEPT ![p] = [Idle EXCEPT !.op = op, !.path = path, !.dir = ROOT,
                                          !.pc = IF Len(path) = 2 THEN "walk" ELSE "find"]]
  /\ ino' = Get(ino, ROOT)
  /\ UNCHANGED <<zmap, ents, panicked>>

(* link(): the old name, in the root, was looked up and its inode is held. *)
BeginLink(p, old, path) ==
  LET k == FindEntry(ROOT, old)
      i == ents[ROOT][k].ino
  IN  /\ pr[p].pc = "idle" /\ k # 0 /\ ino[i].kind # "dir"
      /\ pr' = [pr EXCEPT ![p] = [Idle EXCEPT !.op = "link", !.path = path, !.dir = ROOT,
                          !.ino = i, !.pc = IF Len(path) = 2 THEN "walk" ELSE "find"]]
      /\ ino' = Get(Get(ino, i), ROOT)
      /\ UNCHANGED <<zmap, ents, panicked>>

(* rmdir() has seen that nobody else uses i and is reading its blocks.     *)
BeingRead(i) == \E q \in Procs : pr[q].pc = "empty" /\ pr[q].ino = i

(* get_dir(): the first component must be a directory.                     *)
Walk(p) ==
  LET k == FindEntry(ROOT, pr[p].path[1])
      i == ents[ROOT][k].ino
  IN  /\ pr[p].pc = "walk" /\ UNCHANGED ents
      /\ IF k = 0 THEN Done(p, State)
         ELSE IF ino[i].kind # "dir" THEN Done(p, State)
         ELSE /\ RmdirRace \/ ~BeingRead(i)
              /\ Become(Put([State EXCEPT !.ino = Get(ino, i)], ROOT))
              /\ pr' = [pr EXCEPT ![p].dir = i, ![p].pc = "find"]

(* The name is there: open() and creat() get the file, which creat()       *)
(* truncates; mkdir(), mknod() and link() fail; unlink() and rmdir() go on *)
(* to get the inode.                                                       *)
Exists(p) == Done(p, State) /\ UNCHANGED ents

FoundOpen(p) ==
  LET k == FindEntry(pr[p].dir, Name(p))
      i == ents[pr[p].dir][k].ino
      got == Put([State EXCEPT !.ino = Get(ino, i)], pr[p].dir)
  IN  /\ pr[p].pc = "find" /\ k # 0 /\ pr[p].op \in {"open", "creat"}
      /\ UNCHANGED ents
      /\ IF ino[i].kind = "dir" THEN Done(p, State)
         ELSE /\ Become(IF pr[p].op = "creat" THEN Truncate(got, i) ELSE got)
              /\ pr' = [pr EXCEPT ![p] = [Idle EXCEPT !.pc = "open", !.ino = i]]

Found(p) ==
  LET k == FindEntry(pr[p].dir, Name(p))
  IN  /\ pr[p].pc = "find" /\ k # 0
      /\ \/ pr[p].op \in {"mkdir", "mknod", "link"} /\ Exists(p)
         \/ /\ pr[p].op \in {"unlink", "rmdir"}
            /\ ino' = Get(ino, ents[pr[p].dir][k].ino)
            /\ pr' = [pr EXCEPT ![p].pc = "remove", ![p].slot = k,
                                ![p].ino = ents[pr[p].dir][k].ino]
            /\ UNCHANGED <<zmap, ents, panicked>>

(* It is not there: fail, or make it.                                      *)
Missing(p) ==
  /\ pr[p].pc = "find" /\ FindEntry(pr[p].dir, Name(p)) = 0
  /\ UNCHANGED ents
  /\ IF pr[p].op \in {"open", "unlink", "rmdir"} \/ ino[pr[p].dir].nlinks = 0
     THEN Done(p, State)
     ELSE /\ pr' = [pr EXCEPT ![p].pc = IF pr[p].op = "link" THEN "add" ELSE "new"]
          /\ UNCHANGED <<ino, zmap, panicked>>

(* new_inode(): without a mode so far if it is to be a directory.          *)
NewInode(p) ==
  LET free == {i \in Inodes : ino[i] = Free}
  IN  /\ pr[p].pc = "new" /\ UNCHANGED ents
      /\ IF free = {} THEN Done(p, State)
         ELSE LET mk == pr[p].op = "mkdir"
              IN  /\ ino' = [ino EXCEPT ![Min(free)] =
                               [kind |-> IF mk THEN "new" ELSE "file",
                                nlinks |-> 1, count |-> 1, zones |-> <<>>]]
                  /\ pr' = [pr EXCEPT ![p].ino = Min(free),
                                      ![p].pc = IF mk THEN "block" ELSE "add"]
                  /\ UNCHANGED <<zmap, panicked>>

(* mkdir() gets the first block of the directory and fills it in; ioerr:   *)
(* the block cannot be read.                                               *)
MkdirBlock(p, ioerr) ==
  LET i == pr[p].ino
      b == Min(Blocks \ zmap)
      unlinked == [ino EXCEPT ![i].nlinks = 0]
  IN  /\ pr[p].pc = "block"
      /\ IF Blocks \ zmap = {}
         THEN Done(p, [State EXCEPT !.ino = unlinked]) /\ UNCHANGED ents
         ELSE IF ioerr
         THEN Done(p, [State EXCEPT !.ino = unlinked]) /\ UNCHANGED ents
         ELSE /\ zmap' = zmap \cup {b}
              /\ ino' = [ino EXCEPT ![i] = [@ EXCEPT !.kind = "dir", !.nlinks = 2,
                                                     !.zones = <<b>>]]
              /\ ents' = [ents EXCEPT ![i] = <<>>]
              /\ pr' = [pr EXCEPT ![p].pc = "add"]
              /\ UNCHANGED panicked

-----------------------------------------------------------------------------
(* Entry k of a directory is in its block BlockOf(k), after "." and "..";  *)
(* FirstOf(z) is the first entry of block z.                               *)
BlockOf(k) == (k + 1) \div PerBlock + 1
FirstOf(z) == IF z = 1 THEN 1 ELSE PerBlock * (z - 1) - 1

(* add_entry(): from the entry it has come to, the first free one, or one  *)
(* more at the end, for which the directory may need a block.              *)
Room(p) ==
  LET es == ents[pr[p].dir]
      gaps == {k \in DOMAIN es : k >= pr[p].slot /\ es[k].ino = 0}
  IN  IF gaps # {} THEN Min(gaps) ELSE Len(es) + 1
NeedsBlock(p) == BlockOf(Room(p)) > Len(ino[pr[p].dir].zones)

(* _bmap(): the zone is found empty and new_block() marks a block; it      *)
(* sleeps until it has the buffer.  The inode extended is the directory    *)
(* of add_entry() or the file of file_write().                             *)
Extended(p) == IF pr[p].dir # 0 THEN pr[p].dir ELSE pr[p].ino

NewBlock(p, z) ==
  /\ Blocks \ zmap # {}
  /\ AllocRace \/ \A q \in Procs : pr[q].pc = "store" => Extended(q) # Extended(p)
  /\ zmap' = zmap \cup {Min(Blocks \ zmap)}
  /\ pr' = [pr EXCEPT ![p].pc = "store", ![p].zone = z, ![p].blk = Min(Blocks \ zmap)]
  /\ UNCHANGED <<ino, ents, panicked>>

AddBlock(p) ==
  pr[p].pc = "add" /\ NeedsBlock(p) /\ NewBlock(p, BlockOf(Room(p)))

(* It is stored in i_zone[], whatever is there by now: the entries of a    *)
(* block it replaces are gone.  add_entry() reads it and looks on there.   *)
StoreBlock(p) ==
  LET i == Extended(p)
      z == pr[p].zone
      old == z <= Len(ino[i].zones)
  IN  /\ pr[p].pc = "store"
      /\ ino' = [ino EXCEPT ![i].zones = IF old THEN [@ EXCEPT ![z] = pr[p].blk]
                                         ELSE Append(@, pr[p].blk)]
      /\ ents' = [ents EXCEPT ![i] = [k \in DOMAIN @ |->
                     IF old /\ BlockOf(k) = z THEN NoEntry ELSE @[k]]]
      /\ pr' = [pr EXCEPT ![p] = [@ EXCEPT !.pc = IF pr[p].dir # 0 THEN "add"
                                                  ELSE "open",
                                 !.slot = FirstOf(z), !.zone = 0, !.blk = 0]]
      /\ UNCHANGED <<zmap, panicked>>

(* The caller puts the inode number into the entry without sleeping and    *)
(* puts the directory: creat() keeps the file open, mkdir() counts the ".."*)
(* link, and link() counts its link only afterwards.                       *)
AddEntry(p) ==
  LET d == pr[p].dir
      i == pr[p].ino
      k == Room(p)
      e == [name |-> Name(p), ino |-> i]
      up == [State EXCEPT !.ino[d].nlinks = @ + 1]
  IN  /\ pr[p].pc = "add" /\ ~NeedsBlock(p)
      /\ ents' = [ents EXCEPT ![d] = IF k > Len(@) THEN Append(@, e)
                                     ELSE [@ EXCEPT ![k] = e]]
      /\ CASE pr[p].op = "mknod" -> Done(p, State)
           [] pr[p].op = "mkdir" -> Done(p, up)
           [] OTHER -> /\ Become(Put(State, d))
                       /\ pr' = [pr EXCEPT ![p] = [Idle EXCEPT
                                   !.pc = IF pr[p].op = "creat" THEN "open" ELSE "linked",
                                   !.ino = i]]

(* No room: the new inode goes; mkdir() also frees its block, which        *)
(* truncate() will free again.                                             *)
AddFails(p) ==
  LET i == pr[p].ino
      dead == [State EXCEPT !.ino[i].nlinks = 0]
  IN  /\ pr[p].pc = "add" /\ NeedsBlock(p) /\ Blocks \ zmap = {}
      /\ pr[p].op = "mkdir" => FullMkdir
      /\ UNCHANGED ents
      /\ CASE pr[p].op = "link" -> Done(p, State)
           [] pr[p].op = "mkdir" -> Done(p, FreeBlocks(dead, Range(ino[i].zones)))
           [] OTHER -> Done(p, dead)

(* link() after iput(dir).                                                 *)
Linked(p) ==
  /\ pr[p].pc = "linked"
  /\ Done(p, [State EXCEPT !.ino[pr[p].ino].nlinks = @ + 1])
  /\ UNCHANGED ents

(* rmdir() and unlink() with both inodes: the entry found is cleared.      *)
Removed(t, d, i) == [t EXCEPT ![i].nlinks = 0, ![d].nlinks = @ - 1]

Clear(p) == ents' = [ents EXCEPT ![pr[p].dir][pr[p].slot] = NoEntry]

(* rmdir(): nobody else uses the directory.  empty_dir() then sleeps until *)
(* it has the first block.                                                 *)
Rmdir(p) ==
  LET i == pr[p].ino
      ok == ino[i].count = 1 /\ ino[i].kind = "dir"
  IN  /\ pr[p].pc = "remove" /\ pr[p].op = "rmdir" /\ UNCHANGED ents
      /\ \/ ~ok /\ Done(p, State)
         \/ /\ ok
            /\ pr' = [pr EXCEPT ![p].pc = "empty", ![p].zone = 1, ![p].len = Len(ents[i])]
            /\ UNCHANGED <<ino, zmap, panicked>>

(* empty_dir() looks at a block, and sleeps for the next one; after the    *)
(* last one rmdir() clears the entry.                                      *)
EmptyDir(p) ==
  LET i == pr[p].ino
      z == pr[p].zone
      seen == {k \in 1 .. pr[p].len : BlockOf(k) = z}
  IN  /\ pr[p].pc = "empty"
      /\ \/ /\ \E k \in seen : ents[i][k].ino # 0
            /\ Done(p, State) /\ UNCHANGED ents
         \/ /\ \A k \in seen : ents[i][k].ino = 0
            /\ IF BlockOf(pr[p].len) > z
               THEN /\ pr' = [pr EXCEPT ![p].zone = z + 1]
                    /\ UNCHANGED <<ino, zmap, ents, panicked>>
               ELSE /\ Clear(p)
                    /\ Done(p, [State EXCEPT !.ino = Removed(@, pr[p].dir, i)])

Unlink(p) ==
  LET i == pr[p].ino
      n == IF ino[i].nlinks = 0 THEN 1 ELSE ino[i].nlinks
  IN  /\ pr[p].pc = "remove" /\ pr[p].op = "unlink"
      /\ \/ ino[i].kind = "dir" /\ Done(p, State) /\ UNCHANGED ents
         \/ ino[i].kind # "dir" /\ Clear(p) /\ Done(p, [State EXCEPT !.ino[i].nlinks = n - 1])

(* An open file is written, which gives it a block, or is closed.          *)
Write(p) ==
  pr[p].pc = "open" /\ ino[pr[p].ino].zones = <<>> /\ NewBlock(p, 1)

Close(p) ==
  /\ pr[p].pc = "open"
  /\ Done(p, State)
  /\ UNCHANGED ents

-----------------------------------------------------------------------------
Next ==
  \E p \in Procs :
    \/ \E op \in {"open", "creat", "mkdir", "mknod"}, path \in PathsOf[p] : Begin(p, op, path)
    \/ \E op \in {"unlink", "rmdir"}, path \in MayRemove[p] : Begin(p, op, path)
    \/ \E old, path \in PathsOf[p] : Len(old) = 1 /\ BeginLink(p, old[1], path)
    \/ Walk(p) \/ FoundOpen(p) \/ Found(p) \/ Missing(p)
    \/ NewInode(p) \/ (\E ioerr \in BOOLEAN : MkdirBlock(p, ioerr))
    \/ AddBlock(p) \/ StoreBlock(p) \/ AddEntry(p) \/ AddFails(p) \/ Linked(p)
    \/ Rmdir(p) \/ EmptyDir(p) \/ Unlink(p) \/ Write(p) \/ Close(p)

Spec == Init /\ [][Next]_vars

-----------------------------------------------------------------------------
(* The entries, in all directories, that name inode i.                     *)
Entries(i) ==
  {<<d, k>> \in Inodes \X (1 .. Max({Len(ents[d]) : d \in Inodes})) :
     ino[d].kind = "dir" /\ k \in DOMAIN ents[d] /\ ents[d][k].ino = i}

(* The calls that have not counted their entry of i, or not made one.      *)
Linking(i) == {p \in Procs : pr[p].pc = "linked" /\ pr[p].ino = i}
Adding(i) == {p \in Procs : /\ pr[p].pc \in {"add", "store"} /\ pr[p].op # "link"
                            /\ pr[p].dir # 0 /\ pr[p].ino = i}

(* LinksExact: at every moment i_nlinks is the number of entries of an     *)
(* inode, except while sys_link() has not counted its entry and while a    *)
(* new inode has no entry yet; a directory has two links and one for each  *)
(* subdirectory, and without links, when rmdir() has removed it, no entry. *)
(* No entry names a free inode.                                            *)
LinksExact ==
  /\ \A i \in Inodes \ {ROOT} : ino[i].kind = "file" =>
       ino[i].nlinks + Cardinality(Linking(i)) =
         Cardinality(Entries(i)) + Cardinality(Adding(i))
  /\ \A i \in Inodes : ino[i].kind = "dir" =>
       LET used == {k \in DOMAIN ents[i] : ents[i][k].ino # 0}
       IN  IF ino[i].nlinks = 0 THEN used = {}
           ELSE ino[i].nlinks = 2 + Cardinality({k \in used : ino[ents[i][k].ino].kind = "dir"})
  /\ \A i \in Inodes : Entries(i) # {} => ino[i].kind \in {"file", "dir"}


(* CountsBalanced: every early return of every call puts what it got: an   *)
(* inode's count is the calls that hold it, and the root's one more.       *)
CountsBalanced ==
  \A i \in Inodes :
    ino[i].count = (IF i = ROOT THEN 1 ELSE 0)
                   + Cardinality({p \in Procs : pr[p].dir = i})
                   + Cardinality({p \in Procs : pr[p].ino = i})

(* FreeOnce: free_block() (fs/bitmap.c) never meets a bit that is clear    *)
(* already, where it panics.                                               *)
FreeOnce == ~panicked
=============================================================================
