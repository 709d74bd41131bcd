------------------------------- MODULE Memory -------------------------------
(***************************************************************************)
(* mm/memory.c: physical pages and their use counts in mem_map[], page     *)
(* tables, copy-on-write after fork() (copy_page_tables, un_wp_page),      *)
(* demand loading and sharing of executables (do_no_page, try_to_share),   *)
(* and what fork.c, exit.c and exec.c do with them.                        *)
(*                                                                         *)
(* Page faults, fork and exit run in the kernel without a sleep, so each   *)
(* is one action.  The exceptions are do_no_page(), which sleeps in        *)
(* bread_page() while it owns a page that no table refers to, and          *)
(* do_execve(), whose copy_strings() owns a page of argument strings while *)
(* it reads the strings, which may fault like any other access, and which  *)
(* sleeps again after it has changed task->executable.  The page of        *)
(* strings stands for the up to MAX_ARG_PAGES of page[].  It is known only *)
(* to the kernel stack: when a fault in copy_strings() runs out of memory, *)
(* do_exit() does not return and the page is lost.  A page's contents are  *)
(* abstracted to who wrote it last.  The TLB is invalidated by the code    *)
(* after every change and is left out.                                     *)
(***************************************************************************)
EXTENDS Integers, FiniteSets

CONSTANTS
  NR_TASKS,     (* user tasks; 1 is init                                   *)
  NR_PAGES,     (* PAGING_PAGES                                            *)
  NR_DIRS,      (* page directory entries (4 MB each) of a task            *)
  Addrs,        (* pages of a task's address space                         *)
  DirOf,        (* [Addrs -> Dirs]                                         *)
  ImageAddrs,   (* those below end_data: backed by the executable          *)
  StackAddr,    (* the last one: arguments and stack                       *)
  Exes,         (* executables                                             *)
  NoExe,
  NoPage        (* entry not present; no page                              *)

Tasks == 1 .. NR_TASKS
Pages == 1 .. NR_PAGES
Dirs == 1 .. NR_DIRS
LOW == 0        (* any page below LOW_MEM: never counted                   *)

(* NR_TASKS is 64 in the code, and mem_map[] an array of unsigned char.    *)
ASSUME SizesAssumption ==
  NR_TASKS \in 1 .. 255 /\ NR_PAGES \in Nat /\ 1 + NR_DIRS <= NR_PAGES
ASSUME AddrsAssumption ==
  /\ NR_DIRS \in Nat /\ IsFiniteSet(Addrs) /\ DirOf \in [Addrs -> Dirs]
  /\ ImageAddrs \subseteq Addrs /\ StackAddr \in Addrs \ ImageAddrs

PTE == [page : Pages \cup {LOW}, w : BOOLEAN, d : BOOLEAN]

ASSUME NoPageAssumption ==
  NoPage \notin Pages \cup {LOW} /\ NoPage \notin PTE /\ NoPage \notin Pages \X Addrs

VARIABLES
  mem_map,      (* use count of every page                                 *)
  dir,          (* the page-table page of every directory entry            *)
  pte,          (* page table entries: page, writable, dirty; or NoPage    *)
  task,         (* the page of the task_struct, NoPage if the slot is free *)
  alive,        (* tasks that have not called do_exit()                    *)
  exe,          (* task->executable                                        *)
  pc,           (* where in the kernel a task is                           *)
  loading,      (* <<page, address>>: a page do_no_page() has not mapped   *)
  strings,      (* the page of argument strings do_execve() has in page[]  *)
  lost,         (* history: pages of strings whose do_execve() has died    *)
  data,         (* contents of a page: who wrote it, ZERO or IMAGE       *)
  view          (* history: what the task should find at an address        *)

vars == <<mem_map, dir, pte, task, alive, exe, pc, loading, strings, lost, data, view>>

ZERO == 0       (* never written *)
IMAGE == -1     (* as in the executable *)
Contents == Tasks \cup {ZERO, IMAGE}

TypeOK ==
  /\ mem_map \in [Pages -> 0 .. 255]
  /\ dir \in [Tasks -> [Dirs -> Pages \cup {NoPage}]]
  /\ pte \in [Tasks -> [Addrs -> PTE \cup {NoPage}]]
  /\ task \in [Tasks -> Pages \cup {NoPage}]
  /\ alive \in SUBSET Tasks
  /\ exe \in [Tasks -> Exes \cup {NoExe}]
  /\ pc \in [Tasks -> {"run", "no_page", "copy_strings", "closing"}]
  /\ loading \in [Tasks -> (Pages \X Addrs) \cup {NoPage}]
  /\ strings \in [Tasks -> Pages \cup {NoPage}]
  /\ lost \in SUBSET Pages
  /\ data \in [Pages \cup {LOW} -> Contents]
  /\ view \in [Tasks -> [Addrs -> Contents]]

NoDirs == [d \in Dirs |-> NoPage]
NoPTEs == [a \in Addrs |-> NoPage]

(* After the first fork: init has its task page, page tables that refer to *)
(* the kernel's low pages, read-only, and no executable.                   *)
Init ==
  LET used == 1 + NR_DIRS
  IN  /\ mem_map = [p \in Pages |-> IF p > NR_PAGES - used THEN 1 ELSE 0]
      /\ task = [t \in Tasks |-> IF t = 1 THEN NR_PAGES ELSE NoPage]
      /\ dir = [t \in Tasks |->
                  IF t = 1 THEN [d \in Dirs |-> NR_PAGES - d] ELSE NoDirs]
      /\ pte = [t \in Tasks |->
                  IF t = 1
                  THEN [a \in Addrs |-> [page |-> LOW, w |-> FALSE, d |-> TRUE]]
                  ELSE NoPTEs]
      /\ alive = {1}
      /\ exe = [t \in Tasks |-> NoExe]
      /\ pc = [t \in Tasks |-> "run"]
      /\ loading = [t \in Tasks |-> NoPage]
      /\ strings = [t \in Tasks |-> NoPage]
      /\ lost = {}
      /\ data = [p \in Pages \cup {LOW} |-> ZERO]
      /\ view = [t \in Tasks |-> [a \in Addrs |-> ZERO]]

-----------------------------------------------------------------------------
FreeIn(map) == {p \in Pages : map[p] = 0}
Free == FreeIn(mem_map)

(* The page the k-th call of get_free_page() in a row returns: the scan    *)
(* starts at the end of mem_map[].                                         *)
FreePage(map, k) ==
  CHOOSE p \in FreeIn(map) : Cardinality({q \in FreeIn(map) : q > p}) = k - 1

get_free_page(k) == FreePage(mem_map, k)

Mapped(t, a) == pte[t][a] # NoPage

(* The task runs: it exists and is not asleep in the kernel.               *)
Runs(t) == t \in alive /\ pc[t] = "run"

(* The task reads its memory: it runs, or is in copy_strings(), whose      *)
(* get_fs_long() and get_fs_byte() fault like an access of its own.        *)
Reads(t) == t \in alive /\ pc[t] \in {"run", "copy_strings"}

(* How often task t refers to page p through its tables.                   *)
Uses(t, p) ==
  Cardinality({a \in Addrs : Mapped(t, a) /\ pte[t][a].page = p})
    + Cardinality({d \in Dirs : dir[t][d] = p})

-----------------------------------------------------------------------------
(* Faulty variants, used only as mutations.                                *)

(* un_wp_page() without mem_map[old]--.                                    *)
UnWpPage_NoDec(t, a) ==
  /\ Runs(t) /\ Mapped(t, a) /\ ~pte[t][a].w /\ Free # {}
  /\ mem_map' = [mem_map EXCEPT ![get_free_page(1)] = 1]
  /\ pte' = [pte EXCEPT ![t][a] =
               [page |-> get_free_page(1), w |-> TRUE, d |-> FALSE]]
  /\ data' = [data EXCEPT ![get_free_page(1)] = data[pte[t][a].page]]
  /\ UNCHANGED <<dir, task, alive, exe, pc, loading, strings, lost, view>>

(* un_wp_page() without the test of mem_map[] and without the copy: every  *)
(* write-protected page is simply made writable.                           *)
UnWpPage_NoCopy(t, a) ==
  /\ Runs(t) /\ Mapped(t, a) /\ ~pte[t][a].w
  /\ pte' = [pte EXCEPT ![t][a].w = TRUE]
  /\ UNCHANGED <<mem_map, dir, task, alive, exe, pc, loading, strings, lost, data, view>>

-----------------------------------------------------------------------------
(* this_page &= ~2                                                         *)
WriteProtect(e) == IF e = NoPage THEN e ELSE [e EXCEPT !.w = FALSE]

(* free_page_tables() for the whole space of t, then do_exit().  map is    *)
(* mem_map[] at that time.  What only do_execve()'s page[] knew is lost.   *)
ExitFrom(t, map) ==
  /\ mem_map' = [p \in Pages |-> map[p] - Uses(t, p)]
  /\ dir' = [dir EXCEPT ![t] = NoDirs]
  /\ pte' = [pte EXCEPT ![t] = NoPTEs]
  /\ exe' = [exe EXCEPT ![t] = NoExe]
  /\ alive' = alive \ {t}
  /\ pc' = [pc EXCEPT ![t] = "run"]
  /\ loading' = [loading EXCEPT ![t] = NoPage]
  /\ strings' = [strings EXCEPT ![t] = NoPage]
  /\ lost' = lost \cup ({strings[t]} \ {NoPage})
  /\ UNCHANGED <<task, data, view>>

(* oom(): do_exit(SIGSEGV).                                                *)
Oom(t) == ExitFrom(t, mem_map)

(* put_page(page, a) where page was just counted: the entry is set, and a  *)
(* page table is allocated as the k-th page if there is none.              *)
PutPage(t, a, entry, k) ==
  /\ pte' = [pte EXCEPT ![t][a] = entry]
  /\ dir' = IF dir[t][DirOf[a]] # NoPage THEN dir
            ELSE [dir EXCEPT ![t][DirOf[a]] = get_free_page(k)]

(* mem_map[] with the k-th free page taken if a page table is missing.     *)
TableTaken(t, a, map, k) ==
  IF dir[t][DirOf[a]] # NoPage THEN map
  ELSE [map EXCEPT ![get_free_page(k)] = 1]

(* Pages a new mapping at a needs for page tables.                         *)
TableNeed(t, a) == IF dir[t][DirOf[a]] # NoPage THEN 0 ELSE 1

-----------------------------------------------------------------------------
(* fork() into the first free slot.  One page for the task, one for every  *)
(* page table of the parent; entries are shared and write-protected on     *)
(* both sides, those of low pages only in the child.  If a page table      *)
(* cannot be had, copy_mem() undoes what was copied: the counts are as     *)
(* before, but the parent's entries stay write-protected.                  *)
Fork(t, c) ==
  LET present == {d \in Dirs : dir[t][d] # NoPage}
      nth(d) == Cardinality({e \in present : e <= d})
      copied == {d \in present : 1 + nth(d) <= Cardinality(Free)}
      ok == copied = present
  IN  /\ Runs(t) /\ Free # {}
      /\ task[c] = NoPage /\ \A x \in 1 .. c - 1 : task[x] # NoPage
      /\ pte' = [u \in Tasks |->
                   IF u = c /\ ok THEN [a \in Addrs |-> WriteProtect(pte[t][a])]
                   ELSE [a \in Addrs |->
                           IF /\ u = t /\ DirOf[a] \in copied
                              /\ Mapped(t, a) /\ pte[t][a].page # LOW
                           THEN WriteProtect(pte[t][a]) ELSE pte[u][a]]]
      /\ IF ok
         THEN LET new == {get_free_page(k) : k \in 1 .. 1 + Cardinality(present)}
              IN  /\ mem_map' = [p \in Pages |->
                       IF p \in new THEN 1
                       ELSE mem_map[p] + Cardinality(
                              {a \in Addrs : Mapped(t, a) /\ pte[t][a].page = p})]
                  /\ task' = [task EXCEPT ![c] = get_free_page(1)]
                  /\ dir' = [dir EXCEPT ![c] = [d \in Dirs |->
                       IF d \in present THEN get_free_page(1 + nth(d))
                       ELSE NoPage]]
                  /\ alive' = alive \cup {c}
                  /\ exe' = [exe EXCEPT ![c] = exe[t]]
                  /\ view' = [view EXCEPT ![c] = view[t]]
         ELSE UNCHANGED <<mem_map, task, dir, alive, exe, view>>
      /\ UNCHANGED <<pc, loading, strings, lost, data>>

(* A store to a writable page; the processor sets the dirty bit.           *)
Write(t, a) ==
  /\ Runs(t) /\ Mapped(t, a) /\ pte[t][a].w
  /\ pte' = [pte EXCEPT ![t][a].d = TRUE]
  /\ data' = [data EXCEPT ![pte[t][a].page] = t]
  /\ view' = [view EXCEPT ![t][a] = t]
  /\ UNCHANGED <<mem_map, dir, task, alive, exe, pc, loading, strings, lost>>

(* do_wp_page(), or write_verify() called for a read() system call: the    *)
(* last user of a page gets it back, any other one gets a copy.            *)
UnWpPage(t, a) ==
  /\ Runs(t) /\ Mapped(t, a) /\ ~pte[t][a].w
  /\ LET old == pte[t][a].page
         new == get_free_page(1)
     IN  \/ /\ old # LOW /\ mem_map[old] = 1
            /\ pte' = [pte EXCEPT ![t][a].w = TRUE]
            /\ UNCHANGED <<mem_map, dir, task, alive, exe, pc, loading, strings, lost, data, view>>
         \/ /\ ~(old # LOW /\ mem_map[old] = 1)
            /\ Free # {}
            /\ mem_map' = [p \in Pages |->
                             IF p = new THEN 1
                             ELSE IF p = old THEN mem_map[p] - 1
                             ELSE mem_map[p]]
            /\ pte' = [pte EXCEPT ![t][a] =
                         [page |-> new, w |-> TRUE, d |-> FALSE]]
            /\ data' = [data EXCEPT ![new] = data[old]]
            /\ UNCHANGED <<dir, task, alive, exe, pc, loading, strings, lost, view>>
         \/ /\ ~(old # LOW /\ mem_map[old] = 1)
            /\ Free = {}
            /\ Oom(t)

(* do_no_page() beyond the executable: get_empty_page().                   *)
NoPageEmpty(t, a) ==
  /\ Reads(t) /\ ~Mapped(t, a)
  /\ exe[t] = NoExe \/ a \notin ImageAddrs
  /\ IF Cardinality(Free) >= 1 + TableNeed(t, a)
     THEN /\ PutPage(t, a, [page |-> get_free_page(1), w |-> TRUE, d |-> FALSE], 2)
          /\ mem_map' = TableTaken(t, a,
                          [mem_map EXCEPT ![get_free_page(1)] = 1], 2)
          /\ data' = [data EXCEPT ![get_free_page(1)] = ZERO]
          /\ view' = [view EXCEPT ![t][a] = ZERO]
          /\ UNCHANGED <<task, alive, exe, pc, loading, strings, lost>>
     ELSE Oom(t)

(* What try_to_share() asks of the other task's entry: present, clean, not *)
(* a low page.                                                             *)
CanShare(t, a, u) ==
  /\ u # t /\ task[u] # NoPage /\ exe[u] = exe[t]
  /\ Mapped(u, a) /\ ~pte[u][a].d /\ pte[u][a].page # LOW

Sharers(t, a) == {u \in Tasks : CanShare(t, a, u)}

(* do_no_page(): share_page() goes through the tasks from the last one     *)
(* down and takes the first that will do; both entries are read-only.      *)
NoPageShare(t, a) ==
  /\ Reads(t) /\ ~Mapped(t, a) /\ exe[t] # NoExe /\ a \in ImageAddrs
  /\ Sharers(t, a) # {}
  /\ LET u == CHOOSE x \in Sharers(t, a) : \A y \in Sharers(t, a) : y <= x
         entry == [pte[u][a] EXCEPT !.w = FALSE]
     IN  IF Cardinality(Free) >= TableNeed(t, a)
         THEN /\ pte' = [pte EXCEPT ![u][a] = entry, ![t][a] = entry]
              /\ dir' = IF dir[t][DirOf[a]] # NoPage THEN dir
                        ELSE [dir EXCEPT ![t][DirOf[a]] = get_free_page(1)]
              /\ mem_map' = TableTaken(t, a,
                              [mem_map EXCEPT ![entry.page] = @ + 1], 1)
              /\ view' = [view EXCEPT ![t][a] = IMAGE]
              /\ UNCHANGED <<task, alive, exe, pc, loading, strings, lost, data>>
         ELSE Oom(t)

(* ... nobody to share with: a page is taken and bread_page() sleeps.      *)
NoPageRead(t, a) ==
  /\ Reads(t) /\ ~Mapped(t, a) /\ exe[t] # NoExe /\ a \in ImageAddrs
  /\ Sharers(t, a) = {}
  /\ IF Free # {}
     THEN /\ mem_map' = [mem_map EXCEPT ![get_free_page(1)] = 1]
          /\ pc' = [pc EXCEPT ![t] = "no_page"]
          /\ loading' = [loading EXCEPT ![t] = <<get_free_page(1), a>>]
          /\ UNCHANGED <<dir, pte, task, alive, exe, strings, lost, data, view>>
     ELSE Oom(t)

(* ... it is read: put_page(), or free_page() and oom().                   *)
NoPageDone(t) ==
  /\ t \in alive /\ pc[t] = "no_page"
  /\ LET page == loading[t][1]
         a == loading[t][2]
     IN  IF Cardinality(Free) >= TableNeed(t, a)
         THEN /\ PutPage(t, a, [page |-> page, w |-> TRUE, d |-> FALSE], 1)
              /\ mem_map' = TableTaken(t, a, mem_map, 1)
              /\ data' = [data EXCEPT ![page] = IMAGE]
              /\ view' = [view EXCEPT ![t][a] = IMAGE]
              /\ pc' = [pc EXCEPT ![t] = IF strings[t] = NoPage THEN "run" ELSE "copy_strings"]
              /\ loading' = [loading EXCEPT ![t] = NoPage]
              /\ UNCHANGED <<task, alive, exe, strings, lost>>
         ELSE ExitFrom(t, [mem_map EXCEPT ![page] = @ - 1])

(* do_exit().  Like execve(), init() never calls it.                       *)
Exit(t) == Runs(t) /\ t # 1 /\ Oom(t)

(* release(): the father frees the page of the task_struct.  The father of *)
(* init is task 0, which never waits.                                      *)
Release(t) ==
  /\ t # 1 /\ task[t] # NoPage /\ t \notin alive
  /\ mem_map' = [mem_map EXCEPT ![task[t]] = @ - 1]
  /\ task' = [task EXCEPT ![t] = NoPage]
  /\ UNCHANGED <<dir, pte, alive, exe, pc, loading, strings, lost, data, view>>

(* do_execve(): copy_strings() takes a page for the argument strings.  If  *)
(* there is none, or the file proves to be no good, the call fails.  While *)
(* it has the page it reads the strings, with the page faults above.       *)
ExecStrings(t) ==
  /\ Runs(t) /\ t # 1 /\ Free # {}
  /\ mem_map' = [mem_map EXCEPT ![get_free_page(1)] = 1]
  /\ strings' = [strings EXCEPT ![t] = get_free_page(1)]
  /\ pc' = [pc EXCEPT ![t] = "copy_strings"]
  /\ UNCHANGED <<dir, pte, task, alive, exe, loading, lost, data, view>>

ExecFails(t) ==
  /\ t \in alive /\ pc[t] = "copy_strings"
  /\ mem_map' = [mem_map EXCEPT ![strings[t]] = @ - 1]
  /\ strings' = [strings EXCEPT ![t] = NoPage]
  /\ pc' = [pc EXCEPT ![t] = "run"]
  /\ UNCHANGED <<dir, pte, task, alive, exe, loading, lost, data, view>>

(* ... the point of no return, with or without strings: the task has a new *)
(* executable, and still its old pages while it closes files.              *)
ExecCommit(t, e) ==
  /\ t \in alive \ {1} /\ pc[t] \in {"run", "copy_strings"}
  /\ exe' = [exe EXCEPT ![t] = e]
  /\ pc' = [pc EXCEPT ![t] = "closing"]
  /\ UNCHANGED <<mem_map, dir, pte, task, alive, loading, strings, lost, data, view>>

(* ... the old space is freed (the second free_page_tables(), for the data *)
(* segment with the same base, finds nothing), change_ldt() maps the page  *)
(* of strings without looking at what put_page() returns, create_tables()  *)
(* writes to the stack, taking a page fault if there is no page.           *)
ExecDone(t) ==
  LET map == [p \in Pages |-> mem_map[p] - Uses(t, p)]
      passed == strings[t] # NoPage
      page == IF passed THEN strings[t] ELSE FreePage(map, 1)
      table == FreePage(map, IF passed THEN 1 ELSE 2)
  IN  /\ t \in alive /\ pc[t] = "closing"
      /\ IF Cardinality(FreeIn(map)) >= (IF passed THEN 1 ELSE 2)
         THEN /\ mem_map' = [map EXCEPT ![page] = 1, ![table] = 1]
              /\ dir' = [dir EXCEPT ![t] = [NoDirs EXCEPT ![DirOf[StackAddr]] = table]]
              /\ pte' = [pte EXCEPT ![t] = [NoPTEs EXCEPT ![StackAddr] =
                           [page |-> page, w |-> TRUE, d |-> TRUE]]]
              /\ data' = [data EXCEPT ![page] = t]
              /\ view' = [view EXCEPT ![t][StackAddr] = t]
              /\ pc' = [pc EXCEPT ![t] = "run"]
              /\ strings' = [strings EXCEPT ![t] = NoPage]
              /\ UNCHANGED <<task, alive, exe, loading, lost>>
         ELSE Oom(t)

Next ==
  \/ \E t \in Tasks :
       \/ \E c \in Tasks : Fork(t, c)
       \/ \E a \in Addrs :
            \/ Write(t, a) \/ UnWpPage(t, a)
            \/ NoPageEmpty(t, a) \/ NoPageShare(t, a) \/ NoPageRead(t, a)
       \/ NoPageDone(t)
       \/ Exit(t) \/ Release(t)
       \/ ExecStrings(t) \/ ExecFails(t) \/ ExecDone(t)
       \/ \E e \in Exes : ExecCommit(t, e)

Spec == Init /\ [][Next]_vars

-----------------------------------------------------------------------------
(* mem_map[] counts exactly the references to a page: entries, page        *)
(* tables, task structures, the page a sleeping do_no_page() owns and the  *)
(* page of strings of do_execve().  "trying to free free page" is never    *)
(* reached and no page leaks, also when fork, exec or a page fault runs    *)
(* out of memory half way, but for the one way out that lost records: a    *)
(* fault of copy_strings() that ends in oom().                             *)
RefCounts ==
  \A p \in Pages :
    mem_map[p] =
      Cardinality({x \in Tasks \X Addrs :
                     Mapped(x[1], x[2]) /\ pte[x[1]][x[2]].page = p})
      + Cardinality({x \in Tasks \X Dirs : dir[x[1]][x[2]] = p})
      + Cardinality({t \in Tasks : task[t] = p})
      + Cardinality({t \in Tasks : loading[t] # NoPage /\ loading[t][1] = p})
      + Cardinality({t \in Tasks : strings[t] = p})
      + Cardinality({q \in lost : q = p})

(* A page somebody can write is nobody else's, and no low page is writable:*)
(* fork and sharing write-protect every side.                              *)
WritableIsPrivate ==
  \A t \in Tasks, a \in Addrs :
    Mapped(t, a) /\ pte[t][a].w =>
      pte[t][a].page # LOW /\ mem_map[pte[t][a].page] = 1

(* A task that has exited keeps nothing but its task page, so a fork into  *)
(* a free slot never finds page tables ("copy_page_tables: already exist").*)
DeadHoldNothing ==
  \A t \in Tasks \ alive : dir[t] = NoDirs /\ pte[t] = NoPTEs

(* Pages are accounted for: counts, protection and the dead, together what *)
(* free_page() and un_wp_page() rely on when they trust a count of 1.      *)
PagesAccounted == TypeOK /\ RefCounts /\ WritableIsPrivate /\ DeadHoldNothing

(* Copy-on-write is invisible: a task finds what it wrote, or what its     *)
(* parent had written when it forked, whatever parents, children and those *)
(* that share its executable write later.                                  *)
OwnWrites ==
  \A t \in Tasks, a \in Addrs :
    Mapped(t, a) /\ view[t][a] # IMAGE =>
      data[pte[t][a].page] = view[t][a]

(* What the error path of do_execve() (exec_error1) is there for: a page   *)
(* taken for argument strings is mapped or given back.                     *)
NoPageLost == lost = {}

(* What the comment of try_to_share() says: it checks that the page is     *)
(* clean.  A page a task gets by demand loading holds the executable's     *)
(* contents until the task itself writes it.                               *)
DemandPageIsClean ==
  \A t \in Tasks, a \in Addrs :
    Mapped(t, a) /\ view[t][a] = IMAGE => data[pte[t][a].page] = IMAGE
=============================================================================
