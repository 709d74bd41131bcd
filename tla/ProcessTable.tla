---------------------------- MODULE ProcessTable ----------------------------
(***************************************************************************)
(* The task table and the life of a process: fork (fork.c), exit, waitpid  *)
(* and kill (exit.c), sessions and process groups (sys.c), signals         *)
(* (signal.c and ret_from_sys_call in system_call.s), and init().          *)
(*                                                                         *)
(* The kernel is not preempted, so an action is the whole of a system call *)
(* up to its sleep.  do_exit() sleeps between the adoption of its children *)
(* and the end, in sys_close() and iput().  schedule() makes every         *)
(* interruptible task with a signal that is not blocked runnable before it *)
(* chooses one: such a task can run here (Woken).                          *)
(*                                                                         *)
(* init is pid 1 and runs as the superuser; all others belong to one other *)
(* user, as after a login.  (init() starts its shells as the superuser,    *)
(* who may also signal init: any signal but SIGCHLD would end it, and the  *)
(* orphans would have no father.  Such processes are left out, and so is   *)
(* the shell that runs /etc/rc.)  Terminals, times and exit codes are left *)
(* out.  Three signals stand for all.                                      *)
(***************************************************************************)
EXTENDS Naturals, Integers, FiniteSets

CONSTANTS
  NR_TASKS,     (* slots 1 .. NR_TASKS of task[]; slot 0 is never in play  *)
  MaxPid,       (* the largest pid: after it last_pid becomes 1            *)
  KillArgs,     (* the first arguments of kill() that processes use        *)
  WaitArgs,     (* and those of waitpid()                                  *)
  GroupArgs,    (* the <<pid, pgid>> of their setpgid()                    *)
  Masks,        (* the masks of their ssetmask()                           *)
  NoTask        (* NULL                                                    *)

ASSUME SizesAssumption ==
  NR_TASKS \in Nat \ {0} /\ MaxPid \in Nat /\ MaxPid > NR_TASKS
ASSUME ArgsAssumption ==
  /\ KillArgs \subseteq Int /\ WaitArgs \subseteq -MaxPid .. MaxPid
  /\ GroupArgs \subseteq (0 .. MaxPid) \X (0 .. MaxPid)

Slots == 1 .. NR_TASKS
Pids == 1 .. MaxPid

SIGHUP == 1
SIGKILL == 9
SIGCHLD == 17
Signals == {SIGHUP, SIGKILL, SIGCHLD}

ASSUME MasksAssumption == Masks \subseteq SUBSET Signals

VARIABLES
  task,         (* task[]: a record per slot, or NoTask                    *)
  last_pid,
  shell,        (* the pid init() waits for; 0: it is about to fork        *)
  asked         (* history: per slot, signals that a kill() was to set and *)
                (* that neither were delivered nor ended a waitpid()       *)

vars == <<task, last_pid, shell, asked>>

(* at: "user": in user mode; "ret": on its way to ret_from_sys_call with a *)
(* signal to deliver; "wait", "pause": asleep in the system call; "exit":  *)
(* inside do_exit(); "zombie": TASK_ZOMBIE.                                *)
(* want is the first argument of waitpid().                                *)
TaskRecords ==
  [pid : Pids, father : 0 .. MaxPid, pgrp : 0 .. MaxPid,
   session : 0 .. MaxPid, leader : BOOLEAN,
   signal : SUBSET Signals, blocked : SUBSET Signals,
   caught : SUBSET Signals,     (* signals that have a handler             *)
   at : {"user", "ret", "wait", "pause", "exit", "zombie"},
   want : -MaxPid .. MaxPid]

ASSUME NoTaskAssumption == NoTask \notin TaskRecords

TypeOK ==
  /\ task \in [Slots -> TaskRecords \cup {NoTask}]
  /\ last_pid \in Pids
  /\ shell \in 0 .. MaxPid
  /\ asked \in [Slots -> SUBSET Signals]

(* sched_init() and the first fork: init alone, in session and group 0.    *)
Init ==
  /\ task = [t \in Slots |->
       IF t = 1
       THEN [pid |-> 1, father |-> 0, pgrp |-> 0, session |-> 0,
             leader |-> FALSE, signal |-> {}, blocked |-> {}, caught |-> {},
             at |-> "user", want |-> 0]
       ELSE NoTask]
  /\ last_pid = 1
  /\ shell = 0
  /\ asked = [t \in Slots |-> {}]

-----------------------------------------------------------------------------
Used == {t \in Slots : task[t] # NoTask}

Lowest(S) == CHOOSE x \in S : \A y \in S : x <= y
Highest(S) == CHOOSE x \in S : \A y \in S : x >= y

Deliverable(r) == r.signal \ r.blocked

(* What schedule() calls a reason to wake: SIGKILL cannot be blocked.      *)
Woken(r) == r.signal \ (r.blocked \ {SIGKILL}) # {}

(* A record at the end of a system call: there may be a signal to deliver. *)
Ret(r) == [r EXCEPT !.at = IF Deliverable(r) = {} THEN "user" ELSE "ret",
                    !.want = 0]

(* p->signal |= sig.  Only one task runs at a time: a task that gets a     *)
(* signal from another one in user mode was preempted there and returns    *)
(* through ret_from_sys_call.  Nobody reads the signals of a task that is  *)
(* exiting or dead: they are left out.                                     *)
WithSignal(r, sig) ==
  LET s == [r EXCEPT !.signal = @ \cup {sig}]
  IN  CASE r.at \in {"user", "ret"}    -> Ret(s)
        [] r.at \in {"exit", "zombie"} -> r
        [] OTHER                       -> s

(* task[] after a signal to the slots in targets.                          *)
SignalAll(tab, targets, sig) ==
  [t \in Slots |-> IF t \in targets THEN WithSignal(tab[t], sig) ELSE tab[t]]

(* send_sig() without priv: the same user, or the superuser.               *)
MaySignal(t, q) == q # 1 \/ t = 1

User(t) == t \in Used /\ task[t].at = "user"

-----------------------------------------------------------------------------
(* Faulty variants, used only as mutations.                                *)

(* do_exit() adopts without telling init of children that are dead.        *)
Adopt_NoSignal(tab, t) ==
  [q \in Slots |->
     IF tab[q] # NoTask /\ tab[q].father = tab[t].pid
     THEN [tab[q] EXCEPT !.father = 1] ELSE tab[q]]

(* do_exit() adopts only the children that are alive.                      *)
Adopt_LiveOnly(tab, t) ==
  [q \in Slots |->
     IF tab[q] # NoTask /\ tab[q].father = tab[t].pid /\ tab[q].at # "zombie"
     THEN [tab[q] EXCEPT !.father = 1] ELSE tab[q]]

(* sys_waitpid() clears all pending signals after its sleep, so that it    *)
(* always starts over.                                                     *)
AfterSleep_ClearsAll(r) == [r EXCEPT !.signal = {}]

(* do_exit() without tell_father().                                        *)
ExitEnd_NoTell(t) ==
  /\ t \in Used /\ task[t].at = "exit"
  /\ task' = [task EXCEPT ![t].at = "zombie"]
  /\ UNCHANGED <<last_pid, shell, asked>>

(* sys_ssetmask() takes the mask as it is.                                 *)
Ssetmask_Any(t, newmask) ==
  /\ User(t) /\ t # 1
  /\ task' = [task EXCEPT ![t] = Ret([@ EXCEPT !.blocked = newmask])]
  /\ UNCHANGED <<last_pid, shell, asked>>
-----------------------------------------------------------------------------

(* find_empty_process(): the next pid nobody has.                          *)
NextPid ==
  LET nth(k) == ((last_pid - 1 + k) % MaxPid) + 1
      free == {k \in 1 .. MaxPid : \A q \in Used : task[q].pid # nth(k)}
  IN  nth(Lowest(free))

(* copy_process(): what the child's record differs in.  init's child calls *)
(* setsid() before anything else.                                          *)
Child(t, pid) ==
  LET c == [task[t] EXCEPT !.pid = pid, !.father = task[t].pid,
                           !.signal = {}, !.leader = FALSE]
  IN  IF t = 1 THEN [c EXCEPT !.pgrp = pid, !.session = pid, !.leader = TRUE]
      ELSE c

(* fork(): the lowest free slot.  init forks when its shell has gone.      *)
Fork(t) ==
  /\ User(t) /\ Used # Slots
  /\ t = 1 => shell = 0
  /\ task' = [task EXCEPT ![Lowest(Slots \ Used)] = Child(t, NextPid),
                          ![t] = Ret(@)]
  /\ last_pid' = NextPid
  /\ shell' = IF t = 1 THEN NextPid ELSE shell
  /\ UNCHANGED asked

(* No slot or no memory: -EAGAIN, but last_pid has moved on.               *)
ForkFails(t) ==
  /\ User(t)
  /\ t = 1 => shell = 0
  /\ last_pid' = NextPid
  /\ task' = [task EXCEPT ![t] = Ret(@)]
  /\ UNCHANGED <<shell, asked>>

(* The loop of do_exit() over the children: they become init's, and init   *)
(* is told if one of them is dead already.                                 *)
Adopt(tab, t) ==
  LET mine == {q \in Slots : tab[q] # NoTask /\ tab[q].father = tab[t].pid}
      dead == {q \in mine : tab[q].at = "zombie"}
      moved == [q \in Slots |-> IF q \in mine
                                THEN [tab[q] EXCEPT !.father = 1] ELSE tab[q]]
  IN  IF dead = {} THEN moved ELSE SignalAll(moved, {1}, SIGCHLD)

(* do_exit(), of its own or by a signal, up to where it may sleep.         *)
ExitFrom(tab, t) ==
  /\ task' = [Adopt(tab, t) EXCEPT ![t] = [@ EXCEPT !.at = "exit",
                 !.signal = {}, !.blocked = {}, !.caught = {}]]
  /\ asked' = [asked EXCEPT ![t] = {}]
  /\ UNCHANGED <<last_pid, shell>>

Exit(t) == User(t) /\ t # 1 /\ ExitFrom(task, t)

(* The rest of do_exit(): a leader hangs up its session; tell_father(),    *)
(* which releases the task itself if there is no father.                   *)
ExitEnd(t) ==
  /\ t \in Used /\ task[t].at = "exit"
  /\ LET session == IF ~task[t].leader THEN {}
                    ELSE {q \in Used : task[q].session = task[t].session}
         hungup == [SignalAll(task, session, SIGHUP) EXCEPT ![t].at = "zombie"]
         father == {q \in Used : task[q].pid = task[t].father}
     IN  task' = IF father = {} THEN [hungup EXCEPT ![t] = NoTask]
                 ELSE SignalAll(hungup, {Lowest(father)}, SIGCHLD)
  /\ UNCHANGED <<last_pid, shell, asked>>

-----------------------------------------------------------------------------
(* The children of t that waitpid(want) looks at.                          *)
Children(tab, t, want) ==
  {c \in Slots \ {t} :
     /\ tab[c] # NoTask /\ tab[c].father = tab[t].pid
     /\ CASE want > 0  -> tab[c].pid = want
          [] want = 0  -> tab[c].pgrp = tab[t].pgrp
          [] want = -1 -> TRUE
          [] OTHER     -> tab[c].pgrp = -want}

Zombies(tab, t, want) == {c \in Children(tab, t, want) : tab[c].at = "zombie"}

(* sys_waitpid() from "repeat:" on: the dead child in the highest slot is  *)
(* released; if all are alive the caller returns (WNOHANG) or sleeps.      *)
WaitScan(tab, t, want, nohang) ==
  LET dead == Zombies(tab, t, want)
      c == Highest(dead)
  IN  IF dead # {}
      THEN /\ task' = [tab EXCEPT ![c] = NoTask, ![t] = Ret(@)]
           /\ shell' = IF t = 1 /\ tab[c].pid = shell THEN 0 ELSE shell
      ELSE /\ task' = [tab EXCEPT ![t] =
                         IF Children(tab, t, want) # {} /\ ~nohang
                         THEN [@ EXCEPT !.at = "wait", !.want = want]
                         ELSE Ret(@)]
           /\ UNCHANGED shell

(* init calls wait() until its shell is back.                              *)
Waitpid(t, want, nohang) ==
  /\ User(t)
  /\ t = 1 => shell # 0 /\ want = -1 /\ ~nohang
  /\ WaitScan(task, t, want, nohang)
  /\ UNCHANGED <<last_pid, asked>>

(* current->signal &= ~SIGCHLD after the sleep, whoever sent it.           *)
AfterSleep(r) == [r EXCEPT !.signal = @ \ {SIGCHLD}]

(* Woken in sys_waitpid(): with another signal pending, blocked or not, it *)
(* returns -EINTR, else it looks again.                                    *)
WaitWoken(t) ==
  /\ t \in Used /\ task[t].at = "wait" /\ Woken(task[t])
  /\ LET tab == [task EXCEPT ![t] = AfterSleep(@)]
     IN  IF tab[t].signal = {} THEN WaitScan(tab, t, task[t].want, FALSE)
         ELSE task' = [tab EXCEPT ![t] = Ret(@)] /\ UNCHANGED shell
  /\ asked' = [asked EXCEPT ![t] = @ \ {SIGCHLD}]
  /\ UNCHANGED last_pid

(* sys_pause(), and its return.                                            *)
Pause(t) ==
  /\ User(t) /\ t # 1
  /\ task' = [task EXCEPT ![t].at = "pause"]
  /\ UNCHANGED <<last_pid, shell, asked>>

PauseWoken(t) ==
  /\ t \in Used /\ task[t].at = "pause" /\ Woken(task[t])
  /\ task' = [task EXCEPT ![t] = Ret(@)]
  /\ UNCHANGED <<last_pid, shell, asked>>

-----------------------------------------------------------------------------
(* The tasks sys_kill(pid, sig) signals.  An "else" that binds to the      *)
(* wrong "if" makes pid < -1 do nothing, and pid = -1 go on, after the     *)
(* first task that can be signalled, with the members of group 1 only.     *)
KillTargets(t, pid) ==
  LET may == {q \in Used : MaySignal(t, q)}
  IN  CASE pid = 0  -> {q \in Used : task[q].pgrp = task[t].pid}
        [] pid > 0  -> {q \in may : task[q].pid = pid}
        [] pid = -1 -> {q \in may : q = Highest(may) \/ task[q].pgrp = 1}
        [] OTHER    -> {}

(* What the comment on sys_kill() says a negative pid names: a group.      *)
KillMeans(t, pid) ==
  IF pid < -1 THEN {q \in Used : MaySignal(t, q) /\ task[q].pgrp = -pid}
  ELSE KillTargets(t, pid)

Kill(t, pid, sig) ==
  /\ User(t) /\ t # 1
  /\ LET tab == SignalAll(task, KillTargets(t, pid), sig)
     IN  task' = [tab EXCEPT ![t] = Ret(@)]
  /\ asked' = [q \in Slots |->
                 IF q \in KillMeans(t, pid) /\ task[q].at \notin {"exit", "zombie"}
                 THEN asked[q] \cup {sig} ELSE asked[q]]
  /\ UNCHANGED <<last_pid, shell>>

(* ret_from_sys_call: the signal with the lowest number goes to do_signal. *)
(* A handler (set by sys_signal(): SA_ONESHOT) is used once; SIGCHLD is    *)
(* ignored by default, any other signal ends the task.                     *)
Return(t) ==
  /\ t \in Used /\ task[t].at = "ret"
  /\ LET sig == Lowest(Deliverable(task[t]))
         tab == [task EXCEPT ![t].signal = @ \ {sig}, ![t].at = "user"]
     IN  IF sig \notin task[t].caught /\ sig # SIGCHLD THEN ExitFrom(tab, t)
         ELSE /\ task' = [tab EXCEPT ![t].caught = @ \ {sig}]
              /\ asked' = [asked EXCEPT ![t] = @ \ {sig}]
              /\ UNCHANGED <<last_pid, shell>>

(* The timer interrupt takes a task in user mode to ret_from_sys_call,     *)
(* where a second pending signal is found.                                 *)
Timer(t) ==
  /\ User(t) /\ Deliverable(task[t]) # {}
  /\ task' = [task EXCEPT ![t].at = "ret"]
  /\ UNCHANGED <<last_pid, shell, asked>>

(* sys_signal(): SIGKILL cannot be caught.                                 *)
Signal(t, sig) ==
  /\ User(t) /\ t # 1 /\ sig # SIGKILL
  /\ task' = [task EXCEPT ![t] = Ret([@ EXCEPT !.caught = task[t].caught \cup {sig}])]
  /\ UNCHANGED <<last_pid, shell, asked>>

(* sys_ssetmask(): SIGKILL cannot be blocked.                              *)
Ssetmask(t, newmask) ==
  /\ User(t) /\ t # 1
  /\ task' = [task EXCEPT ![t] = Ret([@ EXCEPT !.blocked = newmask \ {SIGKILL}])]
  /\ UNCHANGED <<last_pid, shell, asked>>

(* sys_setpgid(): not for leaders, not across sessions.                    *)
Setpgid(t, pid, pgid) ==
  /\ User(t) /\ t # 1
  /\ \E q \in Used :
       /\ task[q].pid = IF pid = 0 THEN task[t].pid ELSE pid
       /\ ~task[q].leader /\ task[q].session = task[t].session
       /\ LET group == IF pgid = 0 THEN task[t].pid ELSE pgid
              tab == [task EXCEPT ![q].pgrp = group]
          IN  task' = [tab EXCEPT ![t] = Ret(@)]
  /\ UNCHANGED <<last_pid, shell, asked>>

(* sys_setsid().                                                           *)
Setsid(t) ==
  /\ User(t) /\ t # 1 /\ ~task[t].leader
  /\ task' = [task EXCEPT ![t] = Ret([@ EXCEPT !.leader = TRUE,
                            !.session = task[t].pid, !.pgrp = task[t].pid])]
  /\ UNCHANGED <<last_pid, shell, asked>>

Next ==
  \E t \in Slots :
    \/ Fork(t) \/ ForkFails(t)
    \/ Exit(t) \/ ExitEnd(t)
    \/ \E want \in WaitArgs, nohang \in BOOLEAN : Waitpid(t, want, nohang)
    \/ WaitWoken(t)
    \/ Pause(t) \/ PauseWoken(t)
    \/ \E pid \in KillArgs, sig \in Signals : Kill(t, pid, sig)
    \/ Return(t) \/ Timer(t)
    \/ Signal(t, SIGHUP)
    \/ \E newmask \in Masks : Ssetmask(t, newmask)
    \/ \E g \in GroupArgs : Setpgid(t, g[1], g[2])
    \/ Setsid(t)

Spec == Init /\ [][Next]_vars

(* A runnable task runs (module Scheduler), do_exit() gets out of its      *)
(* sleeps, init does what init() says, and when it keeps trying to fork it *)
(* does not always fail for want of memory.  No other process is obliged   *)
(* to call anything.                                                       *)
Fairness ==
  /\ \A t \in Slots :
       WF_vars(ExitEnd(t) \/ WaitWoken(t) \/ PauseWoken(t) \/ Return(t) \/ Timer(t))
  /\ WF_vars(Waitpid(1, -1, FALSE))
  /\ SF_vars(Fork(1))

FairSpec == Spec /\ Fairness

-----------------------------------------------------------------------------
(* No two tasks have one pid, zombies included, also after last_pid has    *)
(* come round: find_empty_process() skips the pids in use.                 *)
UniquePids ==
  \A p, q \in Used : task[p].pid = task[q].pid => p = q

(* Every task has a father that can still wait for it: nobody is a child   *)
(* of a task that has begun to exit, so tell_father() never ends in "BAD   *)
(* BAD - no father found".                                                 *)
FatherAlive ==
  \A q \in Used \ {1} :
    \E f \in Used : /\ task[f].pid = task[q].father
                    /\ task[f].at \notin {"exit", "zombie"}

(* The family tree is sound over any order of forks, exits, waits and      *)
(* adoptions: every pid names one task, and leads to a live father.        *)
FamilyTree == TypeOK /\ UniquePids /\ FatherAlive

(* The sleep of sys_waitpid() misses no death: if a child it waits for is  *)
(* dead, its own or one it has just inherited, SIGCHLD is pending.  (Said  *)
(* of waits for any child or for one; sys_setpgid() can move a dead child  *)
(* into a group that is waited for.)                                       *)
ZombieNotMissed ==
  \A t \in Used :
    task[t].at = "wait" /\ (task[t].want > 0 \/ task[t].want = -1)
      /\ Zombies(task, t, task[t].want) # {}
    => SIGCHLD \in task[t].signal

(* A signal that kill() was to send stays pending until it is delivered,   *)
(* whatever the task does in between; only a SIGCHLD may also end in the   *)
(* sleep of sys_waitpid(), which takes it for the news of a child.         *)
SignalsArrive ==
  \A q \in Used : asked[q] \subseteq task[q].signal

(* That exception is real: a SIGCHLD sent by kill() is meant to be         *)
(* delivered, and sys_waitpid() throws it away without delivering it.      *)
WaitKeepsSignals ==
  [][\A q \in Slots : SIGCHLD \in asked[q] /\ q \in Used /\ task[q].at = "wait"
       => SIGCHLD \in asked'[q]]_vars

(* A dead child of init is released in the end, also when it died before   *)
(* its father did - unless init is in the loop of its fork(), which does   *)
(* not wait, and the table is full.                                        *)
OrphansReaped ==
  \A c \in Slots \ {1} :
    (c \in Used /\ task[c].at = "zombie" /\ task[c].father = 1)
      ~> (c \notin Used \/ (shell = 0 /\ Used = Slots))

(* SIGKILL works on every process, wherever it sleeps and whatever it      *)
(* blocks, unless it is sent a lower signal over and over.                 *)
KilledDies ==
  \A q \in Slots \ {1} :
    \/ []<>(q \in Used /\ SIGHUP \in task[q].signal)
    \/ (q \in Used /\ SIGKILL \in task[q].signal)
         ~> (q \notin Used \/ task[q].at \in {"exit", "zombie"})
=============================================================================
