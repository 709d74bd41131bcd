------------------------- MODULE InterruptibleQueue -------------------------
(***************************************************************************)
(* interruptible_sleep_on(), wake_up() and the signal scan of schedule()   *)
(* (kernel/sched.c) on one queue, with tasks that are signalled, exit and  *)
(* are released (kernel/exit.c) while the queue still knows them.          *)
(*                                                                         *)
(* The callers are sleep_if_empty() and sleep_if_full() of tty_io.c and    *)
(* floppy_change() of floppy.c.  A task leaves the call when it runs and   *)
(* *p is NULL or names the task itself; if *p names somebody else it makes *)
(* that task runnable and goes back to sleep ("goto repeat").  Each action *)
(* is a stretch of kernel code between two calls of schedule(): unlike     *)
(* those of WaitQueue the terminals call it with interrupts off, and have  *)
(* them off again when they are resumed.                                   *)
(***************************************************************************)

CONSTANTS
  Tasks,    (* tasks other than task[0]                                    *)
  NoTask    (* NULL                                                        *)

ASSUME NoTaskAssumption == NoTask \notin Tasks

VARIABLES
  head,     (* *p                                                          *)
  state,    (* task_struct.state; FREE once release() dropped the task     *)
  inside,   (* tasks that are inside interruptible_sleep_on()              *)
  tmp,      (* the local tmp of that call                                  *)
  signal    (* tasks with a pending, unblocked signal                      *)

vars == <<head, state, inside, tmp, signal>>

RUNNING == "TASK_RUNNING"
INTERRUPTIBLE == "TASK_INTERRUPTIBLE"
ZOMBIE == "TASK_ZOMBIE"
FREE == "free slot"

TypeOK ==
  /\ head \in Tasks \cup {NoTask}
  /\ state \in [Tasks -> {RUNNING, INTERRUPTIBLE, ZOMBIE, FREE}]
  /\ inside \in SUBSET Tasks
  /\ tmp \in [Tasks -> Tasks \cup {NoTask}]
  /\ signal \in SUBSET Tasks

Init ==
  /\ head = NoTask
  /\ state = [t \in Tasks |-> RUNNING]
  /\ inside = {}
  /\ tmp = [t \in Tasks |-> NoTask]
  /\ signal = {}

-----------------------------------------------------------------------------
(* The first loop of schedule(): an interruptible task with a signal is    *)
(* made runnable.  It runs in every call of schedule().                    *)
Scan(s) ==
  [t \in Tasks |->
     IF t \in signal /\ s[t] = INTERRUPTIBLE THEN RUNNING ELSE s[t]]

(* A task that exists and is neither asleep nor dead.                      *)
Active(t) == t \notin inside /\ state[t] = RUNNING

InterruptibleSleepOn(t) ==
  /\ Active(t)
  /\ tmp' = [tmp EXCEPT ![t] = head]
  /\ head' = t
  /\ inside' = inside \cup {t}
  /\ state' = Scan([state EXCEPT ![t] = INTERRUPTIBLE])
  /\ UNCHANGED signal

(* Running again, with somebody else at the head: that one is woken and    *)
(* the task sleeps on.                                                     *)
Repeat(t) ==
  /\ t \in inside /\ state[t] = RUNNING
  /\ head \notin {NoTask, t}
  /\ state' = Scan([state EXCEPT ![head] = RUNNING, ![t] = INTERRUPTIBLE])
  /\ UNCHANGED <<head, inside, tmp, signal>>

(* Otherwise the call returns, and makes the task before it runnable,      *)
(* whatever has become of it; a write to a task_struct that was freed      *)
(* changes no task.                                                        *)
Leave(t) ==
  /\ t \in inside /\ state[t] = RUNNING
  /\ head \in {NoTask, t}
  /\ head' = NoTask
  /\ inside' = inside \ {t}
  /\ tmp' = [tmp EXCEPT ![t] = NoTask]
  /\ state' = [u \in Tasks |->
                 IF u = tmp[t] /\ state[u] # FREE THEN RUNNING ELSE state[u]]
  /\ UNCHANGED signal

(* wake_up(), part of an interrupt handler.                                *)
WakeUp ==
  /\ head' = NoTask
  /\ state' = [t \in Tasks |-> IF t = head THEN RUNNING ELSE state[t]]

(* The tasks of T get a signal.                                            *)
SendSig(T) == signal' = signal \cup {t \in T : state[t] # FREE}

(* Somebody else calls schedule().                                         *)
Schedule ==
  /\ state' = Scan(state)
  /\ UNCHANGED <<head, inside, tmp, signal>>

(* Return to user mode with a signal that has a handler.                   *)
DoSignal(t) ==
  /\ Active(t) /\ t \in signal
  /\ signal' = signal \ {t}
  /\ UNCHANGED <<head, state, inside, tmp>>

(* do_exit() by a task outside the queue, of its own or by a signal.       *)
DoExit(t) ==
  /\ Active(t)
  /\ state' = Scan([state EXCEPT ![t] = ZOMBIE])
  /\ signal' = signal \ {t}
  /\ UNCHANGED <<head, inside, tmp>>

(* The father collects the zombie: release() empties the slot.             *)
Release(t) ==
  /\ state[t] = ZOMBIE
  /\ state' = Scan([state EXCEPT ![t] = FREE])
  /\ signal' = signal \ {t}
  /\ UNCHANGED <<head, inside, tmp>>

-----------------------------------------------------------------------------
(* The queue names only a task that is inside the call: wake_up() and the  *)
(* repeat branch never write the state of a task that has left, let alone  *)
(* of one that has exited.  (Not so tmp: Leave can write the state of a    *)
(* zombie, which then runs again.)                                         *)
HeadIsInside == head # NoTask => head \in inside

(* NoForgottenReader: what the comment on wake_up() promises, that a       *)
(* sleeping task can be woken: somebody still names it, the queue or a     *)
(* task that will pass the wake-up on.  The repeat branch breaks it: the   *)
(* woken task goes back to sleep for the sake of a newer one, which never  *)
(* heard of it.                                                            *)
NoForgottenReader ==
  \A t \in inside :
    state[t] = INTERRUPTIBLE => head = t \/ \E u \in inside : tmp[u] = t
=============================================================================
