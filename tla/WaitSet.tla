------------------------------ MODULE WaitSet ------------------------------
(***************************************************************************)
(* What the callers of sleep_on() and wake_up() rely on, with no wait      *)
(* chain in sight: a queue is a set of waiting tasks, wake_up() releases   *)
(* every task that waits on the queue at that moment, and only a released  *)
(* task returns.  WaitQueue, the translation of kernel/sched.c, is shown   *)
(* to implement this module.                                               *)
(***************************************************************************)

CONSTANTS
  Tasks,    (* tasks that may sleep                                        *)
  Queues,   (* the "struct task_struct *" variables tasks sleep on         *)
  NoQueue   (* the task sleeps on no queue                                 *)

VARIABLES
  on,       (* [Tasks -> Queues \cup {NoQueue}] the queue a task waits on  *)
  ready     (* tasks released by a wake_up() that have not returned yet    *)

absVars == <<on, ready>>

Waiting(q) == {t \in Tasks : on[t] = q}

AbsInit ==
  /\ on = [t \in Tasks |-> NoQueue]
  /\ ready = {}

(* A task that waits nowhere starts to wait on q.                          *)
AbsSleep(t, q) ==
  /\ on[t] = NoQueue
  /\ on' = [on EXCEPT ![t] = q]
  /\ UNCHANGED ready

(* Everyone who waits on q is released, whoever sleeps later is not.       *)
AbsWake(q) ==
  /\ ready' = ready \cup Waiting(q)
  /\ UNCHANGED on

(* A released task goes on.                                                *)
AbsReturn(t) ==
  /\ t \in ready
  /\ on' = [on EXCEPT ![t] = NoQueue]
  /\ ready' = ready \ {t}

AbsNext ==
  \/ \E t \in Tasks, q \in Queues : AbsSleep(t, q)
  \/ \E q \in Queues : AbsWake(q)
  \/ \E t \in Tasks : AbsReturn(t)

AbsSpec == AbsInit /\ [][AbsNext]_absVars

AbsFairness == \A t \in Tasks : WF_absVars(AbsReturn(t))

AbsFairSpec == AbsSpec /\ AbsFairness
=============================================================================
