----------------------------- MODULE WaitQueue -----------------------------
(***************************************************************************)
(* sleep_on() and wake_up() of kernel/sched.c.                             *)
(*                                                                         *)
(* A wait queue is one pointer *p.  It names the task that slept last; the *)
(* task it named before is kept in the local variable tmp of sleep_on(),   *)
(* on the kernel stack of the newer sleeper.  wake_up() makes the named    *)
(* task runnable and clears *p; that task, once it is scheduled, makes its *)
(* tmp runnable, and so on down the chain.                                 *)
(*                                                                         *)
(* The kernel is not preempted: between two calls of schedule() a task     *)
(* runs alone.  Interrupt handlers call wake_up() as well, and they come   *)
(* between any two statements of a task that runs with interrupts on, so   *)
(* the three assignments of sleep_on() are three steps.  Every sleeper on  *)
(* a queue of this module is uninterruptible: b_wait, buffer_wait,         *)
(* wait_for_request, i_wait, s_wait and wait_motor are used through        *)
(* sleep_on() only.                                                        *)
(***************************************************************************)

CONSTANTS
  Tasks,    (* task[1..]: sleep_on() panics when task[0] calls it          *)
  Queues,   (* the queue pointers                                          *)
  NoTask,   (* NULL as a task pointer                                      *)
  NoQueue,  (* the task is not inside sleep_on()                           *)
  IrqWoken, (* queues an interrupt handler wakes: b_wait,                  *)
            (* wait_for_request, wait_motor                                *)
  IrqsOn    (* queues slept on with interrupts enabled: buffer_wait,       *)
            (* i_wait, s_wait, wait_for_request, wait_motor                *)

ASSUME NoTaskAssumption == NoTask \notin Tasks
ASSUME NoQueueAssumption == NoQueue \notin Queues

(* Queues whose wake_up() may fall inside sleep_on(): wait_for_request     *)
(* (make_request() has no cli) and wait_motor (ticks_to_floppy_on() ends   *)
(* with sti).  b_wait is slept on under cli, the others are woken by       *)
(* tasks only.                                                             *)
Exposed == IrqWoken \cap IrqsOn

VARIABLES
  head,     (* *p of every queue                                           *)
  state,    (* task_struct.state                                           *)
  where,    (* the queue whose sleep_on() the task is inside               *)
  tmp,      (* the local tmp of that call                                  *)
  stage,    (* the statement of sleep_on() the task has got to             *)
  released  (* history: asleep in sleep_on(), and wake_up() came since     *)

vars == <<head, state, where, tmp, stage, released>>

RUNNING == "TASK_RUNNING"
UNINTERRUPTIBLE == "TASK_UNINTERRUPTIBLE"

Inside(t) == where[t] # NoQueue

(* Past the last assignment: what remains is schedule() and the hand-over  *)
(* to tmp.                                                                 *)
Asleep(t) == stage[t] = "asleep"

(* t is the running task and is between two assignments of sleep_on().     *)
Entering(t) == stage[t] \in {"saved", "named"}

NobodyEnters == \A t \in Tasks : ~Entering(t)

TypeOK ==
  /\ head \in [Queues -> Tasks \cup {NoTask}]
  /\ state \in [Tasks -> {RUNNING, UNINTERRUPTIBLE}]
  /\ where \in [Tasks -> Queues \cup {NoQueue}]
  /\ tmp \in [Tasks -> Tasks \cup {NoTask}]
  /\ stage \in [Tasks -> {"out", "saved", "named", "asleep"}]
  /\ released \in SUBSET Tasks

Init ==
  /\ head = [q \in Queues |-> NoTask]
  /\ state = [t \in Tasks |-> RUNNING]
  /\ where = [t \in Tasks |-> NoQueue]
  /\ tmp = [t \in Tasks |-> NoTask]
  /\ stage = [t \in Tasks |-> "out"]
  /\ released = {}

-----------------------------------------------------------------------------
(* Faulty variants of the actions below: each is what a plausible slip in  *)
(* sched.c would give.  No run of the project uses them as they stand.     *)

(* tmp = *p forgotten: the older sleepers are dropped from the chain.      *)
SaveHead_NoSave(t, q) ==
  /\ NobodyEnters
  /\ state[t] = RUNNING /\ ~Inside(t)
  /\ tmp' = [tmp EXCEPT ![t] = NoTask]
  /\ where' = [where EXCEPT ![t] = q]
  /\ stage' = [stage EXCEPT ![t] = "saved"]
  /\ UNCHANGED <<head, state, released>>

(* *p = NULL forgotten in wake_up(): the queue goes on naming a task that  *)
(* has left it.                                                            *)
WakeUp_NoClear(q) ==
  /\ \A t \in Tasks : Entering(t) => where[t] \in IrqsOn /\ q \in IrqWoken
  /\ head[q] # NoTask
  /\ state' = [state EXCEPT ![head[q]] = RUNNING]
  /\ released' = released \cup {t \in Tasks : where[t] = q /\ Asleep(t)}
  /\ UNCHANGED <<head, where, tmp, stage>>

(* "*p = NULL" taken over from interruptible_sleep_on(): a sleeper that    *)
(* came after the wake-up is cut off from the queue.                       *)
Resume_ClearsHead(t) ==
  /\ NobodyEnters
  /\ Asleep(t) /\ state[t] = RUNNING
  /\ head' = [head EXCEPT ![where[t]] = NoTask]
  /\ state' = [u \in Tasks |-> IF u = tmp[t] THEN RUNNING ELSE state[u]]
  /\ where' = [where EXCEPT ![t] = NoQueue]
  /\ tmp' = [tmp EXCEPT ![t] = NoTask]
  /\ stage' = [stage EXCEPT ![t] = "out"]
  /\ released' = released \ {t}

(* "if (tmp) tmp->state=0" forgotten: the wake-up stops at the newest      *)
(* sleeper.                                                                *)
Resume_NoPass(t) ==
  /\ NobodyEnters
  /\ Asleep(t) /\ state[t] = RUNNING
  /\ where' = [where EXCEPT ![t] = NoQueue]
  /\ tmp' = [tmp EXCEPT ![t] = NoTask]
  /\ stage' = [stage EXCEPT ![t] = "out"]
  /\ released' = released \ {t}
  /\ UNCHANGED <<head, state>>
-----------------------------------------------------------------------------

(* t calls sleep_on(q): tmp = *p.                                          *)
SaveHead(t, q) ==
  /\ NobodyEnters
  /\ state[t] = RUNNING /\ ~Inside(t)
  /\ tmp' = [tmp EXCEPT ![t] = head[q]]
  /\ where' = [where EXCEPT ![t] = q]
  /\ stage' = [stage EXCEPT ![t] = "saved"]
  /\ UNCHANGED <<head, state, released>>

(* *p = current.                                                           *)
NameSelf(t) ==
  /\ stage[t] = "saved"
  /\ head' = [head EXCEPT ![where[t]] = t]
  /\ stage' = [stage EXCEPT ![t] = "named"]
  /\ UNCHANGED <<state, where, tmp, released>>

(* current->state = TASK_UNINTERRUPTIBLE, whatever a wake_up() has just    *)
(* stored there; schedule() then runs another task.                        *)
FallAsleep(t) ==
  /\ stage[t] = "named"
  /\ state' = [state EXCEPT ![t] = UNINTERRUPTIBLE]
  /\ stage' = [stage EXCEPT ![t] = "asleep"]
  /\ UNCHANGED <<head, where, tmp, released>>

(* t is scheduled again: schedule() returns inside sleep_on(), which       *)
(* passes the wake-up on to tmp and returns.                               *)
Resume(t) ==
  /\ NobodyEnters
  /\ Asleep(t) /\ state[t] = RUNNING
  /\ state' = [u \in Tasks |-> IF u = tmp[t] THEN RUNNING ELSE state[u]]
  /\ where' = [where EXCEPT ![t] = NoQueue]
  /\ tmp' = [tmp EXCEPT ![t] = NoTask]
  /\ stage' = [stage EXCEPT ![t] = "out"]
  /\ released' = released \ {t}
  /\ UNCHANGED head

(* wake_up(q); with *p = NULL it does nothing.  While a task is entering   *)
(* sleep_on() only an interrupt handler can call it, and only when that    *)
(* task has interrupts on.                                                 *)
WakeUp(q) ==
  /\ \A t \in Tasks : Entering(t) => where[t] \in IrqsOn /\ q \in IrqWoken
  /\ head[q] # NoTask
  /\ state' = [state EXCEPT ![head[q]] = RUNNING]
  /\ head' = [head EXCEPT ![q] = NoTask]
  /\ released' = released \cup {t \in Tasks : where[t] = q /\ Asleep(t)}
  /\ UNCHANGED <<where, tmp, stage>>

Next ==
  \/ \E t \in Tasks, q \in Queues : SaveHead(t, q)
  \/ \E t \in Tasks : NameSelf(t) \/ FallAsleep(t) \/ Resume(t)
  \/ \E q \in Queues : WakeUp(q)

Spec == Init /\ [][Next]_vars

(* A task that entered sleep_on() gets to schedule(), and a runnable task  *)
(* is eventually scheduled: schedule() recomputes the counters when they   *)
(* are all used up, so that no runnable task is passed over for ever, even *)
(* when others keep running in between (strong fairness).  Nothing obliges *)
(* a task to sleep or to call wake_up().                                   *)
Fairness ==
  \A t \in Tasks :
    WF_vars(NameSelf(t)) /\ WF_vars(FallAsleep(t)) /\ SF_vars(Resume(t))

FairSpec == Spec /\ Fairness

-----------------------------------------------------------------------------
(* No sleeper is forgotten.  A task asleep in sleep_on() on a queue that   *)
(* is not exposed is named either by the queue or by the tmp of another    *)
(* task inside sleep_on() on the same queue: there is always somebody left *)
(* to wake it, whatever happens on the exposed queues around it.           *)
NoForgottenSleeper ==
  \A t \in Tasks :
    Asleep(t) /\ state[t] = UNINTERRUPTIBLE /\ where[t] \notin Exposed =>
      \/ head[where[t]] = t
      \/ \E u \in Tasks : where[u] = where[t] /\ tmp[u] = t

(* A task inside sleep_on() is made runnable only on behalf of a wake_up() *)
(* of its own queue that came after it went to sleep: the "tmp->state=0"   *)
(* of another task never hits a task that sleeps for a newer reason.       *)
(* (An exposed queue breaks this for every other queue: see the README.)   *)
WokenOnlyWhenReleased ==
  \A t \in Tasks : Asleep(t) /\ state[t] = RUNNING => t \in released

(* wake_up() on a queue with *p = NULL misses nobody: everyone who is      *)
(* still asleep in sleep_on() on it has been released already.             *)
EmptyHeadMissesNobody ==
  \A t \in Tasks :
    Asleep(t) /\ head[where[t]] = NoTask => t \in released

(* The chain through the tmp variables implements the set of waiters.  A   *)
(* task waits from the moment its state says so.                           *)
Abstract == INSTANCE WaitSet WITH
  on <- [t \in Tasks |-> IF Asleep(t) THEN where[t] ELSE NoQueue],
  ready <- released

(* The code has the steps of the abstract queue and no other (the part     *)
(* that is proved; the run below checks it with fairness).                 *)
ImplementsWaitSet == Abstract!AbsSpec

(* ... and the fairness of the abstract queue too: a released waiter is    *)
(* never left behind.                                                      *)
ImplementsFairWaitSet == Abstract!AbsFairSpec
=============================================================================
