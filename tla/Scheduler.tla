----------------------------- MODULE Scheduler -----------------------------
(***************************************************************************)
(* schedule() and the time slices of kernel/sched.c: do_timer(), the test  *)
(* of state and counter after a system call (system_call.s), sleeping and  *)
(* waking, fork and exit as far as they concern the processor, sys_nice(). *)
(*                                                                         *)
(* Task 0 is the idle task: chosen when nothing else can run, its own      *)
(* state and counter never looked at.  A task in kernel mode is not        *)
(* preempted.  The exceptions (page.s, asm.s) return without the test of   *)
(* the counter that ends a system call.                                    *)
(***************************************************************************)
EXTENDS Integers

CONSTANTS
  NR_TASKS,       (* slots 1 .. NR_TASKS of task[]                         *)
  InitPriority,   (* that of INIT_TASK                                     *)
  MaxPriority     (* bound on what nice(negative) can reach                *)

ASSUME SizesAssumption ==
  /\ NR_TASKS \in Nat \ {0} /\ MaxPriority \in Nat
  /\ InitPriority \in 1 .. MaxPriority

Tasks == 1 .. NR_TASKS
IDLE == 0

VARIABLES
  state,          (* FREE also stands for a zombie                         *)
  counter,        (* ticks left                                            *)
  priority,
  current,
  mode            (* where a task is, or will be when it runs again        *)

vars == <<state, counter, priority, current, mode>>

RUNNING == "TASK_RUNNING"
SLEEPING == "TASK_(UN)INTERRUPTIBLE"
FREE == "no task"

TypeOK ==
  /\ state \in [Tasks -> {RUNNING, SLEEPING, FREE}]
  /\ counter \in [Tasks -> Nat]
  /\ priority \in [Tasks -> 1 .. MaxPriority]
  /\ current \in Tasks \cup {IDLE}
  /\ mode \in [Tasks -> {"user", "system call", "exception"}]

(* Task 1, the first child of task 0, has its father's priority.           *)
Init ==
  /\ state = [t \in Tasks |-> IF t = 1 THEN RUNNING ELSE FREE]
  /\ priority = [t \in Tasks |-> InitPriority]
  /\ counter = [t \in Tasks |-> InitPriority]
  /\ current = IDLE
  /\ mode = [t \in Tasks |-> "user"]

-----------------------------------------------------------------------------
(* Faulty variants, used only as mutations.                                *)

(* The counters are recomputed without being halved.                       *)
Recompute_NoHalf(st, cnt) ==
  [t \in Tasks |-> IF st[t] = FREE THEN cnt[t] ELSE cnt[t] + priority[t]]

-----------------------------------------------------------------------------
(* counter = (counter >> 1) + priority, for all tasks.                     *)
Recompute(st, cnt) ==
  [t \in Tasks |->
     IF st[t] = FREE THEN cnt[t] ELSE cnt[t] \div 2 + priority[t]]

(* The task the inner loop of schedule() ends with: the most ticks left,   *)
(* the highest slot among equals.                                          *)
IsNext(t, st, cnt) ==
  /\ st[t] = RUNNING /\ cnt[t] > 0
  /\ \A u \in Tasks :
       st[u] = RUNNING => cnt[u] < cnt[t] \/ (cnt[u] = cnt[t] /\ u <= t)

(* schedule(), with the states and counters the caller leaves.  If all     *)
(* runnable tasks have used up their ticks, everybody's are recomputed.    *)
Schedule(st, cnt) ==
  /\ state' = st
  /\ IF \A t \in Tasks : st[t] # RUNNING
     THEN current' = IDLE /\ counter' = cnt
     ELSE /\ counter' = IF \E t \in Tasks : st[t] = RUNNING /\ cnt[t] > 0
                        THEN cnt ELSE Recompute(st, cnt)
          /\ \E t \in Tasks : IsNext(t, st, counter') /\ current' = t

(* main(): for(;;) pause() in task 0.                                      *)
Idle ==
  /\ current = IDLE
  /\ Schedule(state, counter)
  /\ UNCHANGED <<priority, mode>>

In(m) == current # IDLE /\ mode[current] = m

(* The current task enters the kernel.                                     *)
Enter ==
  /\ In("user")
  /\ \E m \in {"system call", "exception"} :
       mode' = [mode EXCEPT ![current] = m]
  /\ UNCHANGED <<state, counter, priority, current>>

(* The end of a system call: "reschedule" if no ticks are left.            *)
ReturnFromCall ==
  /\ In("system call")
  /\ mode' = [mode EXCEPT ![current] = "user"]
  /\ IF counter[current] = 0 THEN Schedule(state, counter)
     ELSE UNCHANGED <<state, counter, current>>
  /\ UNCHANGED priority

ReturnFromException ==
  /\ In("exception")
  /\ mode' = [mode EXCEPT ![current] = "user"]
  /\ UNCHANGED <<state, counter, priority, current>>

(* sleep_on(), interruptible_sleep_on(), sys_pause(), sys_waitpid().       *)
Sleep ==
  /\ current # IDLE /\ mode[current] # "user"
  /\ Schedule([state EXCEPT ![current] = SLEEPING], counter)
  /\ UNCHANGED <<priority, mode>>

(* wake_up() by an interrupt or another task, or a signal.                 *)
Wake(t) ==
  /\ state[t] = SLEEPING
  /\ state' = [state EXCEPT ![t] = RUNNING]
  /\ UNCHANGED <<counter, priority, current, mode>>

(* Faulty variant: a used up time slice is filled up at once.              *)
DoTimer_Refills ==
  /\ current # IDLE
  /\ LET left == counter[current] - 1
         cnt == [counter EXCEPT ![current] =
                   IF left > 0 THEN left ELSE priority[current]]
     IN  IF left > 0 \/ mode[current] # "user"
         THEN counter' = cnt /\ UNCHANGED <<state, current>>
         ELSE Schedule(state, cnt)
  /\ UNCHANGED <<priority, mode>>

(* do_timer(): a task in kernel mode keeps the processor at the end of its *)
(* time slice.                                                             *)
DoTimer ==
  /\ current # IDLE
  /\ LET left == counter[current] - 1
         cnt == [counter EXCEPT ![current] = IF left > 0 THEN left ELSE 0]
     IN  IF left > 0 \/ mode[current] # "user"
         THEN counter' = cnt /\ UNCHANGED <<state, current>>
         ELSE Schedule(state, cnt)
  /\ UNCHANGED <<priority, mode>>

(* copy_process(): p->counter = p->priority.                               *)
Fork(c) ==
  /\ In("system call") /\ state[c] = FREE
  /\ state' = [state EXCEPT ![c] = RUNNING]
  /\ priority' = [priority EXCEPT ![c] = priority[current]]
  /\ counter' = [counter EXCEPT ![c] = priority[current]]
  /\ mode' = [mode EXCEPT ![c] = "user"]
  /\ UNCHANGED current

(* do_exit().  What is left in an empty slot does not matter.              *)
Exit ==
  /\ In("system call")
  /\ Schedule([state EXCEPT ![current] = FREE],
              [counter EXCEPT ![current] = InitPriority])
  /\ priority' = [priority EXCEPT ![current] = InitPriority]
  /\ mode' = [mode EXCEPT ![current] = "user"]

(* sys_nice().                                                             *)
Nice(increment) ==
  /\ In("system call")
  /\ priority[current] - increment \in 1 .. MaxPriority
  /\ priority' = [priority EXCEPT ![current] = @ - increment]
  /\ UNCHANGED <<state, counter, current, mode>>

Next ==
  \/ Idle \/ Enter \/ ReturnFromCall \/ ReturnFromException
  \/ Sleep \/ DoTimer \/ Exit
  \/ \E t \in Tasks : Wake(t) \/ Fork(t)
  \/ \E increment \in {-1, 1} : Nice(increment)

Spec == Init /\ [][Next]_vars

(* The clock keeps ticking and does not always hit kernel mode; nobody     *)
(* stays in the kernel for ever; the idle task goes round its loop.        *)
Fairness ==
  /\ WF_vars(DoTimer) /\ SF_vars(DoTimer /\ In("user"))
  /\ WF_vars(ReturnFromCall) /\ WF_vars(ReturnFromException)
  /\ WF_vars(Idle)

FairSpec == Spec /\ Fairness

-----------------------------------------------------------------------------
(* A task that sleeps a lot collects ticks, but less than two full slices: *)
(* it cannot keep the processor for long when it wakes.                    *)
BoundedCredit == \A t \in Tasks : counter[t] < 2 * MaxPriority

(* schedule() starves nobody and comes to an end: a task that can run does *)
(* run, whatever its priority and however the others sleep and wake -      *)
(* unless new tasks, with full counters, are forked for ever.              *)
RunnableRuns ==
  \/ []<><<\E c \in Tasks : Fork(c)>>_vars
  \/ \A t \in Tasks : (state[t] = RUNNING) ~> (current = t)
=============================================================================
