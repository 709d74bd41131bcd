-------------------------- MODULE SchedulerProofs --------------------------
(***************************************************************************)
(* Proofs about Scheduler for any number of tasks and any priorities.      *)
(*                                                                         *)
(* The type invariant and the bound on the counters are inductive          *)
(* together.  The heart of it is RecomputeBound: half of what is less than *)
(* two slices, plus at most one slice, is again less than two.             *)
(***************************************************************************)
EXTENDS Scheduler, TLAPS

States == {RUNNING, SLEEPING, FREE}

(* Counters that satisfy the invariant.                                    *)
Counters == {c \in [Tasks -> Nat] : \A t \in Tasks : c[t] < 2 * MaxPriority}

(* A counter can be replaced by any that is in bounds.                     *)
LEMMA CountersExcept ==
  ASSUME NEW cnt \in Counters, NEW t \in Tasks,
         NEW n \in Nat, n < 2 * MaxPriority
  PROVE  [cnt EXCEPT ![t] = n] \in Counters
<1> DEFINE c == [cnt EXCEPT ![t] = n]
<1>1. cnt \in [Tasks -> Nat] /\ \A u \in Tasks : cnt[u] < 2 * MaxPriority
  BY DEF Counters
<1>2. c \in [Tasks -> Nat]
  BY <1>1
<1>3. \A u \in Tasks : c[u] < 2 * MaxPriority
  BY <1>1
<1> QED
  BY <1>2, <1>3 DEF Counters

(* counter = (counter >> 1) + priority of schedule() keeps every counter   *)
(* below two slices.                                                       *)
LEMMA RecomputeBound ==
  ASSUME NEW st \in [Tasks -> States], NEW cnt \in Counters, TypeOK
  PROVE  Recompute(st, cnt) \in Counters
<1>1. MaxPriority \in Nat
  BY SizesAssumption
<1>2. ASSUME NEW t \in Tasks
      PROVE  /\ Recompute(st, cnt)[t] \in Nat
             /\ Recompute(st, cnt)[t] < 2 * MaxPriority
  <2>1. cnt[t] \in Nat /\ cnt[t] < 2 * MaxPriority
    BY DEF Counters
  <2>2. priority[t] \in 1 .. MaxPriority
    BY DEF TypeOK
  <2>3. /\ cnt[t] \div 2 + priority[t] \in Nat
        /\ cnt[t] \div 2 + priority[t] < 2 * MaxPriority
    BY <1>1, <2>1, <2>2
  <2> QED
    BY <2>1, <2>3 DEF Recompute
<1>3. Recompute(st, cnt) \in [Tasks -> Nat]
  BY <1>2 DEF Recompute
<1> QED
  BY <1>2, <1>3 DEF Counters

(* Whatever states and counters its caller leaves, schedule() chooses a    *)
(* task of the table or the idle task and keeps the counters in bounds.    *)
LEMMA ScheduleKeeps ==
  ASSUME NEW st \in [Tasks -> States], NEW cnt \in Counters, TypeOK,
         Schedule(st, cnt)
  PROVE  /\ state' \in [Tasks -> States]
         /\ counter' \in Counters
         /\ current' \in Tasks \cup {IDLE}
<1>1. state' \in [Tasks -> States]
  BY DEF Schedule
<1>2. Recompute(st, cnt) \in Counters
  BY RecomputeBound
<1>3. counter' \in Counters
  BY <1>2 DEF Schedule
<1>4. current' \in Tasks \cup {IDLE}
  BY DEF Schedule
<1> QED
  BY <1>1, <1>3, <1>4

(* The inductive invariant.                                                *)
IInv == TypeOK /\ BoundedCredit

(* sched_init()'s state satisfies it.                                      *)
LEMMA InitOK == Init => IInv
  BY SizesAssumption DEF Init, IInv, TypeOK, BoundedCredit

(* IInv in the form the lemmas above use.                                  *)
LEMMA IInvCounters ==
  IInv <=> /\ state \in [Tasks -> States]
           /\ counter \in Counters
           /\ priority \in [Tasks -> 1 .. MaxPriority]
           /\ current \in Tasks \cup {IDLE}
           /\ mode \in [Tasks -> {"user", "system call", "exception"}]
  BY DEF IInv, TypeOK, BoundedCredit, States, Counters

(* Every step keeps it: one case per action.                               *)
LEMMA NextOK == IInv /\ [Next]_vars => IInv'
<1> DEFINE Good == /\ state' \in [Tasks -> States]
                   /\ counter' \in Counters
                   /\ priority' \in [Tasks -> 1 .. MaxPriority]
                   /\ current' \in Tasks \cup {IDLE}
                   /\ mode' \in [Tasks -> {"user", "system call", "exception"}]
<1> SUFFICES ASSUME IInv, [Next]_vars
             PROVE  Good
  BY DEF IInv, TypeOK, BoundedCredit, States, Counters
<1>1. /\ state \in [Tasks -> States]
      /\ counter \in Counters
      /\ priority \in [Tasks -> 1 .. MaxPriority]
      /\ current \in Tasks \cup {IDLE}
      /\ mode \in [Tasks -> {"user", "system call", "exception"}]
  BY IInvCounters
<1>2. TypeOK
  BY DEF IInv
<1>3. MaxPriority \in Nat /\ InitPriority \in 1 .. MaxPriority
  BY SizesAssumption
<1>4. RUNNING \in States /\ SLEEPING \in States /\ FREE \in States
  BY DEF States
<1>5. CASE Idle
  BY <1>1, <1>2, <1>5, ScheduleKeeps DEF Idle
<1>6. CASE Enter
  BY <1>1, <1>6 DEF Enter, In
<1>7. CASE ReturnFromCall
  <2>1. mode' \in [Tasks -> {"user", "system call", "exception"}]
    BY <1>1, <1>7 DEF ReturnFromCall
  <2> QED
    BY <1>1, <1>2, <1>7, <2>1, ScheduleKeeps DEF ReturnFromCall
<1>8. CASE ReturnFromException
  BY <1>1, <1>8 DEF ReturnFromException
<1>9. CASE Sleep
  <2>1. [state EXCEPT ![current] = SLEEPING] \in [Tasks -> States]
    BY <1>1, <1>4
  <2> QED
    BY <1>1, <1>2, <1>9, <2>1, ScheduleKeeps DEF Sleep
<1>10. CASE DoTimer
  <2> DEFINE left == counter[current] - 1
             cnt == [counter EXCEPT ![current] = IF left > 0 THEN left ELSE 0]
  <2>1. cnt \in Counters
    <3>1. current \in Tasks
      BY <1>1, <1>10 DEF DoTimer
    <3>2. counter \in [Tasks -> Nat] /\ counter[current] < 2 * MaxPriority
      BY <1>1, <3>1 DEF Counters
    <3>3. left > 0 => left \in Nat /\ left < 2 * MaxPriority
      BY <1>3, <3>1, <3>2
    <3>4. 0 < 2 * MaxPriority
      BY <1>3
    <3> QED
      BY <1>1, <3>1, <3>3, <3>4, CountersExcept
  <2>2. \/ counter' = cnt /\ UNCHANGED <<state, current>>
        \/ Schedule(state, cnt)
    BY <1>10 DEF DoTimer
  <2>3. UNCHANGED <<priority, mode>>
    BY <1>10 DEF DoTimer
  <2> HIDE DEF cnt
  <2> QED
    BY <1>1, <1>2, <2>1, <2>2, <2>3, ScheduleKeeps
<1>11. CASE Exit
  <2>1. current \in Tasks
    BY <1>1, <1>11 DEF Exit, In
  <2>2. [state EXCEPT ![current] = FREE] \in [Tasks -> States]
    BY <1>1, <1>4
  <2>3. [counter EXCEPT ![current] = InitPriority] \in Counters
    <3>1. InitPriority \in Nat /\ InitPriority < 2 * MaxPriority
      BY <1>3
    <3> QED
      BY <1>1, <2>1, <3>1, CountersExcept
  <2>4. /\ priority' \in [Tasks -> 1 .. MaxPriority]
        /\ mode' \in [Tasks -> {"user", "system call", "exception"}]
    BY <1>1, <1>3, <1>11 DEF Exit
  <2> QED
    BY <1>2, <1>11, <2>2, <2>3, <2>4, ScheduleKeeps DEF Exit
<1>12. ASSUME NEW t \in Tasks, Wake(t)
       PROVE  Good
  BY <1>1, <1>4, <1>12 DEF Wake
<1>13. ASSUME NEW c \in Tasks, Fork(c)
       PROVE  Good
  <2>1. priority[current] \in 1 .. MaxPriority
    BY <1>1, <1>13 DEF Fork, In
  <2>2. counter' \in Counters
    <3>1. priority[current] \in Nat /\ priority[current] < 2 * MaxPriority
      BY <1>3, <2>1
    <3>2. [counter EXCEPT ![c] = priority[current]] \in Counters
      BY <1>1, <3>1, CountersExcept
    <3> QED
      BY <1>13, <3>2 DEF Fork
  <2> QED
    BY <1>1, <1>4, <1>13, <2>1, <2>2 DEF Fork
<1>14. ASSUME NEW increment \in {-1, 1}, Nice(increment)
       PROVE  Good
  BY <1>1, <1>14 DEF Nice
<1>15. CASE UNCHANGED vars
  BY <1>1, <1>15 DEF vars
<1> QED
  BY <1>5, <1>6, <1>7, <1>8, <1>9, <1>10, <1>11, <1>12, <1>13, <1>14, <1>15
     DEF Next

(* The invariant holds in every reachable state.                           *)
THEOREM Invariance == Spec => []IInv
  BY InitOK, NextOK, PTL DEF Spec

(* The state keeps its types: every counter is a natural number and no     *)
(* priority falls to 0, so one round of recomputing ends schedule()'s loop.*)
THEOREM TypeCorrect == Spec => []TypeOK
  BY Invariance, PTL DEF IInv

(* For any number of tasks: however long a task sleeps and however often   *)
(* schedule() recomputes, it never has two full slices.                    *)
THEOREM CreditBounded == Spec => []BoundedCredit
  BY Invariance, PTL DEF IInv
=============================================================================
