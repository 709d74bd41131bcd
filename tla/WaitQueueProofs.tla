-------------------------- MODULE WaitQueueProofs --------------------------
(***************************************************************************)
(* Proofs about WaitQueue, for any set of tasks and of queues.             *)
(*                                                                         *)
(* First, with exposed queues anywhere around: nobody asleep on a queue    *)
(* that is not exposed is forgotten (GInv).  Then, when no queue is        *)
(* exposed: nobody is woken early, an empty queue misses nobody, and the   *)
(* chain implements the set of waiters (IInv).  None of these invariants   *)
(* is inductive by itself: each rests on the shape of the chain that the   *)
(* tmp variables form.  The shape is described locally, by what one        *)
(* pointer says about the task it names, so that no reachability along the *)
(* chain is needed.                                                        *)
(***************************************************************************)
EXTENDS WaitQueue, TLAPS

(* A task is inside sleep_on() exactly when it has got somewhere in it,    *)
(* and a task that is not past the last assignment is runnable.            *)
StageOK ==
  \A t \in Tasks :
    /\ Inside(t) <=> stage[t] # "out"
    /\ ~Asleep(t) => state[t] = RUNNING

(* Only one task runs, so only one can be between the assignments.         *)
OneEnters == \A t, u \in Tasks : Entering(t) /\ Entering(u) => t = u

(* Between the assignments the queue has not changed under the task,       *)
(* unless it is an exposed one.                                            *)
EntryOK ==
  \A t \in Tasks : Entering(t) /\ where[t] \notin Exposed =>
    /\ stage[t] = "saved" => tmp[t] = head[where[t]]
    /\ stage[t] = "named" => head[where[t]] = t

GInv ==
  /\ TypeOK
  /\ StageOK
  /\ OneEnters
  /\ EntryOK
  /\ NoForgottenSleeper

USE NoTaskAssumption, NoQueueAssumption

(* Initially every queue is empty and every task runs.                     *)
LEMMA InitGInv == Init => GInv
  BY DEF Init, GInv, TypeOK, StageOK, OneEnters, EntryOK, Inside, Asleep,
         Entering, NoForgottenSleeper, RUNNING, UNINTERRUPTIBLE

(* tmp is read from the queue the caller will put itself in front of.     *)
LEMMA SaveHeadGInv ==
  ASSUME GInv, NEW t \in Tasks, NEW q \in Queues, SaveHead(t, q)
  PROVE  GInv'
<1> USE DEF GInv, SaveHead, TypeOK, Inside, Asleep, Entering, NobodyEnters,
            RUNNING, UNINTERRUPTIBLE
<1>1. TypeOK'
  BY DEF StageOK
<1>2. StageOK'
  BY <1>1 DEF StageOK
<1>3. OneEnters'
  BY <1>1 DEF OneEnters
<1>4. EntryOK'
  BY <1>1 DEF EntryOK, OneEnters, StageOK, Exposed
<1>5. NoForgottenSleeper'
  BY <1>1 DEF NoForgottenSleeper, EntryOK, StageOK
<1> QED
  BY <1>1, <1>2, <1>3, <1>4, <1>5

(* The older sleepers stay named, by the tmp of the new head.              *)
LEMMA NameSelfGInv ==
  ASSUME GInv, NEW t \in Tasks, NameSelf(t)
  PROVE  GInv'
<1> USE DEF GInv, NameSelf, TypeOK, Inside, Asleep, Entering, NobodyEnters,
            RUNNING, UNINTERRUPTIBLE
<1>1. TypeOK'
  BY DEF StageOK
<1>2. StageOK'
  BY <1>1 DEF StageOK
<1>3. OneEnters'
  BY <1>1 DEF OneEnters
<1>4. EntryOK'
  BY <1>1 DEF EntryOK, OneEnters, StageOK, Exposed
<1>5. NoForgottenSleeper'
  BY <1>1 DEF NoForgottenSleeper, EntryOK, StageOK
<1> QED
  BY <1>1, <1>2, <1>3, <1>4, <1>5

(* The task that falls asleep is the head of its queue.                    *)
LEMMA FallAsleepGInv ==
  ASSUME GInv, NEW t \in Tasks, FallAsleep(t)
  PROVE  GInv'
<1> USE DEF GInv, FallAsleep, TypeOK, Inside, Asleep, Entering, NobodyEnters,
            RUNNING, UNINTERRUPTIBLE
<1>1. TypeOK'
  BY DEF StageOK
<1>2. StageOK'
  BY <1>1 DEF StageOK
<1>3. OneEnters'
  BY <1>1 DEF OneEnters
<1>4. EntryOK'
  BY <1>1 DEF EntryOK, OneEnters, StageOK, Exposed
<1>5. NoForgottenSleeper'
  BY <1>1 DEF NoForgottenSleeper, EntryOK, StageOK
<1> QED
  BY <1>1, <1>2, <1>3, <1>4, <1>5

(* A task that returns from sleep_on() hands the wake-up to its tmp.       *)
LEMMA ResumeGInv ==
  ASSUME GInv, NEW t \in Tasks, Resume(t)
  PROVE  GInv'
<1> USE DEF GInv, Resume, TypeOK, Inside, Asleep, Entering, NobodyEnters,
            RUNNING, UNINTERRUPTIBLE
<1>1. TypeOK'
  BY DEF StageOK
<1>2. StageOK'
  BY <1>1 DEF StageOK
<1>3. OneEnters'
  BY <1>1 DEF OneEnters
<1>4. EntryOK'
  BY <1>1 DEF EntryOK, OneEnters, StageOK, Exposed
<1>5. NoForgottenSleeper'
  BY <1>1 DEF NoForgottenSleeper, EntryOK, StageOK
<1> QED
  BY <1>1, <1>2, <1>3, <1>4, <1>5

(* wake_up() makes the task runnable whose name it clears.                 *)
LEMMA WakeUpGInv ==
  ASSUME GInv, NEW q \in Queues, WakeUp(q)
  PROVE  GInv'
<1> USE DEF GInv, WakeUp, TypeOK, Inside, Asleep, Entering, NobodyEnters,
            RUNNING, UNINTERRUPTIBLE
<1>1. TypeOK'
  BY DEF StageOK
<1>2. StageOK'
  BY <1>1 DEF StageOK
<1>3. OneEnters'
  BY <1>1 DEF OneEnters
<1>4. EntryOK'
  BY <1>1 DEF EntryOK, OneEnters, StageOK, Exposed
<1>5. NoForgottenSleeper'
  BY <1>1 DEF NoForgottenSleeper, EntryOK, StageOK
<1> QED
  BY <1>1, <1>2, <1>3, <1>4, <1>5

(* GInv is inductive.                                                      *)
LEMMA NextGInv == GInv /\ [Next]_vars => GInv'
<1> SUFFICES ASSUME GInv, [Next]_vars PROVE GInv'
  OBVIOUS
<1>1. ASSUME NEW t \in Tasks, NEW q \in Queues, SaveHead(t, q) PROVE GInv'
  BY <1>1, SaveHeadGInv
<1>2. ASSUME NEW t \in Tasks, NameSelf(t) PROVE GInv'
  BY <1>2, NameSelfGInv
<1>3. ASSUME NEW t \in Tasks, FallAsleep(t) PROVE GInv'
  BY <1>3, FallAsleepGInv
<1>4. ASSUME NEW t \in Tasks, Resume(t) PROVE GInv'
  BY <1>4, ResumeGInv
<1>5. ASSUME NEW q \in Queues, WakeUp(q) PROVE GInv'
  BY <1>5, WakeUpGInv
<1>6. CASE UNCHANGED vars
  BY <1>6 DEF GInv, vars, TypeOK, StageOK, OneEnters, EntryOK, Inside, Asleep,
              Entering, NoForgottenSleeper
<1> QED
  BY <1>1, <1>2, <1>3, <1>4, <1>5, <1>6 DEF Next

(* The chain keeps its shape on the queues that are not exposed.           *)
THEOREM ChainKept == Spec => []GInv
  BY InitGInv, NextGInv, PTL DEF Spec

(* The pointers of sleep_on() and wake_up() keep their types: no step      *)
(* writes through NULL.                                                    *)
THEOREM TypeCorrect == Spec => []TypeOK
  BY ChainKept, PTL DEF GInv

(* sleep_on() never forgets an older sleeper of a queue whose wake_up()    *)
(* cannot fall between its assignments, whatever happens on the others.    *)
THEOREM NobodyForgotten == Spec => []NoForgottenSleeper
  BY ChainKept, PTL DEF GInv

-----------------------------------------------------------------------------
(* A queue names a task entering or asleep on it that no wake_up() has     *)
(* released; nobody else's tmp names the same task, except that of a task  *)
(* that has just read it and not yet taken its place.                      *)
HeadOK ==
  \A q \in Queues : head[q] # NoTask =>
    /\ where[head[q]] = q
    /\ stage[head[q]] \in {"named", "asleep"}
    /\ Asleep(head[q]) => state[head[q]] = UNINTERRUPTIBLE
    /\ head[q] \notin released
    /\ \A u \in Tasks : tmp[u] = head[q] => stage[u] = "saved" /\ where[u] = q

(* tmp names a task asleep on the same queue, and wake_up() has released   *)
(* both or neither.                                                        *)
TmpOK ==
  \A u \in Tasks : tmp[u] # NoTask =>
    /\ Inside(u)
    /\ where[tmp[u]] = where[u]
    /\ Asleep(tmp[u])
    /\ state[tmp[u]] = UNINTERRUPTIBLE
    /\ (tmp[u] \in released <=> u \in released)

(* Two tmp variables never name the same task.                             *)
TmpUnique ==
  \A u, v \in Tasks : tmp[u] = tmp[v] /\ tmp[u] # NoTask => u = v

(* Only tasks asleep in sleep_on() count as released.                      *)
ReleasedOK == \A t \in released : Asleep(t)

IInv ==
  /\ GInv
  /\ HeadOK
  /\ TmpOK
  /\ TmpUnique
  /\ ReleasedOK
  /\ WokenOnlyWhenReleased
  /\ EmptyHeadMissesNobody

(* Initially nobody is inside sleep_on().                                  *)
LEMMA InitIInv == Init => IInv
<1> SUFFICES ASSUME Init PROVE IInv
  OBVIOUS
<1>1. GInv
  BY InitGInv
<1> QED
  BY <1>1 DEF Init, IInv, HeadOK, TmpOK, TmpUnique, ReleasedOK, Inside, Asleep,
         WokenOnlyWhenReleased, EmptyHeadMissesNobody

(* The caller reads the head of the chain before it takes its place.       *)
LEMMA SaveHeadIInv ==
  ASSUME Exposed = {}, IInv, NEW t \in Tasks, NEW q \in Queues, SaveHead(t, q)
  PROVE  IInv'
<1> USE DEF IInv, GInv, SaveHead, TypeOK, Inside, Asleep, Entering, NobodyEnters,
            RUNNING, UNINTERRUPTIBLE
<1>1. GInv'
  BY SaveHeadGInv
<1>2. HeadOK'
  BY <1>1 DEF HeadOK, TmpOK, StageOK, EntryOK, ReleasedOK, TmpUnique
<1>3. TmpOK'
  BY <1>1 DEF TmpOK, HeadOK, StageOK, TmpUnique, EntryOK, ReleasedOK
<1>4. TmpUnique'
  BY <1>1 DEF TmpUnique, HeadOK
<1>5. ReleasedOK'
  BY <1>1 DEF ReleasedOK, StageOK
<1>6. WokenOnlyWhenReleased'
  BY <1>1 DEF WokenOnlyWhenReleased, HeadOK, TmpOK
<1>7. EmptyHeadMissesNobody'
  BY <1>1 DEF EmptyHeadMissesNobody, WokenOnlyWhenReleased, EntryOK
<1> QED
  BY <1>1, <1>2, <1>3, <1>4, <1>5, <1>6, <1>7

(* *p = current puts the caller in front of the chain it has read.         *)
LEMMA NameSelfIInv ==
  ASSUME Exposed = {}, IInv, NEW t \in Tasks, NameSelf(t)
  PROVE  IInv'
<1> USE DEF IInv, GInv, NameSelf, TypeOK, Inside, Asleep, Entering, NobodyEnters,
            RUNNING, UNINTERRUPTIBLE
<1>1. GInv'
  BY NameSelfGInv
<1>2. HeadOK'
  BY <1>1 DEF HeadOK, TmpOK, StageOK, EntryOK, ReleasedOK, TmpUnique
<1>3. TmpOK'
  BY <1>1 DEF TmpOK, HeadOK, StageOK, TmpUnique, EntryOK, ReleasedOK
<1>4. TmpUnique'
  BY <1>1 DEF TmpUnique, HeadOK
<1>5. ReleasedOK'
  BY <1>1 DEF ReleasedOK, StageOK
<1>6. WokenOnlyWhenReleased'
  BY <1>1 DEF WokenOnlyWhenReleased, HeadOK, TmpOK
<1>7. EmptyHeadMissesNobody'
  BY <1>1 DEF EmptyHeadMissesNobody, WokenOnlyWhenReleased, EntryOK
<1> QED
  BY <1>1, <1>2, <1>3, <1>4, <1>5, <1>6, <1>7

(* The new sleeper is named by its queue.                                  *)
LEMMA FallAsleepIInv ==
  ASSUME Exposed = {}, IInv, NEW t \in Tasks, FallAsleep(t)
  PROVE  IInv'
<1> USE DEF IInv, GInv, FallAsleep, TypeOK, Inside, Asleep, Entering, NobodyEnters,
            RUNNING, UNINTERRUPTIBLE
<1>1. GInv'
  BY FallAsleepGInv
<1>2. HeadOK'
  BY <1>1 DEF HeadOK, TmpOK, StageOK, EntryOK, ReleasedOK, TmpUnique
<1>3. TmpOK'
  BY <1>1 DEF TmpOK, HeadOK, StageOK, TmpUnique, EntryOK, ReleasedOK
<1>4. TmpUnique'
  BY <1>1 DEF TmpUnique, HeadOK
<1>5. ReleasedOK'
  BY <1>1 DEF ReleasedOK, StageOK
<1>6. WokenOnlyWhenReleased'
  BY <1>1 DEF WokenOnlyWhenReleased, HeadOK, TmpOK
<1>7. EmptyHeadMissesNobody'
  BY <1>1 DEF EmptyHeadMissesNobody, WokenOnlyWhenReleased, EntryOK
<1> QED
  BY <1>1, <1>2, <1>3, <1>4, <1>5, <1>6, <1>7

(* A task that returns from sleep_on() hands the wake-up to its tmp.       *)
LEMMA ResumeIInv ==
  ASSUME Exposed = {}, IInv, NEW t \in Tasks, Resume(t)
  PROVE  IInv'
<1> USE DEF IInv, GInv, Resume, TypeOK, Inside, Asleep, Entering, NobodyEnters,
            RUNNING, UNINTERRUPTIBLE
<1>1. GInv'
  BY ResumeGInv
<1>2. HeadOK'
  BY <1>1 DEF HeadOK, TmpOK, StageOK, EntryOK, ReleasedOK, TmpUnique
<1>3. TmpOK'
  BY <1>1 DEF TmpOK, HeadOK, StageOK, TmpUnique, EntryOK, ReleasedOK
<1>4. TmpUnique'
  BY <1>1 DEF TmpUnique, HeadOK
<1>5. ReleasedOK'
  BY <1>1 DEF ReleasedOK, StageOK
<1>6. WokenOnlyWhenReleased'
  BY <1>1 DEF WokenOnlyWhenReleased, HeadOK, TmpOK
<1>7. EmptyHeadMissesNobody'
  BY <1>1 DEF EmptyHeadMissesNobody, WokenOnlyWhenReleased, EntryOK
<1> QED
  BY <1>1, <1>2, <1>3, <1>4, <1>5, <1>6, <1>7

(* wake_up() cuts the chain off the queue and releases all of it.          *)
LEMMA WakeUpIInv ==
  ASSUME Exposed = {}, IInv, NEW q \in Queues, WakeUp(q)
  PROVE  IInv'
<1> USE DEF IInv, GInv, WakeUp, TypeOK, Inside, Asleep, Entering, NobodyEnters,
            RUNNING, UNINTERRUPTIBLE
<1>1. GInv'
  BY WakeUpGInv
<1>2. HeadOK'
  BY <1>1 DEF HeadOK, TmpOK, StageOK, EntryOK, ReleasedOK, TmpUnique
<1>3. TmpOK'
  BY <1>1 DEF TmpOK, HeadOK, StageOK, TmpUnique, EntryOK, ReleasedOK
<1>4. TmpUnique'
  BY <1>1 DEF TmpUnique, HeadOK
<1>5. ReleasedOK'
  BY <1>1 DEF ReleasedOK, StageOK
<1>6. WokenOnlyWhenReleased'
  BY <1>1 DEF WokenOnlyWhenReleased, HeadOK, TmpOK
<1>7. EmptyHeadMissesNobody'
  BY <1>1 DEF EmptyHeadMissesNobody, WokenOnlyWhenReleased, EntryOK
<1> QED
  BY <1>1, <1>2, <1>3, <1>4, <1>5, <1>6, <1>7

(* IInv is inductive when no queue is exposed.                             *)
LEMMA NextIInv == Exposed = {} /\ IInv /\ [Next]_vars => IInv'
<1> SUFFICES ASSUME Exposed = {}, IInv, [Next]_vars PROVE IInv'
  OBVIOUS
<1>1. ASSUME NEW t \in Tasks, NEW q \in Queues, SaveHead(t, q) PROVE IInv'
  BY <1>1, SaveHeadIInv
<1>2. ASSUME NEW t \in Tasks, NameSelf(t) PROVE IInv'
  BY <1>2, NameSelfIInv
<1>3. ASSUME NEW t \in Tasks, FallAsleep(t) PROVE IInv'
  BY <1>3, FallAsleepIInv
<1>4. ASSUME NEW t \in Tasks, Resume(t) PROVE IInv'
  BY <1>4, ResumeIInv
<1>5. ASSUME NEW q \in Queues, WakeUp(q) PROVE IInv'
  BY <1>5, WakeUpIInv
<1>6. CASE UNCHANGED vars
  <2>1. GInv'
    BY <1>6, NextGInv DEF IInv
  <2> QED
    BY <2>1, <1>6 DEF IInv, vars, HeadOK, TmpOK, TmpUnique, ReleasedOK, Inside,
              Asleep, WokenOnlyWhenReleased, EmptyHeadMissesNobody
<1> QED
  BY <1>1, <1>2, <1>3, <1>4, <1>5, <1>6 DEF Next

(* The shape of the chain in every reachable state, when no wake_up() can  *)
(* fall between the assignments of sleep_on() on the same queue.           *)
THEOREM Invariance ==
  ASSUME Exposed = {}
  PROVE  Spec => []IInv
<1>1. IInv /\ [Next]_vars => IInv'
  BY NextIInv
<1> QED
  BY <1>1, InitIInv, PTL DEF Spec

(* Without exposed queues a task never returns from sleep_on() because of  *)
(* a stale tmp.                                                            *)
THEOREM OnlyReleasedWake ==
  ASSUME Exposed = {}
  PROVE  Spec => []WokenOnlyWhenReleased
  BY Invariance, PTL DEF IInv

(* Without exposed queues wake_up() on an empty queue misses nobody.       *)
THEOREM EmptyHeadComplete ==
  ASSUME Exposed = {}
  PROVE  Spec => []EmptyHeadMissesNobody
  BY Invariance, PTL DEF IInv

-----------------------------------------------------------------------------
(* Initial states of the chain are initial states of the set.              *)
LEMMA AbsInitHolds == Init => Abstract!AbsInit
  BY DEF Init, Abstract!AbsInit, Asleep

(* Every step of the chain is a step of the set or leaves it alone.        *)
LEMMA AbsStepHolds ==
  ASSUME Exposed = {}, IInv, [Next]_vars
  PROVE  [Abstract!AbsNext]_(Abstract!absVars)
<1> USE DEF IInv, GInv, TypeOK, Inside, Asleep
<1>1. ASSUME NEW t \in Tasks, NEW q \in Queues, SaveHead(t, q)
      PROVE  UNCHANGED Abstract!absVars
  BY <1>1 DEF SaveHead, StageOK, Abstract!absVars
<1>2. ASSUME NEW t \in Tasks, NameSelf(t)
      PROVE  UNCHANGED Abstract!absVars
  BY <1>2 DEF NameSelf, Abstract!absVars
<1>3. ASSUME NEW t \in Tasks, FallAsleep(t)
      PROVE  Abstract!AbsNext
  <2>1. PICK q \in Queues : where[t] = q
    BY <1>3 DEF FallAsleep, StageOK
  <2>2. Abstract!AbsSleep(t, q)
    BY <1>3, <2>1 DEF FallAsleep, Abstract!AbsSleep
  <2> QED
    BY <2>2 DEF Abstract!AbsNext
<1>4. ASSUME NEW t \in Tasks, Resume(t)
      PROVE  Abstract!AbsNext
  <2>1. t \in released
    BY <1>4 DEF Resume, WokenOnlyWhenReleased
  <2>2. Abstract!AbsReturn(t)
    BY <1>4, <2>1 DEF Resume, Abstract!AbsReturn
  <2> QED
    BY <2>2 DEF Abstract!AbsNext
<1>5. ASSUME NEW q \in Queues, WakeUp(q)
      PROVE  Abstract!AbsNext
  <2>1. Abstract!AbsWake(q)
    BY <1>5 DEF WakeUp, Abstract!AbsWake, Abstract!Waiting
  <2> QED
    BY <2>1 DEF Abstract!AbsNext
<1>6. CASE UNCHANGED vars
  BY <1>6 DEF vars, Abstract!absVars
<1> QED
  BY <1>1, <1>2, <1>3, <1>4, <1>5, <1>6 DEF Next

(* Without exposed queues sleep_on() and wake_up() implement the wait set  *)
(* their callers reason with, although other queues are woken between the  *)
(* assignments: wake_up() releases exactly the tasks that wait, and only   *)
(* released tasks return.                                                  *)
THEOREM Refinement ==
  ASSUME Exposed = {}
  PROVE  Spec => ImplementsWaitSet
<1>1. IInv /\ [Next]_vars => [Abstract!AbsNext]_(Abstract!absVars)
  BY AbsStepHolds
<1> QED
  BY <1>1, AbsInitHolds, Invariance, PTL
     DEF Spec, ImplementsWaitSet, Abstract!AbsSpec
=============================================================================
