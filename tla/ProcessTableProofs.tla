------------------------- MODULE ProcessTableProofs -------------------------
(***************************************************************************)
(* Proofs about the task table (ProcessTable), for any number of slots and *)
(* pids.  The properties are not inductive by themselves.  That a father   *)
(* is alive rests on init never exiting; init never exits because it never *)
(* gets a signal but SIGCHLD; it gets none because it alone is in session  *)
(* and group 0, and a task on its way to ret_from_sys_call has a signal to *)
(* deliver.  TableOK says this of every record.                            *)
(*                                                                         *)
(* Most steps are calm: no relative can notice them (CalmStep), and the    *)
(* family's properties follow at once.  fork(), do_exit() and waitpid()    *)
(* are not and have proofs of their own.                                   *)
(***************************************************************************)
EXTENDS ProcessTable, FiniteSetTheorems, TLAPS

-----------------------------------------------------------------------------
(* Sets of numbers.                                                        *)

(* The least element of a set of natural numbers.                          *)
LEMMA HasLeast ==
  ASSUME NEW S \in SUBSET Nat, S # {}
  PROVE  \E x \in S : \A y \in S : x <= y
<1>1. PICK x \in S : \A y \in S : ~(<<y, x>> \in OpToRel(<, Nat))
  BY NatLessThanWellFounded, WFMin, Zenon
<1>2. \A y \in S : y \in Nat /\ x \in Nat /\ ~(y < x)
  BY <1>1, Zenon DEF OpToRel
<1> QED
  BY <1>2

(* The greatest element of a bounded set of natural numbers.               *)
LEMMA HasGreatest ==
  ASSUME NEW n \in Nat, NEW S \in SUBSET (0 .. n), S # {}
  PROVE  \E x \in S : \A y \in S : y <= x
<1> DEFINE T == {m \in 0 .. n : n - m \in S}
<1>1. \A y \in S : n - y \in T /\ y \in 0 .. n
  OBVIOUS
<1>2. T \in SUBSET Nat
  OBVIOUS
<1>3. T # {}
  <2>1. PICK y \in S : n - y \in T
    BY <1>1
  <2> HIDE DEF T
  <2> QED
    BY <2>1
<1>4. PICK m \in T : \A y \in T : m <= y
  BY ONLY <1>2, <1>3, HasLeast
<1>5. m \in 0 .. n /\ n - m \in S
  OBVIOUS
<1> QED
  BY <1>1, <1>4, <1>5

-----------------------------------------------------------------------------
(* Pids.                                                                   *)

(* Counting on from last_pid reaches every pid.                            *)
LEMMA CountReaches ==
  ASSUME NEW last \in Pids, NEW pid \in Pids
  PROVE  \E k \in 1 .. MaxPid : ((last - 1 + k) % MaxPid) + 1 = pid
<1>0. MaxPid \in Nat /\ MaxPid > 0 /\ last \in 1 .. MaxPid /\ pid \in 1 .. MaxPid
  BY SizesAssumption DEF Pids
<1>1. CASE pid > last
  <2>1. pid - last \in 1 .. MaxPid /\ last - 1 + (pid - last) = pid - 1
    BY <1>0, <1>1
  <2>2. (pid - 1) % MaxPid = pid - 1
    BY <1>0
  <2>3. ((last - 1 + (pid - last)) % MaxPid) + 1 = pid
    BY <1>0, <2>1, <2>2
  <2> QED
    BY <2>1, <2>3
<1>2. CASE pid <= last
  <2>1. pid - last + MaxPid \in 1 .. MaxPid /\ last - 1 + (pid - last + MaxPid) = (pid - 1) + MaxPid
    BY <1>0, <1>2
  <2>2. ((pid - 1) + MaxPid) % MaxPid = pid - 1
    BY <1>0
  <2>3. ((last - 1 + (pid - last + MaxPid)) % MaxPid) + 1 = pid
    BY <1>0, <2>1, <2>2
  <2> QED
    BY <2>1, <2>3
<1> QED
  BY <1>0, <1>1, <1>2

(* The counter k-th after last_pid.                                        *)
PidAfter(k) == ((last_pid - 1 + k) % MaxPid) + 1

(* find_empty_process() ends: there are more pids than slots, and what it  *)
(* finds is nobody's.                                                      *)
LEMMA NextPidFree ==
  ASSUME TypeOK
  PROVE  /\ NextPid \in Pids
         /\ \A q \in Used : task[q].pid # NextPid
<1> DEFINE free == {k \in 1 .. MaxPid : \A q \in Used : task[q].pid # PidAfter(k)}
<1>0. NR_TASKS \in Nat /\ MaxPid \in Nat /\ MaxPid > NR_TASKS
  BY SizesAssumption
<1>1. \E pid \in Pids : \A q \in Used : task[q].pid # pid
  <2> SUFFICES ASSUME \A pid \in Pids : \E q \in Used : task[q].pid = pid PROVE FALSE
    OBVIOUS
  <2> DEFINE f == [q \in Used |-> task[q].pid]
  <2>1. \A q \in Used : task[q].pid \in Pids
    BY DEF TypeOK, TaskRecords, Used
  <2>2. f \in Surjection(Used, Pids)
    BY <2>1 DEF Surjection
  <2>3. IsFiniteSet(Slots) /\ Cardinality(Slots) = NR_TASKS
    BY <1>0, FS_Interval, SizesAssumption DEF Slots
  <2>4. /\ IsFiniteSet(Used) /\ Cardinality(Used) <= NR_TASKS
    BY <2>3, FS_Subset DEF Used
  <2>5. Cardinality(Pids) <= Cardinality(Used)
    BY <2>2, <2>4, FS_Surjection
  <2>6. Cardinality(Pids) = MaxPid
    BY <1>0, FS_Interval DEF Pids
  <2>7. Cardinality(Used) \in Nat
    BY <2>4, FS_CardinalityType
  <2> QED
    BY <1>0, <2>4, <2>5, <2>6, <2>7
<1>2. free # {}
  <2>1. PICK pid \in Pids : \A q \in Used : task[q].pid # pid
    BY <1>1
  <2>2. last_pid \in Pids
    BY DEF TypeOK
  <2>3. PICK k \in 1 .. MaxPid : PidAfter(k) = pid
    BY <2>2, CountReaches DEF PidAfter
  <2> QED
    BY <2>1, <2>3
<1>3. free \in SUBSET Nat
  BY <1>0
<1>4. NextPid = PidAfter(Lowest(free))
  BY DEF NextPid, PidAfter
<1>5. Lowest(free) \in free
  <2> HIDE DEF free
  <2> QED
    BY <1>2, <1>3, HasLeast DEF Lowest
<1>6. PICK k \in free : NextPid = PidAfter(k)
  <2> HIDE DEF free
  <2> QED
    BY <1>4, <1>5
<1>7. k \in 1 .. MaxPid /\ \A q \in Used : task[q].pid # NextPid
  BY <1>6
<1>8. NextPid \in Pids
  <2>1. last_pid \in Int /\ k \in Int
    BY <1>7 DEF TypeOK, Pids
  <2>2. (last_pid - 1 + k) % MaxPid \in 0 .. MaxPid - 1
    BY <1>0, <2>1
  <2> QED
    BY <1>0, <1>6, <2>2 DEF PidAfter, Pids
<1> QED
  BY <1>7, <1>8

-----------------------------------------------------------------------------
(* The inductive invariant.                                                *)

(* A record that can be in slot t.  init is never killed or stopped: it    *)
(* gets no signal but SIGCHLD, being alone in session and group 0, and is  *)
(* in no call but wait().  A task on its way to ret_from_sys_call has a    *)
(* signal to deliver.                                                      *)
Good(t, r) ==
  /\ r \in TaskRecords
  /\ r.at = "ret" => Deliverable(r) # {}
  /\ t = 1 => /\ r.pid = 1 /\ r.pgrp = 0 /\ r.session = 0
              /\ r.at \in {"user", "ret", "wait"}
              /\ r.signal \subseteq {SIGCHLD}
  /\ t # 1 => r.session # 0

TableOK ==
  /\ task \in [Slots -> TaskRecords \cup {NoTask}]
  /\ last_pid \in Pids
  /\ shell \in 0 .. MaxPid
  /\ task[1] # NoTask
  /\ \A t \in Used : Good(t, task[t])

(* What kill() asked for is asked of tasks that are alive.                 *)
AskedOK ==
  /\ asked \in [Slots -> SUBSET Signals]
  /\ \A q \in Slots : task[q] = NoTask \/ task[q].at \in {"exit", "zombie"}
                        => asked[q] = {}

IInv == TableOK /\ UniquePids /\ FatherAlive /\ ZombieNotMissed /\ AskedOK

(* The type invariant is part of it.                                       *)
LEMMA IInvType == TableOK /\ AskedOK => TypeOK
  BY DEF TableOK, AskedOK, TypeOK

(* Slot 1 exists.                                                          *)
LEMMA SlotOne == 1 \in Slots /\ Slots \subseteq Nat
  BY SizesAssumption DEF Slots

(* The state after the first fork().                                       *)
LEMMA InitOK == Init => IInv
<1> SUFFICES ASSUME Init PROVE IInv
  OBVIOUS
<1>0. 1 \in Slots /\ 1 \in Pids /\ MaxPid \in Nat
  BY SlotOne, SizesAssumption DEF Pids
<1> DEFINE r == [pid |-> 1, father |-> 0, pgrp |-> 0, session |-> 0,
             leader |-> FALSE, signal |-> {}, blocked |-> {}, caught |-> {},
             at |-> "user", want |-> 0]
<1>1. r \in TaskRecords
  BY <1>0 DEF TaskRecords
<1>2. task[1] = r /\ \A q \in Slots \ {1} : task[q] = NoTask
  BY <1>0 DEF Init
<1>3. Used = {1}
  BY <1>0, <1>1, <1>2, NoTaskAssumption DEF Used
<1>4. Good(1, task[1])
  BY <1>1, <1>2 DEF Good
<1>5. TableOK
  <2>1. task = [t \in Slots |-> IF t = 1 THEN r ELSE NoTask]
    BY DEF Init
  <2>2. task \in [Slots -> TaskRecords \cup {NoTask}]
    <3> HIDE DEF r
    <3> QED
      BY <1>1, <2>1
  <2>3. last_pid \in Pids /\ shell \in 0 .. MaxPid
    BY <1>0 DEF Init
  <2>4. task[1] # NoTask
    BY <1>1, <1>2, NoTaskAssumption
  <2> QED
    BY <1>3, <1>4, <2>2, <2>3, <2>4 DEF TableOK
<1>6. UniquePids /\ FatherAlive /\ ZombieNotMissed
  BY <1>2, <1>3 DEF UniquePids, FatherAlive, ZombieNotMissed
<1>7. AskedOK
  BY DEF Init, AskedOK
<1> QED
  BY <1>5, <1>6, <1>7 DEF IInv

-----------------------------------------------------------------------------
(* What the helpers do to one record.                                      *)

(* From r to s nothing happens that a relative could notice: no death, no  *)
(* new sleep in waitpid(), no SIGCHLD lost in one.                         *)
Calm(r, s) ==
  /\ s.pid = r.pid /\ s.father = r.father
  /\ s.at \in {"exit", "zombie"} => r.at = s.at
  /\ s.at = "wait" => /\ r.at = "wait" /\ s.want = r.want
                      /\ SIGCHLD \in r.signal => SIGCHLD \in s.signal

(* A record without the test of its state: what Ret() starts from.         *)
Plain(t, r) ==
  /\ r \in TaskRecords
  /\ t = 1 => r.pid = 1 /\ r.pgrp = 0 /\ r.session = 0 /\ r.signal \subseteq {SIGCHLD}
  /\ t # 1 => r.session # 0

LEMMA GoodIsPlain ==
  ASSUME NEW t, NEW r, Good(t, r)
  PROVE  Plain(t, r)
  BY DEF Good, Plain

(* The end of a system call.                                               *)
LEMMA RetOK ==
  ASSUME NEW t, NEW r, Plain(t, r)
  PROVE  /\ Good(t, Ret(r))
         /\ Ret(r).at \in {"user", "ret"}
         /\ Ret(r).pid = r.pid /\ Ret(r).father = r.father
         /\ Ret(r).signal = r.signal
<1> DEFINE s == Ret(r)
<1>0. 0 \in -MaxPid .. MaxPid
  BY SizesAssumption
<1>1. s = [r EXCEPT !.at = IF Deliverable(r) = {} THEN "user" ELSE "ret", !.want = 0]
  BY DEF Ret
<1> HIDE DEF s
<1>2. /\ s \in TaskRecords
      /\ s.at = IF Deliverable(r) = {} THEN "user" ELSE "ret"
      /\ s.pid = r.pid /\ s.father = r.father /\ s.pgrp = r.pgrp
      /\ s.session = r.session /\ s.signal = r.signal /\ s.blocked = r.blocked
  BY <1>0, <1>1 DEF Plain, TaskRecords
<1>3. Deliverable(s) = Deliverable(r)
  BY <1>2 DEF Deliverable
<1>4. Good(t, s)
  BY <1>2, <1>3 DEF Good, Plain
<1> QED
  BY <1>2, <1>4 DEF s

(* p->signal |= sig.                                                       *)
LEMMA WithSignalOK ==
  ASSUME NEW t, NEW r, Good(t, r), NEW sig \in Signals, t = 1 => sig = SIGCHLD
  PROVE  /\ Good(t, WithSignal(r, sig))
         /\ Calm(r, WithSignal(r, sig))
         /\ r.signal \subseteq WithSignal(r, sig).signal
         /\ r.at \notin {"exit", "zombie"} => sig \in WithSignal(r, sig).signal
         /\ r.at \in {"exit", "zombie"} => WithSignal(r, sig) = r
<1> DEFINE s == [r EXCEPT !.signal = @ \cup {sig}]
<1>1. /\ s \in TaskRecords /\ s.pid = r.pid /\ s.father = r.father
      /\ s.pgrp = r.pgrp /\ s.session = r.session /\ s.signal = r.signal \cup {sig}
      /\ s.at = r.at /\ s.want = r.want
  BY DEF Good, TaskRecords
<1>2. Plain(t, s)
  BY <1>1 DEF Good, Plain
<1>3. CASE r.at \in {"user", "ret"}
  <2>1. WithSignal(r, sig) = Ret(s)
    BY <1>3 DEF WithSignal
  <2> HIDE DEF s
  <2> QED
    BY <1>1, <1>2, <1>3, <2>1, RetOK DEF Calm
<1>4. CASE r.at \in {"exit", "zombie"}
  BY <1>4 DEF WithSignal, Calm
<1>5. CASE r.at \in {"wait", "pause"}
  <2>1. WithSignal(r, sig) = s
    BY <1>5 DEF WithSignal
  <2>2. Good(t, s)
    BY <1>1, <1>2, <1>5 DEF Good, Plain
  <2> HIDE DEF s
  <2> QED
    BY <1>1, <1>5, <2>1, <2>2 DEF Calm
<1>6. r.at \in {"user", "ret", "wait", "pause", "exit", "zombie"}
  BY DEF Good, TaskRecords
<1> QED
  BY <1>3, <1>4, <1>5, <1>6

-----------------------------------------------------------------------------
(* Steps that no relative notices.                                         *)
CalmStep ==
  \A q \in Slots :
    \/ task[q] = NoTask /\ task'[q] = NoTask
    \/ task[q] # NoTask /\ task'[q] # NoTask /\ Calm(task[q], task'[q])

(* They keep the family tree and the pending SIGCHLDs.                     *)
LEMMA CalmKeepsFamily ==
  ASSUME TableOK, UniquePids, FatherAlive, ZombieNotMissed, CalmStep
  PROVE  UniquePids' /\ FatherAlive' /\ ZombieNotMissed'
<1>1. Used' = Used
  BY DEF CalmStep, Used
<1>2. \A q \in Used : q \in Slots /\ Calm(task[q], task'[q])
  BY DEF CalmStep, Used
<1>3. UniquePids'
  BY <1>1, <1>2 DEF UniquePids, Calm
<1>4. FatherAlive'
  BY <1>1, <1>2 DEF FatherAlive, Calm
<1>5. ZombieNotMissed'
  <2> SUFFICES ASSUME NEW t \in Used, task'[t].at = "wait",
                      task'[t].want > 0 \/ task'[t].want = -1,
                      NEW c \in Zombies(task', t, task'[t].want)
               PROVE  SIGCHLD \in task'[t].signal
    BY <1>1 DEF ZombieNotMissed, Zombies, Children
  <2>1. /\ c \in Slots \ {t} /\ task'[c] # NoTask /\ task'[c].father = task'[t].pid
        /\ task'[t].want > 0 => task'[c].pid = task'[t].want
        /\ task'[c].at = "zombie"
    BY DEF Zombies, Children
  <2>2. c \in Used
    BY <1>1, <2>1 DEF CalmStep, Used
  <2>3. /\ task[t].at = "wait" /\ task[t].want = task'[t].want
        /\ SIGCHLD \in task[t].signal => SIGCHLD \in task'[t].signal
    BY <1>2 DEF Calm
  <2>4. /\ task[c].at = "zombie" /\ task[c].father = task[t].pid /\ task[c].pid = task'[c].pid
    BY <1>2, <2>1, <2>2 DEF Calm
  <2>5. task[t].want \in Int
    BY SizesAssumption DEF TableOK, Good, TaskRecords
  <2>6. c \in Zombies(task, t, task[t].want)
    BY <2>1, <2>2, <2>3, <2>4, <2>5 DEF Zombies, Children, Used
  <2> QED
    BY <2>3, <2>6 DEF ZombieNotMissed
<1> QED
  BY <1>3, <1>4, <1>5

(* One task returns from a call with record r, the others do not change.   *)
LEMMA OneCalm ==
  ASSUME IInv, NEW t \in Used, NEW r, r \in TaskRecords, Good(t, r), Calm(task[t], r),
         task' = [task EXCEPT ![t] = r],
         last_pid' \in Pids, shell' \in 0 .. MaxPid
  PROVE  CalmStep /\ TableOK' /\ UniquePids' /\ FatherAlive' /\ ZombieNotMissed'
<1>1. t \in Slots /\ task[t] # NoTask /\ r # NoTask
  BY NoTaskAssumption DEF Used
<1>2. task \in [Slots -> TaskRecords \cup {NoTask}]
  BY DEF IInv, TableOK
<1>3. task'[t] = r /\ \A q \in Slots \ {t} : task'[q] = task[q]
  BY <1>1, <1>2
<1>4. \A q \in Used \ {t} : Calm(task[q], task[q])
  BY DEF Calm
<1>5. CalmStep
  BY <1>1, <1>3, <1>4 DEF CalmStep, Used
<1>6. TableOK'
  <2>1. task' \in [Slots -> TaskRecords \cup {NoTask}]
    BY <1>1, <1>2
  <2>2. task'[1] # NoTask
    BY <1>1, <1>3, SlotOne DEF IInv, TableOK
  <2>3. ASSUME NEW q \in Used' PROVE Good(q, task'[q])
    BY <1>1, <1>3, <2>3 DEF IInv, TableOK, Used
  <2> QED
    BY <2>1, <2>2, <2>3 DEF TableOK
<1> QED
  BY <1>5, <1>6, CalmKeepsFamily DEF IInv

(* The same for a task that goes on in user mode or at ret_from_sys_call   *)
(* with fields that the family does not look at.                           *)
LEMMA RetStep ==
  ASSUME IInv, NEW t \in Used, NEW r, Plain(t, r), task[t].at \notin {"exit", "zombie"},
         r.pid = task[t].pid, r.father = task[t].father,
         task' = [task EXCEPT ![t] = Ret(r)],
         last_pid' \in Pids, shell' \in 0 .. MaxPid
  PROVE  CalmStep /\ TableOK' /\ UniquePids' /\ FatherAlive' /\ ZombieNotMissed'
<1>1. Good(t, Ret(r)) /\ Ret(r).at \in {"user", "ret"} /\ Ret(r).pid = r.pid /\ Ret(r).father = r.father
  BY RetOK
<1>2. Ret(r) \in TaskRecords
  BY <1>1 DEF Good
<1>3. Calm(task[t], Ret(r))
  BY <1>1 DEF Calm
<1> QED
  BY <1>1, <1>2, <1>3, OneCalm

(* asked does not change, and nobody dies or is born.                      *)
LEMMA AskedKept ==
  ASSUME IInv, CalmStep, UNCHANGED asked
  PROVE  AskedOK'
  BY DEF IInv, AskedOK, CalmStep, Calm

(* A used slot and its record.                                             *)
LEMMA UserOK ==
  ASSUME IInv, NEW t \in Used
  PROVE  /\ t \in Slots /\ task[t] # NoTask /\ task[t] \in TaskRecords
         /\ Good(t, task[t]) /\ Plain(t, task[t])
  BY GoodIsPlain DEF IInv, TableOK, Used, Good

(* What kill() asked for stays pending when no signal is taken away.       *)
LEMMA ArriveKept ==
  ASSUME CalmStep, UNCHANGED asked,
         \A q \in Used : task[q].signal \subseteq task'[q].signal,
         SignalsArrive
  PROVE  SignalsArrive'
<1>1. Used' = Used
  BY DEF CalmStep, Used
<1> QED
  BY <1>1 DEF SignalsArrive

(* The whole of such a step, for one task and for many.                    *)
Keeps == IInv' /\ (SignalsArrive => SignalsArrive')

LEMMA CalmOK ==
  ASSUME IInv, CalmStep,
         task' \in [Slots -> TaskRecords \cup {NoTask}],
         \A q \in Used : Good(q, task'[q]),
         last_pid' \in Pids, shell' \in 0 .. MaxPid
  PROVE  TableOK' /\ UniquePids' /\ FatherAlive' /\ ZombieNotMissed'
<1>1. Used' = Used
  BY DEF CalmStep, Used
<1>2. task'[1] # NoTask
  BY SlotOne DEF CalmStep, IInv, TableOK
<1>3. TableOK'
  BY <1>1, <1>2 DEF TableOK
<1> QED
  BY <1>3, CalmKeepsFamily DEF IInv

LEMMA OneKeeps ==
  ASSUME IInv, NEW t \in Used, NEW r, Good(t, r), Calm(task[t], r),
         r.signal = task[t].signal,
         task' = [task EXCEPT ![t] = r],
         last_pid' \in Pids, shell' \in 0 .. MaxPid, UNCHANGED asked
  PROVE  Keeps
<1>1. r \in TaskRecords
  BY DEF Good
<1>2. CalmStep /\ TableOK' /\ UniquePids' /\ FatherAlive' /\ ZombieNotMissed'
  BY <1>1, OneCalm
<1>3. AskedOK'
  BY <1>2, AskedKept
<1>4. \A q \in Used : task[q].signal \subseteq task'[q].signal
  BY DEF IInv, TableOK, Used
<1> QED
  BY <1>2, <1>3, <1>4, ArriveKept DEF Keeps, IInv

LEMMA RetKeeps ==
  ASSUME IInv, NEW t \in Used, NEW r, Plain(t, r), task[t].at \notin {"exit", "zombie"},
         r.pid = task[t].pid, r.father = task[t].father, r.signal = task[t].signal,
         task' = [task EXCEPT ![t] = Ret(r)],
         last_pid' \in Pids, shell' \in 0 .. MaxPid, UNCHANGED asked
  PROVE  Keeps
<1>1. /\ Good(t, Ret(r)) /\ Ret(r).at \in {"user", "ret"} /\ Ret(r).pid = r.pid
      /\ Ret(r).father = r.father /\ Ret(r).signal = r.signal
  BY RetOK
<1>2. Calm(task[t], Ret(r))
  BY <1>1 DEF Calm
<1> QED
  BY <1>1, <1>2, OneKeeps

(* What an unchanged variable keeps.                                       *)
LEMMA SameCounters ==
  ASSUME IInv, UNCHANGED <<last_pid, shell, asked>>
  PROVE  last_pid' \in Pids /\ shell' \in 0 .. MaxPid /\ UNCHANGED asked
  BY DEF IInv, TableOK

-----------------------------------------------------------------------------
(* The calls of one task that leave its family alone.                      *)
LEMMA ForkFailsOK == ASSUME IInv, NEW t \in Slots, ForkFails(t) PROVE Keeps
<1>1. t \in Used /\ task[t].at = "user"
  BY DEF ForkFails, User
<1>2. Plain(t, task[t])
  BY <1>1, UserOK
<1>3. last_pid' \in Pids
  BY IInvType, NextPidFree DEF ForkFails, IInv
<1>4. shell' \in 0 .. MaxPid /\ UNCHANGED asked
  BY DEF ForkFails, IInv, TableOK
<1>5. task' = [task EXCEPT ![t] = Ret(task[t])]
  BY DEF ForkFails
<1> QED
  BY <1>1, <1>2, <1>3, <1>4, <1>5, RetKeeps

LEMMA PauseOK == ASSUME IInv, NEW t \in Slots, Pause(t) PROVE Keeps
<1>1. t \in Used /\ task[t].at = "user" /\ t # 1 /\ Good(t, task[t]) /\ task[t] \in TaskRecords
  BY UserOK DEF Pause, User
<1> DEFINE r == [task[t] EXCEPT !.at = "pause"]
<1>2. /\ r \in TaskRecords /\ r.at = "pause" /\ r.pid = task[t].pid /\ r.father = task[t].father
      /\ r.signal = task[t].signal /\ r.session = task[t].session
  BY <1>1 DEF TaskRecords
<1>3. task' = [task EXCEPT ![t] = r]
  BY DEF Pause
<1> HIDE DEF r
<1>4. Good(t, r) /\ Calm(task[t], r)
  BY <1>1, <1>2 DEF Good, Calm
<1>5. last_pid' \in Pids /\ shell' \in 0 .. MaxPid /\ UNCHANGED asked
  BY SameCounters DEF Pause
<1> QED
  BY <1>1, <1>2, <1>3, <1>4, <1>5, OneKeeps

LEMMA PauseWokenOK == ASSUME IInv, NEW t \in Slots, PauseWoken(t) PROVE Keeps
<1>1. t \in Used /\ task[t].at = "pause"
  BY DEF PauseWoken
<1>2. Plain(t, task[t])
  BY <1>1, UserOK
<1>3. last_pid' \in Pids /\ shell' \in 0 .. MaxPid /\ UNCHANGED asked
  BY SameCounters DEF PauseWoken
<1>4. task' = [task EXCEPT ![t] = Ret(task[t])]
  BY DEF PauseWoken
<1> QED
  BY <1>1, <1>2, <1>3, <1>4, RetKeeps

LEMMA TimerOK == ASSUME IInv, NEW t \in Slots, Timer(t) PROVE Keeps
<1>1. t \in Used /\ task[t].at = "user" /\ Good(t, task[t]) /\ task[t] \in TaskRecords
  BY UserOK DEF Timer, User
<1> DEFINE r == [task[t] EXCEPT !.at = "ret"]
<1>2. /\ r \in TaskRecords /\ r.at = "ret" /\ r.pid = task[t].pid /\ r.father = task[t].father
      /\ r.pgrp = task[t].pgrp /\ r.session = task[t].session
      /\ r.signal = task[t].signal /\ r.blocked = task[t].blocked
  BY <1>1 DEF TaskRecords
<1>3. task' = [task EXCEPT ![t] = r] /\ Deliverable(task[t]) # {}
  BY DEF Timer
<1> HIDE DEF r
<1>4. Good(t, r) /\ Calm(task[t], r)
  BY <1>1, <1>2, <1>3 DEF Good, Calm, Deliverable
<1>5. last_pid' \in Pids /\ shell' \in 0 .. MaxPid /\ UNCHANGED asked
  BY SameCounters DEF Timer
<1> QED
  BY <1>1, <1>2, <1>3, <1>4, <1>5, OneKeeps

LEMMA SignalOK == ASSUME IInv, NEW t \in Slots, NEW sig \in Signals, Signal(t, sig) PROVE Keeps
<1>1. t \in Used /\ task[t].at = "user" /\ t # 1 /\ Plain(t, task[t]) /\ task[t] \in TaskRecords
  BY UserOK DEF Signal, User
<1> DEFINE r == [task[t] EXCEPT !.caught = @ \cup {sig}]
<1>2. /\ r \in TaskRecords /\ r.pid = task[t].pid /\ r.father = task[t].father
      /\ r.session = task[t].session /\ r.signal = task[t].signal
  BY <1>1 DEF TaskRecords
<1>3. task' = [task EXCEPT ![t] = Ret(r)]
  BY DEF Signal
<1> HIDE DEF r
<1>4. Plain(t, r)
  BY <1>1, <1>2 DEF Plain
<1>5. last_pid' \in Pids /\ shell' \in 0 .. MaxPid /\ UNCHANGED asked
  BY SameCounters DEF Signal
<1> QED
  BY <1>1, <1>2, <1>3, <1>4, <1>5, RetKeeps

LEMMA SsetmaskOK ==
  ASSUME IInv, NEW t \in Slots, NEW newmask \in Masks, Ssetmask(t, newmask) PROVE Keeps
<1>1. t \in Used /\ task[t].at = "user" /\ t # 1 /\ Plain(t, task[t]) /\ task[t] \in TaskRecords
  BY UserOK DEF Ssetmask, User
<1> DEFINE r == [task[t] EXCEPT !.blocked = newmask \ {SIGKILL}]
<1>2. /\ r \in TaskRecords /\ r.pid = task[t].pid /\ r.father = task[t].father
      /\ r.session = task[t].session /\ r.signal = task[t].signal
  BY <1>1, MasksAssumption DEF TaskRecords
<1>3. task' = [task EXCEPT ![t] = Ret(r)]
  BY DEF Ssetmask
<1> HIDE DEF r
<1>4. Plain(t, r)
  BY <1>1, <1>2 DEF Plain
<1>5. last_pid' \in Pids /\ shell' \in 0 .. MaxPid /\ UNCHANGED asked
  BY SameCounters DEF Ssetmask
<1> QED
  BY <1>1, <1>2, <1>3, <1>4, <1>5, RetKeeps

LEMMA SetsidOK == ASSUME IInv, NEW t \in Slots, Setsid(t) PROVE Keeps
<1>1. t \in Used /\ task[t].at = "user" /\ t # 1 /\ Plain(t, task[t]) /\ task[t] \in TaskRecords
  BY UserOK DEF Setsid, User
<1> DEFINE r == [task[t] EXCEPT !.leader = TRUE, !.session = task[t].pid, !.pgrp = task[t].pid]
<1>0. task[t].pid \in 0 .. MaxPid /\ task[t].pid # 0
  BY <1>1, SizesAssumption DEF TaskRecords, Pids
<1>2. /\ r \in TaskRecords /\ r.pid = task[t].pid /\ r.father = task[t].father
      /\ r.session = task[t].pid /\ r.signal = task[t].signal
  BY <1>0, <1>1 DEF TaskRecords
<1>3. task' = [task EXCEPT ![t] = Ret(r)]
  BY DEF Setsid
<1> HIDE DEF r
<1>4. Plain(t, r)
  BY <1>0, <1>1, <1>2 DEF Plain
<1>5. last_pid' \in Pids /\ shell' \in 0 .. MaxPid /\ UNCHANGED asked
  BY SameCounters DEF Setsid
<1> QED
  BY <1>1, <1>2, <1>3, <1>4, <1>5, RetKeeps

(* sys_setpgid() never reaches init, which is in a session of its own.     *)
LEMMA SetpgidOK ==
  ASSUME IInv, NEW t \in Slots, NEW g \in GroupArgs, Setpgid(t, g[1], g[2])
  PROVE  Keeps
<1>0. g[1] \in 0 .. MaxPid /\ g[2] \in 0 .. MaxPid
  BY ArgsAssumption
<1>1. t \in Used /\ task[t].at = "user" /\ t # 1 /\ Good(t, task[t]) /\ task[t] \in TaskRecords
      /\ t \in Slots /\ task[t] # NoTask
  BY UserOK DEF Setpgid, User
<1>2. PICK q \in Used :
        /\ task[q].session = task[t].session
        /\ LET tab == [task EXCEPT ![q].pgrp = IF g[2] = 0 THEN task[t].pid ELSE g[2]]
           IN  task' = [tab EXCEPT ![t] = Ret(tab[t])]
  BY DEF Setpgid
<1>3. PICK v \in 0 .. MaxPid :
        LET tab == [task EXCEPT ![q].pgrp = v]
        IN  task' = [tab EXCEPT ![t] = Ret(tab[t])]
  <2>1. task[t].pid \in 0 .. MaxPid
    BY <1>1, SizesAssumption DEF TaskRecords, Pids
  <2> QED
    BY <1>0, <1>2, <2>1
<1>4. q # 1 /\ Good(q, task[q]) /\ task[q] \in TaskRecords /\ q \in Slots /\ task[q] # NoTask
  BY <1>1, <1>2, UserOK DEF Good
<1> DEFINE s(x) == IF x = q THEN [task[x] EXCEPT !.pgrp = v] ELSE task[x]
<1>5. ASSUME NEW x \in Used
      PROVE  /\ s(x) \in TaskRecords /\ s(x).pid = task[x].pid /\ s(x).father = task[x].father
             /\ s(x).signal = task[x].signal /\ s(x).session = task[x].session
             /\ s(x).at = task[x].at /\ s(x).want = task[x].want
             /\ s(x).blocked = task[x].blocked
             /\ x = 1 => s(x) = task[x]
  <2>1. task[x] \in TaskRecords
    BY UserOK
  <2> QED
    BY <1>4, <2>1 DEF TaskRecords
<1>6. task \in [Slots -> TaskRecords \cup {NoTask}]
  BY DEF IInv, TableOK
<1>7. /\ task' \in [Slots -> TaskRecords \cup {NoTask}]
      /\ task'[t] = Ret(s(t))
      /\ \A x \in Slots \ {t} : task'[x] = s(x)
  <2>1. DOMAIN task' = Slots
    BY <1>3, <1>6
  <2>2. task'[t] = Ret(s(t)) /\ \A x \in Slots \ {t} : task'[x] = s(x)
    <3> DEFINE tab == [task EXCEPT ![q].pgrp = v]
    <3>1. DOMAIN tab = Slots /\ \A x \in Slots : tab[x] = s(x)
      BY <1>4, <1>6
    <3>2. task' = [tab EXCEPT ![t] = Ret(tab[t])]
      BY <1>3
    <3> HIDE DEF tab, s
    <3> QED
      BY <3>1, <3>2
  <2>3. Plain(t, s(t))
    BY <1>1, <1>5 DEF Good, Plain
  <2>4. Ret(s(t)) \in TaskRecords
    <3> HIDE DEF s
    <3> QED
      BY <2>3, RetOK DEF Good
  <2>5. \A x \in Slots : task'[x] \in TaskRecords \cup {NoTask}
    <3> SUFFICES ASSUME NEW x \in Slots, x # t PROVE s(x) \in TaskRecords \cup {NoTask}
      BY <2>2, <2>4
    <3>1. CASE x \in Used
      BY <1>5, <3>1
    <3>2. CASE x \notin Used
      BY <1>4, <3>2 DEF Used
    <3> QED
      BY <3>1, <3>2
  <2>6. task' = [x \in Slots |-> task'[x]]
    BY <1>3, <1>6
  <2> QED
    BY <2>2, <2>5, <2>6
<1> HIDE DEF s
<1>8. Plain(t, s(t))
  BY <1>1, <1>5 DEF Good, Plain
<1>9. ASSUME NEW x \in Used
      PROVE  /\ Good(x, task'[x]) /\ Calm(task[x], task'[x])
             /\ task'[x].signal = task[x].signal
  <2>1. CASE x = t
    BY <1>1, <1>5, <1>7, <1>8, <2>1, RetOK DEF Calm
  <2>2. CASE x # t
    <3>1. x \in Slots /\ Good(x, task[x])
      BY UserOK
    <3>2. task'[x] = s(x)
      BY <1>7, <2>2, <3>1
    <3> QED
      BY <1>5, <3>1, <3>2 DEF Good, Calm, Deliverable
  <2> QED
    BY <2>1, <2>2
<1>10. CalmStep
  <2> SUFFICES ASSUME NEW x \in Slots
               PROVE  \/ task[x] = NoTask /\ task'[x] = NoTask
                      \/ task[x] # NoTask /\ task'[x] # NoTask /\ Calm(task[x], task'[x])
    BY DEF CalmStep
  <2>1. CASE x \in Used
    BY <1>9, <2>1, NoTaskAssumption DEF Used, Good
  <2>2. CASE x \notin Used
    <3>1. task[x] = NoTask /\ x # t /\ x # q
      BY <1>1, <2>2 DEF Used
    <3> QED
      BY <1>7, <3>1 DEF s
  <2> QED
    BY <2>1, <2>2
<1>11. last_pid' \in Pids /\ shell' \in 0 .. MaxPid /\ UNCHANGED asked
  BY SameCounters DEF Setpgid
<1>12. TableOK' /\ UniquePids' /\ FatherAlive' /\ ZombieNotMissed'
  BY <1>7, <1>9, <1>10, <1>11, CalmOK
<1>13. AskedOK'
  BY <1>10, <1>11, AskedKept
<1> QED
  BY <1>9, <1>10, <1>11, <1>12, <1>13, ArriveKept DEF Keeps, IInv

-----------------------------------------------------------------------------
(* Signals to many.                                                        *)
GoodTable(tab) ==
  /\ tab \in [Slots -> TaskRecords \cup {NoTask}]
  /\ \A x \in Slots : tab[x] # NoTask => Good(x, tab[x])

LEMMA SignalAllOK ==
  ASSUME NEW tab, GoodTable(tab), NEW sig \in Signals, NEW T,
         \A x \in T : x \in Slots /\ tab[x] # NoTask /\ (x = 1 => sig = SIGCHLD)
  PROVE  /\ GoodTable(SignalAll(tab, T, sig))
         /\ \A x \in Slots : tab[x] = NoTask => SignalAll(tab, T, sig)[x] = NoTask
         /\ \A x \in Slots \ T : SignalAll(tab, T, sig)[x] = tab[x]
         /\ \A x \in Slots : tab[x] # NoTask =>
              /\ SignalAll(tab, T, sig)[x] # NoTask
              /\ Calm(tab[x], SignalAll(tab, T, sig)[x])
              /\ tab[x].signal \subseteq SignalAll(tab, T, sig)[x].signal
              /\ x \in T /\ tab[x].at \notin {"exit", "zombie"} =>
                   sig \in SignalAll(tab, T, sig)[x].signal
              /\ tab[x].at \in {"exit", "zombie"} => SignalAll(tab, T, sig)[x] = tab[x]
<1> DEFINE new == SignalAll(tab, T, sig)
<1>1. new = [x \in Slots |-> IF x \in T THEN WithSignal(tab[x], sig) ELSE tab[x]]
  BY DEF SignalAll
<1> HIDE DEF new
<1>2. ASSUME NEW x \in Slots, tab[x] = NoTask PROVE new[x] = NoTask /\ x \notin T
  BY <1>1, <1>2
<1>3. ASSUME NEW x \in Slots, x \notin T PROVE new[x] = tab[x]
  BY <1>1, <1>3
<1>4. ASSUME NEW x \in Slots, tab[x] # NoTask
      PROVE  /\ new[x] # NoTask /\ new[x] \in TaskRecords
             /\ Good(x, new[x])
             /\ Calm(tab[x], new[x])
             /\ tab[x].signal \subseteq new[x].signal
             /\ x \in T /\ tab[x].at \notin {"exit", "zombie"} => sig \in new[x].signal
             /\ tab[x].at \in {"exit", "zombie"} => new[x] = tab[x]
  <2>1. Good(x, tab[x])
    BY <1>4 DEF GoodTable
  <2>2. CASE x \in T
    <3>1. new[x] = WithSignal(tab[x], sig)
      BY <1>1, <2>2
    <3>2. x = 1 => sig = SIGCHLD
      BY <2>2
    <3>3. /\ Good(x, new[x])
          /\ Calm(tab[x], new[x])
          /\ tab[x].signal \subseteq new[x].signal
          /\ tab[x].at \notin {"exit", "zombie"} => sig \in new[x].signal
          /\ tab[x].at \in {"exit", "zombie"} => new[x] = tab[x]
      BY <2>1, <3>1, <3>2, WithSignalOK
    <3> QED
      BY <3>3, NoTaskAssumption DEF Good
  <2>3. CASE x \notin T
    <3>1. new[x] = tab[x]
      BY <1>3, <2>3
    <3>2. Calm(tab[x], tab[x])
      BY DEF Calm
    <3> QED
      BY <1>4, <2>1, <2>3, <3>1, <3>2 DEF Good
  <2> QED
    BY <2>2, <2>3
<1>5. GoodTable(new)
  <2>1. ASSUME NEW x \in Slots PROVE new[x] \in TaskRecords \cup {NoTask}
    BY <1>2, <1>4
  <2>2. new = [x \in Slots |-> new[x]]
    BY <1>1
  <2>3. new \in [Slots -> TaskRecords \cup {NoTask}]
    BY <2>1, <2>2
  <2>4. \A x \in Slots : new[x] # NoTask => Good(x, new[x])
    BY <1>2, <1>4
  <2> QED
    BY <2>3, <2>4 DEF GoodTable
<1> QED
  BY <1>2, <1>3, <1>4, <1>5 DEF new

LEMMA TableIsGood == ASSUME IInv PROVE GoodTable(task)
  BY DEF IInv, TableOK, GoodTable, Used

(* kill() cannot reach init: no process is in its group, and only the      *)
(* superuser may name it.                                                  *)
LEMMA KillNotInit ==
  ASSUME IInv, NEW t \in Used, t # 1, NEW pid
  PROVE  \A q \in KillTargets(t, pid) : q \in Used /\ q # 1
<1>1. Good(t, task[t]) /\ Good(1, task[1])
  BY SlotOne DEF IInv, TableOK, Used
<1>2. task[1].pgrp = 0 /\ task[t].pid # 0
  BY <1>1, SizesAssumption DEF Good, TaskRecords, Pids
<1> QED
  BY <1>2 DEF KillTargets, MaySignal

(* kill() without the arguments that sys_kill() drops loses no signal.     *)
LEMMA KillOK ==
  ASSUME IInv, NEW t \in Slots, NEW pid, NEW sig \in Signals, Kill(t, pid, sig)
  PROVE  IInv' /\ (SignalsArrive /\ KillMeans(t, pid) = KillTargets(t, pid) => SignalsArrive')
<1>1. t \in Used /\ task[t].at = "user" /\ t # 1 /\ Good(t, task[t]) /\ task[t] \in TaskRecords
      /\ task[t] # NoTask
  BY UserOK DEF Kill, User
<1> DEFINE T == KillTargets(t, pid)
           tab == SignalAll(task, T, sig)
<1>2. \A x \in T : x \in Slots /\ task[x] # NoTask /\ x # 1
  BY <1>1, KillNotInit DEF Used
<1>3. task' = [tab EXCEPT ![t] = Ret(tab[t])]
  BY DEF Kill
<1> HIDE DEF T
<1>4. /\ GoodTable(tab)
      /\ \A x \in Slots : task[x] = NoTask => tab[x] = NoTask
      /\ \A x \in Slots : task[x] # NoTask =>
              /\ tab[x] # NoTask
              /\ Calm(task[x], tab[x])
              /\ task[x].signal \subseteq tab[x].signal
              /\ x \in T /\ task[x].at \notin {"exit", "zombie"} => sig \in tab[x].signal
  BY <1>2, SignalAllOK, TableIsGood
<1> HIDE DEF tab
<1>5. Good(t, tab[t]) /\ Plain(t, tab[t])
  BY <1>1, <1>4, GoodIsPlain DEF GoodTable
<1>6. /\ Good(t, Ret(tab[t]))
      /\ Ret(tab[t]).at \in {"user", "ret"}
      /\ Ret(tab[t]).pid = tab[t].pid /\ Ret(tab[t]).father = tab[t].father
      /\ Ret(tab[t]).signal = tab[t].signal
  BY <1>5, RetOK
<1>7. Calm(task[t], Ret(tab[t])) /\ Ret(tab[t]) \in TaskRecords
  BY <1>1, <1>4, <1>6 DEF Calm, Good
<1>8. tab \in [Slots -> TaskRecords \cup {NoTask}]
  BY <1>4 DEF GoodTable
<1>9. /\ task' \in [Slots -> TaskRecords \cup {NoTask}]
      /\ task'[t] = Ret(tab[t])
      /\ \A x \in Slots \ {t} : task'[x] = tab[x]
  BY <1>3, <1>7, <1>8
<1>10. ASSUME NEW x \in Used
       PROVE  /\ x \in Slots /\ task'[x] # NoTask
              /\ Good(x, task'[x]) /\ Calm(task[x], task'[x])
              /\ task[x].signal \subseteq task'[x].signal
              /\ x \in T /\ task[x].at \notin {"exit", "zombie"} => sig \in task'[x].signal
  <2>1. x \in Slots /\ task[x] # NoTask
    BY DEF Used
  <2>2. CASE x = t
    BY <1>4, <1>6, <1>7, <1>9, <2>1, <2>2, NoTaskAssumption
  <2>3. CASE x # t
    BY <1>4, <1>9, <2>1, <2>3 DEF GoodTable
  <2> QED
    BY <2>2, <2>3
<1>11. CalmStep
  <2> SUFFICES ASSUME NEW x \in Slots, task[x] = NoTask PROVE task'[x] = NoTask
    BY <1>10 DEF CalmStep, Used
  <2> QED
    BY <1>1, <1>4, <1>9
<1>12. last_pid' \in Pids /\ shell' \in 0 .. MaxPid
  BY DEF Kill, IInv, TableOK
<1>13. TableOK' /\ UniquePids' /\ FatherAlive' /\ ZombieNotMissed'
  BY <1>9, <1>10, <1>11, <1>12, CalmOK
<1>14. asked' = [q \in Slots |->
                 IF q \in KillMeans(t, pid) /\ task[q].at \notin {"exit", "zombie"}
                 THEN asked[q] \cup {sig} ELSE asked[q]]
  BY DEF Kill
<1>15. \A q \in KillMeans(t, pid) : q \in Used
  BY <1>1, KillNotInit DEF KillMeans
<1>16. AskedOK'
  <2>1. asked \in [Slots -> SUBSET Signals]
    BY DEF IInv, AskedOK
  <2>2. asked' \in [Slots -> SUBSET Signals]
    BY <1>14, <2>1
  <2>3. ASSUME NEW q \in Slots, task'[q] = NoTask \/ task'[q].at \in {"exit", "zombie"}
        PROVE  asked'[q] = {}
    <3>1. CASE task[q] = NoTask
      <4>1. asked[q] = {} /\ q \notin KillMeans(t, pid)
        BY <1>15, <3>1 DEF IInv, AskedOK, Used
      <4> QED
        BY <1>14, <4>1
    <3>2. CASE task[q] # NoTask
      <4>1. task[q].at \in {"exit", "zombie"}
        BY <1>10, <2>3, <3>2 DEF Used, Calm
      <4>2. asked[q] = {}
        BY <4>1 DEF IInv, AskedOK
      <4> QED
        BY <1>14, <4>1, <4>2
    <3> QED
      BY <3>1, <3>2
  <2> QED
    BY <2>2, <2>3 DEF AskedOK
<1>17. ASSUME SignalsArrive, KillMeans(t, pid) = T PROVE SignalsArrive'
  <2>1. Used' = Used
    BY <1>11 DEF CalmStep, Used
  <2>2. ASSUME NEW q \in Used PROVE asked'[q] \subseteq task'[q].signal
    BY <1>10, <1>14, <1>17 DEF SignalsArrive
  <2> QED
    BY <2>1, <2>2 DEF SignalsArrive
<1> QED
  BY <1>13, <1>16, <1>17 DEF IInv, T

-----------------------------------------------------------------------------
(* Exit: the children go to init.                                          *)
Mine(tab, t) == {q \in Slots : tab[q] # NoTask /\ tab[q].father = tab[t].pid}

LEMMA AdoptOK ==
  ASSUME NEW tab, GoodTable(tab), NEW t \in Slots, tab[1] # NoTask
  PROVE  /\ GoodTable(Adopt(tab, t))
         /\ \A q \in Slots : tab[q] = NoTask => Adopt(tab, t)[q] = NoTask
         /\ \A q \in Slots : tab[q] # NoTask =>
              /\ Adopt(tab, t)[q] # NoTask /\ Adopt(tab, t)[q].pid = tab[q].pid
              /\ Adopt(tab, t)[q].father = IF q \in Mine(tab, t) THEN 1 ELSE tab[q].father
              /\ Adopt(tab, t)[q].at \in {"exit", "zombie"} => tab[q].at = Adopt(tab, t)[q].at
              /\ tab[q].at \in {"exit", "zombie"} => tab[q].at = Adopt(tab, t)[q].at
              /\ Adopt(tab, t)[q].at = "wait" => tab[q].at = "wait" /\ tab[q].want = Adopt(tab, t)[q].want
              /\ tab[q].signal \subseteq Adopt(tab, t)[q].signal
         /\ \A q \in Mine(tab, t) :
              tab[q].at = "zombie" /\ tab[1].at \notin {"exit", "zombie"}
                => SIGCHLD \in Adopt(tab, t)[1].signal
<1> DEFINE mine == Mine(tab, t)
           dead == {q \in mine : tab[q].at = "zombie"}
           moved == [q \in Slots |-> IF q \in mine
                                THEN [tab[q] EXCEPT !.father = 1] ELSE tab[q]]
           new == Adopt(tab, t)
<1>1. new = IF dead = {} THEN moved ELSE SignalAll(moved, {1}, SIGCHLD)
  BY DEF Adopt, Mine
<1>2. mine \subseteq Slots /\ \A q \in mine : tab[q] # NoTask
  BY DEF Mine
<1>3. 1 \in Slots /\ 1 \in 0 .. MaxPid
  BY SlotOne, SizesAssumption
<1> HIDE DEF mine, new
<1>4. ASSUME NEW q \in Slots, tab[q] # NoTask
      PROVE  /\ moved[q] \in TaskRecords /\ moved[q] # NoTask /\ Good(q, moved[q])
             /\ moved[q].pid = tab[q].pid
             /\ moved[q].father = IF q \in mine THEN 1 ELSE tab[q].father
             /\ moved[q].at = tab[q].at /\ moved[q].want = tab[q].want
             /\ moved[q].signal = tab[q].signal
  <2>1. Good(q, tab[q]) /\ tab[q] \in TaskRecords
    BY <1>4 DEF GoodTable, Good
  <2>2. CASE q \in mine
    <3> DEFINE m == [tab[q] EXCEPT !.father = 1]
    <3>1. moved[q] = m
      BY <2>2
    <3>2. /\ m \in TaskRecords /\ m.pid = tab[q].pid /\ m.father = 1 /\ m.at = tab[q].at
          /\ m.want = tab[q].want /\ m.signal = tab[q].signal /\ m.blocked = tab[q].blocked
          /\ m.pgrp = tab[q].pgrp /\ m.session = tab[q].session
      BY <1>3, <2>1 DEF TaskRecords
    <3> HIDE DEF m, moved
    <3>3. Good(q, m) /\ m # NoTask
      BY <2>1, <3>2, NoTaskAssumption DEF Good, Deliverable
    <3> QED
      BY <2>2, <3>1, <3>2, <3>3
  <2>3. CASE q \notin mine
    BY <1>4, <2>1, <2>3
  <2> QED
    BY <2>2, <2>3
<1>5. \A q \in Slots : tab[q] = NoTask => moved[q] = NoTask
  BY <1>2
<1>6. GoodTable(moved)
  <2>1. \A q \in Slots : moved[q] \in TaskRecords \cup {NoTask}
    BY <1>4, <1>5
  <2>2. moved \in [Slots -> TaskRecords \cup {NoTask}]
    BY <2>1
  <2> QED
    BY <1>4, <1>5, <2>2 DEF GoodTable
<1>7. moved[1] # NoTask
  BY <1>3, <1>4
<1>8. CASE dead = {}
  <2>1. new = moved
    BY <1>1, <1>8
  <2>2. \A q \in mine : tab[q].at # "zombie"
    BY <1>8
  <2> HIDE DEF moved, dead
  <2> QED
    BY <1>4, <1>5, <1>6, <2>1, <2>2 DEF mine, new
<1>9. CASE dead # {}
  <2>1. new = SignalAll(moved, {1}, SIGCHLD)
    BY <1>1, <1>9
  <2> HIDE DEF moved, dead
  <2>2. SIGCHLD \in Signals
    BY DEF Signals
  <2>3. \A x \in {1} : x \in Slots /\ moved[x] # NoTask /\ (x = 1 => SIGCHLD = SIGCHLD)
    BY <1>3, <1>7
  <2>4. /\ GoodTable(new)
        /\ \A x \in Slots : moved[x] = NoTask => new[x] = NoTask
        /\ \A x \in Slots : moved[x] # NoTask =>
              /\ new[x] # NoTask
              /\ Calm(moved[x], new[x])
              /\ moved[x].signal \subseteq new[x].signal
              /\ x \in {1} /\ moved[x].at \notin {"exit", "zombie"} => SIGCHLD \in new[x].signal
              /\ moved[x].at \in {"exit", "zombie"} => new[x] = moved[x]
    BY <1>6, <2>1, <2>2, <2>3, SignalAllOK
  <2>5. ASSUME NEW q \in Slots, tab[q] # NoTask
        PROVE  /\ new[q] # NoTask /\ new[q].pid = tab[q].pid
               /\ new[q].father = IF q \in mine THEN 1 ELSE tab[q].father
               /\ new[q].at \in {"exit", "zombie"} => tab[q].at = new[q].at
               /\ tab[q].at \in {"exit", "zombie"} => tab[q].at = new[q].at
               /\ new[q].at = "wait" => tab[q].at = "wait" /\ tab[q].want = new[q].want
               /\ tab[q].signal \subseteq new[q].signal
    BY <1>4, <2>4, <2>5 DEF Calm
  <2>6. tab[1].at \notin {"exit", "zombie"} => SIGCHLD \in new[1].signal
    BY <1>3, <1>4, <1>7, <2>4
  <2> QED
    BY <1>5, <2>4, <2>5, <2>6 DEF mine, new
<1> QED
  BY <1>8, <1>9

(* Init is alive.                                                          *)
LEMMA InitAlive ==
  ASSUME IInv
  PROVE  /\ 1 \in Slots /\ 1 \in Used /\ task[1] # NoTask /\ task[1].pid = 1
         /\ task[1].at \notin {"exit", "zombie"}
         /\ \A q \in Used : task[q].pid = 1 => q = 1
<1>1. 1 \in Slots /\ 1 \in Used /\ task[1] # NoTask
  BY SlotOne DEF IInv, TableOK, Used
<1>2. task[1].pid = 1 /\ task[1].at \notin {"exit", "zombie"}
  BY <1>1, UserOK DEF Good
<1> QED
  BY <1>1, <1>2 DEF IInv, UniquePids

(* do_exit() up to its sleeps.                                             *)
LEMMA ExitFromOK ==
  ASSUME IInv, NEW t \in Used, t # 1, task[t].at \notin {"exit", "zombie"},
         NEW r, Good(t, r), r.at = "user", r.pid = task[t].pid, r.father = task[t].father,
         NEW tab, tab = [task EXCEPT ![t] = r], ExitFrom(tab, t)
  PROVE  Keeps
<1> DEFINE A == Adopt(tab, t)
           e == [A[t] EXCEPT !.at = "exit", !.signal = {}, !.blocked = {}, !.caught = {}]
<1>1. t \in Slots /\ task[t] # NoTask /\ r \in TaskRecords /\ r # NoTask
  BY NoTaskAssumption DEF Used, Good
<1>2. task \in [Slots -> TaskRecords \cup {NoTask}]
  BY DEF IInv, TableOK
<1>3. tab[t] = r /\ \A q \in Slots \ {t} : tab[q] = task[q]
  BY <1>1, <1>2
<1>4. GoodTable(tab)
  <2>1. tab \in [Slots -> TaskRecords \cup {NoTask}]
    BY <1>1, <1>2
  <2>2. \A x \in Slots : tab[x] # NoTask => Good(x, tab[x])
    BY <1>3 DEF IInv, TableOK, Used
  <2> QED
    BY <2>1, <2>2 DEF GoodTable
<1>5. \A q \in Slots : /\ tab[q] # NoTask <=> q \in Used
                       /\ q \in Used => /\ tab[q].pid = task[q].pid /\ tab[q].father = task[q].father
                       /\ q # t => tab[q] = task[q]
  BY <1>1, <1>3 DEF Used
<1>6. task' = [A EXCEPT ![t] = e] /\ asked' = [asked EXCEPT ![t] = {}] /\ UNCHANGED <<last_pid, shell>>
  BY DEF ExitFrom
<1>7. tab[1] # NoTask /\ tab[1] = task[1]
  BY <1>3, InitAlive
<1>8. /\ GoodTable(A)
      /\ \A q \in Slots : tab[q] = NoTask => A[q] = NoTask
      /\ \A q \in Slots : tab[q] # NoTask =>
              /\ A[q] # NoTask /\ A[q].pid = tab[q].pid
              /\ A[q].father = IF q \in Mine(tab, t) THEN 1 ELSE tab[q].father
              /\ A[q].at \in {"exit", "zombie"} => tab[q].at = A[q].at
              /\ tab[q].at \in {"exit", "zombie"} => tab[q].at = A[q].at
              /\ A[q].at = "wait" => tab[q].at = "wait" /\ tab[q].want = A[q].want
              /\ tab[q].signal \subseteq A[q].signal
      /\ \A q \in Mine(tab, t) :
              tab[q].at = "zombie" /\ tab[1].at \notin {"exit", "zombie"}
                => SIGCHLD \in A[1].signal
  BY ONLY <1>1, <1>4, <1>7, AdoptOK, ZenonT(30)
<1> HIDE DEF A
<1>9. A \in [Slots -> TaskRecords \cup {NoTask}] /\ A[t] # NoTask /\ Good(t, A[t]) /\ A[t] \in TaskRecords
  BY <1>1, <1>3, <1>8 DEF GoodTable, Good
<1>10. /\ e \in TaskRecords /\ e # NoTask /\ e.pid = A[t].pid /\ e.father = A[t].father
       /\ e.at = "exit" /\ e.session = A[t].session /\ e.signal = {}
  <2>1. e \in TaskRecords
    BY <1>9 DEF TaskRecords
  <2> QED
    BY <1>9, <2>1, NoTaskAssumption DEF TaskRecords
<1> HIDE DEF e
<1>11. /\ task' \in [Slots -> TaskRecords \cup {NoTask}]
       /\ task'[t] = e /\ \A q \in Slots \ {t} : task'[q] = A[q]
  BY <1>1, <1>6, <1>9, <1>10
<1>12. Used' = Used
  BY <1>1, <1>5, <1>8, <1>10, <1>11 DEF Used
<1>13. \A q \in Used : /\ task'[q].pid = task[q].pid
                       /\ task'[q].father = IF q \in Mine(tab, t) THEN 1 ELSE task[q].father
  <2> SUFFICES ASSUME NEW q \in Used
               PROVE  /\ task'[q].pid = task[q].pid
                      /\ task'[q].father = IF q \in Mine(tab, t) THEN 1 ELSE task[q].father
    OBVIOUS
  <2>1. /\ q \in Slots /\ tab[q] # NoTask
        /\ tab[q].pid = task[q].pid /\ tab[q].father = task[q].father
    BY <1>5 DEF Used
  <2>2. A[q].pid = task[q].pid /\ A[q].father = IF q \in Mine(tab, t) THEN 1 ELSE task[q].father
    BY <1>8, <2>1
  <2>3. task'[q].pid = A[q].pid /\ task'[q].father = A[q].father
    BY <1>10, <1>11, <2>1
  <2> QED
    BY <2>2, <2>3
<1>14. \A q \in Used \ {t} :
         /\ task'[q].at \in {"exit", "zombie"} => task[q].at = task'[q].at
         /\ task'[q].at = "wait" => task[q].at = "wait" /\ task[q].want = task'[q].want
         /\ task[q].signal \subseteq task'[q].signal
         /\ Good(q, task'[q])
  BY <1>5, <1>8, <1>11 DEF Used, GoodTable
<1>15. Good(t, e)
  BY <1>9, <1>10 DEF Good
<1>16. TableOK'
  <2>1. last_pid' \in Pids /\ shell' \in 0 .. MaxPid
    BY <1>6 DEF IInv, TableOK
  <2>2. task'[1] # NoTask
    BY <1>12, InitAlive DEF Used
  <2>3. \A q \in Used' : Good(q, task'[q])
    BY <1>11, <1>12, <1>14, <1>15
  <2> QED
    BY <1>11, <2>1, <2>2, <2>3 DEF TableOK
<1>17. UniquePids'
  BY <1>12, <1>13 DEF UniquePids, IInv
<1>18. \A q \in Used : q \in Mine(tab, t) <=> task[q].father = task[t].pid
  BY <1>1, <1>5 DEF Mine, Used
<1>19. FatherAlive'
  <2> SUFFICES ASSUME NEW q \in Used, q # 1
               PROVE  \E f \in Used : /\ task'[f].pid = task'[q].father
                                      /\ task'[f].at \notin {"exit", "zombie"}
    BY <1>12 DEF FatherAlive
  <2>1. CASE q \in Mine(tab, t)
    <3>1. task'[q].father = 1 /\ task'[1].pid = 1
      BY <1>13, <2>1, InitAlive
    <3>2. task'[1].at \notin {"exit", "zombie"}
      BY <1>14, InitAlive
    <3> QED
      BY <3>1, <3>2, InitAlive
  <2>2. CASE q \notin Mine(tab, t)
    <3>1. PICK f \in Used : task[f].pid = task[q].father /\ task[f].at \notin {"exit", "zombie"}
      BY DEF IInv, FatherAlive
    <3>2. f # t
      BY <1>18, <2>2, <3>1
    <3> QED
      BY <1>13, <1>14, <2>2, <3>1, <3>2
  <2> QED
    BY <2>1, <2>2
<1>20. ZombieNotMissed'
  <2> SUFFICES ASSUME NEW w \in Used, task'[w].at = "wait",
                      task'[w].want > 0 \/ task'[w].want = -1,
                      NEW c \in Zombies(task', w, task'[w].want)
               PROVE  SIGCHLD \in task'[w].signal
    BY <1>12 DEF ZombieNotMissed, Zombies, Children
  <2>1. /\ c \in Slots \ {w} /\ task'[c] # NoTask /\ task'[c].father = task'[w].pid
        /\ task'[w].want > 0 => task'[c].pid = task'[w].want
        /\ task'[c].at = "zombie"
    BY DEF Zombies, Children
  <2>2. c \in Used /\ c # t /\ w # t
    BY <1>10, <1>11, <1>12, <2>1 DEF Used
  <2>3. /\ task[w].at = "wait" /\ task[w].want = task'[w].want /\ task[c].at = "zombie"
        /\ task[w].signal \subseteq task'[w].signal /\ task[c].pid = task'[c].pid
        /\ task[w].pid = task'[w].pid
    BY <1>13, <1>14, <2>1, <2>2
  <2>4. CASE c \in Mine(tab, t)
    <3>1. w = 1
      BY <1>13, <2>1, <2>2, <2>3, <2>4, InitAlive
    <3>2. tab[c].at = "zombie" /\ tab[1].at \notin {"exit", "zombie"}
      BY <1>5, <1>7, <2>1, <2>2, <2>3, InitAlive
    <3>3. SIGCHLD \in A[1].signal
      BY <1>8, <2>4, <3>2
    <3> QED
      BY <1>11, <3>1, <3>3, InitAlive
  <2>5. CASE c \notin Mine(tab, t)
    <3>1. task[c].father = task[w].pid
      BY <1>13, <2>1, <2>2, <2>3, <2>5
    <3>2. task[w].want \in Int
      BY UserOK, SizesAssumption DEF TaskRecords
    <3>3. c \in Zombies(task, w, task[w].want)
      BY <2>1, <2>2, <2>3, <3>1, <3>2 DEF Zombies, Children, Used
    <3> QED
      BY <2>3, <3>3 DEF IInv, ZombieNotMissed
  <2> QED
    BY <2>4, <2>5
<1>21. AskedOK'
  <2>1. asked \in [Slots -> SUBSET Signals]
    BY DEF IInv, AskedOK
  <2>2. asked' \in [Slots -> SUBSET Signals]
    BY <1>6, <2>1
  <2>3. ASSUME NEW q \in Slots, task'[q] = NoTask \/ task'[q].at \in {"exit", "zombie"}
        PROVE  asked'[q] = {}
    <3>1. CASE q = t
      BY <1>6, <2>1, <3>1
    <3>2. CASE q # t
      <4>1. task[q] = NoTask \/ task[q].at \in {"exit", "zombie"}
        BY <1>12, <1>14, <2>3, <3>2 DEF Used
      <4> QED
        BY <1>6, <2>1, <3>2, <4>1 DEF IInv, AskedOK
    <3> QED
      BY <3>1, <3>2
  <2> QED
    BY <2>2, <2>3 DEF AskedOK
<1>22. ASSUME SignalsArrive PROVE SignalsArrive'
  <2>1. ASSUME NEW q \in Used PROVE asked'[q] \subseteq task'[q].signal
    <3>1. asked \in [Slots -> SUBSET Signals] /\ q \in Slots
      BY DEF IInv, AskedOK, Used
    <3>2. CASE q = t
      BY <1>6, <3>1, <3>2
    <3>3. CASE q # t
      BY <1>6, <1>14, <1>22, <3>1, <3>3 DEF SignalsArrive
    <3> QED
      BY <3>2, <3>3
  <2> QED
    BY <1>12, <2>1 DEF SignalsArrive
<1> QED
  BY <1>16, <1>17, <1>19, <1>20, <1>21, <1>22 DEF Keeps, IInv

LEMMA ExitOK == ASSUME IInv, NEW t \in Slots, Exit(t) PROVE Keeps
<1>1. t \in Used /\ task[t].at = "user" /\ t # 1 /\ ExitFrom(task, t)
  BY DEF Exit, User
<1>2. Good(t, task[t])
  BY <1>1, UserOK
<1>3. task = [task EXCEPT ![t] = task[t]]
  BY DEF IInv, TableOK
<1> QED
  BY <1>1, <1>2, <1>3, ExitFromOK

(* ret_from_sys_call.                                                      *)
LEMMA ReturnOK == ASSUME IInv, NEW t \in Slots, Return(t) PROVE Keeps
<1> DEFINE sig == Lowest(Deliverable(task[t]))
           r == [task[t] EXCEPT !.signal = task[t].signal \ {sig}, !.at = "user"]
           r2 == [task[t] EXCEPT !.signal = task[t].signal \ {sig}, !.at = "user",
                                 !.caught = task[t].caught \ {sig}]
           tab == [task EXCEPT ![t].signal = @ \ {sig}, ![t].at = "user"]
<1>1. /\ t \in Used /\ task[t].at = "ret" /\ task[t] # NoTask
      /\ Good(t, task[t]) /\ task[t] \in TaskRecords
  BY UserOK DEF Return
<1>2. task \in [Slots -> TaskRecords \cup {NoTask}] /\ asked \in [Slots -> SUBSET Signals]
  BY DEF IInv, TableOK, AskedOK
<1>3. sig \in Deliverable(task[t])
  <2>1. Deliverable(task[t]) # {}
    BY <1>1 DEF Good
  <2>2. Deliverable(task[t]) \in SUBSET Nat
    BY <1>1 DEF Deliverable, TaskRecords, Signals, SIGHUP, SIGKILL, SIGCHLD
  <2> QED
    BY <2>1, <2>2, HasLeast DEF Lowest
<1>4. /\ sig \notin task[t].caught /\ sig # SIGCHLD => ExitFrom(tab, t)
      /\ ~(sig \notin task[t].caught /\ sig # SIGCHLD) =>
           /\ task' = [tab EXCEPT ![t].caught = @ \ {sig}]
           /\ asked' = [asked EXCEPT ![t] = @ \ {sig}]
           /\ UNCHANGED <<last_pid, shell>>
  BY DEF Return
<1> HIDE DEF sig
<1>5. t = 1 => sig = SIGCHLD
  BY <1>1, <1>3 DEF Good, Deliverable
<1>6. /\ r \in TaskRecords /\ r.at = "user" /\ r.pid = task[t].pid /\ r.father = task[t].father
      /\ r.session = task[t].session /\ r.pgrp = task[t].pgrp
      /\ r.signal = task[t].signal \ {sig}
  BY <1>1 DEF TaskRecords
<1>7. /\ r2 \in TaskRecords /\ r2.at = "user" /\ r2.pid = task[t].pid /\ r2.father = task[t].father
      /\ r2.session = task[t].session /\ r2.pgrp = task[t].pgrp
      /\ r2.signal = task[t].signal \ {sig}
  BY <1>1 DEF TaskRecords
<1>8. tab = [task EXCEPT ![t] = r]
  BY <1>1, <1>2
<1>9. [tab EXCEPT ![t].caught = tab[t].caught \ {sig}] = [task EXCEPT ![t] = r2]
  BY <1>1, <1>2
<1> HIDE DEF r, r2, tab
<1>10. Good(t, r) /\ Good(t, r2) /\ Calm(task[t], r2)
  BY <1>1, <1>6, <1>7 DEF Good, Calm
<1>11. CASE sig \notin task[t].caught /\ sig # SIGCHLD
  <2>1. ExitFrom(tab, t) /\ t # 1
    BY <1>4, <1>5, <1>11
  <2> QED
    BY <1>1, <1>6, <1>8, <1>10, <2>1, ExitFromOK
<1>12. CASE ~(sig \notin task[t].caught /\ sig # SIGCHLD)
  <2>1. /\ task' = [task EXCEPT ![t] = r2]
        /\ asked' = [asked EXCEPT ![t] = @ \ {sig}]
        /\ UNCHANGED <<last_pid, shell>>
    BY <1>4, <1>9, <1>12
  <2>2. last_pid' \in Pids /\ shell' \in 0 .. MaxPid
    BY <2>1 DEF IInv, TableOK
  <2>3. CalmStep /\ TableOK' /\ UniquePids' /\ FatherAlive' /\ ZombieNotMissed'
    BY <1>1, <1>7, <1>10, <2>1, <2>2, OneCalm
  <2>4. task'[t] = r2 /\ \A q \in Slots \ {t} : task'[q] = task[q]
    BY <1>2, <2>1
  <2>5. asked'[t] = asked[t] \ {sig} /\ \A q \in Slots \ {t} : asked'[q] = asked[q]
    BY <1>2, <2>1
  <2>6. AskedOK'
    <3>1. asked' \in [Slots -> SUBSET Signals]
      BY <1>2, <2>1
    <3>2. ASSUME NEW q \in Slots, task'[q] = NoTask \/ task'[q].at \in {"exit", "zombie"}
          PROVE  asked'[q] = {}
      <4>1. q # t
        BY <1>7, <2>4, <3>2, NoTaskAssumption
      <4> QED
        BY <2>4, <2>5, <3>2, <4>1 DEF IInv, AskedOK
    <3> QED
      BY <3>1, <3>2 DEF AskedOK
  <2>7. ASSUME SignalsArrive PROVE SignalsArrive'
    <3>1. Used' = Used
      BY <2>3 DEF CalmStep, Used
    <3>2. \A q \in Used : asked[q] \subseteq task[q].signal /\ q \in Slots
      BY <2>7 DEF SignalsArrive, Used
    <3>3. \A q \in Used : asked'[q] \subseteq task'[q].signal
      BY <1>7, <2>4, <2>5, <3>2
    <3> QED
      BY <3>1, <3>3 DEF SignalsArrive
  <2> QED
    BY <2>3, <2>6, <2>7 DEF Keeps, IInv
<1> QED
  BY <1>11, <1>12

-----------------------------------------------------------------------------
(* fork(): the child's pid is new, and its father is the caller.           *)
LEMMA ChildOK ==
  ASSUME IInv, NEW t \in Used, task[t].at = "user", NEW pid \in Pids, NEW k, k # 1
  PROVE  /\ Good(k, Child(t, pid)) /\ Child(t, pid).at = "user"
         /\ Child(t, pid).pid = pid /\ Child(t, pid).father = task[t].pid
<1>1. Good(t, task[t]) /\ task[t] \in TaskRecords
  BY UserOK
<1>2. task[t].pid \in 0 .. MaxPid /\ pid \in 0 .. MaxPid /\ pid # 0
  BY <1>1, SizesAssumption DEF TaskRecords, Pids
<1> DEFINE c == [task[t] EXCEPT !.pid = pid, !.father = task[t].pid, !.signal = {}, !.leader = FALSE]
           d == [c EXCEPT !.pgrp = pid, !.session = pid, !.leader = TRUE]
<1>3. Child(t, pid) = IF t = 1 THEN d ELSE c
  BY DEF Child
<1>4. /\ c \in TaskRecords /\ c.at = "user" /\ c.pid = pid /\ c.father = task[t].pid
      /\ c.session = task[t].session
  BY <1>1, <1>2 DEF TaskRecords
<1> HIDE DEF c
<1>5. /\ d \in TaskRecords /\ d.at = "user" /\ d.pid = pid /\ d.father = task[t].pid
      /\ d.session = pid
  BY <1>2, <1>4 DEF TaskRecords
<1> HIDE DEF d
<1> QED
  BY <1>1, <1>2, <1>3, <1>4, <1>5 DEF Good

LEMMA ForkOK == ASSUME IInv, NEW t \in Slots, Fork(t) PROVE Keeps
<1>1. t \in Used /\ task[t].at = "user" /\ task[t] # NoTask /\ Good(t, task[t]) /\ Plain(t, task[t])
  BY UserOK DEF Fork, User
<1>2. task \in [Slots -> TaskRecords \cup {NoTask}] /\ asked \in [Slots -> SUBSET Signals]
  BY DEF IInv, TableOK, AskedOK
<1>3. PICK pid \in Pids : pid = NextPid /\ \A q \in Used : task[q].pid # pid
  BY IInvType, NextPidFree DEF IInv
<1>4. PICK k \in Slots \ Used : k = Lowest(Slots \ Used)
  <2>1. Slots \ Used \in SUBSET Nat /\ Slots \ Used # {}
    BY SlotOne DEF Fork, Used
  <2> QED
    BY <2>1, HasLeast DEF Lowest
<1>5. task[k] = NoTask /\ k # t /\ k # 1
  BY <1>1, <1>4, InitAlive DEF Used
<1>6. PICK c : c = Child(t, pid)
  OBVIOUS
<1>7. /\ Good(k, c) /\ c.at = "user" /\ c.pid = pid /\ c.father = task[t].pid
      /\ c \in TaskRecords /\ c # NoTask
  BY <1>1, <1>3, <1>5, <1>6, ChildOK, NoTaskAssumption DEF Good
<1>8. PICK r : r = Ret(task[t])
  OBVIOUS
<1>9. /\ Good(t, r) /\ r.at \in {"user", "ret"} /\ r.pid = task[t].pid /\ r.father = task[t].father
      /\ r.signal = task[t].signal /\ r \in TaskRecords /\ r # NoTask
  BY <1>1, <1>8, RetOK, NoTaskAssumption DEF Good
<1>10. task' = [task EXCEPT ![k] = c, ![t] = Ret(@)]
  BY <1>3, <1>4, <1>6 DEF Fork
<1>11. /\ task' \in [Slots -> TaskRecords \cup {NoTask}]
       /\ task'[k] = c /\ task'[t] = r /\ \A q \in Slots \ {k, t} : task'[q] = task[q]
  BY <1>1, <1>2, <1>4, <1>5, <1>7, <1>8, <1>9, <1>10
<1>12. Used' = Used \cup {k}
  BY <1>1, <1>5, <1>7, <1>9, <1>11 DEF Used
<1>13. \A q \in Used : q \in Slots /\ q # k /\ task'[q].pid = task[q].pid /\ task'[q].father = task[q].father
                       /\ task'[q].signal = task[q].signal
  BY <1>5, <1>9, <1>11 DEF Used
<1>14. TableOK'
  <2>1. last_pid' \in Pids
    BY <1>3 DEF Fork
  <2>2. shell' \in 0 .. MaxPid
    BY <1>3, SizesAssumption DEF Fork, IInv, TableOK, Pids
  <2>3. \A q \in Used' : Good(q, task'[q])
    BY <1>7, <1>9, <1>11, <1>12, UserOK
  <2>4. task'[1] # NoTask
    BY <1>12, InitAlive DEF Used
  <2> QED
    BY <1>11, <2>1, <2>2, <2>3, <2>4 DEF TableOK
<1>15. UniquePids'
  <2>1. \A p, q \in Used : task'[p].pid = task'[q].pid => p = q
    BY <1>13 DEF IInv, UniquePids
  <2>2. \A q \in Used : task'[q].pid # task'[k].pid
    BY <1>3, <1>7, <1>11, <1>13
  <2> QED
    BY <1>12, <2>1, <2>2 DEF UniquePids
<1>16. FatherAlive'
  <2>1. ASSUME NEW q \in Used, q # 1
        PROVE  \E f \in Used : task'[f].pid = task'[q].father /\ task'[f].at \notin {"exit", "zombie"}
    <3>1. PICK f \in Used : task[f].pid = task[q].father /\ task[f].at \notin {"exit", "zombie"}
      BY <2>1 DEF IInv, FatherAlive
    <3>2. task'[f].at \notin {"exit", "zombie"}
      BY <1>9, <1>11, <1>13, <3>1
    <3> QED
      BY <1>13, <3>1, <3>2
  <2>2. task'[t].pid = task'[k].father /\ task'[t].at \notin {"exit", "zombie"}
    BY <1>7, <1>9, <1>11
  <2> QED
    BY <1>1, <1>12, <2>1, <2>2 DEF FatherAlive
<1>17. ZombieNotMissed'
  <2> SUFFICES ASSUME NEW w \in Used', task'[w].at = "wait",
                      task'[w].want > 0 \/ task'[w].want = -1,
                      NEW z \in Zombies(task', w, task'[w].want)
               PROVE  SIGCHLD \in task'[w].signal
    BY DEF ZombieNotMissed, Zombies, Children
  <2>1. /\ z \in Slots \ {w} /\ task'[z] # NoTask /\ task'[z].father = task'[w].pid
        /\ task'[w].want > 0 => task'[z].pid = task'[w].want
        /\ task'[z].at = "zombie"
    BY DEF Zombies, Children
  <2>2. w \in Used \ {t} /\ z \in Used \ {t}
    BY <1>7, <1>9, <1>11, <1>12, <2>1 DEF Used
  <2>3. task'[w] = task[w] /\ task'[z] = task[z]
    BY <1>11, <1>13, <2>2
  <2>4. task[w].want \in Int
    BY <2>2, UserOK, SizesAssumption DEF TaskRecords
  <2>5. z \in Zombies(task, w, task[w].want)
    BY <2>1, <2>3, <2>4 DEF Zombies, Children
  <2> QED
    BY <2>2, <2>3, <2>5 DEF IInv, ZombieNotMissed
<1>18. UNCHANGED asked
  BY DEF Fork
<1>19. AskedOK'
  <2>1. ASSUME NEW q \in Slots, task'[q] = NoTask \/ task'[q].at \in {"exit", "zombie"}
        PROVE  asked[q] = {}
    <3>1. task'[q] = task[q]
      BY <1>7, <1>9, <1>11, <2>1
    <3> QED
      BY <2>1, <3>1 DEF IInv, AskedOK
  <2> QED
    BY <1>2, <1>18, <2>1 DEF AskedOK
<1>20. ASSUME SignalsArrive PROVE SignalsArrive'
  <2>1. asked[k] = {}
    BY <1>5 DEF IInv, AskedOK
  <2> QED
    BY <1>12, <1>13, <1>18, <1>20, <2>1 DEF SignalsArrive
<1> QED
  BY <1>14, <1>15, <1>16, <1>17, <1>19, <1>20 DEF Keeps, IInv

-----------------------------------------------------------------------------
(* The end of do_exit(): there is one father, it is alive, and it is told. *)
LEMMA ExitEndOK == ASSUME IInv, NEW t \in Slots, ExitEnd(t) PROVE Keeps
<1>1. t \in Used /\ task[t].at = "exit" /\ task[t] # NoTask /\ Good(t, task[t]) /\ task[t] \in TaskRecords
  BY UserOK DEF ExitEnd
<1>2. t # 1 /\ task[t].session # 0 /\ task[1].session = 0
  BY <1>1, InitAlive, UserOK DEF Good
<1>3. PICK f \in Used : task[f].pid = task[t].father /\ task[f].at \notin {"exit", "zombie"}
  BY <1>1, <1>2 DEF IInv, FatherAlive
<1>4. \A q \in Used : task[q].pid = task[t].father => q = f
  BY <1>3 DEF IInv, UniquePids
<1>5. PICK S : S = IF ~task[t].leader THEN {} ELSE {q \in Used : task[q].session = task[t].session}
  OBVIOUS
<1>6. \A x \in S : x \in Slots /\ task[x] # NoTask /\ x # 1
  BY <1>2, <1>5 DEF Used
<1>7. PICK sigd : sigd = SignalAll(task, S, SIGHUP)
  OBVIOUS
<1>8. PICK z : z = [task[t] EXCEPT !.at = "zombie"]
  OBVIOUS
<1>9. PICK hungup : hungup = [sigd EXCEPT ![t].at = "zombie"]
  OBVIOUS
<1>10. SIGHUP \in Signals /\ SIGCHLD \in Signals
  BY DEF Signals
<1>11. task' = SignalAll(hungup, {f}, SIGCHLD) /\ UNCHANGED <<last_pid, shell, asked>>
  <2>1. {q \in Used : task[q].pid = task[t].father} = {f}
    BY <1>3, <1>4
  <2>2. Lowest({f}) = f
    <3>1. f \in Nat
      BY SlotOne DEF Used
    <3> QED
      BY <3>1 DEF Lowest
  <2> QED
    BY <1>5, <1>7, <1>9, <2>1, <2>2 DEF ExitEnd
<1>12. /\ GoodTable(sigd)
       /\ \A x \in Slots : task[x] = NoTask => sigd[x] = NoTask
       /\ \A x \in Slots : task[x] # NoTask =>
              /\ sigd[x] # NoTask
              /\ Calm(task[x], sigd[x])
              /\ task[x].signal \subseteq sigd[x].signal
              /\ task[x].at \in {"exit", "zombie"} => sigd[x] = task[x]
  BY <1>6, <1>7, <1>10, SignalAllOK, TableIsGood
<1>13. sigd[t] = task[t]
  BY <1>1, <1>12
<1>14. /\ z \in TaskRecords /\ z # NoTask /\ z.at = "zombie" /\ z.pid = task[t].pid
       /\ z.father = task[t].father /\ z.session = task[t].session
       /\ z.signal = task[t].signal
  BY <1>1, <1>8, NoTaskAssumption DEF TaskRecords
<1>15. Good(t, z)
  BY <1>1, <1>2, <1>14 DEF Good
<1>16. hungup \in [Slots -> TaskRecords \cup {NoTask}] /\ hungup[t] = z /\ \A x \in Slots \ {t} : hungup[x] = sigd[x]
  <2>1. sigd \in [Slots -> TaskRecords \cup {NoTask}]
    BY <1>12 DEF GoodTable
  <2> QED
    BY <1>8, <1>9, <1>13, <1>14, <2>1
<1>17. GoodTable(hungup)
  BY <1>12, <1>15, <1>16 DEF GoodTable
<1>18. f \in Slots /\ f # t /\ hungup[f] # NoTask /\ hungup[f].at \notin {"exit", "zombie"}
  BY <1>1, <1>3, <1>12, <1>16 DEF Used, Calm
<1>19. /\ GoodTable(task')
       /\ \A x \in Slots : hungup[x] = NoTask => task'[x] = NoTask
       /\ \A x \in Slots \ {f} : task'[x] = hungup[x]
       /\ \A x \in Slots : hungup[x] # NoTask =>
              /\ task'[x] # NoTask
              /\ Calm(hungup[x], task'[x])
              /\ hungup[x].signal \subseteq task'[x].signal
              /\ x \in {f} /\ hungup[x].at \notin {"exit", "zombie"} => SIGCHLD \in task'[x].signal
  <2>1. \A x \in {f} : x \in Slots /\ hungup[x] # NoTask /\ (x = 1 => SIGCHLD = SIGCHLD)
    BY <1>18
  <2> QED
    BY <1>10, <1>11, <1>17, <2>1, SignalAllOK
<1>20. task'[t] = z /\ SIGCHLD \in task'[f].signal
  BY <1>16, <1>18, <1>19
<1>21. Used' = Used
  BY <1>1, <1>12, <1>14, <1>16, <1>19 DEF Used
<1>22. ASSUME NEW x \in Used, x # t
       PROVE  Calm(task[x], task'[x]) /\ task[x].signal \subseteq task'[x].signal
  <2>1. x \in Slots /\ task[x] # NoTask /\ hungup[x] = sigd[x] /\ hungup[x] # NoTask
    BY <1>12, <1>16, <1>22 DEF Used
  <2>2. Calm(task[x], hungup[x]) /\ Calm(hungup[x], task'[x])
    BY <1>12, <1>19, <2>1
  <2>3. task[x].signal \subseteq hungup[x].signal /\ hungup[x].signal \subseteq task'[x].signal
    BY <1>12, <1>19, <2>1
  <2> QED
    BY <2>2, <2>3 DEF Calm
<1>23. \A x \in Used : task'[x].pid = task[x].pid /\ task'[x].father = task[x].father
  BY <1>14, <1>20, <1>22 DEF Calm
<1>24. TableOK'
  <2>1. last_pid' \in Pids /\ shell' \in 0 .. MaxPid
    BY <1>11 DEF IInv, TableOK
  <2>2. task' \in [Slots -> TaskRecords \cup {NoTask}] /\ \A q \in Used' : Good(q, task'[q])
    BY <1>19 DEF GoodTable, Used
  <2>3. task'[1] # NoTask
    BY <1>21, InitAlive DEF Used
  <2> QED
    BY <2>1, <2>2, <2>3 DEF TableOK
<1>25. UniquePids'
  BY <1>21, <1>23 DEF IInv, UniquePids
<1>26. FatherAlive'
  <2> SUFFICES ASSUME NEW q \in Used, q # 1
               PROVE  \E g \in Used : task'[g].pid = task'[q].father /\ task'[g].at \notin {"exit", "zombie"}
    BY <1>21 DEF FatherAlive
  <2>1. PICK g \in Used : task[g].pid = task[q].father /\ task[g].at \notin {"exit", "zombie"}
    BY DEF IInv, FatherAlive
  <2>2. g # t /\ task'[g].at \notin {"exit", "zombie"}
    BY <1>1, <1>22, <2>1 DEF Calm
  <2> QED
    BY <1>23, <2>1, <2>2
<1>27. ZombieNotMissed'
  <2> SUFFICES ASSUME NEW w \in Used, task'[w].at = "wait",
                      task'[w].want > 0 \/ task'[w].want = -1,
                      NEW c \in Zombies(task', w, task'[w].want)
               PROVE  SIGCHLD \in task'[w].signal
    BY <1>21 DEF ZombieNotMissed, Zombies, Children
  <2>1. /\ c \in Slots \ {w} /\ task'[c] # NoTask /\ task'[c].father = task'[w].pid
        /\ task'[w].want > 0 => task'[c].pid = task'[w].want
        /\ task'[c].at = "zombie"
    BY DEF Zombies, Children
  <2>2. c \in Used /\ w # t
    BY <1>14, <1>20, <1>21, <2>1 DEF Used
  <2>3. /\ task[w].at = "wait" /\ task[w].want = task'[w].want
        /\ task[w].signal \subseteq task'[w].signal
    BY <1>22, <2>2 DEF Calm
  <2>4. CASE c = t
    <3>1. task[w].pid = task[t].father
      BY <1>23, <2>1, <2>2, <2>4
    <3> QED
      BY <1>4, <1>20, <3>1
  <2>5. CASE c # t
    <3>1. task[c].at = "zombie" /\ task[c].father = task[w].pid /\ task[c].pid = task'[c].pid
      BY <1>22, <1>23, <2>1, <2>2, <2>5 DEF Calm
    <3>2. task[w].want \in Int
      BY UserOK, SizesAssumption DEF TaskRecords
    <3>3. c \in Zombies(task, w, task[w].want)
      BY <2>1, <2>2, <2>3, <3>1, <3>2 DEF Zombies, Children, Used
    <3> QED
      BY <2>3, <3>3 DEF IInv, ZombieNotMissed
  <2> QED
    BY <2>4, <2>5
<1>28. AskedOK'
  <2>1. ASSUME NEW q \in Slots, task'[q] = NoTask \/ task'[q].at \in {"exit", "zombie"}
        PROVE  asked[q] = {}
    <3>1. task[q] = NoTask \/ task[q].at \in {"exit", "zombie"}
      BY <1>1, <1>21, <1>22, <2>1 DEF Used, Calm
    <3> QED
      BY <3>1 DEF IInv, AskedOK
  <2> QED
    BY <1>11, <2>1 DEF IInv, AskedOK
<1>29. ASSUME SignalsArrive PROVE SignalsArrive'
  <2>1. asked[t] = {}
    BY <1>1 DEF IInv, AskedOK
  <2> QED
    BY <1>11, <1>21, <1>22, <1>29, <2>1 DEF SignalsArrive
<1> QED
  BY <1>24, <1>25, <1>26, <1>27, <1>28, <1>29 DEF Keeps, IInv

-----------------------------------------------------------------------------
(* sys_waitpid() gives up nothing that kill() asked for but what it takes  *)
(* out of its own task's signals, whose record becomes r.                  *)
Answered(t, r) ==
  /\ asked' \in [Slots -> SUBSET Signals]
  /\ asked'[t] \subseteq asked[t]
  /\ asked[t] \subseteq task[t].signal => asked'[t] \subseteq r.signal
  /\ \A q \in Slots \ {t} : asked'[q] = asked[q]

(* sys_waitpid(): it sleeps only when no child it looks at is dead, and    *)
(* releases only a dead one.                                               *)
LEMMA WaitScanOK ==
  ASSUME IInv, NEW t \in Used, task[t].at \notin {"exit", "zombie"},
         NEW r, Plain(t, r), r.pid = task[t].pid, r.father = task[t].father,
         Answered(t, r),
         NEW tab, tab = [task EXCEPT ![t] = r],
         NEW want \in -MaxPid .. MaxPid, NEW nohang \in BOOLEAN,
         WaitScan(tab, t, want, nohang), UNCHANGED last_pid
  PROVE  Keeps
<1>1. t \in Slots /\ task[t] # NoTask /\ r \in TaskRecords /\ r # NoTask
  BY NoTaskAssumption DEF Used, Plain
<1>2. task \in [Slots -> TaskRecords \cup {NoTask}] /\ asked \in [Slots -> SUBSET Signals]
  BY DEF IInv, TableOK, AskedOK
<1>3. tab \in [Slots -> TaskRecords \cup {NoTask}] /\ tab[t] = r /\ \A q \in Slots \ {t} : tab[q] = task[q]
  BY <1>1, <1>2
<1>4. PICK x : x = Ret(r)
  OBVIOUS
<1>5. /\ Good(t, x) /\ x.at \in {"user", "ret"} /\ x.pid = task[t].pid /\ x.father = task[t].father
      /\ x.signal = r.signal /\ x \in TaskRecords /\ x # NoTask
  BY <1>4, RetOK, NoTaskAssumption DEF Good
<1>6. PICK y : y = [r EXCEPT !.at = "wait", !.want = want]
  OBVIOUS
<1>7. /\ y \in TaskRecords /\ y # NoTask /\ y.at = "wait" /\ y.want = want /\ y.pid = task[t].pid
      /\ y.father = task[t].father /\ y.signal = r.signal /\ y.session = r.session
      /\ y.pgrp = r.pgrp
  BY <1>1, <1>6, NoTaskAssumption DEF TaskRecords
<1>8. Good(t, y)
  BY <1>7 DEF Plain, Good
<1>9. PICK dead : dead = Zombies(tab, t, want)
  OBVIOUS
<1>10. last_pid' \in Pids
  BY DEF IInv, TableOK
<1>11. \A c \in dead : c \in Slots /\ c # t /\ c \in Used /\ c # 1 /\ task[c].at = "zombie"
  <2> SUFFICES ASSUME NEW c \in dead
               PROVE  c \in Slots /\ c # t /\ c \in Used /\ c # 1 /\ task[c].at = "zombie"
    OBVIOUS
  <2>1. c \in Slots \ {t} /\ tab[c] # NoTask /\ tab[c].at = "zombie"
    BY <1>9 DEF Zombies, Children
  <2>2. c \in Used /\ task[c].at = "zombie"
    BY <1>3, <2>1 DEF Used
  <2> QED
    BY <2>1, <2>2, InitAlive
<1>12. asked' \in [Slots -> SUBSET Signals]
  BY DEF Answered
<1>13. \A q \in Slots : asked[q] = {} => asked'[q] = {}
  BY <1>1 DEF Answered
<1>14. /\ asked[t] \subseteq task[t].signal => asked'[t] \subseteq r.signal
       /\ \A q \in Slots \ {t} : asked'[q] = asked[q]
  BY DEF Answered
<1>15. CASE dead # {}
  <2>1. PICK c \in dead : c = Highest(dead)
    <3>1. dead \in SUBSET (0 .. NR_TASKS) /\ NR_TASKS \in Nat
      BY <1>11, SizesAssumption DEF Slots
    <3>2. \E m \in dead : \A n \in dead : n <= m
      BY <1>15, <3>1, HasGreatest
    <3>3. \E m \in dead : \A n \in dead : m >= n
      BY <3>1, <3>2
    <3> QED
      BY <3>3 DEF Highest
  <2>2. c \in Slots /\ c # t /\ c \in Used /\ c # 1 /\ task[c].at = "zombie"
    BY <1>11, <2>1
  <2>3. /\ task' = [tab EXCEPT ![c] = NoTask, ![t] = Ret(@)]
        /\ shell' = IF t = 1 /\ tab[c].pid = shell THEN 0 ELSE shell
    BY <1>9, <1>15, <2>1 DEF WaitScan
  <2>4. /\ task' \in [Slots -> TaskRecords \cup {NoTask}]
        /\ task'[c] = NoTask /\ task'[t] = x /\ \A q \in Slots \ {c, t} : task'[q] = task[q]
    BY <1>1, <1>3, <1>4, <1>5, <2>2, <2>3
  <2>5. Used' = Used \ {c}
    BY <1>1, <1>5, <2>2, <2>4 DEF Used
  <2>6. \A q \in Used \ {c} : q \in Slots /\ task'[q].pid = task[q].pid /\ task'[q].father = task[q].father
    BY <1>5, <2>4 DEF Used
  <2>7. TableOK'
    <3>1. shell' \in 0 .. MaxPid
      BY <2>3, SizesAssumption DEF IInv, TableOK
    <3>2. \A q \in Used' : Good(q, task'[q])
      BY <1>5, <2>4, <2>5, <2>6, UserOK
    <3>3. task'[1] # NoTask
      BY <2>2, <2>5, InitAlive DEF Used
    <3> QED
      BY <1>10, <2>4, <3>1, <3>2, <3>3 DEF TableOK
  <2>8. UniquePids'
    BY <2>5, <2>6 DEF IInv, UniquePids
  <2>9. FatherAlive'
    <3> SUFFICES ASSUME NEW q \in Used \ {c}, q # 1
                 PROVE  \E f \in Used \ {c} : /\ task'[f].pid = task'[q].father
                                              /\ task'[f].at \notin {"exit", "zombie"}
      BY <2>5 DEF FatherAlive
    <3>1. PICK f \in Used : task[f].pid = task[q].father /\ task[f].at \notin {"exit", "zombie"}
      BY DEF IInv, FatherAlive
    <3>2. f # c
      BY <2>2, <3>1
    <3>3. task'[f].at \notin {"exit", "zombie"}
      BY <1>5, <2>4, <2>6, <3>1, <3>2
    <3> QED
      BY <2>6, <3>1, <3>2, <3>3
  <2>10. ZombieNotMissed'
    <3> SUFFICES ASSUME NEW w \in Used \ {c}, task'[w].at = "wait",
                        task'[w].want > 0 \/ task'[w].want = -1,
                        NEW z \in Zombies(task', w, task'[w].want)
                 PROVE  SIGCHLD \in task'[w].signal
      BY <2>5 DEF ZombieNotMissed, Zombies, Children
    <3>1. /\ z \in Slots \ {w} /\ task'[z] # NoTask /\ task'[z].father = task'[w].pid
          /\ task'[w].want > 0 => task'[z].pid = task'[w].want
          /\ task'[z].at = "zombie"
      BY DEF Zombies, Children
    <3>2. w # t /\ z # t /\ z # c
      BY <1>5, <2>4, <3>1
    <3>3. task'[w] = task[w] /\ task'[z] = task[z]
      BY <2>4, <2>6, <3>1, <3>2
    <3>4. task[w].want \in Int
      BY UserOK, SizesAssumption DEF TaskRecords
    <3>5. z \in Zombies(task, w, task[w].want)
      BY <3>1, <3>3, <3>4 DEF Zombies, Children
    <3> QED
      BY <3>3, <3>5 DEF IInv, ZombieNotMissed
  <2>11. AskedOK'
    <3>1. ASSUME NEW q \in Slots, task'[q] = NoTask \/ task'[q].at \in {"exit", "zombie"}
          PROVE  asked'[q] = {}
      <4>1. task[q] = NoTask \/ task[q].at \in {"exit", "zombie"}
        BY <1>5, <2>2, <2>4, <3>1
      <4> QED
        BY <1>13, <4>1 DEF IInv, AskedOK
    <3> QED
      BY <1>12, <3>1 DEF AskedOK
  <2>12. ASSUME SignalsArrive PROVE SignalsArrive'
    <3>1. \A q \in Used : asked[q] \subseteq task[q].signal /\ q \in Slots
      BY <2>12 DEF SignalsArrive, Used
    <3>2. \A q \in Used \ {c} : asked'[q] \subseteq task'[q].signal
      BY <1>5, <1>14, <2>4, <3>1
    <3> QED
      BY <2>5, <3>2 DEF SignalsArrive
  <2> QED
    BY <2>7, <2>8, <2>9, <2>10, <2>11, <2>12 DEF Keeps, IInv
<1>16. ASSUME NEW u, u = x \/ u = y, task' = [tab EXCEPT ![t] = u],
              SignalsArrive
       PROVE  SignalsArrive'
  <2>1. u # NoTask /\ u.signal = r.signal
    BY <1>5, <1>7, <1>16
  <2>2. task'[t] = u /\ \A q \in Slots \ {t} : task'[q] = task[q]
    BY <1>1, <1>3, <1>16
  <2>3. Used' = Used
    BY <1>1, <2>1, <2>2 DEF Used
  <2>4. \A q \in Used : asked[q] \subseteq task[q].signal /\ q \in Slots
    BY <1>16 DEF SignalsArrive, Used
  <2>5. \A q \in Used : asked'[q] \subseteq task'[q].signal
    BY <1>14, <2>1, <2>2, <2>4
  <2> QED
    BY <2>3, <2>5 DEF SignalsArrive
<1>17. CASE dead = {}
  <2>1. /\ shell' = shell
        /\ \/ task' = [tab EXCEPT ![t] = x]
           \/ task' = [tab EXCEPT ![t] = y]
    BY <1>1, <1>3, <1>4, <1>6, <1>9, <1>17 DEF WaitScan
  <2>2. shell' \in 0 .. MaxPid
    BY <2>1 DEF IInv, TableOK
  <2>3. CASE task' = [tab EXCEPT ![t] = x]
    <3>1. task' = [task EXCEPT ![t] = x]
      BY <1>2, <1>3, <2>3
    <3>2. Calm(task[t], x)
      BY <1>5 DEF Calm
    <3>3. CalmStep /\ TableOK' /\ UniquePids' /\ FatherAlive' /\ ZombieNotMissed'
      BY <1>5, <1>10, <2>2, <3>1, <3>2, OneCalm
    <3>4. AskedOK'
      <4>1. ASSUME NEW q \in Slots, task'[q] = NoTask \/ task'[q].at \in {"exit", "zombie"}
            PROVE  asked'[q] = {}
        <5>1. task[q] = NoTask \/ task[q].at \in {"exit", "zombie"}
          BY <1>1, <1>2, <1>5, <3>1, <4>1
        <5> QED
          BY <1>13, <5>1 DEF IInv, AskedOK
      <4> QED
        BY <1>12, <4>1 DEF AskedOK
    <3> QED
      BY <1>16, <2>3, <3>3, <3>4 DEF Keeps, IInv
  <2>4. CASE task' = [tab EXCEPT ![t] = y]
    <3>1. /\ task' \in [Slots -> TaskRecords \cup {NoTask}]
          /\ task'[t] = y /\ \A q \in Slots \ {t} : task'[q] = task[q]
      BY <1>1, <1>3, <1>7, <2>4
    <3>2. Used' = Used
      BY <1>1, <1>7, <3>1 DEF Used
    <3>3. \A q \in Used : q \in Slots /\ task'[q].pid = task[q].pid /\ task'[q].father = task[q].father
      BY <1>7, <3>1 DEF Used
    <3>4. TableOK'
      <4>1. \A q \in Used' : Good(q, task'[q])
        BY <1>8, <3>1, <3>2, <3>3, UserOK
      <4>2. task'[1] # NoTask
        BY <3>2, InitAlive DEF Used
      <4> QED
        BY <1>10, <2>2, <3>1, <4>1, <4>2 DEF TableOK
    <3>5. UniquePids'
      BY <3>2, <3>3 DEF IInv, UniquePids
    <3>6. FatherAlive'
      <4> SUFFICES ASSUME NEW q \in Used, q # 1
                   PROVE  \E f \in Used : /\ task'[f].pid = task'[q].father
                                          /\ task'[f].at \notin {"exit", "zombie"}
        BY <3>2 DEF FatherAlive
      <4>1. PICK f \in Used : task[f].pid = task[q].father /\ task[f].at \notin {"exit", "zombie"}
        BY DEF IInv, FatherAlive
      <4>2. task'[f].at \notin {"exit", "zombie"}
        BY <1>7, <3>1, <3>3, <4>1
      <4> QED
        BY <3>3, <4>1, <4>2
    <3>7. ZombieNotMissed'
      <4> SUFFICES ASSUME NEW w \in Used, task'[w].at = "wait",
                          task'[w].want > 0 \/ task'[w].want = -1,
                          NEW z \in Zombies(task', w, task'[w].want)
                   PROVE  SIGCHLD \in task'[w].signal
        BY <3>2 DEF ZombieNotMissed, Zombies, Children
      <4>1. /\ z \in Slots \ {w} /\ task'[z] # NoTask /\ task'[z].father = task'[w].pid
            /\ task'[w].want > 0 => task'[z].pid = task'[w].want
            /\ task'[z].at = "zombie"
        BY DEF Zombies, Children
      <4>2. z # t /\ task'[z] = task[z]
        BY <1>7, <3>1, <4>1
      <4>3. CASE w = t
        <5>1. task'[w].want = want /\ tab[z] = task[z] /\ tab[t].pid = task'[t].pid
          BY <1>3, <1>7, <3>1, <4>1, <4>2, <4>3
        <5>2. want \in Int
          BY SizesAssumption
        <5>3. z \in Zombies(tab, t, want)
          BY <4>1, <4>2, <4>3, <5>1, <5>2 DEF Zombies, Children
        <5> QED
          BY <1>9, <1>17, <5>3
      <4>4. CASE w # t
        <5>1. task'[w] = task[w]
          BY <3>1, <3>3, <4>4
        <5>2. task[w].want \in Int
          BY UserOK, SizesAssumption DEF TaskRecords
        <5>3. z \in Zombies(task, w, task[w].want)
          BY <4>1, <4>2, <5>1, <5>2 DEF Zombies, Children
        <5> QED
          BY <5>1, <5>3 DEF IInv, ZombieNotMissed
      <4> QED
        BY <4>3, <4>4
    <3>8. AskedOK'
      <4>1. ASSUME NEW q \in Slots, task'[q] = NoTask \/ task'[q].at \in {"exit", "zombie"}
            PROVE  asked'[q] = {}
        <5>1. task[q] = NoTask \/ task[q].at \in {"exit", "zombie"}
          BY <1>7, <3>1, <4>1
        <5> QED
          BY <1>13, <5>1 DEF IInv, AskedOK
      <4> QED
        BY <1>12, <4>1 DEF AskedOK
    <3> QED
      BY <1>16, <2>4, <3>4, <3>5, <3>6, <3>7, <3>8 DEF Keeps, IInv
  <2> QED
    BY <2>1, <2>3, <2>4
<1> QED
  BY <1>15, <1>17

LEMMA WaitpidOK ==
  ASSUME IInv, NEW t \in Slots, NEW want \in WaitArgs, NEW nohang \in BOOLEAN,
         Waitpid(t, want, nohang)
  PROVE  Keeps
<1>1. t \in Used /\ task[t].at = "user" /\ Plain(t, task[t])
  BY UserOK DEF Waitpid, User
<1>2. task = [task EXCEPT ![t] = task[t]]
  BY DEF IInv, TableOK
<1>3. want \in -MaxPid .. MaxPid
  BY ArgsAssumption
<1>4. WaitScan(task, t, want, nohang) /\ UNCHANGED <<last_pid, asked>>
  BY DEF Waitpid
<1>5. Answered(t, task[t])
  BY <1>4 DEF Answered, IInv, AskedOK
<1> QED
  BY <1>1, <1>2, <1>3, <1>4, <1>5, WaitScanOK

LEMMA WaitWokenOK == ASSUME IInv, NEW t \in Slots, WaitWoken(t) PROVE Keeps
<1>1. t \in Used /\ task[t].at = "wait" /\ Good(t, task[t]) /\ task[t] \in TaskRecords /\ task[t] # NoTask
  BY UserOK DEF WaitWoken
<1>2. task \in [Slots -> TaskRecords \cup {NoTask}] /\ asked \in [Slots -> SUBSET Signals]
  BY DEF IInv, TableOK, AskedOK
<1>3. PICK r : r = AfterSleep(task[t])
  OBVIOUS
<1>4. /\ r \in TaskRecords /\ r.pid = task[t].pid /\ r.father = task[t].father
      /\ r.signal = task[t].signal \ {SIGCHLD} /\ r.pgrp = task[t].pgrp /\ r.session = task[t].session
  BY <1>1, <1>3 DEF AfterSleep, TaskRecords
<1>5. Plain(t, r)
  BY <1>1, <1>4 DEF Good, Plain
<1>6. PICK tab : tab = [task EXCEPT ![t] = r]
  OBVIOUS
<1>7. tab[t] = r
  BY <1>2, <1>6
<1>8. /\ tab[t].signal = {} => WaitScan(tab, t, task[t].want, FALSE)
      /\ tab[t].signal # {} => task' = [tab EXCEPT ![t] = Ret(tab[t])] /\ UNCHANGED shell
      /\ asked' = [asked EXCEPT ![t] = @ \ {SIGCHLD}] /\ UNCHANGED last_pid
  BY <1>3, <1>6 DEF WaitWoken
<1>11. Answered(t, r)
  BY <1>2, <1>4, <1>8 DEF Answered
<1>9. CASE tab[t].signal = {}
  <2>1. task[t].want \in -MaxPid .. MaxPid
    BY <1>1 DEF TaskRecords
  <2>2. WaitScan(tab, t, task[t].want, FALSE) /\ UNCHANGED last_pid
    BY <1>8, <1>9
  <2>3. task[t].at \notin {"exit", "zombie"}
    BY <1>1
  <2> QED
    BY <1>1, <1>4, <1>5, <1>6, <1>11, <2>1, <2>2, <2>3, WaitScanOK
<1>10. CASE tab[t].signal # {}
  <2>1. task' = [task EXCEPT ![t] = Ret(r)] /\ UNCHANGED <<last_pid, shell>>
    BY <1>2, <1>6, <1>7, <1>8, <1>10
  <2>2. last_pid' \in Pids /\ shell' \in 0 .. MaxPid
    BY <2>1 DEF IInv, TableOK
  <2>3. task[t].at \notin {"exit", "zombie"}
    BY <1>1
  <2>4. CalmStep /\ TableOK' /\ UniquePids' /\ FatherAlive' /\ ZombieNotMissed'
    BY <1>1, <1>4, <1>5, <2>1, <2>2, <2>3, RetStep
  <2>5. AskedOK'
    <3>1. ASSUME NEW q \in Slots, task'[q] = NoTask \/ task'[q].at \in {"exit", "zombie"}
          PROVE  asked'[q] = {}
      <4>1. task[q] = NoTask \/ task[q].at \in {"exit", "zombie"}
        BY <2>4, <3>1 DEF CalmStep, Used, Calm
      <4>2. asked[q] = {}
        BY <4>1 DEF IInv, AskedOK
      <4> QED
        BY <1>11, <4>2 DEF Answered
    <3> QED
      BY <1>11, <3>1 DEF AskedOK, Answered
  <2>6. Ret(r).signal = r.signal
    BY <1>5, RetOK
  <2>7. task'[t].signal = r.signal /\ \A q \in Slots \ {t} : task'[q] = task[q]
    BY <1>2, <2>1, <2>6
  <2>8. ASSUME SignalsArrive PROVE SignalsArrive'
    <3>1. Used' = Used
      BY <2>4 DEF CalmStep, Used
    <3>2. \A q \in Used : asked[q] \subseteq task[q].signal /\ q \in Slots
      BY <2>8 DEF SignalsArrive, Used
    <3>3. \A q \in Used : asked'[q] \subseteq task'[q].signal
      BY <1>11, <2>7, <3>2 DEF Answered
    <3> QED
      BY <3>1, <3>3 DEF SignalsArrive
  <2> QED
    BY <2>4, <2>5, <2>8 DEF Keeps, IInv
<1> QED
  BY <1>9, <1>10

-----------------------------------------------------------------------------
(* The invariant holds of the whole table.                                 *)
LEMMA NextOK ==
  ASSUME IInv, [Next]_vars
  PROVE  /\ IInv'
         /\ SignalsArrive /\ (\A pid \in KillArgs : pid >= -1) => SignalsArrive'
<1>1. CASE UNCHANGED vars
  <2>1. IInv'
    BY <1>1 DEF vars, IInv, TableOK, UniquePids, FatherAlive, ZombieNotMissed, AskedOK,
                Used, Zombies, Children
  <2>2. SignalsArrive => SignalsArrive'
    BY <1>1 DEF vars, SignalsArrive, Used
  <2> QED
    BY <2>1, <2>2
<1>2. CASE Next
  <2>1. PICK t \in Slots :
          \/ Fork(t) \/ ForkFails(t)
          \/ Exit(t) \/ ExitEnd(t)
          \/ \E want \in WaitArgs, nohang \in BOOLEAN : Waitpid(t, want, nohang)
          \/ WaitWoken(t)
          \/ Pause(t) \/ PauseWoken(t)
          \/ \E pid \in KillArgs, sig \in Signals : Kill(t, pid, sig)
          \/ Return(t) \/ Timer(t)
          \/ Signal(t, SIGHUP)
          \/ \E newmask \in Masks : Ssetmask(t, newmask)
          \/ \E g \in GroupArgs : Setpgid(t, g[1], g[2])
          \/ Setsid(t)
    BY <1>2 DEF Next
  <2>2. CASE Fork(t) \/ ForkFails(t) \/ Exit(t) \/ ExitEnd(t)
    BY <2>2, ForkOK, ForkFailsOK, ExitOK, ExitEndOK DEF Keeps
  <2>3. CASE \E want \in WaitArgs, nohang \in BOOLEAN : Waitpid(t, want, nohang)
    BY <2>3, WaitpidOK DEF Keeps
  <2>4. CASE WaitWoken(t) \/ Pause(t) \/ PauseWoken(t)
    BY <2>4, WaitWokenOK, PauseOK, PauseWokenOK DEF Keeps
  <2>5. CASE \E pid \in KillArgs, sig \in Signals : Kill(t, pid, sig)
    <3>1. PICK pid \in KillArgs, sig \in Signals : Kill(t, pid, sig)
      BY <2>5
    <3>2. pid \in Int
      BY ArgsAssumption
    <3>3. pid >= -1 => KillMeans(t, pid) = KillTargets(t, pid)
      BY <3>2 DEF KillMeans
    <3> QED
      BY <3>1, <3>3, KillOK
  <2>6. CASE Return(t) \/ Timer(t)
    BY <2>6, ReturnOK, TimerOK DEF Keeps
  <2>7. CASE Signal(t, SIGHUP)
    <3>1. SIGHUP \in Signals
      BY DEF Signals
    <3> QED
      BY <2>7, <3>1, SignalOK DEF Keeps
  <2>8. CASE \E newmask \in Masks : Ssetmask(t, newmask)
    BY <2>8, SsetmaskOK DEF Keeps
  <2>9. CASE \E g \in GroupArgs : Setpgid(t, g[1], g[2])
    BY <2>9, SetpgidOK DEF Keeps
  <2>10. CASE Setsid(t)
    BY <2>10, SetsidOK DEF Keeps
  <2> QED
    BY <2>1, <2>2, <2>3, <2>4, <2>5, <2>6, <2>7, <2>8, <2>9, <2>10
<1> QED
  BY <1>1, <1>2

(* Every reachable table satisfies the inductive invariant.                *)
THEOREM Invariance == Spec => []IInv
<1>1. Init => IInv
  BY InitOK
<1>2. IInv /\ [Next]_vars => IInv'
  BY NextOK
<1> QED
  BY <1>1, <1>2, PTL DEF Spec

(* fork() and exit() keep the family tree sound, for any number of slots   *)
(* and pids: pids are unique although last_pid goes round, and every task  *)
(* has a father that is alive.                                             *)
THEOREM FamilyIsSound == Spec => []FamilyTree
<1>1. IInv => FamilyTree
  BY IInvType DEF IInv, FamilyTree
<1> QED
  BY <1>1, Invariance, PTL

(* No sleep in sys_waitpid() misses the death of a child, its own or an    *)
(* adopted one.                                                            *)
THEOREM DeathsAreNoticed == Spec => []ZombieNotMissed
<1>1. IInv => ZombieNotMissed
  BY DEF IInv
<1> QED
  BY <1>1, Invariance, PTL

(* A signal of any kind that kill() sends stays pending until              *)
(* ret_from_sys_call takes it; a SIGCHLD may also end when the process     *)
(* comes out of the sleep of sys_waitpid(), which discards it.  If nobody  *)
(* names a group by a pid below -1, that is (sys_kill() drops that:        *)
(* MCProcessTable_kill.cfg).                                               *)
THEOREM SignalsStayPending ==
  ASSUME \A pid \in KillArgs : pid >= -1
  PROVE  Spec => []SignalsArrive
<1>1. Init => IInv /\ SignalsArrive
  <2>1. Init => SignalsArrive
    BY DEF Init, SignalsArrive, Used
  <2> QED
    BY <2>1, InitOK
<1>2. IInv /\ SignalsArrive /\ [Next]_vars => (IInv /\ SignalsArrive)'
  BY NextOK
<1> QED
  BY <1>1, <1>2, PTL DEF Spec
=============================================================================
