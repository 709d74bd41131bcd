\* sleep_on / wake_up: four tasks so that chains of four sleepers form, two
\* queues so that a task can meet its old queue again: q1 is a b_wait (slept
\* on under cli, woken by the disk's interrupt), q2 a buffer_wait or i_wait
\* (slept on with interrupts on, woken by tasks).
CONSTANTS
  Tasks = {t1, t2, t3, t4}
  Queues = {q1, q2}
  NoTask = NoTask
  NoQueue = NoQueue
  IrqWoken = {q1}
  IrqsOn = {q2}
SPECIFICATION FairSpec
INVARIANTS
  NoForgottenSleeper
  WokenOnlyWhenReleased
  EmptyHeadMissesNobody
PROPERTIES
  ImplementsFairWaitSet
