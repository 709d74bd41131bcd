\* Three tasks, so that two can take turns before a third; priorities that
\* differ, and counters that can exceed a priority.
CONSTANTS
  NR_TASKS = 3
  InitPriority = 1
  MaxPriority = 2
SPECIFICATION FairSpec
INVARIANTS
  BoundedCredit
PROPERTIES
  RunnableRuns
