\* Three slots, two of them for writes, and four blocks: reads and writes run
\* out of slots at different times, and a list of three has room for two
\* breaks of the order.  Any number of requests may end while a process is on
\* its way from the scan to its sleep; when that costs the last wake-up every
\* process may end asleep, so deadlock is not looked for.  Two errors ask for
\* a reset, three end a request.
CONSTANTS
  Procs = {p1, p2}
  Blocks <- MCBlocks
  NR_REQUEST = 3
  NoReq = NoReq
  NoProc = NoProc
  MAX_ERRORS = 3
  NrSects <- MCNrSects
SPECIFICATION HdFairSpec
INVARIANTS
  QueueSound
  SleeperHasWaker
  EndedIsComplete
PROPERTIES
  QueuedIsServed
CHECK_DEADLOCK FALSE
