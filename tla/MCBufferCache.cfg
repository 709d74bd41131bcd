\* Two buffers for three blocks on two devices; two request slots, one of
\* them for writes; three processes.
CONSTANTS
  p1 = p1
  p2 = p2
  p3 = p3
  k1 = k1
  k2 = k2
  k3 = k3
  d1 = d1
  d2 = d2
  Procs = {p1, p2, p3}
  NoProc = NoProc
  Devs = {d1, d2}
  Blocks = {k1, k2, k3}
  NoBlock = NoBlock
  DevOf <- MCDevOf
  NR_BUFFERS = 2
  NR_REQUEST = 2
  NoReq = NoReq
  Work <- MCWork
  FailingCmds = {"READ"}
SPECIFICATION FairSpec
INVARIANTS
  BuffersAccounted
  NoLostWrite
  ReadersSeeLatest
  SyncFlushes
PROPERTIES
  Quiesces
