\* Three processes with two descriptors each: a pipe has two readers or two
\* writers.  A page of three bytes holds two: a chunk meets its end.
SPECIFICATION Spec
CONSTANTS
  Procs = {p1, p2, p3}
  First = p1
  NR_OPEN = 2
  NR_FILE = 2
  PAGE_SIZE = 3
  MaxBytes = 2
  PipeRace = FALSE
SYMMETRY Symmetry
INVARIANTS
  FilesCounted
  FifoIntact
  SleeperJustified
CHECK_DEADLOCK FALSE
