\* Two drives and two tracks; a request and one more waiting; two faults of the
\* controller, where the second error of a request is its last.
CONSTANTS
  Drives = {0, 1}
  Tracks = {0, 1}
  OutOfRange = 99
  Requests <- MCRequests
  Checkers = {c1}
  MAX_ERRORS = 1
  MaxQueue = 2
  MaxFaults = 2
  ON = 3
  OFF = 5
  BIG = 6
  ANSWER = 1
  IdleChain = FALSE
SPECIFICATION FairSpec
INVARIANTS
  TransferReady
  OneChain
PROPERTIES
  EachEnds
