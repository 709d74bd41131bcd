\* The same, and mkdir() may find no room for its entry.
SPECIFICATION Spec
CONSTANTS
  Procs = {"p1", "p2"}
  PathsOf <- MCPaths
  MayRemove <- MCRemove
  Inodes = {1, 2, 3}
  Blocks = {1, 2, 3}
  PerBlock = 3
  RmdirRace = FALSE
  AllocRace = FALSE
  FullMkdir = TRUE
INVARIANT FreeOnce
