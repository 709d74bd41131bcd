\* Two processes make and open a name of the root and a name in a directory,
\* which one of them also removes.  Three inodes and four blocks run out; a
\* directory block has room for one entry past "." and "..".
SPECIFICATION Spec
CONSTANTS
  Procs = {"p1", "p2"}
  PathsOf <- MCPaths
  MayRemove <- MCRemove
  Inodes = {1, 2, 3}
  Blocks = {1, 2, 3, 4}
  PerBlock = 3
  RmdirRace = FALSE
  AllocRace = FALSE
  FullMkdir = FALSE
INVARIANTS
  LinksExact
  
  CountsBalanced
