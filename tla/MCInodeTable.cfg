\* Two processes, which also mount on the directories 1 and 3, and three slots
\* for four inodes, that of the mounted root among them.
CONSTANTS
  Procs = {p1, p2}
  Inodes = {1, 2, 3}
  Dirs = {1, 3}
  NR_INODE = 3
  None = None
  UnlinkRace = FALSE
  SyncRace = FALSE
  UmountRace = FALSE
SPECIFICATION Spec
INVARIANTS
  UniqueInode
  CountIsRefs
  NothingLost
  BitmapExact
