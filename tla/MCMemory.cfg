\* Three tasks; ten pages are too few for three tasks with private pages,
\* so that every allocation can fail.
CONSTANTS
  NR_TASKS = 3
  NR_PAGES = 10
  NR_DIRS = 2
  Addrs <- MCAddrs
  DirOf <- MCDirOf
  ImageAddrs = {1}
  StackAddr = 3
  Exes = {e1}
  NoExe = NoExe
  NoPage = NoPage
SPECIFICATION Spec
VIEW PageNumbersAside
INVARIANTS
  PagesAccounted
  OwnWrites
CHECK_DEADLOCK FALSE
