SPECIFICATION FairSpec
CONSTANTS
  t1 = t1
  t2 = t2
  n1 = n1
  n2 = n2
  n3 = n3
  Tasks = {t1}
  NoTask = NoTask
  Names = {n1, n2}
  Unstorable = {}
  GroupCount = 2
  InodesPerGroup = 2
  ExtentCount = 5
  MaxDepth = 1
  Bodies = {"x", "empty"}
  Ops = {"write", "append", "symlink", "hardlink", "unlink", "ls", "read"}
  Overwrite = {}
  RelativeMoves = FALSE
  Made <- NoDirs
  Home <- AtRoot
  Scrub = TRUE
  MaxLost = 0
  MaxCrashes = 0
CHECK_DEADLOCK FALSE
INVARIANTS
  EntriesResolve
  NothingForgotten
  LinkCounts
PROPERTIES
  EveryCallReturns
