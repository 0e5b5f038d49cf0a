SPECIFICATION Spec
CONSTANTS
  t1 = t1
  t2 = t2
  n1 = n1
  n2 = n2
  n3 = n3
  Tasks = {t1, t2}
  NoTask = NoTask
  Names = {n1, n2}
  Unstorable = {}
  GroupCount = 1
  InodesPerGroup = 5
  ExtentCount = 4
  MaxDepth = 2
  Bodies = {"x"}
  Ops = {"write", "unlink"}
  Overwrite = {}
  RelativeMoves = FALSE
  Made <- TwoDirs
  Home <- OwnDirs
  Scrub = TRUE
  MaxLost = 0
  MaxCrashes = 1
CHECK_DEADLOCK FALSE
INVARIANTS
  EntriesResolve
  ContentIsOwn
  NothingForgotten
