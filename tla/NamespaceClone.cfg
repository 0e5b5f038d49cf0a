SPECIFICATION Spec
CONSTANTS
  t1 = t1
  t2 = t2
  n1 = n1
  n2 = n2
  n3 = n3
  Tasks = {t1}
  NoTask = NoTask
  Names = {n1, n2}
  Unstorable = {}
  GroupCount = 3
  InodesPerGroup = 1
  ExtentCount = 5
  MaxDepth = 2
  Bodies = {"x"}
  Ops = {"write", "mkdir", "move", "unlink"}
  Overwrite = {"write"}
  RelativeMoves = FALSE
  Made <- NoDirs
  Home <- AtRoot
  Scrub = TRUE
  MaxLost = 3
  MaxCrashes = 1
CHECK_DEADLOCK FALSE
SYMMETRY NameSymmetry
INVARIANTS
  EntriesResolve
