SPECIFICATION Spec
CONSTANTS
  t1 = t1
  t2 = t2
  n1 = n1
  n2 = n2
  n3 = n3
  Tasks = {t1}
  NoTask = NoTask
  Names = {n1, n2, n3}
  Unstorable = {n3}
  GroupCount = 3
  InodesPerGroup = 1
  ExtentCount = 4
  MaxDepth = 2
  Bodies = {"x"}
  Ops = {"write", "mkdir", "move"}
  Overwrite = {"write"}
  RelativeMoves = FALSE
  Made <- NoDirs
  Home <- AtRoot
  Scrub = TRUE
  MaxLost = 2
  MaxCrashes = 1
CHECK_DEADLOCK FALSE
SYMMETRY NameSymmetry
INVARIANTS
  EntriesResolve
  ContentIsOwn
  NothingForgotten
PROPERTIES
  NothingVanishes
