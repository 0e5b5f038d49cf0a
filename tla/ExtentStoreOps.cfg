SPECIFICATION Spec
CONSTANTS
  t1 = t1
  t2 = t2
  Tasks = {t1, t2}
  NoTask = NoTask
  GroupCount = 2
  BlocksPerGroup = 2
  BlockSize = 2
  HeaderSize = 1
  DataSizes = {0, 2, 3, 4}
  Ops <- AllOfThem
  MaxCrashes = 1
SYMMETRY TasksSymmetry
CHECK_DEADLOCK FALSE
INVARIANTS
  TypeOK
  Ownership
  ChainsAreOwn
  ContentInOrder
  NothingLeaks
PROPERTIES
  NoDoubleAllocation
  FreesOldOnly
  WritesOwnOnly
