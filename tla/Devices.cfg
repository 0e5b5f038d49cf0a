SPECIFICATION Spec
CONSTANTS
  t1 = t1
  t2 = t2
  Tasks = {t1, t2}
  Layout <- MirrorAndSlot
  EmptyWhenMissing <- TheLast
  Ranges <- ShortRanges
  MaxWrites = 2
  MaxReaders = 1
  MaxFaults = 2
  MaxCrashes = 1
SYMMETRY TasksSymmetry
CHECK_DEADLOCK FALSE
INVARIANTS
  TypeOK
  CapacityIsLeast
  ReadsAreFresh
  ReplicasAgree
  AcceptedWritesAreKept
PROPERTIES
  OnlyOwnBytesChange
