SPECIFICATION Spec
CONSTANTS
  h1 = h1
  h2 = h2
  Handles = {h1, h2}
  Readers = {h1}
  ChunkSize = 2
  WriteSizes = {1, 2}
  ReadSizes = {2}
  Seeks <- OneBackOneOn
  Uses <- ReadOrCopy
  Before <- OldBytes
  Chains <- TwoExtents
  MaxSent = 2
  MaxOffset = 4
  MaxFailures = 1
CHECK_DEADLOCK FALSE
INVARIANTS
  TypeOK
  WrittenInOrder
  ReadsGoOn
  CopyIsSnapshot
