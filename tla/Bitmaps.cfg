SPECIFICATION Spec
CONSTANTS
  ByteBits = 4
  MaxBits = 10
INVARIANTS
  RunsAreMaximal
  ShiftsFit
PROPERTIES
  FoundInOrder
