SPECIFICATION Spec
CONSTANTS
  HeaderBytes = 81
  INodeBytes = 81
  LengthBytes = 8
  Requests <- SmallDevices
  MaxCrashes = 2
CHECK_DEADLOCK FALSE
INVARIANTS
  TypeOK
  RegionsApart
  AddressesInvert
  INodesApart
  RootMeansFormatted
