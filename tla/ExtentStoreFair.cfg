SPECIFICATION FairSpec
CONSTANTS
  t1 = t1
  t2 = t2
  Tasks = {t1, t2}
  NoTask = NoTask
  GroupCount = 1
  BlocksPerGroup = 3
  BlockSize = 2
  HeaderSize = 1
  DataSizes = {1, 3}
  Ops <- Appender
  MaxCrashes = 1
CHECK_DEADLOCK FALSE
PROPERTIES
  OpsReturn
