SPECIFICATION FairSpec
CHECK_DEADLOCK FALSE
CONSTANTS
  Keys = {k1}
  LastDay = 3
  Boot = 2
  SmartFrom = 3
  Window = 2
  Batch = 1
  MaxScans = 1
  OldRows = {}
PROPERTY BackfillCompletes
