SPECIFICATION Spec
CHECK_DEADLOCK FALSE
CONSTANTS
  LastDay = 3
  Regions = {1, 2}
  Recent = 1
  MaxEvents = 3
INVARIANT StaleIsShown
