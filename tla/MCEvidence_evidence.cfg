SPECIFICATION EvidenceSpec
CHECK_DEADLOCK FALSE
CONSTANTS
  Keys = {k1, k2}
  LastDay = 4
  Boot = 2
  SmartFrom = 3
  Window = 1
  Batch = 1
  MaxScans = 2
  OldRows = {k1, k2}
  BudgetKeys = {1, 2}
  OrgOf <- Offices
  Future = {2}
  Payloads <- BudgetPayloads
  Daily = {1}
  BudgetWindow = 1
  ReceiptWindow = 0
  LastBudgetDay = 3
  MaxEvents = 3
  MaxVersion = 2
  BudgetRows <- CityBudget
  Details <- CityDetails
  LegacyDays = 2
  PageRows = 2
  MaxRows = 4
  Sample = 2
  PerProject = 1
  MinProjects = 3
  MinHigh = 1
  MaxChanges = 1
  MaxCycles = 2
  Parts = {"shop", "store", "match"}
SYMMETRY Symmetry
INVARIANT StoredRowsAreTrue
INVARIANT CountedOnce
INVARIANT MoneyIsOfRows
INVARIANT DeliveriesAreListed
PROPERTY NothingIsLost
PROPERTY PopulationIsTrue
