SPECIFICATION FairSpec
CHECK_DEADLOCK FALSE
CONSTANTS
  p1 = p1
  k1 = k1
  k2 = k2
  k3 = k3
  Procs = {p1}
  Keys <- MCKeys
  Payloads = {"v", "w"}
  Source <- MCSource
  Size = 2
  Kinds = {"current", "history"}
  Old = "w"
  MaxTotal = 3
  MaxGens = 5
  MaxUpsets = 2
  Exclusive = TRUE
PROPERTY RemovalIsProven
INVARIANT PagesAreProven
PROPERTY OverlapIsReadOnceMore
