SPECIFICATION ServiceSpec
CHECK_DEADLOCK FALSE
CONSTANTS
  Procs = {"child", "web"}
  Bounded = {"child"}
  Probes = {"web"}
  Limit = 3
  MaxPermits = 3
  Retries = 2
  LastDay = 2
  Parts = {"request", "gate", "sync"}
  GateSources = {shopping, budget}
  MaxGens = 3
  MaxRaw = 3
  Ceiling = 4
  Reserve = 1
  MaxPages = 1
  MaxFaults = 1
  Collectors = {p1, p2}
  Sections = {s1, s2}
  SyncDays = 3
  Window = 1
  MaxSnaps = 2
SYMMETRY Symmetry
INVARIANT RequestsAreWhole
INVARIANT LaunchesAreGated
INVARIANT ServedIsWhole
PROPERTY NewerStays
