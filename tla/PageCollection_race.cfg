SPECIFICATION Spec
CHECK_DEADLOCK FALSE
CONSTANTS
  p1 = p1
  p2 = p2
  k1 = k1
  k2 = k2
  k3 = k3
  Procs <- MCProcs
  Keys <- MCKeys2
  Payloads <- MCPayloads
  Target <- MCTarget
  Source <- MCSource2
  Sizes = {1}
  MaxTotal = 2
  MaxGens = 2
  MaxUpsets = 2
  Serial = FALSE
  Exclusive = FALSE
  Compacting = {TRUE}
  Reconcile = TRUE
SYMMETRY ProcSymmetry
INVARIANT CompleteIsCovered
PROPERTY DeactivationIsProven
