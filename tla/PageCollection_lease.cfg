SPECIFICATION FairSpec
CHECK_DEADLOCK FALSE
CONSTANTS
  p1 = p1
  p2 = p2
  k1 = k1
  k2 = k2
  k3 = k3
  Procs = {p1}
  Keys <- MCKeys
  Payloads <- MCPayloads2
  Target <- MCTarget
  Source <- MCSource3
  Sizes = {1,2}
  MaxTotal = 3
  MaxGens = 5
  MaxUpsets = 2
  Serial = FALSE
  Exclusive = TRUE
  Compacting = {TRUE, FALSE}
  Reconcile = TRUE
INVARIANT TypeOK
INVARIANT ReceiptChain
INVARIANT WriterMeetsVerifier
PROPERTY RefinesIngestion
PROPERTY EventuallyComplete
