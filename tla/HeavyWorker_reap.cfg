SPECIFICATION FairSpec
CONSTANTS
  c1 = c1
  c2 = c2
  shopping = shopping
  budget = budget
  match = match
  Callers <- OneCaller
  Operators <- NoCaller
  Sources <- BothSources
  Match = match
  MaxGens = 2
  MaxFaults = 1
INVARIANT SignalsSpaced
PROPERTY SlotHandedOver
PROPERTY CompleteIsTrue
PROPERTY SchedulerProceeds
