SPECIFICATION Spec
CONSTANTS
  c1 = c1
  c2 = c2
  shopping = shopping
  budget = budget
  match = match
  Callers <- TwoCallers
  Operators <- TwoCallers
  Sources <- BothSources
  Match = match
  MaxGens = 2
  MaxFaults = 0
SYMMETRY JobSymmetry
INVARIANT OneChild
INVARIANT NoDoubleWork
PROPERTY WaitingIsShown
