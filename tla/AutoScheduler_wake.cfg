SPECIFICATION FairSpec
CONSTANTS
  Outcomes = {"COMPLETE", "PARTIAL"}
  MaxEvents = 2
  RunSlots = 1
PROPERTY TerminalStartsNothing
PROPERTY ExplicitServed
INVARIANT WakesAreKept
