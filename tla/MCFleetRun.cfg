SPECIFICATION FairSpec
CONSTANTS
  Item = {1, 2, 3}
  Plans <- MCPlans
  MaxFaults = 1
  Name <- MCName
  Fold <- MCFold
  NoRoot = NoRoot
CHECK_DEADLOCK FALSE
INVARIANTS
  StartedBehindAnswers
  ClaimsUnderWayAreDisjoint
  ReportIsTrue
  InterruptionIsTrue
  RedrawIsTrue
PROPERTIES
  FleetReturns
