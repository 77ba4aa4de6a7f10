SPECIFICATION FairSpec
CONSTANTS
  Process = {"p1", "p2"}
  Owner = {"a", "b", "c"}
  Run = {"a1", "a2", "b1", "c1"}
  ProcessOf <- MCProcessOf
  OwnerOf <- MCOwnerOf
  Named = {}
  Nobody = Nobody
  MaxCrashes = 1
INVARIANTS
  OneSessionWrites
  HeldForItsRuns
  TokenKept
PROPERTIES
  LeaseSpec
  EveryRequestSettles
