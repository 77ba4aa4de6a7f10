SPECIFICATION FairSpec
CONSTANTS
  Run = {"docs", "heavy", "reader", "nested", "inner"}
  Write = {"file", "nothing"}
  Name <- MCName
  Fold <- MCFold
  NoRoot = NoRoot
  NoRun = "none"
  Req <- MCReq
  Parent <- MCParent
  WriteClaim <- MCWriteClaim
  ConfTotal = 2
  ConfWriters = 5
CHECK_DEADLOCK FALSE
INVARIANTS
  SlotsMatchHolders
  LimitsRespected
  ExclusiveClaims
  NoLostWakeup
PROPERTIES
  NoOvertaking
  EveryCallSettles
