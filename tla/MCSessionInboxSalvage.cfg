SPECIFICATION Spec
CONSTANTS
  Run = {r1, r2}
  NoRun = NoRun
  Key = {k1, k2}
  NoKey = NoKey
  MaxItems = 2
  MaxReceipts = 1
  MaxNames = 2
  Faults = {"corrupt", "midsalvage"}
INVARIANTS
  NeverZeroRecovered
SYMMETRY Symmetric
CHECK_DEADLOCK FALSE
