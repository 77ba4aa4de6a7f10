SPECIFICATION Spec
CONSTANTS
  Item = {i1, i2}
  NoItem = NoItem
  Verbs = {"sync", "steer", "drop"}
  MaxParked = 0
SYMMETRY Symmetry
INVARIANTS
  TurnsExclusive
  DeliveredOnce
