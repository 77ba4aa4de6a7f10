SPECIFICATION Spec
CONSTANTS
  Item = {i1, i2}
  NoItem = NoItem
  Verbs = {"sync", "steer"}
  MaxParked = 0
INVARIANTS
  TurnIsDurable
