SPECIFICATION Spec
CONSTANTS
  Item = {i1, i2}
  NoItem = NoItem
  Verbs = {"steer", "rotate", "fail", "loadfail", "submit", "crash", "block", "unwritable", "pause", "delete"}
  MaxParked = 1
SYMMETRY Symmetry
INVARIANTS
  TypeOK
  InFlightIsOwned
  UnfinishedIsDurable
  AckedWasDelivered
  DeliveredOnce
