SPECIFICATION FairSpec
CONSTANTS
  Item = {i1}
  NoItem = NoItem
  Verbs = {"steer", "resteer", "cancel", "rotate", "submit"}
  MaxParked = 0
INVARIANTS
  TurnIsDurable
PROPERTIES
  QueuedWorkIsDispatched
