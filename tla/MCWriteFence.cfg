SPECIFICATION Spec
CONSTANTS
  Run = {"scribe", "guard"}
  Parent = {"main"}
  Name <- MCName
  Fold <- NoFold
  NoRoot = NoRoot
  Workspace <- MCWorkspace
  Declared <- MCDeclared
  Calls <- Moves
  Real <- MCReal
  MaxCalls = 2
CHECK_DEADLOCK FALSE
INVARIANTS
  OneWriterPerFile
  WritesInsideScope
  ReservationsAreHeld
