SPECIFICATION Spec
CONSTANTS
  Run = {"scribe", "guard"}
  Parent = {"main"}
  Name <- MCName
  Fold <- NoFold
  NoRoot = NoRoot
  Workspace <- MCWorkspace
  Declared <- MCDeclared
  Calls <- LinkCalls
  Real <- LinkedReal
  MaxCalls = 2
CHECK_DEADLOCK FALSE
INVARIANT
  OneWriterPerFile
