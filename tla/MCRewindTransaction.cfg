SPECIFICATION FairSpec
CONSTANTS
  Path = {1, 2}
  Absent = Absent
  Edited = Edited
  Initial <- MCInitial
  Works <- MCWorks
  MaxTurns = 2
  MaxTx = 2
  MaxFaults = 2
  Faults = {"edit"}
INVARIANTS
  TypeOK
  CheckpointsMatchTalk
  UndoneOnce
PROPERTIES
  AllOrNothing
  EditsSurvive
  RecoveryConverges
CHECK_DEADLOCK FALSE
