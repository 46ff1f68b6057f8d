SPECIFICATION Spec
CONSTANTS
  engine = engine
  tool = tool
  NoRecord = NoRecord
  NoFile = NoFile
  Clients <- OneClient
  Serial = TRUE
  MayDelete = TRUE
  MaxSaves = 4
  MaxCrashes = 4
INVARIANTS
  TypeOK
PROPERTIES
  ImplementsSnapshots
  CurrentSaveAccepted
CHECK_DEADLOCK FALSE
