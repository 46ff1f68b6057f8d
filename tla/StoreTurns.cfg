SPECIFICATION Spec
CONSTANTS
  engine = engine
  tool = tool
  NoRecord = NoRecord
  NoFile = NoFile
  Clients <- TwoClients
  Serial = TRUE
  MayDelete = FALSE
  MaxSaves = 4
  MaxCrashes = 0
PROPERTIES
  ImplementsSnapshots
CHECK_DEADLOCK FALSE
