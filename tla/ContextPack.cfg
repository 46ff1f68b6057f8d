\* The context pack writer, crashed and retried, its loader, and a role's prompt.
CONSTANTS
  Unset = Unset
  NoPhase = NoPhase
  Ids <- PackIds
  Metadata <- PackMetadata
  Snapshots <- PackSnapshots
  HandFiles <- PackHandFiles
  Documents <- PackDocuments
  Questions <- PackQuestions
  Answers = {"yes", "no"}
  Settings <- PackSettings
  MaxSize = 2
  MaxOps = 3
SPECIFICATION PackSpec
CHECK_DEADLOCK FALSE
INVARIANTS
  PackTypeOK
  ValidPackIsWhole
  PromptInScope
  NothingShownTwice
  HandedOverIsShown
PROPERTIES
  QuestionsOnlyGrow
  LockIsKept
