SPECIFICATION TracedSpec
CONSTANTS
  r1 = r1
  s1 = s1
  NoPhase = NoPhase
  BadTarget = BadTarget
  NoMetadata = NoMetadata
  NoResult = NoResult
  Phases <- MCPhases
  FirstPhase = "draft"
  Executors <- MCExecutors
  Human <- MCHuman
  OnComplete <- MCOnComplete
  OnApprove <- MCOnApprove
  CanRequestChangesFrom <- MCCanRequestChangesFrom
  Scores = {70, 90}
  Metadata = {NoMetadata, r1}
  Threshold = 85
  Floor = 0
  MaxIterations = 2
  Sessions <- OneSession
  Runners <- OneRunner
  Engines <- OneRunner
  SessionOf <- MCSessionOf
  EngineOf <- MCEngineOf
  MetadataOf <- MCMetadataOf
  HasPack <- WithPack
  FinalizePhase = "finalize"
  AdhocQuestions = TRUE
  MaxFeedbackRounds = 1
  PhaseCap <- MCPhaseCap
  ExecutionResults <- MCExecutionResults
  ReviewResults <- MCReviewResults
  HumanDecisions <- Answers
  MaxWork = 3
  MaxReviews = 3
  MaxInterrupts = 2
INVARIANTS
  TracedTypeOK
  NoSpanLost
  TotalsAgree
  CommitsCounted
PROPERTIES
  OwnParent
  EndIsTraced
CHECK_DEADLOCK FALSE
