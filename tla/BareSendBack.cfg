SPECIFICATION Spec
CONSTANTS
  r1 = r1
  r2 = r2
  NoPhase = NoPhase
  BadTarget = BadTarget
  NoMetadata = NoMetadata
  NoResult = NoResult
  Phases <- MCPhases
  FirstPhase = "draft"
  Executors <- MCExecutors
  Human = {}
  OnComplete <- MCOnComplete
  OnApprove <- MCOnApprove
  CanRequestChangesFrom <- MCCanRequestChangesFrom
  Scores = {40, 70, 90}
  Metadata = {NoMetadata, r1}
  Threshold = 85
  Floor = 50
  MaxIterations = 2
  Sessions = {"s"}
  Runners <- OneRunner
  Engines <- OneRunner
  SessionOf <- MCSessionOf
  EngineOf <- MCEngineOf
  MetadataOf <- MCMetadataOf
  HasPack <- NoPack
  FinalizePhase = NoPhase
  AdhocQuestions = FALSE
  MaxFeedbackRounds = 2
  PhaseCap <- MCPhaseCap
  ExecutionResults <- FewExecutions
  ReviewResults <- AnyReviews
  HumanDecisions = {}
  MaxWork = 9
  MaxReviews = 6
  MaxInterrupts = 0
INVARIANTS
  FindingsReachExecutor
CHECK_DEADLOCK FALSE
