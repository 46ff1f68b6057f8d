SPECIFICATION Spec
CONSTANTS
  r1 = r1
  NoPhase = NoPhase
  BadTarget = BadTarget
  NoMetadata = NoMetadata
  NoResult = NoResult
  Phases <- MCPhases
  FirstPhase = "triage"
  Executors <- MCExecutors
  Human = {}
  OnComplete <- MCOnComplete
  OnApprove <- MCOnApprove
  CanRequestChangesFrom <- MCCanRequestChangesFrom
  Scores = {40, 70, 90}
  Metadata = {NoMetadata, r1}
  Threshold = 85
  Floor = 50
  MaxIterations = 2
  Sessions = {"s"}
  Runners <- OneRunner
  Engines <- OneRunner
  SessionOf <- MCSessionOf
  EngineOf <- MCEngineOf
  MetadataOf <- MCMetadataOf
  HasPack <- NoPack
  FinalizePhase = NoPhase
  AdhocQuestions = FALSE
  MaxFeedbackRounds = 1
  PhaseCap <- MCPhaseCap
  ExecutionResults <- MCExecutionResults
  ReviewResults <- MCReviewResults
  HumanDecisions = {}
  MaxWork = 5
  MaxReviews = 4
  MaxInterrupts = 1
INVARIANTS
  EntriesNumbered
  FeedbackLoopsCounted
  ArtifactsMatch
  FindingsReachExecutor
  FeedbackCapped
PROPERTIES
  DurableSpec
CHECK_DEADLOCK FALSE
