SPECIFICATION Spec
CONSTANTS
  r1 = r1
  s1 = s1
  e = e
  NoPhase = NoPhase
  BadTarget = BadTarget
  NoMetadata = NoMetadata
  NoResult = NoResult
  Phases <- MCPhases
  FirstPhase = "research"
  Executors <- MCExecutors
  Human <- MCHuman
  OnComplete <- MCOnComplete
  OnApprove <- MCOnApprove
  CanRequestChangesFrom <- MCCanRequestChangesFrom
  Scores = {70, 90}
  Metadata = {NoMetadata, e}
  Threshold = 85
  Floor = 0
  MaxIterations = 2
  Sessions <- OneSession
  Runners <- OneRunner
  Engines <- OneEngine
  SessionOf <- MCSessionOf
  EngineOf <- MCEngineOf
  MetadataOf <- MCMetadataOf
  HasPack <- WithPack
  FinalizePhase = "finalize"
  AdhocQuestions = TRUE
  MaxFeedbackRounds = 2
  PhaseCap <- MCPhaseCap
  ExecutionResults <- DiscoveryExecutions
  ReviewResults = {}
  HumanDecisions <- Answers
  MaxWork = 3
  MaxReviews = 2
  MaxInterrupts = 1
INVARIANTS
  CompletedPackHandsOff
  Inv
  AppliedMeansActed
  ReuseNeedsStop
PROPERTIES
  DurableSpec
  LockedPackFrozen
CHECK_DEADLOCK FALSE
