\* Roles of concurrent sessions, each with role objects of its own.
SPECIFICATION Spec
CONSTANTS
  Names <- MCNames
  NoPhase = NoPhase
  BadTarget = BadTarget
  NoRule = NoRule
  Unset = Unset
  s1 = s1
  s2 = s2
  r1 = r1
  r2 = r2
  Sessions = {s1, s2}
  RoleObject <- OwnRole
  MaxRetries = 1
  BackfillRetries = 1
  Gates <- MCGates
  Setups <- MCSetups
  ExecutorTexts <- MCExecutorTexts
  ReviewerTexts <- MCReviewerTexts
  FileTexts <- MCFileTexts
  Tokens = {0, 1}
INVARIANTS
  RolesTypeOK
  AcceptedIsGraph
  AnswersAreFound
  UsageIsOwn
  FilesAreBackfilled
  ResultRoutes
PROPERTIES
  CallsEnd
\* Calls end, and a refused configuration leaves nothing to do.
CHECK_DEADLOCK FALSE
