\* Two sessions whose executor phases are bound to one role object, as sessions
\* run by one AsyncWorkflowSession are.
SPECIFICATION Spec
CONSTANTS
  Names <- MCNames
  NoPhase = NoPhase
  BadTarget = BadTarget
  NoRule = NoRule
  Unset = Unset
  s1 = s1
  s2 = s2
  r1 = r1
  r2 = r2
  Sessions = {s1, s2}
  RoleObject <- SharedRole
  MaxRetries = 1
  BackfillRetries = 1
  Gates <- MCGates
  Setups <- MCSetups
  ExecutorTexts <- MCExecutorTexts
  ReviewerTexts <- MCReviewerTexts
  FileTexts <- MCFileTexts
  Tokens = {0, 1}
INVARIANTS
  UsageIsOwn
\* Calls end, and a refused configuration leaves nothing to do.
CHECK_DEADLOCK FALSE
