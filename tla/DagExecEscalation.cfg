\* Work that is started after the parent was escalated.
SPECIFICATION Spec
CONSTANTS
  m1 = m1
  m2 = m2
  None = None
  NodeCount = 3
  DependsOn <- MCJoin
  Members = {m1, m2}
  Fit <- MCFit
  Reviewed = {1}
  Unclear = {2}
  Settings <- Undisturbed
  LagBound = 1
  SalvageBound = 1
  MishapBound = 1
PROPERTIES NoWorkAfterEscalation
CHECK_DEADLOCK FALSE
