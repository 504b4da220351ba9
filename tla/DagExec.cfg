\* Calm executions, and executions with one mishap and a timeout anywhere.
SPECIFICATION Spec
CONSTANTS
  m1 = m1
  m2 = m2
  None = None
  NodeCount = 3
  DependsOn <- MCJoin
  Members = {m1, m2}
  Fit <- MCFit
  Reviewed = {1}
  Unclear = {2}
  Settings <- EachFault
  LagBound = 1
  SalvageBound = 1
  MishapBound = 1
INVARIANTS NoDoubleBooking NodesTrackSubQuests
PROPERTIES ImplementsTaskGraph ParentReleased
CHECK_DEADLOCK FALSE
