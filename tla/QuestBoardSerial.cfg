\* One handler at a time; the process may die once between two writes.
SPECIFICATION Spec
CONSTANTS
  q1 = q1
  q2 = q2
  a1 = a1
  a2 = a2
  p1 = p1
  None = None
  c1 = c1
  c2 = c2
  Quests = {q1, q2}
  Agents = {a1, a2}
  Parties = {p1}
  Callers = {c1}
  Members <- MCMembers
  Lead <- MCLead
  Qualified <- MCQualified
  PartyFit <- MCPartyFit
  Decomposers <- MCDecomposers
  NeedsReview = {q1}
  TriageEligible = {q2}
  ChainDeps <- MCChainDeps
  MaxAttempts <- MCMaxAttempts
  OtherStatuses = {"idle", "in_battle"}
  WriteErrors = FALSE
  AttemptBound = 2
  CrashBound = 1
INVARIANTS NoDanglingAssignment
PROPERTIES ImplementsLifecycle
CHECK_DEADLOCK FALSE
