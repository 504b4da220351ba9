\* Two handlers interleave at every KV access.
SPECIFICATION Spec
CONSTANTS
  q1 = q1
  q2 = q2
  a1 = a1
  a2 = a2
  p1 = p1
  None = None
  c1 = c1
  c2 = c2
  Quests = {q1, q2}
  Agents = {a1, a2}
  Parties = {p1}
  Callers = {c1, c2}
  Members <- MCMembers
  Lead <- MCLead
  Qualified <- MCQualified
  PartyFit <- MCPartyFit
  Decomposers = {}
  NeedsReview = {}
  TriageEligible = {q2}
  ChainDeps <- MCChainDeps
  MaxAttempts <- MCMaxAttempts
  OtherStatuses = {}
  WriteErrors = TRUE
  AttemptBound = 1
  CrashBound = 0
INVARIANTS HolderMatchesStatus RetryBudgetHonoured DependenciesRanFirst
PROPERTIES ClaimLosesNothing
SYMMETRY MCSymmetry
CHECK_DEADLOCK FALSE
