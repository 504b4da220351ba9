\* A quest starts while the board is paused.
SPECIFICATION Spec
CONSTANTS
  q1 = q1
  a1 = a1
  l1 = l1
  l2 = l2
  None = None
  Quests = {q1}
  Agents = {a1}
  Loops = {l1, l2}
  NeedsReview = {q1}
  PartyQuests <- MCNoPartyQuests
  MaxAttempts <- MCMaxAttempts
  MaxClarificationRounds = 1
  StartBound = 2
  LagBound = 1
  Mishaps = {"pause"}
  MishapBound <- MCOneMishap
  Hurries = {FALSE}
PROPERTY PickedUpOnResume
CHECK_DEADLOCK FALSE
