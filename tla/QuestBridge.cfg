\* Two mishaps; nobody acts within a dispatch or the application of a result.
SPECIFICATION Spec
CONSTANTS
  q1 = q1
  a1 = a1
  l1 = l1
  l2 = l2
  None = None
  Quests = {q1}
  Agents = {a1}
  Loops = {l1, l2}
  NeedsReview = {q1}
  PartyQuests <- MCPartyQuests
  MaxAttempts <- MCMaxAttempts
  MaxClarificationRounds = 1
  StartBound = 2
  LagBound = 1
  Mishaps = {"pause", "redelivery", "restart"}
  MishapBound <- MCMishapBound
  Hurries = {TRUE, FALSE}
INVARIANT NoSpuriousDispatch
PROPERTIES EscalationsEnd MappedQuestsEnd
CHECK_DEADLOCK FALSE
