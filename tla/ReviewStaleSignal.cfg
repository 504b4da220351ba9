\* The signal of the first round is still on the quest in the second.
SPECIFICATION MCSpec
CONSTANTS
  q1 = q1
  r1 = r1
  r2 = r2
  s1 = s1
  a1 = a1
  b1 = b1
  b2 = b2
  None = None
  Quests = {q1}
  Reviews = {r1, r2}
  Agents = {a1}
  NodesOf <- MCNoNodes
  MaxAttempts <- MCMaxAttempts
  Battles = {b1, b2}
  RedTeamEnabled = TRUE
  HumanJudge = FALSE
  SafetyTimeout = FALSE
  MaxTries = 1
  BattleLag = 1
  RedteamLag = 1
  ApiWrites = FALSE
  RestartBound = 0
PROPERTIES ReviewedBeforeJudged
CHECK_DEADLOCK FALSE
