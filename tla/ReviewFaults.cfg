\* Watches that lag, restarts, an operator, human judges and the safety sweep.
SPECIFICATION MCLaggingSpec
CONSTANTS
  q1 = q1
  r1 = r1
  r2 = r2
  s1 = s1
  a1 = a1
  b1 = b1
  b2 = b2
  None = None
  Quests = {q1}
  Reviews = {r1}
  Agents = {a1}
  NodesOf <- MCNoNodes
  MaxAttempts <- MCMoreAttempts
  Battles = {b1, b2}
  RedTeamEnabled = TRUE
  HumanJudge = TRUE
  SafetyTimeout = TRUE
  MaxTries = 1
  BattleLag = 2
  RedteamLag = 4
  ApiWrites = TRUE
  RestartBound = 1
CONSTRAINT Undisturbed
INVARIANTS   WaitIsTimed
CHECK_DEADLOCK FALSE
