SPECIFICATION TownSpec
CONSTANTS
 BoardQuests = {q1}
 Evaluations = {e1, e2}
 AgentLag = 0
 StirBound = 2
 Feats = {f1}
 Winner = winner
 Orphan = orphan
 Deeds <- MCDeeds
 LevelCap = 4
 RatingBound = 1
 RepeatBound = 2
 Folk = {a, b, c}
 QuorumSize = 2
 MaxGuildSize = 2
 QuorumModes = {TRUE, FALSE}
 GuildOpBound = 3
 Adventurers = {a, b}
 Leads = {a, b}
 Seniors = {a}
 RequireArtifactIndexing = TRUE
 MinPartySize = 2
 BusyBound = 1
 RepostBound = 1
 CoordCrashBound = 1
 DMModes = {"full_auto", "assisted", "supervised"}
 Defeats = 2
 TriageCrashes = 1
 Bills = {b1, b2}
 HourlyLimit = 1
 SpendBound = 2
 HourBound = 1
 DecreeBound = 1
 Tills = {t1, t2}
 Purse = 2
 ItemPrice = 1
 TradeBound = 2
 MeddleBound = 1
 StoreCrashes = 1
 Edits = {"Status", "Name", "Verdict", "Effect", "UpdatedAt", "Member"}
 RewriteBound = 1
 Boids = {"a1", "a2"}
 Postings = {"q1", "q2"}
 Bands = {"g1"}
 BoidTraits <- MCBoidTraits
 PostingTraits <- MCPostingTraits
 BandTraits <- MCBandTraits
 PeerScores <- MCPeerScores
 SharedWins <- MCSharedWins
 Rules <- MCRules
 MaxSuggestionsPerAgent = 3
 GuildFormMinUnguilded = 2
 GuildJoinThreshold = 300
 FlockLag = 1
 FlockCrashes = 1
 Jobs = {"q1", "q2"}
 JobDeps <- MCJobDeps
 JobPaths <- MCJobPaths
 WriteBound = 1
 SandboxMishaps = 1
 Orders = {"q1", "q2"}
 Hands = {"a1", "a2"}
 OrderTraits <- MCOrderTraits
 HandTraits <- MCHandTraits
 Retirees = {"a2"}
 Chain <- MCChain
 Requests = {1, 2}
 OrderAttempts = 1
 DeskCrashes = 1
 LateBound = 1
 PeerReviews = {"r1", "r2"}
 SoloReviews = {"r2"}
 PeerRequests = {1, 2}
 CallBound = 2
 CallKinds <- MCCallKinds
 ToolTiers <- MCToolTiers
 ToolMishaps = 1
 GraphSources <- MCGraphSources
 Namespaces = {"game", "code"}
 ReadyPolls = 3
 ArrivalBound = 2
 AskBound = 1
 WeatherBound = 2
 CriterionNames = {"correctness", "completeness", "quality", "style", "wit"}
 Catalogs <- MCCatalogs
 JudgeAnswers <- MCJudgeAnswers
 DagNodes <- MCDagNodes
 DagDeps <- MCDagDeps
 NodeSkills <- MCNodeSkills
 Heroes = {"lead", "hand"}
 HeroTraits <- MCHeroTraits
 ToolTraits <- MCToolTraits
 Capabilities <- MCCapabilities
 GuildLessons <- MCGuildLessons
 MaxLessons = 1
 QuestionBound = 1
 BriefMishaps = 1
 Chatters = {1, 2}
 DmAnswers <- MCDmAnswers
 MaxToolRounds = 2
 MaxChatSessions = 2
 AppendTries = 3
 TurnBound = 3
 ChatMishaps = 1
CHECK_DEADLOCK FALSE
INVARIANTS HeartbeatAlive WatchersLoseNothing PaidOnce OneGrantPerDefeat OverBudgetIsPaused PurchasesStay MergedWorkReaches AssignmentsAgree ReviewsStayBlind CallsAnswered OneQuestWaits VerdictsHonest BriefedOnDependencies WorthySuggested TurnsKept
PROPERTIES RivalsKeepQuests EndsPaid DissolvedForGood PartyQuestStarts TriageDecided FieldsSurvive
