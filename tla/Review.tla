------------------------------- MODULE Review -------------------------------
(***************************************************************************)
(* The review of a submitted quest: bossbattle and redteam, running in one *)
(* process and meeting only in the KV bucket, with the agents, the         *)
(* operator and agentprogression around them.                              *)
(***************************************************************************)
EXTENDS BossBattle, RedTeam

CONSTANTS
  ApiWrites,     \* whether an operator fails quests through the API
  RestartBound   \* bound: restarts of the process

ASSUME ReviewAssumption ==
  /\ ApiWrites \in BOOLEAN
  /\ RestartBound \in Nat

VARIABLES
  restarts,      \* restarts so far
  signalled,     \* history: quests whose present submission the red team has answered
  disturbed      \* history: quests whose review somebody has cut into (see Next)

history == <<signalled, disturbed>>

vars == <<storeVars, bossVars, redVars, restarts, history>>

Init ==
  /\ StoreInit
  /\ BossInit
  /\ RedInit
  /\ restarts = 0
  /\ signalled = {} /\ disturbed = {}

-----------------------------------------------------------------------------
(* The agents, through questboard and questbridge.                         *)

\* An idle agent claims and starts a posted quest; the claim counts an attempt.
Claim(q, a) ==
  /\ Prompt
  /\ quest[q].status = "posted"
  /\ agent[a] = Released
  /\ EmitEntityUpdate(q, [quest[q] EXCEPT !.status = "in_progress", !.claimedBy = a,
                                          !.attempts = @ + 1])
  /\ agent' = [agent EXCEPT ![a] = [status |-> "on_quest", current |-> q]]
  /\ UNCHANGED <<review, part, bossVars, redVars, restarts, history>>

\* The result is submitted; a party's quest comes with its sub-quests completed.
Submit(q) ==
  /\ Prompt
  /\ quest[q].status = "in_progress"
  /\ EmitEntityUpdate(q, [quest[q] EXCEPT !.status = "in_review",
                                          !.dag = (NodesOf[q] # {})])
  /\ part' = [s \in SubQuests |-> IF s \in NodesOf[q] THEN "completed" ELSE part[s]]
  /\ signalled' = signalled \ {q}
  /\ UNCHANGED <<review, agent, bossVars, redVars, restarts, disturbed>>

\* The red team's agents: claim, and complete or fail, a red-team quest.
WorkOnReview(r) ==
  /\ Prompt
  /\ \/ /\ review[r].status = "posted"
        /\ review[r].attempts < MaxAttempts[r]
        /\ EmitReview(r, [review[r] EXCEPT !.status = "in_progress", !.attempts = @ + 1],
                      redteamFeed)
     \/ /\ review[r].status = "in_progress"
        /\ EmitReview(r, [review[r] EXCEPT !.status = "completed"], redteamFeed)
     \/ /\ review[r].status = "in_progress"
        /\ EmitReview(r, FailedReview(r), redteamFeed)
  /\ UNCHANGED <<quest, part, agent, owed, battleFeed>>
  /\ UNCHANGED <<bossVars, redVars, restarts, history>>

\* agentprogression releases the holder of a completed or failed quest, whatever the
\* agent does by then.  (The cooldown after a failure counts as idle.)
ReleaseOwed(a) ==
  /\ a \in owed
  /\ owed' = owed \ {a}
  /\ agent' = [agent EXCEPT ![a] = Released]
  /\ UNCHANGED <<quest, review, part, battleFeed, redteamFeed>>
  /\ UNCHANGED <<bossVars, redVars, restarts, history>>

\* handleFailQuest of the API: releases the holder, counts an attempt, reposts or fails,
\* whether or not judges are at it.  (Its two puts are one step.)
ApiFail(q) ==
  LET rec == [quest[q] EXCEPT !.attempts = @ + 1]
  IN  /\ ApiWrites /\ Prompt
      /\ quest[q].status \in {"in_progress", "in_review"}
      /\ EmitEntityUpdate(q, IF rec.attempts >= MaxAttempts[q]
                             THEN [rec EXCEPT !.status = "failed"]
                             ELSE [rec EXCEPT !.status = "posted", !.claimedBy = None])
      /\ agent' = [a \in Agents |-> IF a = quest[q].claimedBy THEN Released ELSE agent[a]]
      /\ disturbed' = disturbed \cup {p \in {q} : quest[p].status = "in_review"}
      /\ UNCHANGED <<review, part, bossVars, redVars, restarts, signalled>>

-----------------------------------------------------------------------------
\* The process dies and comes back: memory is gone, and each watch first delivers the
\* last value of every key to an empty cache.
Restart ==
  /\ restarts < RestartBound
  /\ restarts' = restarts + 1
  /\ UNCHANGED <<quest, review, part, agent, history>>
  /\ owed' = {} /\ battleFeed' = <<>> /\ redteamFeed' = <<>>
  /\ questCache' = StatusOf /\ seen' = SeenOf
  /\ redTeamPending' = [q \in Quests |-> None]
  /\ swept' = None
  /\ marking' = [s \in Starters |-> None]
  /\ battle' = [b \in Battles |-> NoBattle]
  /\ pendingReviews' = [q \in Quests |-> None]
  /\ timers' = {}
  /\ call' = [w \in Writers |-> NoCall]

\* The red team's signal on the present submission of q is stored.
Answered ==
  {q \in Quests : \E w \in Writers : /\ call[w].pc = "cas" /\ call[w].quest = q
                                     /\ call'[w].pc = "idle" /\ quest'[q] # quest[q]}

\* The safety sweep starts a battle with an entry that the watch has taken meanwhile.
SweptTwice ==
  {q \in Quests : swept # None /\ swept' = None /\ swept.quest = q
                   /\ redTeamPending[q] # swept.copy}

\* The put of the link, last-writer-wins, takes back a submission that came after its read.
TakenBack ==
  {q \in Quests : /\ quest[q].status = "in_review"
                  /\ \/ quest'[q].status # "in_review"
                     \/ quest'[q].attempts # quest[q].attempts}

Next ==
  \/ BossStep /\ disturbed' = disturbed \cup SweptTwice
     /\ UNCHANGED <<redVars, restarts, signalled>>
  \/ RedStep /\ signalled' = signalled \cup Answered /\ disturbed' = disturbed \cup TakenBack
     /\ UNCHANGED <<bossVars, restarts>>
  \/ \E q \in Quests, a \in Agents : Claim(q, a)
  \/ \E q \in Quests : Submit(q) \/ ApiFail(q)
  \/ \E r \in Reviews : WorkOnReview(r)
  \/ \E a \in Agents : ReleaseOwed(a)
  \/ Restart

\* The goroutines of the three processors are scheduled; agents and operators do as they
\* like.
Fairness ==
  /\ BossFairness /\ RedFairness
  /\ \A a \in Agents : WF_vars(ReleaseOwed(a))

Spec == Init /\ [][Next]_vars /\ Fairness

-----------------------------------------------------------------------------
(* Properties.                                                             *)

\* The shape of the stored entities and of what the goroutines hold.
TypeOK ==
  /\ StoreTypeOK /\ BossTypeOK /\ RedTypeOK
  /\ restarts \in 0..RestartBound
  /\ signalled \in SUBSET Quests /\ disturbed \in SUBSET Quests

\* No submission is forgotten: without restarts and human judges a quest in review gets a
\* verdict, though the watches lag, reviews fail or time out, signals race, and the
\* red-team quest is never claimed (docs/02-DESIGN.md: the system never blocks on
\* red-team availability).
JudgedEventually ==
  \A q \in Quests : quest[q].status = "in_review" ~> quest[q].status # "in_review"

\* A quest is fought over by one battle at a time (LoadAndDelete of redTeamPending, the
\* status cache of the watch), through restarts, lags, late signals and links.  Three things
\* alone may cut in: the link of the red team takes a later submission back, the API fails a
\* quest in review, and the safety sweep starts what the watch has taken from under it.
OneBattle ==
  \A b, c \in Battles :
    /\ battle[b].pc # "none" /\ battle[c].pc # "none"
    /\ battle[b].quest = battle[c].quest /\ battle[b].quest \notin disturbed
    => b = c

\* While judges evaluate a snapshot, the stored quest is in review with that very attempt,
\* so the verdict is not about work the store has moved past (runEvaluation), unless one of
\* those three has cut in.
JudgesStoredSubmission ==
  \A b \in Battles : battle[b].pc = "evaluating" /\ battle[b].quest \notin disturbed =>
    /\ quest[battle[b].quest].status = "in_review"
    /\ quest[battle[b].quest].attempts = battle[b].copy.attempts

\* A defeat fails every sub-quest of the attempt before the quest leaves review, so the
\* next attempt meets no sub-quest of the last one (failPartySubQuests), with the same
\* three exceptions.
DefeatFailsParts ==
  [][\A q \in Quests \ disturbed' :
       quest[q].status = "in_review" /\ quest'[q].status \in {"posted", "failed"}
         => \A s \in NodesOf[q] : part[s] = "failed"]_vars

\* A quest that waits for its red team has a timeout running that will answer for it
\* (watchTimeout), through restarts, operators and sweeps.
WaitIsTimed ==
  \A q \in Quests : pendingReviews[q] # None => \E r \in timers : review[r].target = q

\* docs/02-DESIGN.md: the red team reviews a submission before the boss battle evaluates
\* it.  So a battle starts only once the red team has answered that submission.
ReviewedBeforeJudged ==
  [][\A b \in Battles : battle[b].pc = "none" /\ battle'[b].pc = "evaluating"
       => battle'[b].quest \in signalled]_vars

\* docs/03-QUESTS.md sets the agent in_battle before the evaluation, whose verdict frees
\* it.  So nobody stays in battle.
FighterFreed ==
  \A a \in Agents : agent[a].status = "in_battle" ~> agent[a].status # "in_battle"
=============================================================================
