----------------------------- MODULE BossBattle -----------------------------
(***************************************************************************)
(* processor/bossbattle: a watch on quest entities starts a battle for     *)
(* every quest that enters review, at once or, with red-team review on,    *)
(* when the red team's signal shows up on the quest.  A battle is a        *)
(* goroutine with a snapshot of the quest; its verdict puts the snapshot   *)
(* back as completed, reposted or failed, last-writer-wins.                *)
(*                                                                         *)
(* Not modelled: the battle and peer-review entities, which no guard reads, *)
(* the auto-pass of quests with ReviewAuto, which PostQuest replaces by    *)
(* ReviewStandard on every quest that asks for review, setIndexed, whose   *)
(* compare-and-swap sets a flag that no guard of either watch reads, and   *)
(* failing writes.                                                         *)
(***************************************************************************)
EXTENDS ReviewStore

CONSTANTS
  Battles,        \* bound: goroutines running at once, and their identifiers
  RedTeamEnabled, \* bossbattle.red_team_enabled
  HumanJudge,     \* whether a judge may answer Pending
  SafetyTimeout   \* whether a battle may wait longer than redTeamSafetyTimeout

ASSUME BossBattleAssumption ==
  {RedTeamEnabled, HumanJudge, SafetyTimeout} \subseteq BOOLEAN

VARIABLES
  questCache,     \* statuses the watch has seen
  redTeamPending, \* snapshot of each quest that waits for the red team
  swept,          \* entry the safety sweep has read and not yet deleted
  marking,        \* agent a starter of battles has still to set in_battle
  battle          \* activeBattles: snapshot and progress of each evaluation

bossVars == <<questCache, redTeamPending, swept, marking, battle>>

\* The two goroutines that call startBattleForQuest.
Starters == {"watcher", "sweeper"}

NoBattle == [pc |-> "none", quest |-> None, copy |-> None, nodes |-> {}]

\* What a watch has cached after it has delivered the last value of every key.
StatusOf == [q \in Quests |-> quest[q].status]

BossInit ==
  /\ questCache = StatusOf
  /\ redTeamPending = [q \in Quests |-> None]
  /\ swept = None
  /\ marking = [s \in Starters |-> None]
  /\ battle = [b \in Battles |-> NoBattle]

BossTypeOK ==
  /\ questCache \in [Quests -> Statuses]
  /\ redTeamPending \in [Quests -> QuestRec \cup {None}]
  /\ swept \in [quest : Quests, copy : QuestRec] \cup {None}
  /\ marking \in [Starters -> Agents \cup {None}]
  /\ battle \in [Battles -> {NoBattle} \cup
            [pc : {"evaluating", "release", "nodes", "put"}, quest : Quests,
             copy : QuestRec, nodes : SUBSET SubQuests]]

-----------------------------------------------------------------------------
(* Starting battles.                                                       *)

\* startBattleForQuest, StartBattle: the evaluation runs with the snapshot rec from now
\* on, and only then is the agent set in_battle.
StartBattle(who, q, rec) ==
  LET free == {b \in Battles : battle[b].pc = "none"}
  IN
    /\ free # {}
    /\ battle' = [battle EXCEPT ![CHOOSE b \in free : TRUE] =
                    [pc |-> "evaluating", quest |-> q, copy |-> rec, nodes |-> {}]]
    /\ marking' = [marking EXCEPT ![who] = rec.claimedBy]

\* The watch takes its next entry once it is done with the one before.
Watching == battleFeed # <<>> /\ marking["watcher"] = None

\* Mutant: the waiting battle is looked up, not taken.
WatchSignalAgain ==
  LET q == Head(battleFeed).key
      rec == Head(battleFeed).rec
  IN  /\ Watching
      /\ rec.rtStatus # "" /\ rec.status = "in_review" /\ redTeamPending[q] # None
      /\ StartBattle("watcher", q, quest[q])
      /\ battleFeed' = Tail(battleFeed)
      /\ UNCHANGED <<quest, review, part, agent, owed, redteamFeed>>
      /\ UNCHANGED <<questCache, redTeamPending, swept>>

\* A red-team signal on a quest that waits for one: the battle starts with the quest as
\* stored now.  This return leaves questCache as it is.
WatchSignal ==
  LET q == Head(battleFeed).key
      rec == Head(battleFeed).rec
  IN  /\ Watching
      /\ rec.rtStatus # "" /\ rec.status = "in_review" /\ redTeamPending[q] # None
      /\ redTeamPending' = [redTeamPending EXCEPT ![q] = None]
      /\ StartBattle("watcher", q, quest[q])
      /\ battleFeed' = Tail(battleFeed)
      /\ UNCHANGED <<quest, review, part, agent, owed, redteamFeed>>
      /\ UNCHANGED <<questCache, swept>>

\* Mutant: any transition counts.
EnteredAnything(cache, key, status) == cache[key] # status

\* A transition into review, as the cache sees it.
Entered(cache, key, status) ==
  cache[key] # status /\ status = "in_review"

\* Any other entry: compared with the cache, it starts a battle, defers one, or nothing.
WatchStatus ==
  LET q == Head(battleFeed).key
      rec == Head(battleFeed).rec
      signalled == rec.rtStatus # ""
  IN  /\ Watching
      /\ ~(signalled /\ rec.status = "in_review" /\ redTeamPending[q] # None)
      /\ battleFeed' = Tail(battleFeed)
      /\ questCache' = [questCache EXCEPT ![q] = rec.status]
      /\ \/ /\ ~Entered(questCache, q, rec.status)
            /\ UNCHANGED <<redTeamPending, battle, marking>>
         \/ /\ Entered(questCache, q, rec.status)
            /\ RedTeamEnabled /\ ~signalled
            /\ redTeamPending' = [redTeamPending EXCEPT ![q] = rec]
            /\ UNCHANGED <<battle, marking>>
         \/ /\ Entered(questCache, q, rec.status)
            /\ ~RedTeamEnabled \/ signalled
            /\ StartBattle("watcher", q, rec)
            /\ UNCHANGED redTeamPending
      /\ UNCHANGED <<quest, review, part, agent, owed, redteamFeed>>
      /\ UNCHANGED swept

\* sweepStalePendingRedTeam: Range hands the sweep an entry ...
SweepRead(q) ==
  /\ RedTeamEnabled /\ SafetyTimeout
  /\ swept = None /\ marking["sweeper"] = None
  /\ redTeamPending[q] # None
  /\ swept' = [quest |-> q, copy |-> redTeamPending[q]]
  /\ UNCHANGED storeVars
  /\ UNCHANGED <<questCache, redTeamPending, marking, battle>>

\* ... and the sweep deletes it, whether or not the watch has taken it meanwhile.
SweepStart ==
  /\ swept # None
  /\ redTeamPending' = [redTeamPending EXCEPT ![swept.quest] = None]
  /\ StartBattle("sweeper", swept.quest, swept.copy)
  /\ swept' = None
  /\ UNCHANGED storeVars
  /\ UNCHANGED questCache

\* startBattleForQuest after StartBattle returned: whatever the agent is by now, it is put
\* back as in_battle.  (The read and the put are one step here.)
MarkAgent(s) ==
  /\ marking[s] # None
  /\ agent' = [agent EXCEPT ![marking[s]].status = "in_battle"]
  /\ marking' = [marking EXCEPT ![s] = None]
  /\ UNCHANGED <<quest, review, part, owed, battleFeed, redteamFeed>>
  /\ UNCHANGED <<questCache, redTeamPending, swept, battle>>

-----------------------------------------------------------------------------
(* Verdicts: runEvaluation.                                                *)

\* A defeat is answered with another attempt.
RetryGranted(rec, q) == rec.attempts < MaxAttempts[q] /\ MaxAttempts[q] > 1

\* The judges approve.
Victory(b) ==
  /\ battle[b].pc = "evaluating"
  /\ battle' = [battle EXCEPT ![b].pc = "put", ![b].copy.status = "completed"]
  /\ UNCHANGED storeVars
  /\ UNCHANGED <<questCache, redTeamPending, swept, marking>>

\* The judges reject, or the evaluation errs.  The attempt is counted again, after the
\* claim that counted it.
Defeat(b) ==
  LET q == battle[b].quest
      rec == battle[b].copy
      nodes == IF rec.dag THEN NodesOf[q] ELSE {}
  IN  /\ battle[b].pc = "evaluating"
      /\ battle' = [battle EXCEPT ![b] =
           IF RetryGranted(rec, q)
           THEN [@ EXCEPT !.pc = "release", !.nodes = nodes,
                          !.copy.attempts = rec.attempts + 1]
           ELSE [@ EXCEPT !.pc = "nodes", !.nodes = nodes, !.copy.status = "failed"]]
      /\ UNCHANGED storeVars
      /\ UNCHANGED <<questCache, redTeamPending, swept, marking>>

\* A human judge: the goroutine ends and nothing is written.
AwaitHuman(b) ==
  /\ HumanJudge
  /\ battle[b].pc = "evaluating"
  /\ battle' = [battle EXCEPT ![b] = NoBattle]
  /\ UNCHANGED storeVars
  /\ UNCHANGED <<questCache, redTeamPending, swept, marking>>

\* Retry: the holder is put idle, then the snapshot is reset.
ReleaseFighter(b) ==
  LET rec == battle[b].copy
  IN  /\ battle[b].pc = "release"
      /\ agent' = IF rec.claimedBy = None THEN agent
                  ELSE [agent EXCEPT ![rec.claimedBy] = Released]
      /\ battle' = [battle EXCEPT ![b].pc = "nodes", ![b].copy =
                      [rec EXCEPT !.status = "posted", !.claimedBy = None, !.dag = FALSE]]
      /\ UNCHANGED <<quest, review, part, owed, battleFeed, redteamFeed>>
      /\ UNCHANGED <<questCache, redTeamPending, swept, marking>>

\* Mutant: completed sub-quests are spared.
FailNodeSpared(b) ==
  /\ battle[b].pc = "nodes" /\ battle[b].nodes # {}
  /\ \E s \in battle[b].nodes :
       /\ part' = IF part[s] = "completed" THEN part ELSE [part EXCEPT ![s] = "failed"]
       /\ battle' = [battle EXCEPT ![b].nodes = @ \ {s}]
  /\ UNCHANGED <<quest, review, agent, owed, battleFeed, redteamFeed>>
  /\ UNCHANGED <<questCache, redTeamPending, swept, marking>>

\* failPartySubQuests: one sub-quest read and, unless it is failed already, put as failed.
FailNode(b) ==
  /\ battle[b].pc = "nodes"
  /\ \E s \in battle[b].nodes :
       /\ part' = [part EXCEPT ![s] = "failed"]
       /\ battle' = [battle EXCEPT ![b].nodes = @ \ {s}]
  /\ UNCHANGED <<quest, review, agent, owed, battleFeed, redteamFeed>>
  /\ UNCHANGED <<questCache, redTeamPending, swept, marking>>

\* The snapshot is put over whatever is stored.
PutVerdict(b) ==
  /\ \/ battle[b].pc = "put"
     \/ battle[b].pc = "nodes" /\ battle[b].nodes = {}
  /\ EmitEntityUpdate(battle[b].quest, battle[b].copy)
  /\ battle' = [battle EXCEPT ![b] = NoBattle]
  /\ UNCHANGED <<review, part, agent>>
  /\ UNCHANGED <<questCache, redTeamPending, swept, marking>>

BattleStep(b) ==
  \/ Victory(b) \/ Defeat(b) \/ AwaitHuman(b)
  \/ ReleaseFighter(b) \/ FailNode(b) \/ PutVerdict(b)

BossStep ==
  \/ WatchSignal \/ WatchStatus
  \/ \E q \in Quests : SweepRead(q)
  \/ SweepStart
  \/ \E s \in Starters : MarkAgent(s)
  \/ \E b \in Battles : BattleStep(b)

\* Every goroutine is scheduled, every evaluation ends (DefaultTimeout bounds it), and the
\* sweep's ticker ticks.
BossFairness ==
  /\ WF_<<storeVars, bossVars>>(WatchSignal \/ WatchStatus)
  /\ WF_<<storeVars, bossVars>>(SweepStart \/ \E q \in Quests : SweepRead(q))
  /\ \A s \in Starters : WF_<<storeVars, bossVars>>(MarkAgent(s))
  /\ \A b \in Battles : WF_<<storeVars, bossVars>>(BattleStep(b))
=============================================================================
