---------------------------- MODULE ServiceProofs ----------------------------
(***************************************************************************)
(* Theorems about the services around the board, each on its own: the      *)
(* token budget and the switch of the board, the gate on knowledge         *)
(* sources, the tool desk, the guilds, the API's own writes, and the       *)
(* letters that agents get.                                                *)
(***************************************************************************)
EXTENDS Treasury, Knowledge, ToolDesk, GuildFormation, FrontDesk, Briefing, SequenceTheorems, TLAPS

-----------------------------------------------------------------------------
(***************************************************************************)
(* A spent budget pauses the board, for any number of goroutines that      *)
(* record, any limit, and any number of hours, restarts and decrees.       *)
(*                                                                         *)
(* The counter may be zeroed between an addition and the look at it, and   *)
(* the goroutine that crosses the limit need not be the one that sees it   *)
(* crossed.  What holds all the time is that where the counter is over the *)
(* limit, the board is paused or some goroutine has still to look, or has  *)
(* looked and is about to pause it (Watched), unless the last to look      *)
(* tried and failed.  In memory the watch has the last word: its last      *)
(* undelivered entry is what the bucket says, and with none left, and      *)
(* nobody having resumed, a paused board is flagged.                       *)
(***************************************************************************)
TreasuryShape ==
  /\ spent \in Nat /\ hourlyLimit \in Nat /\ budgetConfig \subseteq Nat
  /\ bill \in [Bills -> {"idle", "zeroing", "adding", "checking", "pausing", "flagging",
                         "saving"}]
  /\ {boardState, pausedFlag, excused, pauseFailed} \subseteq BOOLEAN
  /\ stateFeed \in Seq(BOOLEAN)
  /\ decrees \in [pauses : Nat, resumes : Nat, budgets : Nat]
  /\ crier \in {"none", "pausing", "resuming"}

Overspent == hourlyLimit > 0 /\ spent >= hourlyLimit

Watched ==
  Overspent /\ ~excused /\ ~pauseFailed =>
    boardState \/ \E b \in Bills : bill[b] \in {"checking", "pausing"}

LastWord ==
  /\ stateFeed # <<>> => stateFeed[Len(stateFeed)] = boardState
  /\ decrees.resumes = 0 =>
       crier # "resuming" /\ (stateFeed = <<>> /\ boardState => pausedFlag)

TreasuryIInv == TreasuryShape /\ Watched /\ LastWord

LEMMA TreasuryStart == TreasuryInit => TreasuryIInv
<1> SUFFICES ASSUME TreasuryInit  PROVE TreasuryIInv
  OBVIOUS
<1>1. HourlyLimit \in Nat
  BY TreasuryAssumption
<1>2. /\ bill \in [Bills -> {"idle"}] /\ stateFeed = <<>> /\ stateFeed \in Seq(BOOLEAN)
      /\ decrees = [pauses |-> 0, resumes |-> 0, budgets |-> 0]
  BY DEF TreasuryInit
<1>3. bill \in [Bills -> {"idle", "zeroing", "adding", "checking", "pausing", "flagging", "saving"}]
  BY <1>2
<1>4. decrees \in [pauses : Nat, resumes : Nat, budgets : Nat] /\ decrees.resumes = 0
  BY <1>2
<1>5. TreasuryShape
  BY <1>1, <1>2, <1>3, <1>4 DEF TreasuryInit, TreasuryShape
<1> QED  BY <1>2, <1>4, <1>5 DEF TreasuryInit, TreasuryIInv, TreasuryShape, Watched, LastWord, Overspent

\* The Records: what they add they look at, and what they see spent they pause.
LEMMA BillStep ==
  ASSUME TreasuryIInv, NEW b \in Bills,
         \/ RollEpoch(b) \/ ZeroCounters(b) \/ AddTokens(b) \/ CheckBreaker(b)
         \/ PauseFails(b) \/ ApplyPause(b) \/ PersistTotal(b)
  PROVE  TreasuryIInv'
<1> USE DEF TreasuryIInv, TreasuryShape, BillGoes
<1>1. /\ UNCHANGED <<boardState, stateFeed, decrees, crier, excused, hourlyLimit>>
      /\ pausedFlag' \in {pausedFlag, TRUE} /\ pauseFailed' \in BOOLEAN
  BY DEF RollEpoch, ZeroCounters, AddTokens, CheckBreaker, PauseFails, ApplyPause, PersistTotal
<1>2. TreasuryShape'
  <2>1. /\ spent' \in Nat /\ budgetConfig' = budgetConfig
        /\ \E at \in {"idle", "zeroing", "adding", "checking", "pausing", "saving"} :
             bill' = [bill EXCEPT ![b] = at]
    BY DEF RollEpoch, ZeroCounters, AddTokens, CheckBreaker, PauseFails, ApplyPause, PersistTotal
  <2>2. {boardState, pausedFlag, excused, pauseFailed}' \subseteq BOOLEAN
    BY <1>1
  <2>3. PICK at \in {"idle", "zeroing", "adding", "checking", "pausing", "saving"} :
               bill' = [bill EXCEPT ![b] = at]
    BY <2>1
  <2>4. bill' \in [Bills -> {"idle", "zeroing", "adding", "checking", "pausing", "flagging",
                            "saving"}]
    BY <2>3
  <2>5. spent' \in Nat /\ hourlyLimit' \in Nat /\ budgetConfig' \subseteq Nat
    BY <1>1, <2>1
  <2>6. /\ stateFeed' \in Seq(BOOLEAN) /\ crier' \in {"none", "pausing", "resuming"}
        /\ decrees' \in [pauses : Nat, resumes : Nat, budgets : Nat]
    BY <1>1
  <2> QED  BY <2>2, <2>4, <2>5, <2>6, Zenon
<1>3. LastWord'
  <2>1. pausedFlag' = pausedFlag \/ pausedFlag'
    BY <1>1
  <2>2. UNCHANGED <<boardState, stateFeed, decrees, crier>>
    BY <1>1
  <2> QED  BY <2>1, <2>2, Zenon DEF LastWord
<1>4. Watched'
  <2>1. CASE RollEpoch(b)
    BY <1>1, <2>1 DEF RollEpoch, Watched, Overspent
  <2>2. CASE ZeroCounters(b)
    BY <1>1, <2>2 DEF ZeroCounters, Watched, Overspent
  <2>3. CASE AddTokens(b)
    BY <1>1, <2>3 DEF AddTokens, Watched, Overspent
  <2>4. CASE CheckBreaker(b)
    BY <1>1, <2>4 DEF CheckBreaker, BreakerTripped, Watched, Overspent
  <2>5. CASE ApplyPause(b)
    BY <1>1, <2>5 DEF ApplyPause, Watched, Overspent
  <2>6. CASE PersistTotal(b)
    BY <1>1, <2>6 DEF PersistTotal, Watched, Overspent
  <2>7. CASE PauseFails(b)
    BY <1>1, <2>7 DEF PauseFails, Watched, Overspent
  <2> QED  BY <2>1, <2>2, <2>3, <2>4, <2>5, <2>6, <2>7
<1> QED  BY <1>2, <1>3, <1>4

\* A put of the board's state: the watch will have the last word on it.
LEMMA PutStateStep ==
  ASSUME TreasuryShape, NEW paused \in BOOLEAN, PutBoardState(paused)
  PROVE  /\ stateFeed' \in Seq(BOOLEAN) /\ stateFeed' # <<>>
         /\ stateFeed'[Len(stateFeed')] = boardState'
         /\ boardState' = paused
BY AppendProperties DEF PutBoardState, TreasuryShape

LEMMA PauseStep ==
  ASSUME TreasuryIInv,
         PauseByHand \/ Resume \/ \E b \in Bills : PutPause(b) \/ PauseUnanswered(b)
  PROVE  TreasuryIInv'
<1> USE DEF TreasuryIInv, TreasuryShape, BillGoes
<1>1. CASE PauseByHand
  <2>1. /\ decrees' \in [pauses : Nat, resumes : Nat, budgets : Nat]
        /\ decrees'.resumes = decrees.resumes
    BY <1>1 DEF PauseByHand
  <2>2. /\ stateFeed' \in Seq(BOOLEAN) /\ stateFeed' # <<>>
        /\ stateFeed'[Len(stateFeed')] = boardState' /\ boardState' = TRUE
    BY <1>1, PutStateStep DEF PauseByHand
  <2>3. /\ UNCHANGED <<spent, hourlyLimit, budgetConfig, bill, pausedFlag, excused, pauseFailed>>
        /\ crier' = "pausing"
    BY <1>1 DEF PauseByHand
  <2> QED  BY <2>1, <2>2, <2>3 DEF Watched, LastWord, Overspent
<1>2. CASE Resume
  <2>1. decrees' \in [pauses : Nat, resumes : Nat, budgets : Nat] /\ decrees'.resumes # 0
    BY <1>2 DEF Resume
  <2>2. /\ stateFeed' \in Seq(BOOLEAN) /\ stateFeed' # <<>>
        /\ stateFeed'[Len(stateFeed')] = boardState' /\ boardState' = FALSE
    BY <1>2, PutStateStep DEF Resume
  <2>3. /\ UNCHANGED <<spent, hourlyLimit, budgetConfig, bill, pausedFlag, pauseFailed>>
        /\ crier' = "resuming" /\ excused' = TRUE
    BY <1>2 DEF Resume
  <2> QED  BY <2>1, <2>2, <2>3 DEF Watched, LastWord, Overspent
<1>3. ASSUME NEW b \in Bills, PutPause(b) \/ PauseUnanswered(b)  PROVE TreasuryIInv'
  <2>1. /\ stateFeed' \in Seq(BOOLEAN) /\ stateFeed' # <<>>
        /\ stateFeed'[Len(stateFeed')] = boardState' /\ boardState' = TRUE
    BY <1>3, PutStateStep DEF PutPause, PauseUnanswered
  <2>2. /\ UNCHANGED <<spent, hourlyLimit, budgetConfig, pausedFlag, crier, decrees>>
        /\ excused' = FALSE /\ pauseFailed' = FALSE
        /\ \E at \in {"flagging", "saving"} : bill' = [bill EXCEPT ![b] = at]
    BY <1>3 DEF PutPause, PauseUnanswered
  <2> QED  BY <2>1, <2>2 DEF Watched, LastWord, Overspent
<1> QED  BY <1>1, <1>2, <1>3

\* A feed that its head empties has nothing else.
LEMMA LastOfFeed ==
  ASSUME NEW S, NEW feed \in Seq(S), feed # <<>>, Tail(feed) = <<>>
  PROVE  Len(feed) = 1
<1>1. Len(Tail(feed)) = Len(feed) - 1 /\ Len(feed) \in Nat
  BY HeadTailProperties, LenProperties
<1>2. Len(Tail(feed)) = 0
  BY EmptySeq
<1> QED  BY <1>1, <1>2

\* Operators, the watch, and a restart, which reads the state the bucket has.
LEMMA DecreeStep ==
  ASSUME TreasuryIInv,
         \/ HourStrikes \/ (\E n \in unsaved : PutTotal(n))
         \/ (\E limit \in {0, HourlyLimit + 1} : SetTokenBudget(limit))
         \/ ApplyDecree \/ WatchBoardState \/ RestartTreasury
  PROVE  TreasuryIInv'
<1> USE DEF TreasuryIInv, TreasuryShape
<1>1. CASE HourStrikes \/ \E n \in unsaved : PutTotal(n)
  <2>1. UNCHANGED <<spent, hourlyLimit, budgetConfig, bill, boardState, stateFeed, pausedFlag,
                    crier, decrees, excused, pauseFailed>>
    BY <1>1 DEF HourStrikes, PutTotal
  <2>2. TreasuryShape'
    BY <2>1
  <2> QED  BY <2>1, <2>2 DEF Watched, LastWord, Overspent
<1>2. CASE \E limit \in {0, HourlyLimit + 1} : SetTokenBudget(limit)
  <2>1. PICK limit \in {0, HourlyLimit + 1} : SetTokenBudget(limit)
    BY <1>2
  <2>2. limit \in Nat
    BY <2>1, TreasuryAssumption
  <2>3. /\ decrees' \in [pauses : Nat, resumes : Nat, budgets : Nat]
        /\ decrees'.resumes = decrees.resumes
    BY <2>1 DEF SetTokenBudget
  <2>4. /\ UNCHANGED <<spent, bill, boardState, stateFeed, pausedFlag, crier, pauseFailed>>
        /\ hourlyLimit' \in Nat /\ budgetConfig' \subseteq Nat /\ excused' = TRUE
    BY <2>1, <2>2 DEF SetTokenBudget, SetBudget
  <2> QED  BY <2>3, <2>4 DEF Watched, LastWord, Overspent
<1>3. CASE ApplyDecree
  BY <1>3 DEF ApplyDecree, Watched, LastWord, Overspent
<1>4. CASE WatchBoardState
  <2>1. /\ Tail(stateFeed) \in Seq(BOOLEAN) /\ Head(stateFeed) \in BOOLEAN
        /\ Len(Tail(stateFeed)) = Len(stateFeed) - 1
        /\ \A i \in 1 .. Len(Tail(stateFeed)) : Tail(stateFeed)[i] = stateFeed[i + 1]
    BY <1>4, HeadTailProperties DEF WatchBoardState
  <2>2. /\ Head(stateFeed) = stateFeed[1] /\ stateFeed # <<>> /\ Len(stateFeed) \in Nat \ {0}
    BY <1>4, <2>1 DEF WatchBoardState
  <2>4. Tail(stateFeed) = <<>> => Len(stateFeed) = 1
    BY <1>4, LastOfFeed DEF WatchBoardState
  <2>3. LastWord'
    BY <1>4, <2>1, <2>2, <2>4 DEF WatchBoardState, LastWord
  <2> QED  BY <1>4, <2>1, <2>3 DEF WatchBoardState, Watched, Overspent
<1>5. CASE RestartTreasury
  <2>1. hourlyLimit' \in Nat
    BY <1>5, TreasuryAssumption DEF RestartTreasury
  <2>2. stateFeed' = <<boardState>> /\ stateFeed' \in Seq(BOOLEAN) /\ Len(stateFeed') = 1
    BY <1>5 DEF RestartTreasury
  <2>3. LastWord'
    BY <1>5, <2>2 DEF RestartTreasury, LastWord
  <2>4. {boardState, pausedFlag, excused, pauseFailed}' \subseteq BOOLEAN
    BY <1>5 DEF RestartTreasury
  <2>5. TreasuryShape'
    BY <1>5, <2>1, <2>2, <2>4 DEF RestartTreasury
  <2> QED  BY <1>5, <2>3, <2>5 DEF RestartTreasury, Watched, Overspent
<1> QED  BY <1>1, <1>2, <1>3, <1>4, <1>5

LEMMA TreasuryInduction == TreasuryIInv /\ [TreasuryNext]_trVars => TreasuryIInv'
<1> SUFFICES ASSUME TreasuryIInv, [TreasuryNext]_trVars  PROVE TreasuryIInv'
  OBVIOUS
<1>1. CASE UNCHANGED trVars
  BY <1>1 DEF trVars, TreasuryIInv, TreasuryShape, Watched, LastWord, Overspent
<1>2. CASE TreasuryNext
  BY <1>2, BillStep, PauseStep, DecreeStep DEF TreasuryNext
<1> QED  BY <1>1, <1>2

\* When no Record is under way and the hour's budget is spent the board is paused, whichever of
\* the goroutines crossed the limit, unless the last attempt to pause it failed (Record and checkCircuitBreaker of tokenbudget/ledger.go,
\* Pause of boardcontrol/pause.go).
THEOREM OverBudgetAlwaysPaused == TreasurySpec => []OverBudgetIsPaused
<1>1. TreasuryIInv => OverBudgetIsPaused
  BY DEF TreasuryIInv, TreasuryShape, Watched, LastWord, Overspent, OverBudgetIsPaused
<1> QED  BY <1>1, TreasuryStart, TreasuryInduction, PTL DEF TreasurySpec

-----------------------------------------------------------------------------
(***************************************************************************)
(* questbridge's watch is held back for one timeout at most, whatever the  *)
(* sources do and however the configuration reads.  Polls are counted over *)
(* the life of the process, so the invariant has to account for those that *)
(* the present wait may still make; and there is no second wait, because a *)
(* gate that is not waited at is open, or nobody came yet.                 *)
(***************************************************************************)
KnowledgeSpec == KnowledgeInit /\ [][KnowledgeNext]_knVars

GateIInv ==
  /\ polled \in Nat /\ gate \in -1 .. ReadyPolls
  /\ polled <= ReadyPolls
  /\ gate >= 0 => ~knowledgeReady /\ polled + gate <= ReadyPolls
  /\ gate = -1 /\ ~knowledgeReady => polled = 0

\* A look at the sources opens the gate, or holds back for the polls that are left.
LEMMA GateStep ==
  ASSUME GateIInv, QuestArrives \/ PollSources \/ TimeIsUp
  PROVE  GateIInv'
<1> USE KnowledgeAssumption DEF GateIInv
<1>1. CASE QuestArrives
  <2>1. CASE knowledgeReady
    BY <1>1, <2>1 DEF QuestArrives
  <2>2. CASE ~knowledgeReady
    <3>1. Look(FALSE, ReadyPolls) /\ gate = -1 /\ polled' = polled
      BY <1>1, <2>2 DEF QuestArrives
    <3>2. \/ knowledgeReady' = TRUE /\ gate' = -1
          \/ gate' = ReadyPolls /\ UNCHANGED knowledgeReady
      BY <3>1 DEF Look, Open
    <3> QED  BY <2>2, <3>1, <3>2
  <2> QED  BY <2>1, <2>2
<1>2. CASE PollSources
  <2>1. Look(TRUE, gate - 1) /\ gate > 0 /\ polled' = polled + 1
    BY <1>2 DEF PollSources
  <2>2. \/ knowledgeReady' = TRUE /\ gate' = -1
        \/ gate' = gate - 1 /\ UNCHANGED knowledgeReady
    BY <2>1 DEF Look, Open
  <2> QED  BY <2>1, <2>2
<1>3. CASE TimeIsUp
  BY <1>3 DEF TimeIsUp, Open
<1> QED  BY <1>1, <1>2, <1>3

LEMMA GateInduction == GateIInv /\ [KnowledgeNext]_knVars => GateIInv'
<1> SUFFICES ASSUME GateIInv, [KnowledgeNext]_knVars  PROVE GateIInv'
  OBVIOUS
<1>1. ASSUME UNCHANGED <<knowledgeReady, gate, polled>>  PROVE GateIInv'
  BY <1>1 DEF GateIInv
<1>2. CASE QuestArrives \/ PollSources \/ TimeIsUp
  BY <1>2, GateStep
<1>3. CASE InitGraphSources \/ (\E s \in Sources, p \in Phases : Weather(s, p)) \/ CacheExpires
           \/ AskSummary
  BY <1>1, <1>3 DEF InitGraphSources, Weather, CacheExpires, AskSummary, gateVars
<1>4. CASE \/ \E ns \in Topics :
                \/ GraphSearch(ns) \/ HandleGraphQuery(ns)
                \/ \E other \in Topics \ {ns} : GraphMultiQuery(ns, other)
           \/ AskSource \/ NextOfMany \/ AnswerQuery
  BY <1>1, <1>4 DEF GraphSearch, HandleGraphQuery, GraphMultiQuery, StartQuery, AskSource,
     NextOfMany, AnswerQuery, gateVars
<1>5. CASE UNCHANGED knVars
  BY <1>1, <1>5 DEF knVars
<1> QED  BY <1>2, <1>3, <1>4, <1>5 DEF KnowledgeNext

\* At most one quest blocks the watch, and for one timeout (waitForKnowledgeSources of
\* questbridge/handler.go).
THEOREM OneQuestAlwaysWaits == KnowledgeSpec => []OneQuestWaits
<1>1. KnowledgeInit => GateIInv
  BY KnowledgeAssumption DEF KnowledgeInit, GateIInv
<1>2. GateIInv => OneQuestWaits
  BY DEF GateIInv, OneQuestWaits
<1> QED  BY <1>1, <1>2, GateInduction, PTL DEF KnowledgeSpec

-----------------------------------------------------------------------------
(***************************************************************************)
(* A dissolved guild stays dissolved.  What operations do without the      *)
(* mutex may come at any time, and finds the guild as the others left it;  *)
(* so every step is shown to keep a guild a guild, and a status once       *)
(* inactive.                                                               *)
(***************************************************************************)
GuildSpec == GuildInit /\ [][GuildNext]_gfVars

\* Every step changes some fields of the guild, its status only where it is not inactive.
LEMMA GuildStep ==
  ASSUME guild \in Guild, GuildNext
  PROVE  guild' \in Guild /\ (guild.status = "inactive" => guild'.status = "inactive")
<1> USE DEF Guild, GuildStatuses
<1>1. ASSUME NEW a \in Folk, NEW quorum \in QuorumModes, CreateGuild(a, quorum)
      PROVE  guild' \in Guild /\ guild.status # "inactive"
  <2>1. quorum \in BOOLEAN
    BY GuildAssumption
  <2> QED  BY <1>1, <2>1 DEF CreateGuild
<1>2. ASSUME NEW a \in Folk, JoinLocked(a) \/ LeaveGuild(a)
      PROVE  guild' \in Guild /\ guild'.status = guild.status
  BY <1>2 DEF JoinLocked, LeaveGuild
<1>3. ASSUME NEW a \in Folk, NEW accepted \in BOOLEAN,
             SubmitApplication(a) \/ ReviewApplication(a, accepted)
      PROVE  guild' \in Guild /\ guild'.status = guild.status
  <2> DEFINE Marked(answer) == [guild.applied EXCEPT ![a] = answer]
             Seated == [guild.roster EXCEPT ![a] = @ + 1]
  <2>1. \A answer \in {"pending", "accepted", "rejected"} :
          Marked(answer) \in [Folk -> {"no", "pending", "accepted", "rejected"}]
    OBVIOUS
  <2>2. Seated \in [Folk -> Nat]
    OBVIOUS
  <2>3. \/ \E answer \in {"pending", "rejected"} : guild' = [guild EXCEPT !.applied = Marked(answer)]
        \/ guild' = [guild EXCEPT !.applied = Marked("accepted"), !.roster = Seated]
    BY <1>3 DEF SubmitApplication, ReviewApplication
  <2> HIDE DEF Marked, Seated
  <2>4. ASSUME NEW answer \in {"pending", "rejected"},
               guild' = [guild EXCEPT !.applied = Marked(answer)]
        PROVE  guild' \in Guild /\ guild'.status = guild.status
    BY <2>1, <2>4
  <2>5. ASSUME guild' = [guild EXCEPT !.applied = Marked("accepted"), !.roster = Seated]
        PROVE  guild' \in Guild /\ guild'.status = guild.status
    BY <2>1, <2>2, <2>5
  <2> QED  BY <2>3, <2>4, <2>5
<1>4. CASE DisbandGuild
  BY <1>4 DEF DisbandGuild
<1>5. CASE DissolveGuild
  <2>1. [a \in Folk |-> IF guild.applied[a] = "pending" THEN "rejected" ELSE guild.applied[a]]
          \in [Folk -> {"no", "pending", "accepted", "rejected"}]
    OBVIOUS
  <2> QED  BY <1>5, <2>1 DEF DissolveGuild
<1>6. ASSUME NEW a \in Folk, CheckQuorumLocked(a)
      PROVE  guild' \in Guild /\ (guild.status = "inactive" => guild'.status = "inactive")
  BY <1>6 DEF CheckQuorumLocked
<1>7. ASSUME NEW a \in Folk,
             JoinGuild(a) \/ MapAgent(a) \/ DeadlinePasses \/ CheckFormationTimeouts
      PROVE  guild' = guild
  BY <1>7 DEF JoinGuild, MapAgent, DeadlinePasses, CheckFormationTimeouts
<1>8. CASE DeadlinePasses \/ CheckFormationTimeouts
  BY <1>8 DEF DeadlinePasses, CheckFormationTimeouts
<1> HIDE DEF Guild, GuildStatuses
<1> QED  BY <1>1, <1>2, <1>3, <1>4, <1>5, <1>6, <1>7, <1>8 DEF GuildNext, GuildClockwork

\* A guild that was dissolved or disbanded never becomes active or pending again, although
\* acceptances, their quorum check and the timeout loop work on what they saw before
\* (checkQuorumLocked, dissolveGuild and reviewApplication of guildformation/handler.go).
THEOREM DissolvedStaysDissolved == GuildSpec => DissolvedForGood
<1>1. GuildInit => guild \in Guild
  BY DEF GuildInit, Guild, GuildStatuses
<1>2. guild \in Guild /\ [GuildNext]_gfVars => (guild \in Guild)'
  BY GuildStep DEF gfVars
<1>3. guild \in Guild /\ [GuildNext]_gfVars
        => [guild.status = "inactive" => guild'.status = "inactive"]_gfVars
  BY GuildStep
<1> QED  BY <1>1, <1>2, <1>3, PTL DEF GuildSpec, DissolvedForGood

-----------------------------------------------------------------------------
(***************************************************************************)
(* No call of an agentic loop is forgotten by the desk, for any number of  *)
(* calls, restarts and publications that fail.  A call is on the stream    *)
(* until it is acknowledged; the proof has to show that by then it has an  *)
(* answer, has lost it in a way the property names, or has an explore that *)
(* will see to it (Settled), and that neither the redelivery of a call nor *)
(* the end of an explore takes that back.                                  *)
(***************************************************************************)
ToolsSpec == ToolsInit /\ [][ToolsNext]_tkVars

Given(c) == results[c] \in ToolResults \cup {"dropped"}
Items == [call : ToolCalls, by : {"loop", "subagent"}]
OfLoop(c) == [call |-> c, by |-> "loop"]

ToolsShape ==
  /\ callsMade \in Seq(CallKindNames) /\ Len(callsMade) <= CallBound
  /\ toolStream \in Seq(Items)
  /\ atDesk \in [at : {"idle", "execute", "publish", "ack"}, answer : ToolResults \cup {"none"},
                 slow : BOOLEAN]
  /\ results \in [ToolCalls -> ToolResults \cup {"none", "dropped"}]
  /\ explorers \in [ToolCalls -> {"none", "claim", "wait", "answer", "late", "done", "lost"}]

Settled(c) ==
  \/ Given(c)
  \/ CallKinds[callsMade[c]].shape = "foreign"
  \/ explorers[c] \in {"claim", "wait", "answer", "late", "lost"}

Traced ==
  \A c \in DOMAIN callsMade : Settled(c) \/ \E i \in DOMAIN toolStream : toolStream[i] = OfLoop(c)

AtHand ==
  /\ atDesk.at # "idle" => toolStream # <<>>
  /\ atDesk.at = "publish" => atDesk.answer \in ToolResults
  /\ \A c \in DOMAIN callsMade :
       atDesk.at = "ack" /\ toolStream[1] = OfLoop(c) => Settled(c)

LoopsItems == \A i \in DOMAIN toolStream : toolStream[i].by = "loop" => toolStream[i].call \in DOMAIN callsMade

DoneGiven == \A c \in ToolCalls : explorers[c] = "done" => Given(c)

ToolsIInv == ToolsShape /\ Traced /\ AtHand /\ LoopsItems /\ DoneGiven

LEMMA ToolsStart == ToolsInit => ToolsIInv
<1> SUFFICES ASSUME ToolsInit  PROVE ToolsIInv
  OBVIOUS
<1>1. /\ callsMade = <<>> /\ toolStream = <<>> /\ atDesk = DeskIdle
      /\ callsMade \in Seq(CallKindNames) /\ toolStream \in Seq(Items)
      /\ DOMAIN callsMade = {} /\ DOMAIN toolStream = {} /\ Len(callsMade) = 0
  BY DEF ToolsInit
<1>2. ToolsShape
  BY <1>1, ToolDeskAssumption DEF ToolsInit, ToolsShape, DeskIdle, ToolResults
<1> QED  BY <1>1, <1>2 DEF ToolsInit, ToolsIInv, Traced, AtHand, LoopsItems, DoneGiven, DeskIdle

\* Calls and stream left alone, what is given stays given and what explores stays explored; then
\* nothing is forgotten.
Kept ==
  \A c \in ToolCalls :
    /\ Given(c) => Given(c)'
    /\ explorers[c] \in {"claim", "wait", "answer", "late", "lost"} =>
         explorers'[c] \in {"claim", "wait", "answer", "late", "lost"} \/ Given(c)'
    /\ explorers'[c] = "done" => Given(c)'

LEMMA DeskStep ==
  ASSUME ToolsIInv, ToolsShape', UNCHANGED <<callsMade, toolStream>>, Kept,
         \/ atDesk' = atDesk \/ atDesk'.at = "idle"
         \/ /\ toolStream # <<>>
            /\ atDesk'.at = "publish" => atDesk'.answer \in ToolResults
            /\ \A c \in DOMAIN callsMade :
                 atDesk'.at = "ack" /\ toolStream[1] = OfLoop(c) => Settled(c)'
  PROVE  ToolsIInv'
<1>1. DOMAIN callsMade \subseteq ToolCalls
  BY ToolDeskAssumption DEF ToolsIInv, ToolsShape, ToolCalls
<1>2. \A c \in DOMAIN callsMade : Settled(c) => Settled(c)'
  BY <1>1 DEF Settled, Kept
<1>3. Traced' /\ LoopsItems' /\ DoneGiven'
  BY <1>2 DEF ToolsIInv, Traced, LoopsItems, DoneGiven, Kept, OfLoop
<1>4. AtHand'
  BY <1>2 DEF ToolsIInv, AtHand, OfLoop
<1> QED  BY <1>3, <1>4 DEF ToolsIInv

\* Explores: each of their steps leads on, and the last gives the call its result.
LEMMA ExploreStep ==
  ASSUME ToolsIInv, NEW c \in ToolCalls,
         HandleExplore(c) \/ HearSubagent(c) \/ ExploreTimesOut(c) \/ AnswerExplore(c)
  PROVE  ToolsIInv'
<1>1. UNCHANGED <<callsMade, toolStream, atDesk>>
  BY DEF HandleExplore, HearSubagent, ExploreTimesOut, AnswerExplore, loopVars
<1>2. PICK from \in {"claim", "wait", "answer", "late"}, to \in {"wait", "answer", "late", "done", "lost"} :
        /\ explorers[c] = from /\ explorers' = [explorers EXCEPT ![c] = to]
        /\ \/ to # "done" /\ results' = results
           \/ to = "done" /\ \E answer \in {"answer", "dropped"} : GiveResult(c, answer)
  BY DEF HandleExplore, HearSubagent, ExploreTimesOut, AnswerExplore, Explorer
<1>3. /\ results' \in [ToolCalls -> ToolResults \cup {"none", "dropped"}]
      /\ \A d \in ToolCalls : Given(d) => Given(d)'
      /\ to = "done" => Given(c)'
  BY <1>2 DEF GiveResult, Given, ToolResults, ToolsIInv, ToolsShape
<1>4. ToolsShape'
  BY <1>1, <1>2, <1>3 DEF ToolsIInv, ToolsShape
<1>5. Kept
  <2> SUFFICES ASSUME NEW d \in ToolCalls
               PROVE  /\ Given(d) => Given(d)'
                      /\ explorers[d] \in {"claim", "wait", "answer", "late", "lost"} =>
                           explorers'[d] \in {"claim", "wait", "answer", "late", "lost"} \/ Given(d)'
                      /\ explorers'[d] = "done" => Given(d)'
    BY DEF Kept
  <2>1. CASE d = c
    BY <1>2, <1>3, <2>1 DEF ToolsIInv, ToolsShape
  <2>2. CASE d # c
    BY <1>2, <1>3, <2>2 DEF ToolsIInv, ToolsShape, DoneGiven
  <2> QED  BY <2>1, <2>2
<1> QED  BY <1>1, <1>4, <1>5, DeskStep

\* The desk takes the first call of the stream: a foreign one needs no answer, an explore is on
\* its way, any other is yet to be answered.
LEMMA ToolExecuteStep ==
  ASSUME ToolsIInv, HandleToolExecute
  PROVE  ToolsIInv'
<1> DEFINE item == Head(toolStream)
           k == callsMade[item.call]
<1>1. /\ toolStream # <<>> /\ atDesk.at = "idle"
      /\ UNCHANGED <<callsMade, toolStream, results>>
      /\ atDesk' = IF item.by = "subagent" THEN ToPublish("stop") ELSE Opened(k)
      /\ explorers' = IF item.by = "loop" /\ IsExplore(k)
                      THEN [explorers EXCEPT ![item.call] = "claim"] ELSE explorers
  BY DEF HandleToolExecute, loopVars
<1>2. item = toolStream[1] /\ item \in Items /\ 1 \in DOMAIN toolStream
  BY <1>1 DEF ToolsIInv, ToolsShape
<1>3. item.call \in ToolCalls /\ item.by \in {"loop", "subagent"}
  BY <1>2 DEF Items
<1> HIDE DEF item, k
<1>4. /\ atDesk' \in [at : {"idle", "execute", "publish", "ack"}, answer : ToolResults \cup {"none"},
                      slow : BOOLEAN]
      /\ atDesk'.at = "publish" => atDesk'.answer \in ToolResults
      /\ atDesk'.at = "ack" =>
           item.by = "loop" /\ (CallKinds[k].shape = "foreign" \/ IsExplore(k))
  <2>1. CASE item.by = "subagent"
    BY <1>1, <2>1 DEF ToPublish, ToolResults
  <2>2. CASE item.by = "loop"
    <3> DEFINE Desks == [at : {"idle", "execute", "publish", "ack"},
                         answer : ToolResults \cup {"none"}, slow : BOOLEAN]
    <3>1. DeskIdle \in Desks
      BY DEF DeskIdle
    <3>2. /\ ToAck \in Desks /\ ToAck.at = "ack"
          /\ [DeskIdle EXCEPT !.at = "execute"] \in Desks
          /\ [DeskIdle EXCEPT !.at = "execute"].at = "execute"
      BY <3>1 DEF ToAck
    <3>3. /\ ToPublish("answer") \in Desks
          /\ ToPublish("answer").answer \in ToolResults
          /\ ToPublish("answer").at = "publish"
      BY DEF ToPublish, ToolResults
    <3> HIDE DEF Desks
    <3>4. CallKinds[k].shape \in {"garbled", "foreign", "invalid", "good"}
      <4>1. item.call \in DOMAIN callsMade
        BY <1>2, <2>2 DEF ToolsIInv, LoopsItems
      <4>2. k \in CallKindNames
        BY <4>1 DEF k, ToolsIInv, ToolsShape
      <4> QED  BY <4>2, ToolDeskAssumption DEF CallShapes
    <3>5. atDesk' = Opened(k)
      BY <1>1, <2>2
    <3>6. CASE CallKinds[k].shape = "foreign"
      BY <2>2, <3>2, <3>5, <3>6 DEF Opened, Desks
    <3>7. CASE CallKinds[k].shape \in {"garbled", "invalid"}
      <4>1. Opened(k) = ToPublish("answer")
        BY <3>7 DEF Opened, IsExplore
      <4> QED  BY <3>3, <3>5, <4>1 DEF Desks
    <3>8. CASE CallKinds[k].shape = "good"
      BY <2>2, <3>2, <3>5, <3>8 DEF Opened, IsExplore, Desks
    <3> QED  BY <3>4, <3>6, <3>7, <3>8
  <2> QED  BY <1>3, <2>1, <2>2
<1>5. /\ explorers' \in [ToolCalls -> {"none", "claim", "wait", "answer", "late", "done", "lost"}]
      /\ \A d \in ToolCalls : explorers'[d] = explorers[d] \/ explorers'[d] = "claim"
      /\ item.by = "loop" /\ IsExplore(k) => explorers'[item.call] = "claim"
  BY <1>1, <1>3 DEF ToolsIInv, ToolsShape
<1>6. ToolsShape'
  BY <1>1, <1>4, <1>5 DEF ToolsIInv, ToolsShape
<1>7. Kept
  BY <1>1, <1>5 DEF Kept, Given, ToolsIInv, DoneGiven
<1>8. ASSUME NEW c \in DOMAIN callsMade, atDesk'.at = "ack", toolStream[1] = OfLoop(c)
      PROVE  Settled(c)'
  <2>1. item.call = c /\ k = callsMade[c]
    BY <1>2, <1>8 DEF OfLoop, k
  <2> QED  BY <1>1, <1>4, <1>5, <1>8, <2>1 DEF Settled
<1> QED  BY <1>1, <1>4, <1>6, <1>7, <1>8, DeskStep

\* A tool that is run gives an answer, with or without the call's tier.
LEMMA ToolRunStep ==
  ASSUME ToolsIInv, ExecuteTool
  PROVE  ToolsIInv'
<1> DEFINE k == callsMade[Head(toolStream).call]
<1>1. PICK answer \in ExecuteGated(k), slow \in BOOLEAN :
        atDesk' = [at |-> "publish", answer |-> answer, slow |-> slow]
  BY DEF ExecuteTool
<1>2. atDesk.at = "execute" /\ UNCHANGED <<callsMade, toolStream, results, explorers>>
  BY DEF ExecuteTool, loopVars, exploreVars
<1>3. answer \in ToolResults
  BY DEF ExecuteGated, ToolAnswers, ToolResults
<1>4. toolStream # <<>>
  BY <1>2 DEF ToolsIInv, AtHand
<1>5. ToolsShape'
  BY <1>1, <1>2, <1>3 DEF ToolsIInv, ToolsShape
<1>6. Kept
  BY <1>2 DEF Kept, Given, ToolsIInv, DoneGiven
<1> QED  BY <1>1, <1>2, <1>3, <1>4, <1>5, <1>6, DeskStep

\* What is published, or fails to be, settles the call at hand.
LEMMA ToolPublishStep ==
  ASSUME ToolsIInv, PublishResult
  PROVE  ToolsIInv'
<1> DEFINE item == Head(toolStream)
<1>1. /\ atDesk.at = "publish" /\ toolStream # <<>> /\ atDesk.answer \in ToolResults
      /\ UNCHANGED <<callsMade, toolStream, explorers>>
      /\ atDesk' = [atDesk EXCEPT !.at = "ack"]
  BY DEF PublishResult, loopVars, exploreVars, ToolsIInv, AtHand
<1>2. item = toolStream[1] /\ item \in Items
  BY <1>1 DEF ToolsIInv, ToolsShape
<1>3. PICK made \in ToolCalls : item.call = made
  BY <1>2 DEF Items
<1>4. \/ item.by # "loop" /\ results' = results
      \/ item.by = "loop" /\ \E answer \in ToolResults \cup {"dropped"} : GiveResult(made, answer)
  BY <1>1, <1>3 DEF PublishResult, Delivered
<1> HIDE DEF item
<1>5. /\ results' \in [ToolCalls -> ToolResults \cup {"none", "dropped"}]
      /\ \A d \in ToolCalls : Given(d) => Given(d)'
      /\ item.by = "loop" => Given(made)'
  <2>1. CASE item.by # "loop" /\ results' = results
    BY <2>1 DEF Given, ToolsIInv, ToolsShape
  <2>2. ASSUME NEW answer \in ToolResults \cup {"dropped"}, GiveResult(made, answer)
        PROVE  /\ results' \in [ToolCalls -> ToolResults \cup {"none", "dropped"}]
               /\ \A d \in ToolCalls : Given(d) => Given(d)'
               /\ Given(made)'
    <3>1. answer \in {"answer", "stop", "dropped"}
      BY DEF ToolResults
    <3>2. /\ results \in [ToolCalls -> ToolResults \cup {"none", "dropped"}]
          /\ results' = [results EXCEPT ![made] = IF @ \in ToolResults THEN @ ELSE answer]
      BY <2>2 DEF GiveResult, ToolsIInv, ToolsShape
    <3>3. \A d \in ToolCalls : results'[d] = IF d # made \/ results[d] \in ToolResults
                                             THEN results[d] ELSE answer
      BY <3>2
    <3>4. results' \in [ToolCalls -> ToolResults \cup {"none", "dropped"}]
      BY <3>2, <2>2
    <3> QED  BY <2>2, <3>3, <3>4 DEF Given
  <2> QED  BY <1>4, <2>1, <2>2
<1>6. atDesk'.at = "ack" /\ ToolsShape'
  BY <1>1, <1>5 DEF ToolsIInv, ToolsShape
<1>7. Kept
  BY <1>1, <1>5 DEF Kept, ToolsIInv, DoneGiven
<1>8. ASSUME NEW c \in DOMAIN callsMade, toolStream[1] = OfLoop(c)
      PROVE  Settled(c)'
  <2>1. item.by = "loop" /\ made = c
    BY <1>2, <1>3, <1>8 DEF OfLoop
  <2> QED  BY <1>5, <2>1 DEF Settled
<1> QED  BY <1>1, <1>6, <1>7, <1>8, DeskStep

\* Acknowledged is only what is settled.
LEMMA ToolAckStep ==
  ASSUME ToolsIInv, AckCall
  PROVE  ToolsIInv'
<1>1. /\ atDesk.at = "ack" /\ toolStream # <<>> /\ atDesk' = DeskIdle
      /\ toolStream' = Tail(toolStream)
      /\ UNCHANGED <<callsMade, results, explorers>>
  BY DEF AckCall, loopVars, exploreVars, ToolsIInv, AtHand
<1>2. /\ toolStream' \in Seq(Items) /\ Len(toolStream) \in Nat
      /\ DOMAIN toolStream = 1 .. Len(toolStream) /\ DOMAIN toolStream' = 1 .. Len(toolStream) - 1
      /\ \A i \in DOMAIN toolStream' : toolStream'[i] = toolStream[i + 1]
  <2>1. toolStream \in Seq(Items)
    BY DEF ToolsIInv, ToolsShape
  <2> QED  BY <1>1, <2>1, HeadTailProperties
<1>3. ToolsShape'
  BY <1>1, <1>2 DEF ToolsIInv, ToolsShape, DeskIdle
<1>4. \A c \in DOMAIN callsMade : Settled(c)' = Settled(c)
  BY <1>1 DEF Settled, Given
<1>5. Traced'
  <2> SUFFICES ASSUME NEW c \in DOMAIN callsMade, ~Settled(c)
               PROVE  \E i \in DOMAIN toolStream' : toolStream'[i] = OfLoop(c)
    BY <1>1, <1>4 DEF Traced, OfLoop
  <2>1. PICK i \in DOMAIN toolStream : toolStream[i] = OfLoop(c)
    BY DEF ToolsIInv, Traced
  <2>2. i # 1
    BY <1>1, <2>1 DEF ToolsIInv, AtHand
  <2>3. i - 1 \in DOMAIN toolStream' /\ toolStream'[i - 1] = toolStream[i]
    BY <1>2, <2>1, <2>2
  <2> QED  BY <2>1, <2>3
<1>6. LoopsItems'
  BY <1>1, <1>2 DEF ToolsIInv, LoopsItems
<1>7. AtHand' /\ DoneGiven'
  BY <1>1 DEF ToolsIInv, AtHand, DoneGiven, DeskIdle, Given
<1> QED  BY <1>3, <1>5, <1>6, <1>7 DEF ToolsIInv

\* A new item at the end of the stream; a call of the loop comes with one.
LEMMA ToolAppendStep ==
  ASSUME ToolsIInv, UNCHANGED <<atDesk, results, explorers>>, NEW item \in Items,
         toolStream' = Append(toolStream, item),
         \/ callsMade' = callsMade /\ item.by = "subagent"
         \/ /\ \E k \in CallKindNames : callsMade' = Append(callsMade, k)
            /\ Len(callsMade) < CallBound /\ item = OfLoop(Len(callsMade) + 1)
  PROVE  ToolsIInv'
<1>1. callsMade \in Seq(CallKindNames) /\ toolStream \in Seq(Items)
  BY DEF ToolsIInv, ToolsShape
<1>2. /\ toolStream' \in Seq(Items) /\ toolStream' # <<>>
      /\ Len(toolStream) \in Nat /\ DOMAIN toolStream = 1 .. Len(toolStream)
      /\ DOMAIN toolStream' = 1 .. Len(toolStream) + 1
      /\ \A i \in DOMAIN toolStream : toolStream'[i] = toolStream[i]
      /\ toolStream'[Len(toolStream) + 1] = item
  BY <1>1, AppendProperties
<1>3. /\ Len(callsMade) \in Nat /\ DOMAIN callsMade = 1 .. Len(callsMade)
      /\ callsMade' \in Seq(CallKindNames) /\ Len(callsMade') <= CallBound
      /\ DOMAIN callsMade \subseteq DOMAIN callsMade'
      /\ \A c \in DOMAIN callsMade : callsMade'[c] = callsMade[c]
  <2>1. Len(callsMade) \in Nat /\ DOMAIN callsMade = 1 .. Len(callsMade) /\ Len(callsMade) <= CallBound
    BY <1>1 DEF ToolsIInv, ToolsShape
  <2>2. CASE callsMade' = callsMade
    BY <1>1, <2>1, <2>2
  <2>3. ASSUME NEW k \in CallKindNames, callsMade' = Append(callsMade, k), Len(callsMade) < CallBound
        PROVE  /\ callsMade' \in Seq(CallKindNames) /\ Len(callsMade') <= CallBound
               /\ DOMAIN callsMade \subseteq DOMAIN callsMade'
               /\ \A c \in DOMAIN callsMade : callsMade'[c] = callsMade[c]
    <3>1. /\ callsMade' \in Seq(CallKindNames) /\ Len(callsMade') = Len(callsMade) + 1
          /\ \A c \in 1 .. Len(callsMade) : callsMade'[c] = callsMade[c]
      BY <1>1, <2>3, AppendProperties
    <3>2. CallBound \in Nat /\ DOMAIN callsMade' = 1 .. Len(callsMade')
      BY <3>1, ToolDeskAssumption
    <3>3. Len(callsMade') <= CallBound
      <4>1. Len(callsMade) \in Nat /\ CallBound \in Nat /\ Len(callsMade) < CallBound
        BY <2>1, <2>3, <3>2
      <4>2. Len(callsMade') = Len(callsMade) + 1
        BY <3>1
      <4> QED  BY <4>1, <4>2
    <3>4. 1 .. Len(callsMade) \subseteq 1 .. Len(callsMade')
      BY <2>1, <3>1
    <3>5. DOMAIN callsMade \subseteq DOMAIN callsMade'
      BY <2>1, <3>2, <3>4
    <3> QED  BY <2>1, <3>1, <3>3, <3>5
  <2> QED  BY <2>1, <2>2, <2>3
<1>4. \A c \in DOMAIN callsMade' : c \in DOMAIN callsMade \/ item = OfLoop(c)
  <2>1. CASE callsMade' = callsMade
    BY <2>1
  <2>2. ASSUME NEW k \in CallKindNames, callsMade' = Append(callsMade, k), item = OfLoop(Len(callsMade) + 1)
        PROVE  \A c \in DOMAIN callsMade' : c \in DOMAIN callsMade \/ item = OfLoop(c)
    <3>1. DOMAIN callsMade' = 1 .. Len(callsMade) + 1
      <4>1. callsMade' \in Seq(CallKindNames) /\ Len(callsMade') = Len(callsMade) + 1
        BY <1>1, <2>2, AppendProperties
      <4> QED  BY <4>1
    <3>2. \A c \in DOMAIN callsMade' : c \in DOMAIN callsMade \/ c = Len(callsMade) + 1
      BY <1>3, <3>1
    <3> QED  BY <2>2, <3>2
  <2> QED  BY <2>1, <2>2
<1>5. \A c \in DOMAIN callsMade : Settled(c)' = Settled(c)
  BY <1>3 DEF Settled, Given
<1>6. Traced'
  <2> SUFFICES ASSUME NEW c \in DOMAIN callsMade', ~Settled(c)'
               PROVE  \E i \in DOMAIN toolStream' : toolStream'[i] = OfLoop(c)
    BY DEF Traced, OfLoop
  <2>1. CASE c \in DOMAIN callsMade
    <3>1. PICK i \in DOMAIN toolStream : toolStream[i] = OfLoop(c)
      BY <1>5, <2>1 DEF ToolsIInv, Traced
    <3> QED  BY <1>2, <3>1
  <2>2. CASE item = OfLoop(c)
    BY <1>2, <2>2
  <2> QED  BY <1>4, <2>1, <2>2
<1>7. LoopsItems'
  <2>1. item.by = "loop" => item.call \in DOMAIN callsMade'
    <3>1. CASE callsMade' = callsMade /\ item.by = "subagent"
      BY <3>1
    <3>2. ASSUME NEW k \in CallKindNames, callsMade' = Append(callsMade, k),
                 item = OfLoop(Len(callsMade) + 1)
          PROVE  item.call \in DOMAIN callsMade'
      <4>1. DOMAIN callsMade' = 1 .. Len(callsMade) + 1
        BY <1>1, <3>2, AppendProperties
      <4> QED  BY <1>3, <3>2, <4>1 DEF OfLoop
    <3> QED  BY <3>1, <3>2
  <2> QED  BY <1>2, <1>3, <2>1 DEF ToolsIInv, LoopsItems
<1>8. AtHand'
  <2>1. atDesk.at = "ack" => toolStream # <<>> /\ 1 \in DOMAIN toolStream /\ toolStream'[1] = toolStream[1]
    BY <1>1, <1>2 DEF ToolsIInv, AtHand
  <2>2. ASSUME NEW c \in DOMAIN callsMade', atDesk.at = "ack", toolStream'[1] = OfLoop(c)
        PROVE  Settled(c)'
    <3>1. c \in DOMAIN callsMade
      <4>1. toolStream[1].by = "loop" /\ toolStream[1].call = c
        BY <2>1, <2>2 DEF OfLoop
      <4> QED  BY <2>1, <2>2, <4>1 DEF ToolsIInv, LoopsItems
    <3> QED  BY <1>5, <2>1, <2>2, <3>1 DEF ToolsIInv, AtHand
  <2> QED  BY <1>2, <2>2 DEF ToolsIInv, AtHand, OfLoop
<1>9. ToolsShape' /\ DoneGiven'
  BY <1>2, <1>3 DEF ToolsIInv, ToolsShape, DoneGiven, Given
<1> QED  BY <1>6, <1>7, <1>8, <1>9 DEF ToolsIInv

LEMMA ToolsInduction == ToolsIInv /\ [ToolsNext]_tkVars => ToolsIInv'
<1> SUFFICES ASSUME ToolsIInv, [ToolsNext]_tkVars  PROVE ToolsIInv'
  OBVIOUS
<1>1. ASSUME UNCHANGED <<callsMade, toolStream, atDesk, results, explorers>>  PROVE ToolsIInv'
  BY <1>1 DEF ToolsIInv, ToolsShape, Traced, AtHand, LoopsItems, DoneGiven, Settled, Given, OfLoop
<1>2. ASSUME NEW k \in CallKindNames, CallTool(k)  PROVE ToolsIInv'
  <2>1. OfLoop(Len(callsMade) + 1) \in Items
    <3>1. Len(callsMade) \in Nat /\ Len(callsMade) < CallBound
      BY <1>2 DEF CallTool, ToolsIInv, ToolsShape
    <3> QED  BY <3>1, ToolDeskAssumption DEF OfLoop, Items, ToolCalls
  <2>2. /\ UNCHANGED <<atDesk, results, explorers>>
        /\ toolStream' = Append(toolStream, OfLoop(Len(callsMade) + 1))
        /\ callsMade' = Append(callsMade, k) /\ Len(callsMade) < CallBound
    BY <1>2 DEF CallTool, OfLoop, exploreVars
  <2> QED  BY <2>1, <2>2, ToolAppendStep
<1>3. ASSUME NEW c \in ToolCalls, SubagentReports(c)  PROVE ToolsIInv'
  <2> DEFINE item == [call |-> c, by |-> "subagent"]
  <2>1. item \in Items /\ item.by = "subagent"
    BY DEF Items
  <2>2. /\ UNCHANGED <<atDesk, results, explorers, callsMade>>
        /\ toolStream' = Append(toolStream, item)
    BY <1>3 DEF SubagentReports, exploreVars, loopVars
  <2> HIDE DEF item
  <2> QED  BY <2>1, <2>2, ToolAppendStep
<1>4. CASE RestartTools
  <2>1. /\ atDesk' = DeskIdle /\ UNCHANGED <<callsMade, toolStream, results>>
        /\ \A c \in ToolCalls : \/ explorers[c] \in {"none", "done"} /\ explorers'[c] = explorers[c]
                                \/ explorers[c] \notin {"none", "done"} /\ explorers'[c] = "lost"
        /\ explorers' \in [ToolCalls -> {"none", "claim", "wait", "answer", "late", "done", "lost"}]
    BY <1>4 DEF RestartTools, loopVars, ToolsIInv, ToolsShape
  <2>2. ToolsShape'
    BY <2>1 DEF ToolsIInv, ToolsShape, DeskIdle
  <2>3. Kept
    BY <2>1 DEF Kept, Given, ToolsIInv, DoneGiven
  <2> QED  BY <2>1, <2>2, <2>3, DeskStep DEF DeskIdle
<1>5. CASE LoopEnds \/ (\E c \in ToolCalls : SubagentFails(c))
           \/ \E l \in ToolCalls \cup {0} : HandleLoopCompleted(l)
  BY <1>1, <1>5 DEF LoopEnds, SubagentFails, HandleLoopCompleted, exploreVars, loopVars
<1>6. CASE UNCHANGED tkVars
  BY <1>1, <1>6 DEF tkVars
<1> QED  BY <1>2, <1>3, <1>4, <1>5, <1>6, ToolExecuteStep, ToolRunStep, ToolPublishStep,
            ToolAckStep, ExploreStep DEF ToolsNext

\* When the desk and the explores are through, only calls with a foreign payload, calls whose
\* publication failed and explores cut short are without an answer, whatever is slow, refused,
\* redelivered or restarted (handleToolExecute and handleExplore of processor/questtools).
THEOREM CallsAlwaysAnswered == ToolsSpec => []CallsAnswered
<1>1. ToolsIInv => CallsAnswered
  <2> SUFFICES ASSUME ToolsIInv, toolStream = <<>>,
                      \A c \in ToolCalls : explorers[c] \in {"none", "done", "lost"},
                      NEW c \in WaitingFor
               PROVE  \/ explorers[c] = "lost"
                      \/ CallKinds[callsMade[c]].shape = "foreign" \/ results[c] = "dropped"
    BY DEF CallsAnswered
  <2>1. c \in DOMAIN callsMade /\ results[c] \notin ToolResults /\ DOMAIN toolStream = {}
    BY DEF WaitingFor
  <2>2. c \in ToolCalls
    BY <2>1, ToolDeskAssumption DEF ToolsIInv, ToolsShape, ToolCalls
  <2>3. Settled(c)
    BY <2>1 DEF ToolsIInv, Traced
  <2> QED  BY <2>1, <2>2, <2>3 DEF Settled, Given
<1> QED  BY <1>1, ToolsStart, ToolsInduction, PTL DEF ToolsSpec

-----------------------------------------------------------------------------
(***************************************************************************)
(* What an agent is told of the work before its own, for any DAG, party,   *)
(* tools and failures of reads.  A letter is written from what is stored   *)
(* when it is written, long after the start it answers; so what was true   *)
(* when the quest was handed out, that the parent had its DAG and the copy *)
(* its node, has to be true still, although strays are claimed and copies  *)
(* put over them (StartsFounded, PlacedSound).                             *)
(***************************************************************************)
BriefingSpec == BriefingInit /\ [][BriefingNext]_brVars

QuestRecords ==
  [status : {"none", "posted", "in_progress", "done", "failed"}, by : Heroes \cup {"none"},
   placed : BOOLEAN, output : Outputs, indexed : BOOLEAN, produced : BOOLEAN,
   answers : {"none", "lead", "dm"}]

BriefingShape ==
  /\ brQuest \in [Quests -> QuestRecords] /\ dagStored \in BOOLEAN
  /\ started \subseteq [to : Quests, by : Heroes \cup {"none"}, handed : BOOLEAN]
  /\ lead \in Heroes \cup {"none"}

PlacedSound ==
  \A n \in NodeSet : brQuest[n].placed =>
    /\ brQuest[n].status = "in_progress" => dagStored
    /\ brQuest[n].answers \in {"none", "lead"}

StartsFounded == \A s \in started : s.to \in NodeSet /\ s.handed => dagStored

BriefIInv == BriefingShape /\ PlacedSound /\ StartsFounded /\ BriefedOnDependencies

LEMMA BriefingStart == BriefingInit => BriefIInv
<1> SUFFICES ASSUME BriefingInit  PROVE BriefIInv
  OBVIOUS
<1>1. Unposted \in QuestRecords /\ Posted \in QuestRecords /\ ~Unposted.placed /\ ~Posted.placed
  BY DEF Unposted, Posted, QuestRecords, Outputs
<1>2. "parent" \notin NodeSet
  BY BriefingAssumption
<1>3. BriefingShape
  BY <1>1 DEF BriefingInit, BriefingShape
<1>4. \A n \in NodeSet : ~brQuest[n].placed
  BY <1>1, <1>2 DEF BriefingInit, Quests
<1> QED  BY <1>3, <1>4 DEF BriefingInit, BriefIInv, PlacedSound, StartsFounded, BriefedOnDependencies

\* Steps without a letter: what they make of the quests and the starts is all that matters.
LEMMA SilentStep ==
  ASSUME BriefIInv, BriefingShape', letter' = NoLetter, dagStored => dagStored',
         \A n \in NodeSet :
           \/ brQuest'[n] = brQuest[n]
           \/ ~brQuest'[n].placed
           \/ /\ brQuest'[n].status = "in_progress" => dagStored'
              /\ brQuest'[n].answers \in {"none", "lead"},
         \A s \in started' : s \in started \/ (s.to \in NodeSet /\ s.handed => dagStored')
  PROVE  BriefIInv'
BY DEF BriefIInv, PlacedSound, StartsFounded, BriefedOnDependencies

\* The parent's steps and those of the decomposition leave nodes alone or post them anew.
LEMMA SplitStep ==
  ASSUME BriefIInv,
         \/ (\E a \in Heroes : StartParent(a)) \/ LeadReturnsWork \/ LeadReturnsDAG
         \/ PostSubQuest \/ UpdateParent \/ StoreDAG \/ DecompositionFails
         \/ \E stored \in BOOLEAN : InitSubQuest(stored)
  PROVE  BriefIInv'
<1> USE DEF QuestRecords, Outputs
<1>1. "parent" \notin NodeSet /\ "parent" \in Quests /\ NodeSet \subseteq Quests
  BY BriefingAssumption DEF Quests
<1>2. Posted \in QuestRecords /\ ~Posted.placed
  BY DEF Posted, Unposted
<1>3. /\ [Posted EXCEPT !.placed = TRUE] \in QuestRecords
      /\ [Posted EXCEPT !.placed = TRUE].status = "posted"
      /\ [Posted EXCEPT !.placed = TRUE].answers = "none"
  BY DEF Posted, Unposted
<1>4. brQuest \in [Quests -> QuestRecords] /\ BriefingShape
  BY DEF BriefIInv, BriefingShape
<1> HIDE DEF QuestRecords
<1>5. ASSUME NEW new \in QuestRecords, brQuest' = [brQuest EXCEPT !["parent"] = new],
             letter' = NoLetter, dagStored' = dagStored, BriefingShape',
             \A s \in started' : s \in started \/ s.to = "parent"
      PROVE  BriefIInv'
  <2>1. \A n \in NodeSet : brQuest'[n] = brQuest[n]
    BY <1>1, <1>4, <1>5
  <2> QED  BY <1>1, <1>5, <2>1, SilentStep
<1>6. ASSUME NEW a \in Heroes, StartParent(a)  PROVE BriefIInv'
  <2> DEFINE new == [brQuest["parent"] EXCEPT !.status = "in_progress", !.by = a, !.placed = TRUE]
  <2>1. new \in QuestRecords
    BY <1>1, <1>4 DEF QuestRecords
  <2>2. brQuest' = [brQuest EXCEPT !["parent"] = new]
    BY <1>6 DEF StartParent
  <2> HIDE DEF new
  <2>3. /\ letter' = NoLetter /\ dagStored' = dagStored
        /\ started' = started \cup {[to |-> "parent", by |-> a, handed |-> TRUE]}
        /\ lead' \in Heroes \cup {"none"}
    BY <1>6 DEF StartParent, Begin
  <2>4. [to |-> "parent", by |-> a, handed |-> TRUE] \in [to : Quests, by : Heroes \cup {"none"}, handed : BOOLEAN]
    BY <1>1
  <2>5. BriefingShape'
    BY <1>1, <1>4, <2>1, <2>2, <2>3, <2>4 DEF BriefingShape
  <2>6. \A s \in started' : s \in started \/ s.to = "parent"
    BY <2>3
  <2> QED  BY <1>5, <2>1, <2>2, <2>3, <2>5, <2>6
<1>7. CASE LeadReturnsWork
  <2> DEFINE new == [brQuest["parent"] EXCEPT !.status = "done", !.output = "text"]
  <2>1. new \in QuestRecords
    BY <1>1, <1>4 DEF QuestRecords
  <2>2. brQuest' = [brQuest EXCEPT !["parent"] = new]
    BY <1>7 DEF LeadReturnsWork
  <2> HIDE DEF new
  <2>3. letter' = NoLetter /\ UNCHANGED <<dagStored, started, lead>>
    BY <1>7 DEF LeadReturnsWork
  <2>4. BriefingShape'
    BY <1>1, <1>4, <2>1, <2>2, <2>3 DEF BriefingShape
  <2> QED  BY <1>5, <2>1, <2>2, <2>3, <2>4
<1>8. ASSUME UNCHANGED brQuest, letter' = NoLetter, UNCHANGED <<started, lead>>,
             dagStored => dagStored', dagStored' \in BOOLEAN
      PROVE  BriefIInv'
  <2>1. BriefingShape'
    BY <1>4, <1>8 DEF BriefingShape
  <2>2. (dagStored => dagStored') /\ started' = started /\ \A n \in NodeSet : brQuest'[n] = brQuest[n]
    BY <1>8
  <2> QED  BY <1>8, <2>1, <2>2, SilentStep
<1>9. ASSUME brQuest' = Failed(brQuest), letter' = NoLetter, UNCHANGED <<dagStored, started, lead>>
      PROVE  BriefIInv'
  <2> DEFINE new == [brQuest["parent"] EXCEPT !.status = "failed"]
  <2>1. new \in QuestRecords
    BY <1>1, <1>4 DEF QuestRecords
  <2>2. brQuest' = [brQuest EXCEPT !["parent"] = new]
    BY <1>9 DEF Failed
  <2> HIDE DEF new
  <2>3. BriefingShape'
    BY <1>1, <1>4, <1>9, <2>1, <2>2 DEF BriefingShape
  <2> QED  BY <1>5, <1>9, <2>1, <2>2, <2>3
<1>10. CASE LeadReturnsDAG
  <2>1. dagStored \in BOOLEAN
    BY <1>4 DEF BriefingShape
  <2>2. /\ letter' = NoLetter /\ UNCHANGED <<dagStored, started, lead>>
        /\ brQuest' = Failed(brQuest) \/ UNCHANGED brQuest
    BY <1>10 DEF LeadReturnsDAG
  <2> QED  BY <1>8, <1>9, <2>1, <2>2
<1>11. CASE DecompositionFails
  BY <1>9, <1>11 DEF DecompositionFails
<1>12. CASE UpdateParent \/ StoreDAG
  <2>1. dagStored \in BOOLEAN
    BY <1>4 DEF BriefingShape
  <2> QED  BY <1>8, <1>12, <2>1 DEF UpdateParent, StoreDAG
<1>13. ASSUME NEW q, NEW new \in {Posted, [Posted EXCEPT !.placed = TRUE]},
              brQuest' = [brQuest EXCEPT ![q] = new], letter' = NoLetter,
              UNCHANGED <<dagStored, started, lead>>
       PROVE  BriefIInv'
  <2>1. new \in QuestRecords /\ (new.placed => new.status # "in_progress" /\ new.answers = "none")
    BY <1>2, <1>3, <1>13
  <2>2. brQuest' \in [Quests -> QuestRecords] /\ \A n \in Quests : brQuest'[n] \in {brQuest[n], new}
    BY <1>4, <1>13, <2>1
  <2>3. BriefingShape'
    BY <1>4, <1>13, <2>2 DEF BriefingShape
  <2> QED  BY <1>1, <1>13, <2>1, <2>2, <2>3, SilentStep
<1>14. CASE PostSubQuest
  BY <1>13, <1>14 DEF PostSubQuest
<1>15. ASSUME NEW stored \in BOOLEAN, InitSubQuest(stored)  PROVE BriefIInv'
  <2>1. CASE stored
    BY <1>13, <1>15, <2>1 DEF InitSubQuest
  <2>2. CASE ~stored
    BY <1>4, <1>8, <1>15, <2>2 DEF InitSubQuest, BriefingShape
  <2> QED  BY <2>1, <2>2
<1> QED  BY <1>6, <1>7, <1>10, <1>11, <1>12, <1>14, <1>15

\* A node changes hands, ends or is asked about; it is in progress with a node of its own only
\* once the parent has its DAG.
LEMMA NodeStep ==
  ASSUME BriefIInv, NEW q \in Quests,
         \/ \E a \in Heroes : ClaimStray(q, a) \/ HandOut(q, a)
         \/ \E output \in Outputs : Complete(q, output)
         \/ Index(q)
         \/ Clarify(q)
  PROVE  BriefIInv'
<1> USE DEF QuestRecords
<1>1. brQuest \in [Quests -> QuestRecords] /\ BriefingShape /\ NodeSet \subseteq Quests
  BY DEF BriefIInv, BriefingShape, Quests
<1>2. q \in NodeSet <=> q # "parent"
  BY BriefingAssumption DEF Quests
<1>3. /\ letter' = NoLetter /\ UNCHANGED <<lead, dagStored>>
      /\ \E new : brQuest' = [brQuest EXCEPT ![q] = new]
  BY DEF ClaimStray, HandOut, Complete, Index, Clarify
<1>4. brQuest[q] \in QuestRecords /\ (q \in NodeSet /\ brQuest[q].placed =>
        /\ brQuest[q].status = "in_progress" => dagStored
        /\ brQuest[q].answers \in {"none", "lead"})
  BY <1>1 DEF BriefIInv, PlacedSound
\* The new record is a quest, and sound; a start made with it is founded.
<1>5. /\ brQuest'[q] \in QuestRecords
      /\ \/ ~brQuest'[q].placed \/ q \notin NodeSet
         \/ /\ brQuest'[q].status = "in_progress" => dagStored
            /\ brQuest'[q].answers \in {"none", "lead"}
  <2>1. ASSUME NEW a \in Heroes, ClaimStray(q, a)
        PROVE  brQuest'[q] \in QuestRecords /\ ~brQuest'[q].placed
    BY <1>1, <1>4, <2>1 DEF ClaimStray
  <2>2. ASSUME NEW a \in Heroes, HandOut(q, a)
        PROVE  /\ brQuest'[q] \in QuestRecords /\ dagStored
               /\ brQuest'[q].placed = brQuest[q].placed /\ brQuest'[q].answers = brQuest[q].answers
    BY <1>1, <1>4, <2>2 DEF HandOut
  <2>3. ASSUME NEW output \in Outputs, Complete(q, output)
        PROVE  /\ brQuest'[q] \in QuestRecords /\ brQuest'[q].status = "done"
               /\ brQuest'[q].placed = brQuest[q].placed /\ brQuest'[q].answers = brQuest[q].answers
    BY <1>1, <1>4, <2>3 DEF Complete
  <2>4. CASE Index(q)
    BY <1>1, <1>4, <2>4 DEF Index
  <2>5. CASE Clarify(q)
    <3> DEFINE word == IF q # "parent" /\ brQuest[q].placed THEN "lead" ELSE "dm"
    <3>1. brQuest' = [brQuest EXCEPT ![q].answers = word]
      BY <2>5 DEF Clarify
    <3>2. brQuest'[q] = [brQuest[q] EXCEPT !.answers = word] /\ word \in {"lead", "dm"}
      BY <1>1, <3>1
    <3>3. /\ brQuest'[q] \in QuestRecords /\ brQuest'[q].answers = word
          /\ brQuest'[q].placed = brQuest[q].placed /\ brQuest'[q].status = brQuest[q].status
      <4> HIDE DEF word
      <4> QED  BY <1>4, <3>2
    <3> QED  BY <1>2, <1>4, <3>3
  <2> HIDE DEF QuestRecords
  <2> QED  BY <1>4, <2>1, <2>2, <2>3, <2>4, <2>5
<1>6. PICK new : brQuest' = [brQuest EXCEPT ![q] = new]
  BY <1>3
<1>7. new \in QuestRecords /\ \A n \in NodeSet : n # q => brQuest'[n] = brQuest[n]
  <2> HIDE DEF QuestRecords
  <2> QED  BY <1>1, <1>5, <1>6
<1>8. /\ started' \subseteq [to : Quests, by : Heroes \cup {"none"}, handed : BOOLEAN]
      /\ \A s \in started' : s \in started \/ (s.to \in NodeSet /\ s.handed => dagStored)
  <2>1. CASE started' = started
    BY <1>1, <2>1 DEF BriefingShape
  <2>2. ASSUME NEW a \in Heroes, ClaimStray(q, a) \/ HandOut(q, a)
        PROVE  \E handed \in BOOLEAN : Begin(q, a, handed) /\ (handed => dagStored)
    BY <2>2 DEF ClaimStray, HandOut
  <2>3. ASSUME Clarify(q)
        PROVE  \E handed \in BOOLEAN : \E a \in Heroes \cup {"none"} :
                 Begin(q, a, handed) /\ (q \in NodeSet /\ handed => dagStored)
    BY <1>4, <2>3 DEF Clarify, Briefed
  <2>4. ASSUME NEW handed \in BOOLEAN, NEW a \in Heroes \cup {"none"}, Begin(q, a, handed),
               q \in NodeSet /\ handed => dagStored
        PROVE  <1>8
    <3> DEFINE s0 == [to |-> q, by |-> a, handed |-> handed]
    <3>1. s0 \in [to : Quests, by : Heroes \cup {"none"}, handed : BOOLEAN]
      OBVIOUS
    <3>2. started' = started \cup {s0} /\ (s0.to \in NodeSet /\ s0.handed => dagStored)
      BY <2>4 DEF Begin
    <3> HIDE DEF s0
    <3> QED  BY <1>1, <3>1, <3>2 DEF BriefingShape
  <2>5. \/ started' = started \/ Clarify(q)
        \/ \E a \in Heroes : ClaimStray(q, a) \/ HandOut(q, a)
    BY DEF Complete, Index
  <2> QED  BY <2>1, <2>2, <2>3, <2>4, <2>5
<1> HIDE DEF QuestRecords
<1>9. BriefingShape'
  BY <1>1, <1>3, <1>6, <1>7, <1>8 DEF BriefingShape
<1>10. \A n \in NodeSet :
         \/ brQuest'[n] = brQuest[n]
         \/ ~brQuest'[n].placed
         \/ /\ brQuest'[n].status = "in_progress" => dagStored'
            /\ brQuest'[n].answers \in {"none", "lead"}
  BY <1>3, <1>5, <1>7
<1>11. (dagStored => dagStored') /\ \A s \in started' : s \in started \/ (s.to \in NodeSet /\ s.handed => dagStored')
  BY <1>3, <1>8
<1> QED  BY <1>3, <1>9, <1>10, <1>11, SilentStep

\* Only a party's lead is offered the tool that decomposes, and then chooses nothing else.
LEMMA LeadDecomposes ==
  ASSUME NEW q \in Quests, NEW a, NEW tools, tools = ToolsForQuest(q, a)
  PROVE  /\ ("decompose_quest" \in tools) = (ToolChoice(q, a, tools) = "decompose_quest")
         /\ "decompose_quest" \in tools => q = "parent" /\ HeroTraits[a].tier >= Master
<1>1. "decompose_quest" \in tools => IsPartyLead(q, a)
  BY BriefingAssumption DEF ToolsForQuest, CategoriesForQuest
<1>2. ToolChoice(q, a, tools) = "decompose_quest" => "decompose_quest" \in tools
  <2>1. tools # {} => (CHOOSE t \in tools : TRUE) \in tools
    OBVIOUS
  <2> QED  BY <2>1 DEF ToolChoice
<1>3. "decompose_quest" \in tools => ToolChoice(q, a, tools) = "decompose_quest"
  BY <1>1 DEF ToolChoice
<1> QED  BY <1>1, <1>2, <1>3 DEF IsPartyLead

\* A letter is written: from a founded start, of a sound quest.
LEMMA BriefStep ==
  ASSUME BriefIInv, NEW s \in started,
         BriefFails(s) \/
           \E fails \in SUBSET ({"parent", "party", "guild"} \cup NodeSet) : Brief(s, fails)
  PROVE  BriefIInv'
<1>1. /\ UNCHANGED <<lead, brQuest, dagStored>> /\ started' = started \ {s}
  BY DEF BriefFails, Brief, brBoard
<1>2. BriefingShape'
  BY <1>1 DEF BriefIInv, BriefingShape
<1>3. PlacedSound' /\ StartsFounded'
  BY <1>1 DEF BriefIInv, PlacedSound, StartsFounded
<1>4. CASE BriefFails(s)
  BY <1>2, <1>3, <1>4 DEF BriefFails, BriefIInv, BriefedOnDependencies
<1>5. ASSUME NEW fails \in SUBSET ({"parent", "party", "guild"} \cup NodeSet), Brief(s, fails)
      PROVE  BriefedOnDependencies'
  <2>1. PICK up \in BOOLEAN : letter' = Letter(s, fails, up)
    BY <1>5 DEF Brief
  <2>2. s.to \in Quests
    BY DEF BriefIInv, BriefingShape
  <2>3. /\ letter'.to = s.to /\ letter'.by = s.by /\ letter'.handed = s.handed
        /\ letter'.fails = fails
        /\ letter'.tools = ToolsForQuest(s.to, s.by)
        /\ letter'.choice = ToolChoice(s.to, s.by, ToolsForQuest(s.to, s.by))
        /\ letter'.told = ToldOf(s.to, fails, up)
        /\ letter'.answers = ClarificationSource(s.to)
    BY <2>1 DEF Letter
  <2>4. ASSUME s.to \in NodeSet, s.handed, brQuest[s.to].placed
        PROVE  /\ "parent" \notin fails =>
                    \A d \in DagDeps[s.to] \ fails :
                      brQuest[d].output = "text" =>
                        d \in DOMAIN ToldOf(s.to, fails, up) /\ ToldOf(s.to, fails, up)[d] # "raw"
               /\ brQuest[s.to].answers # "none" => ClarificationSource(s.to) = "lead"
    <3>1. dagStored /\ brQuest[s.to].answers \in {"none", "lead"}
      BY <2>4 DEF BriefIInv, PlacedSound, StartsFounded
    <3>2. ASSUME "parent" \notin fails, NEW d \in DagDeps[s.to] \ fails, brQuest[d].output = "text"
          PROVE  d \in DOMAIN ToldOf(s.to, fails, up) /\ ToldOf(s.to, fails, up)[d] # "raw"
      <4>1. DependenciesOf(s.to, fails) = DagDeps[s.to] \ fails
        BY <2>4, <3>1, <3>2 DEF DependenciesOf
      <4>2. ResolveDepContext(d, up) # "raw"
        BY <3>2 DEF ResolveDepContext
      <4> QED  BY <3>2, <4>1, <4>2 DEF ToldOf
    <3> QED  BY <2>4, <3>1, <3>2 DEF ClarificationSource
  <2>5. /\ ("decompose_quest" \in letter'.tools) = (letter'.choice = "decompose_quest")
        /\ "decompose_quest" \in letter'.tools =>
             letter'.to = "parent" /\ HeroTraits[letter'.by].tier >= Master
    BY <2>2, <2>3, LeadDecomposes
  <2> QED  BY <1>1, <2>3, <2>4, <2>5 DEF BriefedOnDependencies
<1> QED  BY <1>2, <1>3, <1>4, <1>5 DEF BriefIInv

LEMMA BriefingInduction == BriefIInv /\ [BriefingNext]_brVars => BriefIInv'
<1> SUFFICES ASSUME BriefIInv, [BriefingNext]_brVars  PROVE BriefIInv'
  OBVIOUS
<1>1. CASE UNCHANGED brVars
  BY <1>1 DEF brVars, BriefIInv, BriefingShape, PlacedSound, StartsFounded, BriefedOnDependencies
<1>2. NodeSet \subseteq Quests
  BY DEF Quests
<1>3. CASE BriefingNext
  BY <1>2, <1>3, SplitStep, NodeStep, BriefStep DEF BriefingNext
<1> QED  BY <1>1, <1>3

\* Whoever is handed a sub-quest is told the work it builds on and the answers of the lead,
\* however late and however often the letter is written, whichever nodes were claimed as strays
\* before; and the lead of a party quest decomposes, and nobody else (loadDependencyContext,
\* clarification answers and tool choice of questbridge/handler.go and context.go).
THEOREM AlwaysBriefedOnDependencies == BriefingSpec => []BriefedOnDependencies
<1>1. BriefIInv => BriefedOnDependencies
  BY DEF BriefIInv
<1> QED  BY <1>1, BriefingStart, BriefingInduction, PTL DEF BriefingSpec

-----------------------------------------------------------------------------
(***************************************************************************)
(* What the API's requests leave of quests and agents, for any roster,     *)
(* chain and number of requests.  A copy is put after other accesses, so   *)
(* the first half is asked of every copy too.  The second half is about    *)
(* requests that come one after another: there is one request, and of what *)
(* it has still to do there are nine kinds (Doing); each says who may be   *)
(* on the quest that is to be put, and what is true of the agent to be.    *)
(***************************************************************************)
FrontDeskSpec == DeskInit /\ [][DeskNext]_fdVars

HandFields == {"status", "quest"}
OrderFields == {"status", "holder", "attempts", "deps", "party"}
RequestFields == {"todo", "copies", "hand"}

\* A quest on the board has no holder and one under way has.
Sane(o) ==
  /\ DOMAIN o = OrderFields /\ o.holder \in Holders
  /\ o.status = "posted" => o.holder = "none"
  /\ o.status \in {"claimed", "in_progress", "in_review"} => o.holder # "none"

SaneRequest(m) ==
  /\ DOMAIN m = RequestFields /\ DOMAIN m.hand = HandFields
  /\ DOMAIN m.copies = Orders /\ \A q \in Orders : Sane(m.copies[q])

SaneEntities ==
  /\ DOMAIN orders = Orders /\ \A q \in Orders : Sane(orders[q])
  /\ DOMAIN hands = Hands /\ \A a \in Hands : DOMAIN hands[a] = HandFields

DeskShape ==
  /\ SaneEntities
  /\ DOMAIN requests = Requests /\ \A r \in Requests : SaneRequest(requests[r])
  /\ late \in Nat

OnIt(a, q) == hands[a].status = "on_quest" /\ hands[a].quest = q
Vacant(q) == \A a \in Hands : ~OnIt(a, q)
Keeps(o, a) == o.holder = a /\ o.status # "posted"

HandsAgree ==
  \A a \in Hands : hands[a].status = "on_quest" =>
    hands[a].quest \in Orders /\ Keeps(orders[hands[a].quest], a)

\* The put of the copy takes the quest from nobody who is on it.
Fits(r, q) == \A a \in Hands : OnIt(a, q) => Keeps(requests[r].copies[q], a)
OnlyBy(q, b) == \A a \in Hands : OnIt(a, q) => a = b

\* What a request has still to do.
Todo(r) == requests[r].todo

Chaining(r) ==
  /\ Todo(r) \in Seq(Accesses) /\ Todo(r) # <<>>
  /\ \A i \in 1 .. Len(Todo(r)) : /\ Todo(r)[i][1] \in {"post", "link"}
                                  /\ Vacant(Todo(r)[i][2])
Putting(r) == \E q \in Orders : Todo(r) = <<<<"put", q>>>> /\ Fits(r, q)
Claiming(r) ==
  \E q \in Orders, a \in Hands :
    /\ Todo(r) = <<<<"enlist", a>>, <<"put", q>>, <<"hand", a>>>>
    /\ Vacant(q) /\ Keeps(requests[r].copies[q], a)
Enlisted(r) ==
  \E q \in Orders, a \in Hands :
    /\ Todo(r) = <<<<"put", q>>, <<"hand", a>>>>
    /\ Vacant(q) /\ Keeps(requests[r].copies[q], a) /\ requests[r].hand.quest = q
Handing(r) ==
  \E a \in Hands :
    /\ Todo(r) = <<<<"hand", a>>>>
    /\ requests[r].hand.status = "on_quest" =>
         requests[r].hand.quest \in Orders /\ Keeps(orders[requests[r].hand.quest], a)
Finisher(r) ==
  \E q \in Orders, b \in Hands :
    Todo(r) = <<<<"put", q>>, <<"free", b>>, <<"hand", b>>>> /\ Fits(r, q)
Freer(r) == \E b \in Hands : Todo(r) = <<<<"free", b>>, <<"hand", b>>>>
Returner(r) ==
  \E q \in Orders, b \in Hands :
    Todo(r) = <<<<"free", b>>, <<"hand", b>>, <<"put", q>>>> /\ OnlyBy(q, b)
HandReturner(r) ==
  \E q \in Orders, b \in Hands :
    /\ Todo(r) = <<<<"hand", b>>, <<"put", q>>>> /\ OnlyBy(q, b)
    /\ requests[r].hand.status # "on_quest"

Doing(r) ==
  \/ requests[r] = NoRequest
  \/ Chaining(r) \/ Putting(r) \/ Claiming(r) \/ Enlisted(r) \/ Handing(r)
  \/ Finisher(r) \/ Freer(r) \/ Returner(r) \/ HandReturner(r)

\* One request at a time.
Serial ==
  /\ \A r, s \in Requests : r = s \/ requests[r] = NoRequest \/ requests[s] = NoRequest
  /\ HandsAgree
  /\ \A r \in Requests : Doing(r)

DeskIInv == DeskShape /\ (late = 0 => Serial)

LEMMA NoOrderSane ==
  /\ Sane(NoOrder) /\ NoOrder.status = "none" /\ NoOrder.holder = "none"
  /\ DOMAIN NoRequest = RequestFields /\ DOMAIN NoRequest.copies = Orders
  /\ \A q \in Orders : NoRequest.copies[q] = NoOrder
  /\ NoRequest.todo = <<>> /\ DOMAIN NoRequest.hand = HandFields
BY DEF NoOrder, HandFields, NoRequest, Sane, OrderFields, RequestFields, Holders, NoHand

LEMMA DeskStart == DeskInit => DeskIInv
<1> SUFFICES ASSUME DeskInit PROVE DeskIInv
  OBVIOUS
<1>1. /\ DOMAIN orders = Orders /\ \A q \in Orders : orders[q] = NoOrder
      /\ DOMAIN requests = Requests /\ \A r \in Requests : requests[r] = NoRequest
      /\ late = 0
  BY DEF DeskInit
<1>2. /\ DOMAIN hands = Hands /\ \A a \in Hands : DOMAIN hands[a] = HandFields
      /\ \A a \in Hands : hands[a].status # "on_quest"
  BY DEF DeskInit, HandFields
<1>3. DeskShape
  BY <1>1, <1>2, NoOrderSane DEF DeskShape, SaneEntities, SaneRequest
<1>4. Serial
  BY <1>1, <1>2 DEF Serial, HandsAgree, Doing
<1> QED BY <1>3, <1>4 DEF DeskIInv

LEMMA DeskMeans == DeskIInv => AssignmentsAgree
<1> SUFFICES ASSUME DeskIInv PROVE AssignmentsAgree
  OBVIOUS
<1>1. ASSUME NEW q \in Orders
      PROVE  /\ orders[q].status = "posted" => orders[q].holder = "none"
             /\ orders[q].status \in {"claimed", "in_progress", "in_review"} =>
                  orders[q].holder # "none"
  BY DEF DeskIInv, DeskShape, SaneEntities, SaneRequest, Sane
<1>2. ASSUME late = 0, NEW a \in Hands, hands[a].status = "on_quest"
      PROVE  /\ hands[a].quest # "none" /\ orders[hands[a].quest].holder = a
             /\ orders[hands[a].quest].status # "posted"
  BY <1>2, DeskAssumption DEF DeskIInv, Serial, HandsAgree, Keeps
<1> QED BY <1>1, <1>2 DEF AssignmentsAgree

-----------------------------------------------------------------------------
(* A request begins.                                                       *)

LEMMA RequestBegins ==
  ASSUME DeskIInv, NEW r \in Requests, Arrive(r), NEW m, SaneRequest(m),
         requests' = [requests EXCEPT ![r] = m], UNCHANGED <<orders, hands>>,
         late' = 0 => Doing(r)'
  PROVE  DeskIInv'
<1>1. /\ requests'[r] = m /\ DOMAIN requests' = Requests
      /\ \A s \in Requests \ {r} : requests'[s] = requests[s]
  BY DEF DeskIInv, DeskShape, SaneEntities, SaneRequest
<1>2. late' \in Nat
  <2>1. late \in Nat
    BY DEF DeskIInv, DeskShape, SaneEntities, SaneRequest
  <2> QED BY <2>1 DEF Arrive
<1>3. DeskShape'
  BY <1>1, <1>2 DEF DeskIInv, DeskShape, SaneEntities, SaneRequest
<1>4. ASSUME late' = 0  PROVE Serial'
  <2>1. late = 0 /\ \A s \in Requests \ {r} : requests[s] = NoRequest
    <3>1. late \in Nat
      BY DEF DeskIInv, DeskShape, SaneEntities, SaneRequest
    <3> QED BY <1>4, <3>1 DEF Arrive
  <2>2. \A s \in Requests \ {r} : requests'[s] = NoRequest
    BY <1>1, <2>1
  <2>3. \A s \in Requests : Doing(s)'
    <3>1. ASSUME NEW s \in Requests \ {r}  PROVE Doing(s)'
      BY <2>2 DEF Doing
    <3> QED BY <1>4, <3>1
  <2>4. HandsAgree'
    BY <2>1 DEF DeskIInv, Serial, HandsAgree, Keeps
  <2> QED BY <2>2, <2>3, <2>4 DEF Serial
<1> QED BY <1>3, <1>4 DEF DeskIInv

\* A request about one quest.
LEMMA DecisionBegins ==
  ASSUME DeskIInv, NEW r \in Requests, NEW q \in Orders, NEW copy, Sane(copy), NEW todo,
         Decide(r, q, copy, todo),
         late' = 0 => \/ Putting(r)' \/ Claiming(r)' \/ Finisher(r)' \/ Returner(r)'
  PROVE  DeskIInv'
<1> DEFINE m == [todo |-> todo, copies |-> [NoRequest.copies EXCEPT ![q] = copy],
                 hand |-> NoHand]
<1>1. /\ Arrive(r) /\ requests' = [requests EXCEPT ![r] = m] /\ UNCHANGED <<orders, hands>>
  BY DEF Decide, Accept
<1>2. SaneRequest(m)
  BY NoOrderSane DEF SaneRequest, RequestFields, NoHand, HandFields
<1>3. late' = 0 => Doing(r)'
  BY DEF Doing
<1> HIDE DEF m
<1> QED BY <1>1, <1>2, <1>3, RequestBegins

LEMMA DecisionFacts ==
  ASSUME DeskIInv, NEW r \in Requests, NEW q \in Orders, NEW copy, NEW todo,
         Decide(r, q, copy, todo)
  PROVE  /\ requests'[r].todo = todo /\ requests'[r].copies[q] = copy
         /\ UNCHANGED <<orders, hands>>
         /\ late' = 0 => late = 0 /\ HandsAgree
<1>1. /\ requests' = [requests EXCEPT ![r] = [todo |-> todo,
                        copies |-> [NoRequest.copies EXCEPT ![q] = copy], hand |-> NoHand]]
      /\ UNCHANGED <<orders, hands>> /\ Arrive(r)
  BY DEF Decide, Accept
<1>2. requests'[r].todo = todo /\ requests'[r].copies[q] = copy
  BY <1>1, NoOrderSane DEF DeskIInv, DeskShape, SaneEntities, SaneRequest
<1>3. late' = 0 => late = 0
  BY <1>1 DEF Arrive, DeskIInv, DeskShape, SaneEntities, SaneRequest
<1> QED BY <1>1, <1>2, <1>3 DEF DeskIInv, Serial

LEMMA CreateStep ==
  ASSUME DeskIInv, NEW r \in Requests, NEW q \in Orders, CreateQuest(r, q)
  PROVE  DeskIInv'
<1>1. PICK o \in NewOrders(q) : Decide(r, q, o, <<<<"put", q>>>>)
  BY DEF CreateQuest
<1>2. Sane(o)
  BY DEF NewOrders, NoOrder, Sane, OrderFields, Holders
<1>3. ASSUME late' = 0  PROVE Putting(r)'
  <2>1. /\ requests'[r].todo = <<<<"put", q>>>> /\ UNCHANGED <<orders, hands>> /\ HandsAgree
    BY <1>1, <1>3, DecisionFacts
  <2>2. orders[q].holder = "none"
    BY NoOrderSane DEF CreateQuest
  <2>3. \A a \in Hands : ~(hands[a].status = "on_quest" /\ hands[a].quest = q)
    BY <2>1, <2>2, DeskAssumption DEF HandsAgree, Keeps
  <2> QED BY <2>1, <2>3 DEF Putting, Todo, Fits, OnIt
<1> QED BY <1>1, <1>2, <1>3, DecisionBegins

LEMMA ClaimBegins ==
  ASSUME DeskIInv, NEW r \in Requests, NEW q \in Orders, NEW a \in Hands, ClaimQuest(r, q, a)
  PROVE  DeskIInv'
<1> DEFINE copy == [orders[q] EXCEPT !.status = "claimed", !.holder = a]
           todo == <<<<"enlist", a>>, <<"put", q>>, <<"hand", a>>>>
<1>1. Decide(r, q, copy, todo) /\ orders[q].status = "posted"
  BY DEF ClaimQuest
<1>2. a # "none" /\ Sane(orders[q])
  BY DeskAssumption DEF DeskIInv, DeskShape, SaneEntities, SaneRequest
<1>3. copy.status = "claimed" /\ copy.holder = a /\ DOMAIN copy = OrderFields
  BY <1>2 DEF Sane, OrderFields
<1> HIDE DEF copy
<1>4. Sane(copy)
  BY <1>2, <1>3 DEF Sane, Holders
<1>5. ASSUME late' = 0  PROVE Claiming(r)'
  <2>1. /\ requests'[r].todo = todo /\ requests'[r].copies[q] = copy
        /\ UNCHANGED <<orders, hands>> /\ HandsAgree
    BY <1>1, <1>5, DecisionFacts
  <2>2. \A b \in Hands : ~(hands[b].status = "on_quest" /\ hands[b].quest = q)
    BY <1>1, <2>1 DEF HandsAgree, Keeps
  <2> QED BY <1>3, <2>1, <2>2 DEF Claiming, Todo, Vacant, OnIt, Keeps
<1> HIDE DEF todo
<1> QED BY <1>1, <1>4, <1>5, DecisionBegins

\* The status of a quest under way changes, and no agent.
LEMMA StatusBegins ==
  ASSUME DeskIInv, NEW r \in Requests, NEW q \in Orders, NEW s,
         s \in {"in_progress", "in_review"},
         orders[q].status \in {"claimed", "in_progress"},
         Decide(r, q, [orders[q] EXCEPT !.status = s], <<<<"put", q>>>>)
  PROVE  DeskIInv'
<1> DEFINE copy == [orders[q] EXCEPT !.status = s]
<1>1. Decide(r, q, copy, <<<<"put", q>>>>)
  OBVIOUS
<1>2. Sane(orders[q])
  BY DEF DeskIInv, DeskShape, SaneEntities, SaneRequest
<1>3. copy.status = s /\ copy.holder = orders[q].holder /\ DOMAIN copy = OrderFields
  BY <1>2 DEF Sane, OrderFields
<1> HIDE DEF copy
<1>4. Sane(copy)
  BY <1>2, <1>3 DEF Sane
<1>5. ASSUME late' = 0  PROVE Putting(r)'
  <2>1. /\ requests'[r].todo = <<<<"put", q>>>> /\ requests'[r].copies[q] = copy
        /\ UNCHANGED <<orders, hands>> /\ HandsAgree
    BY <1>1, <1>5, DecisionFacts
  <2>2. \A b \in Hands : hands[b].status = "on_quest" /\ hands[b].quest = q => Keeps(copy, b)
    BY <1>3, <2>1 DEF HandsAgree, Keeps
  <2> QED BY <2>1, <2>2 DEF Putting, Todo, Fits, OnIt, Keeps
<1> QED BY <1>1, <1>4, <1>5, DecisionBegins

LEMMA CompletionBegins ==
  ASSUME DeskIInv, NEW r \in Requests, NEW q \in Orders,
         Decide(r, q, [orders[q] EXCEPT !.status = "completed"], Finishing(q, orders[q]))
  PROVE  DeskIInv'
<1> DEFINE copy == [orders[q] EXCEPT !.status = "completed"]
           h == orders[q].holder
           todo == Finishing(q, orders[q])
<1>1. Decide(r, q, copy, todo)
  OBVIOUS
<1>2. Sane(orders[q])
  BY DEF DeskIInv, DeskShape, SaneEntities, SaneRequest
<1>3. copy.status = "completed" /\ copy.holder = h /\ DOMAIN copy = OrderFields
  BY <1>2 DEF Sane, OrderFields
<1>4. \/ h = "none" /\ todo = <<<<"put", q>>>>
      \/ h \in Hands /\ todo = <<<<"put", q>>, <<"free", h>>, <<"hand", h>>>>
  BY <1>2 DEF Finishing, Sane, Holders
<1> HIDE DEF copy, todo
<1>5. Sane(copy)
  BY <1>2, <1>3 DEF Sane
<1>6. ASSUME late' = 0  PROVE Putting(r)' \/ Finisher(r)'
  <2>1. /\ requests'[r].todo = todo /\ requests'[r].copies[q] = copy
        /\ UNCHANGED <<orders, hands>> /\ HandsAgree
    BY <1>1, <1>6, DecisionFacts
  <2>2. \A b \in Hands : hands[b].status = "on_quest" /\ hands[b].quest = q => Keeps(copy, b)
    BY <1>3, <2>1 DEF HandsAgree, Keeps
  <2>3. Fits(r, q)'
    BY <2>1, <2>2 DEF Fits, OnIt, Keeps
  <2>4. PICK b : b = h
    OBVIOUS
  <2> QED BY <1>4, <2>1, <2>3, <2>4 DEF Putting, Finisher, Todo
<1> QED BY <1>1, <1>5, <1>6, DecisionBegins

\* A quest is taken from its agent.
LEMMA ReturnBegins ==
  ASSUME DeskIInv, NEW r \in Requests, NEW q \in Orders, NEW copy, Sane(copy),
         Decide(r, q, copy, Returning(q, orders[q]))
  PROVE  DeskIInv'
<1> DEFINE h == orders[q].holder
           todo == Returning(q, orders[q])
<1>1. Decide(r, q, copy, todo)
  OBVIOUS
<1>2. Sane(orders[q])
  BY DEF DeskIInv, DeskShape, SaneEntities, SaneRequest
<1>3. \/ h = "none" /\ todo = <<<<"put", q>>>>
      \/ h \in Hands /\ todo = <<<<"free", h>>, <<"hand", h>>, <<"put", q>>>>
  BY <1>2 DEF Returning, Sane, Holders
<1> HIDE DEF todo
<1>4. ASSUME late' = 0  PROVE Putting(r)' \/ Returner(r)'
  <2>1. /\ requests'[r].todo = todo /\ UNCHANGED <<orders, hands>> /\ HandsAgree
    BY <1>1, <1>4, DecisionFacts
  <2>2. \A b \in Hands : hands[b].status = "on_quest" /\ hands[b].quest = q => b = h
    BY <2>1 DEF HandsAgree, Keeps
  <2>3. PICK b : b = h
    OBVIOUS
  <2>4. CASE h = "none"
    <3>1. Fits(r, q)'
      BY <2>1, <2>2, <2>4, DeskAssumption DEF Fits, OnIt
    <3>2. todo = <<<<"put", q>>>>
      BY <1>3, <2>4, DeskAssumption
    <3> QED BY <2>1, <3>1, <3>2 DEF Putting, Todo
  <2>5. CASE h # "none"
    <3>1. b \in Hands /\ todo = <<<<"free", b>>, <<"hand", b>>, <<"put", q>>>>
      BY <1>3, <2>3, <2>5
    <3>2. OnlyBy(q, b)'
      BY <2>1, <2>2, <2>3 DEF OnlyBy, OnIt
    <3> QED BY <2>1, <3>1, <3>2 DEF Returner, Todo
  <2> QED BY <2>4, <2>5
<1> QED BY <1>1, <1>4, DecisionBegins

LEMMA TakingBegins ==
  ASSUME DeskIInv, NEW r \in Requests, NEW q \in Orders,
         FailQuest(r, q) \/ AbandonQuest(r, q) \/ CancelQuest(r, q)
  PROVE  DeskIInv'
<1>1. Sane(orders[q])
  BY DEF DeskIInv, DeskShape, SaneEntities, SaneRequest
<1>2. \A n : /\ Sane([orders[q] EXCEPT !.attempts = n, !.status = "failed"])
             /\ Sane([orders[q] EXCEPT !.attempts = n, !.status = "posted", !.holder = "none"])
  BY <1>1 DEF Sane, OrderFields, Holders
<1>3. /\ Sane([orders[q] EXCEPT !.status = "failed"])
      /\ Sane([orders[q] EXCEPT !.status = "posted", !.holder = "none"])
  BY <1>1 DEF Sane, OrderFields, Holders
<1>4. \E copy : Sane(copy) /\ Decide(r, q, copy, Returning(q, orders[q]))
  <2>1. CASE FailQuest(r, q)
    BY <1>2, <2>1 DEF FailQuest
  <2>2. CASE AbandonQuest(r, q)
    BY <1>3, <2>2 DEF AbandonQuest
  <2>3. CASE CancelQuest(r, q)
    BY <1>3, <2>3 DEF CancelQuest
  <2> QED BY <2>1, <2>2, <2>3
<1> QED BY <1>4, ReturnBegins

LEMMA RetireBegins ==
  ASSUME DeskIInv, NEW r \in Requests, NEW a \in Hands, RetireAgent(r, a)
  PROVE  DeskIInv'
<1> DEFINE h == [hands[a] EXCEPT !.status = "retired"]
           m == [requests[r] EXCEPT !.todo = <<<<"hand", a>>>>, !.hand = h]
<1>1. /\ Arrive(r) /\ UNCHANGED <<orders, hands>> /\ requests[r] = NoRequest
      /\ requests' = [requests EXCEPT ![r] = m]
  <2>1. requests' = [requests EXCEPT ![r].todo = <<<<"hand", a>>>>, ![r].hand = h]
    BY DEF RetireAgent
  <2>2. requests' = [requests EXCEPT ![r] = m]
    BY <2>1 DEF DeskIInv, DeskShape, SaneEntities, SaneRequest
  <2> QED BY <2>2 DEF RetireAgent, Arrive
<1>2. /\ DOMAIN m = RequestFields /\ m.copies = NoRequest.copies
      /\ m.todo = <<<<"hand", a>>>> /\ m.hand = h
  BY <1>1, NoOrderSane DEF RequestFields
<1>3. h.status = "retired" /\ DOMAIN h = HandFields
  BY DEF DeskIInv, DeskShape, SaneEntities, SaneRequest, HandFields
<1>4. requests'[r] = m
  BY <1>1 DEF DeskIInv, DeskShape, SaneEntities, SaneRequest
<1> HIDE DEF m, h
<1>5. Doing(r)'
  BY <1>2, <1>3, <1>4 DEF Doing, Handing, Todo
<1>6. SaneRequest(m)
  BY <1>2, <1>3, NoOrderSane DEF SaneRequest
<1> QED BY <1>1, <1>5, <1>6, RequestBegins

LEMMA ChainBegins ==
  ASSUME DeskIInv, NEW r \in Requests, PostQuestChain(r)
  PROVE  DeskIInv'
<1> DEFINE posts == [i \in DOMAIN Chain |-> <<"post", Chain[i]>>]
           links == [i \in DOMAIN Chain |-> <<"link", Chain[i]>>]
           todo == posts \o links
           n == Len(Chain)
           m == [todo |-> todo, copies |-> NoRequest.copies, hand |-> NoHand]
<1>1. n \in Nat /\ DOMAIN Chain = 1 .. n /\ \A i \in 1 .. n : Chain[i] \in Orders
  BY LenProperties, ElementOfSeq, DeskAssumption
<1>2. posts \in Seq(Accesses) /\ links \in Seq(Accesses) /\ Len(posts) = n /\ Len(links) = n
  <2>1. \A i \in 1 .. n : <<"post", Chain[i]>> \in Accesses /\ <<"link", Chain[i]>> \in Accesses
    BY <1>1 DEF Accesses
  <2>2. posts \in [1 .. n -> Accesses] /\ links \in [1 .. n -> Accesses]
    BY <1>1, <2>1
  <2>3. posts \in Seq(Accesses) /\ links \in Seq(Accesses)
    BY <1>1, <2>2, SeqDef
  <2>4. DOMAIN posts = 1 .. n /\ DOMAIN links = 1 .. n
    BY <1>1
  <2> HIDE DEF posts, links
  <2>5. DOMAIN posts = 1 .. Len(posts) /\ Len(posts) \in Nat
    BY <2>3, LenProperties
  <2>6. DOMAIN links = 1 .. Len(links) /\ Len(links) \in Nat
    BY <2>3, LenProperties
  <2> QED BY <1>1, <2>3, <2>4, <2>5, <2>6
<1>3. /\ Arrive(r) /\ UNCHANGED <<orders, hands>>
      /\ requests' = [requests EXCEPT ![r] = m]
      /\ \A i \in DOMAIN Chain : orders[Chain[i]] = NoOrder
  BY DEF PostQuestChain, Accept
<1>4. \A i \in 1 .. n : /\ posts[i][1] \in {"post", "link"} /\ posts[i][2] = Chain[i]
                        /\ links[i][1] \in {"post", "link"} /\ links[i][2] = Chain[i]
  BY <1>1
<1> HIDE DEF posts, links
<1>5. /\ todo \in Seq(Accesses) /\ Len(todo) = n + n
      /\ \A i \in 1 .. n + n : todo[i] = IF i <= n THEN posts[i] ELSE links[i - n]
  BY <1>2, ConcatProperties
<1>6. /\ DOMAIN m = RequestFields /\ m.todo = todo /\ m.copies = NoRequest.copies
      /\ DOMAIN m.hand = HandFields
  BY DEF RequestFields, NoHand, HandFields
<1>7. requests'[r] = m
  BY <1>3 DEF DeskIInv, DeskShape, SaneEntities, SaneRequest
<1>8. \A i \in 1 .. n + n : /\ todo[i][1] \in {"post", "link"}
                            /\ \E j \in 1 .. n : todo[i][2] = Chain[j]
  <2> SUFFICES ASSUME NEW i \in 1 .. n + n
               PROVE  /\ todo[i][1] \in {"post", "link"}
                      /\ \E j \in 1 .. n : todo[i][2] = Chain[j]
    OBVIOUS
  <2>1. CASE i <= n
    <3>1. i \in 1 .. n /\ todo[i] = posts[i]
      BY <1>1, <1>5, <2>1
    <3> HIDE DEF todo
    <3> QED BY <1>4, <3>1
  <2>2. CASE ~(i <= n)
    <3>1. i - n \in 1 .. n /\ todo[i] = links[i - n]
      BY <1>1, <1>5, <2>2
    <3> HIDE DEF todo
    <3> QED BY <1>4, <3>1
  <2> QED BY <2>1, <2>2
<1>9. ASSUME late' = 0  PROVE Doing(r)'
  <2>1. CASE todo = <<>>
    <3>1. m = NoRequest
      BY <2>1 DEF NoRequest
    <3> QED BY <1>7, <3>1 DEF Doing
  <2>2. CASE todo # <<>>
    <3>1. HandsAgree
      <4>1. late = 0
        BY <1>3, <1>9 DEF Arrive, DeskIInv, DeskShape, SaneEntities, SaneRequest
      <4> QED BY <4>1 DEF DeskIInv, Serial
    <3>2. \A j \in 1 .. n, a \in Hands :
            ~(hands[a].status = "on_quest" /\ hands[a].quest = Chain[j])
      BY <1>1, <1>3, <3>1, NoOrderSane, DeskAssumption DEF HandsAgree, Keeps
    <3> HIDE DEF todo, m, n
    <3>3. Chaining(r)'
      BY <1>3, <1>5, <1>6, <1>7, <1>8, <2>2, <3>2 DEF Chaining, Todo, Vacant, OnIt
    <3> QED BY <3>3 DEF Doing
  <2> QED BY <2>1, <2>2
<1> HIDE DEF m
<1>10. SaneRequest(m)
  BY <1>6, NoOrderSane DEF SaneRequest
<1> QED BY <1>3, <1>9, <1>10, RequestBegins

-----------------------------------------------------------------------------
(* A request goes on.                                                      *)

LEMMA Proceeding ==
  ASSUME DeskShape, NEW r \in Requests, NEW m, SaneRequest(m), Proceed(r, m)
  PROVE  /\ requests' = [requests EXCEPT ![r] = requests'[r]] /\ SaneRequest(requests'[r])
         /\ Len(m.todo) = 1 => requests'[r] = NoRequest
         /\ Len(m.todo) # 1 => /\ requests'[r].todo = Tail(m.todo)
                               /\ requests'[r].copies = m.copies /\ requests'[r].hand = m.hand
<1>1. /\ requests' = [requests EXCEPT ![r] = requests'[r]]
      /\ requests'[r] = IF Len(m.todo) = 1 THEN NoRequest ELSE [m EXCEPT !.todo = Tail(@)]
  BY DEF DeskShape, Proceed
<1>2. LET k == [m EXCEPT !.todo = Tail(@)] IN
        /\ SaneRequest(k) /\ k.todo = Tail(m.todo)
        /\ k.copies = m.copies /\ k.hand = m.hand
  BY DEF RequestFields, SaneRequest
<1>3. SaneRequest(NoRequest)
  BY NoOrderSane DEF SaneRequest
<1> QED BY <1>1, <1>2, <1>3

\* What a step of a request has to show.
LEMMA RequestGoesOn ==
  ASSUME DeskIInv, NEW r \in Requests, AtWork(r), SaneEntities',
         requests' = [requests EXCEPT ![r] = requests'[r]], SaneRequest(requests'[r]),
         late' = late, Serial => HandsAgree' /\ Doing(r)'
  PROVE  DeskIInv'
<1>1. /\ DOMAIN requests' = Requests
      /\ \A s \in Requests \ {r} : requests'[s] = requests[s]
  BY DEF DeskIInv, DeskShape
<1>2. DeskShape'
  BY <1>1 DEF DeskIInv, DeskShape
<1>3. ASSUME Serial  PROVE Serial'
  <2>1. requests[r] # NoRequest
    BY NoOrderSane DEF AtWork
  <2>2. \A s \in Requests \ {r} : requests'[s] = NoRequest
    BY <1>1, <1>3, <2>1 DEF Serial
  <2>3. \A s \in Requests \ {r} : Doing(s)'
    BY <2>2 DEF Doing
  <2> QED BY <1>3, <2>2, <2>3 DEF Serial
<1> QED BY <1>2, <1>3 DEF DeskIInv

LEMMA Lists ==
  \A x, y, z : /\ Head(<<x>>) = x /\ Len(<<x>>) = 1
               /\ Head(<<x, y>>) = x /\ Tail(<<x, y>>) = <<y>> /\ Len(<<x, y>>) = 2
               /\ Head(<<x, y, z>>) = x /\ Tail(<<x, y, z>>) = <<y, z>> /\ Len(<<x, y, z>>) = 3
OBVIOUS

\* Whose turn it is tells what kind of request it is.
LEMMA HeadTells ==
  ASSUME NEW r \in Requests, Doing(r), AtWork(r)
  PROVE  /\ Access(r)[1] \in {"post", "link"} => Chaining(r)
         /\ Access(r)[1] = "put" => Putting(r) \/ Enlisted(r) \/ Finisher(r)
         /\ Access(r)[1] = "enlist" => Claiming(r)
         /\ Access(r)[1] = "free" => Freer(r) \/ Returner(r)
         /\ Access(r)[1] = "hand" => Handing(r) \/ HandReturner(r)
<1>1. requests[r] # NoRequest
  BY NoOrderSane DEF AtWork
<1>2. Chaining(r) => Access(r)[1] \in {"post", "link"}
  <2> SUFFICES ASSUME Chaining(r) PROVE Access(r)[1] \in {"post", "link"}
    OBVIOUS
  <2>1. Todo(r) \in Seq(Accesses) /\ Todo(r) # <<>>
    BY DEF Chaining
  <2>2. Access(r) = Todo(r)[1] /\ 1 \in 1 .. Len(Todo(r))
    BY <2>1, EmptySeq DEF Access, Todo
  <2> QED BY <2>2 DEF Chaining
<1>3. Putting(r) \/ Enlisted(r) \/ Finisher(r) => Access(r)[1] = "put"
  BY Lists DEF Putting, Enlisted, Finisher, Todo, Access
<1>4. Claiming(r) => Access(r)[1] = "enlist"
  BY Lists DEF Claiming, Todo, Access
<1>5. Freer(r) \/ Returner(r) => Access(r)[1] = "free"
  BY Lists DEF Freer, Returner, Todo, Access
<1>6. Handing(r) \/ HandReturner(r) => Access(r)[1] = "hand"
  BY Lists DEF Handing, HandReturner, Todo, Access
<1> QED BY <1>1, <1>2, <1>3, <1>4, <1>5, <1>6 DEF Doing

LEMMA ChainGoesOn ==
  ASSUME NEW r \in Requests, Chaining(r), UNCHANGED hands,
         Len(Todo(r)) # 1, requests'[r].todo = Tail(Todo(r))
  PROVE  Chaining(r)'
<1> DEFINE t == Todo(r)
<1>1. t \in Seq(Accesses) /\ t # <<>>
  BY DEF Chaining
<1>2. /\ Tail(t) \in Seq(Accesses) /\ Len(Tail(t)) = Len(t) - 1 /\ Len(t) \in Nat \ {0}
      /\ \A i \in 1 .. Len(Tail(t)) : Tail(t)[i] = t[i + 1]
  BY <1>1, HeadTailProperties, EmptySeq
<1>3. Tail(t) # <<>>
  BY <1>2, EmptySeq
<1>4. \A i \in 1 .. Len(Tail(t)) : i + 1 \in 1 .. Len(t)
  BY <1>2
<1>5. \A i \in 1 .. Len(Tail(t)) : /\ Tail(t)[i][1] \in {"post", "link"}
                                   /\ \A a \in Hands : ~(/\ hands[a].status = "on_quest"
                                                         /\ hands[a].quest = Tail(t)[i][2])
  BY <1>2, <1>4 DEF Chaining, Vacant, OnIt
<1>6. Todo(r)' = Tail(t)
  BY DEF Todo
<1> HIDE DEF t
<1> QED BY <1>2, <1>3, <1>5, <1>6 DEF Chaining, Vacant, OnIt

LEMMA ChainSteps ==
  ASSUME DeskIInv, NEW r \in Requests, PostNext(r) \/ LinkNext(r)
  PROVE  DeskIInv'
<1> DEFINE q == Access(r)[2]
<1>1. AtWork(r) /\ Access(r)[1] \in {"post", "link"} /\ UNCHANGED <<hands, late>>
  BY DEF PostNext, LinkNext
<1>2. \E m : Proceed(r, m) /\ SaneRequest(m) /\ m.todo = requests[r].todo
  <2>1. CASE PostNext(r)
    <3>1. PICK o \in NewOrders(q) : Proceed(r, [requests[r] EXCEPT !.copies[q] = o])
      BY <2>1 DEF PostNext
    <3>2. Sane(o)
      BY DEF NewOrders, NoOrder, Sane, OrderFields, Holders
    <3> DEFINE m == [requests[r] EXCEPT !.copies[q] = o]
    <3>3. /\ DOMAIN m = RequestFields /\ m.todo = requests[r].todo /\ DOMAIN m.hand = HandFields
          /\ m.copies = [requests[r].copies EXCEPT ![q] = o]
      BY DEF DeskIInv, DeskShape, SaneEntities, SaneRequest, RequestFields
    <3>4. DOMAIN m.copies = Orders /\ \A p \in Orders : Sane(m.copies[p])
      BY <3>2, <3>3 DEF DeskIInv, DeskShape, SaneEntities, SaneRequest
    <3> QED BY <3>1, <3>3, <3>4 DEF SaneRequest
  <2>2. CASE LinkNext(r)
    BY <2>2 DEF LinkNext, DeskIInv, DeskShape
  <2> QED BY <2>1, <2>2
<1>3. /\ requests' = [requests EXCEPT ![r] = requests'[r]] /\ SaneRequest(requests'[r])
      /\ Len(Todo(r)) = 1 => requests'[r] = NoRequest
      /\ Len(Todo(r)) # 1 => requests'[r].todo = Tail(Todo(r))
  BY <1>2, Proceeding DEF DeskIInv, Todo
<1>4. /\ DOMAIN orders' = Orders /\ \A p \in Orders : Sane(orders'[p])
      /\ \A p \in Orders : p # q => orders'[p] = orders[p]
  <2>1. CASE PostNext(r)
    <3>1. PICK o \in NewOrders(q) : orders' = [orders EXCEPT ![q] = o]
      BY <2>1 DEF PostNext
    <3>2. Sane(o)
      BY DEF NewOrders, NoOrder, Sane, OrderFields, Holders
    <3> QED BY <3>1, <3>2 DEF DeskIInv, DeskShape, SaneEntities, SaneRequest
  <2>2. CASE LinkNext(r)
    <3> DEFINE o == [requests[r].copies[q] EXCEPT !.deps = OrderTraits[q].deps]
    <3>1. orders' = orders \/ orders' = [orders EXCEPT ![q] = o]
      BY <2>2 DEF LinkNext
    <3>2. ASSUME q \in Orders  PROVE Sane(o)
      <4>1. Sane(requests[r].copies[q])
        BY <3>2 DEF DeskIInv, DeskShape, SaneEntities, SaneRequest
      <4> QED BY <4>1 DEF Sane, OrderFields
    <3> HIDE DEF o
    <3> QED BY <3>1, <3>2 DEF DeskIInv, DeskShape, SaneEntities, SaneRequest
  <2> QED BY <2>1, <2>2
<1>5. ASSUME Serial  PROVE HandsAgree' /\ Doing(r)'
  <2>1. Chaining(r)
    BY <1>1, <1>5, HeadTells DEF Serial
  <2>2. Vacant(q)
    <3>1. Todo(r) \in Seq(Accesses) /\ Todo(r) # <<>>
      BY <2>1 DEF Chaining
    <3>2. Access(r) = Todo(r)[1] /\ 1 \in 1 .. Len(Todo(r))
      BY <3>1, EmptySeq DEF Access, Todo
    <3> QED BY <2>1, <3>2 DEF Chaining
  <2>3. HandsAgree'
    BY <1>1, <1>4, <1>5, <2>2 DEF Serial, HandsAgree, Vacant, OnIt, Keeps
  <2>4. Doing(r)'
    BY <1>1, <1>3, <2>1, ChainGoesOn DEF Doing
  <2> QED BY <2>3, <2>4
<1>6. /\ DOMAIN hands' = Hands
      /\ \A a \in Hands : DOMAIN hands'[a] = HandFields
  BY <1>1 DEF DeskIInv, DeskShape, SaneEntities, SaneRequest
<1>7. SaneEntities'
  BY <1>4, <1>6 DEF SaneEntities
<1> HIDE DEF q
<1> QED BY <1>1, <1>3, <1>5, <1>7, RequestGoesOn

LEMMA PutQuestStep ==
  ASSUME DeskIInv, NEW r \in Requests, PutQuest(r)
  PROVE  DeskIInv'
<1> DEFINE k == Access(r)[2]
<1>1. /\ AtWork(r) /\ Access(r)[1] = "put" /\ UNCHANGED <<hands, late>>
      /\ orders' = [orders EXCEPT ![k] = requests[r].copies[k]]
      /\ Proceed(r, requests[r])
  BY DEF PutQuest
<1>2. SaneRequest(requests[r])
  BY DEF DeskIInv, DeskShape
<1>3. /\ requests' = [requests EXCEPT ![r] = requests'[r]] /\ SaneRequest(requests'[r])
      /\ Len(Todo(r)) = 1 => requests'[r] = NoRequest
      /\ Len(Todo(r)) # 1 => /\ requests'[r].todo = Tail(Todo(r))
                             /\ requests'[r].hand = requests[r].hand
  BY <1>1, <1>2, Proceeding DEF DeskIInv, Todo
<1>4. DOMAIN orders' = Orders /\ \A p \in Orders : Sane(orders'[p])
  BY <1>1, <1>2 DEF DeskIInv, DeskShape, SaneEntities, SaneRequest
<1>5. ASSUME Serial  PROVE HandsAgree' /\ Doing(r)'
  <2>1. Putting(r) \/ Enlisted(r) \/ Finisher(r)
    BY <1>1, <1>5, HeadTells DEF Serial
  <2>2. HandsAgree'
    <3>1. ASSUME NEW q \in Orders, k = q, Fits(r, q)  PROVE HandsAgree'
      BY <1>1, <1>5, <3>1 DEF Serial, HandsAgree, Fits, OnIt, Keeps, DeskIInv, DeskShape, SaneEntities, SaneRequest
    <3>2. \E q \in Orders : k = q /\ Fits(r, q)
      BY <2>1, Lists DEF Putting, Enlisted, Finisher, Todo, Access, Fits, Vacant
    <3> QED BY <3>1, <3>2
  <2>3. CASE Putting(r)
    <3>1. Len(Todo(r)) = 1
      BY <2>3, Lists DEF Putting
    <3> QED BY <1>3, <2>2, <3>1 DEF Doing
  <2>4. CASE Enlisted(r)
    <3>1. PICK q \in Orders, a \in Hands :
            /\ Todo(r) = <<<<"put", q>>, <<"hand", a>>>>
            /\ Keeps(requests[r].copies[q], a) /\ requests[r].hand.quest = q
      BY <2>4 DEF Enlisted
    <3>2. /\ requests'[r].todo = <<<<"hand", a>>>> /\ requests'[r].hand = requests[r].hand
          /\ k = q
      BY <1>3, <3>1, Lists DEF Access, Todo
    <3>3. orders'[q] = requests[r].copies[q]
      BY <1>1, <3>2 DEF DeskIInv, DeskShape, SaneEntities, SaneRequest
    <3>4. Handing(r)'
      BY <3>1, <3>2, <3>3 DEF Handing, Todo, Keeps
    <3> QED BY <2>2, <3>4 DEF Doing
  <2>5. CASE Finisher(r)
    <3>1. PICK q \in Orders, b \in Hands :
            Todo(r) = <<<<"put", q>>, <<"free", b>>, <<"hand", b>>>>
      BY <2>5 DEF Finisher
    <3>2. requests'[r].todo = <<<<"free", b>>, <<"hand", b>>>>
      BY <1>3, <3>1, Lists
    <3> QED BY <2>2, <3>2 DEF Doing, Freer, Todo
  <2> QED BY <2>1, <2>3, <2>4, <2>5
<1>6. /\ DOMAIN hands' = Hands
      /\ \A a \in Hands : DOMAIN hands'[a] = HandFields
  BY <1>1 DEF DeskIInv, DeskShape, SaneEntities, SaneRequest
<1>7. SaneEntities'
  BY <1>4, <1>6 DEF SaneEntities
<1> HIDE DEF k
<1> QED BY <1>1, <1>3, <1>5, <1>7, RequestGoesOn

\* A step that leaves the entities alone and sets the request's agent.
LEMMA QuietProceeding ==
  ASSUME DeskIInv, NEW r \in Requests, AtWork(r), UNCHANGED <<orders, hands, late>>,
         NEW h, DOMAIN h = HandFields,
         Proceed(r, [requests[r] EXCEPT !.hand = h]),
         Len(Todo(r)) # 1 /\ requests'[r].todo = Tail(Todo(r))
           /\ requests'[r].copies = requests[r].copies /\ requests'[r].hand = h /\ Serial
             => Doing(r)',
         Serial => Len(Todo(r)) # 1
  PROVE  DeskIInv'
<1> DEFINE m == [requests[r] EXCEPT !.hand = h]
<1>1. SaneRequest(requests[r])
  BY DEF DeskIInv, DeskShape
<1>2. /\ m.todo = Todo(r) /\ m.copies = requests[r].copies /\ m.hand = h /\ SaneRequest(m)
  BY <1>1 DEF SaneRequest, RequestFields, Todo
<1>3. Proceed(r, m)
  OBVIOUS
<1> HIDE DEF m
<1>4. /\ requests' = [requests EXCEPT ![r] = requests'[r]] /\ SaneRequest(requests'[r])
      /\ Len(m.todo) # 1 => /\ requests'[r].todo = Tail(m.todo)
                            /\ requests'[r].copies = m.copies /\ requests'[r].hand = m.hand
  BY <1>2, <1>3, Proceeding DEF DeskIInv
<1>5. SaneEntities'
  BY DEF DeskIInv, DeskShape, SaneEntities
<1>6. ASSUME Serial  PROVE HandsAgree' /\ Doing(r)'
  <2>1. HandsAgree'
    BY <1>6 DEF Serial, HandsAgree, Keeps
  <2> QED BY <1>2, <1>4, <1>6, <2>1
<1> QED BY <1>4, <1>5, <1>6, RequestGoesOn

LEMMA EnlistStep ==
  ASSUME DeskIInv, NEW r \in Requests, Enlist(r)
  PROVE  DeskIInv'
<1> DEFINE k == requests[r].todo[2][2]
           h == [status |-> "on_quest", quest |-> k]
<1>1. /\ AtWork(r) /\ Access(r)[1] = "enlist" /\ UNCHANGED <<orders, hands, late>>
      /\ DOMAIN h = HandFields
  BY DEF Enlist, HandFields
<1>2. CASE Proceed(r, [requests[r] EXCEPT !.hand = h])
  <2>1. Serial => Claiming(r)
    BY <1>1, HeadTells DEF Serial
  <2>2. Serial => Len(Todo(r)) # 1
    BY <2>1, Lists DEF Claiming
  <2>3. ASSUME requests'[r].todo = Tail(Todo(r)), requests'[r].copies = requests[r].copies,
               requests'[r].hand = h, Serial
        PROVE  Doing(r)'
    <3>1. PICK q \in Orders, a \in Hands :
            /\ Todo(r) = <<<<"enlist", a>>, <<"put", q>>, <<"hand", a>>>>
            /\ Vacant(q) /\ Keeps(requests[r].copies[q], a)
      BY <2>1, <2>3 DEF Claiming
    <3>2. k = q /\ requests'[r].todo = <<<<"put", q>>, <<"hand", a>>>>
      BY <2>3, <3>1, Lists DEF Todo
    <3>3. requests'[r].hand.quest = q
      BY <2>3, <3>2
    <3>4. Enlisted(r)'
      BY <1>1, <2>3, <3>1, <3>2, <3>3 DEF Enlisted, Todo, Vacant, OnIt, Keeps
    <3> QED BY <3>4 DEF Doing
  <2> HIDE DEF h
  <2> QED BY <1>1, <1>2, <2>2, <2>3, QuietProceeding
<1>3. CASE requests' = [requests EXCEPT ![r] = NoRequest]
  <2>1. /\ requests' = [requests EXCEPT ![r] = requests'[r]] /\ requests'[r] = NoRequest
        /\ SaneRequest(NoRequest)
    BY <1>3, NoOrderSane DEF DeskIInv, DeskShape, SaneRequest
  <2>2. Doing(r)' /\ (HandsAgree => HandsAgree')
    BY <1>1, <2>1 DEF Doing, HandsAgree, Keeps
  <2>3. SaneEntities'
    BY <1>1 DEF DeskIInv, DeskShape, SaneEntities
  <2>4. Serial => HandsAgree
    BY DEF Serial
  <2> QED BY <1>1, <2>1, <2>2, <2>3, <2>4, RequestGoesOn
<1> QED BY <1>2, <1>3 DEF Enlist

LEMMA ReleaseStep ==
  ASSUME DeskIInv, NEW r \in Requests, ReleaseAgent(r)
  PROVE  DeskIInv'
<1> DEFINE h == [status |-> "idle", quest |-> "none"]
<1>1. /\ AtWork(r) /\ Access(r)[1] = "free" /\ UNCHANGED <<orders, hands, late>>
      /\ Proceed(r, [requests[r] EXCEPT !.hand = h]) /\ DOMAIN h = HandFields
  BY DEF ReleaseAgent, HandFields
<1>2. Serial => Freer(r) \/ Returner(r)
  BY <1>1, HeadTells DEF Serial
<1>3. Serial => Len(Todo(r)) # 1
  BY <1>2, Lists DEF Freer, Returner
<1>4. ASSUME requests'[r].todo = Tail(Todo(r)), requests'[r].hand = h, Serial
      PROVE  Doing(r)'
  <2>1. requests'[r].hand.status = "idle"
    BY <1>4
  <2>2. CASE Freer(r)
    <3>1. PICK b \in Hands : Todo(r) = <<<<"free", b>>, <<"hand", b>>>>
      BY <2>2 DEF Freer
    <3>2. requests'[r].todo = <<<<"hand", b>>>>
      BY <1>4, <3>1, Lists
    <3>3. Handing(r)'
      BY <2>1, <3>2 DEF Handing, Todo
    <3> QED BY <3>3 DEF Doing
  <2>3. CASE Returner(r)
    <3>1. PICK q \in Orders, b \in Hands :
            Todo(r) = <<<<"free", b>>, <<"hand", b>>, <<"put", q>>>> /\ OnlyBy(q, b)
      BY <2>3 DEF Returner
    <3>2. requests'[r].todo = <<<<"hand", b>>, <<"put", q>>>>
      BY <1>4, <3>1, Lists
    <3>3. HandReturner(r)'
      BY <1>1, <2>1, <3>1, <3>2 DEF HandReturner, Todo, OnlyBy, OnIt
    <3> QED BY <3>3 DEF Doing
  <2> QED BY <1>2, <1>4, <2>2, <2>3
<1> HIDE DEF h
<1> QED BY <1>1, <1>3, <1>4, QuietProceeding

LEMMA PutHandStep ==
  ASSUME DeskIInv, NEW r \in Requests, PutHand(r)
  PROVE  DeskIInv'
<1> DEFINE k == Access(r)[2]
           h == requests[r].hand
<1>1. /\ AtWork(r) /\ Access(r)[1] = "hand" /\ UNCHANGED <<orders, late>>
      /\ hands' = [hands EXCEPT ![k] = h] /\ Proceed(r, requests[r])
  BY DEF PutHand
<1>2. SaneRequest(requests[r])
  BY DEF DeskIInv, DeskShape
<1>3. /\ requests' = [requests EXCEPT ![r] = requests'[r]] /\ SaneRequest(requests'[r])
      /\ Len(Todo(r)) = 1 => requests'[r] = NoRequest
      /\ Len(Todo(r)) # 1 => requests'[r].todo = Tail(Todo(r))
  BY <1>1, <1>2, Proceeding DEF DeskIInv, Todo
<1>4. /\ DOMAIN orders' = Orders /\ \A p \in Orders : Sane(orders'[p])
  BY <1>1 DEF DeskIInv, DeskShape, SaneEntities, SaneRequest
<1>5. /\ DOMAIN hands' = Hands /\ \A a \in Hands : DOMAIN hands'[a] = HandFields
  <2>1. DOMAIN h = HandFields
    BY DEF DeskIInv, DeskShape, SaneEntities, SaneRequest
  <2> QED BY <1>1, <2>1 DEF DeskIInv, DeskShape, SaneEntities, SaneRequest
<1>6. ASSUME Serial  PROVE HandsAgree' /\ Doing(r)'
  <2>1. Handing(r) \/ HandReturner(r)
    BY <1>1, <1>6, HeadTells DEF Serial
  <2>2. CASE Handing(r)
    <3>1. PICK a \in Hands :
            /\ Todo(r) = <<<<"hand", a>>>>
            /\ h.status = "on_quest" => h.quest \in Orders /\ Keeps(orders[h.quest], a)
      BY <2>2 DEF Handing
    <3>2. k = a /\ Len(Todo(r)) = 1
      BY <3>1, Lists DEF Todo, Access
    <3>3. HandsAgree'
      BY <1>1, <1>6, <3>1, <3>2 DEF Serial, HandsAgree, Keeps, DeskIInv, DeskShape, SaneEntities, SaneRequest
    <3> QED BY <1>3, <3>2, <3>3 DEF Doing
  <2>3. CASE HandReturner(r)
    <3>1. PICK q \in Orders, b \in Hands :
            /\ Todo(r) = <<<<"hand", b>>, <<"put", q>>>> /\ OnlyBy(q, b)
            /\ h.status # "on_quest"
      BY <2>3 DEF HandReturner
    <3>2. k = b /\ Len(Todo(r)) # 1 /\ requests'[r].todo = <<<<"put", q>>>>
      BY <1>3, <3>1, Lists DEF Todo, Access
    <3>3. hands'[b] = h /\ \A a \in Hands \ {b} : hands'[a] = hands[a]
      BY <1>1, <3>2 DEF DeskIInv, DeskShape, SaneEntities, SaneRequest
    <3>4. HandsAgree'
      BY <1>1, <1>6, <3>1, <3>3 DEF Serial, HandsAgree, Keeps
    <3>5. Fits(r, q)'
      BY <3>1, <3>3 DEF Fits, OnIt, OnlyBy
    <3>6. Putting(r)'
      BY <3>2, <3>5 DEF Putting, Todo
    <3> QED BY <3>4, <3>6 DEF Doing
  <2> QED BY <2>1, <2>2, <2>3
<1>7. SaneEntities'
  BY <1>4, <1>5 DEF SaneEntities
<1> HIDE DEF k, h
<1> QED BY <1>1, <1>3, <1>6, <1>7, RequestGoesOn

LEMMA DeskCrashStep == DeskIInv /\ (DeskCrash \/ UNCHANGED fdVars) => DeskIInv'
<1>1. ASSUME DeskIInv, DeskCrash  PROVE DeskIInv'
  <2>1. /\ UNCHANGED <<orders, hands, late>> /\ DOMAIN requests' = Requests
        /\ \A r \in Requests : requests'[r] = NoRequest
    BY <1>1 DEF DeskCrash
  <2>2. DeskShape'
    BY <1>1, <2>1, NoOrderSane DEF DeskIInv, DeskShape, SaneEntities, SaneRequest
  <2>3. Serial => Serial'
    BY <2>1 DEF Serial, HandsAgree, Keeps, Doing
  <2> QED BY <1>1, <2>1, <2>2, <2>3 DEF DeskIInv
<1>2. ASSUME DeskIInv, UNCHANGED fdVars  PROVE DeskIInv'
  <2>1. UNCHANGED <<orders, hands, requests, late>>
    BY <1>2 DEF fdVars
  <2>2. DeskShape'
    BY <1>2, <2>1 DEF DeskIInv, DeskShape, SaneEntities, SaneRequest
  <2>3. Serial => Serial'
    BY <2>1 DEF Serial, HandsAgree, Keeps, Doing, Chaining, Putting, Claiming, Enlisted, Handing,
       Finisher, Freer, Returner, HandReturner, Fits, OnlyBy, OnIt, Vacant, Todo
  <2> QED BY <1>2, <2>1, <2>2, <2>3 DEF DeskIInv
<1> QED BY <1>1, <1>2

LEMMA DeskInduction == DeskIInv /\ [DeskNext]_fdVars => DeskIInv'
<1> SUFFICES ASSUME DeskIInv, [DeskNext]_fdVars PROVE DeskIInv'
  OBVIOUS
<1>1. ASSUME NEW r \in Requests, NEW q \in Orders, StartQuest(r, q)  PROVE DeskIInv'
  BY <1>1, StatusBegins DEF StartQuest
<1>2. ASSUME NEW r \in Requests, NEW q \in Orders, SubmitResult(r, q)  PROVE DeskIInv'
  <2>1. CASE OrderTraits[q].review
    BY <1>2, <2>1, StatusBegins DEF SubmitResult
  <2>2. CASE ~OrderTraits[q].review
    BY <1>2, <2>2, CompletionBegins DEF SubmitResult
  <2> QED BY <2>1, <2>2
<1>3. ASSUME NEW r \in Requests, NEW q \in Orders, CompleteQuest(r, q)  PROVE DeskIInv'
  BY <1>3, CompletionBegins DEF CompleteQuest
<1>4. ASSUME NEW r \in Requests, NEW q \in Orders,
             CreateQuest(r, q) \/ (\E a \in Hands : ClaimQuest(r, q, a))
             \/ FailQuest(r, q) \/ AbandonQuest(r, q) \/ CancelQuest(r, q)
      PROVE  DeskIInv'
  BY <1>4, CreateStep, ClaimBegins, TakingBegins
<1>5. ASSUME NEW r \in Requests,
             PostQuestChain(r) \/ (\E a \in Hands : RetireAgent(r, a))
             \/ PostNext(r) \/ LinkNext(r) \/ PutQuest(r) \/ Enlist(r) \/ ReleaseAgent(r)
             \/ PutHand(r)
      PROVE  DeskIInv'
  BY <1>5, ChainBegins, RetireBegins, ChainSteps, PutQuestStep, EnlistStep, ReleaseStep,
     PutHandStep
<1> QED BY <1>1, <1>2, <1>3, <1>4, <1>5, DeskCrashStep DEF DeskNext

\* A quest has a holder exactly when somebody works on it, whatever requests overlap; and while
\* they come one after another the agent names the quest that names it, wherever the process
\* dies between their puts (the handlers of quests and agents of service/api/handlers.go).
THEOREM AssignmentsAlwaysAgree == FrontDeskSpec => []AssignmentsAgree
BY DeskStart, DeskInduction, DeskMeans, PTL DEF FrontDeskSpec
=============================================================================
