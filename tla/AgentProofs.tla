--------------------------- MODULE AgentProofs ---------------------------
(***************************************************************************)
(* Proofs about the components that put agent entities: the heartbeats of  *)
(* the autonomous agents, the store, and agentprogression.                 *)
(***************************************************************************)
EXTENDS Heartbeat, AgentStore, Progression, Workspaces, SequenceTheorems, FiniteSetTheorems, TLAPS

-----------------------------------------------------------------------------
(***************************************************************************)
(* An agent's heart does not stop, for any number of quests, goroutines    *)
(* and interventions; and a claim takes nothing from a rival.              *)
(*                                                                         *)
(* The timer is armed, or has fired and its callback is under way, or the  *)
(* agent was retired.  The watch and suggestions replace the timer while   *)
(* the callback runs, so what is kept is not which callback it is but that *)
(* there is one that was a timer's; and that a missing timer and a zero    *)
(* interval are the same thing, which is what the end of a callback relies *)
(* on.                                                                     *)
(***************************************************************************)
HeartbeatSafe == HeartbeatInit /\ [][HeartbeatNext]_hbVars

\* No timer, no interval; and an idle agent has both.
Matched(t) ==
  t.timer # "absent" =>
    /\ t.interval = 0 <=> t.timer = "none"
    /\ t.copy.status = "idle" => t.interval # 0

HbIInv == HeartbeatTypeOK /\ Matched(tracker) /\ HeartbeatAlive

\* A goroutine that is a timer's callback and has not ended.
Beating(r) == r.timed /\ r.at # "none"

\* A copy of another age, backed off or with other suggestions, is the same timer.
SameTimer(t, u) ==
  /\ u \in AgentTracker /\ Matched(u)
  /\ u.timer = t.timer /\ (u.timer # "absent" => (u.interval = 0 <=> t.interval = 0))

-----------------------------------------------------------------------------
\* Nothing is tracked to begin with.
LEMMA HeartbeatStart == HeartbeatInit => HbIInv
<1> SUFFICES ASSUME HeartbeatInit  PROVE HbIInv
  OBVIOUS
<1>1. tracker.timer = "absent" /\ autonomy = "running"
  BY DEF HeartbeatInit, NoTracker
<1>2. 0 \in 0 .. StirBound
  BY HeartbeatAssumption
<1>3. [status |-> "idle", until |-> 0] \in AgentCopy
  BY DEF AgentCopy, AgentStatuses
<1>4. NoTracker \in AgentTracker /\ NoEvaluation \in Evaluation
  BY <1>3 DEF NoTracker, AgentTracker, NoEvaluation, Evaluation
<1>5. <<>> \in Seq(AgentCopy)
  OBVIOUS
<1>6. HeartbeatTypeOK
  BY <1>2, <1>3, <1>4, <1>5 DEF HeartbeatInit, HeartbeatTypeOK
<1> QED  BY <1>1, <1>6 DEF HbIInv, Matched, HeartbeatAlive, Tracked

\* Interventions are counted up to the bound.
LEMMA Stirred == HbIInv /\ Stir => stirs' \in 0 .. StirBound
BY HeartbeatAssumption DEF HbIInv, HeartbeatTypeOK, Stir

\* What others do to the agent, the board, the clock and the flags.
LEMMA OthersStep ==
  ASSUME HbIInv, UNCHANGED <<tracker, evaluation>>, autonomy' = autonomy,
         agent' \in AgentCopy, agentFeed' \in Seq(AgentCopy), clock' \in Nat,
         board' \in [BoardQuests -> {"posted", "own", "rival"}], boardPaused' \in BOOLEAN,
         stirs' \in 0 .. StirBound
  PROVE  HbIInv'
BY DEF HbIInv, HeartbeatTypeOK, HeartbeatAlive, Tracked

\* A goroutine moves on with the timer as it is.
LEMMA GoroutineStep ==
  ASSUME HbIInv, NEW e \in Evaluations, NEW r \in Evaluation,
         evaluation' = [evaluation EXCEPT ![e] = r],
         Beating(evaluation[e]) => Beating(r), SameTimer(tracker, tracker'),
         agent' \in AgentCopy, agentFeed' \in Seq(AgentCopy),
         board' \in [BoardQuests -> {"posted", "own", "rival"}],
         UNCHANGED <<clock, boardPaused, autonomy, stirs>>
  PROVE  HbIInv'
<1>1. HeartbeatTypeOK'
  BY DEF HbIInv, HeartbeatTypeOK, SameTimer
<1>2. \A d \in Evaluations : Beating(evaluation[d]) => Beating(evaluation'[d])
  BY DEF HbIInv, HeartbeatTypeOK
<1>3. HeartbeatAlive'
  BY <1>2 DEF HbIInv, HeartbeatAlive, SameTimer, Beating, Tracked
<1> QED  BY <1>1, <1>3 DEF HbIInv, SameTimer

\* The tracker the watch makes has an armed timer, or none for a retired agent.
LEMMA ResetStep == HbIInv /\ ResetHeartbeatForAgent => HbIInv'
<1> SUFFICES ASSUME HbIInv, ResetHeartbeatForAgent  PROVE HbIInv'
  OBVIOUS
<1>1. Head(agentFeed) \in AgentCopy /\ Tail(agentFeed) \in Seq(AgentCopy)
  BY DEF HbIInv, HeartbeatTypeOK, ResetHeartbeatForAgent
<1>2. ASSUME NEW a \in AgentCopy
      PROVE  /\ NewTracker(a) \in AgentTracker /\ Matched(NewTracker(a))
             /\ NewTracker(a).interval = 0 \/ NewTracker(a).timer = "armed"
  <2>1. tracker.suggestions \subseteq BoardQuests
    BY DEF HbIInv, HeartbeatTypeOK, AgentTracker
  <2>2. NewTracker(a) \in AgentTracker
    BY <2>1 DEF NewTracker, AgentTracker, IntervalForStatus
  <2>3. Matched(NewTracker(a)) /\ (NewTracker(a).interval = 0 \/ NewTracker(a).timer = "armed")
    BY DEF NewTracker, Matched, IntervalForStatus
  <2> QED  BY <2>2, <2>3
<1>3. HeartbeatTypeOK'
  BY <1>1, <1>2 DEF HbIInv, HeartbeatTypeOK, ResetHeartbeatForAgent
<1> QED  BY <1>1, <1>2, <1>3 DEF HbIInv, HeartbeatAlive, ResetHeartbeatForAgent

\* A tracker with new suggestions is a tracker.
LEMMA NewSuggestions ==
  ASSUME NEW t \in AgentTracker, NEW S \in SUBSET BoardQuests,
         NEW timer \in {"absent", "none", "armed", "expired"}
  PROVE  [t EXCEPT !.suggestions = S, !.interval = 1, !.timer = timer] \in AgentTracker
<1>1. [t EXCEPT !.suggestions = S] \in AgentTracker
  BY DEF AgentTracker
<1> DEFINE u == [t EXCEPT !.suggestions = S]
<1>2. 1 \in 0 .. 2
  OBVIOUS
<1>3. [u EXCEPT !.interval = 1] \in AgentTracker
  BY <1>1, <1>2 DEF AgentTracker
<1> QED  BY <1>2 DEF AgentTracker

\* A suggestion takes a free goroutine, and may arm the timer of an idle agent.
LEMMA SuggestStep ==
  ASSUME HbIInv, NEW qs \in SUBSET BoardQuests, NEW e \in Evaluations, HandleBoidSuggestion(qs, e)
  PROVE  HbIInv'
<1>1. [NoEvaluation EXCEPT !.at = "fired"] \in Evaluation
  BY DEF NoEvaluation, Evaluation, AgentCopy, AgentStatuses
<1>2. /\ tracker' \in AgentTracker /\ Matched(tracker')
      /\ tracker'.timer \in {tracker.timer, "armed"} /\ tracker.interval # 0
  <2>1. /\ tracker \in AgentTracker /\ Matched(tracker) /\ tracker.timer # "absent"
        /\ tracker.copy.status = "idle"
    BY DEF HbIInv, HeartbeatTypeOK, HandleBoidSuggestion, Tracked
  <2>2. tracker.interval # 0 /\ tracker.timer # "none"
    BY <2>1 DEF Matched
  <2>3. tracker' = [tracker EXCEPT !.suggestions = qs, !.interval = 1,
                                   !.timer = IF tracker.interval > 1 THEN "armed" ELSE tracker.timer]
    BY DEF HandleBoidSuggestion
  <2>4. tracker'.timer \in {tracker.timer, "armed"} /\ tracker'.interval = 1
        /\ tracker'.copy = tracker.copy
    BY <2>1, <2>3 DEF AgentTracker
  <2>5. tracker' \in AgentTracker
    <3>1. ASSUME NEW timer \in {"absent", "none", "armed", "expired"}
          PROVE  [tracker EXCEPT !.suggestions = qs, !.interval = 1, !.timer = timer]
                   \in AgentTracker
      BY <2>1, NewSuggestions
    <3>2. tracker.timer \in {"absent", "none", "armed", "expired"}
      BY <2>1 DEF AgentTracker
    <3>3. CASE tracker.interval > 1
      BY <2>3, <3>1, <3>3
    <3>4. CASE ~(tracker.interval > 1)
      BY <2>3, <3>1, <3>2, <3>4
    <3> QED  BY <3>3, <3>4
  <2> QED  BY <2>1, <2>2, <2>4, <2>5 DEF Matched
<1>3. HeartbeatTypeOK'
  BY <1>1, <1>2, Stirred DEF HbIInv, HeartbeatTypeOK, HandleBoidSuggestion
<1>4. \A d \in Evaluations : Beating(evaluation[d]) => Beating(evaluation'[d])
  BY DEF HbIInv, HeartbeatTypeOK, HandleBoidSuggestion, Free, Beating
<1>5. HeartbeatAlive'
  BY <1>2, <1>4 DEF HbIInv, HeartbeatAlive, HandleBoidSuggestion, Beating, Tracked
<1> QED  BY <1>2, <1>3, <1>5 DEF HbIInv

\* The timer that fires starts a callback.
LEMMA FireStep == ASSUME HbIInv, NEW e \in Evaluations, Fire(e)  PROVE HbIInv'
<1>1. [NoEvaluation EXCEPT !.at = "fired", !.timed = TRUE] \in Evaluation
  BY DEF NoEvaluation, Evaluation, AgentCopy, AgentStatuses
<1>2. tracker' \in AgentTracker /\ Matched(tracker')
  BY DEF HbIInv, HeartbeatTypeOK, Fire, AgentTracker, Matched
<1>3. HeartbeatTypeOK'
  BY <1>1, <1>2 DEF HbIInv, HeartbeatTypeOK, Fire
<1>4. evaluation'[e].timed /\ evaluation'[e].at # "none"
  BY DEF HbIInv, HeartbeatTypeOK, Fire
<1> QED  BY <1>2, <1>3, <1>4 DEF HbIInv, HeartbeatAlive

\* A callback ends early only when the component has halted.
LEMMA FiredStep == ASSUME HbIInv, NEW e \in Evaluations, OnHeartbeatFired(e)  PROVE HbIInv'
<1> USE DEF HbIInv
<1>1. /\ evaluation[e] \in Evaluation /\ tracker \in AgentTracker
      /\ UNCHANGED <<agent, agentFeed, board, clock, tracker, boardPaused, autonomy, stirs>>
  BY DEF HeartbeatTypeOK, OnHeartbeatFired
<1>2. SameTimer(tracker, tracker')
  BY <1>1 DEF SameTimer
<1>3. NoEvaluation \in Evaluation
  BY DEF NoEvaluation, Evaluation, AgentCopy, AgentStatuses
<1>4. CASE evaluation[e].timed /\ autonomy \in {"halted", "stopped"}
  <2>1. evaluation' = [evaluation EXCEPT ![e] = NoEvaluation]
    BY <1>4 DEF OnHeartbeatFired
  <2>2. HeartbeatTypeOK'
    BY <1>1, <1>3, <2>1 DEF HeartbeatTypeOK
  <2> QED  BY <1>1, <1>4, <2>2 DEF HeartbeatAlive
<1>5. CASE ~(evaluation[e].timed /\ autonomy \in {"halted", "stopped"})
  <2> DEFINE after == IF evaluation[e].timed /\ boardPaused
                      THEN [evaluation[e] EXCEPT !.at = "ended"]
                      ELSE Snapshot(evaluation[e].timed)
  <2>1. evaluation' = [evaluation EXCEPT ![e] = after]
    BY <1>5 DEF OnHeartbeatFired, Goto, HeartbeatTypeOK
  <2>2. Snapshot(evaluation[e].timed) \in Evaluation
    BY <1>1, <1>3 DEF Snapshot, Evaluation, AgentTracker
  <2>3. [evaluation[e] EXCEPT !.at = "ended"] \in Evaluation
    BY <1>1 DEF Evaluation
  <2>4. after \in Evaluation
    BY <2>2, <2>3
  <2>5. Beating(evaluation[e]) => Beating(after)
    BY <1>1, <1>3 DEF Beating, Snapshot, Evaluation
  <2> QED  BY <1>1, <1>2, <2>1, <2>4, <2>5, GoroutineStep DEF HeartbeatTypeOK
<1> QED  BY <1>4, <1>5

\* What comes of an evaluation: the agent or the board may be put, the tracker may be backed
\* off or lose its suggestions, and the goroutine goes on to its end.
LEMMA EvaluationSteps ==
  ASSUME HbIInv, NEW e \in Evaluations,
         \/ CheckCooldownExpiry(e) \/ EvaluateAutonomy(e) \/ ReadSuggestion(e)
         \/ ClaimCAS(e) \/ MarkOnQuest(e)
  PROVE  HbIInv'
<1> USE DEF HbIInv
<1>1. evaluation[e] \in Evaluation /\ tracker \in AgentTracker /\ Matched(tracker)
  BY DEF HeartbeatTypeOK
<1>2. /\ SameTimer(tracker, tracker)
      /\ SameTimer(tracker, BackoffHeartbeat(tracker))
      /\ SameTimer(tracker, Forget(tracker))
      /\ SameTimer(tracker, BackoffHeartbeat(Forget(tracker)))
  <2>1. ASSUME NEW t \in AgentTracker, Matched(t)
        PROVE  SameTimer(t, BackoffHeartbeat(t)) /\ SameTimer(t, Forget(t))
    <3>1. BackoffHeartbeat(t) \in AgentTracker /\ Forget(t) \in AgentTracker
      BY DEF AgentTracker, BackoffHeartbeat, Forget
    <3>2. /\ BackoffHeartbeat(t).timer = t.timer /\ BackoffHeartbeat(t).copy = t.copy
          /\ BackoffHeartbeat(t).interval # t.interval =>
               t.copy.status = "idle" /\ BackoffHeartbeat(t).interval = 2
      BY DEF AgentTracker, BackoffHeartbeat
    <3>3. Forget(t).timer = t.timer /\ Forget(t).copy = t.copy /\ Forget(t).interval = t.interval
      BY DEF AgentTracker, Forget
    <3> QED  BY <2>1, <3>1, <3>2, <3>3 DEF SameTimer, Matched
  <2>2. SameTimer(tracker, tracker) /\ Forget(tracker) \in AgentTracker /\ Matched(Forget(tracker))
    BY <1>1, <2>1 DEF SameTimer
  <2>3. SameTimer(Forget(tracker), BackoffHeartbeat(Forget(tracker)))
    BY <2>1, <2>2
  <2> QED  BY <1>1, <2>1, <2>2, <2>3 DEF SameTimer
<1>3. SameTimer(tracker, tracker')
  BY <1>2 DEF CheckCooldownExpiry, EvaluateAutonomy, ReadSuggestion, ClaimCAS, MarkOnQuest
<1>4. UNCHANGED <<clock, boardPaused, autonomy, stirs>>
  BY DEF CheckCooldownExpiry, EvaluateAutonomy, ReadSuggestion, ClaimCAS, MarkOnQuest
<1>5. agent' \in AgentCopy /\ agentFeed' \in Seq(AgentCopy)
  <2>1. ASSUME NEW a \in AgentCopy, PutAgentCopy(a)
        PROVE  agent' \in AgentCopy /\ agentFeed' \in Seq(AgentCopy)
    BY <2>1 DEF PutAgentCopy, HeartbeatTypeOK
  <2>2. /\ [status |-> "idle", until |-> 0] \in AgentCopy
        /\ [evaluation[e].copy EXCEPT !.status = "on_quest"] \in AgentCopy
    BY <1>1 DEF Evaluation, AgentCopy, AgentStatuses
  <2> QED  BY <2>1, <2>2 DEF CheckCooldownExpiry, EvaluateAutonomy, ReadSuggestion, ClaimCAS,
                             MarkOnQuest, HeartbeatTypeOK
<1>6. board' \in [BoardQuests -> {"posted", "own", "rival"}]
  BY DEF CheckCooldownExpiry, EvaluateAutonomy, ReadSuggestion, ClaimCAS, MarkOnQuest,
         HeartbeatTypeOK
<1>7. \E r \in Evaluation :
        evaluation' = [evaluation EXCEPT ![e] = r] /\ (Beating(evaluation[e]) => Beating(r))
  <2>1. ASSUME NEW at \in {"claiming", "owning", "ended"}
        PROVE  LET r == [evaluation[e] EXCEPT !.at = at]
               IN  r \in Evaluation /\ (Beating(evaluation[e]) => Beating(r))
    BY <1>1 DEF Evaluation, Beating
  <2>2. ASSUME NEW Q \in SUBSET BoardQuests, NEW L \in SUBSET BoardQuests
        PROVE  LET r == [evaluation[e] EXCEPT !.quest = Q, !.list = L]
               IN  r \in Evaluation /\ (Beating(evaluation[e]) => Beating(r))
    BY <1>1 DEF Evaluation, Beating
  <2>3. CASE \E at \in {"claiming", "owning", "ended"} : Goto(e, at)
    <3>1. PICK at \in {"claiming", "owning", "ended"} : Goto(e, at)
      BY <2>3
    <3>2. evaluation' = [evaluation EXCEPT ![e] = [evaluation[e] EXCEPT !.at = at]]
      BY <3>1 DEF Goto, HeartbeatTypeOK
    <3> QED  BY <2>1, <3>2
  <2>4. CASE \E q \in evaluation[e].list :
               evaluation' = [evaluation EXCEPT ![e].quest = {q}, ![e].list = @ \ {q}]
    <3>1. PICK q \in evaluation[e].list :
            evaluation' = [evaluation EXCEPT ![e].quest = {q}, ![e].list = @ \ {q}]
      BY <2>4
    <3>2. {q} \subseteq BoardQuests /\ evaluation[e].list \ {q} \subseteq BoardQuests
      BY <1>1 DEF Evaluation
    <3>3. evaluation' = [evaluation EXCEPT ![e] =
            [evaluation[e] EXCEPT !.quest = {q}, !.list = evaluation[e].list \ {q}]]
      BY <3>1 DEF HeartbeatTypeOK
    <3> QED  BY <2>2, <3>2, <3>3
  <2>5. CASE \E q \in evaluation[e].list :
               evaluation' = [evaluation EXCEPT ![e].list = @ \ {q}]
    <3>1. PICK q \in evaluation[e].list : evaluation' = [evaluation EXCEPT ![e].list = @ \ {q}]
      BY <2>5
    <3>2. evaluation' = [evaluation EXCEPT ![e] =
            [evaluation[e] EXCEPT !.list = evaluation[e].list \ {q}]]
      BY <3>1 DEF HeartbeatTypeOK
    <3>3. LET r == [evaluation[e] EXCEPT !.list = evaluation[e].list \ {q}]
          IN  r \in Evaluation /\ (Beating(evaluation[e]) => Beating(r))
      BY <1>1 DEF Evaluation, Beating
    <3> QED  BY <3>2, <3>3
  <2>6. CASE evaluation' = [evaluation EXCEPT ![e].quest = {}]
    <3>1. evaluation' = [evaluation EXCEPT ![e] = [evaluation[e] EXCEPT !.quest = {}]]
      BY <2>6 DEF HeartbeatTypeOK
    <3>2. LET r == [evaluation[e] EXCEPT !.quest = {}]
          IN  r \in Evaluation /\ (Beating(evaluation[e]) => Beating(r))
      BY <1>1 DEF Evaluation, Beating
    <3> QED  BY <3>1, <3>2
  <2> QED  BY <2>3, <2>4, <2>5, <2>6
           DEF CheckCooldownExpiry, EvaluateAutonomy, ReadSuggestion, ClaimCAS, MarkOnQuest
<1> QED  BY <1>3, <1>4, <1>5, <1>6, <1>7, GoroutineStep

\* The end of a callback arms the timer there is.
LEMMA RearmStep == ASSUME HbIInv, NEW e \in Evaluations, Rearm(e)  PROVE HbIInv'
<1> USE DEF HbIInv
<1>1. NoEvaluation \in Evaluation
  BY DEF NoEvaluation, Evaluation, AgentCopy, AgentStatuses
<1>2. tracker' \in AgentTracker /\ Matched(tracker')
  BY DEF HeartbeatTypeOK, Rearm, AgentTracker, Matched, Tracked
<1>3. HeartbeatTypeOK'
  BY <1>1, <1>2 DEF HeartbeatTypeOK, Rearm
<1>4. HeartbeatAlive'
  <2>1. CASE evaluation[e].timed /\ autonomy = "running" /\ Tracked
    BY <2>1 DEF Rearm, HeartbeatAlive, HeartbeatTypeOK, AgentTracker, Matched, Tracked
  <2>2. CASE ~evaluation[e].timed
    BY <2>2 DEF Rearm, HeartbeatAlive, HeartbeatTypeOK, Tracked
  <2>3. CASE autonomy # "running" \/ ~Tracked
    BY <2>3 DEF Rearm, HeartbeatAlive, Tracked
  <2> QED  BY <2>1, <2>2, <2>3
<1> QED  BY <1>2, <1>3, <1>4

\* Once the process stops there is nothing to keep alive.
LEMMA StopStep == HbIInv /\ StopAutonomy => HbIInv'
<1> SUFFICES ASSUME HbIInv, StopAutonomy  PROVE HbIInv'
  OBVIOUS
<1>1. tracker' \in AgentTracker /\ Matched(tracker')
  BY DEF HbIInv, HeartbeatTypeOK, StopAutonomy, NoTracker, AgentTracker, AgentCopy,
         AgentStatuses, Matched
<1> QED  BY <1>1 DEF HbIInv, HeartbeatTypeOK, StopAutonomy, HeartbeatAlive

\* Every step keeps the invariant.
LEMMA HeartbeatInduction == HbIInv /\ [HeartbeatNext]_hbVars => HbIInv'
<1> SUFFICES ASSUME HbIInv, [HeartbeatNext]_hbVars  PROVE HbIInv'
  OBVIOUS
<1> USE DEF HbIInv
<1>1. CASE UNCHANGED hbVars
  BY <1>1, OthersStep DEF hbVars, HeartbeatTypeOK
<1>2. ASSUME NEW s \in AgentStatuses, OtherPut(s)  PROVE HbIInv'
  <2> DEFINE new == [status |-> s, until |-> IF s = "cooldown" THEN clock + 1 ELSE 0]
  <2>1. new \in AgentCopy /\ PutAgentCopy(new)
    BY <1>2 DEF OtherPut, AgentCopy, HeartbeatTypeOK
  <2>2. agent' \in AgentCopy /\ agentFeed' \in Seq(AgentCopy)
    BY <2>1 DEF PutAgentCopy, HeartbeatTypeOK
  <2> QED  BY <1>2, <2>2, Stirred, OthersStep DEF OtherPut, HeartbeatTypeOK
<1>3. CASE CooldownElapses
  BY <1>3, OthersStep DEF CooldownElapses, HeartbeatTypeOK, AgentCopy
<1>4. ASSUME NEW q \in BoardQuests, RivalClaims(q)  PROVE HbIInv'
  BY <1>4, OthersStep DEF RivalClaims, HeartbeatTypeOK
<1>5. CASE TogglePause
  BY <1>5, Stirred, OthersStep DEF TogglePause, HeartbeatTypeOK
<1> QED  BY <1>1, <1>2, <1>3, <1>4, <1>5, ResetStep, SuggestStep, FireStep, FiredStep,
            EvaluationSteps, RearmStep, StopStep DEF HeartbeatNext, EvaluationStep

\* While the component runs, an agent that is not retired has an armed timer or a callback
\* that will arm it (resetHeartbeatForAgent, onHeartbeatFired and handleBoidSuggestion of
\* processor/autonomy).
THEOREM HeartbeatsGoOn == HeartbeatSafe => []HeartbeatAlive
<1>1. HbIInv => HeartbeatAlive
  BY DEF HbIInv
<1> QED  BY <1>1, HeartbeatStart, HeartbeatInduction, PTL DEF HeartbeatSafe

\* A step of anybody leaves a rival's quest to the rival.
LEMMA RivalsStep ==
  HbIInv /\ [HeartbeatNext]_hbVars =>
    [\A q \in BoardQuests : board[q] = "rival" => board'[q] = "rival"]_hbVars
<1> SUFFICES ASSUME HbIInv, HeartbeatNext, NEW q \in BoardQuests, board[q] = "rival"
             PROVE  board'[q] = "rival"
  OBVIOUS
<1>1. board \in [BoardQuests -> {"posted", "own", "rival"}]
  BY DEF HbIInv, HeartbeatTypeOK
<1>2. ASSUME NEW p \in BoardQuests, RivalClaims(p)  PROVE board'[q] = "rival"
  BY <1>1, <1>2 DEF RivalClaims
<1>3. ASSUME NEW e \in Evaluations, ClaimCAS(e)  PROVE board'[q] = "rival"
  BY <1>1, <1>3 DEF ClaimCAS
<1>4. board' = board \/ (\E p \in BoardQuests : RivalClaims(p))
                     \/ (\E e \in Evaluations : ClaimCAS(e))
  BY DEF HeartbeatNext, OtherPut, CooldownElapses, TogglePause, ResetHeartbeatForAgent,
         HandleBoidSuggestion, Fire, EvaluationStep, OnHeartbeatFired, CheckCooldownExpiry,
         EvaluateAutonomy, ReadSuggestion, MarkOnQuest, Rearm, StopAutonomy
<1> QED  BY <1>2, <1>3, <1>4

\* The agent never takes a quest from a rival, on whatever old reads it decides (ClaimQuest by
\* compare-and-swap in processor/autonomy).
THEOREM RivalsAlwaysKeep == HeartbeatSafe => RivalsKeepQuests
BY HeartbeatStart, HeartbeatInduction, RivalsStep, PTL DEF HeartbeatSafe, RivalsKeepQuests

-----------------------------------------------------------------------------
(***************************************************************************)
(* What the store sold and nobody used is in its memory, for any number of *)
(* calls, prices and restarts.  The entity may lose a sale, since it is    *)
(* put without compare-and-swap; memory may not, because copies the watch  *)
(* brings back, however old, are merged and never replace what is there.   *)
(***************************************************************************)
StoreIInv == StoreTypeOK /\ PurchasesStay

\* Calls, meddlers and the watch: the inventory holds no less, the receipts say the same.
Stocked == inventory' \in Inventory /\ receipts' \in Inventory /\ PurchasesStay'

-----------------------------------------------------------------------------
\* Nothing is sold to begin with.
LEMMA StoreStart == StoreInit => StoreIInv
<1> SUFFICES ASSUME StoreInit  PROVE StoreIInv
  OBVIOUS
<1>1. Fresh \in Shopper
  BY AgentStoreAssumption DEF Fresh, Shopper
<1>2. Empty \in Inventory
  BY DEF Empty, Inventory
<1>3. ClosedTill \in Till
  BY <1>1, AgentStoreAssumption DEF ClosedTill, Till
<1>4. <<>> \in Seq(Shopper)
  OBVIOUS
<1>5. StoreTypeOK
  BY <1>1, <1>2, <1>3, <1>4 DEF StoreInit, StoreTypeOK
<1> QED  BY <1>5 DEF StoreInit, StoreIInv, PurchasesStay, Empty

\* A sale adds to a record of an inventory, and to an entity.
LEMMA SoldTypes ==
  ASSUME NEW item \in {"tool", "consumable"}
  PROVE  /\ \A r \in Inventory :
              /\ Sold(r, item) \in Inventory
              /\ Sold(r, item).spent = r.spent + ItemPrice
              /\ Sold(r, item).consumables = IF item = "tool" THEN r.consumables
                                                              ELSE r.consumables + 1
              /\ Sold(r, item).tool = (r.tool \/ item = "tool")
         /\ \A a \in Shopper :
              [Sold(a, item) EXCEPT !.xp = @ - ItemPrice] \in Shopper
<1>1. ItemPrice \in Nat
  BY AgentStoreAssumption
<1>2. ASSUME NEW r \in Inventory
      PROVE  /\ Sold(r, item) \in Inventory
             /\ Sold(r, item).spent = r.spent + ItemPrice
             /\ Sold(r, item).consumables = IF item = "tool" THEN r.consumables
                                                             ELSE r.consumables + 1
             /\ Sold(r, item).tool = (r.tool \/ item = "tool")
  <2>1. r.spent + ItemPrice \in Nat /\ r.consumables + 1 \in Nat /\ r.tool \in BOOLEAN
    BY <1>1 DEF Inventory
  <2>2. CASE item = "tool"
    <3>1. Sold(r, item) = [r EXCEPT !.tool = TRUE, !.spent = r.spent + ItemPrice]
      BY <2>2 DEF Sold
    <3> QED  BY <2>1, <2>2, <3>1 DEF Inventory
  <2>3. CASE item = "consumable"
    <3>1. Sold(r, item) = [r EXCEPT !.consumables = r.consumables + 1, !.spent = r.spent + ItemPrice]
      BY <2>3 DEF Sold
    <3> QED  BY <2>1, <2>3, <3>1 DEF Inventory
  <2> QED  BY <2>2, <2>3
<1>3. ASSUME NEW a \in Shopper
      PROVE  [Sold(a, item) EXCEPT !.xp = @ - ItemPrice] \in Shopper
  <2>1. /\ a.spent + ItemPrice \in Nat /\ a.consumables + 1 \in Nat
        /\ \A x \in Int : x - ItemPrice \in Int
    BY <1>1 DEF Shopper
  <2>2. Sold(a, item) \in Shopper
    <3>1. CASE item = "tool"
      <4>1. Sold(a, item) = [a EXCEPT !.tool = TRUE, !.spent = a.spent + ItemPrice]
        BY <3>1 DEF Sold
      <4> QED  BY <2>1, <4>1 DEF Shopper
    <3>2. CASE item = "consumable"
      <4>1. Sold(a, item) =
              [a EXCEPT !.consumables = a.consumables + 1, !.spent = a.spent + ItemPrice]
        BY <3>2 DEF Sold
      <4> QED  BY <2>1, <4>1 DEF Shopper
    <3> QED  BY <3>1, <3>2
  <2> DEFINE sold == Sold(a, item)
  <2> HIDE DEF sold
  <2>3. sold \in Shopper => [sold EXCEPT !.xp = @ - ItemPrice] \in Shopper
    BY <2>1 DEF Shopper
  <2> QED  BY <2>2, <2>3 DEF sold
<1> QED  BY <1>2, <1>3

\* The merge of a copy loses nothing of either.
LEMMA SyncHolds ==
  ASSUME NEW a \in Shopper, NEW i \in Inventory
  PROVE  /\ SyncInventoryFromAgent(a, i) \in Inventory
         /\ SyncInventoryFromAgent(a, i).spent >= i.spent
         /\ SyncInventoryFromAgent(a, i).consumables >= i.consumables
         /\ i.tool => SyncInventoryFromAgent(a, i).tool
BY DEF SyncInventoryFromAgent, Shopper, Inventory

\* One call moves on, with the entity, the inventory and the receipts as they are shown to be.
LEMMA TillStep ==
  ASSUME StoreIInv, NEW c \in Tills, NEW t \in Till, till' = [till EXCEPT ![c] = t],
         shopper' \in Shopper, shopperFeed' \in Seq(Shopper), meddler' \subseteq Shopper,
         Stocked, shopCounts' \in [trades : Nat, meddles : Nat, crashes : Nat]
  PROVE  StoreIInv'
BY DEF StoreIInv, StoreTypeOK, Stocked

\* Calls come in, read, lose their trade or are told.
LEMMA CallMoves ==
  ASSUME StoreIInv, NEW c \in Tills,
         \/ \E item \in {"tool", "consumable"} : EnterShop(c, item)
         \/ AskToUse(c) \/ ReadShopper(c) \/ LoseTrade(c) \/ Announce(c) \/ CallAgain(c)
  PROVE  StoreIInv'
<1> USE DEF StoreIInv
<1>1. /\ till[c] \in Till /\ shopper \in Shopper /\ Fresh \in Shopper /\ ClosedTill \in Till
      /\ UNCHANGED <<shopper, shopperFeed, inventory, meddler, receipts>>
  BY AgentStoreAssumption DEF StoreTypeOK, EnterShop, AskToUse, ReadShopper, LoseTrade, Announce,
       CallAgain, Fresh, Shopper, ClosedTill, Till
<1>2. Stocked
  BY <1>1 DEF Stocked, StoreTypeOK, PurchasesStay
<1>3. shopCounts' \in [trades : Nat, meddles : Nat, crashes : Nat]
  <2>1. shopCounts \in [trades : Nat, meddles : Nat, crashes : Nat]
    BY DEF StoreTypeOK
  <2> QED  BY <2>1 DEF EnterShop, AskToUse, ReadShopper, LoseTrade, Announce, CallAgain, Trade
<1>4. \E t \in Till : till' = [till EXCEPT ![c] = t]
  <2>1. ASSUME NEW item \in {"tool", "consumable"}, EnterShop(c, item)
        PROVE  \E t \in Till : till' = [till EXCEPT ![c] = t]
    <3>1. shopper.xp \in Int
      BY <1>1 DEF Shopper
    <3>2. [ClosedTill EXCEPT !.at = "entered", !.item = item, !.xp = shopper.xp] \in Till
      BY <1>1, <3>1 DEF Till
    <3> QED  BY <2>1, <3>2 DEF EnterShop
  <2>2. CASE AskToUse(c)
    <3>1. [ClosedTill EXCEPT !.call = "use", !.at = "entered"] \in Till
      BY <1>1 DEF Till
    <3> QED  BY <2>2, <3>1 DEF AskToUse
  <2>3. CASE ReadShopper(c)
    <3>1. [till[c] EXCEPT !.copy = shopper, !.at = "putting"] \in Till
      BY <1>1 DEF Till
    <3>2. till' = [till EXCEPT ![c] = [till[c] EXCEPT !.copy = shopper, !.at = "putting"]]
      BY <2>3 DEF ReadShopper, StoreTypeOK
    <3> QED  BY <3>1, <3>2
  <2>4. CASE LoseTrade(c)
    <3>1. [till[c] EXCEPT !.at = "telling", !.copy = Fresh] \in Till
      BY <1>1 DEF Till
    <3>2. till' = [till EXCEPT ![c] = [till[c] EXCEPT !.at = "telling", !.copy = Fresh]]
      BY <2>4 DEF LoseTrade, Told, StoreTypeOK
    <3> QED  BY <3>1, <3>2
  <2>5. CASE Announce(c)
    BY <1>1, <2>5 DEF Announce
  <2>6. CASE CallAgain(c)
    <3>1. [till[c] EXCEPT !.at = "entered"] \in Till
      BY <1>1 DEF Till
    <3>2. till' = [till EXCEPT ![c] = [till[c] EXCEPT !.at = "entered"]]
      BY <2>6 DEF CallAgain, StoreTypeOK
    <3> QED  BY <3>1, <3>2
  <2> QED  BY <2>1, <2>2, <2>3, <2>4, <2>5, <2>6
<1>5. shopper' \in Shopper /\ shopperFeed' \in Seq(Shopper) /\ meddler' \subseteq Shopper
  BY <1>1 DEF StoreTypeOK
<1> QED  BY <1>2, <1>3, <1>4, <1>5, TillStep

\* The two trades in memory: what is sold is added on both sides, and no more than what is
\* there is used.
LEMMA TradeStep ==
  ASSUME StoreIInv, NEW c \in Tills, Purchase(c) \/ UseConsumable(c)
  PROVE  StoreIInv'
<1> USE DEF StoreIInv
<1>1. /\ till[c] \in Till /\ inventory \in Inventory /\ receipts \in Inventory
      /\ UNCHANGED <<shopper, shopperFeed, meddler, shopCounts>>
  BY DEF StoreTypeOK, Purchase, UseConsumable
<1>2. ClosedTill \in Till
  BY AgentStoreAssumption DEF Fresh, Shopper, ClosedTill, Till
<1>3. [till[c] EXCEPT !.at = "done"] \in Till
  BY <1>1 DEF Till
<1>4. \E t \in Till : till' = [till EXCEPT ![c] = t]
  <2>1. \/ till' = [till EXCEPT ![c] = ClosedTill]
        \/ till' = [till EXCEPT ![c] = [till[c] EXCEPT !.at = "done"]]
    BY DEF Purchase, UseConsumable, StoreTypeOK
  <2> QED  BY <1>2, <1>3, <2>1
<1>5. Stocked
  <2>1. CASE UNCHANGED <<inventory, receipts>>
    BY <1>1, <2>1 DEF Stocked, PurchasesStay
  <2>2. CASE inventory' = Sold(inventory, till[c].item) /\ receipts' = Sold(receipts, till[c].item)
    <3>1. till[c].item \in {"tool", "consumable"} /\ ItemPrice \in Nat
      BY <1>1, AgentStoreAssumption DEF Till
    <3>2. inventory' \in Inventory /\ receipts' \in Inventory
      BY <1>1, <2>2, <3>1, SoldTypes
    <3>3. /\ inventory'.spent = inventory.spent + ItemPrice
          /\ receipts'.spent = receipts.spent + ItemPrice
          /\ inventory'.tool = (inventory.tool \/ till[c].item = "tool")
          /\ receipts'.tool = (receipts.tool \/ till[c].item = "tool")
      BY <1>1, <2>2, <3>1, SoldTypes
    <3>4. inventory'.consumables >= receipts'.consumables
      <4>1. inventory.consumables \in Nat /\ receipts.consumables \in Nat
        BY <1>1 DEF Inventory
      <4>2. CASE till[c].item = "tool"
        BY <1>1, <2>2, <3>1, <4>1, <4>2, SoldTypes DEF PurchasesStay
      <4>3. CASE till[c].item = "consumable"
        <5>1. /\ inventory'.consumables = inventory.consumables + 1
              /\ receipts'.consumables = receipts.consumables + 1
          BY <1>1, <2>2, <3>1, <4>3, SoldTypes
        <5> QED  BY <4>1, <5>1 DEF PurchasesStay
      <4> QED  BY <3>1, <4>2, <4>3
    <3>5. inventory'.spent >= receipts'.spent
      BY <1>1, <3>1, <3>3 DEF PurchasesStay, Inventory
    <3>6. receipts'.tool => inventory'.tool
      BY <3>3 DEF PurchasesStay
    <3> QED  BY <3>2, <3>4, <3>5, <3>6 DEF Stocked, PurchasesStay
  <2>3. CASE /\ inventory.consumables # 0
             /\ inventory' = [inventory EXCEPT !.consumables = @ - 1, !.effects = @ + 1]
             /\ receipts' = [receipts EXCEPT !.consumables = IF @ > 0 THEN @ - 1 ELSE 0]
    <3>1. /\ inventory'.consumables = inventory.consumables - 1
          /\ inventory'.spent = inventory.spent /\ inventory'.tool = inventory.tool
          /\ inventory' \in Inventory
      <4>1. inventory.consumables - 1 \in Nat /\ inventory.effects + 1 \in Nat
        BY <1>1, <2>3 DEF Inventory
      <4>2. inventory' = [inventory EXCEPT !.consumables = inventory.consumables - 1,
                                           !.effects = inventory.effects + 1]
        BY <2>3
      <4> QED  BY <1>1, <4>1, <4>2 DEF Inventory
    <3>2. /\ receipts'.consumables = IF receipts.consumables > 0 THEN receipts.consumables - 1 ELSE 0
          /\ receipts'.spent = receipts.spent /\ receipts'.tool = receipts.tool
          /\ receipts' \in Inventory
      BY <1>1, <2>3 DEF Inventory
    <3>3. inventory.consumables \in Nat /\ receipts.consumables \in Nat
      BY <1>1 DEF Inventory
    <3> QED  BY <2>3, <3>1, <3>2, <3>3 DEF Stocked, PurchasesStay
  <2> QED  BY <2>1, <2>2, <2>3 DEF Purchase, UseConsumable
<1>6. shopper' \in Shopper /\ shopperFeed' \in Seq(Shopper) /\ meddler' \subseteq Shopper
      /\ shopCounts' \in [trades : Nat, meddles : Nat, crashes : Nat]
  BY <1>1 DEF StoreTypeOK
<1> QED  BY <1>4, <1>5, <1>6, TillStep

\* The entity is put; memory does not change.
LEMMA TradePutStep ==
  ASSUME StoreIInv, NEW c \in Tills, PutPurchase(c) \/ PutUsed(c)
  PROVE  StoreIInv'
<1> USE DEF StoreIInv
<1>1. till[c] \in Till /\ till[c].copy \in Shopper /\ till[c].item \in {"tool", "consumable"}
      /\ Fresh \in Shopper /\ UNCHANGED <<inventory, meddler, receipts, shopCounts>>
  BY AgentStoreAssumption DEF StoreTypeOK, PutPurchase, PutUsed, Till, Fresh, Shopper
<1>2. [till[c] EXCEPT !.at = "telling", !.copy = Fresh] \in Till
  BY <1>1 DEF Till
<1>3. till' = [till EXCEPT ![c] = [till[c] EXCEPT !.at = "telling", !.copy = Fresh]]
  BY DEF PutPurchase, PutUsed, Told, StoreTypeOK
<1>4. shopper' \in Shopper /\ shopperFeed' \in Seq(Shopper)
  <2>1. ASSUME NEW a \in Shopper, PutShopper(a)
        PROVE  shopper' \in Shopper /\ shopperFeed' \in Seq(Shopper)
    BY <2>1 DEF PutShopper, StoreTypeOK
  <2>2. [Sold(till[c].copy, till[c].item) EXCEPT !.xp = @ - ItemPrice] \in Shopper
    BY <1>1, SoldTypes
  <2>3. [till[c].copy EXCEPT !.consumables = IF @ > 0 THEN @ - 1 ELSE 0,
                             !.effects = 1, !.cooldown = FALSE] \in Shopper
    <3>1. ASSUME NEW a \in Shopper, NEW n \in Nat
          PROVE  [a EXCEPT !.consumables = n, !.effects = 1, !.cooldown = FALSE] \in Shopper
      <4>1. 1 \in Nat
        OBVIOUS
      <4> QED  BY <4>1 DEF Shopper
    <3> DEFINE a == till[c].copy
               n == IF a.consumables > 0 THEN a.consumables - 1 ELSE 0
    <3>2. n \in Nat
      BY <1>1 DEF Shopper
    <3>3. [a EXCEPT !.consumables = n, !.effects = 1, !.cooldown = FALSE] \in Shopper
      BY <1>1, <3>1, <3>2
    <3> QED  BY <3>3
  <2> QED  BY <2>1, <2>2, <2>3 DEF PutPurchase, PutUsed
<1>5. Stocked
  BY <1>1 DEF Stocked, StoreTypeOK, PurchasesStay
<1> QED  BY <1>1, <1>2, <1>3, <1>4, <1>5, TillStep DEF StoreTypeOK

\* Another processor reads and puts.
LEMMA MeddlerStep == StoreIInv /\ (MeddlerReads \/ MeddlerPuts) => StoreIInv'
<1> SUFFICES ASSUME StoreIInv, MeddlerReads \/ MeddlerPuts  PROVE StoreIInv'
  OBVIOUS
<1> USE DEF StoreIInv
<1>1. CASE MeddlerReads
  <2>1. shopCounts' \in [trades : Nat, meddles : Nat, crashes : Nat]
    BY <1>1 DEF MeddlerReads, StoreTypeOK
  <2> QED  BY <1>1, <2>1 DEF MeddlerReads, StoreTypeOK, PurchasesStay
<1>2. CASE MeddlerPuts
  <2>1. PICK a \in Shopper :
          \/ PutShopper([a EXCEPT !.xp = @ + ItemPrice])
          \/ PutShopper([a EXCEPT !.cooldown = TRUE])
    BY <1>2 DEF MeddlerPuts, StoreTypeOK
  <2>2. [a EXCEPT !.xp = @ + ItemPrice] \in Shopper
    <3>1. a.xp + ItemPrice \in Int
      BY AgentStoreAssumption DEF Shopper
    <3> QED  BY <3>1 DEF Shopper
  <2>3. [a EXCEPT !.cooldown = TRUE] \in Shopper
    BY DEF Shopper
  <2>4. ASSUME NEW x \in Shopper, PutShopper(x)
        PROVE  shopper' \in Shopper /\ shopperFeed' \in Seq(Shopper)
    BY <2>4 DEF PutShopper, StoreTypeOK
  <2>5. shopper' \in Shopper /\ shopperFeed' \in Seq(Shopper)
    BY <2>1, <2>2, <2>3, <2>4
  <2> QED  BY <1>2, <2>5 DEF MeddlerPuts, StoreTypeOK, PurchasesStay
<1> QED  BY <1>1, <1>2

\* The watch merges.
LEMMA WatchStep == StoreIInv /\ WatchShopper => StoreIInv'
<1> SUFFICES ASSUME StoreIInv, WatchShopper  PROVE StoreIInv'
  OBVIOUS
<1> USE DEF StoreIInv
<1>1. /\ Head(shopperFeed) \in Shopper /\ Tail(shopperFeed) \in Seq(Shopper)
      /\ inventory \in Inventory /\ receipts \in Inventory
      /\ inventory' = SyncInventoryFromAgent(Head(shopperFeed), inventory)
      /\ UNCHANGED <<shopper, till, meddler, receipts, shopCounts>>
  BY DEF WatchShopper, StoreTypeOK
<1>2. /\ inventory' \in Inventory
      /\ inventory'.spent >= inventory.spent
      /\ inventory'.consumables >= inventory.consumables
      /\ inventory.tool => inventory'.tool
  BY <1>1, SyncHolds
<1>3. StoreTypeOK'
  BY <1>1, <1>2 DEF WatchShopper, StoreTypeOK
<1>4. PurchasesStay'
  BY <1>1, <1>2 DEF PurchasesStay, Inventory
<1> QED  BY <1>3, <1>4

\* A restart begins both records anew, from the entity.
LEMMA StoreRestartStep == StoreIInv /\ RestartStore => StoreIInv'
<1> SUFFICES ASSUME StoreIInv, RestartStore  PROVE StoreIInv'
  OBVIOUS
<1> USE DEF StoreIInv
<1>1. Empty \in Inventory /\ shopper \in Shopper /\ ClosedTill \in Till
  BY AgentStoreAssumption DEF Empty, Inventory, StoreTypeOK, Fresh, Shopper, ClosedTill, Till
<1>2. inventory' \in Inventory /\ receipts' = inventory'
  BY <1>1, SyncHolds DEF RestartStore
<1>3. shopCounts' \in [trades : Nat, meddles : Nat, crashes : Nat]
  BY DEF RestartStore, StoreTypeOK
<1>4. shopperFeed' \in Seq(Shopper)
  BY <1>1 DEF RestartStore
<1>5. StoreTypeOK'
  BY <1>1, <1>2, <1>3, <1>4 DEF RestartStore, StoreTypeOK
<1>6. PurchasesStay'
  BY <1>2 DEF PurchasesStay, Inventory
<1> QED  BY <1>5, <1>6

\* Every step keeps the invariant.
LEMMA StoreInduction == StoreIInv /\ [StoreNext]_asVars => StoreIInv'
<1> SUFFICES ASSUME StoreIInv, [StoreNext]_asVars  PROVE StoreIInv'
  OBVIOUS
<1>1. CASE UNCHANGED asVars
  BY <1>1 DEF asVars, StoreIInv, StoreTypeOK, PurchasesStay
<1>2. CASE StoreNext
  BY <1>2, CallMoves, TradeStep, TradePutStep, MeddlerStep, WatchStep, StoreRestartStep DEF StoreNext
<1> QED  BY <1>1, <1>2

\* While the store runs, its inventory holds at least what was sold and not used, whatever late
\* or overwritten copies of the agent the watch brings back (syncInventoryFromAgent and the
\* handlers of processor/agentstore).
THEOREM PurchasesAlwaysStay == StoreSpec => []PurchasesStay
<1>1. StoreIInv => PurchasesStay
  BY DEF StoreIInv
<1> QED  BY <1>1, StoreStart, StoreInduction, PTL DEF StoreSpec

-----------------------------------------------------------------------------
(***************************************************************************)
(* agentprogression: two watchers put whole copies of the same agent, for  *)
(* any number of quests, reviews and restarts.                             *)
(*                                                                         *)
(* A copy that will be put into the winner is the winner's entity as it    *)
(* is: the mutex keeps the other handler out until the put, and the step   *)
(* that takes no mutex puts the orphan only.  Level and XP are left out:   *)
(* what LevelUp adds up is a recursion, and no property is about it.       *)
(***************************************************************************)
PersonFields == {"level", "xp", "onQuest", "quests", "reviews"}
DeskFields == {"at", "who", "copy", "entry"}

\* An agent whose level and XP may be anything.
Counted(p) == DOMAIN p = PersonFields /\ p.quests \in Nat /\ p.reviews \in Nat

PrShape ==
  /\ ended \in [Feats -> SUBSET Deeds]
  /\ questFeed \in Seq(Entry)
  /\ lastSeen \in [Feats -> {"unseen", "open", "over"}]
  /\ DOMAIN people = People /\ \A a \in People : Counted(people[a])
  /\ DOMAIN questDesk = DeskFields /\ DOMAIN reviewDesk = DeskFields
  /\ questDesk.at \in {"idle", "read", "listing", "orphan"} /\ questDesk.entry \in SUBSET Entry
  /\ reviewDesk.at \in {"idle", "read"} /\ reviewDesk.who \in People
  /\ Counted(questDesk.copy) /\ Counted(reviewDesk.copy)
  /\ reviewFeed \in Seq(People) /\ reviews \in Seq(People)
  /\ awards \in [quests : Nat, reviews : Nat]
  /\ due \in [Feats -> Nat] /\ paid \in [Feats -> Nat]

\* A copy that will be put into the winner is the winner's entity; one handler holds it.
CopiesFresh ==
  /\ questDesk.at = "read" => questDesk.copy = people[Winner]
  /\ reviewDesk.at = "read" /\ reviewDesk.who = Winner =>
       questDesk.at = "idle" /\ reviewDesk.copy = people[Winner]

WatchersIInv == PrShape /\ CopiesFresh /\ WatchersLoseNothing

LEMMA XPKeepsCounts ==
  ASSUME NEW p, Counted(p), NEW d
  PROVE  LET q == ApplyXP(p, d) IN
           /\ DOMAIN q = PersonFields
           /\ q.quests = p.quests /\ q.reviews = p.reviews
<1>1. \A x : LET q == [p EXCEPT !.xp = x] IN
         DOMAIN q = PersonFields /\ q.quests = p.quests /\ q.reviews = p.reviews
  BY DEF Counted, PersonFields
<1>2. ASSUME NEW x
      PROVE  LET q == LevelUp([p EXCEPT !.xp = x]) IN
               DOMAIN q = PersonFields /\ q.quests = p.quests /\ q.reviews = p.reviews
  <2> DEFINE r == [p EXCEPT !.xp = x]
  <2>1. DOMAIN r = PersonFields /\ r.quests = p.quests /\ r.reviews = p.reviews
    BY <1>1
  <2> HIDE DEF r
  <2>2. \E a, b : LevelUp(r) = [r EXCEPT !.xp = a, !.level = b]
    BY DEF LevelUp
  <2> QED BY <2>1, <2>2 DEF PersonFields, r
<1> QED BY <1>2 DEF ApplyXP

LEMMA WatchersStart == ProgressionInit => WatchersIInv
<1> SUFFICES ASSUME ProgressionInit PROVE WatchersIInv
  OBVIOUS
<1>1. Counted(Nobody)
  BY DEF Counted, Nobody, PersonFields
<1>2. /\ ended \in [Feats -> SUBSET Deeds]
      /\ questFeed \in Seq(Entry)
      /\ lastSeen \in [Feats -> {"unseen", "open", "over"}]
      /\ reviewFeed \in Seq(People) /\ reviews \in Seq(People)
      /\ awards \in [quests : Nat, reviews : Nat]
      /\ due \in [Feats -> Nat] /\ paid \in [Feats -> Nat]
  BY DEF ProgressionInit
<1>3. DOMAIN people = People /\ \A a \in People : people[a] = Nobody
  BY DEF ProgressionInit
<1>4. /\ questDesk = IdleDesk /\ reviewDesk = IdleDesk
      /\ awards.quests = 0 /\ awards.reviews = 0
  BY DEF ProgressionInit
<1>5. /\ DOMAIN IdleDesk = DeskFields /\ IdleDesk.at = "idle" /\ IdleDesk.entry = {}
      /\ IdleDesk.who \in People /\ IdleDesk.copy = Nobody
  BY DEF IdleDesk, DeskFields, People
<1>6. Nobody.quests = 0 /\ Nobody.reviews = 0 /\ Winner \in People
  BY DEF Nobody, People
<1>7. PrShape
  BY <1>1, <1>2, <1>3, <1>4, <1>5, <1>6 DEF PrShape
<1>8. CopiesFresh /\ WatchersLoseNothing
  BY <1>3, <1>4, <1>5, <1>6 DEF CopiesFresh, WatchersLoseNothing
<1> QED BY <1>7, <1>8 DEF WatchersIInv

LEMMA PersonPut ==
  ASSUME PrShape, NEW a \in People, NEW p, Counted(p), people' = [people EXCEPT ![a] = p]
  PROVE  /\ DOMAIN people' = People /\ \A b \in People : Counted(people'[b])
         /\ people'[a] = p /\ \A b \in People \ {a} : people'[b] = people[b]
BY DEF PrShape

\* A put of a quest is an entry of the feed.
LEMMA EntryShown ==
  ASSUME PrShape, NEW f \in Feats, NEW deeds \in SUBSET Deeds, NEW k \in Nat,
         ShowQuest(f, deeds, k)
  PROVE  questFeed' \in Seq(Entry)
<1>1. [feat |-> f, deed |-> deeds, nth |-> k] \in Entry
  BY DEF Entry
<1> QED BY <1>1, AppendProperties DEF ShowQuest, PrShape

LEMMA OutsideSteps ==
  ASSUME WatchersIInv,
         \/ \E f \in Feats, d \in Deeds : EndQuest(f, d)
         \/ \E f \in Feats : TouchQuest(f) \/ ReopenQuest(f)
         \/ \E a \in People : PutReview(a)
         \/ UNCHANGED prVars
  PROVE  WatchersIInv'
<1>1. /\ UNCHANGED <<lastSeen, people, questDesk, reviewDesk, awards>>
      /\ paid' = paid
  BY DEF EndQuest, TouchQuest, ReopenQuest, PutReview, books, prVars
<1>2. /\ ended' \in [Feats -> SUBSET Deeds] /\ questFeed' \in Seq(Entry)
      /\ due' \in [Feats -> Nat]
  <2>1. ASSUME NEW f \in Feats, NEW d \in Deeds, EndQuest(f, d)
        PROVE  /\ ended' \in [Feats -> SUBSET Deeds] /\ questFeed' \in Seq(Entry)
               /\ due' \in [Feats -> Nat]
    <3>1. ended' \in [Feats -> SUBSET Deeds]
      BY <2>1 DEF EndQuest, WatchersIInv, PrShape
    <3>2. due' \in [Feats -> Nat]
      BY <2>1 DEF EndQuest, WatchersIInv, PrShape
    <3>3. due'[f] \in Nat /\ {d} \in SUBSET Deeds /\ ShowQuest(f, {d}, due'[f])
      BY <2>1, <3>2 DEF EndQuest
    <3> QED BY <3>1, <3>2, <3>3, EntryShown DEF WatchersIInv
  <2>2. ASSUME NEW f \in Feats, TouchQuest(f) \/ ReopenQuest(f)
        PROVE  /\ ended' \in [Feats -> SUBSET Deeds] /\ questFeed' \in Seq(Entry)
               /\ due' \in [Feats -> Nat]
    <3>1. due[f] \in Nat /\ ended[f] \in SUBSET Deeds /\ {} \in SUBSET Deeds
      BY DEF WatchersIInv, PrShape
    <3>2. ended' \in [Feats -> SUBSET Deeds] /\ due' = due
      BY <2>2 DEF TouchQuest, ReopenQuest, books, WatchersIInv, PrShape
    <3>3. ShowQuest(f, ended[f], due[f]) \/ ShowQuest(f, {}, due[f])
      BY <2>2 DEF TouchQuest, ReopenQuest
    <3> QED BY <3>1, <3>2, <3>3, EntryShown DEF WatchersIInv, PrShape
  <2>3. CASE (\E a \in People : PutReview(a)) \/ UNCHANGED prVars
    BY <2>3 DEF PutReview, books, prVars, WatchersIInv, PrShape
  <2> QED BY <2>1, <2>2, <2>3
<1>3. reviewFeed' \in Seq(People) /\ reviews' \in Seq(People)
  <2>1. ASSUME NEW a \in People, PutReview(a)
        PROVE  reviewFeed' \in Seq(People) /\ reviews' \in Seq(People)
    BY <2>1, AppendProperties DEF PutReview, WatchersIInv, PrShape
  <2>2. UNCHANGED <<reviewFeed, reviews>> \/ \E a \in People : PutReview(a)
    BY DEF EndQuest, TouchQuest, ReopenQuest, prVars
  <2> QED BY <2>1, <2>2 DEF WatchersIInv, PrShape
<1>4. PrShape'
  BY <1>1, <1>2, <1>3, Zenon DEF WatchersIInv, PrShape
<1>5. CopiesFresh' /\ WatchersLoseNothing'
  BY <1>1, Zenon DEF WatchersIInv, CopiesFresh, WatchersLoseNothing
<1> QED BY <1>4, <1>5 DEF WatchersIInv

LEMMA QuestReadStep == WatchersIInv /\ HandleQuestStateChange => WatchersIInv'
<1> SUFFICES ASSUME WatchersIInv, HandleQuestStateChange PROVE WatchersIInv'
  OBVIOUS
<1> USE DEF WatchersIInv
<1> DEFINE e == Head(questFeed)
<1>1. e \in Entry /\ e.feat \in Feats /\ questFeed' \in Seq(Entry)
  <2>1. e \in Entry /\ questFeed' \in Seq(Entry)
    BY HeadTailProperties DEF PrShape, HandleQuestStateChange
  <2> QED BY <2>1 DEF Entry
<1>2. lastSeen' \in [Feats -> {"unseen", "open", "over"}]
  BY <1>1 DEF PrShape, HandleQuestStateChange
<1>3. UNCHANGED <<ended, people, reviewFeed, reviewDesk, reviews, awards, due, paid>>
  BY DEF HandleQuestStateChange
<1>4. CASE questDesk' = questDesk
  BY <1>1, <1>2, <1>3, <1>4, Zenon DEF PrShape, CopiesFresh, WatchersLoseNothing
<1>5. CASE questDesk' # questDesk
  <2>1. /\ questDesk' = [at |-> "read", who |-> Winner, copy |-> people[Winner],
                         entry |-> {e}]
        /\ Unlocks(Winner)
    BY <1>5 DEF HandleQuestStateChange
  <2>2. /\ DOMAIN questDesk' = DeskFields /\ questDesk'.at = "read"
        /\ questDesk'.copy = people[Winner] /\ questDesk'.entry = {e}
    BY <2>1 DEF DeskFields
  <2>3. {e} \in SUBSET Entry /\ Winner \in People
    BY <1>1 DEF People
  <2>4. PrShape'
    BY <1>1, <1>2, <1>3, <2>2, <2>3 DEF PrShape
  <2>5. ~(reviewDesk.at = "read" /\ reviewDesk.who = Winner)
    BY <2>1 DEF Unlocks, Locked
  <2>6. CopiesFresh' /\ WatchersLoseNothing'
    BY <1>3, <2>2, <2>5 DEF CopiesFresh, WatchersLoseNothing
  <2> QED BY <2>4, <2>6
<1> QED BY <1>4, <1>5

LEMMA AwardStep == WatchersIInv /\ PutAward => WatchersIInv'
<1> SUFFICES ASSUME WatchersIInv, PutAward PROVE WatchersIInv'
  OBVIOUS
<1> USE DEF WatchersIInv
<1>1. PICK e \in questDesk.entry :
        /\ \E d \in e.deed :
             people' = [people EXCEPT ![Winner] =
                          [ApplyXP(questDesk.copy, d) EXCEPT !.onQuest = FALSE, !.quests = @ + 1]]
        /\ paid' = [paid EXCEPT ![e.feat] = @ + 1]
  BY DEF PutAward
<1>2. PICK d \in e.deed :
        people' = [people EXCEPT ![Winner] =
                     [ApplyXP(questDesk.copy, d) EXCEPT !.onQuest = FALSE, !.quests = @ + 1]]
  BY <1>1
<1> DEFINE r == ApplyXP(questDesk.copy, d)
           p == [r EXCEPT !.onQuest = FALSE, !.quests = @ + 1]
<1>3. /\ questDesk.at = "read" /\ questDesk.copy = people[Winner] /\ Counted(questDesk.copy)
      /\ awards.quests = questDesk.copy.quests /\ awards.reviews = questDesk.copy.reviews
  BY DEF PutAward, CopiesFresh, WatchersLoseNothing, PrShape
<1>4. DOMAIN r = PersonFields /\ r.quests = awards.quests /\ r.reviews = awards.reviews
  BY <1>3, XPKeepsCounts
<1>5. awards.quests \in Nat /\ awards.reviews \in Nat /\ awards \in [quests : Nat, reviews : Nat]
  BY DEF PrShape
<1>6. people' = [people EXCEPT ![Winner] = p]
  BY <1>2
<1> HIDE DEF r
<1>7. DOMAIN p = PersonFields /\ p.quests = awards.quests + 1 /\ p.reviews = awards.reviews
  BY <1>4 DEF PersonFields
<1>8. Counted(p) /\ Winner \in People
  BY <1>5, <1>7 DEF Counted, People
<1> HIDE DEF p
<1>9. /\ DOMAIN people' = People /\ \A b \in People : Counted(people'[b])
      /\ people'[Winner] = p
  BY <1>6, <1>8, PersonPut
<1>10. /\ awards' \in [quests : Nat, reviews : Nat]
       /\ awards'.quests = awards.quests + 1 /\ awards'.reviews = awards.reviews
  BY <1>5 DEF PutAward
<1>11. /\ DOMAIN questDesk' = DeskFields /\ questDesk'.at = "listing"
       /\ questDesk'.copy = questDesk.copy /\ questDesk'.entry = questDesk.entry
  BY DEF PutAward, PrShape, DeskFields
<1>12. UNCHANGED <<ended, questFeed, lastSeen, reviewFeed, reviewDesk, reviews, due>>
  BY DEF PutAward
<1>17. paid' \in [Feats -> Nat]
  <2>1. e.feat \in Feats
    BY <1>1 DEF PrShape, Entry
  <2> QED BY <1>1, <2>1 DEF PrShape
<1>13. PrShape'
  BY <1>9, <1>10, <1>11, <1>12, <1>17 DEF PrShape
<1>14. ~(reviewDesk.at = "read" /\ reviewDesk.who = Winner)
  BY <1>3 DEF CopiesFresh
<1>15. CopiesFresh'
  BY <1>11, <1>12, <1>14 DEF CopiesFresh
<1>16. WatchersLoseNothing'
  BY <1>7, <1>9, <1>10 DEF WatchersLoseNothing
<1> QED BY <1>13, <1>15, <1>16

\* An award or a review that fails takes the desk on, and changes no agent.
LEMMA FailSteps == WatchersIInv /\ (AwardFails \/ ReviewedFails) => WatchersIInv'
<1> SUFFICES ASSUME WatchersIInv, AwardFails \/ ReviewedFails PROVE WatchersIInv'
  OBVIOUS
<1>1. /\ DOMAIN IdleDesk = DeskFields /\ IdleDesk.at = "idle" /\ IdleDesk.entry = {}
      /\ IdleDesk.who \in People /\ Counted(IdleDesk.copy)
  BY DEF IdleDesk, DeskFields, People, Counted, Nobody, PersonFields
<1>2. UNCHANGED <<ended, questFeed, lastSeen, people, reviewFeed, reviews, awards, due, paid>>
  BY DEF AwardFails, ReviewedFails, books
<1>3. CASE AwardFails
  <2>1. /\ DOMAIN questDesk' = DeskFields /\ questDesk'.at = "listing"
        /\ questDesk'.copy = questDesk.copy /\ questDesk'.entry = questDesk.entry
        /\ questDesk.at = "read" /\ reviewDesk' = reviewDesk
    BY <1>3 DEF AwardFails, WatchersIInv, PrShape, DeskFields
  <2>2. PrShape'
    BY <1>2, <2>1 DEF WatchersIInv, PrShape
  <2> QED BY <1>2, <2>1, <2>2 DEF WatchersIInv, CopiesFresh, WatchersLoseNothing
<1>4. CASE ReviewedFails
  <2>1. reviewDesk' = IdleDesk /\ questDesk' = questDesk
    BY <1>4 DEF ReviewedFails
  <2>2. PrShape'
    BY <1>1, <1>2, <2>1 DEF WatchersIInv, PrShape
  <2> QED BY <1>1, <1>2, <2>1, <2>2 DEF WatchersIInv, CopiesFresh, WatchersLoseNothing
<1> QED BY <1>3, <1>4

LEMMA OrphanSteps == WatchersIInv /\ (ListOrphans \/ ReleaseOrphan) => WatchersIInv'
<1> SUFFICES ASSUME WatchersIInv, ListOrphans \/ ReleaseOrphan PROVE WatchersIInv'
  OBVIOUS
<1> USE DEF WatchersIInv
<1>1. /\ DOMAIN IdleDesk = DeskFields /\ IdleDesk.at = "idle" /\ IdleDesk.entry = {}
      /\ IdleDesk.who \in People /\ Counted(IdleDesk.copy)
  BY DEF IdleDesk, DeskFields, People, Counted, Nobody, PersonFields
<1>2. Orphan \in People /\ Winner \in People /\ Orphan # Winner
  BY ProgressionAssumption DEF People
<1>3. /\ UNCHANGED <<ended, questFeed, lastSeen, reviewFeed, reviewDesk, reviews, awards, due,
                     paid>>
      /\ questDesk.at # "idle"
  BY DEF ListOrphans, ReleaseOrphan, books
<1>4. /\ DOMAIN questDesk' = DeskFields /\ questDesk'.at \in {"idle", "orphan"}
      /\ questDesk'.entry \in SUBSET Entry /\ Counted(questDesk'.copy)
  <2>1. CASE questDesk' = IdleDesk
    BY <1>1, <2>1
  <2>2. CASE questDesk' = [questDesk EXCEPT !.at = "orphan", !.copy = people[Orphan]]
    BY <1>2, <2>2 DEF PrShape, DeskFields
  <2> QED BY <2>1, <2>2 DEF ListOrphans, ReleaseOrphan
<1>5. /\ DOMAIN people' = People /\ \A b \in People : Counted(people'[b])
      /\ people'[Winner] = people[Winner]
  <2>1. CASE UNCHANGED people
    BY <2>1 DEF PrShape
  <2>2. CASE people' = [people EXCEPT ![Orphan] = [questDesk.copy EXCEPT !.onQuest = FALSE]]
    <3> DEFINE p == [questDesk.copy EXCEPT !.onQuest = FALSE]
    <3>1. Counted(p)
      BY DEF Counted, PrShape, PersonFields
    <3>2. people' = [people EXCEPT ![Orphan] = p]
      BY <2>2
    <3> HIDE DEF p
    <3> QED BY <1>2, <3>1, <3>2, PersonPut
  <2> QED BY <2>1, <2>2 DEF ListOrphans, ReleaseOrphan
<1>6. PrShape'
  BY <1>3, <1>4, <1>5 DEF PrShape
<1>7. CopiesFresh' /\ WatchersLoseNothing'
  BY <1>3, <1>4, <1>5 DEF CopiesFresh, WatchersLoseNothing
<1> QED BY <1>6, <1>7

LEMMA ReviewReadStep == WatchersIInv /\ HandlePeerReview => WatchersIInv'
<1> SUFFICES ASSUME WatchersIInv, HandlePeerReview PROVE WatchersIInv'
  OBVIOUS
<1> USE DEF WatchersIInv
<1> DEFINE a == Head(reviewFeed)
<1>1. a \in People /\ reviewFeed' \in Seq(People)
  BY HeadTailProperties DEF PrShape, HandlePeerReview
<1>2. UNCHANGED <<ended, questFeed, lastSeen, people, questDesk, reviews, awards, due, paid>>
  BY DEF HandlePeerReview, books
<1>3. CASE reviewDesk' = reviewDesk
  BY <1>1, <1>2, <1>3, Zenon DEF PrShape, CopiesFresh, WatchersLoseNothing
<1>4. CASE reviewDesk' # reviewDesk
  <2>1. /\ reviewDesk' = [at |-> "read", who |-> a, copy |-> people[a], entry |-> {}]
        /\ Unlocks(a)
    BY <1>4 DEF HandlePeerReview
  <2>2. /\ DOMAIN reviewDesk' = DeskFields /\ reviewDesk'.at = "read"
        /\ reviewDesk'.who = a /\ reviewDesk'.copy = people[a]
    BY <2>1 DEF DeskFields
  <2>3. Counted(people[a])
    BY <1>1 DEF PrShape
  <2>4. PrShape'
    BY <1>1, <1>2, <2>2, <2>3 DEF PrShape
  <2>5. a = Winner => questDesk.at = "idle"
    BY <2>1 DEF Unlocks, Locked
  <2>6. CopiesFresh' /\ WatchersLoseNothing'
    BY <1>2, <2>2, <2>5 DEF CopiesFresh, WatchersLoseNothing
  <2> QED BY <2>4, <2>6
<1> QED BY <1>3, <1>4

LEMMA ReviewPutStep == WatchersIInv /\ PutReviewed => WatchersIInv'
<1> SUFFICES ASSUME WatchersIInv, PutReviewed PROVE WatchersIInv'
  OBVIOUS
<1> USE DEF WatchersIInv
<1> DEFINE a == reviewDesk.who
           c == reviewDesk.copy
           p == [c EXCEPT !.reviews = @ + 1]
<1>1. /\ a \in People /\ Counted(c) /\ reviewDesk.at = "read"
      /\ people' = [people EXCEPT ![a] = p]
  BY DEF PrShape, PutReviewed
<1>2. DOMAIN p = PersonFields /\ p.quests = c.quests /\ p.reviews = c.reviews + 1
  BY <1>1 DEF Counted, PersonFields
<1>3. Counted(p)
  BY <1>1, <1>2 DEF Counted
<1> HIDE DEF p
<1>4. /\ DOMAIN people' = People /\ \A b \in People : Counted(people'[b])
      /\ people'[a] = p /\ \A b \in People \ {a} : people'[b] = people[b]
  BY <1>1, <1>3, PersonPut
<1>5. /\ DOMAIN IdleDesk = DeskFields /\ IdleDesk.at = "idle"
      /\ IdleDesk.who \in People /\ Counted(IdleDesk.copy)
  BY DEF IdleDesk, DeskFields, People, Counted, Nobody, PersonFields
<1>6. /\ UNCHANGED <<ended, questFeed, lastSeen, questDesk, reviewFeed, reviews, due, paid>>
      /\ reviewDesk' = IdleDesk
  BY DEF PutReviewed
<1>7. /\ awards' \in [quests : Nat, reviews : Nat] /\ awards'.quests = awards.quests
      /\ awards'.reviews = awards.reviews + (IF a = Winner THEN 1 ELSE 0)
  <2>1. awards \in [quests : Nat, reviews : Nat]
    BY DEF PrShape
  <2> QED BY <2>1 DEF PutReviewed
<1>8. PrShape'
  BY <1>4, <1>5, <1>6, <1>7 DEF PrShape
<1>9. Winner \in People
  BY DEF People
<1>10. CASE a = Winner
  <2>1. /\ questDesk.at = "idle" /\ c.quests = awards.quests /\ c.reviews = awards.reviews
    BY <1>1, <1>10 DEF CopiesFresh, WatchersLoseNothing
  <2>2. WatchersLoseNothing'
    BY <1>2, <1>4, <1>7, <1>10, <2>1 DEF WatchersLoseNothing
  <2>3. CopiesFresh'
    BY <1>5, <1>6, <2>1 DEF CopiesFresh
  <2> QED BY <1>8, <2>2, <2>3
<1>11. CASE a # Winner
  <2>1. people'[Winner] = people[Winner] /\ awards'.reviews = awards.reviews
    <3>1. awards.reviews \in Nat
      BY DEF PrShape
    <3> QED BY <1>4, <1>7, <1>9, <1>11, <3>1
  <2>2. CopiesFresh' /\ WatchersLoseNothing'
    BY <1>5, <1>6, <1>7, <2>1 DEF CopiesFresh, WatchersLoseNothing
  <2> QED BY <1>8, <2>2
<1> QED BY <1>10, <1>11

LEMMA FeatSeqLists ==
  /\ Cardinality(Feats) \in Nat /\ FeatSeq \in [1 .. Cardinality(Feats) -> Feats]
  /\ \A i, j \in 1 .. Cardinality(Feats) : FeatSeq[i] = FeatSeq[j] => i = j
<1>1. Cardinality(Feats) \in Nat /\ ExistsBijection(1 .. Cardinality(Feats), Feats)
  BY FS_CardinalityType, ProgressionAssumption
<1>2. \E s \in [1 .. Cardinality(Feats) -> Feats] :
        \A i, j \in 1 .. Cardinality(Feats) : s[i] = s[j] => i = j
  <2>1. PICK s : s \in Bijection(1 .. Cardinality(Feats), Feats)
    BY <1>1 DEF ExistsBijection
  <2> QED BY <2>1 DEF Bijection, Injection, IsInjective
<1> QED BY <1>1, <1>2 DEF FeatSeq

LEMMA ProgressionRestartStep == WatchersIInv /\ RestartProgression => WatchersIInv'
<1> SUFFICES ASSUME WatchersIInv, RestartProgression PROVE WatchersIInv'
  OBVIOUS
<1> USE DEF WatchersIInv
<1>1. /\ DOMAIN IdleDesk = DeskFields /\ IdleDesk.at = "idle" /\ IdleDesk.entry \in SUBSET Entry
      /\ IdleDesk.who \in People /\ Counted(IdleDesk.copy)
  BY DEF IdleDesk, DeskFields, People, Counted, Nobody, PersonFields
<1>2. /\ UNCHANGED <<ended, people, reviews, awards, due, paid>> /\ reviewFeed' = reviews
      /\ questDesk' = IdleDesk /\ reviewDesk' = IdleDesk
      /\ lastSeen' \in [Feats -> {"unseen", "open", "over"}]
  BY DEF RestartProgression, books
<1>3. questFeed' \in Seq(Entry)
  <2>1. \A i \in 1 .. Cardinality(Feats) :
          [feat |-> FeatSeq[i], deed |-> ended[FeatSeq[i]], nth |-> due[FeatSeq[i]]] \in Entry
    BY FeatSeqLists DEF PrShape, Entry
  <2>2. questFeed' \in [1 .. Cardinality(Feats) -> Entry]
    BY <2>1 DEF RestartProgression
  <2>3. \E n \in Nat : questFeed' \in [1 .. n -> Entry]
    BY <2>2, FeatSeqLists
  <2> QED BY <2>3, SeqDef, Zenon
<1>4. PrShape'
  BY <1>1, <1>2, <1>3 DEF PrShape
<1>5. CopiesFresh' /\ WatchersLoseNothing'
  BY <1>1, <1>2 DEF CopiesFresh, WatchersLoseNothing
<1> QED BY <1>4, <1>5

LEMMA WatchersInduction == WatchersIInv /\ [ProgressionNext]_prVars => WatchersIInv'
BY OutsideSteps, QuestReadStep, AwardStep, FailSteps, OrphanSteps, ReviewReadStep, ReviewPutStep,
   ProgressionRestartStep DEF ProgressionNext, ProgressionStep

(* The two watchers of agentprogression put whole copies of the agent that *)
(* held the quest and never overwrite one another's: every end and every   *)
(* review they put is in the entity, whatever is replayed after a restart. *)
THEOREM NothingLost == ProgressionSpec => []WatchersLoseNothing
<1>1. WatchersIInv => WatchersLoseNothing
  BY DEF WatchersIInv
<1> QED BY WatchersStart, WatchersInduction, <1>1, PTL DEF ProgressionSpec

-----------------------------------------------------------------------------
(***************************************************************************)
(* An end of a quest is paid for at most once.  Every put of a quest knows *)
(* how often the quest was due by then.  Payments lag behind the last put  *)
(* that said open, and what says ended after such a put is of a later end, *)
(* so that an end that the cache takes for a fresh one has not been paid.  *)
(* A replay after a restart says open of no quest that ended.              *)
(***************************************************************************)
Paying(f) == IF questDesk.at = "read" /\ \E e \in questDesk.entry : e.feat = f THEN 1 ELSE 0

\* Payments made, and the one that is being made.
Payments(f) == paid[f] + Paying(f)

Puts(f) == {i \in 1 .. Len(questFeed) : questFeed[i].feat = f}

\* Later puts know of no fewer ends, and of more where they say that an open quest ended.
PutsInOrder(f) ==
  \A i, j \in Puts(f) : i < j =>
    /\ questFeed[i].nth <= questFeed[j].nth
    /\ questFeed[i].deed = {} /\ Held(questFeed[j].deed) => questFeed[i].nth < questFeed[j].nth

\* What a put that says open knew of is all that was paid, and less than what is due by now.
OpenPuts(f) ==
  \A i \in Puts(f) :
    /\ questFeed[i].nth \in Nat /\ questFeed[i].nth <= due[f]
    /\ questFeed[i].deed = {} =>
         /\ Payments(f) <= questFeed[i].nth
         /\ Held(ended[f]) => questFeed[i].nth < due[f]

\* A quest that was last seen open has an end to be paid, where it ended.
SeenOpen(f) ==
  lastSeen[f] = "open" =>
    /\ \A i \in Puts(f) : Held(questFeed[i].deed) => Payments(f) < questFeed[i].nth
    /\ Held(ended[f]) => Payments(f) < due[f]

Booked(f) == Payments(f) <= due[f] /\ PutsInOrder(f) /\ OpenPuts(f) /\ SeenOpen(f)

OneAtDesk == questDesk.at = "read" => \E e \in Entry : questDesk.entry = {e}

PaidIInv == PrShape /\ OneAtDesk /\ \A f \in Feats : Booked(f)

LEMMA PaymentsType == ASSUME PrShape, NEW f \in Feats
                      PROVE  Paying(f) \in Nat /\ Payments(f) \in Nat /\ due[f] \in Nat
BY DEF PrShape, Paying, Payments

LEMMA NothingHeld == \A deeds : deeds = {} => ~Held(deeds)
BY DEF Held

LEMMA PaidStart == ProgressionInit => PaidIInv
<1> SUFFICES ASSUME ProgressionInit PROVE PaidIInv
  OBVIOUS
<1>1. PrShape
  BY WatchersStart DEF WatchersIInv
<1>2. questDesk.at = "idle"
  BY DEF ProgressionInit, IdleDesk
<1>3. ASSUME NEW f \in Feats  PROVE Booked(f)
  <2>1. due[f] = 0 /\ paid[f] = 0 /\ ended[f] = {}
    BY DEF ProgressionInit
  <2>2. Payments(f) = 0
    BY <1>2, <2>1 DEF Payments, Paying
  <2>3. Puts(f) = {}
    <3>1. questFeed = <<>> /\ Len(<<>>) = 0
      BY DEF ProgressionInit
    <3> QED BY <3>1 DEF Puts
  <2>4. PutsInOrder(f) /\ OpenPuts(f)
    BY <2>3 DEF PutsInOrder, OpenPuts
  <2>5. SeenOpen(f)
    BY <2>1, <2>3, NothingHeld DEF SeenOpen
  <2> QED BY <2>1, <2>2, <2>4, <2>5 DEF Booked
<1> QED BY <1>1, <1>2, <1>3 DEF PaidIInv, OneAtDesk

\* A put of a quest that just ended, or that ended before, or that is open.
LEMMA PutBooked ==
  ASSUME PaidIInv, PrShape', NEW f \in Feats, NEW deeds \in SUBSET Deeds,
         ShowQuest(f, deeds, due'[f]), ended'[f] = deeds,
         IF Held(deeds) THEN due'[f] = due[f] + 1 \/ (due'[f] = due[f] /\ ended[f] = deeds)
                        ELSE due'[f] = due[f],
         \A g \in Feats \ {f} : due'[g] = due[g] /\ ended'[g] = ended[g],
         UNCHANGED <<lastSeen, questDesk, paid>>
  PROVE  PaidIInv'
<1>1. PICK k : k = due'[f]
  OBVIOUS
<1>2. k \in Nat
  BY <1>1 DEF PrShape
<1> DEFINE e == [feat |-> f, deed |-> deeds, nth |-> k]
           n == Len(questFeed)
<1>3. e \in Entry /\ questFeed \in Seq(Entry) /\ questFeed' = Append(questFeed, e)
  BY <1>1, <1>2 DEF Entry, PaidIInv, PrShape, ShowQuest
<1>4. /\ n \in Nat /\ Len(questFeed') = n + 1 /\ questFeed'[n + 1] = e
      /\ \A i \in 1 .. n : questFeed'[i] = questFeed[i]
  BY <1>3, AppendProperties, LenProperties
<1>5. e.feat = f /\ e.deed = deeds /\ e.nth = k
  OBVIOUS
<1> HIDE DEF e, n
<1>6. ASSUME NEW g \in Feats  PROVE Payments(g)' = Payments(g)
  BY DEF Payments, Paying
<1>7. \A g \in Feats : Booked(g) /\ Payments(g) \in Nat /\ due[g] \in Nat
  BY PaymentsType DEF PaidIInv
<1>8. \A g \in Feats : \A i \in Puts(g) : i \in 1 .. n /\ questFeed[i].nth \in Nat
  BY <1>7 DEF Booked, OpenPuts, Puts, n
<1>9. ASSUME NEW g \in Feats \ {f}  PROVE Booked(g)'
  <2>1. /\ due'[g] = due[g] /\ ended'[g] = ended[g] /\ lastSeen'[g] = lastSeen[g]
        /\ Payments(g)' = Payments(g) /\ Booked(g)
    BY <1>6, <1>7
  <2>2. Puts(g)' = Puts(g)
    BY <1>4, <1>5 DEF Puts, n
  <2>3. \A i \in Puts(g) : questFeed'[i] = questFeed[i]
    BY <1>4, <1>8
  <2>4. PutsInOrder(g)'
    BY <2>1, <2>2, <2>3 DEF Booked, PutsInOrder
  <2>5. OpenPuts(g)'
    BY <2>1, <2>2, <2>3 DEF Booked, OpenPuts
  <2>6. SeenOpen(g)'
    BY <2>1, <2>2, <2>3 DEF Booked, SeenOpen
  <2> QED BY <2>1, <2>4, <2>5, <2>6 DEF Booked
<1>10. Booked(f)'
  <2> DEFINE P == Payments(f)
  <2>1. P \in Nat /\ due[f] \in Nat /\ Payments(f)' = P /\ P <= due[f]
    BY <1>6, <1>7 DEF Booked
  <2> HIDE DEF P
  <2>2. Puts(f)' = Puts(f) \cup {n + 1}
    BY <1>4, <1>5 DEF Puts, n
  <2>3. \A i \in Puts(f) : questFeed'[i] = questFeed[i] /\ i \in 1 .. n /\ questFeed[i].nth \in Nat
    BY <1>4, <1>8
  <2>4. \A i \in Puts(f) : /\ questFeed[i].nth <= due[f]
                           /\ questFeed[i].deed = {} => P <= questFeed[i].nth
                           /\ questFeed[i].deed = {} /\ Held(ended[f]) => questFeed[i].nth < due[f]
    BY <1>7 DEF Booked, OpenPuts, P
  <2>5. due[f] <= k /\ P <= k /\ due'[f] = k /\ ended'[f] = deeds
    BY <1>1, <1>2, <2>1
  <2>6. \A i \in Puts(f) : questFeed[i].nth <= k
    BY <1>2, <2>1, <2>3, <2>4, <2>5
  <2>7. \A i \in Puts(f) : questFeed[i].deed = {} /\ Held(deeds) => questFeed[i].nth < k
    BY <1>1, <2>1, <2>3, <2>4
  <2>8. lastSeen[f] = "open" /\ Held(deeds) => P < k
    <3>1. lastSeen[f] = "open" /\ Held(ended[f]) => P < due[f]
      BY <1>7 DEF Booked, SeenOpen, P
    <3> QED BY <1>1, <2>1, <3>1
  <2>9. PutsInOrder(f)'
    <3> SUFFICES ASSUME NEW i \in Puts(f)', NEW j \in Puts(f)', i < j
                 PROVE  /\ questFeed'[i].nth <= questFeed'[j].nth
                        /\ questFeed'[i].deed = {} /\ Held(questFeed'[j].deed) =>
                             questFeed'[i].nth < questFeed'[j].nth
      BY DEF PutsInOrder
    <3>1. i \in Puts(f)
      BY <1>4, <2>2, <2>3
    <3>2. CASE j \in Puts(f)
      BY <1>7, <2>3, <3>1, <3>2 DEF Booked, PutsInOrder
    <3>3. CASE j = n + 1
      BY <1>4, <1>5, <2>3, <2>6, <2>7, <3>1, <3>3
    <3> QED BY <2>2, <3>2, <3>3
  <2>10. OpenPuts(f)'
    <3> SUFFICES ASSUME NEW i \in Puts(f)'
                 PROVE  /\ questFeed'[i].nth \in Nat /\ questFeed'[i].nth <= k
                        /\ questFeed'[i].deed = {} =>
                             P <= questFeed'[i].nth /\ (Held(deeds) => questFeed'[i].nth < k)
      BY <2>1, <2>5 DEF OpenPuts
    <3>1. CASE i \in Puts(f)
      BY <2>3, <2>4, <2>6, <2>7, <3>1
    <3>2. CASE i = n + 1
      BY <1>2, <1>4, <1>5, <2>5, <3>2, NothingHeld
    <3> QED BY <2>2, <3>1, <3>2
  <2>11. SeenOpen(f)'
    <3> SUFFICES ASSUME lastSeen[f] = "open"
                 PROVE  /\ \A i \in Puts(f)' : Held(questFeed'[i].deed) => P < questFeed'[i].nth
                        /\ Held(deeds) => P < k
      BY <2>1, <2>5 DEF SeenOpen
    <3>1. \A i \in Puts(f) : Held(questFeed[i].deed) => P < questFeed[i].nth
      BY <1>7 DEF Booked, SeenOpen, P
    <3>2. Held(questFeed'[n + 1].deed) => P < questFeed'[n + 1].nth
      BY <1>4, <1>5, <2>8
    <3> QED BY <2>2, <2>3, <2>8, <3>1, <3>2
  <2> QED BY <2>1, <2>5, <2>9, <2>10, <2>11 DEF Booked
<1>11. OneAtDesk'
  BY DEF PaidIInv, OneAtDesk
<1> QED BY <1>9, <1>10, <1>11 DEF PaidIInv

LEMMA FeedPutStep ==
  ASSUME PaidIInv, PrShape',
         \/ \E f \in Feats, d \in Deeds : EndQuest(f, d)
         \/ \E f \in Feats : TouchQuest(f) \/ ReopenQuest(f)
  PROVE  PaidIInv'
<1>1. ASSUME NEW f \in Feats, NEW d \in Deeds, EndQuest(f, d)  PROVE PaidIInv'
  <2>1. /\ UNCHANGED <<lastSeen, questDesk, paid>> /\ {d} \in SUBSET Deeds
        /\ ShowQuest(f, {d}, due'[f])
    BY <1>1 DEF EndQuest
  <2>2. ended'[f] = {d} /\ \A g \in Feats \ {f} : due'[g] = due[g] /\ ended'[g] = ended[g]
    BY <1>1 DEF EndQuest, PaidIInv, PrShape
  <2>3. due'[f] = IF Held({d}) THEN due[f] + 1 ELSE due[f]
    BY <1>1 DEF EndQuest, PaidIInv, PrShape, Held
  <2>4. IF Held({d}) THEN due'[f] = due[f] + 1 \/ (due'[f] = due[f] /\ ended[f] = {d})
                     ELSE due'[f] = due[f]
    BY <2>3
  <2> QED BY <2>1, <2>2, <2>4, PutBooked
<1>2. ASSUME NEW f \in Feats, TouchQuest(f)  PROVE PaidIInv'
  <2>1. /\ UNCHANGED <<lastSeen, questDesk, paid, due, ended>> /\ ended[f] \in SUBSET Deeds
        /\ ShowQuest(f, ended[f], due'[f])
    BY <1>2 DEF TouchQuest, books, PaidIInv, PrShape
  <2> QED BY <2>1, PutBooked
<1>3. ASSUME NEW f \in Feats, ReopenQuest(f)  PROVE PaidIInv'
  <2>1. /\ UNCHANGED <<lastSeen, questDesk, paid, due>> /\ {} \in SUBSET Deeds
        /\ ShowQuest(f, {}, due'[f])
    BY <1>3 DEF ReopenQuest, books
  <2>2. ended'[f] = {} /\ \A g \in Feats \ {f} : ended'[g] = ended[g]
    BY <1>3 DEF ReopenQuest, PaidIInv, PrShape
  <2> QED BY <2>1, <2>2, PutBooked, NothingHeld
<1> QED BY <1>1, <1>2, <1>3

LEMMA PaidReadStep ==
  ASSUME PaidIInv, PrShape', HandleQuestStateChange
  PROVE  PaidIInv'
<1> PICK e : e = Head(questFeed)
  OBVIOUS
<1> PICK n : n = Len(questFeed)
  OBVIOUS
<1>1. questFeed \in Seq(Entry) /\ questFeed # <<>> /\ questFeed' = Tail(questFeed)
  BY DEF PaidIInv, PrShape, HandleQuestStateChange
<1>2. /\ n \in Nat \ {0} /\ Len(questFeed') = n - 1 /\ e = questFeed[1] /\ e \in Entry
      /\ \A i \in 1 .. (n - 1) : questFeed'[i] = questFeed[i + 1]
  BY <1>1, EmptySeq, HeadTailProperties
<1>3. e.feat \in Feats
  BY <1>2 DEF Entry
<1>4. /\ UNCHANGED <<ended, paid, due>> /\ questDesk.at = "idle"
      /\ lastSeen' = [lastSeen EXCEPT ![e.feat] = IF e.deed # {} THEN "over" ELSE "open"]
      /\ \/ UNCHANGED questDesk
         \/ /\ lastSeen[e.feat] = "open" /\ Held(e.deed) /\ e.deed # {}
            /\ questDesk'.at = "read" /\ questDesk'.entry = {e}
  BY DEF HandleQuestStateChange, FreshEnd
<1>5. DOMAIN lastSeen = Feats
  BY DEF PaidIInv, PrShape
<1>6. \A g \in Feats : /\ Booked(g) /\ Payments(g) = paid[g]
                       /\ paid[g] \in Nat /\ due[g] \in Nat
  <2>1. \A g \in Feats : Booked(g) /\ paid[g] \in Nat /\ due[g] \in Nat
    BY DEF PaidIInv, PrShape
  <2>2. \A g \in Feats : Payments(g) = paid[g]
    BY <1>4, <2>1 DEF Payments, Paying
  <2> QED BY <2>1, <2>2
<1>7. OneAtDesk'
  BY <1>2, <1>4 DEF OneAtDesk
<1>8. \A g \in Feats : \A i \in Puts(g)' :
        /\ i + 1 \in Puts(g) /\ questFeed'[i] = questFeed[i + 1] /\ i \in Nat /\ 1 < i + 1
  BY <1>2 DEF Puts
<1>9. ASSUME NEW g \in Feats  PROVE PutsInOrder(g)'
  <2> SUFFICES ASSUME NEW i \in Puts(g)', NEW j \in Puts(g)', i < j
               PROVE  /\ questFeed'[i].nth <= questFeed'[j].nth
                      /\ questFeed'[i].deed = {} /\ Held(questFeed'[j].deed) =>
                           questFeed'[i].nth < questFeed'[j].nth
    BY DEF PutsInOrder
  <2>1. /\ i + 1 \in Puts(g) /\ j + 1 \in Puts(g) /\ i + 1 < j + 1
        /\ questFeed'[i] = questFeed[i + 1] /\ questFeed'[j] = questFeed[j + 1]
    BY <1>8
  <2> QED BY <1>6, <2>1 DEF Booked, PutsInOrder
<1>10. ASSUME NEW g \in Feats, NEW i \in Puts(g)'
       PROVE  /\ questFeed'[i].nth \in Nat /\ questFeed'[i].nth <= due[g]
              /\ questFeed'[i].deed = {} =>
                   /\ paid[g] <= questFeed'[i].nth
                   /\ Held(ended[g]) => questFeed'[i].nth < due[g]
  BY <1>6, <1>8 DEF Booked, OpenPuts
<1>11. ASSUME NEW g \in Feats, g # e.feat  PROVE Booked(g)'
  <2>1. lastSeen'[g] = lastSeen[g]
    BY <1>4, <1>5, <1>11
  <2>2. Payments(g)' = paid[g] /\ paid[g] <= due[g] /\ due'[g] = due[g] /\ ended'[g] = ended[g]
    <3>1. Paying(g)' = 0
      BY <1>4, <1>11 DEF Paying
    <3> QED BY <1>4, <1>6, <3>1 DEF Payments, Booked
  <2>3. OpenPuts(g)'
    BY <1>10, <2>2 DEF OpenPuts
  <2>4. SeenOpen(g)'
    BY <1>6, <1>8, <2>1, <2>2 DEF Booked, SeenOpen
  <2> QED BY <1>9, <2>2, <2>3, <2>4 DEF Booked
<1>12. ASSUME NEW f \in Feats, f = e.feat  PROVE Booked(f)'
  <2>1. 1 \in Puts(f)
    BY <1>2, <1>12 DEF Puts
  <2>2. /\ e.nth \in Nat /\ e.nth <= due[f]
        /\ e.deed = {} => paid[f] <= e.nth /\ (Held(ended[f]) => e.nth < due[f])
    BY <1>2, <1>6, <2>1 DEF Booked, OpenPuts
  <2>3. ASSUME NEW i \in Puts(f)'
        PROVE  /\ e.nth <= questFeed'[i].nth
               /\ e.deed = {} /\ Held(questFeed'[i].deed) => e.nth < questFeed'[i].nth
    BY <1>2, <1>6, <1>8, <2>1 DEF Booked, PutsInOrder
  <2>4. due'[f] = due[f] /\ ended'[f] = ended[f] /\ paid'[f] = paid[f]
    BY <1>4
  <2>5. CASE e.deed = {}
    <3>1. lastSeen'[f] = "open" /\ UNCHANGED questDesk
      BY <1>4, <1>5, <1>12, <2>5
    <3>2. Payments(f)' = paid[f] /\ paid[f] <= due[f]
      BY <1>4, <1>6, <3>1 DEF Payments, Paying, Booked
    <3>3. OpenPuts(f)'
      BY <1>10, <2>4, <3>2 DEF OpenPuts
    <3>4. \A i \in Puts(f)' : Held(questFeed'[i].deed) => paid[f] < questFeed'[i].nth
      BY <1>6, <1>10, <2>2, <2>3, <2>5
    <3>5. Held(ended[f]) => paid[f] < due[f]
      BY <1>6, <2>2, <2>5
    <3>6. SeenOpen(f)'
      BY <2>4, <3>2, <3>4, <3>5 DEF SeenOpen
    <3> QED BY <1>9, <2>4, <3>2, <3>3, <3>6 DEF Booked
  <2>6. CASE e.deed # {}
    <3>1. lastSeen'[f] = "over"
      BY <1>4, <1>5, <1>12, <2>6
    <3>2. SeenOpen(f)'
      BY <3>1 DEF SeenOpen
    <3>3. CASE UNCHANGED questDesk
      <4>1. Payments(f)' = paid[f] /\ paid[f] <= due[f]
        BY <1>4, <1>6, <3>3 DEF Payments, Paying, Booked
      <4>2. OpenPuts(f)'
        BY <1>10, <2>4, <4>1 DEF OpenPuts
      <4> QED BY <1>9, <2>4, <3>2, <4>1, <4>2 DEF Booked
    <3>4. CASE lastSeen[f] = "open" /\ Held(e.deed) /\ questDesk'.at = "read" /\ questDesk'.entry = {e}
      <4>1. paid[f] < e.nth
        BY <1>2, <1>6, <2>1, <3>4 DEF Booked, SeenOpen
      <4>2. Payments(f)' = paid[f] + 1
        BY <1>4, <1>12, <3>4 DEF Payments, Paying
      <4>3. paid[f] + 1 <= e.nth
        BY <1>6, <2>2, <4>1
      <4>4. Payments(f)' <= due'[f]
        BY <1>6, <2>2, <2>4, <4>2, <4>3
      <4>5. \A i \in Puts(f)' : paid[f] + 1 <= questFeed'[i].nth
        BY <1>6, <1>10, <2>2, <2>3, <4>3
      <4>6. OpenPuts(f)'
        BY <1>10, <2>4, <4>2, <4>5 DEF OpenPuts
      <4> QED BY <1>9, <3>2, <4>4, <4>6 DEF Booked
    <3> QED BY <1>4, <1>12, <3>3, <3>4
  <2> QED BY <2>5, <2>6
<1> QED BY <1>7, <1>11, <1>12 DEF PaidIInv

\* A step at the desk moves a payment from being made to made, or drops it.
LEMMA DeskStep ==
  ASSUME PaidIInv, PrShape', OneAtDesk', UNCHANGED <<ended, questFeed, lastSeen, due>>,
         \A f \in Feats : Payments(f)' <= Payments(f)
  PROVE  PaidIInv'
<1> SUFFICES ASSUME NEW f \in Feats  PROVE Booked(f)'
  BY DEF PaidIInv
<1>1. /\ Booked(f) /\ Payments(f)' <= Payments(f) /\ Puts(f)' = Puts(f)
      /\ Payments(f) \in Nat /\ Payments(f)' \in Nat /\ due[f] \in Nat
      /\ lastSeen'[f] = lastSeen[f] /\ due'[f] = due[f] /\ ended'[f] = ended[f]
  <2>1. Booked(f) /\ Payments(f) \in Nat /\ due[f] \in Nat
    BY PaymentsType DEF PaidIInv
  <2>2. Payments(f)' \in Nat
    <3>1. paid'[f] \in Nat /\ Paying(f)' \in {0, 1}
      BY DEF PrShape, Paying
    <3> QED BY <3>1 DEF Payments
  <2>3. Puts(f)' = Puts(f)
    BY DEF Puts
  <2> QED BY <2>1, <2>2, <2>3
<1>2. \A i \in Puts(f) : questFeed[i].nth \in Nat
  BY <1>1 DEF Booked, OpenPuts
<1>3. PutsInOrder(f)'
  BY <1>1 DEF Booked, PutsInOrder
<1>4. OpenPuts(f)'
  BY <1>1, <1>2 DEF Booked, OpenPuts
<1>5. SeenOpen(f)'
  BY <1>1, <1>2 DEF Booked, SeenOpen
<1> QED BY <1>1, <1>3, <1>4, <1>5 DEF Booked

LEMMA PaidHandlerSteps ==
  ASSUME PaidIInv, PrShape',
         \/ PutAward \/ AwardFails \/ ListOrphans \/ ReleaseOrphan
         \/ HandlePeerReview \/ PutReviewed \/ ReviewedFails
         \/ \E a \in People : PutReview(a)
         \/ UNCHANGED prVars
  PROVE  PaidIInv'
<1>1. UNCHANGED <<ended, questFeed, lastSeen, due>>
  BY DEF PutAward, AwardFails, ListOrphans, ReleaseOrphan, HandlePeerReview, PutReviewed,
         ReviewedFails, PutReview, books, prVars
<1>2. \A f \in Feats : paid[f] \in Nat
  BY DEF PaidIInv, PrShape
<1>3. CASE PutAward
  <2>1. PICK e \in Entry : questDesk.entry = {e}
    BY <1>3 DEF PutAward, PaidIInv, OneAtDesk
  <2>2. questDesk.at = "read" /\ questDesk'.at = "listing"
    BY <1>3 DEF PutAward, PaidIInv, PrShape, DeskFields
  <2>3. paid' = [paid EXCEPT ![e.feat] = @ + 1] /\ e.feat \in Feats
    BY <1>3, <2>1 DEF PutAward, Entry
  <2>4. ASSUME NEW f \in Feats  PROVE Payments(f)' <= Payments(f)
    <3>1. Paying(f)' = 0 /\ Paying(f) = IF f = e.feat THEN 1 ELSE 0
      BY <2>1, <2>2 DEF Paying
    <3>2. paid'[f] = IF f = e.feat THEN paid[f] + 1 ELSE paid[f]
      BY <2>3 DEF PaidIInv, PrShape
    <3> QED BY <1>2, <3>1, <3>2 DEF Payments
  <2>5. OneAtDesk'
    BY <2>2 DEF OneAtDesk
  <2> QED BY <1>1, <2>4, <2>5, DeskStep
<1>4. CASE AwardFails \/ ListOrphans \/ ReleaseOrphan
  <2>1. questDesk'.at # "read" /\ paid' = paid
    <3>1. "at" \in DOMAIN questDesk
      BY DEF PaidIInv, PrShape, DeskFields
    <3>2. CASE AwardFails
      BY <3>1, <3>2 DEF AwardFails
    <3>3. CASE ListOrphans
      <4>1. paid' = paid
        BY <3>3 DEF ListOrphans, books
      <4>2. questDesk'.at \in {"idle", "orphan"}
        <5>1. CASE questDesk' = IdleDesk
          BY <5>1 DEF IdleDesk
        <5>2. CASE questDesk' = [questDesk EXCEPT !.at = "orphan", !.copy = people[Orphan]]
          BY <3>1, <5>2
        <5> QED BY <3>3, <5>1, <5>2 DEF ListOrphans
      <4> QED BY <4>1, <4>2
    <3>4. CASE ReleaseOrphan
      BY <3>4 DEF ReleaseOrphan, IdleDesk, books
    <3> QED BY <1>4, <3>2, <3>3, <3>4
  <2>2. ASSUME NEW f \in Feats  PROVE Payments(f)' <= Payments(f)
    <3>1. Paying(f)' = 0 /\ Paying(f) \in Nat
      BY <2>1 DEF Paying
    <3> QED BY <1>2, <2>1, <3>1 DEF Payments
  <2> QED BY <1>1, <2>1, <2>2, DeskStep DEF OneAtDesk
<1>5. CASE \/ HandlePeerReview \/ PutReviewed \/ ReviewedFails \/ (\E a \in People : PutReview(a))
           \/ UNCHANGED prVars
  <2>1. UNCHANGED <<questDesk, paid>>
    BY <1>5 DEF HandlePeerReview, PutReviewed, ReviewedFails, PutReview, books, prVars
  <2>2. ASSUME NEW f \in Feats  PROVE Payments(f)' <= Payments(f)
    <3>1. Payments(f)' = Payments(f) /\ Payments(f) \in Nat
      BY <2>1, PaymentsType DEF Payments, Paying, PaidIInv
    <3> QED BY <3>1
  <2> QED BY <1>1, <2>1, <2>2, DeskStep DEF PaidIInv, OneAtDesk
<1> QED BY <1>3, <1>4, <1>5

\* The replay has one put of each quest, and says open of no quest that ended.
LEMMA PaidRestartStep ==
  ASSUME PaidIInv, PrShape', RestartProgression
  PROVE  PaidIInv'
<1>1. /\ UNCHANGED <<ended, paid, due>> /\ questDesk' = IdleDesk
      /\ lastSeen' = [f \in Feats |-> "unseen"]
  BY DEF RestartProgression, books
<1>2. Cardinality(Feats) \in Nat /\ DOMAIN questFeed' = 1 .. Cardinality(Feats)
  BY FeatSeqLists DEF RestartProgression
<1>3. Len(questFeed') = Cardinality(Feats)
  <2>1. Len(questFeed') \in Nat /\ DOMAIN questFeed' = 1 .. Len(questFeed')
    BY LenProperties DEF PrShape
  <2> QED BY <1>2, <2>1
<1>4. \A i \in 1 .. Len(questFeed') :
        /\ questFeed'[i].feat = FeatSeq[i]
        /\ questFeed'[i].deed = ended[FeatSeq[i]]
        /\ questFeed'[i].nth = due[FeatSeq[i]]
  BY <1>3 DEF RestartProgression
<1>5. questDesk'.at = "idle"
  BY <1>1 DEF IdleDesk
<1>6. ASSUME NEW f \in Feats  PROVE Booked(f)'
  <2>1. Payments(f)' = paid[f]
    BY <1>1, <1>5 DEF Payments, Paying, PaidIInv, PrShape
  <2>2. paid[f] \in Nat /\ due[f] \in Nat /\ paid[f] <= due[f]
    <3>1. paid[f] \in Nat /\ due[f] \in Nat /\ Paying(f) \in Nat
      BY PaymentsType DEF PaidIInv, PrShape
    <3>2. paid[f] + Paying(f) <= due[f]
      BY DEF PaidIInv, Booked, Payments
    <3> QED BY <3>1, <3>2
  <2>3. \A i \in Puts(f)' : questFeed'[i].deed = ended[f] /\ questFeed'[i].nth = due[f]
    BY <1>4 DEF Puts
  <2>4. \A i, j \in Puts(f)' : i = j
    <3> SUFFICES ASSUME NEW i \in Puts(f)', NEW j \in Puts(f)'  PROVE i = j
      OBVIOUS
    <3>1. i \in 1 .. Cardinality(Feats) /\ j \in 1 .. Cardinality(Feats)
      BY <1>3 DEF Puts
    <3>2. FeatSeq[i] = FeatSeq[j]
      BY <1>3, <1>4, <3>1 DEF Puts
    <3> QED BY <3>1, <3>2, FeatSeqLists
  <2>5. PutsInOrder(f)'
    <3> SUFFICES ASSUME NEW i \in Puts(f)', NEW j \in Puts(f)', i < j  PROVE FALSE
      BY DEF PutsInOrder
    <3>1. i \in Nat
      BY DEF Puts
    <3> QED BY <2>4, <3>1
  <2>6. OpenPuts(f)'
    BY <1>1, <2>1, <2>2, <2>3, NothingHeld DEF OpenPuts
  <2>7. SeenOpen(f)'
    BY <1>1 DEF SeenOpen
  <2> QED BY <1>1, <2>1, <2>2, <2>5, <2>6, <2>7 DEF Booked
<1>7. OneAtDesk'
  BY <1>5 DEF OneAtDesk
<1> QED BY <1>6, <1>7 DEF PaidIInv

LEMMA PaidInduction ==
  WatchersIInv /\ PaidIInv /\ [ProgressionNext]_prVars => PaidIInv'
<1> SUFFICES ASSUME WatchersIInv, PaidIInv, [ProgressionNext]_prVars PROVE PaidIInv'
  OBVIOUS
<1>1. PrShape'
  BY WatchersInduction DEF WatchersIInv
<1> QED BY <1>1, FeedPutStep, PaidReadStep, PaidHandlerSteps, PaidRestartStep
        DEF ProgressionNext, ProgressionStep

LEMMA BookedPaid == PaidIInv => PaidOnce
<1> SUFFICES ASSUME PaidIInv, NEW f \in Feats PROVE paid[f] <= due[f]
  BY DEF PaidOnce
<1>1. Payments(f) <= due[f] /\ Paying(f) \in Nat /\ paid[f] \in Nat /\ due[f] \in Nat
  BY PaymentsType DEF PaidIInv, Booked, PrShape
<1> QED BY <1>1 DEF Payments

(* The quest watcher of agentprogression pays for no end of a quest twice, *)
(* however often the quest is put or reopened, and whatever is replayed    *)
(* after a restart.                                                        *)
THEOREM AlwaysPaidOnce == ProgressionSpec => []PaidOnce
BY WatchersStart, WatchersInduction, PaidStart, PaidInduction, BookedPaid, PTL
   DEF ProgressionSpec

-----------------------------------------------------------------------------
(***************************************************************************)
(* A merge that was reported brought all that was in the worktree, and a   *)
(* quest that the board let be claimed after it builds on it, for any      *)
(* number of quests, dependencies, paths, restarts and hang-ups.           *)
(*                                                                         *)
(* A dependency that is completed and indexed changes no more: its verdict *)
(* is put and what was to follow it is done, also by a backend that was    *)
(* restarted.  Its work can still come into main with the branch of        *)
(* somebody else, but only work that was in main when that branch was      *)
(* made.  So a branch that was made of main after that has all there will  *)
(* ever be, and commits take nothing away.                                 *)
(***************************************************************************)
WorkspacesSpec == WorkspacesInit /\ [][WorkspacesNext]_wsVars

JobRec == [status : {"posted", "in_progress", "in_review", "completed"},
           indexed : BOOLEAN, ready : BOOLEAN, gated : BOOLEAN]
BranchRec == [exists : BOOLEAN, work : SUBSET Work, gated : BOOLEAN]
DirRec == [kind : {"none", "worktree", "plain"}, work : SUBSET Work]
MergeRec == [at : {"none", "asking", "read", "done"}, ok : BOOLEAN, fresh : BOOLEAN,
             unput : BOOLEAN]

OfJob(d, work) == {w \in work : w[1] = d}

\* Dependents may be claimed.
Settled(d) == jobs[d].status = "completed" /\ jobs[d].indexed

\* What follows a verdict begins with the submission, and is over when the quest is settled.
VerdictsFollowed ==
  \A d \in Jobs :
    /\ merging[d].at # "none" => jobs[d].status \in {"in_review", "completed"}
    /\ merging[d].ok \/ merging[d].unput => merging[d].at # "none"
    /\ jobs[d].status = "completed" => merging[d].at # "none" /\ ~merging[d].unput
    /\ Settled(d) => merging[d].at = "done"

GatesHeld ==
  \A q \in Jobs : jobs[q].gated \/ (branches[q].exists /\ branches[q].gated) =>
    \A d \in JobDeps[q] : Settled(d)

MergedAll ==
  \A d \in Jobs : merging[d].ok /\ dirs[d].kind = "worktree" /\ d \notin uncommitted =>
                    dirs[d].work \subseteq main

\* Work of another quest got into a branch or a workspace by way of main.
OthersByMain ==
  \A r, d \in Jobs : r # d =>
    OfJob(d, branches[r].work) \subseteq main /\ OfJob(d, dirs[r].work) \subseteq main

WorktreesCarry ==
  \A q \in Jobs : dirs[q].kind = "worktree" /\ branches[q].exists =>
    branches[q].work \subseteq dirs[q].work

BuiltOnDependencies ==
  \A q \in Jobs : branches[q].exists /\ branches[q].gated =>
    \A d \in JobDeps[q] : OfJob(d, main) \subseteq branches[q].work

WsShape ==
  /\ jobs \in [Jobs -> JobRec] /\ main \subseteq Work
  /\ branches \in [Jobs -> BranchRec] /\ dirs \in [Jobs -> DirRec]
  /\ merging \in [Jobs -> MergeRec]

WsIInv ==
  /\ WsShape /\ VerdictsFollowed /\ GatesHeld
  /\ MergedAll /\ OthersByMain /\ WorktreesCarry /\ BuiltOnDependencies

-----------------------------------------------------------------------------
\* Nothing is posted, written or merged to begin with.
LEMMA WorkspacesStart == WorkspacesInit => WsIInv
<1> SUFFICES ASSUME WorkspacesInit  PROVE WsIInv
  OBVIOUS
<1>1. WsShape
  BY DEF WorkspacesInit, WsShape, JobRec, BranchRec, DirRec, MergeRec, NoBranch, NoDir, NoMerge
<1>2. VerdictsFollowed /\ GatesHeld
  BY DEF WorkspacesInit, VerdictsFollowed, GatesHeld, Settled, NoMerge, NoBranch
<1>3. MergedAll /\ OthersByMain /\ WorktreesCarry /\ BuiltOnDependencies
  BY DEF WorkspacesInit, MergedAll, OthersByMain, WorktreesCarry, BuiltOnDependencies, OfJob,
         NoMerge, NoBranch, NoDir
<1> QED  BY <1>1, <1>2, <1>3 DEF WsIInv

\* Quests and merges move on; the work is where it was.
LEMMA JobsStep ==
  ASSUME WsIInv, jobs' \in [Jobs -> JobRec], merging' \in [Jobs -> MergeRec],
         UNCHANGED <<main, branches, dirs, uncommitted>>, VerdictsFollowed',
         \A d \in Jobs : Settled(d) => Settled(d)',
         \A q \in Jobs : jobs'[q].gated => jobs[q].gated \/ (\A d \in JobDeps[q] : Settled(d)),
         \A d \in Jobs : merging'[d].ok => merging[d].ok
  PROVE  WsIInv'
<1>1. WsShape'
  BY DEF WsIInv, WsShape
<1>2. GatesHeld'
  <2> SUFFICES ASSUME NEW q \in Jobs, jobs'[q].gated \/ (branches[q].exists /\ branches[q].gated),
                      NEW d \in JobDeps[q]
               PROVE  Settled(d)'
    BY DEF GatesHeld
  <2>1. d \in Jobs
    BY WorkspacesAssumption
  <2>2. Settled(d)
    BY DEF WsIInv, GatesHeld
  <2> QED  BY <2>1, <2>2
<1>3. MergedAll' /\ OthersByMain' /\ WorktreesCarry' /\ BuiltOnDependencies'
  BY DEF WsIInv, MergedAll, OthersByMain, WorktreesCarry, BuiltOnDependencies
<1> QED  BY <1>1, <1>2, <1>3 DEF WsIInv

\* One quest's entity and merge.
LEMMA JobStep ==
  ASSUME WsIInv, NEW q \in Jobs, NEW j \in JobRec, NEW m \in MergeRec,
         jobs' = [jobs EXCEPT ![q] = j], merging' = [merging EXCEPT ![q] = m],
         UNCHANGED <<main, branches, dirs, uncommitted>>,
         ~Settled(q), m.ok => merging[q].ok,
         j.gated => jobs[q].gated \/ (\A d \in JobDeps[q] : Settled(d)),
         m.at # "none" => j.status \in {"in_review", "completed"},
         m.ok \/ m.unput => m.at # "none",
         j.status = "completed" => m.at # "none" /\ ~m.unput,
         j.status = "completed" /\ j.indexed => m.at = "done"
  PROVE  WsIInv'
<1>1. jobs \in [Jobs -> JobRec] /\ merging \in [Jobs -> MergeRec]
  BY DEF WsIInv, WsShape
<1>2. /\ jobs' \in [Jobs -> JobRec] /\ merging' \in [Jobs -> MergeRec]
      /\ jobs'[q] = j /\ merging'[q] = m
      /\ \A r \in Jobs \ {q} : jobs'[r] = jobs[r] /\ merging'[r] = merging[r]
  BY <1>1
<1>3. VerdictsFollowed'
  <2> SUFFICES ASSUME NEW d \in Jobs
               PROVE  /\ merging'[d].at # "none" => jobs'[d].status \in {"in_review", "completed"}
                      /\ merging'[d].ok \/ merging'[d].unput => merging'[d].at # "none"
                      /\ jobs'[d].status = "completed" => merging'[d].at # "none" /\ ~merging'[d].unput
                      /\ jobs'[d].status = "completed" /\ jobs'[d].indexed => merging'[d].at = "done"
    BY DEF VerdictsFollowed, Settled
  <2>1. CASE d = q
    BY <1>2, <2>1
  <2>2. CASE d # q
    BY <1>2, <2>2 DEF WsIInv, VerdictsFollowed, Settled
  <2> QED  BY <2>1, <2>2
<1>4. \A d \in Jobs : Settled(d) => Settled(d)'
  BY <1>2 DEF Settled
<1>5. /\ \A r \in Jobs : jobs'[r].gated => jobs[r].gated \/ (\A d \in JobDeps[r] : Settled(d))
      /\ \A d \in Jobs : merging'[d].ok => merging[d].ok
  BY <1>2
<1> QED  BY <1>2, <1>3, <1>4, <1>5, JobsStep

\* What a commit is of.
LEMMA Commits ==
  ASSUME WsIInv, NEW q \in Jobs
  PROVE  /\ Committed(q) \in [Jobs -> BranchRec]
         /\ \A r \in Jobs :
              /\ Committed(q)[r].exists = branches[r].exists
              /\ Committed(q)[r].gated = branches[r].gated
              /\ Committed(q)[r].work = branches[r].work \/ Committed(q)[r].work = dirs[r].work
              /\ branches[r].work \subseteq Committed(q)[r].work
              /\ dirs[r].kind = "worktree" /\ branches[r].exists =>
                   Committed(q)[r].work \subseteq dirs[r].work
         /\ dirs[q].kind = "worktree" /\ branches[q].exists => Committed(q)[q].work = dirs[q].work
<1>1. branches \in [Jobs -> BranchRec] /\ dirs \in [Jobs -> DirRec] /\ WorktreesCarry
  BY DEF WsIInv, WsShape
<1>2. CASE dirs[q].kind = "worktree" /\ branches[q].exists
  <2> DEFINE b == [branches[q] EXCEPT !.work = dirs[q].work]
  <2>1. Committed(q) = [branches EXCEPT ![q] = b]
    BY <1>1, <1>2 DEF Committed
  <2>2. /\ b \in BranchRec /\ b.exists = branches[q].exists /\ b.gated = branches[q].gated
        /\ b.work = dirs[q].work
    BY <1>1 DEF BranchRec, DirRec
  <2>3. branches[q].work \subseteq dirs[q].work
    BY <1>1, <1>2 DEF WorktreesCarry
  <2>4. ASSUME NEW r \in Jobs
        PROVE  /\ r = q => Committed(q)[r] = b
               /\ r # q => Committed(q)[r] = branches[r]
    BY <1>1, <2>1
  <2> HIDE DEF b
  <2>5. Committed(q) \in [Jobs -> BranchRec]
    BY <1>1, <2>1, <2>2
  <2> QED  BY <1>1, <2>2, <2>3, <2>4, <2>5 DEF WorktreesCarry
<1>3. CASE ~(dirs[q].kind = "worktree" /\ branches[q].exists)
  <2>1. Committed(q) = branches
    BY <1>3 DEF Committed
  <2> QED  BY <1>1, <1>3, <2>1 DEF WorktreesCarry
<1> QED  BY <1>2, <1>3

\* A commit, with or without a merge of the branch; no settled quest merges.
LEMMA CommitStep ==
  ASSUME WsIInv, NEW q \in Jobs, branches' \in {branches, Committed(q)},
         main' = main \/ (main' = main \cup branches'[q].work /\ ~Settled(q)),
         UNCHANGED <<jobs, dirs>>, merging' \in [Jobs -> MergeRec], VerdictsFollowed', MergedAll'
  PROVE  WsIInv'
<1> DEFINE committed == branches'
<1>1. /\ committed \in [Jobs -> BranchRec]
      /\ \A r \in Jobs :
           /\ committed[r].exists = branches[r].exists
           /\ committed[r].gated = branches[r].gated
           /\ committed[r].work = branches[r].work \/ committed[r].work = dirs[r].work
           /\ branches[r].work \subseteq committed[r].work
           /\ dirs[r].kind = "worktree" /\ branches[r].exists =>
                committed[r].work \subseteq dirs[r].work
  <2>1. CASE branches' = branches
    BY <2>1 DEF WsIInv, WsShape, WorktreesCarry
  <2>2. CASE branches' = Committed(q)
    BY <2>2, Commits
  <2> QED  BY <2>1, <2>2
<1>2. branches' = committed
  OBVIOUS
<1> HIDE DEF committed
<1>3. WsShape'
  <2>1. committed[q].work \subseteq Work
    BY <1>1 DEF BranchRec
  <2> QED  BY <1>1, <1>2, <2>1 DEF WsIInv, WsShape
<1>4. GatesHeld'
  BY <1>1, <1>2 DEF WsIInv, GatesHeld, Settled
<1>5. main \subseteq main'
  OBVIOUS
<1>6. OthersByMain'
  <2> SUFFICES ASSUME NEW r \in Jobs, NEW d \in Jobs \ {r}
               PROVE  OfJob(d, committed[r].work) \subseteq main' /\ OfJob(d, dirs[r].work) \subseteq main'
    BY <1>2 DEF OthersByMain
  <2>1. OfJob(d, branches[r].work) \subseteq main /\ OfJob(d, dirs[r].work) \subseteq main
    BY DEF WsIInv, OthersByMain
  <2> QED  BY <1>1, <1>5, <2>1
<1>7. WorktreesCarry'
  BY <1>1, <1>2 DEF WorktreesCarry
<1>8. BuiltOnDependencies'
  <2> SUFFICES ASSUME NEW p \in Jobs, committed[p].exists, committed[p].gated,
                      NEW d \in JobDeps[p]
               PROVE  OfJob(d, main') \subseteq committed[p].work
    BY <1>2 DEF BuiltOnDependencies
  <2>1. d \in Jobs /\ branches[p].exists /\ branches[p].gated
    BY <1>1, WorkspacesAssumption
  <2>2. Settled(d) /\ OfJob(d, main) \subseteq branches[p].work
    BY <2>1 DEF WsIInv, GatesHeld, BuiltOnDependencies
  <2>3. OfJob(d, main') \subseteq OfJob(d, main)
    <3>1. CASE main' = main
      BY <3>1
    <3>2. CASE main' = main \cup committed[q].work /\ ~Settled(q)
      <4>1. d # q
        BY <2>2, <3>2
      <4>2. OfJob(d, committed[q].work) \subseteq main
        BY <1>1, <2>1, <4>1 DEF WsIInv, OthersByMain
      <4> QED  BY <3>2, <4>2 DEF OfJob
    <3> QED  BY <1>2, <3>1, <3>2
  <2> QED  BY <1>1, <2>2, <2>3
<1> QED  BY <1>3, <1>4, <1>6, <1>7, <1>8 DEF WsIInv

-----------------------------------------------------------------------------
\* A claim, by the board or past it.
LEMMA TakeStep ==
  ASSUME WsIInv, NEW q \in Jobs, NEW gated \in BOOLEAN, TakeJob(q, gated)
  PROVE  WsIInv'
<1> DEFINE j == [jobs[q] EXCEPT !.status = "in_progress", !.gated = gated]
<1>1. /\ jobs[q] \in JobRec /\ merging[q] \in MergeRec /\ jobs[q].status = "posted"
      /\ jobs \in [Jobs -> JobRec] /\ merging \in [Jobs -> MergeRec]
      /\ UNCHANGED <<main, branches, dirs, merging, uncommitted>>
  BY DEF WsIInv, WsShape, TakeJob, sandbox
<1>2. /\ j \in JobRec /\ j.status = "in_progress" /\ j.gated = gated
  BY <1>1 DEF JobRec
<1>3. jobs' = [jobs EXCEPT ![q] = j]
  BY <1>1 DEF TakeJob
<1>4. gated => \A d \in JobDeps[q] : Settled(d)
  BY DEF TakeJob, Claimable, Settled
<1>5. merging' = [merging EXCEPT ![q] = merging[q]]
  BY <1>1
<1>6. merging[q].at = "none" /\ ~merging[q].ok /\ ~merging[q].unput /\ ~Settled(q)
  BY <1>1 DEF WsIInv, VerdictsFollowed, Settled
<1> HIDE DEF j
<1> QED  BY <1>1, <1>2, <1>3, <1>4, <1>5, <1>6, JobStep

\* A failed attempt, a won battle, and its verdict.
LEMMA VerdictSteps ==
  ASSUME WsIInv, NEW q \in Jobs, PostAgain(q) \/ WinBattle(q) \/ PutVerdict(q) \/ SetIndexed(q)
  PROVE  WsIInv'
<1>1. /\ jobs[q] \in JobRec /\ merging[q] \in MergeRec
      /\ jobs \in [Jobs -> JobRec] /\ merging \in [Jobs -> MergeRec]
      /\ UNCHANGED <<main, branches, dirs, uncommitted>>
  BY DEF WsIInv, WsShape, PostAgain, WinBattle, PutVerdict, SetIndexed, sandbox
<1>2. /\ merging[q].at # "none" => jobs[q].status \in {"in_review", "completed"}
      /\ merging[q].ok \/ merging[q].unput => merging[q].at # "none"
      /\ jobs[q].status = "completed" => merging[q].at # "none" /\ ~merging[q].unput
      /\ Settled(q) => merging[q].at = "done"
  BY DEF WsIInv, VerdictsFollowed
<1>3. CASE PostAgain(q)
  <2> DEFINE j == [jobs[q] EXCEPT !.status = "posted", !.ready = FALSE]
  <2>1. j \in JobRec /\ j.status = "posted" /\ j.gated = jobs[q].gated
    BY <1>1 DEF JobRec
  <2>2. /\ jobs' = [jobs EXCEPT ![q] = j] /\ merging' = [merging EXCEPT ![q] = merging[q]]
        /\ jobs[q].status = "in_progress"
    BY <1>1, <1>3 DEF PostAgain
  <2>3. ~Settled(q) /\ merging[q].at = "none"
    BY <1>2, <2>2 DEF Settled
  <2> HIDE DEF j
  <2> QED  BY <1>1, <1>2, <2>1, <2>2, <2>3, JobStep
<1>4. CASE WinBattle(q)
  <2> DEFINE j == [jobs[q] EXCEPT !.status = "in_review"]
             m == [NoMerge EXCEPT !.at = "asking", !.unput = TRUE]
  <2>1. j \in JobRec /\ j.status = "in_review" /\ j.gated = jobs[q].gated
    BY <1>1 DEF JobRec
  <2>2. m \in MergeRec /\ m.at = "asking" /\ ~m.ok
    BY DEF MergeRec, NoMerge
  <2>3. /\ jobs' = [jobs EXCEPT ![q] = j] /\ merging' = [merging EXCEPT ![q] = m]
        /\ ~Settled(q)
    BY <1>1, <1>4 DEF WinBattle, Settled
  <2> HIDE DEF j, m
  <2> QED  BY <1>1, <2>1, <2>2, <2>3, JobStep
<1>5. CASE PutVerdict(q)
  <2> DEFINE j == [jobs[q] EXCEPT !.status = "completed", !.indexed = FALSE]
             m == [merging[q] EXCEPT !.unput = FALSE, !.fresh = FALSE]
  <2>1. j \in JobRec /\ j.status = "completed" /\ ~j.indexed /\ j.gated = jobs[q].gated
    BY <1>1 DEF JobRec
  <2>2. m \in MergeRec /\ m.at = merging[q].at /\ m.ok = merging[q].ok /\ ~m.unput
    BY <1>1 DEF MergeRec
  <2>3. /\ jobs' = [jobs EXCEPT ![q] = j] /\ merging' = [merging EXCEPT ![q] = m]
        /\ merging[q].unput
    BY <1>1, <1>5 DEF PutVerdict
  <2>4. ~Settled(q) /\ merging[q].at # "none"
    BY <1>2, <2>3 DEF Settled
  <2> HIDE DEF j, m
  <2> QED  BY <1>1, <2>1, <2>2, <2>3, <2>4, JobStep
<1>6. CASE SetIndexed(q) /\ merging[q].fresh
  <2> DEFINE j == [jobs[q] EXCEPT !.indexed = TRUE]
             m == [merging[q] EXCEPT !.at = "done", !.fresh = FALSE]
  <2>1. j \in JobRec /\ j.status = jobs[q].status /\ j.gated = jobs[q].gated
    BY <1>1 DEF JobRec
  <2>2. m \in MergeRec /\ m.at = "done" /\ m.ok = merging[q].ok /\ m.unput = merging[q].unput
    BY <1>1 DEF MergeRec
  <2>3. /\ jobs' = [jobs EXCEPT ![q] = j] /\ merging' = [merging EXCEPT ![q] = m]
        /\ merging[q].at = "read"
    BY <1>1, <1>6 DEF SetIndexed
  <2>4. ~Settled(q)
    BY <1>2, <2>3
  <2> HIDE DEF j, m
  <2> QED  BY <1>1, <1>2, <2>1, <2>2, <2>3, <2>4, JobStep
<1>7. CASE SetIndexed(q) /\ ~merging[q].fresh
  <2> DEFINE m == [merging[q] EXCEPT !.fresh = TRUE]
  <2>1. m \in MergeRec /\ m.at = merging[q].at /\ m.ok = merging[q].ok /\ m.unput = merging[q].unput
    BY <1>1 DEF MergeRec
  <2>2. /\ jobs' = [jobs EXCEPT ![q] = jobs[q]] /\ merging' = [merging EXCEPT ![q] = m]
        /\ merging[q].at = "read"
    BY <1>1, <1>7 DEF SetIndexed
  <2>3. ~Settled(q)
    BY <1>2, <2>2
  <2> HIDE DEF m
  <2> QED  BY <1>1, <1>2, <2>1, <2>2, <2>3, JobStep DEF Settled
<1> QED  BY <1>3, <1>4, <1>5, <1>6, <1>7

\* A workspace is kept, or made of what is in main.
LEMMA CreateStep ==
  ASSUME WsIInv, NEW q \in Jobs, CreateWorkspace(q)
  PROVE  WsIInv'
<1>1. /\ jobs[q] \in JobRec /\ jobs \in [Jobs -> JobRec] /\ merging \in [Jobs -> MergeRec]
      /\ branches \in [Jobs -> BranchRec] /\ dirs \in [Jobs -> DirRec] /\ main \subseteq Work
      /\ jobs[q].status = "in_progress" /\ UNCHANGED <<main, merging, uncommitted>>
  BY DEF WsIInv, WsShape, CreateWorkspace
<1>2. /\ jobs' \in [Jobs -> JobRec]
      /\ \A r \in Jobs : /\ jobs'[r].status = jobs[r].status /\ jobs'[r].indexed = jobs[r].indexed
                         /\ jobs'[r].gated = jobs[r].gated
  <2> DEFINE j == [jobs[q] EXCEPT !.ready = TRUE]
  <2>1. j \in JobRec /\ j.status = jobs[q].status /\ j.indexed = jobs[q].indexed
        /\ j.gated = jobs[q].gated
    BY <1>1 DEF JobRec
  <2>2. jobs' = [jobs EXCEPT ![q] = j]
    BY <1>1 DEF CreateWorkspace
  <2> HIDE DEF j
  <2> QED  BY <1>1, <2>1, <2>2
<1>3. VerdictsFollowed'
  BY <1>1, <1>2 DEF WsIInv, VerdictsFollowed, Settled
<1>4. CASE UNCHANGED <<branches, dirs>>
  BY <1>1, <1>2, <1>3, <1>4, JobsStep DEF Settled
<1>5. CASE /\ branches' = [branches EXCEPT ![q] =
                            [exists |-> TRUE, work |-> main, gated |-> jobs[q].gated]]
           /\ dirs' = [dirs EXCEPT ![q] = [kind |-> "worktree", work |-> main]]
  <2> DEFINE b == [exists |-> TRUE, work |-> main, gated |-> jobs[q].gated]
             w == [kind |-> "worktree", work |-> main]
  <2>1. /\ b \in BranchRec /\ w \in DirRec
        /\ branches'[q] = b /\ dirs'[q] = w
        /\ b.work = main /\ b.gated = jobs[q].gated /\ w.work = main
        /\ \A r \in Jobs \ {q} : branches'[r] = branches[r] /\ dirs'[r] = dirs[r]
    BY <1>1, <1>5 DEF BranchRec, DirRec, JobRec
  <2>2. branches' \in [Jobs -> BranchRec] /\ dirs' \in [Jobs -> DirRec]
    BY <1>1, <1>5, <2>1
  <2> HIDE DEF b, w
  <2>3. WsShape'
    BY <1>1, <1>2, <2>2 DEF WsShape
  <2>4. ~merging[q].ok
    BY <1>1 DEF WsIInv, VerdictsFollowed
  <2>5. MergedAll'
    BY <1>1, <2>1, <2>4 DEF WsIInv, MergedAll
  <2>6. GatesHeld'
    <3> SUFFICES ASSUME NEW r \in Jobs,
                        jobs'[r].gated \/ (branches'[r].exists /\ branches'[r].gated),
                        NEW d \in JobDeps[r]
                 PROVE  Settled(d)'
      BY DEF GatesHeld
    <3>1. d \in Jobs
      BY WorkspacesAssumption
    <3>2. jobs[r].gated \/ (branches[r].exists /\ branches[r].gated)
      BY <1>2, <2>1
    <3> QED  BY <1>2, <3>1, <3>2 DEF WsIInv, GatesHeld, Settled
  <2>7. OthersByMain'
    <3> SUFFICES ASSUME NEW r \in Jobs, NEW d \in Jobs \ {r}
                 PROVE  OfJob(d, branches'[r].work) \subseteq main /\ OfJob(d, dirs'[r].work) \subseteq main
      BY <1>1 DEF OthersByMain
    <3>1. CASE r = q
      BY <2>1, <3>1 DEF OfJob
    <3>2. CASE r # q
      BY <2>1, <3>2 DEF WsIInv, OthersByMain
    <3> QED  BY <3>1, <3>2
  <2>8. WorktreesCarry'
    BY <2>1 DEF WsIInv, WorktreesCarry
  <2>9. BuiltOnDependencies'
    <3> SUFFICES ASSUME NEW r \in Jobs, branches'[r].exists, branches'[r].gated,
                        NEW d \in JobDeps[r]
                 PROVE  OfJob(d, main) \subseteq branches'[r].work
      BY <1>1 DEF BuiltOnDependencies
    <3>1. CASE r = q
      BY <2>1, <3>1 DEF OfJob
    <3>2. CASE r # q
      BY <2>1, <3>2 DEF WsIInv, BuiltOnDependencies
    <3> QED  BY <3>1, <3>2
  <2> QED  BY <1>3, <2>3, <2>5, <2>6, <2>7, <2>8, <2>9 DEF WsIInv
<1> QED  BY <1>4, <1>5 DEF CreateWorkspace

\* A quest's loop writes work of that quest.
LEMMA WriteStep ==
  ASSUME WsIInv, NEW q \in Jobs, WriteFile(q)
  PROVE  WsIInv'
<1>1. /\ dirs \in [Jobs -> DirRec] /\ dirs[q] \in DirRec /\ jobs[q].status = "in_progress"
      /\ UNCHANGED <<jobs, main, branches, merging, uncommitted>>
  BY DEF WsIInv, WsShape, WriteFile
<1>2. PICK n \in 1 .. WriteBound :
        dirs' = [dirs EXCEPT ![q].work = @ \cup {<<q, n>>},
                             ![q].kind = IF @ = "none" THEN "plain" ELSE @]
  BY DEF WriteFile
<1> DEFINE kind == IF dirs[q].kind = "none" THEN "plain" ELSE dirs[q].kind
           w == [dirs[q] EXCEPT !.work = dirs[q].work \cup {<<q, n>>}, !.kind = kind]
<1>3. dirs' = [dirs EXCEPT ![q] = w]
  BY <1>1, <1>2
<1>4. /\ w \in DirRec /\ w.work = dirs[q].work \cup {<<q, n>>}
      /\ w.kind = "worktree" => dirs[q].kind = "worktree"
  <2>1. <<q, n>> \in Work /\ kind \in {"none", "worktree", "plain"}
    BY <1>1 DEF Work, DirRec
  <2>2. dirs[q].work \cup {<<q, n>>} \subseteq Work
    BY <1>1, <2>1 DEF DirRec
  <2>3. kind = "worktree" => dirs[q].kind = "worktree"
    OBVIOUS
  <2> HIDE DEF kind
  <2> QED  BY <1>1, <2>1, <2>2, <2>3 DEF DirRec
<1> HIDE DEF w
<1>5. dirs' \in [Jobs -> DirRec] /\ dirs'[q] = w /\ \A r \in Jobs \ {q} : dirs'[r] = dirs[r]
  BY <1>1, <1>3, <1>4
<1>6. WsShape' /\ VerdictsFollowed' /\ GatesHeld' /\ BuiltOnDependencies'
  BY <1>1, <1>5 DEF WsIInv, WsShape, VerdictsFollowed, GatesHeld, BuiltOnDependencies, Settled
<1>7. ~merging[q].ok
  BY <1>1 DEF WsIInv, VerdictsFollowed
<1>8. MergedAll'
  BY <1>1, <1>5, <1>7 DEF WsIInv, MergedAll
<1>9. OthersByMain'
  <2>1. ASSUME NEW r \in Jobs, NEW d \in Jobs \ {r}  PROVE OfJob(d, dirs'[r].work) \subseteq main
    <3>1. OfJob(d, dirs[r].work) \subseteq main
      BY DEF WsIInv, OthersByMain
    <3>2. CASE r = q
      <4>1. OfJob(d, w.work) \subseteq OfJob(d, dirs[r].work)
        BY <1>4, <3>2 DEF OfJob
      <4> QED  BY <1>5, <3>1, <3>2, <4>1
    <3>3. CASE r # q
      BY <1>5, <3>1, <3>3
    <3> QED  BY <3>2, <3>3
  <2> QED  BY <1>1, <2>1 DEF WsIInv, OthersByMain
<1>10. WorktreesCarry'
  BY <1>1, <1>4, <1>5 DEF WsIInv, WorktreesCarry
<1> QED  BY <1>6, <1>8, <1>9, <1>10 DEF WsIInv

\* The loop commits.
LEMMA CommitAllStep ==
  ASSUME WsIInv, NEW q \in Jobs, CommitAll(q)
  PROVE  WsIInv'
<1>1. UNCHANGED <<jobs, main, dirs, merging, uncommitted>> /\ branches' = Committed(q)
  BY DEF CommitAll
<1>2. VerdictsFollowed' /\ MergedAll' /\ merging' \in [Jobs -> MergeRec]
  BY <1>1 DEF WsIInv, WsShape, VerdictsFollowed, MergedAll, Settled
<1> QED  BY <1>1, <1>2, CommitStep

\* The answer to a merge, or a hang-up, while the quest is not settled.
LEMMA AnswerKeeps ==
  ASSUME WsIInv, NEW q \in Jobs, NEW ok \in BOOLEAN, merging[q].at = "asking", Answer(q, ok),
         UNCHANGED jobs
  PROVE  /\ merging' \in [Jobs -> MergeRec] /\ VerdictsFollowed' /\ ~Settled(q)
         /\ merging'[q].ok = ok /\ \A r \in Jobs \ {q} : merging'[r] = merging[r]
<1> DEFINE m == [merging[q] EXCEPT !.at = "read", !.ok = ok, !.fresh = TRUE]
<1>1. merging \in [Jobs -> MergeRec] /\ merging[q] \in MergeRec
  BY DEF WsIInv, WsShape
<1>2. m \in MergeRec /\ m.at = "read" /\ m.ok = ok /\ m.unput = merging[q].unput
  BY <1>1 DEF MergeRec
<1>3. merging' = [merging EXCEPT ![q] = m]
  BY <1>1 DEF Answer
<1> HIDE DEF m
<1>4. /\ merging' \in [Jobs -> MergeRec] /\ merging'[q] = m
      /\ \A r \in Jobs \ {q} : merging'[r] = merging[r]
  BY <1>1, <1>2, <1>3
<1>5. ~Settled(q)
  BY DEF WsIInv, VerdictsFollowed
<1>6. VerdictsFollowed'
  BY <1>2, <1>4, <1>5 DEF WsIInv, VerdictsFollowed, Settled
<1> QED  BY <1>2, <1>4, <1>5, <1>6

\* What is reported is in main; a merge that was given up is not reported.
LEMMA MergeStep ==
  ASSUME WsIInv, NEW q \in Jobs, MergeToMain(q)
  PROVE  WsIInv'
<1>1. merging[q].at = "asking" /\ UNCHANGED <<jobs, dirs>>
  BY DEF MergeToMain
<1>2. CASE q \notin questRepos /\ Answer(q, FALSE) /\ UNCHANGED <<main, branches, uncommitted>>
  <2>1. /\ merging' \in [Jobs -> MergeRec] /\ VerdictsFollowed'
        /\ ~merging'[q].ok /\ \A r \in Jobs \ {q} : merging'[r] = merging[r]
    BY <1>1, <1>2, AnswerKeeps
  <2>2. jobs' \in [Jobs -> JobRec]
    BY <1>1 DEF WsIInv, WsShape
  <2>3. \A d \in Jobs : merging'[d].ok => merging[d].ok
    BY <2>1
  <2> QED  BY <1>1, <1>2, <2>1, <2>2, <2>3, JobsStep DEF Settled
<1>3. CASE \E done \in BOOLEAN :
             /\ AutoCommit(q) /\ (done => branches'[q].exists)
             /\ main' = IF done THEN main \cup branches'[q].work ELSE main
             /\ Answer(q, done)
  <2>1. PICK done \in BOOLEAN :
             /\ AutoCommit(q) /\ (done => branches'[q].exists)
             /\ main' = IF done THEN main \cup branches'[q].work ELSE main
             /\ Answer(q, done)
    BY <1>3
  <2>2. /\ merging' \in [Jobs -> MergeRec] /\ VerdictsFollowed' /\ ~Settled(q)
        /\ merging'[q].ok = done /\ \A r \in Jobs \ {q} : merging'[r] = merging[r]
    BY <1>1, <2>1, AnswerKeeps
  <2>3. /\ branches' \in {branches, Committed(q)}
        /\ uncommitted \ {q} \subseteq uncommitted'
        /\ q \notin uncommitted' => branches' = Committed(q)
    BY <2>1 DEF AutoCommit
  <2>4. /\ Committed(q)[q].exists = branches[q].exists
        /\ dirs[q].kind = "worktree" /\ branches[q].exists => Committed(q)[q].work = dirs[q].work
    BY Commits
  <2>5. MergedAll'
    <3> SUFFICES ASSUME NEW d \in Jobs, merging'[d].ok, dirs[d].kind = "worktree",
                        d \notin uncommitted'
                 PROVE  dirs[d].work \subseteq main'
      BY <1>1 DEF MergedAll
    <3>1. CASE d = q
      BY <2>1, <2>2, <2>3, <2>4, <3>1
    <3>2. CASE d # q
      <4>1. dirs[d].work \subseteq main
        BY <2>2, <2>3, <3>2 DEF WsIInv, MergedAll
      <4> QED  BY <2>1, <4>1
    <3> QED  BY <3>1, <3>2
  <2>6. main' = main \/ (main' = main \cup branches'[q].work /\ ~Settled(q))
    BY <2>1, <2>2
  <2> QED  BY <1>1, <2>2, <2>3, <2>5, <2>6, CommitStep
<1>4. q \in questRepos => \E done \in BOOLEAN :
             /\ AutoCommit(q) /\ (done => branches'[q].exists)
             /\ main' = IF done THEN main \cup branches'[q].work ELSE main
             /\ Answer(q, done)
  <2> DEFINE branch == branches'[q]
             done == ~stuck /\ branch.exists /\ ~Clash(branch.work, main)
  <2> SUFFICES ASSUME q \in questRepos
               PROVE  /\ AutoCommit(q) /\ done \in BOOLEAN /\ (done => branches'[q].exists)
                      /\ main' = IF done THEN main \cup branches'[q].work ELSE main
                      /\ Answer(q, done)
    OBVIOUS
  <2> QED  BY DEF MergeToMain
<1> QED  BY <1>2, <1>3, <1>4 DEF MergeToMain

\* A hang-up, whatever the sandbox does of it.
LEMMA HangUpStep ==
  ASSUME WsIInv, NEW q \in Jobs, HangUp(q)
  PROVE  WsIInv'
<1>1. merging[q].at = "asking" /\ Answer(q, FALSE) /\ UNCHANGED <<jobs, dirs, uncommitted>>
  BY DEF HangUp
<1>2. /\ merging' \in [Jobs -> MergeRec] /\ VerdictsFollowed' /\ ~Settled(q)
      /\ ~merging'[q].ok /\ \A r \in Jobs \ {q} : merging'[r] = merging[r]
  BY <1>1, AnswerKeeps
<1>3. CASE UNCHANGED <<main, branches>>
  <2>1. jobs' \in [Jobs -> JobRec]
    BY <1>1 DEF WsIInv, WsShape
  <2> QED  BY <1>1, <1>2, <1>3, <2>1, JobsStep DEF Settled
<1>4. CASE /\ branches' \in {branches, Committed(q)} /\ UNCHANGED uncommitted
           /\ (main' = main \/ main' = main \cup branches'[q].work)
  <2>1. main \subseteq main'
    BY <1>4
  <2>2. MergedAll'
    BY <1>1, <1>2, <2>1 DEF WsIInv, MergedAll
  <2> QED  BY <1>1, <1>2, <1>4, <2>2, CommitStep
<1> QED  BY <1>3, <1>4 DEF HangUp

\* The sweep takes workspaces away, and branches or not.
LEMMA SweepStep ==
  ASSUME WsIInv, NEW q \in Jobs, SweepForgets(q) \/ SweepRemoves(q)
  PROVE  WsIInv'
<1>1. /\ branches \in [Jobs -> BranchRec] /\ dirs \in [Jobs -> DirRec]
      /\ NoBranch \in BranchRec /\ NoDir \in DirRec
      /\ UNCHANGED <<jobs, main, merging, uncommitted>>
  BY DEF WsIInv, WsShape, SweepForgets, SweepRemoves, NoBranch, NoDir, BranchRec, DirRec
<1>2. /\ branches' \in [Jobs -> BranchRec] /\ dirs' \in [Jobs -> DirRec]
      /\ \A r \in Jobs : branches'[r] \in {branches[r], NoBranch} /\ dirs'[r] \in {dirs[r], NoDir}
  BY <1>1 DEF SweepForgets, SweepRemoves
<1>3. ~NoBranch.exists /\ NoBranch.work = {} /\ NoDir.kind = "none" /\ NoDir.work = {}
  BY DEF NoBranch, NoDir
<1>4. WsShape' /\ VerdictsFollowed'
  BY <1>1, <1>2 DEF WsIInv, WsShape, VerdictsFollowed, Settled
<1>5. GatesHeld'
  BY <1>1, <1>2, <1>3 DEF WsIInv, GatesHeld, Settled
<1>6. MergedAll' /\ WorktreesCarry'
  BY <1>1, <1>2, <1>3 DEF WsIInv, MergedAll, WorktreesCarry
<1>7. OthersByMain'
  BY <1>1, <1>2, <1>3 DEF WsIInv, OthersByMain, OfJob
<1>8. BuiltOnDependencies'
  BY <1>1, <1>2, <1>3 DEF WsIInv, BuiltOnDependencies
<1> QED  BY <1>4, <1>5, <1>6, <1>7, <1>8 DEF WsIInv

\* A backend that restarts has put the verdict, and leaves the rest undone, or begins again.
LEMMA BackendStep == WsIInv /\ BackendRestart => WsIInv'
<1> SUFFICES ASSUME WsIInv, BackendRestart  PROVE WsIInv'
  OBVIOUS
<1> DEFINE m(d) == IF jobs[d].status = "completed" THEN [merging[d] EXCEPT !.at = "done"]
                                                   ELSE NoMerge
<1>1. /\ jobs \in [Jobs -> JobRec] /\ merging \in [Jobs -> MergeRec]
      /\ merging' = [d \in Jobs |-> m(d)] /\ UNCHANGED <<jobs, main, branches, dirs, uncommitted>>
  BY DEF WsIInv, WsShape, BackendRestart, sandbox
<1>2. ASSUME NEW d \in Jobs
      PROVE  /\ m(d) \in MergeRec /\ (m(d).ok => merging[d].ok)
             /\ jobs[d].status = "completed" => m(d).at = "done" /\ m(d).unput = merging[d].unput
             /\ jobs[d].status # "completed" => m(d).at = "none" /\ ~m(d).unput /\ ~m(d).ok
  BY <1>1 DEF MergeRec, NoMerge
<1> HIDE DEF m
<1>3. merging' \in [Jobs -> MergeRec] /\ \A d \in Jobs : merging'[d] = m(d)
  BY <1>1, <1>2
<1>4. VerdictsFollowed'
  BY <1>1, <1>2, <1>3 DEF WsIInv, VerdictsFollowed, Settled
<1> QED  BY <1>1, <1>2, <1>3, <1>4, JobsStep DEF Settled

\* Every step keeps the invariant.
LEMMA WorkspacesInduction == WsIInv /\ [WorkspacesNext]_wsVars => WsIInv'
<1> SUFFICES ASSUME WsIInv, [WorkspacesNext]_wsVars  PROVE WsIInv'
  OBVIOUS
<1>1. ASSUME UNCHANGED <<jobs, main, branches, dirs, merging, uncommitted>>  PROVE WsIInv'
  BY <1>1 DEF WsIInv, WsShape, VerdictsFollowed, GatesHeld, MergedAll, OthersByMain,
              WorktreesCarry, BuiltOnDependencies, Settled
<1>2. CASE UNCHANGED wsVars
  BY <1>1, <1>2 DEF wsVars
<1>3. CASE SandboxRestart
  BY <1>1, <1>3 DEF SandboxRestart
<1> QED  BY <1>2, <1>3, TakeStep, VerdictSteps, CreateStep, WriteStep, CommitAllStep, MergeStep,
            HangUpStep, SweepStep, BackendStep DEF WorkspacesNext

\* A merge that bossbattle was told of brought all that was in the quest's worktree, and a
\* branch made for a quest that the board let be claimed after it has that work
\* (handleMergeToMain and handleCreateWorkspace of cmd/sandbox, setIndexed of bossbattle,
\* the claim's check of questboard).
THEOREM MergedWorkAlwaysReaches == WorkspacesSpec => []MergedWorkReaches
<1>1. WsIInv => MergedWorkReaches
  BY DEF WsIInv, MergedAll, BuiltOnDependencies, MergedWorkReaches, OfJob
<1> QED  BY <1>1, WorkspacesStart, WorkspacesInduction, PTL DEF WorkspacesSpec
=============================================================================
