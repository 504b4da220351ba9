----------------------------- MODULE Heartbeat -----------------------------
(***************************************************************************)
(* processor/autonomy: every agent has a timer.  When it fires a callback, *)
(* in a goroutine of its own, evaluates the agent from the copy in its     *)
(* tracker, acts (ends a cooldown, claims a suggested quest) and arms the  *)
(* timer again.  Meanwhile the KV watch replaces the copy and the timer,   *)
(* the boid engine sends suggestions, which are evaluated at once in yet   *)
(* another goroutine, operators pause the board and the process stops.     *)
(*                                                                         *)
(* One agent is modelled, with rivals that claim the quests it is told of. *)
(* Not modelled: guild and shop actions, the lengths of intervals (only    *)
(* whether an idle one was backed off), events, metrics, what operators do *)
(* to a quest the agent has just claimed.                                  *)
(***************************************************************************)
EXTENDS Naturals, Sequences, FiniteSets

CONSTANTS
  BoardQuests,     \* quests the boid engine may suggest
  Evaluations,     \* bound: goroutines that evaluate the agent at one time
  AgentLag,        \* bound: puts of the agent undelivered when a timer fires or others act
  StirBound        \* bound: puts of the agent by others, suggestions sent and pauses, together

ASSUME HeartbeatAssumption ==
  /\ IsFiniteSet(BoardQuests) /\ IsFiniteSet(Evaluations)
  /\ AgentLag \in Nat /\ StirBound \in Nat

VARIABLES
  agent,        \* the agent entity
  agentFeed,    \* puts of it the watch has yet to deliver
  board,        \* who has each quest
  clock,        \* time, as far as cooldowns tell it
  tracker,      \* trackers[agent]
  evaluation,   \* what each goroutine is at
  boardPaused,
  autonomy,     \* of the component: running, stopping, halted, stopped
  stirs         \* what the environment did so far

hbVars == <<agent, agentFeed, board, clock, tracker, evaluation, boardPaused, autonomy, stirs>>

AgentStatuses == {"idle", "on_quest", "cooldown", "retired"}

\* until: CooldownUntil, 0 when it is nil.
AgentCopy == [status : AgentStatuses, until : Nat]

\* timer: absent (there is no tracker), none (a nil pointer), armed, or expired.
AgentTracker ==
  [copy : AgentCopy, interval : 0 .. 2, timer : {"absent", "none", "armed", "expired"},
   suggestions : SUBSET BoardQuests]

\* at: where the goroutine is; timed: it is a timer's callback; copy and list: its snapshot.
Evaluation ==
  [at : {"none", "fired", "deciding", "claiming", "owning", "ended"}, timed : BOOLEAN,
   copy : AgentCopy, list : SUBSET BoardQuests, quest : SUBSET BoardQuests]

NoTracker ==
  [copy |-> [status |-> "idle", until |-> 0], interval |-> 0, timer |-> "absent",
   suggestions |-> {}]

Tracked == tracker.timer # "absent"

NoEvaluation ==
  [at |-> "none", timed |-> FALSE, copy |-> [status |-> "idle", until |-> 0],
   list |-> {}, quest |-> {}]

\* 2 is the interval of an idle agent that was backed off; 0 means no heartbeat.
IntervalForStatus(s) == IF s = "retired" THEN 0 ELSE 1

HeartbeatTypeOK ==
  /\ agent \in AgentCopy
  /\ agentFeed \in Seq(AgentCopy)
  /\ board \in [BoardQuests -> {"posted", "own", "rival"}]
  /\ clock \in Nat
  /\ tracker \in AgentTracker
  /\ evaluation \in [Evaluations -> Evaluation]
  /\ boardPaused \in BOOLEAN
  /\ autonomy \in {"running", "stopping", "halted", "stopped"}
  /\ stirs \in 0 .. StirBound

HeartbeatInit ==
  /\ agent = [status |-> "idle", until |-> 0]
  /\ agentFeed = <<>>
  /\ board = [q \in BoardQuests |-> "posted"]
  /\ clock = 0
  /\ tracker = NoTracker
  /\ evaluation = [e \in Evaluations |-> NoEvaluation]
  /\ boardPaused = FALSE
  /\ autonomy = "running"
  /\ stirs = 0

-----------------------------------------------------------------------------
(* The environment.                                                        *)

PutAgentCopy(a) ==
  /\ agent' = a
  /\ agentFeed' = Append(agentFeed, a)

Stir == Len(agentFeed) <= AgentLag /\ stirs < StirBound /\ stirs' = stirs + 1

\* Progression, the API and an agent's registration write the entity; only a defeat sets a cooldown.
OtherPut(status) ==
  /\ Stir
  /\ CASE status = "idle"     -> TRUE
       [] status = "cooldown" -> agent.status = "on_quest"
       [] status = "on_quest" -> agent.status = "idle"
       [] status = "retired"  -> TRUE
  /\ PutAgentCopy([status |-> status, until |-> IF status = "cooldown" THEN clock + 1 ELSE 0])
  /\ UNCHANGED <<board, clock, tracker, evaluation, boardPaused, autonomy>>

\* Time passes until the last cooldown set is over.
CooldownElapses ==
  /\ agent.until > clock
  /\ clock' = agent.until
  /\ UNCHANGED <<agent, agentFeed, board, tracker, evaluation, boardPaused, autonomy, stirs>>

RivalClaims(q) ==
  /\ Tracked
  /\ board[q] = "posted"
  /\ board' = [board EXCEPT ![q] = "rival"]
  /\ UNCHANGED <<agent, agentFeed, clock, tracker, evaluation, boardPaused, autonomy, stirs>>

TogglePause ==
  /\ Tracked
  /\ Stir
  /\ boardPaused' = ~boardPaused
  /\ UNCHANGED <<agent, agentFeed, board, clock, tracker, evaluation, autonomy>>

-----------------------------------------------------------------------------
(* The tracker.                                                            *)

NewTracker(a) ==
  [copy |-> a, interval |-> IntervalForStatus(a.status),
   timer |-> IF IntervalForStatus(a.status) = 0 THEN "none" ELSE "armed",
   suggestions |-> IF Tracked /\ a.status = "idle" THEN tracker.suggestions ELSE {}]

\* handleAgentUpdate and resetHeartbeatForAgent.
ResetHeartbeatForAgent ==
  /\ autonomy = "running"
  /\ agentFeed # <<>>
  /\ tracker' = NewTracker(Head(agentFeed))
  /\ agentFeed' = Tail(agentFeed)
  /\ UNCHANGED <<agent, board, clock, evaluation, boardPaused, autonomy, stirs>>

Free(e) == evaluation[e].at = "none"

\* Snapshot of the tracker; the callback ends when there is none.
Snapshot(timed) ==
  IF ~Tracked THEN [NoEvaluation EXCEPT !.at = "ended", !.timed = timed]
  ELSE [at |-> "deciding", timed |-> timed, copy |-> tracker.copy,
        list |-> tracker.suggestions, quest |-> {}]

\* A new list for an idle agent undoes its back-off and is evaluated at once.
HandleBoidSuggestion(qs, e) ==
  /\ autonomy = "running"
  /\ Stir
  /\ Tracked /\ tracker.copy.status = "idle"
  /\ Free(e)
  /\ tracker' = [tracker EXCEPT !.suggestions = qs, !.interval = 1,
                                !.timer = IF tracker.interval > 1 THEN "armed" ELSE @]
  /\ evaluation' = [evaluation EXCEPT ![e] = [NoEvaluation EXCEPT !.at = "fired"]]
  /\ UNCHANGED <<agent, agentFeed, board, clock, boardPaused, autonomy>>

Fire(e) ==
  /\ tracker.timer = "armed"
  /\ Len(agentFeed) <= AgentLag
  /\ Free(e)
  /\ tracker' = [tracker EXCEPT !.timer = "expired"]
  /\ evaluation' = [evaluation EXCEPT ![e] = [NoEvaluation EXCEPT !.at = "fired", !.timed = TRUE]]
  /\ UNCHANGED <<agent, agentFeed, board, clock, boardPaused, autonomy, stirs>>

Goto(e, at) == evaluation' = [evaluation EXCEPT ![e].at = at]

\* Mutant: a paused board ends the callback before it arms the timer again.
OnHeartbeatFiredUnlessPaused(e) ==
  /\ evaluation[e].at = "fired"
  /\ LET r == evaluation[e] IN
       IF r.timed /\ (boardPaused \/ autonomy \in {"halted", "stopped"})
       THEN evaluation' = [evaluation EXCEPT ![e] = NoEvaluation]
       ELSE evaluation' = [evaluation EXCEPT ![e] = Snapshot(r.timed)]
  /\ UNCHANGED <<agent, agentFeed, board, clock, tracker, boardPaused, autonomy, stirs>>

\* A callback looks at the flags; an evaluation started by a suggestion does not.
OnHeartbeatFired(e) ==
  /\ evaluation[e].at = "fired"
  /\ LET r == evaluation[e] IN
       IF r.timed /\ autonomy \in {"halted", "stopped"}
       THEN evaluation' = [evaluation EXCEPT ![e] = NoEvaluation]
       ELSE IF r.timed /\ boardPaused THEN Goto(e, "ended")
       ELSE evaluation' = [evaluation EXCEPT ![e] = Snapshot(r.timed)]
  /\ UNCHANGED <<agent, agentFeed, board, clock, tracker, boardPaused, autonomy, stirs>>

\* An idle agent that did nothing is looked at less often.
BackoffHeartbeat(t) ==
  IF t.timer # "absent" /\ t.copy.status = "idle" THEN [t EXCEPT !.interval = 2] ELSE t

Forget(t) == IF t.timer # "absent" THEN [t EXCEPT !.suggestions = {}] ELSE t

\* The copy may be older than the entity, and is put as a whole.
CheckCooldownExpiry(e) ==
  LET a == evaluation[e].copy IN
    /\ evaluation[e].at = "deciding"
    /\ a.status = "cooldown"
    /\ Goto(e, "ended")
    /\ IF clock >= a.until THEN PutAgentCopy([status |-> "idle", until |-> 0])
       ELSE UNCHANGED <<agent, agentFeed>>
    /\ UNCHANGED <<board, clock, tracker, boardPaused, autonomy, stirs>>

\* actionsForState: an idle agent with suggestions claims, others have nothing to do.
EvaluateAutonomy(e) ==
  /\ evaluation[e].at = "deciding"
  /\ evaluation[e].copy.status # "cooldown"
  /\ IF evaluation[e].copy.status = "idle" /\ evaluation[e].list # {}
     THEN Goto(e, "claiming") /\ UNCHANGED tracker
     ELSE /\ Goto(e, "ended")
          /\ tracker' = IF evaluation[e].copy.status = "idle" THEN BackoffHeartbeat(tracker)
                                                              ELSE tracker
  /\ UNCHANGED <<agent, agentFeed, board, clock, boardPaused, autonomy, stirs>>

\* The best suggestion left is read: it is passed over, turned down by the DM, or to be put.
ReadSuggestion(e) ==
  /\ evaluation[e].at = "claiming" /\ evaluation[e].quest = {}
  /\ \/ \E q \in evaluation[e].list :
          IF board[q] = "posted"
          THEN \/ /\ evaluation' = [evaluation EXCEPT ![e].quest = {q}, ![e].list = @ \ {q}]
                  /\ UNCHANGED tracker
               \/ Goto(e, "ended") /\ tracker' = BackoffHeartbeat(tracker)
          ELSE /\ evaluation' = [evaluation EXCEPT ![e].list = @ \ {q}]
               /\ UNCHANGED tracker
     \/ /\ evaluation[e].list = {}
        /\ tracker' = BackoffHeartbeat(Forget(tracker))
        /\ Goto(e, "ended")
  /\ UNCHANGED <<agent, agentFeed, board, clock, boardPaused, autonomy, stirs>>

\* Mutant: the claim is put without compare-and-swap.
ClaimCASBlind(e) ==
  /\ evaluation[e].at = "claiming"
  /\ \E q \in evaluation[e].quest : board' = [board EXCEPT ![q] = "own"]
  /\ Goto(e, "owning")
  /\ UNCHANGED <<agent, agentFeed, clock, tracker, boardPaused, autonomy, stirs>>

\* The compare-and-swap fails when anyone has put the quest since it was read.
ClaimCAS(e) ==
  /\ evaluation[e].at = "claiming"
  /\ \E q \in evaluation[e].quest :
       IF board[q] = "posted"
       THEN board' = [board EXCEPT ![q] = "own"] /\ Goto(e, "owning")
       ELSE UNCHANGED board /\ evaluation' = [evaluation EXCEPT ![e].quest = {}]
  /\ UNCHANGED <<agent, agentFeed, clock, tracker, boardPaused, autonomy, stirs>>

\* The start of the quest, the put of the agent, and an end to the suggestions.
MarkOnQuest(e) ==
  /\ evaluation[e].at = "owning"
  /\ PutAgentCopy([evaluation[e].copy EXCEPT !.status = "on_quest"])
  /\ tracker' = Forget(tracker)
  /\ Goto(e, "ended")
  /\ UNCHANGED <<board, clock, boardPaused, autonomy, stirs>>

\* Arms the timer that is there by now, unless the agent was retired.
Rearm(e) ==
  /\ evaluation[e].at = "ended"
  /\ evaluation' = [evaluation EXCEPT ![e] = NoEvaluation]
  /\ tracker' = IF /\ evaluation[e].timed /\ autonomy \in {"running", "stopping"}
                   /\ Tracked
                THEN [tracker EXCEPT !.timer = IF @ = "none" THEN @ ELSE "armed"]
                ELSE tracker
  /\ UNCHANGED <<agent, agentFeed, board, clock, boardPaused, autonomy, stirs>>

EvaluationStep(e) ==
  \/ OnHeartbeatFired(e)
  \/ CheckCooldownExpiry(e)
  \/ EvaluateAutonomy(e)
  \/ ReadSuggestion(e)
  \/ ClaimCAS(e)
  \/ MarkOnQuest(e)
  \/ Rearm(e)

\* Stop: the watch ends, then the flag is lowered, then the trackers go.
StopAutonomy ==
  /\ Tracked
  /\ \/ autonomy = "running" /\ autonomy' = "stopping" /\ UNCHANGED tracker
     \/ autonomy = "stopping" /\ autonomy' = "halted" /\ UNCHANGED tracker
     \/ autonomy = "halted" /\ autonomy' = "stopped" /\ tracker' = NoTracker
  /\ UNCHANGED <<agent, agentFeed, board, clock, evaluation, boardPaused, stirs>>

HeartbeatNext ==
  \/ \E s \in AgentStatuses : OtherPut(s)
  \/ CooldownElapses
  \/ \E q \in BoardQuests : RivalClaims(q)
  \/ TogglePause
  \/ ResetHeartbeatForAgent
  \/ \E qs \in SUBSET BoardQuests \ {{}}, e \in Evaluations : HandleBoidSuggestion(qs, e)
  \/ \E e \in Evaluations : Fire(e) \/ EvaluationStep(e)
  \/ StopAutonomy

\* Timers fire, goroutines run and their I/O times out, the watch delivers, and time passes.
HeartbeatFairness ==
  /\ WF_hbVars(ResetHeartbeatForAgent)
  /\ WF_hbVars(CooldownElapses)
  /\ WF_hbVars(\E e \in Evaluations : Fire(e) \/ EvaluationStep(e))

HeartbeatSpec == HeartbeatInit /\ [][HeartbeatNext]_hbVars /\ HeartbeatFairness

-----------------------------------------------------------------------------
(* Safety: while the component runs, an agent that is not retired always   *)
(* has an armed timer or a callback that will arm it, whatever watch       *)
(* updates, suggestions and pauses do to the timer in between.             *)
HeartbeatAlive ==
  autonomy = "running" /\ Tracked =>
    \/ tracker.interval = 0
    \/ tracker.timer = "armed"
    \/ \E e \in Evaluations : evaluation[e].timed /\ evaluation[e].at # "none"

(* Action property: the agent never takes a quest from a rival, although   *)
(* it decides on a list, and then on a read, that may be out of date.      *)
RivalsKeepQuests ==
  [][\A q \in BoardQuests : board[q] = "rival" => board'[q] = "rival"]_hbVars

=============================================================================
