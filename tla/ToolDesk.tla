------------------------------ MODULE ToolDesk ------------------------------
(***************************************************************************)
(* questtools: the desk at which the tools of one quest's agentic loop are *)
(* run.  The loop puts its calls on a stream and waits for the result of   *)
(* each; the desk takes one call at a time and acknowledges it at the end, *)
(* so that a call interrupted by a restart comes again.  An explore is an  *)
(* exception: a goroutine starts a second loop, the sub-agent, waits for   *)
(* its completion and answers, long after the call was acknowledged.       *)
(* questbridge reads the completions of both loops.                        *)
(*                                                                         *)
(* The agentic loops themselves are a library: they call tools, wait for   *)
(* results, stop at a result that says so, and publish a completion that   *)
(* carries the TaskID they were given.  A sub-agent makes one call that    *)
(* matters, submit_findings.                                               *)
(***************************************************************************)
EXTENDS Integers, Sequences

CONSTANTS
  CallBound,    \* bound: calls of the loop
  CallKinds,    \* kind of a call -> [shape, tool, claimed]: its envelope, its tool, and the trust
                \* tier in its metadata
  ToolTiers,    \* tool -> least trust tier
  ToolMishaps   \* bound: restarts, failed publications

CallShapes == {"garbled", "foreign", "invalid", "good"}
CallKindNames == DOMAIN CallKinds
ToolCalls == 1 .. CallBound   \* in the order the loop makes them

ASSUME ToolDeskAssumption ==
  /\ CallBound \in Nat
  /\ \A k \in CallKindNames : CallKinds[k].shape \in CallShapes /\ CallKinds[k].claimed \in Int
  /\ ToolMishaps \in Nat

VARIABLES
  callsMade,     \* what kinds of calls the loop has made, in order
  toolStream,    \* calls that are not acknowledged: [call, by] with by "loop" or "subagent"
  atDesk,        \* the call at hand: [at, answer, slow]
  results,       \* result of each call of the loop, as published
  explorers,     \* goroutines of explores
  activeExplore, \* activeExplores: the call whose explore occupies the loop, or 0
  subagents,     \* agentic loops of explores
  questLoop,     \* the quest's own agentic loop
  questLoops,    \* keys in QUEST_LOOPS: 0 for the quest's loop, the call for an explore
  completions,   \* loops whose completion questbridge has not read, keyed likewise
  endedBy,       \* the loop whose completion ended the quest, or -1
  tkMishaps      \* mishaps that are left

tkVars == <<callsMade, toolStream, atDesk, results, explorers, activeExplore, subagents, questLoop,
            questLoops, completions, endedBy, tkMishaps>>

DeskIdle == [at |-> "idle", answer |-> "none", slow |-> FALSE]
ToolResults == {"answer", "stop"}   \* an output or error, or what ends the loop

ToolsTypeOK ==
  /\ callsMade \in Seq(CallKindNames) /\ Len(callsMade) <= CallBound
  /\ \A i \in DOMAIN toolStream : toolStream[i].call \in ToolCalls
  /\ atDesk.at \in {"idle", "execute", "publish", "ack"} /\ atDesk.slow \in BOOLEAN
  /\ results \in [ToolCalls -> ToolResults \cup {"none", "dropped"}]
  /\ explorers \in [ToolCalls -> {"none", "claim", "wait", "answer",
                                  "late", "done", "lost"}]
  /\ activeExplore \in ToolCalls \cup {0}
  /\ subagents \in [ToolCalls -> {"none", "working", "reporting", "ended"}]
  /\ questLoop \in {"running", "ended"}
  /\ questLoops \subseteq ToolCalls \cup {0} /\ completions \subseteq ToolCalls \cup {0}
  /\ endedBy \in ToolCalls \cup {0, -1}
  /\ tkMishaps \in 0 .. ToolMishaps

ToolsInit ==
  /\ callsMade = <<>> /\ toolStream = <<>> /\ atDesk = DeskIdle
  /\ results = [c \in ToolCalls |-> "none"]
  /\ explorers = [c \in ToolCalls |-> "none"] /\ activeExplore = 0
  /\ subagents = [c \in ToolCalls |-> "none"] /\ questLoop = "running"
  /\ questLoops = {0} /\ completions = {} /\ endedBy = -1
  /\ tkMishaps = ToolMishaps

exploreVars == <<explorers, activeExplore>>
bridgeVars == <<questLoops, completions, endedBy>>
loopVars == <<callsMade, questLoop>>

ToolMishap == tkMishaps > 0 /\ tkMishaps' = tkMishaps - 1

-----------------------------------------------------------------------------
(* The agentic loops.                                                      *)

LoopStopped == \E c \in ToolCalls : results[c] = "stop"
WaitingFor == {c \in DOMAIN callsMade : results[c] \notin ToolResults}

\* One turn may make several calls at once.
CallTool(k) ==
  /\ questLoop = "running" /\ ~LoopStopped
  /\ Len(callsMade) < CallBound
  /\ callsMade' = Append(callsMade, k)
  /\ toolStream' = Append(toolStream, [call |-> Len(callsMade) + 1, by |-> "loop"])
  /\ UNCHANGED <<atDesk, results, exploreVars, subagents, questLoop, bridgeVars, tkMishaps>>

LoopEnds ==
  /\ questLoop = "running" /\ WaitingFor = {}
  /\ questLoop' = "ended"
  /\ completions' = completions \cup {0}
  /\ UNCHANGED <<callsMade, toolStream, atDesk, results, exploreVars, subagents, questLoops,
                 endedBy, tkMishaps>>

\* The sub-agent calls submit_findings, or gives up.
SubagentReports(c) ==
  /\ subagents[c] = "working"
  /\ subagents' = [subagents EXCEPT ![c] = "reporting"]
  /\ toolStream' = Append(toolStream, [call |-> c, by |-> "subagent"])
  /\ UNCHANGED <<loopVars, atDesk, results, exploreVars, bridgeVars, tkMishaps>>

SubagentFails(c) ==
  /\ subagents[c] = "working"
  /\ subagents' = [subagents EXCEPT ![c] = "ended"]
  /\ completions' = completions \cup {c}
  /\ UNCHANGED <<loopVars, toolStream, atDesk, results, exploreVars, questLoops, endedBy,
                 tkMishaps>>

-----------------------------------------------------------------------------
(* The desk.                                                               *)

\* A trust tier that is none makes the caller an apprentice.
CallerTier(claimed) == IF claimed \in 0 .. 4 THEN claimed ELSE 0

LeadTools == {"decompose_quest", "review_sub_quest", "answer_clarification"}
TerminalTools == {"submit_work", "ask_clarification", "submit_findings"}

\* What a tool may answer: a lead's tools stop the loop even when they refuse their arguments,
\* the other terminal tools only with what they accept (no question for finished work).
ToolAnswers(tool) ==
  IF tool \in LeadTools THEN {"stop"}
  ELSE IF tool \in TerminalTools THEN {"stop", "answer"} ELSE {"answer"}

\* The registry knows the tool and asks for its tier; else the answer is an error.
ExecuteGated(k) ==
  IF CallKinds[k].tool \in DOMAIN ToolTiers
     /\ CallerTier(CallKinds[k].claimed) >= ToolTiers[CallKinds[k].tool]
  THEN ToolAnswers(CallKinds[k].tool) ELSE {"answer"}

ToPublish(result) == [at |-> "publish", answer |-> result, slow |-> FALSE]
ToAck == [DeskIdle EXCEPT !.at = "ack"]

IsExplore(k) == CallKinds[k].shape = "good" /\ CallKinds[k].tool = "explore"

\* Where the handler goes from the envelope: a call that cannot be read is answered with the
\* error, one with an unexpected payload is not answered, an explore gets a goroutine.
Opened(k) ==
  CASE CallKinds[k].shape = "foreign" -> ToAck
    [] CallKinds[k].shape \in {"garbled", "invalid"} -> ToPublish("answer")
    [] IsExplore(k) -> ToAck
    [] OTHER -> [DeskIdle EXCEPT !.at = "execute"]

HandleToolExecute ==
  LET item == Head(toolStream)
      k == callsMade[item.call]
  IN  /\ atDesk.at = "idle" /\ toolStream # <<>>
      /\ atDesk' = IF item.by = "subagent" THEN ToPublish("stop") ELSE Opened(k)
      /\ explorers' = IF item.by = "loop" /\ IsExplore(k)
                      THEN [explorers EXCEPT ![item.call] = "claim"] ELSE explorers
      /\ UNCHANGED <<loopVars, toolStream, results, activeExplore, subagents, bridgeVars,
                     tkMishaps>>

\* The registry runs the tool, which may use up the time the message has.
ExecuteTool ==
  LET item == Head(toolStream)
  IN  /\ atDesk.at = "execute"
      /\ \E answer \in ExecuteGated(callsMade[item.call]), slow \in BOOLEAN :
           atDesk' = [at |-> "publish", answer |-> answer, slow |-> slow]
      /\ UNCHANGED <<loopVars, toolStream, results, exploreVars, subagents, bridgeVars, tkMishaps>>

GiveResult(c, answer) ==
  results' = [results EXCEPT ![c] = IF @ \in ToolResults THEN @ ELSE answer]

\* The loop of a sub-agent that has its result ends with it.
Delivered(item, answer) ==
  IF item.by = "loop" THEN GiveResult(item.call, answer) /\ UNCHANGED <<subagents, completions>>
  ELSE /\ subagents' = [subagents EXCEPT ![item.call] = "ended"]
       /\ completions' = completions \cup {item.call}
       /\ UNCHANGED results

\* Mutant: the result is published in what is left of the message's time.
PublishResultInTime ==
  LET item == Head(toolStream)
  IN  /\ atDesk.at = "publish"
      /\ atDesk' = [atDesk EXCEPT !.at = "ack"]
      /\ IF atDesk.slow THEN UNCHANGED <<results, subagents, completions, tkMishaps>>
         ELSE Delivered(item, atDesk.answer) /\ UNCHANGED tkMishaps
      /\ UNCHANGED <<loopVars, toolStream, exploreVars, questLoops, endedBy>>

\* A result is published on a time of its own; a publication that fails is only logged.
PublishResult ==
  LET item == Head(toolStream)
  IN  /\ atDesk.at = "publish"
      /\ atDesk' = [atDesk EXCEPT !.at = "ack"]
      /\ \/ Delivered(item, atDesk.answer) /\ UNCHANGED tkMishaps
         \/ /\ ToolMishap /\ item.by = "loop" /\ GiveResult(item.call, "dropped")
            /\ UNCHANGED <<subagents, completions>>
      /\ UNCHANGED <<loopVars, toolStream, exploreVars, questLoops, endedBy>>

AckCall ==
  /\ atDesk.at = "ack"
  /\ atDesk' = DeskIdle
  /\ toolStream' = Tail(toolStream)
  /\ UNCHANGED <<loopVars, results, exploreVars, subagents, bridgeVars, tkMishaps>>

-----------------------------------------------------------------------------
(* Explores.                                                               *)

Explorer(c, from, to) ==
  /\ explorers[c] = from
  /\ explorers' = [explorers EXCEPT ![c] = to]

\* The mapping is stored under the sub-agent's loop; a failure is only logged.
RegisterExplore(c) ==
  \/ questLoops' = questLoops \cup {c} /\ UNCHANGED tkMishaps
  \/ ToolMishap /\ UNCHANGED questLoops

\* An explore wants a goal, and the loop to itself; then a task is published, with the quest
\* as its TaskID, and when that fails all is taken back.
HandleExplore(c) ==
  /\ \/ /\ Explorer(c, "claim", "answer")
        /\ UNCHANGED <<activeExplore, subagents, questLoops, tkMishaps>>
     \/ /\ activeExplore = 0
        /\ \/ /\ Explorer(c, "claim", "wait")
              /\ RegisterExplore(c)
              /\ activeExplore' = c
              /\ subagents' = [subagents EXCEPT ![c] = "working"]
           \/ /\ ToolMishap /\ Explorer(c, "claim", "answer")
              /\ UNCHANGED <<activeExplore, subagents, questLoops>>
  /\ UNCHANGED <<loopVars, toolStream, atDesk, results, completions, endedBy>>

\* The completion of the sub-agent becomes the result.
HearSubagent(c) ==
  /\ subagents[c] = "ended"
  /\ Explorer(c, "wait", "answer")
  /\ activeExplore' = 0 /\ questLoops' = questLoops \ {c}
  /\ UNCHANGED <<loopVars, toolStream, atDesk, results, subagents, completions, endedBy, tkMishaps>>

\* The time of an explore runs out (while the sub-agent works: what follows takes none); the
\* context that ran out is also that of the clean-up, which fails.
ExploreTimesOut(c) ==
  /\ subagents[c] = "working"
  /\ Explorer(c, "wait", "late")
  /\ activeExplore' = 0
  /\ UNCHANGED <<loopVars, toolStream, atDesk, results, subagents, bridgeVars, tkMishaps>>

\* The result is published in what is left of the explore's time: after a timeout, nothing.
AnswerExplore(c) ==
  /\ \/ /\ Explorer(c, "answer", "done")
        /\ \/ GiveResult(c, "answer") /\ UNCHANGED tkMishaps
           \/ ToolMishap /\ GiveResult(c, "dropped")
     \/ Explorer(c, "late", "lost") /\ UNCHANGED <<results, tkMishaps>>
  /\ UNCHANGED <<loopVars, toolStream, atDesk, activeExplore, subagents, bridgeVars>>

\* Stop cancels the explores and waits for them; their mappings stay.  What the desk had in
\* hand comes again.  (Not while an explore whose call is not acknowledged is on its way.)
RestartTools ==
  /\ ToolMishap
  /\ atDesk.at = "ack" => explorers[Head(toolStream).call] \in {"none", "claim"}
  /\ atDesk' = DeskIdle
  /\ explorers' = [c \in ToolCalls |-> CASE explorers[c] \in {"none", "done"} -> explorers[c]
                                         [] OTHER -> "lost"]
  /\ activeExplore' = 0
  /\ UNCHANGED <<loopVars, toolStream, results, subagents, bridgeVars>>

-----------------------------------------------------------------------------
(* questbridge, reading a completion.                                      *)

\* The mapping under the TaskID comes first, and all of these loops have the quest's.
FindMapping(l) == IF 0 \in questLoops THEN 0 ELSE IF l \in questLoops THEN l ELSE -1

HandleLoopCompleted(l) ==
  /\ l \in completions
  /\ completions' = completions \ {l}
  /\ questLoops' = questLoops \ {FindMapping(l)}
  /\ endedBy' = IF FindMapping(l) = 0 THEN l ELSE endedBy
  /\ UNCHANGED <<loopVars, toolStream, atDesk, results, exploreVars, subagents, tkMishaps>>

ToolsNext ==
  \/ \E k \in CallKindNames : CallTool(k)
  \/ LoopEnds
  \/ \E c \in ToolCalls : SubagentReports(c) \/ SubagentFails(c)
  \/ HandleToolExecute \/ ExecuteTool \/ PublishResult \/ AckCall
  \/ \E c \in ToolCalls : HandleExplore(c) \/ HearSubagent(c)
  \/ \E c \in ToolCalls : ExploreTimesOut(c) \/ AnswerExplore(c)
  \/ RestartTools
  \/ \E l \in ToolCalls \cup {0} : HandleLoopCompleted(l)

-----------------------------------------------------------------------------
(* Safety: whatever a tool's time, an error or a restart does to it, when  *)
(* the desk and the explores are through, every call has been answered,    *)
(* but those with a foreign payload, those whose publication failed, and   *)
(* explores cut short by their timeout or a restart.  The loop waits for   *)
(* such an answer for ever.                                                *)
CallsAnswered ==
  toolStream = <<>> /\ (\A c \in ToolCalls : explorers[c] \in {"none", "done", "lost"}) =>
    \A c \in WaitingFor :
      explorers[c] = "lost" \/ CallKinds[callsMade[c]].shape = "foreign" \/ results[c] = "dropped"

\* Safety, as the comment on the mapping has it (questbridge "skips explore loop completions"):
\* the quest is ended by the completion of its own loop only.
ExploresLeaveQuest == endedBy \in {0, -1}
=============================================================================
