------------------------------ MODULE DagExec ------------------------------
(***************************************************************************)
(* processor/questdagexec: executes a decomposed party quest.  One event   *)
(* loop owns the DAG's state and takes events from one channel: quest      *)
(* updates from a KV watch, results of the lead's review, clarification    *)
(* and synthesis loops from a stream, and timeouts from a sweep.  It       *)
(* starts the sub-quests whose dependencies are completed, retries or      *)
(* triages those that fail, and submits or escalates the parent quest.     *)
(*                                                                         *)
(* A handler changes the state in memory at once; the puts it makes are    *)
(* steps of their own, in todo, so that members, operators and a crash may *)
(* come between them.                                                      *)
(*                                                                         *)
(* One DAG execution is modelled.  Not modelled: agent entities (a member  *)
(* is not marked busy by a party sub-quest), prompts, review entities, the *)
(* lists of completed and failed nodes (they feed only metrics),           *)
(* AssignTask's record in the party, conflicts of the compare-and-swap     *)
(* that persists the state (it is retried).                                *)
(***************************************************************************)
EXTENDS Naturals, Sequences, FiniteSets, SequencesExt

CONSTANTS
  NodeCount,          \* nodes are 1 .. NodeCount, in the order of the DAG definition
  DependsOn,          \* [Nodes -> SUBSET Nodes]
  Members,            \* the party without its lead
  Fit,                \* [Nodes -> [Members -> Nat]], scoreSkillOverlap
  None,               \* no agent, or no DAG
  Reviewed,           \* nodes whose sub-quests were posted with RequireReview
  Unclear,            \* bound: nodes whose member may ask a question
  Settings,           \* initial values of setting
  LagBound,           \* bound: events waiting when members or operators act
  SalvageBound,       \* bound: times the DM grants a sub-quest one more attempt
  MishapBound         \* bound: mishaps

Nodes == 1 .. NodeCount

Faults == {"none", "publish", "duplicate", "crash", "operator"}

\* QuestDAG.Validate: known dependencies and no cycle.
Validate(deps) ==
  /\ \A n \in Nodes : deps[n] \subseteq Nodes \ {n}
  /\ \E depth \in [Nodes -> Nodes] : \A n \in Nodes : \A d \in deps[n] : depth[d] < depth[n]

ASSUME DagAssumption ==
  /\ NodeCount \in Nat \ {0}
  /\ DependsOn \in [Nodes -> SUBSET Nodes]
  /\ Validate(DependsOn)
  /\ None \notin Members
  /\ Fit \in [Nodes -> [Members -> Nat]]
  /\ Reviewed \subseteq Nodes /\ Unclear \subseteq Nodes
  /\ {LagBound, SalvageBound, MishapBound} \subseteq Nat
  /\ Settings \subseteq [fault : Faults, triage : BOOLEAN, retries : Nat]

VARIABLES
  parent,        \* status of the parent quest
  saved,         \* DAG state stored on the parent entity
  sub,           \* sub-quest entities
  feed,          \* puts of sub-quests the watch has yet to deliver
  fresh,         \* the parent's entry with the new DAG is in the channel
  dag,           \* dagCache: the state in memory, or None
  questCache,    \* statuses of sub-quests the loop has seen
  reviewRetries, \* nodes whose review was dispatched again
  todo,          \* what the current handler still has to do
  party,         \* partycoord.activeParties holds the party
  rollup,        \* the parent as it was read to add the metrics, or None
  leads,         \* review and clarification loops of the lead
  synthesis,     \* synthesis loops of the lead
  cancel,        \* of an operator's cancel: the "event" and the "put" still under way
  setting,       \* fault: the kind of mishap that may happen; triage and retries: from the config
  mishaps

entities == <<parent, saved, sub, feed>>
memory == <<fresh, dag, questCache, reviewRetries, todo, party, rollup>>
loops == <<leads, synthesis>>
around == <<cancel, setting, mishaps>>
vars == <<entities, memory, loops, around>>

QuestStatuses == {"posted", "in_progress", "in_review", "completed", "failed",
                  "escalated", "pending_triage"}

NodeStates == {"pending", "ready", "assigned", "in_progress", "pending_review",
               "awaiting_clarification", "pending_triage", "completed", "failed"}

\* salvages: what triage added to MaxAttempts.  defeat: FailureType is boss_defeat.
SubQuest ==
  [status : QuestStatuses, holder : Members \cup {None}, attempts : Nat,
   salvages : Nat, defeat : BOOLEAN]

\* The event carries the whole entity; only these fields are looked at.
Event == [node : Nodes, status : QuestStatuses, defeat : BOOLEAN]

DAGExecutionState ==
  [state : [Nodes -> NodeStates], assignee : [Nodes -> Members \cup {None}],
   retries : [Nodes -> Nat]]

\* The parent as aggregateMetricsToParent holds it.
ParentCopy == [parent : QuestStatuses, saved : DAGExecutionState \cup {None}]

\* No agent and no DAG is no DAG.
ASSUME NoneAssumption == None \notin DAGExecutionState /\ None \notin ParentCopy

LeadLoops == [kind : {"review", "clarify"}, node : Nodes]

\* Steps of handlers; node is the node they are about.
Ops == {"assign", "repost", "triage", "cleanup", "escalate", "tally", "metrics", "submit",
        "persist", "forget"}
Do(op, n) == [op |-> op, node |-> n]

-----------------------------------------------------------------------------
(* Operators on the DAG state.                                             *)

\* DAGReadyNodes and promoteReadyNodes: pending nodes whose dependencies are completed.
Promote(d) ==
  [d EXCEPT !.state = [n \in Nodes |->
     IF d.state[n] = "pending" /\ \A p \in DependsOn[n] : d.state[p] = "completed"
     THEN "ready" ELSE d.state[n]]]

\* dagStateFromQuest for a quest that was just decomposed.
Seed ==
  Promote([state |-> [n \in Nodes |-> "pending"], assignee |-> [n \in Nodes |-> None],
           retries |-> [n \in Nodes |-> setting.retries]])

SetNode(d, n, s) == [d EXCEPT !.state[n] = s]

\* The node waits for a member again.
Reopen(d, n) == Promote([d EXCEPT !.state[n] = "pending", !.assignee[n] = None])

\* Mutant: nodes that have not started are not counted.
IsDAGCompleteSoFar(d) == \A n \in Nodes : d.state[n] \in {"completed", "pending"}

IsDAGComplete(d) == \A n \in Nodes : d.state[n] = "completed"

\* Members on nodes that are neither completed nor failed.
AlreadyAssigned(d) ==
  {d.assignee[n] : n \in {k \in Nodes : d.state[k] \notin {"completed", "failed"}}}

\* The ready node that comes first in the DAG definition, and who may take it.
FirstReady(d) ==
  CHOOSE n \in Nodes : d.state[n] = "ready" /\ \A k \in 1 .. n - 1 : d.state[k] # "ready"

\* Mutant: members of unfinished nodes are free as well.
SelectMemberBusy(d, n) ==
  {m \in Members : \A k \in Members : Fit[n][k] <= Fit[n][m]}

SelectMember(d, n) ==
  LET free == Members \ AlreadyAssigned(d)
  IN  {m \in free : \A k \in free : Fit[n][k] <= Fit[n][m]}

-----------------------------------------------------------------------------
Init ==
  /\ parent = "in_progress"
  /\ sub = [n \in Nodes |-> [status |-> "posted", holder |-> None, attempts |-> 0,
                             salvages |-> 0, defeat |-> FALSE]]
  /\ feed = <<>>
  /\ fresh = TRUE
  /\ dag = None
  /\ questCache = [n \in Nodes |-> "posted"]
  /\ reviewRetries = {}
  /\ todo = <<>>
  /\ party = TRUE
  /\ rollup = None
  /\ leads = [l \in LeadLoops |-> 0]
  /\ synthesis = 0
  /\ cancel = {}
  /\ setting \in Settings
  /\ saved = Seed
  /\ mishaps = 0

\* EmitEntityUpdate of a sub-quest: the watch will deliver it.
EmitSubQuest(n, rec) ==
  /\ sub' = [sub EXCEPT ![n] = rec]
  /\ feed' = Append(feed, [node |-> n, status |-> rec.status, defeat |-> rec.defeat])

Idle == todo = <<>>

\* The step of the current handler that comes next.
Doing(op) == ~Idle /\ Head(todo).op = op

Calm == setting.fault = "none"

\* Mishaps of one kind: publishing fails, the stream delivers twice, the process crashes, an
\* operator or another sweep steps in.
Mishap(kind) ==
  /\ setting.fault = kind /\ mishaps < MishapBound
  /\ mishaps' = mishaps + 1

\* Publishing a task for the lead, which fails only by mishap.
Dispatch(kind, n) ==
  \/ /\ leads' = [leads EXCEPT ![[kind |-> kind, node |-> n]] = @ + 1]
     /\ UNCHANGED mishaps
  \/ /\ Mishap("publish")
     /\ UNCHANGED leads

\* The lead is to judge the work of a member, or to answer a question.
DispatchLeadReview(n) == Dispatch("review", n)
DispatchLeadClarification(n) == Dispatch("clarify", n)

\* The metrics of the sub-quests are put on the parent before the result is submitted.
RollupSteps(n) == <<Do("tally", n), Do("submit", n)>>

EscalateSteps(n) == <<Do("cleanup", n), Do("escalate", n)>>

\* The lead is asked to combine the results; if that cannot be published they are submitted as
\* they are (the state is persisted last there, but the order of the two makes no difference).
DispatchLeadSynthesis(n) ==
  \/ /\ synthesis' = synthesis + 1
     /\ todo' = <<Do("persist", n)>>
     /\ UNCHANGED mishaps
  \/ /\ Mishap("publish")
     /\ todo' = RollupSteps(n) \o <<Do("persist", n), Do("forget", n)>>
     /\ UNCHANGED synthesis

-----------------------------------------------------------------------------
(* The event loop: handlers of events.                                     *)

\* A failed node is tried again, handed to triage, or fails the whole DAG.
HandleNodeFailed(d, n) ==
  IF d.retries[n] > 0
  THEN /\ dag' = Reopen([d EXCEPT !.retries[n] = @ - 1], n)
       /\ todo' = <<Do("repost", n), Do("assign", n), Do("persist", n)>>
  ELSE /\ dag' = SetNode(d, n, IF setting.triage THEN "pending_triage" ELSE "failed")
       /\ todo' = IF setting.triage THEN <<Do("triage", n), Do("persist", n)>>
                  ELSE Append(EscalateSteps(n), Do("persist", n))

\* Triage gave the node up.
HandleTriageTerminal(d, n) ==
  /\ dag' = SetNode(d, n, "failed")
  /\ todo' = Append(EscalateSteps(n), Do("persist", n))

\* The DAG on the parent's entry is indexed and its first nodes are assigned.
OnDAGEntry ==
  /\ Idle /\ fresh
  /\ fresh' = FALSE
  /\ dag' = Seed
  /\ todo' = <<Do("assign", 1), Do("persist", 1)>>
  /\ UNCHANGED <<entities, questCache, reviewRetries, party, rollup, loops, around>>

\* Mutant: the next nodes are not assigned when one completes.
HandleNodeCompletedAlone(d, n) ==
  LET done == SetNode(d, n, "completed")
  IN  IF IsDAGComplete(done)
      THEN /\ dag' = done
           /\ DispatchLeadSynthesis(n)
      ELSE /\ dag' = Promote(done)
           /\ todo' = <<Do("persist", n)>>
           /\ UNCHANGED <<synthesis, mishaps>>

\* The last node leads to the synthesis, any other to the nodes that waited for it.
HandleNodeCompleted(d, n) ==
  LET done == SetNode(d, n, "completed")
  IN  IF IsDAGComplete(done)
      THEN /\ dag' = done
           /\ DispatchLeadSynthesis(n)
      ELSE /\ dag' = Promote(done)
           /\ todo' = <<Do("assign", n), Do("persist", n)>>
           /\ UNCHANGED <<synthesis, mishaps>>

Becomes(d, n, s) ==
  /\ dag' = SetNode(d, n, s)
  /\ todo' = <<Do("persist", n)>>

\* handleSubQuestTransition, for the node n of a cached DAG.
HandleSubQuestTransition(e) ==
  LET n == e.node
      triaging == dag.state[n] = "pending_triage"
  IN
  \/ /\ e.status = "in_progress"
     /\ Becomes(dag, n, "in_progress")
     /\ UNCHANGED <<loops, mishaps>>
  \/ /\ e.status = "in_review"
     /\ Becomes(dag, n, "pending_review")
     /\ DispatchLeadReview(n)
     /\ UNCHANGED synthesis
  \/ /\ e.status = "completed"
     /\ HandleNodeCompleted(dag, n)
     /\ UNCHANGED leads
  \/ /\ e.status = "failed" /\ ~triaging
     /\ IF e.defeat THEN Becomes(dag, n, "failed") ELSE HandleNodeFailed(dag, n)
     /\ UNCHANGED <<loops, mishaps>>
  \/ /\ e.status \in {"failed", "escalated"} /\ triaging
     /\ HandleTriageTerminal(dag, n)
     /\ UNCHANGED <<loops, mishaps>>
  \/ /\ e.status = "escalated" /\ ~triaging
     /\ Becomes(dag, n, "awaiting_clarification")
     /\ DispatchLeadClarification(n)
     /\ UNCHANGED synthesis
  \/ /\ e.status = "pending_triage"
     /\ Becomes(dag, n, "pending_triage")
     /\ UNCHANGED <<loops, mishaps>>
  \/ /\ e.status = "posted" /\ triaging            \* handleTriageRepost
     /\ dag' = Reopen(dag, n)
     /\ todo' = <<Do("assign", n), Do("persist", n)>>
     /\ UNCHANGED <<loops, mishaps>>
  \/ /\ e.status = "posted" /\ ~triaging
     /\ todo' = <<Do("persist", n)>>
     /\ UNCHANGED <<dag, loops, mishaps>>

\* Mutant: the status is read from the sub-quest, which may be ahead of the event.
OnSubQuestTransitionAhead ==
  /\ Idle /\ ~fresh /\ feed # <<>>
  /\ LET e == Head(feed) IN
     /\ questCache' = [questCache EXCEPT ![e.node] = sub[e.node].status]
     /\ IF questCache[e.node] = e.status \/ dag = None
        THEN UNCHANGED <<dag, todo, loops, mishaps>>
        ELSE HandleSubQuestTransition(e)
  /\ feed' = Tail(feed)
  /\ UNCHANGED <<parent, saved, sub, fresh, reviewRetries, party, rollup, cancel, setting>>

\* A status the loop has seen last is no transition, and without its DAG it is nobody's.
OnSubQuestTransition ==
  /\ Idle /\ ~fresh /\ feed # <<>>
  /\ LET e == Head(feed) IN
     /\ questCache' = [questCache EXCEPT ![e.node] = e.status]
     /\ IF questCache[e.node] = e.status \/ dag = None
        THEN UNCHANGED <<dag, todo, loops, mishaps>>
        ELSE HandleSubQuestTransition(e)
  /\ feed' = Tail(feed)
  /\ UNCHANGED <<parent, saved, sub, fresh, reviewRetries, party, rollup, cancel, setting>>

\* A result of a lead's loop comes from the stream; by mishap it comes once more later.
Result(kind, n) ==
  LET l == [kind |-> kind, node |-> n] IN
  /\ Idle /\ leads[l] > 0
  /\ \/ /\ leads' = [leads EXCEPT ![l] = @ - 1]
        /\ UNCHANGED mishaps
     \/ /\ Mishap("duplicate")
        /\ UNCHANGED leads

DropResult(kind, n) ==
  /\ dag = None
  /\ Result(kind, n)
  /\ UNCHANGED <<entities, memory, synthesis, cancel, setting>>

\* The verdict is put on the sub-quest whatever its status is by now.
OnReviewCompleted(n) ==
  /\ dag # None
  /\ Result("review", n)
  /\ \E verdict \in {"completed", "failed"} :
       EmitSubQuest(n, [sub[n] EXCEPT !.status = verdict])
  /\ UNCHANGED <<parent, saved, memory, synthesis, cancel, setting>>

\* The first failure of a node's review is answered by another loop; by mishap its task is
\* not published, or the failure comes once more.  The second fails the node.
OnReviewFailed(n) ==
  LET l == [kind |-> "review", node |-> n] IN
  /\ dag # None
  /\ \/ /\ n \notin reviewRetries
        /\ Idle /\ leads[l] > 0
        /\ reviewRetries' = reviewRetries \cup {n}
        /\ \/ UNCHANGED <<leads, mishaps>>
           \/ Mishap("publish") /\ leads' = [leads EXCEPT ![l] = @ - 1]
           \/ Mishap("duplicate") /\ leads' = [leads EXCEPT ![l] = @ + 1]
        /\ UNCHANGED <<dag, todo>>
     \/ /\ n \in reviewRetries
        /\ Result("review", n)
        /\ HandleNodeFailed(dag, n)
        /\ UNCHANGED reviewRetries
  /\ UNCHANGED <<entities, fresh, questCache, party, rollup, synthesis, cancel, setting>>

\* The answer resumes the sub-quest, whatever its status is by now.
OnClarificationAnswered(n) ==
  /\ dag # None
  /\ Result("clarify", n)
  /\ EmitSubQuest(n, [sub[n] EXCEPT !.status = "in_progress"])
  /\ Becomes(dag, n, "assigned")
  /\ UNCHANGED <<parent, saved, fresh, questCache, reviewRetries, party, rollup, synthesis, cancel,
                 setting>>

\* Without an answer only the state in memory changes.
OnClarificationFailed(n) ==
  /\ dag # None
  /\ Mishap("publish")
  /\ Idle /\ leads[[kind |-> "clarify", node |-> n]] > 0
  /\ leads' = [leads EXCEPT ![[kind |-> "clarify", node |-> n]] = @ - 1]
  /\ Becomes(dag, n, "assigned")
  /\ UNCHANGED <<entities, fresh, questCache, reviewRetries, party, rollup, synthesis, cancel,
                 setting>>

\* The lead's synthesis, or the plain results if its loop failed, are submitted.
OnSynthesisEnded ==
  /\ Idle /\ synthesis > 0
  /\ \/ /\ synthesis' = synthesis - 1
        /\ UNCHANGED mishaps
     \/ /\ Mishap("duplicate")
        /\ UNCHANGED synthesis
  /\ todo' = IF dag = None THEN <<>> ELSE Append(RollupSteps(1), Do("forget", 1))
  /\ UNCHANGED <<entities, fresh, dag, questCache, reviewRetries, party, rollup, leads, cancel,
                 setting>>

GiveUpDag == Append(EscalateSteps(1), Do("forget", 1))

\* sweepStaleDags and onDAGTimedOut: a calm DAG is done before its timeout.
OnDAGTimedOut ==
  /\ ~Calm
  /\ Idle /\ dag # None
  /\ todo' = GiveUpDag
  /\ UNCHANGED <<entities, fresh, dag, questCache, reviewRetries, party, rollup, loops, around>>

\* CancelDAGForQuest sent the same event.
OnDAGCancelled ==
  /\ Idle /\ "event" \in cancel
  /\ cancel' = cancel \ {"event"}
  /\ todo' = IF dag = None THEN <<>> ELSE GiveUpDag
  /\ UNCHANGED <<entities, fresh, dag, questCache, reviewRetries, party, rollup, loops, setting,
                 mishaps>>
-----------------------------------------------------------------------------
(* The event loop: puts of the current handler.                            *)

\* ClaimAndStartForParty refuses a sub-quest that is not posted or has open dependencies.
Claimable(n) ==
  /\ sub[n].status = "posted"
  /\ \A p \in DependsOn[n] : sub[p].status = "completed"

\* AssignReadyNodes: one ready node after the other, until there is none, no free member, or
\* a claim is refused.
Assign ==
  LET ready == {n \in Nodes : dag.state[n] = "ready"}
      n == FirstReady(dag)
      able == party /\ ready # {} /\ SelectMember(dag, n) # {} /\ Claimable(n)
  IN
  /\ Doing("assign")
  /\ \/ /\ able
        /\ \E m \in SelectMember(dag, n) :
             /\ EmitSubQuest(n, [sub[n] EXCEPT !.status = "in_progress", !.holder = m,
                                               !.attempts = @ + 1])
             /\ dag' = [dag EXCEPT !.state[n] = "assigned", !.assignee[n] = m]
        /\ UNCHANGED todo
     \/ /\ ~able
        /\ todo' = Tail(todo)
        /\ UNCHANGED <<sub, feed, dag>>
  /\ UNCHANGED <<parent, saved, fresh, questCache, reviewRetries, party, rollup, loops, around>>

\* RepostForRetry, whatever the status of the sub-quest.
Repost ==
  /\ Doing("repost")
  /\ LET n == Head(todo).node IN
       EmitSubQuest(n, [sub[n] EXCEPT !.status = "posted", !.holder = None])
  /\ todo' = Tail(todo)
  /\ UNCHANGED <<parent, saved, fresh, dag, questCache, reviewRetries, party, rollup, loops,
                 around>>

\* routeNodeToTriage; by mishap the put fails and the parent is escalated instead.
RouteNodeToTriage ==
  /\ Doing("triage")
  /\ LET n == Head(todo).node IN
     \/ /\ EmitSubQuest(n, [sub[n] EXCEPT !.status = "pending_triage"])
        /\ todo' = Tail(todo)
        /\ UNCHANGED <<dag, mishaps>>
     \/ /\ Mishap("publish")
        /\ HandleTriageTerminal(dag, n)            \* fallbackToEscalate
        /\ UNCHANGED <<sub, feed>>
  /\ UNCHANGED <<parent, saved, fresh, questCache, reviewRetries, party, rollup, loops, cancel,
                 setting>>

\* cleanupDAGSubQuests: every node that is not finished or in triage fails, one by one;
\* FailQuest refuses the sub-quests that are neither running nor in review.
Cleanup ==
  LET open == {n \in Nodes : dag.state[n] \notin {"completed", "failed", "pending_triage"}}
  IN
  /\ Doing("cleanup")
  /\ \/ \E n \in open :
          /\ dag' = SetNode(dag, n, "failed")
          /\ IF sub[n].status \in {"in_progress", "in_review"}
             THEN EmitSubQuest(n, [sub[n] EXCEPT !.status = "failed", !.defeat = FALSE])
             ELSE UNCHANGED <<sub, feed>>
          /\ UNCHANGED todo
     \/ /\ open = {}
        /\ todo' = Tail(todo)
        /\ UNCHANGED <<sub, feed, dag>>
  /\ UNCHANGED <<parent, saved, fresh, questCache, reviewRetries, party, rollup, loops, around>>

\* EscalateQuest of the parent refuses a completed or escalated quest.
EscalateParent ==
  /\ Doing("escalate")
  /\ parent' = IF parent \in {"completed", "escalated"} THEN parent ELSE "escalated"
  /\ todo' = Tail(todo)
  /\ UNCHANGED <<saved, sub, feed, fresh, dag, questCache, reviewRetries, party, rollup, loops,
                 around>>

\* aggregateMetricsToParent reads the parent, unless nothing was counted,
ReadForMetrics ==
  /\ Doing("tally")
  /\ \/ /\ rollup' = [parent |-> parent, saved |-> saved]
        /\ todo' = <<Do("metrics", 1)>> \o Tail(todo)
     \/ /\ todo' = Tail(todo)
        /\ UNCHANGED rollup
  /\ UNCHANGED <<entities, fresh, dag, questCache, reviewRetries, party, loops, around>>

\* and puts what it read over whatever the parent has become.
PutMetrics ==
  /\ Doing("metrics")
  /\ parent' = rollup.parent /\ saved' = rollup.saved
  /\ rollup' = None
  /\ todo' = Tail(todo)
  /\ UNCHANGED <<sub, feed, fresh, dag, questCache, reviewRetries, party, loops, around>>

\* SubmitResult of the parent refuses a quest that is not in progress.
SubmitResult ==
  /\ Doing("submit")
  /\ \/ /\ parent = "in_progress"
        /\ parent' \in {"in_review", "completed"}
     \/ /\ parent # "in_progress"
        /\ UNCHANGED parent
  /\ todo' = Tail(todo)
  /\ UNCHANGED <<saved, sub, feed, fresh, dag, questCache, reviewRetries, party, rollup, loops,
                 around>>

PersistDAGState ==
  /\ Doing("persist")
  /\ saved' = dag
  /\ todo' = Tail(todo)
  /\ UNCHANGED <<parent, sub, feed, fresh, dag, questCache, reviewRetries, party, rollup, loops,
                 around>>

\* The party is disbanded and the DAG leaves the caches.
Forget ==
  /\ Doing("forget")
  /\ party' = FALSE
  /\ dag' = None
  /\ reviewRetries' = {}
  /\ todo' = Tail(todo)
  /\ UNCHANGED <<entities, fresh, questCache, rollup, loops, around>>

\* The process restarts: parties are gone, the stored DAG and the statuses are read back
\* without acting on them, and results of loops that ended meanwhile are lost.
Restart ==
  /\ Mishap("crash")
  /\ fresh' = FALSE
  /\ dag' = saved
  /\ questCache' = [n \in Nodes |-> sub[n].status]
  /\ reviewRetries' = {}
  /\ todo' = <<>>
  /\ party' = FALSE /\ rollup' = None
  /\ feed' = <<>>
  /\ \E lost \in SUBSET LeadLoops :
       leads' = [l \in LeadLoops |-> IF l \in lost THEN 0 ELSE leads[l]]
  /\ synthesis' \in {0, synthesis}
  /\ cancel' = cancel \ {"event"}
  /\ UNCHANGED <<parent, saved, sub, setting>>

-----------------------------------------------------------------------------
(* Members, operators, the DM and the judges, who act while the watch is prompt. *)

\* (bound: once the DAG is out of the caches nothing reacts to them, and they are not followed.)
Around == Len(feed) < LagBound /\ (fresh \/ dag # None)

\* questbridge applies the result of a member's loop: work, a failure, or a question.
Finish(n) ==
  /\ Around
  /\ sub[n].status = "in_progress"
  /\ \E to \in {IF n \in Reviewed THEN "in_review" ELSE "completed", "failed"} :
       EmitSubQuest(n, [sub[n] EXCEPT !.status = to,
                                      !.defeat = IF to = "failed" THEN FALSE ELSE @])
  /\ UNCHANGED <<parent, saved, memory, loops, around>>

Ask(n) ==
  /\ Around /\ n \in Unclear
  /\ sub[n].status = "in_progress"
  /\ EmitSubQuest(n, [sub[n] EXCEPT !.status = "escalated"])
  /\ UNCHANGED <<parent, saved, memory, loops, around>>

\* TriageQuest: one more attempt, or none.
TriageQuest(n) ==
  /\ Around
  /\ sub[n].status = "pending_triage"
  /\ \/ /\ sub[n].salvages < SalvageBound
        /\ EmitSubQuest(n, [sub[n] EXCEPT !.status = "posted", !.salvages = @ + 1])
     \/ \E to \in {"failed", "escalated"} : EmitSubQuest(n, [sub[n] EXCEPT !.status = to])
  /\ UNCHANGED <<parent, saved, memory, loops, around>>

\* An operator abandons a sub-quest, or questbridge's sweep reposts one that waits long.
SubQuestReposted(n) ==
  /\ Around
  /\ sub[n].status \in {"in_progress", "escalated"}
  /\ Mishap("operator")
  /\ EmitSubQuest(n, [sub[n] EXCEPT !.status = "posted", !.holder = None])
  /\ UNCHANGED <<parent, saved, memory, loops, cancel, setting>>

\* handleCancelQuest for the parent: the DAG's cancel is sent, then the copy is put as failed.
CancelParent ==
  /\ Around
  /\ parent = "in_progress" /\ cancel = {}
  /\ Mishap("operator")
  /\ cancel' = {"event", "put"}
  /\ UNCHANGED <<entities, memory, loops, setting>>

CancelPut ==
  /\ "put" \in cancel
  /\ parent' = "failed"
  /\ cancel' = cancel \ {"put"}
  /\ UNCHANGED <<saved, sub, feed, memory, loops, setting, mishaps>>

\* handleSubmitResult for the parent, by an operator.
SubmitParent ==
  /\ Around
  /\ parent = "in_progress"
  /\ Mishap("operator")
  /\ parent' = "in_review"
  /\ UNCHANGED <<saved, sub, feed, memory, loops, cancel, setting>>

\* The judges' verdict on the parent; a defeat fails its sub-quests and clears its DAG.
JudgeParent ==
  /\ Len(feed) < LagBound
  /\ parent = "in_review"
  /\ \/ /\ parent' = "completed"
        /\ UNCHANGED <<saved, sub, feed>>
     \/ LET blamed == {n \in Nodes : sub[n].status # "failed"} IN
        /\ parent' = "posted"
        /\ saved' = None
        /\ sub' = [n \in Nodes |-> IF n \in blamed
                                   THEN [sub[n] EXCEPT !.status = "failed", !.defeat = TRUE]
                                   ELSE sub[n]]
        /\ feed' = feed \o SetToSeq({[node |-> n, status |-> "failed", defeat |-> TRUE] :
                                       n \in blamed})
  /\ UNCHANGED <<memory, loops, around>>

-----------------------------------------------------------------------------
LeadResult(kind, n) ==
  \/ DropResult(kind, n)
  \/ kind = "review" /\ (OnReviewCompleted(n) \/ OnReviewFailed(n))
  \/ kind = "clarify" /\ (OnClarificationAnswered(n) \/ OnClarificationFailed(n))

HandlerStep ==
  \/ Assign \/ Repost \/ RouteNodeToTriage \/ Cleanup
  \/ EscalateParent \/ ReadForMetrics \/ PutMetrics \/ SubmitResult
  \/ PersistDAGState \/ Forget

LoopStep ==
  \/ OnDAGEntry \/ OnSubQuestTransition \/ OnSynthesisEnded \/ OnDAGCancelled \/ HandlerStep
  \/ \E n \in Nodes, kind \in {"review", "clarify"} : LeadResult(kind, n)

\* Somebody's work or triage comes to an end.
Progress == \E n \in Nodes : Finish(n) \/ TriageQuest(n)

Next ==
  \/ LoopStep \/ Progress \/ OnDAGTimedOut \/ Restart
  \/ CancelParent \/ CancelPut \/ SubmitParent \/ JudgeParent
  \/ \E n \in Nodes : Ask(n) \/ SubQuestReposted(n)

\* The loop runs while it has something to do and the lead's loops end in some way; of all
\* members at work some one finishes in the end; the sweep's ticker ticks.
Fairness == WF_vars(LoopStep) /\ SF_vars(Progress) /\ SF_vars(OnDAGTimedOut)

Spec == Init /\ [][Next]_vars /\ Fairness

-----------------------------------------------------------------------------
(* Properties.                                                             *)

\* Entities, memory and loops have the fields and values of the Go types.
TypeOK ==
  /\ parent \in QuestStatuses
  /\ saved \in DAGExecutionState \cup {None}
  /\ sub \in [Nodes -> SubQuest]
  /\ feed \in Seq(Event)
  /\ fresh \in BOOLEAN
  /\ dag \in DAGExecutionState \cup {None}
  /\ questCache \in [Nodes -> QuestStatuses]
  /\ reviewRetries \subseteq Nodes
  /\ todo \in Seq([op : Ops, node : Nodes])
  /\ party \in BOOLEAN
  /\ rollup \in ParentCopy \cup {None}
  /\ leads \in [LeadLoops -> Nat]
  /\ synthesis \in Nat
  /\ cancel \subseteq {"event", "put"}
  /\ setting \in [fault : Faults, triage : BOOLEAN, retries : Nat]
  /\ mishaps \in 0 .. MishapBound

Running(n) == sub[n].status = "in_progress"

\* While the parent is in progress no member works on two sub-quests at once: assignment
\* goes by the loop's own state, which lags behind the sub-quests and is persisted late.
NoDoubleBooking ==
  parent = "in_progress" /\ setting.fault # "duplicate" =>
    \A m \in Members : Cardinality({n \in Nodes : Running(n) /\ sub[n].holder = m}) <= 1

\* What node state stands for what status.
Mirrors(s, status) ==
  CASE status = "posted" -> s \in {"pending", "ready"}
    [] status = "in_review" -> s = "pending_review"
    [] status = "escalated" -> s = "awaiting_clarification"
    [] OTHER -> s = status

\* A calm loop that has handled everything agrees with the sub-quests, holders included:
\* no order of their updates and of the lead's results leaves a node behind for ever.
NodesTrackSubQuests ==
  Calm /\ parent = "in_progress" /\ ~fresh /\ Idle /\ feed = <<>> =>
    \A n \in Nodes :
      /\ Mirrors(dag.state[n], sub[n].status)
      /\ Running(n) => dag.assignee[n] = sub[n].holder

Phase ==
  [n \in Nodes |-> CASE sub[n].status = "completed" -> "done"
                     [] sub[n].status \in {"in_progress", "in_review", "escalated"} -> "working"
                     [] OTHER -> "waiting"]

Outcome ==
  CASE parent = "in_progress" -> "open"
    [] parent \in {"in_review", "completed"} -> "delivered"
    [] OTHER -> "given up"

Graph == INSTANCE TaskGraph WITH Tasks <- Nodes, phase <- Phase, outcome <- Outcome

\* A calm execution is one of TaskGraph: dependencies are completed before a sub-quest
\* starts, and the parent is submitted only when all are, as the board stores them.
ImplementsTaskGraph == Graph!Init /\ [][setting.fault \in {"none", "publish"} => Graph!Next]_(Graph!vars)

\* Every decomposed quest gets its result or comes back to the DM; in a calm execution even
\* without the timeout.
ParentReleased == (parent = "in_progress") ~> (parent # "in_progress")

\* processor/questdagexec/handler.go:1157-1158: cleaning up "prevents sibling sub-quests
\* from running indefinitely after the parent is escalated", so none is started anew.
NoWorkAfterEscalation ==
  [][parent = "escalated" => \A n \in Nodes : sub'[n].attempts = sub[n].attempts]_vars
=============================================================================
