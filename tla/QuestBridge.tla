---------------------------- MODULE QuestBridge ----------------------------
(***************************************************************************)
(* processor/questbridge: hands every quest that enters in_progress to an  *)
(* agentic loop and applies the loop's result to the quest.  Its workers   *)
(* are goroutines of one process:                                          *)
(*   watch        follows the quest entities and dispatches                *)
(*   completions  consumes loop results from a durable stream              *)
(*   sweep        reposts quests that were escalated too long              *)
(*   answer       answers a clarification, for the LLM or the human DM,    *)
(*                one answer at a time                                     *)
(*   resume       reconciles after the board was paused                    *)
(* They share the KV bucket, where every put is last-writer-wins, and the  *)
(* maps questCache, escalatedAt and activeLoops.                           *)
(*                                                                         *)
(* Around them: agents claim and start quests, operators and judges end    *)
(* attempts, loops run and end.  The loops survive a restart of the        *)
(* process, and so do their results.                                       *)
(*                                                                         *)
(* Not modelled: prompts, sandboxes and metrics, review and exploration    *)
(* loops (they touch no quest here), sub-quests, triage (off), the token   *)
(* budget (it skips a dispatch just as a paused board does), and failing   *)
(* reads and writes except of a publish.                                   *)
(***************************************************************************)
EXTENDS Naturals, Sequences, FiniteSets

CONSTANTS
  Quests, Agents,
  Loops,           \* bound: identifiers of agentic loops
  None,            \* a nil pointer, or a key not in a map
  NeedsReview,     \* quests with Constraints.RequireReview
  PartyQuests,     \* quests with PartyRequired, whose result may be a DAG, by hurried
  MaxAttempts,     \* [Quests -> Nat], as posted
  MaxClarificationRounds,
  StartBound,      \* bound: agents and the DM start a quest, and operators end an attempt,
                   \*        only until it has started so often
  LagBound,        \* bound: puts the watch may be behind when agents or operators act
  Mishaps,         \* which of "pause", "redelivery" and "restart" may happen
  MishapBound,     \* bound: how many of them happen, by hurried
  Hurries          \* values of hurried in the initial states

ASSUME BridgeAssumption ==
  /\ None \notin Quests \cup Agents \cup Loops
  /\ NeedsReview \subseteq Quests
  /\ PartyQuests \in [BOOLEAN -> SUBSET Quests]
  /\ MaxAttempts \in [Quests -> Nat \ {0}]
  /\ {MaxClarificationRounds, StartBound, LagBound} \subseteq Nat
  /\ MishapBound \in [BOOLEAN -> Nat]
  /\ Mishaps \subseteq {"pause", "redelivery", "restart"}
  /\ Hurries \subseteq BOOLEAN

VARIABLES
  quest,       \* quest entities
  agent,       \* agent entities: the current quest
  questLoops,  \* QUEST_LOOPS bucket: the loop each quest is mapped to
  run,         \* agentic loops, and their results on the stream
  feed,        \* puts the watch has still to deliver
  questCache,  \* statuses the watch has seen
  escalatedAt, \* quests whose escalation is timed
  activeLoops, \* the mappings kept in memory
  paused,      \* the board is paused
  job,         \* what each worker still has to do
  hurried,     \* whether others act within a dispatch or a result's application
  starts,      \* history: times each quest entered in_progress
  mishaps      \* pauses, redeliveries and restarts so far

store == <<quest, feed, starts>>
memory == <<questCache, escalatedAt, activeLoops>>
around == <<agent, questLoops, run, paused, hurried, mishaps>>
vars == <<store, memory, around, job>>

Statuses == {"posted", "in_progress", "in_review", "completed", "failed", "escalated"}

\* What a loop ends with: a work product, a question, a DAG, or a failure (or cancel).
Outcomes == {"work", "clarify", "dag", "failed"}

Workers == {"watch", "completions", "sweep", "answer", "resume"}

\* rounds: number of DMClarifications.  dag: the DAG fields are set.
QuestRec ==
  [status : Statuses, claimedBy : Agents \cup {None}, attempts : Nat,
   rounds : Nat, dag : BOOLEAN]

\* state: a result stays on the stream until it is acknowledged.
Run ==
  [state : {"unused", "running", "acked"} \cup Outcomes,
   quest : Quests \cup {None}, agent : Agents \cup {None}]

\* todo: the KV accesses left, in order.  copy: what a put will put.  agent: whom a free
\* will free.  left: quests a reconciliation has still to look at.
Steps == {"load", "put", "publish", "map", "store", "apply", "fail", "free",
          "forget", "unmap", "ack", "expire", "reconcile", "recover"}

Job ==
  [todo : Seq(Steps), quest : Quests \cup {None}, agent : Agents \cup {None},
   loop : Loops \cup {None}, copy : QuestRec \cup {None}, left : SUBSET Quests]

NoJob == [todo |-> <<>>, quest |-> None, agent |-> None, loop |-> None,
          copy |-> None, left |-> {}]

Fresh == [status |-> "posted", claimedBy |-> None, attempts |-> 0, rounds |-> 0,
          dag |-> FALSE]

Init ==
  /\ quest = [q \in Quests |-> Fresh]
  /\ agent = [a \in Agents |-> None]
  /\ questLoops = [q \in Quests |-> None]
  /\ run = [l \in Loops |-> [state |-> "unused", quest |-> None, agent |-> None]]
  /\ feed = <<>>
  /\ questCache = [q \in Quests |-> "posted"]
  /\ escalatedAt = {}
  /\ activeLoops = [q \in Quests |-> None]
  /\ paused = FALSE
  /\ job = [w \in Workers |-> NoJob]
  /\ hurried \in Hurries
  /\ starts = [q \in Quests |-> 0]
  /\ mishaps = 0

\* Something of this kind goes wrong.
Mishap(kind) ==
  /\ kind \in Mishaps /\ mishaps < MishapBound[hurried]
  /\ mishaps' = mishaps + 1

-----------------------------------------------------------------------------
(* KV access and the steps that several workers take.                      *)

\* EmitEntityUpdate: last-writer-wins; the watch will deliver it after the entries rest.
Emit(q, rec, rest) ==
  /\ quest' = [quest EXCEPT ![q] = rec]
  /\ feed' = Append(rest, [key |-> q, status |-> rec.status, holder |-> rec.claimedBy])
  /\ starts' = IF rec.status = "in_progress" /\ quest[q].status # "in_progress"
               THEN [starts EXCEPT ![q] = @ + 1] ELSE starts

EmitEntityUpdate(q, rec) == Emit(q, rec, feed)

\* Worker w is about to take step s.
At(w, s) == job[w].todo # <<>> /\ Head(job[w].todo) = s

\* What is left of w's job after its first step.
Rest(w) ==
  IF Len(job[w].todo) = 1 THEN NoJob ELSE [job[w] EXCEPT !.todo = Tail(@)]

Done(w) == job' = [job EXCEPT ![w] = Rest(w)]

\* GetQuest.
Load(w) ==
  /\ At(w, "load")
  /\ job' = [job EXCEPT ![w] = [Rest(w) EXCEPT !.copy = quest[job[w].quest]]]
  /\ UNCHANGED <<store, memory, around>>

PutCopy(w) ==
  /\ At(w, "put")
  /\ EmitEntityUpdate(job[w].quest, job[w].copy)
  /\ Done(w)
  /\ UNCHANGED <<memory, around>>

\* releaseAgent: idle, whatever the agent works on by then.  (Its read and put are one step.)
ReleaseAgent(w) ==
  /\ At(w, "free")
  /\ agent' = [a \in Agents |-> IF a = job[w].agent THEN None ELSE agent[a]]
  /\ Done(w)
  /\ UNCHANGED <<store, memory, questLoops, run, paused, hurried, mishaps>>

-----------------------------------------------------------------------------
(* The watch.                                                              *)

\* handleQuestStarted: read quest and agent, put the context metadata, publish the task,
\* store the mapping in the bucket and in memory, and put the loop ID on the quest.
Dispatch == <<"load", "put", "publish", "map", "store", "load", "put">>

\* handleLiveUpdate: escalations are timed while they last, and a transition into
\* in_progress is dispatched, unless the board is paused or nobody holds the quest.
HandleLiveUpdate ==
  LET e == Head(feed)
      was == questCache[e.key]
  IN  /\ job["watch"].todo = <<>> /\ feed # <<>>
      /\ hurried \/ job["completions"].todo = <<>>
      /\ feed' = Tail(feed)
      /\ questCache' = [questCache EXCEPT ![e.key] = e.status]
      /\ escalatedAt' =
           CASE e.status = "escalated" /\ was # "escalated" -> escalatedAt \cup {e.key}
             [] e.status # "escalated" /\ was = "escalated" -> escalatedAt \ {e.key}
             [] OTHER -> escalatedAt
      /\ job' = IF e.status = "in_progress" /\ was # "in_progress" /\ ~paused
                   /\ e.holder # None
                THEN [job EXCEPT !["watch"] =
                       [NoJob EXCEPT !.todo = Dispatch, !.quest = e.key, !.agent = e.holder]]
                ELSE job
      /\ UNCHANGED <<quest, starts, activeLoops, around>>

\* PublishToStream: the loop runs from now on.  A publish that fails ends the dispatch.
Publish ==
  LET unused == {k \in Loops : run[k].state = "unused"}
      l == CHOOSE k \in unused : TRUE
  IN
  /\ At("watch", "publish")
  /\ \/ /\ unused # {}
        /\ run' = [run EXCEPT ![l] = [state |-> "running", quest |-> job["watch"].quest,
                                      agent |-> job["watch"].agent]]
        /\ job' = [job EXCEPT !["watch"] = [Rest("watch") EXCEPT !.loop = l, !.copy = None]]
     \/ /\ job' = [job EXCEPT !["watch"] = NoJob]
        /\ UNCHANGED run
  /\ UNCHANGED <<store, memory, agent, questLoops, paused, hurried, mishaps>>

StoreMapping ==
  LET j == job["watch"]
  IN  \/ /\ At("watch", "map")
         /\ questLoops' = [questLoops EXCEPT ![j.quest] = j.loop]
         /\ Done("watch")
         /\ UNCHANGED <<store, memory, agent, run, paused, hurried, mishaps>>
      \/ /\ At("watch", "store")
         /\ activeLoops' = [activeLoops EXCEPT ![j.quest] = j.loop]
         /\ Done("watch")
         /\ UNCHANGED <<store, questCache, escalatedAt, around>>

-----------------------------------------------------------------------------
(* Results.                                                                *)

\* findMapping: by quest, in memory first, then in the bucket.  The loop that ended is not
\* compared with the one the quest is mapped to.
FindMapping(q) == IF activeLoops[q] # None THEN activeLoops[q] ELSE questLoops[q]

\* Mutant: the message is acknowledged before it is handled.
TakeAndAck(l) ==
  LET m == FindMapping(run[l].quest)
  IN  /\ job["completions"].todo = <<>>
      /\ hurried \/ job["watch"].todo = <<>>
      /\ run[l].state \in Outcomes
      /\ run' = [run EXCEPT ![l].state = "acked"]
      /\ job' = IF m = None THEN job
                ELSE [job EXCEPT !["completions"] =
                       [NoJob EXCEPT !.todo = <<"apply">>, !.quest = run[l].quest,
                                     !.agent = run[m].agent, !.loop = l]]
      /\ UNCHANGED <<store, memory, agent, questLoops, paused, hurried, mishaps>>

\* handleCompletionMessage takes a result.  Without a mapping it is acknowledged at once.
TakeResult(l) ==
  LET m == FindMapping(run[l].quest)
  IN  /\ job["completions"].todo = <<>>
      /\ hurried \/ job["watch"].todo = <<>>
      /\ run[l].state \in Outcomes
      /\ IF m = None
         THEN /\ run' = [run EXCEPT ![l].state = "acked"]
              /\ UNCHANGED job
         ELSE /\ job' = [job EXCEPT !["completions"] =
                   [NoJob EXCEPT !.todo = <<"apply">>, !.quest = run[l].quest,
                                 !.agent = run[m].agent, !.loop = l]]
              /\ UNCHANGED run
      /\ UNCHANGED <<store, memory, agent, questLoops, paused, hurried, mishaps>>

\* cleanupMapping, and the deferred acknowledgement.
CleanUp == <<"forget", "unmap", "ack">>

Reposted(rec) == [rec EXCEPT !.status = "posted", !.claimedBy = None]

\* Worker completions goes on with the given steps, and then cleans up.
Proceed(todo, copy, holder) ==
  job' = [job EXCEPT !["completions"] =
            [@ EXCEPT !.todo = todo \o CleanUp, !.copy = copy, !.agent = holder]]

\* completeQuest and failQuest: the guard on the status, and what follows for each outcome.
ApplyResult ==
  LET j == job["completions"]
      rec == quest[j.quest]
      outcome == run[j.loop].state
  IN  /\ At("completions", "apply")
      /\ \/ /\ rec.status # "in_progress"
            /\ Proceed(<<>>, None, None)
         \/ /\ rec.status = "in_progress" /\ outcome = "work"
            /\ Proceed(<<"put">>, [rec EXCEPT !.status = IF j.quest \in NeedsReview
                                                THEN "in_review" ELSE "completed"], None)
         \/ /\ rec.status = "in_progress" /\ outcome = "clarify"
            /\ IF rec.rounds >= MaxClarificationRounds /\ MaxClarificationRounds > 0
               THEN Proceed(<<"free", "put">>, Reposted(rec), j.agent)
               ELSE Proceed(<<"put">>, [rec EXCEPT !.status = "escalated"], None)
         \/ /\ rec.status = "in_progress" /\ outcome = "dag"
            /\ \/ Proceed(<<"put">>, [rec EXCEPT !.dag = TRUE], None)
               \/ Proceed(<<"put", "free">>, [rec EXCEPT !.status = "failed"], j.agent)
         \/ /\ rec.status = "in_progress" /\ outcome = "failed"
            /\ Proceed(<<"put", "fail">>, rec, j.agent)
      /\ UNCHANGED <<store, memory, around>>

\* questboard's FailQuest, which reads the quest again and may refuse; then the quest is
\* failed here, and the agent of the mapping is freed.
FailQuest ==
  LET j == job["completions"]
      rec == quest[j.quest]
      rest == [j EXCEPT !.todo = Tail(@)]
  IN  /\ At("completions", "fail")
      /\ job' = [job EXCEPT !["completions"] =
           IF rec.status \in {"in_progress", "in_review"}
           THEN [rest EXCEPT !.todo = <<"free", "put">> \o @, !.agent = rec.claimedBy,
                             !.copy = IF rec.attempts < MaxAttempts[j.quest]
                                      THEN Reposted(rec) ELSE [rec EXCEPT !.status = "failed"]]
           ELSE [rest EXCEPT !.todo = <<"put", "free">> \o @, !.copy.status = "failed"]]
      /\ UNCHANGED <<store, memory, around>>

ForgetMapping ==
  LET j == job["completions"]
  IN  \/ /\ At("completions", "forget")
         /\ activeLoops' = [activeLoops EXCEPT ![j.quest] = None]
         /\ Done("completions")
         /\ UNCHANGED <<store, questCache, escalatedAt, around>>
      \/ /\ At("completions", "unmap")
         /\ questLoops' = [questLoops EXCEPT ![j.quest] = None]
         /\ Done("completions")
         /\ UNCHANGED <<store, memory, agent, run, paused, hurried, mishaps>>

\* The acknowledgement may not arrive, and then the result is delivered again.
Acknowledge ==
  LET l == job["completions"].loop
  IN  /\ At("completions", "ack")
      /\ Done("completions")
      /\ \/ /\ run' = [run EXCEPT ![l].state = "acked"]
            /\ UNCHANGED mishaps
         \/ /\ Mishap("redelivery")
            /\ UNCHANGED run
      /\ UNCHANGED <<store, memory, agent, questLoops, paused, hurried>>

-----------------------------------------------------------------------------
(* Escalations.                                                            *)

\* sweepStaleEscalations finds an escalation timed out; handleStaleEscalation deletes its
\* time ...
TimeOut(q) ==
  /\ job["sweep"].todo = <<>>
  /\ q \in escalatedAt
  /\ escalatedAt' = escalatedAt \ {q}
  /\ job' = [job EXCEPT !["sweep"] = [NoJob EXCEPT !.todo = <<"expire">>, !.quest = q]]
  /\ UNCHANGED <<store, questCache, activeLoops, around>>

\* ... and reads the quest: one still escalated is taken from its agent and reposted.
Expire ==
  LET rec == quest[job["sweep"].quest]
  IN  /\ At("sweep", "expire")
      /\ job' = [job EXCEPT !["sweep"] =
           IF rec.status = "escalated"
           THEN [@ EXCEPT !.todo = <<"free", "put">>, !.agent = rec.claimedBy,
                          !.copy = Reposted(rec)]
           ELSE NoJob]
      /\ UNCHANGED <<store, memory, around>>

\* Others act only while the watch is prompt, and, unless hurried, not within the few KV
\* accesses of a dispatch or of the application of a result.  (Nor are these two taken up
\* within each other then.)
Calm ==
  /\ Len(feed) < LagBound
  /\ ~hurried => job["watch"].todo = <<>> /\ job["completions"].todo = <<>>

\* autoAnswerClarification and the API's handleDMIntervene: a read of an escalated quest,
\* and later the put of the quest in progress with the same agent.
Answer(q) ==
  /\ Calm
  /\ job["answer"].todo = <<>>
  /\ quest[q].status = "escalated" /\ starts[q] < StartBound
  /\ \E rounds \in {quest[q].rounds, quest[q].rounds + 1} :
       job' = [job EXCEPT !["answer"] =
         [NoJob EXCEPT !.todo = <<"put">>, !.quest = q,
            !.copy = [quest[q] EXCEPT !.status = "in_progress", !.rounds = rounds]]]
  /\ UNCHANGED <<store, memory, around>>

-----------------------------------------------------------------------------
(* Pauses and restarts.                                                    *)

\* reconcileOrphanedQuests for one quest in the cache: an escalation is timed from now on,
\* a running quest has its mapping read from the bucket, or only a warning logged.
Reconcile(w) ==
  \/ /\ At(w, "reconcile")
     /\ \E q \in job[w].left :
          LET left == job[w].left \ {q}
              todo == IF left = {} THEN <<>> ELSE <<"reconcile">>
          IN  /\ escalatedAt' = IF questCache[q] = "escalated"
                                THEN escalatedAt \cup {q} ELSE escalatedAt
              /\ job' = [job EXCEPT ![w] =
                   IF questCache[q] = "in_progress" /\ questLoops[q] # None
                   THEN [NoJob EXCEPT !.todo = <<"recover">> \o todo, !.quest = q,
                                      !.loop = questLoops[q], !.left = left]
                   ELSE IF left = {} THEN NoJob ELSE [@ EXCEPT !.left = left]]
     /\ UNCHANGED <<store, questCache, activeLoops, around>>
  \/ /\ At(w, "recover")
     /\ activeLoops' = [activeLoops EXCEPT ![job[w].quest] = job[w].loop]
     /\ Done(w)
     /\ UNCHANGED <<store, questCache, escalatedAt, around>>

Reconciliation == [NoJob EXCEPT !.todo = <<"reconcile">>, !.left = Quests]

\* boardcontrol's Pause and Resume; the latter is published, and reconciled upon.
Pause ==
  /\ ~paused
  /\ Mishap("pause")
  /\ paused' = TRUE
  /\ UNCHANGED <<store, memory, agent, questLoops, run, job, hurried>>

Resume ==
  /\ paused /\ job["resume"].todo = <<>>
  /\ paused' = FALSE
  /\ job' = [job EXCEPT !["resume"] = Reconciliation]
  /\ UNCHANGED <<store, memory, agent, questLoops, run, hurried, mishaps>>

\* Mutant: after a restart the cache fills as entries come.
RestartCold ==
  /\ Mishap("restart")
  /\ questCache' = [q \in Quests |-> "posted"]
  /\ escalatedAt' = {}
  /\ activeLoops' = [q \in Quests |-> None]
  /\ feed' = <<>>
  /\ job' = [w \in Workers |-> IF w = "watch" THEN Reconciliation ELSE NoJob]
  /\ UNCHANGED <<quest, starts, agent, questLoops, run, paused, hurried>>

\* Mutant: a restart does not reconcile.
RestartUnreconciled ==
  /\ Mishap("restart")
  /\ questCache' = [q \in Quests |-> quest[q].status]
  /\ escalatedAt' = {}
  /\ activeLoops' = [q \in Quests |-> None]
  /\ feed' = <<>>
  /\ job' = [w \in Workers |-> NoJob]
  /\ UNCHANGED <<quest, starts, agent, questLoops, run, paused, hurried>>

\* The process dies and comes back.  Memory is gone; the watch first fills the cache from
\* the stored quests, and then reconciles before it takes live entries.
Restart ==
  /\ Mishap("restart")
  /\ questCache' = [q \in Quests |-> quest[q].status]
  /\ escalatedAt' = {}
  /\ activeLoops' = [q \in Quests |-> None]
  /\ feed' = <<>>
  /\ job' = [w \in Workers |-> IF w = "watch" THEN Reconciliation ELSE NoJob]
  /\ UNCHANGED <<quest, starts, agent, questLoops, run, paused, hurried>>

-----------------------------------------------------------------------------
(* Agents, operators, judges and loops.                                    *)

\* An idle agent claims and starts a posted quest.  (Its puts are one step.)
Claim(q, a) ==
  /\ Calm
  /\ quest[q].status = "posted" /\ agent[a] = None /\ starts[q] < StartBound
  /\ EmitEntityUpdate(q, [quest[q] EXCEPT !.status = "in_progress", !.claimedBy = a,
                                          !.attempts = @ + 1])
  /\ agent' = [agent EXCEPT ![a] = q]
  /\ UNCHANGED <<memory, questLoops, run, paused, job, hurried, mishaps>>

\* The API fails, abandons or cancels a quest, or judges defeat it: the holder is freed and
\* the quest reposted or failed.  The loop is not waited for.
EndAttempt(q) ==
  LET rec == quest[q]
      counted == [rec EXCEPT !.attempts = @ + 1]
  IN
  /\ Calm
  /\ starts[q] <= StartBound
  /\ \/ /\ rec.status \in {"in_progress", "in_review"}   \* handleFailQuest
        /\ EmitEntityUpdate(q, IF counted.attempts >= MaxAttempts[q]
                               THEN [counted EXCEPT !.status = "failed"]
                               ELSE Reposted(counted))
     \/ /\ rec.status = "in_progress"                     \* handleAbandonQuest
        /\ EmitEntityUpdate(q, Reposted(rec))
     \/ /\ rec.status = "in_progress"                     \* handleCancelQuest
        /\ EmitEntityUpdate(q, [rec EXCEPT !.status = "failed"])
     \/ /\ rec.status = "in_review"                       \* the verdict of bossbattle
        /\ EmitEntityUpdate(q, IF rec.attempts < MaxAttempts[q] /\ MaxAttempts[q] > 1
                               THEN Reposted(counted) ELSE [rec EXCEPT !.status = "failed"])
  /\ agent' = [a \in Agents |-> IF a = rec.claimedBy THEN None ELSE agent[a]]
  /\ UNCHANGED <<memory, questLoops, run, paused, job, hurried, mishaps>>

\* The judges approve, or questdagexec finishes a decomposed quest.
Approve(q) ==
  /\ Calm
  /\ \/ quest[q].status = "in_review"
     \/ quest[q].status = "in_progress" /\ quest[q].dag
  /\ starts[q] <= StartBound
  /\ EmitEntityUpdate(q, [quest[q] EXCEPT !.status = "completed"])
  /\ UNCHANGED <<memory, around, job>>

\* agentprogression frees the holder of a finished quest, sooner or later, and whatever the
\* agent works on by then.
ReleaseHolder(q) ==
  LET a == quest[q].claimedBy
  IN  /\ quest[q].status \in {"completed", "failed"}
      /\ a # None /\ agent[a] # None
      /\ agent' = [agent EXCEPT ![a] = None]
      /\ UNCHANGED <<store, memory, questLoops, run, paused, job, hurried, mishaps>>

\* A loop ends; unless hurried it outlasts its own dispatch.
EndLoop(l) ==
  /\ run[l].state = "running"
  /\ hurried \/ job["watch"].loop # l
  /\ \E o \in Outcomes :
       /\ o = "dag" => run[l].quest \in PartyQuests[hurried]
       /\ run' = [run EXCEPT ![l].state = o]
  /\ UNCHANGED <<store, memory, agent, questLoops, paused, job, hurried, mishaps>>

-----------------------------------------------------------------------------
WatchStep ==
  \/ HandleLiveUpdate \/ Publish \/ StoreMapping
  \/ Load("watch") \/ PutCopy("watch") \/ Reconcile("watch")

CompletionStep ==
  \/ \E l \in Loops : TakeResult(l)
  \/ ApplyResult \/ FailQuest \/ ForgetMapping \/ Acknowledge
  \/ PutCopy("completions") \/ ReleaseAgent("completions")

SweepStep ==
  \/ \E q \in Quests : TimeOut(q)
  \/ Expire \/ PutCopy("sweep") \/ ReleaseAgent("sweep")

AnswerStep == Calm /\ PutCopy("answer")

ResumeStep == Resume \/ Reconcile("resume")

Next ==
  \/ WatchStep \/ CompletionStep \/ SweepStep \/ AnswerStep \/ ResumeStep
  \/ \E q \in Quests : Answer(q) \/ EndAttempt(q) \/ Approve(q) \/ ReleaseHolder(q)
  \/ \E q \in Quests, a \in Agents : Claim(q, a)
  \/ \E l \in Loops : EndLoop(l)
  \/ Pause \/ Restart

\* Each goroutine is scheduled, escalations time out, the board does not stay paused, and a
\* loop ends (its iterations are bounded).  Agents, operators, judges and the DM owe nothing.
Fairness ==
  /\ WF_vars(WatchStep) /\ WF_vars(CompletionStep)
  /\ WF_vars(SweepStep) /\ WF_vars(AnswerStep) /\ WF_vars(ResumeStep)
  /\ \A l \in Loops : WF_vars(EndLoop(l))

Spec == Init /\ [][Next]_vars /\ Fairness

-----------------------------------------------------------------------------
(* Properties.                                                             *)

\* The shape of the entities, the mappings and what the workers hold.
TypeOK ==
  /\ quest \in [Quests -> QuestRec]
  /\ agent \in [Agents -> Quests \cup {None}]
  /\ questLoops \in [Quests -> Loops \cup {None}]
  /\ run \in [Loops -> Run]
  /\ feed \in Seq([key : Quests, status : Statuses, holder : Agents \cup {None}])
  /\ questCache \in [Quests -> Statuses]
  /\ escalatedAt \in SUBSET Quests
  /\ activeLoops \in [Quests -> Loops \cup {None}]
  /\ job \in [Workers -> Job]
  /\ {paused, hurried} \subseteq BOOLEAN
  /\ starts \in [Quests -> Nat]
  /\ mishaps \in 0..MishapBound[hurried]

\* A loop is started only for a quest that entered in_progress since the last one was: the
\* dispatch's own puts, other puts of a running quest, and restarts start none (the
\* bootstrap protocol of the watch: "prevents spuriously re-triggering execution").
NoSpuriousDispatch ==
  \A q \in Quests :
    Cardinality({l \in Loops : run[l].state # "unused" /\ run[l].quest = q}) <= starts[q]

\* An escalated quest does not wait for the DM for ever: its escalation is timed from when
\* the watch sees it, through restarts, pauses and answers that come late
\* (EscalationTimeoutMins).
EscalationsEnd ==
  \A q \in Quests : quest[q].status = "escalated" ~> quest[q].status # "escalated"

\* The mapping is what a restart leaves of a dispatch.  As long as QUEST_LOOPS has one for a
\* running quest, some result moves the quest on, though the process restarts and results are
\* delivered twice.  (Unless hurried: the clean-up after a late result of an earlier attempt
\* may then take the mapping of the next dispatch.)
MappedQuestsEnd ==
  \A q \in Quests :
    ~hurried /\ questLoops[q] # None /\ quest[q].status = "in_progress" /\ ~quest[q].dag
      ~> quest[q].status # "in_progress" \/ quest[q].dag

\* handler.go:145: a quest that starts while the board is paused is picked up on resume, that
\* is, a loop is started for it, if nothing else becomes of it.
PickedUpOnResume ==
  \A q \in Quests :
    LET handed == \E l \in Loops : run[l].state # "unused" /\ run[l].quest = q
    IN  paused /\ quest[q].status = "in_progress" /\ ~handed
          ~> quest[q].status # "in_progress" \/ handed
=============================================================================
