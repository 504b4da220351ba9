# Semdragons: a TLA+ verification development

Semdragons is an agent coordination board: quests are posted, claimed by autonomous agents or
parties, executed by agentic loops, reviewed by a red team and by judges, and rewarded. All
entities live in one NATS KV bucket; some twenty *processors* run as goroutines of one Go process,
watch the bucket, and write entities back. There are no transactions. Almost every write puts a
whole entity that was read some time before, last-writer-wins; a handful of writes use
compare-and-swap on the revision that was read. This directory models that program: what the
processors do with the shared bucket and with the maps they keep in memory, in which order, and what
survives when they interleave, lag, crash and retry.

Paths below are relative to the repository root. Line numbers are those of `PROJECT.json`, whose
`map` ties every definition of a module to the code it is read from. The header of each module says
what of that code it leaves out.

## Inventory

### The store

`graphclient.go` wraps the bucket: `EmitEntity`/`EmitEntityUpdate` (put, last-writer-wins),
`EmitEntityCAS` (put if the revision is still the one read), get, list, and watch. A watch first
delivers the last value of every key, then a nil sentinel, then every put in order. Every processor
that watches keeps its own cache of the statuses it has seen, so it acts on *transitions*, and it
acts on a view that lags behind the store. An entity is stored as triples; one function per type
writes them, another reads them back.

### Components

| component | state it keeps | operations | hard part | modules |
|---|---|---|---|---|
| `questboard` | none; all in the bucket | post, post chain, post sub-quests, claim (agent, party, party member), start, submit, complete, abandon, fail, triage, repost, escalate, notify dependents | every handler is read – change – put without a lock; only `ClaimQuest` compares revisions; crash between two puts | `QuestLifecycle`, `QuestBoard` |
| triage watcher, `dmapproval` | status cache; pending approvals | on `pending_triage` asks an LLM, perhaps a DM, and calls `TriageQuest` | an answer against a deadline, a DM who decides by the API meanwhile | `TriageDesk` |
| `questbridge` | `questCache`, `escalatedAt`, `activeLoops`, KV map `QUEST_LOOPS` | dispatch a started quest to an agentic loop; apply its result; clarifications, escalation sweep, decomposition; wait for knowledge sources | at-least-once messages, results of an earlier attempt, crash between publish and mapping, paused board | `QuestBridge`, `Briefing`, `Knowledge` |
| `questdagexec` | DAG node states, one event loop | assign ready nodes, let the lead review them, retry, triage, roll up, escalate, clean up | partial failure of a clean-up; nodes waiting for members; an operator's cancel | `TaskGraph`, `DagExec` |
| `bossbattle` | status cache, `redTeamPending`, `activeBattles` | start a battle on review, wait for the red team, safety sweep, verdict | verdict puts a snapshot taken minutes before; three sources may start the same battle | `BossBattle`, `Review`, `Judging` |
| `redteam` | status cache, `pendingReviews`, timeout goroutines | post and link a red-team quest, signal findings or skip, time out | timeout against late answer; signals against verdicts, operators | `RedTeam`, `Review` |
| `agentprogression` | status cache, a mutex per agent | XP and release on completion, penalty and cooldown on failure, release of orphans, peer reviews | two watchers put whole copies of one agent | `Progression` |
| `autonomy` | a tracker and a timer per agent | heartbeat, cooldown, claim of suggested quests | goroutines of one agent; a claim decided on old reads | `Heartbeat` |
| `boidengine` | caches of agents, quests, guilds | score and rank, suggest, advise on guilds | what the caches hide nobody takes | `Flock` |
| `partycoord` | caches, active parties | form a party, claim for it, start | a claim missed by both of two goroutines | `PartyFormation` |
| `guildformation` | guilds and members in memory | found, join, leave, apply, review, disband, quorum, deadline | checks outside the mutex | `GuildFormation` |
| `tokenbudget`, `boardcontrol` | hourly ledger; pause flag and key | record, trip, roll; pause, resume, change the budget | counters shared without a lock; flag and key apart | `Treasury` |
| `agentstore` | inventories, effects | buy, use, merge of watched entities | memory and entity changed in two parts; late copies come back | `AgentStore` |
| `questtools`, `executor` | explores under way | run the tool calls of a loop, start sub-agents | calls that come again; answers that never come | `ToolDesk` |
| `cmd/sandbox` | git worktrees and branches | create, write, commit, merge, clean up | a merge that is reported and did not bring the work | `Workspaces` |
| `semsource` | readiness of graph sources | poll, gate, route queries, summaries | a gate that holds back the watch | `Knowledge` |
| `service/api` | DM sessions known in memory; otherwise none | create, claim, start, submit, complete, fail, abandon, cancel, DM intervention and triage, peer reviews, DM chat | the same entities, written without compare-and-swap from HTTP handlers | `FrontDesk`, `PeerDesk`, `Chat`; parts in `Treasury`, `TriageDesk`, `AgentStore`, `Knowledge`, `Review` |
| `domain`, `graphclient` | the entities | encode, decode | two functions list every field by hand | `EntityCodec` |
| `promptmanager`, `dmworldstate`, `dmpartyformation`, `dmsession`, `agentsheet`, `seeding`, `cmd/mockllm`, `cmd/semdragons`, `config`, `componentregistry`, `ui` | views, prompts, statistics, I/O | | no entity another processor guards on | not modelled |

### How they meet

* **Quest entity**: written by all of `questboard`, `questbridge`, `bossbattle`, `redteam`,
  `questdagexec`, `autonomy`, `partycoord` (through the board) and the API. Its status is the control
  state of the system.
* **Agent entity**: `status` and `current_quest`, written by the board's claim and release,
  `bossbattle` (`in_battle`), `agentprogression`, `autonomy`, `agentstore` and the API.
* **Watches** carry every put to `questbridge` (transition into `in_progress`), `bossbattle` and
  `redteam` (into `in_review`), `agentprogression` (into `completed`, `failed`), the triage
  watcher (into `pending_triage`), `questdagexec` (sub-quests), `partycoord` and `boidengine` (posted
  quests and idle agents), `autonomy` and `agentstore` (agents).
* **Messages**: `questbridge` publishes a task for an agentic loop and consumes its completion
  from a durable stream, at least once; the loop puts tool calls on a stream that `questtools`
  consumes; `boidengine` publishes suggestions to `autonomy`.
* **Calls**: `questbridge` and `bossbattle` call the sandbox over HTTP; everybody who spends tokens
  calls the ledger, which calls `boardcontrol`, whose flag `questbridge` and `autonomy` read.

### What makes them correct

* A quest makes only moves of its lifecycle (`docs/03-QUESTS.md`), is held exactly while it is
  worked on, and gets all its attempts.
* Of two claims of one posting at most one wins, whoever makes them; dependencies ran first.
* An agent points only at a quest it holds, and does not stay busy for ever; its timer never dies.
* A loop result is applied to the attempt it belongs to, once; no quest in progress is forgotten.
* Every submission gets a verdict, of that very submission, after its red team has answered; a verdict
  says what the judges said.
* Every end of a quest is paid for once, every sale stays sold, a spent budget stops the board.
* A decomposed quest is executed in the order of its DAG and comes back with a result or to the DM;
  whoever is handed a node is told what it builds on, and its branch begins with it.
* What one put writes, no later put of another field erases.

`PROJECT.json` lists the hazards behind these at their lines, with the properties that cover them.

## Modules

```
QuestLifecycle      abstract: which status may follow which
    ^ refined by
QuestBoard          questboard/handler.go, one step per KV access
    MCQuestBoard    instances        QuestBoardProofs   theorems

ReviewStore         the entities and watches that a review reads and writes
    ^ extended by
BossBattle   RedTeam    the two processors
    ^ extended by
Review              both, with agents, operators, agentprogression and restarts
    MCReview        instances        ReviewProofs       theorems

QuestBridge         questbridge, one step per KV access, and what surrounds it
    MCQuestBridge   instances        QuestBridgeProofs  theorems

TaskGraph           abstract: what the execution of a DAG promises
    ^ refined by
DagExec             questdagexec: the event loop, its puts, its events, the members
    MCDagExec       instances        DagProofs          theorems

Heartbeat  Progression  GuildFormation  PartyFormation  TriageDesk  Treasury  AgentStore
EntityCodec  Flock  Workspaces  FrontDesk  PeerDesk  ToolDesk  Chat  Briefing  Judging  Knowledge
    ^ extended by
Town                the components around the board, one per behaviour
    MCTown          instances
    MCToolDesk      an instance of ToolDesk alone

AgentProofs         theorems about Heartbeat, AgentStore, Progression and Workspaces
DeskProofs          theorems about PeerDesk, TriageDesk and Chat
ServiceProofs       theorems about Treasury, Knowledge, GuildFormation, ToolDesk, FrontDesk
                    and Briefing
ScoringProofs       theorems about Judging and Flock
```

### QuestBoard

State: `quest` and `agent` are the bucket; `call[c]` is a handler in flight, `Callers` the number of
handlers that may be; `notify` the `notifyDependents` goroutines that have been spawned; `finished` a
history variable. A handler's first step reads what it reads and computes the private copy; each
further KV access (release of the holder, put of the quest, compare-and-swap) is a step of its own
(`Continue`), so that between the read of a copy and its put anything may happen. `ClaimQuest` is four
steps: the agent, the quest with its revision, the compare-and-swap, the agent again. The guards are
the early returns of the code. What a guard reads of an entity is kept; titles, outputs, traces and
timestamps are not. Tier, skill, party-size and permission checks do not change during a run and are
constants (`Qualified`, `PartyFit`, `Decomposers`). A revision is modelled by what it is for: `fresh`
is lost with any put of that quest.

Worth knowing when reading it: `PostSubQuests` puts the parent as it read it, because
`domain/graphable.go` has no triple for `SubQuests`; `PostQuestChain` posts without dependencies and
fills them in by a second pass, whose put undoes a claim made in between; `FailQuest` never reposts a
party's quest; `RepostForRetry` looks at nothing: it brings back to the board what is completed, and
what is no party's, so `QuestLifecycle` has an edge to `posted` from everywhere. What the abstract
machine still forbids is a worker where nothing was posted, a verdict on what nobody worked on, and that
a completed quest is failed, escalated or worked on without being posted again.

### ReviewStore, BossBattle, RedTeam, Review

`ReviewStore` has the quests under review, the red-team quests, sub-quests and agents, and one queue
per watch: a put appends to the queue, the processor's step takes its head. `BossBattle` models
`handleQuestStateChange` (signal first, then transition), the sweep in its two steps (`Range` hands
out an entry, later it is deleted), the battle goroutine with its snapshot, and the marking of the agent
after the goroutine was launched. `RedTeam` models posting, linking (read and put apart), tracking,
the timeout goroutines and the two signals with their bounded compare-and-swap loops. `Review` composes
them by shared variables and adds what surrounds them: agents that claim and submit, red-team
agents, `agentprogression`'s release of the holder of a finished quest, an operator failing quests
through the API, and a restart that clears every memory and replays the watches. `disturbed` is a history
of the quests whose review was cut into, in the three ways the code leaves open: redteam's put of a link,
last-writer-wins on an old copy, takes back a submission that came after its read; the API fails a quest in
review; the safety sweep starts a battle with an entry that the watch has taken meanwhile. The
properties of battles say what holds of a quest until that happens.

### QuestBridge

State: `quest` and `agent` are the bucket, `questLoops` the bucket `QUEST_LOOPS`, `run` the agentic loops
with their results on the durable stream, `feed` what the watch has still to deliver; `questCache`,
`escalatedAt` and `activeLoops` are the maps in memory. The five goroutines (watch, completions, sweep,
answer, resume) each hold a `job`: the KV accesses still to make, in order, with the copy that a put will
put. So a dispatch is the sequence `Dispatch`, a result ends with `CleanUp`, and every other worker may
step in between. `ApplyResult` is the guard and the outcomes of `completeQuest` and the guard of
`failQuest`; `FailQuest` the call of the board, which reads the quest again, and the fallback when it
refuses. `Restart` empties the memory and every job, keeps the loops and their results, fills the cache as
the watch does before its nil sentinel, and reconciles. A publish may fail, an acknowledgement may be
lost. Claims, ends of attempts by operators and judges, and approvals are one step each: their own
interleavings are those of `QuestBoard` and `Review`.

`hurried`, chosen in the initial state from `Hurries`, says whether others act within the few KV
accesses of a dispatch or of the application of a result. With it every interleaving is there; without it
these two do not overlap, with each other or with operators, which is what loops of minutes and KV accesses
of milliseconds make likely but the code does not enforce. Only `MappedQuestsEnd` needs the restriction:
the clean-up after a late result of an earlier attempt deletes the mapping by quest, and within the
next dispatch it deletes the new one.

### TaskGraph, DagExec

`TaskGraph` is what `questdagexec/types.go` promises in prose: a task starts only when all it depends on
is done, done tasks stay done, the result is delivered when all are done. `DagExec` is the processor: `dag`
is `dagCache`, `saved` the state persisted on the parent, `sub` and `parent` the quest entities, `feed` the
events the watch has put into the one channel, `leads` and `synthesis` the loops of the lead. A handler
changes `dag` at once; its calls of the board and its puts are queued in `todo` and made one at a time, so
that members, operators and a crash come in between. `rollup` is the copy of the parent that is read to
add the metrics and put later, last-writer-wins. `setting` is a configuration and the one kind of mishap
that may happen in a behaviour: a failed publication, a redelivered result, a crash, an operator's cancel.

### The components around the board

Each is one component with the rivals its hazards need, and models the entities it shares by what the
guards read of them. `Town` puts them side by side: the first step of a behaviour chooses the
component, and the others stay where they began. So its states are the sum of theirs, no product,
and one run asks them all. A property of one component holds in the initial state of the others, and a
component's fairness asks for nothing there, because none of its fair steps is enabled.

| module | state and steps | rivals and faults |
|---|---|---|
| `Heartbeat` | one agent's `tracker` with its timer, `evaluation` goroutines with the copy each decides on; `Fire`, `HandleSuggestion`, cooldown, claim as read – read – compare-and-swap – put of the agent | watch updates and suggestions that reset the timer, rival claims, pauses, stopping |
| `Progression` | `people`, the handlers of the two watchers between read and put, `lastSeen`; XP and levels by the code's formulas | replayed puts, reopened quests, quests that nobody holds, reviews, orphans of lost claims, reads and puts that fail, restarts |
| `GuildFormation` | `guild` in memory under its mutex, `agentGuilds`, `chores` still to do outside the mutex | overlapping joins and reviews, the deadline, disbanding |
| `PartyFormation` | the quest and its dependency, idle agents, the caches and a `worker` per goroutine | the two goroutines, busy agents, an index that comes late, short recruitment, errors at every access, reposts, restarts |
| `TriageDesk` | the quest, the watcher as `clerk`, an `approval` under way, the API's read and put | three DM modes, failing LLM, timed-out approval, restarts |
| `Treasury` | hour, counters, saved total, the budget's key, the pause's key and flag | recorders that cross the limit together, the hour, puts that fail or are not answered, operators, restarts |
| `AgentStore` | the entity, the `inventory` in memory, `till` calls between their parts | another processor's put, late watch entries, a failing publish and its retry, restarts |
| `EntityCodec` | one stored entity; the two functions of every type as tables of predicates | every field set in turn by a read – change – put |
| `Flock` | entities, entries not yet delivered, caches, last suggestions | lagging watches, changes of every entity, restarts |
| `Workspaces` | quests, branches, worktrees, the main branch, a merge in two halves | clashing work, commits that fail unseen, clean-up, restarts of sandbox and backend, hang-ups |
| `FrontDesk` | quests, agents, requests as lists of KV accesses to make | overlapping requests, crashes |
| `PeerDesk` | reviews, drafts between read and put, who was shown what | both sides at once, one side twice |
| `ToolDesk` | the stream of calls, the desk, explores and sub-agents, completions | garbled calls, failed publications, restarts |
| `Chat` | sessions stored and in memory, requests through their tool rounds to the compare-and-swap | simultaneous turns, eviction, expiry, lost acknowledgements, restarts |
| `Briefing` | sub-quests from the two puts of their posting to the letter a start assembles from parent, siblings, party and guild | failing reads and puts, repeated starts, late letters |
| `Judging` | a battle from its criteria and judges to the verdict | every answer an LLM may give, in hundredths |
| `Knowledge` | the gate, polls, ready flags, routed queries, summaries | services that come, index and fail as they like |

## Runs

Seven runs pass, five end in a violation that the code really has.

| run | question | answer |
|---|---|---|
| `board_serial` | With one handler at a time, and a process that dies between any two of its puts, does an agent point only at a quest it holds (`NoDanglingAssignment`), and does a quest make only moves of its lifecycle (`ImplementsLifecycle`)? | yes |
| `board_concurrent` | With two handlers interleaved at every KV access: is a quest held exactly in the statuses in which somebody works on it (`HolderMatchesStatus`), does a solo quest fail only when its attempts are used (`RetryBudgetHonoured`), is it held only after its dependencies were completed (`DependenciesRanFirst`), does a claim that wins change exactly the posting it read (`ClaimLosesNothing`)? | yes |
| `review` | Two rounds of review of a party's quest: a defeat fails the parts too (`DefeatFailsParts`), every submission gets its verdict (`JudgedEventually`) | yes, without restarts and operators |
| `review_faults` | A quest that was attempted before, watches that lag, a restart, an operator, human judges and the safety sweep: at most one battle is fought over a quest (`OneBattle`), a verdict is of the submission that is stored (`JudgesStoredSubmission`), a quest that waits for its red team always has a timer that will answer (`WaitIsTimed`) | yes, the first two until one of the three cuts into the review |
| `questbridge` | A loop is started only for a quest that entered `in_progress` since the last one was (`NoSpuriousDispatch`); an escalated quest is ended or answered (`EscalationsEnd`); a quest with a loop mapped to it leaves `in_progress` or is decomposed, unless somebody hurries (`MappedQuestsEnd`) | yes |
| `dag` | No member is on two nodes (`NoDoubleBooking`), node states agree with the sub-quests (`NodesTrackSubQuests`), without crashes, redeliveries and operators the execution is one of `TaskGraph` (`ImplementsTaskGraph`), the parent comes back or is escalated (`ParentReleased`) | yes |
| `town` | the components around the board, one behaviour each: below | yes |
| `review_stale_signal` | `ReviewedBeforeJudged`, what `docs` say of a review | violated: the signal of the first submission's red team survives the defeat, so the second is judged at once |
| `review_fighter` | `FighterFreed` | violated: the agent is marked `in_battle` after the evaluation was launched; a quick verdict frees it first, and it stays marked |
| `questbridge_pause` | `PickedUpOnResume` | violated: the reconciliation on resume only warns about a quest that started while the board was paused |
| `dag_escalation` | `NoWorkAfterEscalation` | violated: a sub-quest cleaned up by the escalation is taken for a failed node and retried |
| `tool_desk_explore` | `ExploresLeaveQuest` | violated: the completion of a sub-agent carries the task ID of the quest, and `questbridge` ends the quest with it |

The properties of `town`:

| property | module | what it says |
|---|---|---|
| `HeartbeatAlive`, `RivalsKeepQuests` | `Heartbeat` | an agent that is not retired has an armed timer or a callback that will arm it; it never takes a quest from a rival, however old the list and the read it decides on |
| `WatchersLoseNothing`, `PaidOnce`, `EndsPaid` | `Progression` | the puts of the two watchers undo none of each other's; no end of a quest is paid twice, however often it is put, reopened and replayed; every end of a quest that somebody holds is paid in the end, unless the process dies or its read or put failed, which is only logged |
| `OneGrantPerDefeat`, `TriageDecided` | `TriageDesk` | a defeat is worth at most one more attempt, whichever of watcher, DM and API decides; a quest in triage is decided without any DM, unless the mode reserves it to people, an approval timed out, or the process died |
| `OverBudgetIsPaused` | `Treasury` | when the hour's budget is spent and nobody is still recording, the board is paused, in the bucket and, unless an operator interfered, in memory; not so where the last attempt to pause failed, which is only logged |
| `PurchasesStay` | `AgentStore` | the inventory in memory holds what was sold and not used |
| `DissolvedForGood` | `GuildFormation` | a guild that was dissolved or disbanded never becomes active again |
| `PartyQuestStarts` | `PartyFormation` | a posted quest for a party is claimed for one, whichever comes last, the quest, its dependency or an idle member; not so where an error ended the last attempt, or only the index of the dependency's artifacts stood against it |
| `FieldsSurvive` | `EntityCodec` | what a put stores is read back, and a read – change – put of another field erases or rounds none of it |
| `WorthySuggested` | `Flock` | once the watches have delivered, the next tick suggests to an idle agent each of the few quests it could take |
| `MergedWorkReaches` | `Workspaces` | a reported merge brought all that was in the worktree, unless the commit before it failed unseen; a branch made for a quest the board let be claimed after it has that work |
| `AssignmentsAgree` | `FrontDesk` | a quest has a holder exactly when somebody works on it, whatever requests overlap; and as long as they come one after another, crashes included, the agent names the quest that names it |
| `ReviewsStayBlind` | `PeerDesk` | no submission is made by somebody who was shown the other side's, as long as a side makes its own one after the other |
| `CallsAnswered` | `ToolDesk` | when desk and explores are through every call was answered, but those of another type, those whose publication failed, and explores cut short |
| `VerdictsHonest` | `Judging` | nothing passes where a human has to judge, against a failed check, or where there was nothing to judge and no LLM was asked |
| `BriefedOnDependencies` | `Briefing` | who is handed a node of a DAG is told the readable work of all it depends on and the lead's answers; only the lead of a party quest is offered decomposition |
| `TurnsKept` | `Chat` | an acknowledged turn stays in its session, in no other, and once unless an acknowledgement was lost |
| `OneQuestWaits` | `Knowledge` | the watch is held back for at most one timeout in its life |

### Bounds, and why they are enough

* **Board**: two quests in a chain, two agents, one party. Two handlers already give every pair of
  handlers in every interleaving; a third can only repeat what one of the two does to a copy. The
  serial run has two attempts and a crash, where reposts and triage happen; the concurrent one write
  errors. What two cannot show is proved for any number.
* **Review**: one quest, two rounds (two red-team quests, two battles), so that what a first round leaves
  behind meets the second. `review` has three tries of a compare-and-swap and watches that lag by one entry,
  which keeps liveness within reach. `review_faults` has the lags: redteam's watch may be four puts behind
  and bossbattle's two, where the link takes back a later submission; so the run meets each of the three
  cuts, and explores nothing beyond the first. It begins after an earlier attempt, with a signal left on the
  quest or without. All three properties are proved for any lag, and after any cut.
* **questbridge**: one quest, started at most twice, two loops: the result of the first may come in the
  second. Two mishaps of pause, redelivery and restart when nobody hurries, none when they do.
* **DAG**: three nodes, of which one needs the two others, and two members, so that a node waits for a
  member. One mishap: failed publication, crash, redelivery, or an operator; retries and triage only
  where they tell something.
* **Town**: two of everything that can meet (goroutines, tills, bills, requests, reviews, calls,
  chatters), three where a quorum or an owner matters, one or two faults. `Progression` has one quest that
  may end in three ways and be put, reopened or replayed twice in all; two quests meet at one agent only
  through its mutex, and are in the proofs. `FieldsSurvive` takes every
  field of every type in turn, so its tables are checked whole; its reader may interpose any of six
  fields.

Type invariants are checked by the smaller instances while a module is written and are proved where
there are proofs; the runs named above spend their properties on what could be wrong.

### Fairness

Liveness is asked only where the program itself goes on.

* `Review`: each goroutine of the process (watch, timers, battles, marking, sweep, the release of an
  agent that was owed it). Agents, operators and human judges owe nothing.
* `QuestBridge`: watch, completions, sweep, the steps of an answer and of a resume, and the end of a loop,
  which has a timeout. The DM, agents and operators owe nothing; an escalated quest is ended by the sweep.
* `DagExec`: the event loop; members make progress (strongly, because mishaps may take a step away for a
  while); the DAG's timeout fires when nothing else ends it.
* `Heartbeat`: the watch, the passing of a cooldown, and the goroutines together.
* `Progression`, `PartyFormation`, `TriageDesk`: their workers. The triage watcher waits for an LLM and for
  a DM, with a deadline each, so that nobody has to answer.
* All others are safety only.

Stopping is allowed (`CHECK_DEADLOCK FALSE`): a board without postings, a quest that failed for good, or
spent bounds are proper ends.

## Proofs

Eight modules. Each theorem has its inductive invariant, one lemma per action or group of actions of
one shape, and no assumption but those the modules state of their constants, with exceptions that are
written in the theorems themselves, because without them the properties are false of the code:
`LifecycleImplemented` and `NeverDangling` have the hypothesis that one handler runs at a time
(`SoleCaller`), and `NeverDangling` that writes do not fail, as in the serial run. All hold for any number
of entities, goroutines, faults and retries, and any lag of a watch. Where a property excepts something (a
review that was cut into, a pause or a commit that failed, a side with two submissions under way), the
theorem proves it with that exception and no other.

| module | theorem | property |
|---|---|---|
| `QuestBoardProofs` | `TypeCorrect`, `HolderAlwaysMatches`, `BudgetAlwaysHonoured`, `DependenciesAlwaysRanFirst`, `ClaimsLoseNothing` | `TypeOK` and the properties of `board_concurrent` |
| `QuestBoardProofs` | `LifecycleImplemented`, `NeverDangling` | the properties of `board_serial`: `QuestBoard` refines `QuestLifecycle`, `NoDanglingAssignment` |
| `ReviewProofs` | `WaitAlwaysTimed`, `BattlesAlwaysSingle`, `StoredAlwaysJudged` | the properties of `review_faults`: `WaitIsTimed`, `OneBattle`, `JudgesStoredSubmission` |
| `ReviewProofs` | `DefeatAlwaysFailsParts` | `DefeatFailsParts`, with restarts, operators and sweeps too |
| `QuestBridgeProofs` | `BridgeTypeCorrect`, `NeverSpuriouslyDispatched` | `TypeOK`, `NoSpuriousDispatch` |
| `DagProofs` | `DagTypeCorrect`, `NodesAreTracked`, `NeverDoubleBooked`, `TaskGraphImplemented` | `TypeOK`, `NodesTrackSubQuests`, `NoDoubleBooking`; `DagExec` refines `TaskGraph` |
| `AgentProofs` | `HeartbeatsGoOn`, `RivalsAlwaysKeep` | `HeartbeatAlive`, `RivalsKeepQuests` |
| `AgentProofs` | `PurchasesAlwaysStay` | `PurchasesStay` |
| `AgentProofs` | `NothingLost`, `AlwaysPaidOnce` | `WatchersLoseNothing`, `PaidOnce` |
| `DeskProofs` | `ReviewsAlwaysBlind`, `OneGrantAlways`, `TurnsAlwaysKept` | `ReviewsStayBlind`, `OneGrantPerDefeat`, `TurnsKept` |
| `ServiceProofs` | `OverBudgetAlwaysPaused`, `OneQuestAlwaysWaits`, `DissolvedStaysDissolved` | `OverBudgetIsPaused`, `OneQuestWaits`, `DissolvedForGood` |
| `ServiceProofs` | `CallsAlwaysAnswered`, `AlwaysBriefedOnDependencies`, `AssignmentsAlwaysAgree` | `CallsAnswered`, `BriefedOnDependencies`, `AssignmentsAgree` |
| `AgentProofs` | `MergedWorkAlwaysReaches` | `MergedWorkReaches` |
| `ScoringProofs` | `VerdictsAreHonest`, `WorthyAreSuggested` | `VerdictsHonest`, `WorthySuggested` |

**QuestBoard.** The invariants speak of stored quests, but what is stored next is a copy some handler made
earlier, so they are not inductive. The inductive invariant is

```
IInv == TypeOK /\ StoredGood /\ CopiesGood /\ AllCasReady /\ AllNamed /\ History
```

`StoredGood` and `CopiesGood` ask the same three conditions (holder, budget, dependencies) of every
stored quest and of every copy in flight. `AllCasReady` ties the copy of a claim to the stored quest
for as long as its revision is current, which is what `ClaimsLoseNothing` needs. `AllNamed` says that a
call names the quest and agent it will write; `History` that whatever is completed is in `finished`.
`EmitStep` and `UpdateStep` carry the common shape of a put and of a read, and each action's lemma shows
only that the copy it computes is good.

The two properties of the serial run need more of a call than that its copies are good: what it has
still to put must be what the lifecycle allows of what is stored, in the order of the puts. `OrderlyIInv`
adds it (`AllOrderly`: a put that is due moves the stored quest along an edge, and each later one
moves the copy before it), and `AttachedIInv` that each put keeps the holder, has none, or comes after the
holder was freed (`AllAttached`). Both are false with a second handler, whose copy may be as old as it
likes; with one, a crash only drops what was still to be put.

**QuestBridge.** A loop is started long after the entry of the watch that caused it, and the cache may have
been refreshed in between, so no invariant on the mapping or the cache suffices. `BridgeIInv` counts: the
loops started for a quest, the rises to `in_progress` that stand in the queue of the watch (`Rises`), and the
dispatch under way, together, are at most the entries of that quest into `in_progress` (`AllCovered`). That
needs the cache followed by the queue to end in the stored status (`SeenLast`), every copy in a job to be of
the status it was read in (`JobsSound`), and results to be of loops that were started (`RunsSound`, `Taken`).

**DagExec.** `DagIInv` has three parts. `Shape` is typing, with what each step still to do carries. `Regular`,
while nothing but lost publications and time-outs happens (`Benign`), says that the loop's steps that leave the
DAG come after the put that ends the parent, and that a copy of the parent agrees with it on
whether it is in progress. `Tracking`, while the loop is engaged, ties each node to its sub-quest through
what is between them: the events on the channel and the steps still to make, whichever of them are the last
word on the node. `GraphIInv` adds that whatever was assigned has its dependencies completed
(`Founded`), and then every step is one of `TaskGraph` or a stutter.

That no member is on two nodes holds with crashes and operators too, so it has an invariant of its own,
`BookingInv`. Its heart is `Apart`: two sub-quests that are in progress, or may be again without being
assigned (`Alive`: in review, in triage, or with an answer of the lead or an event on the way that brings
them back), have two holders. Only an assignment makes a sub-quest alive or gives it a holder; every other
step keeps `Apart` whatever the loop believes (`Kept`). An assignment goes by the loop's own states, and
there `Tending` is needed: while the process that started the DAG executes it (`Followed`), each node's state
suits its sub-quest's status, the events queued for it, which follow one another as `Succ` says, the tasks
of the lead, and the step at work. So whoever holds a sub-quest that is alive is assigned to its node in
the loop's books and is passed over (`HolderTaken`). After a crash the party is gone and nothing is assigned.
The exception, which the property names, is a result of the lead that is delivered twice: it may bring back a
sub-quest that is over, whose member is on another by then.

**Review.** Whom a timeout answers for is written on the red-team quest, so the invariant says that a
red-team quest once posted keeps its target (`ReviewsKept` of every step), that what is timed is posted
(`TimedArePosted`), and that the watch links the red-team quest to the quest it is about
(`LinkIsPosted`).

A battle starts when the watch of `bossbattle` sees a quest enter review, which may be long after it did. The
invariant of the battles (`BattleInv`) is about every quest whose review nobody has cut into (`Calm`: not in
`disturbed`). It reads the cache and the queue as one sequence (`Known`) and says that it enters
review once more at most, and then for good, with the attempt that is stored (`EntersOnce`); while
a battle over the quest runs or waits for the red team it does not leave review at all (`Settling`), so that
no second battle starts and nobody but the verdict takes the quest out of review. Each battle has its
snapshot in agreement with the stored attempt and, once it fails the parts, all but those it has still to fail
failed (`FightSound`). Every step keeps that however far the watches lag: a put of redteam's link that
takes back a later submission, a failure by the API under the judges, and a second start by the sweep are the
three that do not, and each of them puts the quest among the disturbed, for good.

**Heartbeat.** The timer is replaced under the running callback, so what is kept is not which callback it is
but that there is one that was a timer's; and that no timer and a zero interval are the same thing.

**TriageDesk.** Every copy was made of a quest in triage, which had one defeat more than attempts granted,
and the count of defeats never goes down; so an old copy grants no more than the defeat it was made after.

**AgentStore.** Memory never loses against receipts, because copies are merged upwards, and a restart begins
both anew from the same entity.

**Progression.** A copy that will be put into the agent that held the quest is that agent's entity, because the
mutex keeps the other handler out until the put (`CopiesFresh`). The payments of a quest, with the one being made
(`Payments`), are at most the ends that were due. That needs the feed: later puts know of no fewer ends, and
of more where they say that a quest seen open has ended (`PutsInOrder`); a put that says open knows of all that
was paid, and of fewer ends than are due by now if the quest has ended since (`OpenPuts`); so a quest
the watcher last saw open has an end to be paid wherever it ended (`SeenOpen`). A replay says open of no quest
that ended, so a restart makes no end fresh again.

**Treasury.** The counter may be zeroed between an addition and the look at it, and who crosses the limit
need not be who sees it crossed. Where the counter is over the limit, the board is paused, or the last attempt
to pause it failed, or somebody has still to look or is about to pause it (`Watched`); and the last undelivered entry is what the bucket says
(`LastWord`).

**Knowledge, GuildFormation.** The polls made and those the present wait may still make are at most
one timeout's; and no second wait begins, since a gate nobody waits at is open or untouched. Each step of the
guilds, whatever it saw before, keeps an inactive guild inactive.

**ToolDesk.** A call is on the stream until it is acknowledged, and by then it has its answer, has lost it
in a way the property names, or has an explore that will see to it (`Traced`, `AtHand`).

**FrontDesk.** That holders are right whatever overlaps is asked of every copy of every request too. That
agents and quests agree is false once requests overlap, and between two puts of one request it holds only by
their order. So while nothing has overlapped the invariant (`Serial`) says that at most one request is
served, and which of nine lists of accesses it has left (`Doing`); each says who may be on the quest that is
to be put and what the copy of the agent to be put says. A crash drops the list and leaves the rest, which
is why the agreement itself has to hold before every access.

**Briefing.** A letter is written from what is stored when it is written, long after the start it answers. So what
was true when the quest was handed out must be true still: the parent has its DAG (`StartsFounded`), the copy
its node (`PlacedSound`), although strays are claimed and copies put over them.

**PeerDesk.** While its author's submission is under way a copy holds no more than what is stored, and only
then could the other put take it back (`CopiesAgree`). That is so as long as each side makes its submissions
one after the other (`OneAtATime`); the reviews where a side did not are `hasty`, and left out.

**Workspaces.** A dependency that is completed and indexed changes no more; others bring its work into main
only if it had been there when their branch was made; so a branch made after that has all there will be.
What a reported merge left behind because the commit before it failed is `uncommitted`, and left out.

**Judging.** The property speaks of the verdict alone; the invariant adds that a battle under way judges by at
least one criterion, weighs shares of one, and has a human among its judges where its level asks for one
(`Prepared`). That the quality is a share of one needs the weighted sum of an answer's scores,
which is a fold: `Total` of parts that are each at most a hundred times their weight is at most a hundred
times the total weight (`TotalWithin`). The fold is unrolled one element at a time (`PartialSplit`), and
the induction on the size of the index set is by the least size at which the claim would fail (`Induction`).
The assumption on the catalogs is that of `src/domains`: weights are shares of one, and each criterion asks
for something.

**Flock.** A quest is suggested from caches, so the invariant says what ties a cache to the entities: the last
undelivered entry of a key, or the cache where none is left, is what is stored (`Trails`); an agent is on a
quest if and only if the quest has it (`Owned`); nothing is queued before the component runs (`Asleep`).
Once nothing is undelivered the tick computes from the entities themselves, and what the cache hides are
quests nobody can take. A posted quest has nobody on it who would repel others (`NoCrowd`), so its
attraction for an agent of about its tier is positive (`AttractionType`); a sorted enumeration of any
finite set of candidates exists (`Sortable`); and where they are no more than `MaxSuggestionsPerAgent`, the
first so many of it are all of them (`FewForemost`). The assumption on the rules is that of the defaults: no weight negative, and hunger or
caution enough to attract at all.

**Chat.** Turns get numbers once; a request that still tries has its turn, if anywhere, in its own session
and only if an acknowledgement was lost.

Only model-checked:

* Liveness (`JudgedEventually`, `EscalationsEnd`, `MappedQuestsEnd`, `ParentReleased`, `EndsPaid`,
  `TriageDecided`, `PartyQuestStarts`), which is out of the prover's reach.
* `FieldsSurvive`: what there is to show is that the tables of `EntityCodec`, up to seventy rows a kind, agree
  row by row. They have no parameter, so that the run checks them whole and a proof would add nothing.
* The type invariants of `review` and of the components of `town`, beyond the shapes the inductive
  invariants need.

## Where the code and its documents disagree

The five violations are listed with the quoted lines under `findings` in `PROJECT.json`. Smaller things met
while reading, which a reader of the models should know; they are modelled unless it says otherwise.

* **Board**: a chain is posted without dependencies, which a second pass puts later, over a claim made in
  between. The API's claim has no compare-and-swap and counts no attempt; a claim and a defeat both count
  one. `questboard/config.go:43-45` and `triage.go:32` promise a triage timeout that no code has. An
  approval that times out escalates with a context that has expired (`triage.go:222-232`). A quest whose
  decision was under way when the process died stays in triage until a DM takes it. `RepostForRetry` asks
  for no status and brings back a completed quest as well. The option that an approval selects is
  taken as the path of the decision without a check (`triage.go:238-246`); that, and an error of the triage's
  own read or put, are not modelled.
* **Review**: redteam's watch links the red-team quest with a plain put of a copy it read earlier, where
  `docs/02-DESIGN.md:389-390` promises a compare-and-swap. A put late enough takes back a later
  submission, and the quest is judged on what was replaced; or it brings back to review a quest that has
  left it. The API may fail a quest in review under its judges, whose verdict is put over it. The sweep may
  start a battle over a quest the watch starts one for. What the link takes back, the API and the sweep
  disturb the review, and `review_faults` reaches each of them.
* **Peer reviews**: `docs/04-PARTIES.md:313-314` promises blind submission. The handler
  (`service/api/handlers.go:2429-2563`) lets two submissions of one side overlap; the later put may erase the
  other side's, which then answers again after it was shown the first (`hasty`).
* **Budget**: a pause that fails is only logged (`tokenbudget/ledger.go:195-197`), and the board runs on over
  its budget until tokens are recorded again (`pauseFailed`).
* **Progression**: the cache of statuses is updated before the agent is read and put. When either fails, it is
  only logged, and that end is never paid. Ends of quests without a holder are skipped.
* **Parties**: that a dependency's artifacts were indexed is no transition for `partycoord`
  (`handler.go:709-718`), so a quest the board refused for that alone waits until something else moves. An
  attempt that an error ends leaves the quest posted, and one whose start fails leaves it claimed.
* **DAG**: the metrics of the nodes are added to a copy of the parent that is put before the result is
  submitted, so an operator's cancel in between is undone. The comment "PostSubQuests is all-or-nothing"
  (`questbridge/handler.go:1086`) is not what happens: sub-quests are claimable between their two puts, and
  such a claim is erased. `RecruitMembers` has no caller.
* **Judging**: a battle at the human level whose evaluation times out ends in an automatic defeat, though
  the comment at `bossbattle/handler.go:494-498` says it parks. An answer of the LLM that scores no
  criterion known is dropped together with its failed checks. A quest with red-team findings but without
  output counts as having output.
* **Workspaces**: the commit before a merge may fail unnoticed (`cmd/sandbox/git.go:274-276`); the branch is merged
  as it is and success is reported (`uncommitted`). The sandbox remembers repositories in memory only, so that a clean-up after a restart
  leaves a branch without a worktree, and the quest can never be dispatched again. The quest is marked
  as indexed whatever came of the merge, and the verdict's put may erase the mark. A client that hangs
  up on a clashing merge leaves the repository in the middle of it.
* **Store**: the API calls again when only the event of a sale could not be published, and charges twice.
  A consumable that was used may come back by the merge of a late copy.
* **Knowledge**: a source whose status check failed three times counts as ready for ever. A query whose
  owner is not ready goes to all sources that are.
* **Chat**: a session that memory has forgotten goes on as a new one though its turns are kept for a week. A
  turn whose write was not acknowledged is stored twice.
* **Tools**: an explore that times out is never answered; `decompose_quest`, the review and the
  clarification tools end the loop even when they were refused.
* **Guilds**: the founder's present guild is not looked at when a guild is founded, joining ignores status
  and quorum, and a dissolution does not look at the status again.
* **Agents**: retiring an agent at the API does not release its quest, and a later release un-retires it.
  `agentprogression` takes no lock for orphans. Overlapping pauses and resumes can leave flag and key
  apart.
* **Codec** (by the tables of `EntityCodec`): of a quest, bonus and guild XP, allowed tools, sub-quests,
  deadline and limits are not stored; of an agent, persona, equipment and configuration; `SubQuestMap` of
  a party is written and never read; times lose their fractions, and two effects of one type become one.
* **Suggestions**: a quest that a party completed does not enter the cache of `boidengine`, so its dependents
  are never suggested; red-team quests of the same guild get the bonus that the comment at
  `boids.go:267-277` says they are denied.

## Not modelled

* `promptmanager`, `dmworldstate`, `dmsession`, `agentsheet`, `ui`: views, texts and statistics that no
  guard reads. `seeding` publishes events that nothing consumes. `dmpartyformation` is registered and not
  called. `cmd/mockllm` is a test double; `cmd/semdragons`, `config` and `componentregistry` wire and start.
* Of modelled components, what their entries in `PROJECT.json` name: the auto-pass of `bossbattle` (posting
  replaces the level that would cause it), guild routing and lessons of `redteam`, what tools do in
  `executor`, plain workspaces of the sandbox, catalog and rentals of the store, listings, settings and
  server-sent events of the API, the direct execution path of `executor`.
* Several DAGs of one parent, several replicas of the process: the code runs one.

## Plan

1. `Settings`: the API's updates of the configuration, whose parts are applied before a later one is
   refused, and which may overlap.
2. The errands of `autonomy` (guilds, shopping), the caches of cohesion of `guildformation`, and the lessons
   of `redteam`.
