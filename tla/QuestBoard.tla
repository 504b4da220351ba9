----------------------------- MODULE QuestBoard -----------------------------
(***************************************************************************)
(* The quest board: every operation of processor/questboard/handler.go on  *)
(* the quest and agent entities of the KV bucket.                          *)
(*                                                                         *)
(* A handler reads a whole entity, changes its private copy and puts the   *)
(* copy back.  Only ClaimQuest puts with compare-and-swap on the revision  *)
(* it read; every other put is last-writer-wins (graphclient.go).  So a    *)
(* handler is modelled as a call with one step per KV access: between two  *)
(* steps any other call may run, and whatever it wrote is lost when the    *)
(* copy is put.  Callers is the set of handlers that may be in flight at   *)
(* once: one caller gives the board to one handler at a time, two callers  *)
(* interleave any two handlers at every KV access.                         *)
(*                                                                         *)
(* Data kept: what decides a guard.  Titles, outputs, timestamps, traces   *)
(* and counters are left out.  The checks on fixed attributes (skills,     *)
(* tiers, party size, difficulty) are constants.                           *)
(***************************************************************************)
EXTENDS Naturals, FiniteSets

CONSTANTS
  Quests,          \* quest identifiers a caller may post under
  Agents, Parties,
  None,            \* a nil pointer
  Callers,         \* handlers that may be in flight at once
  Members,         \* [Parties -> SUBSET Agents]
  Lead,            \* [Parties -> Agents]
  Qualified,       \* agent-quest pairs that pass tier, skill and party-required checks
  PartyFit,        \* party-quest pairs that pass lead permission, size and tier checks
  Decomposers,     \* agents whose tier may decompose a quest
  NeedsReview,     \* quests with Constraints.RequireReview
  TriageEligible,  \* triage enabled and difficulty at least MinDifficultyForTriage
  ChainDeps,       \* [Quests -> SUBSET Quests], the depends_on of a chain submission
  MaxAttempts,     \* [Quests -> Nat], as posted or the configured default
  OtherStatuses,   \* agent statuses other processors set while the board runs
  WriteErrors,     \* whether a KV write may fail
  AttemptBound,    \* bound: attempts and maxAttempts stop growing here
  CrashBound       \* bound: process crashes

ASSUME BoardAssumption ==
  /\ None \notin Quests \cup Agents \cup Parties
  /\ Members \in [Parties -> SUBSET Agents]
  /\ Lead \in [Parties -> Agents]
  /\ \A p \in Parties : Lead[p] \in Members[p]
  /\ Qualified \subseteq Agents \X Quests
  /\ PartyFit \subseteq Parties \X Quests
  /\ Decomposers \subseteq Agents
  /\ NeedsReview \subseteq Quests
  /\ TriageEligible \subseteq Quests
  /\ ChainDeps \in [Quests -> SUBSET Quests]
  /\ MaxAttempts \in [Quests -> Nat \ {0}]
  /\ OtherStatuses \subseteq {"idle", "in_battle", "cooldown", "retired"}
  /\ WriteErrors \in BOOLEAN
  /\ AttemptBound \in Nat
  /\ CrashBound \in Nat

VARIABLES
  quest,     \* quest entities of the bucket
  agent,     \* agent entities of the bucket, the fields the board writes
  call,      \* the handler each caller has in flight
  notify,    \* completed quests whose notifyDependents goroutine has not run
  finished,  \* history: quests that were completed at some time
  crashes    \* number of crashes so far

vars == <<quest, agent, call, notify, finished, crashes>>

Statuses == {"unposted", "posted", "claimed", "in_progress", "in_review",
             "completed", "failed", "escalated", "pending_triage"}

\* Someone holds the quest, or held it until it was completed.
Held == {"claimed", "in_progress", "in_review", "completed"}

AgentStatuses == {"idle", "on_quest", "in_battle", "cooldown", "retired"}

\* domain.Quest, the fields some guard of the board reads.
QuestRec ==
  [status : Statuses, claimedBy : Agents \cup {None}, partyID : Parties \cup {None},
   attempts : Nat, maxAttempts : Nat, dependsOn : SUBSET Quests]

AgentRec == [status : AgentStatuses, current : Quests \cup {None}]

\* A put a handler has still to do: the quest and the copy it will write.
Put == [quest : Quests, copy : QuestRec]

\* pc: what the handler does next.  agent: whom it will free or mark busy.
\* puts, after: quest entities to put, and those to put once puts is empty.
\* fresh: no put on the quest since the handler read it, which is what equality
\* of KV revisions means.  spawn: start notifyDependents at the end.
Call ==
  [pc : {"idle", "claiming", "cas", "mark", "free", "put"},
   quest : Quests \cup {None}, agent : Agents \cup {None},
   puts : SUBSET Put, after : SUBSET Put, fresh : BOOLEAN, spawn : BOOLEAN]

Idle == [pc |-> "idle", quest |-> None, agent |-> None, puts |-> {}, after |-> {},
         fresh |-> FALSE, spawn |-> FALSE]

Unposted ==
  [status |-> "unposted", claimedBy |-> None, partyID |-> None, attempts |-> 0,
   maxAttempts |-> 0, dependsOn |-> {}]

Init ==
  /\ quest = [q \in Quests |-> Unposted]
  /\ agent = [a \in Agents |-> [status |-> "idle", current |-> None]]
  /\ call = [c \in Callers |-> Idle]
  /\ notify = {}
  /\ finished = {}
  /\ crashes = 0

-----------------------------------------------------------------------------
(* KV access.                                                              *)

\* The calls after a put on q: whoever read q before holds an old revision.
Outdate(q, cs) ==
  [c \in Callers |-> IF cs[c].quest = q THEN [cs[c] EXCEPT !.fresh = FALSE] ELSE cs[c]]

\* EmitEntity, EmitEntityUpdate: write the copy whatever is stored now.
EmitEntityUpdate(q, copy, cs) ==
  /\ quest' = [quest EXCEPT ![q] = copy]
  /\ call' = Outdate(q, cs)
  /\ finished' = IF copy.status = "completed" THEN finished \cup {q} ELSE finished

\* A handler that has quests to put, and later others; q is the quest it is about, if one.
Putting(q, puts, after) ==
  [pc |-> "put", quest |-> q, agent |-> None, puts |-> puts, after |-> after,
   fresh |-> FALSE, spawn |-> FALSE]

\* The call a handler becomes once it has read quest q and computed its copy.
\* With a holder h to release, the agent is written before the quest.
Updating(q, copy, h) ==
  [pc |-> IF h = None THEN "put" ELSE "free", quest |-> q, agent |-> h,
   puts |-> {[quest |-> q, copy |-> copy]}, after |-> {}, fresh |-> FALSE, spawn |-> FALSE]

\* Common shape of the handlers that read one quest and put it back.
Update(c, q, copy, h) ==
  /\ call[c].pc = "idle"
  /\ call' = [call EXCEPT ![c] = Updating(q, copy, h)]
  /\ UNCHANGED <<quest, agent, notify, finished, crashes>>

\* An identifier nobody has posted under or is about to post under.
Unused(q) ==
  /\ quest[q].status = "unposted"
  /\ \A c \in Callers : \A w \in call[c].puts \cup call[c].after : w.quest # q

-----------------------------------------------------------------------------
(* Posting.                                                                *)

\* PostQuest's defaults.
NewQuest(q, deps) ==
  [Unposted EXCEPT !.status = "posted", !.maxAttempts = MaxAttempts[q], !.dependsOn = deps]

\* PostQuest: one put of a new entity.
PostQuest(c, q, deps) ==
  /\ Unused(q)
  /\ \A d \in deps : quest[d].status # "unposted"
  /\ Update(c, q, NewQuest(q, deps), None)

\* PostSubQuests: posts the children, then puts the parent copy read at the start.  The
\* SubQuests it sets on that copy have no triple in domain/graphable.go, so the put
\* stores what was read.
PostSubQuests(c, parent, children, decomposer) ==
  /\ call[c].pc = "idle"
  /\ quest[parent].status \in {"claimed", "in_progress"}
  /\ decomposer \in Decomposers
  /\ children # {}
  /\ \A q \in children : Unused(q)
  /\ call' = [call EXCEPT ![c] = Putting(
       parent,
       {[quest |-> q, copy |-> NewQuest(q, {})] : q \in children},
       {[quest |-> parent, copy |-> quest[parent]]})]
  /\ UNCHANGED <<quest, agent, notify, finished, crashes>>

\* PostQuestChain: a first pass posts every entry without its dependencies, a second
\* pass puts the posted copies again with the dependencies filled in.
PostQuestChain(c, entries) ==
  /\ call[c].pc = "idle"
  /\ entries # {}
  /\ \A q \in entries : Unused(q) /\ ChainDeps[q] \subseteq entries
  /\ call' = [call EXCEPT ![c] = Putting(
       None,
       {[quest |-> q, copy |-> NewQuest(q, {})] : q \in entries},
       {[quest |-> q, copy |-> NewQuest(q, ChainDeps[q])] :
          q \in {e \in entries : ChainDeps[e] # {}}})]
  /\ UNCHANGED <<quest, agent, notify, finished, crashes>>

-----------------------------------------------------------------------------
(* Claiming.                                                               *)

\* validateAgentCanClaim, the part that depends on the agent's state.  A cooldown
\* may or may not have expired.
AgentFree(a) ==
  /\ agent[a].status \notin {"retired", "in_battle"}
  /\ agent[a].current = None

\* Mutant: a dependency counts once somebody has taken it.
DependenciesMetWhenTaken(rec) ==
  \A d \in rec.dependsOn : quest[d].status \notin {"unposted", "posted"}

\* checkDependenciesMet: every quest in DependsOn is completed.  (With
\* RequireArtifactIndexing the claim is refused longer, until artifacts are indexed.)
DependenciesMet(rec) == \A d \in rec.dependsOn : quest[d].status = "completed"

\* The gates a quest must pass before anyone may claim it.
Claimable(rec) ==
  /\ rec.status = "posted"
  /\ DependenciesMet(rec)
  /\ rec.attempts < AttemptBound

\* A party's quest may be claimed by members of the party only.
MemberGate(rec, a) == rec.partyID # None => a \in Members[rec.partyID]

Claimed(rec, a) ==
  [rec EXCEPT !.status = "claimed", !.claimedBy = a, !.attempts = @ + 1]

\* ClaimQuest, first read: the agent.
ClaimQuest(c, q, a) ==
  /\ call[c].pc = "idle"
  /\ quest[q].status # "unposted"
  /\ AgentFree(a)
  /\ <<a, q>> \in Qualified
  /\ call' = [call EXCEPT ![c] = [Idle EXCEPT !.pc = "claiming", !.quest = q, !.agent = a]]
  /\ UNCHANGED <<quest, agent, notify, finished, crashes>>

\* ClaimQuest, second read: the quest with its revision, its dependencies and party.
ClaimQuestRead(c) ==
  LET q == call[c].quest
      a == call[c].agent
  IN  /\ call[c].pc = "claiming"
      /\ call' = [call EXCEPT ![c] =
           IF Claimable(quest[q]) /\ MemberGate(quest[q], a)
           THEN [@ EXCEPT !.pc = "cas", !.fresh = TRUE,
                          !.puts = {[quest |-> q, copy |-> Claimed(quest[q], a)]}]
           ELSE Idle]
      /\ UNCHANGED <<quest, agent, notify, finished, crashes>>

\* Mutant: the claim is put like any other entity, without compare-and-swap.
ClaimQuestLWW(c) ==
  /\ call[c].pc = "cas"
  /\ \E w \in call[c].puts :
       EmitEntityUpdate(w.quest, w.copy,
         [call EXCEPT ![c] = [@ EXCEPT !.pc = "mark", !.puts = {}]])
  /\ UNCHANGED <<agent, notify, crashes>>

\* ClaimQuest, EmitEntityCAS: the put happens only if the revision is the one read.
ClaimQuestCAS(c) ==
  /\ call[c].pc = "cas"
  /\ \E w \in call[c].puts :
       IF call[c].fresh
       THEN EmitEntityUpdate(w.quest, w.copy,
              [call EXCEPT ![c] = [@ EXCEPT !.pc = "mark", !.puts = {}]])
       ELSE /\ call' = [call EXCEPT ![c] = Idle]
            /\ UNCHANGED <<quest, finished>>
  /\ UNCHANGED <<agent, notify, crashes>>

\* ClaimQuest, last write: the agent copy read at the start, now on the quest.
ClaimQuestMarkAgent(c) ==
  /\ call[c].pc = "mark"
  /\ agent' = [agent EXCEPT ![call[c].agent] =
                 [status |-> "on_quest", current |-> call[c].quest]]
  /\ call' = [call EXCEPT ![c] = Idle]
  /\ UNCHANGED <<quest, notify, finished, crashes>>

\* ClaimQuestForParty: the lead holds the quest for the party.
ClaimQuestForParty(c, q, p) ==
  /\ <<p, q>> \in PartyFit
  /\ Claimable(quest[q])
  /\ Update(c, q, [Claimed(quest[q], Lead[p]) EXCEPT !.partyID = p], None)

\* ClaimAndStartForParty: the member the DAG executor assigned, straight to in_progress.
ClaimAndStartForParty(c, q, p, a) ==
  /\ <<p, q>> \in PartyFit
  /\ a \in Members[p]
  /\ Claimable(quest[q])
  /\ Update(c, q, [Claimed(quest[q], a) EXCEPT !.status = "in_progress", !.partyID = p],
            None)

-----------------------------------------------------------------------------
(* Working on a quest and finishing it.                                    *)

StartQuest(c, q) ==
  /\ quest[q].status = "claimed"
  /\ Update(c, q, [quest[q] EXCEPT !.status = "in_progress"], None)

\* Mutant: a result is accepted before the quest was started.
SubmitResultUnstarted(c, q) ==
  /\ quest[q].status \in {"claimed", "in_progress"}
  /\ Update(c, q, [quest[q] EXCEPT !.status = IF q \in NeedsReview
                                              THEN "in_review" ELSE "completed"], None)

\* SubmitResult: to review if the quest asks for one, else completed at once.
SubmitResult(c, q) ==
  /\ quest[q].status = "in_progress"
  /\ Update(c, q, [quest[q] EXCEPT !.status = IF q \in NeedsReview
                                              THEN "in_review" ELSE "completed"], None)

\* CompleteQuest: completed, then dependents are notified by a goroutine.
CompleteQuest(c, q) ==
  /\ call[c].pc = "idle"
  /\ quest[q].status \in {"in_review", "in_progress"}
  /\ call' = [call EXCEPT ![c] =
       [Updating(q, [quest[q] EXCEPT !.status = "completed"], None) EXCEPT !.spawn = TRUE]]
  /\ UNCHANGED <<quest, agent, notify, finished, crashes>>

\* Mutant: the holder's name stays on the reposted quest.
RepostedStillHeld(rec, party) == [rec EXCEPT !.status = "posted", !.partyID = party]

\* Back on the board, nobody holding it.
Reposted(rec, party) ==
  [rec EXCEPT !.status = "posted", !.claimedBy = None, !.partyID = party]

\* Mutant: the holder is not freed.
AbandonQuestUnreleased(c, q) ==
  /\ quest[q].status \in {"claimed", "in_progress", "in_review", "escalated"}
  /\ Update(c, q, Reposted(quest[q], None), None)

\* AbandonQuest: frees the holder, drops the party, keeps the attempts used.
AbandonQuest(c, q) ==
  /\ quest[q].status \in {"claimed", "in_progress", "in_review", "escalated"}
  /\ Update(c, q, Reposted(quest[q], None), quest[q].claimedBy)

\* RepostForRetry: whatever the status, a completed quest's too, and whether or not the quest
\* is a party's: questdagexec calls it for every node it tries again.  The party is kept.
RepostForRetry(c, q) ==
  /\ quest[q].status # "unposted"
  /\ Update(c, q, Reposted(quest[q], quest[q].partyID), quest[q].claimedBy)

\* Mutant: the last attempt is not granted.
FailedOneShort(q, rec) ==
  IF rec.attempts + 1 < rec.maxAttempts /\ rec.partyID = None
  THEN Reposted(rec, None)
  ELSE IF q \in TriageEligible /\ rec.partyID = None
       THEN [rec EXCEPT !.status = "pending_triage", !.claimedBy = None]
       ELSE [rec EXCEPT !.status = "failed"]

\* What FailQuest makes of a quest: another attempt, triage, or failed for good.
Failed(q, rec) ==
  IF rec.attempts < rec.maxAttempts /\ rec.partyID = None
  THEN Reposted(rec, None)
  ELSE IF q \in TriageEligible /\ rec.partyID = None
       THEN [rec EXCEPT !.status = "pending_triage", !.claimedBy = None]
       ELSE [rec EXCEPT !.status = "failed"]

FailQuest(c, q) ==
  /\ quest[q].status \in {"in_progress", "in_review"}
  /\ Update(c, q, Failed(q, quest[q]), quest[q].claimedBy)

\* TriageQuest: salvage and tpk grant one more attempt, the other paths end it.
TriageQuest(c, q) ==
  /\ quest[q].status = "pending_triage"
  /\ \/ /\ quest[q].maxAttempts < AttemptBound
        /\ Update(c, q, [quest[q] EXCEPT !.status = "posted", !.maxAttempts = @ + 1], None)
     \/ \E s \in {"escalated", "failed"} :
          Update(c, q, [quest[q] EXCEPT !.status = s], None)

EscalateQuest(c, q) ==
  /\ quest[q].status \notin {"unposted", "completed", "escalated"}
  /\ Update(c, q, [quest[q] EXCEPT !.status = "escalated"], None)

-----------------------------------------------------------------------------
(* The writes of a handler after its reads.                                *)

\* Abandon, repost, fail: the holder is read, made idle and put.
ReleaseHolder(c) ==
  /\ call[c].pc = "free"
  /\ agent' = [agent EXCEPT ![call[c].agent] = [status |-> "idle", current |-> None]]
  /\ call' = [call EXCEPT ![c].pc = "put"]
  /\ UNCHANGED <<quest, notify, finished, crashes>>

\* The rest of a call after one of its puts.
Rest(cl, w) ==
  IF cl.puts # {w} THEN [cl EXCEPT !.puts = @ \ {w}]
  ELSE IF cl.after # {} THEN [cl EXCEPT !.puts = cl.after, !.after = {}]
  ELSE Idle

\* One last-writer-wins put of a quest.
PutQuest(c) ==
  /\ call[c].pc = "put"
  /\ \E w \in call[c].puts :
       /\ EmitEntityUpdate(w.quest, w.copy, [call EXCEPT ![c] = Rest(@, w)])
       /\ notify' = IF call[c].spawn THEN notify \cup {w.quest} ELSE notify
  /\ UNCHANGED <<agent, crashes>>

\* notifyDependents: lists the board, then puts every posted quest that waited for q and
\* has all dependencies completed, as listed, to wake its watchers.
NotifyDependents(c, q) ==
  LET ready == {d \in Quests : /\ quest[d].status = "posted"
                               /\ q \in quest[d].dependsOn
                               /\ DependenciesMet(quest[d])}
  IN  /\ q \in notify
      /\ call[c].pc = "idle"
      /\ notify' = notify \ {q}
      /\ call' = IF ready = {} THEN call
                 ELSE [call EXCEPT ![c] =
                        Putting(None, {[quest |-> d, copy |-> quest[d]] : d \in ready}, {})]
      /\ UNCHANGED <<quest, agent, finished, crashes>>

-----------------------------------------------------------------------------
(* Environment.                                                            *)

\* bossbattle, agentprogression and the API set other statuses; a release or a cooldown
\* also clears the current quest.
SetAgentElsewhere(a, s) ==
  /\ agent' = [agent EXCEPT ![a] =
       [status |-> s, current |-> IF s \in {"idle", "cooldown"} THEN None ELSE @.current]]
  /\ UNCHANGED <<quest, call, notify, finished, crashes>>

\* A KV write fails.  The handlers log a failed write of an agent and go on; a failed write
\* of a quest ends them.
WriteError(c) ==
  /\ WriteErrors
  /\ call[c].pc \in {"cas", "mark", "free", "put"}
  /\ call' = [call EXCEPT ![c] = IF @.pc = "free" THEN [@ EXCEPT !.pc = "put"] ELSE Idle]
  /\ UNCHANGED <<quest, agent, notify, finished, crashes>>

\* The process dies: handlers and goroutines in flight are gone, the bucket stays.
Crash ==
  /\ crashes < CrashBound
  /\ crashes' = crashes + 1
  /\ call' = [c \in Callers |-> Idle]
  /\ notify' = {}
  /\ UNCHANGED <<quest, agent, finished>>

\* A handler is called.
Begin(c) ==
  \/ \E q \in Quests :
       \/ \E deps \in {{}, ChainDeps[q]} : PostQuest(c, q, deps)
       \/ \E a \in Agents : ClaimQuest(c, q, a)
       \/ \E p \in Parties : ClaimQuestForParty(c, q, p)
       \/ \E p \in Parties, a \in Agents : ClaimAndStartForParty(c, q, p, a)
       \/ StartQuest(c, q)
       \/ SubmitResult(c, q)
       \/ CompleteQuest(c, q)
       \/ AbandonQuest(c, q)
       \/ RepostForRetry(c, q)
       \/ FailQuest(c, q)
       \/ TriageQuest(c, q)
       \/ EscalateQuest(c, q)
       \/ NotifyDependents(c, q)
  \/ \E entries \in SUBSET Quests : PostQuestChain(c, entries)
  \/ \E parent \in Quests, children \in SUBSET Quests, a \in Agents :
       PostSubQuests(c, parent, children, a)

\* A handler in flight takes its next step.
Continue(c) ==
  \/ ClaimQuestRead(c)
  \/ ClaimQuestCAS(c)
  \/ ClaimQuestMarkAgent(c)
  \/ ReleaseHolder(c)
  \/ PutQuest(c)
  \/ WriteError(c)

Next ==
  \/ \E c \in Callers : Begin(c) \/ Continue(c)
  \/ \E a \in Agents, s \in OtherStatuses : SetAgentElsewhere(a, s)
  \/ Crash

Spec == Init /\ [][Next]_vars

-----------------------------------------------------------------------------
(* Properties.                                                             *)

\* Every entity and every call in flight has the shape of its Go type.
TypeOK ==
  /\ quest \in [Quests -> QuestRec]
  /\ agent \in [Agents -> AgentRec]
  /\ call \in [Callers -> Call]
  /\ notify \in SUBSET Quests
  /\ finished \in SUBSET Quests
  /\ crashes \in Nat

\* A quest on the board or awaiting triage is held by nobody; one that is being worked on,
\* under review or completed names its holder; a party's quest is held by a member.
RecHolder(rec) ==
  /\ rec.status \in {"posted", "pending_triage"} => rec.claimedBy = None
  /\ rec.status \in Held => rec.claimedBy # None
  /\ rec.status \in Held /\ rec.partyID # None => rec.claimedBy \in Members[rec.partyID]

\* Whatever handlers interleave and whatever stale copy is put last, a quest never reaches
\* the board with a holder nor a worker without one (the claim gates, the resets of
\* abandon, fail and repost).
HolderMatchesStatus == \A q \in Quests : RecHolder(quest[q])

\* A quest that is no party's is failed for good or sent to triage only after all its
\* attempts were claimed: no interleaving cuts the retry budget short (FailQuest).
RecBudget(rec) ==
  rec.status \in {"failed", "pending_triage"} /\ rec.partyID = None
    => rec.attempts >= rec.maxAttempts

RetryBudgetHonoured == \A q \in Quests : RecBudget(quest[q])

\* A quest runs, and completes, only if each quest its entity depends on was completed
\* before, even when that quest is later overwritten by a stale put (checkDependenciesMet
\* in the three claim handlers).
RecDependencies(rec) == rec.status \in Held => rec.dependsOn \subseteq finished

DependenciesRanFirst == \A q \in Quests : RecDependencies(quest[q])

\* A won claim is a claim of what is stored at that moment: the quest is on the board and
\* the put changes nothing but status, holder and attempts.  In particular of two
\* handlers that read the same posting at most one wins (EmitEntityCAS in ClaimQuest).
WonClaim(c) ==
  call[c].pc = "cas" /\ call'[c].pc = "mark" =>
    LET q == call[c].quest
    IN  /\ quest[q].status = "posted"
        /\ quest' = [quest EXCEPT ![q] = Claimed(@, call[c].agent)]

ClaimLosesNothing == [][\A c \in Callers : WonClaim(c)]_vars

\* With one handler at a time and no write error, even if the process dies between two, an
\* agent never points at a quest that somebody else, or nobody, holds: a claim puts the
\* quest before the agent, a release puts the agent before the quest.
NoDanglingAssignment ==
  \A a \in Agents : agent[a].current # None => quest[agent[a].current].claimedBy = a

\* With one handler at a time, with crashes, the board implements the abstract lifecycle.
Lifecycle == INSTANCE QuestLifecycle WITH status <- [q \in Quests |-> quest[q].status]

ImplementsLifecycle == Lifecycle!Spec
=============================================================================
