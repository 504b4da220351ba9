--------------------------- MODULE PartyFormation ---------------------------
(***************************************************************************)
(* processor/partycoord: a posted quest that requires a party is started   *)
(* by whoever notices first that it can be.  One goroutine watches quests: *)
(* it reacts to the post and to the completion of a dependency.  Another   *)
(* watches agents: when one becomes idle it looks for posted quests in the *)
(* cache of the first.  Either lists the idle agents, forms a party of     *)
(* them, and has the board claim the quest for it and start it; what fails *)
(* on the way, a list, a read, a put or an event, is only logged, and left *)
(* to the next event.  The board may ask for the dependency's artifacts to *)
(* be indexed; that they are is no event to this component.                *)
(*                                                                         *)
(* One quest with one dependency is modelled.  Not modelled: the party's   *)
(* own records (results, roll-up), parties formed for quests that were     *)
(* claimed otherwise, and skills.                                          *)
(***************************************************************************)
EXTENDS Naturals, Sequences, FiniteSets

CONSTANTS
  Adventurers,
  Leads, Seniors,   \* those of Master tier, and of these the ones of the quest's own least tier
  MinPartySize,
  RequireArtifactIndexing,
  BusyBound,        \* bound: times adventurers take other work
  RepostBound,      \* bound: times the quest is abandoned or judged and posted again
  CoordCrashBound   \* bound: restarts

ASSUME PartyAssumption ==
  /\ IsFiniteSet(Adventurers) /\ Leads \subseteq Adventurers /\ Seniors \subseteq Leads
  /\ MinPartySize \in 1 .. Cardinality(Adventurers)
  /\ RequireArtifactIndexing \in BOOLEAN
  /\ {BusyBound, RepostBound, CoordCrashBound} \subseteq Nat

VARIABLES
  partyQuest,    \* the quest entity; party: a set of at most one party
  dependency,    \* status of the quest it depends on, and whether its artifacts are indexed
  idle,          \* adventurers that are idle, in the graph
  questNews,     \* entries the quest watch has yet to deliver
  agentNews,     \* entries the agent watch has yet to deliver of agents that are idle
  cachedQuest,   \* quests[id]
  cachedDone,    \* the dependency is completed in the cache
  worker,        \* what each goroutine is at
  hitch,         \* history: since an attempt last began, an error befell one, or the index
                 \* alone stood against a claim
  bustle         \* counts of what the environment did

pfVars == <<partyQuest, dependency, idle, questNews, agentNews, cachedQuest, cachedDone, worker,
            hitch, bustle>>

Goroutines == {"quests", "agents"}

\* A party is its lead and the number of its members.
Party == [lead : Leads, size : Nat]

PartyQuest == [status : {"none", "posted", "claimed", "in_progress"}, party : SUBSET Party]

\* NewsItem: a copy of the quest, or the completion of its dependency.
NewsItem == [quest : PartyQuest, done : BOOLEAN]

Worker ==
  [at : {"waiting", "listing", "claiming", "putting", "starting", "put_started"},
   party : SUBSET Party, copy : PartyQuest]

NoQuest == [status |-> "none", party |-> {}]
Waiting == [at |-> "waiting", party |-> {}, copy |-> NoQuest]

PartyTypeOK ==
  /\ partyQuest \in PartyQuest
  /\ dependency \in {"open", "completed", "indexed"}
  /\ idle \subseteq Adventurers
  /\ questNews \in Seq(NewsItem)
  /\ agentNews \in Nat
  /\ cachedQuest \in PartyQuest
  /\ cachedDone \in BOOLEAN
  /\ worker \in [Goroutines -> Worker]
  /\ hitch \in BOOLEAN
  /\ bustle \in [{"busy", "reposts", "crashes"} -> Nat]

PartyInit ==
  /\ partyQuest = NoQuest
  /\ dependency = "open"
  /\ idle = {}
  /\ questNews = <<>> /\ agentNews = 0
  /\ cachedQuest = NoQuest /\ cachedDone = FALSE
  /\ worker = [w \in Goroutines |-> Waiting]
  /\ hitch = FALSE
  /\ bustle = [busy |-> 0, reposts |-> 0, crashes |-> 0]

-----------------------------------------------------------------------------
(* The environment.                                                        *)

PutPartyQuest(q) ==
  /\ partyQuest' = q
  /\ questNews' = Append(questNews, [quest |-> q, done |-> FALSE])

\* The quest and its dependency are posted in one call.
PostPartyQuest ==
  /\ partyQuest.status = "none"
  /\ PutPartyQuest([status |-> "posted", party |-> {}])
  /\ UNCHANGED <<dependency, idle, agentNews, cachedQuest, cachedDone, worker, hitch, bustle>>

CompleteDependency ==
  /\ partyQuest.status # "none" /\ dependency = "open"
  /\ dependency' = "completed"
  /\ questNews' = Append(questNews, [quest |-> NoQuest, done |-> TRUE])
  /\ UNCHANGED <<partyQuest, idle, agentNews, cachedQuest, cachedDone, worker, hitch, bustle>>

\* Another put of the completed quest.
IndexDependency ==
  /\ dependency = "completed"
  /\ dependency' = "indexed"
  /\ questNews' = Append(questNews, [quest |-> NoQuest, done |-> TRUE])
  /\ UNCHANGED <<partyQuest, idle, agentNews, cachedQuest, cachedDone, worker, hitch, bustle>>

BecomeIdle(a) ==
  /\ partyQuest.status # "none" /\ a \notin idle
  /\ idle' = idle \cup {a}
  /\ agentNews' = agentNews + 1
  /\ UNCHANGED <<partyQuest, dependency, questNews, cachedQuest, cachedDone, worker, hitch, bustle>>

\* The agent watch has nothing to do for an agent that is not idle.
TakeOtherWork(a) ==
  /\ a \in idle
  /\ bustle.busy < BusyBound
  /\ bustle' = [bustle EXCEPT !.busy = @ + 1]
  /\ idle' = idle \ {a}
  /\ UNCHANGED <<partyQuest, dependency, questNews, agentNews, cachedQuest, cachedDone, worker,
                 hitch>>

\* An abandoned quest loses its party; one posted again after a defeat keeps it.
Repost(keep) ==
  /\ partyQuest.status = "in_progress"
  /\ bustle.reposts < RepostBound
  /\ bustle' = [bustle EXCEPT !.reposts = @ + 1]
  /\ PutPartyQuest([status |-> "posted", party |-> IF keep THEN partyQuest.party ELSE {}])
  /\ UNCHANGED <<dependency, idle, agentNews, cachedQuest, cachedDone, worker, hitch>>

-----------------------------------------------------------------------------
Stay == UNCHANGED <<worker, hitch>>

Move(w, at) == worker' = [worker EXCEPT ![w].at = at]

Rest(w) == worker' = [worker EXCEPT ![w] = Waiting]

\* What fails is logged, and the attempt is over.
Fail(w) == Rest(w) /\ hitch' = TRUE

BeginAttempt(w, at, party) ==
  /\ worker' = [worker EXCEPT ![w] = [Waiting EXCEPT !.at = at, !.party = party]]
  /\ hitch' = FALSE

\* maybeInitiatePartyQuest begins with a list of the idle agents.
Initiate(w) == BeginAttempt(w, "listing", {})

\* Mutant: only a party that has been formed is tried again.
RetryBlockedFormed(q) ==
  IF q.status # "posted" \/ q.party = {} THEN Stay ELSE BeginAttempt("quests", "claiming", q.party)

\* retryBlockedPartyQuests: a quest that has a party is claimed for it again.
RetryBlocked(q) ==
  IF q.status # "posted" THEN Stay
  ELSE IF q.party = {} THEN Initiate("quests")
  ELSE BeginAttempt("quests", "claiming", q.party)

\* A transition is a status other than the cached one; the cache is set before any reaction.
HandleQuestUpdate ==
  /\ worker["quests"].at = "waiting" /\ questNews # <<>>
  /\ questNews' = Tail(questNews)
  /\ LET e == Head(questNews) IN
       IF e.done
       THEN /\ cachedDone' = TRUE
            /\ UNCHANGED cachedQuest
            /\ IF cachedDone THEN Stay ELSE RetryBlocked(cachedQuest)
       ELSE /\ cachedQuest' = e.quest
            /\ UNCHANGED cachedDone
            /\ IF e.quest.status = "posted" /\ cachedQuest.status # "posted"
               THEN Initiate("quests") ELSE Stay
  /\ UNCHANGED <<partyQuest, dependency, idle, agentNews, bustle>>

\* Posted quests that have no party yet, for each entry of an idle agent.
HandleAgentStatusChange ==
  /\ worker["agents"].at = "waiting" /\ agentNews > 0
  /\ agentNews' = agentNews - 1
  /\ IF cachedQuest = [status |-> "posted", party |-> {}]
     THEN Initiate("agents") ELSE Stay
  /\ UNCHANGED <<partyQuest, dependency, idle, questNews, cachedQuest, cachedDone, bustle>>

\* selectPartyLead: of the highest level.
LeadsToChoose == IF idle \cap Seniors # {} THEN idle \cap Seniors ELSE idle \cap Leads

\* As many as the quest wants, the lead and one more at least, as far as there are idle ones.
PartySize ==
  LET wanted == IF MinPartySize > 2 THEN MinPartySize ELSE 2
  IN  IF Cardinality(idle) < wanted THEN Cardinality(idle) ELSE wanted

\* findIdleAgents, selectPartyLead, FormParty and recruitMembers, who leaves out those that
\* JoinParty cannot store; the list, the put of the party, its event, or the board may fail.
FormParty(w) ==
  /\ worker[w].at = "listing"
  /\ \/ Fail(w)
     \/ LeadsToChoose = {} /\ Rest(w) /\ UNCHANGED hitch
     \/ \E lead \in LeadsToChoose, size \in 1 .. PartySize :
          /\ worker' = [worker EXCEPT ![w] = [Waiting EXCEPT !.at = "claiming",
                                         !.party = {[lead |-> lead, size |-> size]}]]
          /\ hitch' = (hitch \/ size < PartySize)
  /\ UNCHANGED <<partyQuest, dependency, idle, questNews, agentNews, cachedQuest, cachedDone,
                 bustle>>

\* checkDependenciesMet
DependencyMet == dependency = "indexed" \/ (dependency = "completed" /\ ~RequireArtifactIndexing)

\* The board's guards but for the dependency, on the quest as it is read.
ClaimableForParty(p) ==
  /\ partyQuest.status = "posted"
  /\ p.size >= MinPartySize
  /\ p.lead \in Seniors

\* The reads of the party, its lead, the quest and its dependency may fail.
ClaimQuestForParty(w) ==
  /\ worker[w].at = "claiming"
  /\ \/ Fail(w)
     \/ \E p \in worker[w].party :
          IF ClaimableForParty(p) /\ DependencyMet
          THEN Move(w, "putting") /\ UNCHANGED hitch
          ELSE /\ Rest(w)
               /\ hitch' = (hitch \/ (ClaimableForParty(p) /\ dependency = "completed"))
  /\ UNCHANGED <<partyQuest, dependency, idle, questNews, agentNews, cachedQuest, cachedDone,
                 bustle>>

\* No compare-and-swap: the claim is put over whatever the other goroutine has put.  A put
\* whose answer is lost is taken for one that failed.
PutClaimed(w) ==
  /\ worker[w].at = "putting"
  /\ \/ /\ PutPartyQuest([status |-> "claimed", party |-> worker[w].party])
        /\ (Move(w, "starting") /\ UNCHANGED hitch) \/ Fail(w)
     \/ Fail(w) /\ UNCHANGED <<partyQuest, questNews>>
  /\ UNCHANGED <<dependency, idle, agentNews, cachedQuest, cachedDone, bustle>>

StartPartyQuest(w) ==
  /\ worker[w].at = "starting"
  /\ \/ Fail(w)
     \/ /\ UNCHANGED hitch
        /\ worker' = [worker EXCEPT ![w] = IF partyQuest.status = "claimed"
                                           THEN [@ EXCEPT !.at = "put_started", !.copy = partyQuest]
                                           ELSE Waiting]
  /\ UNCHANGED <<partyQuest, dependency, idle, questNews, agentNews, cachedQuest, cachedDone,
                 bustle>>

PutStarted(w) ==
  /\ worker[w].at = "put_started"
  /\ \/ /\ PutPartyQuest([worker[w].copy EXCEPT !.status = "in_progress"])
        /\ (Rest(w) /\ UNCHANGED hitch) \/ Fail(w)
     \/ Fail(w) /\ UNCHANGED <<partyQuest, questNews>>
  /\ UNCHANGED <<dependency, idle, agentNews, cachedQuest, cachedDone, bustle>>

\* The cache is loaded before the watches start, which then replay what is stored.
RestartCoord ==
  /\ bustle.crashes < CoordCrashBound
  /\ partyQuest.status # "none"
  /\ bustle' = [bustle EXCEPT !.crashes = @ + 1]
  /\ worker' = [w \in Goroutines |-> Waiting]
  /\ cachedQuest' = partyQuest
  /\ cachedDone' = (dependency # "open")
  /\ questNews' = <<[quest |-> partyQuest, done |-> FALSE]>>
  /\ agentNews' = Cardinality(idle)
  /\ UNCHANGED <<partyQuest, dependency, idle, hitch>>

QuestWorker ==
  \/ HandleQuestUpdate
  \/ FormParty("quests") \/ ClaimQuestForParty("quests") \/ PutClaimed("quests")
  \/ StartPartyQuest("quests") \/ PutStarted("quests")

AgentWorker ==
  \/ HandleAgentStatusChange
  \/ FormParty("agents") \/ ClaimQuestForParty("agents") \/ PutClaimed("agents")
  \/ StartPartyQuest("agents") \/ PutStarted("agents")

Freed == CompleteDependency \/ \E a \in Adventurers : BecomeIdle(a)

PartyNext ==
  \/ PostPartyQuest
  \/ Freed
  \/ IndexDependency
  \/ \E a \in Adventurers : TakeOtherWork(a)
  \/ \E keep \in BOOLEAN : Repost(keep)
  \/ QuestWorker
  \/ AgentWorker
  \/ RestartCoord

\* The watches deliver, the board answers, and other work and dependencies come to an end.
PartyFairness == WF_pfVars(QuestWorker) /\ WF_pfVars(AgentWorker) /\ WF_pfVars(Freed)

PartySpec == PartyInit /\ [][PartyNext]_pfVars /\ PartyFairness

-----------------------------------------------------------------------------
(* Liveness: a posted quest without a party is claimed for one, whichever  *)
(* comes last, the quest, its dependency or an idle lead or member, and    *)
(* however the two goroutines and a restart interleave: no event that      *)
(* makes the claim possible is missed.  Excepted is a quest whose last     *)
(* attempt an error ended, and one whose claim only the index stood        *)
(* against, since no event tells that the index is done.                   *)
PartyQuestStarts ==
  partyQuest = [status |-> "posted", party |-> {}] ~>
    partyQuest # [status |-> "posted", party |-> {}] \/ hitch
=============================================================================
