-------------------------------- MODULE Flock --------------------------------
(***************************************************************************)
(* processor/boidengine: three watches fill caches of agents, quests and   *)
(* guilds, and every second a loop scores each idle agent against each     *)
(* ready quest and publishes, for each agent, its best few quests, and     *)
(* whether it should join or found a guild.  Agents claim on their own     *)
(* only what is suggested to them, so a quest that the caches hide is a    *)
(* quest that nobody takes.                                                *)
(*                                                                         *)
(* What does not change is a trait: skills, tiers, ratings.  Scores are    *)
(* thousandths, rounded down, of the code's floating-point numbers.  Not   *)
(* modelled: the reasons and confidences of a suggestion, the five minutes *)
(* after which a published one expires, SuggestClaims (no caller but       *)
(* tests), errors of publishing.                                           *)
(***************************************************************************)
EXTENDS Integers, Sequences, FiniteSets, FiniteSetsExt

CONSTANTS
  Boids,                 \* agents
  Postings,              \* quests
  Bands,                 \* guilds
  BoidTraits,            \* [Boids -> skills, tier, level, reviews, rating (tenths)]
  PostingTraits,         \* [Postings -> skills, minTier, guild, redTeam, deps]
  BandTraits,            \* [Bands -> founder, maxMembers, minLevel, reputation (thousandths), skills]
  PeerScores,            \* PairwisePeerScore, thousandths; 0 for none
  SharedWins,
  Rules,                 \* weights, thousandths
  MaxSuggestionsPerAgent,
  GuildFormMinUnguilded,
  GuildJoinThreshold,    \* thousandths
  FlockLag,              \* bound: entries that the watches are behind when a writer writes
  FlockCrashes           \* bound: restarts

NoName == ""  \* the quest of who has none, the guild of who is in none

\* Ratings are of 1 to 5 (domain/peerreview.go).  Nobody checks the weights; those of
\* DefaultBoidRules are not negative, and those of hunger and caution draw an agent to what is
\* of its tier.
ASSUME FlockAssumption ==
  /\ IsFiniteSet(Boids) /\ IsFiniteSet(Postings) /\ IsFiniteSet(Bands) /\ NoName \notin Postings
  /\ \A a \in Boids : /\ IsFiniteSet(BoidTraits[a].skills) /\ BoidTraits[a].tier \in Nat
                     /\ BoidTraits[a].reviews \in Nat /\ BoidTraits[a].rating \in 10 .. 50
  /\ \A q \in Postings : /\ IsFiniteSet(PostingTraits[q].skills) /\ PostingTraits[q].minTier \in Nat
                        /\ PostingTraits[q].deps \subseteq Postings
  /\ \A g \in Bands : BandTraits[g].reputation \in Nat /\ BandTraits[g].founder \in Boids
  /\ Rules \in [separation : Nat, alignment : Nat, cohesion : Nat, hunger : Nat, affinity : Nat, caution : Nat]
  /\ Rules.hunger \div 2 + Rules.caution \div 5 > 0
  /\ MaxSuggestionsPerAgent \in Nat \ {0}
  /\ GuildFormMinUnguilded \in Nat \ {0, 1}
  /\ {FlockLag, FlockCrashes} \subseteq Nat

VARIABLES
  graph,        \* the entities: [agents, quests, guilds]
  updates,      \* entries each watch has yet to deliver, key and entity
  cache,        \* agents, quests and guilds as the component knows them
  suggestions,  \* the quests last published for each agent
  advice,       \* and whether to join or found a guild
  starts        \* of the component; it runs from the first

bdVars == <<graph, updates, cache, suggestions, advice, starts>>

Absent == [status |-> "none", party |-> FALSE]
NoAdvice == [type |-> "none", guild |-> NoName]

Boid == [status : {"idle", "on_quest"}, quest : Postings \cup {NoName}, guild : Bands \cup {NoName}]
Posting == [status : {"none", "posted", "in_progress", "completed"}, party : BOOLEAN]
Band == SUBSET Boids

FlockTypeOK ==
  /\ graph \in [agents : [Boids -> Boid], quests : [Postings -> Posting], guilds : [Bands -> Band]]
  /\ DOMAIN updates = {"agents", "quests", "guilds"}
  /\ \A q \in Postings : cache.quests[q].status \in {"none", "posted", "completed"}
  /\ suggestions \in [Boids -> Seq(Postings)]
  /\ advice \in [Boids -> [type : {"none", "join", "form"}, guild : Bands \cup {NoName}]]
  /\ starts \in 0 .. FlockCrashes + 1

Founded(a) ==
  IF \E g \in Bands : BandTraits[g].founder = a THEN CHOOSE g \in Bands : BandTraits[g].founder = a
  ELSE NoName

FlockInit ==
  /\ graph = [agents |-> [a \in Boids |->
                  [status |-> "idle", quest |-> NoName, guild |-> Founded(a)]],
              quests |-> [q \in Postings |-> Absent],
              guilds |-> [g \in Bands |-> {BandTraits[g].founder}]]
  /\ updates = [agents |-> <<>>, quests |-> <<>>, guilds |-> <<>>]
  /\ cache = [graph EXCEPT !.agents = [a \in Boids |-> [@[a] EXCEPT !.status = "none"]]]
  /\ suggestions = [a \in Boids |-> <<>>]
  /\ advice = [a \in Boids |-> NoAdvice]
  /\ starts = 0

\* Ready quests are those that computeAndPublish gathers: posted, their dependencies completed.
ReadyQuests(es) ==
  {q \in Postings : /\ es.quests[q].status = "posted"
                    /\ \A d \in PostingTraits[q].deps : es.quests[d].status = "completed"}

-----------------------------------------------------------------------------
(* What the other processors write.                                        *)

KeepUp ==
  /\ starts > 0
  /\ Len(updates.agents) + Len(updates.quests) + Len(updates.guilds) < FlockLag

PutPosting(q, entity) ==
  /\ KeepUp
  /\ graph' = [graph EXCEPT !.quests[q] = entity]
  /\ updates' = [updates EXCEPT !.quests = Append(@, <<q, entity>>)]
  /\ UNCHANGED <<cache, suggestions, advice, starts>>

PostQuest(q) ==
  /\ graph.quests[q] = Absent
  /\ PutPosting(q, [status |-> "posted", party |-> FALSE])

\* An agent, or a party that it leads, takes a quest; the claim looks at the dependencies itself.
TakeQuest(a, q, party) ==
  /\ KeepUp
  /\ graph.agents[a].status = "idle" /\ q \in ReadyQuests(graph)
  /\ LET quest == [status |-> "in_progress", party |-> party]
         agent == [graph.agents[a] EXCEPT !.status = "on_quest", !.quest = q]
     IN /\ graph' = [graph EXCEPT !.quests[q] = quest, !.agents[a] = agent]
        /\ updates' = [updates EXCEPT !.quests = Append(@, <<q, quest>>),
                                      !.agents = Append(@, <<a, agent>>)]
  /\ UNCHANGED <<cache, suggestions, advice, starts>>

\* The quest of an agent is completed, or given back without its party.
FinishQuest(a, completed) ==
  /\ KeepUp
  /\ graph.agents[a].status = "on_quest"
  /\ LET q == graph.agents[a].quest
         quest == IF completed THEN [graph.quests[q] EXCEPT !.status = "completed"]
                  ELSE [status |-> "posted", party |-> FALSE]
         agent == [graph.agents[a] EXCEPT !.status = "idle", !.quest = NoName]
     IN /\ graph' = [graph EXCEPT !.quests[q] = quest, !.agents[a] = agent]
        /\ updates' = [updates EXCEPT !.quests = Append(@, <<q, quest>>),
                                      !.agents = Append(@, <<a, agent>>)]
  /\ UNCHANGED <<cache, suggestions, advice, starts>>

JoinBand(a, g) ==
  /\ KeepUp
  /\ graph.agents[a].guild = NoName /\ Cardinality(graph.guilds[g]) < BandTraits[g].maxMembers
  /\ LET agent == [graph.agents[a] EXCEPT !.guild = g]
         guild == graph.guilds[g] \cup {a}
     IN /\ graph' = [graph EXCEPT !.agents[a] = agent, !.guilds[g] = guild]
        /\ updates' = [updates EXCEPT !.agents = Append(@, <<a, agent>>),
                                      !.guilds = Append(@, <<g, guild>>)]
  /\ UNCHANGED <<cache, suggestions, advice, starts>>

-----------------------------------------------------------------------------
(* The watches.                                                            *)

\* Mutant: quests are kept while they can be suggested, and no longer.
InPoolPosted(quest) == ~quest.party /\ quest.status = "posted"

\* handleQuestUpdate keeps posted quests, and completed ones for the sake of their dependents;
\* quests of a party are left to questdagexec.
InPool(quest) == ~quest.party /\ quest.status \in {"posted", "completed"}

ReceiveAgent ==
  /\ updates.agents # <<>>
  /\ LET e == Head(updates.agents) IN cache' = [cache EXCEPT !.agents[e[1]] = e[2]]
  /\ updates' = [updates EXCEPT !.agents = Tail(@)]
  /\ UNCHANGED <<graph, suggestions, advice, starts>>

ReceiveQuest ==
  /\ updates.quests # <<>>
  /\ LET e == Head(updates.quests)
     IN cache' = [cache EXCEPT !.quests[e[1]] = IF InPool(e[2]) THEN e[2] ELSE Absent]
  /\ updates' = [updates EXCEPT !.quests = Tail(@)]
  /\ UNCHANGED <<graph, suggestions, advice, starts>>

ReceiveGuild ==
  /\ updates.guilds # <<>>
  /\ LET e == Head(updates.guilds) IN cache' = [cache EXCEPT !.guilds[e[1]] = e[2]]
  /\ updates' = [updates EXCEPT !.guilds = Tail(@)]
  /\ UNCHANGED <<graph, suggestions, advice, starts>>

\* A start (and a restart) reads the posted quests; the watches then replay all that is stored.
Replay(entities) ==
  LET keys == DOMAIN entities
      order == CHOOSE s \in [1 .. Cardinality(keys) -> keys] : \A k \in keys : \E i \in DOMAIN s : s[i] = k
  IN [i \in DOMAIN order |-> <<order[i], entities[order[i]]>>]

Start ==
  LET posted == {q \in Postings : graph.quests[q] # Absent}
  IN /\ starts <= FlockCrashes
     /\ starts' = starts + 1
     /\ cache' = [graph EXCEPT !.quests = [q \in Postings |->
          IF @[q].status = "posted" /\ ~@[q].party THEN @[q] ELSE Absent]]
     /\ updates' = [agents |-> Replay(graph.agents),
                    quests |-> Replay([q \in posted |-> graph.quests[q]]),
                    guilds |-> Replay(graph.guilds)]
     /\ UNCHANGED <<graph, suggestions, advice>>

-----------------------------------------------------------------------------
(* The rules, tabulated: what does not depend on who is where.             *)

Skills(a, q) == BoidTraits[a].skills \cap PostingTraits[q].skills

Cohesion(a, q) ==
  IF PostingTraits[q].skills = {} THEN 0
  ELSE (Cardinality(Skills(a, q)) * Rules.cohesion) \div Cardinality(PostingTraits[q].skills)

Caution(a, q) ==
  LET above == PostingTraits[q].minTier - BoidTraits[a].tier
  IN IF above > 0 THEN - above * Rules.caution
     ELSE IF above < -1 THEN ((above + 1) * Rules.caution) \div 2
     ELSE Rules.caution \div 5

\* The one who founded a guild is its master, the others begin as initiates.
GuildMatch(a, q, g, listed) ==
  LET rank == IF ~listed THEN 0 ELSE IF BandTraits[g].founder = a THEN 1250 ELSE 500
  IN IF g = NoName \/ PostingTraits[q].guild # g THEN 0
     ELSE ((1000 + rank) * (1000 + BandTraits[g].reputation \div 2)) \div 1000

\* A red-team quest is for members of other guilds than the one that did the work.
CrossGuildBonus(a, q, g) ==
  LET match == Cardinality(Skills(a, q))
  IN IF ~PostingTraits[q].redTeam \/ g = NoName THEN 0
     ELSE IF PostingTraits[q].guild = NoName THEN match * 500
     ELSE IF g # PostingTraits[q].guild THEN match * 1500 ELSE 0

\* Peers' ratings of 1 to 5 weigh thirty per cent at most.
Affinity(a, q, g, listed) ==
  LET match == Cardinality(Skills(a, q)) * 1000 + GuildMatch(a, q, g, listed) + CrossGuildBonus(a, q, g)
      renown == IF BoidTraits[a].reviews = 0 THEN 1000 ELSE 1000 + (BoidTraits[a].rating - 30) * 15
  IN (((match * Rules.affinity) \div 1000) * renown) \div 1000

\* By agent, quest, the agent's guild, and whether the guild lists it.
Appeal ==
  [a \in Boids |-> [q \in Postings |-> [g \in Bands \cup {NoName} |-> [listed \in BOOLEAN |->
     Cohesion(a, q) + Rules.hunger \div 2 + Affinity(a, q, g, listed) + Caution(a, q)]]]]

TierExpert == 2

SharedWinScore(wins) == IF wins = 0 THEN 0 ELSE IF wins = 1 THEN 600 ELSE IF wins <= 3 THEN 800 ELSE 1000

Best(f, S) == IF S = {} THEN 0 ELSE Max({f[x] : x \in S})

\* What an agent brings that the guild lacks.
SkillGap(a, g) ==
  LET mine == BoidTraits[a].skills IN
  IF mine = {} THEN 0 ELSE IF BandTraits[g].skills = {} THEN 500
  ELSE (Cardinality(mine \ BandTraits[g].skills) * 1000) \div Cardinality(mine)

\* Half of the score is who the agent worked with; without that the rest counts for less.
JoinScore ==
  [a \in Boids, g \in Bands, members \in SUBSET Boids |->
     LET peerPull == Best([m \in Boids |-> PeerScores[a, m]], members)
         wins == Best([m \in Boids |-> SharedWinScore(SharedWins[a, m])], members)
         open == BandTraits[g].maxMembers - Cardinality(members)
         structure == 25 * SkillGap(a, g) + 15 * ((open * 1000) \div BandTraits[g].maxMembers)
                      + 10 * BandTraits[g].reputation
     IN (25 * peerPull + 25 * wins
         + (IF peerPull = 0 /\ wins = 0 THEN (structure * 4) \div 10 ELSE structure)) \div 100]

PairCohesion(a, b) == (SharedWinScore(SharedWins[a, b]) + PeerScores[a, b]) \div 2

\* Whether an agent and those of the unguilded it works best with would make a guild.
MayForm ==
  [a \in Boids, unguilded \in SUBSET Boids |->
     LET others == {b \in unguilded \ {a} : PairCohesion(a, b) > 0}
         n == GuildFormMinUnguilded - 1
         score(T) ==
           LET all == UNION {BoidTraits[b].skills : b \in T \cup {a}}
               slots == Cardinality(UNION {{b} \X BoidTraits[b].skills : b \in T \cup {a}})
               spare == Min({1000, ((Cardinality(others) - n) * 1000) \div GuildFormMinUnguilded})
           IN (50 * (MapThenSumSet(LAMBDA b : PairCohesion(a, b), T) \div n)
               + (IF slots = 0 THEN 0 ELSE 30 * ((Cardinality(all) * 1000) \div slots))
               + 20 * spare) \div 100
         closest == {T \in kSubset(n, others) :
                       \A b \in T, c \in others \ T : PairCohesion(a, b) >= PairCohesion(a, c)}
     IN \E T \in closest : score(T) > 300]

-----------------------------------------------------------------------------
(* What the loop makes of the caches (or of the graph).                    *)

Separation(crowd, q) == - ((crowd[q] * Rules.separation) \div 2)

\* For each matching skill, the quests that ask for it.
Alignment(ready, a, q) ==
  LET clusters == {p \in Skills(a, q) \X ready : p[1] \in PostingTraits[p[2]].skills}
  IN (Cardinality(clusters) * Rules.alignment) \div 10

Attraction(a, q, g, listed, crowd, ready) ==
  Appeal[a][q][g][listed] + Separation(crowd, q) + Alignment(ready, a, q)

\* Only a positive total attracts.
Attractive(a, g, listed, crowd, ready) ==
  {r \in {[quest |-> q, score |-> Attraction(a, q, g, listed, crowd, ready)] : q \in ready} :
     r.score > 0}

\* SuggestTopN: the best few, in order; equal ones in any order.
Foremost(rs) ==
  LET n == IF Cardinality(rs) > MaxSuggestionsPerAgent THEN MaxSuggestionsPerAgent ELSE Cardinality(rs)
      ranked == {s \in [1 .. n -> rs] :
        /\ \A i, j \in 1 .. n : i < j => s[i] # s[j] /\ s[i].score >= s[j].score
        /\ \A r \in rs : r.score <= s[n].score \/ \E i \in 1 .. n : s[i] = r}
  IN IF rs = {} THEN {} ELSE {[i \in 1 .. n |-> s[i].quest] : s \in ranked}

Ranked ==
  [a \in Boids |-> [g \in Bands \cup {NoName} |-> [listed \in BOOLEAN |->
   [crowd \in [Postings -> 0 .. Cardinality(Boids)] |-> [ready \in SUBSET Postings |->
     Foremost(Attractive(a, g, listed, crowd, ready))]]]]]

\* For idle agents, by who is on what.
Rankings(es, a) ==
  LET g == es.agents[a].guild
      crowd == [q \in Postings |-> Cardinality({b \in Boids : es.agents[b].quest = q})]
  IN IF es.agents[a].status # "idle" THEN {}
     ELSE Ranked[a][g][g # NoName /\ a \in es.guilds[g]][crowd][ReadyQuests(es)]

Unguilded(es) == {a \in Boids : es.agents[a].guild = NoName /\ es.agents[a].status = "idle"}

\* The guilds that would take the agent, score best, and no less than the threshold.
BestJoins(a, guilds) ==
  LET open == {g \in Bands : /\ BandTraits[g].status = "active"
                             /\ Cardinality(guilds[g]) < BandTraits[g].maxMembers
                             /\ BoidTraits[a].level >= BandTraits[g].minLevel}
      score(g) == JoinScore[a, g, guilds[g]]
  IN {g \in open : score(g) >= Max({GuildJoinThreshold, 1}) /\ \A h \in open : score(g) >= score(h)}

\* ComputeGuildSuggestions: experts may found a guild when there is no strong one to join.
Advised ==
  [a \in Boids, guilds \in [Bands -> SUBSET Boids], unguilded \in SUBSET Boids |->
     LET joins == BestJoins(a, guilds)
         strong == \E g \in joins : JoinScore[a, g, guilds[g]] > 500
     IN IF a \notin unguilded THEN {}
        ELSE IF BoidTraits[a].tier >= TierExpert /\ ~strong /\ MayForm[a, unguilded]
             THEN {[type |-> "form", guild |-> NoName]}
             ELSE {[type |-> "join", guild |-> g] : g \in joins}]

Advice(es, a) == Advised[a, es.guilds, Unguilded(es)]

-----------------------------------------------------------------------------
\* An agent for which nothing is found keeps what was published for it before.
Published(a, found, before) == {a} \X (IF found = {} THEN {before} ELSE found)

\* The functions in a relation of agents and what may be published for them.
EachOf(R) == {f \in [Boids -> {p[2] : p \in R}] : \A a \in Boids : <<a, f[a]>> \in R}

ComputeAndPublish ==
  /\ starts > 0
  /\ UNCHANGED <<graph, updates, cache, starts>>
  /\ \E R \in {UNION {Published(a, Rankings(cache, a), suggestions[a]) : a \in Boids}} :
       suggestions' \in EachOf(R)
  /\ \E R \in {UNION {Published(a, Advice(cache, a), advice[a]) : a \in Boids}} :
       advice' \in EachOf(R)

FlockNext ==
  \/ \E q \in Postings : PostQuest(q)
  \/ \E a \in Boids : \E q \in Postings : \E party \in BOOLEAN : TakeQuest(a, q, party)
  \/ \E a \in Boids : \E completed \in BOOLEAN : FinishQuest(a, completed)
  \/ \E a \in Boids : \E g \in Bands : JoinBand(a, g)
  \/ ReceiveAgent \/ ReceiveQuest \/ ReceiveGuild
  \/ Start
  \/ ComputeAndPublish

-----------------------------------------------------------------------------
\* A quest an agent of about its tier could take at once, one of few.
Worthy(a, q) ==
  /\ graph.agents[a].status = "idle"
  /\ graph.quests[q] = [status |-> "posted", party |-> FALSE]
  /\ \A d \in PostingTraits[q].deps : graph.quests[d] = [status |-> "completed", party |-> FALSE]
  /\ BoidTraits[a].tier - PostingTraits[q].minTier \in {0, 1}
  /\ Cardinality(ReadyQuests(graph)) <= MaxSuggestionsPerAgent

(* Safety: once the watches have delivered all that was written, the next  *)
(* tick suggests to an idle agent each of the few quests it could take,    *)
(* whatever the caches missed before: dependencies completed long ago or   *)
(* before a restart, claims that were given back, entries that came late.  *)
(* A dependency that a party completed is not cached (handler.go:246), and *)
(* hides its dependents; so it is left out.                                *)
WorthySuggested ==
  (starts > 0 /\ updates.agents = <<>> /\ updates.quests = <<>> /\ updates.guilds = <<>>) =>
    \A a \in Boids, q \in Postings :
      Worthy(a, q) => \E s \in Rankings(cache, a) : \E i \in DOMAIN s : s[i] = q
=============================================================================
