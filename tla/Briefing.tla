------------------------------ MODULE Briefing ------------------------------
(***************************************************************************)
(* What questbridge tells an agent when it starts a quest, and where it    *)
(* has it from.  The lead of a party quest answers with a DAG; its nodes   *)
(* are posted one by one on the open board, the parent is put, then each   *)
(* copy is put again with its party and node, and last the parent with the *)
(* DAG.  Only then does the executor hand the nodes out, in order, and     *)
(* every start reads the quest, its parent, the quests it depends on, the  *)
(* party and the guild again to write the agent's letter.                  *)
(*                                                                         *)
(* The watch may take its time over a start (it waits for knowledge        *)
(* sources), so quests change between their start and their letter.  What  *)
(* the texts look like and how they are cut to their budgets is left out,  *)
(* and so is what the stored form of a quest loses: its whitelist of tools *)
(* and its decomposability class.                                          *)
(***************************************************************************)
EXTENDS Integers, Sequences, FiniteSets, SequencesExt

CONSTANTS
  DagNodes,       \* the nodes of the DAG, in its order
  DagDeps,        \* node -> the nodes it depends on
  NodeSkills,     \* node or "parent" -> skills its quest requires, in order
  Heroes,         \* agents
  HeroTraits,     \* agent -> [tier, skills, guild, ratings]: guild or "none"; 0 for no rating
  ToolTraits,     \* tool -> [category, minTier, skills]
  Capabilities,   \* model capabilities for which an endpoint is configured
  GuildLessons,   \* guild -> its lessons, each by its skill, oldest first
  MaxLessons,     \* most lessons in a letter (10 in the code)
  QuestionBound,  \* bound: answers to questions
  BriefMishaps    \* bound: failing reads and puts

NodeSet == Range(DagNodes)
Quests == NodeSet \cup {"parent"}
Master == 3

ASSUME BriefingAssumption ==
  /\ DagDeps \in [NodeSet -> SUBSET NodeSet] /\ "parent" \notin NodeSet
  /\ "decompose_quest" \in DOMAIN ToolTraits =>
       ToolTraits["decompose_quest"].category = "party_lead"   \* as it is registered
  /\ QuestionBound \in Nat /\ BriefMishaps \in Nat /\ MaxLessons \in Nat

VARIABLES
  setup,      \* the configuration: [structured, graphQL], the latter a graph with a manifest
  lead,       \* the lead of the party, the agent on the parent
  brQuest,    \* stored quests
  dagStored,  \* whether the parent has its DAG
  splitting,  \* handleDAGDecomposition: [at, todo]
  started,    \* starts without a letter: [to, by, handed]
  letter,     \* what the last step told an agent, if it did
  asked, brMishaps   \* counters of the bounds

brVars == <<setup, lead, brQuest, dagStored, splitting, started, letter, asked, brMishaps>>
brBoard == <<brQuest, dagStored, splitting>>

NoLetter == [to |-> "none"]
NotSplitting == [at |-> "idle", todo |-> <<>>]

\* A sub-quest as it is posted: of no party, of no node, dependent on nothing.
Unposted ==
  [status |-> "none", by |-> "none", placed |-> FALSE, output |-> "nil", indexed |-> FALSE,
   produced |-> FALSE, answers |-> "none"]
Posted == [Unposted EXCEPT !.status = "posted"]
Outputs == {"nil", "text"}   \* an empty one is as good as none

BriefingTypeOK ==
  /\ setup \in [structured : BOOLEAN, graphQL : BOOLEAN]
  /\ lead \in Heroes \cup {"none"}
  /\ brQuest \in [Quests ->
       [status : {"none", "posted", "in_progress", "done", "failed"}, by : Heroes \cup {"none"},
        placed : BOOLEAN, output : Outputs, indexed : BOOLEAN, produced : BOOLEAN,
        answers : {"none", "lead", "dm"}]]
  /\ dagStored \in BOOLEAN
  /\ splitting.at \in {"idle", "post", "parent", "init", "store"}
  /\ splitting.todo \in Seq(NodeSet)
  /\ started \subseteq [to : Quests, by : Heroes, handed : BOOLEAN]
  /\ letter.to \in Quests \cup {"none"}
  /\ asked \in 0 .. QuestionBound /\ brMishaps \in 0 .. BriefMishaps

BriefingInit ==
  /\ setup = [structured |-> FALSE, graphQL |-> FALSE]
  /\ lead = "none"
  /\ brQuest = [q \in Quests |-> IF q = "parent" THEN Posted ELSE Unposted]
  /\ dagStored = FALSE /\ splitting = NotSplitting
  /\ started = {} /\ letter = NoLetter
  /\ asked = 0 /\ brMishaps = 0

Mishaps(n) == brMishaps + n <= BriefMishaps /\ brMishaps' = brMishaps + n

-----------------------------------------------------------------------------
(* Tools, the choice among them, and the model.                            *)

HasAnySkill(a, skills) == HeroTraits[a].skills \cap skills # {}
RequiredSkills(q) == Range(NodeSkills[q])

IsPartyLead(q, a) == q = "parent" /\ HeroTraits[a].tier >= Master

\* questRequiresCodeGen
NeedsCode(q) == RequiredSkills(q) = {} \/ "codegen" \in RequiredSkills(q)

CategoriesForQuest(q, a) ==
  IF IsPartyLead(q, a) THEN {"core", "party_lead"}
  ELSE {"core", "write", "network", "knowledge"} \cup (IF NeedsCode(q) THEN {"inspect"} ELSE {})

ToolsForQuest(q, a) ==
  {t \in DOMAIN ToolTraits :
     /\ ToolTraits[t].category \in CategoriesForQuest(q, a) \cup {""}
     /\ t = "graph_search" => setup.graphQL
     /\ HeroTraits[a].tier >= ToolTraits[t].minTier
     /\ ToolTraits[t].skills = {} \/ HasAnySkill(a, ToolTraits[t].skills)}

ToolChoice(q, a, tools) ==
  IF tools = {} THEN "auto"
  ELSE IF IsPartyLead(q, a) /\ "decompose_quest" \in tools THEN "decompose_quest"
  ELSE IF Cardinality(tools) = 1 THEN CHOOSE t \in tools : TRUE ELSE "required"

\* By tier and first skill, by tier, or any.
ResolveCapability(q, a) ==
  LET tier == HeroTraits[a].tier
      keys == (IF NodeSkills[q] = <<>> THEN <<>> ELSE <<<<tier, Head(NodeSkills[q])>>>>)
                \o <<<<tier, "any">>>>
      known == SelectSeq(keys, LAMBDA k : k \in Capabilities)
  IN  IF known = <<>> THEN <<"agent-work">> ELSE Head(known)

-----------------------------------------------------------------------------
(* What earlier work and earlier words are told.                           *)

\* A rating below three on one of the three questions, in tenths.
PeerFeedback(a) == {i \in DOMAIN HeroTraits[a].ratings : HeroTraits[a].ratings[i] \in 1 .. 29}

\* Whose answers to the agent's questions are told: the lead's in a party.
ClarificationSource(q) ==
  IF brQuest[q].answers = "lead" /\ brQuest[q].placed THEN "lead"
  ELSE IF brQuest[q].answers = "dm" THEN "dm" ELSE "none"

\* loadGuildLessons: the latest that match a required skill.
RelevantLessons(q, a, fails) ==
  LET guild == HeroTraits[a].guild
      relevant == SelectSeq(GuildLessons[guild], LAMBDA s : s \in RequiredSkills(q))
  IN  IF guild = "none" \/ "guild" \in fails THEN <<>>
      ELSE SubSeq(relevant, Len(relevant) - (IF Len(relevant) > MaxLessons THEN MaxLessons
                                             ELSE Len(relevant)) + 1, Len(relevant))

\* parseDAGFromParent and the search for the node: none where the quest does not know its
\* node, or the parent its DAG.
DependenciesOf(q, fails) ==
  IF q \in NodeSet /\ brQuest[q].placed /\ dagStored /\ "parent" \notin fails
  THEN DagDeps[q] \ fails ELSE {}

\* fetchStructuredSummary: the gateway must answer for each of the entities the index names,
\* in half a second.
StructuredSummary(d, up) ==
  brQuest[d].indexed /\ brQuest[d].produced /\ setup.graphQL /\ up

\* Mutant: when the artifacts are indexed nothing else is tried.
ResolveDepContextIndexed(d, up) ==
  IF StructuredSummary(d, up) THEN "structured"
  ELSE IF brQuest[d].output = "text" /\ ~brQuest[d].indexed THEN "summary" ELSE "raw"

ResolveDepContext(d, up) ==
  IF StructuredSummary(d, up) THEN "structured"
  ELSE IF brQuest[d].output = "text" THEN "summary" ELSE "raw"

\* loadDependencyContext, and loadDependencyOutputs where structured dependencies are off:
\* what is told of each dependency.
ToldOf(q, fails, up) ==
  LET read == DependenciesOf(q, fails)
      given == IF setup.structured THEN read ELSE {d \in read : brQuest[d].output # "nil"}
  IN  [d \in given |-> IF setup.structured THEN ResolveDepContext(d, up) ELSE "output"]

\* formatPartyContext
PartySection(q, fails) == brQuest[q].placed /\ "party" \notin fails

\* entityKnowledgeBuilder.build: its sections; where the sources have nothing to tell yet, a
\* hint that they may soon.
KnowledgeSections(q, a, fails, up) ==
  {"agent", "quest"}
    \cup (IF PartySection(q, fails) THEN {"party"} ELSE {})
    \cup (IF HeroTraits[a].guild # "none" /\ "guild" \notin fails THEN {"guild"} ELSE {})
    \cup (IF setup.graphQL THEN {IF up THEN "graph" ELSE "hint"} ELSE {})

\* The entities a letter draws upon.
ContextEntities(q, a, fails) ==
  {q, a} \cup (IF brQuest[q].placed THEN {"party"} ELSE {})
    \cup (IF q \in NodeSet THEN {"parent"} ELSE {})
    \cup (IF HeroTraits[a].guild # "none" /\ "guild" \notin fails THEN {HeroTraits[a].guild} ELSE {})

\* buildAssembledSystemPrompt
Letter(s, fails, up) ==
  LET q == s.to
      a == s.by
      tools == ToolsForQuest(q, a)
  IN  [to |-> q, by |-> a, handed |-> s.handed, fails |-> fails,
       tools |-> tools, choice |-> ToolChoice(q, a, tools),
       capability |-> ResolveCapability(q, a),
       told |-> ToldOf(q, fails, up), answers |-> ClarificationSource(q),
       feedback |-> PeerFeedback(a), lessons |-> RelevantLessons(q, a, fails),
       sections |-> KnowledgeSections(q, a, fails, up),
       entities |-> ContextEntities(q, a, fails)]

-----------------------------------------------------------------------------
(* Starts.                                                                 *)

Begin(q, a, handed) == started' = started \cup {[to |-> q, by |-> a, handed |-> handed]}

\* The party's lead starts on the parent, whose party stands.
StartParent(a) ==
  /\ lead = "none"
  /\ setup' \in [structured : BOOLEAN, graphQL : BOOLEAN]
  /\ lead' = a
  /\ brQuest' = [brQuest EXCEPT !["parent"].status = "in_progress", !["parent"].by = a,
                   !["parent"].placed = TRUE]
  /\ Begin("parent", a, TRUE)
  /\ letter' = NoLetter
  /\ UNCHANGED <<dagStored, splitting, asked, brMishaps>>

\* handleQuestStarted reads the quest as it is now; what it cannot read of the rest it leaves
\* out.
Brief(s, fails) ==
  /\ s \in started /\ Mishaps(Cardinality(fails))
  /\ started' = started \ {s}
  /\ \E up \in BOOLEAN : letter' = Letter(s, fails, up)
  /\ UNCHANGED <<setup, lead, brBoard, asked>>

\* Without the quest, the agent or a workspace there is no letter, and no other try.
BriefFails(s) ==
  /\ s \in started /\ Mishaps(1)
  /\ started' = started \ {s} /\ letter' = NoLetter
  /\ UNCHANGED <<setup, lead, brBoard, asked>>

Briefed(q) == brQuest[q].status = "in_progress" /\ \A s \in started : s.to # q

-----------------------------------------------------------------------------
(* The decomposition.                                                      *)

\* An output without a goal and a valid DAG is the lead's own work (extractDAGFromOutput).
LeadReturnsWork ==
  /\ Briefed("parent") /\ splitting = NotSplitting /\ ~dagStored
  /\ brQuest' = [brQuest EXCEPT !["parent"].status = "done", !["parent"].output = "text"]
  /\ letter' = NoLetter
  /\ UNCHANGED <<setup, lead, dagStored, splitting, started, asked, brMishaps>>

Failed(quests) == [quests EXCEPT !["parent"].status = "failed"]

\* PostSubQuests asks for a tier that may decompose.
LeadReturnsDAG ==
  /\ Briefed("parent") /\ splitting = NotSplitting /\ ~dagStored
  /\ IF HeroTraits[lead].tier >= Master
     THEN splitting' = [at |-> "post", todo |-> DagNodes] /\ UNCHANGED brQuest
     ELSE brQuest' = Failed(brQuest) /\ UNCHANGED splitting
  /\ letter' = NoLetter
  /\ UNCHANGED <<setup, lead, dagStored, started, asked, brMishaps>>

\* The next of the steps of handleDAGDecomposition.
Stage(at, todo) ==
  splitting' = CASE todo # <<>>   -> [at |-> at, todo |-> todo]
                 [] at = "post"   -> [at |-> "parent", todo |-> <<>>]
                 [] at = "init"   -> [at |-> "store", todo |-> <<>>]

PostSubQuest ==
  /\ splitting.at = "post"
  /\ brQuest' = [brQuest EXCEPT ![Head(splitting.todo)] = Posted]
  /\ Stage("post", Tail(splitting.todo))
  /\ letter' = NoLetter
  /\ UNCHANGED <<setup, lead, dagStored, started, asked, brMishaps>>

UpdateParent ==
  /\ splitting.at = "parent"
  /\ splitting' = [at |-> "init", todo |-> DagNodes]
  /\ letter' = NoLetter
  /\ UNCHANGED <<setup, lead, brQuest, dagStored, started, asked, brMishaps>>

\* The copy that was posted is put again with party, node and dependencies, over whatever
\* became of the quest since; a put that fails is logged.
InitSubQuest(stored) ==
  /\ splitting.at = "init"
  /\ brQuest' = IF stored
                THEN [brQuest EXCEPT ![Head(splitting.todo)] = [Posted EXCEPT !.placed = TRUE]]
                ELSE brQuest
  /\ Stage("init", Tail(splitting.todo))
  /\ Mishaps(IF stored THEN 0 ELSE 1)
  /\ letter' = NoLetter
  /\ UNCHANGED <<setup, lead, dagStored, started, asked>>

StoreDAG ==
  /\ splitting.at = "store"
  /\ splitting' = NotSplitting /\ dagStored' = TRUE
  /\ letter' = NoLetter
  /\ UNCHANGED <<setup, lead, brQuest, started, asked, brMishaps>>

\* A put that fails fails the parent.  What has been posted stays.
DecompositionFails ==
  /\ splitting.at \in {"post", "parent", "store"} /\ Mishaps(1)
  /\ brQuest' = Failed(brQuest)
  /\ splitting' = NotSplitting /\ letter' = NoLetter
  /\ UNCHANGED <<setup, lead, dagStored, started, asked>>

-----------------------------------------------------------------------------
(* What the others do.                                                     *)

\* Until its copy is put again anyone may claim a sub-quest from the board.
ClaimStray(n, a) ==
  /\ a # lead /\ brQuest[n].status = "posted" /\ ~brQuest[n].placed
  /\ brQuest' = [brQuest EXCEPT ![n].status = "in_progress", ![n].by = a]
  /\ Begin(n, a, FALSE) /\ letter' = NoLetter
  /\ UNCHANGED <<setup, lead, dagStored, splitting, asked, brMishaps>>

\* questdagexec assigns a node when those it depends on are completed.
HandOut(n, a) ==
  /\ a # lead /\ dagStored /\ brQuest[n].status = "posted"
  /\ \A d \in DagDeps[n] : brQuest[d].status = "done"
  /\ brQuest' = [brQuest EXCEPT ![n].status = "in_progress", ![n].by = a]
  /\ Begin(n, a, TRUE) /\ letter' = NoLetter
  /\ UNCHANGED <<setup, lead, dagStored, splitting, asked, brMishaps>>

\* A question of a party's sub-quest is answered by the lead, another by the DM, and the quest
\* starts again.
Clarify(q) ==
  /\ Briefed(q) /\ asked < QuestionBound
  /\ q = "parent" => ~dagStored /\ splitting = NotSplitting
  /\ asked' = asked + 1
  /\ brQuest' = [brQuest EXCEPT ![q].answers =
                   IF q # "parent" /\ brQuest[q].placed THEN "lead" ELSE "dm"]
  /\ Begin(q, brQuest[q].by, brQuest[q].placed) /\ letter' = NoLetter
  /\ UNCHANGED <<setup, lead, dagStored, splitting, brMishaps>>

Complete(n, output) ==
  /\ Briefed(n)
  /\ brQuest' = [brQuest EXCEPT ![n].status = "done", ![n].output = output]
  /\ letter' = NoLetter
  /\ UNCHANGED <<setup, lead, dagStored, splitting, started, asked, brMishaps>>

\* setIndexed would add the entities that it is told the index has of the work; the one call of
\* it names none, so no summary is structured.
Index(n) ==
  /\ brQuest[n].status = "done" /\ ~brQuest[n].indexed
  /\ brQuest' = [brQuest EXCEPT ![n].indexed = TRUE]
  /\ letter' = NoLetter
  /\ UNCHANGED <<setup, lead, dagStored, splitting, started, asked, brMishaps>>

BriefingNext ==
  \/ \E a \in Heroes : StartParent(a)
  \/ \E s \in started :
       \/ \E fails \in SUBSET ({"parent", "party", "guild"} \cup NodeSet) : Brief(s, fails)
       \/ BriefFails(s)
  \/ LeadReturnsWork \/ LeadReturnsDAG
  \/ PostSubQuest \/ UpdateParent \/ StoreDAG \/ DecompositionFails
  \/ \E stored \in BOOLEAN : InitSubQuest(stored)
  \/ \E n \in NodeSet :
       \/ \E a \in Heroes : ClaimStray(n, a) \/ HandOut(n, a)
       \/ \E output \in Outputs : Complete(n, output)
       \/ Index(n)
  \/ \E q \in Quests : Clarify(q)

-----------------------------------------------------------------------------
(* Safety: who is handed a sub-quest of a DAG, and any number of restarts  *)
(* after it, is told the work of every sub-quest it depends on that could  *)
(* be read, whatever became of the index of that work, and the answers the *)
(* lead gave, provided that the copy with the node was stored.  The lead   *)
(* of a party quest, and nobody else, is offered the tool that decomposes  *)
(* it, and has no other choice.                                            *)
BriefedOnDependencies ==
  letter # NoLetter =>
    /\ (letter.to \in NodeSet /\ letter.handed /\ brQuest[letter.to].placed) =>
         /\ "parent" \notin letter.fails =>
              \A d \in DagDeps[letter.to] \ letter.fails :
                brQuest[d].output = "text" =>
                  d \in DOMAIN letter.told /\ letter.told[d] # "raw"
         /\ brQuest[letter.to].answers # "none" => letter.answers = "lead"
    /\ ("decompose_quest" \in letter.tools) = (letter.choice = "decompose_quest")
    /\ ("decompose_quest" \in letter.tools) =>
         letter.to = "parent" /\ HeroTraits[letter.by].tier >= Master

=============================================================================
