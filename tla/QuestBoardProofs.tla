-------------------------- MODULE QuestBoardProofs --------------------------
(***************************************************************************)
(* Proofs about QuestBoard for every value of its constants: any number of *)
(* handlers in flight, quests, agents and parties, any chain of quests, and *)
(* any bounds.                                                             *)
(*                                                                         *)
(* The invariants speak of stored quests, but what is stored next is a     *)
(* copy some handler made earlier.  So the inductive invariant asks of     *)
(* every copy in flight what it asks of the stored quests, and ties the    *)
(* copy of a claim to the stored quest while its revision is current.      *)
(***************************************************************************)
EXTENDS QuestBoard, TLAPS

\* What every copy of a quest satisfies, stored or about to be stored.
Good(rec) == RecHolder(rec) /\ RecBudget(rec) /\ RecDependencies(rec)

StoredGood == \A q \in Quests : Good(quest[q])

CopiesGood ==
  \A c \in Callers : \A w \in call[c].puts \cup call[c].after : Good(w.copy)

\* A call about to compare-and-swap puts one copy, of its own quest, and with a current
\* revision that copy is the claim of the stored, posted quest.
CasReady(cl) ==
  cl.pc = "cas" =>
    /\ cl.quest \in Quests
    /\ cl.agent \in Agents
    /\ \A w \in cl.puts : w.quest = cl.quest
    /\ cl.fresh => /\ quest[cl.quest].status = "posted"
                   /\ \A w \in cl.puts : w.copy = Claimed(quest[cl.quest], cl.agent)

AllCasReady == \A c \in Callers : CasReady(call[c])

\* A call that will read or write on behalf of an agent names a quest and an agent.
Named(cl) == cl.pc \in {"claiming", "mark"} => cl.quest \in Quests /\ cl.agent \in Agents

FreeNames(cl) == cl.pc = "free" => cl.agent \in Agents

AllNamed == \A c \in Callers : Named(call[c]) /\ FreeNames(call[c])

\* Whatever is stored as completed has been recorded in the history.
History == \A q \in Quests : quest[q].status = "completed" => q \in finished

IInv == TypeOK /\ StoredGood /\ CopiesGood /\ AllCasReady /\ AllNamed /\ History

-----------------------------------------------------------------------------
(* The initial state.                                                      *)

LEMMA IdleCall ==
  /\ Idle \in Call /\ Idle.pc = "idle" /\ Idle.puts = {} /\ Idle.after = {}
  /\ CasReady(Idle) /\ Named(Idle) /\ FreeNames(Idle)
  /\ \A w \in Idle.puts \cup Idle.after : Good(w.copy)
BY DEF Idle, Call, CasReady, Named, FreeNames

LEMMA InitIInv == ASSUME Init PROVE IInv
<1> USE BoardAssumption
<1>1. Unposted \in QuestRec
  BY DEF Unposted, QuestRec, Statuses
<1>2. Idle \in Call
  BY DEF Idle, Call
<1>3. TypeOK
  BY <1>1, <1>2 DEF Init, TypeOK, AgentRec, AgentStatuses
<1>4. StoredGood
  BY DEF Init, StoredGood, Good, RecHolder, RecBudget, RecDependencies, Unposted, Held
<1>5. CopiesGood /\ AllCasReady /\ AllNamed /\ History
  BY DEF Init, CopiesGood, AllCasReady, AllNamed, CasReady, Named, FreeNames, Idle, History,
         Unposted
<1> QED BY <1>3, <1>4, <1>5 DEF IInv

-----------------------------------------------------------------------------
(* Steps that put no quest: one handler starts, or goes on, with good      *)
(* copies to put.                                                          *)

LEMMA ReadStep ==
  ASSUME IInv, NEW c \in Callers, NEW cl \in Call,
         \A w \in cl.puts \cup cl.after : Good(w.copy),
         CasReady(cl), Named(cl), FreeNames(cl),
         call' = [call EXCEPT ![c] = cl],
         UNCHANGED <<quest, finished, crashes>>,
         agent' \in [Agents -> AgentRec],
         notify' \in SUBSET Quests
  PROVE  IInv'
<1> USE DEF IInv
<1>1. TypeOK'
  BY DEF TypeOK
<1>2. \A rec : Good(rec)' <=> Good(rec)
  BY DEF Good, RecHolder, RecBudget, RecDependencies
<1>3. StoredGood'
  BY <1>2 DEF StoredGood
<1>4. CopiesGood'
  BY <1>2 DEF CopiesGood, TypeOK
<1>5. AllCasReady' /\ AllNamed'
  BY DEF AllCasReady, AllNamed, CasReady, Named, FreeNames, TypeOK
<1>6. History'
  BY DEF History
<1> QED BY <1>1, <1>3, <1>4, <1>5, <1>6

-----------------------------------------------------------------------------
(* Steps that put a quest.                                                 *)

\* Outdating a call changes its freshness only.
LEMMA OutdatedCall ==
  ASSUME NEW cl \in Call, NEW o, o = [cl EXCEPT !.fresh = FALSE]
  PROVE  /\ o \in Call
         /\ o.pc = cl.pc /\ o.quest = cl.quest /\ o.agent = cl.agent
         /\ o.puts = cl.puts /\ o.after = cl.after /\ o.fresh = FALSE
BY DEF Call

LEMMA EmitStep ==
  ASSUME IInv, NEW c \in Callers, NEW q \in Quests, NEW copy \in QuestRec, Good(copy),
         NEW cl \in Call, cl.pc # "cas", Named(cl), FreeNames(cl),
         \A w \in cl.puts \cup cl.after : Good(w.copy),
         EmitEntityUpdate(q, copy, [call EXCEPT ![c] = cl]),
         notify' \in SUBSET Quests,
         UNCHANGED <<agent, crashes>>
  PROVE  IInv'
<1> USE DEF IInv
<1> DEFINE cs == [call EXCEPT ![c] = cl]
<1>1. cs \in [Callers -> Call]
  BY DEF TypeOK
<1>2. call' = Outdate(q, cs) /\ quest' = [quest EXCEPT ![q] = copy]
      /\ finished \subseteq finished'
  BY DEF EmitEntityUpdate
<1>3. ASSUME NEW x \in Callers
      PROVE  /\ call'[x] \in Call
             /\ call'[x].pc = cs[x].pc /\ call'[x].quest = cs[x].quest
             /\ call'[x].agent = cs[x].agent
             /\ call'[x].puts = cs[x].puts /\ call'[x].after = cs[x].after
             /\ call'[x].fresh => cs[x].fresh /\ cs[x].quest # q
  <2> DEFINE o == [cs[x] EXCEPT !.fresh = FALSE]
  <2>1. cs[x] \in Call
    BY <1>1
  <2>2. call'[x] = IF cs[x].quest = q THEN o ELSE cs[x]
    BY <1>2 DEF Outdate
  <2> HIDE DEF o, cs
  <2>3. CASE cs[x].quest = q
    <3>1. call'[x] = [cs[x] EXCEPT !.fresh = FALSE]
      BY <2>2, <2>3 DEF o
    <3> QED BY <2>1, <3>1, OutdatedCall
  <2>4. CASE cs[x].quest # q
    BY <2>1, <2>2, <2>4
  <2> QED BY <2>3, <2>4
<1>4. \A x \in Callers : x # c => cs[x] = call[x]
  BY DEF TypeOK
<1>5. cs[c] = cl
  BY DEF TypeOK
<1> HIDE DEF cs
<1>6. TypeOK'
  <2>1. call' \in [Callers -> Call]
    BY <1>2, <1>3 DEF Outdate
  <2>2. quest' \in [Quests -> QuestRec]
    BY <1>2 DEF TypeOK
  <2>3. finished' \in SUBSET Quests
    BY DEF EmitEntityUpdate, TypeOK
  <2> QED BY <2>1, <2>2, <2>3 DEF TypeOK
<1>7. StoredGood'
  <2>1. \A r \in Quests : Good(quest[r]) /\ quest'[r] = IF r = q THEN copy ELSE quest[r]
    BY <1>2 DEF StoredGood, TypeOK
  <2>2. \A r \in Quests : Good(quest'[r])
    BY <2>1
  <2>3. \A r \in Quests : RecHolder(quest'[r]) /\ RecBudget(quest'[r])
                         /\ (quest'[r].status \in Held => quest'[r].dependsOn \subseteq finished')
    BY <1>2, <2>2 DEF Good, RecDependencies
  <2> QED BY <2>3 DEF StoredGood, Good, RecHolder, RecBudget, RecDependencies
<1>8. CopiesGood'
  <2>1. \A x \in Callers : \A w \in cs[x].puts \cup cs[x].after : Good(w.copy)
    BY <1>4, <1>5 DEF CopiesGood
  <2>2. \A x \in Callers : \A w \in call'[x].puts \cup call'[x].after : Good(w.copy)
    BY <1>3, <2>1
  <2>3. \A x \in Callers : \A w \in call'[x].puts \cup call'[x].after :
          /\ RecHolder(w.copy) /\ RecBudget(w.copy)
          /\ w.copy.status \in Held => w.copy.dependsOn \subseteq finished'
    BY <1>2, <2>2 DEF Good, RecDependencies
  <2> QED BY <2>3 DEF CopiesGood, Good, RecHolder, RecBudget, RecDependencies
<1>9. AllCasReady'
  <2>0. SUFFICES ASSUME NEW x \in Callers, call'[x].pc = "cas"
               PROVE  /\ call'[x].quest \in Quests
                      /\ call'[x].agent \in Agents
                      /\ \A w \in call'[x].puts : w.quest = call'[x].quest
                      /\ call'[x].fresh =>
                           /\ quest'[call'[x].quest].status = "posted"
                           /\ \A w \in call'[x].puts :
                                w.copy = Claimed(quest'[call'[x].quest], call'[x].agent)
    BY DEF AllCasReady, CasReady, Claimed
  <2>1. x # c /\ cs[x] = call[x]
    BY <1>3, <1>4, <1>5, <2>0
  <2>2. CasReady(call[x]) /\ call[x].pc = "cas"
    BY <1>3, <2>0, <2>1 DEF AllCasReady
  <2>3. /\ call'[x].quest = call[x].quest /\ call'[x].agent = call[x].agent
        /\ call'[x].puts = call[x].puts
        /\ call'[x].fresh => call[x].fresh /\ call[x].quest # q
    BY <1>3, <2>1
  <2>4. call'[x].fresh => quest'[call[x].quest] = quest[call[x].quest]
    BY <1>2, <2>2, <2>3 DEF CasReady, TypeOK
  <2> QED BY <2>2, <2>3, <2>4 DEF CasReady
<1>10. AllNamed'
  <2>1. \A x \in Callers : Named(cs[x]) /\ FreeNames(cs[x])
    BY <1>4, <1>5 DEF AllNamed
  <2> QED BY <1>3, <2>1 DEF AllNamed, Named, FreeNames
<1>11. History'
  BY DEF History, EmitEntityUpdate, TypeOK
<1> QED BY <1>6, <1>7, <1>8, <1>9, <1>10, <1>11

-----------------------------------------------------------------------------
(* The copies the handlers make are well formed and good.                  *)

LEMMA NewQuestGood ==
  ASSUME NEW q \in Quests, NEW deps \in SUBSET Quests
  PROVE  NewQuest(q, deps) \in QuestRec /\ Good(NewQuest(q, deps))
BY BoardAssumption
   DEF NewQuest, Unposted, QuestRec, Statuses, Good, RecHolder, RecBudget, RecDependencies, Held

LEMMA ClaimedShape ==
  ASSUME NEW rec \in QuestRec, NEW a \in Agents
  PROVE  /\ Claimed(rec, a) \in QuestRec
         /\ Claimed(rec, a).status = "claimed"
         /\ Claimed(rec, a).claimedBy = a
         /\ Claimed(rec, a).partyID = rec.partyID
         /\ Claimed(rec, a).dependsOn = rec.dependsOn
<1> DEFINE n == rec.attempts + 1
<1>1. n \in Nat
  BY DEF QuestRec
<1>2. Claimed(rec, a) = [rec EXCEPT !.status = "claimed", !.claimedBy = a, !.attempts = n]
  BY DEF Claimed
<1> HIDE DEF n
<1> QED BY <1>1, <1>2 DEF QuestRec, Statuses

\* A claim of a claimable quest, by anyone the member gate lets through: this is where the
\* dependencies are shown to have run.
LEMMA ClaimedGood ==
  ASSUME IInv, NEW q \in Quests, Claimable(quest[q]), NEW copy \in QuestRec,
         copy.status \in {"claimed", "in_progress"}, copy.claimedBy \in Agents,
         copy.partyID # None => copy.claimedBy \in Members[copy.partyID],
         copy.dependsOn = quest[q].dependsOn
  PROVE  Good(copy)
<1>1. quest[q].dependsOn \subseteq finished
  BY DEF IInv, TypeOK, History, Claimable, DependenciesMet, QuestRec
<1> QED BY <1>1, BoardAssumption DEF Good, RecHolder, RecBudget, RecDependencies, Held

\* A quest that goes back on the board.
LEMMA RepostedGood ==
  ASSUME NEW rec \in QuestRec, NEW p \in Parties \cup {None}
  PROVE  Reposted(rec, p) \in QuestRec /\ Good(Reposted(rec, p))
BY DEF Reposted, QuestRec, Statuses, Good, RecHolder, RecBudget, RecDependencies, Held

\* What FailQuest makes of a quest: here the attempts are compared with the budget.
LEMMA FailedGood ==
  ASSUME NEW q \in Quests, NEW rec \in QuestRec, Good(rec)
  PROVE  Failed(q, rec) \in QuestRec /\ Good(Failed(q, rec))
<1> DEFINE triaged == [rec EXCEPT !.status = "pending_triage", !.claimedBy = None]
           lost    == [rec EXCEPT !.status = "failed"]
<1>1. CASE rec.attempts < rec.maxAttempts /\ rec.partyID = None
  BY <1>1, RepostedGood DEF Failed
<1>2. CASE ~(rec.attempts < rec.maxAttempts /\ rec.partyID = None)
  <2>1. triaged \in QuestRec /\ lost \in QuestRec
    BY DEF QuestRec, Statuses
  <2>2. rec.partyID = None => rec.attempts >= rec.maxAttempts
    BY <1>2 DEF QuestRec
  <2>3. Good(triaged)
    BY <2>2 DEF QuestRec, Good, RecHolder, RecBudget, RecDependencies, Held
  <2>4. Good(lost)
    BY <2>2 DEF QuestRec, Good, RecHolder, RecBudget, RecDependencies, Held
  <2>5. Failed(q, rec) \in {triaged, lost}
    BY <1>2 DEF Failed
  <2> QED BY <2>1, <2>3, <2>4, <2>5
<1> QED BY <1>1, <1>2

-----------------------------------------------------------------------------
(* Steps that start a handler.                                             *)

LEMMA UpdateStep ==
  ASSUME IInv, NEW c \in Callers, NEW q \in Quests, NEW copy \in QuestRec, Good(copy),
         NEW h \in Agents \cup {None}, Update(c, q, copy, h)
  PROVE  IInv'
<1> DEFINE cl == Updating(q, copy, h)
<1>1. cl \in Call
  <2>1. [quest |-> q, copy |-> copy] \in Put
    BY DEF Put
  <2> QED BY <2>1 DEF Updating, Call
<1>2. cl.puts = {[quest |-> q, copy |-> copy]} /\ cl.after = {}
      /\ cl.pc = (IF h = None THEN "put" ELSE "free") /\ cl.agent = h
  BY DEF Updating
<1>3. /\ call' = [call EXCEPT ![c] = cl]
      /\ UNCHANGED <<quest, agent, finished, crashes, notify>>
  BY DEF Update
<1> HIDE DEF cl
<1>4. CasReady(cl) /\ Named(cl) /\ FreeNames(cl)
  BY <1>2 DEF CasReady, Named, FreeNames
<1>5. \A w \in cl.puts \cup cl.after : Good(w.copy)
  BY <1>2
<1>6. notify' \in SUBSET Quests /\ agent' \in [Agents -> AgentRec]
  BY <1>3 DEF IInv, TypeOK
<1> QED BY <1>1, <1>3, <1>4, <1>5, <1>6, ReadStep

\* A handler that posts several quests, or puts several, names no agent.
LEMMA PutsStep ==
  ASSUME IInv, NEW c \in Callers, NEW q \in Quests \cup {None},
         NEW puts \in SUBSET Put, NEW after \in SUBSET Put,
         \A w \in puts \cup after : Good(w.copy),
         call' = [call EXCEPT ![c] = Putting(q, puts, after)],
         UNCHANGED <<quest, agent, finished, crashes>>,
         notify' \in SUBSET Quests
  PROVE  IInv'
<1> DEFINE cl == Putting(q, puts, after)
<1>1. /\ cl \in Call
      /\ cl.pc = "put" /\ cl.puts = puts /\ cl.after = after
  BY DEF Putting, Call
<1> HIDE DEF cl
<1>2. CasReady(cl) /\ Named(cl) /\ FreeNames(cl)
  BY <1>1 DEF CasReady, Named, FreeNames
<1>3. call' = [call EXCEPT ![c] = cl]
  BY DEF cl
<1>4. agent' \in [Agents -> AgentRec]
  BY DEF IInv, TypeOK
<1> QED BY <1>1, <1>2, <1>3, <1>4, ReadStep

LEMMA PostStep ==
  ASSUME IInv, NEW c \in Callers, NEW q \in Quests, NEW deps \in {{}, ChainDeps[q]},
         PostQuest(c, q, deps)
  PROVE  IInv'
<1>1. deps \in SUBSET Quests
  BY BoardAssumption
<1>2. Update(c, q, NewQuest(q, deps), None)
  BY DEF PostQuest
<1> QED BY <1>1, <1>2, NewQuestGood, UpdateStep

\* What the first pass of a chain, or a decomposition, puts.
LEMMA PostsGood ==
  ASSUME NEW children \in SUBSET Quests,
         NEW posts, posts = {[quest |-> r, copy |-> NewQuest(r, {})] : r \in children}
  PROVE  posts \in SUBSET Put /\ \A w \in posts : Good(w.copy)
BY NewQuestGood DEF Put

LEMMA PostChainStep ==
  ASSUME IInv, NEW c \in Callers, NEW entries \in SUBSET Quests, PostQuestChain(c, entries)
  PROVE  IInv'
<1> DEFINE posts == {[quest |-> r, copy |-> NewQuest(r, {})] : r \in entries}
           again == {[quest |-> r, copy |-> NewQuest(r, ChainDeps[r])] :
                       r \in {e \in entries : ChainDeps[e] # {}}}
<1>1. again \in SUBSET Put /\ \A w \in again : Good(w.copy)
  <2>1. \A r \in Quests : ChainDeps[r] \in SUBSET Quests
    BY BoardAssumption
  <2> QED BY <2>1, NewQuestGood DEF Put
<1>2. posts \in SUBSET Put /\ \A w \in posts : Good(w.copy)
  BY PostsGood
<1>3. /\ call' = [call EXCEPT ![c] = Putting(None, posts, again)]
      /\ UNCHANGED <<quest, agent, notify, finished, crashes>>
  BY DEF PostQuestChain
<1> HIDE DEF posts, again
<1>4. notify' \in SUBSET Quests
  BY <1>3 DEF IInv, TypeOK
<1>5. \A w \in posts \cup again : Good(w.copy)
  BY <1>1, <1>2
<1>6. None \in Quests \cup {None}
  OBVIOUS
<1> QED BY <1>1, <1>2, <1>3, <1>4, <1>5, <1>6, PutsStep

LEMMA PostSubsStep ==
  ASSUME IInv, NEW c \in Callers, NEW q \in Quests, NEW children \in SUBSET Quests,
         NEW a \in Agents, PostSubQuests(c, q, children, a)
  PROVE  IInv'
<1> DEFINE posts  == {[quest |-> r, copy |-> NewQuest(r, {})] : r \in children}
           again  == {[quest |-> q, copy |-> quest[q]]}
<1>1. quest[q] \in QuestRec /\ Good(quest[q])
  BY DEF IInv, TypeOK, StoredGood
<1>2. posts \in SUBSET Put /\ \A w \in posts : Good(w.copy)
  BY PostsGood
<1>3. /\ call' = [call EXCEPT ![c] = Putting(q, posts, again)]
      /\ UNCHANGED <<quest, agent, notify, finished, crashes>>
  BY DEF PostSubQuests
<1> HIDE DEF posts
<1>4. again \in SUBSET Put /\ \A w \in posts \cup again : Good(w.copy)
  BY <1>1, <1>2 DEF Put
<1> HIDE DEF again
<1>5. notify' \in SUBSET Quests
  BY <1>3 DEF IInv, TypeOK
<1> QED BY <1>2, <1>3, <1>4, <1>5, PutsStep

LEMMA ClaimForPartyStep ==
  ASSUME IInv, NEW c \in Callers, NEW q \in Quests, NEW p \in Parties,
         ClaimQuestForParty(c, q, p)
  PROVE  IInv'
<1> DEFINE copy == [Claimed(quest[q], Lead[p]) EXCEPT !.partyID = p]
<1>1. p # None /\ Lead[p] \in Agents /\ Lead[p] \in Members[p] /\ quest[q] \in QuestRec
  BY BoardAssumption DEF IInv, TypeOK
<1>2. /\ copy \in QuestRec /\ copy.status = "claimed" /\ copy.claimedBy = Lead[p]
      /\ copy.partyID = p /\ copy.dependsOn = quest[q].dependsOn
  BY <1>1, ClaimedShape DEF QuestRec
<1>3. Update(c, q, copy, None) /\ Claimable(quest[q])
  BY DEF ClaimQuestForParty
<1> HIDE DEF copy
<1>4. Good(copy)
  BY <1>1, <1>2, <1>3, ClaimedGood
<1> QED BY <1>2, <1>3, <1>4, UpdateStep

LEMMA ClaimAndStartStep ==
  ASSUME IInv, NEW c \in Callers, NEW q \in Quests, NEW p \in Parties, NEW a \in Agents,
         ClaimAndStartForParty(c, q, p, a)
  PROVE  IInv'
<1> DEFINE claim == Claimed(quest[q], a)
           copy  == [claim EXCEPT !.status = "in_progress", !.partyID = p]
<1>1. p # None /\ quest[q] \in QuestRec
  BY BoardAssumption DEF IInv, TypeOK
<1>2. claim \in QuestRec /\ claim.claimedBy = a /\ claim.dependsOn = quest[q].dependsOn
  BY <1>1, ClaimedShape
<1>3. Update(c, q, copy, None) /\ Claimable(quest[q]) /\ a \in Members[p]
  BY DEF ClaimAndStartForParty
<1> HIDE DEF claim
<1>4. /\ copy \in QuestRec /\ copy.status = "in_progress" /\ copy.claimedBy = a
      /\ copy.partyID = p /\ copy.dependsOn = quest[q].dependsOn
  BY <1>2 DEF QuestRec, Statuses
<1> HIDE DEF copy
<1>5. Good(copy)
  BY <1>1, <1>3, <1>4, ClaimedGood
<1> QED BY <1>3, <1>4, <1>5, UpdateStep

LEMMA WorkStep ==
  ASSUME IInv, NEW c \in Callers, NEW q \in Quests,
         StartQuest(c, q) \/ SubmitResult(c, q) \/ CompleteQuest(c, q)
  PROVE  IInv'
<1> USE BoardAssumption
<1>1. quest[q] \in QuestRec /\ Good(quest[q]) /\ notify \in SUBSET Quests
  BY DEF IInv, TypeOK, StoredGood
<1>2. ASSUME quest[q].status \in Held, NEW s \in Held
      PROVE  [quest[q] EXCEPT !.status = s] \in QuestRec /\ Good([quest[q] EXCEPT !.status = s])
  BY <1>1, <1>2 DEF QuestRec, Statuses, Held, Good, RecHolder, RecBudget, RecDependencies
<1>3. CASE StartQuest(c, q)
  BY <1>2, <1>3, UpdateStep DEF StartQuest, Held
<1>4. CASE SubmitResult(c, q)
  <2>1. (IF q \in NeedsReview THEN "in_review" ELSE "completed") \in Held
    BY DEF Held
  <2> QED BY <1>2, <1>4, <2>1, UpdateStep DEF SubmitResult, Held
<1>5. CASE CompleteQuest(c, q)
  <2> DEFINE copy == [quest[q] EXCEPT !.status = "completed"]
             cl   == [Updating(q, copy, None) EXCEPT !.spawn = TRUE]
  <2>1. copy \in QuestRec /\ Good(copy)
    BY <1>2, <1>5 DEF CompleteQuest, Held
  <2>2. call' = [call EXCEPT ![c] = cl] /\ UNCHANGED <<quest, agent, notify, finished, crashes>>
    BY <1>5 DEF CompleteQuest
  <2> HIDE DEF copy
  <2>3. [quest |-> q, copy |-> copy] \in Put
    BY <2>1 DEF Put
  <2>4. cl \in Call /\ cl.pc = "put" /\ cl.puts = {[quest |-> q, copy |-> copy]} /\ cl.after = {}
    BY <2>3 DEF Updating, Call
  <2> HIDE DEF cl
  <2>5. CasReady(cl) /\ Named(cl) /\ FreeNames(cl) /\ \A w \in cl.puts \cup cl.after : Good(w.copy)
    BY <2>1, <2>4 DEF CasReady, Named, FreeNames
  <2>6. notify' \in SUBSET Quests /\ agent' \in [Agents -> AgentRec]
    BY <2>2 DEF IInv, TypeOK
  <2> QED BY <2>2, <2>4, <2>5, <2>6, ReadStep
<1> QED BY <1>3, <1>4, <1>5

LEMMA EndingStep ==
  ASSUME IInv, NEW c \in Callers, NEW q \in Quests,
         \/ AbandonQuest(c, q) \/ RepostForRetry(c, q) \/ FailQuest(c, q)
         \/ TriageQuest(c, q) \/ EscalateQuest(c, q)
  PROVE  IInv'
<1> USE BoardAssumption
<1>1. quest[q] \in QuestRec /\ Good(quest[q])
  BY DEF IInv, TypeOK, StoredGood
<1>2. quest[q].claimedBy \in Agents \cup {None} /\ quest[q].partyID \in Parties \cup {None}
  BY <1>1 DEF QuestRec
<1>3. CASE AbandonQuest(c, q)
  BY <1>1, <1>2, <1>3, RepostedGood, UpdateStep DEF AbandonQuest
<1>4. CASE RepostForRetry(c, q)
  BY <1>1, <1>2, <1>4, RepostedGood, UpdateStep DEF RepostForRetry
<1>5. CASE FailQuest(c, q)
  BY <1>1, <1>2, <1>5, FailedGood, UpdateStep DEF FailQuest
<1>6. CASE TriageQuest(c, q)
  <2>1. quest[q].status = "pending_triage"
    BY <1>6 DEF TriageQuest
  <2>2. ASSUME NEW s \in {"escalated", "failed"}
        PROVE  LET copy == [quest[q] EXCEPT !.status = s] IN copy \in QuestRec /\ Good(copy)
    BY <1>1, <2>1 DEF QuestRec, Statuses, Held, Good, RecHolder, RecBudget, RecDependencies
  <2>3. LET copy == [quest[q] EXCEPT !.status = "posted", !.maxAttempts = @ + 1]
        IN copy \in QuestRec /\ Good(copy)
    <3> DEFINE n == quest[q].maxAttempts + 1
               copy == [quest[q] EXCEPT !.status = "posted", !.maxAttempts = n]
    <3>1. n \in Nat
      BY <1>1 DEF QuestRec
    <3> HIDE DEF n
    <3>2. copy \in QuestRec /\ Good(copy)
      BY <1>1, <2>1, <3>1
         DEF QuestRec, Statuses, Held, Good, RecHolder, RecBudget, RecDependencies
    <3> QED BY <3>2 DEF n
  <2> QED BY <1>6, <2>2, <2>3, UpdateStep DEF TriageQuest
<1>7. CASE EscalateQuest(c, q)
  <2>1. LET copy == [quest[q] EXCEPT !.status = "escalated"] IN copy \in QuestRec /\ Good(copy)
    BY <1>1 DEF QuestRec, Statuses, Held, Good, RecHolder, RecBudget, RecDependencies
  <2> QED BY <1>7, <2>1, UpdateStep DEF EscalateQuest
<1> QED BY <1>3, <1>4, <1>5, <1>6, <1>7

LEMMA NotifyStep ==
  ASSUME IInv, NEW c \in Callers, NEW q \in Quests, NotifyDependents(c, q)
  PROVE  IInv'
<1> DEFINE ready == {d \in Quests : /\ quest[d].status = "posted"
                                    /\ q \in quest[d].dependsOn
                                    /\ DependenciesMet(quest[d])}
           puts  == {[quest |-> d, copy |-> quest[d]] : d \in ready}
<1>1. /\ call' = IF ready = {} THEN call ELSE [call EXCEPT ![c] = Putting(None, puts, {})]
      /\ UNCHANGED <<quest, agent, finished, crashes>>
      /\ notify' \in SUBSET Quests
  BY DEF NotifyDependents, IInv, TypeOK
<1>2. puts \in SUBSET Put /\ \A w \in puts : Good(w.copy)
  BY DEF IInv, TypeOK, StoredGood, Put
<1> HIDE DEF puts, ready
<1>3. CASE ready # {}
  <2>1. None \in Quests \cup {None} /\ {} \in SUBSET Put /\ \A w \in puts \cup {} : Good(w.copy)
    BY <1>2
  <2>2. call' = [call EXCEPT ![c] = Putting(None, puts, {})]
    BY <1>1, <1>3
  <2> QED BY <1>1, <1>2, <2>1, <2>2, PutsStep
<1>4. CASE ready = {}
  <2>1. call' = [call EXCEPT ![c] = call[c]] /\ call[c] \in Call
    BY <1>1, <1>4 DEF IInv, TypeOK
  <2>2. CasReady(call[c]) /\ Named(call[c]) /\ FreeNames(call[c])
        /\ \A w \in call[c].puts \cup call[c].after : Good(w.copy)
    BY DEF IInv, AllCasReady, AllNamed, CopiesGood
  <2>3. agent' \in [Agents -> AgentRec]
    BY <1>1 DEF IInv, TypeOK
  <2> QED BY <1>1, <2>1, <2>2, <2>3, ReadStep
<1> QED BY <1>3, <1>4

-----------------------------------------------------------------------------
(* ClaimQuest.                                                             *)

LEMMA ClaimStep ==
  ASSUME IInv, NEW c \in Callers, NEW q \in Quests, NEW a \in Agents, ClaimQuest(c, q, a)
  PROVE  IInv'
<1> DEFINE cl == [Idle EXCEPT !.pc = "claiming", !.quest = q, !.agent = a]
<1>1. /\ cl \in Call /\ cl.pc = "claiming" /\ cl.quest = q /\ cl.agent = a
      /\ cl.puts = {} /\ cl.after = {}
  BY DEF Idle, Call
<1>2. call' = [call EXCEPT ![c] = cl] /\ UNCHANGED <<quest, agent, notify, finished, crashes>>
  BY DEF ClaimQuest
<1> HIDE DEF cl
<1>3. CasReady(cl) /\ Named(cl) /\ FreeNames(cl) /\ \A w \in cl.puts \cup cl.after : Good(w.copy)
  BY <1>1 DEF CasReady, Named, FreeNames
<1>4. notify' \in SUBSET Quests /\ agent' \in [Agents -> AgentRec]
  BY <1>2 DEF IInv, TypeOK
<1> QED BY <1>1, <1>2, <1>3, <1>4, ReadStep

LEMMA ClaimQuestReadStep ==
  ASSUME IInv, NEW c \in Callers, ClaimQuestRead(c)
  PROVE  IInv'
<1> DEFINE q == call[c].quest
           a == call[c].agent
           copy == Claimed(quest[q], a)
           won == [call[c] EXCEPT !.pc = "cas", !.fresh = TRUE,
                                  !.puts = {[quest |-> q, copy |-> copy]}]
           cl == IF Claimable(quest[q]) /\ MemberGate(quest[q], a) THEN won ELSE Idle
<1>1. call[c].pc = "claiming" /\ call' = [call EXCEPT ![c] = cl]
      /\ UNCHANGED <<quest, agent, notify, finished, crashes>>
  BY DEF ClaimQuestRead, IInv, TypeOK
<1>2. q \in Quests /\ a \in Agents /\ call[c] \in Call
  BY <1>1 DEF IInv, TypeOK, AllNamed, Named
<1>3. notify' \in SUBSET Quests /\ agent' \in [Agents -> AgentRec] /\ quest[q] \in QuestRec
  BY <1>1, <1>2 DEF IInv, TypeOK
<1>4. CASE ~(Claimable(quest[q]) /\ MemberGate(quest[q], a))
  <2>1. cl = Idle
    BY <1>4
  <2> HIDE DEF cl
  <2> QED BY <1>1, <1>3, <2>1, IdleCall, ReadStep
<1>5. CASE Claimable(quest[q]) /\ MemberGate(quest[q], a)
  <2>1. /\ copy \in QuestRec /\ copy.status = "claimed" /\ copy.claimedBy = a
        /\ copy.partyID = quest[q].partyID /\ copy.dependsOn = quest[q].dependsOn
    BY <1>2, <1>3, ClaimedShape
  <2>2. Good(copy)
    <3> HIDE DEF copy
    <3> QED BY <1>2, <1>5, <2>1, ClaimedGood DEF MemberGate
  <2>3. cl = won
    BY <1>5
  <2>4. [quest |-> q, copy |-> copy] \in Put
    BY <1>2, <2>1 DEF Put
  <2> HIDE DEF copy
  <2>5. /\ won \in Call /\ won.pc = "cas" /\ won.fresh /\ won.quest = q /\ won.agent = a
        /\ won.puts = {[quest |-> q, copy |-> copy]} /\ won.after = call[c].after
    BY <1>2, <2>4 DEF Call
  <2> HIDE DEF won, q, a
  <2>6. \A w \in won.puts \cup won.after : Good(w.copy)
    BY <2>2, <2>5 DEF IInv, CopiesGood
  <2>7. CasReady(won)
    BY <1>2, <1>5, <2>5 DEF CasReady, Claimable, copy
  <2>8. Named(won) /\ FreeNames(won)
    BY <2>5 DEF Named, FreeNames
  <2> QED BY <1>1, <1>3, <2>3, <2>5, <2>6, <2>7, <2>8, ReadStep
<1> QED BY <1>4, <1>5

LEMMA ClaimCASStep ==
  ASSUME IInv, NEW c \in Callers, ClaimQuestCAS(c)
  PROVE  IInv'
<1> USE BoardAssumption
<1>1. /\ notify \in SUBSET Quests /\ call[c] \in Call /\ call[c].pc = "cas"
      /\ CasReady(call[c]) /\ UNCHANGED <<agent, notify, crashes>>
  BY DEF IInv, TypeOK, AllCasReady, ClaimQuestCAS
<1>2. PICK w \in call[c].puts :
        IF call[c].fresh
        THEN EmitEntityUpdate(w.quest, w.copy,
               [call EXCEPT ![c] = [@ EXCEPT !.pc = "mark", !.puts = {}]])
        ELSE call' = [call EXCEPT ![c] = Idle] /\ UNCHANGED <<quest, finished>>
  BY DEF ClaimQuestCAS
<1>3. notify' \in SUBSET Quests
  BY <1>1
<1>4. CASE call[c].fresh
  <2> DEFINE cl == [call[c] EXCEPT !.pc = "mark", !.puts = {}]
  <2>1. cl \in Call /\ cl.pc = "mark" /\ cl.puts = {} /\ cl.after = call[c].after
        /\ cl.quest = call[c].quest /\ cl.agent = call[c].agent
    BY <1>1 DEF Call
  <2>2. w.quest \in Quests /\ w.copy \in QuestRec
    BY <1>1 DEF Call, Put
  <2>3. EmitEntityUpdate(w.quest, w.copy, [call EXCEPT ![c] = cl])
    BY <1>2, <1>4 DEF IInv, TypeOK
  <2> HIDE DEF cl
  <2>4. Good(w.copy) /\ \A v \in cl.puts \cup cl.after : Good(v.copy)
    BY <2>1 DEF IInv, CopiesGood
  <2>5. cl.pc # "cas" /\ Named(cl) /\ FreeNames(cl)
    BY <1>1, <2>1 DEF Named, FreeNames, CasReady
  <2> QED BY <1>1, <1>3, <2>1, <2>2, <2>3, <2>4, <2>5, EmitStep
<1>5. CASE ~call[c].fresh
  <2>1. call' = [call EXCEPT ![c] = Idle] /\ UNCHANGED <<quest, agent, finished, crashes>>
    BY <1>1, <1>2, <1>5
  <2>2. agent' \in [Agents -> AgentRec]
    BY <1>1 DEF IInv, TypeOK
  <2> QED BY <1>3, <2>1, <2>2, IdleCall, ReadStep
<1> QED BY <1>4, <1>5

-----------------------------------------------------------------------------
(* Writes of an agent, and the environment.                                *)

LEMMA AgentStep ==
  ASSUME IInv, NEW c \in Callers,
         ClaimQuestMarkAgent(c) \/ ReleaseHolder(c) \/ WriteError(c)
  PROVE  IInv'
<1> USE BoardAssumption
<1>1. call[c] \in Call /\ Named(call[c]) /\ FreeNames(call[c]) /\ notify \in SUBSET Quests
  BY DEF IInv, TypeOK, AllNamed
<1>2. CASE ClaimQuestMarkAgent(c)
  <2>3. call[c].quest \in Quests /\ call[c].agent \in Agents
    BY <1>1, <1>2 DEF Named, ClaimQuestMarkAgent
  <2>4. agent' \in [Agents -> AgentRec]
    BY <1>2, <2>3 DEF IInv, TypeOK, ClaimQuestMarkAgent, AgentRec, AgentStatuses
  <2>5. /\ call' = [call EXCEPT ![c] = Idle]
        /\ UNCHANGED <<quest, notify, finished, crashes>>
    BY <1>2 DEF ClaimQuestMarkAgent
  <2>6. notify' \in SUBSET Quests
    BY <1>1, <2>5
  <2> QED BY <2>4, <2>5, <2>6, IdleCall, ReadStep
<1> DEFINE cl == [call[c] EXCEPT !.pc = "put"]
<1>3. cl \in Call /\ cl.pc = "put" /\ cl.puts = call[c].puts /\ cl.after = call[c].after
  BY <1>1 DEF Call
<1>4. CasReady(cl) /\ Named(cl) /\ FreeNames(cl) /\ \A v \in cl.puts \cup cl.after : Good(v.copy)
  <2> HIDE DEF cl
  <2> QED BY <1>3 DEF CasReady, Named, FreeNames, IInv, CopiesGood
<1>5. CASE ReleaseHolder(c)
  <2>1. call' = [call EXCEPT ![c] = cl] /\ UNCHANGED <<quest, notify, finished, crashes>>
    BY <1>5 DEF ReleaseHolder, IInv, TypeOK
  <2> HIDE DEF cl
  <2>2. agent' \in [Agents -> AgentRec]
    BY <1>1, <1>5 DEF IInv, TypeOK, FreeNames, ReleaseHolder, AgentRec, AgentStatuses
  <2>3. notify' \in SUBSET Quests
    BY <1>1, <2>1
  <2> QED BY <1>3, <1>4, <2>1, <2>2, <2>3, ReadStep
<1>6. CASE WriteError(c)
  <2>1. call' = [call EXCEPT ![c] = cl] \/ call' = [call EXCEPT ![c] = Idle]
    BY <1>6 DEF WriteError, IInv, TypeOK
  <2>2. UNCHANGED <<quest, finished, crashes>> /\ notify' \in SUBSET Quests
        /\ agent' \in [Agents -> AgentRec]
    BY <1>6 DEF WriteError, IInv, TypeOK
  <2> HIDE DEF cl
  <2> QED BY <1>3, <1>4, <2>1, <2>2, IdleCall, ReadStep
<1> QED BY <1>2, <1>5, <1>6

\* A step after which every call is as it was, or gone, and no quest has changed.
LEMMA QuietStep ==
  ASSUME IInv, UNCHANGED <<quest, finished>>, agent' \in [Agents -> AgentRec],
         call' = call \/ call' = [x \in Callers |-> Idle],
         notify' \in SUBSET Quests, crashes' \in Nat
  PROVE  IInv'
<1>1. Idle \in Call /\ Idle.pc = "idle" /\ Idle.puts = {} /\ Idle.after = {}
  BY BoardAssumption DEF Idle, Call
<1>2. \A x \in Callers : call'[x] = call[x] \/ call'[x] = Idle
  OBVIOUS
<1>3. TypeOK'
  BY <1>1 DEF IInv, TypeOK
<1>4. \A rec : Good(rec)' <=> Good(rec)
  BY DEF Good, RecHolder, RecBudget, RecDependencies
<1>5. StoredGood' /\ History'
  BY <1>4 DEF IInv, StoredGood, History
<1>6. CopiesGood'
  BY <1>1, <1>2, <1>4 DEF IInv, CopiesGood
<1>7. AllNamed'
  BY <1>1, <1>2 DEF IInv, AllNamed, Named, FreeNames
<1>8. AllCasReady'
  BY <1>1, <1>2 DEF IInv, AllCasReady, CasReady
<1> QED BY <1>3, <1>5, <1>6, <1>7, <1>8 DEF IInv

LEMMA EnvironmentStep ==
  ASSUME IInv, Crash \/ \E a \in Agents, s \in OtherStatuses : SetAgentElsewhere(a, s)
  PROVE  IInv'
<1>1. CASE Crash
  BY <1>1, QuietStep DEF IInv, TypeOK, Crash
<1>2. ASSUME NEW a \in Agents, NEW s \in OtherStatuses, SetAgentElsewhere(a, s)
      PROVE  IInv'
  <2>1. s \in AgentStatuses /\ agent[a].current \in Quests \cup {None}
    BY BoardAssumption DEF IInv, TypeOK, AgentRec, AgentStatuses
  <2>2. agent' \in [Agents -> AgentRec]
    BY <1>2, <2>1 DEF IInv, TypeOK, SetAgentElsewhere, AgentRec
  <2> QED BY <1>2, <2>2, QuietStep DEF IInv, TypeOK, SetAgentElsewhere
<1> QED BY <1>1, <1>2

-----------------------------------------------------------------------------
(* A put.                                                                  *)

\* What is left of a call after one of its puts.
LEMMA RestCall ==
  ASSUME NEW old \in Call, old.pc = "put", NEW w
  PROVE  LET cl == Rest(old, w)
         IN  /\ cl \in Call /\ cl.pc \in {"put", "idle"}
             /\ cl.puts \cup cl.after \subseteq old.puts \cup old.after
<1> DEFINE cl   == Rest(old, w)
           less == [old EXCEPT !.puts = @ \ {w}]
           next == [old EXCEPT !.puts = old.after, !.after = {}]
<1>1. less \in Call /\ less.pc = "put" /\ less.puts = old.puts \ {w} /\ less.after = old.after
  BY DEF Call
<1>2. next \in Call /\ next.pc = "put" /\ next.puts = old.after /\ next.after = {}
  BY DEF Call
<1>3. cl = less \/ cl = next \/ cl = Idle
  BY DEF Rest
<1> HIDE DEF less, next, cl
<1>4. /\ cl \in Call /\ cl.pc \in {"put", "idle"}
      /\ cl.puts \cup cl.after \subseteq old.puts \cup old.after
  BY <1>1, <1>2, <1>3, IdleCall
<1> QED BY <1>4 DEF cl

LEMMA PutStep ==
  ASSUME IInv, NEW c \in Callers, PutQuest(c)
  PROVE  IInv'
<1>1. /\ notify \in SUBSET Quests /\ call[c] \in Call /\ call[c].pc = "put"
      /\ UNCHANGED <<agent, crashes>>
  BY DEF IInv, TypeOK, PutQuest
<1>2. PICK w \in call[c].puts :
        /\ EmitEntityUpdate(w.quest, w.copy, [call EXCEPT ![c] = Rest(@, w)])
        /\ notify' = IF call[c].spawn THEN notify \cup {w.quest} ELSE notify
  BY DEF PutQuest
<1>3. w.quest \in Quests /\ w.copy \in QuestRec /\ Good(w.copy)
  BY <1>1 DEF Call, Put, IInv, CopiesGood
<1>4. notify' \in SUBSET Quests
  BY <1>1, <1>2, <1>3
<1> DEFINE cl == Rest(call[c], w)
<1>5. /\ cl \in Call /\ cl.pc \in {"put", "idle"}
      /\ cl.puts \cup cl.after \subseteq call[c].puts \cup call[c].after
  BY <1>1, RestCall
<1>6. EmitEntityUpdate(w.quest, w.copy, [call EXCEPT ![c] = cl])
  BY <1>2 DEF IInv, TypeOK
<1> HIDE DEF cl
<1>7. cl.pc # "cas" /\ Named(cl) /\ FreeNames(cl)
  BY <1>5 DEF Named, FreeNames
<1>8. \A v \in cl.puts \cup cl.after : Good(v.copy)
  BY <1>5 DEF IInv, CopiesGood
<1> QED BY <1>1, <1>3, <1>4, <1>5, <1>6, <1>7, <1>8, EmitStep

-----------------------------------------------------------------------------
(* The invariant is inductive.                                             *)

LEMMA NextIInv == ASSUME IInv, [Next]_vars PROVE IInv'
<1>1. CASE UNCHANGED vars
  <2>1. UNCHANGED <<quest, agent, call, notify, finished, crashes>>
    BY <1>1 DEF vars
  <2> QED BY <2>1, QuietStep DEF IInv, TypeOK
<1>2. ASSUME NEW c \in Callers, Begin(c) PROVE IInv'
  <2>1. ASSUME NEW q \in Quests,
               \/ \E deps \in {{}, ChainDeps[q]} : PostQuest(c, q, deps)
               \/ \E a \in Agents : ClaimQuest(c, q, a)
               \/ \E p \in Parties : ClaimQuestForParty(c, q, p)
               \/ \E p \in Parties, a \in Agents : ClaimAndStartForParty(c, q, p, a)
        PROVE  IInv'
    <3>1. ASSUME NEW deps \in {{}, ChainDeps[q]}, PostQuest(c, q, deps) PROVE IInv'
      BY <3>1, PostStep
    <3>2. ASSUME NEW a \in Agents, ClaimQuest(c, q, a) PROVE IInv'
      BY <3>2, ClaimStep
    <3>3. ASSUME NEW p \in Parties, ClaimQuestForParty(c, q, p) PROVE IInv'
      BY <3>3, ClaimForPartyStep
    <3>4. ASSUME NEW p \in Parties, NEW a \in Agents, ClaimAndStartForParty(c, q, p, a)
          PROVE  IInv'
      BY <3>4, ClaimAndStartStep
    <3> QED BY <2>1, <3>1, <3>2, <3>3, <3>4
  <2>2. ASSUME NEW q \in Quests,
               \/ StartQuest(c, q) \/ SubmitResult(c, q) \/ CompleteQuest(c, q)
               \/ AbandonQuest(c, q) \/ RepostForRetry(c, q) \/ FailQuest(c, q)
               \/ TriageQuest(c, q) \/ EscalateQuest(c, q) \/ NotifyDependents(c, q)
        PROVE  IInv'
    BY <2>2, WorkStep, EndingStep, NotifyStep
  <2>3. ASSUME NEW entries \in SUBSET Quests, PostQuestChain(c, entries) PROVE IInv'
    BY <2>3, PostChainStep
  <2>4. ASSUME NEW parent \in Quests, NEW children \in SUBSET Quests, NEW a \in Agents,
               PostSubQuests(c, parent, children, a)
        PROVE  IInv'
    BY <2>4, PostSubsStep
  <2> QED BY <1>2, <2>1, <2>2, <2>3, <2>4 DEF Begin
<1>3. ASSUME NEW c \in Callers, Continue(c) PROVE IInv'
  BY <1>3, ClaimQuestReadStep, ClaimCASStep, AgentStep, PutStep DEF Continue
<1> QED BY <1>1, <1>2, <1>3, EnvironmentStep DEF Next

-----------------------------------------------------------------------------
(* The theorems.                                                           *)

\* Every entity and every call in flight keeps the shape of its Go type.
THEOREM TypeCorrect == Spec => []TypeOK
<1>1. IInv => TypeOK
  BY DEF IInv
<1> QED BY <1>1, InitIInv, NextIInv, PTL DEF Spec

\* No interleaving of handlers leaves a posted quest with a holder, a quest under work
\* without one, or a party's quest with an agent who is not a member.
THEOREM HolderAlwaysMatches == Spec => []HolderMatchesStatus
<1>1. IInv => HolderMatchesStatus
  BY DEF IInv, StoredGood, Good, HolderMatchesStatus
<1> QED BY <1>1, InitIInv, NextIInv, PTL DEF Spec

\* No interleaving of handlers fails a solo quest for good, or sends it to triage, with
\* attempts left.
THEOREM BudgetAlwaysHonoured == Spec => []RetryBudgetHonoured
<1>1. IInv => RetryBudgetHonoured
  BY DEF IInv, StoredGood, Good, RetryBudgetHonoured
<1> QED BY <1>1, InitIInv, NextIInv, PTL DEF Spec

\* A quest under work, or completed, had each quest its entity depends on completed before.
THEOREM DependenciesAlwaysRanFirst == Spec => []DependenciesRanFirst
<1>1. IInv => DependenciesRanFirst
  BY DEF IInv, StoredGood, Good, DependenciesRanFirst
<1> QED BY <1>1, InitIInv, NextIInv, PTL DEF Spec

\* A handler that begins is not in the middle of a claim, before or after.
LEMMA BeginNoMark ==
  ASSUME IInv, NEW d \in Callers, Begin(d), NEW c \in Callers, call[c].pc = "cas"
  PROVE  call'[c].pc = "cas"
<1>1. \A q, copy, h : Update(d, q, copy, h) => call'[c] = call[c]
  BY DEF Update, IInv, TypeOK
<1>2. ASSUME NEW q \in Quests,
             \/ \E deps \in {{}, ChainDeps[q]} : PostQuest(d, q, deps)
             \/ \E p \in Parties : ClaimQuestForParty(d, q, p)
             \/ \E p \in Parties, a \in Agents : ClaimAndStartForParty(d, q, p, a)
             \/ StartQuest(d, q) \/ SubmitResult(d, q) \/ AbandonQuest(d, q)
             \/ RepostForRetry(d, q) \/ FailQuest(d, q) \/ TriageQuest(d, q)
             \/ EscalateQuest(d, q)
      PROVE  call'[c] = call[c]
  BY <1>1, <1>2 DEF PostQuest, ClaimQuestForParty, ClaimAndStartForParty, StartQuest,
                    SubmitResult, AbandonQuest, RepostForRetry, FailQuest, TriageQuest,
                    EscalateQuest
<1>3. ASSUME NEW q \in Quests,
             \/ \E a \in Agents : ClaimQuest(d, q, a)
             \/ CompleteQuest(d, q) \/ NotifyDependents(d, q)
      PROVE  call'[c] = call[c]
  BY <1>3 DEF ClaimQuest, CompleteQuest, NotifyDependents, IInv, TypeOK
<1>4. ASSUME \/ \E entries \in SUBSET Quests : PostQuestChain(d, entries)
             \/ \E q \in Quests, children \in SUBSET Quests, a \in Agents :
                  PostSubQuests(d, q, children, a)
      PROVE  call'[c] = call[c]
  BY <1>4 DEF PostQuestChain, PostSubQuests, IInv, TypeOK
<1> QED BY <1>2, <1>3, <1>4 DEF Begin

\* Only ClaimQuestCAS, with a current revision, wins a claim.
LEMMA MarkByCAS ==
  ASSUME IInv, [Next]_vars, NEW c \in Callers, call[c].pc = "cas", call'[c].pc = "mark"
  PROVE  ClaimQuestCAS(c) /\ call[c].fresh
<1>1. ~UNCHANGED vars
  BY DEF vars
<1>2. ASSUME NEW d \in Callers, Begin(d) PROVE FALSE
  BY <1>2, BeginNoMark
<1>3. ASSUME Crash \/ \E a \in Agents, s \in OtherStatuses : SetAgentElsewhere(a, s)
      PROVE  FALSE
  BY <1>3, IdleCall DEF Crash, SetAgentElsewhere
<1>4. ASSUME NEW d \in Callers,
             \/ ClaimQuestRead(d) \/ ClaimQuestMarkAgent(d) \/ ReleaseHolder(d)
             \/ WriteError(d)
      PROVE  FALSE
  BY <1>4, IdleCall DEF ClaimQuestRead, ClaimQuestMarkAgent, ReleaseHolder, WriteError, IInv,
                        TypeOK
<1>5. ASSUME NEW d \in Callers, NEW q \in Quests, NEW copy, NEW cl \in Call,
             EmitEntityUpdate(q, copy, [call EXCEPT ![d] = cl]), d # c
      PROVE  FALSE
  <2>1. call[c] \in Call
    BY DEF IInv, TypeOK
  <2>2. call'[c] = IF call[c].quest = q THEN [call[c] EXCEPT !.fresh = FALSE] ELSE call[c]
    BY <1>5 DEF EmitEntityUpdate, Outdate, IInv, TypeOK
  <2>3. call'[c].pc = call[c].pc
    BY <2>1, <2>2, OutdatedCall
  <2> QED BY <2>3
<1>6. ASSUME NEW d \in Callers, PutQuest(d) PROVE FALSE
  <2>1. call[d].pc = "put" /\ d # c /\ call[d] \in Call
    BY <1>6 DEF PutQuest, IInv, TypeOK
  <2>2. PICK w \in call[d].puts :
          EmitEntityUpdate(w.quest, w.copy, [call EXCEPT ![d] = Rest(@, w)])
    BY <1>6 DEF PutQuest
  <2>3. Rest(call[d], w) \in Call /\ w.quest \in Quests
    BY <2>1, RestCall DEF Call, Put
  <2>4. EmitEntityUpdate(w.quest, w.copy, [call EXCEPT ![d] = Rest(call[d], w)])
    BY <2>2 DEF IInv, TypeOK
  <2> QED BY <1>5, <2>1, <2>3, <2>4
<1>7. ASSUME NEW d \in Callers, ClaimQuestCAS(d) PROVE d = c /\ call[c].fresh
  <2>1. call[d].pc = "cas" /\ call[d] \in Call
    BY <1>7 DEF ClaimQuestCAS, IInv, TypeOK
  <2>2. CASE ~call[d].fresh
    BY <1>7, <2>2, IdleCall DEF ClaimQuestCAS, IInv, TypeOK
  <2>3. CASE call[d].fresh
    <3> DEFINE cl == [call[d] EXCEPT !.pc = "mark", !.puts = {}]
    <3>1. PICK w \in call[d].puts : EmitEntityUpdate(w.quest, w.copy, [call EXCEPT ![d] = cl])
      BY <1>7, <2>3 DEF ClaimQuestCAS, IInv, TypeOK
    <3>2. cl \in Call /\ w.quest \in Quests
      BY <2>1 DEF Call, Put
    <3> HIDE DEF cl
    <3> QED BY <1>5, <2>3, <3>1, <3>2
  <2> QED BY <2>2, <2>3
<1> QED BY <1>1, <1>2, <1>3, <1>4, <1>6, <1>7 DEF Next, Continue

\* A compare-and-swap claim that succeeds overwrites nothing: what it claims is what is
\* stored, whoever else is in flight.
THEOREM ClaimsLoseNothing == Spec => ClaimLosesNothing
<1>1. ASSUME IInv, [Next]_vars, NEW c \in Callers PROVE WonClaim(c)
  <2> SUFFICES ASSUME call[c].pc = "cas", call'[c].pc = "mark"
               PROVE  /\ quest[call[c].quest].status = "posted"
                      /\ quest' = [quest EXCEPT ![call[c].quest] = Claimed(@, call[c].agent)]
    BY DEF WonClaim
  <2>1. ClaimQuestCAS(c) /\ call[c].fresh /\ CasReady(call[c])
    BY <1>1, MarkByCAS DEF IInv, AllCasReady
  <2>2. PICK w \in call[c].puts : quest' = [quest EXCEPT ![w.quest] = w.copy]
    BY <2>1 DEF ClaimQuestCAS, EmitEntityUpdate
  <2>3. w.quest = call[c].quest /\ quest[call[c].quest].status = "posted"
        /\ w.copy = Claimed(quest[call[c].quest], call[c].agent)
    BY <2>1 DEF CasReady
  <2> QED BY <2>2, <2>3
<1>2. IInv /\ [Next]_vars => \A c \in Callers : WonClaim(c)
  BY <1>1
<1>3. IInv /\ [Next]_vars => [\A c \in Callers : WonClaim(c)]_vars
  BY <1>2
<1> QED BY <1>3, InitIInv, NextIInv, PTL DEF Spec, ClaimLosesNothing

-----------------------------------------------------------------------------
(* One handler at a time.                                                  *)

\* The board as the documents imagine it: a handler runs to its end, or dies, before the
\* next one is called.
SoleCaller == \A c, d \in Callers : c = d

\* A put leaves the status of its quest or makes a move of the lifecycle.
Moves(from, to) == from = to \/ <<from, to>> \in Lifecycle!Transitions

\* The puts of a call are of different quests and each is a move of what is stored; a put of
\* the second pass repeats the status that the first pass stored.
Orderly(cl) ==
  cl.pc \in {"put", "free"} =>
    /\ \A w \in cl.puts : Moves(quest[w.quest].status, w.copy.status)
    /\ \A w, v \in cl.puts : w.quest = v.quest => w = v
    /\ \A w, v \in cl.after : w.quest = v.quest => w = v
    /\ \A w \in cl.after : \/ quest[w.quest].status = w.copy.status
                           \/ \E v \in cl.puts : v.quest = w.quest
    /\ \A w \in cl.after : \A v \in cl.puts : v.quest = w.quest => v.copy.status = w.copy.status

AllOrderly == \A c \in Callers : Orderly(call[c])

\* Whoever points at a quest that is about to be put is named by the copy, unless he is about
\* to be freed; whoever is about to be marked is named by the stored quest.
Attached(cl) ==
  /\ cl.pc \in {"put", "free"} =>
       \A w \in cl.puts \cup cl.after : \A a \in Agents :
         agent[a].current = w.quest /\ ~(cl.pc = "free" /\ a = cl.agent)
           => w.copy.claimedBy = a
  /\ cl.pc = "mark" => quest[cl.quest].claimedBy = cl.agent

AllAttached == \A c \in Callers : Attached(call[c])

\* A quest that was never posted is nobody's, and nobody posts one as such.
NoneBefore ==
  /\ \A q \in Quests : quest[q].status = "unposted" => quest[q].claimedBy = None
  /\ \A c \in Callers : \A w \in call[c].puts \cup call[c].after : w.copy.status # "unposted"

OrderlyIInv == IInv /\ AllOrderly

AttachedIInv == IInv /\ NoneBefore /\ NoDanglingAssignment /\ AllAttached

\* What a handler has in hand once it has made its reads: its puts are orderly, and each copy
\* keeps the holder, or there was none, or he is the one to be freed.
Begun(cl) ==
  /\ cl.pc \notin {"cas", "mark"}
  /\ Orderly(cl)
  /\ \A w \in cl.puts \cup cl.after :
       /\ w.quest \in Quests
       /\ w.copy.status # "unposted"
       /\ \/ w.copy.claimedBy = quest[w.quest].claimedBy
          \/ quest[w.quest].claimedBy = None
          \/ quest[w.quest].status = "unposted"
          \/ cl.pc = "free" /\ cl.agent = quest[w.quest].claimedBy

LEMMA UpdateBegun ==
  ASSUME IInv, NEW c \in Callers, NEW q \in Quests, NEW copy, NEW h, NEW cl,
         cl.pc = (IF h = None THEN "put" ELSE "free"), cl.agent = h,
         cl.puts = {[quest |-> q, copy |-> copy]}, cl.after = {},
         copy.status # "unposted", Moves(quest[q].status, copy.status),
         \/ copy.claimedBy = quest[q].claimedBy \/ quest[q].claimedBy \in {None, h}
  PROVE  Begun(cl)
<1>1. \A w \in cl.puts \cup cl.after : w.quest = q /\ w.copy = copy
  OBVIOUS
<1>2. Orderly(cl)
  BY <1>1 DEF Orderly
<1>3. CASE h = None
  BY <1>1, <1>2, <1>3 DEF Begun
<1>4. CASE h # None
  BY <1>1, <1>2, <1>4 DEF Begun
<1> QED BY <1>3, <1>4

LEMMA UpdateBegins ==
  ASSUME IInv, NEW c \in Callers, NEW q \in Quests, NEW copy, NEW h, Update(c, q, copy, h),
         copy.status # "unposted", Moves(quest[q].status, copy.status),
         \/ copy.claimedBy = quest[q].claimedBy \/ quest[q].claimedBy \in {None, h}
  PROVE  UNCHANGED <<quest, agent>> /\ Begun(call'[c])
<1> DEFINE cl == Updating(q, copy, h)
<1>1. call'[c] = cl /\ UNCHANGED <<quest, agent>>
  BY DEF Update, IInv, TypeOK
<1>2. /\ cl.pc = (IF h = None THEN "put" ELSE "free") /\ cl.agent = h
      /\ cl.puts = {[quest |-> q, copy |-> copy]} /\ cl.after = {}
  BY DEF Updating
<1> HIDE DEF cl
<1> QED BY <1>1, <1>2, UpdateBegun

\* A quest on the board may be claimed, or started, and nobody holds it.
LEMMA ClaimableMoves ==
  ASSUME IInv, NEW q \in Quests, Claimable(quest[q])
  PROVE  /\ Moves(quest[q].status, "claimed") /\ Moves(quest[q].status, "in_progress")
         /\ quest[q].claimedBy = None
<1>1. quest[q].status = "posted" /\ RecHolder(quest[q])
  BY DEF Claimable, IInv, StoredGood, Good
<1>2. <<"posted", "claimed">> \in Lifecycle!Transitions
      /\ <<"posted", "in_progress">> \in Lifecycle!Transitions
  BY DEF Lifecycle!Transitions
<1> QED BY <1>1, <1>2 DEF RecHolder, Moves

LEMMA ClaimBegins ==
  ASSUME IInv, NEW c \in Callers, NEW q \in Quests, NEW a \in Agents, ClaimQuest(c, q, a)
  PROVE  UNCHANGED <<quest, agent>> /\ Begun(call'[c])
<1> DEFINE cl == [Idle EXCEPT !.pc = "claiming", !.quest = q, !.agent = a]
<1>1. call'[c] = cl /\ UNCHANGED <<quest, agent>>
  BY DEF ClaimQuest, IInv, TypeOK
<1>2. cl.pc = "claiming" /\ cl.puts = {} /\ cl.after = {}
  BY DEF Idle
<1> HIDE DEF cl
<1> QED BY <1>1, <1>2 DEF Begun, Orderly

LEMMA PartyClaimsBegin ==
  ASSUME IInv, NEW c \in Callers, NEW q \in Quests, NEW p \in Parties,
         \/ ClaimQuestForParty(c, q, p)
         \/ \E a \in Agents : ClaimAndStartForParty(c, q, p, a)
  PROVE  UNCHANGED <<quest, agent>> /\ Begun(call'[c])
<1>1. quest[q] \in QuestRec /\ Lead[p] \in Agents
  BY BoardAssumption DEF IInv, TypeOK
<1>2. CASE ClaimQuestForParty(c, q, p)
  <2> DEFINE copy == [Claimed(quest[q], Lead[p]) EXCEPT !.partyID = p]
  <2>1. copy.status = "claimed"
    BY <1>1, ClaimedShape DEF QuestRec
  <2>2. Update(c, q, copy, None) /\ Claimable(quest[q])
    BY <1>2 DEF ClaimQuestForParty
  <2> HIDE DEF copy
  <2> QED BY <2>1, <2>2, ClaimableMoves, UpdateBegins
<1>3. ASSUME NEW a \in Agents, ClaimAndStartForParty(c, q, p, a)
      PROVE  UNCHANGED <<quest, agent>> /\ Begun(call'[c])
  <2> DEFINE copy == [Claimed(quest[q], a) EXCEPT !.status = "in_progress", !.partyID = p]
  <2>1. copy.status = "in_progress"
    BY <1>1, ClaimedShape DEF QuestRec
  <2>2. Update(c, q, copy, None) /\ Claimable(quest[q])
    BY <1>3 DEF ClaimAndStartForParty
  <2> HIDE DEF copy
  <2> QED BY <2>1, <2>2, ClaimableMoves, UpdateBegins
<1> QED BY <1>2, <1>3

LEMMA WorkBegins ==
  ASSUME IInv, NEW c \in Callers, NEW q \in Quests,
         StartQuest(c, q) \/ SubmitResult(c, q) \/ CompleteQuest(c, q)
  PROVE  UNCHANGED <<quest, agent>> /\ Begun(call'[c])
<1>1. quest[q] \in QuestRec
  BY DEF IInv, TypeOK
<1>2. ASSUME NEW s
      PROVE  /\ [quest[q] EXCEPT !.status = s].status = s
             /\ [quest[q] EXCEPT !.status = s].claimedBy = quest[q].claimedBy
  BY <1>1 DEF QuestRec
<1>3. CASE StartQuest(c, q)
  <2>1. Moves(quest[q].status, "in_progress")
    BY <1>3 DEF StartQuest, Moves, Lifecycle!Transitions
  <2> QED BY <1>2, <1>3, <2>1, UpdateBegins DEF StartQuest
<1>4. CASE SubmitResult(c, q)
  <2>1. Moves(quest[q].status, "in_review") /\ Moves(quest[q].status, "completed")
    BY <1>4 DEF SubmitResult, Moves, Lifecycle!Transitions
  <2> QED BY <1>2, <1>4, <2>1, UpdateBegins DEF SubmitResult
<1>5. CASE CompleteQuest(c, q)
  <2> DEFINE copy == [quest[q] EXCEPT !.status = "completed"]
             cl   == [Updating(q, copy, None) EXCEPT !.spawn = TRUE]
  <2>1. Moves(quest[q].status, "completed")
    BY <1>5 DEF CompleteQuest, Moves, Lifecycle!Transitions
  <2>2. call'[c] = cl /\ UNCHANGED <<quest, agent>>
    BY <1>5 DEF CompleteQuest, IInv, TypeOK
  <2>3. copy.status = "completed" /\ copy.claimedBy = quest[q].claimedBy
    BY <1>2
  <2> HIDE DEF copy
  <2>4. /\ cl.pc = "put" /\ cl.agent = None
        /\ cl.puts = {[quest |-> q, copy |-> copy]} /\ cl.after = {}
    BY DEF Updating
  <2> HIDE DEF cl
  <2> QED BY <2>1, <2>2, <2>3, <2>4, UpdateBegun
<1> QED BY <1>3, <1>4, <1>5

LEMMA EndingsBegin ==
  ASSUME IInv, NEW c \in Callers, NEW q \in Quests,
         \/ AbandonQuest(c, q) \/ RepostForRetry(c, q) \/ FailQuest(c, q)
         \/ TriageQuest(c, q) \/ EscalateQuest(c, q)
  PROVE  UNCHANGED <<quest, agent>> /\ Begun(call'[c])
<1>1. quest[q] \in QuestRec /\ RecHolder(quest[q])
  BY DEF IInv, TypeOK, StoredGood, Good
<1>2. ASSUME NEW p, NEW n
      PROVE  /\ Reposted(quest[q], p).status = "posted"
             /\ [quest[q] EXCEPT !.status = "posted", !.maxAttempts = n].status = "posted"
             /\ [quest[q] EXCEPT !.status = "posted", !.maxAttempts = n].claimedBy
                  = quest[q].claimedBy
  BY <1>1 DEF QuestRec, Reposted
<1>3. ASSUME NEW s
      PROVE  /\ [quest[q] EXCEPT !.status = s].status = s
             /\ [quest[q] EXCEPT !.status = s].claimedBy = quest[q].claimedBy
             /\ [quest[q] EXCEPT !.status = s, !.claimedBy = None].status = s
  BY <1>1 DEF QuestRec
<1>4. CASE AbandonQuest(c, q) \/ RepostForRetry(c, q)
  <2>1. Moves(quest[q].status, "posted")
    BY <1>1, <1>4 DEF AbandonQuest, RepostForRetry, Moves, Lifecycle!Transitions,
      Lifecycle!Statuses, QuestRec, Statuses
  <2> QED BY <1>2, <1>4, <2>1, UpdateBegins DEF AbandonQuest, RepostForRetry
<1>5. CASE FailQuest(c, q)
  <2>1. /\ Moves(quest[q].status, "posted") /\ Moves(quest[q].status, "pending_triage")
        /\ Moves(quest[q].status, "failed")
    BY <1>5 DEF FailQuest, Moves, Lifecycle!Transitions, Lifecycle!Statuses
  <2>2. Failed(q, quest[q]).status \in {"posted", "pending_triage", "failed"}
    BY <1>2, <1>3 DEF Failed
  <2>3. Update(c, q, Failed(q, quest[q]), quest[q].claimedBy)
    BY <1>5 DEF FailQuest
  <2> QED BY <2>1, <2>2, <2>3, UpdateBegins
<1>6. CASE TriageQuest(c, q)
  <2>1. /\ Moves(quest[q].status, "posted") /\ Moves(quest[q].status, "escalated")
        /\ Moves(quest[q].status, "failed")
    BY <1>6 DEF TriageQuest, Moves, Lifecycle!Transitions, Lifecycle!Statuses
  <2>2. CASE Update(c, q, [quest[q] EXCEPT !.status = "posted", !.maxAttempts = @ + 1], None)
    <3> DEFINE n == quest[q].maxAttempts + 1
    <3>1. Update(c, q, [quest[q] EXCEPT !.status = "posted", !.maxAttempts = n], None)
      BY <2>2
    <3> HIDE DEF n
    <3> QED BY <1>2, <2>1, <3>1, UpdateBegins
  <2>3. ASSUME NEW s \in {"escalated", "failed"},
               Update(c, q, [quest[q] EXCEPT !.status = s], None)
        PROVE  UNCHANGED <<quest, agent>> /\ Begun(call'[c])
    <3> DEFINE copy == [quest[q] EXCEPT !.status = s]
    <3>1. copy.status = s /\ copy.claimedBy = quest[q].claimedBy
      BY <1>3
    <3>2. Update(c, q, copy, None)
      BY <2>3
    <3>3. Moves(quest[q].status, s) /\ s # "unposted"
      BY <2>1, <2>3
    <3> HIDE DEF copy
    <3> QED BY <3>1, <3>2, <3>3, UpdateBegins
  <2> QED BY <1>6, <2>2, <2>3 DEF TriageQuest
<1>7. CASE EscalateQuest(c, q)
  <2>1. Moves(quest[q].status, "escalated")
    BY <1>1, <1>7 DEF EscalateQuest, Moves, Lifecycle!Transitions, Lifecycle!Active, QuestRec,
                      Statuses
  <2> QED BY <1>3, <1>7, <2>1, UpdateBegins DEF EscalateQuest
<1> QED BY <1>4, <1>5, <1>6, <1>7

\* What is posted was no quest before.
LEMMA NewBegins ==
  ASSUME NEW q \in Quests, NEW deps, quest[q].status = "unposted"
  PROVE  /\ NewQuest(q, deps).status = "posted" /\ NewQuest(q, deps).claimedBy = None
         /\ Moves(quest[q].status, NewQuest(q, deps).status)
<1>1. NewQuest(q, deps).status = "posted" /\ NewQuest(q, deps).claimedBy = None
  BY DEF NewQuest, Unposted
<1>2. <<"unposted", "posted">> \in Lifecycle!Transitions
  BY DEF Lifecycle!Transitions
<1> QED BY <1>1, <1>2 DEF Moves

\* Handlers that put several quests, which they may put again.
LEMMA PutsBegin ==
  ASSUME NEW puts \in SUBSET Put, NEW after \in SUBSET Put, NEW q,
         \A w \in puts : Moves(quest[w.quest].status, w.copy.status),
         \A w, v \in puts : w.quest = v.quest => w = v,
         \A w, v \in after : w.quest = v.quest => w = v,
         \A w \in after : \/ quest[w.quest].status = w.copy.status
                          \/ \E v \in puts : v.quest = w.quest,
         \A w \in after : \A v \in puts : v.quest = w.quest => v.copy.status = w.copy.status,
         \A w \in puts \cup after :
           /\ w.copy.status # "unposted"
           /\ \/ w.copy.claimedBy = quest[w.quest].claimedBy
              \/ quest[w.quest].status = "unposted"
  PROVE  Begun(Putting(q, puts, after))
<1> DEFINE cl == Putting(q, puts, after)
<1>1. cl.pc = "put" /\ cl.puts = puts /\ cl.after = after
  BY DEF Putting
<1> HIDE DEF cl
<1>2. Orderly(cl)
  BY <1>1 DEF Orderly
<1>3. \A w \in cl.puts \cup cl.after : w.quest \in Quests
  BY <1>1 DEF Put
<1>4. Begun(cl)
  BY <1>1, <1>2, <1>3 DEF Begun
<1> QED BY <1>4 DEF cl

LEMMA PostBegins ==
  ASSUME IInv, NEW c \in Callers, NEW q \in Quests, NEW deps, PostQuest(c, q, deps)
  PROVE  UNCHANGED <<quest, agent>> /\ Begun(call'[c])
<1> DEFINE copy == NewQuest(q, deps)
           cl   == Updating(q, copy, None)
<1>1. quest[q].status = "unposted" /\ Update(c, q, copy, None)
  BY DEF PostQuest, Unused
<1>2. copy.status = "posted" /\ Moves(quest[q].status, copy.status)
  BY <1>1, NewBegins
<1> HIDE DEF copy
<1>3. call'[c] = cl /\ UNCHANGED <<quest, agent>>
  BY <1>1 DEF Update, IInv, TypeOK
<1>4. cl.pc = "put" /\ cl.puts = {[quest |-> q, copy |-> copy]} /\ cl.after = {}
  BY DEF Updating
<1> HIDE DEF cl
<1>5. \A w \in cl.puts \cup cl.after : w.quest = q /\ w.copy = copy
  BY <1>4
<1>6. Orderly(cl)
  BY <1>2, <1>4, <1>5 DEF Orderly
<1> QED BY <1>1, <1>2, <1>3, <1>4, <1>5, <1>6 DEF Begun

LEMMA PostChainBegins ==
  ASSUME IInv, NEW c \in Callers, NEW entries \in SUBSET Quests, PostQuestChain(c, entries)
  PROVE  UNCHANGED <<quest, agent>> /\ Begun(call'[c])
<1> DEFINE posts == {[quest |-> r, copy |-> NewQuest(r, {})] : r \in entries}
           again == {[quest |-> r, copy |-> NewQuest(r, ChainDeps[r])] :
                       r \in {e \in entries : ChainDeps[e] # {}}}
<1>1. /\ \A q \in entries : quest[q].status = "unposted"
      /\ call'[c] = Putting(None, posts, again) /\ UNCHANGED <<quest, agent>>
  BY DEF PostQuestChain, Unused, IInv, TypeOK
<1>2. again \in SUBSET Put /\ posts \in SUBSET Put
  <2>1. \A r \in Quests : ChainDeps[r] \in SUBSET Quests
    BY BoardAssumption
  <2> QED BY <2>1, NewQuestGood DEF Put
<1>3. /\ \A w \in posts \cup again : w.quest \in entries /\ w.copy.status = "posted"
      /\ \A w \in posts : w.copy = NewQuest(w.quest, {})
      /\ \A w \in again : w.copy = NewQuest(w.quest, ChainDeps[w.quest])
  BY <1>1, NewBegins
<1>4. ASSUME NEW w \in again PROVE \E v \in posts : v.quest = w.quest
  <2>1. [quest |-> w.quest, copy |-> NewQuest(w.quest, {})] \in posts
    BY <1>3
  <2> QED BY <2>1
<1>5. /\ \A w, v \in posts : w.quest = v.quest => w = v
      /\ \A w, v \in again : w.quest = v.quest => w = v
  OBVIOUS
<1>6. \A w \in posts : Moves(quest[w.quest].status, w.copy.status)
  BY <1>1, <1>3, NewBegins
<1> HIDE DEF posts, again
<1>7. \A w \in again : \A v \in posts : v.copy.status = w.copy.status
  BY <1>3
<1>8. \A w \in posts \cup again : w.copy.status # "unposted" /\ quest[w.quest].status = "unposted"
  BY <1>1, <1>3
<1>9. Begun(Putting(None, posts, again))
  BY <1>2, <1>4, <1>5, <1>6, <1>7, <1>8, PutsBegin
<1> QED BY <1>1, <1>9

LEMMA PostSubsBegins ==
  ASSUME IInv, NEW c \in Callers, NEW q \in Quests, NEW children \in SUBSET Quests,
         NEW a \in Agents, PostSubQuests(c, q, children, a)
  PROVE  UNCHANGED <<quest, agent>> /\ Begun(call'[c])
<1> DEFINE posts == {[quest |-> r, copy |-> NewQuest(r, {})] : r \in children}
           again == {[quest |-> q, copy |-> quest[q]]}
<1>1. /\ \A r \in children : quest[r].status = "unposted"
      /\ quest[q].status \in {"claimed", "in_progress"} /\ quest[q] \in QuestRec
      /\ call'[c] = Putting(q, posts, again) /\ UNCHANGED <<quest, agent>>
  BY DEF PostSubQuests, Unused, IInv, TypeOK
<1>2. again \in SUBSET Put /\ posts \in SUBSET Put
  BY <1>1, NewQuestGood DEF Put
<1>3. /\ \A w \in posts : w.quest \in children /\ w.copy = NewQuest(w.quest, {})
      /\ \A w \in posts : Moves(quest[w.quest].status, w.copy.status)
                          /\ w.copy.status = "posted"
      /\ \A w \in again : w.quest = q /\ w.copy = quest[q]
  BY <1>1, NewBegins
<1>4. /\ \A w, v \in posts : w.quest = v.quest => w = v
      /\ \A w, v \in again : w.quest = v.quest => w = v
  OBVIOUS
<1> HIDE DEF posts, again
<1>5. \A w \in again : quest[w.quest].status = w.copy.status
  BY <1>3
<1>6. \A w \in posts \cup again : /\ w.copy.status # "unposted"
                                  /\ \/ w.copy.claimedBy = quest[w.quest].claimedBy
                                     \/ quest[w.quest].status = "unposted"
  BY <1>1, <1>3
<1>7. \A w \in again : \A v \in posts : v.quest # w.quest
  BY <1>1, <1>3
<1>8. Begun(Putting(q, posts, again))
  BY <1>2, <1>3, <1>4, <1>5, <1>6, <1>7, PutsBegin
<1> QED BY <1>1, <1>8

LEMMA NotifyBegins ==
  ASSUME IInv, NEW c \in Callers, NEW q \in Quests, NotifyDependents(c, q)
  PROVE  UNCHANGED <<quest, agent>> /\ (Begun(call'[c]) \/ call'[c] = call[c])
<1> DEFINE ready == {d \in Quests : /\ quest[d].status = "posted"
                                    /\ q \in quest[d].dependsOn
                                    /\ DependenciesMet(quest[d])}
           puts  == {[quest |-> d, copy |-> quest[d]] : d \in ready}
<1>1. /\ call' = IF ready = {} THEN call ELSE [call EXCEPT ![c] = Putting(None, puts, {})]
      /\ UNCHANGED <<quest, agent>>
  BY DEF NotifyDependents
<1>2. puts \in SUBSET Put /\ {} \in SUBSET Put
  BY DEF IInv, TypeOK, Put
<1>3. \A w \in puts : w.copy = quest[w.quest] /\ w.copy.status = "posted"
  OBVIOUS
<1>4. \A w, v \in puts : w.quest = v.quest => w = v
  OBVIOUS
<1> HIDE DEF puts, ready
<1>5. \A w \in puts : Moves(quest[w.quest].status, w.copy.status)
  BY <1>3 DEF Moves
<1>6. \A w \in puts \cup {} : /\ w.copy.status # "unposted"
                              /\ w.copy.claimedBy = quest[w.quest].claimedBy
  BY <1>3
<1>7. Begun(Putting(None, puts, {}))
  BY <1>2, <1>4, <1>5, <1>6, PutsBegin
<1>8. call'[c] = call[c] \/ call'[c] = Putting(None, puts, {})
  BY <1>1 DEF IInv, TypeOK
<1> QED BY <1>1, <1>7, <1>8

\* Whatever handler begins.
LEMMA AllBegin ==
  ASSUME IInv, NEW c \in Callers, Begin(c)
  PROVE  UNCHANGED <<quest, agent>> /\ (Begun(call'[c]) \/ call'[c] = call[c])
<1>1. ASSUME NEW q \in Quests,
             \/ \E deps \in {{}, ChainDeps[q]} : PostQuest(c, q, deps)
             \/ \E a \in Agents : ClaimQuest(c, q, a)
             \/ \E p \in Parties : ClaimQuestForParty(c, q, p)
             \/ \E p \in Parties, a \in Agents : ClaimAndStartForParty(c, q, p, a)
      PROVE  UNCHANGED <<quest, agent>> /\ Begun(call'[c])
  <2>1. ASSUME NEW deps \in {{}, ChainDeps[q]}, PostQuest(c, q, deps)
        PROVE  UNCHANGED <<quest, agent>> /\ Begun(call'[c])
    BY <2>1, PostBegins
  <2>2. ASSUME NEW a \in Agents, ClaimQuest(c, q, a)
        PROVE  UNCHANGED <<quest, agent>> /\ Begun(call'[c])
    BY <2>2, ClaimBegins
  <2>3. ASSUME NEW p \in Parties, ClaimQuestForParty(c, q, p)
        PROVE  UNCHANGED <<quest, agent>> /\ Begun(call'[c])
    BY <2>3, PartyClaimsBegin
  <2>4. ASSUME NEW p \in Parties, NEW a \in Agents, ClaimAndStartForParty(c, q, p, a)
        PROVE  UNCHANGED <<quest, agent>> /\ Begun(call'[c])
    BY <2>4, PartyClaimsBegin
  <2> QED BY <1>1, <2>1, <2>2, <2>3, <2>4
<1>2. ASSUME NEW q \in Quests,
             \/ StartQuest(c, q) \/ SubmitResult(c, q) \/ CompleteQuest(c, q)
             \/ AbandonQuest(c, q) \/ RepostForRetry(c, q) \/ FailQuest(c, q)
             \/ TriageQuest(c, q) \/ EscalateQuest(c, q)
      PROVE  UNCHANGED <<quest, agent>> /\ Begun(call'[c])
  BY <1>2, WorkBegins, EndingsBegin
<1>3. ASSUME NEW q \in Quests, NotifyDependents(c, q)
      PROVE  UNCHANGED <<quest, agent>> /\ (Begun(call'[c]) \/ call'[c] = call[c])
  BY <1>3, NotifyBegins
<1>4. ASSUME NEW entries \in SUBSET Quests, PostQuestChain(c, entries)
      PROVE  UNCHANGED <<quest, agent>> /\ Begun(call'[c])
  BY <1>4, PostChainBegins
<1>5. ASSUME NEW parent \in Quests, NEW children \in SUBSET Quests, NEW a \in Agents,
             PostSubQuests(c, parent, children, a)
      PROVE  UNCHANGED <<quest, agent>> /\ Begun(call'[c])
  BY <1>5, PostSubsBegins
<1> QED BY <1>1, <1>2, <1>3, <1>4, <1>5 DEF Begin

-----------------------------------------------------------------------------
(* With one caller the board implements the lifecycle.                     *)

\* What the call of a put is afterwards: an old revision is all that others can tell.
LEMMA AfterEmit ==
  ASSUME IInv, NEW c \in Callers, NEW q \in Quests, NEW copy \in QuestRec, NEW cl \in Call,
         EmitEntityUpdate(q, copy, [call EXCEPT ![c] = cl])
  PROVE  /\ quest' = [quest EXCEPT ![q] = copy]
         /\ call'[c].pc = cl.pc /\ call'[c].quest = cl.quest /\ call'[c].agent = cl.agent
         /\ call'[c].puts = cl.puts /\ call'[c].after = cl.after
<1> DEFINE cs == [call EXCEPT ![c] = cl]
           o  == [cl EXCEPT !.fresh = FALSE]
<1>1. cs[c] = cl
  BY DEF IInv, TypeOK
<1>2. call' = Outdate(q, cs) /\ quest' = [quest EXCEPT ![q] = copy]
  BY DEF EmitEntityUpdate
<1>3. call'[c] = cl \/ call'[c] = o
  BY <1>1, <1>2 DEF Outdate
<1>4. /\ o.pc = cl.pc /\ o.quest = cl.quest /\ o.agent = cl.agent
      /\ o.puts = cl.puts /\ o.after = cl.after
  BY DEF Call
<1> HIDE DEF o, cs
<1> QED BY <1>2, <1>3, <1>4

\* The three ways a call goes on after a put.
LEMMA RestShape ==
  ASSUME NEW old \in Call, old.pc = "put", NEW w, NEW cl, cl = Rest(old, w)
  PROVE  \/ cl.pc = "put" /\ cl.puts = old.puts \ {w} /\ cl.after = old.after
         \/ cl.pc = "put" /\ old.puts = {w} /\ cl.puts = old.after /\ cl.after = {}
         \/ cl.pc = "idle" /\ cl.puts = {} /\ cl.after = {}
<1> DEFINE less == [old EXCEPT !.puts = @ \ {w}]
           next == [old EXCEPT !.puts = old.after, !.after = {}]
<1>1. less.pc = "put" /\ less.puts = old.puts \ {w} /\ less.after = old.after
  BY DEF Call
<1>2. next.pc = "put" /\ next.puts = old.after /\ next.after = {}
  BY DEF Call
<1>3. cl = less \/ (old.puts = {w} /\ cl = next) \/ cl = Idle
  BY DEF Rest
<1> HIDE DEF less, next
<1> QED BY <1>1, <1>2, <1>3, IdleCall

\* A put is a move of its quest and keeps the rest of the call in order.
LEMMA PutOrderly ==
  ASSUME quest \in [Quests -> QuestRec], NEW old \in Call, old.pc = "put", Orderly(old),
         NEW w \in old.puts, quest' = [quest EXCEPT ![w.quest] = w.copy],
         NEW cl,
         \/ cl.pc = "put" /\ cl.puts = old.puts \ {w} /\ cl.after = old.after
         \/ cl.pc = "put" /\ old.puts = {w} /\ cl.puts = old.after /\ cl.after = {}
         \/ cl.pc = "idle"
  PROVE  Orderly(cl)' /\ Moves(quest[w.quest].status, w.copy.status)
<1>1. /\ \A v \in old.puts : Moves(quest[v.quest].status, v.copy.status)
      /\ \A u, v \in old.puts : u.quest = v.quest => u = v
      /\ \A u, v \in old.after : u.quest = v.quest => u = v
      /\ \A u \in old.after : \/ quest[u.quest].status = u.copy.status
                              \/ \E v \in old.puts : v.quest = u.quest
      /\ \A u \in old.after : \A v \in old.puts :
           v.quest = u.quest => v.copy.status = u.copy.status
  BY DEF Orderly
<1>2. /\ \A v \in old.puts \cup old.after : v.quest \in Quests
      /\ \A v \in old.puts \cup old.after :
           quest'[v.quest] = IF v.quest = w.quest THEN w.copy ELSE quest[v.quest]
  BY DEF Call, Put
<1>3. \A v \in old.puts \ {w} : quest'[v.quest] = quest[v.quest]
  BY <1>1, <1>2
<1>4. ASSUME NEW u \in old.after
      PROVE  \/ quest'[u.quest].status = u.copy.status
             \/ \E v \in old.puts \ {w} : v.quest = u.quest
  <2>1. CASE u.quest = w.quest
    BY <1>1, <1>2, <2>1
  <2>2. CASE u.quest # w.quest
    BY <1>1, <1>2, <2>2
  <2> QED BY <2>1, <2>2
<1>5. CASE cl.pc = "put" /\ cl.puts = old.puts \ {w} /\ cl.after = old.after
  BY <1>1, <1>3, <1>4, <1>5 DEF Orderly, Moves
<1>6. CASE cl.pc = "put" /\ old.puts = {w} /\ cl.puts = old.after /\ cl.after = {}
  BY <1>1, <1>4, <1>6 DEF Orderly, Moves
<1>7. CASE cl.pc = "idle"
  BY <1>7 DEF Orderly
<1> QED BY <1>1, <1>5, <1>6, <1>7

\* The status of every quest, which is all that the lifecycle sees.
StatusOf == [q \in Quests |-> quest[q].status]

\* With one caller, what its call is decides.
LEMMA SoleOrderly ==
  ASSUME SoleCaller, NEW c \in Callers, NEW cl, cl = call'[c], Orderly(cl)'
  PROVE  AllOrderly'
<1>1. \A d \in Callers : d = c
  BY DEF SoleCaller
<1>2. Orderly(call[c])'
  BY DEF Orderly
<1> QED BY <1>1, <1>2 DEF AllOrderly

LEMMA UnputOrderly ==
  ASSUME SoleCaller, NEW c \in Callers, UNCHANGED quest, NEW cl, cl = call'[c], Orderly(cl)
  PROVE  AllOrderly' /\ StatusOf' = StatusOf
<1>1. Orderly(cl)'
  BY DEF Orderly
<1> QED BY <1>1, SoleOrderly DEF StatusOf

\* A put that moves a quest is a step of the lifecycle, or none.
LEMMA LifecyclePut ==
  ASSUME quest \in [Quests -> QuestRec], NEW q \in Quests, NEW copy \in QuestRec,
         quest' = [quest EXCEPT ![q] = copy], Moves(quest[q].status, copy.status)
  PROVE  [Lifecycle!Next]_StatusOf
<1>1. StatusOf' = [StatusOf EXCEPT ![q] = copy.status] /\ StatusOf[q] = quest[q].status
  BY DEF StatusOf
<1>2. copy.status \in Lifecycle!Statuses
  BY DEF QuestRec, Statuses, Lifecycle!Statuses
<1>3. CASE copy.status = quest[q].status
  BY <1>1, <1>3 DEF StatusOf
<1>4. CASE <<quest[q].status, copy.status>> \in Lifecycle!Transitions
  BY <1>1, <1>2, <1>4 DEF Lifecycle!Next, Lifecycle!Move, StatusOf
<1> QED BY <1>3, <1>4 DEF Moves

LEMMA OrderlyContinue ==
  ASSUME OrderlyIInv, SoleCaller, NEW c \in Callers, Continue(c)
  PROVE  AllOrderly' /\ [Lifecycle!Next]_StatusOf
<1>1. /\ call \in [Callers -> Call] /\ call[c] \in Call /\ Orderly(call[c])
      /\ quest \in [Quests -> QuestRec] /\ IInv
  BY DEF OrderlyIInv, IInv, TypeOK, AllOrderly
<1>2. Orderly(Idle)
  BY IdleCall DEF Orderly
<1>3. CASE ClaimQuestRead(c)
  <2> DEFINE cl == [call[c] EXCEPT !.pc = "cas", !.fresh = TRUE,
                      !.puts = {[quest |-> call[c].quest,
                                 copy |-> Claimed(quest[call[c].quest], call[c].agent)]}]
  <2>1. /\ call'[c] = cl \/ call'[c] = Idle
        /\ UNCHANGED quest
    BY <1>1, <1>3 DEF ClaimQuestRead
  <2>2. cl.pc = "cas"
    BY <1>1 DEF Call
  <2> HIDE DEF cl
  <2>3. Orderly(cl)
    BY <2>2 DEF Orderly
  <2> QED BY <1>2, <2>1, <2>3, UnputOrderly
<1>4. CASE ClaimQuestMarkAgent(c)
  BY <1>1, <1>2, <1>4, UnputOrderly DEF ClaimQuestMarkAgent
<1>5. CASE ReleaseHolder(c) \/ WriteError(c)
  <2> DEFINE cl == [call[c] EXCEPT !.pc = "put"]
  <2>1. /\ call'[c] = cl \/ call'[c] = Idle
        /\ call'[c] = cl => call[c].pc = "free" \/ call'[c] = Idle
        /\ UNCHANGED quest
    BY <1>1, <1>5 DEF ReleaseHolder, WriteError
  <2>2. cl.pc = "put" /\ cl.puts = call[c].puts /\ cl.after = call[c].after
    BY <1>1 DEF Call
  <2> HIDE DEF cl
  <2>3. call[c].pc = "free" => Orderly(cl)
    BY <1>1, <2>2 DEF Orderly
  <2> QED BY <1>2, <2>1, <2>3, UnputOrderly
<1>6. CASE ClaimQuestCAS(c)
  <2>1. call[c].pc = "cas" /\ CasReady(call[c])
    BY <1>1, <1>6 DEF ClaimQuestCAS, IInv, AllCasReady
  <2>2. CASE ~call[c].fresh
    BY <1>1, <1>2, <1>6, <2>2, UnputOrderly DEF ClaimQuestCAS
  <2>3. CASE call[c].fresh
    <3> DEFINE cl == [call[c] EXCEPT !.pc = "mark", !.puts = {}]
    <3>1. PICK w \in call[c].puts : EmitEntityUpdate(w.quest, w.copy, [call EXCEPT ![c] = cl])
      BY <1>1, <1>6, <2>3 DEF ClaimQuestCAS
    <3>2. cl \in Call /\ cl.pc = "mark" /\ w.quest \in Quests /\ w.copy \in QuestRec
      BY <1>1 DEF Call, Put
    <3> HIDE DEF cl
    <3>3. quest' = [quest EXCEPT ![w.quest] = w.copy] /\ call'[c].pc = "mark"
      <4>1. EmitEntityUpdate(w.quest, w.copy, [call EXCEPT ![c] = cl])
        BY <3>1
      <4>2. IInv /\ w.quest \in Quests /\ w.copy \in QuestRec /\ cl \in Call
        BY <1>1, <3>2
      <4>3. /\ quest' = [quest EXCEPT ![w.quest] = w.copy]
            /\ call'[c].pc = cl.pc /\ call'[c].quest = cl.quest /\ call'[c].agent = cl.agent
            /\ call'[c].puts = cl.puts /\ call'[c].after = cl.after
        BY <4>1, <4>2, AfterEmit
      <4> QED BY <4>3, <3>2
    <3>4. /\ quest[w.quest].status = "posted"
          /\ w.copy = Claimed(quest[w.quest], call[c].agent) /\ call[c].agent \in Agents
      BY <2>1, <2>3 DEF CasReady
    <3>5. Moves(quest[w.quest].status, w.copy.status)
      <4>1. w.copy.status = "claimed"
        BY <1>1, <3>2, <3>4, ClaimedShape
      <4> QED BY <3>4, <4>1 DEF Moves, Lifecycle!Transitions
    <3>6. [Lifecycle!Next]_StatusOf
      BY <1>1, <3>2, <3>3, <3>5, LifecyclePut
    <3>7. \A cm : cm = call'[c] => Orderly(cm)'
      BY <3>3 DEF Orderly
    <3> QED BY <3>6, <3>7, SoleOrderly
  <2> QED BY <2>2, <2>3
<1>7. CASE PutQuest(c)
  <2>1. call[c].pc = "put"
    BY <1>7 DEF PutQuest
  <2>2. PICK w \in call[c].puts :
          EmitEntityUpdate(w.quest, w.copy, [call EXCEPT ![c] = Rest(call[c], w)])
    BY <1>1, <1>7 DEF PutQuest
  <2>3. PICK cl \in Call : cl = Rest(call[c], w)
    BY <1>1, <2>1, RestCall
  <2>4. w.quest \in Quests /\ w.copy \in QuestRec
    BY <1>1 DEF Call, Put
  <2>5. /\ quest' = [quest EXCEPT ![w.quest] = w.copy]
        /\ call'[c].pc = cl.pc /\ call'[c].puts = cl.puts /\ call'[c].after = cl.after
    <3>1. EmitEntityUpdate(w.quest, w.copy, [call EXCEPT ![c] = cl])
      BY <2>2, <2>3
    <3>2. IInv /\ w.quest \in Quests /\ w.copy \in QuestRec
      BY <1>1, <2>4
    <3> QED BY <3>1, <3>2, AfterEmit
  <2>6. Orderly(cl)' /\ Moves(quest[w.quest].status, w.copy.status)
    <3>1. \/ cl.pc = "put" /\ cl.puts = call[c].puts \ {w} /\ cl.after = call[c].after
          \/ cl.pc = "put" /\ call[c].puts = {w} /\ cl.puts = call[c].after /\ cl.after = {}
          \/ cl.pc = "idle"
      BY <1>1, <2>1, <2>3, RestShape
    <3> QED BY <1>1, <2>1, <2>5, <3>1, PutOrderly
  <2>7. \A cm : cm = call'[c] => Orderly(cm)'
    BY <2>5, <2>6 DEF Orderly
  <2> QED BY <1>1, <2>4, <2>5, <2>6, <2>7, LifecyclePut, SoleOrderly
<1> QED BY <1>3, <1>4, <1>5, <1>6, <1>7 DEF Continue

LEMMA OrderlyStep ==
  ASSUME OrderlyIInv, SoleCaller, [Next]_vars
  PROVE  AllOrderly' /\ [Lifecycle!Next]_StatusOf
<1>1. CASE UNCHANGED <<quest, call>>
  BY <1>1 DEF OrderlyIInv, AllOrderly, Orderly, StatusOf
<1>2. ASSUME NEW c \in Callers, Begin(c)
      PROVE  AllOrderly' /\ [Lifecycle!Next]_StatusOf
  <2>1. Orderly(call[c])
    BY DEF OrderlyIInv, AllOrderly
  <2>2. UNCHANGED quest /\ \A cl : cl = call'[c] => Orderly(cl)
    BY <1>2, <2>1, AllBegin DEF OrderlyIInv, Begun
  <2> QED BY <2>2, UnputOrderly
<1>3. CASE Crash
  <2>1. UNCHANGED quest /\ \A c \in Callers : call'[c] = Idle
    BY <1>3 DEF Crash
  <2> QED BY <2>1, IdleCall DEF AllOrderly, Orderly, StatusOf
<1>4. UNCHANGED vars => UNCHANGED <<quest, call>>
  BY DEF vars
<1>5. ASSUME NEW a \in Agents, NEW s \in OtherStatuses, SetAgentElsewhere(a, s)
      PROVE  UNCHANGED <<quest, call>>
  BY <1>5 DEF SetAgentElsewhere
<1> QED BY <1>1, <1>2, <1>3, <1>4, <1>5, OrderlyContinue DEF Next

\* While one handler runs at a time, whether writes fail and the process dies between two of
\* them or not, every change of a quest's status is one that the lifecycle draws.
THEOREM LifecycleImplemented == ASSUME SoleCaller PROVE Spec => ImplementsLifecycle
<1>1. Init => Lifecycle!Init /\ OrderlyIInv
  <2> SUFFICES ASSUME Init PROVE Lifecycle!Init /\ OrderlyIInv
    OBVIOUS
  <2>1. Lifecycle!Init
    BY DEF Init, Lifecycle!Init, Unposted
  <2>2. AllOrderly
    BY IdleCall DEF Init, AllOrderly, Orderly
  <2> QED BY <2>1, <2>2, InitIInv DEF OrderlyIInv
<1>2. OrderlyIInv /\ [Next]_vars => OrderlyIInv' /\ [Lifecycle!Next]_StatusOf
  BY OrderlyStep, NextIInv DEF OrderlyIInv
<1>3. OrderlyIInv /\ [Next]_vars
        => OrderlyIInv' /\ [Lifecycle!Next]_([q \in Quests |-> quest[q].status])
  BY <1>2 DEF StatusOf
<1> QED BY <1>1, <1>3, PTL DEF Spec, ImplementsLifecycle, Lifecycle!Spec

-----------------------------------------------------------------------------
(* With one caller, and no write that fails, nobody points at a quest that *)
(* is not his.                                                             *)

\* A call that begins takes nobody's quest: whoever points at it is named by its copy, or is
\* to be freed first.
LEMMA BegunAttached ==
  ASSUME IInv, NoneBefore, NoDanglingAssignment, NEW cl, Begun(cl)
  PROVE  Attached(cl) /\ \A w \in cl.puts \cup cl.after : w.copy.status # "unposted"
<1>1. ASSUME NEW w \in cl.puts \cup cl.after, NEW a \in Agents, agent[a].current = w.quest,
             ~(cl.pc = "free" /\ a = cl.agent)
      PROVE  w.copy.claimedBy = a
  <2>1. w.quest \in Quests /\ a # None /\ w.quest # None
    BY BoardAssumption DEF Begun
  <2>2. quest[w.quest].claimedBy = a
    BY <1>1, <2>1 DEF NoDanglingAssignment
  <2> QED BY <1>1, <2>1, <2>2 DEF Begun, NoneBefore
<1> QED BY <1>1 DEF Attached, Begun

\* With one caller, what its call is decides.
LEMMA SoleAttached ==
  ASSUME SoleCaller, NEW c \in Callers, NEW cl,
         call'[c].pc = cl.pc, call'[c].quest = cl.quest, call'[c].agent = cl.agent,
         call'[c].puts = cl.puts, call'[c].after = cl.after, Attached(cl)',
         \A w \in cl.puts \cup cl.after : w.copy.status # "unposted",
         \A q \in Quests : quest'[q].status = "unposted" => quest'[q].claimedBy = None
  PROVE  AllAttached' /\ NoneBefore'
<1>1. \A d \in Callers : d = c
  BY DEF SoleCaller
<1>2. Attached(call[c])'
  BY DEF Attached
<1> QED BY <1>1, <1>2 DEF AllAttached, NoneBefore

LEMMA IdleAttached ==
  /\ Attached(Idle) /\ \A w \in Idle.puts \cup Idle.after : w.copy.status # "unposted"
BY IdleCall DEF Attached

\* A step that puts no quest and marks no agent.
LEMMA UnputAttached ==
  ASSUME AttachedIInv, SoleCaller, NEW c \in Callers, UNCHANGED <<quest, agent>>,
         NEW cl, cl = call'[c], Attached(cl),
         \A w \in cl.puts \cup cl.after : w.copy.status # "unposted"
  PROVE  AllAttached' /\ NoneBefore' /\ NoDanglingAssignment'
<1>1. Attached(cl)'
  BY DEF Attached
<1>2. \A q \in Quests : quest'[q].status = "unposted" => quest'[q].claimedBy = None
  BY DEF AttachedIInv, NoneBefore
<1>3. NoDanglingAssignment'
  BY DEF AttachedIInv, NoDanglingAssignment
<1> QED BY <1>1, <1>2, <1>3, SoleAttached

LEMMA AttachedPut ==
  ASSUME AttachedIInv, SoleCaller, NEW c \in Callers, PutQuest(c)
  PROVE  AllAttached' /\ NoneBefore' /\ NoDanglingAssignment'
<1>1. /\ call \in [Callers -> Call] /\ call[c] \in Call /\ Attached(call[c])
      /\ call[c].pc = "put" /\ UNCHANGED agent
      /\ quest \in [Quests -> QuestRec] /\ IInv
      /\ \A v \in call[c].puts \cup call[c].after : v.copy.status # "unposted"
  BY DEF AttachedIInv, IInv, TypeOK, AllAttached, NoneBefore, PutQuest
<1>2. PICK w \in call[c].puts :
        EmitEntityUpdate(w.quest, w.copy, [call EXCEPT ![c] = Rest(call[c], w)])
  BY <1>1 DEF PutQuest
<1>3. PICK cl \in Call : cl = Rest(call[c], w)
  BY <1>1, RestCall
<1>4. w.quest \in Quests /\ w.copy \in QuestRec
  BY <1>1 DEF Call, Put
<1>5. /\ quest' = [quest EXCEPT ![w.quest] = w.copy]
      /\ call'[c].pc = cl.pc /\ call'[c].quest = cl.quest /\ call'[c].agent = cl.agent
      /\ call'[c].puts = cl.puts /\ call'[c].after = cl.after
  <2>1. EmitEntityUpdate(w.quest, w.copy, [call EXCEPT ![c] = cl])
    BY <1>2, <1>3
  <2>2. IInv /\ w.quest \in Quests /\ w.copy \in QuestRec
    BY <1>1, <1>4
  <2> QED BY <2>1, <2>2, AfterEmit
<1>6. /\ cl.pc \in {"put", "idle"}
      /\ cl.puts \cup cl.after \subseteq call[c].puts \cup call[c].after
  BY <1>1, <1>3, RestCall
<1>7. \A v \in call[c].puts \cup call[c].after : \A a \in Agents :
        agent[a].current = v.quest => v.copy.claimedBy = a
  BY <1>1 DEF Attached
<1>8. Attached(cl)' /\ \A v \in cl.puts \cup cl.after : v.copy.status # "unposted"
  BY <1>1, <1>6, <1>7 DEF Attached
<1>9. \A q \in Quests : quest'[q].status = "unposted" => quest'[q].claimedBy = None
  BY <1>1, <1>4, <1>5 DEF AttachedIInv, NoneBefore
<1>10. NoDanglingAssignment'
  <2> SUFFICES ASSUME NEW a \in Agents, agent[a].current # None
               PROVE  quest'[agent[a].current].claimedBy = a
    BY <1>1 DEF NoDanglingAssignment
  <2>1. agent[a].current \in Quests /\ quest[agent[a].current].claimedBy = a
    BY <1>1 DEF IInv, TypeOK, AgentRec, AttachedIInv, NoDanglingAssignment
  <2> QED BY <1>1, <1>4, <1>5, <1>7, <2>1
<1> QED BY <1>5, <1>8, <1>9, <1>10, SoleAttached

LEMMA AttachedCAS ==
  ASSUME AttachedIInv, SoleCaller, NEW c \in Callers, ClaimQuestCAS(c)
  PROVE  AllAttached' /\ NoneBefore' /\ NoDanglingAssignment'
<1>1. /\ call \in [Callers -> Call] /\ call[c] \in Call /\ call[c].pc = "cas"
      /\ CasReady(call[c]) /\ UNCHANGED agent /\ quest \in [Quests -> QuestRec] /\ IInv
      /\ \A v \in call[c].puts \cup call[c].after : v.copy.status # "unposted"
  BY DEF ClaimQuestCAS, IInv, TypeOK, AllCasReady, AttachedIInv, NoneBefore
<1>2. CASE ~call[c].fresh
  BY <1>1, <1>2, IdleAttached, UnputAttached DEF ClaimQuestCAS
<1>3. CASE call[c].fresh
  <2> DEFINE cl == [call[c] EXCEPT !.pc = "mark", !.puts = {}]
  <2>1. PICK w \in call[c].puts : EmitEntityUpdate(w.quest, w.copy, [call EXCEPT ![c] = cl])
    BY <1>1, <1>3 DEF ClaimQuestCAS
  <2>2. /\ cl \in Call /\ w.quest \in Quests /\ w.copy \in QuestRec
        /\ cl.pc = "mark" /\ cl.quest = call[c].quest /\ cl.agent = call[c].agent
        /\ cl.puts = {} /\ cl.after = call[c].after
    BY <1>1 DEF Call, Put
  <2> HIDE DEF cl
  <2>3. /\ quest' = [quest EXCEPT ![w.quest] = w.copy]
        /\ call'[c].pc = cl.pc /\ call'[c].quest = cl.quest /\ call'[c].agent = cl.agent
        /\ call'[c].puts = cl.puts /\ call'[c].after = cl.after
    <3>1. IInv /\ EmitEntityUpdate(w.quest, w.copy, [call EXCEPT ![c] = cl])
      BY <1>1, <2>1
    <3> QED BY <2>2, <3>1, AfterEmit
  <2>4. /\ w.quest = call[c].quest /\ quest[w.quest].status = "posted"
        /\ w.copy = Claimed(quest[w.quest], call[c].agent) /\ call[c].agent \in Agents
    BY <1>1, <1>3 DEF CasReady
  <2>5. w.copy.status = "claimed" /\ w.copy.claimedBy = call[c].agent
    BY <1>1, <2>2, <2>4, ClaimedShape
  <2>6. quest[w.quest].claimedBy = None
    BY <1>1, <2>2, <2>4 DEF IInv, StoredGood, Good, RecHolder
  <2>7. quest'[cl.quest].claimedBy = cl.agent
    BY <1>1, <2>2, <2>3, <2>4, <2>5
  <2>8. Attached(call[c])'
    BY <2>2, <2>3, <2>7 DEF Attached
  <2>9. \A q \in Quests : quest'[q].status = "unposted" => quest'[q].claimedBy = None
    BY <1>1, <2>2, <2>3, <2>5 DEF AttachedIInv, NoneBefore
  <2>10. NoDanglingAssignment'
    <3> SUFFICES ASSUME NEW a \in Agents, agent[a].current # None
                 PROVE  quest'[agent[a].current].claimedBy = a
      BY <1>1 DEF NoDanglingAssignment
    <3>1. agent[a].current \in Quests /\ quest[agent[a].current].claimedBy = a /\ a # None
      BY <1>1, BoardAssumption DEF IInv, TypeOK, AgentRec, AttachedIInv, NoDanglingAssignment
    <3>2. agent[a].current # w.quest
      BY <2>6, <3>1
    <3> QED BY <1>1, <2>3, <3>1, <3>2
  <2>11. AllAttached' /\ NoneBefore'
    <3>1. \A d \in Callers : d = c
      BY DEF SoleCaller
    <3>2. \A v \in call'[c].puts \cup call'[c].after : v.copy.status # "unposted"
      BY <1>1, <2>2, <2>3
    <3> QED BY <2>8, <2>9, <3>1, <3>2 DEF AllAttached, NoneBefore
  <2> QED BY <2>10, <2>11
<1> QED BY <1>2, <1>3

LEMMA AttachedContinue ==
  ASSUME AttachedIInv, SoleCaller, ~WriteErrors, NEW c \in Callers, Continue(c)
  PROVE  AllAttached' /\ NoneBefore' /\ NoDanglingAssignment'
<1>1. /\ call \in [Callers -> Call] /\ call[c] \in Call /\ Attached(call[c])
      /\ agent \in [Agents -> AgentRec]
      /\ Named(call[c]) /\ FreeNames(call[c]) /\ NoDanglingAssignment
      /\ \A v \in call[c].puts \cup call[c].after : v.copy.status # "unposted"
      /\ \A q \in Quests : quest[q].status = "unposted" => quest[q].claimedBy = None
  BY DEF AttachedIInv, IInv, TypeOK, AllAttached, AllNamed, NoneBefore
<1>2. CASE ClaimQuestRead(c)
  <2> DEFINE copy == Claimed(quest[call[c].quest], call[c].agent)
             cl   == [call[c] EXCEPT !.pc = "cas", !.fresh = TRUE,
                        !.puts = {[quest |-> call[c].quest, copy |-> copy]}]
  <2>1. /\ call'[c] = cl \/ call'[c] = Idle
        /\ UNCHANGED <<quest, agent>> /\ call[c].pc = "claiming"
    BY <1>1, <1>2 DEF ClaimQuestRead
  <2>2. copy.status = "claimed"
    BY <1>1, <2>1, ClaimedShape DEF Named, AttachedIInv, IInv, TypeOK
  <2> HIDE DEF copy
  <2>3. /\ cl.pc = "cas" /\ cl.after = call[c].after
        /\ cl.puts = {[quest |-> call[c].quest, copy |-> copy]}
    BY <1>1 DEF Call
  <2> HIDE DEF cl
  <2>4. Attached(cl) /\ \A w \in cl.puts \cup cl.after : w.copy.status # "unposted"
    BY <1>1, <2>2, <2>3 DEF Attached
  <2> QED BY <2>1, <2>4, IdleAttached, UnputAttached
<1>3. CASE ClaimQuestMarkAgent(c)
  <2>1. /\ call[c].pc = "mark" /\ call[c].agent \in Agents /\ call[c].quest \in Quests
        /\ agent' = [agent EXCEPT ![call[c].agent] =
                       [status |-> "on_quest", current |-> call[c].quest]]
        /\ call'[c] = Idle /\ UNCHANGED quest
    BY <1>1, <1>3 DEF ClaimQuestMarkAgent, Named
  <2>2. quest[call[c].quest].claimedBy = call[c].agent
    BY <1>1, <2>1 DEF Attached
  <2>3. NoDanglingAssignment'
    BY <1>1, <2>1, <2>2 DEF NoDanglingAssignment
  <2>4. Attached(Idle)'
    BY IdleCall DEF Attached
  <2>5. \A q \in Quests : quest'[q].status = "unposted" => quest'[q].claimedBy = None
    BY <1>1, <2>1
  <2> QED BY <2>1, <2>3, <2>4, <2>5, IdleAttached, SoleAttached
<1>4. CASE ReleaseHolder(c)
  <2> DEFINE cl == [call[c] EXCEPT !.pc = "put"]
  <2>1. /\ call[c].pc = "free" /\ call[c].agent \in Agents
        /\ agent' = [agent EXCEPT ![call[c].agent] = [status |-> "idle", current |-> None]]
        /\ call'[c] = cl /\ UNCHANGED quest
    BY <1>1, <1>4 DEF ReleaseHolder, FreeNames
  <2>2. /\ cl.pc = "put" /\ cl.puts = call[c].puts /\ cl.after = call[c].after
        /\ cl.quest = call[c].quest /\ cl.agent = call[c].agent /\ cl \in Call
    BY <1>1 DEF Call
  <2> HIDE DEF cl
  <2>3. \A a \in Agents : agent'[a].current =
                            IF a = call[c].agent THEN None ELSE agent[a].current
    BY <1>1, <2>1
  <2>4. NoDanglingAssignment'
    BY <1>1, <2>1, <2>3 DEF NoDanglingAssignment
  <2>5. \A v \in call[c].puts \cup call[c].after : v.quest \in Quests /\ v.quest # None
    BY <1>1, BoardAssumption DEF Call, Put
  <2>6. Attached(call[c])'
    BY <1>1, <2>1, <2>2, <2>3, <2>5 DEF Attached
  <2>7. \A d \in Callers : d = c
    BY DEF SoleCaller
  <2>8. \A v \in call'[c].puts \cup call'[c].after : v.copy.status # "unposted"
    BY <1>1, <2>1, <2>2
  <2>9. AllAttached' /\ NoneBefore'
    BY <1>1, <2>1, <2>6, <2>7, <2>8 DEF AllAttached, NoneBefore
  <2> QED BY <2>4, <2>9
<1> QED BY <1>2, <1>3, <1>4, AttachedCAS, AttachedPut DEF Continue, WriteError

LEMMA AttachedStep ==
  ASSUME AttachedIInv, SoleCaller, ~WriteErrors, [Next]_vars
  PROVE  AllAttached' /\ NoneBefore' /\ NoDanglingAssignment'
<1>1. CASE UNCHANGED <<quest, agent, call>>
  BY <1>1 DEF AttachedIInv, AllAttached, Attached, NoneBefore, NoDanglingAssignment
<1>2. ASSUME NEW c \in Callers, Begin(c)
      PROVE  AllAttached' /\ NoneBefore' /\ NoDanglingAssignment'
  <2>1. Attached(call[c]) /\ \A w \in call[c].puts \cup call[c].after :
                               w.copy.status # "unposted"
    BY DEF AttachedIInv, AllAttached, NoneBefore
  <2>2. UNCHANGED <<quest, agent>>
    BY <1>2, AllBegin DEF AttachedIInv
  <2>3. \A cl : cl = call'[c] =>
          Attached(cl) /\ \A w \in cl.puts \cup cl.after : w.copy.status # "unposted"
    BY <1>2, <2>1, AllBegin, BegunAttached DEF AttachedIInv
  <2> QED BY <2>2, <2>3, UnputAttached
<1>3. CASE Crash
  <2>1. UNCHANGED <<quest, agent>> /\ \A c \in Callers : call'[c] = Idle
    BY <1>3 DEF Crash
  <2>2. NoDanglingAssignment'
    BY <2>1 DEF AttachedIInv, NoDanglingAssignment
  <2> QED BY <2>1, <2>2, IdleCall DEF AllAttached, Attached, NoneBefore, AttachedIInv
<1>4. ASSUME NEW a \in Agents, NEW s \in OtherStatuses, SetAgentElsewhere(a, s)
      PROVE  AllAttached' /\ NoneBefore' /\ NoDanglingAssignment'
  <2>1. /\ UNCHANGED <<quest, call>> /\ None \notin Quests
        /\ \A b \in Agents : agent'[b].current \in {None, agent[b].current}
    BY <1>4, BoardAssumption DEF SetAgentElsewhere, AttachedIInv, IInv, TypeOK
  <2>2. NoDanglingAssignment' /\ NoneBefore'
    BY <2>1 DEF AttachedIInv, NoDanglingAssignment, NoneBefore
  <2>3. \A c \in Callers : \A w \in call[c].puts \cup call[c].after : w.quest # None
    BY <2>1 DEF AttachedIInv, IInv, TypeOK, Call, Put
  <2>4. AllAttached'
    BY <2>1, <2>3 DEF AttachedIInv, AllAttached, Attached
  <2> QED BY <2>2, <2>4
<1>5. UNCHANGED vars => UNCHANGED <<quest, agent, call>>
  BY DEF vars
<1> QED BY <1>1, <1>2, <1>3, <1>4, <1>5, AttachedContinue DEF Next

\* While one handler runs at a time and its writes do not fail, an agent points only at a
\* quest that names him as its holder, whenever the process dies between two of the writes.
THEOREM NeverDangling ==
  ASSUME SoleCaller, ~WriteErrors PROVE Spec => []NoDanglingAssignment
<1>1. Init => AttachedIInv
  <2> SUFFICES ASSUME Init PROVE AttachedIInv
    OBVIOUS
  <2>1. AllAttached /\ NoneBefore
    BY IdleAttached, IdleCall DEF Init, AllAttached, NoneBefore, Unposted
  <2>2. NoDanglingAssignment
    BY DEF Init, NoDanglingAssignment
  <2> QED BY <2>1, <2>2, InitIInv DEF AttachedIInv
<1>2. AttachedIInv /\ [Next]_vars => AttachedIInv'
  BY AttachedStep, NextIInv DEF AttachedIInv
<1>3. AttachedIInv => NoDanglingAssignment
  BY DEF AttachedIInv
<1> QED BY <1>1, <1>2, <1>3, PTL DEF Spec
=============================================================================
