---------------------------- MODULE Progression ----------------------------
(***************************************************************************)
(* processor/agentprogression: two watchers change agents.  The quest      *)
(* watcher compares each status with the last one it saw and, when a quest *)
(* ends, awards or takes XP and frees the agent; then it frees agents left *)
(* on that quest by a lost claim.  A quest that the board reopens may end  *)
(* again.  The review watcher counts peer reviews.  Both read the agent    *)
(* and put it back whole, under a mutex per agent; a read or a put may     *)
(* fail, which is logged, and the process may die between the two.         *)
(*                                                                         *)
(* Not modelled: cooldowns, guild statistics, averages of ratings (only their count), *)
(* tiers, and the puts of agents by other processors, which take no part   *)
(* in the mutex.  Streak, guild and peer-review bonuses are always 0: the  *)
(* handler passes no streak and no rating, and does not read GuildXP.      *)
(***************************************************************************)
EXTENDS Naturals, Sequences, FiniteSets

CONSTANTS
  Feats,          \* quests
  Winner, Orphan, \* the agent that holds the quests; one left on them by a lost claim
  Deeds,          \* how a quest may end
  LevelCap,       \* 20 in the code
  RatingBound,    \* bound: reviews put
  RepeatBound     \* bound: ended quests put again or reopened, and restarts

DeedKinds == {"completed", "soft", "timeout", "abandon", "catastrophic"}

\* held: by somebody.  score: of the verdict, in tenths.  spared: time left, in percent of what
\* was expected.
Deed ==
  [kind : DeedKinds, held : BOOLEAN, base : Nat, score : 0 .. 10, spared : 0 .. 100,
   attempt : Nat \ {0}, difficulty : 0 .. 5]

ASSUME ProgressionAssumption ==
  /\ IsFiniteSet(Feats) /\ Winner # Orphan
  /\ Deeds \subseteq Deed
  /\ LevelCap \in Nat \ {0}
  /\ {RatingBound, RepeatBound} \subseteq Nat

VARIABLES
  ended,       \* how each quest ended, a set of at most one deed
  questFeed,   \* puts of quests the watch has yet to deliver
  lastSeen,    \* questCache
  people,      \* agent entities
  questDesk,   \* the quest watcher's handler
  reviewFeed,  \* reviews yet to be delivered: whom they are about
  reviewDesk,  \* the review watcher's handler
  reviews,     \* reviews stored
  booting,     \* entries of the review watch before its nil sentinel
  awards,      \* history: ends and reviews of Winner that were put into its entity
  due,         \* history: how often each quest ended while somebody held it
  paid,        \* history: how many of these ends were put into the holder's entity
  lost,        \* history: how many were given up, the agent's read or its put having failed
  repeats        \* counts of touches, of quests reopened and of crashes

books == <<awards, due, paid, lost>>

prVars == <<ended, questFeed, lastSeen, people, questDesk, reviewFeed, reviewDesk, reviews,
            booting, awards, due, paid, lost, repeats>>

People == {Winner, Orphan}

Person ==
  [level : 1 .. LevelCap, xp : Nat, onQuest : BOOLEAN, quests : Nat, reviews : Nat]

\* deed: how it ended, if it did.  nth: history, how often it had been due.
Entry == [feat : Feats, deed : SUBSET Deeds, nth : Nat]

Desk == [at : {"idle", "read", "listing", "orphan"}, who : People, copy : Person,
         entry : SUBSET Entry]

Nobody == [level |-> 1, xp |-> 0, onQuest |-> TRUE, quests |-> 0, reviews |-> 0]
IdleDesk == [at |-> "idle", who |-> Winner, copy |-> Nobody, entry |-> {}]

ProgressionTypeOK ==
  /\ ended \in [Feats -> SUBSET Deeds]
  /\ questFeed \in Seq(Entry)
  /\ lastSeen \in [Feats -> {"unseen", "open", "over"}]
  /\ people \in [People -> Person]
  /\ \A desk \in {questDesk, reviewDesk} :
       /\ desk.at \in {"idle", "read", "listing", "orphan"}
       /\ desk.who \in People /\ desk.copy \in Person
       /\ \A e \in desk.entry : e \in Entry
  /\ reviewFeed \in Seq(People)
  /\ reviews \in Seq(People)
  /\ booting \in Nat
  /\ awards \in [quests : Nat, reviews : Nat]
  /\ {due, paid, lost} \subseteq [Feats -> Nat]
  /\ repeats \in [touches : Nat, reopenings : Nat, crashes : Nat]

-----------------------------------------------------------------------------
(* xp.go, in whole numbers.                                                *)

xpForLevel(level) == (100 * 3 ^ (level - 1)) \div (2 ^ (level - 1))

CalculateXP(d) ==
  LET quality == (d.base * 2 * d.score) \div 10
      speed == (d.base * d.spared) \div 200
      cut == IF d.attempt > 4 THEN 75 ELSE 25 * (d.attempt - 1)
  IN  d.base + quality + speed - ((d.base + quality) * cut) \div 100

\* A share of half the base, in eighths, more for a difficult quest.
CalculatePenalty(d) ==
  LET eighths == CASE d.kind = "soft" -> 1
                   [] d.kind = "timeout" -> 2
                   [] d.kind = "abandon" -> 3
                   [] d.kind = "catastrophic" -> 8
  IN  (((d.base * eighths) \div 8) * (10 + 2 * d.difficulty)) \div 10

\* XP pays for the next level until it no longer suffices.
LevelUp(p) ==
  LET spent[n \in p.level .. LevelCap] ==
        IF n = p.level THEN 0 ELSE spent[n - 1] + xpForLevel(n)
      within == {n \in p.level .. LevelCap : spent[n] <= p.xp}
      top == CHOOSE n \in within : \A k \in within : k <= n
  IN  [p EXCEPT !.xp = @ - spent[top], !.level = top]

\* Losses stop at zero, before the loop that would take a level away.
ApplyXP(p, d) ==
  IF d.kind = "completed" THEN LevelUp([p EXCEPT !.xp = @ + CalculateXP(d)])
  ELSE LET loss == CalculatePenalty(d)
       IN  LevelUp([p EXCEPT !.xp = IF @ > loss THEN @ - loss ELSE 0])

-----------------------------------------------------------------------------
ProgressionInit ==
  /\ ended = [f \in Feats |-> {}]
  /\ questFeed = <<>>
  /\ lastSeen = [f \in Feats |-> "open"]
  /\ people = [a \in People |-> Nobody]
  /\ questDesk = IdleDesk /\ reviewDesk = IdleDesk
  /\ reviewFeed = <<>> /\ reviews = <<>>
  /\ booting = 0
  /\ awards = [quests |-> 0, reviews |-> 0]
  /\ due = [f \in Feats |-> 0] /\ paid = due /\ lost = due
  /\ repeats = [touches |-> 0, reopenings |-> 0, crashes |-> 0]

MayRepeat == repeats.touches + repeats.reopenings + repeats.crashes < RepeatBound

Held(deeds) == \E d \in deeds : d.held

ShowQuest(f, deeds, nth) == questFeed' = Append(questFeed, [feat |-> f, deed |-> deeds, nth |-> nth])

\* The board or a judge puts a terminal status.
EndQuest(f, d) ==
  /\ ended[f] = {}
  /\ ended' = [ended EXCEPT ![f] = {d}]
  /\ due' = [due EXCEPT ![f] = IF d.held THEN @ + 1 ELSE @]
  /\ ShowQuest(f, {d}, due'[f])
  /\ UNCHANGED <<lastSeen, people, questDesk, reviewFeed, reviewDesk, reviews, booting, awards,
                 paid, lost, repeats>>

\* An ended quest is put again: indexed, linked, shown.
TouchQuest(f) ==
  /\ ended[f] # {}
  /\ MayRepeat
  /\ repeats' = [repeats EXCEPT !.touches = @ + 1]
  /\ ShowQuest(f, ended[f], due[f])
  /\ UNCHANGED <<ended, lastSeen, people, questDesk, reviewFeed, reviewDesk, reviews, booting,
                 books>>

\* RepostForRetry: what ended is posted again, and may end again.
ReopenQuest(f) ==
  /\ ended[f] # {}
  /\ MayRepeat
  /\ repeats' = [repeats EXCEPT !.reopenings = @ + 1]
  /\ ended' = [ended EXCEPT ![f] = {}]
  /\ ShowQuest(f, {}, due[f])
  /\ UNCHANGED <<lastSeen, people, questDesk, reviewFeed, reviewDesk, reviews, booting, books>>

\* A completed review of one of the agents is put.
PutReview(a) ==
  /\ Len(reviews) < RatingBound
  /\ reviews' = Append(reviews, a)
  /\ reviewFeed' = Append(reviewFeed, a)
  /\ UNCHANGED <<ended, questFeed, lastSeen, people, questDesk, reviewDesk, booting, books,
                 repeats>>

\* lockAgent: the quest handler keeps the mutex until it has freed the orphans.
Locked(a) ==
  \/ questDesk.at # "idle" /\ a = Winner
  \/ reviewDesk.at # "idle" /\ a = reviewDesk.who

\* Mutant: no mutex.
UnlocksAlways(a) == TRUE

Unlocks(a) == ~Locked(a)

\* Mutant: a quest seen for the first time counts as a transition.
FreshEndSeen(e) == e.deed # {} /\ lastSeen[e.feat] # "over"

\* Mutant: an end is dropped when its agent's mutex is taken.
FreshEndIfFree(e) == e.deed # {} /\ lastSeen[e.feat] = "open" /\ ~Locked(Winner)

\* handleQuestStateChange: only a change against the cache counts.
FreshEnd(e) == e.deed # {} /\ lastSeen[e.feat] = "open"

GiveUp(e) == lost' = [lost EXCEPT ![e.feat] = @ + 1]

\* The next entry is filtered by the cache; a fresh end of a quest that somebody holds reads the
\* agent under its mutex, and is given up if that fails.
HandleQuestStateChange ==
  /\ questDesk.at = "idle" /\ questFeed # <<>>
  /\ LET e == Head(questFeed) IN
       /\ lastSeen' = [lastSeen EXCEPT ![e.feat] = IF e.deed # {} THEN "over" ELSE "open"]
       /\ IF FreshEnd(e) /\ Held(e.deed)
          THEN /\ Unlocks(Winner)
               /\ \/ /\ questDesk' = [at |-> "read", who |-> Winner, copy |-> people[Winner],
                                      entry |-> {e}]
                     /\ UNCHANGED lost
                  \/ GiveUp(e) /\ UNCHANGED questDesk
          ELSE UNCHANGED <<questDesk, lost>>
  /\ questFeed' = Tail(questFeed)
  /\ UNCHANGED <<ended, people, reviewFeed, reviewDesk, reviews, booting, awards, due, paid,
                 repeats>>

\* handleQuestCompletedFromKV and handleQuestFailedFromKV: the agent is put back whole.
PutAward ==
  /\ questDesk.at = "read"
  /\ \E e \in questDesk.entry :
       /\ \E d \in e.deed :
            people' = [people EXCEPT ![Winner] =
                         [ApplyXP(questDesk.copy, d) EXCEPT !.onQuest = FALSE, !.quests = @ + 1]]
       /\ paid' = [paid EXCEPT ![e.feat] = @ + 1]
  /\ awards' = [awards EXCEPT !.quests = @ + 1]
  /\ questDesk' = [questDesk EXCEPT !.at = "listing"]
  /\ UNCHANGED <<ended, questFeed, lastSeen, reviewFeed, reviewDesk, reviews, booting, due, lost,
                 repeats>>

\* A put that fails is logged, and the handler goes on.
AwardFails ==
  /\ questDesk.at = "read"
  /\ \E e \in questDesk.entry : GiveUp(e)
  /\ questDesk' = [questDesk EXCEPT !.at = "listing"]
  /\ UNCHANGED <<ended, questFeed, lastSeen, people, reviewFeed, reviewDesk, reviews, booting,
                 awards, due, paid, repeats>>

\* releaseOrphanedAgents reads all agents, unless the list fails, and takes no mutex for those
\* it frees.
ListOrphans ==
  /\ questDesk.at = "listing"
  /\ \/ questDesk' = IdleDesk
     \/ /\ people[Orphan].onQuest
        /\ questDesk' = [questDesk EXCEPT !.at = "orphan", !.copy = people[Orphan]]
  /\ UNCHANGED <<ended, questFeed, lastSeen, people, reviewFeed, reviewDesk, reviews, booting,
                 books, repeats>>

\* Or the put fails.
ReleaseOrphan ==
  /\ questDesk.at = "orphan"
  /\ people' \in {people, [people EXCEPT ![Orphan] = [questDesk.copy EXCEPT !.onQuest = FALSE]]}
  /\ questDesk' = IdleDesk
  /\ UNCHANGED <<ended, questFeed, lastSeen, reviewFeed, reviewDesk, reviews, booting, books,
                 repeats>>

\* Entries of the replay are skipped; a live one reads the agent under its mutex, or fails to.
HandlePeerReview ==
  /\ reviewDesk.at = "idle" /\ reviewFeed # <<>>
  /\ reviewFeed' = Tail(reviewFeed)
  /\ IF booting > 0 THEN booting' = booting - 1 /\ UNCHANGED reviewDesk
     ELSE /\ Unlocks(Head(reviewFeed))
          /\ \/ UNCHANGED reviewDesk
             \/ reviewDesk' = [at |-> "read", who |-> Head(reviewFeed),
                               copy |-> people[Head(reviewFeed)], entry |-> {}]
          /\ UNCHANGED booting
  /\ UNCHANGED <<ended, questFeed, lastSeen, people, questDesk, reviews, books, repeats>>

PutReviewed ==
  /\ reviewDesk.at = "read"
  /\ people' = [people EXCEPT ![reviewDesk.who] = [reviewDesk.copy EXCEPT !.reviews = @ + 1]]
  /\ awards' = IF reviewDesk.who = Winner THEN [awards EXCEPT !.reviews = @ + 1] ELSE awards
  /\ reviewDesk' = IdleDesk
  /\ UNCHANGED <<ended, questFeed, lastSeen, questDesk, reviewFeed, reviews, booting, due, paid,
                 lost, repeats>>

ReviewedFails ==
  /\ reviewDesk.at = "read"
  /\ reviewDesk' = IdleDesk
  /\ UNCHANGED <<ended, questFeed, lastSeen, people, questDesk, reviewFeed, reviews, booting, books,
                 repeats>>

FeatSeq == CHOOSE s \in [1 .. Cardinality(Feats) -> Feats] :
             \A i, j \in 1 .. Cardinality(Feats) : s[i] = s[j] => i = j

\* The process dies; its caches start empty and the watches replay what is stored.
RestartProgression ==
  /\ MayRepeat
  /\ repeats' = [repeats EXCEPT !.crashes = @ + 1]
  /\ questDesk' = IdleDesk /\ reviewDesk' = IdleDesk
  /\ lastSeen' = [f \in Feats |-> "unseen"]
  /\ questFeed' = [i \in 1 .. Cardinality(Feats) |->
                     [feat |-> FeatSeq[i], deed |-> ended[FeatSeq[i]], nth |-> due[FeatSeq[i]]]]
  /\ reviewFeed' = reviews
  /\ booting' = Len(reviews)
  /\ UNCHANGED <<ended, people, reviews, books>>

ProgressionStep ==
  \/ HandleQuestStateChange
  \/ PutAward
  \/ AwardFails
  \/ ListOrphans
  \/ ReleaseOrphan
  \/ HandlePeerReview
  \/ PutReviewed
  \/ ReviewedFails

ProgressionNext ==
  \/ \E f \in Feats, d \in Deeds : EndQuest(f, d)
  \/ \E f \in Feats : TouchQuest(f) \/ ReopenQuest(f)
  \/ \E a \in People : PutReview(a)
  \/ ProgressionStep
  \/ RestartProgression

\* The watches deliver and the handlers' I/O ends.
ProgressionFairness == WF_prVars(ProgressionStep)

ProgressionSpec == ProgressionInit /\ [][ProgressionNext]_prVars /\ ProgressionFairness

-----------------------------------------------------------------------------
(* Safety: what one watcher puts into the agent that held the quest, the   *)
(* other never overwrites: every end and every review put is in the        *)
(* entity, although both put whole copies of it.                           *)
WatchersLoseNothing ==
  /\ people[Winner].quests = awards.quests
  /\ people[Winner].reviews = awards.reviews

(* Safety: an end of a quest is paid for at most once, however often the   *)
(* quest is put, however often it is reopened and ends again, and whatever *)
(* is replayed after a restart.                                            *)
PaidOnce == \A f \in Feats : paid[f] <= due[f]

(* Liveness: when the process does not die, every end of a quest that      *)
(* somebody holds is paid for, except those whose own read or put of the   *)
(* agent failed: the cache has taken note of the end, and nobody tries     *)
(* again.                                                                  *)
EndsPaid == []<>((\A f \in Feats : paid[f] + lost[f] = due[f]) \/ repeats.crashes > 0)
=============================================================================
