---------------------------- MODULE ReviewStore ----------------------------
(***************************************************************************)
(* The part of the KV bucket that the review of a submitted quest reads    *)
(* and writes, and the watches on it.  bossbattle and redteam share no     *)
(* memory: each watches the quest entities, keeps a cache of the statuses  *)
(* it has seen, and writes whole entities back (graphclient.go).           *)
(*                                                                         *)
(* A watch delivers every put of a key in order, so it is a queue of what  *)
(* was put.  A revision is current while no other value was put: compare-  *)
(* and-swap compares the stored entity with the copy that was read, since  *)
(* a put of an equal entity in between would change nothing.               *)
(***************************************************************************)
EXTENDS Naturals, Sequences, FiniteSets

CONSTANTS
  Quests,        \* quests that ask for review
  Reviews,       \* identifiers for red-team quests, each posted at most once
  Agents,
  None,          \* a nil pointer, or a key not yet seen
  NodesOf,       \* [Quests -> SUBSET of sub-quest identifiers], the DAG of a party quest
  MaxAttempts,   \* [Quests \cup Reviews -> Nat], as posted
  BattleLag, RedteamLag  \* bounds: puts that bossbattle's and redteam's watch may be behind
                 \* when agents or operators act

SubQuests == UNION {NodesOf[q] : q \in Quests}

ASSUME StoreAssumption ==
  /\ None \notin Quests \cup Reviews \cup Agents \cup SubQuests
  /\ Quests \cap Reviews = {}
  /\ DOMAIN NodesOf = Quests
  /\ \A p, q \in Quests : p # q => NodesOf[p] \cap NodesOf[q] = {}
  /\ MaxAttempts \in [Quests \cup Reviews -> Nat \ {0}]
  /\ {BattleLag, RedteamLag} \subseteq Nat \ {0}

VARIABLES
  quest,         \* quest entities under review, the fields a guard reads
  review,        \* red-team quest entities
  part,          \* statuses of sub-quests
  agent,         \* agent entities
  owed,          \* agents of terminal quests that agentprogression has yet to release
  battleFeed,    \* puts that bossbattle's watch has still to deliver
  redteamFeed    \* puts that redteam's watch has still to deliver

storeVars == <<quest, review, part, agent, owed, battleFeed, redteamFeed>>

Statuses == {"posted", "in_progress", "in_review", "completed", "failed"}

Terminal == {"completed", "failed"}

\* rtStatus, rtQuest: RedTeamStatus and RedTeamQuestID.  dag: the DAG fields are set.
QuestRec ==
  [status : Statuses, claimedBy : Agents \cup {None}, attempts : Nat,
   rtStatus : {"", "completed", "skipped"}, rtQuest : Reviews \cup {None},
   dag : BOOLEAN]

\* target: RedTeamTarget.
ReviewRec ==
  [status : {"unposted", "posted", "in_progress", "completed", "failed"},
   attempts : Nat, target : Quests \cup {None}]

AgentRec ==
  [status : {"idle", "on_quest", "in_battle"}, current : Quests \cup {None}]

Released == [status |-> "idle", current |-> None]

Fresh ==
  [status |-> "posted", claimedBy |-> None, attempts |-> 0, rtStatus |-> "",
   rtQuest |-> None, dag |-> FALSE]

\* What the processors around the store keep in memory.
Settled == owed = {} /\ battleFeed = <<>> /\ redteamFeed = <<>>

StoreInit ==
  /\ quest = [q \in Quests |-> Fresh]
  /\ review = [r \in Reviews |-> [status |-> "unposted", attempts |-> 0, target |-> None]]
  /\ part = [s \in SubQuests |-> "posted"]
  /\ agent = [a \in Agents |-> Released]
  /\ Settled

StoreTypeOK ==
  /\ quest \in [Quests -> QuestRec]
  /\ review \in [Reviews -> ReviewRec]
  /\ part \in [SubQuests -> Statuses]
  /\ agent \in [Agents -> AgentRec]
  /\ owed \in SUBSET Agents
  /\ battleFeed \in Seq([key : Quests, rec : QuestRec])
  /\ redteamFeed \in Seq([key : Quests \cup Reviews, status : Statuses])

\* EmitEntityUpdate of a quest, last-writer-wins.  The watches that have consumed their
\* entry pass the rest of their queue.  agentprogression's watch owes the holder of a
\* quest that becomes terminal a release.
Emit(q, rec, battles, redteams) ==
  /\ quest' = [quest EXCEPT ![q] = rec]
  /\ battleFeed' = Append(battles, [key |-> q, rec |-> rec])
  /\ redteamFeed' = Append(redteams, [key |-> q, status |-> rec.status])
  /\ owed' = IF rec.status \in Terminal \ {quest[q].status} /\ rec.claimedBy # None
             THEN owed \cup {rec.claimedBy} ELSE owed

EmitEntityUpdate(q, rec) == Emit(q, rec, battleFeed, redteamFeed)

\* The same for a red-team quest.  bossbattle caches its status and ignores it: it never
\* enters review.
EmitReview(r, rec, redteams) ==
  /\ review' = [review EXCEPT ![r] = rec]
  /\ redteamFeed' = Append(redteams, [key |-> r, status |-> rec.status])

\* The watches lag no further than the bounds.
Prompt == Len(battleFeed) < BattleLag /\ Len(redteamFeed) < RedteamLag

\* EmitEntityCAS succeeds when nobody put another value since the copy was read.
Unchanged(q, copy) == quest[q] = copy
=============================================================================
