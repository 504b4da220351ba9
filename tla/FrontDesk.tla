------------------------------ MODULE FrontDesk ------------------------------
(***************************************************************************)
(* The API's own writes of quests and agents (service/api/handlers.go).    *)
(* A handler reads, decides, and puts whole copies, one KV access after    *)
(* another and none by compare-and-swap; net/http runs each request in a   *)
(* goroutine.  What a request has still to do is the list of accesses that *)
(* its handler has not come to.                                            *)
(*                                                                         *)
(* Not modelled: failing accesses (a release that fails is only logged),   *)
(* the signals to loops and DAGs of a cancelled quest, and who else writes *)
(* the entities.                                                           *)
(***************************************************************************)
EXTENDS Integers, Sequences, FiniteSets, FiniteSetsExt

CONSTANTS
  Orders,         \* quests
  Hands,          \* agents
  OrderTraits,    \* [Orders -> [skills, minTier, review, deps]], deps as the chain's brief has them
  HandTraits,     \* [Hands -> [skills, tier]]
  Retirees,       \* agents that are retired from the beginning
  Chain,          \* quests of the chain that may be posted, in order
  Requests,       \* requests that may be served at a time
  OrderAttempts,  \* MaxAttempts
  DeskCrashes,    \* bound: crashes of the process
  LateBound       \* bound: requests that begin once requests have late

ASSUME DeskAssumption ==
  /\ "none" \notin Orders \cup Hands
  /\ DOMAIN OrderTraits = Orders /\ DOMAIN HandTraits = Hands /\ Retirees \subseteq Hands
  /\ Chain \in Seq(Orders) /\ OrderAttempts \in Nat \ {0}
  /\ DeskCrashes \in Nat /\ LateBound \in Nat

VARIABLES
  orders,      \* quest entities
  hands,       \* agent entities
  requests,    \* what each request has still to do, and its copies
  late,        \* history: requests that began while another was served, or later
  deskCrashes

fdVars == <<orders, hands, requests, late, deskCrashes>>

Holders == Hands \cup {"none"}
NoOrder == [status |-> "none", holder |-> "none", attempts |-> 0, deps |-> {}, party |-> 0]
NoHand == [status |-> "none", quest |-> "none"]
NoRequest == [todo |-> <<>>, copies |-> [q \in Orders |-> NoOrder], hand |-> NoHand]

OrderRecords ==
  [status : {"none", "posted", "claimed", "in_progress", "in_review", "completed", "failed"},
   holder : Holders, attempts : 0 .. OrderAttempts, deps : SUBSET Orders,
   party : 0 .. Cardinality(Hands) + 2]
HandRecords == [status : {"none", "idle", "on_quest", "retired"}, quest : Orders \cup {"none"}]
Accesses == ({"post", "link", "put"} \X Orders) \cup ({"enlist", "free", "hand"} \X Hands)

DeskTypeOK ==
  /\ orders \in [Orders -> OrderRecords] /\ hands \in [Hands -> HandRecords]
  /\ \A r \in Requests : /\ requests[r].todo \in Seq(Accesses)
                         /\ requests[r].copies \in [Orders -> OrderRecords]
                         /\ requests[r].hand \in HandRecords
  /\ late \in 0 .. LateBound /\ deskCrashes \in 0 .. DeskCrashes

\* Agents have been recruited; retired ones stay on the roster.
DeskInit ==
  /\ orders = [q \in Orders |-> NoOrder]
  /\ hands = [a \in Hands |-> [status |-> IF a \in Retirees THEN "retired" ELSE "idle",
                               quest |-> "none"]]
  /\ requests = [r \in Requests |-> NoRequest]
  /\ late = 0 /\ deskCrashes = 0

-----------------------------------------------------------------------------
(* A new quest.                                                            *)

\* The sizes that a greedy cover of the skills may have, as the roster is listed in any order.
GreedyCovers(skills) ==
  LET covered(a, rest) == Cardinality(HandTraits[a].skills \cap rest)
      size[rest \in SUBSET skills] ==
        IF rest = {} THEN {0}
        ELSE UNION {{n + 1 : n \in size[rest \ HandTraits[a].skills]} :
                      a \in {b \in Hands : /\ covered(b, rest) > 0
                                            /\ \A c \in Hands : covered(b, rest) >= covered(c, rest)}}
  IN size[skills]

\* ClassifySkillCoverage: nought for a quest that some agent can do alone.
PartySizes(skills) ==
  IF skills = {} \/ \E a \in Hands : skills \subseteq HandTraits[a].skills THEN {0}
  ELSE IF skills \subseteq UNION {HandTraits[a].skills : a \in Hands}
       THEN {Max({2, n}) : n \in GreedyCovers(skills)} ELSE {2}

NewOrders(q) ==
  {[NoOrder EXCEPT !.status = "posted", !.party = n] : n \in PartySizes(OrderTraits[q].skills)}

-----------------------------------------------------------------------------
(* What the handlers decide on the quest that they read.                   *)

Arrive(r) ==
  LET overlaps == late > 0 \/ \E s \in Requests \ {r} : requests[s] # NoRequest
  IN /\ requests[r] = NoRequest
     /\ late' = IF overlaps THEN late + 1 ELSE 0
     /\ late' <= LateBound

Accept(r, copies, todo) ==
  /\ Arrive(r)
  /\ requests' = [requests EXCEPT ![r] = [todo |-> todo, copies |-> copies, hand |-> NoHand]]
  /\ UNCHANGED <<orders, hands, deskCrashes>>

Decide(r, q, copy, todo) == Accept(r, [NoRequest.copies EXCEPT ![q] = copy], todo)

\* The end of a quest is put before its agent is freed,
Finishing(q, o) ==
  IF o.holder = "none" THEN <<<<"put", q>>>>
  ELSE <<<<"put", q>>, <<"free", o.holder>>, <<"hand", o.holder>>>>

\* Mutant: the quest goes back to the board before its agent is free.
ReturningLate(q, o) == Finishing(q, o)

\* and whoever takes it from its agent frees the agent first.
Returning(q, o) ==
  IF o.holder = "none" THEN <<<<"put", q>>>>
  ELSE <<<<"free", o.holder>>, <<"hand", o.holder>>, <<"put", q>>>>

CreateQuest(r, q) ==
  /\ orders[q] = NoOrder
  /\ \A s \in Requests : requests[s].copies[q] = NoOrder
  /\ \E o \in NewOrders(q) : Decide(r, q, o, <<<<"put", q>>>>)

\* Quests first, dependencies in a second pass.
PostQuestChain(r) ==
  /\ \A i \in DOMAIN Chain : orders[Chain[i]] = NoOrder
  /\ \A s \in Requests, i \in DOMAIN Chain : requests[s].copies[Chain[i]] = NoOrder
  /\ Accept(r, NoRequest.copies, [i \in DOMAIN Chain |-> <<"post", Chain[i]>>]
                                   \o [i \in DOMAIN Chain |-> <<"link", Chain[i]>>])

ClaimQuest(r, q, a) ==
  /\ orders[q].status = "posted"
  /\ Decide(r, q, [orders[q] EXCEPT !.status = "claimed", !.holder = a],
            <<<<"enlist", a>>, <<"put", q>>, <<"hand", a>>>>)

StartQuest(r, q) ==
  /\ orders[q].status = "claimed"
  /\ Decide(r, q, [orders[q] EXCEPT !.status = "in_progress"], <<<<"put", q>>>>)

SubmitResult(r, q) ==
  /\ orders[q].status = "in_progress"
  /\ IF OrderTraits[q].review
     THEN Decide(r, q, [orders[q] EXCEPT !.status = "in_review"], <<<<"put", q>>>>)
     ELSE Decide(r, q, [orders[q] EXCEPT !.status = "completed"], Finishing(q, orders[q]))

CompleteQuest(r, q) ==
  /\ orders[q].status \in {"in_review", "in_progress"}
  /\ Decide(r, q, [orders[q] EXCEPT !.status = "completed"], Finishing(q, orders[q]))

FailQuest(r, q) ==
  /\ orders[q].status \in {"in_review", "in_progress"}
  /\ LET n == orders[q].attempts + 1
         failed == [orders[q] EXCEPT !.attempts = n, !.status = "failed"]
         again == [orders[q] EXCEPT !.attempts = n, !.status = "posted", !.holder = "none"]
     IN Decide(r, q, IF n >= OrderAttempts THEN failed ELSE again, Returning(q, orders[q]))

AbandonQuest(r, q) ==
  /\ orders[q].status \in {"claimed", "in_progress"}
  /\ Decide(r, q, [orders[q] EXCEPT !.status = "posted", !.holder = "none"], Returning(q, orders[q]))

CancelQuest(r, q) ==
  /\ orders[q].status = "in_progress"
  /\ Decide(r, q, [orders[q] EXCEPT !.status = "failed"], Returning(q, orders[q]))

\* Whatever the agent is at.
RetireAgent(r, a) ==
  /\ hands[a].status \in {"idle", "on_quest"}
  /\ Arrive(r)
  /\ requests' = [requests EXCEPT ![r].todo = <<<<"hand", a>>>>,
                                  ![r].hand = [hands[a] EXCEPT !.status = "retired"]]
  /\ UNCHANGED <<orders, hands, deskCrashes>>

-----------------------------------------------------------------------------
(* The accesses that follow.                                               *)

AtWork(r) == requests[r].todo # <<>>
Access(r) == Head(requests[r].todo)

\* The last access answers the request.
Proceed(r, request) ==
  requests' = [requests EXCEPT ![r] =
    IF Len(request.todo) = 1 THEN NoRequest ELSE [request EXCEPT !.todo = Tail(@)]]

PostNext(r) ==
  /\ AtWork(r) /\ Access(r)[1] = "post"
  /\ LET q == Access(r)[2]
     IN \E o \in NewOrders(q) :
          /\ orders' = [orders EXCEPT ![q] = o]
          /\ Proceed(r, [requests[r] EXCEPT !.copies[q] = o])
  /\ UNCHANGED <<hands, late, deskCrashes>>

\* Over whatever became of the quest since it was posted; one without dependencies is skipped.
LinkNext(r) ==
  /\ AtWork(r) /\ Access(r)[1] = "link"
  /\ LET q == Access(r)[2]
         linked == [requests[r].copies[q] EXCEPT !.deps = OrderTraits[q].deps]
     IN orders' = IF OrderTraits[q].deps = {} THEN orders ELSE [orders EXCEPT ![q] = linked]
  /\ Proceed(r, requests[r])
  /\ UNCHANGED <<hands, late, deskCrashes>>

PutQuest(r) ==
  /\ AtWork(r) /\ Access(r)[1] = "put"
  /\ LET q == Access(r)[2] IN orders' = [orders EXCEPT ![q] = requests[r].copies[q]]
  /\ Proceed(r, requests[r])
  /\ UNCHANGED <<hands, late, deskCrashes>>

\* The agent of a claim must be idle and fit, and the quest's dependencies be done.
MayClaim(a, q, copy) ==
  /\ hands[a].status = "idle" /\ HandTraits[a].tier >= OrderTraits[q].minTier
  /\ OrderTraits[q].skills \subseteq HandTraits[a].skills
  /\ \A d \in copy.deps : orders[d].status = "completed"

Enlist(r) ==
  /\ AtWork(r) /\ Access(r)[1] = "enlist"
  /\ LET a == Access(r)[2]
         q == requests[r].todo[2][2]
     IN IF MayClaim(a, q, requests[r].copies[q])
        THEN Proceed(r, [requests[r] EXCEPT !.hand = [status |-> "on_quest", quest |-> q]])
        ELSE requests' = [requests EXCEPT ![r] = NoRequest]
  /\ UNCHANGED <<orders, hands, late, deskCrashes>>

\* releaseAgent, without a look at what the agent is at.
ReleaseAgent(r) ==
  /\ AtWork(r) /\ Access(r)[1] = "free"
  /\ Proceed(r, [requests[r] EXCEPT !.hand = [status |-> "idle", quest |-> "none"]])
  /\ UNCHANGED <<orders, hands, late, deskCrashes>>

PutHand(r) ==
  /\ AtWork(r) /\ Access(r)[1] = "hand"
  /\ hands' = [hands EXCEPT ![Access(r)[2]] = requests[r].hand]
  /\ Proceed(r, requests[r])
  /\ UNCHANGED <<orders, late, deskCrashes>>

DeskCrash ==
  /\ deskCrashes < DeskCrashes /\ \E r \in Requests : AtWork(r)
  /\ deskCrashes' = deskCrashes + 1
  /\ requests' = [r \in Requests |-> NoRequest]
  /\ UNCHANGED <<orders, hands, late>>

DeskNext ==
  \/ \E r \in Requests : \E q \in Orders : CreateQuest(r, q)
  \/ \E r \in Requests : PostQuestChain(r)
  \/ \E r \in Requests : \E q \in Orders : \E a \in Hands : ClaimQuest(r, q, a)
  \/ \E r \in Requests : \E q \in Orders : StartQuest(r, q)
  \/ \E r \in Requests : \E q \in Orders : SubmitResult(r, q)
  \/ \E r \in Requests : \E q \in Orders : CompleteQuest(r, q)
  \/ \E r \in Requests : \E q \in Orders : FailQuest(r, q)
  \/ \E r \in Requests : \E q \in Orders : AbandonQuest(r, q)
  \/ \E r \in Requests : \E q \in Orders : CancelQuest(r, q)
  \/ \E r \in Requests : \E a \in Hands : RetireAgent(r, a)
  \/ \E r \in Requests : PostNext(r)
  \/ \E r \in Requests : LinkNext(r)
  \/ \E r \in Requests : PutQuest(r)
  \/ \E r \in Requests : Enlist(r)
  \/ \E r \in Requests : ReleaseAgent(r)
  \/ \E r \in Requests : PutHand(r)
  \/ DeskCrash

-----------------------------------------------------------------------------
(* Safety: a quest on the board has no holder and one that is under way    *)
(* has, whatever requests overlap; and as long as they come one after      *)
(* another, the quest of an agent that is on one names it as the holder    *)
(* and is not on the board, though the process may crash between the put   *)
(* of the one and of the other: claims put the quest first, and what takes *)
(* a quest from its agent puts the agent first.                            *)
AssignmentsAgree ==
  /\ \A q \in Orders :
       /\ orders[q].status = "posted" => orders[q].holder = "none"
       /\ orders[q].status \in {"claimed", "in_progress", "in_review"} => orders[q].holder # "none"
  /\ late = 0 =>
       \A a \in Hands : hands[a].status = "on_quest" =>
         /\ hands[a].quest # "none" /\ orders[hands[a].quest].holder = a
         /\ orders[hands[a].quest].status # "posted"
=============================================================================
