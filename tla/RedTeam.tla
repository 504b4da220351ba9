------------------------------ MODULE RedTeam ------------------------------
(***************************************************************************)
(* processor/redteam: a watch on quest entities posts a red-team quest for *)
(* every quest that enters review, and when that quest has finished, or    *)
(* its timeout has passed, puts a signal on the reviewed quest.            *)
(*                                                                         *)
(* Not modelled: guild routing and lessons, which touch no quest, the      *)
(* agents that work on red-team quests, a red-team quest completed without *)
(* output (treated as failed), triage of red-team quests and those claimed *)
(* by a party, and failing reads and writes.                               *)
(***************************************************************************)
EXTENDS ReviewStore

CONSTANT
  MaxTries        \* tries of attachFindings and emitSkipped, 3 in the code

ASSUME RedTeamAssumption == MaxTries \in Nat \ {0}

VARIABLES
  seen,           \* questCache: statuses the watch has seen
  pendingReviews, \* red-team quest each reviewed quest waits for
  timers,         \* red-team quests whose watchTimeout goroutine is alive
  call            \* what the watch, and each expired watchTimeout, still has to do

redVars == <<seen, pendingReviews, timers, call>>

\* The goroutines that write quests: the watch, and one watchTimeout per red-team quest.
Writers == {"watch"} \cup Reviews

NoCall == [pc |-> "idle", quest |-> None, review |-> None, copy |-> None,
           outcome |-> "", tries |-> 0]

\* What the watch has cached after it has delivered the last value of every key.
SeenOf ==
  [k \in Quests \cup Reviews |->
     IF k \in Quests THEN quest[k].status
     ELSE IF review[k].status = "unposted" THEN None ELSE review[k].status]

RedInit ==
  /\ seen = SeenOf
  /\ pendingReviews = [q \in Quests |-> None]
  /\ timers = {}
  /\ call = [w \in Writers |-> NoCall]

RedTypeOK ==
  /\ seen \in [Quests \cup Reviews -> Statuses \cup {None}]
  /\ pendingReviews \in [Quests -> Reviews \cup {None}]
  /\ timers \in SUBSET Reviews
  /\ call \in [Writers ->
       [pc : {"idle", "link", "fail", "read", "cas"}, quest : Quests \cup {None},
        review : Reviews \cup {None}, copy : QuestRec \cup {None},
        outcome : {"", "completed", "skipped"}, tries : 0..MaxTries]]

-----------------------------------------------------------------------------
(* The watch.                                                              *)

\* attachFindings or emitSkipped, about to read the quest.
Signalling(q, outcome) ==
  [NoCall EXCEPT !.pc = "read", !.quest = q, !.outcome = outcome]

\* A transition, as the cache sees it: a key seen for the first time is none.
Changed(key, status) == seen[key] \notin {None, status}

\* The watch takes an entry and updates its cache.
Receive ==
  /\ redteamFeed # <<>>
  /\ call["watch"].pc = "idle"
  /\ seen' = [seen EXCEPT ![Head(redteamFeed).key] = Head(redteamFeed).status]

\* handleNormalQuestInReview: posts a red-team quest and reads the quest to link it ...
PostReview ==
  LET q == Head(redteamFeed).key
      unposted == {k \in Reviews : review[k].status = "unposted"}
      r == CHOOSE k \in unposted : TRUE
  IN  /\ Receive
      /\ q \in Quests
      /\ Head(redteamFeed).status = "in_review" /\ Changed(q, "in_review")
      /\ unposted # {}
      /\ EmitReview(r, [status |-> "posted", attempts |-> 0, target |-> q],
                    Tail(redteamFeed))
      /\ call' = [call EXCEPT !["watch"] =
           [NoCall EXCEPT !.pc = "link", !.quest = q, !.review = r, !.copy = quest[q]]]
      /\ UNCHANGED <<quest, part, agent, owed, battleFeed, pendingReviews, timers>>

\* ... or, when the quest is below the minimum difficulty or the posting fails, signals at
\* once.
SkipReview ==
  LET q == Head(redteamFeed).key
  IN  /\ Receive
      /\ q \in Quests
      /\ Head(redteamFeed).status = "in_review" /\ Changed(q, "in_review")
      /\ call' = [call EXCEPT !["watch"] = Signalling(q, "skipped")]
      /\ redteamFeed' = Tail(redteamFeed)
      /\ UNCHANGED <<quest, review, part, agent, owed, battleFeed, pendingReviews, timers>>

\* Mutant: the review is tracked without a timeout.
LinkReviewUntimed ==
  LET c == call["watch"]
  IN  /\ c.pc = "link"
      /\ EmitEntityUpdate(c.quest, [c.copy EXCEPT !.rtQuest = c.review])
      /\ pendingReviews' = [pendingReviews EXCEPT ![c.quest] = c.review]
      /\ call' = [call EXCEPT !["watch"] = NoCall]
      /\ UNCHANGED <<review, part, agent, seen, timers>>

\* The second half: the copy read after the posting is put with the link, last-writer-wins;
\* then the review is tracked and its timeout started.
LinkReview ==
  LET c == call["watch"]
  IN  /\ c.pc = "link"
      /\ EmitEntityUpdate(c.quest, [c.copy EXCEPT !.rtQuest = c.review])
      /\ pendingReviews' = [pendingReviews EXCEPT ![c.quest] = c.review]
      /\ timers' = timers \cup {c.review}
      /\ call' = [call EXCEPT !["watch"] = NoCall]
      /\ UNCHANGED <<review, part, agent, seen>>

\* handleRedTeamQuestFinished: whatever review the quest waits for is waited for no more.
ReviewFinished ==
  LET r == Head(redteamFeed).key
      q == review[r].target
  IN  /\ Receive
      /\ r \in Reviews
      /\ Head(redteamFeed).status \in Terminal /\ Changed(r, Head(redteamFeed).status)
      /\ pendingReviews' = [pendingReviews EXCEPT ![q] = None]
      /\ call' = [call EXCEPT !["watch"] = Signalling(q,
           IF Head(redteamFeed).status = "completed" THEN "completed" ELSE "skipped")]
      /\ redteamFeed' = Tail(redteamFeed)
      /\ UNCHANGED <<quest, review, part, agent, owed, battleFeed, timers>>

\* Any other entry only updates the cache.
IgnoreEntry ==
  LET e == Head(redteamFeed)
  IN  /\ Receive
      /\ \/ ~Changed(e.key, e.status)
         \/ e.key \in Quests /\ e.status # "in_review"
         \/ e.key \in Reviews /\ e.status \notin Terminal
      /\ redteamFeed' = Tail(redteamFeed)
      /\ UNCHANGED <<quest, review, part, agent, owed, battleFeed>>
      /\ UNCHANGED <<pendingReviews, timers, call>>

-----------------------------------------------------------------------------
(* Timeouts.                                                               *)

\* Mutant: a timeout gives up on its review without a signal.
TimeoutUnsignalled(r) ==
  LET q == review[r].target
  IN  /\ r \in timers
      /\ timers' = timers \ {r}
      /\ pendingReviews' = [pendingReviews EXCEPT ![q] = None]
      /\ UNCHANGED <<storeVars, seen, call>>

\* watchTimeout: its context ends, by timeout or by cancel.  It takes whatever review the
\* quest waits for; without one it has nothing to do.
Timeout(r) ==
  LET q == review[r].target
  IN  /\ r \in timers
      /\ timers' = timers \ {r}
      /\ pendingReviews' = [pendingReviews EXCEPT ![q] = None]
      /\ call' = IF pendingReviews[q] = None THEN call
                 ELSE [call EXCEPT ![r] =
                        [NoCall EXCEPT !.pc = "fail", !.quest = q, !.outcome = "skipped"]]
      /\ UNCHANGED <<storeVars, seen>>

\* What questboard's FailQuest makes of a red-team quest, which is no party's.
FailedReview(r) ==
  [review[r] EXCEPT !.status = IF review[r].attempts < MaxAttempts[r]
                               THEN "posted" ELSE "failed"]

\* qb.FailQuest of the timed-out review, refused unless it is in progress.
FailReview(r) ==
  /\ call[r].pc = "fail"
  /\ IF review[r].status = "in_progress"
     THEN EmitReview(r, FailedReview(r), redteamFeed)
     ELSE UNCHANGED <<review, redteamFeed>>
  /\ call' = [call EXCEPT ![r].pc = "read"]
  /\ UNCHANGED <<quest, part, agent, owed, battleFeed, seen, pendingReviews, timers>>

-----------------------------------------------------------------------------
(* Signals: attachFindings and emitSkipped.                                *)

\* GetQuestWithRevision ...
SignalRead(w) ==
  /\ call[w].pc = "read"
  /\ call' = [call EXCEPT ![w] = [@ EXCEPT !.pc = "cas", !.copy = quest[call[w].quest]]]
  /\ UNCHANGED <<storeVars, seen, pendingReviews, timers>>

\* ... and EmitEntityCAS, which is tried MaxTries times.
SignalPut(w) ==
  LET c == call[w]
  IN  /\ c.pc = "cas"
      /\ IF Unchanged(c.quest, c.copy)
         THEN /\ EmitEntityUpdate(c.quest, [c.copy EXCEPT !.rtStatus = c.outcome])
              /\ call' = [call EXCEPT ![w] = NoCall]
         ELSE /\ call' = [call EXCEPT ![w] =
                   IF c.tries + 1 = MaxTries THEN NoCall
                   ELSE [c EXCEPT !.pc = "read", !.copy = None, !.tries = @ + 1]]
              /\ UNCHANGED <<quest, owed, battleFeed, redteamFeed>>
      /\ UNCHANGED <<review, part, agent, seen, pendingReviews, timers>>

WatchStep ==
  \/ PostReview \/ SkipReview \/ LinkReview
  \/ ReviewFinished \/ IgnoreEntry

SignalStep(w) == SignalRead(w) \/ SignalPut(w)

RedStep ==
  \/ WatchStep
  \/ \E r \in Reviews : Timeout(r) \/ FailReview(r)
  \/ \E w \in Writers : SignalStep(w)

\* Every goroutine is scheduled and every timeout passes.
RedFairness ==
  /\ WF_<<storeVars, redVars>>(WatchStep \/ SignalStep("watch"))
  /\ \A r \in Reviews :
       WF_<<storeVars, redVars>>(Timeout(r) \/ FailReview(r) \/ SignalStep(r))
=============================================================================
