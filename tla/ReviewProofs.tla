---------------------------- MODULE ReviewProofs ----------------------------
(***************************************************************************)
(* Proofs about Review for every value of its constants: any number of     *)
(* quests, red-team quests, agents and battles, any number of restarts,    *)
(* and watches that lag however far.                                       *)
(*                                                                         *)
(* That a waiting quest is timed depends on who the timers answer for,     *)
(* which is written on the red-team quests.  So the inductive invariant    *)
(* says that a red-team quest, once posted, keeps its target: those that   *)
(* are timed are posted, and so is the one the watch is about to link.     *)
(*                                                                         *)
(* That battles do not meet depends on what bossbattle's watch has still   *)
(* to deliver.  So their invariant (BattleInv) says, of every quest whose  *)
(* review nobody has cut into (Calm), that the cache and the queue see it  *)
(* enter review once more at most, and not at all while a battle over it   *)
(* runs or waits for the red team, and that whoever waits or fights holds  *)
(* a copy of the submission that is stored.                                *)
(***************************************************************************)
EXTENDS Review, SequenceTheorems, TLAPS

Shape ==
  /\ review \in [Reviews -> ReviewRec]
  /\ pendingReviews \in [Quests -> Reviews \cup {None}]
  /\ timers \in SUBSET Reviews
  /\ call = [w \in Writers |-> call[w]]
  /\ restarts \in Nat

Posted(r) == review[r].status # "unposted"

TimedArePosted == \A r \in timers : Posted(r)

\* The watch links a red-team quest to the quest it is about.
LinkIsPosted ==
  LET c == call["watch"]
  IN  c.pc = "link" => /\ c.quest \in Quests /\ c.review \in Reviews
                       /\ Posted(c.review) /\ review[c.review].target = c.quest

IInv == Shape /\ TimedArePosted /\ LinkIsPosted /\ WaitIsTimed

\* What every step does to the red-team quests.
ReviewsKept ==
  /\ review' \in [Reviews -> ReviewRec]
  /\ \A r \in Reviews : Posted(r) => Posted(r)' /\ review'[r].target = review[r].target

\* What a step does to the watch's call unless it is about linking.
NoNewLink ==
  /\ call' = [w \in Writers |-> call'[w]]
  /\ call'["watch"].pc = "link" => call'["watch"] = call["watch"]

-----------------------------------------------------------------------------
(* The shapes of steps.                                                    *)

\* Only the red-team quests and the calls change.
LEMMA KeepStep ==
  ASSUME IInv, ReviewsKept, NoNewLink, UNCHANGED <<pendingReviews, timers>>, restarts' \in Nat
  PROVE  IInv'
<1>1. Shape'
  BY DEF IInv, Shape, ReviewsKept, NoNewLink
<1>2. TimedArePosted'
  BY DEF IInv, Shape, TimedArePosted, ReviewsKept
<1>3. LinkIsPosted'
  <2> SUFFICES ASSUME call'["watch"].pc = "link"
               PROVE  /\ call["watch"].quest \in Quests /\ call["watch"].review \in Reviews
                      /\ Posted(call["watch"].review)'
                      /\ review'[call["watch"].review].target = call["watch"].quest
    BY DEF LinkIsPosted, NoNewLink, Posted
  <2> QED  BY DEF IInv, LinkIsPosted, NoNewLink, ReviewsKept
<1>4. WaitIsTimed'
  BY DEF IInv, Shape, TimedArePosted, WaitIsTimed, ReviewsKept
<1> QED  BY <1>1, <1>2, <1>3, <1>4 DEF IInv

\* A quest stops waiting, and at most timers that answer for that quest end.
LEMMA AnswerStep ==
  ASSUME IInv, UNCHANGED <<review, restarts>>, NoNewLink,
         NEW q,
         pendingReviews' = [pendingReviews EXCEPT ![q] = None],
         timers' \in SUBSET timers,
         \A r \in timers \ timers' : review[r].target = q
  PROVE  IInv'
<1>1. Shape'
  BY DEF IInv, Shape, NoNewLink
<1>2. TimedArePosted'
  BY DEF IInv, TimedArePosted, Posted
<1>3. LinkIsPosted'
  BY DEF IInv, LinkIsPosted, NoNewLink, Posted
<1>4. WaitIsTimed'
  <2> SUFFICES ASSUME NEW p \in Quests, pendingReviews'[p] # None
               PROVE  \E r \in timers' : review'[r].target = p
    BY DEF WaitIsTimed
  <2>1. p # q /\ pendingReviews[p] # None
    BY DEF IInv, Shape
  <2>2. PICK r \in timers : review[r].target = p
    BY <2>1 DEF IInv, WaitIsTimed
  <2> QED  BY <2>1, <2>2
<1> QED  BY <1>1, <1>2, <1>3, <1>4 DEF IInv

\* A put of a red-team quest that is posted keeps its target.
LEMMA EmitStep ==
  ASSUME IInv, NEW r \in Reviews, NEW rec \in ReviewRec, NEW feed,
         EmitReview(r, rec, feed),
         Posted(r) => rec.status # "unposted" /\ rec.target = review[r].target
  PROVE  ReviewsKept
<1>1. review' = [review EXCEPT ![r] = rec]
  BY DEF EmitReview
<1>2. review' \in [Reviews -> ReviewRec]
  BY <1>1 DEF IInv, Shape
<1>3. ASSUME NEW s \in Reviews, Posted(s)
      PROVE  Posted(s)' /\ review'[s].target = review[s].target
  BY <1>1, <1>3 DEF IInv, Shape, Posted
<1> QED  BY <1>2, <1>3 DEF ReviewsKept

LEMMA NoReviewEmitted ==
  ASSUME IInv, UNCHANGED review
  PROVE  ReviewsKept
BY DEF IInv, Shape, ReviewsKept, Posted

LEMMA NoCallChanged ==
  ASSUME IInv, UNCHANGED call
  PROVE  NoNewLink
BY DEF IInv, Shape, NoNewLink

\* An update of a call that is not about linking.
LEMMA CallUpdated ==
  ASSUME IInv, NEW w \in Writers, NEW c, c.pc # "link", call' = [call EXCEPT ![w] = c]
  PROVE  NoNewLink
BY DEF IInv, Shape, NoNewLink

\* The two ways a posted red-team quest changes.
LEMMA ChangedReview ==
  ASSUME NEW rec \in ReviewRec, NEW s \in {"posted", "in_progress", "completed", "failed"}
  PROVE  /\ [rec EXCEPT !.status = s] \in ReviewRec
         /\ [rec EXCEPT !.status = s].status = s
         /\ [rec EXCEPT !.status = s].target = rec.target
BY DEF ReviewRec

LEMMA ClaimedReview ==
  ASSUME NEW rec \in ReviewRec
  PROVE  LET n == [rec EXCEPT !.status = "in_progress", !.attempts = @ + 1]
         IN  n \in ReviewRec /\ n.status # "unposted" /\ n.target = rec.target
<1> DEFINE m == rec.attempts + 1
<1>1. m \in Nat
  BY DEF ReviewRec
<1> HIDE DEF m
<1>2. LET n == [rec EXCEPT !.status = "in_progress", !.attempts = m]
      IN  n \in ReviewRec /\ n.status # "unposted" /\ n.target = rec.target
  BY <1>1 DEF ReviewRec
<1> QED  BY <1>2 DEF m

-----------------------------------------------------------------------------
(* The initial state and the red team's steps.                             *)

LEMMA InitIInv == ASSUME Init PROVE IInv
<1> USE StoreAssumption, ReviewAssumption
<1>1. Shape
  BY DEF Init, StoreInit, RedInit, Shape, ReviewRec, Writers, NoCall
<1>2. TimedArePosted /\ LinkIsPosted /\ WaitIsTimed
  BY DEF Init, RedInit, TimedArePosted, LinkIsPosted, WaitIsTimed, Writers, NoCall
<1> QED  BY <1>1, <1>2 DEF IInv

LEMMA PostReviewStep ==
  ASSUME IInv, PostReview, UNCHANGED restarts PROVE IInv'
<1> DEFINE q == Head(redteamFeed).key
           unposted == {k \in Reviews : review[k].status = "unposted"}
           r == CHOOSE k \in unposted : TRUE
           rec == [status |-> "posted", attempts |-> 0, target |-> q]
           c == [NoCall EXCEPT !.pc = "link", !.quest = q, !.review = r, !.copy = quest[q]]
<1>1. /\ q \in Quests
      /\ r \in Reviews /\ ~Posted(r)
      /\ EmitReview(r, rec, Tail(redteamFeed))
      /\ call' = [call EXCEPT !["watch"] = c]
      /\ UNCHANGED <<pendingReviews, timers>>
  BY DEF PostReview, Posted
<1>2. c.pc = "link" /\ c.quest = q /\ c.review = r
  BY DEF NoCall
<1>3. rec \in ReviewRec
  BY <1>1 DEF ReviewRec
<1>4. rec.status = "posted" /\ rec.target = q
  OBVIOUS
<1> HIDE DEF q, r, rec, c
<1>5. ReviewsKept
  BY <1>1, <1>3, EmitStep
<1>6. call' = [w \in Writers |-> call'[w]] /\ call'["watch"] = c
  BY <1>1 DEF IInv, Shape, Writers
<1>7. review'[r] = rec
  BY <1>1 DEF EmitReview, IInv, Shape
<1>8. Shape'
  BY <1>1, <1>5, <1>6 DEF IInv, Shape, ReviewsKept
<1>9. TimedArePosted'
  BY <1>1, <1>5 DEF IInv, Shape, TimedArePosted, ReviewsKept
<1>10. LinkIsPosted'
  BY <1>1, <1>2, <1>4, <1>6, <1>7 DEF LinkIsPosted, Posted
<1>11. WaitIsTimed'
  BY <1>1, <1>5 DEF IInv, Shape, TimedArePosted, WaitIsTimed, ReviewsKept
<1> QED  BY <1>8, <1>9, <1>10, <1>11 DEF IInv

LEMMA LinkReviewStep ==
  ASSUME IInv, LinkReview, UNCHANGED restarts PROVE IInv'
<1> DEFINE c == call["watch"]
<1>1. /\ c.pc = "link"
      /\ pendingReviews' = [pendingReviews EXCEPT ![c.quest] = c.review]
      /\ timers' = timers \cup {c.review}
      /\ call' = [call EXCEPT !["watch"] = NoCall]
      /\ UNCHANGED <<review, restarts>>
  BY DEF LinkReview
<1>2. /\ c.quest \in Quests /\ c.review \in Reviews
      /\ Posted(c.review) /\ review[c.review].target = c.quest
  BY <1>1 DEF IInv, LinkIsPosted
<1> HIDE DEF c
<1>3. NoCall.pc = "idle"
  BY DEF NoCall
<1>4. NoNewLink
  BY <1>1, <1>3, CallUpdated DEF Writers
<1>5. Shape'
  BY <1>1, <1>2, <1>4 DEF IInv, Shape, NoNewLink
<1>6. TimedArePosted'
  BY <1>1, <1>2 DEF IInv, TimedArePosted, Posted
<1>7. LinkIsPosted'
  BY <1>1, <1>3 DEF LinkIsPosted, IInv, Shape, Writers
<1>8. WaitIsTimed'
  <2> SUFFICES ASSUME NEW p \in Quests, pendingReviews'[p] # None
               PROVE  \E r \in timers' : review'[r].target = p
    BY DEF WaitIsTimed
  <2>1. CASE p = c.quest
    BY <1>1, <1>2, <2>1
  <2>2. CASE p # c.quest
    <3>1. pendingReviews[p] # None
      BY <1>1, <2>2 DEF IInv, Shape
    <3> QED  BY <1>1, <3>1 DEF IInv, WaitIsTimed
  <2> QED  BY <2>1, <2>2
<1> QED  BY <1>5, <1>6, <1>7, <1>8 DEF IInv

LEMMA SignallingCall ==
  ASSUME NEW q, NEW o
  PROVE  Signalling(q, o).pc = "read"
BY DEF Signalling, NoCall

LEMMA OtherWatchStep ==
  ASSUME IInv, SkipReview \/ ReviewFinished \/ IgnoreEntry, UNCHANGED restarts PROVE IInv'
<1> DEFINE k == Head(redteamFeed).key
<1> USE DEF Writers
<1>1. CASE SkipReview
  <2>1. /\ call' = [call EXCEPT !["watch"] = Signalling(k, "skipped")]
        /\ UNCHANGED <<review, pendingReviews, timers>>
    BY <1>1 DEF SkipReview
  <2>2. NoNewLink
    BY <2>1, SignallingCall, CallUpdated
  <2> QED  BY <2>1, <2>2, NoReviewEmitted, KeepStep DEF IInv, Shape
<1>2. CASE ReviewFinished
  <2> DEFINE c == Signalling(review[k].target,
                    IF Head(redteamFeed).status = "completed" THEN "completed" ELSE "skipped")
  <2>1. /\ call' = [call EXCEPT !["watch"] = c]
        /\ pendingReviews' = [pendingReviews EXCEPT ![review[k].target] = None]
        /\ UNCHANGED <<review, timers>>
    BY <1>2 DEF ReviewFinished
  <2>2. c.pc # "link"
    BY SignallingCall
  <2> HIDE DEF c, k
  <2>3. NoNewLink
    BY <2>1, <2>2, CallUpdated
  <2> QED  BY <2>1, <2>3, AnswerStep
<1>3. CASE IgnoreEntry
  <2>1. UNCHANGED <<review, pendingReviews, timers, call>>
    BY <1>3 DEF IgnoreEntry
  <2> QED  BY <2>1, NoReviewEmitted, NoCallChanged, KeepStep DEF IInv, Shape
<1> QED  BY <1>1, <1>2, <1>3

LEMMA TimeoutStep ==
  ASSUME IInv, NEW r \in Reviews, Timeout(r), UNCHANGED restarts PROVE IInv'
<1> DEFINE q == review[r].target
           c == [NoCall EXCEPT !.pc = "fail", !.quest = q, !.outcome = "skipped"]
<1>1. /\ timers' = timers \ {r}
      /\ pendingReviews' = [pendingReviews EXCEPT ![q] = None]
      /\ call' = IF pendingReviews[q] = None THEN call ELSE [call EXCEPT ![r] = c]
      /\ UNCHANGED review
  BY DEF Timeout, storeVars
<1>2. c.pc = "fail"
  BY DEF NoCall
<1>3. \A s \in timers \ timers' : review[s].target = q
  BY <1>1
<1> HIDE DEF q, c
<1>4. NoNewLink
  BY <1>1, <1>2, NoCallChanged, CallUpdated DEF Writers
<1> QED  BY <1>1, <1>3, <1>4, AnswerStep

LEMMA FailedReviewKeeps ==
  ASSUME NEW r, review[r] \in ReviewRec
  PROVE  /\ FailedReview(r) \in ReviewRec
         /\ FailedReview(r).status # "unposted" /\ FailedReview(r).target = review[r].target
<1> DEFINE rec == review[r]
           s == IF rec.attempts < MaxAttempts[r] THEN "posted" ELSE "failed"
<1>1. s \in {"posted", "in_progress", "completed", "failed"} /\ s # "unposted"
  OBVIOUS
<1>2. FailedReview(r) = [rec EXCEPT !.status = s]
  BY DEF FailedReview
<1> HIDE DEF rec, s
<1>3. /\ [rec EXCEPT !.status = s] \in ReviewRec
      /\ [rec EXCEPT !.status = s].status = s
      /\ [rec EXCEPT !.status = s].target = rec.target
  BY <1>1, ChangedReview DEF rec
<1> QED  BY <1>1, <1>2, <1>3 DEF rec

LEMMA FailReviewStep ==
  ASSUME IInv, NEW r \in Reviews, FailReview(r), UNCHANGED restarts PROVE IInv'
<1>1. /\ IF review[r].status = "in_progress"
         THEN EmitReview(r, FailedReview(r), redteamFeed)
         ELSE UNCHANGED <<review, redteamFeed>>
      /\ call' = [call EXCEPT ![r].pc = "read"]
      /\ call[r].pc = "fail"
      /\ UNCHANGED <<pendingReviews, timers>>
  BY DEF FailReview
<1>2. /\ FailedReview(r) \in ReviewRec
      /\ FailedReview(r).status # "unposted" /\ FailedReview(r).target = review[r].target
  BY FailedReviewKeeps DEF IInv, Shape
<1>3. ReviewsKept
  BY <1>1, <1>2, EmitStep, NoReviewEmitted
<1>4. call' = [w \in Writers |-> call'[w]]
  BY <1>1 DEF IInv, Shape
<1>5. call'["watch"].pc = "link" => call'["watch"] = call["watch"]
  <2> DEFINE d == [call[r] EXCEPT !.pc = "read"]
  <2>1. call' = [call EXCEPT ![r] = d]
    BY <1>1
  <2>2. d.pc # "link"
    BY <1>1
  <2> HIDE DEF d
  <2> QED  BY <2>1, <2>2, CallUpdated DEF Writers, NoNewLink
<1> QED  BY <1>1, <1>3, <1>4, <1>5, KeepStep DEF NoNewLink, IInv, Shape

LEMMA SignalStepKeeps ==
  ASSUME IInv, NEW w \in Writers, SignalStep(w), UNCHANGED restarts PROVE IInv'
<1>1. UNCHANGED <<review, pendingReviews, timers>>
  BY DEF SignalStep, SignalRead, SignalPut, storeVars
<1>2. NoNewLink
  <2> DEFINE c == call[w]
  <2>1. CASE SignalRead(w)
    <3> DEFINE d == [c EXCEPT !.pc = "cas", !.copy = quest[c.quest]]
    <3>1. call' = [call EXCEPT ![w] = d] /\ c.pc = "read"
      BY <2>1 DEF SignalRead, IInv, Shape
    <3>2. d.pc # "link"
      BY <3>1
    <3> HIDE DEF d
    <3> QED  BY <3>1, <3>2, CallUpdated
  <2>2. CASE SignalPut(w)
    <3> DEFINE d == [c EXCEPT !.pc = "read", !.copy = None, !.tries = @ + 1]
    <3>1. \/ call' = [call EXCEPT ![w] = NoCall]
          \/ call' = [call EXCEPT ![w] = d]
      BY <2>2 DEF SignalPut
    <3>2. c.pc = "cas" /\ NoCall.pc = "idle"
      BY <2>2 DEF SignalPut, NoCall
    <3>3. d.pc # "link"
      BY <3>2
    <3> HIDE DEF d, c
    <3> QED  BY <3>1, <3>2, <3>3, CallUpdated
  <2> QED  BY <2>1, <2>2 DEF SignalStep
<1> QED  BY <1>1, <1>2, NoReviewEmitted, KeepStep DEF IInv, Shape

LEMMA RedStepKeeps ==
  ASSUME IInv, RedStep, UNCHANGED restarts PROVE IInv'
<1>1. CASE WatchStep
  BY <1>1, PostReviewStep, LinkReviewStep, OtherWatchStep DEF WatchStep
<1>2. CASE \E r \in Reviews : Timeout(r) \/ FailReview(r)
  BY <1>2, TimeoutStep, FailReviewStep
<1>3. CASE \E w \in Writers : SignalStep(w)
  BY <1>3, SignalStepKeeps
<1> QED  BY <1>1, <1>2, <1>3 DEF RedStep

-----------------------------------------------------------------------------
(* The other steps.                                                        *)

LEMMA BossStepKeeps == ASSUME BossStep PROVE UNCHANGED review
<1> USE DEF storeVars
<1>1. CASE WatchSignal \/ WatchStatus
  BY <1>1 DEF WatchSignal, WatchStatus
<1>2. CASE (\E q \in Quests : SweepRead(q)) \/ SweepStart
  BY <1>2 DEF SweepRead, SweepStart
<1>3. CASE \E s \in Starters : MarkAgent(s)
  BY <1>3 DEF MarkAgent
<1>4. CASE \E b \in Battles : BattleStep(b)
  BY <1>4 DEF BattleStep, Victory, Defeat, AwaitHuman, ReleaseFighter, FailNode, PutVerdict
<1> QED  BY <1>1, <1>2, <1>3, <1>4 DEF BossStep

LEMMA WorkOnReviewStep ==
  ASSUME IInv, NEW r \in Reviews, WorkOnReview(r) PROVE IInv'
<1>1. UNCHANGED <<pendingReviews, timers, call, restarts>>
  BY DEF WorkOnReview, redVars
<1> DEFINE rec == review[r]
           claimed == [rec EXCEPT !.status = "in_progress", !.attempts = @ + 1]
           finished == [rec EXCEPT !.status = "completed"]
<1>2. rec \in ReviewRec
  BY DEF IInv, Shape
<1>3. \/ EmitReview(r, claimed, redteamFeed)
      \/ EmitReview(r, finished, redteamFeed)
      \/ EmitReview(r, FailedReview(r), redteamFeed)
  BY DEF WorkOnReview
<1>4. /\ claimed \in ReviewRec /\ claimed.status # "unposted"
      /\ claimed.target = rec.target
  <2> HIDE DEF rec
  <2> QED  BY <1>2, ClaimedReview
<1>5. /\ finished \in ReviewRec /\ finished.status # "unposted"
      /\ finished.target = rec.target
  <2> HIDE DEF rec
  <2> QED  BY <1>2, ChangedReview
<1>6. /\ FailedReview(r) \in ReviewRec /\ FailedReview(r).status # "unposted"
      /\ FailedReview(r).target = rec.target
  BY <1>2, FailedReviewKeeps
<1>7. ReviewsKept
  <2> HIDE DEF claimed, finished
  <2>1. CASE EmitReview(r, claimed, redteamFeed)
    BY <2>1, <1>4, EmitStep
  <2>2. CASE EmitReview(r, finished, redteamFeed)
    BY <2>2, <1>5, EmitStep
  <2>3. CASE EmitReview(r, FailedReview(r), redteamFeed)
    BY <2>3, <1>6, EmitStep
  <2> QED  BY <1>3, <2>1, <2>2, <2>3
<1> QED  BY <1>1, <1>7, NoCallChanged, KeepStep DEF IInv, Shape

LEMMA RestartStep == ASSUME IInv, Restart PROVE IInv'
<1>1. /\ UNCHANGED review
      /\ restarts' = restarts + 1
      /\ pendingReviews' = [q \in Quests |-> None]
      /\ timers' = {}
      /\ call' = [w \in Writers |-> NoCall]
  BY DEF Restart
<1>2. NoCall.pc = "idle"
  BY DEF NoCall
<1>3. Shape'
  BY <1>1 DEF IInv, Shape
<1>4. TimedArePosted' /\ WaitIsTimed'
  BY <1>1 DEF TimedArePosted, WaitIsTimed
<1>5. LinkIsPosted'
  BY <1>1, <1>2 DEF LinkIsPosted, Writers
<1> QED  BY <1>3, <1>4, <1>5 DEF IInv

LEMMA NextIInv == ASSUME IInv, [Next]_vars PROVE IInv'
<1> SUFFICES ASSUME UNCHANGED <<review, pendingReviews, timers, call, restarts>> \/ Next
             PROVE  IInv'
  BY DEF vars, storeVars, redVars
<1>1. CASE UNCHANGED <<review, pendingReviews, timers, call, restarts>>
  BY <1>1, NoReviewEmitted, NoCallChanged, KeepStep DEF IInv, Shape
<1>2. CASE BossStep /\ UNCHANGED <<redVars, restarts, signalled>>
  BY <1>1, <1>2, BossStepKeeps DEF redVars
<1>3. CASE RedStep /\ UNCHANGED <<bossVars, restarts>>
  BY <1>3, RedStepKeeps
<1>4. CASE \E q \in Quests, a \in Agents : Claim(q, a)
  BY <1>1, <1>4 DEF Claim, redVars
<1>5. CASE \E q \in Quests : Submit(q) \/ ApiFail(q)
  BY <1>1, <1>5 DEF Submit, ApiFail, redVars
<1>6. CASE \E r \in Reviews : WorkOnReview(r)
  BY <1>6, WorkOnReviewStep
<1>7. CASE \E a \in Agents : ReleaseOwed(a)
  BY <1>1, <1>7 DEF ReleaseOwed, redVars
<1>8. CASE Restart
  BY <1>8, RestartStep
<1> QED  BY <1>1, <1>2, <1>3, <1>4, <1>5, <1>6, <1>7, <1>8 DEF Next

-----------------------------------------------------------------------------
(* The theorems.                                                           *)

LEMMA IInvAlways == Spec => []IInv
<1>1. Init => IInv
  BY InitIInv
<1>2. IInv /\ [Next]_vars => IInv'
  BY NextIInv
<1> QED  BY <1>1, <1>2, PTL DEF Spec

\* A quest that waits for its red team always has a timeout running that will answer for it,
\* through restarts, operators and sweeps (watchTimeout of processor/redteam).
THEOREM WaitAlwaysTimed == Spec => []WaitIsTimed
<1>1. IInv => WaitIsTimed
  BY DEF IInv
<1> QED  BY <1>1, IInvAlways, PTL

-----------------------------------------------------------------------------
(* What bossbattle's watch is told of a quest: its cache and its queue are *)
(* read as one sequence of puts, the last of which is what is stored.      *)

Feed(f) == \E S : f \in Seq(S)

\* What bossbattle knows of q, its cache and then the entries of its watch.
Puts(f, q) == {i \in 0 .. Len(f) : i = 0 \/ f[i].key = q}
Known(f, cached, i) == IF i = 0 THEN cached ELSE f[i].rec.status

\* The cache and the watch see q enter review once more at most, and then it is in review
\* with that attempt.
EntersOnce(f, cached, q, rec) ==
  \A i, j \in Puts(f, q) :
    i < j /\ Known(f, cached, i) # "in_review" /\ Known(f, cached, j) = "in_review" =>
      /\ rec.status = "in_review" /\ f[j].rec.attempts = rec.attempts
      /\ \A k \in Puts(f, q) : j < k => Known(f, cached, k) = "in_review"

\* All there is to see of q is that it is in review.
Settling(f, cached, q, rec) ==
  rec.status = "in_review" /\ \A i \in Puts(f, q) : Known(f, cached, i) = "in_review"

\* A whole record; and a party's quest in review has its sub-quests.
QuestFields == {"status", "claimedBy", "attempts", "rtStatus", "rtQuest", "dag"}
Sound(q, rec) ==
  DOMAIN rec = QuestFields /\ (rec.status = "in_review" => rec.dag = (NodesOf[q] # {}))
SoundPuts(f, q) == \A i \in Puts(f, q) \ {0} : Sound(q, f[i].rec)

LEMMA FeedLonger ==
  ASSUME NEW f, Feed(f), NEW e
  PROVE  /\ Feed(Append(f, e)) /\ Len(f) \in Nat
         /\ Len(Append(f, e)) = Len(f) + 1
         /\ \A i \in 1 .. Len(f) : Append(f, e)[i] = f[i]
         /\ Append(f, e)[Len(f) + 1] = e
<1>1. PICK S : f \in Seq(S)
  BY DEF Feed
<1>2. f \in Seq(S \cup {e}) /\ e \in S \cup {e}
  BY <1>1, SeqMonotonic
<1> QED  BY <1>2, AppendProperties, LenProperties DEF Feed

LEMMA FeedShorter ==
  ASSUME NEW f, Feed(f), f # <<>>
  PROVE  /\ Feed(Tail(f)) /\ Len(f) \in Nat \ {0} /\ Head(f) = f[1]
         /\ Len(Tail(f)) = Len(f) - 1
         /\ \A i \in 1 .. Len(Tail(f)) : Tail(f)[i] = f[i + 1]
<1>1. PICK S : f \in Seq(S)
  BY DEF Feed
<1> QED  BY <1>1, HeadTailProperties, EmptySeq DEF Feed

LEMMA FeedNone == Feed(<<>>) /\ \A q : Puts(<<>>, q) = {0}
<1>1. <<>> \in Seq({})
  BY EmptySeq
<1>2. Len(<<>>) = 0
  BY EmptySeq
<1> QED  BY <1>1, <1>2 DEF Feed, Puts

\* A put of another quest.
LEMMA PutElsewhere ==
  ASSUME NEW f, Feed(f), NEW e, NEW q, e.key # q, NEW cached, NEW rec
  PROVE  LET g == Append(f, e)
         IN  /\ EntersOnce(f, cached, q, rec) => EntersOnce(g, cached, q, rec)
             /\ Settling(f, cached, q, rec) => Settling(g, cached, q, rec)
             /\ SoundPuts(f, q) => SoundPuts(g, q)
<1> DEFINE g == Append(f, e)
<1>1. /\ Len(f) \in Nat /\ Len(g) = Len(f) + 1
      /\ \A i \in 1 .. Len(f) : g[i] = f[i]
      /\ g[Len(f) + 1] = e
  BY FeedLonger
<1> HIDE DEF g
<1>2. Puts(g, q) = Puts(f, q)
  BY <1>1 DEF Puts
<1>3. \A i \in Puts(f, q) : i # 0 => g[i] = f[i]
  BY <1>1 DEF Puts
<1>4. \A i \in Puts(f, q) : Known(g, cached, i) = Known(f, cached, i)
  BY <1>3 DEF Known
<1>5. \A i, j \in Puts(f, q) : i < j => j # 0
  BY <1>1 DEF Puts
<1>6. EntersOnce(f, cached, q, rec) => EntersOnce(g, cached, q, rec)
  BY <1>2, <1>3, <1>4, <1>5 DEF EntersOnce
<1>7. Settling(f, cached, q, rec) => Settling(g, cached, q, rec)
  BY <1>2, <1>4 DEF Settling
<1>8. SoundPuts(f, q) => SoundPuts(g, q)
  BY <1>2, <1>3 DEF SoundPuts
<1> QED  BY <1>6, <1>7, <1>8 DEF g

\* A put of q that leaves review only from where all know of it.
LEMMA PutHere ==
  ASSUME NEW f, Feed(f), NEW q, NEW cached, NEW rec, NEW new, NEW e, e.key = q, e.rec = new,
         EntersOnce(f, cached, q, rec), SoundPuts(f, q), Sound(q, new),
         \/ rec.status # "in_review"
         \/ new.status = "in_review" /\ new.attempts = rec.attempts
         \/ Settling(f, cached, q, rec)
  PROVE  LET g == Append(f, e)
         IN  /\ EntersOnce(g, cached, q, new) /\ SoundPuts(g, q)
             /\ Settling(f, cached, q, rec) /\ new.status = "in_review" =>
                  Settling(g, cached, q, new)
<1> DEFINE g == Append(f, e)
           n == Len(f) + 1
<1>1. /\ Len(f) \in Nat /\ Len(g) = n
      /\ \A i \in 1 .. Len(f) : g[i] = f[i]
      /\ g[n] = e
  BY FeedLonger
<1> HIDE DEF g
<1>2. Puts(g, q) = Puts(f, q) \cup {n} /\ n # 0
  BY <1>1 DEF Puts
<1>3. \A i \in Puts(f, q) : i # 0 => g[i] = f[i]
  BY <1>1 DEF Puts
<1>4. /\ \A i \in Puts(f, q) : Known(g, cached, i) = Known(f, cached, i)
      /\ Known(g, cached, n) = new.status
  BY <1>1, <1>2, <1>3 DEF Known
<1>5. /\ \A i, j \in Puts(f, q) : i < j => j # 0
      /\ \A i \in Puts(f, q) : i < n
  BY <1>1 DEF Puts
<1>6. /\ \A i \in Puts(g, q) : ~(n < i)
      /\ \A i, j \in Puts(g, q) : i < j => i \in Puts(f, q)
  BY <1>1, <1>2 DEF Puts
<1>7. EntersOnce(g, cached, q, new)
  <2> SUFFICES ASSUME NEW i \in Puts(g, q), NEW j \in Puts(g, q), i < j,
                      Known(g, cached, i) # "in_review", Known(g, cached, j) = "in_review"
               PROVE  /\ new.status = "in_review" /\ g[j].rec.attempts = new.attempts
                      /\ \A k \in Puts(g, q) : j < k => Known(g, cached, k) = "in_review"
    BY DEF EntersOnce
  <2>1. i \in Puts(f, q) /\ Known(f, cached, i) # "in_review"
    BY <1>4, <1>6
  <2>2. ~Settling(f, cached, q, rec)
    BY <2>1 DEF Settling
  <2>3. CASE j = n
    BY <1>1, <1>4, <1>6, <2>3
  <2>4. CASE j \in Puts(f, q)
    <3>1. Known(f, cached, j) = "in_review" /\ g[j] = f[j]
      BY <1>3, <1>4, <1>5, <2>1, <2>4
    <3>2. /\ rec.status = "in_review" /\ f[j].rec.attempts = rec.attempts
          /\ \A k \in Puts(f, q) : j < k => Known(f, cached, k) = "in_review"
      BY <2>1, <2>4, <3>1 DEF EntersOnce
    <3>3. new.status = "in_review" /\ new.attempts = rec.attempts
      BY <2>2, <3>2
    <3> QED  BY <1>2, <1>4, <3>1, <3>2, <3>3
  <2> QED  BY <1>2, <2>3, <2>4
<1>8. SoundPuts(g, q)
  BY <1>1, <1>2, <1>3 DEF SoundPuts
<1>9. Settling(f, cached, q, rec) /\ new.status = "in_review" => Settling(g, cached, q, new)
  BY <1>2, <1>4 DEF Settling
<1> QED  BY <1>7, <1>8, <1>9 DEF g

\* The watch delivers an entry of another quest.
LEMMA DeliverElsewhere ==
  ASSUME NEW f, Feed(f), f # <<>>, NEW q, Head(f).key # q, NEW cached, NEW rec
  PROVE  LET g == Tail(f)
         IN  /\ EntersOnce(f, cached, q, rec) => EntersOnce(g, cached, q, rec)
             /\ Settling(f, cached, q, rec) => Settling(g, cached, q, rec)
             /\ SoundPuts(f, q) => SoundPuts(g, q)
<1> DEFINE g == Tail(f)
           at(i) == IF i = 0 THEN 0 ELSE i + 1
<1>1. /\ Len(f) \in Nat \ {0} /\ Head(f) = f[1] /\ Len(g) = Len(f) - 1
      /\ \A i \in 1 .. Len(g) : g[i] = f[i + 1]
  BY FeedShorter
<1> HIDE DEF g
<1>2. \A i \in Puts(g, q) : at(i) \in Puts(f, q)
  BY <1>1 DEF Puts
<1>3. \A i \in Puts(g, q) : i # 0 => at(i) # 0 /\ g[i] = f[at(i)]
  BY <1>1 DEF Puts
<1>4. \A i, j \in Puts(g, q) : i < j => at(i) < at(j) /\ j # 0
  BY <1>1 DEF Puts
<1>5. \A i \in Puts(g, q) : Known(g, cached, i) = Known(f, cached, at(i))
  BY <1>3 DEF Known
<1> HIDE DEF at
<1>6. EntersOnce(f, cached, q, rec) => EntersOnce(g, cached, q, rec)
  <2> SUFFICES ASSUME EntersOnce(f, cached, q, rec),
                      NEW i \in Puts(g, q), NEW j \in Puts(g, q), i < j,
                      Known(g, cached, i) # "in_review", Known(g, cached, j) = "in_review"
               PROVE  /\ rec.status = "in_review" /\ g[j].rec.attempts = rec.attempts
                      /\ \A k \in Puts(g, q) : j < k => Known(g, cached, k) = "in_review"
    BY DEF EntersOnce
  <2>1. /\ rec.status = "in_review" /\ f[at(j)].rec.attempts = rec.attempts
        /\ \A k \in Puts(f, q) : at(j) < k => Known(f, cached, k) = "in_review"
    BY <1>2, <1>4, <1>5 DEF EntersOnce
  <2> QED  BY <1>2, <1>3, <1>4, <1>5, <2>1
<1>7. Settling(f, cached, q, rec) => Settling(g, cached, q, rec)
  BY <1>2, <1>5 DEF Settling
<1>8. SoundPuts(f, q) => SoundPuts(g, q)
  BY <1>2, <1>3 DEF SoundPuts
<1> QED  BY <1>6, <1>7, <1>8 DEF g

\* What is known when the watch has delivered an entry of q.
Delivered(f, g, cached, new, q, rec) ==
  /\ EntersOnce(g, new.status, q, rec) /\ SoundPuts(g, q) /\ Sound(q, new)
  /\ Settling(f, cached, q, rec) => Settling(g, new.status, q, rec)
  /\ cached # "in_review" /\ new.status = "in_review" =>
       Settling(g, new.status, q, rec) /\ new.attempts = rec.attempts

\* The watch delivers an entry of q, and caches its status.
LEMMA DeliverHere ==
  ASSUME NEW f, Feed(f), f # <<>>, NEW q, NEW new, Head(f).key = q, Head(f).rec = new,
         NEW cached, NEW rec, EntersOnce(f, cached, q, rec), SoundPuts(f, q)
  PROVE  Delivered(f, Tail(f), cached, new, q, rec)
<1> DEFINE g == Tail(f)
           e == Head(f)
           c == e.rec.status
           at(i) == i + 1
<1>1. /\ Len(f) \in Nat \ {0} /\ e = f[1] /\ Len(g) = Len(f) - 1
      /\ \A i \in 1 .. Len(g) : g[i] = f[i + 1]
  BY FeedShorter
<1> HIDE DEF g, e
<1>2. e.key = q
  BY DEF e
<1>3. \A i \in Puts(g, q) : at(i) \in Puts(f, q) /\ at(i) # 0
  BY <1>1, <1>2 DEF Puts
<1>4. \A i \in Puts(g, q) : i # 0 => g[i] = f[at(i)]
  BY <1>1 DEF Puts
<1>5. \A i, j \in Puts(g, q) : i < j => at(i) < at(j) /\ j # 0
  BY <1>1 DEF Puts
<1>6. \A i \in Puts(g, q) : Known(g, c, i) = Known(f, cached, at(i))
  BY <1>1, <1>3, <1>4 DEF Known
<1>7. /\ 0 \in Puts(f, q) /\ 1 \in Puts(f, q) /\ 0 < 1 /\ 1 # 0
      /\ \A i \in Puts(g, q) : i = 0 \/ 1 < at(i)
      /\ at(0) = 1
  BY <1>1, <1>2 DEF Puts
<1>8. Known(f, cached, 0) = cached /\ Known(f, cached, 1) = c
  BY <1>1 DEF Known
<1> HIDE DEF at, c
<1>9. EntersOnce(g, c, q, rec)
  <2> SUFFICES ASSUME NEW i \in Puts(g, q), NEW j \in Puts(g, q), i < j,
                      Known(g, c, i) # "in_review", Known(g, c, j) = "in_review"
               PROVE  /\ rec.status = "in_review" /\ g[j].rec.attempts = rec.attempts
                      /\ \A k \in Puts(g, q) : j < k => Known(g, c, k) = "in_review"
    BY DEF EntersOnce
  <2>1. /\ rec.status = "in_review" /\ f[at(j)].rec.attempts = rec.attempts
        /\ \A k \in Puts(f, q) : at(j) < k => Known(f, cached, k) = "in_review"
    BY <1>3, <1>5, <1>6 DEF EntersOnce
  <2> QED  BY <1>3, <1>4, <1>5, <1>6, <2>1
<1>10. SoundPuts(g, q) /\ Sound(q, e.rec)
  BY <1>1, <1>3, <1>4, <1>7 DEF SoundPuts
<1>11. Settling(f, cached, q, rec) => c = "in_review" /\ Settling(g, c, q, rec)
  BY <1>3, <1>6, <1>7, <1>8 DEF Settling
<1>12. ASSUME cached # "in_review", c = "in_review"
       PROVE  Settling(g, c, q, rec) /\ e.rec.attempts = rec.attempts
  <2>1. /\ rec.status = "in_review" /\ f[1].rec.attempts = rec.attempts
        /\ \A k \in Puts(f, q) : 1 < k => Known(f, cached, k) = "in_review"
    BY <1>7, <1>8, <1>12 DEF EntersOnce
  <2>2. \A i \in Puts(g, q) : Known(g, c, i) = "in_review"
    BY <1>3, <1>6, <1>7, <1>8, <1>12, <2>1
  <2> QED  BY <1>1, <2>1, <2>2 DEF Settling
<1> QED  BY <1>9, <1>10, <1>11, <1>12 DEF g, e, c, Delivered

-----------------------------------------------------------------------------
(* The invariant of the battles.                                           *)

\* The quests whose review nobody has cut into; they only grow fewer.
Calm == Quests \ disturbed
Growing == disturbed \subseteq disturbed'

LEMMA CalmShrinks == ASSUME Growing PROVE \A q \in Calm' : q \in Calm
BY DEF Growing, Calm

QuestSound(q) ==
  /\ Sound(q, quest[q]) /\ SoundPuts(battleFeed, q)
  /\ EntersOnce(battleFeed, questCache[q], q, quest[q])

Settled1(q) == Settling(battleFeed, questCache[q], q, quest[q])

Fighting(q) == \E b \in Battles : battle[b].pc # "none" /\ battle[b].quest = q
Active(q) == redTeamPending[q] # None \/ Fighting(q)

\* A copy of the submission that is stored.
Submitted(q, copy, quests) ==
  copy.status = "in_review" /\ Sound(q, copy) /\ copy.attempts = quests[q].attempts

\* What one battle holds, as the quests and the sub-quests are.
FightFields == {"pc", "quest", "copy", "nodes"}
FightSound(m, quests, parts, calm) ==
  /\ DOMAIN m = FightFields
  /\ m.pc # "none" =>
       /\ m.quest \in Quests
       /\ m.pc \in {"evaluating", "release", "nodes", "put"}
       /\ m.quest \in calm =>
            /\ DOMAIN m.copy = QuestFields
            /\ m.pc = "evaluating" => Submitted(m.quest, m.copy, quests)
            /\ m.pc = "release" => m.nodes = NodesOf[m.quest]
            /\ m.pc = "nodes" =>
                 /\ m.copy.status \in {"posted", "failed"}
                 /\ \A s \in NodesOf[m.quest] \ m.nodes : parts[s] = "failed"
            /\ m.pc = "put" => m.copy.status = "completed"

SweptShape == swept # None => swept.quest \in Quests /\ swept.copy # None

BattleShape ==
  /\ DOMAIN quest = Quests /\ DOMAIN questCache = Quests /\ DOMAIN redTeamPending = Quests
  /\ DOMAIN battle = Battles /\ DOMAIN part = SubQuests
  /\ Feed(battleFeed) /\ \A i \in 1 .. Len(battleFeed) : battleFeed[i].key \in Quests
  /\ SweptShape

\* The link is put with a copy that was read whole.
LinkSound ==
  LET c == call["watch"]
  IN  c.pc = "link" /\ c.quest \in Calm => Sound(c.quest, c.copy)

Battling ==
  /\ \A q \in Calm : redTeamPending[q] # None =>
       ~Fighting(q) /\ Submitted(q, redTeamPending[q], quest)
  /\ \A q \in Calm : Active(q) => Settled1(q)
  /\ \A b \in Battles : FightSound(battle[b], quest, part, Calm)

BattleInv ==
  BattleShape /\ (\A q \in Calm : QuestSound(q)) /\ OneBattle /\ Battling /\ LinkSound

\* A put of a quest that does not pull a submission out of review.
LEMMA PutKeeps ==
  ASSUME BattleShape, \A p \in Calm : QuestSound(p), Growing, NEW q \in Quests, NEW rec,
         quest' = [quest EXCEPT ![q] = rec], UNCHANGED <<questCache, redTeamPending, swept>>,
         battleFeed' = Append(battleFeed, [key |-> q, rec |-> rec]),
         DOMAIN battle' = Battles, DOMAIN part' = SubQuests,
         q \in Calm' =>
           /\ Sound(q, rec)
           /\ \/ quest[q].status # "in_review"
              \/ rec.status = "in_review" /\ rec.attempts = quest[q].attempts
              \/ Settled1(q)
  PROVE  /\ BattleShape'
         /\ \A p \in Calm' : QuestSound(p)'
         /\ \A p \in Calm' : Settled1(p) /\ (p = q => rec.status = "in_review") => Settled1(p)'
<1> DEFINE e == [key |-> q, rec |-> rec]
<1>1. e.key = q /\ e.rec = rec
  OBVIOUS
<1> HIDE DEF e
<1>2. battleFeed' = Append(battleFeed, e) /\ Feed(battleFeed)
  BY DEF e, BattleShape
<1>3. /\ Feed(battleFeed') /\ Len(battleFeed) \in Nat /\ Len(battleFeed') = Len(battleFeed) + 1
      /\ \A i \in 1 .. Len(battleFeed) : battleFeed'[i] = battleFeed[i]
      /\ battleFeed'[Len(battleFeed) + 1] = e
  BY <1>2, FeedLonger
<1>4. /\ DOMAIN quest' = Quests
      /\ \A p \in Quests : quest'[p] = IF p = q THEN rec ELSE quest[p]
  BY DEF BattleShape
<1>5. BattleShape'
  BY <1>1, <1>3, <1>4 DEF BattleShape, SweptShape
<1>6. ASSUME q \in Calm'
      PROVE  QuestSound(q)' /\ (Settled1(q) /\ rec.status = "in_review" => Settled1(q)')
  <2> DEFINE g == Append(battleFeed, e)
             c == questCache[q]
  <2>1. EntersOnce(battleFeed, c, q, quest[q]) /\ SoundPuts(battleFeed, q)
    BY <1>6, CalmShrinks DEF QuestSound
  <2>2. /\ Sound(q, rec)
        /\ \/ quest[q].status # "in_review"
           \/ rec.status = "in_review" /\ rec.attempts = quest[q].attempts
           \/ Settling(battleFeed, c, q, quest[q])
    BY <1>6 DEF Settled1
  <2>3. battleFeed' = g /\ questCache'[q] = c /\ quest'[q] = rec
    BY <1>2, <1>4
  <2> HIDE DEF c
  <2>4. /\ EntersOnce(g, c, q, rec) /\ SoundPuts(g, q)
        /\ Settling(battleFeed, c, q, quest[q]) /\ rec.status = "in_review" =>
             Settling(g, c, q, rec)
    BY <1>1, <1>2, <2>1, <2>2, PutHere
  <2> HIDE DEF g
  <2> QED  BY <2>2, <2>3, <2>4 DEF QuestSound, Settled1, c
<1>7. ASSUME NEW p \in Calm', p # q
      PROVE  QuestSound(p)' /\ (Settled1(p) => Settled1(p)')
  <2> DEFINE g == Append(battleFeed, e)
             c == questCache[p]
             r == quest[p]
  <2>0. p \in Calm /\ p \in Quests
    BY CalmShrinks DEF Calm
  <2>1. battleFeed' = g /\ questCache'[p] = c /\ quest'[p] = r
    BY <1>2, <1>4, <1>7, <2>0
  <2>5. QuestSound(p)
    BY <2>0
  <2> HIDE DEF c, r
  <2>2. /\ EntersOnce(battleFeed, c, p, r) => EntersOnce(g, c, p, r)
        /\ Settling(battleFeed, c, p, r) => Settling(g, c, p, r)
        /\ SoundPuts(battleFeed, p) => SoundPuts(g, p)
    BY <1>1, <1>2, <1>7, PutElsewhere
  <2> HIDE DEF g
  <2> QED  BY <2>1, <2>2, <2>5 DEF QuestSound, Settled1, c, r
<1> QED  BY <1>4, <1>5, <1>6, <1>7

\* The same, while no battle changes.
LEMMA EmitKeeps ==
  ASSUME BattleInv, Growing, NEW q \in Quests, NEW rec, EmitEntityUpdate(q, rec),
         UNCHANGED bossVars, DOMAIN part' = SubQuests,
         \A p \in Calm' : Fighting(p) => \A s \in NodesOf[p] : part'[s] = part[s],
         q \in Calm' =>
           /\ Sound(q, rec)
           /\ \/ quest[q].status # "in_review"
              \/ rec.status = "in_review" /\ rec.attempts = quest[q].attempts,
         LinkSound'
  PROVE  BattleInv'
<1>1. /\ quest' = [quest EXCEPT ![q] = rec]
      /\ battleFeed' = Append(battleFeed, [key |-> q, rec |-> rec])
      /\ UNCHANGED <<questCache, redTeamPending, swept, battle>>
  BY DEF EmitEntityUpdate, Emit, bossVars
<1>2. DOMAIN battle' = Battles
  BY <1>1 DEF BattleInv, BattleShape
<1>10. /\ BattleShape /\ \A p \in Calm : QuestSound(p)
       /\ UNCHANGED <<questCache, redTeamPending, swept>>
       /\ q \in Calm' =>
            /\ Sound(q, rec)
            /\ \/ quest[q].status # "in_review"
               \/ rec.status = "in_review" /\ rec.attempts = quest[q].attempts
               \/ Settled1(q)
  BY <1>1 DEF BattleInv
<1>3. /\ BattleShape'
      /\ \A p \in Calm' : QuestSound(p)'
      /\ \A p \in Calm' : Settled1(p) /\ (p = q => rec.status = "in_review") => Settled1(p)'
  BY <1>1, <1>2, <1>10, PutKeeps
<1>11. \A p \in Quests : quest'[p] = IF p = q THEN rec ELSE quest[p]
  BY <1>1 DEF BattleInv, BattleShape
<1>4. OneBattle'
  BY <1>1 DEF BattleInv, OneBattle, Growing
<1>5. \A p \in Quests : Active(p)' <=> Active(p)
  BY <1>1 DEF Active, Fighting
<1>6. \A p \in Calm' : Active(p) => Settled1(p) /\ quest[p].status = "in_review"
  <2>1. \A p \in Calm : Active(p) => Settled1(p) /\ quest[p].status = "in_review"
    BY DEF BattleInv, Battling, Settled1, Settling
  <2> QED  BY <2>1, CalmShrinks
<1>7. \A p \in Calm' : Active(p)' => Settled1(p)'
  BY <1>3, <1>5, <1>6 DEF Calm
<1>12. \A p \in Calm' : Active(p) => quest'[p].attempts = quest[p].attempts
  BY <1>6, <1>11 DEF Calm
<1>8. ASSUME NEW b \in Battles PROVE FightSound(battle[b], quest', part', Calm')
  <2>1. FightSound(battle[b], quest, part, Calm)
    BY DEF BattleInv, Battling
  <2>2. ASSUME battle[b].pc # "none", battle[b].quest \in Calm'
        PROVE  /\ quest'[battle[b].quest].attempts = quest[battle[b].quest].attempts
               /\ \A s \in NodesOf[battle[b].quest] : part'[s] = part[s]
               /\ battle[b].quest \in Calm
    <3>1. Fighting(battle[b].quest)
      BY <2>2 DEF Fighting
    <3> QED  BY <1>12, <2>2, <3>1, CalmShrinks DEF Active
  <2> QED  BY <2>1, <2>2 DEF FightSound, Submitted
<1>13. ASSUME NEW p \in Calm', redTeamPending'[p] # None
       PROVE  ~Fighting(p)' /\ Submitted(p, redTeamPending'[p], quest')
  <2>1. p \in Calm /\ redTeamPending[p] # None /\ Active(p)
    BY <1>1, <1>13, CalmShrinks DEF Active
  <2>2. ~Fighting(p) /\ Submitted(p, redTeamPending[p], quest)
    BY <2>1 DEF BattleInv, Battling
  <2> QED  BY <1>1, <1>12, <2>1, <2>2 DEF Fighting, Submitted
<1>9. Battling'
  BY <1>1, <1>7, <1>8, <1>13 DEF Battling
<1> QED  BY <1>3, <1>4, <1>9 DEF BattleInv

\* Nothing that battles are about changes but what one of them holds.
LEMMA FightKeeps ==
  ASSUME BattleInv, Growing, NEW b \in Battles, NEW m, battle' = [battle EXCEPT ![b] = m],
         UNCHANGED <<quest, battleFeed, questCache, redTeamPending, swept, call>>,
         m.pc # "none" => battle[b].pc # "none" /\ m.quest = battle[b].quest,
         FightSound(m, quest, part', Calm), DOMAIN part' = SubQuests,
         \A s \in SubQuests : part[s] = "failed" => part'[s] = "failed"
  PROVE  BattleInv'
<1>1. /\ DOMAIN battle' = Battles /\ battle'[b] = m
      /\ \A c \in Battles : c # b => battle'[c] = battle[c]
  BY DEF BattleInv, BattleShape
<1>2. \A c \in Battles : battle'[c].pc # "none" =>
        battle[c].pc # "none" /\ battle'[c].quest = battle[c].quest
  BY <1>1
<1>3. BattleShape'
  BY <1>1 DEF BattleInv, BattleShape, SweptShape
<1>4. \A p \in Calm' : p \in Calm /\ QuestSound(p)' /\ (Settled1(p) => Settled1(p)')
  BY CalmShrinks DEF BattleInv, QuestSound, Settled1
<1>5. \A p \in Quests : Fighting(p)' => Fighting(p)
  BY <1>2 DEF Fighting
<1>6. OneBattle'
  BY <1>2 DEF BattleInv, OneBattle, Growing
<1>7. ASSUME NEW c \in Battles PROVE FightSound(battle'[c], quest', part', Calm')
  <2>1. CASE c = b
    BY <1>1, <1>4, <2>1 DEF FightSound
  <2>2. CASE c # b
    <3>1. FightSound(battle[c], quest, part, Calm)
      BY DEF BattleInv, Battling
    <3>2. battle[c].pc # "none" => \A s \in NodesOf[battle[c].quest] : s \in SubQuests
      BY <3>1, StoreAssumption DEF FightSound, SubQuests
    <3> QED  BY <1>1, <1>4, <2>2, <3>1, <3>2 DEF FightSound
  <2> QED  BY <2>1, <2>2
<1>9. \A p \in Calm' : p \in Quests
  BY DEF Calm
<1>8. Battling'
  BY <1>4, <1>5, <1>7, <1>9 DEF BattleInv, Battling, Active
<1>10. LinkSound'
  BY <1>4 DEF BattleInv, LinkSound
<1> QED  BY <1>3, <1>4, <1>6, <1>8, <1>10 DEF BattleInv

\* A verdict is put over what is stored, and no other battle is about that quest.
LEMMA VerdictKeeps ==
  ASSUME BattleInv, Growing, NEW b \in Battles, PutVerdict(b), UNCHANGED call
  PROVE  BattleInv'
<1> DEFINE q == battle[b].quest
           rec == battle[b].copy
<1>1. /\ battle[b].pc \in {"put", "nodes"}
      /\ EmitEntityUpdate(q, rec)
      /\ battle' = [battle EXCEPT ![b] = NoBattle]
      /\ UNCHANGED <<part, questCache, redTeamPending, swept>>
  BY DEF PutVerdict
<1>2. FightSound(battle[b], quest, part, Calm)
  BY DEF BattleInv, Battling
<1>3. /\ q \in Quests
      /\ q \in Calm => DOMAIN rec = QuestFields /\ rec.status # "in_review"
  BY <1>1, <1>2 DEF FightSound
<1>4. q \in Calm => Sound(q, rec)
  BY <1>3 DEF Sound
<1>5. Fighting(q)
  BY <1>1 DEF Fighting
<1>6. q \in Calm => Settled1(q) /\ redTeamPending[q] = None
  BY <1>3, <1>5 DEF BattleInv, Battling, Active
<1>7. /\ quest' = [quest EXCEPT ![q] = rec]
      /\ battleFeed' = Append(battleFeed, [key |-> q, rec |-> rec])
  BY <1>1 DEF EmitEntityUpdate, Emit
<1> HIDE DEF rec
<1>8. \A p \in Quests : quest'[p] = IF p = q THEN rec ELSE quest[p]
  BY <1>7 DEF BattleInv, BattleShape
<1>9. /\ DOMAIN battle' = Battles /\ battle'[b] = NoBattle /\ DOMAIN part' = SubQuests
      /\ \A c \in Battles : c # b => battle'[c] = battle[c]
  BY <1>1 DEF BattleInv, BattleShape
<1>10. NoBattle.pc = "none" /\ DOMAIN NoBattle = FightFields
  BY DEF NoBattle, FightFields
<1>11. BattleShape /\ (\A p \in Calm : QuestSound(p))
  BY DEF BattleInv
<1>21. \A p \in Calm' : p \in Calm /\ p \in Quests
  BY CalmShrinks DEF Calm
<1>12. /\ BattleShape'
       /\ \A p \in Calm' : QuestSound(p)'
       /\ \A p \in Calm' : Settled1(p) /\ (p = q => rec.status = "in_review") => Settled1(p)'
  <2> HIDE DEF q
  <2> QED  BY <1>1, <1>3, <1>4, <1>6, <1>7, <1>9, <1>11, <1>21, PutKeeps
<1>13. \A c \in Battles : battle'[c].pc # "none" =>
         /\ c # b /\ battle[c].pc # "none" /\ battle'[c] = battle[c]
         /\ q \in Calm => battle[c].quest # q
  BY <1>1, <1>9, <1>10 DEF BattleInv, OneBattle, Calm
<1>14. OneBattle'
  BY <1>13 DEF BattleInv, OneBattle, Growing
<1>15. \A p \in Calm' : Fighting(p)' => Fighting(p) /\ p # q
  BY <1>13, <1>21 DEF Fighting
<1>16. \A p \in Calm' : Active(p)' => Active(p) /\ p # q
  BY <1>1, <1>6, <1>15, <1>21 DEF Active
<1>17. \A p \in Calm' : Active(p)' => Settled1(p)'
  BY <1>12, <1>16, <1>21 DEF BattleInv, Battling
<1>18. ASSUME NEW c \in Battles PROVE FightSound(battle'[c], quest', part', Calm')
  <2>1. FightSound(battle[c], quest, part, Calm)
    BY DEF BattleInv, Battling
  <2>2. CASE battle'[c].pc = "none"
    BY <1>9, <1>10, <2>1, <2>2 DEF FightSound
  <2>3. CASE battle'[c].pc # "none"
    <3>1. battle'[c] = battle[c] /\ (battle[c].quest \in Calm' => battle[c].quest # q)
      BY <1>13, <1>21, <2>3
    <3>2. battle[c].quest \in Calm' =>
            quest'[battle[c].quest] = quest[battle[c].quest] /\ battle[c].quest \in Calm
      BY <1>8, <1>21, <3>1
    <3> QED  BY <1>1, <2>1, <3>1, <3>2 DEF FightSound, Submitted
  <2> QED  BY <2>2, <2>3
<1>19. ASSUME NEW p \in Calm', redTeamPending'[p] # None
       PROVE  ~Fighting(p)' /\ Submitted(p, redTeamPending'[p], quest')
  <2>1. redTeamPending[p] # None /\ ~Fighting(p) /\ Submitted(p, redTeamPending[p], quest)
    BY <1>1, <1>19, <1>21 DEF BattleInv, Battling
  <2>2. p # q
    BY <1>5, <2>1
  <2>3. quest'[p] = quest[p]
    BY <1>8, <1>21, <2>2
  <2> QED  BY <1>1, <1>15, <2>1, <2>3 DEF Submitted
<1>20. Battling'
  BY <1>17, <1>18, <1>19 DEF Battling
<1>22. LinkSound'
  BY <1>21 DEF BattleInv, LinkSound
<1> QED  BY <1>12, <1>14, <1>20, <1>22 DEF BattleInv

\* The watch takes its next entry.
LEMMA DeliverKeeps ==
  ASSUME BattleInv, battleFeed # <<>>, NEW q, NEW rec,
         q = Head(battleFeed).key, rec = Head(battleFeed).rec, battleFeed' = Tail(battleFeed),
         UNCHANGED quest, q \in Calm => questCache'[q] = rec.status,
         \A p \in Quests : p # q => questCache'[p] = questCache[p]
  PROVE  /\ Feed(battleFeed') /\ \A i \in 1 .. Len(battleFeed') : battleFeed'[i].key \in Quests
         /\ \A p \in Calm : QuestSound(p)' /\ (Settled1(p) => Settled1(p)')
         /\ q \in Quests
         /\ q \in Calm =>
              /\ Sound(q, rec)
              /\ Settled1(q) => questCache[q] = "in_review"
              /\ questCache[q] # "in_review" /\ rec.status = "in_review" =>
                   Settled1(q)' /\ rec.attempts = quest[q].attempts
<1>1. /\ Feed(battleFeed) /\ Feed(battleFeed') /\ Len(battleFeed) \in Nat \ {0}
      /\ Head(battleFeed) = battleFeed[1] /\ Len(battleFeed') = Len(battleFeed) - 1
      /\ \A i \in 1 .. Len(battleFeed') : battleFeed'[i] = battleFeed[i + 1]
  BY FeedShorter DEF BattleInv, BattleShape
<1>2. \A i \in 1 .. Len(battleFeed) : battleFeed[i].key \in Quests
  BY DEF BattleInv, BattleShape
<1>3. q \in Quests /\ \A i \in 1 .. Len(battleFeed') : battleFeed'[i].key \in Quests
  BY <1>1, <1>2
<1> DEFINE g == Tail(battleFeed)
<1>4. battleFeed' = g
  OBVIOUS
<1>5. ASSUME q \in Calm
      PROVE  /\ QuestSound(q)' /\ (Settled1(q) => Settled1(q)') /\ Sound(q, rec)
             /\ Settled1(q) => questCache[q] = "in_review"
             /\ questCache[q] # "in_review" /\ rec.status = "in_review" =>
                  Settled1(q)' /\ rec.attempts = quest[q].attempts
  <2> DEFINE c == questCache[q]
             r == quest[q]
  <2>1. /\ EntersOnce(battleFeed, c, q, r) /\ SoundPuts(battleFeed, q) /\ Sound(q, r)
    BY <1>5 DEF BattleInv, QuestSound
  <2>2. /\ quest'[q] = r /\ questCache'[q] = rec.status
        /\ (Settled1(q) <=> Settling(battleFeed, c, q, r))
    BY <1>5 DEF Settled1
  <2>3. Settled1(q) => c = "in_review"
    <3>1. 0 \in Puts(battleFeed, q)
      BY <1>1 DEF Puts
    <3> QED  BY <3>1 DEF Settled1, Settling, Known
  <2> HIDE DEF c, r
  <2>4. Delivered(battleFeed, g, c, rec, q, r)
    BY <1>1, <2>1, DeliverHere
  <2> HIDE DEF g
  <2> QED  BY <1>4, <2>1, <2>2, <2>3, <2>4 DEF c, r, Delivered, QuestSound, Settled1
<1>9. ASSUME NEW p \in Calm, p # q
      PROVE  QuestSound(p)' /\ (Settled1(p) => Settled1(p)')
  <2> DEFINE d == questCache[p]
             r == quest[p]
  <2>1. battleFeed' = g /\ questCache'[p] = d /\ quest'[p] = r /\ QuestSound(p)
    BY <1>9 DEF BattleInv, Calm
  <2> HIDE DEF d, r
  <2>2. /\ EntersOnce(battleFeed, d, p, r) => EntersOnce(g, d, p, r)
        /\ Settling(battleFeed, d, p, r) => Settling(g, d, p, r)
        /\ SoundPuts(battleFeed, p) => SoundPuts(g, p)
    BY <1>1, <1>9, DeliverElsewhere DEF g
  <2> HIDE DEF g
  <2> QED  BY <2>1, <2>2 DEF QuestSound, Settled1, d, r
<1> QED  BY <1>1, <1>3, <1>5, <1>9

\* A battle starts on a quest that has none and whose present submission the watch has seen.
LEMMA StartKeeps ==
  ASSUME BattleInv, Growing, NEW q \in Quests, NEW rec, NEW who, StartBattle(who, q, rec),
         q \in Calm' =>
           Submitted(q, rec, quest) /\ ~Fighting(q) /\ Settled1(q)' /\ redTeamPending'[q] = None,
         DOMAIN redTeamPending' = Quests,
         \A p \in Quests : p # q => redTeamPending'[p] = redTeamPending[p],
         UNCHANGED <<quest, part, call>>, DOMAIN questCache' = Quests, SweptShape',
         Feed(battleFeed'), \A i \in 1 .. Len(battleFeed') : battleFeed'[i].key \in Quests,
         \A p \in Calm' : QuestSound(p)' /\ (Settled1(p) => Settled1(p)')
  PROVE  BattleInv'
<1> DEFINE m == [pc |-> "evaluating", quest |-> q, copy |-> rec, nodes |-> {}]
<1>0. \A p \in Calm' : p \in Calm /\ p \in Quests
  BY CalmShrinks DEF Calm
<1>1. PICK b \in Battles : battle[b].pc = "none" /\ battle' = [battle EXCEPT ![b] = m]
  BY DEF StartBattle
<1>2. m.pc = "evaluating" /\ m.quest = q /\ FightSound(m, quest, part, Calm')
  BY DEF FightSound, FightFields, Submitted, Sound
<1> HIDE DEF m
<1>3. /\ DOMAIN battle' = Battles /\ battle'[b] = m
      /\ \A c \in Battles : c # b => battle'[c] = battle[c]
  BY <1>1 DEF BattleInv, BattleShape
<1>4. \A p \in Quests : Fighting(p)' => Fighting(p) \/ p = q
  BY <1>2, <1>3 DEF Fighting
<1>5. BattleShape'
  BY <1>3 DEF BattleInv, BattleShape
<1>6. OneBattle'
  <2> SUFFICES ASSUME NEW c \in Battles, NEW d \in Battles,
                      battle'[c].pc # "none", battle'[d].pc # "none",
                      battle'[c].quest = battle'[d].quest, battle'[c].quest \notin disturbed',
                      c # d
               PROVE  FALSE
    BY DEF OneBattle
  <2>1. CASE c # b /\ d # b
    BY <1>3, <2>1 DEF BattleInv, OneBattle, Growing
  <2>2. CASE c = b \/ d = b
    BY <1>2, <1>3, <2>2 DEF Fighting, Calm
  <2> QED  BY <2>1, <2>2
<1>7. \A p \in Calm' : Active(p)' => Settled1(p)'
  BY <1>0, <1>4 DEF Active, BattleInv, Battling
<1>8. ASSUME NEW p \in Calm', redTeamPending'[p] # None
      PROVE  ~Fighting(p)' /\ Submitted(p, redTeamPending'[p], quest')
  BY <1>0, <1>4, <1>8 DEF BattleInv, Battling
<1>9. \A c \in Battles : FightSound(battle'[c], quest', part', Calm')
  BY <1>0, <1>2, <1>3 DEF BattleInv, Battling, FightSound
<1>10. Battling'
  BY <1>7, <1>8, <1>9 DEF Battling
<1>11. LinkSound'
  BY <1>0 DEF BattleInv, LinkSound
<1> QED  BY <1>5, <1>6, <1>10, <1>11 DEF BattleInv

\* bossbattle's watch: the red team's signal, and every other entry.
LEMMA SignalSeenKeeps ==
  ASSUME BattleInv, Growing, WatchSignal, UNCHANGED call
  PROVE  BattleInv'
<1> SUFFICES ASSUME NEW q, NEW rec, q = Head(battleFeed).key, rec = Head(battleFeed).rec
             PROVE  BattleInv'
  OBVIOUS
<1>0. \A p \in Calm' : p \in Calm
  BY CalmShrinks
<1>1. /\ battleFeed # <<>> /\ rec.status = "in_review" /\ redTeamPending[q] # None
      /\ redTeamPending' = [redTeamPending EXCEPT ![q] = None]
      /\ StartBattle("watcher", q, quest[q])
      /\ battleFeed' = Tail(battleFeed)
      /\ UNCHANGED <<quest, part, questCache, swept>>
  BY DEF WatchSignal, Watching
<1>2. q \in Quests
  BY <1>1, FeedShorter DEF BattleInv, BattleShape
<1>3. q \in Calm => Settled1(q) /\ ~Fighting(q)
  BY <1>1, <1>2 DEF BattleInv, Battling, Active
<1>4. q \in Calm => questCache[q] = "in_review"
  <2>1. 0 \in Puts(battleFeed, q)
    BY <1>1, FeedShorter DEF Puts, BattleInv, BattleShape
  <2> QED  BY <1>3, <2>1 DEF Settled1, Settling, Known
<1>5. /\ q \in Calm => questCache'[q] = rec.status
      /\ \A p \in Quests : p # q => questCache'[p] = questCache[p]
  BY <1>1, <1>4
<1>6. /\ Feed(battleFeed') /\ \A i \in 1 .. Len(battleFeed') : battleFeed'[i].key \in Quests
      /\ \A p \in Calm : QuestSound(p)' /\ (Settled1(p) => Settled1(p)')
  BY <1>1, <1>5, DeliverKeeps
<1>7. q \in Calm => Submitted(q, quest[q], quest)
  BY <1>2, <1>3 DEF BattleInv, QuestSound, Settled1, Settling, Submitted
<1>8. /\ redTeamPending'[q] = None /\ DOMAIN redTeamPending' = Quests
      /\ \A p \in Quests : p # q => redTeamPending'[p] = redTeamPending[p]
      /\ DOMAIN questCache' = Quests /\ UNCHANGED <<quest, part, call>> /\ SweptShape'
  BY <1>1, <1>2 DEF BattleInv, BattleShape, SweptShape
<1>9. PICK r : /\ q \in Calm => Submitted(q, r, quest)
               /\ StartBattle("watcher", q, r)
  BY <1>1, <1>7
<1>10. q \in Calm' => Submitted(q, r, quest) /\ ~Fighting(q) /\ Settled1(q)'
  BY <1>0, <1>3, <1>6, <1>9
<1> QED  BY <1>0, <1>2, <1>6, <1>8, <1>9, <1>10, StartKeeps

LEMMA StatusSeenKeeps ==
  ASSUME BattleInv, Growing, WatchStatus, UNCHANGED call
  PROVE  BattleInv'
<1> SUFFICES ASSUME NEW q, NEW rec, q = Head(battleFeed).key, rec = Head(battleFeed).rec
             PROVE  BattleInv'
  OBVIOUS
<1>0. \A p \in Calm' : p \in Calm /\ p \in Quests
  BY CalmShrinks DEF Calm
<1>1. /\ battleFeed # <<>>
      /\ questCache' = [questCache EXCEPT ![q] = rec.status]
      /\ battleFeed' = Tail(battleFeed)
      /\ UNCHANGED <<quest, part, swept>>
      /\ \/ UNCHANGED <<redTeamPending, battle>>
         \/ /\ questCache[q] # "in_review" /\ rec.status = "in_review"
            /\ redTeamPending' = [redTeamPending EXCEPT ![q] = rec]
            /\ UNCHANGED battle
         \/ /\ questCache[q] # "in_review" /\ rec.status = "in_review"
            /\ StartBattle("watcher", q, rec)
            /\ UNCHANGED redTeamPending
  BY DEF WatchStatus, Watching, Entered
<1>2. q \in Quests
  BY <1>1, FeedShorter DEF BattleInv, BattleShape
<1>3. /\ questCache'[q] = rec.status /\ DOMAIN questCache' = Quests
      /\ \A p \in Quests : p # q => questCache'[p] = questCache[p]
  BY <1>1, <1>2 DEF BattleInv, BattleShape
<1>4. /\ Feed(battleFeed') /\ \A i \in 1 .. Len(battleFeed') : battleFeed'[i].key \in Quests
      /\ \A p \in Calm : QuestSound(p)' /\ (Settled1(p) => Settled1(p)')
      /\ q \in Calm =>
           /\ Sound(q, rec)
           /\ Settled1(q) => questCache[q] = "in_review"
           /\ questCache[q] # "in_review" /\ rec.status = "in_review" =>
                Settled1(q)' /\ rec.attempts = quest[q].attempts
  BY <1>1, <1>3, DeliverKeeps
<1>5. q \in Calm /\ questCache[q] # "in_review" =>
        ~Active(q) /\ ~Fighting(q) /\ redTeamPending[q] = None
  BY <1>2, <1>4 DEF BattleInv, Battling, Active
<1>6. q \in Calm /\ questCache[q] # "in_review" /\ rec.status = "in_review" =>
        Submitted(q, rec, quest) /\ Settled1(q)'
  BY <1>4 DEF Submitted
<1>7. SweptShape'
  BY <1>1 DEF BattleInv, BattleShape, SweptShape
<1>8. CASE UNCHANGED <<redTeamPending, battle>>
  <2>1. BattleShape' /\ OneBattle'
    BY <1>1, <1>3, <1>4, <1>7, <1>8 DEF BattleInv, BattleShape, OneBattle, Growing
  <2>2. \A p \in Calm' : QuestSound(p)' /\ (Settled1(p) => Settled1(p)')
    BY <1>0, <1>4
  <2>3. \A p \in Quests : (Fighting(p)' <=> Fighting(p)) /\ (Active(p)' <=> Active(p))
    BY <1>8 DEF Active, Fighting
  <2>4. \A b \in Battles : FightSound(battle'[b], quest', part', Calm')
    BY <1>0, <1>1, <1>8 DEF BattleInv, Battling, FightSound
  <2>5. Battling'
    BY <1>0, <1>1, <1>8, <2>2, <2>3, <2>4 DEF BattleInv, Battling
  <2>6. LinkSound'
    BY <1>0 DEF BattleInv, LinkSound
  <2> QED  BY <2>1, <2>2, <2>5, <2>6 DEF BattleInv
<1>9. CASE /\ questCache[q] # "in_review" /\ rec.status = "in_review"
           /\ redTeamPending' = [redTeamPending EXCEPT ![q] = rec]
           /\ UNCHANGED battle
  <2>1. BattleShape' /\ OneBattle'
    BY <1>1, <1>3, <1>4, <1>7, <1>9 DEF BattleInv, BattleShape, OneBattle, Growing
  <2>2. /\ redTeamPending'[q] = rec
        /\ \A p \in Quests : p # q => redTeamPending'[p] = redTeamPending[p]
    BY <1>2, <1>9 DEF BattleInv, BattleShape
  <2>3. \A p \in Quests : (Fighting(p)' <=> Fighting(p)) /\ (Active(p)' => Active(p) \/ p = q)
    BY <1>9, <2>2 DEF Active, Fighting
  <2>4. \A p \in Calm' : QuestSound(p)' /\ (Active(p)' => Settled1(p)')
    BY <1>0, <1>4, <1>6, <1>9, <2>3 DEF BattleInv, Battling
  <2>5. ASSUME NEW p \in Calm', redTeamPending'[p] # None
        PROVE  ~Fighting(p)' /\ Submitted(p, redTeamPending'[p], quest')
    BY <1>0, <1>1, <1>5, <1>6, <1>9, <2>2, <2>3, <2>5 DEF BattleInv, Battling
  <2>6. \A b \in Battles : FightSound(battle'[b], quest', part', Calm')
    BY <1>0, <1>1, <1>9 DEF BattleInv, Battling, FightSound
  <2>7. Battling'
    BY <2>4, <2>5, <2>6 DEF Battling
  <2>8. LinkSound'
    BY <1>0 DEF BattleInv, LinkSound
  <2> QED  BY <2>1, <2>4, <2>7, <2>8 DEF BattleInv
<1>10. CASE /\ questCache[q] # "in_review" /\ rec.status = "in_review"
            /\ StartBattle("watcher", q, rec)
            /\ UNCHANGED redTeamPending
  <2>1. /\ DOMAIN redTeamPending' = Quests
        /\ \A p \in Quests : p # q => redTeamPending'[p] = redTeamPending[p]
        /\ UNCHANGED <<quest, part, call>>
    BY <1>1, <1>10 DEF BattleInv, BattleShape
  <2>2. q \in Calm' =>
          Submitted(q, rec, quest) /\ ~Fighting(q) /\ Settled1(q)' /\ redTeamPending'[q] = None
    BY <1>0, <1>5, <1>6, <1>10
  <2> QED  BY <1>0, <1>2, <1>3, <1>4, <1>7, <1>10, <2>1, <2>2, StartKeeps
<1> QED  BY <1>1, <1>8, <1>9, <1>10

-----------------------------------------------------------------------------
(* What a battle does by itself, and the safety sweep.                     *)

LEMMA ElsewhereKeeps ==
  ASSUME BattleInv, Growing, LinkSound', SweptShape',
         UNCHANGED <<quest, part, battleFeed, questCache, redTeamPending, battle>>
  PROVE  BattleInv'
<1>0. \A p \in Calm' : p \in Calm /\ p \in Quests
  BY CalmShrinks DEF Calm
<1>1. BattleShape' /\ OneBattle'
  BY DEF BattleInv, BattleShape, OneBattle, Growing
<1>2. \A p \in Calm' : QuestSound(p)' /\ (Settled1(p) => Settled1(p)')
  BY <1>0 DEF BattleInv, QuestSound, Settled1
<1>3. \A p \in Quests : (Fighting(p)' <=> Fighting(p)) /\ (Active(p)' <=> Active(p))
  BY DEF Active, Fighting
<1>4. \A b \in Battles : FightSound(battle'[b], quest', part', Calm')
  BY <1>0 DEF BattleInv, Battling, FightSound
<1>5. Battling'
  BY <1>0, <1>2, <1>3, <1>4 DEF BattleInv, Battling
<1> QED  BY <1>1, <1>2, <1>5 DEF BattleInv

LEMMA LinkUntouched ==
  ASSUME BattleInv, Growing, call'["watch"].pc = "link" => call'["watch"] = call["watch"]
  PROVE  LinkSound'
BY CalmShrinks DEF BattleInv, LinkSound

LEMMA SweptUntouched == ASSUME BattleInv, UNCHANGED swept PROVE SweptShape'
BY DEF BattleInv, BattleShape, SweptShape

\* The sweep starts a battle over what still waits, or the quest is disturbed.
LEMMA SweepKeeps ==
  ASSUME BattleInv, disturbed' = disturbed \cup SweptTwice, SweepStart, UNCHANGED call
  PROVE  BattleInv'
<1>1. PICK q \in Quests : q = swept.quest
  BY DEF SweepStart, BattleInv, BattleShape, SweptShape
<1>2. PICK rec : rec = swept.copy
  OBVIOUS
<1>0. /\ swept # None /\ swept' = None /\ rec # None
      /\ redTeamPending' = [redTeamPending EXCEPT ![q] = None]
      /\ StartBattle("sweeper", q, rec)
      /\ UNCHANGED <<quest, part, battleFeed, questCache>>
  BY <1>1, <1>2 DEF SweepStart, storeVars, BattleInv, BattleShape, SweptShape
<1>3. Growing
  BY DEF Growing
<1>4. \A p \in Calm' : p \in Calm
  BY <1>3, CalmShrinks
<1>5. q \in Calm' => redTeamPending[q] = rec
  BY <1>0, <1>1, <1>2 DEF Calm, SweptTwice
<1>6. q \in Calm' => Submitted(q, rec, quest) /\ ~Fighting(q) /\ Settled1(q)
  BY <1>0, <1>4, <1>5 DEF BattleInv, Battling, Active
<1>7. \A p \in Calm' : QuestSound(p)' /\ (Settled1(p) => Settled1(p)')
  BY <1>0, <1>4 DEF BattleInv, QuestSound, Settled1
<1>8. /\ redTeamPending'[q] = None /\ DOMAIN redTeamPending' = Quests
      /\ \A p \in Quests : p # q => redTeamPending'[p] = redTeamPending[p]
      /\ DOMAIN questCache' = Quests /\ SweptShape'
      /\ Feed(battleFeed') /\ \A i \in 1 .. Len(battleFeed') : battleFeed'[i].key \in Quests
  BY <1>0 DEF BattleInv, BattleShape, SweptShape
<1>9. q \in Calm' =>
        Submitted(q, rec, quest) /\ ~Fighting(q) /\ Settled1(q)' /\ redTeamPending'[q] = None
  BY <1>6, <1>7, <1>8
<1> QED  BY <1>0, <1>3, <1>7, <1>8, <1>9, StartKeeps

\* What a battle does by itself.
LEMMA FightGoesOn ==
  ASSUME BattleInv, Growing, NEW b \in Battles, BattleStep(b), UNCHANGED call
  PROVE  BattleInv'
<1> SUFFICES ASSUME NEW f, f = battle[b] PROVE BattleInv'
  OBVIOUS
<1>1. FightSound(f, quest, part, Calm) /\ battle[b] = f
  BY DEF BattleInv, Battling
<1>2. DOMAIN part = SubQuests
  BY DEF BattleInv, BattleShape
<1>3. CASE Victory(b)
  <2> DEFINE m == [f EXCEPT !.pc = "put", !.copy.status = "completed"]
  <2>1. /\ f.pc = "evaluating" /\ battle' = [battle EXCEPT ![b] = m]
        /\ UNCHANGED <<quest, battleFeed, questCache, redTeamPending, swept, part>>
    BY <1>3 DEF Victory, storeVars
  <2>2. m.pc = "put" /\ m.quest = f.quest /\ DOMAIN m = FightFields
    BY <1>1 DEF FightSound, FightFields
  <2>3. m.copy = [f.copy EXCEPT !.status = "completed"]
    BY <1>1 DEF FightSound, FightFields
  <2>4. f.quest \in Calm => DOMAIN m.copy = QuestFields /\ m.copy.status = "completed"
    BY <1>1, <2>1, <2>3 DEF FightSound, QuestFields
  <2> HIDE DEF m
  <2>5. FightSound(m, quest, part', Calm)
    BY <1>1, <2>1, <2>2, <2>4 DEF FightSound
  <2> QED  BY <1>1, <1>2, <2>1, <2>2, <2>5, FightKeeps
<1>4. CASE Defeat(b)
  <2> DEFINE rec == f.copy
             nodes == IF rec.dag THEN NodesOf[f.quest] ELSE {}
             m1 == [f EXCEPT !.pc = "release", !.nodes = nodes, !.copy.attempts = rec.attempts + 1]
             m2 == [f EXCEPT !.pc = "nodes", !.nodes = nodes, !.copy.status = "failed"]
  <2>1. /\ f.pc = "evaluating"
        /\ battle' = [battle EXCEPT ![b] = m1] \/ battle' = [battle EXCEPT ![b] = m2]
        /\ UNCHANGED <<quest, battleFeed, questCache, redTeamPending, swept, part>>
    BY <1>1, <1>4 DEF Defeat, storeVars
  <2>2. f.quest \in Calm => nodes = NodesOf[f.quest]
    BY <1>1, <2>1 DEF FightSound, Submitted, Sound
  <2> HIDE DEF nodes
  <2>3. m1.pc = "release" /\ m1.quest = f.quest /\ m1.nodes = nodes /\ DOMAIN m1 = FightFields
    BY <1>1 DEF FightSound, FightFields
  <2>4. m2.pc = "nodes" /\ m2.quest = f.quest /\ m2.nodes = nodes /\ DOMAIN m2 = FightFields
    BY <1>1 DEF FightSound, FightFields
  <2>5. f.quest \in Calm => DOMAIN m1.copy = QuestFields
    <3>1. m1.copy = [f.copy EXCEPT !.attempts = rec.attempts + 1]
      BY <1>1 DEF FightSound, FightFields
    <3> QED  BY <1>1, <2>1, <3>1 DEF FightSound, QuestFields
  <2>6. f.quest \in Calm => DOMAIN m2.copy = QuestFields /\ m2.copy.status = "failed"
    <3>1. m2.copy = [f.copy EXCEPT !.status = "failed"]
      BY <1>1 DEF FightSound, FightFields
    <3> QED  BY <1>1, <2>1, <3>1 DEF FightSound, QuestFields
  <2> HIDE DEF m1, m2
  <2>7. FightSound(m1, quest, part', Calm)
    BY <1>1, <2>1, <2>2, <2>3, <2>5 DEF FightSound
  <2>8. FightSound(m2, quest, part', Calm)
    BY <1>1, <2>1, <2>2, <2>4, <2>6 DEF FightSound
  <2> QED  BY <1>1, <1>2, <2>1, <2>3, <2>4, <2>7, <2>8, FightKeeps
<1>5. CASE AwaitHuman(b)
  <2>1. /\ battle' = [battle EXCEPT ![b] = NoBattle]
        /\ UNCHANGED <<quest, battleFeed, questCache, redTeamPending, swept, part>>
    BY <1>5 DEF AwaitHuman, storeVars
  <2>2. NoBattle.pc = "none" /\ FightSound(NoBattle, quest, part', Calm)
    BY DEF NoBattle, FightSound, FightFields
  <2> QED  BY <1>2, <2>1, <2>2, FightKeeps
<1>6. CASE ReleaseFighter(b)
  <2> DEFINE c == [f.copy EXCEPT !.status = "posted", !.claimedBy = None, !.dag = FALSE]
             m == [f EXCEPT !.pc = "nodes", !.copy = c]
  <2>1. /\ f.pc = "release" /\ battle' = [battle EXCEPT ![b] = m]
        /\ UNCHANGED <<quest, battleFeed, questCache, redTeamPending, swept, part>>
    BY <1>6 DEF ReleaseFighter
  <2>2. f.quest \in Calm => DOMAIN c = QuestFields /\ c.status = "posted"
    BY <1>1, <2>1 DEF FightSound, QuestFields
  <2> HIDE DEF c
  <2>3. m.pc = "nodes" /\ m.quest = f.quest /\ DOMAIN m = FightFields /\ m.copy = c
        /\ m.nodes = f.nodes
    BY <1>1 DEF FightSound, FightFields
  <2> HIDE DEF m
  <2>4. FightSound(m, quest, part', Calm)
    BY <1>1, <2>1, <2>2, <2>3 DEF FightSound
  <2> QED  BY <1>1, <1>2, <2>1, <2>3, <2>4, FightKeeps
<1>7. CASE FailNode(b)
  <2>1. PICK s \in f.nodes : /\ part' = [part EXCEPT ![s] = "failed"]
                             /\ battle' = [battle EXCEPT ![b].nodes = @ \ {s}]
    BY <1>7 DEF FailNode
  <2> DEFINE m == [f EXCEPT !.nodes = f.nodes \ {s}]
  <2>2. /\ f.pc = "nodes" /\ battle' = [battle EXCEPT ![b] = m]
        /\ UNCHANGED <<quest, battleFeed, questCache, redTeamPending, swept>>
    BY <1>7, <2>1 DEF FailNode
  <2>3. m.pc = "nodes" /\ m.quest = f.quest /\ DOMAIN m = FightFields /\ m.copy = f.copy
        /\ m.nodes = f.nodes \ {s}
    BY <1>1, <2>2 DEF FightSound, FightFields
  <2> HIDE DEF m
  <2>4. /\ DOMAIN part' = SubQuests
        /\ \A t \in SubQuests : part'[t] = IF t = s THEN "failed" ELSE part[t]
    BY <1>2, <2>1
  <2>5. \A t \in NodesOf[f.quest] : t \in SubQuests
    BY <1>1, <2>2 DEF FightSound, SubQuests
  <2>6. FightSound(m, quest, part', Calm)
    BY <1>1, <2>2, <2>3, <2>4, <2>5 DEF FightSound
  <2> QED  BY <1>1, <1>2, <2>2, <2>3, <2>4, <2>6, FightKeeps
<1>8. CASE PutVerdict(b)
  BY <1>8, VerdictKeeps
<1> QED  BY <1>3, <1>4, <1>5, <1>6, <1>7, <1>8 DEF BattleStep

LEMMA BossStepBattles ==
  ASSUME BattleInv, BossStep, disturbed' = disturbed \cup SweptTwice, UNCHANGED call
  PROVE  BattleInv'
<1>0. Growing /\ LinkSound'
  BY LinkUntouched DEF Growing
<1>1. CASE WatchSignal \/ WatchStatus
  BY <1>0, <1>1, SignalSeenKeeps, StatusSeenKeeps
<1>2. CASE SweepStart
  BY <1>2, SweepKeeps
<1>3. ASSUME NEW q \in Quests, SweepRead(q) PROVE BattleInv'
  <2>1. /\ UNCHANGED <<quest, part, battleFeed, questCache, redTeamPending, battle>>
        /\ swept' = [quest |-> q, copy |-> redTeamPending[q]] /\ redTeamPending[q] # None
    BY <1>3 DEF SweepRead, storeVars
  <2>2. SweptShape'
    BY <2>1 DEF SweptShape
  <2> QED  BY <1>0, <2>1, <2>2, ElsewhereKeeps
<1>4. CASE \E s \in Starters : MarkAgent(s)
  <2>1. UNCHANGED <<quest, part, battleFeed, questCache, redTeamPending, swept, battle>>
    BY <1>4 DEF MarkAgent
  <2> QED  BY <1>0, <2>1, SweptUntouched, ElsewhereKeeps
<1>5. CASE \E b \in Battles : BattleStep(b)
  BY <1>0, <1>5, FightGoesOn
<1> QED  BY <1>1, <1>2, <1>3, <1>4, <1>5 DEF BossStep

-----------------------------------------------------------------------------
(* Whom the red team writes to.                                            *)

OfPosted ==
  \A i \in 1 .. Len(redteamFeed), r \in Reviews : redteamFeed[i].key = r => Posted(r)
Targeted == \A r \in Reviews : Posted(r) => review[r].target \in Quests
Addressed == \A w \in Writers : call[w].pc \in {"fail", "read", "cas"} => call[w].quest \in Quests

RedShape == Feed(redteamFeed) /\ OfPosted /\ Targeted /\ Addressed

LEMMA NextIndex ==
  ASSUME NEW n \in Nat \ {0}, NEW m, m = n - 1, NEW i \in 1 .. m
  PROVE  i + 1 \in 1 .. n
OBVIOUS

\* The watch of the red team takes an entry, and one is put.
LEMMA RedFeedKeeps ==
  ASSUME Feed(redteamFeed), OfPosted, \A r \in Reviews : Posted(r) => Posted(r)',
         NEW base, base = redteamFeed \/ (redteamFeed # <<>> /\ base = Tail(redteamFeed)),
         \/ redteamFeed' = base
         \/ \E e : /\ redteamFeed' = Append(base, e)
                   /\ \A r \in Reviews : e.key = r => Posted(r)'
  PROVE  Feed(redteamFeed') /\ OfPosted'
<1>1. /\ Feed(base)
      /\ \A i \in 1 .. Len(base), r \in Reviews : base[i].key = r => Posted(r)'
  <2>1. CASE base = redteamFeed
    BY <2>1 DEF OfPosted
  <2>2. CASE redteamFeed # <<>> /\ base = Tail(redteamFeed)
    <3>1. /\ Feed(base) /\ Len(redteamFeed) \in Nat \ {0} /\ Len(base) = Len(redteamFeed) - 1
          /\ \A i \in 1 .. Len(base) : base[i] = redteamFeed[i + 1]
      BY <2>2, FeedShorter
    <3>2. ASSUME NEW i \in 1 .. Len(base) PROVE i + 1 \in 1 .. Len(redteamFeed)
      BY <3>1, NextIndex
    <3> QED  BY <3>1, <3>2 DEF OfPosted
  <2> QED  BY <2>1, <2>2
<1>2. CASE redteamFeed' = base
  BY <1>1, <1>2 DEF OfPosted
<1>3. ASSUME NEW e, redteamFeed' = Append(base, e), \A r \in Reviews : e.key = r => Posted(r)'
      PROVE  Feed(redteamFeed') /\ OfPosted'
  <2>1. /\ Feed(redteamFeed') /\ Len(base) \in Nat /\ Len(redteamFeed') = Len(base) + 1
        /\ \A i \in 1 .. Len(base) : redteamFeed'[i] = base[i]
        /\ redteamFeed'[Len(base) + 1] = e
    BY <1>1, <1>3, FeedLonger
  <2>2. \A i \in 1 .. Len(redteamFeed') : i \in 1 .. Len(base) \/ i = Len(base) + 1
    BY <2>1
  <2> QED  BY <1>1, <1>3, <2>1, <2>2 DEF OfPosted
<1> QED  BY <1>2, <1>3

\* Steps that leave the red-team quests alone.
LEMMA QuestsOnlyShape ==
  ASSUME RedShape, UNCHANGED review, Addressed',
         NEW base, base = redteamFeed \/ (redteamFeed # <<>> /\ base = Tail(redteamFeed)),
         \/ redteamFeed' = base
         \/ \E e : redteamFeed' = Append(base, e) /\ e.key \in Quests
  PROVE  RedShape'
<1>1. \A r \in Reviews : Posted(r) => Posted(r)'
  BY DEF Posted
<1>2. Targeted'
  BY DEF RedShape, Targeted, Posted
<1>3. \A r \in Reviews : r \notin Quests
  BY StoreAssumption
<1> QED  BY <1>1, <1>2, <1>3, RedFeedKeeps DEF RedShape

\* A put of a red-team quest.
LEMMA ReviewPutShape ==
  ASSUME IInv, RedShape, Addressed', NEW r \in Reviews, NEW rec,
         NEW base, base = redteamFeed \/ (redteamFeed # <<>> /\ base = Tail(redteamFeed)),
         EmitReview(r, rec, base), rec.status # "unposted", rec.target \in Quests
  PROVE  RedShape'
<1>1. /\ review' = [review EXCEPT ![r] = rec]
      /\ redteamFeed' = Append(base, [key |-> r, status |-> rec.status])
  BY DEF EmitReview
<1>2. \A s \in Reviews : review'[s] = IF s = r THEN rec ELSE review[s]
  BY <1>1 DEF IInv, Shape
<1>3. (\A s \in Reviews : Posted(s) => Posted(s)') /\ Posted(r)'
  BY <1>2 DEF Posted
<1>4. Targeted'
  BY <1>2 DEF RedShape, Targeted, Posted
<1> DEFINE e == [key |-> r, status |-> rec.status]
<1>5. \A s \in Reviews : e.key = s => Posted(s)'
  BY <1>3
<1>6. redteamFeed' = Append(base, e)
  BY <1>1
<1> HIDE DEF e
<1> QED  BY <1>3, <1>4, <1>5, <1>6, RedFeedKeeps DEF RedShape

\* The same where the watch takes nothing.
LEMMA QuestPutShape ==
  ASSUME RedShape, UNCHANGED review, Addressed',
         UNCHANGED redteamFeed \/ \E e : redteamFeed' = Append(redteamFeed, e) /\ e.key \in Quests
  PROVE  RedShape'
<1>1. PICK base : base = redteamFeed
  OBVIOUS
<1>2. redteamFeed' = base \/ \E e : redteamFeed' = Append(base, e) /\ e.key \in Quests
  BY <1>1
<1>3. base = redteamFeed \/ (redteamFeed # <<>> /\ base = Tail(redteamFeed))
  BY <1>1
<1> QED  BY <1>2, <1>3, QuestsOnlyShape

LEMMA ReviewPutAlone ==
  ASSUME IInv, RedShape, Addressed', NEW r \in Reviews, NEW rec,
         EmitReview(r, rec, redteamFeed), rec.status # "unposted", rec.target \in Quests
  PROVE  RedShape'
<1>1. PICK base : base = redteamFeed
  OBVIOUS
<1>2. EmitReview(r, rec, base)
  BY <1>1
<1>3. base = redteamFeed \/ (redteamFeed # <<>> /\ base = Tail(redteamFeed))
  BY <1>1
<1> QED  BY <1>2, <1>3, ReviewPutShape

BInv == IInv /\ RedShape /\ BattleInv

LEMMA AddressedPut ==
  ASSUME IInv, RedShape, NEW w \in Writers, NEW c, call' = [call EXCEPT ![w] = c],
         c.pc \in {"fail", "read", "cas"} => c.quest \in Quests
  PROVE  Addressed'
BY DEF IInv, Shape, RedShape, Addressed

LEMMA AddressedKept == ASSUME RedShape, UNCHANGED call PROVE Addressed'
BY DEF RedShape, Addressed

LEMMA SignallingFields ==
  ASSUME NEW q, NEW o
  PROVE  Signalling(q, o).pc = "read" /\ Signalling(q, o).quest = q
BY DEF Signalling, NoCall

LEMMA RedStepShape ==
  ASSUME BInv, RedStep
  PROVE  RedShape'
<1> USE DEF BInv, Writers
<1>0. NoCall.pc = "idle"
  BY DEF NoCall
<1>1. CASE PostReview
  <2> DEFINE unposted == {k \in Reviews : review[k].status = "unposted"}
  <2>1. PICK q \in Quests, r \in Reviews :
          /\ EmitReview(r, [status |-> "posted", attempts |-> 0, target |-> q], Tail(redteamFeed))
          /\ call' = [call EXCEPT !["watch"] =
                        [NoCall EXCEPT !.pc = "link", !.quest = q, !.review = r, !.copy = quest[q]]]
          /\ redteamFeed # <<>>
    BY <1>1 DEF PostReview, Receive
  <2>2. Addressed'
    <3> DEFINE c == [NoCall EXCEPT !.pc = "link", !.quest = q, !.review = r, !.copy = quest[q]]
    <3>1. c.pc = "link"
      BY DEF NoCall
    <3> HIDE DEF c
    <3> QED  BY <2>1, <3>1, AddressedPut DEF c
  <2> DEFINE rec == [status |-> "posted", attempts |-> 0, target |-> q]
  <2>3. rec.status # "unposted" /\ rec.target \in Quests
    OBVIOUS
  <2>4. EmitReview(r, rec, Tail(redteamFeed)) /\ redteamFeed # <<>>
    BY <2>1
  <2> HIDE DEF rec
  <2> QED  BY <2>2, <2>3, <2>4, ReviewPutShape
<1>2. CASE SkipReview
  <2>1. /\ redteamFeed # <<>> /\ redteamFeed' = Tail(redteamFeed) /\ UNCHANGED review
        /\ call' = [call EXCEPT !["watch"] = Signalling(Head(redteamFeed).key, "skipped")]
        /\ Head(redteamFeed).key \in Quests
    BY <1>2 DEF SkipReview, Receive
  <2>2. Addressed'
    BY <2>1, SignallingFields, AddressedPut
  <2> QED  BY <2>1, <2>2, QuestsOnlyShape
<1>3. CASE LinkReview
  <2> DEFINE q == call["watch"].quest
             rec == [call["watch"].copy EXCEPT !.rtQuest = call["watch"].review]
  <2>1. /\ call["watch"].pc = "link" /\ UNCHANGED review
        /\ redteamFeed' = Append(redteamFeed, [key |-> q, status |-> rec.status])
        /\ call' = [call EXCEPT !["watch"] = NoCall]
    BY <1>3 DEF LinkReview, EmitEntityUpdate, Emit
  <2>2. q \in Quests
    BY <2>1 DEF IInv, LinkIsPosted
  <2>3. Addressed'
    BY <1>0, <2>1, AddressedPut
  <2>4. \E e : redteamFeed' = Append(redteamFeed, e) /\ e.key \in Quests
    <3> DEFINE e == [key |-> q, status |-> rec.status]
    <3>1. e.key = q
      OBVIOUS
    <3> HIDE DEF e, q
    <3> QED  BY <2>1, <2>2, <3>1 DEF e, q
  <2> QED  BY <2>1, <2>3, <2>4, QuestPutShape
<1>4. CASE ReviewFinished
  <2> DEFINE k == Head(redteamFeed).key
  <2>1. /\ redteamFeed # <<>> /\ redteamFeed' = Tail(redteamFeed) /\ UNCHANGED review
        /\ k \in Reviews
        /\ \E o : call' = [call EXCEPT !["watch"] = Signalling(review[k].target, o)]
    BY <1>4 DEF ReviewFinished, Receive
  <2>2. 1 \in 1 .. Len(redteamFeed) /\ k = redteamFeed[1].key
    BY <2>1, FeedShorter DEF RedShape
  <2>3. review[k].target \in Quests
    BY <2>1, <2>2 DEF RedShape, OfPosted, Targeted
  <2>4. Addressed'
    BY <2>1, <2>3, SignallingFields, AddressedPut
  <2> QED  BY <2>1, <2>4, QuestsOnlyShape
<1>5. CASE IgnoreEntry
  <2>1. /\ redteamFeed # <<>> /\ redteamFeed' = Tail(redteamFeed) /\ UNCHANGED <<review, call>>
    BY <1>5 DEF IgnoreEntry, Receive
  <2> QED  BY <2>1, AddressedKept, QuestsOnlyShape
<1>6. ASSUME NEW r \in Reviews, Timeout(r) PROVE RedShape'
  <2> DEFINE q == review[r].target
             c == [NoCall EXCEPT !.pc = "fail", !.quest = q, !.outcome = "skipped"]
  <2>1. /\ r \in timers /\ UNCHANGED <<review, redteamFeed>>
        /\ call' = call \/ call' = [call EXCEPT ![r] = c]
    BY <1>6 DEF Timeout, storeVars
  <2>2. q \in Quests
    BY <2>1 DEF IInv, TimedArePosted, RedShape, Targeted
  <2>3. c.quest = q
    BY DEF NoCall
  <2> HIDE DEF c
  <2>4. Addressed'
    BY <2>1, <2>2, <2>3, AddressedPut, AddressedKept
  <2> QED  BY <2>1, <2>4, QuestPutShape
<1>7. ASSUME NEW r \in Reviews, FailReview(r) PROVE RedShape'
  <2> DEFINE c == [call[r] EXCEPT !.pc = "read"]
  <2>1. /\ call[r].pc = "fail" /\ call' = [call EXCEPT ![r] = c]
        /\ \/ /\ review[r].status = "in_progress"
              /\ EmitReview(r, FailedReview(r), redteamFeed)
           \/ UNCHANGED <<review, redteamFeed>>
    BY <1>7 DEF FailReview
  <2>2. c.quest = call[r].quest /\ call[r].quest \in Quests
    BY <2>1 DEF RedShape, Addressed
  <2> HIDE DEF c
  <2>3. Addressed'
    BY <2>1, <2>2, AddressedPut
  <2>4. CASE review[r].status = "in_progress" /\ EmitReview(r, FailedReview(r), redteamFeed)
    <3>1. Posted(r) /\ review[r] \in ReviewRec
      BY <2>4 DEF Posted, IInv, Shape
    <3>2. FailedReview(r).status # "unposted" /\ FailedReview(r).target \in Quests
      BY <3>1, FailedReviewKeeps DEF RedShape, Targeted
    <3> QED  BY <2>3, <2>4, <3>2, ReviewPutAlone
  <2> QED  BY <2>1, <2>3, <2>4, QuestPutShape
<1>8. ASSUME NEW w \in Writers, SignalRead(w) PROVE RedShape'
  <2> DEFINE c == [call[w] EXCEPT !.pc = "cas", !.copy = quest[call[w].quest]]
  <2>1. /\ call[w].pc = "read" /\ call' = [call EXCEPT ![w] = c]
        /\ UNCHANGED <<review, redteamFeed>>
    BY <1>8 DEF SignalRead, storeVars, IInv, Shape
  <2>2. c.quest = call[w].quest /\ call[w].quest \in Quests
    BY <2>1 DEF RedShape, Addressed
  <2> HIDE DEF c
  <2>3. Addressed'
    BY <2>1, <2>2, AddressedPut
  <2> QED  BY <2>1, <2>3, QuestPutShape
<1>9. ASSUME NEW w \in Writers, SignalPut(w) PROVE RedShape'
  <2> DEFINE d == [call[w] EXCEPT !.pc = "read", !.copy = None, !.tries = @ + 1]
             q == call[w].quest
  <2>1. /\ call[w].pc = "cas" /\ UNCHANGED review
        /\ call' = [call EXCEPT ![w] = NoCall] \/ call' = [call EXCEPT ![w] = d]
        /\ \/ UNCHANGED redteamFeed
           \/ \E s : redteamFeed' = Append(redteamFeed, [key |-> q, status |-> s])
    BY <1>9 DEF SignalPut, EmitEntityUpdate, Emit
  <2>2. d.quest = q /\ q \in Quests
    BY <2>1 DEF RedShape, Addressed
  <2> HIDE DEF d
  <2>3. Addressed'
    BY <1>0, <2>1, <2>2, AddressedPut DEF q
  <2>4. \/ UNCHANGED redteamFeed
        \/ \E e : redteamFeed' = Append(redteamFeed, e) /\ e.key \in Quests
    <3> HIDE DEF q
    <3>1. ASSUME NEW s, redteamFeed' = Append(redteamFeed, [key |-> q, status |-> s])
          PROVE  \E e : redteamFeed' = Append(redteamFeed, e) /\ e.key \in Quests
      <4> DEFINE e == [key |-> q, status |-> s]
      <4>1. e.key = q
        OBVIOUS
      <4> HIDE DEF e
      <4> QED  BY <2>2, <3>1, <4>1 DEF e
    <3> QED  BY <2>1, <3>1
  <2> QED  BY <2>1, <2>3, <2>4, QuestPutShape
<1> QED  BY <1>1, <1>2, <1>3, <1>4, <1>5, <1>6, <1>7, <1>8, <1>9 DEF RedStep, WatchStep, SignalStep

\* The put of a quest, as the watch of the red team will see it.
LEMMA EmitSeen ==
  ASSUME NEW q \in Quests, NEW rec, EmitEntityUpdate(q, rec)
  PROVE  \E e : redteamFeed' = Append(redteamFeed, e) /\ e.key \in Quests
<1> DEFINE e == [key |-> q, status |-> rec.status]
<1>1. redteamFeed' = Append(redteamFeed, e)
  BY DEF EmitEntityUpdate, Emit
<1>2. e.key = q
  OBVIOUS
<1> HIDE DEF e
<1> QED  BY <1>1, <1>2

LEMMA BossStepShape ==
  ASSUME BInv, BossStep, UNCHANGED call
  PROVE  RedShape'
<1>1. UNCHANGED review /\ Addressed'
  BY BossStepKeeps, AddressedKept DEF BInv
<1>2. UNCHANGED redteamFeed \/ \E e : redteamFeed' = Append(redteamFeed, e) /\ e.key \in Quests
  <2>1. ASSUME NEW b \in Battles, PutVerdict(b)
        PROVE  \E e : redteamFeed' = Append(redteamFeed, e) /\ e.key \in Quests
    <3>1. battle[b].quest \in Quests
      BY <2>1 DEF BInv, BattleInv, Battling, FightSound, PutVerdict
    <3> DEFINE q == battle[b].quest
    <3>2. EmitEntityUpdate(q, battle[b].copy)
      BY <2>1 DEF PutVerdict
    <3> HIDE DEF q
    <3> QED  BY <3>1, <3>2, EmitSeen DEF q
  <2>2. ASSUME NEW b \in Battles, BattleStep(b), ~PutVerdict(b) PROVE UNCHANGED redteamFeed
    BY <2>2 DEF BattleStep, Victory, Defeat, AwaitHuman, ReleaseFighter, FailNode, storeVars
  <2>3. ASSUME WatchSignal \/ WatchStatus PROVE UNCHANGED redteamFeed
    BY <2>3 DEF WatchSignal, WatchStatus
  <2>4. ASSUME (\E q \in Quests : SweepRead(q)) \/ SweepStart PROVE UNCHANGED redteamFeed
    BY <2>4 DEF SweepRead, SweepStart, storeVars
  <2>5. ASSUME \E s \in Starters : MarkAgent(s) PROVE UNCHANGED redteamFeed
    BY <2>5 DEF MarkAgent
  <2> QED  BY <2>1, <2>2, <2>3, <2>4, <2>5 DEF BossStep
<1> QED  BY <1>1, <1>2, QuestPutShape DEF BInv

LEMMA WorkOnReviewShape ==
  ASSUME BInv, NEW r \in Reviews, WorkOnReview(r)
  PROVE  RedShape'
<1> USE DEF BInv
<1> DEFINE old == review[r]
           claimed == [old EXCEPT !.status = "in_progress", !.attempts = @ + 1]
           finished == [old EXCEPT !.status = "completed"]
<1>1. old \in ReviewRec
  BY DEF IInv, Shape
<1>2. Addressed'
  BY AddressedKept DEF WorkOnReview, redVars
<1>3. old.status # "unposted"
  BY DEF WorkOnReview
<1>4. old.target \in Quests
  BY <1>3 DEF RedShape, Targeted, Posted
<1>5. \/ EmitReview(r, claimed, redteamFeed)
      \/ EmitReview(r, finished, redteamFeed)
      \/ EmitReview(r, FailedReview(r), redteamFeed)
  BY DEF WorkOnReview
<1>6. claimed.status # "unposted" /\ claimed.target = old.target
  <2> HIDE DEF old
  <2> QED  BY <1>1, ClaimedReview
<1>7. finished.status # "unposted" /\ finished.target = old.target
  <2> HIDE DEF old
  <2> QED  BY <1>1, ChangedReview
<1>8. FailedReview(r).status # "unposted" /\ FailedReview(r).target = old.target
  BY <1>1, FailedReviewKeeps
<1> HIDE DEF claimed, finished, old
<1>9. PICK rec : /\ EmitReview(r, rec, redteamFeed)
                 /\ rec.status # "unposted" /\ rec.target \in Quests
  BY <1>4, <1>5, <1>6, <1>7, <1>8
<1> QED  BY <1>2, <1>9, ReviewPutAlone

-----------------------------------------------------------------------------
(* The battles, while the red team and the agents go on.                   *)

LEMMA LinkReviewBattles ==
  ASSUME BInv, LinkReview, UNCHANGED bossVars, disturbed' = disturbed \cup TakenBack
  PROVE  BattleInv'
<1> DEFINE q == call["watch"].quest
           rec == [call["watch"].copy EXCEPT !.rtQuest = call["watch"].review]
<1>0. Growing /\ \A p \in Calm' : p \in Calm
  BY CalmShrinks DEF Growing
<1>1. /\ call["watch"].pc = "link" /\ EmitEntityUpdate(q, rec)
      /\ call' = [call EXCEPT !["watch"] = NoCall] /\ UNCHANGED part
  BY DEF LinkReview
<1>2. q \in Quests
  BY <1>1 DEF BInv, IInv, LinkIsPosted
<1>3. q \in Calm => Sound(q, call["watch"].copy)
  BY <1>1 DEF BInv, BattleInv, LinkSound
<1>4. q \in Calm => Sound(q, rec)
  BY <1>3 DEF Sound, QuestFields
<1>5. LinkSound'
  <2>1. call'["watch"].pc = "idle"
    BY <1>1 DEF BInv, IInv, Shape, Writers, NoCall
  <2> QED  BY <2>1 DEF LinkSound
<1> HIDE DEF rec, q
<1>6. quest'[q] = rec
  BY <1>1, <1>2 DEF EmitEntityUpdate, Emit, BInv, BattleInv, BattleShape
<1>7. q \in Calm' =>
        \/ quest[q].status # "in_review"
        \/ rec.status = "in_review" /\ rec.attempts = quest[q].attempts
  BY <1>2, <1>6 DEF Calm, TakenBack
<1>8. /\ BattleInv /\ DOMAIN part' = SubQuests
      /\ \A p \in Calm' : Fighting(p) => \A s \in NodesOf[p] : part'[s] = part[s]
  BY <1>1 DEF BInv, BattleInv, BattleShape
<1> QED  BY <1>0, <1>1, <1>2, <1>4, <1>5, <1>7, <1>8, EmitKeeps

LEMMA SignalBattles ==
  ASSUME BInv, NEW w \in Writers, SignalPut(w), UNCHANGED bossVars, Growing
  PROVE  BattleInv'
<1> DEFINE q == call[w].quest
           d == [call[w] EXCEPT !.pc = "read", !.copy = None, !.tries = @ + 1]
<1>1. /\ call[w].pc = "cas" /\ UNCHANGED part
      /\ call' = [call EXCEPT ![w] = NoCall] \/ call' = [call EXCEPT ![w] = d]
  BY DEF SignalPut
<1>2. q \in Quests
  BY <1>1 DEF BInv, RedShape, Addressed
<1>3. call'["watch"].pc = "link" => call'["watch"] = call["watch"]
  <2>1. NoCall.pc = "idle" /\ call[w].pc = "cas"
    BY <1>1 DEF NoCall
  <2>2. d.pc # "link"
    BY <2>1
  <2> HIDE DEF d
  <2> QED  BY <1>1, <2>1, <2>2, CallUpdated DEF BInv, NoNewLink
<1>6. LinkSound' /\ \A p \in Calm' : p \in Calm
  BY <1>3, LinkUntouched, CalmShrinks DEF BInv
<1>4. CASE Unchanged(q, call[w].copy)
  <2> DEFINE rec == [quest[q] EXCEPT !.rtStatus = call[w].outcome]
  <2>1. EmitEntityUpdate(q, rec)
    BY <1>4 DEF SignalPut, Unchanged
  <2>2. q \in Calm => Sound(q, quest[q])
    BY <1>2 DEF BInv, BattleInv, QuestSound
  <2>3. q \in Calm =>
          Sound(q, rec) /\ rec.status = quest[q].status /\ rec.attempts = quest[q].attempts
    BY <2>2 DEF Sound, QuestFields
  <2> HIDE DEF rec, q
  <2>5. /\ BattleInv /\ DOMAIN part' = SubQuests
        /\ \A p \in Calm' : Fighting(p) => \A s \in NodesOf[p] : part'[s] = part[s]
    BY <1>1 DEF BInv, BattleInv, BattleShape
  <2>6. q \in Calm' =>
          /\ Sound(q, rec)
          /\ \/ quest[q].status # "in_review"
             \/ rec.status = "in_review" /\ rec.attempts = quest[q].attempts
    BY <1>6, <2>3
  <2> QED  BY <1>2, <1>6, <2>1, <2>5, <2>6, EmitKeeps
<1>5. CASE ~Unchanged(q, call[w].copy)
  <2>1. UNCHANGED <<quest, battleFeed>>
    BY <1>5 DEF SignalPut
  <2> QED  BY <1>1, <1>6, <2>1, SweptUntouched, ElsewhereKeeps DEF BInv, bossVars
<1> QED  BY <1>4, <1>5

LEMMA PostReviewBattles ==
  ASSUME BInv, PostReview, UNCHANGED bossVars, Growing
  PROVE  BattleInv'
<1> SUFFICES ASSUME NEW q, q = Head(redteamFeed).key PROVE BattleInv'
  OBVIOUS
<1>1. PICK r : /\ q \in Quests /\ UNCHANGED <<quest, part, battleFeed>>
               /\ call' = [call EXCEPT !["watch"] = [NoCall EXCEPT !.pc = "link", !.quest = q,
                                                       !.review = r, !.copy = quest[q]]]
  BY DEF PostReview
<1>2. call'["watch"].quest = q /\ call'["watch"].copy = quest[q]
  BY <1>1 DEF BInv, IInv, Shape, Writers, NoCall
<1>3. q \in Calm => Sound(q, quest[q])
  BY <1>1 DEF BInv, BattleInv, QuestSound
<1>4. LinkSound'
  BY <1>1, <1>2, <1>3, CalmShrinks DEF LinkSound
<1> QED  BY <1>1, <1>4, SweptUntouched, ElsewhereKeeps DEF BInv, bossVars

LEMMA RedStepBattles ==
  ASSUME BInv, RedStep, UNCHANGED bossVars, disturbed' = disturbed \cup TakenBack
  PROVE  BattleInv'
<1> USE DEF Writers
<1>0. Growing
  BY DEF Growing
<1>1. CASE PostReview
  BY <1>0, <1>1, PostReviewBattles
<1>2. CASE LinkReview
  BY <1>2, LinkReviewBattles
<1>3. CASE \E w \in Writers : SignalPut(w)
  BY <1>0, <1>3, SignalBattles
<1>4. ASSUME UNCHANGED <<quest, part, battleFeed>>, NoNewLink PROVE BattleInv'
  BY <1>0, <1>4, LinkUntouched, SweptUntouched, ElsewhereKeeps DEF BInv, bossVars, NoNewLink
<1>5. CASE SkipReview
  <2>1. /\ UNCHANGED <<quest, part, battleFeed>>
        /\ call' = [call EXCEPT !["watch"] = Signalling(Head(redteamFeed).key, "skipped")]
    BY <1>5 DEF SkipReview
  <2> QED  BY <1>4, <2>1, SignallingCall, CallUpdated DEF BInv
<1>6. CASE ReviewFinished
  <2>1. PICK q, o : /\ UNCHANGED <<quest, part, battleFeed>>
                    /\ call' = [call EXCEPT !["watch"] = Signalling(q, o)]
    BY <1>6 DEF ReviewFinished
  <2> QED  BY <1>4, <2>1, SignallingCall, CallUpdated DEF BInv
<1>7. CASE IgnoreEntry
  BY <1>4, <1>7, NoCallChanged DEF BInv, IgnoreEntry
<1>8. ASSUME NEW r \in Reviews, Timeout(r) PROVE BattleInv'
  <2> DEFINE c == [NoCall EXCEPT !.pc = "fail", !.quest = review[r].target,
                                 !.outcome = "skipped"]
  <2>1. /\ UNCHANGED <<quest, part, battleFeed>>
        /\ call' = call \/ call' = [call EXCEPT ![r] = c]
    BY <1>8 DEF Timeout, storeVars
  <2>2. c.pc # "link"
    BY DEF NoCall
  <2> HIDE DEF c
  <2> QED  BY <1>4, <2>1, <2>2, CallUpdated, NoCallChanged DEF BInv
<1>9. ASSUME NEW r \in Reviews, FailReview(r) PROVE BattleInv'
  <2> DEFINE c == [call[r] EXCEPT !.pc = "read"]
  <2>1. /\ UNCHANGED <<quest, part, battleFeed>> /\ call[r].pc = "fail"
        /\ call' = [call EXCEPT ![r] = c]
    BY <1>9 DEF FailReview
  <2>2. c.pc # "link"
    BY <2>1
  <2> HIDE DEF c
  <2> QED  BY <1>4, <2>1, <2>2, CallUpdated DEF BInv
<1>10. ASSUME NEW w \in Writers, SignalRead(w) PROVE BattleInv'
  <2> DEFINE c == [call[w] EXCEPT !.pc = "cas", !.copy = quest[call[w].quest]]
  <2>1. /\ UNCHANGED <<quest, part, battleFeed>> /\ call[w].pc = "read"
        /\ call' = [call EXCEPT ![w] = c]
    BY <1>10 DEF SignalRead, storeVars, BInv, IInv, Shape
  <2>2. c.pc # "link"
    BY <2>1
  <2> HIDE DEF c
  <2> QED  BY <1>4, <2>1, <2>2, CallUpdated DEF BInv
<1> QED  BY <1>1, <1>2, <1>3, <1>5, <1>6, <1>7, <1>8, <1>9, <1>10
         DEF RedStep, WatchStep, SignalStep

-----------------------------------------------------------------------------
(* The agents, and restarts.                                               *)

LEMMA ClaimStep ==
  ASSUME BInv, NEW q \in Quests, NEW a \in Agents, Claim(q, a)
  PROVE  BattleInv' /\ RedShape'
<1> DEFINE rec == [quest[q] EXCEPT !.status = "in_progress", !.claimedBy = a, !.attempts = @ + 1]
<1>0. Growing /\ \A p \in Calm' : p \in Calm
  BY CalmShrinks DEF Claim, history, Growing
<1>1. /\ quest[q].status = "posted" /\ EmitEntityUpdate(q, rec)
      /\ UNCHANGED <<review, part, bossVars, call>>
  BY DEF Claim, redVars
<1>2. (q \in Calm => Sound(q, quest[q])) /\ DOMAIN part = SubQuests
  BY DEF BInv, BattleInv, BattleShape, QuestSound
<1>3. q \in Calm => rec.status = "in_progress" /\ DOMAIN rec = QuestFields
  BY <1>2 DEF Sound, QuestFields
<1> HIDE DEF rec
<1>4. q \in Calm' => Sound(q, rec) /\ quest[q].status # "in_review"
  BY <1>0, <1>1, <1>3 DEF Sound
<1>5. LinkSound'
  BY <1>0, <1>1, LinkUntouched DEF BInv
<1>6. BattleInv'
  BY <1>0, <1>1, <1>2, <1>4, <1>5, EmitKeeps DEF BInv
<1>7. RedShape'
  BY <1>1, EmitSeen, AddressedKept, QuestPutShape DEF BInv
<1> QED  BY <1>6, <1>7

LEMMA SubmitStep ==
  ASSUME BInv, NEW q \in Quests, Submit(q)
  PROVE  BattleInv' /\ RedShape'
<1> DEFINE rec == [quest[q] EXCEPT !.status = "in_review", !.dag = (NodesOf[q] # {})]
<1>0. Growing /\ \A p \in Calm' : p \in Calm /\ p \in Quests
  BY CalmShrinks DEF Submit, Growing, Calm
<1>1. /\ quest[q].status = "in_progress" /\ EmitEntityUpdate(q, rec)
      /\ UNCHANGED <<review, bossVars, call>>
      /\ part' = [s \in SubQuests |-> IF s \in NodesOf[q] THEN "completed" ELSE part[s]]
  BY DEF Submit, redVars
<1>2. q \in Calm => Sound(q, quest[q])
  BY DEF BInv, BattleInv, QuestSound
<1>3. q \in Calm => /\ rec.status = "in_review" /\ DOMAIN rec = QuestFields
                    /\ rec.dag = (NodesOf[q] # {})
  BY <1>2 DEF Sound, QuestFields
<1> HIDE DEF rec
<1>4. q \in Calm' => Sound(q, rec) /\ quest[q].status # "in_review"
  BY <1>0, <1>1, <1>3 DEF Sound
<1>5. LinkSound'
  BY <1>0, <1>1, LinkUntouched DEF BInv
<1>6. ASSUME NEW p \in Calm', Fighting(p), NEW s \in NodesOf[p]
      PROVE  part'[s] = part[s]
  <2>1. p \in Quests /\ quest[p].status = "in_review"
    BY <1>0, <1>6 DEF BInv, BattleInv, Battling, Active, Settled1, Settling
  <2>2. p # q
    BY <1>1, <2>1
  <2>3. s \in SubQuests /\ s \notin NodesOf[q]
    BY <1>6, <2>1, <2>2, StoreAssumption DEF SubQuests
  <2> QED  BY <1>1, <2>3
<1>7. DOMAIN part' = SubQuests
  BY <1>1
<1>8. BattleInv'
  BY <1>0, <1>1, <1>4, <1>5, <1>6, <1>7, EmitKeeps DEF BInv
<1>9. RedShape'
  BY <1>1, EmitSeen, AddressedKept, QuestPutShape DEF BInv
<1> QED  BY <1>8, <1>9

\* The API fails a quest: one that is in review is undisturbed no more.
LEMMA ApiFailStep ==
  ASSUME BInv, NEW q \in Quests, ApiFail(q)
  PROVE  BattleInv' /\ RedShape'
<1> DEFINE counted == [quest[q] EXCEPT !.attempts = @ + 1]
           failed == [counted EXCEPT !.status = "failed"]
           again == [counted EXCEPT !.status = "posted", !.claimedBy = None]
<1>1. /\ EmitEntityUpdate(q, failed) \/ EmitEntityUpdate(q, again)
      /\ disturbed' = disturbed \cup {p \in {q} : quest[p].status = "in_review"}
      /\ UNCHANGED <<review, part, bossVars, call>>
  BY DEF ApiFail, redVars
<1>2. Growing /\ \A p \in Calm' : p \in Calm
  BY <1>1, CalmShrinks DEF Growing
<1>3. (q \in Calm => Sound(q, quest[q])) /\ DOMAIN part = SubQuests
  BY DEF BInv, BattleInv, BattleShape, QuestSound
<1>4. q \in Calm => /\ DOMAIN failed = QuestFields /\ failed.status = "failed"
                    /\ DOMAIN again = QuestFields /\ again.status = "posted"
  BY <1>3 DEF Sound, QuestFields
<1> HIDE DEF failed, again
<1>5. q \in Calm => Sound(q, failed) /\ Sound(q, again)
  BY <1>4 DEF Sound
<1>6. q \in Calm' => quest[q].status # "in_review"
  BY <1>1 DEF Calm
<1>7. PICK rec : EmitEntityUpdate(q, rec) /\ (q \in Calm => Sound(q, rec))
  BY <1>1, <1>5
<1>8. LinkSound'
  BY <1>1, <1>2, LinkUntouched DEF BInv
<1>9. BattleInv'
  BY <1>1, <1>2, <1>3, <1>6, <1>7, <1>8, EmitKeeps DEF BInv
<1>10. RedShape'
  BY <1>1, <1>7, EmitSeen, AddressedKept, QuestPutShape DEF BInv
<1> QED  BY <1>9, <1>10

LEMMA ElsewhereStep ==
  ASSUME BInv, Growing, UNCHANGED <<quest, part, battleFeed, bossVars, call>>
  PROVE  BattleInv'
<1>1. LinkSound'
  BY LinkUntouched DEF BInv
<1> QED  BY <1>1, SweptUntouched, ElsewhereKeeps DEF BInv, bossVars

\* Nothing is in flight.
Quiet ==
  /\ DOMAIN quest = Quests /\ DOMAIN part = SubQuests /\ \A q \in Calm : Sound(q, quest[q])
  /\ battleFeed = <<>> /\ redteamFeed = <<>>
  /\ questCache = StatusOf /\ redTeamPending = [q \in Quests |-> None]
  /\ swept = None /\ battle = [b \in Battles |-> NoBattle]
  /\ \A w \in Writers : call[w].pc = "idle"
  /\ Targeted

LEMMA QuietBInv == Quiet => BattleInv /\ RedShape
<1> SUFFICES ASSUME Quiet PROVE BattleInv /\ RedShape
  OBVIOUS
<1> USE DEF Quiet
<1>1. Len(battleFeed) = 0 /\ Feed(battleFeed) /\ \A q : Puts(battleFeed, q) = {0}
  BY FeedNone, EmptySeq
<1>2. BattleShape
  BY <1>1 DEF BattleShape, StatusOf, SweptShape
<1>3. \A q \in Calm : QuestSound(q)
  BY <1>1 DEF QuestSound, SoundPuts, EntersOnce
<1>4. NoBattle.pc = "none" /\ DOMAIN NoBattle = FightFields
  BY DEF NoBattle, FightFields
<1>5. \A b \in Battles : battle[b].pc = "none" /\ FightSound(battle[b], quest, part, Calm)
  BY <1>4 DEF FightSound
<1>6. OneBattle /\ Battling
  BY <1>5 DEF OneBattle, Battling, Active, Fighting, Calm
<1>7. LinkSound
  BY DEF LinkSound, Writers
<1>8. RedShape
  BY <1>1 DEF RedShape, OfPosted, Addressed
<1> QED  BY <1>2, <1>3, <1>6, <1>7, <1>8 DEF BattleInv

LEMMA RestartBattles ==
  ASSUME BInv, Restart
  PROVE  BattleInv' /\ RedShape'
<1>1. /\ UNCHANGED <<quest, review, part>>
      /\ battleFeed' = <<>> /\ redteamFeed' = <<>>
      /\ questCache' = StatusOf /\ redTeamPending' = [q \in Quests |-> None]
      /\ swept' = None /\ battle' = [b \in Battles |-> NoBattle]
      /\ call' = [w \in Writers |-> NoCall] /\ UNCHANGED disturbed
  BY DEF Restart, history
<1>2. \A w \in Writers : call'[w].pc = "idle"
  BY <1>1 DEF NoCall
<1>3. DOMAIN quest' = Quests /\ DOMAIN part' = SubQuests /\ \A q \in Calm' : Sound(q, quest'[q])
  BY <1>1 DEF BInv, BattleInv, BattleShape, QuestSound, Calm
<1>4. questCache' = StatusOf'
  BY <1>1 DEF StatusOf
<1>5. Targeted'
  BY <1>1 DEF BInv, RedShape, Targeted, Posted
<1>6. Quiet'
  BY <1>1, <1>2, <1>3, <1>4, <1>5 DEF Quiet
<1>7. Quiet' => BattleInv' /\ RedShape'
  BY QuietBInv, PTL
<1> QED  BY <1>6, <1>7

LEMMA InitBInv == ASSUME Init PROVE BInv
<1>1. /\ quest = [q \in Quests |-> Fresh]
      /\ battleFeed = <<>> /\ redteamFeed = <<>>
      /\ questCache = StatusOf /\ redTeamPending = [q \in Quests |-> None]
      /\ swept = None /\ battle = [b \in Battles |-> NoBattle]
      /\ call = [w \in Writers |-> NoCall]
      /\ DOMAIN part = SubQuests
      /\ \A r \in Reviews : review[r].status = "unposted"
  BY DEF Init, StoreInit, Settled, BossInit, RedInit
<1>2. \A w \in Writers : call[w].pc = "idle"
  BY <1>1 DEF NoCall
<1>3. \A q \in Quests : Sound(q, Fresh)
  BY DEF Sound, Fresh, QuestFields
<1>4. DOMAIN quest = Quests /\ \A q \in Calm : Sound(q, quest[q])
  BY <1>1, <1>3 DEF Calm
<1>5. Targeted
  BY <1>1 DEF Targeted, Posted
<1>6. Quiet
  BY <1>1, <1>2, <1>4, <1>5 DEF Quiet
<1> QED  BY <1>6, QuietBInv, InitIInv DEF BInv

LEMMA NextBInv == ASSUME BInv, [Next]_vars PROVE BInv'
<1>1. IInv'
  BY NextIInv DEF BInv
<1>2. CASE UNCHANGED vars
  <2>1. UNCHANGED <<quest, review, part, redteamFeed, battleFeed, bossVars, call, disturbed>>
    BY <1>2 DEF vars, storeVars, redVars, history
  <2> QED  BY <1>1, <2>1, ElsewhereStep, AddressedKept, QuestPutShape DEF BInv, Growing
<1>3. CASE Next
  <2>1. CASE /\ BossStep /\ disturbed' = disturbed \cup SweptTwice
             /\ UNCHANGED <<redVars, restarts, signalled>>
    <3>1. UNCHANGED call
      BY <2>1 DEF redVars
    <3> QED  BY <1>1, <2>1, <3>1, BossStepBattles, BossStepShape DEF BInv
  <2>2. CASE RedStep /\ disturbed' = disturbed \cup TakenBack /\ UNCHANGED <<bossVars, restarts>>
    BY <1>1, <2>2, RedStepBattles, RedStepShape DEF BInv
  <2>3. ASSUME NEW q \in Quests, NEW a \in Agents, Claim(q, a) PROVE BInv'
    BY <1>1, <2>3, ClaimStep DEF BInv
  <2>4. ASSUME NEW q \in Quests, Submit(q) PROVE BInv'
    BY <1>1, <2>4, SubmitStep DEF BInv
  <2>5. ASSUME NEW q \in Quests, ApiFail(q) PROVE BInv'
    BY <1>1, <2>5, ApiFailStep DEF BInv
  <2>6. ASSUME NEW r \in Reviews, WorkOnReview(r) PROVE BInv'
    <3>1. UNCHANGED <<quest, part, battleFeed, bossVars, call>> /\ Growing
      BY <2>6 DEF WorkOnReview, redVars, history, Growing
    <3> QED  BY <1>1, <2>6, <3>1, ElsewhereStep, WorkOnReviewShape DEF BInv
  <2>7. ASSUME NEW a \in Agents, ReleaseOwed(a) PROVE BInv'
    <3>1. UNCHANGED <<quest, review, part, redteamFeed, battleFeed, bossVars, call>> /\ Growing
      BY <2>7 DEF ReleaseOwed, redVars, history, Growing
    <3> QED  BY <1>1, <3>1, ElsewhereStep, AddressedKept, QuestPutShape DEF BInv
  <2>8. CASE Restart
    BY <1>1, <2>8, RestartBattles DEF BInv
  <2> QED  BY <1>3, <2>1, <2>2, <2>3, <2>4, <2>5, <2>6, <2>7, <2>8 DEF Next
<1> QED  BY <1>2, <1>3

LEMMA BInvAlways == Spec => []BInv
<1>1. Init => BInv
  BY InitBInv
<1>2. BInv /\ [Next]_vars => BInv'
  BY NextBInv
<1> QED  BY <1>1, <1>2, PTL DEF Spec

LEMMA BInvJudges == BInv => JudgesStoredSubmission
<1> SUFFICES ASSUME BInv, NEW b \in Battles, battle[b].pc = "evaluating",
                    battle[b].quest \notin disturbed
             PROVE  /\ quest[battle[b].quest].status = "in_review"
                    /\ quest[battle[b].quest].attempts = battle[b].copy.attempts
  BY DEF JudgesStoredSubmission
<1>1. FightSound(battle[b], quest, part, Calm)
  BY DEF BInv, BattleInv, Battling
<1>2. /\ battle[b].quest \in Calm
      /\ battle[b].copy.attempts = quest[battle[b].quest].attempts
  BY <1>1 DEF FightSound, Submitted, Calm
<1>3. Active(battle[b].quest)
  BY DEF Active, Fighting
<1>4. quest[battle[b].quest].status = "in_review"
  BY <1>2, <1>3 DEF BInv, BattleInv, Battling, Settled1, Settling
<1> QED  BY <1>2, <1>4

\* Undisturbed quests that a step takes out of review and does not complete.
LEMMA DefeatStep ==
  ASSUME BInv, Next, NEW q \in Calm',
         quest[q].status = "in_review", quest'[q].status \in {"posted", "failed"}
  PROVE  \A s \in NodesOf[q] : part[s] = "failed"
<1>0. disturbed \subseteq disturbed'
  BY DEF Next, Claim, Submit, ApiFail, WorkOnReview, ReleaseOwed, Restart, history
<1>1. q \in Quests /\ q \in Calm
  BY <1>0 DEF Calm
<1>2. ASSUME NEW p \in Quests, NEW rec, EmitEntityUpdate(p, rec)
      PROVE  p = q /\ rec.status \in {"posted", "failed"}
  BY <1>2 DEF EmitEntityUpdate, Emit, BInv, BattleInv, BattleShape
<1>3. ASSUME NEW b \in Battles, PutVerdict(b)
      PROVE  \A s \in NodesOf[q] : part[s] = "failed"
  <2> DEFINE p == battle[b].quest
             rec == battle[b].copy
  <2>1. /\ battle[b].pc = "put" \/ (battle[b].pc = "nodes" /\ battle[b].nodes = {})
        /\ EmitEntityUpdate(p, rec)
    BY <1>3 DEF PutVerdict
  <2>2. FightSound(battle[b], quest, part, Calm)
    BY DEF BInv, BattleInv, Battling
  <2>3. p \in Quests
    BY <2>1, <2>2 DEF FightSound
  <2> HIDE DEF p, rec
  <2>4. p = q /\ rec.status \in {"posted", "failed"}
    BY <1>2, <2>1, <2>3
  <2>5. battle[b].pc = "nodes" /\ battle[b].nodes = {}
    BY <1>1, <2>1, <2>2, <2>4 DEF FightSound, rec, p
  <2> QED  BY <1>1, <2>2, <2>4, <2>5 DEF FightSound, p
<1>4. CASE RedStep /\ disturbed' = disturbed \cup TakenBack
  BY <1>1, <1>4 DEF Calm, TakenBack
<1>5. \A p \in Quests, a \in Agents : ~Claim(p, a)
  <2> SUFFICES ASSUME NEW p \in Quests, NEW a \in Agents, Claim(p, a) PROVE FALSE
    OBVIOUS
  <2>1. PICK rec : quest[p].status = "posted" /\ EmitEntityUpdate(p, rec)
    BY DEF Claim
  <2> QED  BY <1>2, <2>1
<1>6. \A p \in Quests : ~Submit(p)
  <2> SUFFICES ASSUME NEW p \in Quests, Submit(p) PROVE FALSE
    OBVIOUS
  <2>1. PICK rec : quest[p].status = "in_progress" /\ EmitEntityUpdate(p, rec)
    BY DEF Submit
  <2> QED  BY <1>2, <2>1
<1>7. \A p \in Quests : ~ApiFail(p)
  <2> SUFFICES ASSUME NEW p \in Quests, ApiFail(p) PROVE FALSE
    OBVIOUS
  <2>1. PICK rec : EmitEntityUpdate(p, rec)
    BY DEF ApiFail
  <2>2. p = q
    BY <1>2, <2>1
  <2> QED  BY <2>2 DEF ApiFail, Calm
<1>8. quest' # quest
  OBVIOUS
<1>9. CASE BossStep
  <2>1. ASSUME NEW b \in Battles, BattleStep(b), ~PutVerdict(b) PROVE UNCHANGED quest
    BY <2>1 DEF BattleStep, Victory, Defeat, AwaitHuman, ReleaseFighter, FailNode, storeVars
  <2>2. ASSUME WatchSignal \/ WatchStatus PROVE UNCHANGED quest
    BY <2>2 DEF WatchSignal, WatchStatus
  <2>3. ASSUME (\E p \in Quests : SweepRead(p)) \/ SweepStart PROVE UNCHANGED quest
    BY <2>3 DEF SweepRead, SweepStart, storeVars
  <2>4. ASSUME \E s \in Starters : MarkAgent(s) PROVE UNCHANGED quest
    BY <2>4 DEF MarkAgent
  <2> QED  BY <1>3, <1>8, <1>9, <2>1, <2>2, <2>3, <2>4 DEF BossStep
<1>10. BossStep \/ (RedStep /\ disturbed' = disturbed \cup TakenBack)
  <2>1. ASSUME \E r \in Reviews : WorkOnReview(r) PROVE UNCHANGED quest
    BY <2>1 DEF WorkOnReview
  <2>2. ASSUME \E a \in Agents : ReleaseOwed(a) PROVE UNCHANGED quest
    BY <2>2 DEF ReleaseOwed
  <2>3. ASSUME Restart PROVE UNCHANGED quest
    BY <2>3 DEF Restart
  <2> QED  BY <1>5, <1>6, <1>7, <1>8, <2>1, <2>2, <2>3 DEF Next
<1> QED  BY <1>4, <1>9, <1>10

\* Whoever fights over a quest is alone: bossbattle never runs two battles over one quest at
\* a time, through restarts, lags, operators, stale signals and links (LoadAndDelete of
\* redTeamPending and the status cache of its watch), unless the red team's link took a
\* submission back, the API failed the quest in review, or the safety sweep overlapped with
\* the watch.
THEOREM BattlesAlwaysSingle == Spec => []OneBattle
<1>1. BInv => OneBattle
  BY DEF BInv, BattleInv
<1> QED  BY <1>1, BInvAlways, PTL

\* While judges evaluate a snapshot (runEvaluation), the store holds that submission, in
\* review and with its attempt, so no verdict is about work that the store has moved past,
\* with the same three exceptions.
THEOREM StoredAlwaysJudged == Spec => []JudgesStoredSubmission
BY BInvJudges, BInvAlways, PTL

\* A defeat has failed every sub-quest of the attempt (failPartySubQuests) by the time the
\* quest leaves review, so the next attempt meets none of the last one's, with the same three
\* exceptions.
THEOREM DefeatAlwaysFailsParts == Spec => DefeatFailsParts
<1> DEFINE Failed ==
      \A q \in Quests \ disturbed' :
        quest[q].status = "in_review" /\ quest'[q].status \in {"posted", "failed"}
          => \A s \in NodesOf[q] : part[s] = "failed"
<1>1. ASSUME BInv, [Next]_vars PROVE [Failed]_vars
  BY <1>1, DefeatStep DEF Calm
<1>2. Spec => [][Failed]_vars
  BY <1>1, BInvAlways, PTL DEF Spec
<1> QED  BY <1>2 DEF DefeatFailsParts
=============================================================================
