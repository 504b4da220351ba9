--------------------------- MODULE DeskProofs ---------------------------
(***************************************************************************)
(* Proofs about the desks that take what people and agents send: peer reviews,*)
(* triage, and the conversations with the DM.                              *)
(***************************************************************************)
EXTENDS PeerDesk, TriageDesk, Chat, TLAPS, SequenceTheorems

-----------------------------------------------------------------------------
(***************************************************************************)
(* Reviews stay blind for any number of them.  Submissions are put over    *)
(* each other without compare-and-swap, so the proof is about the copies:  *)
(* while no side has two submissions under way, what a copy holds is       *)
(* stored as long as its author has not put it, since only the author's    *)
(* own put can take it back; and then nobody else has a submission on its  *)
(* way that the review, completed, could be shown to.                      *)
(***************************************************************************)
PeersSpec == PeersInit /\ [][PeersNext]_pdVars

Calm == PeerReviews \ hasty

\* Whoever was shown a submission can submit nothing.
ShownAreDone ==
  \A r \in Calm : \A side \in Sides :
    <<r, side>> \in shown => peerReviews[r].status = "completed"

\* A side has one submission on its way.
OneAtATime ==
  \A r \in Calm : \A side \in Sides : \A m, n \in PeerRequests :
    drafts[<<r, side, m>>].open /\ drafts[<<r, side, n>>].open => m = n

\* A submission on its way is the author's first that counts, made unseeing to an open review,
\* and on a copy that holds no more than what is stored.
CopyAgrees(r, side, n) ==
  drafts[<<r, side, n>>].open =>
    /\ ~drafts[<<r, side, n>>].informed
    /\ r \in SoloReviews => side = "leader"
    /\ peerReviews[r].status \in {"pending", "partial"}
    /\ side \notin peerReviews[r].by
    /\ drafts[<<r, side, n>>].by \subseteq peerReviews[r].by

CopiesAgree ==
  \A r \in Calm : \A side \in Sides : \A n \in PeerRequests : CopyAgrees(r, side, n)

PeersIInv ==
  /\ PeersTypeOK /\ ShownAreDone /\ OneAtATime /\ CopiesAgree /\ ReviewsStayBlind

\* No review and no draft to begin with.
LEMMA PeersStart == PeersInit => PeersIInv
<1> SUFFICES ASSUME PeersInit  PROVE PeersIInv
  OBVIOUS
<1>1. \A r \in PeerReviews, side \in Sides, n \in PeerRequests : drafts[<<r, side, n>>] = NoDraft
  BY DEF PeersInit, Slips
<1>2. PeersTypeOK
  BY DEF PeersInit, PeersTypeOK, ReviewRecords, NoDraft, Seats, Slips
<1>3. CopiesAgree /\ OneAtATime
  BY <1>1 DEF CopiesAgree, CopyAgrees, OneAtATime, NoDraft, Calm
<1> QED  BY <1>2, <1>3 DEF PeersInit, PeersIInv, ShownAreDone, ReviewsStayBlind

\* A review is put where there was none; nobody can have begun to submit to it.
LEMMA NewReviewStep ==
  ASSUME PeersIInv, NEW r \in PeerReviews, NEW review \in ReviewRecords,
         peerReviews[r].status = "none",
         peerReviews' = [peerReviews EXCEPT ![r] = review],
         UNCHANGED <<drafts, shown, informed, hasty>>
  PROVE  PeersIInv'
<1>1. PeersTypeOK'
  BY DEF PeersIInv, PeersTypeOK
<1>2. ShownAreDone' /\ OneAtATime'
  BY DEF PeersIInv, PeersTypeOK, ShownAreDone, OneAtATime, Calm
<1>3. CopiesAgree'
  <2>0. Calm' = Calm
    BY DEF Calm
  <2> SUFFICES ASSUME NEW p \in Calm, NEW s \in Sides, NEW n \in PeerRequests
               PROVE  CopyAgrees(p, s, n)'
    BY <2>0 DEF CopiesAgree
  <2> SUFFICES ASSUME drafts[<<p, s, n>>].open
               PROVE  CopyAgrees(p, s, n)'
    BY DEF CopyAgrees
  <2>1. CopyAgrees(p, s, n) /\ p \in PeerReviews
    BY DEF PeersIInv, CopiesAgree, Calm
  <2>2. p # r
    BY <2>1 DEF CopyAgrees
  <2>3. peerReviews'[p] = peerReviews[p]
    BY <2>1, <2>2 DEF PeersIInv, PeersTypeOK
  <2> QED  BY <2>1, <2>3 DEF CopyAgrees
<1>4. ReviewsStayBlind'
  BY DEF PeersIInv, ReviewsStayBlind
<1> QED  BY <1>1, <1>2, <1>3, <1>4 DEF PeersIInv

\* A new review is open and nobody has submitted to it.
LEMMA ReviewCreateStep ==
  ASSUME PeersIInv, NEW r \in PeerReviews, CreateReview(r) \/ EmitLeaderReview(r)
  PROVE  PeersIInv'
<1>1. CASE CreateReview(r)
  <2> DEFINE review == [peerReviews[r] EXCEPT !.status = "pending"]
  <2>1. review \in ReviewRecords
    BY DEF PeersIInv, PeersTypeOK, ReviewRecords
  <2>2. peerReviews' = [peerReviews EXCEPT ![r] = review]
    BY <1>1 DEF CreateReview, PeersIInv, PeersTypeOK, ReviewRecords
  <2> QED  BY <1>1, <2>1, <2>2, NewReviewStep DEF CreateReview
<1>2. CASE EmitLeaderReview(r)
  <2> DEFINE review == [status |-> "completed", by |-> {"leader"}]
  <2>1. review \in ReviewRecords
    BY DEF ReviewRecords, Sides
  <2> QED  BY <1>2, <2>1, NewReviewStep DEF EmitLeaderReview
<1> QED  BY <1>1, <1>2

\* Who may begin a submission was shown nothing, because the review is not completed.
LEMMA SubmitStep ==
  ASSUME PeersIInv, NEW r \in PeerReviews, NEW side \in Sides, NEW n \in PeerRequests,
         SubmitReview(r, side, n)
  PROVE  PeersIInv'
<1> DEFINE draft == [open |-> TRUE, by |-> peerReviews[r].by, informed |-> <<r, side>> \in shown]
<1> USE DEF PeersIInv
<1>1. /\ side \notin peerReviews[r].by
      /\ peerReviews[r].status \in {"pending", "partial"}
      /\ side = "member" => r \notin SoloReviews
      /\ drafts' = [drafts EXCEPT ![<<r, side, n>>] = draft]
      /\ hasty \subseteq hasty' /\ hasty' \subseteq PeerReviews
      /\ UNCHANGED <<peerReviews, shown, informed>>
  BY DEF SubmitReview, PeersTypeOK
<1>2. draft \in [open : BOOLEAN, by : SUBSET Sides, informed : BOOLEAN]
  BY DEF PeersTypeOK, ReviewRecords
<1>3. PeersTypeOK'
  BY <1>1, <1>2 DEF PeersTypeOK, Slips
<1>4. ShownAreDone'
  BY <1>1 DEF ShownAreDone, Calm
<1>5. CopiesAgree'
  <2> SUFFICES ASSUME NEW p \in Calm', NEW s \in Sides, NEW m \in PeerRequests
               PROVE  CopyAgrees(p, s, m)'
    BY DEF CopiesAgree
  <2>1. p \in Calm /\ p \in PeerReviews
    BY <1>1 DEF Calm
  <2>2. CASE <<p, s, m>> = <<r, side, n>>
    BY <1>1, <2>1, <2>2 DEF ShownAreDone, CopyAgrees, PeersTypeOK, Slips, Sides
  <2>3. CASE <<p, s, m>> # <<r, side, n>>
    BY <1>1, <2>1, <2>3 DEF CopiesAgree, CopyAgrees, PeersTypeOK, Slips
  <2> QED  BY <2>2, <2>3
<1>6. OneAtATime'
  <2> SUFFICES ASSUME NEW p \in Calm', NEW s \in Sides, NEW k \in PeerRequests,
                      NEW m \in PeerRequests,
                      drafts'[<<p, s, k>>].open, drafts'[<<p, s, m>>].open
               PROVE  k = m
    BY DEF OneAtATime
  <2>1. p \in Calm /\ p \in PeerReviews
    BY <1>1 DEF Calm
  <2>2. ASSUME NEW i \in PeerRequests, <<p, s, i>> # <<r, side, n>>
        PROVE  drafts'[<<p, s, i>>] = drafts[<<p, s, i>>]
    BY <1>1, <2>1, <2>2 DEF PeersTypeOK, Slips
  <2>3. CASE p = r /\ s = side
    <3>1. \A i \in PeerRequests : ~drafts[<<r, side, i>>].open
      BY <2>3 DEF SubmitReview, Calm
    <3> QED  BY <2>2, <2>3, <3>1
  <2>4. CASE ~(p = r /\ s = side)
    BY <2>1, <2>2, <2>4 DEF OneAtATime
  <2> QED  BY <2>3, <2>4
<1>7. ReviewsStayBlind'
  BY <1>1 DEF ReviewsStayBlind
<1> QED  BY <1>3, <1>4, <1>5, <1>6, <1>7

\* A put takes nothing back that another copy holds, and completes a review only when nobody
\* else has a submission on its way.
LEMMA DraftPutStep ==
  ASSUME PeersIInv, NEW r \in PeerReviews, NEW side \in Sides, NEW n \in PeerRequests,
         PutSubmission(r, side, n)
  PROVE  PeersIInv'
<1> DEFINE by == drafts[<<r, side, n>>].by \cup {side}
           review == [status |-> IF Completes(r, by) THEN "completed" ELSE "partial", by |-> by]
<1> USE DEF PeersIInv
<1>1. /\ drafts[<<r, side, n>>].open
      /\ peerReviews' = [peerReviews EXCEPT ![r] = review]
      /\ shown' = shown \cup (Shows(review, r) \cap {<<r, side>>})
      /\ informed' = IF drafts[<<r, side, n>>].informed THEN informed \cup {<<r, side>>}
                                                        ELSE informed
      /\ drafts' = [drafts EXCEPT ![<<r, side, n>>] = NoDraft]
      /\ UNCHANGED hasty
  BY DEF PutSubmission
<1>2. /\ r \in Calm => CopyAgrees(r, side, n)
      /\ peerReviews[r].by \subseteq Sides
      /\ <<r, side>> \in Seats /\ <<r, side, n>> \in Slips
      /\ drafts[<<r, side, n>>].by \subseteq Sides
  BY DEF CopiesAgree, PeersTypeOK, ReviewRecords, Seats, Slips
<1>3. by \subseteq Sides /\ review \in ReviewRecords
  BY <1>2 DEF ReviewRecords
<1>4. ReviewsStayBlind'
  BY <1>1, <1>2 DEF CopyAgrees, ReviewsStayBlind, Calm
<1>5. PeersTypeOK'
  BY <1>1, <1>2, <1>3 DEF PeersTypeOK, NoDraft
<1>6. ShownAreDone'
  <2> SUFFICES ASSUME NEW p \in Calm, NEW s \in Sides, <<p, s>> \in shown'
               PROVE  peerReviews'[p].status = "completed"
    BY <1>1 DEF ShownAreDone, Calm
  <2>1. CASE <<p, s>> \in shown
    <3>1. p # r
      BY <1>1, <1>2, <2>1 DEF ShownAreDone, CopyAgrees
    <3> QED  BY <1>1, <2>1, <3>1 DEF ShownAreDone, PeersTypeOK, Calm
  <2>2. CASE <<p, s>> \notin shown
    <3>1. p = r /\ review.status = "completed"
      BY <1>1, <2>2 DEF Shows
    <3> QED  BY <1>1, <3>1 DEF PeersTypeOK
  <2> QED  BY <2>1, <2>2
<1>7. CopiesAgree'
  <2> SUFFICES ASSUME NEW p \in Calm, NEW s \in Sides, NEW m \in PeerRequests
               PROVE  CopyAgrees(p, s, m)'
    <3>1. Calm' = Calm
      BY <1>1 DEF Calm
    <3> QED  BY <3>1 DEF CopiesAgree
  <2> SUFFICES ASSUME drafts'[<<p, s, m>>].open
               PROVE  CopyAgrees(p, s, m)'
    BY DEF CopyAgrees
  <2>0. CopyAgrees(p, s, m) /\ p \in PeerReviews /\ <<p, s, m>> \in Slips
    BY DEF Slips, CopiesAgree, Calm
  <2>1. /\ <<p, s, m>> # <<r, side, n>> /\ drafts'[<<p, s, m>>] = drafts[<<p, s, m>>]
        /\ CopyAgrees(p, s, m) /\ p \in PeerReviews
    BY <1>1, <2>0 DEF PeersTypeOK, NoDraft
  <2>2. CASE p # r
    BY <1>1, <2>1, <2>2 DEF CopyAgrees, PeersTypeOK
  <2>3. CASE p = r
    <3>1. s # side /\ Sides = {s, side}
      BY <1>1, <2>1, <2>3 DEF Sides, OneAtATime
    <3>2. s \notin by /\ drafts[<<r, s, m>>].by = {}
      BY <1>1, <1>2, <2>1, <2>3, <3>1 DEF CopyAgrees
    <3>3. ~Completes(r, by)
      BY <1>1, <1>2, <2>1, <2>3, <3>1, <3>2 DEF Completes, CopyAgrees
    <3> QED  BY <1>1, <1>3, <2>1, <2>3, <3>2, <3>3 DEF CopyAgrees, PeersTypeOK
  <2> QED  BY <2>2, <2>3
<1>8. OneAtATime'
  BY <1>1 DEF OneAtATime, PeersTypeOK, Slips, NoDraft, Calm
<1> QED  BY <1>4, <1>5, <1>6, <1>7, <1>8

\* A submission whose put fails is gone.
LEMMA LoseStep ==
  ASSUME PeersIInv, NEW r \in PeerReviews, NEW side \in Sides, NEW n \in PeerRequests,
         LoseReview(r, side, n)
  PROVE  PeersIInv'
<1> USE DEF PeersIInv, LoseReview
<1>1. PeersTypeOK'
  BY DEF PeersTypeOK, NoDraft, Slips
<1>2. CopiesAgree' /\ OneAtATime'
  BY DEF CopiesAgree, CopyAgrees, OneAtATime, PeersTypeOK, NoDraft, Slips, Calm
<1> QED  BY <1>1, <1>2 DEF ShownAreDone, ReviewsStayBlind, Calm

\* Only what is completed is shown.
LEMMA GetStep ==
  ASSUME PeersIInv, NEW r \in PeerReviews, GetReview(r)
  PROVE  PeersIInv'
<1> USE DEF PeersIInv, GetReview
<1>1. PeersTypeOK' /\ ShownAreDone'
  BY DEF PeersTypeOK, ShownAreDone, Shows, Seats, Calm
<1>2. CopiesAgree' /\ OneAtATime'
  BY DEF CopiesAgree, CopyAgrees, OneAtATime, Calm
<1> QED  BY <1>1, <1>2 DEF ReviewsStayBlind

\* Every step keeps the invariant.
LEMMA PeersInduction == PeersIInv /\ [PeersNext]_pdVars => PeersIInv'
<1> SUFFICES ASSUME PeersIInv, [PeersNext]_pdVars  PROVE PeersIInv'
  OBVIOUS
<1>1. CASE UNCHANGED pdVars
  BY <1>1 DEF pdVars, PeersIInv, PeersTypeOK, ShownAreDone, CopiesAgree, CopyAgrees, OneAtATime,
              ReviewsStayBlind, Calm
<1>2. CASE PeersNext
  BY <1>2, ReviewCreateStep, SubmitStep, DraftPutStep, LoseStep, GetStep DEF PeersNext
<1> QED  BY <1>1, <1>2

\* No side of a peer review submits after it was shown the submission of the other, for any
\* number of reviews and any overlap of requests, unless one side has had two submissions to
\* the review under way at once (stripPartialSubmissions, blindMaskReview and
\* handleSubmitReview of service/api/handlers.go).
THEOREM ReviewsAlwaysBlind == PeersSpec => []ReviewsStayBlind
<1>1. PeersIInv => ReviewsStayBlind
  BY DEF PeersIInv
<1> QED  BY <1>1, PeersStart, PeersInduction, PTL DEF PeersSpec

-----------------------------------------------------------------------------
(***************************************************************************)
(* A defeat is worth at most one more attempt, for any number of defeats   *)
(* and restarts and in every DM mode.  The watcher and the API decide on   *)
(* copies of their own, and either may put one that is long out of date;   *)
(* what holds of all of them is that a copy was made of a quest in triage, *)
(* which had one defeat more than attempts granted, and that the count of  *)
(* defeats never goes down.                                                *)
(***************************************************************************)
TriageSafe == TriageInit /\ [][TriageNext]_tdVars

\* A decision under way has a path, and when its copy is made that is of a quest in triage.
Owed(desk) ==
  /\ desk.at \notin {"idle", "asking"} => desk.path \in RecoveryPaths
  /\ desk.at = "putting" => desk.copy.extra < triaged.entries

QuestOwed ==
  /\ fallen.extra <= triaged.entries
  /\ fallen.status = "pending_triage" => fallen.extra < triaged.entries

TriageIInv == TriageTypeOK /\ QuestOwed /\ Owed(clerk) /\ Owed(dmDesk)

\* What the watcher's steps but the put leave alone.
Undecided == UNCHANGED <<dmMode, fallen, dmDesk, triaged>>

\* Nothing is in triage to begin with.
LEMMA TriageStart == TriageInit => TriageIInv
BY DEF TriageInit, TriageIInv, TriageTypeOK, QuestOwed, Owed, Fallen, FallenStatuses, Clerk,
       DMDesk, Unharmed, IdleClerk, RecoveryPaths

\* A decision grants no more than the defeat that its copy was made after.
LEMMA DecisionOwed ==
  ASSUME NEW q \in Fallen, NEW path \in RecoveryPaths, NEW n \in Nat, q.extra < n
  PROVE  /\ Decided(q, path) \in Fallen
         /\ Decided(q, path).extra <= n
         /\ Decided(q, path).status # "pending_triage"
<1>1. CASE path \in {"salvage", "tpk"}
  BY <1>1 DEF Decided, Fallen, FallenStatuses
<1>2. CASE path = "escalate"
  BY <1>2 DEF Decided, Fallen, FallenStatuses
<1>3. CASE path = "terminal"
  BY <1>3 DEF Decided, Fallen, FallenStatuses
<1> QED  BY <1>1, <1>2, <1>3 DEF RecoveryPaths

\* The watcher moves on with the quest as it is.
LEMMA ClerkMoves ==
  ASSUME TriageIInv, clerk' \in Clerk, Owed(clerk)', UNCHANGED <<dmMode, fallen, dmDesk>>,
         fallenFeed' \in Seq(FallenStatuses), triageCache' \in FallenStatuses \cup {"unseen"},
         approval' \in [pending : BOOLEAN, answer : SUBSET (RecoveryPaths \cup {"none"})],
         triaged' \in [entries : Nat, expired : Nat, crashes : Nat],
         triaged'.entries = triaged.entries
  PROVE  TriageIInv'
BY DEF TriageIInv, TriageTypeOK, QuestOwed, Owed

\* Either desk puts its copy, decided.
LEMMA DecisionPut ==
  ASSUME TriageIInv, NEW desk \in Clerk \cup DMDesk, Owed(desk), desk.at = "putting",
         PutFallen(Decided(desk.copy, desk.path)),
         clerk' \in {clerk, IdleClerk}, dmDesk' \in {dmDesk, IdleClerk},
         UNCHANGED <<dmMode, triageCache, approval, triaged>>
  PROVE  TriageIInv'
<1>1. /\ desk.copy \in Fallen /\ desk.path \in RecoveryPaths
      /\ triaged.entries \in Nat /\ desk.copy.extra < triaged.entries
  BY DEF TriageIInv, TriageTypeOK, Owed, Clerk, DMDesk
<1>2. /\ fallen' \in Fallen /\ fallen'.extra <= triaged.entries
      /\ fallen'.status # "pending_triage"
  BY <1>1, DecisionOwed DEF PutFallen
<1>3. fallenFeed' \in Seq(FallenStatuses)
  BY <1>2 DEF PutFallen, Fallen, TriageIInv, TriageTypeOK
<1>4. IdleClerk \in Clerk /\ IdleClerk \in DMDesk
  BY DEF IdleClerk, Clerk, DMDesk, Unharmed, Fallen, FallenStatuses
<1>5. TriageTypeOK'
  BY <1>2, <1>3, <1>4 DEF TriageIInv, TriageTypeOK
<1>6. Owed(clerk)' /\ Owed(dmDesk)'
  BY DEF TriageIInv, Owed, IdleClerk
<1> QED  BY <1>2, <1>5, <1>6 DEF TriageIInv, QuestOwed

\* The watcher: reads, asks, waits for the DM, reads again and puts.
LEMMA ClerkStepKeeps == TriageIInv /\ ClerkStep => TriageIInv'
<1> SUFFICES ASSUME TriageIInv, ClerkStep  PROVE TriageIInv'
  OBVIOUS
<1> DEFINE Calls == [pending : BOOLEAN, answer : SUBSET (RecoveryPaths \cup {"none"})]
<1>1. /\ clerk \in Clerk /\ fallen \in Fallen /\ fallenFeed \in Seq(FallenStatuses)
      /\ triageCache \in FallenStatuses \cup {"unseen"}
      /\ approval \in Calls
      /\ triaged \in [entries : Nat, expired : Nat, crashes : Nat]
      /\ Owed(clerk) /\ QuestOwed
  BY DEF TriageIInv, TriageTypeOK
<1>2. IdleClerk \in Clerk
  BY DEF IdleClerk, Clerk, Unharmed, Fallen, FallenStatuses
<1>3. CASE HandleTriageStateChange
  <2>1. /\ fallenFeed' \in Seq(FallenStatuses)
        /\ triageCache' \in FallenStatuses
    BY <1>1, <1>3 DEF HandleTriageStateChange
  <2>2. clerk' = clerk \/ clerk' = [IdleClerk EXCEPT !.at = "asking"]
    BY <1>3 DEF HandleTriageStateChange
  <2>3. clerk' \in Clerk /\ Owed(clerk)'
    BY <1>1, <1>2, <1>3, <2>2 DEF HandleTriageStateChange, Clerk, Owed, IdleClerk
  <2> QED  BY <1>1, <1>3, <2>1, <2>3, ClerkMoves DEF HandleTriageStateChange
<1>4. CASE CallTriageLLM
  <2>1. clerk' \in Clerk /\ Owed(clerk)'
    BY <1>1, <1>4 DEF CallTriageLLM, Clerk, Owed, RecoveryPaths
  <2> QED  BY <1>1, <1>4, <2>1, ClerkMoves DEF CallTriageLLM
<1>5. CASE StorePendingApproval
  <2>1. clerk' \in Clerk /\ Owed(clerk)'
    BY <1>1, <1>5 DEF StorePendingApproval, Clerk, Owed, RecoveryPaths
  <2>2. approval' \in Calls
    <3>1. approval' \in {approval, [pending |-> TRUE, answer |-> {}]}
      BY <1>5 DEF StorePendingApproval
    <3>2. [pending |-> TRUE, answer |-> {}] \in Calls
      OBVIOUS
    <3> QED  BY <1>1, <3>1, <3>2
  <2> QED  BY <1>1, <1>5, <2>1, <2>2, ClerkMoves DEF StorePendingApproval
<1>6. CASE SubscribeAndPublish
  <2>1. clerk' \in Clerk /\ Owed(clerk)'
    BY <1>1, <1>6 DEF SubscribeAndPublish, Clerk, Owed, RecoveryPaths
  <2> QED  BY <1>1, <1>6, <2>1, ClerkMoves DEF SubscribeAndPublish
<1>7. CASE ReceiveApproval
  <2>1. PICK path \in approval.answer :
          clerk' = [clerk EXCEPT !.at = "deciding", !.path = IF path = "none" THEN @ ELSE path]
    BY <1>7 DEF ReceiveApproval
  <2>2. clerk' \in Clerk /\ Owed(clerk)'
    BY <1>1, <1>7, <2>1 DEF ReceiveApproval, Clerk, Owed
  <2>3. approval' \in Calls
    BY <1>7 DEF ReceiveApproval
  <2> QED  BY <1>1, <1>7, <2>2, <2>3, ClerkMoves DEF ReceiveApproval
<1>8. CASE ApprovalExpires
  <2>1. clerk' \in Clerk /\ Owed(clerk)'
    BY <1>2, <1>8 DEF ApprovalExpires, Owed, IdleClerk
  <2> QED  BY <1>1, <1>8, <2>1, ClerkMoves DEF ApprovalExpires
<1>9. CASE TriageQuestRead
  <2>1. clerk' \in Clerk /\ Owed(clerk)'
    <3>1. CASE fallen.status = "pending_triage"
      BY <1>1, <1>9, <3>1 DEF TriageQuestRead, Clerk, Owed, QuestOwed
    <3>2. CASE fallen.status # "pending_triage"
      BY <1>2, <1>9, <3>2 DEF TriageQuestRead, Owed, IdleClerk
    <3> QED  BY <3>1, <3>2
  <2> QED  BY <1>1, <1>9, <2>1, ClerkMoves DEF TriageQuestRead
<1>10. CASE TriageQuestPut
  BY <1>1, <1>10, DecisionPut DEF TriageQuestPut
<1> QED  BY <1>3, <1>4, <1>5, <1>6, <1>7, <1>8, <1>9, <1>10 DEF ClerkStep

\* Every step keeps the invariant.
LEMMA TriageInduction == TriageIInv /\ [TriageNext]_tdVars => TriageIInv'
<1> SUFFICES ASSUME TriageIInv, [TriageNext]_tdVars  PROVE TriageIInv'
  OBVIOUS
<1>1. /\ clerk \in Clerk /\ dmDesk \in DMDesk /\ fallen \in Fallen
      /\ fallenFeed \in Seq(FallenStatuses)
      /\ triaged \in [entries : Nat, expired : Nat, crashes : Nat]
      /\ approval \in [pending : BOOLEAN, answer : SUBSET (RecoveryPaths \cup {"none"})]
      /\ Owed(clerk) /\ Owed(dmDesk) /\ QuestOwed
  BY DEF TriageIInv, TriageTypeOK
<1>2. IdleClerk \in Clerk /\ IdleClerk \in DMDesk
  BY DEF IdleClerk, Clerk, DMDesk, Unharmed, Fallen, FallenStatuses
<1>3. CASE UNCHANGED tdVars
  BY <1>3 DEF tdVars, TriageIInv, TriageTypeOK, QuestOwed, Owed
<1>4. CASE ConfigureTriage
  BY <1>4 DEF ConfigureTriage, TriageIInv, TriageTypeOK, QuestOwed, Owed
<1>5. CASE UseUpAttempts
  <2>1. fallen' = [fallen EXCEPT !.status = "pending_triage"]
        /\ fallenFeed' = Append(fallenFeed, fallen'.status)
    BY <1>5 DEF UseUpAttempts, PutFallen
  <2>2. fallen' \in Fallen /\ fallenFeed' \in Seq(FallenStatuses)
    BY <1>1, <2>1 DEF Fallen, FallenStatuses
  <2>3. /\ triaged' \in [entries : Nat, expired : Nat, crashes : Nat]
        /\ triaged'.entries = triaged.entries + 1
    BY <1>1, <1>5 DEF UseUpAttempts
  <2>4. TriageTypeOK'
    BY <1>5, <2>2, <2>3 DEF UseUpAttempts, TriageIInv, TriageTypeOK
  <2>5. QuestOwed'
    BY <1>1, <2>1, <2>3 DEF QuestOwed, Fallen
  <2>6. Owed(clerk)' /\ Owed(dmDesk)'
    BY <1>1, <1>5, <2>3 DEF UseUpAttempts, Owed, Clerk, DMDesk, Fallen
  <2> QED  BY <2>4, <2>5, <2>6 DEF TriageIInv
<1>6. CASE ClerkStep
  BY <1>6, ClerkStepKeeps
<1>7. ASSUME NEW path \in RecoveryPaths \cup {"none"}, RespondToApproval(path)
      PROVE  TriageIInv'
  <2>1. approval' \in [pending : BOOLEAN, answer : SUBSET (RecoveryPaths \cup {"none"})]
    BY <1>7 DEF RespondToApproval
  <2> QED  BY <1>7, <2>1 DEF RespondToApproval, TriageIInv, TriageTypeOK, QuestOwed, Owed
<1>8. ASSUME NEW path \in RecoveryPaths, DMTriageRead(path)
      PROVE  TriageIInv'
  <2>1. dmDesk' \in DMDesk /\ Owed(dmDesk)'
    BY <1>1, <1>8 DEF DMTriageRead, DMDesk, Owed, QuestOwed
  <2> QED  BY <1>8, <2>1 DEF DMTriageRead, TriageIInv, TriageTypeOK, QuestOwed, Owed
<1>9. CASE DMTriagePut
  BY <1>1, <1>9, DecisionPut DEF DMTriagePut
<1>10. CASE RestartTriage
  <2>1. fallenFeed' \in Seq(FallenStatuses)
    BY <1>1, <1>10 DEF RestartTriage, Fallen
  <2>2. /\ triaged' \in [entries : Nat, expired : Nat, crashes : Nat]
        /\ triaged'.entries = triaged.entries
        /\ approval' \in [pending : BOOLEAN, answer : SUBSET (RecoveryPaths \cup {"none"})]
    BY <1>1, <1>10 DEF RestartTriage
  <2>3. Owed(clerk)' /\ Owed(dmDesk)' /\ QuestOwed'
    BY <1>1, <1>10, <2>2 DEF RestartTriage, Owed, IdleClerk, QuestOwed
  <2> QED  BY <1>2, <1>10, <2>1, <2>2, <2>3 DEF RestartTriage, TriageIInv, TriageTypeOK
<1> QED  BY <1>3, <1>4, <1>5, <1>6, <1>7, <1>8, <1>9, <1>10 DEF TriageNext

\* Each time the quest uses up its attempts it is granted at most one more, whatever the watcher
\* and the DM decide, and however old the copies they put (TriageQuest of
\* questboard/handler.go, handleDMTriage of service/api/handlers.go).
THEOREM OneGrantAlways == TriageSafe => []OneGrantPerDefeat
<1>1. TriageIInv => OneGrantPerDefeat
  BY DEF TriageIInv, QuestOwed, OneGrantPerDefeat
<1> QED  BY <1>1, TriageStart, TriageInduction, PTL DEF TriageSafe

-----------------------------------------------------------------------------
(***************************************************************************)
(* What is proved of a conversation: for any number of requests, sessions, *)
(* lost acknowledgements, expiries and restarts, a turn that was           *)
(* acknowledged stays, no turn is in two sessions, and none is twice in    *)
(* one unless an acknowledgement was lost.                                 *)
(*                                                                         *)
(* A session is put only as it was read and one turn longer, which the     *)
(* compare-and-swap sees to.  What is left to show is that the turn is not *)
(* in a session yet: numbers of turns are given once, and a request that   *)
(* is still trying has been stored, if at all, in its own session and      *)
(* without being told.                                                     *)
(***************************************************************************)
ChatSpec == ChatInit /\ [][ChatNext]_chVars

ChatRec ==
  [at : {"idle", "asking", "retrying", "reading", "swapping"}, session : 0 .. TurnBound,
   turn : 0 .. TurnBound, quest : BOOLEAN, round : Nat, try : Nat, copy : Seq(Turns)]

ChatShape ==
  /\ dmSessions \in [Turns -> Seq(Turns)]
  /\ chatTraces \in Seq(Turns)
  /\ chats \in [Chatters -> ChatRec]
  /\ storedTurns \subseteq Turns \X Turns
  /\ chatCounts \in [turns : 0 .. TurnBound, acks : Nat, others : Nat]

Active(c) == chats[c].at # "idle"

\* Turns and sessions have been given a number; no two requests have the same.
NumbersGiven ==
  /\ \A s \in Turns : Range(dmSessions[s]) \subseteq 1 .. chatCounts.turns
  /\ \A c \in Chatters : Active(c) =>
       /\ chats[c].turn \in 1 .. chatCounts.turns
       /\ chats[c].session \in Turns
  /\ \A c, d \in Chatters : c # d /\ Active(c) /\ Active(d) => chats[c].turn # chats[d].turn

\* The turn of a request under way is stored nowhere but, its acknowledgement lost, in its session.
TurnsAtHome ==
  \A c \in Chatters, s \in Turns : Active(c) /\ chats[c].turn \in Range(dmSessions[s]) =>
    s = chats[c].session /\ chatCounts.acks > 0

ChatIInv == ChatShape /\ NumbersGiven /\ TurnsAtHome /\ TurnsKept

-----------------------------------------------------------------------------
\* Where the elements of a sequence that was appended to are.
LEMMA AppendPlaces ==
  ASSUME NEW S, NEW s \in Seq(S), NEW x \in S
  PROVE  /\ DOMAIN Append(s, x) = 1 .. Len(s) + 1
         /\ DOMAIN s = 1 .. Len(s) /\ Len(s) \in Nat
         /\ Append(s, x)[Len(s) + 1] = x
         /\ \A i \in 1 .. Len(s) : Append(s, x)[i] = s[i]
OBVIOUS

\* What a sequence that was appended to holds.
LEMMA AppendRange ==
  ASSUME NEW S, NEW s \in Seq(S), NEW x \in S
  PROVE  Range(Append(s, x)) = Range(s) \cup {x}
<1>1. ASSUME NEW y \in Range(Append(s, x))  PROVE y \in Range(s) \cup {x}
  <2>1. PICK i \in 1 .. Len(s) + 1 : y = Append(s, x)[i]
    BY <1>1, AppendPlaces DEF Range
  <2>2. CASE i = Len(s) + 1
    BY <2>1, <2>2, AppendPlaces
  <2>3. CASE i # Len(s) + 1
    <3>1. i \in DOMAIN s /\ y = s[i]
      BY <2>1, <2>3, AppendPlaces
    <3> QED  BY <3>1 DEF Range
  <2> QED  BY <2>2, <2>3
<1>2. x \in Range(Append(s, x))
  <2>1. Len(s) + 1 \in DOMAIN Append(s, x)
    BY AppendPlaces
  <2> QED  BY <2>1, AppendPlaces DEF Range
<1>3. ASSUME NEW y \in Range(s)  PROVE y \in Range(Append(s, x))
  <2>1. PICK i \in DOMAIN s : y = s[i]
    BY <1>3 DEF Range
  <2>2. i \in DOMAIN Append(s, x) /\ y = Append(s, x)[i]
    BY <2>1, AppendPlaces
  <2> QED  BY <2>2 DEF Range
<1> QED  BY <1>1, <1>2, <1>3

\* Appending what is not there yet keeps the elements distinct.
LEMMA AppendKeepsInjective ==
  ASSUME NEW S, NEW s \in Seq(S), NEW x \in S \ Range(s), IsInjective(s)
  PROVE  IsInjective(Append(s, x))
<1> SUFFICES ASSUME NEW i \in 1 .. Len(s) + 1, NEW j \in 1 .. Len(s) + 1,
                    Append(s, x)[i] = Append(s, x)[j]
             PROVE  i = j
  BY AppendPlaces DEF IsInjective
<1>1. \A k \in 1 .. Len(s) : s[k] \in Range(s)
  BY AppendPlaces DEF Range
<1>2. CASE i = Len(s) + 1 \/ j = Len(s) + 1
  BY <1>1, <1>2, AppendPlaces
<1>3. CASE i # Len(s) + 1 /\ j # Len(s) + 1
  <2>1. i \in DOMAIN s /\ j \in DOMAIN s /\ s[i] = s[j]
    BY <1>3, AppendPlaces
  <2> QED  BY <2>1 DEF IsInjective
<1> QED  BY <1>2, <1>3

\* What is left of the sessions at the limit.
LEMMA EvictedType ==
  ASSUME NEW traces \in Seq(Turns)
  PROVE  Evicted(traces) \in Seq(Turns)
<1>1. MaxChatSessions \div 2 \in Nat
  BY ChatAssumption
<1>2. ASSUME NEW m \in Nat  PROVE SubSeq(traces, m + 1, Len(traces)) \in Seq(Turns)
  BY SubSeqProperties
<1> QED  BY <1>1, <1>2 DEF Evicted

-----------------------------------------------------------------------------
\* Nothing is stored and nobody asks to begin with.
LEMMA ChatStart == ChatInit => ChatIInv
<1> SUFFICES ASSUME ChatInit  PROVE ChatIInv
  OBVIOUS
<1>1. ChatShape
  BY ChatAssumption DEF ChatInit, ChatShape, ChatRec, NoChat
<1>2. \A s \in Turns : Range(dmSessions[s]) = {} /\ IsInjective(dmSessions[s])
  BY DEF ChatInit, Range, IsInjective
<1>3. \A c \in Chatters : ~Active(c)
  BY DEF ChatInit, Active, NoChat
<1>4. storedTurns = {}
  BY DEF ChatInit
<1> QED  BY <1>1, <1>2, <1>3, <1>4 DEF ChatIInv, NumbersGiven, TurnsAtHome, TurnsKept

\* Requests go on or end; nothing is stored.
LEMMA QuietStep ==
  ASSUME ChatIInv, chats' \in [Chatters -> ChatRec], chatTraces' \in Seq(Turns),
         \A d \in Chatters : Active(d)' =>
           Active(d) /\ chats'[d].turn = chats[d].turn /\ chats'[d].session = chats[d].session,
         UNCHANGED <<dmSessions, storedTurns>>,
         chatCounts' \in [turns : 0 .. TurnBound, acks : Nat, others : Nat],
         chatCounts'.turns = chatCounts.turns, chatCounts'.acks = chatCounts.acks
  PROVE  ChatIInv'
<1>1. ChatShape'
  BY DEF ChatIInv, ChatShape
<1>2. NumbersGiven' /\ TurnsAtHome'
  BY DEF ChatIInv, NumbersGiven, TurnsAtHome
<1>3. TurnsKept'
  BY DEF ChatIInv, TurnsKept
<1> QED  BY <1>1, <1>2, <1>3 DEF ChatIInv

\* A session that is still as it was read gets the turn; whoever tries on was not told.
LEMMA PutTurnStep ==
  ASSUME ChatIInv, NEW c \in Chatters, Active(c), Current(c), PutTurn(c),
         chats' \in [Chatters -> ChatRec],
         \A d \in Chatters : Active(d)' =>
           Active(d) /\ chats'[d].turn = chats[d].turn /\ chats'[d].session = chats[d].session,
         storedTurns' \in {storedTurns, storedTurns \cup {<<chats[c].session, chats[c].turn>>}},
         chatCounts' \in [turns : 0 .. TurnBound, acks : Nat, others : Nat],
         chatCounts'.turns = chatCounts.turns, chatCounts'.acks >= chatCounts.acks,
         Active(c)' => chatCounts'.acks > 0,
         UNCHANGED chatTraces
  PROVE  ChatIInv'
<1> DEFINE home == chats[c].session
           t == chats[c].turn
<1> USE DEF ChatIInv
<1>1. /\ home \in Turns /\ t \in Turns /\ t \in 1 .. chatCounts.turns
      /\ dmSessions[home] \in Seq(Turns)
      /\ dmSessions' = [dmSessions EXCEPT ![home] = Append(dmSessions[home], t)]
      /\ chatCounts.acks \in Nat /\ chatCounts.turns \in 0 .. TurnBound
  BY ChatAssumption DEF ChatShape, NumbersGiven, Current, PutTurn, Turns
<1>2. \A s \in Turns :
        Range(dmSessions'[s]) = IF s = home THEN Range(dmSessions[s]) \cup {t}
                                            ELSE Range(dmSessions[s])
  <2>1. Range(Append(dmSessions[home], t)) = Range(dmSessions[home]) \cup {t}
    BY <1>1, AppendRange
  <2>2. \A s \in Turns :
          dmSessions'[s] = IF s = home THEN Append(dmSessions[home], t) ELSE dmSessions[s]
    BY <1>1 DEF ChatShape
  <2> QED  BY <2>1, <2>2
<1>3. \A s \in Turns : t \in Range(dmSessions[s]) => s = home /\ chatCounts.acks > 0
  BY DEF TurnsAtHome
<1>4. ChatShape'
  <2>1. Append(dmSessions[home], t) \in Seq(Turns)
    BY <1>1
  <2> QED  BY <1>1, <2>1 DEF ChatShape
<1>5. NumbersGiven'
  <2>1. \A s \in Turns : Range(dmSessions[s]) \cup {t} \subseteq 1 .. chatCounts.turns
    BY <1>1 DEF NumbersGiven
  <2>2. \A s \in Turns : Range(dmSessions'[s]) \subseteq Range(dmSessions[s]) \cup {t}
    BY <1>2
  <2>3. \A s \in Turns : Range(dmSessions'[s]) \subseteq 1 .. chatCounts'.turns
    BY <2>1, <2>2
  <2> QED  BY <2>3 DEF NumbersGiven
<1>6. TurnsAtHome'
  <2> SUFFICES ASSUME NEW d \in Chatters, NEW s \in Turns, Active(d)',
                      chats'[d].turn \in Range(dmSessions'[s])
               PROVE  s = chats'[d].session /\ chatCounts'.acks > 0
    BY DEF TurnsAtHome
  <2>1. CASE d = c
    BY <1>2, <1>3, <2>1
  <2>2. CASE d # c
    <3>1. chats[d].turn # t
      BY <2>2 DEF NumbersGiven
    <3>2. chats[d].turn \in Range(dmSessions[s])
      BY <1>2, <3>1
    <3> QED  BY <1>1, <3>2 DEF TurnsAtHome
  <2> QED  BY <2>1, <2>2
<1>7. TurnsKept'
  <2>1. ASSUME NEW x \in storedTurns'  PROVE x[2] \in Range(dmSessions'[x[1]])
    <3>1. CASE x = <<home, t>>
      <4>1. x[1] = home /\ x[2] = t
        BY <3>1
      <4>2. home \in Turns
        BY <1>1
      <4>3. Range(dmSessions'[home]) = Range(dmSessions[home]) \cup {t}
        BY ONLY <1>2, <4>2
      <4>4. t \in Range(dmSessions'[home])
        BY ONLY <4>3
      <4> QED  BY <4>1, <4>4
    <3>2. CASE x \in storedTurns
      <4>1. x[1] \in Turns /\ x[2] \in Range(dmSessions[x[1]])
        BY <3>2 DEF TurnsKept, ChatShape
      <4> QED  BY <1>2, <4>1
    <3> QED  BY <3>1, <3>2
  <2>2. \A r, s \in Turns : r # s => Range(dmSessions'[r]) \cap Range(dmSessions'[s]) = {}
    BY <1>2, <1>3 DEF TurnsKept
  <2>3. ASSUME chatCounts'.acks = 0, NEW s \in Turns  PROVE IsInjective(dmSessions'[s])
    <3>1. chatCounts.acks = 0
      BY <1>1, <2>3
    <3>2. IsInjective(dmSessions[s])
      BY <3>1 DEF TurnsKept
    <3>3. CASE s = home
      <4>1. t \in Turns \ Range(dmSessions[home])
        BY <1>1, <1>3, <3>1
      <4>2. dmSessions'[home] = Append(dmSessions[home], t)
        BY <1>1 DEF ChatShape
      <4> QED  BY <1>1, <3>2, <3>3, <4>1, <4>2, AppendKeepsInjective
    <3>4. CASE s # home
      BY <1>1, <3>2, <3>4 DEF ChatShape
    <3> QED  BY <3>3, <3>4
  <2> QED  BY <2>1, <2>2, <2>3 DEF TurnsKept
<1> QED  BY <1>4, <1>5, <1>6, <1>7

\* A request gets the next number, and a session that is known or has that number.
LEMMA HandleStep ==
  ASSUME ChatIInv, NEW c \in Chatters, HandleDMChat(c)
  PROVE  ChatIInv'
<1> DEFINE t == chatCounts.turns + 1
<1> USE DEF ChatIInv
<1>1. /\ t \in Turns /\ t \in 1 .. TurnBound /\ chatCounts.turns \in 0 .. TurnBound
      /\ chatCounts'.turns = t /\ chatCounts'.acks = chatCounts.acks
      /\ chatCounts' \in [turns : 0 .. TurnBound, acks : Nat, others : Nat]
      /\ UNCHANGED <<dmSessions, storedTurns>>
      /\ ~Active(c)
  <2>1. /\ chatCounts.turns \in 0 .. TurnBound /\ chatCounts.turns < TurnBound
        /\ chatCounts' = [chatCounts EXCEPT !.turns = t]
        /\ chatCounts \in [turns : 0 .. TurnBound, acks : Nat, others : Nat]
    BY DEF HandleDMChat, ChatShape
  <2>2. t \in 1 .. TurnBound
    BY <2>1, ChatAssumption
  <2>3. ~Active(c) /\ UNCHANGED <<dmSessions, storedTurns>>
    BY DEF HandleDMChat, Active
  <2> QED  BY <2>1, <2>2, <2>3 DEF Turns
<1>2. PICK named \in {0} \cup 1 .. chatCounts.turns, quest \in BOOLEAN, refused \in BOOLEAN :
        GetOrCreateChatTrace(c, named, t, quest, refused)
  BY DEF HandleDMChat
<1>3. chatTraces' \in Seq(Turns)
  <2>1. Append(Evicted(chatTraces), t) \in Seq(Turns)
    BY <1>1, EvictedType DEF ChatShape
  <2> QED  BY <1>2, <2>1 DEF GetOrCreateChatTrace, ChatShape
<1> DEFINE asked(s) ==
      [NoChat EXCEPT !.at = "asking", !.turn = t, !.quest = quest, !.session = s]
<1>4. chats' = chats \/ \E s \in Turns : chats' = [chats EXCEPT ![c] = asked(s)]
  <2>1. named \in Range(chatTraces) => named \in Turns
    BY RangeOfSeq DEF ChatShape
  <2> QED  BY <1>1, <1>2, <2>1 DEF GetOrCreateChatTrace
<1>5. ASSUME NEW s \in Turns
      PROVE  asked(s) \in ChatRec /\ asked(s).turn = t /\ asked(s).session = s
  <2>1. NoChat \in ChatRec
    BY ChatAssumption, EmptySeq DEF NoChat, ChatRec
  <2>2. s \in 0 .. TurnBound /\ t \in 0 .. TurnBound
    BY <1>1, ChatAssumption DEF Turns
  <2> QED  BY <2>1, <2>2 DEF ChatRec
<1>6. chats' \in [Chatters -> ChatRec]
  BY <1>4, <1>5 DEF ChatShape
<1>7. ASSUME NEW d \in Chatters
      PROVE  \/ d # c /\ chats'[d] = chats[d]
             \/ d = c /\ (Active(d)' => chats'[d].turn = t /\ chats'[d].session \in Turns)
  <2>1. CASE chats' = chats
    BY <1>1, <2>1 DEF Active
  <2>2. CASE chats' # chats
    <3>1. PICK s \in Turns : chats' = [chats EXCEPT ![c] = asked(s)]
      BY <1>4, <2>2
    <3>2. CASE d = c
      <4>1. chats'[d] = asked(s)
        BY <3>1, <3>2 DEF ChatShape
      <4> QED  BY <1>5, <3>2, <4>1
    <3>3. CASE d # c
      BY <3>1, <3>3 DEF ChatShape
    <3> QED  BY <3>2, <3>3
  <2> QED  BY <2>1, <2>2
<1>8. ChatShape'
  BY <1>1, <1>3, <1>6 DEF ChatShape
<1>9. NumbersGiven'
  BY <1>1, <1>7 DEF NumbersGiven, Active
<1>10. TurnsAtHome'
  BY <1>1, <1>7 DEF NumbersGiven, TurnsAtHome, Active
<1>11. TurnsKept'
  BY <1>1 DEF TurnsKept
<1> QED  BY <1>8, <1>9, <1>10, <1>11

\* Rounds of the LLM, the retry, the read: a request goes on with its turn, or ends.
LEMMA GoOnStep ==
  ASSUME ChatIInv, NEW c \in Chatters, AskDM(c) \/ RetryQuest(c) \/ ReadSession(c)
  PROVE  ChatIInv'
<1> USE DEF ChatIInv
<1>1. chats[c].at # "idle" /\ UNCHANGED <<dmSessions, chatTraces, storedTurns, chatCounts>>
  BY DEF AskDM, RetryQuest, ReadSession
<1>2. NoChat \in ChatRec
  BY ChatAssumption, EmptySeq DEF NoChat, ChatRec
<1> DEFINE Goes(next) ==
        /\ next \in ChatRec
        /\ chats' = [chats EXCEPT ![c] = next]
        /\ next.at # "idle" => next.turn = chats[c].turn /\ next.session = chats[c].session
<1>3. \E next : Goes(next)
  <2>1. chats[c] \in ChatRec
    BY DEF ChatShape
  <2>2. CASE chats' = [chats EXCEPT ![c] = NoChat]
    <3>1. NoChat.at = "idle"
      BY DEF NoChat
    <3>2. Goes(NoChat)
      BY <1>2, <2>2, <3>1
    <3> QED  BY <3>2
  <2>3. ASSUME NEW found, Answered(c, found)  PROVE \E next : Goes(next)
    <3> DEFINE new == [chats[c] EXCEPT
          !.at = IF chats[c].quest /\ found = "none" THEN "retrying" ELSE "reading",
          !.quest = FALSE, !.round = 0]
    <3>1. new \in ChatRec /\ new.turn = chats[c].turn /\ new.session = chats[c].session
      BY <2>1 DEF ChatRec
    <3>2. chats' = [chats EXCEPT ![c] = new]
      BY <2>3 DEF Answered, ChatShape
    <3> QED  BY <3>1, <3>2
  <2>4. CASE chats' = [chats EXCEPT ![c].round = @ + 1]
    <3> DEFINE new == [chats[c] EXCEPT !.round = @ + 1]
    <3>1. new \in ChatRec /\ new.turn = chats[c].turn /\ new.session = chats[c].session
      BY <2>1 DEF ChatRec
    <3>2. chats' = [chats EXCEPT ![c] = new]
      BY <2>4
    <3> QED  BY <3>1, <3>2
  <2>5. CASE chats' = [chats EXCEPT ![c].at = "reading"]
    <3> DEFINE new == [chats[c] EXCEPT !.at = "reading"]
    <3>1. new \in ChatRec /\ new.turn = chats[c].turn /\ new.session = chats[c].session
      BY <2>1 DEF ChatRec
    <3>2. chats' = [chats EXCEPT ![c] = new]
      BY <2>5
    <3> QED  BY <3>1, <3>2
  <2>6. CASE ReadSession(c) /\ chats' # [chats EXCEPT ![c] = NoChat]
    <3> DEFINE new == [chats[c] EXCEPT !.at = "swapping", !.copy = dmSessions[chats[c].session]]
    <3>1. chats[c].session \in Turns
      BY <1>1 DEF NumbersGiven, Active
    <3>2. new \in ChatRec /\ new.turn = chats[c].turn /\ new.session = chats[c].session
      BY <2>1, <3>1 DEF ChatRec, ChatShape
    <3>3. chats' = [chats EXCEPT ![c] = new]
      BY <2>6 DEF ReadSession
    <3> QED  BY <3>2, <3>3
  <2> QED  BY <2>2, <2>3, <2>4, <2>5, <2>6 DEF AskDM, RetryQuest, ReadSession
<1>4. PICK next : Goes(next)
  BY <1>3
<1>5. /\ chats' \in [Chatters -> ChatRec]
      /\ \A d \in Chatters : Active(d)' =>
           Active(d) /\ chats'[d].turn = chats[d].turn /\ chats'[d].session = chats[d].session
  BY <1>1, <1>4 DEF ChatShape, Active
<1> QED  BY <1>1, <1>5, QuietStep DEF ChatShape

\* The compare-and-swap: it puts and is told, puts and is not told, or finds another copy.
LEMMA SwapStep ==
  ASSUME ChatIInv, NEW c \in Chatters, SwapSession(c)
  PROVE  ChatIInv'
<1> USE DEF ChatIInv
<1>1. Active(c) /\ chats[c] \in ChatRec /\ UNCHANGED chatTraces
      /\ chatCounts \in [turns : 0 .. TurnBound, acks : Nat, others : Nat]
  BY DEF SwapSession, Active, ChatShape
<1>2. NoChat \in ChatRec /\ NoChat.at = "idle"
  BY ChatAssumption, EmptySeq DEF NoChat, ChatRec
<1> DEFINE retry == [chats[c] EXCEPT !.at = "reading", !.try = @ + 1, !.copy = <<>>]
           GoesOn == \A d \in Chatters : Active(d)' =>
             Active(d) /\ chats'[d].turn = chats[d].turn /\ chats'[d].session = chats[d].session
<1>3. retry \in ChatRec /\ retry.turn = chats[c].turn /\ retry.session = chats[c].session
  <2>1. <<>> \in Seq(Turns) /\ chats[c].try + 1 \in Nat
    BY <1>1, EmptySeq DEF ChatRec
  <2> QED  BY <1>1, <2>1 DEF ChatRec
<1>4. ASSUME chats' = [chats EXCEPT ![c] = NoChat]
      PROVE  chats' \in [Chatters -> ChatRec] /\ GoesOn /\ ~Active(c)'
  BY <1>2, <1>4 DEF ChatShape, Active
<1>5. ASSUME TryAgain(c)
      PROVE  chats' \in [Chatters -> ChatRec] /\ GoesOn
  <2>1. chats' \in {[chats EXCEPT ![c] = retry], [chats EXCEPT ![c] = NoChat]}
    <3>1. CASE chats[c].try + 1 < AppendTries
      <4>1. chats' = [chats EXCEPT ![c] =
                       IF chats[c].try + 1 < AppendTries THEN retry ELSE NoChat]
        BY <1>5 DEF TryAgain
      <4> QED  BY <3>1, <4>1
    <3>2. CASE ~(chats[c].try + 1 < AppendTries)
      BY <1>5, <3>2 DEF TryAgain, ChatShape
    <3> QED  BY <3>1, <3>2
  <2>2. CASE chats' = [chats EXCEPT ![c] = retry]
    BY <1>1, <1>3, <2>2 DEF ChatShape, Active
  <2> QED  BY <1>4, <2>1, <2>2
<1>6. CASE /\ Current(c) /\ PutTurn(c) /\ UNCHANGED chatCounts
           /\ storedTurns' = storedTurns \cup {<<chats[c].session, chats[c].turn>>}
           /\ chats' = [chats EXCEPT ![c] = NoChat]
  BY <1>1, <1>4, <1>6, PutTurnStep
<1>7. CASE /\ Current(c) /\ PutTurn(c) /\ TryAgain(c) /\ UNCHANGED storedTurns
           /\ chatCounts' = [chatCounts EXCEPT !.acks = @ + 1]
  BY <1>1, <1>5, <1>7, PutTurnStep
<1>8. CASE TryAgain(c) /\ UNCHANGED <<dmSessions, storedTurns, chatCounts>>
  BY <1>1, <1>5, <1>8, QuietStep DEF ChatShape
<1> QED  BY <1>1, <1>6, <1>7, <1>8 DEF SwapSession

\* A session that expires takes its turns along, told ones too.
LEMMA ExpireStep ==
  ASSUME ChatIInv, NEW s \in Turns, SessionExpires(s)
  PROVE  ChatIInv'
<1> USE DEF ChatIInv
<1>1. /\ dmSessions' = [dmSessions EXCEPT ![s] = <<>>]
      /\ storedTurns' = {x \in storedTurns : x[1] # s}
      /\ UNCHANGED <<chatTraces, chats>>
      /\ chatCounts' = [chatCounts EXCEPT !.others = @ + 1]
  BY DEF SessionExpires, ChatMishap
<1>2. /\ chatCounts' \in [turns : 0 .. TurnBound, acks : Nat, others : Nat]
      /\ chatCounts'.turns = chatCounts.turns /\ chatCounts'.acks = chatCounts.acks
  <2>1. chatCounts \in [turns : 0 .. TurnBound, acks : Nat, others : Nat]
    BY DEF ChatShape
  <2> QED  BY <1>1, <2>1
<1>3. ChatShape'
  BY <1>1, <1>2, EmptySeq DEF ChatShape
<1>4. /\ Range(<<>>) = {} /\ IsInjective(<<>>)
      /\ \A r \in Turns : dmSessions'[r] = IF r = s THEN <<>> ELSE dmSessions[r]
  BY <1>1 DEF ChatShape, Range, IsInjective
<1>5. NumbersGiven' /\ TurnsAtHome'
  BY <1>1, <1>2, <1>4 DEF NumbersGiven, TurnsAtHome, Active
<1>6. TurnsKept'
  <2>1. \A x \in storedTurns' : x \in storedTurns /\ x[1] # s /\ x[1] \in Turns
    BY <1>1 DEF ChatShape
  <2>2. \A x \in storedTurns' : x[2] \in Range(dmSessions'[x[1]])
    BY <1>4, <2>1 DEF TurnsKept
  <2> QED  BY <1>2, <1>4, <2>2 DEF TurnsKept
<1> QED  BY <1>3, <1>5, <1>6

\* A restart forgets requests and sessions in memory, and nothing that is stored.
LEMMA ChatRestartStep == ChatIInv /\ RestartChat => ChatIInv'
<1> SUFFICES ASSUME ChatIInv, RestartChat  PROVE ChatIInv'
  OBVIOUS
<1>1. /\ chatTraces' = <<>> /\ chats' = [c \in Chatters |-> NoChat]
      /\ UNCHANGED <<dmSessions, storedTurns>>
      /\ chatCounts' = [chatCounts EXCEPT !.others = @ + 1]
  BY DEF RestartChat, ChatMishap
<1>2. NoChat \in ChatRec /\ NoChat.at = "idle"
  BY ChatAssumption, EmptySeq DEF NoChat, ChatRec
<1>3. /\ chatCounts' \in [turns : 0 .. TurnBound, acks : Nat, others : Nat]
      /\ chatCounts'.turns = chatCounts.turns /\ chatCounts'.acks = chatCounts.acks
  <2>1. chatCounts \in [turns : 0 .. TurnBound, acks : Nat, others : Nat]
    BY DEF ChatIInv, ChatShape
  <2> QED  BY <1>1, <2>1
<1>4. chatTraces' \in Seq(Turns)
  BY <1>1, EmptySeq
<1> QED  BY <1>1, <1>2, <1>3, <1>4, QuietStep DEF Active

\* Every step keeps the invariant.
LEMMA ChatInduction == ChatIInv /\ [ChatNext]_chVars => ChatIInv'
<1> SUFFICES ASSUME ChatIInv, [ChatNext]_chVars  PROVE ChatIInv'
  OBVIOUS
<1>1. CASE UNCHANGED chVars
  BY <1>1, QuietStep DEF chVars, ChatIInv, ChatShape, Active
<1>2. CASE ChatNext
  BY <1>2, HandleStep, GoOnStep, SwapStep, ExpireStep, ChatRestartStep DEF ChatNext
<1> QED  BY <1>1, <1>2

\* A turn whose storing was acknowledged stays in its session, no turn is in two sessions, and
\* none is twice in one unless an acknowledgement was lost (appendTurn and
\* getOrCreateChatTrace of service/api).
THEOREM TurnsAlwaysKept == ChatSpec => []TurnsKept
<1>1. ChatIInv => TurnsKept
  BY DEF ChatIInv
<1> QED  BY <1>1, ChatStart, ChatInduction, PTL DEF ChatSpec
=============================================================================
