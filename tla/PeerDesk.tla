------------------------------ MODULE PeerDesk ------------------------------
(***************************************************************************)
(* Peer reviews at the API: the leader and the member of a task rate each  *)
(* other, and neither is to see the other's submission before its own      *)
(* counts (docs/04-PARTIES.md:315).  A submission is a read, a check and a *)
(* put of the whole review, without compare-and-swap, and is answered with *)
(* the review.  Requests overlap, those of one side too: a form that is    *)
(* sent twice, or again after a time-out.  Not modelled: the ratings       *)
(* themselves.                                                             *)
(***************************************************************************)
CONSTANTS
  PeerReviews,   \* reviews
  SoloReviews,   \* those of solo tasks, where only the leader submits
  PeerRequests   \* bound: the requests that a side may have under way at a time

ASSUME PeersAssumption == SoloReviews \subseteq PeerReviews

VARIABLES
  peerReviews,   \* the entities, and who has submitted
  drafts,        \* submissions between their read and their put, with the copy that was read
  shown,         \* history: who was shown the submission of the other
  informed,      \* history: who submitted after that
  hasty          \* history: reviews to which one side had two submissions under way

pdVars == <<peerReviews, drafts, shown, informed, hasty>>

Sides == {"leader", "member"}
Seats == PeerReviews \X Sides
Slips == PeerReviews \X Sides \X PeerRequests
ReviewRecords == [status : {"none", "pending", "partial", "completed"}, by : SUBSET Sides]
NoDraft == [open |-> FALSE, by |-> {}, informed |-> FALSE]

PeersTypeOK ==
  /\ peerReviews \in [PeerReviews -> ReviewRecords]
  /\ drafts \in [Slips -> [open : BOOLEAN, by : SUBSET Sides, informed : BOOLEAN]]
  /\ shown \subseteq Seats /\ informed \subseteq Seats /\ hasty \subseteq PeerReviews

PeersInit ==
  /\ peerReviews = [r \in PeerReviews |-> [status |-> "none", by |-> {}]]
  /\ drafts = [s \in Slips |-> NoDraft]
  /\ shown = {} /\ informed = {} /\ hasty = {}

-----------------------------------------------------------------------------
CreateReview(r) ==
  /\ peerReviews[r].status = "none"
  /\ peerReviews' = [peerReviews EXCEPT ![r].status = "pending"]
  /\ UNCHANGED <<drafts, shown, informed, hasty>>

\* bossbattle's and questdagexec's reviews are complete when they are put.
EmitLeaderReview(r) ==
  /\ peerReviews[r].status = "none"
  /\ peerReviews' = [peerReviews EXCEPT ![r] = [status |-> "completed", by |-> {"leader"}]]
  /\ UNCHANGED <<drafts, shown, informed, hasty>>

\* A request reads the review and is refused, or goes on with its copy.
SubmitReview(r, side, n) ==
  /\ ~drafts[<<r, side, n>>].open
  /\ peerReviews[r].status \in {"pending", "partial"}
  /\ side \notin peerReviews[r].by
  /\ side = "member" => r \notin SoloReviews
  /\ drafts' = [drafts EXCEPT ![<<r, side, n>>] =
       [open |-> TRUE, by |-> peerReviews[r].by, informed |-> <<r, side>> \in shown]]
  /\ hasty' = hasty \cup {p \in {r} : \E m \in PeerRequests : drafts[<<p, side, m>>].open}
  /\ UNCHANGED <<peerReviews, shown, informed>>

Completes(r, by) == by = (IF r \in SoloReviews THEN {"leader"} ELSE Sides)

\* Mutant: a review is shown as it is stored.
ShowsPlain(review, r) == {<<r, s>> : s \in {t \in Sides : review.by \ {t} # {}}}

\* What a review shows of each side's submission to the other: stripPartialSubmissions and
\* blindMaskReview hide it until the review is completed.
Shows(review, r) ==
  IF review.status = "completed" THEN {<<r, s>> : s \in {t \in Sides : review.by \ {t} # {}}} ELSE {}

\* A submission that is put is answered with the review, masked for its author.
PutSubmission(r, side, n) ==
  LET draft == drafts[<<r, side, n>>]
      by == draft.by \cup {side}
      review == [status |-> IF Completes(r, by) THEN "completed" ELSE "partial", by |-> by]
  IN /\ draft.open
     /\ peerReviews' = [peerReviews EXCEPT ![r] = review]
     /\ shown' = shown \cup (Shows(review, r) \cap {<<r, side>>})
     /\ informed' = IF draft.informed THEN informed \cup {<<r, side>>} ELSE informed
     /\ drafts' = [drafts EXCEPT ![<<r, side, n>>] = NoDraft]
     /\ UNCHANGED hasty

LoseReview(r, side, n) ==
  /\ drafts[<<r, side, n>>].open
  /\ drafts' = [drafts EXCEPT ![<<r, side, n>>] = NoDraft]
  /\ UNCHANGED <<peerReviews, shown, informed, hasty>>

\* Anyone may read a review, alone or in a list.
GetReview(r) ==
  /\ shown' = shown \cup Shows(peerReviews[r], r)
  /\ UNCHANGED <<peerReviews, drafts, informed, hasty>>

PeersNext ==
  \/ \E r \in PeerReviews : CreateReview(r)
  \/ \E r \in PeerReviews : EmitLeaderReview(r)
  \/ \E r \in PeerReviews : \E side \in Sides : \E n \in PeerRequests : SubmitReview(r, side, n)
  \/ \E r \in PeerReviews : \E side \in Sides : \E n \in PeerRequests : PutSubmission(r, side, n)
  \/ \E r \in PeerReviews : \E side \in Sides : \E n \in PeerRequests : LoseReview(r, side, n)
  \/ \E r \in PeerReviews : GetReview(r)

-----------------------------------------------------------------------------
(* Safety: no side submits after it was shown the other's submission,      *)
(* though a put may lose the other's submission and so invite a second     *)
(* one, and though anyone may read reviews meanwhile.  That needs one      *)
(* thing of the clients: a side with two submissions under way at once may *)
(* complete the review with one and take the other side's submission back  *)
(* with the other, after it was shown.                                     *)
ReviewsStayBlind == \A seat \in informed : seat[1] \in hasty
=============================================================================
