--------------------------- MODULE QuestLifecycle ---------------------------
(***************************************************************************)
(* The abstract life of a quest: which status may follow which, and        *)
(* nothing about who causes it.  docs/03-QUESTS.md draws this machine; the *)
(* relation below is read off the guards and assignments of the handlers   *)
(* in processor/questboard/handler.go, which allow more than the drawing:  *)
(* the edge into in_progress that skips claimed (ClaimAndStartForParty),   *)
(* the edges out of pending_triage, an escalation from any status that is  *)
(* not completed, cancelled or escalated, and the way back to the board    *)
(* from any status at all (RepostForRetry).  What it forbids: a worker     *)
(* without a posting before, a verdict on what nobody worked on, and a     *)
(* completed quest failed, escalated or taken up again but by a repost.    *)
(***************************************************************************)

CONSTANT Quests          \* identifiers of quest entities

VARIABLE status          \* status of each quest entity in the KV bucket

\* domain.QuestStatus; "unposted" stands for a key that was never written.
Statuses == {"unposted", "posted", "claimed", "in_progress", "in_review",
             "completed", "failed", "escalated", "pending_triage"}

\* An agent or a party is working on the quest, or its work is under review.
Active == {"claimed", "in_progress", "in_review"}

\* Pairs <<before, after>> a single handler may produce.
Transitions ==
  {<<"unposted", "posted">>,                         \* PostQuest
   <<"posted", "claimed">>,                          \* ClaimQuest
   <<"posted", "in_progress">>,                      \* ClaimAndStartForParty
   <<"claimed", "in_progress">>,                     \* StartQuest
   <<"in_progress", "in_review">>,                   \* SubmitResult, review
   <<"in_progress", "completed">>,                   \* SubmitResult, no review
   <<"in_review", "completed">>}                     \* CompleteQuest
  \cup ((Statuses \ {"unposted", "posted"}) \X {"posted"})
  \cup ({"in_progress", "in_review"} \X {"failed", "pending_triage"})
  \cup {<<"pending_triage", "failed">>}              \* TriageQuest, terminal
  \cup ((Active \cup {"posted", "failed", "pending_triage"}) \X {"escalated"})

Init == status = [q \in Quests |-> "unposted"]

Move(q) ==
  \E to \in Statuses :
    /\ <<status[q], to>> \in Transitions
    /\ status' = [status EXCEPT ![q] = to]

Next == \E q \in Quests : Move(q)

Spec == Init /\ [][Next]_status
=============================================================================
