----------------------------- MODULE TriageDesk -----------------------------
(***************************************************************************)
(* What becomes of a quest that has used up its attempts.  The triage      *)
(* watcher of processor/questboard sees it enter pending_triage and, when  *)
(* the DM mode lets it, asks an LLM for a recovery path; in assisted mode  *)
(* it asks the DM to approve the path, through processor/dmapproval, under *)
(* the same deadline.  Meanwhile a DM may decide by the API, which reads   *)
(* and puts the quest on its own.                                          *)
(*                                                                         *)
(* One quest is modelled.  Not modelled: prompts, the choice of endpoint,  *)
(* what is salvaged, sessions, the watch on responses.                     *)
(***************************************************************************)
EXTENDS Naturals, Sequences, FiniteSets

CONSTANTS
  DMModes,       \* modes tried: the configuration is fixed while the board runs
  Defeats,       \* bound: times the quest uses up its attempts
  TriageCrashes  \* bound: restarts

ASSUME TriageAssumption ==
  /\ DMModes \subseteq {"full_auto", "assisted", "supervised"}
  /\ {Defeats, TriageCrashes} \subseteq Nat

RecoveryPaths == {"salvage", "tpk", "escalate", "terminal"}

VARIABLES
  dmMode,
  fallen,       \* the quest: "open" while posted or worked on
  fallenFeed,   \* statuses the watch has yet to deliver
  triageCache,  \* the last status seen, "unseen" before the first
  clerk,        \* the watcher
  approval,     \* the request for approval: its key, and the answer on its way
  dmDesk,       \* a triage by the API between its read and its put
  triaged       \* history: entries into triage, approvals timed out, restarts

tdVars == <<dmMode, fallen, fallenFeed, triageCache, clerk, approval, dmDesk, triaged>>

FallenStatuses == {"open", "pending_triage", "escalated", "failed"}

\* extra: attempts granted on top of MaxAttempts.
Fallen == [status : FallenStatuses, extra : Nat]

\* path: the decision at hand, "none" before there is one.
Clerk ==
  [at : {"idle", "asking", "proposing", "subscribing", "waiting", "deciding", "putting"},
   path : RecoveryPaths \cup {"none"}, copy : Fallen]

DMDesk == [at : {"idle", "putting"}, path : RecoveryPaths \cup {"none"}, copy : Fallen]

TriageTypeOK ==
  /\ dmMode \in DMModes \cup {"unset"}
  /\ fallen \in Fallen
  /\ fallenFeed \in Seq(FallenStatuses)
  /\ triageCache \in FallenStatuses \cup {"unseen"}
  /\ clerk \in Clerk
  /\ approval \in [pending : BOOLEAN, answer : SUBSET (RecoveryPaths \cup {"none"})]
  /\ dmDesk \in DMDesk
  /\ triaged \in [entries : Nat, expired : Nat, crashes : Nat]

Unharmed == [status |-> "open", extra |-> 0]
IdleClerk == [at |-> "idle", path |-> "none", copy |-> Unharmed]

TriageInit ==
  /\ dmMode = "unset"
  /\ fallen = Unharmed
  /\ fallenFeed = <<"open">>
  /\ triageCache = "unseen"
  /\ clerk = IdleClerk
  /\ approval = [pending |-> FALSE, answer |-> {}]
  /\ dmDesk = IdleClerk
  /\ triaged = [entries |-> 0, expired |-> 0, crashes |-> 0]

-----------------------------------------------------------------------------
PutFallen(q) ==
  /\ fallen' = q
  /\ fallenFeed' = Append(fallenFeed, q.status)

\* The mode is configured once, before the board starts.
ConfigureTriage ==
  /\ dmMode = "unset"
  /\ dmMode' \in DMModes
  /\ UNCHANGED <<fallen, fallenFeed, triageCache, clerk, approval, dmDesk, triaged>>

\* The last attempt granted fails.
UseUpAttempts ==
  /\ dmMode # "unset"
  /\ fallen.status = "open"
  /\ triaged.entries < Defeats
  /\ PutFallen([fallen EXCEPT !.status = "pending_triage"])
  /\ triaged' = [triaged EXCEPT !.entries = @ + 1]
  /\ UNCHANGED <<dmMode, triageCache, clerk, approval, dmDesk>>

\* What TriageQuest and the API make of a path: two of them grant an attempt.
Decided(q, path) ==
  CASE path \in {"salvage", "tpk"} -> [status |-> "open", extra |-> q.extra + 1]
    [] path = "escalate" -> [q EXCEPT !.status = "escalated"]
    [] path = "terminal" -> [q EXCEPT !.status = "failed"]

-----------------------------------------------------------------------------
(* The watcher: one goroutine, so the next entry waits for the decision.   *)

\* A first sight is not a transition; people's modes are left to people.
HandleTriageStateChange ==
  /\ dmMode # "unset"
  /\ clerk.at = "idle" /\ fallenFeed # <<>>
  /\ LET s == Head(fallenFeed) IN
       /\ triageCache' = s
       /\ clerk' = IF /\ triageCache \notin {"unseen", s}
                      /\ s = "pending_triage"
                      /\ dmMode # "supervised"
                   THEN [IdleClerk EXCEPT !.at = "asking"] ELSE clerk
  /\ fallenFeed' = Tail(fallenFeed)
  /\ UNCHANGED <<dmMode, fallen, approval, dmDesk, triaged>>

\* Mutant: an error of the LLM is returned like any other.
CallTriageLLMOnly ==
  /\ clerk.at = "asking"
  /\ \/ \E path \in RecoveryPaths :
          clerk' = [clerk EXCEPT !.path = path,
                                 !.at = IF dmMode = "assisted" THEN "proposing" ELSE "deciding"]
     \/ clerk' = IdleClerk
  /\ UNCHANGED <<dmMode, fallen, fallenFeed, triageCache, approval, dmDesk, triaged>>

\* Without an answer the quest is escalated; the LLM's own timeout leaves time for that.
CallTriageLLM ==
  /\ clerk.at = "asking"
  /\ \/ \E path \in RecoveryPaths :
          clerk' = [clerk EXCEPT !.path = path,
                                 !.at = IF dmMode = "assisted" THEN "proposing" ELSE "deciding"]
     \/ clerk' = [clerk EXCEPT !.path = "escalate", !.at = "deciding"]
  /\ UNCHANGED <<dmMode, fallen, fallenFeed, triageCache, approval, dmDesk, triaged>>

\* RequestApproval stores the request, then subscribes; either may fail, and escalates.
StorePendingApproval ==
  /\ clerk.at = "proposing"
  /\ \/ /\ approval' = [pending |-> TRUE, answer |-> {}]
        /\ clerk' = [clerk EXCEPT !.at = "subscribing"]
     \/ clerk' = [clerk EXCEPT !.path = "escalate", !.at = "deciding"] /\ UNCHANGED approval
  /\ UNCHANGED <<dmMode, fallen, fallenFeed, triageCache, dmDesk, triaged>>

SubscribeAndPublish ==
  /\ clerk.at = "subscribing"
  /\ \/ clerk' = [clerk EXCEPT !.at = "waiting"]
     \/ clerk' = [clerk EXCEPT !.path = "escalate", !.at = "deciding"]
  /\ UNCHANGED <<dmMode, fallen, fallenFeed, triageCache, approval, dmDesk, triaged>>

\* The response is stored, and published to whoever listens by then; "none" takes the proposal.
RespondToApproval(path) ==
  /\ approval.pending
  /\ approval' = [pending |-> FALSE, answer |-> IF clerk.at = "waiting" THEN {path} ELSE {}]
  /\ UNCHANGED <<dmMode, fallen, fallenFeed, triageCache, clerk, dmDesk, triaged>>

ReceiveApproval ==
  /\ clerk.at = "waiting"
  /\ \E path \in approval.answer :
       clerk' = [clerk EXCEPT !.at = "deciding", !.path = IF path = "none" THEN @ ELSE path]
  /\ approval' = [pending |-> FALSE, answer |-> {}]
  /\ UNCHANGED <<dmMode, fallen, fallenFeed, triageCache, dmDesk, triaged>>

\* The deadline is that of the whole triage: the escalation that follows fails with it.
ApprovalExpires ==
  /\ clerk.at = "waiting"
  /\ clerk' = IdleClerk
  /\ triaged' = [triaged EXCEPT !.expired = @ + 1]
  /\ UNCHANGED <<dmMode, fallen, fallenFeed, triageCache, approval, dmDesk>>

\* Mutant: the status is not looked at.
TriageQuestReadAny ==
  /\ clerk.at = "deciding"
  /\ clerk' = [clerk EXCEPT !.at = "putting", !.copy = fallen]
  /\ UNCHANGED <<dmMode, fallen, fallenFeed, triageCache, approval, dmDesk, triaged>>

TriageQuestRead ==
  /\ clerk.at = "deciding"
  /\ clerk' = IF fallen.status = "pending_triage"
              THEN [clerk EXCEPT !.at = "putting", !.copy = fallen] ELSE IdleClerk
  /\ UNCHANGED <<dmMode, fallen, fallenFeed, triageCache, approval, dmDesk, triaged>>

TriageQuestPut ==
  /\ clerk.at = "putting"
  /\ PutFallen(Decided(clerk.copy, clerk.path))
  /\ clerk' = IdleClerk
  /\ UNCHANGED <<dmMode, triageCache, approval, dmDesk, triaged>>

-----------------------------------------------------------------------------
(* handleDMTriage.                                                         *)

DMTriageRead(path) ==
  /\ dmDesk.at = "idle"
  /\ fallen.status = "pending_triage"
  /\ dmDesk' = [at |-> "putting", path |-> path, copy |-> fallen]
  /\ UNCHANGED <<dmMode, fallen, fallenFeed, triageCache, clerk, approval, triaged>>

DMTriagePut ==
  /\ dmDesk.at = "putting"
  /\ PutFallen(Decided(dmDesk.copy, dmDesk.path))
  /\ dmDesk' = IdleClerk
  /\ UNCHANGED <<dmMode, triageCache, clerk, approval, triaged>>

\* The cache and the subscription are gone; the watch replays the quest as it is.
RestartTriage ==
  /\ triaged.entries > 0 /\ triaged.crashes < TriageCrashes
  /\ triaged' = [triaged EXCEPT !.crashes = @ + 1]
  /\ clerk' = IdleClerk /\ dmDesk' = IdleClerk
  /\ triageCache' = "unseen"
  /\ fallenFeed' = <<fallen.status>>
  /\ approval' = [approval EXCEPT !.answer = {}]
  /\ UNCHANGED <<dmMode, fallen>>

ClerkStep ==
  \/ HandleTriageStateChange
  \/ CallTriageLLM
  \/ StorePendingApproval
  \/ SubscribeAndPublish
  \/ ReceiveApproval
  \/ ApprovalExpires
  \/ TriageQuestRead
  \/ TriageQuestPut

TriageNext ==
  \/ ConfigureTriage
  \/ UseUpAttempts
  \/ ClerkStep
  \/ \E path \in RecoveryPaths \cup {"none"} : RespondToApproval(path)
  \/ \E path \in RecoveryPaths : DMTriageRead(path)
  \/ DMTriagePut
  \/ RestartTriage

\* The watch delivers and every wait of the watcher has a deadline; nobody has to answer.
TriageFairness == WF_tdVars(ClerkStep)

TriageSpec == TriageInit /\ [][TriageNext]_tdVars /\ TriageFairness

-----------------------------------------------------------------------------
(* Safety: each time the quest uses up its attempts it is granted at most  *)
(* one more, although the watcher and the DM may decide about the same     *)
(* defeat, each on a copy of its own.                                      *)
OneGrantPerDefeat == fallen.extra <= triaged.entries

(* Liveness: a quest in triage gets a decision without any DM, unless the  *)
(* mode reserves it to people, an approval timed out or the process died.  *)
TriageDecided ==
  fallen.status = "pending_triage" ~>
    \/ fallen.status # "pending_triage"
    \/ dmMode = "supervised" \/ triaged.expired > 0 \/ triaged.crashes > 0
=============================================================================
