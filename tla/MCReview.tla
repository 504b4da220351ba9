------------------------------ MODULE MCReview ------------------------------
(***************************************************************************)
(* Instances of Review small enough for TLC.                               *)
(***************************************************************************)
EXTENDS Review, TLC

CONSTANTS q1, r1, r2, s1, a1, b1, b2

MCNodesOf == [q \in Quests |-> {s1}]
MCNoNodes == [q \in Quests |-> {}]

\* Two rounds of review for the quest, one claim for each red-team quest.
MCMaxAttempts == [k \in Quests \cup Reviews |-> IF k \in Quests THEN 2 ELSE 1]
MCMoreAttempts == [k \in Quests \cup Reviews |-> IF k \in Quests THEN 4 ELSE 1]

Unposted == [status |-> "unposted", attempts |-> 0, target |-> None]
Spent == [status |-> "completed", attempts |-> 1, target |-> None]

\* The first round of review, r2 posted for a quest outside this instance; or the second:
\* r1 came back with findings, the judges rejected the result, and the quest is posted
\* again with what the red team has written on it.
MCBegin(second) ==
  /\ quest = [q \in Quests |-> IF second
                 THEN [Fresh EXCEPT !.attempts = 2, !.rtStatus = "completed", !.rtQuest = r1]
                 ELSE Fresh]
  /\ review = [r \in Reviews |->
                 CASE r = r1 /\ second -> [Spent EXCEPT !.target = q1]
                   [] r # r1 /\ ~second -> Spent
                   [] OTHER -> Unposted]
  /\ part = [s \in SubQuests |-> IF second THEN "failed" ELSE "posted"]
  /\ agent = [a \in Agents |-> Released]
  /\ Settled /\ BossInit /\ RedInit
  /\ restarts = 0
  /\ signalled = {} /\ disturbed = {}

\* Either round.
MCInit == \E second \in BOOLEAN : MCBegin(second)

MCSpec == MCInit /\ [][Next]_vars /\ Fairness

\* The quest has been attempted before: its review was skipped and the judges rejected it, so
\* that the next battle starts while the red team still links it, or its loops failed three
\* times, so that it waits for the red team.
MCLaggingInit ==
  \E before \in {[attempts |-> 2, rtStatus |-> "skipped"], [attempts |-> 3, rtStatus |-> ""]} :
    /\ quest = [q \in Quests |-> [Fresh EXCEPT !.attempts = before.attempts,
                                              !.rtStatus = before.rtStatus]]
    /\ review = [r \in Reviews |-> Unposted]
    /\ part = [s \in SubQuests |-> "failed"]
    /\ agent = [a \in Agents |-> Released]
    /\ Settled /\ BossInit /\ RedInit
    /\ restarts = 0
    /\ signalled = {} /\ disturbed = {}

MCLaggingSpec == MCLaggingInit /\ [][Next]_vars /\ Fairness

\* Nothing more is asked of the one quest once somebody has cut into its review.
Undisturbed == disturbed = {}
=============================================================================
