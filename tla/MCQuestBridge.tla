--------------------------- MODULE MCQuestBridge ---------------------------
(***************************************************************************)
(* Instances of QuestBridge small enough for TLC.                          *)
(***************************************************************************)
EXTENDS QuestBridge, TLC

CONSTANTS q1, a1, l1, l2

\* One attempt before a quest fails for good.
MCMaxAttempts == [q \in Quests |-> 2]
\* Mishaps and decompositions where nobody is in a hurry; for the pause, one mishap.
MCMishapBound == [h \in BOOLEAN |-> IF h THEN 0 ELSE 2]
MCPartyQuests == [h \in BOOLEAN |-> IF h THEN {} ELSE Quests]
MCNoPartyQuests == [h \in BOOLEAN |-> {}]
MCOneMishap == [h \in BOOLEAN |-> 1]
=============================================================================
