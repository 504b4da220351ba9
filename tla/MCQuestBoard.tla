---------------------------- MODULE MCQuestBoard ----------------------------
(***************************************************************************)
(* Instances of QuestBoard small enough for TLC.                           *)
(***************************************************************************)
EXTENDS QuestBoard, TLC

CONSTANTS q1, q2, a1, a2, p1, c1, c2

\* A party of a1 alone, of Master tier, so that a2 is turned away by the member gate.
MCMembers == [p \in {p1} |-> {a1}]
MCLead == [p \in {p1} |-> a1]
MCDecomposers == {a1}

\* Party sub-quests may go to q1 only, so that q2 stays a solo quest.
MCPartyFit == {<<p1, q1>>}

\* a2 may try both quests: two handlers may claim one quest, or both, for it.
MCQualified == {<<a2, q1>>, <<a2, q2>>}

\* q1 may be tried twice, q2 once before triage.
MCMaxAttempts == [q \in Quests |-> IF q = q1 THEN 2 ELSE 1]

\* A chain of two: q2 waits for q1.
MCChainDeps == [q \in Quests |-> IF q = q2 THEN Quests \ {q2} ELSE {}]

\* Handlers are interchangeable.
MCSymmetry == Permutations(Callers)
=============================================================================
