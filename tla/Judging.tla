------------------------------ MODULE Judging ------------------------------
(***************************************************************************)
(* How a boss battle comes to its verdict: the criteria and judges of its  *)
(* review level, the call of an LLM judge where one is among them, what    *)
(* is made of its answer, and the heuristic that stands in for a judge     *)
(* that is not asked, fails, or says nothing of use.                       *)
(*                                                                         *)
(* Scores, weights and thresholds are in hundredths.  Levels are those of  *)
(* quests that get a battle (posting replaces ReviewAuto by                *)
(* ReviewStandard).  What follows a verdict is in BossBattle.              *)
(***************************************************************************)
EXTENDS Integers, Sequences, FiniteSets, SequencesExt, FiniteSetsExt

CONSTANTS
  CriterionNames, \* what criteria are called, and what an LLM may call them
  Catalogs,       \* domain catalogs: [byLevel, criteria, judgesByLevel, judges]
  JudgeAnswers    \* what an LLM may answer: [scores : sequence of [name, score], checks : BOOLEANs]

Levels == {"standard", "strict", "human"}
JudgeTypes == {"auto", "llm", "human"}

Total(f) == FoldFunction(LAMBDA x, sum : x + sum, 0, f)

ReviewCriterion == [name : CriterionNames, weight : Nat, threshold : 1 .. 100]

\* The criteria of the catalogs in src/domains ask for something each, and their weights are
\* shares of one.
WellWeighed(criteria) ==
  /\ criteria \in Seq(ReviewCriterion)
  /\ criteria # <<>> => Total([i \in DOMAIN criteria |-> criteria[i].weight]) = 100

ASSUME JudgingAssumption ==
  /\ {"correctness", "completeness", "quality", "style"} \subseteq CriterionNames
  /\ \A c \in Catalogs :
       /\ DOMAIN c.byLevel = Levels /\ \A l \in Levels : WellWeighed(c.byLevel[l])
       /\ WellWeighed(c.criteria)
       /\ c.judgesByLevel \in [Levels -> Seq(JudgeTypes)] /\ c.judges \in Seq(JudgeTypes)
  /\ JudgeAnswers \subseteq
       [scores : Seq([name : CriterionNames, score : Int]), checks : Seq(BOOLEAN)]

VARIABLE trial   \* the battle: where it is, what it judges by, the answer, the outcome

jgVars == <<trial>>

NoAnswer == [scores |-> <<>>, checks |-> <<>>]
NoVerdict == [passed |-> FALSE, quality |-> 0]
NoTrial ==
  [phase |-> "none", level |-> "", output |-> FALSE, criteria |-> <<>>, judges |-> <<>>,
   answer |-> NoAnswer, verdict |-> NoVerdict]

JudgingTypeOK ==
  trial \in [phase : {"none", "unheard", "battle", "asked", "judged", "pending"},
             level : Levels \cup {""}, output : BOOLEAN,
             criteria : Seq(ReviewCriterion),
             judges : Seq(JudgeTypes), answer : JudgeAnswers \cup {NoAnswer},
             verdict : [passed : BOOLEAN, quality : Int]]

JudgingInit == trial = NoTrial

-----------------------------------------------------------------------------
(* Criteria and judges of a level: what the catalog has for it, else what  *)
(* the catalog has for all, else what is built in.                         *)

Criterion(name, weight, threshold) == [name |-> name, weight |-> weight, threshold |-> threshold]

DefaultCriteria(level) ==
  CASE level = "strict" ->
         <<Criterion("correctness", 40, 80), Criterion("completeness", 30, 80),
           Criterion("quality", 20, 70), Criterion("style", 10, 60)>>
    [] level = "human" ->
         <<Criterion("correctness", 30, 80), Criterion("completeness", 30, 80),
           Criterion("quality", 20, 70), Criterion("style", 20, 60)>>
    [] OTHER ->
         <<Criterion("correctness", 50, 70), Criterion("completeness", 30, 60),
           Criterion("quality", 20, 50)>>

DefaultJudges(level) ==
  CASE level = "strict" -> <<"auto", "llm", "llm">>
    [] level = "human"  -> <<"auto", "llm", "human">>
    [] OTHER            -> <<"auto", "llm">>

FirstNonEmpty(a, b, c) == IF a # <<>> THEN a ELSE IF b # <<>> THEN b ELSE c

ResolveCriteria(cat, level) ==
  FirstNonEmpty(cat.byLevel[level], cat.criteria, DefaultCriteria(level))

\* Mutant: a catalog's judges are taken as they are.
ResolveJudgesListed(cat, level) ==
  FirstNonEmpty(cat.judgesByLevel[level], cat.judges, DefaultJudges(level))

\* A human review has a human judge, whatever the catalog says.
ResolveJudges(cat, level) ==
  LET judges == FirstNonEmpty(cat.judgesByLevel[level], cat.judges, DefaultJudges(level))
  IN  IF level = "human" /\ "human" \notin Range(judges) THEN Append(judges, "human") ELSE judges

\* buildBattleOutput: with the findings of a red team there is something to judge even where
\* the quest itself gave nothing.
BattleOutput(output, findings) == output \/ findings

\* buildBattle and StartBattle; a battle whose entity is not stored is not fought, and the
\* quest stays in review.
StartBattle(cat, level, output, findings) ==
  /\ trial.phase = "none"
  /\ \E stored \in BOOLEAN :
       trial' = [trial EXCEPT !.phase = IF stored THEN "battle" ELSE "unheard", !.level = level,
                   !.output = BattleOutput(output, findings),
                   !.criteria = ResolveCriteria(cat, level), !.judges = ResolveJudges(cat, level)]

-----------------------------------------------------------------------------
(* Results: one [name, score, passed] for each criterion.                  *)

Result(c, score) == [name |-> c.name, score |-> score, passed |-> score >= c.threshold]

HeuristicResults ==
  [i \in DOMAIN trial.criteria |-> Result(trial.criteria[i], IF trial.output THEN 80 ELSE 0)]

Clamp(score) == IF score < 0 THEN 0 ELSE IF score > 100 THEN 100 ELSE score

\* What an answer says of a criterion; of several scores the last counts.
ScoresOf(answer, name) == {i \in DOMAIN answer.scores : answer.scores[i].name = name}

\* An answer is of use when it scores one of the criteria.  Others it scores are skipped.
OfUse(answer) == \E i \in DOMAIN trial.criteria : ScoresOf(answer, trial.criteria[i].name) # {}

\* mergeResults: a criterion without a score is given that of the heuristic for an output.
MergedResults(answer) ==
  [i \in DOMAIN trial.criteria |->
     LET c == trial.criteria[i]
         given == ScoresOf(answer, c.name)
     IN  Result(c, IF given = {} THEN 80 ELSE Clamp(answer.scores[Max(given)].score))]

\* computeVerdict: pending if there is a human judge, whatever the results; else one failed
\* criterion or check is a defeat.
Conclude(results, checks, answer) ==
  trial' =
    IF "human" \in Range(trial.judges) THEN [trial EXCEPT !.phase = "pending", !.answer = answer]
    ELSE [trial EXCEPT !.phase = "judged", !.answer = answer,
            !.verdict =
               [passed |-> /\ \A i \in DOMAIN results : results[i].passed
                           /\ FALSE \notin Range(checks),
                quality |-> Total([i \in DOMAIN results |->
                                     results[i].score * trial.criteria[i].weight])]]

-----------------------------------------------------------------------------
(* Evaluate.                                                               *)

HasLLMJudge == "llm" \in Range(trial.judges)

\* No LLM judge, no registry, no budget, no endpoint: the heuristic at once.
EvaluateHeuristically ==
  /\ trial.phase = "battle"
  /\ Conclude(HeuristicResults, <<>>, NoAnswer)

CallLLMJudge ==
  /\ trial.phase = "battle" /\ HasLLMJudge
  /\ trial' = [trial EXCEPT !.phase = "asked"]

\* The call fails, or its answer is not to be read, or of no use: the heuristic again, and
\* what the answer said of checks is forgotten.
JudgeFails ==
  /\ trial.phase = "asked"
  /\ Conclude(HeuristicResults, <<>>, NoAnswer)

JudgeAnswersWith(answer) ==
  /\ trial.phase = "asked"
  /\ IF OfUse(answer) THEN Conclude(MergedResults(answer), answer.checks, answer)
     ELSE Conclude(HeuristicResults, <<>>, answer)

\* The time of the battle is up while the judge is asked, or before: the heuristic looks at
\* the clock too, and an evaluation that ends in an error is a defeat, a human's too.
TimeIsOver ==
  /\ trial.phase \in {"battle", "asked"}
  /\ trial' = [trial EXCEPT !.phase = "judged", !.verdict = NoVerdict]

\* The next battle.
NextTrial == trial.phase \in {"unheard", "judged", "pending"} /\ trial' = NoTrial

JudgingNext ==
  \/ \E cat \in Catalogs, level \in Levels : \E output, findings \in BOOLEAN :
       StartBattle(cat, level, output, findings)
  \/ EvaluateHeuristically \/ CallLLMJudge \/ JudgeFails
  \/ \E answer \in JudgeAnswers : JudgeAnswersWith(answer)
  \/ TimeIsOver \/ NextTrial

-----------------------------------------------------------------------------
\* The answer fails no check, and of no criterion is all it says below the threshold.
Heeded(answer, criteria) ==
  /\ FALSE \notin Range(answer.checks)
  /\ \A i \in DOMAIN criteria :
       LET given == ScoresOf(answer, criteria[i].name)
       IN  given # {} => \E g \in given : answer.scores[g].score >= criteria[i].threshold

(* Safety: a quest passes only as the judges have it.  Where a human has   *)
(* to judge none passes by itself, whatever judges the catalog lists and   *)
(* whatever the LLM says; an LLM's answer that names one of the criteria   *)
(* passes only if it fails no check and does not hold all it says of some  *)
(* criterion to be below the threshold; and nothing passes where there was *)
(* nothing to judge, unless an LLM was asked.  The quality XP is paid by   *)
(* is a share of one.                                                      *)
VerdictsHonest ==
  trial.phase = "judged" =>
    /\ trial.verdict.quality >= 0 /\ trial.verdict.quality <= 10000
    /\ trial.verdict.passed =>
         /\ trial.level # "human"
         /\ OfUse(trial.answer) => Heeded(trial.answer, trial.criteria)
         /\ ~OfUse(trial.answer) => trial.output

=============================================================================
