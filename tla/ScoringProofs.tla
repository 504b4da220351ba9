---------------------------- MODULE ScoringProofs ----------------------------
(***************************************************************************)
(* Two theorems about scores: a passing verdict is of an answer that is    *)
(* good enough by every criterion, and a quest that an idle agent could    *)
(* take is suggested to it.  Both add up, count or sort what there may be  *)
(* any number of; that is an induction, which the prover takes as a least  *)
(* element of a set of naturals (Induction below).                         *)
(***************************************************************************)
EXTENDS Judging, Flock, WellFoundedInduction, FiniteSetTheorems, TLAPS

-----------------------------------------------------------------------------
\* The order of the naturals as a relation.
LEMMA LessIsRelated == \A m, n \in Nat : n < m => <<n, m>> \in OpToRel(<, Nat)
<1>1. OpToRel(<, Nat) = {p \in Nat \X Nat : p[1] < p[2]}
  BY Zenon DEF OpToRel
<1> QED
  BY <1>1, Zenon

\* Induction, over a set: a number that is not in it would have a least one.
LEMMA Induction ==
  ASSUME NEW T, 0 \in T, \A n \in Nat : n \in T => n + 1 \in T
  PROVE  Nat \subseteq T
<1> DEFINE B == {n \in Nat : n \notin T}
<1> SUFFICES ASSUME B # {}  PROVE FALSE
  OBVIOUS
<1>1. PICK x \in B : \A y \in B : <<y, x>> \notin OpToRel(<, Nat)
  <2> HIDE DEF B
  <2>1. B \subseteq Nat
    BY DEF B
  <2> QED
    BY <2>1, WFMin, NatLessThanWellFounded, Zenon
<1>2. \A y \in B : ~(y < x)
  BY <1>1, LessIsRelated, Zenon
<1>3. x # 0 /\ x - 1 \in Nat /\ x - 1 < x
  OBVIOUS
<1>4. x - 1 \in T
  BY <1>2, <1>3
<1> QED
  BY <1>3, <1>4

-----------------------------------------------------------------------------
Pick(s) == CHOOSE x \in s : TRUE

\* What a fold adds up over each of its sets of indices.
Adding(f, g, S) == [s \in S |-> IF s = {} THEN 0 ELSE f[Pick(s)] + g[s \ {Pick(s)}]]

Partial(f) == CHOOSE g : g = Adding(f, g, SUBSET DOMAIN f)

LEMMA TotalIsPartial == \A f : Total(f) = Partial(f)[DOMAIN f]
  BY Zenon DEF Total, Partial, Adding, Pick, FoldFunction, FoldFunctionOnSet, MapThenFoldSet

Small(S, n) == {s \in SUBSET S : Cardinality(s) <= n}

LEMMA PickLeaves ==
  ASSUME NEW S, IsFiniteSet(S), NEW s \in SUBSET S, s # {}
  PROVE  /\ Pick(s) \in s /\ s \ {Pick(s)} \in SUBSET S
         /\ IsFiniteSet(s) /\ Cardinality(s) \in Nat \ {0}
         /\ Cardinality(s \ {Pick(s)}) = Cardinality(s) - 1
<1>1. Pick(s) \in s
  BY DEF Pick
<1>2. IsFiniteSet(s)
  BY FS_Subset
<1>3. Cardinality(s) \in Nat \ {0}
  BY <1>2, FS_CardinalityType, FS_EmptySet
<1> QED
  BY <1>1, <1>2, <1>3, FS_RemoveElement

\* The recursion of a fold has a solution, on larger and larger sets.
LEMMA PartialExists ==
  ASSUME NEW f, IsFiniteSet(DOMAIN f)
  PROVE  Partial(f) = Adding(f, Partial(f), SUBSET DOMAIN f)
<1> DEFINE S == DOMAIN f
           T == {n \in Nat : \E g : g = Adding(f, g, Small(S, n))}
<1>1. 0 \in T
  <2> DEFINE g == [s \in Small(S, 0) |-> 0]
  <2>1. \A s \in Small(S, 0) : s = {}
    BY FS_Subset, FS_EmptySet, FS_CardinalityType DEF Small
  <2>2. g = Adding(f, g, Small(S, 0))
    BY <2>1, Zenon DEF Adding
  <2> QED
    BY <2>2
<1>2. ASSUME NEW n \in Nat, n \in T
      PROVE  n + 1 \in T
  <2>1. PICK g : g = Adding(f, g, Small(S, n))
    BY <1>2
  <2> DEFINE h == Adding(f, g, Small(S, n + 1))
  <2>2. \A s \in Small(S, n) : s \in Small(S, n + 1) /\ h[s] = g[s]
    <3>1. \A s \in Small(S, n) : s \in Small(S, n + 1)
      BY FS_Subset, FS_CardinalityType DEF Small
    <3>2. \A s \in Small(S, n) : g[s] = IF s = {} THEN 0 ELSE f[Pick(s)] + g[s \ {Pick(s)}]
      BY <2>1, Zenon DEF Adding
    <3>3. \A s \in Small(S, n + 1) : h[s] = IF s = {} THEN 0 ELSE f[Pick(s)] + g[s \ {Pick(s)}]
      BY Zenon DEF Adding
    <3> QED
      BY <3>1, <3>2, <3>3, Zenon
  <2>3. \A s \in Small(S, n + 1) : s # {} => s \ {Pick(s)} \in Small(S, n)
    BY PickLeaves DEF Small
  <2>4. h = Adding(f, h, Small(S, n + 1))
    <3>1. \A s \in Small(S, n + 1) :
            (IF s = {} THEN 0 ELSE f[Pick(s)] + g[s \ {Pick(s)}])
              = IF s = {} THEN 0 ELSE f[Pick(s)] + h[s \ {Pick(s)}]
      BY <2>2, <2>3, Zenon
    <3> QED
      BY <3>1, Zenon DEF Adding
  <2> QED
    BY <2>4
<1>3. Nat \subseteq T
  <2> HIDE DEF T
  <2> QED
    BY <1>1, <1>2, Induction
<1>4. Small(S, Cardinality(S)) = SUBSET S /\ Cardinality(S) \in Nat
  BY FS_Subset, FS_CardinalityType DEF Small
<1>5. \E g : g = Adding(f, g, SUBSET S)
  BY <1>3, <1>4
<1> QED
  BY <1>5, Zenon DEF Partial

LEMMA PartialOf ==
  ASSUME NEW f, IsFiniteSet(DOMAIN f)
  PROVE  /\ Partial(f)[{}] = 0
         /\ \A s \in SUBSET DOMAIN f : s # {} =>
              Partial(f)[s] = f[Pick(s)] + Partial(f)[s \ {Pick(s)}]
<1>1. \A s \in SUBSET DOMAIN f :
        Partial(f)[s] = IF s = {} THEN 0 ELSE f[Pick(s)] + Partial(f)[s \ {Pick(s)}]
  BY PartialExists, Zenon DEF Adding
<1> QED
  BY <1>1, Zenon

\* The sum of naturals is one, and of what is at most a hundred times as much at most that.
LEMMA PartialWithin ==
  ASSUME NEW f, NEW w, DOMAIN f = DOMAIN w, IsFiniteSet(DOMAIN w),
         \A i \in DOMAIN w : f[i] \in Nat /\ w[i] \in Nat /\ f[i] <= 100 * w[i],
         NEW s \in SUBSET DOMAIN w
  PROVE  Partial(f)[s] \in Nat /\ Partial(w)[s] \in Nat /\ Partial(f)[s] <= 100 * Partial(w)[s]
<1> DEFINE Good(t) == /\ Partial(f)[t] \in Nat /\ Partial(w)[t] \in Nat
                      /\ Partial(f)[t] <= 100 * Partial(w)[t]
           T == {n \in Nat : \A t \in SUBSET DOMAIN w : Cardinality(t) = n => Good(t)}
<1>1. 0 \in T
  <2> SUFFICES ASSUME NEW t \in SUBSET DOMAIN w, Cardinality(t) = 0
               PROVE  Good(t)
    OBVIOUS
  <2>1. t = {}
    BY FS_Subset, FS_EmptySet
  <2> QED
    BY <2>1, PartialOf
<1>2. ASSUME NEW n \in Nat, n \in T
      PROVE  n + 1 \in T
  <2> SUFFICES ASSUME NEW t \in SUBSET DOMAIN w, Cardinality(t) = n + 1
               PROVE  Good(t)
    OBVIOUS
  <2>1. t # {}
    <3>1. t = {} => Cardinality(t) = 0
      BY FS_EmptySet, Zenon
    <3> QED
      BY <3>1
  <2> DEFINE x == Pick(t)
             u == t \ {x}
  <2>2. x \in DOMAIN w /\ u \in SUBSET DOMAIN w /\ Cardinality(u) = n
    BY <2>1, PickLeaves
  <2>3. Good(u)
    BY <1>2, <2>2
  <2>4. Partial(f)[t] = f[x] + Partial(f)[u] /\ Partial(w)[t] = w[x] + Partial(w)[u]
    BY <2>1, PartialOf
  <2> HIDE DEF x, u
  <2> QED
    BY <2>2, <2>3, <2>4
<1>3. Cardinality(s) \in Nat
  BY FS_Subset, FS_CardinalityType
<1>4. Nat \subseteq T
  <2> HIDE DEF T
  <2> QED
    BY <1>1, <1>2, Induction
<1> QED
  BY <1>3, <1>4

\* The order in which a fold takes its indices does not matter to a sum.
LEMMA PartialSplit ==
  ASSUME NEW f, IsFiniteSet(DOMAIN f), \A i \in DOMAIN f : f[i] \in Nat,
         NEW s \in SUBSET DOMAIN f, NEW i \in s
  PROVE  Partial(f)[s] = f[i] + Partial(f)[s \ {i}]
<1> DEFINE Good(t) == \A x \in t : Partial(f)[t] = f[x] + Partial(f)[t \ {x}]
           T == {n \in Nat : \A t \in SUBSET DOMAIN f : Cardinality(t) = n => Good(t)}
<1>1. 0 \in T
  BY FS_Subset, FS_EmptySet
<1>2. ASSUME NEW n \in Nat, n \in T
      PROVE  n + 1 \in T
  <2> SUFFICES ASSUME NEW t \in SUBSET DOMAIN f, Cardinality(t) = n + 1, NEW x \in t
               PROVE  Partial(f)[t] = f[x] + Partial(f)[t \ {x}]
    OBVIOUS
  <2> DEFINE y == Pick(t)
  <2>1. y \in t /\ t \ {y} \in SUBSET DOMAIN f /\ Cardinality(t \ {y}) = n
    BY PickLeaves
  <2>2. Partial(f)[t] = f[y] + Partial(f)[t \ {y}]
    BY PartialOf
  <2> HIDE DEF y
  <2>3. CASE x = y
    BY <2>2, <2>3
  <2>4. CASE x # y
    <3>1. x \in t \ {y} /\ y \in t \ {x} /\ (t \ {x}) \ {y} = (t \ {y}) \ {x}
      BY <2>1, <2>4
    <3>2. Partial(f)[t \ {y}] = f[x] + Partial(f)[(t \ {y}) \ {x}]
      BY <1>2, <2>1, <3>1
    <3>3. t \ {x} \in SUBSET DOMAIN f /\ Cardinality(t \ {x}) = n
      <4>1. IsFiniteSet(t)
        BY FS_Subset
      <4>2. Cardinality(t \ {x}) = Cardinality(t) - 1
        BY <4>1, FS_RemoveElement
      <4> QED
        BY <4>2
    <3>4. Partial(f)[t \ {x}] = f[y] + Partial(f)[(t \ {y}) \ {x}]
      BY <1>2, <3>1, <3>3
    <3>5. f[x] \in Nat /\ f[y] \in Nat /\ Partial(f)[(t \ {y}) \ {x}] \in Nat
      BY <2>1, PartialWithin
    <3> QED
      BY <2>2, <3>2, <3>4, <3>5
  <2> QED
    BY <2>3, <2>4
<1>3. Cardinality(s) \in Nat
  BY FS_Subset, FS_CardinalityType
<1>4. Nat \subseteq T
  <2> HIDE DEF T
  <2> QED
    BY <1>1, <1>2, Induction
<1> QED
  BY <1>3, <1>4

LEMMA TotalWithin ==
  ASSUME NEW f, NEW w, DOMAIN f = DOMAIN w, IsFiniteSet(DOMAIN w),
         \A i \in DOMAIN w : f[i] \in Nat /\ w[i] \in Nat /\ f[i] <= 100 * w[i]
  PROVE  Total(f) \in Nat /\ Total(f) <= 100 * Total(w)
  BY PartialWithin, TotalIsPartial

\* The sums of three and of four.
LEMMA TotalOfThree ==
  ASSUME NEW f, DOMAIN f = 1 .. 3, \A i \in 1 .. 3 : f[i] \in Nat
  PROVE  Total(f) = f[1] + f[2] + f[3]
<1>1. IsFiniteSet(DOMAIN f) /\ \A i \in DOMAIN f : f[i] \in Nat
  BY FS_Interval, 1 \in Int, 3 \in Int, 4 \in Int
<1>2. /\ DOMAIN f = {1, 2, 3} /\ {1, 2, 3} \ {3} = {1, 2} /\ {1, 2} \ {2} = {1} /\ {1} \ {1} = {}
      /\ {1, 2} \in SUBSET DOMAIN f /\ {1} \in SUBSET DOMAIN f
  OBVIOUS
<1>3. Partial(f)[{1, 2, 3}] = f[3] + Partial(f)[{1, 2}]
  BY <1>1, <1>2, PartialSplit
<1>4. Partial(f)[{1, 2}] = f[2] + Partial(f)[{1}]
  BY <1>1, <1>2, PartialSplit
<1>5. Partial(f)[{1}] = f[1] + Partial(f)[{}] /\ Partial(f)[{}] = 0
  <2>1. Partial(f)[{1}] = f[1] + Partial(f)[{1} \ {1}]
    BY <1>1, <1>2, 1 \in {1}, PartialSplit
  <2> QED
    BY <1>1, <1>2, <2>1, PartialOf
<1> QED
  BY <1>2, <1>3, <1>4, <1>5, TotalIsPartial

LEMMA TotalOfFour ==
  ASSUME NEW f, DOMAIN f = 1 .. 4, \A i \in 1 .. 4 : f[i] \in Nat
  PROVE  Total(f) = f[1] + f[2] + f[3] + f[4]
<1>1. IsFiniteSet(DOMAIN f) /\ \A i \in DOMAIN f : f[i] \in Nat
  BY FS_Interval, 1 \in Int, 3 \in Int, 4 \in Int
<1>2. /\ DOMAIN f = {1, 2, 3, 4} /\ {1, 2, 3, 4} \ {4} = {1, 2, 3} /\ {1, 2, 3} \ {3} = {1, 2}
      /\ {1, 2} \ {2} = {1} /\ {1} \ {1} = {}
      /\ {1, 2, 3} \in SUBSET DOMAIN f /\ {1, 2} \in SUBSET DOMAIN f /\ {1} \in SUBSET DOMAIN f
  OBVIOUS
<1>3. Partial(f)[{1, 2, 3, 4}] = f[4] + Partial(f)[{1, 2, 3}]
  BY <1>1, <1>2, PartialSplit
<1>4. Partial(f)[{1, 2, 3}] = f[3] + Partial(f)[{1, 2}]
  BY <1>1, <1>2, PartialSplit
<1>5. Partial(f)[{1, 2}] = f[2] + Partial(f)[{1}]
  BY <1>1, <1>2, PartialSplit
<1>6. Partial(f)[{1}] = f[1] + Partial(f)[{}] /\ Partial(f)[{}] = 0
  <2>1. Partial(f)[{1}] = f[1] + Partial(f)[{1} \ {1}]
    BY <1>1, <1>2, 1 \in {1}, PartialSplit
  <2> QED
    BY <1>1, <1>2, <2>1, PartialOf
<1> QED
  BY <1>2, <1>3, <1>4, <1>5, <1>6, TotalIsPartial

-----------------------------------------------------------------------------
JudgingSpec == JudgingInit /\ [][JudgingNext]_jgVars

\* What a battle is fought by.
Fair(criteria) == criteria # <<>> /\ WellWeighed(criteria)

Prepared ==
  trial.phase # "none" =>
    /\ Fair(trial.criteria)
    /\ trial.level = "human" => "human" \in Range(trial.judges)

JudgingIInv == JudgingTypeOK /\ Prepared /\ VerdictsHonest

\* Criteria whose weights are shares of one are fair.
LEMMA ThreeFair ==
  ASSUME NEW a \in ReviewCriterion, NEW b \in ReviewCriterion, NEW c \in ReviewCriterion,
         a.weight + b.weight + c.weight = 100
  PROVE  Fair(<<a, b, c>>)
<1>1. PICK w : w = [i \in DOMAIN <<a, b, c>> |-> <<a, b, c>>[i].weight]
  OBVIOUS
<1>2. DOMAIN w = 1 .. 3 /\ w[1] = a.weight /\ w[2] = b.weight /\ w[3] = c.weight
  BY <1>1
<1>3. a.weight \in Nat /\ b.weight \in Nat /\ c.weight \in Nat
  BY DEF ReviewCriterion
<1>4. Total(w) = 100
  BY <1>2, <1>3, TotalOfThree
<1>5. <<a, b, c>> \in Seq(ReviewCriterion) /\ <<a, b, c>> # <<>>
  OBVIOUS
<1> QED
  BY <1>1, <1>4, <1>5, Zenon DEF Fair, WellWeighed

LEMMA FourFair ==
  ASSUME NEW a \in ReviewCriterion, NEW b \in ReviewCriterion, NEW c \in ReviewCriterion, NEW d \in ReviewCriterion,
         a.weight + b.weight + c.weight + d.weight = 100
  PROVE  Fair(<<a, b, c, d>>)
<1>1. PICK w : w = [i \in DOMAIN <<a, b, c, d>> |-> <<a, b, c, d>>[i].weight]
  OBVIOUS
<1>2. DOMAIN w = 1 .. 4 /\ w[1] = a.weight /\ w[2] = b.weight /\ w[3] = c.weight /\ w[4] = d.weight
  BY <1>1
<1>3. a.weight \in Nat /\ b.weight \in Nat /\ c.weight \in Nat /\ d.weight \in Nat
  BY DEF ReviewCriterion
<1>4. Total(w) = 100
  BY <1>2, <1>3, TotalOfFour
<1>5. <<a, b, c, d>> \in Seq(ReviewCriterion) /\ <<a, b, c, d>> # <<>>
  OBVIOUS
<1> QED
  BY <1>1, <1>4, <1>5, Zenon DEF Fair, WellWeighed

LEMMA CriterionType ==
  ASSUME NEW name \in CriterionNames, NEW weight \in Nat, NEW threshold \in Nat,
         threshold >= 1, threshold <= 100
  PROVE  /\ Criterion(name, weight, threshold) \in ReviewCriterion
         /\ Criterion(name, weight, threshold).weight = weight
  BY DEF Criterion, ReviewCriterion

LEMMA DefaultsFair == \A level \in Levels : Fair(DefaultCriteria(level))
<1> SUFFICES ASSUME NEW level \in Levels  PROVE Fair(DefaultCriteria(level))
  OBVIOUS
<1>1. CASE level = "strict"
  <2>1. PICK a, b, c, d :
          /\ a = Criterion("correctness", 40, 80)
          /\ b = Criterion("completeness", 30, 80)
          /\ c = Criterion("quality", 20, 70)
          /\ d = Criterion("style", 10, 60)
    OBVIOUS
  <2>2. DefaultCriteria(level) = <<a, b, c, d>>
    BY <1>1, <2>1, Zenon DEF DefaultCriteria
  <2>3. /\ a \in ReviewCriterion /\ a.weight = 40
        /\ b \in ReviewCriterion /\ b.weight = 30
        /\ c \in ReviewCriterion /\ c.weight = 20
        /\ d \in ReviewCriterion /\ d.weight = 10
    BY <2>1, CriterionType, JudgingAssumption
  <2> QED
    BY <2>2, <2>3, FourFair
<1>2. CASE level = "human"
  <2>1. PICK a, b, c, d :
          /\ a = Criterion("correctness", 30, 80)
          /\ b = Criterion("completeness", 30, 80)
          /\ c = Criterion("quality", 20, 70)
          /\ d = Criterion("style", 20, 60)
    OBVIOUS
  <2>2. DefaultCriteria(level) = <<a, b, c, d>>
    BY <1>2, <2>1, Zenon DEF DefaultCriteria
  <2>3. /\ a \in ReviewCriterion /\ a.weight = 30
        /\ b \in ReviewCriterion /\ b.weight = 30
        /\ c \in ReviewCriterion /\ c.weight = 20
        /\ d \in ReviewCriterion /\ d.weight = 20
    BY <2>1, CriterionType, JudgingAssumption
  <2> QED
    BY <2>2, <2>3, FourFair
<1>3. CASE level = "standard"
  <2>1. PICK a, b, c :
          /\ a = Criterion("correctness", 50, 70)
          /\ b = Criterion("completeness", 30, 60)
          /\ c = Criterion("quality", 20, 50)
    OBVIOUS
  <2>2. DefaultCriteria(level) = <<a, b, c>>
    BY <1>3, <2>1, Zenon DEF DefaultCriteria
  <2>3. /\ a \in ReviewCriterion /\ a.weight = 50
        /\ b \in ReviewCriterion /\ b.weight = 30
        /\ c \in ReviewCriterion /\ c.weight = 20
    BY <2>1, CriterionType, JudgingAssumption
  <2> QED
    BY <2>2, <2>3, ThreeFair
<1> QED
  BY <1>1, <1>2, <1>3 DEF Levels

\* Whatever the catalog has or lacks, the criteria are fair, and a human review has its human.
LEMMA ResolvedWell ==
  ASSUME NEW cat \in Catalogs, NEW level \in Levels
  PROVE  /\ Fair(ResolveCriteria(cat, level))
         /\ ResolveJudges(cat, level) \in Seq(JudgeTypes)
         /\ level = "human" => "human" \in Range(ResolveJudges(cat, level))
<1>1. Fair(ResolveCriteria(cat, level))
  BY JudgingAssumption, DefaultsFair DEF ResolveCriteria, FirstNonEmpty, Fair
<1> DEFINE judges == FirstNonEmpty(cat.judgesByLevel[level], cat.judges, DefaultJudges(level))
<1>2. judges \in Seq(JudgeTypes)
  <2>1. DefaultJudges(level) = <<"auto", "llm">>
        \/ DefaultJudges(level) = <<"auto", "llm", "llm">>
        \/ DefaultJudges(level) = <<"auto", "llm", "human">>
    BY Zenon DEF DefaultJudges, Levels
  <2>2. /\ <<"auto", "llm">> \in Seq(JudgeTypes)
        /\ <<"auto", "llm", "llm">> \in Seq(JudgeTypes)
        /\ <<"auto", "llm", "human">> \in Seq(JudgeTypes)
    BY DEF JudgeTypes
  <2> QED
    BY <2>1, <2>2, JudgingAssumption DEF FirstNonEmpty
<1> HIDE DEF judges
<1>3. Append(judges, "human") \in Seq(JudgeTypes) /\ "human" \in Range(Append(judges, "human"))
  <2>1. Append(judges, "human")[Len(judges) + 1] = "human"
        /\ Len(judges) + 1 \in DOMAIN Append(judges, "human")
    BY <1>2
  <2> QED
    BY <1>2, <2>1 DEF Range, JudgeTypes
<1>4. ResolveJudges(cat, level) =
        IF level = "human" /\ "human" \notin Range(judges) THEN Append(judges, "human") ELSE judges
  BY DEF ResolveJudges, judges
<1> QED
  BY <1>1, <1>2, <1>3, <1>4

LEMMA ElementsOf ==
  ASSUME NEW S, NEW s \in Seq(S)
  PROVE  \A i \in DOMAIN s : s[i] \in S
  OBVIOUS

LEMMA ShareOf == \A x \in 0 .. 100, y \in Nat : x * y \in Nat /\ x * y <= 100 * y
<1> SUFFICES ASSUME NEW x \in 0 .. 100, NEW y \in Nat
             PROVE  x * y \in Nat /\ x * y <= 100 * y
  OBVIOUS
<1>1. x * y \in Int /\ x * y >= 0 /\ (100 - x) * y >= 0 /\ (100 - x) * y = 100 * y - x * y
  OBVIOUS
<1> QED
  BY <1>1

\* Results for the criteria, each of them a share of a hundred, come to at most the whole.
LEMMA QualityIsShare ==
  ASSUME NEW criteria, Fair(criteria), NEW results, DOMAIN results = DOMAIN criteria,
         \A i \in DOMAIN results : results[i].score \in 0 .. 100,
         NEW f, f = [i \in DOMAIN results |-> results[i].score * criteria[i].weight]
  PROVE  Total(f) \in Nat /\ Total(f) <= 10000
<1>1. PICK w : w = [i \in DOMAIN criteria |-> criteria[i].weight]
  OBVIOUS
<1>2. criteria \in Seq(ReviewCriterion)
  BY DEF Fair, WellWeighed
<1>3. IsFiniteSet(DOMAIN criteria)
  <2>1. DOMAIN criteria = 1 .. Len(criteria) /\ Len(criteria) \in Int /\ 1 \in Int
    BY <1>2
  <2> QED
    BY <2>1, FS_Interval
<1>4. Total(w) = 100
  BY <1>1, Zenon DEF Fair, WellWeighed
<1>5. \A x \in 0 .. 100, y \in Nat : x * y \in Nat /\ x * y <= 100 * y
  BY ShareOf, Zenon
<1>6. ASSUME NEW i \in DOMAIN w
      PROVE  f[i] \in Nat /\ w[i] \in Nat /\ f[i] <= 100 * w[i]
  <2>1. w[i] = criteria[i].weight /\ i \in DOMAIN criteria
    BY <1>1, Zenon
  <2>3. criteria[i] \in ReviewCriterion
    BY <1>2, <2>1, ElementsOf, Zenon
  <2>4. w[i] \in Nat
    BY <2>1, <2>3 DEF ReviewCriterion
  <2>2. f[i] = results[i].score * w[i] /\ results[i].score \in 0 .. 100
    BY <2>1, Zenon
  <2> QED
    BY <1>5, <2>2, <2>4, Zenon
<1>7. DOMAIN f = DOMAIN w /\ IsFiniteSet(DOMAIN w)
  BY <1>1, <1>3
<1>8. Total(f) \in Nat /\ Total(f) <= 100 * Total(w)
  BY <1>6, <1>7, TotalWithin
<1> QED
  BY <1>4, <1>8

\* What the results must be for a verdict on them to be honest.
Sound(results, checks, answer) ==
  /\ DOMAIN results = DOMAIN trial.criteria
  /\ \A i \in DOMAIN results : results[i].score \in 0 .. 100
  /\ (\A i \in DOMAIN results : results[i].passed) /\ FALSE \notin Range(checks) =>
       /\ OfUse(answer) => Heeded(answer, trial.criteria)
       /\ ~OfUse(answer) => trial.output

\* The fields of a trial that has come to its end.
LEMMA Ended ==
  ASSUME JudgingTypeOK, NEW p \in {"judged", "pending"}, NEW answer \in JudgeAnswers \cup {NoAnswer},
         NEW v \in [passed : BOOLEAN, quality : Int],
         trial' = [trial EXCEPT !.phase = p, !.answer = answer, !.verdict = v]
  PROVE  /\ JudgingTypeOK'
         /\ trial'.phase = p /\ trial'.answer = answer /\ trial'.verdict = v
         /\ trial'.level = trial.level /\ trial'.output = trial.output
         /\ trial'.criteria = trial.criteria /\ trial'.judges = trial.judges
  BY DEF JudgingTypeOK

LEMMA ConcludeHonest ==
  ASSUME JudgingIInv, trial.phase \in {"battle", "asked"},
         NEW results, NEW checks, NEW answer \in JudgeAnswers \cup {NoAnswer},
         Sound(results, checks, answer), Conclude(results, checks, answer)
  PROVE  JudgingIInv'
<1> DEFINE Passed == (\A i \in DOMAIN results : results[i].passed) /\ FALSE \notin Range(checks)
<1>1. JudgingTypeOK /\ Fair(trial.criteria)
      /\ (trial.level = "human" => "human" \in Range(trial.judges))
  BY Zenon DEF JudgingIInv, Prepared
<1>2. CASE "human" \in Range(trial.judges)
  <2>1. trial' = [trial EXCEPT !.phase = "pending", !.answer = answer]
    BY <1>2, Zenon DEF Conclude
  <2>2. /\ JudgingTypeOK' /\ trial'.phase = "pending" /\ trial'.criteria = trial.criteria
        /\ trial'.level = trial.level /\ trial'.judges = trial.judges
    BY <1>1, <2>1 DEF JudgingTypeOK
  <2> QED
    BY <1>1, <2>2 DEF JudgingIInv, Prepared, VerdictsHonest
<1>3. CASE "human" \notin Range(trial.judges)
  <2>1. PICK f : f = [i \in DOMAIN results |-> results[i].score * trial.criteria[i].weight]
    OBVIOUS
  <2>2. Total(f) \in Nat /\ Total(f) <= 10000
    <3>1. DOMAIN results = DOMAIN trial.criteria
          /\ (\A i \in DOMAIN results : results[i].score \in 0 .. 100)
      BY Zenon DEF Sound
    <3>2. PICK criteria : criteria = trial.criteria
      OBVIOUS
    <3>3. Fair(criteria) /\ f = [i \in DOMAIN results |-> results[i].score * criteria[i].weight]
          /\ DOMAIN results = DOMAIN criteria
      BY <1>1, <2>1, <3>1, <3>2, Zenon
    <3> QED
      BY <3>1, <3>3, QualityIsShare
  <2>3. PICK v : v = [passed |-> Passed, quality |-> Total(f)]
    OBVIOUS
  <2>4. trial' = [trial EXCEPT !.phase = "judged", !.answer = answer, !.verdict = v]
    BY <1>3, <2>1, <2>3, Zenon DEF Conclude
  <2>5. v \in [passed : BOOLEAN, quality : Int]
    <3>1. Passed \in BOOLEAN
      OBVIOUS
    <3> HIDE DEF Passed
    <3> QED
      BY <3>1, <2>2, <2>3
  <2>6. /\ JudgingTypeOK'
        /\ trial'.phase = "judged" /\ trial'.answer = answer /\ trial'.verdict = v
        /\ trial'.level = trial.level /\ trial'.output = trial.output
        /\ trial'.criteria = trial.criteria /\ trial'.judges = trial.judges
    BY <1>1, <2>4, <2>5, Ended
  <2>7. Prepared'
    BY <1>1, <2>6, Zenon DEF Prepared
  <2>8. trial'.verdict.quality >= 0 /\ trial'.verdict.quality <= 10000
    BY <2>2, <2>3, <2>6
  <2>9. trial'.verdict.passed => Passed
    <3> HIDE DEF Passed
    <3> QED
      BY <2>3, <2>6
  <2>10. trial'.level # "human"
    BY <1>1, <1>3, <2>6, Zenon
  <2>11. Passed => /\ OfUse(answer) => Heeded(answer, trial.criteria)
                   /\ ~OfUse(answer) => trial.output
    BY Zenon DEF Sound
  <2>12. OfUse(trial.answer)' <=> OfUse(answer)
    BY <2>6 DEF OfUse
  <2> HIDE DEF Passed
  <2>13. VerdictsHonest'
    BY <2>6, <2>8, <2>9, <2>10, <2>11, <2>12 DEF VerdictsHonest
  <2> QED
    BY <2>6, <2>7, <2>13 DEF JudgingIInv
<1> QED
  BY <1>2, <1>3

LEMMA ResultOf ==
  ASSUME NEW c \in ReviewCriterion, NEW score \in Int
  PROVE  Result(c, score).score = score /\ (Result(c, score).passed <=> score >= c.threshold)
  BY DEF Result

\* The heuristic passes an output and nothing else; it stands in where no answer is of use.
LEMMA HeuristicSound ==
  ASSUME JudgingIInv, trial.phase \in {"battle", "asked"}, NEW answer, ~OfUse(answer)
  PROVE  Sound(HeuristicResults, <<>>, answer)
<1>1. trial.criteria # <<>> /\ trial.criteria \in Seq(ReviewCriterion)
  BY Zenon DEF JudgingIInv, Prepared, Fair, WellWeighed
<1>2. 1 \in DOMAIN trial.criteria /\ trial.criteria[1] \in ReviewCriterion
  BY <1>1
<1>3. trial.criteria[1].threshold >= 1
  BY <1>2 DEF ReviewCriterion
<1>4. DOMAIN HeuristicResults = DOMAIN trial.criteria
  BY Zenon DEF HeuristicResults
<1>5. \A i \in DOMAIN trial.criteria :
        HeuristicResults[i] = Result(trial.criteria[i], IF trial.output THEN 80 ELSE 0)
  BY Zenon DEF HeuristicResults
<1>6. \A i \in DOMAIN HeuristicResults : HeuristicResults[i].score \in 0 .. 100
  <2>1. ASSUME NEW i \in DOMAIN HeuristicResults
        PROVE  HeuristicResults[i].score \in 0 .. 100
    <3>1. PICK score \in {0, 80} : HeuristicResults[i] = Result(trial.criteria[i], score)
      BY <1>4, <1>5
    <3>2. trial.criteria[i] \in ReviewCriterion
      BY <1>1, <1>4
    <3>3. HeuristicResults[i].score = score
      BY <3>1, <3>2, ResultOf
    <3> QED
      BY <3>3
  <2> QED
    BY <2>1
<1>7. HeuristicResults[1].passed => trial.output
  <2>1. HeuristicResults[1].passed <=> (IF trial.output THEN 80 ELSE 0) >= trial.criteria[1].threshold
    <3>1. PICK score \in Int : score = IF trial.output THEN 80 ELSE 0
      OBVIOUS
    <3> QED
      BY <1>2, <1>5, <3>1, ResultOf
  <2>2. trial.output \in BOOLEAN
    BY DEF JudgingIInv, JudgingTypeOK
  <2> QED
    BY <1>2, <1>3, <2>1, <2>2 DEF ReviewCriterion
<1> QED
  BY <1>2, <1>4, <1>6, <1>7, Zenon DEF Sound

\* The last of what an answer says of a criterion.
LEMMA LastOf ==
  ASSUME NEW S \in SUBSET Nat, IsFiniteSet(S), S # {}
  PROVE  Max(S) \in S
<1> DEFINE T == {n \in Nat : \A A \in SUBSET S : Cardinality(A) = n /\ A # {} =>
                               \E x \in A : \A y \in A : x >= y}
<1>1. 0 \in T
  BY FS_Subset, FS_EmptySet
<1>2. ASSUME NEW n \in Nat, n \in T
      PROVE  n + 1 \in T
  <2> SUFFICES ASSUME NEW A \in SUBSET S, Cardinality(A) = n + 1, A # {}
               PROVE  \E x \in A : \A y \in A : x >= y
    OBVIOUS
  <2>1. PICK a : a \in A
    OBVIOUS
  <2> DEFINE B == A \ {a}
  <2>2. B \in SUBSET S /\ Cardinality(B) = n
    <3>1. IsFiniteSet(A)
      BY FS_Subset
    <3>2. Cardinality(B) = Cardinality(A) - 1
      BY <2>1, <3>1, FS_RemoveElement
    <3>3. B \in SUBSET S
      OBVIOUS
    <3> HIDE DEF B
    <3> QED
      BY <3>2, <3>3
  <2>3. CASE B = {}
    BY <2>1, <2>3
  <2>4. CASE B # {}
    <3>1. PICK b \in B : \A y \in B : b >= y
      BY <1>2, <2>2, <2>4
    <3> QED
      BY <2>1, <3>1
  <2> QED
    BY <2>3, <2>4
<1>3. Nat \subseteq T
  <2> HIDE DEF T
  <2> QED
    BY <1>1, <1>2, Induction
<1>4. \E x \in S : \A y \in S : x >= y
  BY <1>3, FS_CardinalityType
<1> QED
  BY <1>4, Zenon DEF Max

LEMMA ClampWithin ==
  \A score \in Int, threshold \in 1 .. 100 :
    Clamp(score) \in 0 .. 100 /\ (Clamp(score) >= threshold => score >= threshold)
  BY DEF Clamp

\* What an answer says of a criterion is in it.
LEMMA ScoresIn ==
  ASSUME JudgingAssumption, NEW answer \in JudgeAnswers, NEW name
  PROVE  /\ ScoresOf(answer, name) \in SUBSET Nat /\ IsFiniteSet(ScoresOf(answer, name))
         /\ \A i \in ScoresOf(answer, name) : answer.scores[i].score \in Int
<1>1. answer.scores \in Seq([name : CriterionNames, score : Int])
  BY DEF JudgingAssumption
<1>2. DOMAIN answer.scores = 1 .. Len(answer.scores) /\ Len(answer.scores) \in Int /\ 1 \in Int
  BY <1>1
<1>3. ScoresOf(answer, name) \subseteq DOMAIN answer.scores
  BY DEF ScoresOf
<1>4. IsFiniteSet(ScoresOf(answer, name))
  BY <1>2, <1>3, FS_Interval, FS_Subset
<1>5. ASSUME NEW i \in DOMAIN answer.scores
      PROVE  answer.scores[i].score \in Int
  <2>1. answer.scores[i] \in [name : CriterionNames, score : Int]
    BY <1>1, ElementsOf, Zenon
  <2> QED
    BY <2>1
<1> QED
  BY <1>2, <1>3, <1>4, <1>5

LEMMA MergedSound ==
  ASSUME JudgingIInv, NEW answer \in JudgeAnswers, OfUse(answer)
  PROVE  trial.phase = "asked" => Sound(MergedResults(answer), answer.checks, answer)
<1> DEFINE Given(i) == ScoresOf(answer, trial.criteria[i].name)
           Score(i) == IF Given(i) = {} THEN 80 ELSE Clamp(answer.scores[Max(Given(i))].score)
<1> SUFFICES ASSUME trial.phase = "asked"
             PROVE  Sound(MergedResults(answer), answer.checks, answer)
  OBVIOUS
<1>1. trial.criteria \in Seq(ReviewCriterion)
  BY Zenon DEF JudgingIInv, Prepared, Fair, WellWeighed
<1>2. DOMAIN MergedResults(answer) = DOMAIN trial.criteria
  BY Zenon DEF MergedResults
<1>3. \A i \in DOMAIN trial.criteria : MergedResults(answer)[i] = Result(trial.criteria[i], Score(i))
  BY Zenon DEF MergedResults
<1>4. ASSUME NEW i \in DOMAIN trial.criteria
      PROVE  /\ MergedResults(answer)[i].score \in 0 .. 100
             /\ MergedResults(answer)[i].passed /\ Given(i) # {} =>
                  \E g \in Given(i) : answer.scores[g].score >= trial.criteria[i].threshold
  <2>1. trial.criteria[i] \in ReviewCriterion
    BY <1>1, ElementsOf, Zenon
  <2>2. trial.criteria[i].threshold \in 1 .. 100
    BY <2>1 DEF ReviewCriterion
  <2>3. CASE Given(i) = {}
    <3>1. MergedResults(answer)[i] = Result(trial.criteria[i], 80)
      BY <1>3, <2>3, Zenon
    <3>2. MergedResults(answer)[i].score = 80
      BY <2>1, <3>1, ResultOf
    <3> QED
      BY <2>3, <3>2
  <2>4. CASE Given(i) # {}
    <3>1. PICK g \in Given(i) : g = Max(Given(i))
      BY <2>4, JudgingAssumption, ScoresIn, LastOf, Zenon
    <3>2. PICK said \in Int : said = answer.scores[g].score
      BY <3>1, JudgingAssumption, ScoresIn, Zenon
    <3>3. MergedResults(answer)[i] = Result(trial.criteria[i], Clamp(said))
      BY <1>3, <2>4, <3>1, <3>2, Zenon
    <3>4. Clamp(said) \in Int
      BY DEF Clamp
    <3>5. /\ MergedResults(answer)[i].score = Clamp(said)
          /\ MergedResults(answer)[i].passed <=> Clamp(said) >= trial.criteria[i].threshold
      BY <2>1, <3>3, <3>4, ResultOf
    <3>6. Clamp(said) \in 0 .. 100
          /\ (Clamp(said) >= trial.criteria[i].threshold => said >= trial.criteria[i].threshold)
      BY <2>2, ClampWithin, Zenon
    <3> HIDE DEF Given
    <3> QED
      BY <3>1, <3>2, <3>5, <3>6
  <2> QED
    BY <2>3, <2>4
<1>5. (\A i \in DOMAIN trial.criteria : MergedResults(answer)[i].passed) =>
        \A i \in DOMAIN trial.criteria : Given(i) # {} =>
          \E g \in Given(i) : answer.scores[g].score >= trial.criteria[i].threshold
  BY <1>4, Zenon
<1>6. \A i \in DOMAIN trial.criteria : MergedResults(answer)[i].score \in 0 .. 100
  BY <1>4, Zenon
<1> QED
  BY <1>2, <1>5, <1>6, Zenon DEF Sound, Heeded

LEMMA TrialType ==
  \A P, L, C, J, A, V :
    \A p \in P, l \in L, o \in BOOLEAN, c \in C, j \in J, a \in A, v \in V :
      [phase |-> p, level |-> l, output |-> o, criteria |-> c, judges |-> j, answer |-> a,
       verdict |-> v]
        \in [phase : P, level : L, output : BOOLEAN, criteria : C, judges : J, answer : A,
             verdict : V]
  OBVIOUS

LEMMA NoTrialTyped ==
  NoTrial \in [phase : {"none", "unheard", "battle", "asked", "judged", "pending"},
               level : Levels \cup {""}, output : BOOLEAN,
               criteria : Seq(ReviewCriterion),
               judges : Seq(JudgeTypes), answer : JudgeAnswers \cup {NoAnswer},
               verdict : [passed : BOOLEAN, quality : Int]]
<1>1. <<>> \in Seq(ReviewCriterion) /\ <<>> \in Seq(JudgeTypes)
  OBVIOUS
<1>2. NoVerdict \in [passed : BOOLEAN, quality : Int]
  BY DEF NoVerdict
<1>3. /\ "none" \in {"none", "unheard", "battle", "asked", "judged", "pending"}
      /\ "" \in Levels \cup {""} /\ FALSE \in BOOLEAN /\ NoAnswer \in JudgeAnswers \cup {NoAnswer}
  OBVIOUS
<1> QED
  BY <1>1, <1>2, <1>3, TrialType, Zenon DEF NoTrial

LEMMA EvaluateStep ==
  ASSUME JudgingIInv, JudgingNext
  PROVE  JudgingIInv'
<1> USE JudgingAssumption
<1>1. ASSUME NEW cat \in Catalogs, NEW level \in Levels, NEW output \in BOOLEAN,
             NEW findings \in BOOLEAN, StartBattle(cat, level, output, findings)
      PROVE  JudgingIInv'
  <2>1. PICK p \in {"battle", "unheard"} : \E o, c, j :
          /\ o = BattleOutput(output, findings)
          /\ c = ResolveCriteria(cat, level) /\ j = ResolveJudges(cat, level)
          /\ trial' = [trial EXCEPT !.phase = p, !.level = level, !.output = o,
                         !.criteria = c, !.judges = j]
    BY <1>1, Zenon DEF StartBattle
  <2> PICK o, c, j :
          /\ o = BattleOutput(output, findings)
          /\ c = ResolveCriteria(cat, level) /\ j = ResolveJudges(cat, level)
          /\ trial' = [trial EXCEPT !.phase = p, !.level = level, !.output = o,
                         !.criteria = c, !.judges = j]
    BY <2>1
  <2>2. /\ Fair(c) /\ j \in Seq(JudgeTypes) /\ (level = "human" => "human" \in Range(j))
        /\ o \in BOOLEAN
    BY <2>1, ResolvedWell DEF BattleOutput
  <2>3. c \in Seq(ReviewCriterion)
    BY <2>2 DEF Fair, WellWeighed
  <2>4. JudgingTypeOK /\ JudgingTypeOK' /\ trial'.criteria = c /\ trial'.level = level
        /\ trial'.judges = j /\ trial'.phase = p
    BY <2>1, <2>2, <2>3 DEF JudgingIInv, JudgingTypeOK
  <2>5. Prepared'
    BY <2>2, <2>4, Zenon DEF Prepared
  <2> QED
    BY <2>4, <2>5 DEF JudgingIInv, VerdictsHonest
<1>2. ~OfUse(NoAnswer)
  BY DEF OfUse, ScoresOf, NoAnswer
<1>3. ASSUME EvaluateHeuristically \/ JudgeFails
      PROVE  JudgingIInv'
  <2>1. trial.phase \in {"battle", "asked"} /\ Conclude(HeuristicResults, <<>>, NoAnswer)
    BY <1>3, Zenon DEF EvaluateHeuristically, JudgeFails
  <2> QED
    BY <1>2, <2>1, HeuristicSound, ConcludeHonest
<1>4. ASSUME CallLLMJudge
      PROVE  JudgingIInv'
  <2>1. /\ JudgingTypeOK' /\ trial'.criteria = trial.criteria /\ trial'.level = trial.level
        /\ trial'.judges = trial.judges /\ trial'.phase = "asked" /\ trial.phase = "battle"
    BY <1>4 DEF CallLLMJudge, JudgingIInv, JudgingTypeOK
  <2>2. Prepared'
    BY <2>1, "battle" # "none", Zenon DEF Prepared, JudgingIInv
  <2> QED
    BY <2>1, <2>2 DEF JudgingIInv, VerdictsHonest
<1>5. ASSUME NEW answer \in JudgeAnswers, JudgeAnswersWith(answer)
      PROVE  JudgingIInv'
  <2>1. trial.phase = "asked" /\ answer \in JudgeAnswers \cup {NoAnswer}
    BY <1>5 DEF JudgeAnswersWith
  <2>2. CASE OfUse(answer)
    BY <1>5, <2>1, <2>2, MergedSound, ConcludeHonest DEF JudgeAnswersWith
  <2>3. CASE ~OfUse(answer)
    BY <1>5, <2>1, <2>3, HeuristicSound, ConcludeHonest DEF JudgeAnswersWith
  <2> QED
    BY <2>2, <2>3
<1>6. ASSUME TimeIsOver
      PROVE  JudgingIInv'
  <2>1. /\ JudgingTypeOK' /\ trial'.criteria = trial.criteria /\ trial'.level = trial.level
        /\ trial'.judges = trial.judges /\ trial.phase # "none" /\ trial'.verdict = NoVerdict
    <3>1. NoVerdict \in [passed : BOOLEAN, quality : Int]
      BY DEF NoVerdict
    <3> QED
      BY <1>6, <3>1 DEF TimeIsOver, JudgingIInv, JudgingTypeOK
  <2>2. Prepared'
    BY <2>1, Zenon DEF Prepared, JudgingIInv
  <2> QED
    BY <2>1, <2>2 DEF JudgingIInv, VerdictsHonest, NoVerdict
<1>7. ASSUME NextTrial
      PROVE  JudgingIInv'
  <2>1. trial' = NoTrial
    BY <1>7 DEF NextTrial
  <2>2. JudgingTypeOK'
    BY <2>1, NoTrialTyped, Zenon DEF JudgingTypeOK
  <2>3. trial'.phase = "none"
    BY <2>1 DEF NoTrial
  <2> QED
    BY <2>2, <2>3 DEF JudgingIInv, Prepared, VerdictsHonest
<1> QED
  BY <1>1, <1>3, <1>4, <1>5, <1>6, <1>7 DEF JudgingNext

\* A verdict is honest for whatever criteria and judges a catalog lists and whatever a judge
\* answers.
THEOREM VerdictsAreHonest == JudgingSpec => []VerdictsHonest
<1>1. JudgingInit => JudgingIInv
  <2> SUFFICES ASSUME JudgingInit  PROVE JudgingIInv
    OBVIOUS
  <2>1. JudgingTypeOK /\ trial.phase = "none"
    BY NoTrialTyped, Zenon DEF JudgingInit, JudgingTypeOK, NoTrial
  <2> QED
    BY <2>1 DEF JudgingIInv, Prepared, VerdictsHonest
<1>2. JudgingIInv /\ [JudgingNext]_jgVars => JudgingIInv'
  <2>1. ASSUME JudgingIInv, UNCHANGED jgVars
        PROVE  JudgingIInv'
    <3>1. trial' = trial
      BY <2>1 DEF jgVars
    <3>2. OfUse(trial.answer)' <=> OfUse(trial.answer)
      BY <3>1 DEF OfUse
    <3> QED
      <4>1. JudgingTypeOK'
        BY <2>1, <3>1 DEF JudgingIInv, JudgingTypeOK
      <4>2. Prepared'
        BY <2>1, <3>1, Zenon DEF JudgingIInv, Prepared
      <4>3. VerdictsHonest'
        BY <2>1, <3>1, <3>2 DEF JudgingIInv, VerdictsHonest
      <4> QED
        BY <4>1, <4>2, <4>3 DEF JudgingIInv
  <2> QED
    BY <2>1, EvaluateStep
<1> QED
  BY <1>1, <1>2, PTL DEF JudgingSpec, JudgingIInv

-----------------------------------------------------------------------------
(***************************************************************************)
(* A quest that an idle agent could take is suggested to it, for any       *)
(* agents, quests, guilds, traits and weights, and however late the        *)
(* watches are.                                                            *)
(*                                                                         *)
(* The caches are right about what no watch has news of, and the last news *)
(* that a watch has of anything is what is stored (Trails); a posted quest *)
(* has nobody on it who would repel others (Owned).  So when the watches   *)
(* have delivered all, the score that the loop computes from the caches is *)
(* the one that the graph would give, and that is positive; and what       *)
(* scores, when no more than may be suggested, is all suggested, since it  *)
(* can be put in order.                                                    *)
(***************************************************************************)
FlockSpec == FlockInit /\ [][FlockNext]_bdVars

\* The last word of a queue on k, if it says anything of it, is e.
Unheard(queue, k) == \A i \in DOMAIN queue : queue[i][1] # k

LastSays(queue, k, e) ==
  \E i \in DOMAIN queue :
    queue[i] = <<k, e>> /\ \A j \in DOMAIN queue : j > i /\ queue[j][1] = k => queue[j] = <<k, e>>

CachedBoid == [status : {"none", "idle", "on_quest"}, quest : Postings \cup {NoName}, guild : Bands \cup {NoName}]

Shown(quest) == IF InPool(quest) THEN quest ELSE Absent

FlockTyped ==
  /\ graph \in [agents : [Boids -> Boid], quests : [Postings -> Posting], guilds : [Bands -> Band]]
  /\ cache \in [agents : [Boids -> CachedBoid], quests : [Postings -> Posting], guilds : [Bands -> Band]]
  /\ updates \in [agents : Seq(Boids \X Boid), quests : Seq(Postings \X Posting),
                  guilds : Seq(Bands \X Band)]
  /\ starts \in Nat

\* Who is on a quest has it in progress, and for itself.
OnDuty(agents, quests) ==
  /\ \A a \in Boids : agents[a].status = "on_quest" <=> agents[a].quest # NoName
  /\ \A a \in Boids, q \in Postings : agents[a].quest = q => quests[q].status = "in_progress"
  /\ \A a, b \in Boids : a # b /\ agents[a].quest = agents[b].quest => agents[a].quest = NoName

Owned == OnDuty(graph.agents, graph.quests)

\* What a watch has yet to deliver ends in what is stored; of the rest the cache shows it.
Trailing(queue, k, stored, cached, shown) ==
  \/ LastSays(queue, k, stored)
  \/ Unheard(queue, k) /\ cached = shown

AgentsTrail(stored, queue, cached) ==
  \A a \in Boids : Trailing(queue, a, stored[a], cached[a], stored[a])
QuestsTrail(stored, queue, cached) ==
  \A q \in Postings : Trailing(queue, q, stored[q], cached[q], Shown(stored[q]))
GuildsTrail(stored, queue, cached) ==
  \A g \in Bands : Trailing(queue, g, stored[g], cached[g], stored[g])

Trails ==
  starts > 0 =>
    /\ AgentsTrail(graph.agents, updates.agents, cache.agents)
    /\ QuestsTrail(graph.quests, updates.quests, cache.quests)
    /\ GuildsTrail(graph.guilds, updates.guilds, cache.guilds)

Asleep == starts = 0 => updates.agents = <<>> /\ updates.quests = <<>> /\ updates.guilds = <<>>

FlockIInv == FlockTyped /\ Owned /\ Trails /\ Asleep

-----------------------------------------------------------------------------
(* Queues.                                                                 *)

LEMMA AppendSays ==
  ASSUME NEW S, NEW queue \in Seq(S), NEW k, NEW e, <<k, e>> \in S
  PROVE  /\ LastSays(Append(queue, <<k, e>>), k, e)
         /\ \A h, d : h # k /\ LastSays(queue, h, d) => LastSays(Append(queue, <<k, e>>), h, d)
         /\ \A h : h # k /\ Unheard(queue, h) => Unheard(Append(queue, <<k, e>>), h)
<1> DEFINE new == Append(queue, <<k, e>>)
<1>1. /\ DOMAIN new = 1 .. Len(queue) + 1 /\ DOMAIN queue = 1 .. Len(queue) /\ Len(queue) \in Nat
      /\ new[Len(queue) + 1] = <<k, e>>
      /\ \A i \in DOMAIN queue : new[i] = queue[i]
  OBVIOUS
<1> HIDE DEF new
<1>2. LastSays(new, k, e)
  <2>1. \A j \in DOMAIN new : ~(j > Len(queue) + 1)
    BY <1>1
  <2>2. Len(queue) + 1 \in DOMAIN new
    BY <1>1
  <2> QED
    BY <1>1, <2>1, <2>2, Zenon DEF LastSays
<1>3. \A j \in DOMAIN new : j \in DOMAIN queue \/ new[j][1] = k
  <2>1. \A j \in DOMAIN new : j \in DOMAIN queue \/ j = Len(queue) + 1
    BY <1>1
  <2>2. new[Len(queue) + 1][1] = k
    BY <1>1
  <2> QED
    BY <2>1, <2>2
<1>4. \A i \in DOMAIN queue : i \in DOMAIN new
  BY <1>1
<1>5. ASSUME NEW h, NEW d, h # k, LastSays(queue, h, d)
      PROVE  LastSays(new, h, d)
  BY <1>1, <1>3, <1>4, <1>5, Zenon DEF LastSays
<1>6. ASSUME NEW h, h # k, Unheard(queue, h)
      PROVE  Unheard(new, h)
  BY <1>1, <1>3, <1>6, Zenon DEF Unheard
<1> QED
  BY <1>2, <1>5, <1>6, Zenon DEF new

LEMMA TailSays ==
  ASSUME NEW S, NEW queue \in Seq(S), queue # <<>>
  PROVE  /\ \A h, d : LastSays(queue, h, d) =>
              LastSays(Tail(queue), h, d) \/ (Head(queue) = <<h, d>> /\ Unheard(Tail(queue), h))
         /\ \A h : Unheard(queue, h) => Unheard(Tail(queue), h) /\ Head(queue)[1] # h
<1> DEFINE rest == Tail(queue)
<1>1. /\ DOMAIN rest = 1 .. Len(queue) - 1 /\ DOMAIN queue = 1 .. Len(queue) /\ Len(queue) \in Nat \ {0}
      /\ \A i \in DOMAIN rest : rest[i] = queue[i + 1]
      /\ Head(queue) = queue[1]
  OBVIOUS
<1> HIDE DEF rest
<1>2. ASSUME NEW h, NEW d, LastSays(queue, h, d)
      PROVE  LastSays(rest, h, d) \/ (Head(queue) = <<h, d>> /\ Unheard(rest, h))
  <2>1. PICK i \in DOMAIN queue :
          queue[i] = <<h, d>> /\ \A j \in DOMAIN queue : j > i /\ queue[j][1] = h => queue[j] = <<h, d>>
    BY <1>2, Zenon DEF LastSays
  <2>2. CASE i = 1
    <3>1. \A j \in DOMAIN rest : rest[j][1] = h => rest[j] = <<h, d>>
      BY <1>1, <2>1, <2>2
    <3> QED
      BY <1>1, <2>1, <2>2, <3>1, Zenon DEF LastSays, Unheard
  <2>3. CASE i # 1
    <3>1. i - 1 \in DOMAIN rest /\ rest[i - 1] = <<h, d>>
      BY <1>1, <2>1, <2>3
    <3>2. \A j \in DOMAIN rest : j > i - 1 /\ rest[j][1] = h => rest[j] = <<h, d>>
      BY <1>1, <2>1, <2>3
    <3> QED
      BY <3>1, <3>2, Zenon DEF LastSays
  <2> QED
    BY <2>2, <2>3
<1>3. ASSUME NEW h, Unheard(queue, h)
      PROVE  Unheard(rest, h) /\ Head(queue)[1] # h
  BY <1>1, <1>3 DEF Unheard
<1> QED
  BY <1>2, <1>3, Zenon DEF rest

\* A start replays all that is stored, each entity in its place.
LEMMA ReplaySays ==
  ASSUME NEW f, IsFiniteSet(DOMAIN f), NEW S, \A k \in DOMAIN f : <<k, f[k]>> \in S
  PROVE  /\ Replay(f) \in Seq(S)
         /\ \A k \in DOMAIN f : LastSays(Replay(f), k, f[k])
         /\ \A k : k \notin DOMAIN f => Unheard(Replay(f), k)
<1> DEFINE n == Cardinality(DOMAIN f)
           Whole(s) == \A k \in DOMAIN f : \E i \in DOMAIN s : s[i] = k
<1>1. n \in Nat
  BY FS_CardinalityType
<1>2. \E s \in [1 .. n -> DOMAIN f] : Whole(s)
  <2>1. ExistsBijection(1 .. n, DOMAIN f)
    BY FS_CardinalityType
  <2>2. PICK s : s \in [1 .. n -> DOMAIN f] /\ \A k \in DOMAIN f : \E i \in 1 .. n : s[i] = k
    BY <2>1, Zenon DEF ExistsBijection, Bijection, Injection, Surjection
  <2> QED
    BY <2>2
<1>3. PICK s \in [1 .. n -> DOMAIN f] : Whole(s) /\ Replay(f) = [i \in DOMAIN s |-> <<s[i], f[s[i]]>>]
  BY <1>2, Zenon DEF Replay
<1>4. DOMAIN Replay(f) = 1 .. n /\ \A i \in 1 .. n : s[i] \in DOMAIN f /\ Replay(f)[i] = <<s[i], f[s[i]]>>
  BY <1>3
<1>5. Replay(f) \in Seq(S)
  BY <1>1, <1>3, <1>4
<1>6. ASSUME NEW k \in DOMAIN f
      PROVE  LastSays(Replay(f), k, f[k])
  <2>1. PICK i \in 1 .. n : s[i] = k
    BY <1>3
  <2>2. \A j \in 1 .. n : Replay(f)[j][1] = k => Replay(f)[j] = <<k, f[k]>>
    BY <1>4
  <2> QED
    BY <1>4, <2>1, <2>2, Zenon DEF LastSays
<1>7. \A k : k \notin DOMAIN f => Unheard(Replay(f), k)
  BY <1>4 DEF Unheard
<1> QED
  BY <1>5, <1>6, <1>7

-----------------------------------------------------------------------------
(* The writers: each tells the watches what it writes.                     *)

\* A write of one entity, told to the queue of its kind.
LEMMA WriteTrails ==
  ASSUME NEW S, NEW queue \in Seq(S), NEW k, NEW e, <<k, e>> \in S
  PROVE  /\ Append(queue, <<k, e>>) \in Seq(S)
         /\ \A c, s : Trailing(Append(queue, <<k, e>>), k, e, c, s)
         /\ \A h, d, c, s : h # k /\ Trailing(queue, h, d, c, s) => Trailing(Append(queue, <<k, e>>), h, d, c, s)
<1>1. Append(queue, <<k, e>>) \in Seq(S)
  OBVIOUS
<1> QED
  BY <1>1, AppendSays, Zenon DEF Trailing

\* A delivery takes the head of a queue to the cache.
LEMMA DeliveryTrails ==
  ASSUME NEW S, NEW queue \in Seq(S), queue # <<>>
  PROVE  /\ Tail(queue) \in Seq(S) /\ Head(queue) \in S
         /\ \A h, d, c, s : Trailing(queue, h, d, c, s) =>
              \/ LastSays(Tail(queue), h, d)
              \/ Unheard(Tail(queue), h) /\ Head(queue) = <<h, d>>
              \/ Head(queue)[1] # h /\ Trailing(Tail(queue), h, d, c, s)
<1>1. Tail(queue) \in Seq(S) /\ Head(queue) \in S
  OBVIOUS
<1> QED
  BY <1>1, TailSays, Zenon DEF Trailing

LEMMA AgentWritten ==
  ASSUME NEW stored \in [Boids -> Boid], NEW queue \in Seq(Boids \X Boid), NEW cached,
         AgentsTrail(stored, queue, cached), NEW a \in Boids, NEW x \in Boid
  PROVE  /\ Append(queue, <<a, x>>) \in Seq(Boids \X Boid) /\ [stored EXCEPT ![a] = x] \in [Boids -> Boid]
         /\ AgentsTrail([stored EXCEPT ![a] = x], Append(queue, <<a, x>>), cached)
<1>1. PICK new : new = [stored EXCEPT ![a] = x]
  OBVIOUS
<1>2. new \in [Boids -> Boid] /\ new[a] = x /\ \A h \in Boids : h # a => new[h] = stored[h]
  BY <1>1
<1>3. <<a, x>> \in Boids \X Boid
  OBVIOUS
<1>4. Append(queue, <<a, x>>) \in Seq(Boids \X Boid)
  BY <1>3, WriteTrails
<1>5. ASSUME NEW h \in Boids
      PROVE  Trailing(Append(queue, <<a, x>>), h, new[h], cached[h], new[h])
  <2>1. CASE h = a
    BY <1>2, <1>3, <2>1, WriteTrails, Zenon
  <2>2. CASE h # a
    <3>1. Trailing(queue, h, new[h], cached[h], new[h])
      BY <1>2, <2>2, Zenon DEF AgentsTrail
    <3> QED
      BY <1>3, <2>2, <3>1, WriteTrails, Zenon
  <2> QED
    BY <2>1, <2>2
<1> QED
  BY <1>1, <1>2, <1>4, <1>5, Zenon DEF AgentsTrail

LEMMA QuestWritten ==
  ASSUME NEW stored \in [Postings -> Posting], NEW queue \in Seq(Postings \X Posting), NEW cached,
         QuestsTrail(stored, queue, cached), NEW q \in Postings, NEW x \in Posting
  PROVE  /\ Append(queue, <<q, x>>) \in Seq(Postings \X Posting) /\ [stored EXCEPT ![q] = x] \in [Postings -> Posting]
         /\ QuestsTrail([stored EXCEPT ![q] = x], Append(queue, <<q, x>>), cached)
<1>1. PICK new : new = [stored EXCEPT ![q] = x]
  OBVIOUS
<1>2. new \in [Postings -> Posting] /\ new[q] = x /\ \A h \in Postings : h # q => new[h] = stored[h]
  BY <1>1
<1>3. <<q, x>> \in Postings \X Posting
  OBVIOUS
<1>4. Append(queue, <<q, x>>) \in Seq(Postings \X Posting)
  BY <1>3, WriteTrails
<1>5. ASSUME NEW h \in Postings
      PROVE  Trailing(Append(queue, <<q, x>>), h, new[h], cached[h], Shown(new[h]))
  <2>1. CASE h = q
    BY <1>2, <1>3, <2>1, WriteTrails, Zenon
  <2>2. CASE h # q
    <3>1. Trailing(queue, h, new[h], cached[h], Shown(new[h]))
      BY <1>2, <2>2, Zenon DEF QuestsTrail
    <3> QED
      BY <1>3, <2>2, <3>1, WriteTrails, Zenon
  <2> QED
    BY <2>1, <2>2
<1> QED
  BY <1>1, <1>2, <1>4, <1>5, Zenon DEF QuestsTrail

LEMMA GuildWritten ==
  ASSUME NEW stored \in [Bands -> Band], NEW queue \in Seq(Bands \X Band), NEW cached,
         GuildsTrail(stored, queue, cached), NEW g \in Bands, NEW x \in Band
  PROVE  /\ Append(queue, <<g, x>>) \in Seq(Bands \X Band) /\ [stored EXCEPT ![g] = x] \in [Bands -> Band]
         /\ GuildsTrail([stored EXCEPT ![g] = x], Append(queue, <<g, x>>), cached)
<1>1. PICK new : new = [stored EXCEPT ![g] = x]
  OBVIOUS
<1>2. new \in [Bands -> Band] /\ new[g] = x /\ \A h \in Bands : h # g => new[h] = stored[h]
  BY <1>1
<1>3. <<g, x>> \in Bands \X Band
  OBVIOUS
<1>4. Append(queue, <<g, x>>) \in Seq(Bands \X Band)
  BY <1>3, WriteTrails
<1>5. ASSUME NEW h \in Bands
      PROVE  Trailing(Append(queue, <<g, x>>), h, new[h], cached[h], new[h])
  <2>1. CASE h = g
    BY <1>2, <1>3, <2>1, WriteTrails, Zenon
  <2>2. CASE h # g
    <3>1. Trailing(queue, h, new[h], cached[h], new[h])
      BY <1>2, <2>2, Zenon DEF GuildsTrail
    <3> QED
      BY <1>3, <2>2, <3>1, WriteTrails, Zenon
  <2> QED
    BY <2>1, <2>2
<1> QED
  BY <1>1, <1>2, <1>4, <1>5, Zenon DEF GuildsTrail

LEMMA AgentDelivered ==
  ASSUME NEW stored \in [Boids -> Boid], NEW queue \in Seq(Boids \X Boid), queue # <<>>, NEW cached \in [Boids -> CachedBoid],
         AgentsTrail(stored, queue, cached), Boid \subseteq CachedBoid
  PROVE  /\ Tail(queue) \in Seq(Boids \X Boid)
         /\ [cached EXCEPT ![Head(queue)[1]] = Head(queue)[2]] \in [Boids -> CachedBoid]
         /\ AgentsTrail(stored, Tail(queue), [cached EXCEPT ![Head(queue)[1]] = Head(queue)[2]])
<1>1. PICK a \in Boids, x \in Boid : Head(queue) = <<a, x>>
  BY DeliveryTrails
<1>2. Head(queue)[1] = a /\ Head(queue)[2] = x
  BY <1>1
<1>3. PICK new : new = [cached EXCEPT ![a] = x]
  OBVIOUS
<1>4. new \in [Boids -> CachedBoid] /\ new[a] = x /\ \A h \in Boids : h # a => new[h] = cached[h]
  BY <1>3
<1>5. ASSUME NEW h \in Boids
      PROVE  Trailing(Tail(queue), h, stored[h], new[h], stored[h])
  <2>1. Trailing(queue, h, stored[h], cached[h], stored[h])
    BY Zenon DEF AgentsTrail
  <2>2. CASE LastSays(Tail(queue), h, stored[h])
    BY <2>2, Zenon DEF Trailing
  <2>3. CASE Unheard(Tail(queue), h) /\ Head(queue) = <<h, stored[h]>>
    <3>1. h = a /\ stored[h] = x
      BY <1>1, <2>3
    <3> QED
      BY <1>4, <2>3, <3>1, Zenon DEF Trailing
  <2>4. CASE h # a /\ Trailing(Tail(queue), h, stored[h], cached[h], stored[h])
    BY <1>4, <2>4, Zenon
  <2> QED
    BY <1>2, <2>1, <2>2, <2>3, <2>4, DeliveryTrails, Zenon
<1>6. Tail(queue) \in Seq(Boids \X Boid)
  BY DeliveryTrails
<1> QED
  BY <1>2, <1>3, <1>4, <1>5, <1>6, Zenon DEF AgentsTrail

LEMMA QuestDelivered ==
  ASSUME NEW stored \in [Postings -> Posting], NEW queue \in Seq(Postings \X Posting), queue # <<>>, NEW cached \in [Postings -> Posting],
         QuestsTrail(stored, queue, cached), Posting \subseteq Posting, \A x \in Posting : Shown(x) \in Posting
  PROVE  /\ Tail(queue) \in Seq(Postings \X Posting)
         /\ [cached EXCEPT ![Head(queue)[1]] = Shown(Head(queue)[2])] \in [Postings -> Posting]
         /\ QuestsTrail(stored, Tail(queue), [cached EXCEPT ![Head(queue)[1]] = Shown(Head(queue)[2])])
<1>1. PICK q \in Postings, x \in Posting : Head(queue) = <<q, x>>
  BY DeliveryTrails
<1>2. Head(queue)[1] = q /\ Head(queue)[2] = x
  BY <1>1
<1>3. PICK new : new = [cached EXCEPT ![q] = Shown(x)]
  OBVIOUS
<1>4. new \in [Postings -> Posting] /\ new[q] = Shown(x) /\ \A h \in Postings : h # q => new[h] = cached[h]
  BY <1>3
<1>5. ASSUME NEW h \in Postings
      PROVE  Trailing(Tail(queue), h, stored[h], new[h], Shown(stored[h]))
  <2>1. Trailing(queue, h, stored[h], cached[h], Shown(stored[h]))
    BY Zenon DEF QuestsTrail
  <2>2. CASE LastSays(Tail(queue), h, stored[h])
    BY <2>2, Zenon DEF Trailing
  <2>3. CASE Unheard(Tail(queue), h) /\ Head(queue) = <<h, stored[h]>>
    <3>1. h = q /\ stored[h] = x
      BY <1>1, <2>3
    <3> QED
      BY <1>4, <2>3, <3>1, Zenon DEF Trailing
  <2>4. CASE h # q /\ Trailing(Tail(queue), h, stored[h], cached[h], Shown(stored[h]))
    BY <1>4, <2>4, Zenon
  <2> QED
    BY <1>2, <2>1, <2>2, <2>3, <2>4, DeliveryTrails, Zenon
<1>6. Tail(queue) \in Seq(Postings \X Posting)
  BY DeliveryTrails
<1> QED
  BY <1>2, <1>3, <1>4, <1>5, <1>6, Zenon DEF QuestsTrail

LEMMA GuildDelivered ==
  ASSUME NEW stored \in [Bands -> Band], NEW queue \in Seq(Bands \X Band), queue # <<>>, NEW cached \in [Bands -> Band],
         GuildsTrail(stored, queue, cached), Band \subseteq Band
  PROVE  /\ Tail(queue) \in Seq(Bands \X Band)
         /\ [cached EXCEPT ![Head(queue)[1]] = Head(queue)[2]] \in [Bands -> Band]
         /\ GuildsTrail(stored, Tail(queue), [cached EXCEPT ![Head(queue)[1]] = Head(queue)[2]])
<1>1. PICK g \in Bands, x \in Band : Head(queue) = <<g, x>>
  BY DeliveryTrails
<1>2. Head(queue)[1] = g /\ Head(queue)[2] = x
  BY <1>1
<1>3. PICK new : new = [cached EXCEPT ![g] = x]
  OBVIOUS
<1>4. new \in [Bands -> Band] /\ new[g] = x /\ \A h \in Bands : h # g => new[h] = cached[h]
  BY <1>3
<1>5. ASSUME NEW h \in Bands
      PROVE  Trailing(Tail(queue), h, stored[h], new[h], stored[h])
  <2>1. Trailing(queue, h, stored[h], cached[h], stored[h])
    BY Zenon DEF GuildsTrail
  <2>2. CASE LastSays(Tail(queue), h, stored[h])
    BY <2>2, Zenon DEF Trailing
  <2>3. CASE Unheard(Tail(queue), h) /\ Head(queue) = <<h, stored[h]>>
    <3>1. h = g /\ stored[h] = x
      BY <1>1, <2>3
    <3> QED
      BY <1>4, <2>3, <3>1, Zenon DEF Trailing
  <2>4. CASE h # g /\ Trailing(Tail(queue), h, stored[h], cached[h], stored[h])
    BY <1>4, <2>4, Zenon
  <2> QED
    BY <1>2, <2>1, <2>2, <2>3, <2>4, DeliveryTrails, Zenon
<1>6. Tail(queue) \in Seq(Bands \X Band)
  BY DeliveryTrails
<1> QED
  BY <1>2, <1>3, <1>4, <1>5, <1>6, Zenon DEF GuildsTrail

-----------------------------------------------------------------------------
(* The steps.                                                              *)

\* An agent takes a quest that nobody is on, or leaves the one it is on.
LEMMA DutyAfter ==
  ASSUME NEW agents \in [Boids -> Boid], NEW quests \in [Postings -> Posting], OnDuty(agents, quests),
         NEW q \in Postings, NEW a \in Boids, NEW x \in Posting, NEW y \in Boid, NoName \notin Postings,
         \A b \in Boids : b # a => agents[b].quest # q,
         \/ y.status = "on_quest" /\ y.quest = q /\ x.status = "in_progress"
         \/ y.status = "idle" /\ y.quest = NoName
  PROVE  OnDuty([agents EXCEPT ![a] = y], [quests EXCEPT ![q] = x])
<1>1. PICK as, qs : as = [agents EXCEPT ![a] = y] /\ qs = [quests EXCEPT ![q] = x]
  OBVIOUS
<1>2. /\ as[a] = y /\ \A b \in Boids : b # a => as[b] = agents[b]
      /\ qs[q] = x /\ \A h \in Postings : h # q => qs[h] = quests[h]
  BY <1>1
<1>3. ASSUME NEW b \in Boids
      PROVE  as[b].status = "on_quest" <=> as[b].quest # NoName
  <2>1. CASE b = a
    <3>1. as[b] = y /\ "idle" # "on_quest"
      BY <1>2, <2>1
    <3> QED
      BY <3>1, Zenon
  <2>2. CASE b # a
    <3>1. as[b] = agents[b]
      BY <1>2, <2>2
    <3> QED
      BY <3>1, Zenon DEF OnDuty
  <2> QED
    BY <2>1, <2>2
<1>4. ASSUME NEW b \in Boids, NEW h \in Postings, as[b].quest = h
      PROVE  qs[h].status = "in_progress"
  <2>1. CASE b = a
    <3>1. as[b] = y /\ qs[q] = x /\ y.quest = h
      BY <1>2, <1>4, <2>1, Zenon
    <3>2. h = q
      BY <3>1, Zenon
    <3> QED
      BY <3>1, <3>2, Zenon
  <2>2. CASE b # a
    <3>1. agents[b].quest = h
      BY <1>2, <1>4, <2>2, Zenon
    <3>2. h # q /\ quests[h].status = "in_progress"
      BY <2>2, <3>1, Zenon DEF OnDuty
    <3> QED
      BY <1>2, <3>2, Zenon
  <2> QED
    BY <2>1, <2>2
<1>5. ASSUME NEW b \in Boids, NEW c \in Boids, b # c, as[b].quest = as[c].quest
      PROVE  as[b].quest = NoName
  <2>1. CASE b = a
    <3>1. as[c] = agents[c]
      BY <1>2, <1>5, <2>1, Zenon
    <3>2. agents[c].quest # q
      BY <1>5, <2>1
    <3> QED
      BY <1>2, <1>5, <2>1, <3>1, <3>2
  <2>2. CASE c = a
    <3>1. as[b] = agents[b]
      BY <1>2, <1>5, <2>2, Zenon
    <3>2. agents[b].quest # q
      BY <1>5, <2>2
    <3> QED
      BY <1>2, <1>5, <2>2, <3>1, <3>2
  <2>3. CASE b # a /\ c # a
    <3>1. agents[b].quest = agents[c].quest /\ as[b] = agents[b]
      BY <1>2, <1>5, <2>3
    <3>2. agents[b].quest = NoName
      BY <1>5, <3>1, Zenon DEF OnDuty
    <3> QED
      BY <3>1, <3>2
  <2> QED
    BY <2>1, <2>2, <2>3
<1> QED
  BY <1>1, <1>3, <1>4, <1>5, Zenon DEF OnDuty

-----------------------------------------------------------------------------
(* The steps.                                                              *)

LEMMA Running ==
  ASSUME starts > 0, starts' = starts \/ starts' = starts + 1, starts \in Nat
  PROVE  Asleep'
<1>1. starts' # 0
  OBVIOUS
<1> QED
  BY <1>1, Zenon DEF Asleep

LEMMA PostStep ==
  ASSUME FlockIInv, NEW q \in Postings, PostQuest(q)
  PROVE  FlockIInv'
<1> USE DEF FlockIInv
<1>1. PICK x : x = [status |-> "posted", party |-> FALSE]
  OBVIOUS
<1>2. x \in Posting /\ x.status = "posted" /\ graph.quests[q].status = "none"
  BY <1>1 DEF PostQuest, Posting, Absent
<1>3. /\ graph' = [graph EXCEPT !.quests[q] = x]
      /\ updates' = [updates EXCEPT !.quests = Append(@, <<q, x>>)]
      /\ cache' = cache /\ starts' = starts /\ starts > 0
  BY <1>1, Zenon DEF PostQuest, PutPosting, KeepUp
<1>4. /\ graph'.quests = [graph.quests EXCEPT ![q] = x]
      /\ graph'.agents = graph.agents /\ graph'.guilds = graph.guilds
      /\ updates'.quests = Append(updates.quests, <<q, x>>)
      /\ updates'.agents = updates.agents /\ updates'.guilds = updates.guilds
  BY <1>3 DEF FlockTyped
<1>5. /\ graph.quests \in [Postings -> Posting] /\ updates.quests \in Seq(Postings \X Posting)
      /\ QuestsTrail(graph.quests, updates.quests, cache.quests)
  BY <1>3, Zenon DEF Trails, FlockTyped
<1>6. /\ updates'.quests \in Seq(Postings \X Posting) /\ graph'.quests \in [Postings -> Posting]
      /\ QuestsTrail(graph'.quests, updates'.quests, cache'.quests)
  <2>1. /\ Append(updates.quests, <<q, x>>) \in Seq(Postings \X Posting)
        /\ [graph.quests EXCEPT ![q] = x] \in [Postings -> Posting]
        /\ QuestsTrail([graph.quests EXCEPT ![q] = x], Append(updates.quests, <<q, x>>), cache.quests)
    BY <1>2, <1>5, QuestWritten
  <2> QED
    BY <1>3, <1>4, <2>1, Zenon
<1>7. FlockTyped'
  BY <1>3, <1>4, <1>6 DEF FlockTyped
<1>8. Trails'
  BY <1>3, <1>4, <1>6 DEF Trails
<1>9. Owned'
  <2>1. PICK as, qs, ps : as = graph.agents /\ qs = graph.quests /\ ps = [qs EXCEPT ![q] = x]
    OBVIOUS
  <2>2. OnDuty(as, qs) /\ qs \in [Postings -> Posting] /\ qs[q].status = "none"
    BY <1>2, <1>5, <2>1, Zenon DEF Owned
  <2>3. \A h \in Postings : qs[h].status = "in_progress" => ps[h].status = "in_progress"
    BY <2>1, <2>2
  <2>4. OnDuty(as, ps)
    BY <2>2, <2>3, Zenon DEF OnDuty
  <2> QED
    BY <1>4, <2>1, <2>4, Zenon DEF Owned
<1>10. Asleep'
  BY <1>3, Running, Zenon DEF FlockTyped
<1> QED
  BY <1>7, <1>8, <1>9, <1>10

LEMMA TakeStep ==
  ASSUME FlockIInv, FlockAssumption, NEW a \in Boids, NEW q \in Postings, NEW party \in BOOLEAN, TakeQuest(a, q, party)
  PROVE  FlockIInv'
<1> USE DEF FlockIInv
<1>1. PICK x, y : /\ x = [status |-> "in_progress", party |-> party]
                  /\ y = [graph.agents[a] EXCEPT !.status = "on_quest", !.quest = q]
  OBVIOUS
<1>2. graph.agents[a] \in Boid /\ graph.quests[q].status = "posted"
  BY DEF FlockTyped, TakeQuest, ReadyQuests
<1>3. x \in Posting /\ y \in Boid /\ x.status = "in_progress" /\ y.status = "on_quest" /\ y.quest = q
  BY <1>1, <1>2 DEF Posting, Boid
<1>4. /\ graph' = [graph EXCEPT !.quests[q] = x, !.agents[a] = y]
      /\ updates' = [updates EXCEPT !.quests = Append(@, <<q, x>>), !.agents = Append(@, <<a, y>>)]
      /\ cache' = cache /\ starts' = starts /\ starts > 0
  BY <1>1 DEF TakeQuest, KeepUp
<1>5. /\ graph'.quests = [graph.quests EXCEPT ![q] = x] /\ graph'.agents = [graph.agents EXCEPT ![a] = y]
      /\ graph'.guilds = graph.guilds
      /\ updates'.quests = Append(updates.quests, <<q, x>>)
      /\ updates'.agents = Append(updates.agents, <<a, y>>) /\ updates'.guilds = updates.guilds
      /\ graph' = [agents |-> graph'.agents, quests |-> graph'.quests, guilds |-> graph'.guilds]
      /\ updates' = [agents |-> updates'.agents, quests |-> updates'.quests, guilds |-> updates'.guilds]
  BY <1>4 DEF FlockTyped
<1>6. FlockTyped' /\ Trails'
  <2>1. /\ graph.quests \in [Postings -> Posting] /\ updates.quests \in Seq(Postings \X Posting)
        /\ graph.agents \in [Boids -> Boid] /\ updates.agents \in Seq(Boids \X Boid)
        /\ QuestsTrail(graph.quests, updates.quests, cache.quests)
        /\ AgentsTrail(graph.agents, updates.agents, cache.agents)
    BY <1>4, Zenon DEF Trails, FlockTyped
  <2>2. /\ Append(updates.quests, <<q, x>>) \in Seq(Postings \X Posting)
        /\ [graph.quests EXCEPT ![q] = x] \in [Postings -> Posting]
        /\ QuestsTrail([graph.quests EXCEPT ![q] = x], Append(updates.quests, <<q, x>>), cache.quests)
    BY <1>3, <2>1, QuestWritten
  <2>3. /\ Append(updates.agents, <<a, y>>) \in Seq(Boids \X Boid)
        /\ [graph.agents EXCEPT ![a] = y] \in [Boids -> Boid]
        /\ AgentsTrail([graph.agents EXCEPT ![a] = y], Append(updates.agents, <<a, y>>), cache.agents)
    BY <1>3, <2>1, AgentWritten
  <2>4. FlockTyped'
    BY <1>4, <1>5, <2>2, <2>3 DEF FlockTyped
  <2>5. Trails'
    BY <1>4, <1>5, <2>2, <2>3, Zenon DEF Trails
  <2> QED
    BY <2>4, <2>5
<1>7. Owned'
  <2>1. PICK as, qs : as = graph.agents /\ qs = graph.quests
    OBVIOUS
  <2>2. OnDuty(as, qs) /\ qs \in [Postings -> Posting] /\ as \in [Boids -> Boid] /\ qs[q].status = "posted"
    BY <1>2, <2>1 DEF Owned, FlockTyped
  <2>3. \A b \in Boids : as[b].quest # q
    BY <2>2 DEF OnDuty
  <2>4. OnDuty([as EXCEPT ![a] = y], [qs EXCEPT ![q] = x])
    BY <1>3, <2>2, <2>3, DutyAfter DEF FlockAssumption
  <2> QED
    BY <1>5, <2>1, <2>4, Zenon DEF Owned
<1>8. Asleep'
  BY <1>4, Running, Zenon DEF FlockTyped
<1> QED
  BY <1>6, <1>7, <1>8

LEMMA FinishStep ==
  ASSUME FlockIInv, FlockAssumption, NEW a \in Boids, NEW completed \in BOOLEAN, FinishQuest(a, completed)
  PROVE  FlockIInv'
<1> USE DEF FlockIInv
<1>1. PICK as, qs, q : as = graph.agents /\ qs = graph.quests /\ q = as[a].quest
  OBVIOUS
<1>2. OnDuty(as, qs) /\ qs \in [Postings -> Posting] /\ as \in [Boids -> Boid] /\ as[a].status = "on_quest"
  BY <1>1 DEF Owned, FlockTyped, FinishQuest
<1>3. q \in Postings /\ \A b \in Boids : b # a => as[b].quest # q
  BY <1>1, <1>2 DEF Boid, OnDuty
<1>4. PICK x, y : /\ x = IF completed THEN [qs[q] EXCEPT !.status = "completed"]
                         ELSE [status |-> "posted", party |-> FALSE]
                  /\ y = [as[a] EXCEPT !.status = "idle", !.quest = NoName]
  OBVIOUS
<1>5. x \in Posting /\ y \in Boid /\ y.status = "idle" /\ y.quest = NoName
  <2>1. qs[q] \in Posting /\ as[a] \in Boid
    BY <1>2, <1>3
  <2> QED
    BY <1>4, <2>1 DEF Posting, Boid
<1>6. /\ graph' = [graph EXCEPT !.quests[q] = x, !.agents[a] = y]
      /\ updates' = [updates EXCEPT !.quests = Append(@, <<q, x>>), !.agents = Append(@, <<a, y>>)]
      /\ cache' = cache /\ starts' = starts /\ starts > 0
  BY <1>1, <1>4 DEF FinishQuest, KeepUp
<1>7. /\ graph'.quests = [graph.quests EXCEPT ![q] = x] /\ graph'.agents = [graph.agents EXCEPT ![a] = y]
      /\ graph'.guilds = graph.guilds
      /\ updates'.quests = Append(updates.quests, <<q, x>>)
      /\ updates'.agents = Append(updates.agents, <<a, y>>) /\ updates'.guilds = updates.guilds
      /\ graph' = [agents |-> graph'.agents, quests |-> graph'.quests, guilds |-> graph'.guilds]
      /\ updates' = [agents |-> updates'.agents, quests |-> updates'.quests, guilds |-> updates'.guilds]
  BY <1>6 DEF FlockTyped
<1>8. FlockTyped' /\ Trails'
  <2>1. /\ graph.quests \in [Postings -> Posting] /\ updates.quests \in Seq(Postings \X Posting)
        /\ graph.agents \in [Boids -> Boid] /\ updates.agents \in Seq(Boids \X Boid)
        /\ QuestsTrail(graph.quests, updates.quests, cache.quests)
        /\ AgentsTrail(graph.agents, updates.agents, cache.agents)
    BY <1>6, Zenon DEF Trails, FlockTyped
  <2>2. /\ Append(updates.quests, <<q, x>>) \in Seq(Postings \X Posting)
        /\ [graph.quests EXCEPT ![q] = x] \in [Postings -> Posting]
        /\ QuestsTrail([graph.quests EXCEPT ![q] = x], Append(updates.quests, <<q, x>>), cache.quests)
    BY <1>3, <1>5, <2>1, QuestWritten
  <2>3. /\ Append(updates.agents, <<a, y>>) \in Seq(Boids \X Boid)
        /\ [graph.agents EXCEPT ![a] = y] \in [Boids -> Boid]
        /\ AgentsTrail([graph.agents EXCEPT ![a] = y], Append(updates.agents, <<a, y>>), cache.agents)
    BY <1>3, <1>5, <2>1, AgentWritten
  <2>4. FlockTyped'
    BY <1>6, <1>7, <2>2, <2>3 DEF FlockTyped
  <2>5. Trails'
    BY <1>6, <1>7, <2>2, <2>3, Zenon DEF Trails
  <2> QED
    BY <2>4, <2>5
<1>9. Owned'
  <2>1. OnDuty([as EXCEPT ![a] = y], [qs EXCEPT ![q] = x])
    BY <1>2, <1>3, <1>5, DutyAfter DEF FlockAssumption
  <2> QED
    BY <1>1, <1>7, <2>1, Zenon DEF Owned
<1>10. Asleep'
  BY <1>6, Running, Zenon DEF FlockTyped
<1> QED
  BY <1>8, <1>9, <1>10

LEMMA JoinStep ==
  ASSUME FlockIInv, NEW a \in Boids, NEW g \in Bands, JoinBand(a, g)
  PROVE  FlockIInv'
<1> USE DEF FlockIInv
<1>1. PICK y, x : y = [graph.agents[a] EXCEPT !.guild = g] /\ x = graph.guilds[g] \cup {a}
  OBVIOUS
<1>2. graph.agents[a] \in Boid /\ graph.guilds[g] \in Band
  BY DEF FlockTyped
<1>3. /\ y \in Boid /\ x \in Band
      /\ y.status = graph.agents[a].status /\ y.quest = graph.agents[a].quest
  BY <1>1, <1>2 DEF Boid, Band
<1>4. /\ graph' = [graph EXCEPT !.agents[a] = y, !.guilds[g] = x]
      /\ updates' = [updates EXCEPT !.agents = Append(@, <<a, y>>), !.guilds = Append(@, <<g, x>>)]
      /\ cache' = cache /\ starts' = starts /\ starts > 0
  BY <1>1 DEF JoinBand, KeepUp
<1>5. /\ graph'.agents = [graph.agents EXCEPT ![a] = y] /\ graph'.guilds = [graph.guilds EXCEPT ![g] = x]
      /\ graph'.quests = graph.quests
      /\ updates'.agents = Append(updates.agents, <<a, y>>)
      /\ updates'.guilds = Append(updates.guilds, <<g, x>>) /\ updates'.quests = updates.quests
  BY <1>4 DEF FlockTyped
<1>6. /\ graph.guilds \in [Bands -> Band] /\ updates.guilds \in Seq(Bands \X Band)
      /\ graph.agents \in [Boids -> Boid] /\ updates.agents \in Seq(Boids \X Boid)
      /\ GuildsTrail(graph.guilds, updates.guilds, cache.guilds)
      /\ AgentsTrail(graph.agents, updates.agents, cache.agents)
  BY <1>4, Zenon DEF Trails, FlockTyped
<1>7. /\ Append(updates.guilds, <<g, x>>) \in Seq(Bands \X Band)
      /\ [graph.guilds EXCEPT ![g] = x] \in [Bands -> Band]
      /\ GuildsTrail([graph.guilds EXCEPT ![g] = x], Append(updates.guilds, <<g, x>>), cache.guilds)
  BY <1>3, <1>6, GuildWritten
<1>8. /\ Append(updates.agents, <<a, y>>) \in Seq(Boids \X Boid)
      /\ [graph.agents EXCEPT ![a] = y] \in [Boids -> Boid]
      /\ AgentsTrail([graph.agents EXCEPT ![a] = y], Append(updates.agents, <<a, y>>), cache.agents)
  BY <1>3, <1>6, AgentWritten
<1>9. FlockTyped'
  BY <1>4, <1>5, <1>7, <1>8 DEF FlockTyped
<1>10. Trails'
  BY <1>4, <1>5, <1>7, <1>8, Zenon DEF Trails
<1>11. Owned'
  <2>1. PICK as, qs, bs : as = graph.agents /\ qs = graph.quests /\ bs = [as EXCEPT ![a] = y]
    OBVIOUS
  <2>2. OnDuty(as, qs) /\ as \in [Boids -> Boid] /\ y.status = as[a].status /\ y.quest = as[a].quest
    BY <1>3, <1>6, <2>1, Zenon DEF Owned
  <2>3. \A b \in Boids : bs[b].status = as[b].status /\ bs[b].quest = as[b].quest
    BY <2>1, <2>2
  <2>4. ASSUME NEW b \in Boids
        PROVE  bs[b].status = "on_quest" <=> bs[b].quest # NoName
    <3>1. bs[b].status = as[b].status /\ bs[b].quest = as[b].quest
      BY <2>3
    <3> QED
      BY <2>2, <3>1, Zenon DEF OnDuty
  <2>5. ASSUME NEW b \in Boids, NEW q \in Postings, bs[b].quest = q
        PROVE  qs[q].status = "in_progress"
    <3>1. as[b].quest = q
      BY <2>3, <2>5
    <3> QED
      BY <2>2, <3>1, Zenon DEF OnDuty
  <2>6. ASSUME NEW b \in Boids, NEW c \in Boids, b # c, bs[b].quest = bs[c].quest
        PROVE  bs[b].quest = NoName
    <3>1. bs[b].quest = as[b].quest /\ bs[c].quest = as[c].quest
      BY <2>3, Zenon
    <3>2. as[b].quest = as[c].quest
      BY <2>6, <3>1, Zenon
    <3>3. as[b].quest = NoName
      BY <2>2, <2>6, <3>2, Zenon DEF OnDuty
    <3> QED
      BY <3>1, <3>3, Zenon
  <2>7. OnDuty(bs, qs)
    BY <2>4, <2>5, <2>6, Zenon DEF OnDuty
  <2>8. bs = graph'.agents /\ qs = graph'.quests
    BY <1>5, <2>1, Zenon
  <2> QED
    BY <2>7, <2>8, Zenon DEF Owned
<1>12. Asleep'
  BY <1>4, Running, Zenon DEF FlockTyped
<1> QED
  BY <1>9, <1>10, <1>11, <1>12

LEMMA ShownTyped == \A x \in Posting : Shown(x) \in Posting
  BY DEF Shown, Absent, Posting

LEMMA CachedTyped == Boid \subseteq CachedBoid
  BY DEF Boid, CachedBoid

LEMMA ReceiveStep ==
  ASSUME FlockIInv, ReceiveAgent \/ ReceiveQuest \/ ReceiveGuild
  PROVE  FlockIInv'
<1> USE DEF FlockIInv
<1>1. /\ graph.agents \in [Boids -> Boid] /\ graph.quests \in [Postings -> Posting]
      /\ graph.guilds \in [Bands -> Band]
      /\ cache.agents \in [Boids -> CachedBoid] /\ cache.quests \in [Postings -> Posting]
      /\ cache.guilds \in [Bands -> Band]
      /\ updates.agents \in Seq(Boids \X Boid) /\ updates.quests \in Seq(Postings \X Posting)
      /\ updates.guilds \in Seq(Bands \X Band)
  BY DEF FlockTyped
<1>2. graph' = graph /\ starts' = starts /\ starts > 0 /\ Asleep'
  BY DEF ReceiveAgent, ReceiveQuest, ReceiveGuild, FlockTyped, Asleep
<1>3. Owned'
  BY <1>2, Zenon DEF Owned
<1>4. /\ AgentsTrail(graph.agents, updates.agents, cache.agents)
      /\ QuestsTrail(graph.quests, updates.quests, cache.quests)
      /\ GuildsTrail(graph.guilds, updates.guilds, cache.guilds)
  BY <1>2, Zenon DEF Trails
<1>5. CASE ReceiveAgent
  <2> DEFINE new == [cache.agents EXCEPT ![Head(updates.agents)[1]] = Head(updates.agents)[2]]
  <2>1. /\ Tail(updates.agents) \in Seq(Boids \X Boid) /\ new \in [Boids -> CachedBoid]
        /\ AgentsTrail(graph.agents, Tail(updates.agents), new)
    BY <1>1, <1>4, <1>5, CachedTyped, AgentDelivered, Zenon DEF ReceiveAgent
  <2>2. /\ cache' = [cache EXCEPT !.agents = new]
        /\ updates' = [updates EXCEPT !.agents = Tail(updates.agents)]
    BY <1>5 DEF ReceiveAgent, FlockTyped
  <2> HIDE DEF new
  <2>3. /\ cache'.agents = new /\ cache'.quests = cache.quests /\ cache'.guilds = cache.guilds
        /\ updates'.agents = Tail(updates.agents)
        /\ updates'.quests = updates.quests /\ updates'.guilds = updates.guilds
    BY <2>2 DEF FlockTyped
  <2>4. FlockTyped'
    BY <1>2, <2>1, <2>2 DEF FlockTyped
  <2>5. Trails'
    BY <1>2, <1>4, <2>1, <2>3, Zenon DEF Trails
  <2> QED
    BY <1>2, <1>3, <2>4, <2>5
<1>6. CASE ReceiveQuest
  <2> DEFINE new == [cache.quests EXCEPT ![Head(updates.quests)[1]] = Shown(Head(updates.quests)[2])]
  <2>1. /\ Tail(updates.quests) \in Seq(Postings \X Posting) /\ new \in [Postings -> Posting]
        /\ QuestsTrail(graph.quests, Tail(updates.quests), new)
    BY <1>1, <1>4, <1>6, ShownTyped, QuestDelivered, Zenon DEF ReceiveQuest
  <2>2. /\ cache' = [cache EXCEPT !.quests = new]
        /\ updates' = [updates EXCEPT !.quests = Tail(updates.quests)]
    BY <1>6 DEF ReceiveQuest, FlockTyped, Shown
  <2> HIDE DEF new
  <2>3. /\ cache'.quests = new /\ cache'.agents = cache.agents /\ cache'.guilds = cache.guilds
        /\ updates'.quests = Tail(updates.quests)
        /\ updates'.agents = updates.agents /\ updates'.guilds = updates.guilds
    BY <2>2 DEF FlockTyped
  <2>4. FlockTyped'
    BY <1>2, <2>1, <2>2 DEF FlockTyped
  <2>5. Trails'
    BY <1>2, <1>4, <2>1, <2>3, Zenon DEF Trails
  <2> QED
    BY <1>2, <1>3, <2>4, <2>5
<1>7. CASE ReceiveGuild
  <2> DEFINE new == [cache.guilds EXCEPT ![Head(updates.guilds)[1]] = Head(updates.guilds)[2]]
  <2>1. /\ Tail(updates.guilds) \in Seq(Bands \X Band) /\ new \in [Bands -> Band]
        /\ GuildsTrail(graph.guilds, Tail(updates.guilds), new)
    BY <1>1, <1>4, <1>7, GuildDelivered, Zenon DEF ReceiveGuild
  <2>2. /\ cache' = [cache EXCEPT !.guilds = new]
        /\ updates' = [updates EXCEPT !.guilds = Tail(updates.guilds)]
    BY <1>7 DEF ReceiveGuild, FlockTyped
  <2> HIDE DEF new
  <2>3. /\ cache'.guilds = new /\ cache'.quests = cache.quests /\ cache'.agents = cache.agents
        /\ updates'.guilds = Tail(updates.guilds)
        /\ updates'.quests = updates.quests /\ updates'.agents = updates.agents
    BY <2>2 DEF FlockTyped
  <2>4. FlockTyped'
    BY <1>2, <2>1, <2>2 DEF FlockTyped
  <2>5. Trails'
    BY <1>2, <1>4, <2>1, <2>3, Zenon DEF Trails
  <2> QED
    BY <1>2, <1>3, <2>4, <2>5
<1> QED
  BY <1>5, <1>6, <1>7

\* A start reads what is posted and has all the rest replayed.
LEMMA NextStart == ~(0 > 0) /\ \A n \in Nat : n + 1 \in Nat /\ n + 1 # 0
  OBVIOUS

LEMMA NothingQueued == \A S : <<>> \in Seq(S)
  OBVIOUS

LEMMA StartStep ==
  ASSUME FlockIInv, FlockAssumption, Start
  PROVE  FlockIInv'
<1> USE DEF FlockIInv
<1>1. PICK as, qs, gs, ps : /\ as = graph.agents /\ qs = graph.quests /\ gs = graph.guilds
                            /\ ps = [q \in {q \in Postings : qs[q] # Absent} |-> qs[q]]
  OBVIOUS
<1>2. /\ as \in [Boids -> Boid] /\ qs \in [Postings -> Posting] /\ gs \in [Bands -> Band]
      /\ starts \in Nat
  BY <1>1 DEF FlockTyped
<1>3. PICK cq : cq = [q \in Postings |-> IF qs[q].status = "posted" /\ ~qs[q].party THEN qs[q] ELSE Absent]
  OBVIOUS
<1>4. /\ cache' = [graph EXCEPT !.quests = cq]
      /\ updates' = [agents |-> Replay(as), quests |-> Replay(ps), guilds |-> Replay(gs)]
      /\ graph' = graph /\ starts' = starts + 1
  BY <1>1, <1>3, Zenon DEF Start
<1>5. cq \in [Postings -> Posting]
  BY <1>2, <1>3 DEF Absent, Posting
<1>6. /\ Replay(as) \in Seq(Boids \X Boid) /\ \A a \in Boids : LastSays(Replay(as), a, as[a])
  <2>1. IsFiniteSet(DOMAIN as) /\ \A a \in DOMAIN as : <<a, as[a]>> \in Boids \X Boid
    BY <1>2 DEF FlockAssumption
  <2> QED
    BY <1>2, <2>1, ReplaySays
<1>7. /\ Replay(gs) \in Seq(Bands \X Band) /\ \A g \in Bands : LastSays(Replay(gs), g, gs[g])
  <2>1. IsFiniteSet(DOMAIN gs) /\ \A g \in DOMAIN gs : <<g, gs[g]>> \in Bands \X Band
    BY <1>2 DEF FlockAssumption
  <2> QED
    BY <1>2, <2>1, ReplaySays
<1>8. /\ Replay(ps) \in Seq(Postings \X Posting)
      /\ \A q \in Postings : Trailing(Replay(ps), q, qs[q], cq[q], Shown(qs[q]))
  <2>1. DOMAIN ps = {q \in Postings : qs[q] # Absent} /\ \A q \in DOMAIN ps : ps[q] = qs[q]
    BY <1>1
  <2>2. IsFiniteSet(DOMAIN ps)
    BY <2>1, FS_Subset DEF FlockAssumption
  <2>3. \A q \in DOMAIN ps : <<q, ps[q]>> \in Postings \X Posting
    BY <1>2, <2>1
  <2>4. /\ Replay(ps) \in Seq(Postings \X Posting)
        /\ \A q \in DOMAIN ps : LastSays(Replay(ps), q, ps[q])
        /\ \A q : q \notin DOMAIN ps => Unheard(Replay(ps), q)
    BY <2>2, <2>3, ReplaySays
  <2>5. ASSUME NEW q \in Postings
        PROVE  Trailing(Replay(ps), q, qs[q], cq[q], Shown(qs[q]))
    <3>1. CASE q \in DOMAIN ps
      BY <2>1, <2>4, <3>1, Zenon DEF Trailing
    <3>2. CASE q \notin DOMAIN ps
      <4>1. qs[q] = Absent /\ cq[q] = Absent /\ Shown(Absent) = Absent
        BY <1>3, <2>1, <3>2 DEF Shown
      <4> QED
        BY <2>4, <3>2, <4>1, Zenon DEF Trailing
    <3> QED
      BY <3>1, <3>2
  <2> QED
    BY <2>4, <2>5
<1>9. cache'.agents = as /\ cache'.quests = cq /\ cache'.guilds = gs
  BY <1>1, <1>4 DEF FlockTyped
<1>10. FlockTyped'
  <2>1. cache' \in [agents : [Boids -> CachedBoid], quests : [Postings -> Posting], guilds : [Bands -> Band]]
    <3>1. as \in [Boids -> CachedBoid]
      BY <1>2, CachedTyped
    <3>2. cache' = [agents |-> as, quests |-> cq, guilds |-> gs]
      BY <1>1, <1>4 DEF FlockTyped
    <3> QED
      BY <1>2, <1>5, <3>1, <3>2
  <2>2. updates' \in [agents : Seq(Boids \X Boid), quests : Seq(Postings \X Posting),
                      guilds : Seq(Bands \X Band)]
    <3>1. PICK ra, rq, rg : ra = Replay(as) /\ rq = Replay(ps) /\ rg = Replay(gs)
      OBVIOUS
    <3>2. ra \in Seq(Boids \X Boid) /\ rq \in Seq(Postings \X Posting) /\ rg \in Seq(Bands \X Band)
      BY <1>6, <1>7, <1>8, <3>1, Zenon
    <3>3. updates' = [agents |-> ra, quests |-> rq, guilds |-> rg]
      BY <1>4, <3>1, Zenon
    <3> QED
      BY <3>2, <3>3
  <2>3. starts' \in Nat
    BY <1>2, <1>4, NextStart, Zenon
  <2> QED
    BY <1>4, <2>1, <2>2, <2>3, Zenon DEF FlockTyped
<1>11. Trails'
  <2>1. updates'.agents = Replay(as) /\ updates'.quests = Replay(ps) /\ updates'.guilds = Replay(gs)
    BY <1>4
  <2>2. AgentsTrail(as, Replay(as), as) /\ GuildsTrail(gs, Replay(gs), gs) /\ QuestsTrail(qs, Replay(ps), cq)
    BY <1>6, <1>7, <1>8, Zenon DEF AgentsTrail, QuestsTrail, GuildsTrail, Trailing
  <2> QED
    BY <1>1, <1>4, <1>9, <2>1, <2>2, Zenon DEF Trails
<1>12. Owned' /\ Asleep'
  <2>1. Owned'
    BY <1>4, Zenon DEF Owned
  <2>2. starts' # 0
    BY <1>2, <1>4, NextStart, Zenon
  <2> QED
    BY <2>1, <2>2, Zenon DEF Asleep
<1> QED
  BY <1>10, <1>11, <1>12

LEMMA FlockBegins ==
  ASSUME FlockAssumption, FlockInit
  PROVE  FlockIInv
<1>1. PICK as, qs, gs, cs : /\ as = [a \in Boids |-> [status |-> "idle", quest |-> NoName, guild |-> Founded(a)]]
                            /\ qs = [q \in Postings |-> Absent] /\ gs = [g \in Bands |-> {BandTraits[g].founder}]
                            /\ cs = [a \in Boids |-> [as[a] EXCEPT !.status = "none"]]
  OBVIOUS
<1>2. /\ graph = [agents |-> as, quests |-> qs, guilds |-> gs]
      /\ updates = [agents |-> <<>>, quests |-> <<>>, guilds |-> <<>>]
      /\ cache = [agents |-> cs, quests |-> qs, guilds |-> gs]
      /\ starts = 0
  <2>1. /\ graph = [agents |-> as, quests |-> qs, guilds |-> gs]
        /\ updates = [agents |-> <<>>, quests |-> <<>>, guilds |-> <<>>]
        /\ cache = [graph EXCEPT !.agents = [a \in Boids |-> [@[a] EXCEPT !.status = "none"]]]
        /\ starts = 0
    BY <1>1, Zenon DEF FlockInit
  <2> QED
    BY <1>1, <2>1
<1>3. as \in [Boids -> Boid]
  <2>1. \A a \in Boids : Founded(a) \in Bands \cup {NoName}
    BY DEF Founded
  <2> QED
    BY <1>1, <2>1 DEF Boid
<1>4. cs \in [Boids -> CachedBoid]
  BY <1>1, <1>3 DEF Boid, CachedBoid
<1>5. qs \in [Postings -> Posting] /\ gs \in [Bands -> Band]
  BY <1>1 DEF Posting, Absent, Band, FlockAssumption
<1>6. graph.agents = as /\ graph.quests = qs
      /\ updates.agents = <<>> /\ updates.quests = <<>> /\ updates.guilds = <<>>
  BY <1>2
<1>7. FlockTyped
  <2>1. graph \in [agents : [Boids -> Boid], quests : [Postings -> Posting], guilds : [Bands -> Band]]
    BY <1>2, <1>3, <1>5
  <2>2. cache \in [agents : [Boids -> CachedBoid], quests : [Postings -> Posting], guilds : [Bands -> Band]]
    BY <1>2, <1>4, <1>5
  <2>3. updates \in [agents : Seq(Boids \X Boid), quests : Seq(Postings \X Posting),
                     guilds : Seq(Bands \X Band)]
    <3>1. updates = [agents |-> <<>>, quests |-> <<>>, guilds |-> <<>>]
      BY <1>2
    <3>2. <<>> \in Seq(Boids \X Boid) /\ <<>> \in Seq(Postings \X Posting) /\ <<>> \in Seq(Bands \X Band)
      BY NothingQueued, Zenon
    <3> QED
      BY <3>1, <3>2
  <2> QED
    BY <1>2, <2>1, <2>2, <2>3 DEF FlockTyped
<1>8. Owned
  <2>1. \A a \in Boids : as[a].status = "idle" /\ as[a].quest = NoName
    BY <1>1
  <2>2. NoName \notin Postings /\ "idle" # "on_quest"
    BY DEF FlockAssumption
  <2>3. OnDuty(as, qs)
    BY <2>1, <2>2, Zenon DEF OnDuty
  <2> QED
    BY <1>6, <2>3, Zenon DEF Owned
<1>9. Trails /\ Asleep
  <2>1. ~(starts > 0)
    BY <1>2, NextStart, Zenon
  <2> QED
    BY <1>6, <2>1, Zenon DEF Trails, Asleep
<1> QED
  BY <1>7, <1>8, <1>9 DEF FlockIInv

LEMMA FlockStep ==
  ASSUME FlockAssumption, FlockIInv, [FlockNext]_bdVars
  PROVE  FlockIInv'
<1>1. CASE \E q \in Postings : PostQuest(q)
  BY <1>1, PostStep
<1>2. CASE \E a \in Boids : \E q \in Postings : \E party \in BOOLEAN : TakeQuest(a, q, party)
  BY <1>2, TakeStep
<1>3. CASE \E a \in Boids : \E completed \in BOOLEAN : FinishQuest(a, completed)
  BY <1>3, FinishStep
<1>4. CASE \E a \in Boids : \E g \in Bands : JoinBand(a, g)
  BY <1>4, JoinStep
<1>5. CASE ReceiveAgent \/ ReceiveQuest \/ ReceiveGuild
  BY <1>5, ReceiveStep
<1>6. CASE Start
  BY <1>6, StartStep
<1>7. CASE UNCHANGED <<graph, updates, cache, starts>>
  BY <1>7 DEF FlockIInv, FlockTyped, Owned, Trails, Asleep
<1>8. CASE ComputeAndPublish
  BY <1>7, <1>8, Zenon DEF ComputeAndPublish
<1>9. CASE UNCHANGED bdVars
  BY <1>7, <1>9, Zenon DEF bdVars
<1> QED
  BY <1>1, <1>2, <1>3, <1>4, <1>5, <1>6, <1>8, <1>9, Zenon DEF FlockNext

-----------------------------------------------------------------------------

LEMMA FlockGiven ==
  /\ IsFiniteSet(Boids) /\ IsFiniteSet(Postings) /\ IsFiniteSet(Bands)
  /\ \A a \in Boids : /\ IsFiniteSet(BoidTraits[a].skills) /\ BoidTraits[a].tier \in Nat
                     /\ BoidTraits[a].reviews \in Nat /\ BoidTraits[a].rating \in 10 .. 50
  /\ \A q \in Postings : /\ IsFiniteSet(PostingTraits[q].skills) /\ PostingTraits[q].minTier \in Nat
                        /\ PostingTraits[q].deps \subseteq Postings
  /\ \A g \in Bands : BandTraits[g].reputation \in Nat /\ BandTraits[g].founder \in Boids
  /\ Rules.separation \in Nat /\ Rules.alignment \in Nat /\ Rules.cohesion \in Nat
  /\ Rules.hunger \in Nat /\ Rules.affinity \in Nat /\ Rules.caution \in Nat
  /\ Rules.hunger \div 2 + Rules.caution \div 5 > 0
  /\ MaxSuggestionsPerAgent \in Nat \ {0}
<1>1. Rules \in [separation : Nat, alignment : Nat, cohesion : Nat, hunger : Nat, affinity : Nat, caution : Nat]
  BY FlockAssumption, Zenon
<1>2. \A r \in [separation : Nat, alignment : Nat, cohesion : Nat, hunger : Nat, affinity : Nat, caution : Nat] :
        /\ r.separation \in Nat /\ r.alignment \in Nat /\ r.cohesion \in Nat
        /\ r.hunger \in Nat /\ r.affinity \in Nat /\ r.caution \in Nat
  OBVIOUS
<1> QED
  BY <1>1, <1>2, FlockAssumption, Zenon

-----------------------------------------------------------------------------
\* Once all is delivered the caches show what is stored.
LEMMA Settled ==
  ASSUME FlockIInv, starts > 0, updates.agents = <<>>, updates.quests = <<>>, updates.guilds = <<>>
  PROVE  /\ \A a \in Boids : cache.agents[a] = graph.agents[a]
         /\ \A q \in Postings : cache.quests[q] = Shown(graph.quests[q])
         /\ \A g \in Bands : cache.guilds[g] = graph.guilds[g]
<1>1. \A k, stored, cached, shown : Trailing(<<>>, k, stored, cached, shown) => cached = shown
  <2>1. \A k, e : ~LastSays(<<>>, k, e)
    BY DEF LastSays
  <2> QED
    BY <2>1, Zenon DEF Trailing
<1>2. /\ AgentsTrail(graph.agents, <<>>, cache.agents) /\ QuestsTrail(graph.quests, <<>>, cache.quests)
      /\ GuildsTrail(graph.guilds, <<>>, cache.guilds)
  BY Zenon DEF FlockIInv, Trails
<1> QED
  BY <1>1, <1>2, Zenon DEF AgentsTrail, QuestsTrail, GuildsTrail

\* A quest that is worthy is ready in the caches, and nothing is that is not ready.
LEMMA ReadyInCache ==
  ASSUME NEW a \in Boids, NEW q \in Postings, Worthy(a, q),
         \A p \in Postings : cache.quests[p] = Shown(graph.quests[p]),
         \A p \in Postings : PostingTraits[p].deps \subseteq Postings
  PROVE  q \in ReadyQuests(cache) /\ ReadyQuests(cache) \subseteq ReadyQuests(graph)
<1>1. \A x : x.status \in {"posted", "completed"} /\ x.party = FALSE => Shown(x) = x
  BY DEF Shown, InPool
<1>2. \A x : Shown(x).status # "none" => Shown(x) = x
  BY DEF Shown, Absent
<1>3. /\ graph.quests[q].status = "posted" /\ graph.quests[q].party = FALSE
      /\ \A d \in PostingTraits[q].deps : graph.quests[d].status = "completed" /\ graph.quests[d].party = FALSE
  BY DEF Worthy
<1>4. cache.quests[q] = graph.quests[q] /\ \A d \in PostingTraits[q].deps : cache.quests[d] = graph.quests[d]
  BY <1>1, <1>3, Zenon
<1>5. q \in ReadyQuests(cache)
  <2>1. cache.quests[q].status = "posted" /\ \A d \in PostingTraits[q].deps : cache.quests[d].status = "completed"
    BY <1>3, <1>4
  <2> QED
    BY <2>1, Zenon DEF ReadyQuests
<1>6. ASSUME NEW p \in Postings, cache.quests[p].status \in {"posted", "completed"}
      PROVE  cache.quests[p] = graph.quests[p]
  <2>1. cache.quests[p].status # "none"
    BY <1>6
  <2> QED
    BY <1>2, <2>1, Zenon
<1>7. ASSUME NEW p \in ReadyQuests(cache)
      PROVE  p \in ReadyQuests(graph)
  <2>1. /\ p \in Postings /\ cache.quests[p].status = "posted"
        /\ \A d \in PostingTraits[p].deps : d \in Postings /\ cache.quests[d].status = "completed"
    BY <1>7 DEF ReadyQuests
  <2>2. /\ cache.quests[p] = graph.quests[p]
        /\ \A d \in PostingTraits[p].deps : cache.quests[d] = graph.quests[d]
    BY <1>6, <2>1, Zenon
  <2>3. graph.quests[p].status = "posted" /\ \A d \in PostingTraits[p].deps : graph.quests[d].status = "completed"
    BY <2>1, <2>2
  <2> QED
    BY <2>1, <2>3, Zenon DEF ReadyQuests
<1> QED
  BY <1>5, <1>7

LEMMA Naturals == /\ \A m, n \in Nat : m + n \in Nat /\ m * n \in Nat
                  /\ \A m \in Nat, n \in Nat \ {0} : m \div n \in Nat
                  /\ \A m \in Int, n \in Nat \ {0} : m \div n \in Int
                  /\ \A m, n \in Nat : m <= n => m \in 0 .. n
  OBVIOUS

LEMMA Scaled == \A m, n \in Nat : (m * n) \div 1000 \in Nat
<1>1. ASSUME NEW m \in Nat, NEW n \in Nat
      PROVE  (m * n) \div 1000 \in Nat
  <2>1. PICK p : p = m * n /\ p \in Nat
    BY Naturals
  <2> QED
    BY <2>1
<1> QED
  BY <1>1

\* Nobody is on a quest that is posted.
LEMMA NoCrowd ==
  ASSUME Owned, NEW agents, \A a \in Boids : agents[a] = graph.agents[a],
         NEW crowd, crowd = [q \in Postings |-> Cardinality({b \in Boids : agents[b].quest = q})]
  PROVE  /\ crowd \in [Postings -> 0 .. Cardinality(Boids)]
         /\ \A q \in Postings : graph.quests[q].status = "posted" => crowd[q] = 0
<1>1. ASSUME NEW q \in Postings
      PROVE  crowd[q] = Cardinality({b \in Boids : agents[b].quest = q}) /\ crowd[q] \in 0 .. Cardinality(Boids)
  <2>1. PICK on : on = {b \in Boids : agents[b].quest = q}
    OBVIOUS
  <2>2. on \subseteq Boids /\ crowd[q] = Cardinality(on)
    BY <2>1
  <2>3. Cardinality(on) \in Nat /\ Cardinality(Boids) \in Nat /\ Cardinality(on) <= Cardinality(Boids)
    BY <2>2, FlockGiven, FS_Subset, FS_CardinalityType
  <2> QED
    BY <2>1, <2>2, <2>3, Naturals, Zenon
<1>2. ASSUME NEW q \in Postings, graph.quests[q].status = "posted"
      PROVE  crowd[q] = 0
  <2>1. \A b \in Boids : agents[b].quest # q
    <3>1. "posted" # "in_progress"
      OBVIOUS
    <3> QED
      BY <1>2, <3>1, Zenon DEF Owned, OnDuty
  <2>2. {b \in Boids : agents[b].quest = q} = {}
    BY <2>1
  <2>3. Cardinality({}) = 0
    BY FS_EmptySet, Zenon
  <2> QED
    BY <1>1, <2>2, <2>3, Zenon
<1> QED
  BY <1>1, <1>2

-----------------------------------------------------------------------------
(* The scores.                                                             *)

LEMMA CohesionType ==
  ASSUME NEW a \in Boids, NEW q \in Postings
  PROVE  Cohesion(a, q) \in Nat /\ Cardinality(Skills(a, q)) \in Nat /\ IsFiniteSet(Skills(a, q))
<1>1. PICK s, t, w : s = Skills(a, q) /\ t = PostingTraits[q].skills /\ w = Rules.cohesion
  OBVIOUS
<1>2. IsFiniteSet(s) /\ IsFiniteSet(t) /\ w \in Nat
  <2>1. IsFiniteSet(BoidTraits[a].skills) /\ IsFiniteSet(t) /\ w \in Nat
    BY <1>1, FlockGiven
  <2> QED
    BY <1>1, <2>1, FS_Intersection DEF Skills
<1>3. PICK m, n : m = Cardinality(s) /\ n = Cardinality(t) /\ m \in Nat /\ n \in Nat
  BY <1>2, FS_CardinalityType
<1>4. Cohesion(a, q) = IF t = {} THEN 0 ELSE (m * w) \div n
  BY <1>1, <1>3, Zenon DEF Cohesion
<1>5. t # {} => n # 0
  BY <1>2, <1>3, FS_EmptySet
<1>6. Cohesion(a, q) \in Nat
  <2>1. m * w \in Nat /\ 0 \in Nat
    BY <1>2, <1>3, Naturals, Zenon
  <2>2. t # {} => n \in Nat \ {0}
    BY <1>3, <1>5
  <2> QED
    BY <1>4, <2>1, <2>2, Naturals, Zenon
<1> QED
  BY <1>1, <1>2, <1>3, <1>6
LEMMA AffinityType ==
  ASSUME NEW a \in Boids, NEW q \in Postings, NEW g \in Bands \cup {NoName}, NEW listed \in BOOLEAN
  PROVE  Affinity(a, q, g, listed) \in Nat
<1>1. PICK m : m = Cardinality(Skills(a, q)) /\ m \in Nat
  BY CohesionType
<1>2. GuildMatch(a, q, g, listed) \in Nat
  <2>1. CASE g = NoName \/ PostingTraits[q].guild # g
    BY <2>1 DEF GuildMatch
  <2>2. CASE g # NoName /\ PostingTraits[q].guild = g
    <3>1. PICK u : /\ u = 1000 + IF ~listed THEN 0 ELSE IF BandTraits[g].founder = a THEN 1250 ELSE 500
                   /\ u \in Nat
      OBVIOUS
    <3>2. PICK v : v = 1000 + BandTraits[g].reputation \div 2 /\ v \in Nat
      <4>1. PICK p : p = BandTraits[g].reputation /\ p \in Nat
        BY <2>2, FlockGiven
      <4> QED
        BY <4>1, Naturals
    <3>3. GuildMatch(a, q, g, listed) = (u * v) \div 1000
      BY <2>2, <3>1, <3>2 DEF GuildMatch
    <3> QED
      BY <3>1, <3>2, <3>3, Scaled
  <2> QED
    BY <2>1, <2>2
<1>3. CrossGuildBonus(a, q, g) \in Nat
  <2>1. m * 500 \in Nat /\ m * 1500 \in Nat /\ 0 \in Nat
    BY <1>1
  <2> QED
    BY <1>1, <2>1 DEF CrossGuildBonus
<1>4. PICK r : r = IF BoidTraits[a].reviews = 0 THEN 1000 ELSE 1000 + (BoidTraits[a].rating - 30) * 15
  OBVIOUS
<1>5. r \in Nat
  <2>1. BoidTraits[a].rating \in 10 .. 50
    BY FlockGiven
  <2>2. PICK n : n = BoidTraits[a].rating
    OBVIOUS
  <2>3. n \in 10 .. 50 => 1000 + (n - 30) * 15 \in Nat
    OBVIOUS
  <2> QED
    BY <1>4, <2>1, <2>2, <2>3
<1>6. PICK match : match = m * 1000 + GuildMatch(a, q, g, listed) + CrossGuildBonus(a, q, g) /\ match \in Nat
  BY <1>1, <1>2, <1>3
<1>7. PICK w : w = Rules.affinity /\ w \in Nat
  BY FlockGiven
<1>8. PICK v : v = (match * w) \div 1000 /\ v \in Nat
  BY <1>6, <1>7, Scaled
<1>9. Affinity(a, q, g, listed) = (v * r) \div 1000
  BY <1>1, <1>4, <1>6, <1>7, <1>8 DEF Affinity
<1> QED
  BY <1>5, <1>8, <1>9, Scaled

LEMMA CautionType ==
  ASSUME NEW a \in Boids, NEW q \in Postings
  PROVE  /\ Caution(a, q) \in Int
         /\ BoidTraits[a].tier - PostingTraits[q].minTier \in {0, 1} => Caution(a, q) = Rules.caution \div 5
<1>1. PICK m, t, w : /\ m = PostingTraits[q].minTier /\ t = BoidTraits[a].tier /\ w = Rules.caution
                     /\ m \in Nat /\ t \in Nat /\ w \in Nat
  BY FlockGiven
<1>2. PICK above : above = m - t /\ above \in Int
  BY <1>1
<1>3. Caution(a, q) = IF above > 0 THEN - above * w
                      ELSE IF above < -1 THEN ((above + 1) * w) \div 2
                      ELSE w \div 5
  BY <1>1, <1>2, Zenon DEF Caution
<1>4. - above * w \in Int /\ (above + 1) * w \in Int /\ 2 \in Nat \ {0} /\ 5 \in Nat \ {0} /\ w \in Int
  BY <1>1, <1>2
<1>5. Caution(a, q) \in Int
  BY <1>3, <1>4, Naturals, Zenon
<1>6. t - m \in {0, 1} => ~(above > 0) /\ ~(above < -1)
  BY <1>1, <1>2
<1> QED
  BY <1>1, <1>3, <1>5, <1>6, Zenon

LEMMA AlignmentType ==
  ASSUME NEW a \in Boids, NEW q \in Postings, NEW ready \in SUBSET Postings
  PROVE  Alignment(ready, a, q) \in Nat
<1>1. PICK clusters : clusters = {p \in Skills(a, q) \X ready : p[1] \in PostingTraits[p[2]].skills}
  OBVIOUS
<1>2. IsFiniteSet(ready)
  BY FlockGiven, FS_Subset
<1>3. IsFiniteSet(Skills(a, q) \X ready)
  BY <1>2, CohesionType, FS_Product
<1>4. IsFiniteSet(clusters)
  BY <1>1, <1>3, FS_Subset
<1>5. Cardinality(clusters) \in Nat
  BY <1>4, FS_CardinalityType
<1>6. Alignment(ready, a, q) = (Cardinality(clusters) * Rules.alignment) \div 10
  BY <1>1, Zenon DEF Alignment
<1>7. PICK c, w : c = Cardinality(clusters) /\ w = Rules.alignment /\ c \in Nat /\ w \in Nat
  BY <1>5, FlockGiven
<1>8. c * w \in Nat /\ 10 \in Nat \ {0}
  BY <1>7, Naturals
<1> QED
  BY <1>6, <1>7, <1>8, Naturals

\* A quest of about an agent's tier, for which nobody competes, attracts it.
LEMMA AttractionType ==
  ASSUME NEW a \in Boids, NEW q \in Postings, NEW g \in Bands \cup {NoName}, NEW listed \in BOOLEAN,
         NEW crowd \in [Postings -> 0 .. Cardinality(Boids)], NEW ready \in SUBSET Postings
  PROVE  /\ Attraction(a, q, g, listed, crowd, ready) \in Int
         /\ crowd[q] = 0 /\ BoidTraits[a].tier - PostingTraits[q].minTier \in {0, 1} =>
              Attraction(a, q, g, listed, crowd, ready) > 0
<1>1. PICK ch, h, af, ca, al :
        /\ ch = Cohesion(a, q) /\ h = Rules.hunger \div 2 /\ af = Affinity(a, q, g, listed)
        /\ ca = Caution(a, q) /\ al = Alignment(ready, a, q)
  OBVIOUS
<1>2. ch \in Nat /\ af \in Nat /\ ca \in Int /\ al \in Nat
  BY <1>1, CohesionType, AffinityType, CautionType, AlignmentType
<1>3. h \in Nat /\ Rules.caution \div 5 \in Nat
  <2>1. Rules.hunger \in Nat /\ Rules.caution \in Nat /\ 2 \in Nat \ {0} /\ 5 \in Nat \ {0}
    BY FlockGiven
  <2> QED
    BY <1>1, <2>1, Naturals, Zenon
<1>4. Appeal[a][q][g][listed] = ch + h + af + ca
  <2>1. Appeal[a][q][g][listed] = Cohesion(a, q) + Rules.hunger \div 2 + Affinity(a, q, g, listed) + Caution(a, q)
    BY Zenon DEF Appeal
  <2> QED
    BY <1>1, <2>1, Zenon
<1>5. PICK c, w : c = crowd[q] /\ w = Rules.separation /\ c \in Nat /\ w \in Nat
  <2>1. crowd[q] \in 0 .. Cardinality(Boids) /\ Rules.separation \in Nat
    BY FlockGiven
  <2>2. \A n, m : m \in 0 .. n => m \in Nat
    OBVIOUS
  <2> QED
    BY <2>1, <2>2, Zenon
<1>6. PICK sep : sep = (c * w) \div 2 /\ Separation(crowd, q) = - sep
  BY <1>5, Zenon DEF Separation
<1>7. sep \in Nat
  <2>1. 2 \in Nat \ {0}
    OBVIOUS
  <2> QED
    BY <1>5, <1>6, <2>1, Naturals, Zenon
<1>8. c = 0 => sep = 0
  BY <1>5, <1>6
<1>9. Attraction(a, q, g, listed, crowd, ready) = ch + h + af + ca + - sep + al
  BY <1>1, <1>4, <1>6, Zenon DEF Attraction
<1>10. ch + h + af + ca + - sep + al \in Int
  BY <1>2, <1>3, <1>7
<1>11. ASSUME c = 0, ca = Rules.caution \div 5
       PROVE  ch + h + af + ca + - sep + al > 0
  <2>1. h + ca > 0
    BY <1>1, <1>11, FlockGiven
  <2> QED
    BY <1>2, <1>3, <1>7, <1>8, <1>11, <2>1
<1> QED
  BY <1>1, <1>5, <1>9, <1>10, <1>11, CautionType, Zenon

-----------------------------------------------------------------------------
(* The order of the suggestions.                                           *)

\* What attracts an agent, all of it, the most attractive first.
Sorted(s, rs, n) ==
  /\ s \in [1 .. n -> rs]
  /\ \A i, j \in 1 .. n : i < j => s[i] # s[j] /\ s[i].score >= s[j].score
  /\ \A r \in rs : \E i \in 1 .. n : s[i] = r

Scored(rs) == \A r \in rs : r.score \in Nat

LEMMA LeastScored ==
  ASSUME NEW rs, rs # {}, Scored(rs)
  PROVE  \E m \in rs : \A r \in rs : r.score >= m.score
<1> DEFINE B == {r.score : r \in rs}
<1>1. B # {} /\ B \subseteq Nat
  BY DEF Scored
<1>2. PICK x \in B : \A y \in B : <<y, x>> \notin OpToRel(<, Nat)
  <2> HIDE DEF B
  <2> QED
    BY <1>1, WFMin, NatLessThanWellFounded, Zenon
<1>3. \A y \in B : ~(y < x)
  BY <1>1, <1>2, LessIsRelated, Zenon
<1>4. PICK m \in rs : m.score = x
  OBVIOUS
<1>5. ASSUME NEW r \in rs
      PROVE  r.score >= m.score
  <2>1. r.score \in B /\ m.score \in B
    OBVIOUS
  <2>2. \A u, v \in Nat : ~(u < v) => u >= v
    OBVIOUS
  <2> HIDE DEF B
  <2> QED
    BY <1>1, <1>3, <1>4, <2>1, <2>2, Zenon
<1> QED
  BY <1>5

LEMMA SortedGrows ==
  ASSUME NEW n \in Nat, NEW rs, NEW m \in rs, \A r \in rs : r.score >= m.score, Scored(rs),
         NEW s, Sorted(s, rs \ {m}, n)
  PROVE  Sorted([i \in 1 .. n + 1 |-> IF i = n + 1 THEN m ELSE s[i]], rs, n + 1)
<1>1. PICK t : t = [i \in 1 .. n + 1 |-> IF i = n + 1 THEN m ELSE s[i]]
  OBVIOUS
<1>2. /\ \A i \in 1 .. n + 1 : i # n + 1 => i \in 1 .. n
      /\ \A i \in 1 .. n : i \in 1 .. n + 1 /\ i # n + 1
      /\ n + 1 \in 1 .. n + 1
      /\ \A i, j \in 1 .. n + 1 : i < j => i \in 1 .. n
  OBVIOUS
<1>3. t[n + 1] = m /\ \A i \in 1 .. n : t[i] = s[i]
  BY <1>1, <1>2
<1>4. \A i \in 1 .. n : s[i] \in rs /\ s[i] # m
  BY DEF Sorted
<1>5. t \in [1 .. n + 1 -> rs]
  <2>1. \A i \in 1 .. n + 1 : t[i] \in rs
    BY <1>2, <1>3, <1>4, Zenon
  <2> QED
    BY <1>1, <2>1
<1>6. ASSUME NEW i \in 1 .. n + 1, NEW j \in 1 .. n + 1, i < j
      PROVE  t[i] # t[j] /\ t[i].score >= t[j].score
  <2>1. CASE j = n + 1
    BY <1>2, <1>3, <1>4, <1>6, <2>1, Zenon
  <2>2. CASE j # n + 1
    BY <1>2, <1>3, <1>6, <2>2, Zenon DEF Sorted
  <2> QED
    BY <2>1, <2>2
<1>7. ASSUME NEW r \in rs
      PROVE  \E i \in 1 .. n + 1 : t[i] = r
  <2>1. CASE r = m
    BY <1>2, <1>3, <2>1, Zenon
  <2>2. CASE r # m
    <3>1. PICK i \in 1 .. n : s[i] = r
      BY <2>2, Zenon DEF Sorted
    <3> QED
      BY <1>2, <1>3, <3>1, Zenon
  <2> QED
    BY <2>1, <2>2
<1> QED
  BY <1>1, <1>5, <1>6, <1>7, Zenon DEF Sorted

LEMMA Sortable ==
  ASSUME NEW rs, IsFiniteSet(rs), Scored(rs)
  PROVE  \E s : Sorted(s, rs, Cardinality(rs))
<1> DEFINE Can(n) == \A R : IsFiniteSet(R) /\ Scored(R) /\ Cardinality(R) = n => \E s : Sorted(s, R, n)
           T == {n \in Nat : Can(n)}
<1>1. 0 \in T
  <2>1. ASSUME NEW R, IsFiniteSet(R), Cardinality(R) = 0
        PROVE  Sorted([i \in 1 .. 0 |-> i], R, 0)
    <3>1. R = {}
      BY <2>1, FS_EmptySet
    <3> QED
      BY <3>1 DEF Sorted
  <2> QED
    BY <2>1
<1>2. ASSUME NEW n \in Nat, n \in T
      PROVE  n + 1 \in T
  <2>1. ASSUME NEW R, IsFiniteSet(R), Scored(R), Cardinality(R) = n + 1
        PROVE  \E s : Sorted(s, R, n + 1)
    <3>1. R # {}
      <4>1. Cardinality({}) = 0
        BY FS_EmptySet, Zenon
      <4>2. n + 1 # 0
        OBVIOUS
      <4> QED
        BY <2>1, <4>1, <4>2, Zenon
    <3>2. PICK m \in R : \A r \in R : r.score >= m.score
      BY <2>1, <3>1, LeastScored
    <3>3. IsFiniteSet(R \ {m}) /\ Cardinality(R \ {m}) = n
      <4>1. IsFiniteSet(R \ {m}) /\ Cardinality(R \ {m}) = (n + 1) - 1
        BY <2>1, FS_RemoveElement, Zenon
      <4>2. (n + 1) - 1 = n
        OBVIOUS
      <4> QED
        BY <4>1, <4>2, Zenon
    <3>4. Scored(R \ {m})
      BY <2>1 DEF Scored
    <3>5. PICK s : Sorted(s, R \ {m}, n)
      BY <1>2, <3>3, <3>4, Zenon
    <3> QED
      BY <2>1, <3>2, <3>5, SortedGrows
  <2>2. n + 1 \in Nat
    OBVIOUS
  <2> QED
    BY <2>1, <2>2, Zenon
<1>3. Nat \subseteq T
  <2> HIDE DEF T
  <2> QED
    BY <1>1, <1>2, Induction
<1>4. Cardinality(rs) \in Nat
  BY FS_CardinalityType
<1> QED
  BY <1>3, <1>4

-----------------------------------------------------------------------------
(* What is suggested.                                                      *)

\* SuggestTopN leaves out nothing of what attracts, when that is few.
LEMMA FewForemost ==
  ASSUME NEW rs, rs # {}, Cardinality(rs) \in Nat, Cardinality(rs) <= MaxSuggestionsPerAgent,
         NEW s, Sorted(s, rs, Cardinality(rs))
  PROVE  [i \in 1 .. Cardinality(rs) |-> s[i].quest] \in Foremost(rs)
<1> DEFINE n == IF Cardinality(rs) > MaxSuggestionsPerAgent THEN MaxSuggestionsPerAgent ELSE Cardinality(rs)
           ranked == {t \in [1 .. n -> rs] :
             /\ \A i, j \in 1 .. n : i < j => t[i] # t[j] /\ t[i].score >= t[j].score
             /\ \A r \in rs : r.score <= t[n].score \/ \E i \in 1 .. n : t[i] = r}
<1>1. n = Cardinality(rs)
  <2>1. ~(Cardinality(rs) > MaxSuggestionsPerAgent)
    BY FlockGiven
  <2> QED
    BY <2>1, Zenon
<1>2. s \in ranked
  <2> HIDE DEF n
  <2> QED
    BY <1>1, Zenon DEF Sorted
<1>3. [i \in 1 .. n |-> s[i].quest] \in Foremost(rs)
  BY <1>2, Zenon DEF Foremost
<1> QED
  <2> HIDE DEF n
  <2> QED
    BY <1>1, <1>3, Zenon

\* Every quest that attracts is among them.
LEMMA AllRanked ==
  ASSUME NEW a \in Boids, NEW g \in Bands \cup {NoName}, NEW listed \in BOOLEAN,
         NEW crowd \in [Postings -> 0 .. Cardinality(Boids)], NEW ready \in SUBSET Postings,
         Cardinality(ready) <= MaxSuggestionsPerAgent,
         NEW q \in ready, Attraction(a, q, g, listed, crowd, ready) > 0
  PROVE  \E s \in Ranked[a][g][listed][crowd][ready] : \E i \in DOMAIN s : s[i] = q
<1> DEFINE score(p) == Attraction(a, p, g, listed, crowd, ready)
<1>1. PICK f : f = [p \in ready |-> [quest |-> p, score |-> score(p)]]
  OBVIOUS
<1>2. PICK rs : rs = Attractive(a, g, listed, crowd, ready)
  OBVIOUS
<1>3. rs = {r \in {[quest |-> p, score |-> score(p)] : p \in ready} : r.score > 0}
  BY <1>2, Zenon DEF Attractive
<1>4. \A p \in ready : score(p) \in Int
  BY AttractionType
<1> HIDE DEF score
<1>5. IsFiniteSet(ready) /\ Cardinality(ready) \in Nat
  BY FlockGiven, FS_Subset, FS_CardinalityType
<1>6. PICK image : image = {f[p] : p \in ready}
  OBVIOUS
<1>7. IsFiniteSet(image) /\ Cardinality(image) <= Cardinality(ready)
  <2>1. f \in Surjection(ready, image)
    BY <1>1, <1>6 DEF Surjection
  <2> QED
    BY <1>5, <2>1, FS_Surjection, Zenon
<1>8. rs \subseteq image
  BY <1>1, <1>3, <1>6
<1>9. IsFiniteSet(rs) /\ Cardinality(rs) <= Cardinality(image) /\ Cardinality(rs) \in Nat /\ Cardinality(image) \in Nat
  BY <1>7, <1>8, FS_Subset, FS_CardinalityType
<1>10. Cardinality(rs) <= MaxSuggestionsPerAgent
  BY <1>5, <1>7, <1>9, FlockGiven
<1>11. Scored(rs)
  BY <1>3, <1>4 DEF Scored
<1>12. PICK r \in rs : r.quest = q
  <2>1. PICK r : r = [quest |-> q, score |-> score(q)]
    OBVIOUS
  <2>2. r.quest = q /\ r.score = score(q)
    BY <2>1
  <2>3. score(q) > 0
    BY Zenon DEF score
  <2>4. r \in rs
    BY <1>3, <2>1, <2>2, <2>3, Zenon
  <2> QED
    BY <2>2, <2>4
<1>13. PICK n, s : n = Cardinality(rs) /\ Sorted(s, rs, n)
  BY <1>9, <1>11, Sortable, Zenon
<1>14. [i \in 1 .. n |-> s[i].quest] \in Ranked[a][g][listed][crowd][ready]
  <2>1. Ranked[a][g][listed][crowd][ready] = Foremost(rs)
    BY <1>2, Zenon DEF Ranked
  <2>2. rs # {} /\ Sorted(s, rs, Cardinality(rs))
    BY <1>12, <1>13, Zenon
  <2>3. [i \in 1 .. Cardinality(rs) |-> s[i].quest] \in Foremost(rs)
    BY <1>9, <1>10, <2>2, FewForemost
  <2> QED
    BY <1>13, <2>1, <2>3, Zenon
<1>15. PICK i \in 1 .. n : s[i] = r
  BY <1>13, Zenon DEF Sorted
<1>16. PICK t : t = [j \in 1 .. n |-> s[j].quest]
  OBVIOUS
<1>17. i \in DOMAIN t /\ t[i] = q
  BY <1>12, <1>15, <1>16
<1> QED
  BY <1>14, <1>16, <1>17, Zenon

LEMMA WorthyRanked ==
  ASSUME FlockIInv, starts > 0, updates.agents = <<>>, updates.quests = <<>>, updates.guilds = <<>>,
         NEW a \in Boids, NEW q \in Postings, Worthy(a, q)
  PROVE  \E s \in Rankings(cache, a) : \E i \in DOMAIN s : s[i] = q
<1>1. PICK g, listed, crowd, ready, agents :
        /\ agents = cache.agents /\ g = cache.agents[a].guild /\ listed = (g # NoName /\ a \in cache.guilds[g])
        /\ crowd = [p \in Postings |-> Cardinality({b \in Boids : agents[b].quest = p})]
        /\ ready = ReadyQuests(cache)
  OBVIOUS
<1>2. /\ \A b \in Boids : cache.agents[b] = graph.agents[b]
      /\ \A p \in Postings : cache.quests[p] = Shown(graph.quests[p])
  BY Settled, Zenon
<1>3. q \in ready /\ ready \subseteq ReadyQuests(graph)
  BY <1>1, <1>2, FlockGiven, ReadyInCache
<1>4. /\ graph.agents[a].status = "idle" /\ graph.quests[q].status = "posted"
      /\ BoidTraits[a].tier - PostingTraits[q].minTier \in {0, 1}
      /\ Cardinality(ReadyQuests(graph)) <= MaxSuggestionsPerAgent
  BY DEF Worthy
<1>5. crowd \in [Postings -> 0 .. Cardinality(Boids)] /\ crowd[q] = 0
  <2>1. Owned
    BY Zenon DEF FlockIInv
  <2>2. \A b \in Boids : agents[b] = graph.agents[b]
    BY <1>1, <1>2, Zenon
  <2>3. /\ crowd \in [Postings -> 0 .. Cardinality(Boids)]
        /\ \A p \in Postings : graph.quests[p].status = "posted" => crowd[p] = 0
    BY <1>1, <2>1, <2>2, NoCrowd
  <2> QED
    BY <1>4, <2>3, Zenon
<1>6. g \in Bands \cup {NoName} /\ listed \in BOOLEAN
  <2>1. graph.agents[a] \in Boid
    BY DEF FlockIInv, FlockTyped
  <2>2. graph.agents[a].guild \in Bands \cup {NoName}
    BY <2>1 DEF Boid
  <2>3. cache.agents[a] = graph.agents[a]
    BY <1>2, Zenon
  <2>4. listed \in BOOLEAN
    BY <1>1
  <2> QED
    BY <1>1, <2>2, <2>3, <2>4, Zenon
<1>7. ready \in SUBSET Postings
  BY <1>1 DEF ReadyQuests
<1>8. Cardinality(ready) <= MaxSuggestionsPerAgent
  <2>1. PICK p : p = ReadyQuests(graph)
    OBVIOUS
  <2>2. p \subseteq Postings
    BY <2>1, Zenon DEF ReadyQuests
  <2>3. IsFiniteSet(p) /\ Cardinality(p) \in Nat
    BY <2>2, FlockGiven, FS_Subset, FS_CardinalityType
  <2>4. Cardinality(ready) \in Nat /\ Cardinality(ready) <= Cardinality(p)
    BY <1>3, <2>1, <2>3, FS_Subset, FS_CardinalityType
  <2> QED
    BY <1>4, <2>1, <2>3, <2>4, FlockGiven
<1>9. Rankings(cache, a) = Ranked[a][g][listed][crowd][ready]
  <2>1. cache.agents[a].status = "idle"
    BY <1>2, <1>4, Zenon
  <2> QED
    BY <1>1, <2>1, Zenon DEF Rankings
<1>10. Attraction(a, q, g, listed, crowd, ready) > 0
  BY <1>4, <1>5, <1>6, <1>7, AttractionType
<1>11. \E s \in Ranked[a][g][listed][crowd][ready] : \E i \in DOMAIN s : s[i] = q
  BY <1>3, <1>5, <1>6, <1>7, <1>8, <1>10, AllRanked
<1> QED
  BY <1>9, <1>11, Zenon

\* Once the watches have delivered all that was written, an idle agent is suggested each of the
\* few quests it could take.
THEOREM WorthyAreSuggested == FlockSpec => []WorthySuggested
<1>1. FlockInit => FlockIInv
  BY FlockBegins, FlockAssumption, Zenon
<1>2. FlockIInv /\ [FlockNext]_bdVars => FlockIInv'
  BY FlockStep, FlockAssumption, Zenon
<1>3. FlockIInv => WorthySuggested
  BY WorthyRanked, Zenon DEF WorthySuggested
<1> QED
  BY <1>1, <1>2, <1>3, PTL DEF FlockSpec
=============================================================================
