------------------------------- MODULE MCTown -------------------------------
(* Instances of the components around the board.                           *)
EXTENDS Town

\* An award that pays for several levels, a loss greater than what there is, and the end of a
\* quest that nobody holds.
MCDeeds ==
  {[kind |-> "completed", held |-> TRUE, base |-> 200, score |-> 9, spared |-> 50, attempt |-> 1,
    difficulty |-> 3],
   [kind |-> "timeout", held |-> TRUE, base |-> 100, score |-> 0, spared |-> 0, attempt |-> 3,
    difficulty |-> 2],
   [kind |-> "soft", held |-> FALSE, base |-> 100, score |-> 0, spared |-> 0, attempt |-> 3,
    difficulty |-> 2]}

\* An expert who founded the only guild, and an apprentice with good reviews; a quest and one
\* that reviews it, for guilds other than the one that did the work.
MCBoidTraits ==
  [a1 |-> [skills |-> {"go", "js"}, tier |-> 2, level |-> 12, reviews |-> 0, rating |-> 30],
   a2 |-> [skills |-> {"go"}, tier |-> 0, level |-> 2, reviews |-> 3, rating |-> 45]]
MCPostingTraits ==
  [q1 |-> [skills |-> {"go"}, minTier |-> 0, guild |-> "g1", redTeam |-> FALSE, deps |-> {}],
   q2 |-> [skills |-> {"js", "go"}, minTier |-> 0, guild |-> "g1", redTeam |-> TRUE, deps |-> {"q1"}]]
MCBandTraits ==
  [g1 |-> [status |-> "active", maxMembers |-> 2, minLevel |-> 1, reputation |-> 500,
           skills |-> {"go"}, founder |-> "a1"]]
MCPeerScores == [p \in Boids \X Boids |-> IF p[1] = p[2] THEN 0 ELSE 800]
MCSharedWins == [p \in Boids \X Boids |-> IF p[1] = p[2] THEN 0 ELSE 2]
MCRules ==
  [separation |-> 1000, alignment |-> 800, cohesion |-> 600, hunger |-> 1200, affinity |-> 1500,
   caution |-> 900]

\* A quest that builds on another's work, at the same path.
MCJobDeps == [q1 |-> {}, q2 |-> {"q1"}]
MCJobPaths == [q1 |-> "path", q2 |-> "path"]

\* A chain of two quests; of those who could share the work of a third one is retired.
MCOrderTraits ==
  [q1 |-> [skills |-> {"go"}, minTier |-> 0, review |-> TRUE, deps |-> {}],
   q2 |-> [skills |-> {"go"}, minTier |-> 1, review |-> FALSE, deps |-> {"q1"}]]
MCHandTraits ==
  [a1 |-> [skills |-> {"go"}, tier |-> 1], a2 |-> [skills |-> {"js"}, tier |-> 1]]
MCChain == <<"q1", "q2">>

\* Calls that the desk reads, cannot read, and takes for something else.
MCCallKinds ==
  [k \in {"garbled", "foreign", "bash", "decompose", "explore"} |->
     [shape |-> IF k \in {"garbled", "foreign"} THEN k ELSE "good",
      tool |-> CASE k = "decompose" -> "decompose_quest" [] k = "explore" -> k [] OTHER -> "bash",
      claimed |-> 3]]
MCToolTiers == [t \in {"bash", "decompose_quest"} |-> IF t = "bash" THEN 1 ELSE 3]

\* Of two services that index code one does not tell how far it is.
MCGraphSources ==
  <<[name |-> "local", kind |-> "local", statusUrl |-> FALSE, owns |-> {}],
    [name |-> "code", kind |-> "semsource", statusUrl |-> TRUE, owns |-> {"code"}],
    [name |-> "docs", kind |-> "semsource", statusUrl |-> FALSE, owns |-> {"code"}]>>

\* No catalog, and one that knows no human judge; answers that leave criteria out, score them
\* twice, score others, or are out of range.
MCCatalogs ==
  LET none == [l \in Levels |-> <<>>]
  IN  {[byLevel |-> none, criteria |-> <<>>, judgesByLevel |-> none, judges |-> <<>>],
       [byLevel |-> none, judgesByLevel |-> [none EXCEPT !["strict"] = <<"auto">>],
        criteria |-> <<Criterion("correctness", 60, 70), Criterion("quality", 40, 50)>>,
        judges |-> <<"auto", "llm">>]}
MCJudgeAnswers ==
  LET said == {[name |-> n, score |-> s] : n \in {"correctness", "quality", "wit"},
                                            s \in {-10, 60, 110}}
  IN  {[scores |-> scores, checks |-> checks] :
         scores \in {<<>>} \cup {<<x>> : x \in said} \cup {<<x, y>> : x \in said, y \in said},
         checks \in {<<>>, <<TRUE, FALSE>>}}

\* The lead's DAG is a chain of two; one agent leads, one works, both are of a guild that has
\* learned more than fits a letter.
MCDagNodes == <<"n1", "n2">>
MCDagDeps == [n1 |-> {}, n2 |-> {"n1"}]
MCNodeSkills == [n1 |-> <<"codegen">>, n2 |-> <<"research", "codegen">>, parent |-> <<>>]
MCHeroTraits ==
  [lead |-> [tier |-> 3, skills |-> {"codegen"}, guild |-> "g1", ratings |-> <<40, 0, 20>>],
   hand |-> [tier |-> 1, skills |-> {"research"}, guild |-> "g1", ratings |-> <<25, 35, 0>>]]
MCToolTraits ==
  [decompose_quest |-> [category |-> "party_lead", minTier |-> 3, skills |-> {}],
   submit_work |-> [category |-> "core", minTier |-> 0, skills |-> {}],
   bash |-> [category |-> "inspect", minTier |-> 1, skills |-> {}],
   graph_search |-> [category |-> "knowledge", minTier |-> 0, skills |-> {}]]
MCCapabilities == {<<1, "research">>, <<3, "any">>}
MCGuildLessons == [g1 |-> <<"codegen", "research", "codegen">>]

\* A block that does not validate beside nothing, a brief, and a chain in plain JSON.
MCDmAnswers ==
  {[chain |-> "bad", brief |-> "none", plain |-> "none"],
   [chain |-> "none", brief |-> "good", plain |-> "none"],
   [chain |-> "bad", brief |-> "bad", plain |-> "chain"]}
=============================================================================
