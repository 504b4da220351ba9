---------------------------- MODULE EntityCodec ----------------------------
(***************************************************************************)
(* Every entity is stored as triples.  Triples() writes them, one function *)
(* per type, and XFromEntityState reads them back, another function, which *)
(* must agree with the first predicate by predicate.  Whoever changes an   *)
(* entity reads it, sets a field of the copy and puts the whole copy, so   *)
(* what the two functions do not agree on is lost by a step that has       *)
(* nothing to do with it.                                                  *)
(*                                                                         *)
(* The tables below are the two functions, row by row.  A value is         *)
(* abstract: "none" is nil or the zero value, "blank" a pointer to one or  *)
(* a list with an empty string, "fine" a time with a fraction of a second. *)
(* A map or list of structs is one group, of one element.  Not modelled:   *)
(* the order and number of elements, numbers beyond the precision of JSON, *)
(* ReviewerID and Direction of a submission (derived on reading), and the  *)
(* metadata of a triple.                                                   *)
(***************************************************************************)
EXTENDS Naturals, FiniteSets

CONSTANTS
  Edits,          \* bound: the fields that are set when an entity is put again
  RewriteBound    \* bound: puts of an entity after its first

ASSUME RewriteAssumption == RewriteBound \in Nat

VARIABLES
  stored,     \* an entity of ENTITY_STATES, or of kind "none"
  rewrites

ecVars == <<stored, rewrites>>

-----------------------------------------------------------------------------
\* Rows of a writer: a triple always, only when set, or a time to the second.
Rows(rule, pairs) == {[f |-> r[1], p |-> r[2], rule |-> rule, grp |-> ""] : r \in pairs}
Always(pairs) == Rows("always", pairs)
WhenSet(pairs) == Rows("set", pairs)
Each(pairs) == Rows("each", pairs)
Time(pairs) == Rows("time", pairs)
TimeWhenSet(pairs) == Rows("timeSet", pairs)

\* Rows of a reader: the value as it is, or empty strings dropped.
As(pairs) == Rows("as", pairs)
NonBlank(pairs) == Rows("nonblank", pairs)

\* Rows that exist only together with a struct, or a value, of the entity.
In(g, rows) == {[r EXCEPT !.grp = g] : r \in rows}

-----------------------------------------------------------------------------
QuestCoreWritten ==
  Always({<<"Name", "identity.name">>, <<"Title", "identity.title">>,
    <<"Description", "identity.description">>, <<"Status", "status.state">>,
    <<"Difficulty", "difficulty.level">>, <<"QuestType", "classification.type">>,
    <<"MinTier", "tier.minimum">>, <<"PartyRequired", "party.required">>,
    <<"MinPartySize", "party.min_size">>, <<"BaseXP", "xp.base">>,
    <<"Attempts", "attempts.current">>, <<"MaxAttempts", "attempts.max">>})
  \cup Time({<<"PostedAt", "lifecycle.posted_at">>})
  \cup Each({<<"RequiredSkills", "skill.required">>, <<"RequiredTools", "tool.required">>,
    <<"DependsOn", "dependency.quest">>, <<"Acceptance", "acceptance.criterion">>,
    <<"ClaimedBy", "assignment.agent">>, <<"PartyID", "assignment.party">>,
    <<"GuildPriority", "priority.guild">>, <<"ParentQuest", "parent.quest">>,
    <<"RedTeamTarget", "classification.red_team_target">>,
    <<"RedTeamQuestID", "classification.red_team_quest_id">>})
  \cup WhenSet({<<"RedTeamStatus", "classification.red_team_status">>})

QuestCourseWritten ==
  TimeWhenSet({<<"ClaimedAt", "lifecycle.claimed_at">>, <<"StartedAt", "lifecycle.started_at">>,
    <<"CompletedAt", "lifecycle.completed_at">>})
  \cup Each({<<"Input", "data.input">>, <<"Output", "data.output">>,
    <<"SalvagedOutput", "recovery.salvaged">>, <<"AntiPatterns", "recovery.antipatterns">>})
  \cup Always({<<"ReviewLevel", "review.level">>, <<"RequireReview", "review.needs_review">>})
  \cup In("Verdict", Always({<<"Verdict.Passed", "verdict.passed">>,
    <<"Verdict.QualityScore", "verdict.score">>, <<"Verdict.XPAwarded", "verdict.xp_awarded">>,
    <<"Verdict.Feedback", "verdict.feedback">>}))
  \cup WhenSet({<<"LoopID", "execution.loop_id">>, <<"Escalated", "failure.escalated">>,
    <<"FailureReason", "failure.reason">>, <<"FailureType", "failure.type">>,
    <<"RecoveryPath", "recovery.path">>, <<"FailureAnalysis", "recovery.analysis">>,
    <<"FailureHistory", "failure.history">>, <<"Duration", "duration">>,
    <<"TurnsUsed", "metrics.turns_used">>, <<"TokensPrompt", "metrics.tokens_prompt">>,
    <<"TokensCompletion", "metrics.tokens_completion">>})

QuestPlanWritten ==
  Each({<<"DAGDefinition", "dag.definition">>, <<"DAGNodeQuestIDs", "dag.node_quest_ids">>,
    <<"DAGNodeStates", "dag.node_states">>, <<"DAGNodeAssignees", "dag.node_assignees">>,
    <<"DAGCompletedNodes", "dag.completed_nodes">>, <<"DAGFailedNodes", "dag.failed_nodes">>,
    <<"DAGNodeRetries", "dag.node_retries">>, <<"DAGClarifications", "dag.clarifications">>,
    <<"DMClarifications", "dm.clarifications">>, <<"ContextSources", "context.sources">>,
    <<"ContextEntities", "context.entities">>, <<"ProducedEntities", "produced">>,
    <<"Requirements", "spec.requirements">>})
  \cup WhenSet({<<"DAGExecutionID", "dag.execution_id">>, <<"DAGNodeID", "dag.node_id">>,
    <<"ContextTokenCount", "context.token_count">>, <<"Repo", "context.repo">>,
    <<"ArtifactsMerged", "artifacts.merged">>, <<"ArtifactsIndexed", "artifacts.indexed">>,
    <<"Goal", "spec.goal">>, <<"Scenarios", "spec.scenarios">>,
    <<"DecomposabilityClass", "routing.class">>})

QuestCoreRead ==
  As({<<"Name", "identity.name">>, <<"Title", "identity.title">>,
    <<"Description", "identity.description">>, <<"Status", "status.state">>,
    <<"Difficulty", "difficulty.level">>, <<"MinTier", "tier.minimum">>,
    <<"PartyRequired", "party.required">>, <<"MinPartySize", "party.min_size">>,
    <<"BaseXP", "xp.base">>, <<"Attempts", "attempts.current">>,
    <<"MaxAttempts", "attempts.max">>, <<"Escalated", "failure.escalated">>,
    <<"PostedAt", "lifecycle.posted_at">>, <<"ClaimedAt", "lifecycle.claimed_at">>,
    <<"StartedAt", "lifecycle.started_at">>, <<"CompletedAt", "lifecycle.completed_at">>,
    <<"ClaimedBy", "assignment.agent">>, <<"PartyID", "assignment.party">>,
    <<"GuildPriority", "priority.guild">>, <<"ParentQuest", "parent.quest">>,
    <<"Input", "data.input">>, <<"Output", "data.output">>,
    <<"RequiredSkills", "skill.required">>, <<"RequiredTools", "tool.required">>,
    <<"ReviewLevel", "review.level">>, <<"RequireReview", "review.needs_review">>,
    <<"LoopID", "execution.loop_id">>})
  \cup NonBlank({<<"DependsOn", "dependency.quest">>, <<"Acceptance", "acceptance.criterion">>})

QuestCourseRead ==
  In("Verdict", As({<<"Verdict.Passed", "verdict.passed">>,
    <<"Verdict.QualityScore", "verdict.score">>, <<"Verdict.XPAwarded", "verdict.xp_awarded">>,
    <<"Verdict.Feedback", "verdict.feedback">>}))
  \cup As({<<"FailureReason", "failure.reason">>, <<"FailureType", "failure.type">>,
    <<"FailureHistory", "failure.history">>, <<"RecoveryPath", "recovery.path">>,
    <<"FailureAnalysis", "recovery.analysis">>, <<"SalvagedOutput", "recovery.salvaged">>,
    <<"AntiPatterns", "recovery.antipatterns">>, <<"Duration", "duration">>,
    <<"TurnsUsed", "metrics.turns_used">>, <<"TokensPrompt", "metrics.tokens_prompt">>,
    <<"TokensCompletion", "metrics.tokens_completion">>})

QuestPlanRead ==
  As({<<"DAGExecutionID", "dag.execution_id">>, <<"DAGDefinition", "dag.definition">>,
    <<"DAGNodeQuestIDs", "dag.node_quest_ids">>, <<"DAGNodeStates", "dag.node_states">>,
    <<"DAGNodeAssignees", "dag.node_assignees">>, <<"DAGCompletedNodes", "dag.completed_nodes">>,
    <<"DAGFailedNodes", "dag.failed_nodes">>, <<"DAGNodeRetries", "dag.node_retries">>,
    <<"DAGNodeID", "dag.node_id">>, <<"DAGClarifications", "dag.clarifications">>,
    <<"DMClarifications", "dm.clarifications">>, <<"ContextTokenCount", "context.token_count">>,
    <<"ContextSources", "context.sources">>, <<"ContextEntities", "context.entities">>,
    <<"Repo", "context.repo">>, <<"ArtifactsMerged", "artifacts.merged">>,
    <<"ArtifactsIndexed", "artifacts.indexed">>, <<"QuestType", "classification.type">>,
    <<"RedTeamTarget", "classification.red_team_target">>,
    <<"RedTeamStatus", "classification.red_team_status">>,
    <<"RedTeamQuestID", "classification.red_team_quest_id">>, <<"Goal", "spec.goal">>,
    <<"Requirements", "spec.requirements">>, <<"Scenarios", "spec.scenarios">>,
    <<"DecomposabilityClass", "routing.class">>})
  \cup NonBlank({<<"ProducedEntities", "produced">>})

QuestUnwritten ==
  {"BonusXP", "GuildXP", "AllowedTools", "SubQuests", "DecomposedBy", "Deadline", "MaxDuration",
   "MaxCost", "MaxTokens", "Verdict.XPPenalty", "Verdict.LevelChange"}

-----------------------------------------------------------------------------
AgentWritten ==
  Always({<<"Name", "identity.name">>, <<"DisplayName", "identity.display_name">>,
    <<"Status", "status.state">>, <<"IsNPC", "npc.flag">>, <<"Level", "progression.level">>,
    <<"XP", "progression.xp.current">>, <<"XPToLevel", "progression.xp.to_level">>,
    <<"Tier", "progression.tier">>, <<"DeathCount", "progression.death_count">>,
    <<"QuestsCompleted", "stats.quests_completed">>, <<"QuestsFailed", "stats.quests_failed">>,
    <<"BossesDefeated", "stats.bosses_defeated">>, <<"TotalXPEarned", "stats.total_xp_earned">>})
  \cup Time({<<"CreatedAt", "lifecycle.created_at">>, <<"UpdatedAt", "lifecycle.updated_at">>})
  \cup WhenSet({<<"Archetype", "identity.archetype">>, <<"Guild", "membership.guild">>,
    <<"TotalSpent", "inventory.total_spent">>, <<"PeerReviewCount", "reputation.peer_count">>})
  \cup Each({<<"CurrentQuest", "assignment.quest">>, <<"CurrentParty", "membership.party">>})
  \cup TimeWhenSet({<<"CooldownUntil", "status.cooldown_until">>})
  \cup In("Skill", Always({<<"Skill.Level", "skill.level">>, <<"Skill.TotalXP", "skill.total_xp">>}))
  \cup In("Tool", Always({<<"Tool.StoreItemID", "inventory.tool">>,
    <<"Tool.XPSpent", "inventory.tool.xp_spent">>, <<"Tool.UsesRemaining", "inventory.tool.uses">>})
    \cup Time({<<"Tool.PurchasedAt", "inventory.tool.purchased_at">>}))
  \cup In("Consumable", Always({<<"Consumable.Count", "inventory.consumable">>}))
  \cup In("Effect", Always({<<"Effect.QuestsRemaining", "effects.remaining">>})
    \cup Each({<<"Effect.QuestID", "effects.quest">>}))
  \cup In("PeerReviewCount", Always({<<"PeerReviewAvg", "reputation.peer_avg">>,
    <<"PeerReviewQ1Avg", "reputation.peer_q1_avg">>, <<"PeerReviewQ2Avg", "reputation.peer_q2_avg">>,
    <<"PeerReviewQ3Avg", "reputation.peer_q3_avg">>}))

AgentRead ==
  As({<<"Name", "identity.name">>, <<"DisplayName", "identity.display_name">>,
    <<"Archetype", "identity.archetype">>, <<"Status", "status.state">>, <<"IsNPC", "npc.flag">>,
    <<"CooldownUntil", "status.cooldown_until">>, <<"Level", "progression.level">>,
    <<"XP", "progression.xp.current">>, <<"XPToLevel", "progression.xp.to_level">>,
    <<"Tier", "progression.tier">>, <<"DeathCount", "progression.death_count">>,
    <<"QuestsCompleted", "stats.quests_completed">>, <<"QuestsFailed", "stats.quests_failed">>,
    <<"BossesDefeated", "stats.bosses_defeated">>, <<"TotalXPEarned", "stats.total_xp_earned">>,
    <<"CreatedAt", "lifecycle.created_at">>, <<"UpdatedAt", "lifecycle.updated_at">>,
    <<"Guild", "membership.guild">>, <<"CurrentQuest", "assignment.quest">>,
    <<"CurrentParty", "membership.party">>, <<"TotalSpent", "inventory.total_spent">>,
    <<"PeerReviewAvg", "reputation.peer_avg">>, <<"PeerReviewQ1Avg", "reputation.peer_q1_avg">>,
    <<"PeerReviewQ2Avg", "reputation.peer_q2_avg">>, <<"PeerReviewQ3Avg", "reputation.peer_q3_avg">>,
    <<"PeerReviewCount", "reputation.peer_count">>})
  \cup In("Skill", As({<<"Skill.Level", "skill.level">>, <<"Skill.TotalXP", "skill.total_xp">>}))
  \cup In("Tool", As({<<"Tool.StoreItemID", "inventory.tool">>,
    <<"Tool.XPSpent", "inventory.tool.xp_spent">>, <<"Tool.UsesRemaining", "inventory.tool.uses">>,
    <<"Tool.PurchasedAt", "inventory.tool.purchased_at">>}))
  \cup In("Consumable", As({<<"Consumable.Count", "inventory.consumable">>}))
  \cup In("Effect", As({<<"Effect.QuestsRemaining", "effects.remaining">>,
    <<"Effect.QuestID", "effects.quest">>}))

AgentUnwritten ==
  {"Persona", "Equipment", "Config", "BossesFailed", "TotalXPSpent", "AvgQualityScore",
   "AvgEfficiency", "PartiesLed", "QuestsDecomposed"}

-----------------------------------------------------------------------------
GuildWritten ==
  Always({<<"Name", "identity.name">>, <<"Description", "identity.description">>,
    <<"Status", "status.state">>, <<"MaxMembers", "config.max_members">>,
    <<"MinLevel", "config.min_level">>, <<"FoundedBy", "founding.agent">>,
    <<"Reputation", "stats.reputation">>, <<"QuestsHandled", "stats.quests_handled">>,
    <<"QuestsFailed", "stats.quests_failed">>, <<"SuccessRate", "stats.success_rate">>})
  \cup Time({<<"Founded", "founding.date">>, <<"CreatedAt", "lifecycle.created_at">>})
  \cup WhenSet({<<"Culture", "identity.culture">>, <<"Motto", "identity.motto">>,
    <<"QuorumSize", "quorum.size">>, <<"Lessons", "knowledge.lessons">>})
  \cup TimeWhenSet({<<"FormationDeadline", "quorum.deadline">>})
  \cup Each({<<"SharedTools", "resource.tool">>, <<"QuestTypes", "routing.quest_type">>,
    <<"PreferredClients", "routing.preferred_client">>})
  \cup In("Member", Always({<<"Member.AgentID", "membership.agent">>,
    <<"Member.Rank", "member.rank">>, <<"Member.Contribution", "member.contribution">>}))
  \cup In("Application", Always({<<"Application.ApplicantID", "application.applicant">>,
    <<"Application.Status", "application.status">>, <<"Application.Level", "application.level">>,
    <<"Application.Tier", "application.tier">>})
    \cup Time({<<"Application.AppliedAt", "application.applied_at">>})
    \cup WhenSet({<<"Application.Message", "application.message">>,
      <<"Application.Reason", "application.reason">>})
    \cup Each({<<"Application.Skills", "application.skill">>,
      <<"Application.ReviewedBy", "application.reviewed_by">>})
    \cup TimeWhenSet({<<"Application.ReviewedAt", "application.reviewed_at">>}))

GuildRead ==
  As({<<"Name", "identity.name">>, <<"Description", "identity.description">>,
    <<"Culture", "identity.culture">>, <<"Motto", "identity.motto">>,
    <<"Status", "status.state">>, <<"MaxMembers", "config.max_members">>,
    <<"MinLevel", "config.min_level">>, <<"Founded", "founding.date">>,
    <<"FoundedBy", "founding.agent">>, <<"QuorumSize", "quorum.size">>,
    <<"FormationDeadline", "quorum.deadline">>, <<"Reputation", "stats.reputation">>,
    <<"QuestsHandled", "stats.quests_handled">>, <<"QuestsFailed", "stats.quests_failed">>,
    <<"SuccessRate", "stats.success_rate">>, <<"CreatedAt", "lifecycle.created_at">>,
    <<"SharedTools", "resource.tool">>, <<"Lessons", "knowledge.lessons">>,
    <<"QuestTypes", "routing.quest_type">>, <<"PreferredClients", "routing.preferred_client">>})
  \cup In("Member", As({<<"Member.AgentID", "membership.agent">>, <<"Member.Rank", "member.rank">>,
    <<"Member.Contribution", "member.contribution">>}))
  \cup In("Application", As({<<"Application.ApplicantID", "application.applicant">>,
    <<"Application.Status", "application.status">>, <<"Application.Message", "application.message">>,
    <<"Application.Level", "application.level">>, <<"Application.Tier", "application.tier">>,
    <<"Application.AppliedAt", "application.applied_at">>,
    <<"Application.ReviewedAt", "application.reviewed_at">>,
    <<"Application.ReviewedBy", "application.reviewed_by">>,
    <<"Application.Reason", "application.reason">>, <<"Application.Skills", "application.skill">>}))

GuildUnwritten == {"Member.JoinedAt"}

-----------------------------------------------------------------------------
\* "some" status of a review stands for completed: only then averages are written.
PeerReviewWritten ==
  Always({<<"Status", "status.state">>, <<"QuestID", "assignment.quest">>,
    <<"LeaderID", "assignment.leader">>, <<"MemberID", "assignment.member">>,
    <<"IsSoloTask", "config.solo_task">>})
  \cup Time({<<"CreatedAt", "lifecycle.created_at">>})
  \cup Each({<<"PartyID", "assignment.party">>})
  \cup TimeWhenSet({<<"CompletedAt", "lifecycle.completed_at">>})
  \cup In("Status", Always({<<"LeaderAvgRating", "result.leader_avg">>,
    <<"MemberAvgRating", "result.member_avg">>}))
  \cup In("LeaderReview", Always({<<"LeaderReview.Q1", "leader.q1">>, <<"LeaderReview.Q2", "leader.q2">>,
    <<"LeaderReview.Q3", "leader.q3">>})
    \cup Time({<<"LeaderReview.SubmittedAt", "leader.submitted_at">>})
    \cup WhenSet({<<"LeaderReview.Explanation", "leader.explanation">>}))
  \cup In("MemberReview", Always({<<"MemberReview.Q1", "member.q1">>, <<"MemberReview.Q2", "member.q2">>,
    <<"MemberReview.Q3", "member.q3">>})
    \cup Time({<<"MemberReview.SubmittedAt", "member.submitted_at">>})
    \cup WhenSet({<<"MemberReview.Explanation", "member.explanation">>}))

PeerReviewRead ==
  As({<<"Status", "status.state">>, <<"QuestID", "assignment.quest">>,
    <<"LeaderID", "assignment.leader">>, <<"MemberID", "assignment.member">>,
    <<"PartyID", "assignment.party">>, <<"IsSoloTask", "config.solo_task">>,
    <<"CreatedAt", "lifecycle.created_at">>, <<"CompletedAt", "lifecycle.completed_at">>,
    <<"LeaderAvgRating", "result.leader_avg">>, <<"MemberAvgRating", "result.member_avg">>})
  \cup In("LeaderReview", As({<<"LeaderReview.Q1", "leader.q1">>, <<"LeaderReview.Q2", "leader.q2">>,
    <<"LeaderReview.Q3", "leader.q3">>, <<"LeaderReview.Explanation", "leader.explanation">>,
    <<"LeaderReview.SubmittedAt", "leader.submitted_at">>}))
  \cup In("MemberReview", As({<<"MemberReview.Q1", "member.q1">>, <<"MemberReview.Q2", "member.q2">>,
    <<"MemberReview.Q3", "member.q3">>, <<"MemberReview.Explanation", "member.explanation">>,
    <<"MemberReview.SubmittedAt", "member.submitted_at">>}))

-----------------------------------------------------------------------------
\* Counts of members, context and results are written too and read by nobody.
PartyWritten ==
  Always({<<"Name", "identity.name">>, <<"Status", "status.state">>, <<"QuestID", "quest">>,
    <<"Lead", "lead">>})
  \cup Time({<<"FormedAt", "lifecycle.formed_at">>})
  \cup WhenSet({<<"Strategy", "strategy">>})
  \cup TimeWhenSet({<<"DisbandedAt", "lifecycle.disbanded_at">>})
  \cup In("Member", Always({<<"Member.AgentID", "membership.member">>,
    <<"Member.Role", "member.role">>}))
  \cup WhenSet({<<"SubQuestMap", "assignment">>})

PartyRead ==
  As({<<"Name", "identity.name">>, <<"Status", "status.state">>, <<"QuestID", "quest">>,
    <<"QuestID", "assignment.quest">>, <<"Lead", "lead">>, <<"Lead", "membership.lead">>,
    <<"Strategy", "strategy">>, <<"Strategy", "coordination.strategy">>,
    <<"FormedAt", "lifecycle.formed_at">>, <<"DisbandedAt", "lifecycle.disbanded_at">>})
  \cup In("Member", As({<<"Member.AgentID", "membership.member">>, <<"Member.Role", "member.role">>}))

PartyUnwritten == {"SharedContext", "SubResults", "RollupResult", "Member.Skills", "Member.JoinedAt"}

-----------------------------------------------------------------------------
BattleWritten ==
  Always({<<"Name", "identity.name">>, <<"QuestID", "assignment.quest">>,
    <<"AgentID", "assignment.agent">>, <<"Status", "status.state">>, <<"Level", "review.level">>})
  \cup Time({<<"StartedAt", "lifecycle.started_at">>})
  \cup TimeWhenSet({<<"CompletedAt", "lifecycle.completed_at">>})
  \cup WhenSet({<<"LoopID", "execution.loop_id">>})
  \cup In("Criterion", Always({<<"Criterion.Name", "criteria.name">>,
    <<"Criterion.Description", "criteria.description">>, <<"Criterion.Weight", "criteria.weight">>,
    <<"Criterion.Threshold", "criteria.threshold">>}))
  \cup In("Judge", Always({<<"Judge.ID", "judge.id">>, <<"Judge.Type", "judge.type">>}))
  \cup In("Verdict", Always({<<"Verdict.Passed", "verdict.passed">>,
    <<"Verdict.QualityScore", "verdict.quality_score">>, <<"Verdict.XPAwarded", "verdict.xp_awarded">>,
    <<"Verdict.XPPenalty", "verdict.xp_penalty">>, <<"Verdict.LevelChange", "verdict.level_change">>})
    \cup WhenSet({<<"Verdict.Feedback", "verdict.feedback">>}))
  \cup In("Result", Always({<<"Result.CriterionName", "result.criterion_name">>,
    <<"Result.JudgeID", "result.judge_id">>, <<"Result.Score", "result.score">>,
    <<"Result.Passed", "result.passed">>, <<"Result.Reasoning", "result.reasoning">>}))

\* Mutant: the score is read from the predicate that quests use for it.
BattleVerdictReadAsQuest ==
  In("Verdict", As({<<"Verdict.Passed", "verdict.passed">>,
    <<"Verdict.QualityScore", "verdict.score">>, <<"Verdict.XPAwarded", "verdict.xp_awarded">>,
    <<"Verdict.XPPenalty", "verdict.xp_penalty">>, <<"Verdict.LevelChange", "verdict.level_change">>,
    <<"Verdict.Feedback", "verdict.feedback">>}))

BattleVerdictRead ==
  In("Verdict", As({<<"Verdict.Passed", "verdict.passed">>,
    <<"Verdict.QualityScore", "verdict.score">>, <<"Verdict.QualityScore", "verdict.quality_score">>,
    <<"Verdict.XPAwarded", "verdict.xp_awarded">>, <<"Verdict.XPPenalty", "verdict.xp_penalty">>,
    <<"Verdict.LevelChange", "verdict.level_change">>, <<"Verdict.Feedback", "verdict.feedback">>}))

BattleRead ==
  As({<<"Name", "identity.name">>, <<"QuestID", "assignment.quest">>,
    <<"AgentID", "assignment.agent">>, <<"Status", "status.state">>, <<"Level", "review.level">>,
    <<"StartedAt", "lifecycle.started_at">>, <<"CompletedAt", "lifecycle.completed_at">>,
    <<"LoopID", "execution.loop_id">>})
  \cup BattleVerdictRead
  \cup In("Judge", As({<<"Judge.ID", "judge.id">>, <<"Judge.Type", "judge.type">>}))
  \cup In("Criterion", As({<<"Criterion.Name", "criteria.name">>,
    <<"Criterion.Description", "criteria.description">>, <<"Criterion.Weight", "criteria.weight">>,
    <<"Criterion.Threshold", "criteria.threshold">>}))
  \cup In("Result", As({<<"Result.CriterionName", "result.criterion_name">>,
    <<"Result.JudgeID", "result.judge_id">>, <<"Result.Score", "result.score">>,
    <<"Result.Passed", "result.passed">>, <<"Result.Reasoning", "result.reasoning">>}))

-----------------------------------------------------------------------------
StoreItemWritten ==
  Always({<<"Name", "name">>, <<"Description", "description">>, <<"ItemType", "type">>,
    <<"PurchaseType", "purchase_type">>, <<"XPCost", "xp_cost">>, <<"MinTier", "min_tier">>,
    <<"InStock", "in_stock">>, <<"RentalUses", "rental_uses">>, <<"MinLevel", "min_level">>,
    <<"GuildDiscount", "guild_discount">>})
  \cup WhenSet({<<"ToolID", "tool_id">>})
  \cup In("Effect", Always({<<"Effect.Type", "effect_type">>,
    <<"Effect.Magnitude", "effect_magnitude">>, <<"Effect.Duration", "effect_duration">>}))

StoreItemRead ==
  As({<<"Name", "name">>, <<"Description", "description">>, <<"ItemType", "type">>,
    <<"PurchaseType", "purchase_type">>, <<"XPCost", "xp_cost">>, <<"MinTier", "min_tier">>,
    <<"InStock", "in_stock">>, <<"ToolID", "tool_id">>, <<"RentalUses", "rental_uses">>,
    <<"MinLevel", "min_level">>, <<"GuildDiscount", "guild_discount">>})
  \cup In("Effect", As({<<"Effect.Type", "effect_type">>,
    <<"Effect.Magnitude", "effect_magnitude">>, <<"Effect.Duration", "effect_duration">>}))

-----------------------------------------------------------------------------
EntityKinds == {"quest", "agent", "guild", "review", "party", "battle", "item"}

Written ==
  [quest |-> QuestCoreWritten \cup QuestCourseWritten \cup QuestPlanWritten,
   agent |-> AgentWritten, guild |-> GuildWritten, review |-> PeerReviewWritten,
   party |-> PartyWritten, battle |-> BattleWritten, item |-> StoreItemWritten]

Read ==
  [quest |-> QuestCoreRead \cup QuestCourseRead \cup QuestPlanRead,
   agent |-> AgentRead, guild |-> GuildRead, review |-> PeerReviewRead,
   party |-> PartyRead, battle |-> BattleRead, item |-> StoreItemRead]

Unwritten ==
  [quest |-> QuestUnwritten, agent |-> AgentUnwritten, guild |-> GuildUnwritten,
   review |-> {}, party |-> PartyUnwritten, battle |-> {"Judge.Config"},
   item |-> {"Effect.Metadata"}]

Groups == [k \in EntityKinds |-> {r.grp : r \in Written[k]} \ {""}]
Fields == [k \in EntityKinds |-> {r.f : r \in Written[k]} \cup Groups[k] \cup Unwritten[k]]

Values == {"none", "blank", "some", "fine"}

\* Of parties, battles and items a copy is kept in memory: they are read and not put again.
Rewritten == {"quest", "agent", "guild", "review"}

\* Written under predicates that no reader knows, or dropped by every reader.
Unread(k, f) == k = "party" /\ f = "SubQuestMap"
Dropped(k, p, v) == v = "blank" /\ \E r \in Read[k] : r.p = p /\ r.rule = "nonblank"

\* What a field can hold besides nothing.
FieldValues(k, f) ==
  LET rules == {r.rule : r \in {r \in Written[k] : r.f = f}}
  IN {"some"} \cup (IF "each" \in rules THEN {"blank"} ELSE {})
              \cup (IF rules \cap {"time", "timeSet"} # {} THEN {"fine"} ELSE {})

-----------------------------------------------------------------------------
\* Each predicate has one row that writes it; a field may be read from several.
Writer == [k \in EntityKinds |-> [p \in {r.p : r \in Written[k]} |-> CHOOSE r \in Written[k] : r.p = p]]
Readers == [k \in EntityKinds |-> [f \in Fields[k] |-> {r \in Read[k] : f \in {r.f, r.grp}}]]

IsWritten(r, e) ==
  /\ r.grp = "" \/ e[r.grp] # "none"
  /\ r.rule \in {"always", "time"} \/ e[r.f] # "none"

\* The triples of an entity, from predicate to object.
Triples(k, e) ==
  [p \in {p \in DOMAIN Writer[k] : IsWritten(Writer[k][p], e)} |->
     LET v == e[Writer[k][p].f] IN IF v = "fine" THEN "some" ELSE v]

\* A field is that of the triple read into it; a group exists when a triple of it does.
FromEntityState(k, ts) ==
  [f \in Fields[k] |->
     LET found == {r \in Readers[k][f] : r.p \in DOMAIN ts}
         own == {r \in found : r.f = f}
     IN IF own = {} THEN (IF found = {} THEN "none" ELSE "some")
        ELSE LET r == CHOOSE x \in own : TRUE
             IN IF r.rule = "nonblank" /\ ts[r.p] = "blank" THEN "none" ELSE ts[r.p]]

NoEntity == [kind |-> "none", triples |-> <<>>]

CodecTypeOK ==
  /\ stored.kind \in EntityKinds \cup {"none"}
  /\ \A p \in DOMAIN stored.triples : stored.triples[p] \in Values
  /\ rewrites \in Nat

CodecInit == stored = NoEntity /\ rewrites = 0

-----------------------------------------------------------------------------
\* A field is set in a struct, together with the group it belongs to.
GroupsOf(k, f) == {r.grp : r \in {r \in Written[k] : r.f = f}} \ {""}

SetField(k, e, f, v) == [x \in Fields[k] |-> IF x = f THEN v ELSE IF x \in GroupsOf(k, f) THEN "some" ELSE e[x]]

\* Some component creates an entity with one field set, and puts it,
PutNew(k, f, v) ==
  /\ stored.kind = "none"
  /\ LET e == SetField(k, [x \in Fields[k] |-> "none"], f, v)
     IN stored' = [kind |-> k, triples |-> Triples(k, e)]
  /\ UNCHANGED rewrites

\* and another reads it, sets a field and puts it.
Rewrite(f) ==
  /\ rewrites < RewriteBound
  /\ LET k == stored.kind
         e == FromEntityState(k, stored.triples)
     IN stored' = [kind |-> k, triples |-> Triples(k, SetField(k, e, f, "some"))]
  /\ rewrites' = rewrites + 1

CodecNext ==
  \/ \E k \in EntityKinds : \E f \in Fields[k] : \E v \in FieldValues(k, f) : PutNew(k, f, v)
  \/ \E k \in Rewritten : stored.kind = k /\ \E f \in Fields[k] \cap Edits : Rewrite(f)

CodecSpec == CodecInit /\ [][CodecNext]_ecVars

-----------------------------------------------------------------------------
(* Action property: each field that a put stores is read back, by whoever  *)
(* reads the entity; and a put that follows a read keeps every triple but  *)
(* those of the field it is for, so that no field, once in the bucket, is  *)
(* erased or rounded by a change of another one.                           *)
FieldsSurvive ==
  [][LET k == stored'.kind
         ts == stored'.triples
         kept(p) == p \in DOMAIN ts /\ ts[p] = stored.triples[p]
     IN /\ \A p \in DOMAIN ts :
             LET f == Writer[k][p].f
             IN FromEntityState(k, ts)[f] = ts[p] \/ Unread(k, f) \/ Dropped(k, p, ts[p])
        /\ stored.kind # "none" =>
             \E f \in Fields[k] : \A p \in DOMAIN stored.triples :
               \/ kept(p) \/ Dropped(k, p, stored.triples[p])
               \/ Writer[k][p].f \in {f} \cup GroupsOf(k, f)]_ecVars
=============================================================================
