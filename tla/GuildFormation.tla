--------------------------- MODULE GuildFormation ---------------------------
(***************************************************************************)
(* processor/guildformation: a guild is founded, pending until it has a    *)
(* quorum or at once active; agents apply, join and leave; a loop          *)
(* dissolves pending guilds whose deadline has passed.  The guild is       *)
(* changed in memory under a mutex of its own; what an operation checks    *)
(* before it locks, and what it does after it unlocks (the map of agents   *)
(* to guilds, the quorum check), other operations may come between.        *)
(*                                                                         *)
(* One guild is modelled.  Not modelled: ranks, names, events, the guild   *)
(* and agent entities, which are written best-effort from memory.          *)
(***************************************************************************)
EXTENDS Naturals, FiniteSets

CONSTANTS
  Folk,           \* agents
  QuorumSize,     \* MinFoundingMembers
  MaxGuildSize,
  QuorumModes,    \* values of EnableQuorumFormation tried
  GuildOpBound    \* bound: operations on the guild

ASSUME GuildAssumption ==
  /\ IsFiniteSet(Folk)
  /\ {QuorumSize, MaxGuildSize, GuildOpBound} \subseteq Nat
  /\ QuorumModes \subseteq BOOLEAN

VARIABLES
  guild,        \* guilds[id], in memory
  agentGuilds,  \* agents mapped to the guild
  deadlinePast, \* now is after FormationDeadline
  expired,      \* the timeout loop has found the guild expired and is about to dissolve it
  chores,       \* what operations still have to do, without the mutex
  guildOps

gfVars == <<guild, agentGuilds, deadlinePast, expired, chores, guildOps>>

GuildStatuses == {"none", "pending", "active", "inactive"}

\* roster: a list in the code; an acceptance may append a member a second time.
Guild ==
  [status : GuildStatuses, roster : [Folk -> Nat], founder : SUBSET Folk,
   applied : [Folk -> {"no", "pending", "accepted", "rejected"}], deadline : BOOLEAN]

Chores == [what : {"join", "map", "unmap", "quorum"}, who : Folk]

GuildTypeOK ==
  /\ guild \in Guild
  /\ agentGuilds \subseteq Folk
  /\ deadlinePast \in BOOLEAN /\ expired \in BOOLEAN
  /\ chores \subseteq Chores
  /\ guildOps \in 0 .. GuildOpBound

GuildInit ==
  /\ guild = [status |-> "none", roster |-> [a \in Folk |-> 0], founder |-> {},
              applied |-> [a \in Folk |-> "no"], deadline |-> FALSE]
  /\ agentGuilds = {}
  /\ deadlinePast = FALSE /\ expired = FALSE
  /\ chores = {}
  /\ guildOps = 0

Chore(what, who) == [what |-> what, who |-> who]

IsMember(a) == guild.roster[a] > 0
Members == {a \in Folk : IsMember(a)}

\* A bound on the sum is enough: the roster counts a member twice once at most.
RosterSize == Cardinality(Members) + Cardinality({a \in Folk : guild.roster[a] > 1})

Operation ==
  /\ guild.status # "none"
  /\ guildOps < GuildOpBound
  /\ guildOps' = guildOps + 1

CreateGuild(a, quorum) ==
  /\ guild.status = "none"
  /\ guild' = [guild EXCEPT !.status = IF quorum THEN "pending" ELSE "active",
                            !.deadline = quorum, !.founder = {a}, !.roster[a] = 1]
  /\ agentGuilds' = agentGuilds \cup {a}
  /\ UNCHANGED <<deadlinePast, expired, chores, guildOps>>

\* The single-guild check is made before the mutex is taken.
JoinGuild(a) ==
  /\ Operation
  /\ a \notin agentGuilds
  /\ chores' = chores \cup {Chore("join", a)}
  /\ UNCHANGED <<guild, agentGuilds, deadlinePast, expired>>

\* Whatever the status of the guild is.
JoinLocked(a) ==
  /\ Chore("join", a) \in chores
  /\ IF IsMember(a) \/ (MaxGuildSize > 0 /\ RosterSize >= MaxGuildSize)
     THEN chores' = chores \ {Chore("join", a)} /\ UNCHANGED guild
     ELSE /\ guild' = [guild EXCEPT !.roster[a] = @ + 1]
          /\ chores' = (chores \ {Chore("join", a)}) \cup {Chore("map", a)}
  /\ UNCHANGED <<agentGuilds, deadlinePast, expired, guildOps>>

LeaveGuild(a) ==
  /\ Operation
  /\ IsMember(a) /\ a \notin guild.founder
  /\ guild' = [guild EXCEPT !.roster[a] = 0]
  /\ chores' = chores \cup {Chore("unmap", a)}
  /\ UNCHANGED <<agentGuilds, deadlinePast, expired>>

DisbandGuild ==
  /\ Operation
  /\ guild' = [guild EXCEPT !.status = "inactive"]
  /\ chores' = chores \cup {Chore("unmap", a) : a \in Members}
  /\ UNCHANGED <<agentGuilds, deadlinePast, expired>>

SubmitApplication(a) ==
  /\ Operation
  /\ guild.status = "pending"
  /\ ~IsMember(a) /\ guild.applied[a] # "pending"
  /\ guild' = [guild EXCEPT !.applied[a] = "pending"]
  /\ UNCHANGED <<agentGuilds, deadlinePast, expired, chores>>

\* An applicant who has joined meanwhile is appended again.
ReviewApplication(a, accepted) ==
  /\ Operation
  /\ guild.status = "pending" /\ guild.applied[a] = "pending"
  /\ IF accepted
     THEN /\ guild' = [guild EXCEPT !.applied[a] = "accepted", !.roster[a] = @ + 1]
          /\ chores' = chores \cup {Chore("map", a), Chore("quorum", a)}
     ELSE guild' = [guild EXCEPT !.applied[a] = "rejected"] /\ UNCHANGED chores
  /\ UNCHANGED <<agentGuilds, deadlinePast, expired>>

\* addAgentGuild and removeAgentGuild.
MapAgent(a) ==
  /\ \/ /\ Chore("map", a) \in chores
        /\ chores' = chores \ {Chore("map", a)}
        /\ agentGuilds' = agentGuilds \cup {a}
     \/ /\ Chore("unmap", a) \in chores
        /\ chores' = chores \ {Chore("unmap", a)}
        /\ agentGuilds' = agentGuilds \ {a}
  /\ UNCHANGED <<guild, deadlinePast, expired, guildOps>>

\* Mutant: the status is not looked at again once the review has let go of the mutex.
CheckQuorumLate(a) ==
  /\ Chore("quorum", a) \in chores
  /\ chores' = chores \ {Chore("quorum", a)}
  /\ guild' = IF RosterSize >= QuorumSize
              THEN [guild EXCEPT !.status = "active", !.deadline = FALSE] ELSE guild
  /\ UNCHANGED <<agentGuilds, deadlinePast, expired, guildOps>>

CheckQuorumLocked(a) ==
  /\ Chore("quorum", a) \in chores
  /\ chores' = chores \ {Chore("quorum", a)}
  /\ guild' = IF guild.status = "pending" /\ RosterSize >= QuorumSize
              THEN [guild EXCEPT !.status = "active", !.deadline = FALSE] ELSE guild
  /\ UNCHANGED <<agentGuilds, deadlinePast, expired, guildOps>>

DeadlinePasses ==
  /\ guild.deadline /\ ~deadlinePast
  /\ deadlinePast' = TRUE
  /\ UNCHANGED <<guild, agentGuilds, expired, chores, guildOps>>

\* Expired guilds are collected first,
CheckFormationTimeouts ==
  /\ ~expired
  /\ guild.status = "pending" /\ guild.deadline /\ deadlinePast
  /\ expired' = TRUE
  /\ UNCHANGED <<guild, agentGuilds, deadlinePast, chores, guildOps>>

\* and dissolved afterwards, whatever became of them.
DissolveGuild ==
  /\ expired
  /\ expired' = FALSE
  /\ guild' = [guild EXCEPT !.status = "inactive",
                            !.applied = [a \in Folk |-> IF @[a] = "pending" THEN "rejected"
                                                        ELSE @[a]]]
  /\ chores' = chores \cup {Chore("unmap", a) : a \in Members}
  /\ UNCHANGED <<agentGuilds, deadlinePast, guildOps>>

GuildClockwork ==
  \/ DeadlinePasses
  \/ CheckFormationTimeouts
  \/ DissolveGuild
  \/ \E a \in Folk : JoinLocked(a) \/ MapAgent(a) \/ CheckQuorumLocked(a)

GuildNext ==
  \/ \E a \in Folk, quorum \in QuorumModes : CreateGuild(a, quorum)
  \/ \E a \in Folk : JoinGuild(a) \/ LeaveGuild(a) \/ SubmitApplication(a)
  \/ \E a \in Folk, accepted \in BOOLEAN : ReviewApplication(a, accepted)
  \/ DisbandGuild
  \/ GuildClockwork

-----------------------------------------------------------------------------
(* Action property: a guild that was dissolved or disbanded never becomes  *)
(* active, although the acceptance that completes its quorum and the check *)
(* of the quorum are apart.                                                *)
DissolvedForGood == [][guild.status = "inactive" => guild'.status = "inactive"]_gfVars
=============================================================================
