-------------------------------- MODULE Town --------------------------------
(***************************************************************************)
(* The components around the board that share no state with each other but *)
(* entities each of them models for itself.  A behaviour is one scene: the *)
(* first step chooses a component, the others stay where they began.  So   *)
(* the states are those of the components side by side, and no product.    *)
(***************************************************************************)
EXTENDS Heartbeat, Progression, GuildFormation, PartyFormation, TriageDesk, Treasury, AgentStore,
        EntityCodec, Flock, Workspaces, FrontDesk, PeerDesk, ToolDesk, Chat, Briefing, Judging,
        Knowledge

VARIABLE scene   \* the component that takes the steps, "none" before the first

townVars == <<hbVars, prVars, gfVars, pfVars, tdVars, trVars, asVars, ecVars, bdVars, wsVars,
              fdVars, pdVars, tkVars, chVars, brVars, jgVars, knVars, scene>>

TownInit ==
  /\ scene = "none"
  /\ HeartbeatInit /\ ProgressionInit /\ GuildInit /\ PartyInit
  /\ TriageInit /\ TreasuryInit /\ StoreInit /\ CodecInit
  /\ FlockInit /\ WorkspacesInit /\ DeskInit /\ PeersInit
  /\ ToolsInit /\ ChatInit /\ BriefingInit /\ JudgingInit
  /\ KnowledgeInit

Play(s) == scene \in {"none", s} /\ scene' = s

OnlyHeartbeat == UNCHANGED <<prVars, gfVars, pfVars, tdVars, trVars, asVars, ecVars, bdVars,
  wsVars, fdVars, pdVars, tkVars, chVars, brVars, jgVars, knVars>>
OnlyProgression == UNCHANGED <<hbVars, gfVars, pfVars, tdVars, trVars, asVars, ecVars, bdVars,
  wsVars, fdVars, pdVars, tkVars, chVars, brVars, jgVars, knVars>>
OnlyGuild == UNCHANGED <<hbVars, prVars, pfVars, tdVars, trVars, asVars, ecVars, bdVars, wsVars,
  fdVars, pdVars, tkVars, chVars, brVars, jgVars, knVars>>
OnlyParty == UNCHANGED <<hbVars, prVars, gfVars, tdVars, trVars, asVars, ecVars, bdVars, wsVars,
  fdVars, pdVars, tkVars, chVars, brVars, jgVars, knVars>>
OnlyTriage == UNCHANGED <<hbVars, prVars, gfVars, pfVars, trVars, asVars, ecVars, bdVars, wsVars,
  fdVars, pdVars, tkVars, chVars, brVars, jgVars, knVars>>
OnlyTreasury == UNCHANGED <<hbVars, prVars, gfVars, pfVars, tdVars, asVars, ecVars, bdVars,
  wsVars, fdVars, pdVars, tkVars, chVars, brVars, jgVars, knVars>>
OnlyStore == UNCHANGED <<hbVars, prVars, gfVars, pfVars, tdVars, trVars, ecVars, bdVars, wsVars,
  fdVars, pdVars, tkVars, chVars, brVars, jgVars, knVars>>
OnlyCodec == UNCHANGED <<hbVars, prVars, gfVars, pfVars, tdVars, trVars, asVars, bdVars, wsVars,
  fdVars, pdVars, tkVars, chVars, brVars, jgVars, knVars>>
OnlyFlock == UNCHANGED <<hbVars, prVars, gfVars, pfVars, tdVars, trVars, asVars, ecVars, wsVars,
  fdVars, pdVars, tkVars, chVars, brVars, jgVars, knVars>>
OnlyWorkspaces == UNCHANGED <<hbVars, prVars, gfVars, pfVars, tdVars, trVars, asVars, ecVars,
  bdVars, fdVars, pdVars, tkVars, chVars, brVars, jgVars, knVars>>
OnlyDesk == UNCHANGED <<hbVars, prVars, gfVars, pfVars, tdVars, trVars, asVars, ecVars, bdVars,
  wsVars, pdVars, tkVars, chVars, brVars, jgVars, knVars>>
OnlyPeers == UNCHANGED <<hbVars, prVars, gfVars, pfVars, tdVars, trVars, asVars, ecVars, bdVars,
  wsVars, fdVars, tkVars, chVars, brVars, jgVars, knVars>>
OnlyTools == UNCHANGED <<hbVars, prVars, gfVars, pfVars, tdVars, trVars, asVars, ecVars, bdVars,
  wsVars, fdVars, pdVars, chVars, brVars, jgVars, knVars>>
OnlyChat == UNCHANGED <<hbVars, prVars, gfVars, pfVars, tdVars, trVars, asVars, ecVars, bdVars,
  wsVars, fdVars, pdVars, tkVars, brVars, jgVars, knVars>>
OnlyBriefing == UNCHANGED <<hbVars, prVars, gfVars, pfVars, tdVars, trVars, asVars, ecVars,
  bdVars, wsVars, fdVars, pdVars, tkVars, chVars, jgVars, knVars>>
OnlyJudging == UNCHANGED <<hbVars, prVars, gfVars, pfVars, tdVars, trVars, asVars, ecVars, bdVars,
  wsVars, fdVars, pdVars, tkVars, chVars, brVars, knVars>>
OnlyKnowledge == UNCHANGED <<hbVars, prVars, gfVars, pfVars, tdVars, trVars, asVars, ecVars,
  bdVars, wsVars, fdVars, pdVars, tkVars, chVars, brVars, jgVars>>

TownNext ==
  \/ Play("heartbeat") /\ HeartbeatNext /\ OnlyHeartbeat
  \/ Play("progression") /\ ProgressionNext /\ OnlyProgression
  \/ Play("guild") /\ GuildNext /\ OnlyGuild
  \/ Play("party") /\ PartyNext /\ OnlyParty
  \/ Play("triage") /\ TriageNext /\ OnlyTriage
  \/ Play("treasury") /\ TreasuryNext /\ OnlyTreasury
  \/ Play("store") /\ StoreNext /\ OnlyStore
  \/ Play("codec") /\ CodecNext /\ OnlyCodec
  \/ Play("flock") /\ FlockNext /\ OnlyFlock
  \/ Play("sandbox") /\ WorkspacesNext /\ OnlyWorkspaces
  \/ Play("desk") /\ DeskNext /\ OnlyDesk
  \/ Play("peers") /\ PeersNext /\ OnlyPeers
  \/ Play("tools") /\ ToolsNext /\ OnlyTools
  \/ Play("chat") /\ ChatNext /\ OnlyChat
  \/ Play("dispatch") /\ BriefingNext /\ OnlyBriefing
  \/ Play("court") /\ JudgingNext /\ OnlyJudging
  \/ Play("sources") /\ KnowledgeNext /\ OnlyKnowledge

\* In its initial state a component has no step that its fairness asks for.
TownFairness ==
  /\ HeartbeatFairness /\ ProgressionFairness /\ PartyFairness /\ TriageFairness

TownSpec == TownInit /\ [][TownNext]_townVars /\ TownFairness

TypeOK ==
  /\ scene \in {"none", "heartbeat", "progression", "guild", "party", "triage", "treasury",
                "store", "codec", "flock", "sandbox", "desk", "peers", "tools", "chat",
                "dispatch", "court", "sources"}
  /\ HeartbeatTypeOK /\ ProgressionTypeOK /\ GuildTypeOK /\ PartyTypeOK
  /\ TriageTypeOK /\ TreasuryTypeOK /\ StoreTypeOK /\ CodecTypeOK
  /\ FlockTypeOK /\ WorkspacesTypeOK /\ DeskTypeOK /\ PeersTypeOK
  /\ ToolsTypeOK /\ ChatTypeOK /\ BriefingTypeOK /\ JudgingTypeOK
  /\ KnowledgeTypeOK
=============================================================================
