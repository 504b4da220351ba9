----------------------------- MODULE Knowledge -----------------------------
(***************************************************************************)
(* The graph sources: the local graph and the semsource services that      *)
(* index code and documents.  questbridge holds its watch back, for one    *)
(* quest, until they are ready; prompts, a tool and the API tell what is   *)
(* in them; the search tools send queries to those that own what is asked  *)
(* about, or to all that are ready.                                        *)
(*                                                                         *)
(* Without a list of sources questbridge asks the graph gateway instead    *)
(* whether it has content that is not the game's own.                      *)
(*                                                                         *)
(* The services are others' programs: they come up, index, fail and        *)
(* recover as they like.                                                   *)
(***************************************************************************)
EXTENDS Integers, Sequences, FiniteSets, SequencesExt

CONSTANTS
  GraphSources,   \* the configured sources, in order: [name, kind, statusUrl, owns]
  Namespaces,     \* what a query may ask about
  ReadyPolls,     \* polls within KnowledgeReadyTimeout
  ArrivalBound,   \* bound: quests that start
  AskBound,       \* bound: queries and summaries asked for
  WeatherBound    \* bound: changes of a service

Sources == {GraphSources[i].name : i \in DOMAIN GraphSources}

ASSUME KnowledgeAssumption ==
  /\ \A i \in DOMAIN GraphSources :
       /\ GraphSources[i].kind \in {"local", "semsource"}
       /\ GraphSources[i].statusUrl \in BOOLEAN /\ GraphSources[i].owns \subseteq Namespaces
  /\ Cardinality(Sources) = Len(GraphSources)
  /\ {ReadyPolls, ArrivalBound, AskBound, WeatherBound} \subseteq Nat

VARIABLES
  config,         \* the configuration: with a list of graph sources, or not, or not yet read
  weather,        \* what each service is like, and how often that changed
  srcReady,       \* ready: sources that queries may go to
  failCount,      \* consecutive failures of status checks
  knowledgeReady, \* whether the gate is open
  gate,           \* the watch: polls left to the quest it is held back for, or -1
  arrived,        \* quests that have started
  polled,         \* history: polls made while the watch was held back
  summaryCache,   \* source -> what its summary said, and whether that is still fresh
  manifest,       \* the graph manifest as cached, likewise
  query,          \* a query under way: sources and queries still to ask, and who answered
  told,           \* whom the last answer came from
  asks            \* queries and summaries asked for

knVars == <<config, weather, srcReady, failCount, knowledgeReady, gate, arrived, polled,
            summaryCache, manifest, query, told, asks>>

Phases == {"down", "indexing", "ready", "degraded"}
Contents == {"none", "empty", "full"}
NoQuery == [left |-> <<>>, rest |-> <<>>, got |-> {}, under |-> FALSE]
Nothing == [says |-> "none", fresh |-> FALSE]

Conf(s) == GraphSources[CHOOSE i \in DOMAIN GraphSources : GraphSources[i].name = s]
Semsources == {s \in Sources : Conf(s).kind = "semsource"}

KnowledgeTypeOK ==
  /\ config \in {"unread", "listed", "unlisted"} /\ knowledgeReady \in BOOLEAN
  /\ weather \in [phase : [Sources -> Phases], changes : 0 .. WeatherBound]
  /\ srcReady \subseteq Sources /\ failCount \in [Sources -> 0 .. 3]
  /\ gate \in -1 .. ReadyPolls /\ arrived \in 0 .. ArrivalBound /\ polled \in Nat
  /\ summaryCache \in [Semsources -> [says : Contents, fresh : BOOLEAN]]
  /\ manifest \in [says : Contents, fresh : BOOLEAN]
  /\ Range(query.left) \cup query.got \subseteq Sources
  /\ told \subseteq Sources /\ asks \in 0 .. AskBound

\* NewGraphSourceRegistry: local sources are ready from the start.
KnowledgeInit ==
  /\ config = "unread"
  /\ weather = [phase |-> [s \in Sources |-> "down"], changes |-> 0]
  /\ srcReady = Sources \ Semsources
  /\ failCount = [s \in Sources |-> 0]
  /\ knowledgeReady = FALSE /\ gate = -1 /\ arrived = 0 /\ polled = 0
  /\ summaryCache = [s \in Semsources |-> Nothing]
  /\ manifest = Nothing
  /\ query = NoQuery /\ told = {} /\ asks = 0

gateVars == <<knowledgeReady, gate, arrived, polled>>
cacheVars == <<summaryCache, manifest>>
askVars == <<query, told, asks>>

\* What a service has indexed: nothing until it has been ready once, as far as its phase tells.
Holds(s) == IF weather.phase[s] \in {"ready", "degraded"} THEN "full" ELSE "empty"

\* Only the status of a service tells how far it is.
Weather(s, p) ==
  /\ weather.changes < WeatherBound
  /\ weather.phase[s] # p
  /\ p \in {"down", "ready"} \/ Conf(s).statusUrl
  /\ weather' = [phase |-> [weather.phase EXCEPT ![s] = p], changes |-> weather.changes + 1]
  /\ UNCHANGED <<config, srcReady, failCount, gateVars, cacheVars, askVars>>

-----------------------------------------------------------------------------
(* Readiness.                                                              *)

Reports(s) == weather.phase[s] \in {"ready", "degraded"}

\* A status check of one source.  A third failure in a row counts as ready: it is not waited
\* for any longer.
FailuresAfter(s) ==
  IF ~Conf(s).statusUrl \/ weather.phase[s] # "down" THEN 0 ELSE failCount[s] + 1

ReadyAfter(s) == ~Conf(s).statusUrl \/ Reports(s) \/ FailuresAfter(s) >= 3

\* checkAllReady checks the sources that are not ready.
ReadyAfterCheck == srcReady \cup {s \in Semsources : ReadyAfter(s)}
FailCountAfterCheck ==
  [s \in Sources |-> IF s \in Semsources \ srcReady THEN FailuresAfter(s) ELSE failCount[s]]

\* checkAndUpdateReady, when somebody else comes by a source that is not ready.
ReadyOnceSeen == srcReady \cup {s \in Semsources : Conf(s).statusUrl /\ Reports(s)}

-----------------------------------------------------------------------------
(* What the sources hold, as told in prompts, by a tool and by the API.    *)

\* fetchSummaryWithCache: what is cached as long as it is fresh, else what the service says.
\* A service that is down leaves the old entry, which is not used.
SummaryAfter(s) ==
  IF summaryCache[s].fresh \/ weather.phase[s] = "down" THEN summaryCache[s]
  ELSE [says |-> Holds(s), fresh |-> TRUE]

HasSummary(s) == s \in ReadyOnceSeen /\ Conf(s).statusUrl

\* FormatSummaryForPrompt, StructuredSummary: the sources that are ready and hold something.
TellSummary ==
  /\ srcReady' = ReadyOnceSeen
  /\ summaryCache' = [s \in Semsources |-> IF HasSummary(s) THEN SummaryAfter(s)
                                            ELSE summaryCache[s]]
  /\ told' = {s \in Semsources :
                HasSummary(s) /\ SummaryAfter(s).fresh /\ SummaryAfter(s).says = "full"}

\* The graph manifest counts what is not the game's own.  It, unlike a summary, is used when
\* old if the gateway (here the first source) is down.
Gateway == GraphSources[1].name
GraphHolds == IF \E s \in Semsources : Reports(s) THEN "full" ELSE "empty"
Fetched ==
  IF weather.phase[Gateway] = "down" THEN manifest ELSE [says |-> GraphHolds, fresh |-> TRUE]
ManifestAfter == IF manifest.fresh THEN manifest ELSE Fetched

\* A time to live of five minutes is over.
CacheExpires ==
  /\ \/ \E s \in Semsources :
          /\ summaryCache[s].fresh
          /\ summaryCache' = [summaryCache EXCEPT ![s].fresh = FALSE]
          /\ UNCHANGED manifest
     \/ manifest.fresh /\ manifest' = [manifest EXCEPT !.fresh = FALSE] /\ UNCHANGED summaryCache
  /\ UNCHANGED <<config, weather, srcReady, failCount, gateVars, askVars>>

\* graph_summary, or the summary of the API.
AskSummary ==
  /\ config = "listed" /\ asks < AskBound
  /\ TellSummary
  /\ asks' = asks + 1
  /\ UNCHANGED <<config, weather, failCount, gateVars, manifest, query>>

-----------------------------------------------------------------------------
(* The gate: waitForKnowledgeSources.                                      *)

Open == knowledgeReady' = TRUE /\ gate' = -1

\* A look at the sources, or at the gateway (after a refresh, or not): open, or hold with so
\* many polls left.
Look(refreshed, polls) ==
  IF config = "listed"
  THEN /\ srcReady' = ReadyAfterCheck
       /\ failCount' = FailCountAfterCheck
       /\ UNCHANGED manifest
       /\ IF Semsources \subseteq ReadyAfterCheck THEN Open
          ELSE gate' = polls /\ UNCHANGED knowledgeReady
  ELSE /\ UNCHANGED <<srcReady, failCount>>
       /\ manifest' = IF refreshed THEN Fetched ELSE ManifestAfter
       /\ IF manifest'.says = "full" \/ (~refreshed /\ manifest'.says = "none") THEN Open
          ELSE gate' = polls /\ UNCHANGED knowledgeReady

\* A quest starts.  The first finds the gate closed and may be held back, and with it the
\* watch; later ones pass.
QuestArrives ==
  /\ config # "unread" /\ gate = -1 /\ arrived < ArrivalBound
  /\ arrived' = arrived + 1
  /\ IF knowledgeReady THEN UNCHANGED <<srcReady, failCount, knowledgeReady, gate, manifest>>
     ELSE Look(FALSE, ReadyPolls)
  /\ UNCHANGED <<config, weather, polled, summaryCache, askVars>>

PollSources ==
  /\ gate > 0
  /\ Look(TRUE, gate - 1)
  /\ polled' = polled + 1
  /\ UNCHANGED <<config, weather, arrived, summaryCache, askVars>>

\* Mutant: only sources that became ready open the gate for the quests to come.
TimeIsUpForOne ==
  /\ gate \in {0, 1}
  /\ gate' = -1
  /\ UNCHANGED <<config, weather, srcReady, failCount, knowledgeReady, arrived, polled,
                 cacheVars, askVars>>

\* The timeout (which may win against the last poll).
TimeIsUp ==
  /\ gate \in {0, 1}
  /\ Open
  /\ UNCHANGED <<config, weather, srcReady, failCount, arrived, polled, cacheVars, askVars>>

-----------------------------------------------------------------------------
(* Queries.                                                                *)

ReadySources == SelectSeq([i \in DOMAIN GraphSources |-> GraphSources[i].name],
                          LAMBDA s : s \in srcReady)

\* resolveByPrefix: the first that owns the namespace, if it is ready; without an owner the
\* first local one.  "search" and the like concern no namespace.
Owners(ns) == {i \in DOMAIN GraphSources : ns \in GraphSources[i].owns}
Locals == {i \in DOMAIN GraphSources : GraphSources[i].kind = "local"}
FirstOf(I) == IF I = {} THEN {} ELSE {GraphSources[Min(I)].name}
Resolved(ns) == IF Owners(ns) = {} THEN FirstOf(Locals) ELSE FirstOf(Owners(ns)) \cap srcReady

Topics == Namespaces \cup {"everything"}

SourcesForQuery(ns) ==
  IF ns \notin Namespaces \/ Resolved(ns) = {} THEN ReadySources
  ELSE <<CHOOSE s \in Resolved(ns) : TRUE>>

StartQuery(urls, rest) ==
  /\ config = "listed" /\ asks < AskBound
  /\ query = NoQuery
  /\ query' = [left |-> urls, rest |-> rest, got |-> {}, under |-> TRUE]
  /\ asks' = asks + 1
  /\ UNCHANGED <<config, weather, srcReady, failCount, gateVars, cacheVars, told>>

GraphSearch(ns) == StartQuery(SourcesForQuery(ns), <<>>)

\* The API asks but the first of them.
HandleGraphQuery(ns) == StartQuery(SubSeq(SourcesForQuery(ns), 1, 1), <<>>)

\* Several queries in one call (here two), each routed in its turn.
GraphMultiQuery(ns, other) == StartQuery(SourcesForQuery(ns), <<other>>)

NextOfMany ==
  /\ query.left = <<>> /\ query.rest # <<>>
  /\ query' = [query EXCEPT !.left = SourcesForQuery(Head(query.rest)), !.rest = Tail(@)]
  /\ UNCHANGED <<config, weather, srcReady, failCount, gateVars, cacheVars, told, asks>>

\* A source that fails is passed over.
AskSource ==
  LET s == Head(query.left)
  IN  /\ query.left # <<>>
      /\ query' = [query EXCEPT !.left = Tail(@),
                     !.got = IF weather.phase[s] = "down" THEN @ ELSE @ \cup {s}]
      /\ UNCHANGED <<config, weather, srcReady, failCount, gateVars, cacheVars, told, asks>>

\* The results are put together; without any the answer is an error.
AnswerQuery ==
  /\ query.under /\ query.left = <<>> /\ query.rest = <<>>
  /\ query' = NoQuery
  /\ told' = query.got
  /\ UNCHANGED <<config, weather, srcReady, failCount, gateVars, cacheVars, asks>>

InitGraphSources ==
  /\ config = "unread"
  /\ config' \in {"listed", "unlisted"}
  /\ UNCHANGED <<weather, srcReady, failCount, gateVars, cacheVars, askVars>>

KnowledgeNext ==
  \/ InitGraphSources
  \/ \E s \in Sources, p \in Phases : Weather(s, p)
  \/ CacheExpires
  \/ AskSummary
  \/ QuestArrives \/ PollSources \/ TimeIsUp
  \/ \E ns \in Topics :
       \/ GraphSearch(ns) \/ HandleGraphQuery(ns)
       \/ \E other \in Topics \ {ns} : GraphMultiQuery(ns, other)
  \/ AskSource \/ NextOfMany \/ AnswerQuery

-----------------------------------------------------------------------------
(* Safety, as the comment of the gate has it ("at most one quest blocks    *)
(* the watcher"): whatever the services do, the watch is held back for no  *)
(* longer in its life than one timeout, because every end of a wait opens  *)
(* the gate for good.                                                      *)
OneQuestWaits == polled <= ReadyPolls

=============================================================================
