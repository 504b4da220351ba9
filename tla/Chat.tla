-------------------------------- MODULE Chat --------------------------------
(***************************************************************************)
(* Conversations with the DM at the API.  A request asks the LLM, for      *)
(* minutes and with tools, and appends its turn to the stored session by   *)
(* compare-and-swap.  Which sessions exist is also kept in memory, up to a *)
(* limit; a session that is not known there goes on as a new one.          *)
(*                                                                         *)
(* Not modelled: prompts, the recap of the last turns in them, the tools,  *)
(* what is recorded in the ledger (Treasury), briefs and chains themselves *)
(* (posting them is a request of its own, FrontDesk).                      *)
(***************************************************************************)
EXTENDS Naturals, Sequences, FiniteSets, SequencesExt, Functions

CONSTANTS
  Chatters,          \* requests under way at one time
  DmAnswers,         \* what an LLM may answer
  MaxToolRounds,     \* maxDMToolIterations
  MaxChatSessions,   \* maxChatSessions
  AppendTries,       \* appendTurnMaxRetries
  TurnBound,         \* bound: requests
  ChatMishaps        \* bound: writes with a lost acknowledgement, expiries, restarts

\* A tagged block is missing, does not parse or validate, or is fine; or there is plain JSON.
ASSUME ChatAssumption ==
  /\ DmAnswers \subseteq [chain : {"none", "bad", "good"}, brief : {"none", "bad", "good"},
                          plain : {"none", "chain", "brief"}]
  /\ {MaxToolRounds, AppendTries} \subseteq Nat \ {0} /\ MaxChatSessions \in Nat \ {0, 1}
  /\ {TurnBound, ChatMishaps} \subseteq Nat

VARIABLES
  dmSessions,    \* the bucket DM_SESSIONS: the turns of a session; empty is no entry
  chatTraces,    \* sessions known in memory, oldest first
  chats,         \* what each request is at
  storedTurns,   \* history: turns that were acknowledged as stored
  chatCounts     \* requests, lost acknowledgements and other mishaps so far

chVars == <<dmSessions, chatTraces, chats, storedTurns, chatCounts>>

\* A session has the number of the turn that began it.
Turns == 1 .. TurnBound
NoChat == [at |-> "idle", session |-> 0, turn |-> 0, quest |-> FALSE, round |-> 0, try |-> 0,
           copy |-> <<>>]

ChatTypeOK ==
  /\ dmSessions \in [Turns -> Seq(Turns)]
  /\ chatTraces \in Seq(Turns)
  /\ chats \in [Chatters -> [at : {"idle", "asking", "retrying", "reading", "swapping"},
                             session : 0 .. TurnBound, turn : 0 .. TurnBound, quest : BOOLEAN,
                             round : Nat, try : Nat, copy : Seq(Turns)]]
  /\ storedTurns \subseteq Turns \X Turns
  /\ chatCounts \in [{"turns", "acks", "others"} -> Nat]

ChatInit ==
  /\ dmSessions = [s \in Turns |-> <<>>]
  /\ chatTraces = <<>>
  /\ chats = [c \in Chatters |-> NoChat]
  /\ storedTurns = {}
  /\ chatCounts = [turns |-> 0, acks |-> 0, others |-> 0]

-----------------------------------------------------------------------------
\* At the limit the older half is forgotten.
Evicted(traces) ==
  IF Len(traces) >= MaxChatSessions THEN SubSeq(traces, (MaxChatSessions \div 2) + 1, Len(traces))
                                    ELSE traces

\* getOrCreateChatTrace for the session the client names, or 0.
GetOrCreateChatTrace(c, named, t, quest, refused) ==
  LET known == named \in Range(chatTraces) IN
  /\ chatTraces' = IF known THEN chatTraces ELSE Append(Evicted(chatTraces), t)
  /\ chats' = IF refused THEN chats
              ELSE [chats EXCEPT ![c] = [NoChat EXCEPT !.at = "asking", !.turn = t, !.quest = quest,
                                                       !.session = IF known THEN named ELSE t]]

\* The session is made even if the budget is spent.
HandleDMChat(c) ==
  /\ chats[c].at = "idle" /\ chatCounts.turns < TurnBound
  /\ LET t == chatCounts.turns + 1 IN
     /\ \E named \in {0} \cup 1 .. chatCounts.turns, quest, refused \in BOOLEAN :
          GetOrCreateChatTrace(c, named, t, quest, refused)
     /\ chatCounts' = [chatCounts EXCEPT !.turns = t]
  /\ UNCHANGED <<dmSessions, storedTurns>>

\* extractQuestOutput: tagged blocks first, a chain before a brief.
ExtractQuestOutput(answer) ==
  IF answer.chain = "good" THEN "chain" ELSE IF answer.brief = "good" THEN "brief"
  ELSE answer.plain

\* The answer is there; in quest mode one without a quest is asked for once more.
Answered(c, found) ==
  chats' = [chats EXCEPT ![c] =
    [@ EXCEPT !.at = IF chats[c].quest /\ found = "none" THEN "retrying" ELSE "reading",
              !.quest = FALSE, !.round = 0]]

\* One round of the tool loop: the client has gone or the LLM failed, the budget is spent, the
\* LLM calls tools, or it answers.  After the last round there is no answer of use.
AskDM(c) ==
  /\ chats[c].at = "asking"
  /\ \/ chats' = [chats EXCEPT ![c] = NoChat]
     \/ Answered(c, "none")
     \/ /\ chats[c].round + 1 < MaxToolRounds
        /\ chats' = [chats EXCEPT ![c].round = @ + 1]
     \/ \E answer \in DmAnswers : Answered(c, ExtractQuestOutput(answer))
  /\ UNCHANGED <<dmSessions, chatTraces, storedTurns, chatCounts>>

\* Whatever comes of it, the turn is stored.
RetryQuest(c) ==
  /\ chats[c].at = "retrying"
  /\ chats' = [chats EXCEPT ![c].at = "reading"]
  /\ UNCHANGED <<dmSessions, chatTraces, storedTurns, chatCounts>>

\* appendTurn; a failed read ends it, and the client gets the answer all the same.
ReadSession(c) ==
  /\ chats[c].at = "reading"
  /\ \/ chats' = [chats EXCEPT ![c].at = "swapping", ![c].copy = dmSessions[chats[c].session]]
     \/ chats' = [chats EXCEPT ![c] = NoChat]
  /\ UNCHANGED <<dmSessions, chatTraces, storedTurns, chatCounts>>

\* Mutant: the session is put over whatever is stored.
CurrentAlways(c) == TRUE

\* Create, or Update at the revision that was read.
Current(c) == dmSessions[chats[c].session] = chats[c].copy

PutTurn(c) ==
  dmSessions' = [dmSessions EXCEPT ![chats[c].session] = Append(chats[c].copy, chats[c].turn)]

TryAgain(c) ==
  chats' = [chats EXCEPT ![c] =
    IF chats[c].try + 1 < AppendTries
    THEN [chats[c] EXCEPT !.at = "reading", !.try = @ + 1, !.copy = <<>>]
    ELSE NoChat]

\* Any error counts as a conflict, also that of a write whose acknowledgement was lost.
SwapSession(c) ==
  /\ chats[c].at = "swapping"
  /\ \/ /\ Current(c)
        /\ PutTurn(c)
        /\ storedTurns' = storedTurns \cup {<<chats[c].session, chats[c].turn>>}
        /\ chats' = [chats EXCEPT ![c] = NoChat]
        /\ UNCHANGED chatCounts
     \/ /\ Current(c) /\ chatCounts.acks + chatCounts.others < ChatMishaps
        /\ PutTurn(c)
        /\ TryAgain(c)
        /\ chatCounts' = [chatCounts EXCEPT !.acks = @ + 1]
        /\ UNCHANGED storedTurns
     \/ /\ ~Current(c)
        /\ TryAgain(c)
        /\ UNCHANGED <<dmSessions, storedTurns, chatCounts>>
  /\ UNCHANGED chatTraces

ChatMishap ==
  /\ chatCounts.acks + chatCounts.others < ChatMishaps
  /\ chatCounts' = [chatCounts EXCEPT !.others = @ + 1]

\* The bucket's time to live.
SessionExpires(s) ==
  /\ dmSessions[s] # <<>>
  /\ ChatMishap
  /\ dmSessions' = [dmSessions EXCEPT ![s] = <<>>]
  /\ storedTurns' = {x \in storedTurns : x[1] # s}
  /\ UNCHANGED <<chatTraces, chats>>

RestartChat ==
  /\ chatTraces # <<>>
  /\ ChatMishap
  /\ chatTraces' = <<>>
  /\ chats' = [c \in Chatters |-> NoChat]
  /\ UNCHANGED <<dmSessions, storedTurns>>

ChatNext ==
  \/ \E c \in Chatters : HandleDMChat(c) \/ AskDM(c) \/ RetryQuest(c) \/ ReadSession(c) \/ SwapSession(c)
  \/ \E s \in Turns : SessionExpires(s)
  \/ RestartChat

-----------------------------------------------------------------------------
(* Safety: a turn that was acknowledged stays in its session, whatever     *)
(* other requests append at the same time, retries and restarts included;  *)
(* no turn gets into another session than the one it was answered in; and  *)
(* none is there twice, unless an acknowledgement was lost.                *)
TurnsKept ==
  /\ \A x \in storedTurns : x[2] \in Range(dmSessions[x[1]])
  /\ \A r, s \in Turns : r # s => Range(dmSessions[r]) \cap Range(dmSessions[s]) = {}
  /\ chatCounts.acks = 0 => \A s \in Turns : IsInjective(dmSessions[s])
=============================================================================
