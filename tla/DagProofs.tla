----------------------------- MODULE DagProofs -----------------------------
(***************************************************************************)
(* Theorems about DagExec, for any DAG, any party and any watch lag.       *)
(***************************************************************************)
EXTENDS DagExec, SequenceTheorems, FiniteSetTheorems, TLAPS

Benign == setting.fault \in {"none", "publish"}

Escalating == \E i \in 1 .. Len(todo) : todo[i].op = "escalate"

\* The parent is open and its DAG is followed.
Engaged == Benign /\ parent = "in_progress" /\ ~fresh /\ ~Escalating

\* How a member's attempt ends, and what triage makes of a sub-quest.
Ends == {"in_review", "completed", "failed", "escalated"}
Verdicts == {"posted", "failed", "escalated"}

\* What may come later in the feed than an event of the status s, for the same sub-quest.
Later(s) ==
  CASE s = "posted" -> {"in_progress"} \cup Ends
    [] s = "in_progress" -> Ends
    [] s = "pending_triage" -> Verdicts
    [] OTHER -> {}

Ordered ==
  \A i, j \in 1 .. Len(feed) :
    i < j /\ feed[i].node = feed[j].node => feed[j].status \in Later(feed[i].status)

\* An event that would be taken for no transition comes after one that is.
Noticed ==
  \A i \in 1 .. Len(feed) : feed[i].status = questCache[feed[i].node] =>
    \E j \in 1 .. i - 1 : feed[j].node = feed[i].node /\ feed[j].status # feed[i].status

\* The last event of n, or what the loop has seen, is what n is.
Known(n) ==
  \/ \E i \in 1 .. Len(feed) : /\ feed[i].node = n /\ feed[i].status = sub[n].status
                               /\ \A j \in i + 1 .. Len(feed) : feed[j].node # n
  \/ /\ questCache[n] = sub[n].status
     /\ \A i \in 1 .. Len(feed) : feed[i].node # n

FeedSound == Ordered /\ Noticed /\ \A n \in Nodes : Known(n)

\* The statuses the feed still holds of n.
News(n) == {feed[i].status : i \in {j \in 1 .. Len(feed) : feed[j].node = n}}

\* What the feed may hold of a node in the state s,
Awaited(s) ==
  CASE s \in {"pending", "ready"} -> {"posted"}
    [] s = "assigned" -> {"posted", "in_progress"} \cup Ends
    [] s = "in_progress" -> Ends
    [] s = "pending_review" -> {"completed", "failed"}
    [] s = "pending_triage" -> {"pending_triage"} \cup Verdicts
    [] OTHER -> {}

\* and what its sub-quest may be.
Current(s) ==
  CASE s \in {"pending", "ready"} -> {"posted"}
    [] s \in {"assigned", "in_progress"} -> {"in_progress"} \cup Ends
    [] s = "pending_review" -> {"in_review", "completed", "failed"}
    [] s = "awaiting_clarification" -> {"escalated"}
    [] s = "pending_triage" -> {"pending_triage"} \cup Verdicts
    [] s = "completed" -> {"completed"}
    [] OTHER -> {}

\* The step of a handler that is about to be done for n.
Hand(n) == IF todo # <<>> /\ todo[1].node = n THEN todo[1].op ELSE "none"

\* A node's state agrees with its sub-quest's status, with what the feed holds and the cache
\* has of it, and with the put its handler is about to make.
Fits(s, status, news, cache, hand) ==
  /\ news \subseteq Awaited(s)
  /\ hand = "repost" => s \in {"pending", "ready"} /\ status \in {"failed", "in_review"}
  /\ hand = "triage" => s = "pending_triage" /\ status \in {"failed", "in_review"} /\ news = {}
  /\ hand \notin {"repost", "triage"} => status \in Current(s)
  /\ s = "in_progress" => cache = "in_progress"
  /\ s = "pending_review" => cache = "in_review"
  /\ s = "pending_triage" =>
       /\ news \subseteq {"pending_triage", status}
       /\ "pending_triage" \in {cache} \cup news \/ hand = "triage"

Agrees(n) ==
  /\ Fits(dag.state[n], sub[n].status, News(n), questCache[n], Hand(n))
  /\ dag.state[n] = "assigned" /\ Calm => "in_progress" \in News(n)
  /\ dag.state[n] \in {"assigned", "in_progress", "pending_review", "awaiting_clarification"}
       => dag.assignee[n] = sub[n].holder

\* The lead judges a sub-quest in review and answers the question of one that waits.
Asked(n) ==
  LET r == [kind |-> "review", node |-> n]
      c == [kind |-> "clarify", node |-> n]
  IN
  /\ leads[r] \in {0, 1} /\ leads[c] \in {0, 1}
  /\ leads[r] = 1 => dag.state[n] = "pending_review" /\ sub[n].status = "in_review"
  /\ leads[c] = 1 => dag.state[n] = "awaiting_clarification"

\* No judge of the parent has blamed a sub-quest.
Blameless ==
  /\ \A n \in Nodes : ~sub[n].defeat
  /\ \A i \in 1 .. Len(feed) : ~feed[i].defeat

\* The end is prepared only when all nodes are completed.
Finale ==
  synthesis > 0 \/ (\E i \in 1 .. Len(todo) : todo[i].op \in {"tally", "metrics", "submit"})
    => \A n \in Nodes : dag.state[n] = "completed"

Tracking ==
  /\ dag # None
  /\ FeedSound
  /\ Blameless
  /\ \A n \in Nodes : Agrees(n) /\ Asked(n)
  /\ Finale

\* What a handler may have to do: puts that only it may begin with come first, what it
\* prepares comes before what it is prepared for, and the DAG is forgotten last.
Plan(s) ==
  /\ \A i \in 2 .. Len(s) : s[i].op \in {"assign", "escalate", "submit", "persist", "forget"}
  /\ \A i, j \in 1 .. Len(s) : j < i =>
       /\ s[i].op = "assign" => s[j].op = "repost"
       /\ s[i].op = "escalate" => s[j].op = "cleanup"
       /\ s[i].op = "submit" => s[j].op \in {"tally", "metrics"}
       /\ s[j].op # "forget"
  /\ \A i \in 1 .. Len(s) : s[i].op = "cleanup" => i + 1 \in 1 .. Len(s) /\ s[i + 1].op = "escalate"

Routine ==
  /\ Plan(todo)
  /\ dag = None => todo = <<>>
  /\ rollup # None <=> todo # <<>> /\ todo[1].op = "metrics"

Shape == TypeOK /\ Routine

\* Before the DAG's entry is handled.
Untouched ==
  /\ parent = "in_progress" /\ dag = None
  /\ feed = <<>> /\ todo = <<>> /\ synthesis = 0
  /\ leads = [l \in LeadLoops |-> 0]
  /\ \A n \in Nodes : sub[n].status = "posted" /\ ~sub[n].defeat /\ questCache[n] = "posted"

\* The DAG is forgotten when the parent is no longer in progress,
Leaving ==
  \A i \in 1 .. Len(todo) : todo[i].op = "forget" =>
    \/ parent # "in_progress"
    \/ \E j \in 1 .. i - 1 : todo[j].op \in {"submit", "escalate"}

\* and its copy agrees on whether it is.
CopyCurrent == rollup # None => (rollup.parent = "in_progress" <=> parent = "in_progress")

Regular ==
  /\ Leaving
  /\ CopyCurrent
  /\ cancel = {}
  /\ fresh => Untouched

DagIInv ==
  /\ Shape
  /\ Benign => Regular
  /\ Engaged => Tracking

-----------------------------------------------------------------------------
(* What a handler has to do.                                               *)

Steps == [op : Ops, node : Nodes]

LEMMA OneIsNode == 1 \in Nodes
BY DagAssumption DEF Nodes

LEMMA DoType ==
  ASSUME NEW op \in Ops, NEW n \in Nodes
  PROVE  Do(op, n) \in Steps /\ Do(op, n).op = op /\ Do(op, n).node = n
BY DEF Do, Steps

\* What is put off when a handler goes on: nothing of the parent's end.
Ordinary(s) ==
  /\ s \in Seq(Steps) /\ s # <<>> /\ Plan(s)
  /\ \A i \in 1 .. Len(s) : s[i].op \in {"assign", "repost", "triage", "persist"}

LEMMA PlanPersist ==
  ASSUME NEW n \in Nodes
  PROVE  Ordinary(<<Do("persist", n)>>)
<1> DEFINE s == <<Do("persist", n)>>
<1>1. Do("persist", n) \in Steps /\ Do("persist", n).op = "persist"
  BY DoType DEF Ops
<1>2. s \in Seq(Steps) /\ Len(s) = 1 /\ s # <<>> /\ s[1].op = "persist"
  BY <1>1
<1> QED
  BY <1>2 DEF Ordinary, Plan

LEMMA PlanAssign ==
  ASSUME NEW n \in Nodes
  PROVE  Ordinary(<<Do("assign", n), Do("persist", n)>>)
<1> DEFINE s == <<Do("assign", n), Do("persist", n)>>
<1>1. \A op \in {"assign", "persist"} : Do(op, n) \in Steps /\ Do(op, n).op = op
  BY DoType DEF Ops
<1>2. s \in Seq(Steps) /\ Len(s) = 2 /\ s # <<>> /\ s[1].op = "assign" /\ s[2].op = "persist"
  BY <1>1
<1> QED
  BY <1>2 DEF Ordinary, Plan

LEMMA PlanRepost ==
  ASSUME NEW n \in Nodes
  PROVE  Ordinary(<<Do("repost", n), Do("assign", n), Do("persist", n)>>)
<1> DEFINE s == <<Do("repost", n), Do("assign", n), Do("persist", n)>>
<1>1. \A op \in {"repost", "assign", "persist"} : Do(op, n) \in Steps /\ Do(op, n).op = op
  BY DoType DEF Ops
<1>2. /\ s \in Seq(Steps) /\ Len(s) = 3 /\ s # <<>>
      /\ s[1].op = "repost" /\ s[2].op = "assign" /\ s[3].op = "persist"
  BY <1>1
<1> QED
  BY <1>2 DEF Ordinary, Plan

LEMMA PlanTriage ==
  ASSUME NEW n \in Nodes
  PROVE  Ordinary(<<Do("triage", n), Do("persist", n)>>)
<1> DEFINE s == <<Do("triage", n), Do("persist", n)>>
<1>1. \A op \in {"triage", "persist"} : Do(op, n) \in Steps /\ Do(op, n).op = op
  BY DoType DEF Ops
<1>2. s \in Seq(Steps) /\ Len(s) = 2 /\ s # <<>> /\ s[1].op = "triage" /\ s[2].op = "persist"
  BY <1>1
<1> QED
  BY <1>2 DEF Ordinary, Plan

\* The sub-quests are cleaned up and the parent is escalated.
GivingUp(s) ==
  /\ s \in Seq(Steps) /\ s # <<>> /\ Plan(s)
  /\ Len(s) = 3 /\ s[1].op = "cleanup" /\ s[2].op = "escalate" /\ s[3].op \in {"persist", "forget"}

LEMMA AppendStep ==
  ASSUME NEW s \in Seq(Steps), NEW e \in Steps
  PROVE  /\ Append(s, e) \in Seq(Steps) /\ Append(s, e) # <<>>
         /\ Len(Append(s, e)) = Len(s) + 1
         /\ \A i \in 1 .. Len(s) : Append(s, e)[i] = s[i]
         /\ Append(s, e)[Len(s) + 1] = e
BY AppendProperties

LEMMA PlanEscalate ==
  ASSUME NEW n \in Nodes, NEW last \in {"persist", "forget"}
  PROVE  GivingUp(Append(EscalateSteps(n), Do(last, n)))
<1> DEFINE s == Append(EscalateSteps(n), Do(last, n))
<1>1. \A op \in {"cleanup", "escalate", last} : Do(op, n) \in Steps /\ Do(op, n).op = op
  BY DoType DEF Ops
<1>2. EscalateSteps(n) \in Seq(Steps) /\ Len(EscalateSteps(n)) = 2
  BY <1>1 DEF EscalateSteps
<1>3. EscalateSteps(n)[1].op = "cleanup" /\ EscalateSteps(n)[2].op = "escalate"
  BY <1>1 DEF EscalateSteps
<1>4. Do(last, n) \in Steps /\ Do(last, n).op = last
  BY <1>1
<1>5. /\ s \in Seq(Steps) /\ Len(s) = Len(EscalateSteps(n)) + 1
      /\ \A i \in 1 .. Len(EscalateSteps(n)) : s[i] = EscalateSteps(n)[i]
      /\ s[Len(EscalateSteps(n)) + 1] = Do(last, n)
  BY <1>2, <1>4, AppendStep
<1>6. Len(s) = 3 /\ s[1].op = "cleanup" /\ s[2].op = "escalate" /\ s[3].op = last
  BY <1>2, <1>3, <1>4, <1>5
<1> HIDE DEF s
<1>7. s # <<>>
  BY <1>6
<1>8. Plan(s)
  <2>1. 2 .. Len(s) = {2, 3} /\ 1 .. Len(s) = {1, 2, 3}
    BY <1>6
  <2> QED
    BY <1>6, <2>1 DEF Plan
<1>9. GivingUp(s)
  BY <1>5, <1>6, <1>7, <1>8 DEF GivingUp
<1> QED
  BY <1>9 DEF s

\* The result is submitted, and later the DAG is forgotten.
Delivering(s) ==
  /\ s \in Seq(Steps) /\ s # <<>> /\ Plan(s)
  /\ Len(s) >= 3 /\ s[1].op = "tally" /\ s[2].op = "submit"
  /\ \A i \in 3 .. Len(s) : s[i].op \in {"persist", "forget"}

LEMMA PlanSubmit ==
  ASSUME NEW n \in Nodes
  PROVE  Delivering(Append(RollupSteps(n), Do("forget", n)))
<1> DEFINE s == Append(RollupSteps(n), Do("forget", n))
<1>1. \A op \in {"tally", "submit", "forget"} : Do(op, n) \in Steps /\ Do(op, n).op = op
  BY DoType DEF Ops
<1>2. RollupSteps(n) \in Seq(Steps) /\ Len(RollupSteps(n)) = 2
  BY <1>1 DEF RollupSteps
<1>3. RollupSteps(n)[1].op = "tally" /\ RollupSteps(n)[2].op = "submit"
  BY <1>1 DEF RollupSteps
<1>4. Do("forget", n) \in Steps /\ Do("forget", n).op = "forget"
  BY <1>1
<1>5. /\ s \in Seq(Steps) /\ Len(s) = Len(RollupSteps(n)) + 1
      /\ \A i \in 1 .. Len(RollupSteps(n)) : s[i] = RollupSteps(n)[i]
      /\ s[Len(RollupSteps(n)) + 1] = Do("forget", n)
  BY <1>2, <1>4, AppendStep
<1>6. Len(s) = 3 /\ s[1].op = "tally" /\ s[2].op = "submit" /\ s[3].op = "forget"
  BY <1>2, <1>3, <1>4, <1>5
<1> HIDE DEF s
<1>7. s # <<>>
  BY <1>6
<1>8. Plan(s)
  <2>1. 2 .. Len(s) = {2, 3} /\ 1 .. Len(s) = {1, 2, 3}
    BY <1>6
  <2> QED
    BY <1>6, <2>1 DEF Plan
<1>9. \A i \in 3 .. Len(s) : s[i].op = "forget"
  BY <1>6
<1>10. Len(s) >= 3
  BY <1>6
<1>11. Delivering(s)
  BY <1>5, <1>6, <1>7, <1>8, <1>9, <1>10 DEF Delivering
<1> QED
  BY <1>11 DEF s

LEMMA PlanSubmitPersist ==
  ASSUME NEW n \in Nodes
  PROVE  Delivering(RollupSteps(n) \o <<Do("persist", n), Do("forget", n)>>)
<1> DEFINE t == <<Do("persist", n), Do("forget", n)>>
           s == RollupSteps(n) \o t
<1>1. \A op \in {"tally", "submit", "persist", "forget"} : Do(op, n) \in Steps /\ Do(op, n).op = op
  BY DoType DEF Ops
<1>2. RollupSteps(n) \in Seq(Steps) /\ Len(RollupSteps(n)) = 2
  BY <1>1 DEF RollupSteps
<1>3. RollupSteps(n)[1].op = "tally" /\ RollupSteps(n)[2].op = "submit"
  BY <1>1 DEF RollupSteps
<1>4. t \in Seq(Steps) /\ Len(t) = 2 /\ t[1].op = "persist" /\ t[2].op = "forget"
  BY <1>1
<1> HIDE DEF t
<1>5. /\ s \in Seq(Steps) /\ Len(s) = Len(RollupSteps(n)) + Len(t)
      /\ \A i \in 1 .. Len(RollupSteps(n)) + Len(t) : s[i] =
           IF i <= Len(RollupSteps(n)) THEN RollupSteps(n)[i] ELSE t[i - Len(RollupSteps(n))]
  <2> HIDE DEF s
  <2> QED
    BY <1>2, <1>4, ConcatProperties DEF s
<1>6. Len(s) = 4 /\ \A i \in 1 .. 4 : s[i] = IF i <= 2 THEN RollupSteps(n)[i] ELSE t[i - 2]
  <2> HIDE DEF s
  <2> QED
    BY <1>2, <1>4, <1>5
<1>7. s[1].op = "tally" /\ s[2].op = "submit" /\ s[3].op = "persist" /\ s[4].op = "forget"
  <2> HIDE DEF s
  <2>1. s[1] = RollupSteps(n)[1] /\ s[2] = RollupSteps(n)[2] /\ s[3] = t[1] /\ s[4] = t[2]
    BY <1>6
  <2> QED
    BY <1>3, <1>4, <2>1
<1> HIDE DEF s
<1>8. s # <<>>
  BY <1>6
<1>9. Plan(s)
  <2>1. 2 .. Len(s) = {2, 3, 4} /\ 1 .. Len(s) = {1, 2, 3, 4}
    BY <1>6
  <2>2. \A i \in 2 .. Len(s) : s[i].op \in {"submit", "persist", "forget"}
    BY <1>7, <2>1
  <2>3. \A i \in 1 .. Len(s) : s[i].op \notin {"assign", "escalate", "cleanup"}
    BY <1>7, <2>1
  <2>4. \A i, j \in 1 .. Len(s) : j < i => j \in {1, 2, 3} /\ i # 1
    BY <2>1
  <2>5. \A i \in 1 .. Len(s) : s[i].op = "submit" => i = 2
    BY <1>7, <2>1
  <2>6. \A j \in 1 .. 1 : s[j].op = "tally"
    BY <1>7
  <2>7. \A i, j \in 1 .. Len(s) : j < i /\ s[i].op = "submit" => s[j].op = "tally"
    BY <2>1, <2>5, <2>6
  <2>8. \A i, j \in 1 .. Len(s) : j < i => s[j].op # "forget"
    BY <1>7, <2>4
  <2> QED
    BY <2>2, <2>3, <2>7, <2>8 DEF Plan
<1>10. \A i \in 3 .. Len(s) : i \in {3, 4}
  BY <1>6
<1>11. Delivering(s)
  BY <1>5, <1>6, <1>7, <1>8, <1>9, <1>10 DEF Delivering
<1> QED
  BY <1>11 DEF s, t

\* The rest of a plan is a plan.
LEMMA PlanRest ==
  ASSUME NEW s \in Seq(Steps), s # <<>>, Plan(s)
  PROVE  /\ Tail(s) \in Seq(Steps) /\ Plan(Tail(s))
         /\ Len(Tail(s)) = Len(s) - 1
         /\ \A i \in 1 .. Len(Tail(s)) : Tail(s)[i] = s[i + 1]
         /\ Tail(s) # <<>> => Tail(s)[1].op \in {"assign", "escalate", "submit", "persist", "forget"}
         /\ s[1].op = "forget" => Tail(s) = <<>>
         /\ Head(s) = s[1] /\ s[1] \in Steps
<1> DEFINE t == Tail(s)
<1>1. t \in Seq(Steps) /\ Len(t) = Len(s) - 1 /\ \A i \in 1 .. Len(t) : t[i] = s[i + 1]
  BY HeadTailProperties
<1>2. Len(s) \in Nat \ {0} /\ Len(t) \in Nat
  BY <1>1, EmptySeq
<1>3. \A i \in 1 .. Len(t) : i + 1 \in 2 .. Len(s) /\ i + 1 \in 1 .. Len(s)
  BY <1>1, <1>2
<1>4. Head(s) = s[1] /\ s[1] \in Steps
  BY <1>2, ElementOfSeq
<1>5. t # <<>> => 1 \in 1 .. Len(t)
  BY <1>1, <1>2, EmptySeq
<1> HIDE DEF t
<1>6. \A i \in 1 .. Len(t) : t[i].op \in {"assign", "escalate", "submit", "persist", "forget"}
  BY <1>1, <1>3 DEF Plan
<1>7. Plan(t)
  <2>1. \A i \in 2 .. Len(t) : i \in 1 .. Len(t)
    BY <1>2
  <2>2. \A i, j \in 1 .. Len(t) : j < i =>
       /\ t[i].op = "assign" => t[j].op = "repost"
       /\ t[i].op = "escalate" => t[j].op = "cleanup"
       /\ t[i].op = "submit" => t[j].op \in {"tally", "metrics"}
       /\ t[j].op # "forget"
    <3> TAKE i, j \in 1 .. Len(t)
    <3> HAVE j < i
    <3>1. j + 1 < i + 1
      OBVIOUS
    <3> QED
      BY <1>1, <1>3, <3>1 DEF Plan
  <2> QED
    BY <1>6, <2>1, <2>2 DEF Plan
<1>8. s[1].op = "forget" => t = <<>>
  <2> SUFFICES ASSUME t # <<>>, s[1].op = "forget" PROVE FALSE
    OBVIOUS
  <2>1. 1 \in 1 .. Len(s) /\ 2 \in 1 .. Len(s) /\ 1 < 2
    BY <1>1, <1>2, <1>5
  <2> QED
    BY <2>1 DEF Plan
<1> QED
  BY <1>1, <1>4, <1>5, <1>6, <1>7, <1>8 DEF t

-----------------------------------------------------------------------------
(* The state of the DAG, and the feed.                                     *)

LEMMA SetNodeFacts ==
  ASSUME NEW d \in DAGExecutionState, NEW n \in Nodes, NEW s \in NodeStates
  PROVE  /\ SetNode(d, n, s) \in DAGExecutionState
         /\ SetNode(d, n, s).state[n] = s
         /\ \A k \in Nodes \ {n} : SetNode(d, n, s).state[k] = d.state[k]
         /\ SetNode(d, n, s).assignee = d.assignee
BY DEF SetNode, DAGExecutionState

\* Promotion makes pending nodes ready, and does nothing else.
LEMMA PromoteFacts ==
  ASSUME NEW d \in DAGExecutionState
  PROVE  /\ Promote(d) \in DAGExecutionState
         /\ \A k \in Nodes : \/ Promote(d).state[k] = d.state[k]
                             \/ d.state[k] = "pending" /\ Promote(d).state[k] = "ready"
         /\ Promote(d).assignee = d.assignee
BY DEF Promote, DAGExecutionState, NodeStates

LEMMA ReopenFacts ==
  ASSUME NEW d \in DAGExecutionState, NEW n \in Nodes
  PROVE  /\ Reopen(d, n) \in DAGExecutionState
         /\ Reopen(d, n).state[n] \in {"pending", "ready"}
         /\ \A k \in Nodes \ {n} : \/ Reopen(d, n).state[k] = d.state[k]
                                   \/ d.state[k] = "pending" /\ Reopen(d, n).state[k] = "ready"
         /\ Reopen(d, n).assignee[n] = None
         /\ \A k \in Nodes \ {n} : Reopen(d, n).assignee[k] = d.assignee[k]
<1> DEFINE e == [d EXCEPT !.state[n] = "pending", !.assignee[n] = None]
<1>1. e \in DAGExecutionState
  BY DEF DAGExecutionState, NodeStates
<1>2. /\ e.state[n] = "pending" /\ e.assignee[n] = None
      /\ \A k \in Nodes \ {n} : e.state[k] = d.state[k] /\ e.assignee[k] = d.assignee[k]
  BY DEF DAGExecutionState
<1>3. Reopen(d, n) = Promote(e)
  BY DEF Reopen
<1> HIDE DEF e
<1> QED
  BY <1>1, <1>2, <1>3, PromoteFacts

LEMMA SeedFacts ==
  ASSUME setting.retries \in Nat
  PROVE  /\ Seed \in DAGExecutionState
         /\ \A n \in Nodes : Seed.state[n] \in {"pending", "ready"} /\ Seed.assignee[n] = None
<1> DEFINE e == [state |-> [n \in Nodes |-> "pending"], assignee |-> [n \in Nodes |-> None],
                 retries |-> [n \in Nodes |-> setting.retries]]
<1>1. e \in DAGExecutionState
  BY DEF DAGExecutionState, NodeStates
<1>2. \A n \in Nodes : e.state[n] = "pending" /\ e.assignee[n] = None
  OBVIOUS
<1>3. Seed = Promote(e)
  BY DEF Seed
<1> HIDE DEF e
<1> QED
  BY <1>1, <1>2, <1>3, PromoteFacts

\* A put of a sub-quest comes last in the feed.
LEMMA EmitFacts ==
  ASSUME TypeOK, NEW n \in Nodes, NEW rec \in SubQuest, EmitSubQuest(n, rec)
  PROVE  /\ sub' \in [Nodes -> SubQuest]
         /\ sub'[n] = rec
         /\ \A k \in Nodes \ {n} : sub'[k] = sub[k]
         /\ feed' \in Seq(Event)
         /\ Len(feed) \in Nat /\ Len(feed') = Len(feed) + 1
         /\ \A i \in 1 .. Len(feed) : feed'[i] = feed[i]
         /\ feed'[Len(feed')].node = n
         /\ feed'[Len(feed')].status = rec.status
         /\ feed'[Len(feed')].defeat = rec.defeat
<1> DEFINE e == [node |-> n, status |-> rec.status, defeat |-> rec.defeat]
<1>1. e \in Event /\ e.node = n /\ e.status = rec.status /\ e.defeat = rec.defeat
  BY DEF Event, SubQuest
<1>2. feed \in Seq(Event) /\ feed' = Append(feed, e)
  BY DEF TypeOK, EmitSubQuest
<1>3. sub' = [sub EXCEPT ![n] = rec] /\ sub \in [Nodes -> SubQuest]
  BY DEF TypeOK, EmitSubQuest
<1> HIDE DEF e
<1>4. /\ feed' \in Seq(Event) /\ Len(feed') = Len(feed) + 1
      /\ \A i \in 1 .. Len(feed) : feed'[i] = feed[i]
      /\ feed'[Len(feed) + 1] = e
  BY <1>1, <1>2, AppendProperties
<1>5. Len(feed) \in Nat
  BY <1>2, LenProperties
<1> QED
  BY <1>1, <1>3, <1>4, <1>5

\* Handing out the first event of the feed.
LEMMA HandOutFacts ==
  ASSUME TypeOK, feed # <<>>, feed' = Tail(feed)
  PROVE  /\ Head(feed) = feed[1] /\ feed[1] \in Event
         /\ feed' \in Seq(Event)
         /\ Len(feed) \in Nat \ {0} /\ Len(feed') = Len(feed) - 1
         /\ \A i \in 1 .. Len(feed') : feed'[i] = feed[i + 1]
<1>1. feed \in Seq(Event)
  BY DEF TypeOK
<1>2. Len(feed) \in Nat \ {0}
  BY <1>1, EmptySeq
<1>3. Head(feed) = feed[1] /\ feed[1] \in Event
  BY <1>1, <1>2, ElementOfSeq
<1> QED
  BY <1>1, <1>2, <1>3, HeadTailProperties

LEMMA NodesFinite == IsFiniteSet(Nodes)
BY DagAssumption, FS_Interval DEF Nodes

LEMMA ListFacts ==
  ASSUME NEW S, IsFiniteSet(S)
  PROVE  /\ SetToSeq(S) \in Seq(S)
         /\ Len(SetToSeq(S)) = Cardinality(S)
<1>1. Cardinality(S) \in Nat /\ ExistsBijection(1 .. Cardinality(S), S)
  BY FS_CardinalityType
<1>2. \E f \in [1 .. Cardinality(S) -> S] : IsInjective(f)
  BY <1>1 DEF ExistsBijection, Bijection, Injection
<1>3. SetToSeq(S) \in [1 .. Cardinality(S) -> S]
  BY <1>2 DEF SetToSeq
<1>4. SetToSeq(S) \in Seq(S)
  BY <1>1, <1>3, SeqDef
<1>5. Len(SetToSeq(S)) \in Nat /\ DOMAIN SetToSeq(S) = 1 .. Len(SetToSeq(S))
  BY <1>4, LenProperties
<1> QED
  BY <1>1, <1>3, <1>4, <1>5

-----------------------------------------------------------------------------
(* The types, and the plan of the handler at work.                         *)

NewPlan(s) == Ordinary(s) \/ GivingUp(s) \/ Delivering(s)

LEMMA NewPlanFacts ==
  ASSUME NEW s, NewPlan(s)
  PROVE  /\ s \in Seq(Steps) /\ s # <<>> /\ Plan(s)
         /\ Len(s) \in Nat \ {0} /\ s[1] \in Steps
         /\ s[1].op # "metrics"
<1>1. s \in Seq(Steps) /\ s # <<>> /\ Plan(s)
  BY DEF NewPlan, Ordinary, GivingUp, Delivering
<1>2. Len(s) \in Nat \ {0}
  BY <1>1, EmptySeq
<1>3. 1 \in 1 .. Len(s)
  BY <1>2
<1>4. s[1] \in Steps
  BY <1>1, <1>3, ElementOfSeq
<1>5. s[1].op # "metrics"
  BY <1>3 DEF NewPlan, Ordinary, GivingUp, Delivering
<1> QED
  BY <1>1, <1>2, <1>4, <1>5

LEMMA NoPlan == <<>> \in Seq(Steps) /\ Plan(<<>>)
<1>1. <<>> \in Seq(Steps) /\ Len(<<>>) = 0
  BY EmptySeq
<1> QED
  BY <1>1 DEF Plan

\* An idle loop takes up a new plan, or none.
LEMMA TakesUp ==
  ASSUME Shape, Idle, (NewPlan(todo') /\ dag' # None) \/ todo' = <<>>, UNCHANGED rollup
  PROVE  todo' \in Seq(Steps) /\ Routine'
<1>1. rollup = None
  BY DEF Shape, Routine, Idle
<1>2. CASE NewPlan(todo') /\ dag' # None
  BY <1>1, <1>2, NewPlanFacts DEF Routine
<1>3. CASE todo' = <<>>
  <2>1. todo' \in Seq(Steps) /\ Plan(todo')
    BY <1>3, NoPlan
  <2> QED
    BY <1>1, <1>3, <2>1 DEF Routine
<1> QED
  BY <1>2, <1>3

\* A handler at work does its first step, and goes on.
LEMMA GoesOn ==
  ASSUME Shape, NEW op, op # "metrics", Doing(op), todo' = Tail(todo), UNCHANGED rollup,
         dag' # None \/ op = "forget"
  PROVE  todo' \in Seq(Steps) /\ Routine'
<1>1. todo \in Seq(Steps) /\ todo # <<>> /\ Plan(todo)
  BY DEF Shape, TypeOK, Routine, Doing, Idle, Steps
<1>2. /\ todo' \in Seq(Steps) /\ Plan(todo')
      /\ todo' # <<>> => todo'[1].op \in {"assign", "escalate", "submit", "persist", "forget"}
      /\ todo[1].op = "forget" => todo' = <<>>
      /\ Head(todo) = todo[1]
  BY <1>1, PlanRest
<1>3. todo[1].op = op
  BY <1>2 DEF Doing
<1>4. rollup = None
  BY <1>3 DEF Shape, Routine
<1> QED
  BY <1>2, <1>3, <1>4 DEF Routine

LEMMA AtWork ==
  ASSUME Shape, NEW op, Doing(op)
  PROVE  /\ todo \in Seq(Steps) /\ todo # <<>> /\ Len(todo) \in Nat \ {0}
         /\ Head(todo) = todo[1] /\ todo[1] \in Steps /\ todo[1].op = op /\ todo[1].node \in Nodes
         /\ dag \in DAGExecutionState
         /\ op # "metrics" => rollup = None
         /\ op = "metrics" => rollup # None
<1>1. todo \in Seq(Steps) /\ todo # <<>> /\ Plan(todo)
  BY DEF Shape, TypeOK, Routine, Doing, Idle, Steps
<1>2. Head(todo) = todo[1] /\ todo[1] \in Steps
  BY <1>1, PlanRest
<1>3. Len(todo) \in Nat \ {0}
  BY <1>1, EmptySeq
<1> QED
  BY <1>1, <1>2, <1>3 DEF Shape, TypeOK, Routine, Doing, Steps

LEMMA ElsewhereRoutine ==
  ASSUME Shape, UNCHANGED <<todo, rollup>>, dag' = dag \/ dag' # None \/ todo = <<>>
  PROVE  Routine'
BY DEF Shape, Routine, Plan

\* Node n waits for a member again.
Reopened(n) ==
  /\ dag' \in DAGExecutionState
  /\ dag'.state[n] \in {"pending", "ready"}
  /\ \A k \in Nodes \ {n} : \/ dag'.state[k] = dag.state[k]
                            \/ dag.state[k] = "pending" /\ dag'.state[k] = "ready"
  /\ dag'.assignee[n] = None
  /\ \A k \in Nodes \ {n} : dag'.assignee[k] = dag.assignee[k]

\* Node n comes to the state s.
Moved(n, s) ==
  /\ dag' \in DAGExecutionState
  /\ dag'.state[n] = s
  /\ \A k \in Nodes \ {n} : dag'.state[k] = dag.state[k]
  /\ dag'.assignee = dag.assignee

LEMMA MovedFacts ==
  ASSUME dag \in DAGExecutionState, NEW n \in Nodes, NEW s \in NodeStates,
         dag' = SetNode(dag, n, s)
  PROVE  Moved(n, s)
BY SetNodeFacts DEF Moved

LEMMA BecomesEffect ==
  ASSUME dag \in DAGExecutionState, NEW n \in Nodes, NEW s \in NodeStates, Becomes(dag, n, s)
  PROVE  Moved(n, s) /\ Ordinary(todo') /\ todo' = <<Do("persist", n)>>
BY MovedFacts, PlanPersist DEF Becomes

LEMMA NodeFailedEffect ==
  ASSUME dag \in DAGExecutionState, setting \in [fault : Faults, triage : BOOLEAN, retries : Nat],
         NEW n \in Nodes, HandleNodeFailed(dag, n)
  PROVE  \/ /\ Reopened(n) /\ Ordinary(todo')
            /\ todo' = <<Do("repost", n), Do("assign", n), Do("persist", n)>>
         \/ /\ Moved(n, "pending_triage") /\ Ordinary(todo')
            /\ todo' = <<Do("triage", n), Do("persist", n)>>
         \/ Moved(n, "failed") /\ GivingUp(todo')
<1>1. CASE dag.retries[n] > 0
  <2> DEFINE e == [dag EXCEPT !.retries[n] = @ - 1]
  <2>1. e \in DAGExecutionState /\ e.state = dag.state /\ e.assignee = dag.assignee
    BY <1>1 DEF DAGExecutionState
  <2>2. dag' = Reopen(e, n) /\ todo' = <<Do("repost", n), Do("assign", n), Do("persist", n)>>
    BY <1>1 DEF HandleNodeFailed
  <2> HIDE DEF e
  <2>3. Reopened(n)
    BY <2>1, <2>2, ReopenFacts DEF Reopened
  <2> QED
    BY <2>2, <2>3, PlanRepost
<1>2. CASE ~(dag.retries[n] > 0) /\ setting.triage
  <2>1. /\ dag' = SetNode(dag, n, "pending_triage")
        /\ todo' = <<Do("triage", n), Do("persist", n)>>
    BY <1>2 DEF HandleNodeFailed
  <2> QED
    BY <2>1, MovedFacts, PlanTriage DEF NodeStates
<1>3. CASE ~(dag.retries[n] > 0) /\ ~setting.triage
  <2>1. /\ dag' = SetNode(dag, n, "failed")
        /\ todo' = Append(EscalateSteps(n), Do("persist", n))
    BY <1>3 DEF HandleNodeFailed
  <2>2. GivingUp(todo')
    BY <2>1, PlanEscalate
  <2> QED
    BY <2>1, <2>2, MovedFacts DEF NodeStates
<1> QED
  BY <1>1, <1>2, <1>3

LEMMA TriageTerminalEffect ==
  ASSUME dag \in DAGExecutionState, NEW n \in Nodes, HandleTriageTerminal(dag, n)
  PROVE  Moved(n, "failed") /\ GivingUp(todo')
<1>1. /\ dag' = SetNode(dag, n, "failed")
      /\ todo' = Append(EscalateSteps(n), Do("persist", n))
  BY DEF HandleTriageTerminal
<1>2. GivingUp(todo')
  BY <1>1, PlanEscalate
<1> QED
  BY <1>1, <1>2, MovedFacts DEF NodeStates

\* A node completes; as the last of all it leads to the synthesis or to the submission.
LEMMA NodeCompletedEffect ==
  ASSUME dag \in DAGExecutionState, synthesis \in Nat, mishaps \in 0 .. MishapBound,
         NEW n \in Nodes, HandleNodeCompleted(dag, n)
  PROVE  /\ dag' \in DAGExecutionState
         /\ dag'.state[n] = "completed" /\ dag'.assignee = dag.assignee
         /\ \A k \in Nodes \ {n} : \/ dag'.state[k] = dag.state[k]
                                   \/ dag.state[k] = "pending" /\ dag'.state[k] = "ready"
         /\ \/ /\ \A k \in Nodes : dag'.state[k] = "completed"
               /\ \/ todo' = <<Do("persist", n)>> /\ Ordinary(todo') /\ synthesis' = synthesis + 1
                  \/ Delivering(todo') /\ synthesis' = synthesis
            \/ /\ todo' = <<Do("assign", n), Do("persist", n)>> /\ Ordinary(todo')
               /\ synthesis' = synthesis
         /\ mishaps' \in 0 .. MishapBound /\ (mishaps' = mishaps \/ mishaps' = mishaps + 1)
<1> DEFINE done == SetNode(dag, n, "completed")
<1>1. /\ done \in DAGExecutionState /\ done.state[n] = "completed"
      /\ \A k \in Nodes \ {n} : done.state[k] = dag.state[k]
      /\ done.assignee = dag.assignee
  BY SetNodeFacts DEF NodeStates
<1>2. CASE IsDAGComplete(done)
  <2>1. dag' = done /\ DispatchLeadSynthesis(n)
    BY <1>2 DEF HandleNodeCompleted
  <2>2. \A k \in Nodes : done.state[k] = "completed"
    BY <1>2 DEF IsDAGComplete
  <2> HIDE DEF done
  <2>3. \/ synthesis' = synthesis + 1 /\ todo' = <<Do("persist", n)>> /\ mishaps' = mishaps
        \/ /\ todo' = RollupSteps(n) \o <<Do("persist", n), Do("forget", n)>>
           /\ synthesis' = synthesis /\ mishaps' = mishaps + 1 /\ mishaps < MishapBound
    BY <2>1 DEF DispatchLeadSynthesis, Mishap
  <2>4. mishaps' \in 0 .. MishapBound
    BY <2>3, DagAssumption
  <2> QED
    BY <1>1, <2>1, <2>2, <2>3, <2>4, PlanPersist, PlanSubmitPersist
<1>3. CASE ~IsDAGComplete(done)
  <2>1. /\ dag' = Promote(done) /\ todo' = <<Do("assign", n), Do("persist", n)>>
        /\ UNCHANGED <<synthesis, mishaps>>
    BY <1>3 DEF HandleNodeCompleted
  <2> HIDE DEF done
  <2> QED
    BY <1>1, <2>1, PromoteFacts, PlanAssign
<1> QED
  BY <1>2, <1>3

LEMMA IdleDag ==
  ASSUME Shape, dag # None
  PROVE  dag \in DAGExecutionState
BY DEF Shape, TypeOK

LEMMA ResultType ==
  ASSUME TypeOK, NEW kind \in {"review", "clarify"}, NEW n \in Nodes, Result(kind, n)
  PROVE  leads' \in [LeadLoops -> Nat] /\ mishaps' \in 0 .. MishapBound
<1> DEFINE l == [kind |-> kind, node |-> n]
<1>1. l \in LeadLoops
  BY DEF LeadLoops
<1>2. leads \in [LeadLoops -> Nat] /\ mishaps \in 0 .. MishapBound
  BY DEF TypeOK
<1>3. \/ leads' = [leads EXCEPT ![l] = @ - 1] /\ leads[l] > 0 /\ mishaps' = mishaps
      \/ leads' = leads /\ mishaps < MishapBound /\ mishaps' = mishaps + 1
  BY DEF Result, Mishap
<1> HIDE DEF l
<1> QED
  BY <1>1, <1>2, <1>3, DagAssumption

LEMMA DispatchType ==
  ASSUME TypeOK, NEW kind \in {"review", "clarify"}, NEW n \in Nodes, Dispatch(kind, n)
  PROVE  leads' \in [LeadLoops -> Nat] /\ mishaps' \in 0 .. MishapBound
<1> DEFINE l == [kind |-> kind, node |-> n]
<1>1. l \in LeadLoops
  BY DEF LeadLoops
<1>2. leads \in [LeadLoops -> Nat] /\ mishaps \in 0 .. MishapBound
  BY DEF TypeOK
<1>3. \/ leads' = [leads EXCEPT ![l] = @ + 1] /\ mishaps' = mishaps
      \/ leads' = leads /\ mishaps < MishapBound /\ mishaps' = mishaps + 1
  BY DEF Dispatch, Mishap
<1> HIDE DEF l
<1> QED
  BY <1>1, <1>2, <1>3, DagAssumption

LEMMA MishapType ==
  ASSUME TypeOK, NEW kind, Mishap(kind)
  PROVE  mishaps' \in 0 .. MishapBound
BY DagAssumption DEF TypeOK, Mishap

LEMMA OnDAGEntryShape ==
  ASSUME Shape, OnDAGEntry
  PROVE  Shape'
<1>1. dag' \in DAGExecutionState /\ dag' # None
  BY SeedFacts, NoneAssumption DEF OnDAGEntry, Shape, TypeOK
<1>2. NewPlan(todo')
  BY OneIsNode, PlanAssign DEF OnDAGEntry, NewPlan
<1>3. todo' \in Seq(Steps) /\ Routine'
  BY <1>1, <1>2, TakesUp DEF OnDAGEntry
<1> QED
  BY <1>1, <1>3 DEF OnDAGEntry, Shape, TypeOK, entities, loops, around, Steps

\* What a status that the loop has not seen last makes of the DAG.
LEMMA TransitionShape ==
  ASSUME Shape, NEW e \in Event, dag # None, HandleSubQuestTransition(e)
  PROVE  /\ dag' \in DAGExecutionState
         /\ NewPlan(todo')
         /\ leads' \in [LeadLoops -> Nat] /\ synthesis' \in Nat /\ mishaps' \in 0 .. MishapBound
<1> DEFINE n == e.node
<1>1. n \in Nodes /\ dag \in DAGExecutionState
  BY IdleDag DEF Event
<1>2. /\ leads \in [LeadLoops -> Nat] /\ synthesis \in Nat /\ mishaps \in 0 .. MishapBound
      /\ setting \in [fault : Faults, triage : BOOLEAN, retries : Nat] /\ TypeOK
  BY DEF Shape, TypeOK
<1>3. \A s \in NodeStates : Becomes(dag, n, s) => dag' \in DAGExecutionState /\ NewPlan(todo')
  BY <1>1, BecomesEffect DEF Moved, NewPlan
<1>4. HandleNodeFailed(dag, n) => dag' \in DAGExecutionState /\ NewPlan(todo')
  BY <1>1, <1>2, NodeFailedEffect DEF Moved, Reopened, NewPlan
<1>5. HandleTriageTerminal(dag, n) => dag' \in DAGExecutionState /\ NewPlan(todo')
  BY <1>1, TriageTerminalEffect DEF Moved, NewPlan
<1>6. HandleNodeCompleted(dag, n) =>
         dag' \in DAGExecutionState /\ NewPlan(todo') /\ synthesis' \in Nat
           /\ mishaps' \in 0 .. MishapBound
  BY <1>1, <1>2, NodeCompletedEffect DEF NewPlan
<1>7. DispatchLeadReview(n) \/ DispatchLeadClarification(n) =>
         leads' \in [LeadLoops -> Nat] /\ mishaps' \in 0 .. MishapBound
  BY <1>1, <1>2, DispatchType DEF DispatchLeadReview, DispatchLeadClarification
<1>8. dag' = Reopen(dag, n) => dag' \in DAGExecutionState
  BY <1>1, ReopenFacts
<1>9. /\ todo' = <<Do("assign", n), Do("persist", n)>> => NewPlan(todo')
      /\ todo' = <<Do("persist", n)>> => NewPlan(todo')
  BY <1>1, PlanAssign, PlanPersist DEF NewPlan
<1> QED
  BY <1>1, <1>2, <1>3, <1>4, <1>5, <1>6, <1>7, <1>8, <1>9
     DEF HandleSubQuestTransition, NodeStates, loops

LEMMA OnSubQuestTransitionShape ==
  ASSUME Shape, OnSubQuestTransition
  PROVE  Shape'
<1>1. Head(feed) \in Event /\ feed' \in Seq(Event)
  BY HandOutFacts DEF OnSubQuestTransition, Shape
<1> DEFINE e == Head(feed)
<1>2. questCache' \in [Nodes -> QuestStatuses]
  BY <1>1 DEF OnSubQuestTransition, Shape, TypeOK, Event
<1>3. CASE questCache[e.node] = e.status \/ dag = None
  <2>1. UNCHANGED <<dag, todo, loops, mishaps>>
    BY <1>3 DEF OnSubQuestTransition
  <2>2. Routine'
    BY <2>1, ElsewhereRoutine DEF OnSubQuestTransition
  <2> QED
    BY <1>1, <1>2, <2>1, <2>2 DEF OnSubQuestTransition, Shape, TypeOK, loops
<1>4. CASE ~(questCache[e.node] = e.status \/ dag = None)
  <2>1. HandleSubQuestTransition(e) /\ dag # None
    BY <1>4 DEF OnSubQuestTransition
  <2> HIDE DEF e
  <2>2. /\ dag' \in DAGExecutionState /\ NewPlan(todo')
        /\ leads' \in [LeadLoops -> Nat] /\ synthesis' \in Nat /\ mishaps' \in 0 .. MishapBound
    BY <1>1, <2>1, TransitionShape DEF e
  <2>3. todo' \in Seq(Steps) /\ Routine'
    BY <2>2, TakesUp, NoneAssumption DEF OnSubQuestTransition
  <2> QED
    BY <1>1, <1>2, <2>2, <2>3 DEF OnSubQuestTransition, Shape, TypeOK, Steps
<1> QED
  BY <1>3, <1>4

\* A put of another status.
LEMMA StatusPut ==
  ASSUME TypeOK, NEW n \in Nodes, NEW s \in QuestStatuses
  PROVE  /\ [sub[n] EXCEPT !.status = s] \in SubQuest
         /\ [sub[n] EXCEPT !.status = s].status = s
         /\ [sub[n] EXCEPT !.status = s].holder = sub[n].holder
         /\ [sub[n] EXCEPT !.status = s].defeat = sub[n].defeat
<1>1. sub[n] \in SubQuest
  BY DEF TypeOK
<1> QED
  BY <1>1 DEF SubQuest

LEMMA DropResultShape ==
  ASSUME Shape, NEW kind \in {"review", "clarify"}, NEW n \in Nodes, DropResult(kind, n)
  PROVE  Shape'
<1>1. leads' \in [LeadLoops -> Nat] /\ mishaps' \in 0 .. MishapBound
  BY ResultType DEF DropResult, Shape
<1>2. UNCHANGED <<todo, rollup, dag>>
  BY DEF DropResult, memory
<1>3. Routine'
  BY <1>2, ElsewhereRoutine
<1> QED
  BY <1>1, <1>3 DEF DropResult, Shape, TypeOK, entities, memory

LEMMA OnReviewCompletedShape ==
  ASSUME Shape, NEW n \in Nodes, OnReviewCompleted(n)
  PROVE  Shape'
<1>1. leads' \in [LeadLoops -> Nat] /\ mishaps' \in 0 .. MishapBound
  BY ResultType DEF OnReviewCompleted, Shape
<1>2. PICK verdict \in {"completed", "failed"} :
        EmitSubQuest(n, [sub[n] EXCEPT !.status = verdict])
  BY DEF OnReviewCompleted
<1>3. [sub[n] EXCEPT !.status = verdict] \in SubQuest
  BY StatusPut DEF Shape, QuestStatuses
<1>4. sub' \in [Nodes -> SubQuest] /\ feed' \in Seq(Event)
  BY <1>2, <1>3, EmitFacts DEF Shape
<1>5. UNCHANGED <<todo, rollup, dag>>
  BY DEF OnReviewCompleted, memory
<1>6. Routine'
  BY <1>5, ElsewhereRoutine
<1> QED
  BY <1>1, <1>4, <1>6 DEF OnReviewCompleted, Shape, TypeOK, memory

LEMMA OnReviewFailedShape ==
  ASSUME Shape, NEW n \in Nodes, OnReviewFailed(n)
  PROVE  Shape'
<1> DEFINE l == [kind |-> "review", node |-> n]
<1>1. l \in LeadLoops
  BY DEF LeadLoops
<1>2. dag \in DAGExecutionState /\ dag # None
  BY IdleDag DEF OnReviewFailed
<1>3. CASE n \notin reviewRetries
  <2>1. /\ reviewRetries' = reviewRetries \cup {n} /\ UNCHANGED <<dag, todo, rollup>>
        /\ leads[l] > 0
        /\ \/ UNCHANGED <<leads, mishaps>>
           \/ Mishap("publish") /\ leads' = [leads EXCEPT ![l] = @ - 1]
           \/ Mishap("duplicate") /\ leads' = [leads EXCEPT ![l] = @ + 1]
    BY <1>3 DEF OnReviewFailed
  <2>2. leads \in [LeadLoops -> Nat] /\ mishaps \in 0 .. MishapBound
    BY DEF Shape, TypeOK
  <2> HIDE DEF l
  <2>3. leads' \in [LeadLoops -> Nat]
    BY <1>1, <2>1, <2>2
  <2>4. mishaps' \in 0 .. MishapBound
    BY <2>1, <2>2, MishapType DEF Shape
  <2>5. Routine'
    BY <2>1, ElsewhereRoutine
  <2> QED
    BY <2>1, <2>3, <2>4, <2>5 DEF OnReviewFailed, Shape, TypeOK, entities
<1>4. CASE n \in reviewRetries
  <2>1. Result("review", n) /\ HandleNodeFailed(dag, n) /\ UNCHANGED reviewRetries
    BY <1>4 DEF OnReviewFailed
  <2>2. leads' \in [LeadLoops -> Nat] /\ mishaps' \in 0 .. MishapBound
    BY <2>1, ResultType DEF Shape
  <2>3. setting \in [fault : Faults, triage : BOOLEAN, retries : Nat]
    BY DEF Shape, TypeOK
  <2>4. dag' \in DAGExecutionState /\ NewPlan(todo')
    BY <1>2, <2>1, <2>3, NodeFailedEffect DEF Moved, Reopened, NewPlan
  <2>5. todo' \in Seq(Steps) /\ Routine'
    BY <2>1, <2>4, TakesUp, NoneAssumption DEF OnReviewFailed, Result
  <2> QED
    BY <2>1, <2>2, <2>4, <2>5 DEF OnReviewFailed, Shape, TypeOK, entities, Steps
<1> QED
  BY <1>3, <1>4

LEMMA OnClarificationAnsweredShape ==
  ASSUME Shape, NEW n \in Nodes, OnClarificationAnswered(n)
  PROVE  Shape'
<1>1. leads' \in [LeadLoops -> Nat] /\ mishaps' \in 0 .. MishapBound
  BY ResultType DEF OnClarificationAnswered, Shape
<1>2. [sub[n] EXCEPT !.status = "in_progress"] \in SubQuest
  BY StatusPut DEF Shape, QuestStatuses
<1>3. sub' \in [Nodes -> SubQuest] /\ feed' \in Seq(Event)
  BY <1>2, EmitFacts DEF Shape, OnClarificationAnswered
<1>4. dag' \in DAGExecutionState /\ NewPlan(todo')
  BY IdleDag, BecomesEffect DEF OnClarificationAnswered, Moved, NewPlan, NodeStates
<1>5. todo' \in Seq(Steps) /\ Routine'
  BY <1>4, TakesUp, NoneAssumption DEF OnClarificationAnswered, Result
<1> QED
  BY <1>1, <1>3, <1>4, <1>5 DEF OnClarificationAnswered, Shape, TypeOK, Steps

LEMMA OnClarificationFailedShape ==
  ASSUME Shape, NEW n \in Nodes, OnClarificationFailed(n)
  PROVE  Shape'
<1> DEFINE l == [kind |-> "clarify", node |-> n]
<1>1. l \in LeadLoops
  BY DEF LeadLoops
<1>2. leads \in [LeadLoops -> Nat] /\ mishaps' \in 0 .. MishapBound
  BY MishapType DEF Shape, TypeOK, OnClarificationFailed
<1>3. leads[l] > 0 /\ leads' = [leads EXCEPT ![l] = @ - 1]
  BY DEF OnClarificationFailed
<1> HIDE DEF l
<1>4. leads' \in [LeadLoops -> Nat]
  BY <1>1, <1>2, <1>3
<1>5. dag' \in DAGExecutionState /\ NewPlan(todo')
  BY IdleDag, BecomesEffect DEF OnClarificationFailed, Moved, NewPlan, NodeStates
<1>6. todo' \in Seq(Steps) /\ Routine'
  BY <1>5, TakesUp, NoneAssumption DEF OnClarificationFailed
<1> QED
  BY <1>2, <1>4, <1>5, <1>6 DEF OnClarificationFailed, Shape, TypeOK, Steps, entities

LEMMA OnSynthesisEndedShape ==
  ASSUME Shape, OnSynthesisEnded
  PROVE  Shape'
<1>1. synthesis' \in Nat /\ mishaps' \in 0 .. MishapBound
  <2>1. CASE synthesis' = synthesis - 1 /\ UNCHANGED mishaps
    BY <2>1 DEF OnSynthesisEnded, Shape, TypeOK
  <2>2. CASE Mishap("duplicate") /\ UNCHANGED synthesis
    BY <2>2, MishapType DEF Shape, TypeOK
  <2> QED
    BY <2>1, <2>2 DEF OnSynthesisEnded
<1>2. (NewPlan(todo') /\ dag' # None) \/ todo' = <<>>
  BY OneIsNode, PlanSubmit DEF OnSynthesisEnded, NewPlan
<1>3. todo' \in Seq(Steps) /\ Routine'
  BY <1>2, TakesUp DEF OnSynthesisEnded
<1> QED
  BY <1>1, <1>3 DEF OnSynthesisEnded, Shape, TypeOK, Steps, entities

LEMMA GiveUpDagPlan == GivingUp(GiveUpDag)
BY OneIsNode, PlanEscalate DEF GiveUpDag

LEMMA OnDAGTimedOutShape ==
  ASSUME Shape, OnDAGTimedOut
  PROVE  Shape'
<1>1. NewPlan(todo') /\ dag' # None
  BY GiveUpDagPlan DEF OnDAGTimedOut, NewPlan
<1>2. todo' \in Seq(Steps) /\ Routine'
  BY <1>1, TakesUp DEF OnDAGTimedOut
<1> QED
  BY <1>2 DEF OnDAGTimedOut, Shape, TypeOK, Steps, entities, loops, around

LEMMA OnDAGCancelledShape ==
  ASSUME Shape, OnDAGCancelled
  PROVE  Shape'
<1>1. (NewPlan(todo') /\ dag' # None) \/ todo' = <<>>
  BY GiveUpDagPlan DEF OnDAGCancelled, NewPlan
<1>2. todo' \in Seq(Steps) /\ Routine'
  BY <1>1, TakesUp DEF OnDAGCancelled
<1> QED
  BY <1>2 DEF OnDAGCancelled, Shape, TypeOK, Steps, entities, loops

LEMMA LeastNode ==
  ASSUME NEW T \in SUBSET Nodes, T # {}
  PROVE  \E n \in T : \A k \in T : ~(k < n)
<1> DEFINE R == OpToRel(<, Nat)
<1>1. IsWellFoundedOn(R, Nat)
  BY NatLessThanWellFounded
<1>2. T \subseteq Nat
  BY DagAssumption DEF Nodes
<1>3. \A j, k \in Nat : j < k => <<j, k>> \in R
  BY DEF OpToRel
<1> HIDE DEF R
<1>4. PICK n \in T : \A k \in T : <<k, n>> \notin R
  BY <1>1, <1>2, WFMin
<1> QED
  BY <1>2, <1>3, <1>4

LEMMA FirstReadyFacts ==
  ASSUME NEW d, {n \in Nodes : d.state[n] = "ready"} # {}
  PROVE  FirstReady(d) \in Nodes /\ d.state[FirstReady(d)] = "ready"
<1> DEFINE T == {n \in Nodes : d.state[n] = "ready"}
<1>1. PICK n \in T : \A k \in T : ~(k < n)
  BY LeastNode
<1>2. n \in Nat /\ n \in Nodes /\ NodeCount \in Nat
  BY DagAssumption DEF Nodes
<1>3. \A k \in 1 .. n - 1 : k \in Nodes /\ k < n
  BY <1>2 DEF Nodes
<1>4. d.state[n] = "ready" /\ \A k \in 1 .. n - 1 : d.state[k] # "ready"
  BY <1>1, <1>3
<1> QED
  BY <1>2, <1>4 DEF FirstReady

\* The ready node and the member that Assign takes.
LEMMA AssignEffect ==
  ASSUME Shape, Assign, ~UNCHANGED <<sub, feed, dag>>
  PROVE  \E n \in Nodes, m \in Members :
           /\ dag.state[n] = "ready" /\ m \notin AlreadyAssigned(dag) /\ Claimable(n) /\ party
           /\ [sub[n] EXCEPT !.status = "in_progress", !.holder = m, !.attempts = @ + 1]
                \in SubQuest
           /\ EmitSubQuest(n, [sub[n] EXCEPT !.status = "in_progress", !.holder = m,
                                             !.attempts = @ + 1])
           /\ dag' \in DAGExecutionState
           /\ dag'.state[n] = "assigned" /\ dag'.assignee[n] = m
           /\ \A k \in Nodes \ {n} : /\ dag'.state[k] = dag.state[k]
                                     /\ dag'.assignee[k] = dag.assignee[k]
           /\ UNCHANGED todo
<1> DEFINE ready == {k \in Nodes : dag.state[k] = "ready"}
           n == FirstReady(dag)
           able == party /\ ready # {} /\ SelectMember(dag, n) # {} /\ Claimable(n)
<1>1. /\ able /\ UNCHANGED todo
      /\ \E m \in SelectMember(dag, n) :
           /\ EmitSubQuest(n, [sub[n] EXCEPT !.status = "in_progress", !.holder = m,
                                             !.attempts = @ + 1])
           /\ dag' = [dag EXCEPT !.state[n] = "assigned", !.assignee[n] = m]
  BY DEF Assign
<1>2. n \in Nodes /\ dag.state[n] = "ready"
  BY <1>1, FirstReadyFacts
<1>3. PICK m \in SelectMember(dag, n) :
           /\ EmitSubQuest(n, [sub[n] EXCEPT !.status = "in_progress", !.holder = m,
                                             !.attempts = @ + 1])
           /\ dag' = [dag EXCEPT !.state[n] = "assigned", !.assignee[n] = m]
  BY <1>1
<1>4. m \in Members /\ m \notin AlreadyAssigned(dag)
  BY <1>3 DEF SelectMember
<1>5. dag \in DAGExecutionState
  BY AtWork DEF Assign
<1>6. able
  BY <1>1
<1> HIDE DEF n, able
<1>7. [sub[n] EXCEPT !.status = "in_progress", !.holder = m, !.attempts = @ + 1] \in SubQuest
  <2>1. /\ sub[n] \in SubQuest
        /\ sub[n].attempts + 1 \in Nat
    BY <1>2 DEF Shape, TypeOK, SubQuest
  <2>2. "in_progress" \in QuestStatuses /\ m \in Members \cup {None}
    BY <1>4 DEF QuestStatuses
  <2> QED
    BY <2>1, <2>2 DEF SubQuest
<1>8. /\ dag' \in DAGExecutionState
      /\ dag'.state[n] = "assigned" /\ dag'.assignee[n] = m
      /\ \A k \in Nodes \ {n} : /\ dag'.state[k] = dag.state[k]
                                /\ dag'.assignee[k] = dag.assignee[k]
  BY <1>2, <1>3, <1>4, <1>5 DEF DAGExecutionState, NodeStates
<1> QED
  BY <1>1, <1>2, <1>3, <1>4, <1>6, <1>7, <1>8 DEF able

LEMMA AssignShape ==
  ASSUME Shape, Assign
  PROVE  Shape'
<1>1. UNCHANGED <<parent, saved, fresh, questCache, reviewRetries, party, rollup, loops, around>>
  BY DEF Assign
<1>2. CASE ~UNCHANGED <<sub, feed, dag>>
  <2>1. PICK n \in Nodes, m \in Members :
           /\ [sub[n] EXCEPT !.status = "in_progress", !.holder = m, !.attempts = @ + 1]
                \in SubQuest
           /\ EmitSubQuest(n, [sub[n] EXCEPT !.status = "in_progress", !.holder = m,
                                             !.attempts = @ + 1])
           /\ dag' \in DAGExecutionState /\ UNCHANGED todo
    BY <1>2, AssignEffect
  <2>2. sub' \in [Nodes -> SubQuest] /\ feed' \in Seq(Event)
    BY <2>1, EmitFacts DEF Shape
  <2>3. Routine'
    BY <1>1, <2>1, ElsewhereRoutine, NoneAssumption
  <2> QED
    BY <1>1, <2>1, <2>2, <2>3 DEF Shape, TypeOK, loops, around
<1>3. CASE UNCHANGED <<sub, feed, dag>>
  <2>1. CASE UNCHANGED todo
    <3>1. Routine'
      BY <1>1, <1>3, <2>1, ElsewhereRoutine
    <3> QED
      BY <1>1, <1>3, <2>1, <3>1 DEF Shape, TypeOK, loops, around
  <2>2. CASE todo' = Tail(todo)
    <3>1. dag' # None
      BY <1>3, AtWork, NoneAssumption DEF Assign
    <3>2. todo' \in Seq(Steps) /\ Routine'
      BY <1>1, <2>2, <3>1, GoesOn DEF Assign
    <3> QED
      BY <1>1, <1>3, <3>2 DEF Shape, TypeOK, loops, around, Steps
  <2> QED
    BY <2>1, <2>2 DEF Assign
<1> QED
  BY <1>2, <1>3

LEMMA RepostShape ==
  ASSUME Shape, Repost
  PROVE  Shape'
<1> DEFINE n == todo[1].node
<1>1. n \in Nodes /\ Head(todo) = todo[1] /\ dag \in DAGExecutionState
  BY AtWork DEF Repost
<1>2. EmitSubQuest(n, [sub[n] EXCEPT !.status = "posted", !.holder = None])
  BY <1>1 DEF Repost
<1> HIDE DEF n
<1>3. [sub[n] EXCEPT !.status = "posted", !.holder = None] \in SubQuest
  <2>1. sub[n] \in SubQuest
    BY <1>1 DEF Shape, TypeOK
  <2> QED
    BY <2>1 DEF SubQuest, QuestStatuses
<1>4. sub' \in [Nodes -> SubQuest] /\ feed' \in Seq(Event)
  BY <1>1, <1>2, <1>3, EmitFacts DEF Shape
<1>5. dag' # None
  BY <1>1, NoneAssumption DEF Repost
<1>6. todo' \in Seq(Steps) /\ Routine'
  BY <1>5, GoesOn DEF Repost
<1> QED
  BY <1>4, <1>6 DEF Repost, Shape, TypeOK, loops, around, Steps

LEMMA RouteNodeToTriageShape ==
  ASSUME Shape, RouteNodeToTriage
  PROVE  Shape'
<1> DEFINE n == todo[1].node
<1>1. n \in Nodes /\ Head(todo) = todo[1] /\ dag \in DAGExecutionState /\ rollup = None
  BY AtWork DEF RouteNodeToTriage
<1>2. UNCHANGED <<parent, saved, fresh, questCache, reviewRetries, party, rollup, loops, cancel,
                 setting>>
  BY DEF RouteNodeToTriage
<1>3. \/ /\ EmitSubQuest(n, [sub[n] EXCEPT !.status = "pending_triage"])
         /\ todo' = Tail(todo) /\ UNCHANGED <<dag, mishaps>>
      \/ Mishap("publish") /\ HandleTriageTerminal(dag, n) /\ UNCHANGED <<sub, feed>>
  BY <1>1 DEF RouteNodeToTriage
<1> HIDE DEF n
<1>4. CASE /\ EmitSubQuest(n, [sub[n] EXCEPT !.status = "pending_triage"])
           /\ todo' = Tail(todo) /\ UNCHANGED <<dag, mishaps>>
  <2>1. sub' \in [Nodes -> SubQuest] /\ feed' \in Seq(Event)
    BY <1>1, <1>4, StatusPut, EmitFacts DEF Shape, QuestStatuses
  <2>2. dag' # None
    BY <1>1, <1>4, NoneAssumption
  <2>3. todo' \in Seq(Steps) /\ Routine'
    BY <1>2, <1>4, <2>2, GoesOn DEF RouteNodeToTriage
  <2> QED
    BY <1>2, <1>4, <2>1, <2>3 DEF Shape, TypeOK, loops, Steps
<1>5. CASE Mishap("publish") /\ HandleTriageTerminal(dag, n) /\ UNCHANGED <<sub, feed>>
  <2>1. dag' \in DAGExecutionState /\ NewPlan(todo')
    BY <1>1, <1>5, TriageTerminalEffect DEF Moved, NewPlan
  <2>2. mishaps' \in 0 .. MishapBound
    BY <1>5, MishapType DEF Shape
  <2>3. todo' \in Seq(Steps) /\ Routine'
    BY <1>1, <1>2, <2>1, NewPlanFacts, NoneAssumption DEF Routine
  <2> QED
    BY <1>2, <1>5, <2>1, <2>2, <2>3 DEF Shape, TypeOK, loops, Steps
<1> QED
  BY <1>3, <1>4, <1>5

\* A step of Cleanup: one more node fails, or the rest of the plan follows.
LEMMA CleanupEffect ==
  ASSUME Shape, Cleanup
  PROVE  \/ /\ UNCHANGED todo
            /\ \E n \in Nodes :
                 /\ Moved(n, "failed")
                 /\ \/ UNCHANGED <<sub, feed>>
                    \/ /\ sub[n].status \in {"in_progress", "in_review"}
                       /\ [sub[n] EXCEPT !.status = "failed", !.defeat = FALSE] \in SubQuest
                       /\ EmitSubQuest(n, [sub[n] EXCEPT !.status = "failed", !.defeat = FALSE])
         \/ todo' = Tail(todo) /\ UNCHANGED <<sub, feed, dag>>
<1>1. dag \in DAGExecutionState
  BY AtWork DEF Cleanup
<1>2. ASSUME NEW n \in Nodes, dag' = SetNode(dag, n, "failed")
      PROVE  Moved(n, "failed")
  BY <1>1, <1>2, MovedFacts DEF NodeStates
<1>3. \A n \in Nodes : [sub[n] EXCEPT !.status = "failed", !.defeat = FALSE] \in SubQuest
  <2> TAKE n \in Nodes
  <2>1. sub[n] \in SubQuest
    BY DEF Shape, TypeOK
  <2> QED
    BY <2>1 DEF SubQuest, QuestStatuses
<1> QED
  BY <1>2, <1>3 DEF Cleanup

LEMMA CleanupShape ==
  ASSUME Shape, Cleanup
  PROVE  Shape'
<1>1. UNCHANGED <<parent, saved, fresh, questCache, reviewRetries, party, rollup, loops, around>>
  BY DEF Cleanup
<1>2. CASE todo' = Tail(todo) /\ UNCHANGED <<sub, feed, dag>>
  <2>1. dag' # None
    BY <1>2, AtWork, NoneAssumption DEF Cleanup
  <2>2. todo' \in Seq(Steps) /\ Routine'
    BY <1>1, <1>2, <2>1, GoesOn DEF Cleanup
  <2> QED
    BY <1>1, <1>2, <2>2 DEF Shape, TypeOK, loops, around, Steps
<1>3. ASSUME NEW n \in Nodes, UNCHANGED todo, Moved(n, "failed"),
             \/ UNCHANGED <<sub, feed>>
             \/ /\ [sub[n] EXCEPT !.status = "failed", !.defeat = FALSE] \in SubQuest
                /\ EmitSubQuest(n, [sub[n] EXCEPT !.status = "failed", !.defeat = FALSE])
      PROVE  Shape'
  <2>1. sub' \in [Nodes -> SubQuest] /\ feed' \in Seq(Event)
    <3>1. CASE UNCHANGED <<sub, feed>>
      BY <3>1 DEF Shape, TypeOK
    <3>2. CASE /\ [sub[n] EXCEPT !.status = "failed", !.defeat = FALSE] \in SubQuest
               /\ EmitSubQuest(n, [sub[n] EXCEPT !.status = "failed", !.defeat = FALSE])
      BY <3>2, EmitFacts DEF Shape
    <3> QED
      BY <1>3, <3>1, <3>2
  <2>2. dag' \in DAGExecutionState
    BY <1>3 DEF Moved
  <2>3. Routine'
    BY <1>1, <1>3, <2>2, ElsewhereRoutine, NoneAssumption
  <2> QED
    BY <1>1, <1>3, <2>1, <2>2, <2>3 DEF Shape, TypeOK, loops, around
<1> QED
  BY <1>2, <1>3, CleanupEffect

LEMMA EscalateParentShape ==
  ASSUME Shape, EscalateParent
  PROVE  Shape'
<1>1. dag' # None
  BY AtWork, NoneAssumption DEF EscalateParent
<1>2. todo' \in Seq(Steps) /\ Routine'
  BY <1>1, GoesOn DEF EscalateParent
<1>3. parent' \in QuestStatuses
  BY DEF EscalateParent, Shape, TypeOK, QuestStatuses
<1> QED
  BY <1>2, <1>3 DEF EscalateParent, Shape, TypeOK, loops, around, Steps

\* The copy of the parent is in hand exactly before it is put.
LEMMA TallyPlan ==
  ASSUME Shape, Doing("tally"), todo' = <<Do("metrics", 1)>> \o Tail(todo)
  PROVE  /\ todo' \in Seq(Steps) /\ Plan(todo') /\ todo' # <<>>
         /\ Len(todo') = Len(todo) /\ todo'[1].op = "metrics"
         /\ \A i \in 2 .. Len(todo) : todo'[i] = todo[i]
<1>1. /\ todo \in Seq(Steps) /\ todo # <<>> /\ Len(todo) \in Nat \ {0}
      /\ todo[1].op = "tally" /\ Plan(todo)
  BY AtWork DEF Shape, Routine
<1> DEFINE h == <<Do("metrics", 1)>>
<1>2. h \in Seq(Steps) /\ Len(h) = 1 /\ h[1].op = "metrics"
  BY OneIsNode, DoType DEF Ops
<1> HIDE DEF h
<1>3. /\ Tail(todo) \in Seq(Steps) /\ Len(Tail(todo)) = Len(todo) - 1
      /\ \A i \in 1 .. Len(Tail(todo)) : Tail(todo)[i] = todo[i + 1]
  BY <1>1, HeadTailProperties
<1>4. /\ todo' \in Seq(Steps) /\ Len(todo') = Len(h) + Len(Tail(todo))
      /\ \A i \in 1 .. Len(h) + Len(Tail(todo)) : todo'[i] =
           IF i <= Len(h) THEN h[i] ELSE Tail(todo)[i - Len(h)]
  BY <1>2, <1>3, ConcatProperties DEF h
<1>5. Len(todo') = Len(todo) /\ todo'[1].op = "metrics"
  BY <1>1, <1>2, <1>3, <1>4
<1>6. \A i \in 2 .. Len(todo) : todo'[i] = todo[i]
  <2> TAKE i \in 2 .. Len(todo)
  <2>1. i \in 1 .. Len(h) + Len(Tail(todo)) /\ ~(i <= Len(h)) /\ i - Len(h) = i - 1
    BY <1>1, <1>2, <1>3
  <2>2. i - 1 \in 1 .. Len(Tail(todo)) /\ (i - 1) + 1 = i
    BY <1>1, <1>3
  <2>3. todo'[i] = Tail(todo)[i - 1]
    BY <1>4, <2>1
  <2> QED
    BY <1>3, <2>2, <2>3
<1>7. todo' # <<>>
  BY <1>1, <1>5
<1>8. Plan(todo')
  <2>1. \A i \in 1 .. Len(todo) : i = 1 \/ i \in 2 .. Len(todo)
    BY <1>1
  <2>2. \A i \in 2 .. Len(todo) : i \in 1 .. Len(todo) /\ i + 1 \in 1 .. Len(todo) => i + 1 \in 2 .. Len(todo)
    BY <1>1
  <2>3. \A i, j \in 1 .. Len(todo') : j < i =>
       /\ todo'[i].op = "assign" => todo'[j].op = "repost"
       /\ todo'[i].op = "escalate" => todo'[j].op = "cleanup"
       /\ todo'[i].op = "submit" => todo'[j].op \in {"tally", "metrics"}
       /\ todo'[j].op # "forget"
    <3> TAKE i, j \in 1 .. Len(todo')
    <3> HAVE j < i
    <3>1. i \in 1 .. Len(todo) /\ j \in 1 .. Len(todo) /\ i \in 2 .. Len(todo)
      BY <1>1, <1>5
    <3>2. todo'[i] = todo[i]
      BY <1>6, <3>1
    <3>3. CASE j = 1
      <4>1. 1 \in 1 .. Len(todo) /\ 1 < i
        BY <1>1, <3>3
      <4>2. todo[i].op \notin {"assign", "escalate"}
        BY <1>1, <3>1, <4>1 DEF Plan
      <4> QED
        BY <1>5, <3>2, <3>3, <4>2
    <3>4. CASE j \in 2 .. Len(todo)
      <4>1. todo'[j] = todo[j]
        BY <1>6, <3>4
      <4> QED
        BY <1>1, <3>1, <3>2, <4>1 DEF Plan
    <3> QED
      BY <2>1, <3>1, <3>3, <3>4
  <2>4. \A i \in 2 .. Len(todo') :
          todo'[i].op \in {"assign", "escalate", "submit", "persist", "forget"}
    BY <1>1, <1>5, <1>6 DEF Plan
  <2>5. \A i \in 1 .. Len(todo') : todo'[i].op # "cleanup"
    BY <1>5, <2>1, <2>4
  <2> QED
    BY <2>3, <2>4, <2>5 DEF Plan
<1> QED
  BY <1>4, <1>5, <1>6, <1>7, <1>8

LEMMA ReadForMetricsShape ==
  ASSUME Shape, ReadForMetrics
  PROVE  Shape'
<1>1. dag \in DAGExecutionState /\ UNCHANGED dag /\ dag' # None
  BY AtWork, NoneAssumption DEF ReadForMetrics
<1>2. CASE rollup' = [parent |-> parent, saved |-> saved] /\ todo' = <<Do("metrics", 1)>> \o Tail(todo)
  <2>1. rollup' \in ParentCopy /\ rollup' # None
    BY <1>2, NoneAssumption DEF ParentCopy, Shape, TypeOK
  <2>2. todo' \in Seq(Steps) /\ Plan(todo') /\ todo' # <<>> /\ todo'[1].op = "metrics"
    BY <1>2, TallyPlan DEF ReadForMetrics
  <2>3. Routine'
    BY <1>1, <2>1, <2>2 DEF Routine
  <2> QED
    BY <2>1, <2>2, <2>3 DEF ReadForMetrics, Shape, TypeOK, entities, loops, around, Steps
<1>3. CASE todo' = Tail(todo) /\ UNCHANGED rollup
  <2>1. todo' \in Seq(Steps) /\ Routine'
    BY <1>1, <1>3, GoesOn DEF ReadForMetrics
  <2> QED
    BY <1>3, <2>1 DEF ReadForMetrics, Shape, TypeOK, entities, loops, around, Steps
<1> QED
  BY <1>2, <1>3 DEF ReadForMetrics

LEMMA PutMetricsShape ==
  ASSUME Shape, PutMetrics
  PROVE  Shape'
<1>1. todo \in Seq(Steps) /\ todo # <<>> /\ Plan(todo) /\ rollup # None /\ dag' # None
  BY AtWork, NoneAssumption DEF PutMetrics, Shape, Routine
<1>2. rollup \in ParentCopy
  BY <1>1 DEF Shape, TypeOK
<1>3. parent' \in QuestStatuses /\ saved' \in DAGExecutionState \cup {None}
  BY <1>2 DEF PutMetrics, ParentCopy
<1>4. /\ todo' \in Seq(Steps) /\ Plan(todo')
      /\ todo' # <<>> => todo'[1].op # "metrics"
  BY <1>1, PlanRest DEF PutMetrics
<1>5. Routine'
  BY <1>1, <1>4 DEF PutMetrics, Routine
<1> QED
  BY <1>3, <1>4, <1>5 DEF PutMetrics, Shape, TypeOK, loops, around, Steps

LEMMA SubmitResultShape ==
  ASSUME Shape, SubmitResult
  PROVE  Shape'
<1>1. dag' # None
  BY AtWork, NoneAssumption DEF SubmitResult
<1>2. todo' \in Seq(Steps) /\ Routine'
  BY <1>1, GoesOn DEF SubmitResult
<1>3. parent' \in QuestStatuses
  BY DEF SubmitResult, Shape, TypeOK, QuestStatuses
<1> QED
  BY <1>2, <1>3 DEF SubmitResult, Shape, TypeOK, loops, around, Steps

LEMMA PersistDAGStateShape ==
  ASSUME Shape, PersistDAGState
  PROVE  Shape'
<1>1. dag' # None /\ dag \in DAGExecutionState
  BY AtWork, NoneAssumption DEF PersistDAGState
<1>2. todo' \in Seq(Steps) /\ Routine'
  BY <1>1, GoesOn DEF PersistDAGState
<1> QED
  BY <1>1, <1>2 DEF PersistDAGState, Shape, TypeOK, loops, around, Steps

LEMMA ForgetShape ==
  ASSUME Shape, Forget
  PROVE  Shape'
<1>1. todo' \in Seq(Steps) /\ Routine'
  BY GoesOn DEF Forget
<1> QED
  BY <1>1 DEF Forget, Shape, TypeOK, entities, loops, around, Steps

LEMMA RestartShape ==
  ASSUME Shape, Restart
  PROVE  Shape'
<1>1. mishaps' \in 0 .. MishapBound
  BY MishapType DEF Restart, Shape
<1>2. questCache' \in [Nodes -> QuestStatuses]
  BY DEF Restart, Shape, TypeOK, SubQuest
<1>3. leads' \in [LeadLoops -> Nat]
  BY DEF Restart, Shape, TypeOK
<1>4. feed' \in Seq(Event) /\ todo' \in Seq(Steps) /\ Plan(todo')
  BY NoPlan, EmptySeq DEF Restart
<1>5. Routine'
  BY <1>4 DEF Restart, Routine
<1>6. synthesis' \in Nat
  BY DEF Restart, Shape, TypeOK
<1> QED
  BY <1>1, <1>2, <1>3, <1>4, <1>5, <1>6 DEF Restart, Shape, TypeOK, Steps

\* Somebody else puts a sub-quest.
LEMMA OtherPutShape ==
  ASSUME Shape, NEW n \in Nodes, NEW rec \in SubQuest, EmitSubQuest(n, rec),
         UNCHANGED <<parent, saved, memory, loops, cancel, setting>>,
         mishaps' \in 0 .. MishapBound
  PROVE  Shape'
<1>1. sub' \in [Nodes -> SubQuest] /\ feed' \in Seq(Event)
  BY EmitFacts DEF Shape
<1>2. Routine'
  BY ElsewhereRoutine DEF memory
<1> QED
  BY <1>1, <1>2 DEF Shape, TypeOK, memory, loops

\* What a member's result, its question, the DM and an operator put.
LEMMA FinishEffect ==
  ASSUME Shape, NEW n \in Nodes, Finish(n)
  PROVE  /\ sub[n].status = "in_progress"
         /\ UNCHANGED <<parent, saved, memory, loops, around>>
         /\ \E rec \in SubQuest :
              /\ rec.status \in {"in_review", "completed", "failed"}
              /\ rec.status = "failed" => ~rec.defeat
              /\ rec.status # "failed" => rec.defeat = sub[n].defeat
              /\ rec.holder = sub[n].holder
              /\ EmitSubQuest(n, rec)
<1>1. PICK to \in {IF n \in Reviewed THEN "in_review" ELSE "completed", "failed"} :
        EmitSubQuest(n, [sub[n] EXCEPT !.status = to,
                                       !.defeat = IF to = "failed" THEN FALSE ELSE @])
  BY DEF Finish
<1> DEFINE rec == [sub[n] EXCEPT !.status = to, !.defeat = IF to = "failed" THEN FALSE ELSE @]
<1>2. sub[n] \in SubQuest /\ to \in {"in_review", "completed", "failed"}
  BY DEF Shape, TypeOK
<1>3. /\ rec \in SubQuest /\ rec.status = to /\ rec.holder = sub[n].holder
      /\ rec.defeat = IF to = "failed" THEN FALSE ELSE sub[n].defeat
  BY <1>2 DEF SubQuest, QuestStatuses
<1>4. EmitSubQuest(n, rec)
  BY <1>1
<1> HIDE DEF rec
<1> QED
  BY <1>2, <1>3, <1>4 DEF Finish

LEMMA AskEffect ==
  ASSUME Shape, NEW n \in Nodes, Ask(n)
  PROVE  /\ sub[n].status = "in_progress"
         /\ UNCHANGED <<parent, saved, memory, loops, around>>
         /\ \E rec \in SubQuest :
              /\ rec.status = "escalated" /\ rec.defeat = sub[n].defeat
              /\ rec.holder = sub[n].holder
              /\ EmitSubQuest(n, rec)
<1> DEFINE rec == [sub[n] EXCEPT !.status = "escalated"]
<1>1. /\ rec \in SubQuest /\ rec.status = "escalated" /\ rec.holder = sub[n].holder
      /\ rec.defeat = sub[n].defeat
  BY StatusPut DEF Shape, QuestStatuses
<1>2. EmitSubQuest(n, rec)
  BY DEF Ask
<1> HIDE DEF rec
<1> QED
  BY <1>1, <1>2 DEF Ask

LEMMA TriageQuestEffect ==
  ASSUME Shape, NEW n \in Nodes, TriageQuest(n)
  PROVE  /\ sub[n].status = "pending_triage"
         /\ UNCHANGED <<parent, saved, memory, loops, around>>
         /\ \E rec \in SubQuest :
              /\ rec.status \in {"posted", "failed", "escalated"} /\ rec.defeat = sub[n].defeat
              /\ rec.holder = sub[n].holder
              /\ EmitSubQuest(n, rec)
<1>1. CASE EmitSubQuest(n, [sub[n] EXCEPT !.status = "posted", !.salvages = @ + 1])
  <2> DEFINE rec == [sub[n] EXCEPT !.status = "posted", !.salvages = @ + 1]
  <2>1. sub[n] \in SubQuest /\ sub[n].salvages + 1 \in Nat
    BY DEF Shape, TypeOK, SubQuest
  <2>2. /\ rec \in SubQuest /\ rec.status = "posted" /\ rec.holder = sub[n].holder
        /\ rec.defeat = sub[n].defeat
    BY <2>1 DEF SubQuest, QuestStatuses
  <2> HIDE DEF rec
  <2>3. EmitSubQuest(n, rec)
    BY <1>1 DEF rec
  <2> QED
    BY <2>2, <2>3 DEF TriageQuest
<1>2. ASSUME NEW to \in {"failed", "escalated"}, EmitSubQuest(n, [sub[n] EXCEPT !.status = to])
      PROVE  \E rec \in SubQuest :
              /\ rec.status \in {"posted", "failed", "escalated"} /\ rec.defeat = sub[n].defeat
              /\ rec.holder = sub[n].holder
              /\ EmitSubQuest(n, rec)
  <2> DEFINE rec == [sub[n] EXCEPT !.status = to]
  <2>0. to \in QuestStatuses /\ TypeOK
    BY DEF Shape, QuestStatuses
  <2>1. /\ rec \in SubQuest /\ rec.status = to /\ rec.holder = sub[n].holder
        /\ rec.defeat = sub[n].defeat
    BY <2>0, StatusPut
  <2>2. EmitSubQuest(n, rec)
    BY <1>2
  <2> HIDE DEF rec
  <2> QED
    BY <2>1, <2>2
<1> QED
  BY <1>1, <1>2 DEF TriageQuest

LEMMA SubQuestRepostedEffect ==
  ASSUME Shape, NEW n \in Nodes, SubQuestReposted(n)
  PROVE  /\ sub[n].status \in {"in_progress", "escalated"}
         /\ Mishap("operator")
         /\ UNCHANGED <<parent, saved, memory, loops, cancel, setting>>
         /\ \E rec \in SubQuest :
              rec.status = "posted" /\ rec.holder = None /\ EmitSubQuest(n, rec)
<1> DEFINE rec == [sub[n] EXCEPT !.status = "posted", !.holder = None]
<1>1. sub[n] \in SubQuest
  BY DEF Shape, TypeOK
<1>2. rec \in SubQuest /\ rec.status = "posted" /\ rec.holder = None
  BY <1>1 DEF SubQuest, QuestStatuses
<1>3. EmitSubQuest(n, rec)
  BY DEF SubQuestReposted
<1> HIDE DEF rec
<1> QED
  BY <1>2, <1>3 DEF SubQuestReposted

LEMMA MembersShape ==
  ASSUME Shape, NEW n \in Nodes, Finish(n) \/ Ask(n) \/ TriageQuest(n) \/ SubQuestReposted(n)
  PROVE  Shape'
<1>1. CASE Finish(n) \/ Ask(n) \/ TriageQuest(n)
  <2>1. /\ UNCHANGED <<parent, saved, memory, loops, around>>
        /\ \E rec \in SubQuest : EmitSubQuest(n, rec)
    BY <1>1, FinishEffect, AskEffect, TriageQuestEffect
  <2>2. mishaps' \in 0 .. MishapBound
    BY <2>1 DEF Shape, TypeOK, around
  <2> QED
    BY <2>1, <2>2, OtherPutShape DEF around
<1>2. CASE SubQuestReposted(n)
  <2>1. /\ UNCHANGED <<parent, saved, memory, loops, cancel, setting>>
        /\ \E rec \in SubQuest : EmitSubQuest(n, rec)
        /\ mishaps' \in 0 .. MishapBound
    BY <1>2, SubQuestRepostedEffect, MishapType DEF Shape
  <2> QED
    BY <2>1, OtherPutShape
<1> QED
  BY <1>1, <1>2

LEMMA OperatorsShape ==
  ASSUME Shape, CancelParent \/ CancelPut \/ SubmitParent
  PROVE  Shape'
<1>1. mishaps' \in 0 .. MishapBound
  BY MishapType DEF Shape, TypeOK, CancelParent, CancelPut, SubmitParent
<1>2. UNCHANGED <<todo, rollup, dag, saved, sub, feed, memory, loops, setting>>
  BY DEF CancelParent, CancelPut, SubmitParent, memory, entities
<1>3. Routine'
  BY <1>2, ElsewhereRoutine
<1>4. parent' \in QuestStatuses /\ cancel' \subseteq {"event", "put"}
  BY DEF CancelParent, CancelPut, SubmitParent, Shape, TypeOK, entities, QuestStatuses
<1> QED
  BY <1>1, <1>2, <1>3, <1>4 DEF Shape, TypeOK, memory, loops

\* What the judges' verdict does to the sub-quests and the feed.
LEMMA JudgeEffect ==
  ASSUME Shape, JudgeParent
  PROVE  \/ parent' = "completed" /\ UNCHANGED <<saved, sub, feed>>
         \/ /\ parent' = "posted" /\ saved' = None
            /\ sub' \in [Nodes -> SubQuest] /\ feed' \in Seq(Event)
            /\ \A n \in Nodes : sub'[n].status = "failed" /\ sub'[n].holder = sub[n].holder
            /\ \A i \in 1 .. Len(feed') : \/ i \in 1 .. Len(feed) /\ feed'[i] = feed[i]
                                          \/ feed'[i].status = "failed" /\ feed'[i].defeat
<1>1. CASE LET blamed == {n \in Nodes : sub[n].status # "failed"} IN
        /\ parent' = "posted"
        /\ saved' = None
        /\ sub' = [n \in Nodes |-> IF n \in blamed
                                   THEN [sub[n] EXCEPT !.status = "failed", !.defeat = TRUE]
                                   ELSE sub[n]]
        /\ feed' = feed \o SetToSeq({[node |-> n, status |-> "failed", defeat |-> TRUE] :
                                       n \in blamed})
  <2> DEFINE blamed == {n \in Nodes : sub[n].status # "failed"}
             told == {[node |-> n, status |-> "failed", defeat |-> TRUE] : n \in blamed}
             f == [n \in blamed |-> [node |-> n, status |-> "failed", defeat |-> TRUE]]
             q == SetToSeq(told)
  <2>1. IsFiniteSet(blamed)
    BY NodesFinite, FS_Subset
  <2>2. f \in Surjection(blamed, told)
    BY DEF Surjection
  <2>3. told \subseteq Event /\ \A e \in told : e.status = "failed" /\ e.defeat
    <3>1. \A n \in blamed : [node |-> n, status |-> "failed", defeat |-> TRUE] \in Event
      BY DEF Event, QuestStatuses
    <3> QED
      BY <3>1
  <2> HIDE DEF f, told, blamed
  <2>4. IsFiniteSet(told)
    BY <2>1, <2>2, FS_Surjection
  <2>5. q \in Seq(told)
    BY <2>4, ListFacts
  <2>6. feed \in Seq(Event) /\ feed' = feed \o q /\ parent' = "posted" /\ saved' = None
    BY <1>1 DEF Shape, TypeOK, told, blamed
  <2> HIDE DEF q
  <2>7. q \in Seq(Event)
    BY <2>3, <2>5, SeqMonotonic
  <2>8. /\ feed' \in Seq(Event) /\ Len(feed') = Len(feed) + Len(q)
        /\ \A i \in 1 .. Len(feed') :
             feed'[i] = IF i <= Len(feed) THEN feed[i] ELSE q[i - Len(feed)]
    BY <2>6, <2>7, ConcatProperties
  <2>9. Len(feed) \in Nat /\ Len(q) \in Nat
    BY <2>6, <2>7, LenProperties
  <2>10. \A j \in 1 .. Len(q) : q[j] \in told
    BY <2>5, ElementOfSeq
  <2>11. ASSUME NEW i \in 1 .. Len(feed')
         PROVE  \/ i \in 1 .. Len(feed) /\ feed'[i] = feed[i]
                \/ feed'[i].status = "failed" /\ feed'[i].defeat
    <3>1. i \in 1 .. Len(feed) \/ (~(i <= Len(feed)) /\ i - Len(feed) \in 1 .. Len(q))
      BY <2>8, <2>9
    <3>2. CASE i \in 1 .. Len(feed)
      BY <2>8, <2>9, <3>2
    <3>3. CASE ~(i <= Len(feed)) /\ i - Len(feed) \in 1 .. Len(q)
      <4>1. feed'[i] = q[i - Len(feed)]
        BY <2>8, <3>3
      <4> QED
        BY <2>3, <2>10, <3>3, <4>1
    <3> QED
      BY <3>1, <3>2, <3>3
  <2>12. sub' \in [Nodes -> SubQuest]
    <3>1. \A n \in Nodes : [sub[n] EXCEPT !.status = "failed", !.defeat = TRUE] \in SubQuest
      <4> TAKE n \in Nodes
      <4>1. sub[n] \in SubQuest
        BY DEF Shape, TypeOK
      <4> QED
        BY <4>1 DEF SubQuest, QuestStatuses
    <3> QED
      BY <1>1, <3>1 DEF Shape, TypeOK
  <2>13. ASSUME NEW n \in Nodes
         PROVE  sub'[n].status = "failed" /\ sub'[n].holder = sub[n].holder
    <3>1. sub[n] \in SubQuest
      BY DEF Shape, TypeOK
    <3>2. sub'[n] = IF sub[n].status # "failed"
                    THEN [sub[n] EXCEPT !.status = "failed", !.defeat = TRUE]
                    ELSE sub[n]
      BY <1>1
    <3> QED
      BY <3>1, <3>2 DEF SubQuest
  <2> QED
    BY <2>6, <2>8, <2>11, <2>12, <2>13
<1> QED
  BY <1>1 DEF JudgeParent

LEMMA JudgeParentShape ==
  ASSUME Shape, JudgeParent
  PROVE  Shape'
<1>1. UNCHANGED <<memory, loops, around>>
  BY DEF JudgeParent
<1>2. Routine'
  BY <1>1, ElsewhereRoutine DEF memory
<1>3. CASE parent' = "completed" /\ UNCHANGED <<saved, sub, feed>>
  BY <1>1, <1>2, <1>3 DEF Shape, TypeOK, memory, loops, around, QuestStatuses
<1>4. CASE /\ parent' = "posted" /\ saved' = None
           /\ sub' \in [Nodes -> SubQuest] /\ feed' \in Seq(Event)
  BY <1>1, <1>2, <1>4 DEF Shape, TypeOK, memory, loops, around, QuestStatuses
<1> QED
  BY <1>3, <1>4, JudgeEffect

LEMMA ShapeInit ==
  ASSUME Init
  PROVE  Shape
<1>1. setting \in [fault : Faults, triage : BOOLEAN, retries : Nat]
  BY DagAssumption DEF Init
<1>2. saved \in DAGExecutionState
  BY <1>1, SeedFacts DEF Init
<1>3. todo \in Seq(Steps) /\ Plan(todo) /\ feed \in Seq(Event)
  BY NoPlan, EmptySeq DEF Init
<1>4. sub \in [Nodes -> SubQuest]
  BY DEF Init, SubQuest, QuestStatuses
<1>5. questCache \in [Nodes -> QuestStatuses] /\ parent \in QuestStatuses
  BY DEF Init, QuestStatuses
<1>6. mishaps \in 0 .. MishapBound /\ leads \in [LeadLoops -> Nat] /\ synthesis \in Nat
  BY DagAssumption DEF Init
<1>7. TypeOK
  BY <1>1, <1>2, <1>3, <1>4, <1>5, <1>6 DEF Init, TypeOK, Steps
<1> QED
  BY <1>3, <1>7 DEF Shape, Routine, Init

LEMMA ShapeStep ==
  ASSUME Shape, [Next]_vars
  PROVE  Shape'
<1>1. CASE UNCHANGED vars
  BY <1>1 DEF vars, entities, memory, loops, around, Shape, TypeOK, Routine, Plan
<1>2. CASE HandlerStep
  BY <1>2, AssignShape, RepostShape, RouteNodeToTriageShape, CleanupShape, EscalateParentShape,
     ReadForMetricsShape, PutMetricsShape, SubmitResultShape, PersistDAGStateShape, ForgetShape
     DEF HandlerStep
<1>3. CASE \E n \in Nodes, kind \in {"review", "clarify"} : LeadResult(kind, n)
  BY <1>3, DropResultShape, OnReviewCompletedShape, OnReviewFailedShape,
     OnClarificationAnsweredShape, OnClarificationFailedShape DEF LeadResult
<1>4. CASE LoopStep
  BY <1>2, <1>3, <1>4, OnDAGEntryShape, OnSubQuestTransitionShape, OnSynthesisEndedShape,
     OnDAGCancelledShape DEF LoopStep
<1>5. CASE Progress \/ \E n \in Nodes : Ask(n) \/ SubQuestReposted(n)
  BY <1>5, MembersShape DEF Progress
<1> QED
  BY <1>1, <1>4, <1>5, OnDAGTimedOutShape, RestartShape, OperatorsShape, JudgeParentShape DEF Next

\* The entities, the loop's memory and the lead's loops keep their types, whatever fails.
THEOREM DagTypeCorrect == Spec => []TypeOK
<1>1. Init => Shape
  BY ShapeInit
<1>2. Shape /\ [Next]_vars => Shape'
  BY ShapeStep
<1>3. Shape => TypeOK
  BY DEF Shape
<1> QED
  BY <1>1, <1>2, <1>3, PTL DEF Spec

-----------------------------------------------------------------------------
(* Without crashes, operators and duplicates.                              *)

LEMMA BenignMishap ==
  ASSUME Benign
  PROVE  ~Mishap("crash") /\ ~Mishap("operator") /\ ~Mishap("duplicate")
BY DEF Benign, Mishap

\* Until its entry is handled nothing happens to the DAG.
LEMMA FreshStep ==
  ASSUME Shape, Benign, Regular, fresh, Next
  PROVE  OnDAGEntry
<1>1. /\ parent = "in_progress" /\ dag = None /\ feed = <<>> /\ todo = <<>> /\ synthesis = 0
      /\ leads = [l \in LeadLoops |-> 0] /\ cancel = {}
      /\ \A n \in Nodes : sub[n].status = "posted"
  BY DEF Regular, Untouched
<1>2. ~HandlerStep
  BY <1>1 DEF HandlerStep, Assign, Repost, RouteNodeToTriage, Cleanup, EscalateParent,
     ReadForMetrics, PutMetrics, SubmitResult, PersistDAGState, Forget, Doing, Idle
<1>3. ASSUME NEW n \in Nodes, NEW kind \in {"review", "clarify"}, LeadResult(kind, n)
      PROVE  FALSE
  <2>1. [kind |-> kind, node |-> n] \in LeadLoops
    BY DEF LeadLoops
  <2>2. DropResult(kind, n)
    BY <1>1, <1>3 DEF LeadResult, OnReviewCompleted, OnReviewFailed, OnClarificationAnswered,
       OnClarificationFailed
  <2>3. leads[[kind |-> kind, node |-> n]] = 0
    BY <1>1, <2>1
  <2> QED
    BY <2>2, <2>3 DEF DropResult, Result
<1>4. ~OnSubQuestTransition /\ ~OnSynthesisEnded /\ ~OnDAGCancelled /\ ~OnDAGTimedOut
  BY <1>1 DEF OnSubQuestTransition, OnSynthesisEnded, OnDAGCancelled, OnDAGTimedOut
<1>5. ~Restart /\ ~CancelParent /\ ~CancelPut /\ ~SubmitParent /\ ~JudgeParent
  BY <1>1, BenignMishap DEF Restart, CancelParent, CancelPut, SubmitParent, JudgeParent
<1>6. \A n \in Nodes : ~Finish(n) /\ ~Ask(n) /\ ~TriageQuest(n) /\ ~SubQuestReposted(n)
  BY <1>1 DEF Finish, Ask, TriageQuest, SubQuestReposted
<1> QED
  BY <1>2, <1>3, <1>4, <1>5, <1>6 DEF Next, LoopStep, Progress

LEMMA NewPlanLeaves ==
  ASSUME NewPlan(todo')
  PROVE  Leaving'
<1>1. CASE Ordinary(todo')
  BY <1>1 DEF Ordinary, Leaving
<1>2. CASE GivingUp(todo')
  <2>1. \A i \in 1 .. Len(todo') : i \in {1, 2, 3}
    BY <1>2 DEF GivingUp
  <2>2. \A i \in 1 .. Len(todo') : todo'[i].op = "forget" => i = 3
    BY <1>2, <2>1 DEF GivingUp
  <2>3. 2 \in 1 .. 3 - 1 /\ todo'[2].op = "escalate"
    BY <1>2 DEF GivingUp
  <2> QED
    BY <2>2, <2>3 DEF Leaving
<1>3. CASE Delivering(todo')
  <2>1. Len(todo') \in Nat
    BY <1>3, LenProperties DEF Delivering
  <2>2. \A i \in 1 .. Len(todo') : i \in {1, 2} \/ i \in 3 .. Len(todo')
    BY <2>1
  <2>3. \A i \in 1 .. Len(todo') : todo'[i].op = "forget" => i \in 3 .. Len(todo')
    BY <1>3, <2>2 DEF Delivering
  <2>4. \A i \in 3 .. Len(todo') : 2 \in 1 .. i - 1
    BY <2>1
  <2>5. todo'[2].op = "submit"
    BY <1>3 DEF Delivering
  <2> QED
    BY <2>3, <2>4, <2>5 DEF Leaving
<1> QED
  BY <1>1, <1>2, <1>3 DEF NewPlan

LEMMA GoesOnLeaving ==
  ASSUME Shape, Leaving, NEW op, Doing(op), todo' = Tail(todo),
         parent # "in_progress" => parent' # "in_progress",
         op \in {"submit", "escalate"} => parent' # "in_progress"
  PROVE  Leaving'
<1>1. /\ todo \in Seq(Steps) /\ todo # <<>> /\ Len(todo) \in Nat \ {0} /\ todo[1].op = op
  BY AtWork
<1>2. Len(todo') = Len(todo) - 1 /\ \A i \in 1 .. Len(todo') : todo'[i] = todo[i + 1]
  BY <1>1, HeadTailProperties
<1> SUFFICES ASSUME NEW i \in 1 .. Len(todo'), todo'[i].op = "forget", parent' = "in_progress"
             PROVE  \E j \in 1 .. i - 1 : todo'[j].op \in {"submit", "escalate"}
  BY DEF Leaving
<1>3. i + 1 \in 1 .. Len(todo) /\ todo[i + 1].op = "forget"
  BY <1>1, <1>2
<1>4. PICK j \in 1 .. (i + 1) - 1 : todo[j].op \in {"submit", "escalate"}
  BY <1>3 DEF Leaving
<1>5. j # 1
  BY <1>1, <1>4
<1>6. j - 1 \in 1 .. i - 1 /\ j - 1 \in 1 .. Len(todo') /\ (j - 1) + 1 = j
  BY <1>4, <1>5
<1> QED
  BY <1>2, <1>4, <1>6

LEMMA SameLeaving ==
  ASSUME Leaving, UNCHANGED todo, parent # "in_progress" => parent' # "in_progress"
  PROVE  Leaving'
BY DEF Leaving

\* A step of the loop that takes up a plan or none.
LEMMA EventRegular ==
  ASSUME Shape, Benign, Regular, Idle, NewPlan(todo') \/ todo' = <<>>,
         UNCHANGED <<parent, rollup, setting>>, cancel' \subseteq cancel, ~fresh'
  PROVE  Regular'
<1>1. rollup = None
  BY DEF Shape, Routine, Idle
<1>2. Leaving'
  <2>1. CASE todo' = <<>>
    <3>1. Len(todo') = 0
      BY <2>1, EmptySeq
    <3> QED
      BY <3>1 DEF Leaving
  <2> QED
    BY <2>1, NewPlanLeaves
<1> QED
  BY <1>1, <1>2 DEF Regular, CopyCurrent

LEMMA SameRegular ==
  ASSUME Regular, ~fresh, UNCHANGED <<todo, parent, rollup, fresh, cancel>>
  PROVE  Regular'
BY SameLeaving DEF Regular, CopyCurrent

LEMMA EventsRegular ==
  ASSUME Shape, Benign, Regular, ~fresh,
         \/ OnSubQuestTransition \/ OnSynthesisEnded \/ OnDAGCancelled \/ OnDAGTimedOut
         \/ \E n \in Nodes, kind \in {"review", "clarify"} : LeadResult(kind, n)
  PROVE  Regular'
<1>1. CASE OnSubQuestTransition
  <2>1. Head(feed) \in Event
    BY <1>1, HandOutFacts DEF OnSubQuestTransition, Shape
  <2>2. UNCHANGED todo \/ NewPlan(todo')
    BY <1>1, <2>1, TransitionShape DEF OnSubQuestTransition
  <2>3. todo' = <<>> \/ NewPlan(todo')
    BY <1>1, <2>2 DEF OnSubQuestTransition, Idle
  <2> QED
    BY <1>1, <2>3, EventRegular DEF OnSubQuestTransition
<1>2. CASE OnSynthesisEnded
  <2>1. todo' = <<>> \/ NewPlan(todo')
    BY <1>2, OneIsNode, PlanSubmit DEF OnSynthesisEnded, NewPlan
  <2> QED
    BY <1>2, <2>1, EventRegular DEF OnSynthesisEnded, entities
<1>3. CASE OnDAGCancelled
  BY <1>3 DEF OnDAGCancelled, Regular
<1>4. CASE OnDAGTimedOut
  <2>1. NewPlan(todo')
    BY <1>4, GiveUpDagPlan DEF OnDAGTimedOut, NewPlan
  <2> QED
    BY <1>4, <2>1, EventRegular DEF OnDAGTimedOut, entities, around
<1>5. ASSUME NEW n \in Nodes, NEW kind \in {"review", "clarify"}, LeadResult(kind, n)
      PROVE  Regular'
  <2>1. CASE DropResult(kind, n) \/ OnReviewCompleted(n)
    BY <2>1, SameRegular DEF DropResult, OnReviewCompleted, entities, memory
  <2>2. CASE OnReviewFailed(n)
    <3>1. UNCHANGED <<parent, fresh, rollup, cancel, setting>>
      BY <2>2 DEF OnReviewFailed, entities
    <3>2. CASE UNCHANGED todo
      BY <3>1, <3>2, SameRegular
    <3>3. CASE HandleNodeFailed(dag, n) /\ Result("review", n)
      <4>1. dag \in DAGExecutionState
        BY <2>2, IdleDag DEF OnReviewFailed
      <4>2. NewPlan(todo')
        BY <3>3, <4>1, NodeFailedEffect DEF Shape, TypeOK, NewPlan
      <4> QED
        BY <3>1, <3>3, <4>2, EventRegular DEF Result
    <3> QED
      BY <2>2, <3>2, <3>3 DEF OnReviewFailed
  <2>3. CASE OnClarificationAnswered(n) \/ OnClarificationFailed(n)
    <3>1. dag # None /\ Becomes(dag, n, "assigned") /\ Idle
      BY <2>3 DEF OnClarificationAnswered, OnClarificationFailed, Result
    <3>2. NewPlan(todo')
      BY <3>1, IdleDag, BecomesEffect DEF NewPlan, NodeStates
    <3>3. UNCHANGED <<parent, fresh, rollup, cancel, setting>>
      BY <2>3 DEF OnClarificationAnswered, OnClarificationFailed, entities
    <3> QED
      BY <3>1, <3>2, <3>3, EventRegular
  <2> QED
    BY <1>5, <2>1, <2>2, <2>3 DEF LeadResult
<1> QED
  BY <1>1, <1>2, <1>3, <1>4, <1>5

LEMMA HandlersRegular ==
  ASSUME Shape, Benign, Regular, ~fresh, HandlerStep
  PROVE  Regular'
<1>1. UNCHANGED <<fresh, cancel>> /\ Leaving /\ CopyCurrent
  BY DEF HandlerStep, Assign, Repost, RouteNodeToTriage, Cleanup, EscalateParent,
     ReadForMetrics, PutMetrics, SubmitResult, PersistDAGState, Forget, around, entities, Regular
<1>2. ASSUME UNCHANGED parent, UNCHANGED rollup,
             UNCHANGED todo \/ \E op \in Ops \ {"submit", "escalate"} : Doing(op) /\ todo' = Tail(todo)
      PROVE  Regular'
  <2>1. Leaving'
    BY <1>1, <1>2, SameLeaving, GoesOnLeaving
  <2> QED
    BY <1>1, <1>2, <2>1 DEF Regular, CopyCurrent
<1>3. CASE Assign \/ Repost \/ Cleanup \/ PersistDAGState \/ Forget
  <2>1. UNCHANGED parent /\ UNCHANGED rollup
    BY <1>3 DEF Assign, Repost, Cleanup, PersistDAGState, Forget, entities
  <2>2. UNCHANGED todo \/ \E op \in {"assign", "repost", "cleanup", "persist", "forget"} :
                              Doing(op) /\ todo' = Tail(todo)
    BY <1>3 DEF Assign, Repost, Cleanup, PersistDAGState, Forget
  <2> QED
    BY <1>2, <2>1, <2>2 DEF Ops
<1>4. CASE RouteNodeToTriage
  <2>1. UNCHANGED <<parent, rollup>> /\ Doing("triage")
    BY <1>4 DEF RouteNodeToTriage
  <2>2. CASE todo' = Tail(todo)
    BY <1>2, <2>1, <2>2 DEF Ops
  <2>3. CASE HandleTriageTerminal(dag, Head(todo).node)
    <3>1. /\ Head(todo) = todo[1] /\ todo[1].node \in Nodes /\ dag \in DAGExecutionState
      BY <2>1, AtWork
    <3>2. NewPlan(todo')
      BY <2>3, <3>1, TriageTerminalEffect DEF NewPlan
    <3>3. rollup = None
      BY <2>1, AtWork
    <3> QED
      BY <1>1, <2>1, <3>2, <3>3, NewPlanLeaves DEF Regular, CopyCurrent
  <2> QED
    BY <1>4, <2>2, <2>3 DEF RouteNodeToTriage
<1>5. CASE EscalateParent
  <2>1. parent' # "in_progress" /\ UNCHANGED rollup /\ rollup = None
    BY <1>5, AtWork DEF EscalateParent
  <2>2. Leaving'
    BY <1>1, <1>5, <2>1, GoesOnLeaving DEF EscalateParent
  <2> QED
    BY <1>1, <2>1, <2>2 DEF Regular, CopyCurrent
<1>6. CASE SubmitResult
  <2>1. parent' # "in_progress" /\ UNCHANGED rollup /\ rollup = None
    BY <1>6, AtWork DEF SubmitResult
  <2>2. Leaving'
    BY <1>1, <1>6, <2>1, GoesOnLeaving DEF SubmitResult
  <2> QED
    BY <1>1, <2>1, <2>2 DEF Regular, CopyCurrent
<1>7. CASE ReadForMetrics
  <2>1. CASE todo' = Tail(todo) /\ UNCHANGED rollup
    BY <1>2, <1>7, <2>1 DEF ReadForMetrics, Ops, entities
  <2>2. CASE rollup' = [parent |-> parent, saved |-> saved] /\ todo' = <<Do("metrics", 1)>> \o Tail(todo)
    <3>1. CopyCurrent' /\ UNCHANGED parent
      BY <1>7, <2>2 DEF CopyCurrent, ReadForMetrics, entities
    <3>2. /\ Len(todo') = Len(todo) /\ todo'[1].op = "metrics"
          /\ \A i \in 2 .. Len(todo) : todo'[i] = todo[i]
      BY <1>7, <2>2, TallyPlan DEF ReadForMetrics
    <3>3. Len(todo) \in Nat \ {0} /\ todo[1].op = "tally"
      BY <1>7, AtWork DEF ReadForMetrics
    <3>4. Leaving'
      <4> SUFFICES ASSUME NEW i \in 1 .. Len(todo'), todo'[i].op = "forget", parent = "in_progress"
                   PROVE  \E j \in 1 .. i - 1 : todo'[j].op \in {"submit", "escalate"}
        BY <3>1 DEF Leaving
      <4>1. i \in 2 .. Len(todo) /\ i \in 1 .. Len(todo)
        BY <3>2, <3>3
      <4>2. PICK j \in 1 .. i - 1 : todo[j].op \in {"submit", "escalate"}
        BY <1>1, <3>2, <4>1 DEF Leaving
      <4>3. j \in 2 .. Len(todo)
        BY <3>3, <4>1, <4>2
      <4> QED
        BY <3>2, <4>2, <4>3
    <3> QED
      BY <1>1, <3>1, <3>4 DEF Regular
  <2> QED
    BY <1>7, <2>1, <2>2 DEF ReadForMetrics
<1>8. CASE PutMetrics
  <2>1. rollup # None /\ rollup' = None /\ parent' = rollup.parent
    BY <1>8, AtWork DEF PutMetrics
  <2>2. parent # "in_progress" => parent' # "in_progress"
    BY <1>1, <2>1 DEF CopyCurrent
  <2>3. Leaving'
    BY <1>1, <1>8, <2>2, GoesOnLeaving DEF PutMetrics
  <2> QED
    BY <1>1, <2>1, <2>3 DEF Regular, CopyCurrent
<1> QED
  BY <1>3, <1>4, <1>5, <1>6, <1>7, <1>8 DEF HandlerStep

LEMMA RegularStep ==
  ASSUME Shape, Benign, Regular, [Next]_vars
  PROVE  Regular' /\ Benign'
<1>1. Benign'
  <2>1. UNCHANGED setting
    BY DEF Next, LoopStep, HandlerStep, LeadResult, Progress, OnDAGEntry, OnSubQuestTransition,
       OnSynthesisEnded, OnDAGCancelled, DropResult, OnReviewCompleted, OnReviewFailed,
       OnClarificationAnswered, OnClarificationFailed, Assign, Repost, RouteNodeToTriage, Cleanup,
       EscalateParent, ReadForMetrics, PutMetrics, SubmitResult, PersistDAGState, Forget, Finish,
       TriageQuest, OnDAGTimedOut, Restart, CancelParent, CancelPut, SubmitParent, JudgeParent,
       Ask, SubQuestReposted, vars, around
  <2> QED
    BY <2>1 DEF Benign
<1> SUFFICES Regular'
  BY <1>1
<1>2. CASE UNCHANGED vars
  BY <1>2 DEF vars, entities, memory, loops, around, Regular, Leaving, CopyCurrent, Untouched
<1>3. CASE Next /\ fresh
  <2>1. OnDAGEntry
    BY <1>3, FreshStep
  <2>2. NewPlan(todo')
    BY <2>1, OneIsNode, PlanAssign DEF OnDAGEntry, NewPlan
  <2> QED
    BY <2>1, <2>2, EventRegular DEF OnDAGEntry, entities, around
<1>4. CASE Next /\ ~fresh
  <2>1. CASE LoopStep
    BY <1>4, <2>1, EventsRegular, HandlersRegular DEF LoopStep, OnDAGEntry
  <2>2. CASE OnDAGTimedOut
    BY <1>4, <2>2, EventsRegular
  <2>3. CASE \E n \in Nodes : Finish(n) \/ TriageQuest(n) \/ Ask(n)
    <3>1. UNCHANGED <<todo, parent, rollup, fresh, cancel>>
      BY <2>3 DEF Finish, TriageQuest, Ask, memory, around
    <3> QED
      BY <1>4, <3>1, SameRegular
  <2>4. CASE JudgeParent
    <3>1. /\ UNCHANGED <<todo, rollup, fresh, cancel>>
          /\ parent = "in_review" /\ parent' # "in_progress"
      BY <2>4 DEF JudgeParent, memory, around
    <3>2. Leaving'
      BY <3>1, SameLeaving DEF Regular
    <3> QED
      BY <1>4, <3>1, <3>2 DEF Regular, CopyCurrent
  <2>5. /\ ~Restart /\ ~CancelParent /\ ~CancelPut /\ ~SubmitParent
        /\ \A n \in Nodes : ~SubQuestReposted(n)
    <3>1. ~Mishap("crash") /\ ~Mishap("operator")
      BY BenignMishap
    <3> QED
      BY <3>1 DEF Restart, CancelParent, CancelPut, SubmitParent, SubQuestReposted, Regular
  <2> QED
    BY <1>4, <2>1, <2>2, <2>3, <2>4, <2>5 DEF Next, Progress
<1> QED
  BY <1>1, <1>2, <1>3, <1>4

-----------------------------------------------------------------------------
(* What the loop knows of the sub-quests.                                  *)

LEMMA EmitNews ==
  ASSUME TypeOK, NEW n \in Nodes, NEW rec \in SubQuest, EmitSubQuest(n, rec)
  PROVE  /\ News(n)' = News(n) \cup {rec.status}
         /\ \A k \in Nodes \ {n} : News(k)' = News(k)
<1>1. /\ Len(feed) \in Nat /\ Len(feed') = Len(feed) + 1
      /\ \A i \in 1 .. Len(feed) : feed'[i] = feed[i]
      /\ feed'[Len(feed')].node = n /\ feed'[Len(feed')].status = rec.status
  BY EmitFacts
<1>2. \A i \in 1 .. Len(feed') : i \in 1 .. Len(feed) \/ i = Len(feed')
  BY <1>1
<1>3. 1 .. Len(feed) \subseteq 1 .. Len(feed') /\ Len(feed') \in 1 .. Len(feed')
  BY <1>1
<1> QED
  BY <1>1, <1>2, <1>3 DEF News

LEMMA FirstNews ==
  ASSUME TypeOK, feed # <<>>, feed' = Tail(feed), NEW e \in Event, e = feed[1]
  PROVE  /\ News(e.node) = News(e.node)' \cup {e.status}
         /\ \A k \in Nodes \ {e.node} : News(k)' = News(k)
<1>1. /\ Len(feed) \in Nat \ {0} /\ Len(feed') = Len(feed) - 1
      /\ \A i \in 1 .. Len(feed') : feed'[i] = feed[i + 1]
  BY HandOutFacts
<1>2. \A i \in 1 .. Len(feed) : i = 1 \/ i - 1 \in 1 .. Len(feed')
  BY <1>1
<1>3. \A i \in 1 .. Len(feed') : i + 1 \in 1 .. Len(feed)
  BY <1>1
<1>4. 1 \in 1 .. Len(feed)
  BY <1>1
<1>5. \A i \in 1 .. Len(feed) : i = 1 \/ feed'[i - 1] = feed[i]
  BY <1>1, <1>2
<1>6. \A k \in Nodes \cup {e.node} : News(k)' \subseteq News(k)
  BY <1>1, <1>3 DEF News
<1>7. \A k \in Nodes \cup {e.node} :
        News(k) \subseteq News(k)' \cup (IF k = e.node THEN {e.status} ELSE {})
  <2> TAKE k \in Nodes \cup {e.node}
  <2> SUFFICES ASSUME NEW i \in 1 .. Len(feed), feed[i].node = k,
                      ~(k = e.node /\ feed[i].status = e.status)
               PROVE  feed[i].status \in News(k)'
    BY DEF News
  <2>1. i # 1
    OBVIOUS
  <2>2. i - 1 \in 1 .. Len(feed') /\ feed'[i - 1] = feed[i]
    BY <1>2, <1>5, <2>1
  <2> QED
    BY <2>2 DEF News
<1>8. e.status \in News(e.node)
  BY <1>4 DEF News
<1>9. News(e.node) = News(e.node)' \cup {e.status}
  BY <1>6, <1>7, <1>8
<1>10. ASSUME NEW k \in Nodes \ {e.node}
       PROVE  News(k)' = News(k)
  <2>1. News(k) \subseteq News(k)'
    BY <1>7
  <2>2. News(k)' \subseteq News(k)
    BY <1>6
  <2> QED
    BY <2>1, <2>2
<1> QED
  BY <1>9, <1>10

LEMMA HandOutNews ==
  ASSUME TypeOK, Ordered, feed # <<>>, feed' = Tail(feed), NEW e \in Event, e = feed[1]
  PROVE  /\ News(e.node) = News(e.node)' \cup {e.status}
         /\ News(e.node)' \subseteq Later(e.status)
         /\ \A k \in Nodes \ {e.node} : News(k)' = News(k)
<1>1. /\ Len(feed) \in Nat \ {0} /\ Len(feed') = Len(feed) - 1
      /\ \A i \in 1 .. Len(feed') : feed'[i] = feed[i + 1]
  BY HandOutFacts
<1>2. \A i \in 1 .. Len(feed') : i + 1 \in 1 .. Len(feed) /\ 1 < i + 1
  BY <1>1
<1>3. 1 \in 1 .. Len(feed)
  BY <1>1
<1>4. News(e.node)' \subseteq Later(e.status)
  <2> SUFFICES ASSUME NEW i \in 1 .. Len(feed'), feed'[i].node = e.node
               PROVE  feed'[i].status \in Later(e.status)
    BY DEF News
  <2> QED
    BY <1>1, <1>2, <1>3 DEF Ordered
<1> QED
  BY <1>4, FirstNews

\* What the feed holds of a sub-quest leads to its status.
LEMMA KnownNews ==
  ASSUME FeedSound, TypeOK, NEW n \in Nodes
  PROVE  /\ \A s \in News(n) : s = sub[n].status \/ sub[n].status \in Later(s)
         /\ sub[n].status \notin News(n) => News(n) = {} /\ questCache[n] = sub[n].status
<1>1. Known(n) /\ Ordered
  BY DEF FeedSound
<1>2. CASE \A i \in 1 .. Len(feed) : feed[i].node # n
  BY <1>1, <1>2 DEF Known, News
<1>3. ASSUME NEW i \in 1 .. Len(feed), feed[i].node = n, feed[i].status = sub[n].status,
             \A j \in i + 1 .. Len(feed) : feed[j].node # n
      PROVE  /\ sub[n].status \in News(n)
             /\ \A s \in News(n) : s = sub[n].status \/ sub[n].status \in Later(s)
  <2>1. sub[n].status \in News(n)
    BY <1>3 DEF News
  <2>2. ASSUME NEW j \in 1 .. Len(feed), feed[j].node = n
        PROVE  feed[j].status = sub[n].status \/ sub[n].status \in Later(feed[j].status)
    <3>1. Len(feed) \in Nat
      BY LenProperties DEF TypeOK
    <3>2. j = i \/ j < i \/ j \in i + 1 .. Len(feed)
      BY <3>1
    <3> QED
      BY <1>1, <1>3, <2>2, <3>2 DEF Ordered
  <2> QED
    BY <2>1, <2>2 DEF News
<1> QED
  BY <1>1, <1>2, <1>3 DEF Known

LEMMA EmitFeed ==
  ASSUME FeedSound, TypeOK, NEW n \in Nodes, NEW rec \in SubQuest, EmitSubQuest(n, rec),
         rec.status # sub[n].status, \A s \in News(n) : rec.status \in Later(s),
         UNCHANGED questCache
  PROVE  FeedSound'
<1>1. /\ Len(feed) \in Nat /\ Len(feed') = Len(feed) + 1
      /\ \A i \in 1 .. Len(feed) : feed'[i] = feed[i]
      /\ feed'[Len(feed')].node = n /\ feed'[Len(feed')].status = rec.status
      /\ sub'[n] = rec /\ \A k \in Nodes \ {n} : sub'[k] = sub[k]
  BY EmitFacts
<1>2. \A i \in 1 .. Len(feed') : i \in 1 .. Len(feed) \/ i = Len(feed')
  BY <1>1
<1>3. 1 .. Len(feed) \subseteq 1 .. Len(feed') /\ Len(feed') \in 1 .. Len(feed')
      /\ Len(feed') \notin 1 .. Len(feed)
  BY <1>1
<1>4. Ordered'
  <2> SUFFICES ASSUME NEW i \in 1 .. Len(feed'), NEW j \in 1 .. Len(feed'),
                      i < j, feed'[i].node = feed'[j].node
               PROVE  feed'[j].status \in Later(feed'[i].status)
    BY DEF Ordered
  <2>1. i \in 1 .. Len(feed)
    BY <1>1
  <2>2. CASE j \in 1 .. Len(feed)
    BY <1>1, <2>1, <2>2 DEF FeedSound, Ordered
  <2>3. CASE j = Len(feed')
    <3>1. feed[i].status \in News(n)
      BY <1>1, <2>1, <2>3 DEF News
    <3> QED
      BY <1>1, <2>1, <2>3, <3>1
  <2> QED
    BY <1>2, <2>2, <2>3
<1>5. Noticed'
  <2> SUFFICES ASSUME NEW i \in 1 .. Len(feed'), feed'[i].status = questCache[feed'[i].node]
               PROVE  \E j \in 1 .. i - 1 :
                        feed'[j].node = feed'[i].node /\ feed'[j].status # feed'[i].status
    BY DEF Noticed
  <2>1. CASE i \in 1 .. Len(feed)
    <3>1. PICK j \in 1 .. i - 1 : feed[j].node = feed[i].node /\ feed[j].status # feed[i].status
      BY <1>1, <2>1 DEF FeedSound, Noticed
    <3>2. j \in 1 .. Len(feed)
      BY <1>1, <2>1
    <3> QED
      BY <1>1, <2>1, <3>1, <3>2
  <2>2. CASE i = Len(feed')
    <3>1. questCache[n] = rec.status
      BY <1>1, <2>2
    <3>2. sub[n].status \in News(n)
      BY <3>1, KnownNews
    <3>3. PICK j \in 1 .. Len(feed) : feed[j].node = n /\ feed[j].status = sub[n].status
      BY <3>2 DEF News
    <3>4. j \in 1 .. i - 1
      BY <1>1, <2>2
    <3> QED
      BY <1>1, <2>2, <3>3, <3>4
  <2> QED
    BY <1>2, <2>1, <2>2
<1>6. ASSUME NEW k \in Nodes
      PROVE  Known(k)'
  <2>1. CASE k = n
    <3>1. Len(feed') + 1 .. Len(feed') = {}
      BY <1>1
    <3> QED
      BY <1>1, <1>3, <2>1, <3>1 DEF Known
  <2>2. CASE k # n
    <3>1. Known(k) /\ sub'[k] = sub[k]
      BY <1>1, <2>2 DEF FeedSound
    <3>2. CASE \A i \in 1 .. Len(feed) : feed[i].node # k
      BY <1>1, <1>2, <2>2, <3>1, <3>2 DEF Known
    <3>3. ASSUME NEW i \in 1 .. Len(feed), feed[i].node = k, feed[i].status = sub[k].status,
                 \A j \in i + 1 .. Len(feed) : feed[j].node # k
          PROVE  Known(k)'
      <4>1. \A j \in i + 1 .. Len(feed') : j \in i + 1 .. Len(feed) \/ j = Len(feed')
        BY <1>1
      <4>2. \A j \in i + 1 .. Len(feed) : j \in 1 .. Len(feed)
        BY <1>1
      <4>3. \A j \in i + 1 .. Len(feed') : feed'[j].node # k
        BY <1>1, <2>2, <3>3, <4>1, <4>2
      <4>4. feed'[i].node = k /\ feed'[i].status = sub'[k].status /\ i \in 1 .. Len(feed')
        BY <1>1, <1>3, <3>1, <3>3
      <4> QED
        BY <4>3, <4>4 DEF Known
    <3> QED
      BY <3>1, <3>2, <3>3 DEF Known
  <2> QED
    BY <2>1, <2>2
<1> QED
  BY <1>4, <1>5, <1>6 DEF FeedSound

LEMMA HandOutFeed ==
  ASSUME FeedSound, TypeOK, feed # <<>>, feed' = Tail(feed), UNCHANGED sub,
         questCache' = [questCache EXCEPT ![feed[1].node] = feed[1].status]
  PROVE  FeedSound' /\ questCache[feed[1].node] # feed[1].status
<1>1. /\ Len(feed) \in Nat \ {0} /\ Len(feed') = Len(feed) - 1
      /\ \A i \in 1 .. Len(feed') : feed'[i] = feed[i + 1]
      /\ feed[1] \in Event
  BY HandOutFacts
<1>2. /\ feed[1].node \in Nodes
      /\ questCache'[feed[1].node] = feed[1].status
      /\ \A k \in Nodes \ {feed[1].node} : questCache'[k] = questCache[k]
  BY <1>1 DEF TypeOK, Event
<1>3. \A i \in 1 .. Len(feed') : i + 1 \in 1 .. Len(feed) /\ 1 < i + 1
  BY <1>1
<1>4. 1 \in 1 .. Len(feed) /\ 1 .. 1 - 1 = {}
  BY <1>1
<1>5. Ordered'
  <2>1. \A i, j \in 1 .. Len(feed') : i < j => i + 1 < j + 1
    BY <1>1
  <2> QED
    BY <1>1, <1>3, <2>1 DEF FeedSound, Ordered
<1>6. \A i \in 1 .. Len(feed') : feed'[i] \in Event /\ feed'[i].node \in Nodes
  <2> TAKE i \in 1 .. Len(feed')
  <2>1. feed' \in Seq(Event)
    BY HandOutFacts
  <2>2. feed'[i] \in Event
    BY <2>1, ElementOfSeq
  <2> QED
    BY <2>2 DEF Event
<1>7. Noticed'
  <2> SUFFICES ASSUME NEW i \in 1 .. Len(feed'), feed'[i].status = questCache'[feed'[i].node]
               PROVE  \E j \in 1 .. i - 1 :
                        feed'[j].node = feed'[i].node /\ feed'[j].status # feed'[i].status
    BY DEF Noticed
  <2>1. CASE feed'[i].node = feed[1].node
    <3>1. feed[1].status \in Later(feed[1].status)
      BY <1>1, <1>2, <1>3, <1>4, <2>1 DEF FeedSound, Ordered
    <3> QED
      BY <3>1 DEF Later, Ends, Verdicts
  <2>2. CASE feed'[i].node # feed[1].node
    <3>1. feed[i + 1].status = questCache[feed[i + 1].node]
      BY <1>1, <1>2, <1>6, <2>2
    <3>2. PICK j \in 1 .. (i + 1) - 1 :
            feed[j].node = feed[i + 1].node /\ feed[j].status # feed[i + 1].status
      BY <1>3, <3>1 DEF FeedSound, Noticed
    <3>3. j # 1
      BY <1>1, <2>2, <3>2
    <3>4. j - 1 \in 1 .. i - 1 /\ j - 1 \in 1 .. Len(feed') /\ (j - 1) + 1 = j
      BY <3>2, <3>3
    <3> QED
      BY <1>1, <3>2, <3>4
  <2> QED
    BY <2>1, <2>2
<1>8. ASSUME NEW k \in Nodes
      PROVE  Known(k)'
  <2>1. CASE \A i \in 1 .. Len(feed) : feed[i].node # k
    <3>1. questCache[k] = sub[k].status /\ k # feed[1].node
      BY <1>4, <2>1 DEF FeedSound, Known
    <3> QED
      BY <1>1, <1>2, <1>3, <2>1, <3>1 DEF Known
  <2>2. ASSUME NEW i \in 1 .. Len(feed), feed[i].node = k, feed[i].status = sub[k].status,
               \A j \in i + 1 .. Len(feed) : feed[j].node # k
        PROVE  Known(k)'
    <3>1. CASE i = 1
      <4>1. \A j \in 1 .. Len(feed') : j + 1 \in i + 1 .. Len(feed)
        BY <1>1, <3>1
      <4>2. \A j \in 1 .. Len(feed') : feed'[j].node # k
        BY <1>1, <2>2, <4>1
      <4> QED
        BY <1>2, <2>2, <3>1, <4>2 DEF Known
    <3>2. CASE i # 1
      <4>1. i - 1 \in 1 .. Len(feed') /\ feed'[i - 1] = feed[i]
        BY <1>1, <3>2
      <4>2. \A j \in (i - 1) + 1 .. Len(feed') : j \in 1 .. Len(feed') /\ j + 1 \in i + 1 .. Len(feed)
        BY <1>1, <3>2
      <4>3. \A j \in (i - 1) + 1 .. Len(feed') : feed'[j].node # k
        BY <1>1, <2>2, <4>2
      <4> QED
        BY <2>2, <4>1, <4>3 DEF Known
    <3> QED
      BY <3>1, <3>2
  <2>3. \/ \E i \in 1 .. Len(feed) : /\ feed[i].node = k /\ feed[i].status = sub[k].status
                                     /\ \A j \in i + 1 .. Len(feed) : feed[j].node # k
        \/ \A i \in 1 .. Len(feed) : feed[i].node # k
    BY DEF FeedSound, Known
  <2> QED
    BY <2>1, <2>2, <2>3
<1>9. questCache[feed[1].node] # feed[1].status
  BY <1>4 DEF FeedSound, Noticed
<1> QED
  BY <1>5, <1>7, <1>8, <1>9 DEF FeedSound

-----------------------------------------------------------------------------
(* The steps of a benign execution.                                        *)

LEMMA HandIdle ==
  ASSUME Idle, NEW n
  PROVE  Hand(n) = "none"
BY DEF Idle, Hand

\* A new plan begins with a put of its own node, or with none of a sub-quest.
LEMMA HandNew ==
  ASSUME NewPlan(todo'), NEW n \in Nodes
  PROVE  \/ Hand(n)' \notin {"repost", "triage"}
         \/ todo'[1].node = n /\ todo'[1].op = Hand(n)'
BY DEF Hand

LEMMA HandRest ==
  ASSUME Shape, NEW op, Doing(op), todo' = Tail(todo), NEW n \in Nodes
  PROVE  Hand(n)' \notin {"repost", "triage"}
<1>1. todo \in Seq(Steps) /\ todo # <<>> /\ Plan(todo)
  BY AtWork DEF Shape, Routine
<1>2. todo' # <<>> => todo'[1].op \in {"assign", "escalate", "submit", "persist", "forget"}
  BY <1>1, PlanRest
<1> QED
  BY <1>2 DEF Hand

\* Node n is not touched, but for a promotion.
Aside(n) ==
  /\ dag'.state[n] = dag.state[n] \/ (dag.state[n] = "pending" /\ dag'.state[n] = "ready")
  /\ dag'.assignee[n] = dag.assignee[n]
  /\ sub'[n] = sub[n]
  /\ questCache'[n] = questCache[n]

LEMMA AsideAgrees ==
  ASSUME NEW n \in Nodes, Agrees(n), Aside(n), UNCHANGED setting, News(n)' = News(n),
         \/ Hand(n)' = Hand(n)
         \/ {Hand(n), Hand(n)'} \cap {"repost", "triage"} = {}
  PROVE  Agrees(n)'
<1>1. Fits(dag'.state[n], sub'[n].status, News(n)', questCache'[n], Hand(n)')
  BY DEF Agrees, Aside, Fits, Awaited, Current
<1>2. dag'.state[n] = "assigned" /\ Calm' => "in_progress" \in News(n)'
  BY DEF Agrees, Aside, Calm
<1>3. dag'.state[n] \in {"assigned", "in_progress", "pending_review", "awaiting_clarification"}
       => dag'.assignee[n] = sub'[n].holder
  BY DEF Agrees, Aside
<1> QED
  BY <1>1, <1>2, <1>3 DEF Agrees

LEMMA AsideAsked ==
  ASSUME NEW n \in Nodes, Asked(n), Aside(n),
         leads'[[kind |-> "review", node |-> n]] = leads[[kind |-> "review", node |-> n]],
         leads'[[kind |-> "clarify", node |-> n]] = leads[[kind |-> "clarify", node |-> n]]
  PROVE  Asked(n)'
BY DEF Asked, Aside

LEMMA LeadsApart ==
  ASSUME NEW n \in Nodes, NEW k \in Nodes, n # k,
         NEW x \in {"review", "clarify"}, NEW y \in {"review", "clarify"}
  PROVE  [kind |-> x, node |-> n] # [kind |-> y, node |-> k]
OBVIOUS

\* What the invariant says of a benign execution before a step.
Engagement ==
  /\ Shape /\ Benign /\ Regular /\ ~fresh /\ parent = "in_progress" /\ ~Escalating /\ Tracking
  /\ UNCHANGED setting

LEMMA NewPlanFinale ==
  ASSUME Ordinary(todo'), synthesis' = 0 \/ \A n \in Nodes : dag'.state[n] = "completed"
  PROVE  Finale'
BY DEF Ordinary, Finale

LEMMA GivingUpEscalates ==
  ASSUME GivingUp(todo')
  PROVE  Escalating'
<1>1. 2 \in 1 .. Len(todo') /\ todo'[2].op = "escalate"
  BY DEF GivingUp
<1> QED
  BY <1>1 DEF Escalating

\* The statuses of the sub-quests once more, from the definitions of the sets.
LEMMA LaterFacts ==
  /\ Later("in_progress") = Ends
  /\ Later("pending_triage") = Verdicts
  /\ Later("posted") = {"in_progress"} \cup Ends
  /\ \A s \in Ends : Later(s) = {}
BY DEF Later, Ends, Verdicts

\* Tracking follows from its parts: node n is seen to, the others are aside.
LEMMA TrackingParts ==
  ASSUME Engagement, NEW n \in Nodes, dag' # None, FeedSound', Blameless', Finale',
         Agrees(n)', Asked(n)',
         \A k \in Nodes \ {n} :
           /\ Aside(k) /\ News(k)' = News(k)
           /\ \/ Hand(k)' = Hand(k)
              \/ {Hand(k), Hand(k)'} \cap {"repost", "triage"} = {}
           /\ leads'[[kind |-> "review", node |-> k]] = leads[[kind |-> "review", node |-> k]]
           /\ leads'[[kind |-> "clarify", node |-> k]] = leads[[kind |-> "clarify", node |-> k]]
  PROVE  Tracking'
<1>1. ASSUME NEW k \in Nodes \ {n}
      PROVE  Agrees(k)' /\ Asked(k)'
  <2>1. Agrees(k) /\ Asked(k) /\ UNCHANGED setting
    BY DEF Engagement, Tracking
  <2>2. Agrees(k)'
    BY <2>1, AsideAgrees
  <2>3. Asked(k)'
    BY <2>1, AsideAsked
  <2> QED
    BY <2>2, <2>3
<1> QED
  BY <1>1 DEF Tracking

\* A put of node n, by whomever: its status is new and may come after what the feed holds.
LEMMA PutTracking ==
  ASSUME Engagement, NEW n \in Nodes, NEW rec \in SubQuest, EmitSubQuest(n, rec),
         ~rec.defeat, rec.status # sub[n].status, \A s \in News(n) : rec.status \in Later(s),
         UNCHANGED questCache
  PROVE  /\ FeedSound' /\ Blameless'
         /\ sub'[n] = rec /\ News(n)' = News(n) \cup {rec.status}
         /\ \A k \in Nodes \ {n} : sub'[k] = sub[k] /\ News(k)' = News(k)
<1>1. TypeOK /\ FeedSound /\ Blameless
  BY DEF Engagement, Shape, Tracking
<1>2. FeedSound'
  BY <1>1, EmitFeed
<1>3. /\ sub'[n] = rec /\ \A k \in Nodes \ {n} : sub'[k] = sub[k]
      /\ Len(feed) \in Nat /\ Len(feed') = Len(feed) + 1
      /\ \A i \in 1 .. Len(feed) : feed'[i] = feed[i]
      /\ feed'[Len(feed')].defeat = rec.defeat
  BY <1>1, EmitFacts
<1>4. \A i \in 1 .. Len(feed') : i \in 1 .. Len(feed) \/ i = Len(feed')
  BY <1>3
<1>5. Blameless'
  BY <1>1, <1>3, <1>4 DEF Blameless
<1>6. /\ News(n)' = News(n) \cup {rec.status}
      /\ \A k \in Nodes \ {n} : News(k)' = News(k)
  BY <1>1, EmitNews
<1> QED
  BY <1>2, <1>3, <1>5, <1>6

\* A member, or the DM, puts a sub-quest.
LEMMA OtherPutTracking ==
  ASSUME Engagement, NEW n \in Nodes, NEW rec \in SubQuest, EmitSubQuest(n, rec),
         ~rec.defeat, rec.status # sub[n].status, \A s \in News(n) : rec.status \in Later(s),
         UNCHANGED <<memory, loops>>, Agrees(n)', Asked(n)'
  PROVE  Tracking'
<1>1. UNCHANGED <<questCache, dag, todo, leads, synthesis>>
  BY DEF memory, loops
<1>2. /\ FeedSound' /\ Blameless'
      /\ \A k \in Nodes \ {n} : sub'[k] = sub[k] /\ News(k)' = News(k)
  BY <1>1, PutTracking
<1>3. Finale' /\ dag' # None
  BY <1>1 DEF Engagement, Tracking, Finale
<1>4. \A k \in Nodes : Hand(k)' = Hand(k)
  BY <1>1 DEF Hand
<1>5. \A k \in Nodes \ {n} : Aside(k)
  BY <1>1, <1>2 DEF Aside
<1> QED
  BY <1>1, <1>2, <1>3, <1>4, <1>5, TrackingParts

\* The member's attempt at node n ends.
LEMMA AttemptEnds ==
  ASSUME Engagement, NEW n \in Nodes, NEW rec \in SubQuest, EmitSubQuest(n, rec),
         sub[n].status = "in_progress", rec.status \in Ends, ~rec.defeat,
         rec.holder = sub[n].holder, UNCHANGED <<memory, loops>>
  PROVE  Tracking'
<1>1. Agrees(n) /\ Asked(n) /\ FeedSound /\ TypeOK
  BY DEF Engagement, Tracking, Shape
<1> DEFINE s == dag.state[n]
<1>2. s \in {"assigned", "in_progress"} /\ Hand(n) \notin {"repost", "triage"}
  BY <1>1 DEF Agrees, Fits, Current, Ends, Verdicts
<1>3. \A x \in News(n) : x = "in_progress" \/ "in_progress" \in Later(x)
  BY <1>1, KnownNews
<1>4. \A x \in News(n) : rec.status \in Later(x)
  BY <1>3 DEF Later, Ends, Verdicts
<1>5. UNCHANGED <<questCache, dag, todo, leads, setting>>
  BY DEF memory, loops, Engagement
<1>6. sub'[n] = rec /\ News(n)' = News(n) \cup {rec.status}
  BY <1>4, <1>5, PutTracking DEF Ends
<1>7. Hand(n)' = Hand(n)
  BY <1>5 DEF Hand
<1>8. Agrees(n)'
  <2>1. Fits(dag'.state[n], sub'[n].status, News(n)', questCache'[n], Hand(n)')
    BY <1>1, <1>2, <1>5, <1>6, <1>7 DEF Agrees, Fits, Awaited, Current, Ends
  <2> QED
    BY <1>1, <1>5, <1>6, <2>1 DEF Agrees, Calm
<1>9. Asked(n)'
  BY <1>1, <1>2, <1>5 DEF Asked
<1> QED
  BY <1>4, <1>8, <1>9, OtherPutTracking DEF Ends

LEMMA TriageEnds ==
  ASSUME Engagement, NEW n \in Nodes, NEW rec \in SubQuest, EmitSubQuest(n, rec),
         sub[n].status = "pending_triage", rec.status \in Verdicts, ~rec.defeat,
         UNCHANGED <<memory, loops>>
  PROVE  Tracking'
<1>1. Agrees(n) /\ Asked(n) /\ FeedSound /\ TypeOK
  BY DEF Engagement, Tracking, Shape
<1> DEFINE s == dag.state[n]
<1>2. s = "pending_triage" /\ Hand(n) \notin {"repost", "triage"}
  BY <1>1 DEF Agrees, Fits, Current, Ends, Verdicts
<1>3. \A x \in News(n) : x = "pending_triage"
  BY <1>1, <1>2, KnownNews DEF Agrees, Fits
<1>4. \A x \in News(n) : rec.status \in Later(x)
  BY <1>3 DEF Later, Ends, Verdicts
<1>5. UNCHANGED <<questCache, dag, todo, leads, setting>>
  BY DEF memory, loops, Engagement
<1>6. sub'[n] = rec /\ News(n)' = News(n) \cup {rec.status}
  BY <1>4, <1>5, PutTracking DEF Verdicts
<1>7. Hand(n)' = Hand(n)
  BY <1>5 DEF Hand
<1>8. Agrees(n)'
  <2>1. Fits(dag'.state[n], sub'[n].status, News(n)', questCache'[n], Hand(n)')
    BY <1>1, <1>2, <1>3, <1>5, <1>6, <1>7 DEF Agrees, Fits, Awaited, Current, Verdicts
  <2> QED
    BY <1>2, <1>5, <2>1 DEF Agrees
<1>9. Asked(n)'
  BY <1>1, <1>2, <1>5 DEF Asked
<1> QED
  BY <1>4, <1>8, <1>9, OtherPutTracking DEF Verdicts

LEMMA MembersTracking ==
  ASSUME Engagement, NEW n \in Nodes, Finish(n) \/ Ask(n) \/ TriageQuest(n)
  PROVE  Tracking'
<1>1. Shape /\ ~sub[n].defeat
  BY DEF Engagement, Tracking, Blameless
<1>2. CASE Finish(n)
  <2>1. PICK rec \in SubQuest :
              /\ rec.status \in {"in_review", "completed", "failed"}
              /\ rec.status = "failed" => ~rec.defeat
              /\ rec.status # "failed" => rec.defeat = sub[n].defeat
              /\ rec.holder = sub[n].holder
              /\ EmitSubQuest(n, rec)
    BY <1>1, <1>2, FinishEffect
  <2>2. sub[n].status = "in_progress" /\ UNCHANGED <<memory, loops>>
    BY <1>1, <1>2, FinishEffect
  <2> QED
    BY <1>1, <2>1, <2>2, AttemptEnds DEF Ends
<1>3. CASE Ask(n)
  <2>1. PICK rec \in SubQuest :
              /\ rec.status = "escalated" /\ rec.defeat = sub[n].defeat
              /\ rec.holder = sub[n].holder
              /\ EmitSubQuest(n, rec)
    BY <1>1, <1>3, AskEffect
  <2>2. sub[n].status = "in_progress" /\ UNCHANGED <<memory, loops>>
    BY <1>1, <1>3, AskEffect
  <2> QED
    BY <1>1, <2>1, <2>2, AttemptEnds DEF Ends
<1>4. CASE TriageQuest(n)
  <2>1. PICK rec \in SubQuest :
              /\ rec.status \in {"posted", "failed", "escalated"} /\ rec.defeat = sub[n].defeat
              /\ EmitSubQuest(n, rec)
    BY <1>1, <1>4, TriageQuestEffect
  <2>2. sub[n].status = "pending_triage" /\ UNCHANGED <<memory, loops>>
    BY <1>1, <1>4, TriageQuestEffect
  <2> QED
    BY <1>1, <2>1, <2>2, TriageEnds DEF Verdicts
<1> QED
  BY <1>2, <1>3, <1>4

-----------------------------------------------------------------------------
(* Handlers of events.                                                     *)

\* What the loop may take an event for.
LEMMA EventFacts ==
  ASSUME Engagement, Idle, feed # <<>>, feed' = Tail(feed), UNCHANGED sub,
         NEW e \in Event, e = feed[1], NEW n \in Nodes, n = e.node,
         questCache' = [questCache EXCEPT ![n] = e.status]
  PROVE  /\ FeedSound' /\ Blameless' /\ ~e.defeat
         /\ questCache'[n] = e.status
         /\ e.status \in Awaited(dag.state[n]) /\ sub[n].status \in Current(dag.state[n])
         /\ News(n) = News(n)' \cup {e.status}
         /\ News(n)' \subseteq Later(e.status)
         /\ News(n)' \subseteq Awaited(dag.state[n])
         /\ e.status \in Ends => News(n)' = {} /\ sub[n].status = e.status
         /\ \A k \in Nodes \ {n} : News(k)' = News(k) /\ questCache'[k] = questCache[k]
<1>1. TypeOK /\ FeedSound /\ Blameless /\ Agrees(n) /\ Ordered /\ questCache \in [Nodes -> QuestStatuses]
  BY DEF Engagement, Shape, TypeOK, Tracking, FeedSound
<1>2. FeedSound'
  BY <1>1, HandOutFeed
<1>3. /\ News(n) = News(n)' \cup {e.status} /\ News(n)' \subseteq Later(e.status)
      /\ \A k \in Nodes \ {n} : News(k)' = News(k)
  BY <1>1, HandOutNews
<1>4. Blameless' /\ ~e.defeat
  <2>1. /\ Len(feed) \in Nat \ {0} /\ Len(feed') = Len(feed) - 1
        /\ \A i \in 1 .. Len(feed') : feed'[i] = feed[i + 1]
    BY <1>1, HandOutFacts
  <2>2. 1 \in 1 .. Len(feed) /\ \A i \in 1 .. Len(feed') : i + 1 \in 1 .. Len(feed)
    BY <2>1
  <2> QED
    BY <1>1, <2>1, <2>2 DEF Blameless
<1>5. Hand(n) = "none"
  BY HandIdle
<1>6. News(n) \subseteq Awaited(dag.state[n]) /\ sub[n].status \in Current(dag.state[n])
  BY <1>1, <1>5 DEF Agrees, Fits
<1>7. ASSUME e.status \in Ends
      PROVE  News(n)' = {} /\ sub[n].status = e.status
  <2>1. News(n)' = {}
    BY <1>3, <1>7 DEF Later, Ends
  <2> QED
    BY <1>1, <1>3, <2>1, KnownNews
<1> QED
  BY <1>1, <1>2, <1>3, <1>4, <1>6, <1>7

LEMMA HandFirst ==
  ASSUME NEW n \in Nodes, todo' # <<>>, todo'[1].node = n
  PROVE  Hand(n)' = todo'[1].op /\ \A k \in Nodes \ {n} : Hand(k)' = "none"
BY DEF Hand

LEMMA HandElse ==
  ASSUME todo' = <<>> \/ todo'[1].op \notin {"repost", "triage"}, NEW n \in Nodes
  PROVE  Hand(n)' \notin {"repost", "triage"}
BY DEF Hand

\* An event is seen to by what its handler makes of its node.
LEMMA EventTracking ==
  ASSUME Engagement, Idle, NEW n \in Nodes, FeedSound', Blameless', Finale',
         dag' \in DAGExecutionState, Agrees(n)', Asked(n)', UNCHANGED sub,
         todo' = <<>> \/ todo'[1].node = n \/ todo'[1].op \notin {"repost", "triage"},
         \A k \in Nodes \ {n} :
           /\ dag'.state[k] = dag.state[k] \/ (dag.state[k] = "pending" /\ dag'.state[k] = "ready")
           /\ dag'.assignee[k] = dag.assignee[k]
           /\ News(k)' = News(k) /\ questCache'[k] = questCache[k]
           /\ leads'[[kind |-> "review", node |-> k]] = leads[[kind |-> "review", node |-> k]]
           /\ leads'[[kind |-> "clarify", node |-> k]] = leads[[kind |-> "clarify", node |-> k]]
  PROVE  Tracking'
<1>1. dag' # None
  BY NoneAssumption
<1>2. \A k \in Nodes \ {n} : Aside(k)
  BY DEF Aside
<1>3. \A k \in Nodes \ {n} : {Hand(k), Hand(k)'} \cap {"repost", "triage"} = {}
  BY HandIdle DEF Hand
<1> QED
  BY <1>1, <1>2, <1>3, TrackingParts

\* The lead's loops of a node.
LEMMA LoopsApart ==
  ASSUME TypeOK, NEW n \in Nodes, NEW kind \in {"review", "clarify"}, NEW x \in Nat,
         leads' = [leads EXCEPT ![[kind |-> kind, node |-> n]] = x]
  PROVE  /\ leads'[[kind |-> kind, node |-> n]] = x
         /\ \A k \in Nodes, y \in {"review", "clarify"} : k # n \/ y # kind =>
              leads'[[kind |-> y, node |-> k]] = leads[[kind |-> y, node |-> k]]
<1> DEFINE l == [kind |-> kind, node |-> n]
<1>1. leads \in [LeadLoops -> Nat] /\ l \in LeadLoops
  BY DEF TypeOK, LeadLoops
<1>2. ASSUME NEW k \in Nodes, NEW y \in {"review", "clarify"}, k # n \/ y # kind
      PROVE  [kind |-> y, node |-> k] \in LeadLoops /\ [kind |-> y, node |-> k] # l
  BY <1>2 DEF LeadLoops
<1> HIDE DEF l
<1>3. leads' = [leads EXCEPT ![l] = x]
  BY DEF l
<1>4. leads'[l] = x
  BY <1>1, <1>3
<1>5. \A k \in Nodes, y \in {"review", "clarify"} : k # n \/ y # kind =>
              leads'[[kind |-> y, node |-> k]] = leads[[kind |-> y, node |-> k]]
  BY <1>1, <1>2, <1>3
<1> QED
  BY <1>4, <1>5 DEF l

\* A task for the lead is out, or it failed to be published.
LEMMA DispatchEffect ==
  ASSUME TypeOK, NEW n \in Nodes, NEW kind \in {"review", "clarify"}, Dispatch(kind, n)
  PROVE  /\ \/ leads'[[kind |-> kind, node |-> n]] = leads[[kind |-> kind, node |-> n]] + 1
            \/ leads'[[kind |-> kind, node |-> n]] = leads[[kind |-> kind, node |-> n]]
         /\ \A k \in Nodes, y \in {"review", "clarify"} : k # n \/ y # kind =>
              leads'[[kind |-> y, node |-> k]] = leads[[kind |-> y, node |-> k]]
<1> DEFINE x == leads[[kind |-> kind, node |-> n]] + 1
<1>1. x \in Nat
  <2>1. [kind |-> kind, node |-> n] \in LeadLoops /\ leads \in [LeadLoops -> Nat]
    BY DEF TypeOK, LeadLoops
  <2>2. leads[[kind |-> kind, node |-> n]] \in Nat
    BY <2>1
  <2> QED
    BY <2>2
<1>2. leads' = [leads EXCEPT ![[kind |-> kind, node |-> n]] = x] \/ leads' = leads
  BY DEF Dispatch
<1>3. CASE leads' = [leads EXCEPT ![[kind |-> kind, node |-> n]] = x]
  <2> HIDE DEF x
  <2>1. /\ leads'[[kind |-> kind, node |-> n]] = x
        /\ \A k \in Nodes, y \in {"review", "clarify"} : k # n \/ y # kind =>
             leads'[[kind |-> y, node |-> k]] = leads[[kind |-> y, node |-> k]]
    BY <1>1, <1>3, LoopsApart
  <2> QED
    BY <2>1 DEF x
<1>4. CASE leads' = leads
  BY <1>4
<1> QED
  BY <1>2, <1>3, <1>4

\* Without duplicates a result is the last of its loop.
LEMMA ResultEffect ==
  ASSUME Engagement, NEW n \in Nodes, NEW kind \in {"review", "clarify"}, Result(kind, n)
  PROVE  /\ Idle
         /\ leads[[kind |-> kind, node |-> n]] = 1 /\ leads'[[kind |-> kind, node |-> n]] = 0
         /\ \A k \in Nodes, y \in {"review", "clarify"} : k # n \/ y # kind =>
              leads'[[kind |-> y, node |-> k]] = leads[[kind |-> y, node |-> k]]
<1> DEFINE l == [kind |-> kind, node |-> n]
<1>1. TypeOK /\ Asked(n) /\ ~Mishap("duplicate")
  BY BenignMishap DEF Engagement, Shape, Tracking
<1>2. leads' = [leads EXCEPT ![l] = leads[l] - 1] /\ leads[l] > 0 /\ Idle
  BY <1>1 DEF Result
<1>3. leads[l] = 1
  BY <1>1, <1>2 DEF Asked
<1>4. leads' = [leads EXCEPT ![l] = 0] /\ 0 \in Nat
  BY <1>2, <1>3
<1>5. /\ leads'[l] = 0
      /\ \A k \in Nodes, y \in {"review", "clarify"} : k # n \/ y # kind =>
              leads'[[kind |-> y, node |-> k]] = leads[[kind |-> y, node |-> k]]
  BY <1>1, <1>4, LoopsApart
<1> QED
  BY <1>2, <1>3, <1>5

\* What the loop learns from an event of n with the status s.
Told(n, s) ==
  /\ Idle /\ UNCHANGED <<sub, setting>>
  /\ FeedSound' /\ Blameless'
  /\ questCache'[n] = s
  /\ s \in Awaited(dag.state[n]) /\ sub[n].status \in Current(dag.state[n])
  /\ News(n) = News(n)' \cup {s}
  /\ News(n)' \subseteq Later(s)
  /\ News(n)' \subseteq Awaited(dag.state[n])
  /\ s \in Ends => News(n)' = {} /\ sub[n].status = s
  /\ \A k \in Nodes \ {n} : News(k)' = News(k) /\ questCache'[k] = questCache[k]

LEMMA PersistFirst ==
  ASSUME NEW n \in Nodes, todo' = <<Do("persist", n)>>
  PROVE  todo' # <<>> /\ todo'[1].op = "persist" /\ Hand(n)' \notin {"repost", "triage"}
<1>1. Do("persist", n).op = "persist"
  BY DoType DEF Ops
<1>2. todo'[1].op = "persist" /\ todo' # <<>>
  BY <1>1
<1> QED
  BY <1>2, HandElse

\* A node that is not completed has no end prepared.
LEMMA NoFinale ==
  ASSUME Engagement, NEW n \in Nodes, dag.state[n] # "completed"
  PROVE  /\ synthesis = 0
         /\ \A i \in 1 .. Len(todo) : todo[i].op \notin {"tally", "metrics", "submit"}
BY DEF Engagement, Tracking, Finale, Shape, TypeOK

LEMMA ToldStarted ==
  ASSUME Engagement, NEW n \in Nodes, Told(n, "in_progress"), Becomes(dag, n, "in_progress"),
         UNCHANGED loops
  PROVE  Tracking'
<1>1. dag \in DAGExecutionState /\ Agrees(n) /\ Asked(n)
  BY IdleDag DEF Engagement, Tracking
<1>2. Moved(n, "in_progress") /\ Ordinary(todo') /\ todo' = <<Do("persist", n)>>
  BY <1>1, BecomesEffect DEF NodeStates
<1>3. Hand(n)' \notin {"repost", "triage"} /\ todo'[1].op = "persist"
  BY <1>2, PersistFirst
<1>4. dag.state[n] = "assigned" /\ Hand(n) = "none"
  BY HandIdle DEF Told, Awaited, Ends, Verdicts
<1>5. Agrees(n)'
  <2>1. Fits(dag'.state[n], sub'[n].status, News(n)', questCache'[n], Hand(n)')
    BY <1>1, <1>2, <1>3, <1>4, LaterFacts DEF Told, Moved, Fits, Awaited, Current, Agrees
  <2> QED
    BY <1>1, <1>2, <1>4, <2>1 DEF Agrees, Moved, Told
<1>6. Asked(n)'
  BY <1>1, <1>4 DEF Asked, loops
<1>7. Finale'
  BY <1>2, <1>4, NoFinale, NewPlanFinale DEF loops
<1> QED
  BY <1>2, <1>3, <1>5, <1>6, <1>7, EventTracking DEF Told, Moved, loops

LEMMA ToldFinished ==
  ASSUME Engagement, NEW n \in Nodes, Told(n, "in_review"), Becomes(dag, n, "pending_review"),
         DispatchLeadReview(n), UNCHANGED synthesis
  PROVE  Tracking'
<1>1. dag \in DAGExecutionState /\ Agrees(n) /\ Asked(n) /\ TypeOK
  BY IdleDag DEF Engagement, Tracking, Shape
<1>2. Moved(n, "pending_review") /\ Ordinary(todo') /\ todo' = <<Do("persist", n)>>
  BY <1>1, BecomesEffect DEF NodeStates
<1>3. Hand(n)' \notin {"repost", "triage"} /\ todo'[1].op = "persist"
  BY <1>2, PersistFirst
<1>4. dag.state[n] \in {"assigned", "in_progress"} /\ Hand(n) = "none"
  BY HandIdle DEF Told, Awaited, Ends, Verdicts
<1>5. /\ \/ leads'[[kind |-> "review", node |-> n]] = leads[[kind |-> "review", node |-> n]] + 1
         \/ leads'[[kind |-> "review", node |-> n]] = leads[[kind |-> "review", node |-> n]]
      /\ \A k \in Nodes, y \in {"review", "clarify"} : k # n \/ y # "review" =>
              leads'[[kind |-> y, node |-> k]] = leads[[kind |-> y, node |-> k]]
  BY <1>1, DispatchEffect DEF DispatchLeadReview
<1>6. sub[n].status = "in_review" /\ News(n)' = {} /\ UNCHANGED sub
  BY DEF Told, Ends
<1>7. Agrees(n)'
  <2>1. Fits(dag'.state[n], sub'[n].status, News(n)', questCache'[n], Hand(n)')
    BY <1>1, <1>2, <1>3, <1>4, <1>6 DEF Told, Moved, Fits, Awaited, Current, Agrees
  <2> QED
    BY <1>1, <1>2, <1>4, <1>6, <2>1 DEF Agrees, Moved, Told
<1>8. Asked(n)'
  BY <1>1, <1>2, <1>4, <1>5, <1>6 DEF Asked, Moved
<1>9. Finale'
  BY <1>2, <1>4, NoFinale, NewPlanFinale
<1> QED
  BY <1>2, <1>3, <1>5, <1>7, <1>8, <1>9, EventTracking DEF Told, Moved

LEMMA ToldAsking ==
  ASSUME Engagement, NEW n \in Nodes, Told(n, "escalated"), dag.state[n] # "pending_triage",
         Becomes(dag, n, "awaiting_clarification"),
         DispatchLeadClarification(n), UNCHANGED synthesis
  PROVE  Tracking'
<1>1. dag \in DAGExecutionState /\ Agrees(n) /\ Asked(n) /\ TypeOK
  BY IdleDag DEF Engagement, Tracking, Shape
<1>2. Moved(n, "awaiting_clarification") /\ Ordinary(todo') /\ todo' = <<Do("persist", n)>>
  BY <1>1, BecomesEffect DEF NodeStates
<1>3. Hand(n)' \notin {"repost", "triage"} /\ todo'[1].op = "persist"
  BY <1>2, PersistFirst
<1>4. dag.state[n] \in {"assigned", "in_progress"} /\ Hand(n) = "none"
  BY HandIdle DEF Told, Awaited, Ends, Verdicts
<1>5. /\ \/ leads'[[kind |-> "clarify", node |-> n]] = leads[[kind |-> "clarify", node |-> n]] + 1
         \/ leads'[[kind |-> "clarify", node |-> n]] = leads[[kind |-> "clarify", node |-> n]]
      /\ \A k \in Nodes, y \in {"review", "clarify"} : k # n \/ y # "clarify" =>
              leads'[[kind |-> y, node |-> k]] = leads[[kind |-> y, node |-> k]]
  BY <1>1, DispatchEffect DEF DispatchLeadClarification
<1>6. sub[n].status = "escalated" /\ News(n)' = {} /\ UNCHANGED sub
  BY DEF Told, Ends
<1>7. Agrees(n)'
  <2>1. Fits(dag'.state[n], sub'[n].status, News(n)', questCache'[n], Hand(n)')
    BY <1>1, <1>2, <1>3, <1>4, <1>6 DEF Told, Moved, Fits, Awaited, Current, Agrees
  <2> QED
    BY <1>1, <1>2, <1>4, <1>6, <2>1 DEF Agrees, Moved, Told
<1>8. Asked(n)'
  BY <1>1, <1>2, <1>4, <1>5, <1>6 DEF Asked, Moved
<1>9. Finale'
  BY <1>2, <1>4, NoFinale, NewPlanFinale
<1> QED
  BY <1>2, <1>3, <1>5, <1>7, <1>8, <1>9, EventTracking DEF Told, Moved

LEMMA ToldCompleted ==
  ASSUME Engagement, NEW n \in Nodes, Told(n, "completed"), HandleNodeCompleted(dag, n),
         UNCHANGED leads
  PROVE  Tracking'
<1>1. dag \in DAGExecutionState /\ Agrees(n) /\ Asked(n) /\ TypeOK
  BY IdleDag DEF Engagement, Tracking, Shape
<1>2. dag.state[n] \in {"assigned", "in_progress", "pending_review"} /\ Hand(n) = "none"
  BY HandIdle DEF Told, Awaited, Ends, Verdicts
<1>3. /\ dag' \in DAGExecutionState
      /\ dag'.state[n] = "completed" /\ dag'.assignee = dag.assignee
      /\ \A k \in Nodes \ {n} : \/ dag'.state[k] = dag.state[k]
                                \/ dag.state[k] = "pending" /\ dag'.state[k] = "ready"
      /\ \/ /\ \A k \in Nodes : dag'.state[k] = "completed"
            /\ \/ todo' = <<Do("persist", n)>>
               \/ Delivering(todo')
         \/ /\ todo' = <<Do("assign", n), Do("persist", n)>> /\ Ordinary(todo')
            /\ synthesis' = synthesis
  BY <1>1, NodeCompletedEffect DEF TypeOK
<1>4. todo'[1].op \notin {"repost", "triage"}
  <2>1. Do("persist", n).op = "persist" /\ Do("assign", n).op = "assign"
    BY DoType DEF Ops
  <2>2. CASE Delivering(todo')
    BY <2>2 DEF Delivering
  <2> QED
    BY <1>3, <2>1, <2>2
<1>5. Hand(n)' \notin {"repost", "triage"}
  BY <1>4, HandElse
<1>6. sub[n].status = "completed" /\ News(n)' = {} /\ UNCHANGED sub
  BY DEF Told, Ends
<1>7. Agrees(n)'
  <2>1. Fits(dag'.state[n], sub'[n].status, News(n)', questCache'[n], Hand(n)')
    BY <1>1, <1>2, <1>3, <1>5, <1>6 DEF Fits, Awaited, Current
  <2> QED
    BY <1>3, <2>1 DEF Agrees
<1>8. Asked(n)'
  BY <1>1, <1>2, <1>3, <1>6 DEF Asked
<1>9. Finale'
  <2>1. CASE \A k \in Nodes : dag'.state[k] = "completed"
    BY <2>1 DEF Finale
  <2>2. CASE Ordinary(todo') /\ synthesis' = synthesis
    BY <1>2, <2>2, NoFinale, NewPlanFinale
  <2> QED
    BY <1>3, <2>1, <2>2
<1> QED
  BY <1>3, <1>4, <1>7, <1>8, <1>9, EventTracking DEF Told

\* A node failed: its sub-quest is put back, or in triage, or the parent is given up.
LEMMA FailedTracking ==
  ASSUME Engagement, Idle, NEW n \in Nodes, FeedSound', Blameless', HandleNodeFailed(dag, n),
         dag.state[n] # "completed", UNCHANGED <<sub, synthesis>>,
         sub[n].status \in {"failed", "in_review"}, News(n)' = {},
         \A y \in {"review", "clarify"} : leads'[[kind |-> y, node |-> n]] = 0,
         \A k \in Nodes \ {n} :
           /\ News(k)' = News(k) /\ questCache'[k] = questCache[k]
           /\ leads'[[kind |-> "review", node |-> k]] = leads[[kind |-> "review", node |-> k]]
           /\ leads'[[kind |-> "clarify", node |-> k]] = leads[[kind |-> "clarify", node |-> k]]
  PROVE  Tracking' \/ Escalating'
<1>1. dag \in DAGExecutionState /\ TypeOK
  BY IdleDag DEF Engagement, Tracking, Shape
<1>2. \/ /\ Reopened(n) /\ Ordinary(todo')
         /\ todo' = <<Do("repost", n), Do("assign", n), Do("persist", n)>>
      \/ /\ Moved(n, "pending_triage") /\ Ordinary(todo')
         /\ todo' = <<Do("triage", n), Do("persist", n)>>
      \/ Moved(n, "failed") /\ GivingUp(todo')
  BY <1>1, NodeFailedEffect DEF TypeOK
<1>3. ASSUME NEW op \in {"repost", "triage"}, Ordinary(todo'), todo'[1] = Do(op, n),
             dag' \in DAGExecutionState,
             op = "repost" => dag'.state[n] \in {"pending", "ready"},
             op = "triage" => dag'.state[n] = "pending_triage",
             \A k \in Nodes \ {n} :
               /\ \/ dag'.state[k] = dag.state[k]
                  \/ dag.state[k] = "pending" /\ dag'.state[k] = "ready"
               /\ dag'.assignee[k] = dag.assignee[k]
      PROVE  Tracking'
  <2>1. todo'[1].op = op /\ todo'[1].node = n /\ todo' # <<>>
    BY <1>3, DoType DEF Ops, Ordinary
  <2>2. Hand(n)' = op
    BY <2>1, HandFirst
  <2>3. Agrees(n)'
    <3>1. Fits(dag'.state[n], sub'[n].status, News(n)', questCache'[n], Hand(n)')
      BY <1>3, <2>2 DEF Fits, Awaited, Current
    <3> QED
      BY <1>3, <3>1 DEF Agrees
  <2>4. Asked(n)'
    BY DEF Asked
  <2>5. Finale'
    BY <1>3, NoFinale, NewPlanFinale
  <2> QED
    BY <1>3, <2>1, <2>3, <2>4, <2>5, EventTracking
<1>4. CASE Reopened(n) /\ Ordinary(todo') /\ todo' = <<Do("repost", n), Do("assign", n), Do("persist", n)>>
  BY <1>3, <1>4 DEF Reopened
<1>5. CASE Moved(n, "pending_triage") /\ Ordinary(todo') /\ todo' = <<Do("triage", n), Do("persist", n)>>
  BY <1>3, <1>5 DEF Moved
<1> QED
  BY <1>2, <1>4, <1>5, GivingUpEscalates

\* No loop of the lead is about a node that is neither in review nor waiting for an answer.
LEMMA Unasked ==
  ASSUME Engagement, NEW n \in Nodes,
         ~(dag.state[n] = "pending_review" /\ sub[n].status = "in_review"),
         dag.state[n] # "awaiting_clarification"
  PROVE  \A y \in {"review", "clarify"} : leads[[kind |-> y, node |-> n]] = 0
<1>1. Asked(n)
  BY DEF Engagement, Tracking
<1> QED
  BY <1>1 DEF Asked

LEMMA ToldFailed ==
  ASSUME Engagement, NEW n \in Nodes, Told(n, "failed"), dag.state[n] # "pending_triage",
         HandleNodeFailed(dag, n), UNCHANGED loops
  PROVE  Tracking' \/ Escalating'
<1>1. sub[n].status = "failed" /\ News(n)' = {}
  BY DEF Told, Ends
<1>2. dag.state[n] \in {"assigned", "in_progress", "pending_review"}
  BY DEF Told, Awaited, Ends, Verdicts
<1>3. \A y \in {"review", "clarify"} : leads'[[kind |-> y, node |-> n]] = 0
  BY <1>1, <1>2, Unasked DEF loops
<1> QED
  BY <1>1, <1>2, <1>3, FailedTracking DEF Told, loops

LEMMA ToldTriage ==
  ASSUME Engagement, NEW n \in Nodes, Told(n, "pending_triage"),
         Becomes(dag, n, "pending_triage"), UNCHANGED loops
  PROVE  Tracking'
<1>1. dag \in DAGExecutionState /\ Agrees(n) /\ Asked(n)
  BY IdleDag DEF Engagement, Tracking
<1>2. Moved(n, "pending_triage") /\ Ordinary(todo') /\ todo' = <<Do("persist", n)>>
  BY <1>1, BecomesEffect DEF NodeStates
<1>3. Hand(n)' \notin {"repost", "triage"} /\ todo'[1].op = "persist"
  BY <1>2, PersistFirst
<1>4. dag.state[n] = "pending_triage" /\ Hand(n) = "none"
  BY HandIdle DEF Told, Awaited, Ends, Verdicts
<1>5. Agrees(n)'
  <2>1. Fits(dag'.state[n], sub'[n].status, News(n)', questCache'[n], Hand(n)')
    BY <1>1, <1>2, <1>3, <1>4 DEF Told, Moved, Fits, Agrees
  <2> QED
    BY <1>2, <2>1 DEF Agrees, Moved
<1>6. Asked(n)'
  BY <1>1, <1>4 DEF Asked, loops
<1>7. Finale'
  BY <1>2, <1>4, NoFinale, NewPlanFinale DEF loops
<1> QED
  BY <1>2, <1>3, <1>5, <1>6, <1>7, EventTracking DEF Told, Moved, loops

LEMMA ToldSalvaged ==
  ASSUME Engagement, NEW n \in Nodes, Told(n, "posted"), dag.state[n] = "pending_triage",
         dag' = Reopen(dag, n), todo' = <<Do("assign", n), Do("persist", n)>>, UNCHANGED loops
  PROVE  Tracking'
<1>1. dag \in DAGExecutionState /\ Agrees(n) /\ Hand(n) = "none"
  BY IdleDag, HandIdle DEF Engagement, Tracking, Told
<1>2. Reopened(n)
  BY <1>1, ReopenFacts DEF Reopened
<1>3. Do("assign", n).op = "assign" /\ Ordinary(todo')
  BY DoType, PlanAssign DEF Ops
<1>4. todo'[1].op = "assign"
  BY <1>3
<1>5. Hand(n)' \notin {"repost", "triage"}
  BY <1>4, HandElse
<1>6. sub[n].status = "posted" /\ News(n)' = {}
  BY <1>1 DEF Agrees, Fits, Told, Later, Ends
<1>7. Agrees(n)'
  <2>1. Fits(dag'.state[n], sub'[n].status, News(n)', questCache'[n], Hand(n)')
    BY <1>2, <1>5, <1>6 DEF Told, Reopened, Fits, Awaited, Current
  <2> QED
    BY <1>2, <2>1 DEF Agrees, Reopened
<1>8. Asked(n)'
  BY Unasked DEF Asked, loops
<1>9. Finale'
  BY <1>3, NoFinale, NewPlanFinale DEF loops
<1> QED
  BY <1>2, <1>4, <1>7, <1>8, <1>9, EventTracking DEF Told, Reopened, loops

LEMMA ToldPosted ==
  ASSUME Engagement, NEW n \in Nodes, Told(n, "posted"), dag.state[n] # "pending_triage",
         todo' = <<Do("persist", n)>>, UNCHANGED <<dag, loops>>
  PROVE  Tracking'
<1>1. dag \in DAGExecutionState /\ Agrees(n) /\ Asked(n) /\ Hand(n) = "none"
  BY IdleDag, HandIdle DEF Engagement, Tracking, Told
<1>2. Hand(n)' \notin {"repost", "triage"} /\ todo'[1].op = "persist" /\ Ordinary(todo')
  BY PersistFirst, PlanPersist
<1>3. dag.state[n] \in {"pending", "ready", "assigned"}
  BY DEF Told, Awaited, Ends, Verdicts
<1>4. Agrees(n)'
  <2>1. Fits(dag'.state[n], sub'[n].status, News(n)', questCache'[n], Hand(n)')
    BY <1>1, <1>2, <1>3 DEF Told, Fits, Agrees
  <2> QED
    BY <1>1, <1>3, <2>1 DEF Agrees, Told, Calm
<1>5. Asked(n)'
  BY <1>1 DEF Asked, loops, Told
<1>6. Finale'
  BY <1>2, <1>3, NoFinale, NewPlanFinale DEF loops
<1> QED
  BY <1>1, <1>2, <1>4, <1>5, <1>6, EventTracking DEF Told, loops

LEMMA TransitionTracking ==
  ASSUME Engagement, OnSubQuestTransition
  PROVE  Tracking' \/ Escalating'
<1> DEFINE e == Head(feed)
<1>1. /\ Idle /\ feed # <<>> /\ feed' = Tail(feed)
      /\ questCache' = [questCache EXCEPT ![e.node] = e.status]
      /\ UNCHANGED <<sub, setting>>
  BY DEF OnSubQuestTransition
<1>2. e = feed[1] /\ e \in Event /\ e.node \in Nodes /\ e.status \in QuestStatuses
  BY <1>1, HandOutFacts DEF Engagement, Shape, Event
<1>3. dag # None /\ questCache[e.node] # e.status
  BY <1>1, <1>2, HandOutFeed DEF Engagement, Shape, Tracking
<1>4. HandleSubQuestTransition(e)
  BY <1>3 DEF OnSubQuestTransition
<1> HIDE DEF e
<1>5. PICK n \in Nodes, s \in QuestStatuses : n = e.node /\ s = e.status
  BY <1>2
<1>6. Told(n, s) /\ ~e.defeat
  BY <1>1, <1>2, <1>5, EventFacts DEF Told
<1>7. dag \in DAGExecutionState
  BY <1>1, <1>3, IdleDag DEF Engagement
<1>8. CASE s = "in_progress"
  BY <1>4, <1>5, <1>6, <1>8, ToldStarted DEF HandleSubQuestTransition
<1>9. CASE s = "in_review"
  BY <1>4, <1>5, <1>6, <1>9, ToldFinished DEF HandleSubQuestTransition
<1>10. CASE s = "completed"
  BY <1>4, <1>5, <1>6, <1>10, ToldCompleted DEF HandleSubQuestTransition
<1>11. CASE s = "failed" /\ dag.state[n] # "pending_triage"
  BY <1>4, <1>5, <1>6, <1>11, ToldFailed DEF HandleSubQuestTransition
<1>12. CASE s \in {"failed", "escalated"} /\ dag.state[n] = "pending_triage"
  <2>1. HandleTriageTerminal(dag, n)
    BY <1>4, <1>5, <1>12 DEF HandleSubQuestTransition
  <2> QED
    BY <1>7, <2>1, TriageTerminalEffect, GivingUpEscalates
<1>13. CASE s = "escalated" /\ dag.state[n] # "pending_triage"
  BY <1>4, <1>5, <1>6, <1>13, ToldAsking DEF HandleSubQuestTransition
<1>14. CASE s = "pending_triage"
  BY <1>4, <1>5, <1>6, <1>14, ToldTriage DEF HandleSubQuestTransition
<1>15. CASE s = "posted" /\ dag.state[n] = "pending_triage"
  BY <1>4, <1>5, <1>6, <1>15, ToldSalvaged DEF HandleSubQuestTransition
<1>16. CASE s = "posted" /\ dag.state[n] # "pending_triage"
  BY <1>4, <1>5, <1>6, <1>16, ToldPosted DEF HandleSubQuestTransition
<1> QED
  BY <1>8, <1>9, <1>10, <1>11, <1>12, <1>13, <1>14, <1>15, <1>16 DEF QuestStatuses

\* A sub-quest in review is what its last event says, and nothing else is on its way.
LEMMA ReviewFacts ==
  ASSUME Engagement, Idle, NEW n \in Nodes, leads[[kind |-> "review", node |-> n]] > 0
  PROVE  /\ dag.state[n] = "pending_review" /\ sub[n].status = "in_review" /\ News(n) = {}
         /\ leads[[kind |-> "clarify", node |-> n]] = 0
         /\ leads[[kind |-> "review", node |-> n]] = 1
<1>1. Agrees(n) /\ Asked(n) /\ FeedSound /\ TypeOK
  BY DEF Engagement, Tracking, Shape
<1>2. /\ dag.state[n] = "pending_review" /\ sub[n].status = "in_review"
      /\ leads[[kind |-> "clarify", node |-> n]] = 0
      /\ leads[[kind |-> "review", node |-> n]] = 1
  BY <1>1 DEF Asked
<1>3. News(n) \subseteq {"completed", "failed"}
  BY <1>1, <1>2 DEF Agrees, Fits, Awaited
<1>4. \A s \in News(n) : s = "in_review" \/ "in_review" \in Later(s)
  BY <1>1, <1>2, KnownNews
<1>5. News(n) = {}
  BY <1>3, <1>4 DEF Later
<1> QED
  BY <1>2, <1>5

LEMMA VerdictTracking ==
  ASSUME Engagement, NEW n \in Nodes, OnReviewCompleted(n)
  PROVE  Tracking'
<1> DEFINE r == [kind |-> "review", node |-> n]
<1>1. /\ Idle /\ leads[r] = 1 /\ leads'[r] = 0
      /\ \A k \in Nodes, y \in {"review", "clarify"} : k # n \/ y # "review" =>
              leads'[[kind |-> y, node |-> k]] = leads[[kind |-> y, node |-> k]]
  BY ResultEffect DEF OnReviewCompleted
<1>2. /\ dag.state[n] = "pending_review" /\ sub[n].status = "in_review" /\ News(n) = {}
      /\ leads[[kind |-> "clarify", node |-> n]] = 0
  BY <1>1, ReviewFacts
<1>3. PICK verdict \in {"completed", "failed"} : EmitSubQuest(n, [sub[n] EXCEPT !.status = verdict])
  BY DEF OnReviewCompleted
<1> DEFINE rec == [sub[n] EXCEPT !.status = verdict]
<1>4. Agrees(n) /\ Asked(n) /\ TypeOK /\ Blameless /\ dag # None
  BY DEF Engagement, Tracking, Shape
<1>5. verdict \in QuestStatuses
  BY DEF QuestStatuses
<1>6. /\ rec \in SubQuest /\ rec.status = verdict /\ rec.holder = sub[n].holder
      /\ rec.defeat = sub[n].defeat
  BY <1>4, <1>5, StatusPut
<1>7. EmitSubQuest(n, rec)
  BY <1>3
<1> HIDE DEF rec
<1>8. UNCHANGED <<memory, synthesis, setting>>
  BY DEF OnReviewCompleted
<1>9. ~rec.defeat /\ rec.status # sub[n].status /\ \A s \in News(n) : rec.status \in Later(s)
  BY <1>2, <1>4, <1>6 DEF Blameless
<1>10. /\ FeedSound' /\ Blameless'
       /\ sub'[n] = rec /\ News(n)' = News(n) \cup {rec.status}
       /\ \A k \in Nodes \ {n} : sub'[k] = sub[k] /\ News(k)' = News(k)
  BY <1>6, <1>7, <1>8, <1>9, PutTracking DEF memory
<1>11. UNCHANGED <<questCache, dag, todo>>
  BY <1>8 DEF memory
<1>12. \A k \in Nodes : Hand(k)' = Hand(k)
  BY <1>11 DEF Hand
<1>13. Finale'
  BY <1>8, <1>11 DEF Engagement, Tracking, Finale
<1>14. Agrees(n)'
  <2>1. Fits(dag'.state[n], sub'[n].status, News(n)', questCache'[n], Hand(n)')
    BY <1>1, <1>2, <1>4, <1>6, <1>10, <1>11, <1>12, HandIdle DEF Agrees, Fits, Awaited, Current
  <2> QED
    BY <1>2, <1>4, <1>6, <1>10, <1>11, <2>1 DEF Agrees
<1>15. Asked(n)'
  BY <1>1, <1>2 DEF Asked
<1>16. \A k \in Nodes \ {n} : Aside(k)
  BY <1>10, <1>11 DEF Aside
<1> QED
  BY <1>1, <1>4, <1>10, <1>11, <1>12, <1>13, <1>14, <1>15, <1>16, TrackingParts

LEMMA ReviewFailedTracking ==
  ASSUME Engagement, NEW n \in Nodes, OnReviewFailed(n)
  PROVE  Tracking' \/ Escalating'
<1> DEFINE r == [kind |-> "review", node |-> n]
<1>1. /\ dag # None /\ Idle /\ leads[r] > 0
      /\ UNCHANGED <<entities, fresh, questCache, party, rollup, synthesis, cancel, setting>>
  BY DEF OnReviewFailed, Result
<1>2. TypeOK /\ FeedSound /\ Blameless /\ ~Mishap("duplicate")
  BY BenignMishap DEF Engagement, Tracking, Shape
<1>3. /\ dag.state[n] = "pending_review" /\ sub[n].status = "in_review" /\ News(n) = {}
      /\ leads[[kind |-> "clarify", node |-> n]] = 0 /\ leads[r] = 1
  BY <1>1, ReviewFacts
<1>4. UNCHANGED <<sub, feed, questCache, synthesis, setting>>
  BY <1>1 DEF entities
<1>5. FeedSound' /\ Blameless' /\ \A k \in Nodes : News(k)' = News(k)
  BY <1>2, <1>4 DEF FeedSound, Ordered, Noticed, Known, Blameless, News
<1>6. CASE /\ leads' = leads \/ leads' = [leads EXCEPT ![r] = @ - 1]
           /\ UNCHANGED <<dag, todo>>
  <2>1. leads' = leads \/ leads' = [leads EXCEPT ![r] = 0]
    BY <1>3, <1>6
  <2>2. leads'[r] \in {0, 1}
        /\ \A k \in Nodes, y \in {"review", "clarify"} : k # n \/ y # "review" =>
              leads'[[kind |-> y, node |-> k]] = leads[[kind |-> y, node |-> k]]
    <3>1. CASE leads' = leads
      BY <1>3, <3>1
    <3>2. CASE leads' = [leads EXCEPT ![r] = 0]
      <4>1. 0 \in Nat
        OBVIOUS
      <4>2. /\ leads'[r] = 0
            /\ \A k \in Nodes, y \in {"review", "clarify"} : k # n \/ y # "review" =>
              leads'[[kind |-> y, node |-> k]] = leads[[kind |-> y, node |-> k]]
        BY <1>2, <3>2, <4>1, LoopsApart
      <4> QED
        BY <4>2
    <3> QED
      BY <2>1, <3>1, <3>2
  <2>3. \A k \in Nodes : Hand(k)' = Hand(k)
    BY <1>6 DEF Hand
  <2>4. Agrees(n)' /\ Finale' /\ dag' # None
    BY <1>4, <1>5, <1>6, <2>3 DEF Engagement, Tracking, Agrees, Finale, Calm
  <2>5. Asked(n)'
    BY <1>3, <1>4, <1>6, <2>2 DEF Asked
  <2>6. \A k \in Nodes \ {n} : Aside(k)
    BY <1>4, <1>6 DEF Aside
  <2> QED
    BY <1>5, <2>2, <2>3, <2>4, <2>5, <2>6, TrackingParts
<1>7. CASE Result("review", n) /\ HandleNodeFailed(dag, n)
  <2>1. /\ leads'[r] = 0
        /\ \A k \in Nodes, y \in {"review", "clarify"} : k # n \/ y # "review" =>
              leads'[[kind |-> y, node |-> k]] = leads[[kind |-> y, node |-> k]]
    BY <1>7, ResultEffect
  <2>2. \A y \in {"review", "clarify"} : leads'[[kind |-> y, node |-> n]] = 0
    BY <1>3, <2>1
  <2> QED
    BY <1>1, <1>3, <1>4, <1>5, <1>7, <2>1, <2>2, FailedTracking
<1> QED
  BY <1>2, <1>6, <1>7 DEF OnReviewFailed

\* The question of a member is the last that is heard of its sub-quest.
LEMMA ClarifyFacts ==
  ASSUME Engagement, Idle, NEW n \in Nodes, leads[[kind |-> "clarify", node |-> n]] > 0
  PROVE  /\ dag.state[n] = "awaiting_clarification" /\ sub[n].status = "escalated" /\ News(n) = {}
         /\ leads[[kind |-> "review", node |-> n]] = 0
         /\ leads[[kind |-> "clarify", node |-> n]] = 1
         /\ dag.assignee[n] = sub[n].holder
<1>1. Agrees(n) /\ Asked(n) /\ Hand(n) = "none"
  BY HandIdle DEF Engagement, Tracking, Shape
<1>2. /\ dag.state[n] = "awaiting_clarification"
      /\ leads[[kind |-> "review", node |-> n]] = 0
      /\ leads[[kind |-> "clarify", node |-> n]] = 1
  BY <1>1 DEF Asked
<1> QED
  BY <1>1, <1>2 DEF Agrees, Fits, Awaited, Current

LEMMA AnswerTracking ==
  ASSUME Engagement, NEW n \in Nodes, OnClarificationAnswered(n)
  PROVE  Tracking'
<1> DEFINE c == [kind |-> "clarify", node |-> n]
<1>1. /\ Idle /\ leads[c] = 1 /\ leads'[c] = 0
      /\ \A k \in Nodes, y \in {"review", "clarify"} : k # n \/ y # "clarify" =>
              leads'[[kind |-> y, node |-> k]] = leads[[kind |-> y, node |-> k]]
  BY ResultEffect DEF OnClarificationAnswered
<1>2. /\ dag.state[n] = "awaiting_clarification" /\ sub[n].status = "escalated" /\ News(n) = {}
      /\ leads[[kind |-> "review", node |-> n]] = 0
      /\ dag.assignee[n] = sub[n].holder
  BY <1>1, ClarifyFacts
<1> DEFINE rec == [sub[n] EXCEPT !.status = "in_progress"]
<1>3. Agrees(n) /\ Asked(n) /\ TypeOK /\ Blameless /\ dag \in DAGExecutionState
  BY IdleDag DEF Engagement, Tracking, Shape
<1>4. /\ rec \in SubQuest /\ rec.status = "in_progress" /\ rec.holder = sub[n].holder
      /\ rec.defeat = sub[n].defeat
  BY <1>3, StatusPut DEF QuestStatuses
<1>5. EmitSubQuest(n, rec)
  BY DEF OnClarificationAnswered
<1> HIDE DEF rec
<1>6. UNCHANGED <<questCache, synthesis, setting>> /\ Becomes(dag, n, "assigned")
  BY DEF OnClarificationAnswered
<1>7. ~rec.defeat /\ rec.status # sub[n].status /\ \A s \in News(n) : rec.status \in Later(s)
  BY <1>2, <1>3, <1>4 DEF Blameless
<1>8. /\ FeedSound' /\ Blameless'
      /\ sub'[n] = rec /\ News(n)' = News(n) \cup {rec.status}
      /\ \A k \in Nodes \ {n} : sub'[k] = sub[k] /\ News(k)' = News(k)
  BY <1>4, <1>5, <1>6, <1>7, PutTracking
<1>9. Moved(n, "assigned") /\ Ordinary(todo') /\ todo' = <<Do("persist", n)>>
  BY <1>3, <1>6, BecomesEffect DEF NodeStates
<1>10. \A k \in Nodes : {Hand(k), Hand(k)'} \cap {"repost", "triage"} = {}
  BY <1>1, <1>9, PersistFirst, HandElse, HandIdle
<1>11. Finale'
  BY <1>2, <1>6, <1>9, NoFinale, NewPlanFinale
<1>12. Agrees(n)'
  <2>1. Fits(dag'.state[n], sub'[n].status, News(n)', questCache'[n], Hand(n)')
    BY <1>2, <1>4, <1>8, <1>9, <1>10 DEF Moved, Fits, Awaited, Current
  <2> QED
    BY <1>2, <1>4, <1>8, <1>9, <2>1 DEF Agrees, Moved
<1>13. Asked(n)'
  BY <1>1, <1>2 DEF Asked
<1>14. \A k \in Nodes \ {n} : Aside(k)
  BY <1>6, <1>8, <1>9 DEF Aside, Moved
<1>15. dag' # None
  BY <1>9, NoneAssumption DEF Moved
<1> QED
  BY <1>1, <1>8, <1>10, <1>11, <1>12, <1>13, <1>14, <1>15, TrackingParts

LEMMA NoAnswerTracking ==
  ASSUME Engagement, NEW n \in Nodes, OnClarificationFailed(n)
  PROVE  Tracking'
<1> DEFINE c == [kind |-> "clarify", node |-> n]
<1>1. /\ Idle /\ leads[c] > 0 /\ leads' = [leads EXCEPT ![c] = @ - 1] /\ ~Calm
      /\ UNCHANGED <<entities, questCache, synthesis, setting>> /\ Becomes(dag, n, "assigned")
  BY DEF OnClarificationFailed, Mishap, Calm
<1>2. /\ dag.state[n] = "awaiting_clarification" /\ sub[n].status = "escalated" /\ News(n) = {}
      /\ leads[[kind |-> "review", node |-> n]] = 0 /\ leads[c] = 1
      /\ dag.assignee[n] = sub[n].holder
  BY <1>1, ClarifyFacts
<1>3. TypeOK /\ FeedSound /\ Blameless /\ dag \in DAGExecutionState
  BY IdleDag DEF Engagement, Tracking, Shape
<1>4. leads' = [leads EXCEPT ![c] = 0] /\ 0 \in Nat
  BY <1>1, <1>2
<1>5. /\ leads'[c] = 0
      /\ \A k \in Nodes, y \in {"review", "clarify"} : k # n \/ y # "clarify" =>
              leads'[[kind |-> y, node |-> k]] = leads[[kind |-> y, node |-> k]]
  BY <1>3, <1>4, LoopsApart
<1>6. UNCHANGED <<sub, feed>>
  BY <1>1 DEF entities
<1>7. FeedSound' /\ Blameless' /\ \A k \in Nodes : News(k)' = News(k)
  BY <1>1, <1>3, <1>6 DEF FeedSound, Ordered, Noticed, Known, Blameless, News
<1>8. Moved(n, "assigned") /\ Ordinary(todo') /\ todo' = <<Do("persist", n)>>
  BY <1>1, <1>3, BecomesEffect DEF NodeStates
<1>9. Hand(n)' \notin {"repost", "triage"} /\ todo'[1].op = "persist"
  BY <1>8, PersistFirst
<1>10. Finale'
  BY <1>1, <1>2, <1>8, NoFinale, NewPlanFinale
<1>11. Agrees(n)'
  <2>1. Fits(dag'.state[n], sub'[n].status, News(n)', questCache'[n], Hand(n)')
    BY <1>2, <1>6, <1>7, <1>8, <1>9 DEF Moved, Fits, Awaited, Current, Ends
  <2> QED
    BY <1>1, <1>2, <1>6, <1>8, <2>1 DEF Agrees, Moved, Calm
<1>12. Asked(n)'
  BY <1>2, <1>5 DEF Asked
<1> QED
  BY <1>1, <1>5, <1>6, <1>7, <1>8, <1>9, <1>10, <1>11, <1>12, EventTracking DEF Moved

LEMMA SynthesisTracking ==
  ASSUME Engagement, OnSynthesisEnded
  PROVE  Tracking'
<1>1. /\ Idle /\ synthesis > 0
      /\ UNCHANGED <<entities, dag, questCache, leads, setting>>
      /\ todo' = IF dag = None THEN <<>> ELSE Append(RollupSteps(1), Do("forget", 1))
  BY DEF OnSynthesisEnded
<1>2. FeedSound /\ Blameless /\ dag # None /\ \A n \in Nodes : dag.state[n] = "completed"
  BY <1>1 DEF Engagement, Tracking, Finale
<1>3. Delivering(todo')
  BY <1>1, <1>2, OneIsNode, PlanSubmit
<1>4. UNCHANGED <<sub, feed>> /\ Finale'
  BY <1>1, <1>2 DEF entities, Finale
<1>5. FeedSound' /\ Blameless' /\ \A k \in Nodes : News(k)' = News(k)
  BY <1>1, <1>2, <1>4 DEF FeedSound, Ordered, Noticed, Known, Blameless, News
<1>6. \A k \in Nodes : {Hand(k), Hand(k)'} \cap {"repost", "triage"} = {}
  BY <1>1, <1>3, HandElse, HandIdle DEF Delivering
<1>7. \A k \in Nodes : Aside(k) /\ Agrees(k) /\ Asked(k)
  BY <1>1, <1>4 DEF Aside, Engagement, Tracking
<1>8. \A k \in Nodes : Agrees(k)'
  BY <1>1, <1>5, <1>6, <1>7, AsideAgrees
<1>9. \A k \in Nodes : Asked(k)'
  BY <1>1, <1>7, AsideAsked
<1> QED
  BY <1>1, <1>2, <1>4, <1>5, <1>8, <1>9 DEF Tracking

\* The DAG's entry: everything waits, and nothing has been heard.
LEMMA EntryTracking ==
  ASSUME Shape, Regular, fresh, OnDAGEntry
  PROVE  Tracking'
<1>1. Untouched /\ setting.retries \in Nat
  BY DEF Regular, Shape, TypeOK
<1>2. /\ dag' = Seed /\ todo' = <<Do("assign", 1), Do("persist", 1)>>
      /\ UNCHANGED <<sub, feed, questCache, leads, synthesis>>
  BY DEF OnDAGEntry, entities, loops
<1>3. Seed \in DAGExecutionState /\ \A n \in Nodes : Seed.state[n] \in {"pending", "ready"}
  BY <1>1, SeedFacts
<1>4. Len(feed') = 0 /\ synthesis' = 0 /\ \A i \in 1 .. Len(feed') : FALSE
  BY <1>1, <1>2, EmptySeq DEF Untouched
<1>5. FeedSound' /\ Blameless'
  BY <1>1, <1>2, <1>4 DEF FeedSound, Ordered, Noticed, Known, Blameless, Untouched
<1>6. \A n \in Nodes : News(n)' = {}
  BY <1>4 DEF News
<1>7. Do("assign", 1).op = "assign" /\ Ordinary(todo')
  BY <1>2, OneIsNode, DoType, PlanAssign DEF Ops
<1>8. todo'[1].op = "assign"
  BY <1>2, <1>7
<1>9. \A n \in Nodes : Hand(n)' \notin {"repost", "triage"}
  BY <1>8, HandElse
<1>10. \A n \in Nodes : dag'.state[n] \in {"pending", "ready"} /\ sub'[n].status = "posted"
  BY <1>1, <1>2, <1>3 DEF Untouched
<1>11. \A n \in Nodes : Agrees(n)'
  <2> TAKE n \in Nodes
  <2>1. Fits(dag'.state[n], sub'[n].status, News(n)', questCache'[n], Hand(n)')
    BY <1>6, <1>9, <1>10 DEF Fits, Awaited, Current
  <2> QED
    BY <1>10, <2>1 DEF Agrees
<1>12. \A n \in Nodes : Asked(n)'
  <2> TAKE n \in Nodes
  <2>1. [kind |-> "review", node |-> n] \in LeadLoops /\ [kind |-> "clarify", node |-> n] \in LeadLoops
    BY DEF LeadLoops
  <2> QED
    BY <1>1, <1>2, <2>1 DEF Asked, Untouched
<1>13. Finale'
  BY <1>4, <1>7, NewPlanFinale
<1>14. dag' # None
  BY <1>2, <1>3, NoneAssumption
<1> QED
  BY <1>5, <1>11, <1>12, <1>13, <1>14 DEF Tracking

-----------------------------------------------------------------------------
(* Puts of handlers.                                                       *)

\* A step that touches no sub-quest and no node.
LEMMA StillTracking ==
  ASSUME Engagement, UNCHANGED <<sub, feed, questCache, dag, leads, synthesis>>, Finale',
         \A n \in Nodes : {Hand(n), Hand(n)'} \cap {"repost", "triage"} = {}
  PROVE  Tracking'
<1>1. FeedSound /\ Blameless /\ dag # None /\ UNCHANGED setting
  BY DEF Engagement, Tracking
<1>2. FeedSound' /\ Blameless' /\ \A k \in Nodes : News(k)' = News(k)
  BY <1>1 DEF FeedSound, Ordered, Noticed, Known, Blameless, News
<1>3. \A k \in Nodes : Aside(k) /\ Agrees(k) /\ Asked(k)
  BY DEF Aside, Engagement, Tracking
<1>4. \A k \in Nodes : Agrees(k)'
  BY <1>1, <1>2, <1>3, AsideAgrees
<1>5. \A k \in Nodes : Asked(k)'
  BY <1>3, AsideAsked
<1> QED
  BY <1>1, <1>2, <1>4, <1>5 DEF Tracking

\* What is left of a plan ends as the plan does.
LEMMA RestFinale ==
  ASSUME Engagement, NEW op, Doing(op), todo' = Tail(todo), UNCHANGED <<dag, synthesis>>
  PROVE  Finale'
<1>1. todo \in Seq(Steps) /\ todo # <<>> /\ Plan(todo) /\ Finale /\ Len(todo) \in Nat
  BY AtWork DEF Engagement, Shape, Routine, Tracking
<1>2. Len(todo') = Len(todo) - 1 /\ \A i \in 1 .. Len(todo') : todo'[i] = todo[i + 1]
  BY <1>1, PlanRest
<1>3. \A i \in 1 .. Len(todo') : i + 1 \in 1 .. Len(todo)
  BY <1>1, <1>2
<1> QED
  BY <1>1, <1>2, <1>3 DEF Finale

LEMMA DoneTracking ==
  ASSUME Engagement, NEW op, op \notin {"repost", "triage"}, Doing(op), todo' = Tail(todo),
         UNCHANGED <<sub, feed, questCache, dag, leads, synthesis>>
  PROVE  Tracking'
<1>1. Shape /\ todo[1].op = op
  BY AtWork DEF Engagement
<1>2. \A n \in Nodes : Hand(n) \notin {"repost", "triage"}
  BY <1>1 DEF Hand
<1>3. \A n \in Nodes : Hand(n)' \notin {"repost", "triage"}
  BY <1>1, HandRest
<1> QED
  BY <1>2, <1>3, RestFinale, StillTracking

LEMMA AssignTracking ==
  ASSUME Engagement, Assign
  PROVE  Tracking'
<1>1. Doing("assign") /\ UNCHANGED <<questCache, leads, synthesis, setting>> /\ Shape
  BY DEF Assign, loops, around, Engagement
<1>2. CASE UNCHANGED <<sub, feed, dag>>
  <2>1. CASE todo' = Tail(todo)
    BY <1>1, <1>2, <2>1, DoneTracking
  <2>2. CASE UNCHANGED todo
    <3>1. todo[1].op = "assign"
      BY <1>1, AtWork
    <3>2. \A n \in Nodes : {Hand(n), Hand(n)'} \cap {"repost", "triage"} = {}
      BY <2>2, <3>1 DEF Hand
    <3>3. Finale'
      BY <1>1, <1>2, <2>2 DEF Engagement, Tracking, Finale
    <3> QED
      BY <1>1, <1>2, <3>2, <3>3, StillTracking
  <2> QED
    BY <2>1, <2>2 DEF Assign
<1>3. CASE ~UNCHANGED <<sub, feed, dag>>
  <2>1. PICK n \in Nodes, m \in Members :
           /\ dag.state[n] = "ready" /\ Claimable(n)
           /\ [sub[n] EXCEPT !.status = "in_progress", !.holder = m, !.attempts = @ + 1]
                \in SubQuest
           /\ EmitSubQuest(n, [sub[n] EXCEPT !.status = "in_progress", !.holder = m,
                                             !.attempts = @ + 1])
           /\ dag' \in DAGExecutionState
           /\ dag'.state[n] = "assigned" /\ dag'.assignee[n] = m
           /\ \A k \in Nodes \ {n} : /\ dag'.state[k] = dag.state[k]
                                     /\ dag'.assignee[k] = dag.assignee[k]
           /\ UNCHANGED todo
    BY <1>1, <1>3, AssignEffect
  <2> DEFINE rec == [sub[n] EXCEPT !.status = "in_progress", !.holder = m, !.attempts = @ + 1]
  <2>2. Agrees(n) /\ Asked(n) /\ TypeOK /\ Blameless /\ FeedSound /\ sub[n] \in SubQuest
    BY DEF Engagement, Tracking, Shape, TypeOK
  <2>3. rec.status = "in_progress" /\ rec.holder = m /\ rec.defeat = sub[n].defeat
    BY <2>2 DEF SubQuest
  <2>4. rec \in SubQuest /\ EmitSubQuest(n, rec)
    BY <2>1
  <2> HIDE DEF rec
  <2>5. sub[n].status = "posted" /\ News(n) \subseteq {"posted"}
    BY <2>1, <2>2 DEF Claimable, Agrees, Fits, Awaited
  <2>6. ~rec.defeat /\ rec.status # sub[n].status /\ \A s \in News(n) : rec.status \in Later(s)
    BY <2>2, <2>3, <2>5, LaterFacts DEF Blameless
  <2>7. /\ FeedSound' /\ Blameless'
        /\ sub'[n] = rec /\ News(n)' = News(n) \cup {rec.status}
        /\ \A k \in Nodes \ {n} : sub'[k] = sub[k] /\ News(k)' = News(k)
    BY <1>1, <2>4, <2>6, PutTracking
  <2>8. todo[1].op = "assign"
    BY <1>1, AtWork
  <2>9. \A k \in Nodes : {Hand(k), Hand(k)'} \cap {"repost", "triage"} = {}
    BY <2>1, <2>8 DEF Hand
  <2>10. Finale'
    <3>1. /\ synthesis = 0
          /\ \A i \in 1 .. Len(todo) : todo[i].op \notin {"tally", "metrics", "submit"}
      BY <2>1, NoFinale
    <3> QED
      BY <1>1, <2>1, <3>1 DEF Finale
  <2>11. Agrees(n)'
    <3>1. Fits(dag'.state[n], sub'[n].status, News(n)', questCache'[n], Hand(n)')
      BY <2>1, <2>3, <2>5, <2>7, <2>9 DEF Fits, Awaited, Current
    <3> QED
      BY <2>1, <2>3, <2>7, <3>1 DEF Agrees
  <2>12. Asked(n)'
    BY <1>1, <2>1, Unasked DEF Asked
  <2>13. \A k \in Nodes \ {n} : Aside(k)
    BY <1>1, <2>1, <2>7 DEF Aside
  <2>14. dag' # None
    BY <2>1, NoneAssumption
  <2> QED
    BY <1>1, <2>7, <2>9, <2>10, <2>11, <2>12, <2>13, <2>14, TrackingParts
<1> QED
  BY <1>2, <1>3

LEMMA HandFacts ==
  ASSUME Shape, NEW op, Doing(op)
  PROVE  /\ todo[1].node \in Nodes /\ Hand(todo[1].node) = op /\ Head(todo) = todo[1]
         /\ \A k \in Nodes \ {todo[1].node} : Hand(k) = "none"
BY AtWork DEF Hand

LEMMA RepostTracking ==
  ASSUME Engagement, Repost
  PROVE  Tracking'
<1>1. Doing("repost") /\ UNCHANGED <<questCache, dag, leads, synthesis, setting>>
      /\ todo' = Tail(todo) /\ Shape
  BY DEF Repost, loops, around, Engagement
<1>2. PICK n \in Nodes : /\ n = Head(todo).node /\ Hand(n) = "repost"
                         /\ \A k \in Nodes \ {n} : Hand(k) = "none"
  BY <1>1, HandFacts
<1> DEFINE rec == [sub[n] EXCEPT !.status = "posted", !.holder = None]
<1>3. Agrees(n) /\ Asked(n) /\ TypeOK /\ Blameless /\ FeedSound /\ dag # None /\ sub[n] \in SubQuest
  BY DEF Engagement, Tracking, Shape, TypeOK
<1>4. rec \in SubQuest /\ rec.status = "posted" /\ rec.defeat = sub[n].defeat
  BY <1>3 DEF SubQuest, QuestStatuses
<1>5. EmitSubQuest(n, rec)
  BY <1>2 DEF Repost
<1> HIDE DEF rec
<1>6. /\ dag.state[n] \in {"pending", "ready"} /\ sub[n].status \in {"failed", "in_review"}
      /\ News(n) \subseteq {"posted"}
  BY <1>2, <1>3 DEF Agrees, Fits, Awaited
<1>7. News(n) = {}
  BY <1>3, <1>6, KnownNews
<1>8. ~rec.defeat /\ rec.status # sub[n].status /\ \A s \in News(n) : rec.status \in Later(s)
  BY <1>3, <1>4, <1>6, <1>7 DEF Blameless
<1>9. /\ FeedSound' /\ Blameless'
      /\ sub'[n] = rec /\ News(n)' = News(n) \cup {rec.status}
      /\ \A k \in Nodes \ {n} : sub'[k] = sub[k] /\ News(k)' = News(k)
  BY <1>1, <1>4, <1>5, <1>8, PutTracking
<1>10. \A k \in Nodes : Hand(k)' \notin {"repost", "triage"}
  BY <1>1, HandRest
<1>11. Finale'
  BY <1>1, RestFinale
<1>12. Agrees(n)'
  <2>1. Fits(dag'.state[n], sub'[n].status, News(n)', questCache'[n], Hand(n)')
    BY <1>1, <1>4, <1>6, <1>7, <1>9, <1>10 DEF Fits, Awaited, Current
  <2> QED
    BY <1>1, <1>6, <2>1 DEF Agrees
<1>13. Asked(n)'
  BY <1>1, <1>6, Unasked DEF Asked
<1>14. \A k \in Nodes \ {n} : Aside(k)
  BY <1>1, <1>9 DEF Aside
<1> QED
  BY <1>1, <1>2, <1>3, <1>9, <1>10, <1>11, <1>12, <1>13, <1>14, TrackingParts

LEMMA ToTriageTracking ==
  ASSUME Engagement, RouteNodeToTriage
  PROVE  Tracking' \/ Escalating'
<1>1. Doing("triage") /\ UNCHANGED <<questCache, leads, synthesis, setting>> /\ Shape
  BY DEF RouteNodeToTriage, loops, Engagement
<1>2. PICK n \in Nodes : /\ n = Head(todo).node /\ Hand(n) = "triage"
                         /\ \A k \in Nodes \ {n} : Hand(k) = "none"
  BY <1>1, HandFacts
<1>3. /\ Agrees(n) /\ Asked(n) /\ TypeOK /\ Blameless /\ FeedSound
      /\ dag \in DAGExecutionState /\ sub[n] \in SubQuest
  BY <1>1, AtWork DEF Engagement, Tracking, Shape, TypeOK
<1>4. CASE HandleTriageTerminal(dag, n)
  BY <1>3, <1>4, TriageTerminalEffect, GivingUpEscalates
<1>5. CASE /\ EmitSubQuest(n, [sub[n] EXCEPT !.status = "pending_triage"])
           /\ todo' = Tail(todo) /\ UNCHANGED dag
  <2> DEFINE rec == [sub[n] EXCEPT !.status = "pending_triage"]
  <2>1. /\ rec \in SubQuest /\ rec.status = "pending_triage" /\ rec.defeat = sub[n].defeat
    BY <1>3, StatusPut DEF QuestStatuses
  <2>2. EmitSubQuest(n, rec)
    BY <1>5
  <2> HIDE DEF rec
  <2>3. /\ dag.state[n] = "pending_triage" /\ sub[n].status \in {"failed", "in_review"}
        /\ News(n) = {}
    BY <1>2, <1>3 DEF Agrees, Fits
  <2>4. ~rec.defeat /\ rec.status # sub[n].status /\ \A s \in News(n) : rec.status \in Later(s)
    BY <1>3, <2>1, <2>3 DEF Blameless
  <2>5. /\ FeedSound' /\ Blameless'
        /\ sub'[n] = rec /\ News(n)' = News(n) \cup {rec.status}
        /\ \A k \in Nodes \ {n} : sub'[k] = sub[k] /\ News(k)' = News(k)
    BY <1>1, <2>1, <2>2, <2>4, PutTracking
  <2>6. \A k \in Nodes : Hand(k)' \notin {"repost", "triage"}
    BY <1>1, <1>5, HandRest
  <2>7. Finale'
    BY <1>1, <1>5, RestFinale
  <2>8. Agrees(n)'
    <3>1. Fits(dag'.state[n], sub'[n].status, News(n)', questCache'[n], Hand(n)')
      BY <1>5, <2>1, <2>3, <2>5, <2>6 DEF Fits, Awaited, Current
    <3> QED
      BY <1>5, <2>3, <3>1 DEF Agrees
  <2>9. Asked(n)'
    BY <1>1, <2>3, Unasked DEF Asked
  <2>10. \A k \in Nodes \ {n} : Aside(k)
    BY <1>1, <1>5, <2>5 DEF Aside
  <2>11. dag' # None
    BY <1>3, <1>5, NoneAssumption
  <2> QED
    BY <1>1, <1>2, <2>5, <2>6, <2>7, <2>8, <2>9, <2>10, <2>11, TrackingParts
<1> QED
  BY <1>2, <1>4, <1>5 DEF RouteNodeToTriage

LEMMA TallyTracking ==
  ASSUME Engagement, ReadForMetrics
  PROVE  Tracking'
<1>1. Doing("tally") /\ UNCHANGED <<sub, feed, questCache, dag, leads, synthesis>> /\ Shape
  BY DEF ReadForMetrics, entities, loops, Engagement
<1>2. CASE todo' = Tail(todo)
  BY <1>1, <1>2, DoneTracking
<1>3. CASE todo' = <<Do("metrics", 1)>> \o Tail(todo)
  <2>1. todo'[1].op = "metrics" /\ todo[1].op = "tally" /\ 1 \in 1 .. Len(todo)
    BY <1>1, <1>3, TallyPlan, AtWork
  <2>2. \A n \in Nodes : dag.state[n] = "completed"
    BY <2>1 DEF Engagement, Tracking, Finale
  <2>3. Finale'
    BY <1>1, <2>2 DEF Finale
  <2>4. \A n \in Nodes : {Hand(n), Hand(n)'} \cap {"repost", "triage"} = {}
    BY <2>1 DEF Hand
  <2> QED
    BY <1>1, <2>3, <2>4, StillTracking
<1> QED
  BY <1>2, <1>3 DEF ReadForMetrics

\* A parent that is to be escalated is next in turn, or its sub-quests are cleaned up first.
LEMMA EscalatingDoes ==
  ASSUME Shape, Escalating
  PROVE  \/ Doing("escalate")
         \/ Doing("cleanup")
<1>1. todo \in Seq(Steps) /\ Plan(todo) /\ Len(todo) \in Nat
  BY LenProperties DEF Shape, TypeOK, Routine, Steps
<1>2. PICK i \in 1 .. Len(todo) : todo[i].op = "escalate"
  BY DEF Escalating
<1>3. todo # <<>> /\ 1 \in 1 .. Len(todo)
  BY <1>1, <1>2, EmptySeq
<1>4. Head(todo) = todo[1]
  BY <1>1, <1>3, PlanRest
<1>5. i = 1 \/ (1 < i /\ todo[1].op = "cleanup")
  BY <1>1, <1>2, <1>3 DEF Plan
<1> QED
  BY <1>2, <1>3, <1>4, <1>5 DEF Doing, Idle

LEMMA CleanupEscalates ==
  ASSUME Shape, Doing("cleanup")
  PROVE  Escalating /\ (todo' = Tail(todo) => Escalating')
<1>1. /\ todo \in Seq(Steps) /\ todo # <<>> /\ Plan(todo) /\ Len(todo) \in Nat \ {0}
      /\ todo[1].op = "cleanup"
  BY AtWork DEF Shape, Routine
<1>2. 1 \in 1 .. Len(todo)
  BY <1>1
<1>3. 1 + 1 \in 1 .. Len(todo) /\ todo[1 + 1].op = "escalate"
  BY <1>1, <1>2 DEF Plan
<1>4. ASSUME todo' = Tail(todo)
      PROVE  1 \in 1 .. Len(todo') /\ todo'[1].op = "escalate"
  <2>1. Len(todo') = Len(todo) - 1 /\ \A i \in 1 .. Len(todo') : todo'[i] = todo[i + 1]
    BY <1>1, <1>4, PlanRest
  <2>2. 1 \in 1 .. Len(todo')
    BY <1>1, <1>3, <2>1
  <2> QED
    BY <1>3, <2>1, <2>2
<1> QED
  BY <1>3, <1>4 DEF Escalating

\* Once the parent is to be escalated, nothing but that ends the handler.
LEMMA EscalatingStep ==
  ASSUME Shape, Benign, Regular, ~fresh, Escalating, Next
  PROVE  Escalating' \/ parent' # "in_progress"
<1>1. ~Idle /\ (Doing("escalate") \/ Doing("cleanup"))
  BY EscalatingDoes DEF Doing
<1>2. \A op \in Ops \ {"escalate", "cleanup"} : ~Doing(op)
  BY <1>1 DEF Doing
<1>3. CASE HandlerStep
  <2>1. Cleanup \/ EscalateParent
    BY <1>2, <1>3 DEF HandlerStep, Assign, Repost, RouteNodeToTriage, ReadForMetrics, PutMetrics,
       SubmitResult, PersistDAGState, Forget, Ops
  <2>2. CASE Cleanup
    <3>1. Doing("cleanup") /\ (todo' = todo \/ todo' = Tail(todo))
      BY <2>2 DEF Cleanup
    <3>2. CASE todo' = todo
      BY <3>2 DEF Escalating
    <3>3. CASE todo' = Tail(todo)
      BY <3>1, <3>3, CleanupEscalates
    <3> QED
      BY <3>1, <3>2, <3>3
  <2>3. CASE EscalateParent
    BY <2>3 DEF EscalateParent
  <2> QED
    BY <2>1, <2>2, <2>3
<1>4. CASE LoopStep /\ ~HandlerStep
  BY <1>1, <1>4 DEF LoopStep, OnDAGEntry, OnSubQuestTransition, OnSynthesisEnded, OnDAGCancelled,
     LeadResult, DropResult, OnReviewCompleted, OnReviewFailed, OnClarificationAnswered,
     OnClarificationFailed, Result
<1>5. ~Restart /\ ~OnDAGTimedOut
  BY <1>1, BenignMishap DEF Restart, OnDAGTimedOut
<1>6. CASE \/ Progress \/ CancelParent \/ CancelPut \/ SubmitParent \/ JudgeParent
           \/ \E n \in Nodes : Ask(n) \/ SubQuestReposted(n)
  <2>1. UNCHANGED todo
    BY <1>6 DEF Progress, Finish, TriageQuest, Ask, SubQuestReposted, CancelParent, CancelPut,
       SubmitParent, JudgeParent, memory
  <2> QED
    BY <2>1 DEF Escalating
<1> QED
  BY <1>3, <1>4, <1>5, <1>6 DEF Next

\* Without crashes and operators a parent that was released is not taken back.
LEMMA ParentStays ==
  ASSUME Shape, Benign, Regular, ~fresh, parent # "in_progress", Next
  PROVE  parent' # "in_progress"
<1>1. CASE HandlerStep
  <2>1. CASE PutMetrics
    <3>1. rollup # None /\ CopyCurrent
      BY <2>1, AtWork DEF PutMetrics, Regular
    <3> QED
      BY <2>1, <3>1 DEF PutMetrics, CopyCurrent
  <2>2. CASE ~PutMetrics
    BY <1>1, <2>2 DEF HandlerStep, Assign, Repost, RouteNodeToTriage, Cleanup, EscalateParent,
       ReadForMetrics, SubmitResult, PersistDAGState, Forget, entities
  <2> QED
    BY <2>1, <2>2
<1>2. CASE LoopStep /\ ~HandlerStep
  BY <1>2 DEF LoopStep, OnDAGEntry, OnSubQuestTransition, OnSynthesisEnded, OnDAGCancelled,
     LeadResult, DropResult, OnReviewCompleted, OnReviewFailed, OnClarificationAnswered,
     OnClarificationFailed, entities
<1>3. ~Restart
  BY BenignMishap DEF Restart
<1>4. CASE \/ Progress \/ OnDAGTimedOut \/ CancelParent \/ CancelPut \/ SubmitParent \/ JudgeParent
           \/ \E n \in Nodes : Ask(n) \/ SubQuestReposted(n)
  BY <1>4 DEF Progress, Finish, TriageQuest, Ask, SubQuestReposted, OnDAGTimedOut, CancelParent,
     CancelPut, SubmitParent, JudgeParent, entities
<1> QED
  BY <1>1, <1>2, <1>3, <1>4 DEF Next

\* A step of an engaged execution keeps track, or the parent is on its way out.
LEMMA EngagedStep ==
  ASSUME Engagement, Next
  PROVE  Tracking' \/ Escalating' \/ parent' # "in_progress"
<1>1. /\ Shape /\ Benign /\ Regular /\ ~fresh /\ parent = "in_progress" /\ ~Escalating
      /\ dag # None /\ Tracking
  BY DEF Engagement, Tracking
<1>2. CASE OnSubQuestTransition
  BY <1>2, TransitionTracking
<1>3. CASE \E n \in Nodes, kind \in {"review", "clarify"} : LeadResult(kind, n)
  <2>1. PICK n \in Nodes : \/ \E kind \in {"review", "clarify"} : DropResult(kind, n)
                           \/ OnReviewCompleted(n) \/ OnReviewFailed(n)
                           \/ OnClarificationAnswered(n) \/ OnClarificationFailed(n)
    BY <1>3 DEF LeadResult
  <2>2. \A kind \in {"review", "clarify"} : ~DropResult(kind, n)
    BY <1>1 DEF DropResult
  <2> QED
    BY <2>1, <2>2, VerdictTracking, ReviewFailedTracking, AnswerTracking, NoAnswerTracking
<1>4. CASE OnSynthesisEnded
  BY <1>4, SynthesisTracking
<1>5. CASE OnDAGTimedOut
  BY <1>5, GiveUpDagPlan, GivingUpEscalates DEF OnDAGTimedOut
<1>6. ~OnDAGCancelled /\ ~OnDAGEntry /\ ~CancelPut
  BY <1>1 DEF OnDAGCancelled, OnDAGEntry, CancelPut, Regular
<1>7. CASE HandlerStep
  <2>1. ~Cleanup
    BY <1>1, CleanupEscalates DEF Cleanup
  <2>2. CASE EscalateParent \/ SubmitResult
    BY <1>1, <2>2 DEF EscalateParent, SubmitResult
  <2>3. CASE PutMetrics \/ PersistDAGState
    BY <2>3, DoneTracking DEF PutMetrics, PersistDAGState, loops
  <2>4. ~Forget
    <3> SUFFICES ASSUME Forget PROVE FALSE
      OBVIOUS
    <3>1. todo[1].op = "forget" /\ Len(todo) \in Nat \ {0}
      BY <1>1, AtWork DEF Forget
    <3>2. 1 \in 1 .. Len(todo) /\ 1 .. 1 - 1 = {}
      BY <3>1
    <3> QED
      BY <1>1, <3>1, <3>2 DEF Regular, Leaving
  <2> QED
    BY <1>7, <2>1, <2>2, <2>3, <2>4, AssignTracking, RepostTracking, ToTriageTracking,
       TallyTracking DEF HandlerStep
<1>8. CASE \E n \in Nodes : Finish(n) \/ TriageQuest(n) \/ Ask(n)
  BY <1>8, MembersTracking
<1>9. ~Restart /\ ~CancelParent /\ ~SubmitParent /\ \A n \in Nodes : ~SubQuestReposted(n)
  <2>1. ~Mishap("crash") /\ ~Mishap("operator")
    BY <1>1, BenignMishap
  <2> QED
    BY <2>1 DEF Restart, CancelParent, SubmitParent, SubQuestReposted
<1>10. ~JudgeParent
  BY <1>1 DEF JudgeParent
<1> QED
  BY <1>2, <1>3, <1>4, <1>5, <1>6, <1>7, <1>8, <1>9, <1>10 DEF Next, LoopStep, Progress

LEMMA SettingStays ==
  ASSUME [Next]_vars
  PROVE  UNCHANGED setting
BY DEF Next, LoopStep, HandlerStep, LeadResult, Progress, OnDAGEntry, OnSubQuestTransition,
   OnSynthesisEnded, OnDAGCancelled, DropResult, OnReviewCompleted, OnReviewFailed,
   OnClarificationAnswered, OnClarificationFailed, Assign, Repost, RouteNodeToTriage, Cleanup,
   EscalateParent, ReadForMetrics, PutMetrics, SubmitResult, PersistDAGState, Forget, Finish,
   TriageQuest, OnDAGTimedOut, Restart, CancelParent, CancelPut, SubmitParent, JudgeParent,
   Ask, SubQuestReposted, vars, around

LEMMA DagInit ==
  ASSUME Init
  PROVE  DagIInv
<1>1. Shape /\ todo = <<>> /\ Len(todo) = 0
  BY ShapeInit, EmptySeq DEF Init
<1>2. Untouched
  BY DEF Init, Untouched
<1>3. Regular
  BY <1>1, <1>2 DEF Regular, Leaving, CopyCurrent, Init
<1> QED
  BY <1>1, <1>3 DEF DagIInv, Engaged, Init

LEMMA DagInduction ==
  ASSUME DagIInv, [Next]_vars
  PROVE  DagIInv'
<1>1. Shape /\ Shape' /\ UNCHANGED setting
  BY ShapeStep, SettingStays DEF DagIInv
<1>2. Benign' => Benign /\ Regular /\ Regular'
  <2>1. Benign' => Benign
    BY <1>1 DEF Benign
  <2> QED
    BY <1>1, <2>1, RegularStep DEF DagIInv
<1>3. ASSUME Engaged'
      PROVE  Tracking'
  <2>1. /\ Benign /\ Regular /\ parent' = "in_progress" /\ ~fresh' /\ ~Escalating'
    BY <1>2, <1>3 DEF Engaged
  <2>2. CASE UNCHANGED vars
    <3>1. Engaged
      BY <2>1, <2>2 DEF Engaged, Escalating, vars, entities, memory
    <3>2. Tracking
      BY <3>1 DEF DagIInv
    <3>3. UNCHANGED <<sub, feed, questCache, dag, todo, leads, synthesis, setting>>
      BY <2>2 DEF vars, entities, memory, loops, around
    <3>4. FeedSound' /\ Blameless' /\ Finale'
      BY <3>2, <3>3 DEF Tracking, FeedSound, Ordered, Noticed, Known, Blameless, Finale
    <3>5. \A n \in Nodes : Agrees(n)' /\ Asked(n)'
      <4> TAKE n \in Nodes
      <4>1. Agrees(n) /\ Asked(n)
        BY <3>2 DEF Tracking
      <4>2. News(n)' = News(n) /\ Hand(n)' = Hand(n)
        BY <3>3 DEF News, Hand
      <4> QED
        BY <3>3, <4>1, <4>2 DEF Agrees, Asked, Calm
    <3> QED
      BY <3>2, <3>3, <3>4, <3>5 DEF Tracking
  <2>3. CASE Next /\ fresh
    BY <1>1, <2>1, <2>3, FreshStep, EntryTracking
  <2>4. CASE Next /\ ~fresh
    <3>1. parent = "in_progress"
      BY <1>1, <2>1, <2>4, ParentStays
    <3>2. ~Escalating
      BY <1>1, <2>1, <2>4, EscalatingStep
    <3>3. Engagement
      BY <1>1, <2>1, <2>4, <3>1, <3>2 DEF Engagement, DagIInv, Engaged
    <3> QED
      BY <2>1, <2>4, <3>3, EngagedStep
  <2> QED
    BY <2>2, <2>3, <2>4
<1> QED
  BY <1>1, <1>2, <1>3 DEF DagIInv

\* A loop that has heard everything knows every sub-quest as it is.
LEMMA TrackingMirrors ==
  ASSUME DagIInv
  PROVE  NodesTrackSubQuests
<1> SUFFICES ASSUME Calm, parent = "in_progress", ~fresh, Idle, feed = <<>>, NEW n \in Nodes
             PROVE  /\ Mirrors(dag.state[n], sub[n].status)
                    /\ Running(n) => dag.assignee[n] = sub[n].holder
  BY DEF NodesTrackSubQuests
<1>1. ~Escalating /\ Len(feed) = 0
  BY EmptySeq DEF Escalating, Idle
<1>2. Engaged
  BY <1>1 DEF Engaged, Benign, Calm
<1>3. Agrees(n) /\ FeedSound /\ TypeOK /\ Hand(n) = "none"
  BY <1>2, HandIdle DEF DagIInv, Shape, Tracking
<1>4. News(n) = {}
  BY <1>1 DEF News
<1>5. questCache[n] = sub[n].status
  BY <1>3, <1>4, KnownNews
<1>6. sub[n].status \in Current(dag.state[n]) /\ dag.state[n] # "assigned"
  BY <1>3, <1>4 DEF Agrees, Fits
<1>7. dag.state[n] \in NodeStates /\ sub[n].status \in QuestStatuses
  <2>1. dag \in DAGExecutionState /\ sub[n] \in SubQuest
    BY <1>2, <1>3, IdleDag DEF DagIInv, Tracking, Shape, TypeOK
  <2> QED
    BY <2>1 DEF DAGExecutionState, SubQuest
<1>8. Mirrors(dag.state[n], sub[n].status)
  BY <1>3, <1>4, <1>5, <1>6, <1>7 DEF Agrees, Fits, Current, Ends, Verdicts, Mirrors, NodeStates
<1>9. Running(n) => dag.assignee[n] = sub[n].holder
  BY <1>3, <1>6 DEF Running, Current, Agrees, Ends, Verdicts
<1> QED
  BY <1>8, <1>9

\* A calm loop that has handled everything agrees with the sub-quests, holders included:
\* no order of the members' updates, of triage and of the lead's results leaves a node behind,
\* however far the watch lags.
THEOREM NodesAreTracked == Spec => []NodesTrackSubQuests
<1>1. Init => DagIInv
  BY DagInit
<1>2. DagIInv /\ [Next]_vars => DagIInv'
  BY DagInduction
<1>3. DagIInv => NodesTrackSubQuests
  BY TrackingMirrors
<1> QED
  BY <1>1, <1>2, <1>3, PTL DEF Spec

-----------------------------------------------------------------------------
(* DagExec implements TaskGraph.                                           *)

\* The phase of a sub-quest's status.
PhaseOf(s) ==
  CASE s = "completed" -> "done"
    [] s \in {"in_progress", "in_review", "escalated"} -> "working"
    [] OTHER -> "waiting"

LEMMA PhaseFacts ==
  /\ Phase = [n \in Nodes |-> PhaseOf(sub[n].status)]
  /\ Outcome = "open" <=> parent = "in_progress"
BY DEF Phase, PhaseOf, Outcome

LEMMA PhaseFactsNext ==
  /\ Phase' = [n \in Nodes |-> PhaseOf(sub'[n].status)]
  /\ Outcome' = "open" <=> parent' = "in_progress"
BY DEF Phase, PhaseOf, Outcome

\* A put of one sub-quest starts its task, or stops it, or leaves it as it is.
LEMMA PutPhase ==
  ASSUME TypeOK, NEW n \in Nodes, NEW rec \in SubQuest, EmitSubQuest(n, rec),
         parent = "in_progress", parent' = "in_progress",
         \/ PhaseOf(rec.status) = PhaseOf(sub[n].status)
         \/ PhaseOf(sub[n].status) = "working"
         \/ /\ PhaseOf(sub[n].status) = "waiting" /\ PhaseOf(rec.status) = "working"
            /\ \A d \in DependsOn[n] : sub[d].status = "completed"
  PROVE  [Graph!Next]_(Graph!vars)
<1> DEFINE old == PhaseOf(sub[n].status)
           new == PhaseOf(rec.status)
<1>1. sub'[n] = rec /\ \A k \in Nodes \ {n} : sub'[k] = sub[k]
  BY EmitFacts
<1>2. Phase' = [Phase EXCEPT ![n] = new] /\ Phase[n] = old
  <2>1. Phase = [k \in Nodes |-> PhaseOf(sub[k].status)]
    BY PhaseFacts
  <2>2. Phase' = [k \in Nodes |-> PhaseOf(sub'[k].status)]
    BY PhaseFactsNext
  <2>3. \A k \in Nodes : PhaseOf(sub'[k].status) = IF k = n THEN new ELSE PhaseOf(sub[k].status)
    BY <1>1
  <2> HIDE DEF new
  <2>4. Phase' = [k \in Nodes |-> IF k = n THEN new ELSE PhaseOf(sub[k].status)]
    BY <2>2, <2>3
  <2> QED
    BY <2>1, <2>4
<1>3. Outcome = "open" /\ Outcome' = Outcome
  BY PhaseFacts, PhaseFactsNext
<1>4. old \in {"done", "working", "waiting"} /\ new \in {"done", "working", "waiting"}
  BY DEF PhaseOf
<1> HIDE DEF old, new
<1>5. CASE new = old
  <2>1. Phase = [k \in Nodes |-> PhaseOf(sub[k].status)]
    BY PhaseFacts
  <2>2. Phase' = Phase
    BY <1>2, <1>5, <2>1
  <2> QED
    BY <1>3, <2>2 DEF Graph!vars
<1>6. CASE old = "working" /\ new # old
  <2>1. Graph!Stop(n)
    BY <1>2, <1>3, <1>4, <1>6 DEF Graph!Stop
  <2> QED
    BY <1>3, <2>1 DEF Graph!Next
<1>7. CASE old = "waiting" /\ new = "working" /\ \A d \in DependsOn[n] : sub[d].status = "completed"
  <2>1. \A d \in DependsOn[n] : Phase[d] = "done"
    <3>1. DependsOn[n] \subseteq Nodes
      BY DagAssumption
    <3>2. Phase = [k \in Nodes |-> PhaseOf(sub[k].status)]
      BY PhaseFacts
    <3> QED
      BY <1>7, <3>1, <3>2 DEF PhaseOf
  <2>2. Graph!Start(n)
    BY <1>2, <1>3, <1>7, <2>1 DEF Graph!Start
  <2> QED
    BY <1>3, <2>2 DEF Graph!Next
<1> QED
  BY <1>5, <1>6, <1>7 DEF old, new

LEMMA StillPhase ==
  ASSUME UNCHANGED <<sub, parent>>
  PROVE  [Graph!Next]_(Graph!vars)
<1>1. Phase' = Phase /\ Outcome' = Outcome
  BY DEF Phase, Outcome
<1> QED
  BY <1>1 DEF Graph!vars

\* A handler step of an open parent that only Tracking explains.
LEMMA DoingEngaged ==
  ASSUME DagIInv, Benign, parent = "in_progress",
         \/ Idle /\ dag # None
         \/ \E op \in {"repost", "triage", "submit"} : Doing(op)
  PROVE  Engaged /\ Tracking /\ Regular /\ Shape
<1>1. Shape /\ Regular
  BY DEF DagIInv
<1>2. ~fresh
  BY <1>1 DEF Regular, Untouched, Doing, Idle
<1>3. ~Escalating
  <2>1. CASE Idle
    BY <2>1, EmptySeq DEF Escalating, Idle
  <2>2. CASE \E op \in {"repost", "triage", "submit"} : Doing(op)
    BY <1>1, <2>2, EscalatingDoes DEF Doing
  <2> QED
    BY <2>1, <2>2
<1>4. Engaged
  BY <1>2, <1>3 DEF Engaged
<1> QED
  BY <1>1, <1>4 DEF DagIInv

\* The result of an open parent is submitted only when the board has every sub-quest completed.
LEMMA SubmitPhase ==
  ASSUME DagIInv, Benign, parent = "in_progress", SubmitResult
  PROVE  [Graph!Next]_(Graph!vars)
<1>1. Doing("submit") /\ UNCHANGED sub /\ parent' \in {"in_review", "completed"}
  BY DEF SubmitResult
<1>2. Tracking /\ Shape
  BY <1>1, DoingEngaged
<1>3. todo[1].op = "submit" /\ Len(todo) \in Nat \ {0}
  BY <1>1, <1>2, AtWork
<1>4. 1 \in 1 .. Len(todo)
  BY <1>3
<1>5. \A n \in Nodes : dag.state[n] = "completed"
  BY <1>2, <1>3, <1>4 DEF Tracking, Finale
<1>6. \A n \in Nodes : sub[n].status = "completed"
  <2> TAKE n \in Nodes
  <2>1. Hand(n) \notin {"repost", "triage"} /\ Agrees(n)
    BY <1>2, <1>3 DEF Hand, Tracking
  <2> QED
    BY <1>5, <2>1 DEF Agrees, Fits, Current
<1>7. \A n \in Nodes : Phase[n] = "done"
  BY <1>6, PhaseFacts DEF PhaseOf
<1>8. Outcome = "open" /\ Outcome' = "delivered"
  BY <1>1 DEF Outcome
<1>9. Phase' = Phase
  BY <1>1 DEF Phase
<1>10. Graph!Deliver
  BY <1>7, <1>8, <1>9 DEF Graph!Deliver
<1> QED
  BY <1>8, <1>10 DEF Graph!Next

\* What is put on a sub-quest of an open parent: a ready one starts, a running one changes in
\* any way, a failed one and one in triage come back or stay out.
Lawful(n, s) ==
  \/ s = "in_progress" /\ Claimable(n)
  \/ sub[n].status \in {"in_progress", "in_review", "escalated"}
  \/ /\ sub[n].status \in {"failed", "pending_triage"}
     /\ s \in {"posted", "pending_triage", "failed", "escalated"}

LawfulPut ==
  \/ UNCHANGED sub
  \/ \E n \in Nodes, rec \in SubQuest : EmitSubQuest(n, rec) /\ Lawful(n, rec.status)

\* What was started had its dependencies completed, and still has.
Founded ==
  \A n \in Nodes : sub[n].status # "posted" =>
    \A d \in DependsOn[n] : sub[d].status = "completed"

LEMMA LawfulPhase ==
  ASSUME TypeOK, Founded, parent = "in_progress", parent' = "in_progress", LawfulPut
  PROVE  [Graph!Next]_(Graph!vars) /\ Founded'
<1>1. CASE UNCHANGED sub
  BY <1>1, StillPhase DEF Founded
<1>2. ASSUME NEW n \in Nodes, NEW rec \in SubQuest, EmitSubQuest(n, rec), Lawful(n, rec.status)
      PROVE  [Graph!Next]_(Graph!vars) /\ Founded'
  <2>1. rec.status # "posted" => \A d \in DependsOn[n] : sub[d].status = "completed"
    BY <1>2 DEF Lawful, Claimable, Founded
  <2>2. \/ PhaseOf(rec.status) = PhaseOf(sub[n].status)
        \/ PhaseOf(sub[n].status) = "working"
        \/ /\ PhaseOf(sub[n].status) = "waiting" /\ PhaseOf(rec.status) = "working"
           /\ rec.status # "posted"
    BY <1>2 DEF Lawful, Claimable, PhaseOf
  <2>3. [Graph!Next]_(Graph!vars)
    BY <1>2, <2>1, <2>2, PutPhase
  <2>4. sub'[n] = rec /\ \A k \in Nodes \ {n} : sub'[k] = sub[k]
    BY <1>2, EmitFacts
  <2>5. sub[n].status # "completed"
    BY <1>2 DEF Lawful, Claimable
  <2>6. \A k \in Nodes : DependsOn[k] \subseteq Nodes
    BY DagAssumption
  <2>7. \A k \in Nodes : \A d \in DependsOn[k] : sub[d].status = "completed" => sub'[d].status = "completed"
    BY <2>4, <2>5, <2>6
  <2>8. Founded'
    BY <2>1, <2>4, <2>7 DEF Founded
  <2> QED
    BY <2>3, <2>8
<1> QED
  BY <1>1, <1>2 DEF LawfulPut

LEMMA HandlerPuts ==
  ASSUME DagIInv, Benign, parent = "in_progress", HandlerStep
  PROVE  LawfulPut
<1>1. Shape /\ TypeOK
  BY DEF DagIInv, Shape
<1>2. CASE Assign
  <2>1. CASE ~UNCHANGED <<sub, feed, dag>>
    <3>1. PICK n \in Nodes, m \in Members :
           /\ Claimable(n)
           /\ [sub[n] EXCEPT !.status = "in_progress", !.holder = m, !.attempts = @ + 1]
                \in SubQuest
           /\ EmitSubQuest(n, [sub[n] EXCEPT !.status = "in_progress", !.holder = m,
                                             !.attempts = @ + 1])
      BY <1>1, <1>2, <2>1, AssignEffect
    <3> DEFINE rec == [sub[n] EXCEPT !.status = "in_progress", !.holder = m, !.attempts = @ + 1]
    <3>2. sub[n] \in SubQuest
      BY <1>1 DEF TypeOK
    <3>3. rec.status = "in_progress"
      BY <3>2 DEF SubQuest
    <3>4. rec \in SubQuest /\ EmitSubQuest(n, rec)
      BY <3>1
    <3> HIDE DEF rec
    <3> QED
      BY <3>1, <3>3, <3>4 DEF LawfulPut, Lawful
  <2> QED
    BY <2>1 DEF LawfulPut
<1>3. CASE Repost
  <2>1. /\ Doing("repost")
        /\ EmitSubQuest(Head(todo).node, [sub[Head(todo).node] EXCEPT !.status = "posted", !.holder = None])
    BY <1>3 DEF Repost
  <2>2. PICK n \in Nodes : n = Head(todo).node /\ Hand(n) = "repost"
    BY <1>1, <2>1, HandFacts
  <2> DEFINE rec == [sub[n] EXCEPT !.status = "posted", !.holder = None]
  <2>3. sub[n] \in SubQuest /\ Agrees(n)
    BY <1>1, <2>1, DoingEngaged DEF TypeOK, Tracking
  <2>4. rec \in SubQuest /\ rec.status = "posted"
    BY <2>3 DEF SubQuest, QuestStatuses
  <2>5. EmitSubQuest(n, rec)
    BY <2>1, <2>2
  <2> HIDE DEF rec
  <2>6. sub[n].status \in {"failed", "in_review"}
    BY <2>2, <2>3 DEF Agrees, Fits
  <2> QED
    BY <2>4, <2>5, <2>6 DEF LawfulPut, Lawful
<1>4. CASE RouteNodeToTriage
  <2>1. Doing("triage")
    BY <1>4 DEF RouteNodeToTriage
  <2>2. CASE EmitSubQuest(Head(todo).node, [sub[Head(todo).node] EXCEPT !.status = "pending_triage"])
    <3>1. PICK n \in Nodes : n = Head(todo).node /\ Hand(n) = "triage"
      BY <1>1, <2>1, HandFacts
    <3> DEFINE rec == [sub[n] EXCEPT !.status = "pending_triage"]
    <3>2. Agrees(n)
      BY <2>1, DoingEngaged DEF Tracking
    <3>3. rec \in SubQuest /\ rec.status = "pending_triage"
      BY <1>1, StatusPut DEF QuestStatuses
    <3>4. EmitSubQuest(n, rec)
      BY <2>2, <3>1
    <3> HIDE DEF rec
    <3>5. sub[n].status \in {"failed", "in_review"}
      BY <3>1, <3>2 DEF Agrees, Fits
    <3> QED
      BY <3>3, <3>4, <3>5 DEF LawfulPut, Lawful
  <2> QED
    BY <1>4, <2>2 DEF RouteNodeToTriage, LawfulPut
<1>5. CASE Cleanup
  <2>1. CASE ~UNCHANGED sub
    <3>1. PICK n \in Nodes :
            /\ sub[n].status \in {"in_progress", "in_review"}
            /\ [sub[n] EXCEPT !.status = "failed", !.defeat = FALSE] \in SubQuest
            /\ EmitSubQuest(n, [sub[n] EXCEPT !.status = "failed", !.defeat = FALSE])
      BY <1>1, <1>5, <2>1, CleanupEffect
    <3> QED
      BY <3>1 DEF LawfulPut, Lawful
  <2> QED
    BY <2>1 DEF LawfulPut
<1>6. CASE \/ EscalateParent \/ SubmitResult \/ PutMetrics \/ ReadForMetrics \/ PersistDAGState
           \/ Forget
  BY <1>6 DEF LawfulPut, EscalateParent, SubmitResult, PutMetrics, ReadForMetrics,
     PersistDAGState, Forget, entities
<1> QED
  BY <1>2, <1>3, <1>4, <1>5, <1>6 DEF HandlerStep

LEMMA LeadPuts ==
  ASSUME DagIInv, Benign, parent = "in_progress", NEW n \in Nodes,
         \E kind \in {"review", "clarify"} : LeadResult(kind, n)
  PROVE  LawfulPut
<1>1. Shape /\ TypeOK
  BY DEF DagIInv, Shape
<1>2. CASE \/ \E kind \in {"review", "clarify"} : DropResult(kind, n)
           \/ OnReviewFailed(n) \/ OnClarificationFailed(n)
  BY <1>2 DEF LawfulPut, DropResult, OnReviewFailed, OnClarificationFailed, entities
<1>3. ASSUME NEW kind \in {"review", "clarify"}, Result(kind, n), dag # None
      PROVE  sub[n].status \in {"in_review", "escalated"}
  <2>1. Idle /\ leads[[kind |-> kind, node |-> n]] > 0
    BY <1>3 DEF Result
  <2>2. Engaged /\ Tracking
    BY <1>3, <2>1, DoingEngaged
  <2>3. Agrees(n) /\ Asked(n) /\ Hand(n) = "none"
    BY <2>1, <2>2, HandIdle DEF Tracking
  <2>4. CASE kind = "review"
    BY <2>1, <2>3, <2>4 DEF Asked
  <2>5. CASE kind = "clarify"
    BY <2>1, <2>3, <2>5 DEF Asked, Agrees, Fits, Current
  <2> QED
    BY <2>4, <2>5
<1>4. ASSUME NEW s \in QuestStatuses, EmitSubQuest(n, [sub[n] EXCEPT !.status = s]),
             sub[n].status \in {"in_review", "escalated"}
      PROVE  LawfulPut
  <2> DEFINE rec == [sub[n] EXCEPT !.status = s]
  <2>1. rec \in SubQuest /\ EmitSubQuest(n, rec)
    BY <1>1, <1>4, StatusPut
  <2> HIDE DEF rec
  <2> QED
    BY <1>4, <2>1 DEF LawfulPut, Lawful
<1>5. CASE OnReviewCompleted(n)
  <2>1. PICK verdict \in {"completed", "failed"} : EmitSubQuest(n, [sub[n] EXCEPT !.status = verdict])
    BY <1>5 DEF OnReviewCompleted
  <2>2. sub[n].status \in {"in_review", "escalated"}
    BY <1>3, <1>5 DEF OnReviewCompleted
  <2> QED
    BY <1>4, <2>1, <2>2 DEF QuestStatuses
<1>6. CASE OnClarificationAnswered(n)
  <2>1. sub[n].status \in {"in_review", "escalated"}
    BY <1>3, <1>6 DEF OnClarificationAnswered
  <2> QED
    BY <1>4, <1>6, <2>1 DEF OnClarificationAnswered, QuestStatuses
<1> QED
  BY <1>2, <1>5, <1>6 DEF LeadResult

\* What a step of an open parent puts is lawful; the parent is released by its handler alone.
LEMMA LawfulStep ==
  ASSUME DagIInv, Benign, parent = "in_progress", Next
  PROVE  LawfulPut /\ (parent' # "in_progress" => EscalateParent \/ SubmitResult)
<1>1. Shape /\ Regular
  BY DEF DagIInv
<1>2. CASE HandlerStep
  <2>1. CASE PutMetrics
    <3>1. rollup # None /\ CopyCurrent
      BY <1>1, <2>1, AtWork DEF PutMetrics, Regular
    <3>2. parent' = "in_progress"
      BY <2>1, <3>1 DEF PutMetrics, CopyCurrent
    <3> QED
      BY <1>2, <3>2, HandlerPuts
  <2>2. CASE ~PutMetrics /\ ~EscalateParent /\ ~SubmitResult
    <3>1. UNCHANGED parent
      BY <1>2, <2>2 DEF HandlerStep, Assign, Repost, RouteNodeToTriage, Cleanup, ReadForMetrics,
         PersistDAGState, Forget, entities
    <3> QED
      BY <1>2, <3>1, HandlerPuts
  <2> QED
    BY <1>2, <2>1, <2>2, HandlerPuts
<1>3. CASE \E n \in Nodes, kind \in {"review", "clarify"} : LeadResult(kind, n)
  <2>1. UNCHANGED parent
    BY <1>3 DEF LeadResult, DropResult, OnReviewCompleted, OnReviewFailed,
       OnClarificationAnswered, OnClarificationFailed, entities
  <2> QED
    BY <1>3, <2>1, LeadPuts
<1>4. CASE \/ OnDAGEntry \/ OnSubQuestTransition \/ OnSynthesisEnded \/ OnDAGCancelled \/ OnDAGTimedOut
  BY <1>4 DEF LawfulPut, OnDAGEntry, OnSubQuestTransition, OnSynthesisEnded, OnDAGCancelled,
     OnDAGTimedOut, entities
<1>5. CASE \E n \in Nodes : Finish(n) \/ TriageQuest(n) \/ Ask(n)
  <2>1. PICK n \in Nodes : Finish(n) \/ TriageQuest(n) \/ Ask(n)
    BY <1>5
  <2>2. UNCHANGED parent
    BY <2>1 DEF Finish, TriageQuest, Ask
  <2>3. CASE Finish(n) \/ Ask(n)
    <3>1. sub[n].status = "in_progress" /\ \E rec \in SubQuest : EmitSubQuest(n, rec)
      BY <1>1, <2>3, FinishEffect, AskEffect
    <3> QED
      BY <2>2, <3>1 DEF LawfulPut, Lawful
  <2>4. CASE TriageQuest(n)
    <3>1. PICK rec \in SubQuest : /\ sub[n].status = "pending_triage" /\ EmitSubQuest(n, rec)
                                  /\ rec.status \in {"posted", "failed", "escalated"}
      BY <1>1, <2>4, TriageQuestEffect
    <3> QED
      BY <2>2, <3>1 DEF LawfulPut, Lawful
  <2> QED
    BY <2>1, <2>3, <2>4
<1>6. /\ ~Restart /\ ~CancelParent /\ ~CancelPut /\ ~SubmitParent /\ ~JudgeParent
      /\ \A n \in Nodes : ~SubQuestReposted(n)
  <2>1. ~Mishap("crash") /\ ~Mishap("operator")
    BY BenignMishap
  <2> QED
    BY <1>1, <2>1 DEF Restart, CancelParent, CancelPut, SubmitParent, JudgeParent,
       SubQuestReposted, Regular
<1> QED
  BY <1>2, <1>3, <1>4, <1>5, <1>6 DEF Next, LoopStep, Progress

GraphIInv ==
  /\ DagIInv
  /\ Benign /\ parent = "in_progress" => Founded

LEMMA GraphStep ==
  ASSUME GraphIInv, Benign, Next
  PROVE  /\ [Graph!Next]_(Graph!vars)
         /\ parent' = "in_progress" => Founded'
<1>1. Shape /\ Regular /\ TypeOK /\ DagIInv
  BY DEF GraphIInv, DagIInv, Shape
<1>2. CASE parent # "in_progress"
  <2>1. ~fresh
    BY <1>1, <1>2 DEF Regular, Untouched
  <2>2. parent' # "in_progress"
    BY <1>1, <1>2, <2>1, ParentStays
  <2>3. Outcome # "open" /\ Outcome' # "open"
    BY <1>2, <2>2, PhaseFacts, PhaseFactsNext
  <2> QED
    BY <2>2, <2>3 DEF Graph!Next
<1>3. CASE parent = "in_progress" /\ parent' = "in_progress"
  <2>1. Founded /\ LawfulPut
    BY <1>1, <1>3, LawfulStep DEF GraphIInv
  <2> QED
    BY <1>1, <1>3, <2>1, LawfulPhase
<1>4. CASE parent = "in_progress" /\ EscalateParent
  <2>1. Outcome = "open" /\ Outcome' = "given up" /\ Phase' = Phase
    BY <1>4 DEF EscalateParent, Outcome, Phase
  <2> QED
    BY <1>4, <2>1 DEF EscalateParent, Graph!GiveUp, Graph!Next
<1>5. CASE parent = "in_progress" /\ SubmitResult
  BY <1>1, <1>5, SubmitPhase DEF SubmitResult
<1> QED
  BY <1>1, <1>2, <1>3, <1>4, <1>5, LawfulStep

LEMMA GraphInduction ==
  ASSUME GraphIInv, [Next]_vars
  PROVE  GraphIInv' /\ [setting.fault \in {"none", "publish"} => Graph!Next]_(Graph!vars)
<1>1. DagIInv' /\ UNCHANGED setting
  BY DagInduction, SettingStays DEF GraphIInv
<1>2. Benign' <=> Benign
  BY <1>1 DEF Benign
<1>3. CASE UNCHANGED vars
  <2>1. UNCHANGED <<sub, parent>>
    BY <1>3 DEF vars, entities
  <2>2. Phase' = Phase /\ Outcome' = Outcome
    BY <2>1 DEF Phase, Outcome
  <2>3. Founded' <=> Founded
    BY <2>1 DEF Founded
  <2> QED
    BY <1>1, <1>2, <2>1, <2>2, <2>3 DEF GraphIInv, Graph!vars
<1>4. CASE Next /\ Benign
  BY <1>1, <1>2, <1>4, GraphStep DEF GraphIInv
<1>5. CASE Next /\ ~Benign
  BY <1>1, <1>2, <1>5 DEF GraphIInv, Benign
<1> QED
  BY <1>3, <1>4, <1>5

\* Without crashes, operators and duplicated results, though publishing may fail and the DAG may
\* time out, an execution is one of TaskGraph: a sub-quest starts only when its dependencies are
\* completed, one that is completed stays so, and the parent is submitted only when the board
\* has all of them completed.
THEOREM TaskGraphImplemented == Spec => ImplementsTaskGraph
<1>1. Init => Graph!Init /\ GraphIInv
  <2> SUFFICES ASSUME Init PROVE Graph!Init /\ GraphIInv
    OBVIOUS
  <2>1. DagIInv
    BY DagInit
  <2>2. \A n \in Nodes : sub[n].status = "posted"
    BY DEF Init
  <2>3. Founded
    BY <2>2 DEF Founded
  <2>4. Phase = [n \in Nodes |-> "waiting"] /\ Outcome = "open"
    BY <2>2, PhaseFacts DEF PhaseOf, Init
  <2> QED
    BY <2>1, <2>3, <2>4 DEF GraphIInv, Graph!Init
<1>2. GraphIInv /\ [Next]_vars
        => GraphIInv' /\ [setting.fault \in {"none", "publish"} => Graph!Next]_(Graph!vars)
  BY GraphInduction
<1> QED
  BY <1>1, <1>2, PTL DEF Spec, ImplementsTaskGraph

-----------------------------------------------------------------------------
(* No member is booked twice: also when the process crashes, or an         *)
(* operator steps in.                                                      *)

\* The parent is in progress, or will be put back to it.
Live == parent = "in_progress" \/ (rollup # None /\ rollup.parent = "in_progress")

\* The current handler ends with the parent escalated or submitted.
Ending == \E i \in 1 .. Len(todo) : todo[i].op \in {"escalate", "submit"}

Rolled ==
  todo # <<>> /\ todo[1].op \in {"tally", "metrics"} =>
    \E i \in 1 .. Len(todo) : todo[i].op = "submit"

Asks(kind, n) == leads[[kind |-> kind, node |-> n]]

\* An event of n is out that makes the loop ask the lead, triage n, or repost it.
Pressing(n) ==
  \E i \in 1 .. Len(feed) :
    /\ feed[i].node = n
    /\ feed[i].status \in {"in_review", "escalated"} \/ (feed[i].status = "failed" /\ ~feed[i].defeat)

\* Without being assigned again a sub-quest of n may be in progress, now or later.
Alive(n) ==
  \/ sub[n].status \in {"in_progress", "in_review", "pending_triage"}
  \/ Asks("review", n) > 0 \/ Asks("clarify", n) > 0
  \/ Hand(n) = "triage"
  \/ Pressing(n)

\* What may come later in the feed, for the same sub-quest, than an event of the status x, as
\* long as its node is in the state s.
Succ(s, x) ==
  CASE x = "posted" -> IF s = "pending_triage" THEN {} ELSE {"in_progress", "posted"} \cup Ends
    [] x = "in_progress" -> {"posted"} \cup Ends
    [] x = "pending_triage" -> Verdicts
    [] x = "escalated" -> {"posted"}
    [] OTHER -> {}

Queue(n) ==
  \A i, j \in 1 .. Len(feed) :
    i < j /\ feed[i].node = n /\ feed[j].node = n =>
      feed[j].status \in Succ(dag.state[n], feed[i].status)

Traced(n) ==
  \A x \in News(n) : x = sub[n].status \/ sub[n].status \in Succ(dag.state[n], x)

Flows(n) == Queue(n) /\ Traced(n)

\* As Fits, where operators and crashes are possible.
Suits(s, status, news, r, c, hand) ==
  /\ s \in {"pending", "ready"} => news \subseteq {"posted"} /\ (hand = "repost" \/ status = "posted")
  /\ s \in {"completed", "failed"} => news = {} /\ status \in {"completed", "failed"}
  /\ s = "pending_triage" =>
       /\ news \subseteq {"pending_triage"} \cup Verdicts
       /\ hand = "triage" \/ status \in {"pending_triage"} \cup Verdicts
  /\ "pending_triage" \in news => s = "pending_triage"
  /\ r > 0 => r = 1 /\ s = "pending_review" /\ status = "in_review" /\ news = {}
  /\ c > 0 => /\ c = 1 /\ s = "awaiting_clarification" /\ status \in {"escalated", "posted"}
              /\ news \subseteq {"posted"}
  /\ hand = "triage" => s = "pending_triage" /\ news = {} /\ status \in {"failed", "in_review"}
  /\ hand = "repost" =>
       s \in {"pending", "ready"} /\ news = {} /\ status \in {"failed", "in_review"}

Taken == {"assigned", "in_progress", "pending_review", "awaiting_clarification", "pending_triage"}

Tended(n) ==
  /\ Flows(n)
  /\ Suits(dag.state[n], sub[n].status, News(n), Asks("review", n), Asks("clarify", n), Hand(n))
  /\ dag.state[n] \in Taken => sub[n].holder \in {None, dag.assignee[n]}

\* The DAG is executed by the process that started it.
Followed == setting.fault # "duplicate" /\ Live /\ party /\ ~fresh /\ ~Ending

Tending == dag # None /\ \A n \in Nodes : Tended(n)

\* Two sub-quests that may be in progress have two holders.
Apart ==
  \A a, b \in Nodes :
    a # b /\ Alive(a) /\ Alive(b) /\ sub[a].holder = sub[b].holder => sub[a].holder = None

BookingInv ==
  /\ Shape /\ Rolled
  /\ Live /\ fresh => Untouched
  /\ Followed => Tending
  /\ Live /\ setting.fault # "duplicate" => Apart

\* What a step does to the handler at work.
LEMMA StepPlan ==
  ASSUME Shape, Next
  PROVE  \/ UNCHANGED todo
         \/ Idle /\ (NewPlan(todo') \/ todo' = <<>>)
         \/ \E op \in Ops : /\ Doing(op) /\ todo' = Tail(todo)
                            /\ op \in {"submit", "escalate"} => ~Live'
         \/ Doing("tally") /\ todo' = <<Do("metrics", 1)>> \o Tail(todo)
         \/ Doing("triage") /\ GivingUp(todo')
         \/ todo' = <<>> /\ ~party'
<1>1. CASE OnDAGEntry
  BY <1>1, OneIsNode, PlanAssign DEF OnDAGEntry, NewPlan
<1>2. CASE OnSubQuestTransition
  <2>1. Head(feed) \in Event
    BY <1>2, HandOutFacts DEF OnSubQuestTransition, Shape
  <2>2. UNCHANGED todo \/ NewPlan(todo')
    BY <1>2, <2>1, TransitionShape DEF OnSubQuestTransition
  <2> QED
    BY <1>2, <2>2 DEF OnSubQuestTransition
<1>3. CASE OnSynthesisEnded \/ OnDAGCancelled \/ OnDAGTimedOut
  BY <1>3, OneIsNode, PlanSubmit, GiveUpDagPlan
     DEF OnSynthesisEnded, OnDAGCancelled, OnDAGTimedOut, NewPlan
<1>4. CASE \E n \in Nodes, kind \in {"review", "clarify"} : LeadResult(kind, n)
  <2> PICK n \in Nodes, kind \in {"review", "clarify"} : LeadResult(kind, n)
    BY <1>4
  <2>1. CASE DropResult(kind, n) \/ OnReviewCompleted(n)
    BY <2>1 DEF DropResult, OnReviewCompleted, memory
  <2>2. CASE OnReviewFailed(n)
    <3>1. CASE HandleNodeFailed(dag, n) /\ Result("review", n)
      <4>1. dag \in DAGExecutionState
        BY <2>2, IdleDag DEF OnReviewFailed
      <4>2. NewPlan(todo')
        BY <3>1, <4>1, NodeFailedEffect DEF Shape, TypeOK, NewPlan
      <4> QED
        BY <3>1, <4>2 DEF Result
    <3> QED
      BY <2>2, <3>1 DEF OnReviewFailed
  <2>3. CASE OnClarificationAnswered(n) \/ OnClarificationFailed(n)
    <3>1. dag # None /\ Becomes(dag, n, "assigned") /\ Idle
      BY <2>3 DEF OnClarificationAnswered, OnClarificationFailed, Result
    <3>2. NewPlan(todo')
      BY <3>1, IdleDag, BecomesEffect DEF NewPlan, NodeStates
    <3> QED
      BY <3>1, <3>2
  <2> QED
    BY <2>1, <2>2, <2>3 DEF LeadResult
<1>5. CASE HandlerStep
  <2>1. CASE Assign \/ Repost \/ Cleanup \/ PersistDAGState \/ Forget
    BY <2>1 DEF Assign, Repost, Cleanup, PersistDAGState, Forget, Ops
  <2>2. CASE RouteNodeToTriage
    <3>1. Doing("triage") /\ Head(todo) = todo[1] /\ todo[1].node \in Nodes /\ dag \in DAGExecutionState
      BY <2>2, AtWork DEF RouteNodeToTriage
    <3>2. HandleTriageTerminal(dag, todo[1].node) => GivingUp(todo')
      BY <3>1, TriageTerminalEffect
    <3> QED
      BY <2>2, <3>1, <3>2 DEF RouteNodeToTriage, Ops
  <2>3. CASE EscalateParent \/ SubmitResult
    <3>1. parent' # "in_progress" /\ UNCHANGED rollup /\ rollup = None
      BY <2>3, AtWork DEF EscalateParent, SubmitResult
    <3>2. ~Live'
      BY <3>1 DEF Live
    <3> QED
      BY <2>3, <3>2 DEF EscalateParent, SubmitResult, Ops
  <2>4. CASE ReadForMetrics \/ PutMetrics
    BY <2>4 DEF ReadForMetrics, PutMetrics, Ops
  <2> QED
    BY <1>5, <2>1, <2>2, <2>3, <2>4 DEF HandlerStep
<1>6. CASE Restart
  BY <1>6 DEF Restart
<1>7. CASE \/ CancelParent \/ CancelPut \/ SubmitParent \/ JudgeParent
           \/ \E n \in Nodes : Finish(n) \/ TriageQuest(n) \/ Ask(n) \/ SubQuestReposted(n)
  BY <1>7 DEF CancelParent, CancelPut, SubmitParent, JudgeParent, Finish, TriageQuest, Ask,
     SubQuestReposted, memory
<1> QED
  BY <1>1, <1>2, <1>3, <1>4, <1>5, <1>6, <1>7 DEF Next, LoopStep, Progress

LEMMA RolledStep ==
  ASSUME Shape, Rolled, Next
  PROVE  Rolled'
<1>1. CASE UNCHANGED todo
  BY <1>1 DEF Rolled
<1>2. CASE NewPlan(todo') \/ todo' = <<>> \/ GivingUp(todo')
  <2>1. CASE Ordinary(todo') \/ GivingUp(todo')
    <3>1. 1 \in 1 .. Len(todo')
      BY <2>1, NewPlanFacts DEF NewPlan
    <3> QED
      BY <2>1, <3>1 DEF Rolled, Ordinary, GivingUp
  <2>2. CASE Delivering(todo')
    <3>1. 2 \in 1 .. Len(todo')
      BY <2>2, LenProperties DEF Delivering
    <3> QED
      BY <2>2, <3>1 DEF Rolled, Delivering
  <2> QED
    BY <1>2, <2>1, <2>2 DEF Rolled, NewPlan
<1>3. ASSUME NEW op \in Ops, Doing(op), todo' = Tail(todo)
      PROVE  Rolled'
  <2>1. todo \in Seq(Steps) /\ todo # <<>> /\ Plan(todo)
    BY <1>3, AtWork DEF Shape, Routine
  <2>2. todo' # <<>> => todo'[1].op \in {"assign", "escalate", "submit", "persist", "forget"}
    BY <1>3, <2>1, PlanRest
  <2> QED
    BY <2>2 DEF Rolled
<1>4. CASE Doing("tally") /\ todo' = <<Do("metrics", 1)>> \o Tail(todo)
  <2>1. /\ Len(todo') = Len(todo) /\ \A i \in 2 .. Len(todo) : todo'[i] = todo[i]
    BY <1>4, TallyPlan
  <2>2. Len(todo) \in Nat \ {0} /\ todo # <<>> /\ todo[1].op = "tally"
    BY <1>4, AtWork
  <2>3. PICK i \in 1 .. Len(todo) : todo[i].op = "submit"
    BY <2>2 DEF Rolled
  <2>4. i \in 2 .. Len(todo)
    BY <2>2, <2>3
  <2> QED
    BY <2>1, <2>3, <2>4 DEF Rolled
<1> QED
  BY <1>1, <1>2, <1>3, <1>4, StepPlan

\* Once the end of the parent is planned it comes, or the process has crashed.
LEMMA EndingStep ==
  ASSUME Shape, Next, Ending
  PROVE  Ending' \/ ~Live' \/ ~party'
<1>1. CASE UNCHANGED todo
  BY <1>1 DEF Ending
<1>2. CASE Idle
  <2>1. Len(todo) = 0
    BY <1>2, EmptySeq DEF Idle
  <2> QED
    BY <2>1 DEF Ending
<1>3. ASSUME NEW op \in Ops, Doing(op), todo' = Tail(todo), op \notin {"submit", "escalate"}
      PROVE  Ending'
  <2>1. /\ todo \in Seq(Steps) /\ todo # <<>> /\ Len(todo) \in Nat \ {0} /\ todo[1].op = op
    BY <1>3, AtWork
  <2>2. Len(todo') = Len(todo) - 1 /\ \A i \in 1 .. Len(todo') : todo'[i] = todo[i + 1]
    BY <1>3, <2>1, HeadTailProperties
  <2>3. PICK i \in 1 .. Len(todo) : todo[i].op \in {"escalate", "submit"}
    BY DEF Ending
  <2>4. i # 1
    BY <1>3, <2>1, <2>3
  <2>5. i - 1 \in 1 .. Len(todo') /\ (i - 1) + 1 = i
    BY <2>1, <2>2, <2>4
  <2> QED
    BY <2>2, <2>3, <2>5 DEF Ending
<1>4. CASE Doing("tally") /\ todo' = <<Do("metrics", 1)>> \o Tail(todo)
  <2>1. /\ Len(todo') = Len(todo) /\ \A i \in 2 .. Len(todo) : todo'[i] = todo[i]
    BY <1>4, TallyPlan
  <2>2. Len(todo) \in Nat \ {0} /\ todo[1].op = "tally"
    BY <1>4, AtWork
  <2>3. PICK i \in 1 .. Len(todo) : todo[i].op \in {"escalate", "submit"}
    BY DEF Ending
  <2>4. i \in 2 .. Len(todo)
    BY <2>2, <2>3
  <2> QED
    BY <2>1, <2>3, <2>4 DEF Ending
<1>5. CASE GivingUp(todo')
  <2>1. 2 \in 1 .. Len(todo') /\ todo'[2].op = "escalate"
    BY <1>5 DEF GivingUp
  <2> QED
    BY <2>1 DEF Ending
<1> QED
  BY <1>1, <1>2, <1>3, <1>4, <1>5, StepPlan

\* A parent that has left does not come back.
LEMMA LiveBack ==
  ASSUME Shape, Next, Live'
  PROVE  Live
<1>1. CASE UNCHANGED <<parent, rollup>>
  BY <1>1 DEF Live
<1>2. CASE ReadForMetrics
  BY <1>2 DEF ReadForMetrics, Live, entities
<1>3. CASE PutMetrics
  BY <1>3, AtWork DEF PutMetrics, Live
<1>4. CASE Restart
  BY <1>4 DEF Restart, Live
<1>5. CASE EscalateParent \/ SubmitResult \/ CancelParent \/ CancelPut \/ SubmitParent \/ JudgeParent
  <2>1. UNCHANGED rollup /\ (parent' = "in_progress" => parent = "in_progress")
    BY <1>5 DEF EscalateParent, SubmitResult, CancelParent, CancelPut, SubmitParent, JudgeParent,
       memory, entities
  <2> QED
    BY <2>1 DEF Live
<1>6. CASE \E n \in Nodes, kind \in {"review", "clarify"} : LeadResult(kind, n)
  <2>1. UNCHANGED <<parent, rollup>>
    BY <1>6 DEF LeadResult, DropResult, OnReviewCompleted, OnReviewFailed, OnClarificationAnswered,
       OnClarificationFailed, entities, memory
  <2> QED
    BY <1>1, <2>1
<1>7. CASE \/ OnDAGEntry \/ OnSubQuestTransition \/ OnSynthesisEnded \/ OnDAGCancelled \/ OnDAGTimedOut
           \/ Assign \/ Repost \/ RouteNodeToTriage \/ Cleanup \/ PersistDAGState \/ Forget
  <2>1. UNCHANGED <<parent, rollup>>
    BY <1>7 DEF OnDAGEntry, OnSubQuestTransition, OnSynthesisEnded, OnDAGCancelled, OnDAGTimedOut,
       Assign, Repost, RouteNodeToTriage, Cleanup, PersistDAGState, Forget, entities, memory
  <2> QED
    BY <1>1, <2>1
<1>8. CASE \E n \in Nodes : Finish(n) \/ TriageQuest(n) \/ Ask(n) \/ SubQuestReposted(n)
  <2>1. UNCHANGED <<parent, rollup>>
    BY <1>8 DEF Finish, TriageQuest, Ask, SubQuestReposted, memory
  <2> QED
    BY <1>1, <2>1
<1> QED
  BY <1>2, <1>3, <1>4, <1>5, <1>6, <1>7, <1>8 DEF Next, LoopStep, HandlerStep, Progress

\* Nobody touches the DAG before its entry is handled, or the parent has left.
LEMMA UntouchedStep ==
  ASSUME Shape, Next, fresh, Untouched
  PROVE  OnDAGEntry \/ Untouched' \/ ~Live' \/ ~fresh'
<1>1. Idle /\ rollup = None /\ feed = <<>>
  BY DEF Untouched, Idle, Shape, Routine
<1>2. ~HandlerStep /\ ~OnSubQuestTransition /\ ~OnSynthesisEnded /\ ~OnDAGTimedOut
  BY <1>1 DEF HandlerStep, Assign, Repost, RouteNodeToTriage, Cleanup, EscalateParent,
     ReadForMetrics, PutMetrics, SubmitResult, PersistDAGState, Forget, Doing,
     OnSubQuestTransition, OnSynthesisEnded, OnDAGTimedOut, Untouched
<1>3. ASSUME NEW n \in Nodes, NEW kind \in {"review", "clarify"}
      PROVE  ~LeadResult(kind, n)
  <2>1. leads[[kind |-> kind, node |-> n]] = 0 /\ dag = None
    BY DEF LeadLoops, Untouched
  <2> QED
    BY <2>1 DEF LeadResult, DropResult, OnReviewCompleted, OnReviewFailed, OnClarificationAnswered,
       OnClarificationFailed, Result
<1>4. ASSUME NEW n \in Nodes
      PROVE  ~Finish(n) /\ ~TriageQuest(n) /\ ~Ask(n) /\ ~SubQuestReposted(n)
  BY DEF Finish, TriageQuest, Ask, SubQuestReposted, Untouched
<1>5. CASE OnDAGCancelled
  BY <1>5 DEF OnDAGCancelled, Untouched, entities, loops
<1>6. CASE Restart
  BY <1>6 DEF Restart
<1>7. CASE CancelParent
  BY <1>7 DEF CancelParent, Untouched, entities, memory, loops
<1>8. CASE CancelPut \/ SubmitParent \/ JudgeParent
  BY <1>1, <1>8 DEF CancelPut, SubmitParent, JudgeParent, Live, memory, Untouched
<1> QED
  BY <1>2, <1>3, <1>4, <1>5, <1>6, <1>7, <1>8 DEF Next, LoopStep, Progress

-----------------------------------------------------------------------------
(* The order of the events of a sub-quest.                                 *)

LEMMA SuccGrows ==
  ASSUME NEW s, NEW t, s = "pending_triage" \/ t # "pending_triage", NEW x
  PROVE  Succ(s, x) \subseteq Succ(t, x)
BY DEF Succ

LEMMA EmitFlows ==
  ASSUME TypeOK, NEW n \in Nodes, NEW rec \in SubQuest, EmitSubQuest(n, rec),
         NEW k \in Nodes, Flows(k), NEW t, t = dag'.state[k],
         dag.state[k] = "pending_triage" \/ t # "pending_triage",
         k = n => \A x \in News(n) : rec.status \in Succ(t, x)
  PROVE  Flows(k)'
<1> DEFINE s == dag.state[k]
<1>1. /\ Len(feed) \in Nat /\ Len(feed') = Len(feed) + 1
      /\ \A i \in 1 .. Len(feed) : feed'[i] = feed[i]
      /\ feed'[Len(feed')].node = n /\ feed'[Len(feed')].status = rec.status
      /\ sub'[n] = rec /\ (k # n => sub'[k] = sub[k])
  BY EmitFacts
<1>2. /\ News(n)' = News(n) \cup {rec.status}
      /\ k # n => News(k)' = News(k)
  BY EmitNews
<1>3. \A x : Succ(s, x) \subseteq Succ(t, x)
  BY SuccGrows
<1>4. Traced(k)'
  <2>1. \A x \in News(k) : x = sub[k].status \/ sub[k].status \in Succ(s, x)
    BY DEF Flows, Traced
  <2>2. \A x \in News(k)' : x = sub'[k].status \/ sub'[k].status \in Succ(t, x)
    <3>1. CASE k = n
      BY <1>1, <1>2, <3>1
    <3>2. CASE k # n
      BY <1>1, <1>2, <1>3, <2>1, <3>2
    <3> QED
      BY <3>1, <3>2
  <2> QED
    BY <2>2 DEF Traced
<1>5. Queue(k)'
  <2> SUFFICES ASSUME NEW i \in 1 .. Len(feed'), NEW j \in 1 .. Len(feed'), i < j,
                      feed'[i].node = k, feed'[j].node = k
               PROVE  feed'[j].status \in Succ(t, feed'[i].status)
    BY DEF Queue
  <2> DEFINE last == Len(feed')
  <2>0. Len(feed) \in Nat /\ last = Len(feed) + 1 /\ i \in 1 .. last /\ j \in 1 .. last
    BY <1>1
  <2> HIDE DEF last
  <2>1. i \in 1 .. Len(feed) /\ (j \in 1 .. Len(feed) \/ j = last)
    BY <2>0
  <2>2. CASE j \in 1 .. Len(feed)
    <3>1. feed[j].status \in Succ(s, feed[i].status)
      BY <1>1, <2>1, <2>2 DEF Flows, Queue
    <3> QED
      BY <1>1, <1>3, <2>1, <2>2, <3>1
  <2>3. CASE j = last
    <3>1. k = n /\ feed[i].status \in News(n)
      BY <1>1, <2>1, <2>3 DEF News, last
    <3> QED
      BY <1>1, <2>1, <2>3, <3>1 DEF last
  <2> QED
    BY <2>1, <2>2, <2>3
<1> QED
  BY <1>4, <1>5 DEF Flows

LEMMA StillFlows ==
  ASSUME NEW k \in Nodes, Flows(k), NEW t, t = dag'.state[k],
         dag.state[k] = "pending_triage" \/ t # "pending_triage" \/ News(k) = {},
         UNCHANGED <<sub, feed>>
  PROVE  Flows(k)'
<1> DEFINE s == dag.state[k]
<1>1. News(k)' = News(k)
  BY DEF News
<1>2. CASE News(k) = {}
  <2>1. \A i \in 1 .. Len(feed) : feed[i].node # k
    BY <1>2 DEF News
  <2> QED
    BY <1>1, <1>2, <2>1 DEF Flows, Queue, Traced
<1>3. CASE s = "pending_triage" \/ t # "pending_triage"
  <2>1. \A x : Succ(s, x) \subseteq Succ(t, x)
    BY <1>3, SuccGrows
  <2>2. Queue(k)'
    BY <2>1 DEF Flows, Queue
  <2>3. Traced(k)'
    <3>1. \A x \in News(k) : x = sub[k].status \/ sub[k].status \in Succ(s, x)
      BY DEF Flows, Traced
    <3>2. \A x \in News(k)' : x = sub'[k].status \/ sub'[k].status \in Succ(t, x)
      BY <1>1, <2>1, <3>1
    <3> QED
      BY <3>2 DEF Traced
  <2> QED
    BY <2>2, <2>3 DEF Flows
<1> QED
  BY <1>2, <1>3

LEMMA HandOutFlows ==
  ASSUME TypeOK, feed # <<>>, feed' = Tail(feed), UNCHANGED sub,
         NEW k \in Nodes, Flows(k), NEW t, t = dag'.state[k],
         dag.state[k] = "pending_triage" \/ t # "pending_triage" \/ News(k)' = {}
  PROVE  Flows(k)'
<1> DEFINE s == dag.state[k]
<1>1. /\ Len(feed) \in Nat \ {0} /\ Len(feed') = Len(feed) - 1
      /\ \A i \in 1 .. Len(feed') : feed'[i] = feed[i + 1]
  BY HandOutFacts
<1>2. \A i \in 1 .. Len(feed') : i + 1 \in 1 .. Len(feed)
  BY <1>1
<1>3. CASE News(k)' = {}
  <2>1. \A i \in 1 .. Len(feed') : feed'[i].node # k
    BY <1>3 DEF News
  <2> QED
    BY <1>3, <2>1 DEF Flows, Queue, Traced
<1>4. CASE s = "pending_triage" \/ t # "pending_triage"
  <2>1. \A x : Succ(s, x) \subseteq Succ(t, x)
    BY <1>4, SuccGrows
  <2>2. Queue(k)'
    <3> SUFFICES ASSUME NEW i \in 1 .. Len(feed'), NEW j \in 1 .. Len(feed'), i < j,
                        feed'[i].node = k, feed'[j].node = k
                 PROVE  feed'[j].status \in Succ(t, feed'[i].status)
      BY DEF Queue
    <3>1. i + 1 \in 1 .. Len(feed) /\ j + 1 \in 1 .. Len(feed) /\ i + 1 < j + 1
      BY <1>1
    <3>2. feed[j + 1].status \in Succ(s, feed[i + 1].status)
      BY <1>1, <3>1 DEF Flows, Queue
    <3> QED
      BY <1>1, <2>1, <3>2
  <2>3. Traced(k)'
    <3>1. News(k)' \subseteq News(k)
      BY <1>1, <1>2 DEF News
    <3>2. \A x \in News(k) : x = sub[k].status \/ sub[k].status \in Succ(s, x)
      BY DEF Flows, Traced
    <3>3. \A x \in News(k)' : x = sub'[k].status \/ sub'[k].status \in Succ(t, x)
      BY <2>1, <3>1, <3>2
    <3> QED
      BY <3>3 DEF Traced
  <2> QED
    BY <2>2, <2>3 DEF Flows
<1> QED
  BY <1>3, <1>4

\* What the first event says of its sub-quest.
LEMMA FirstTraced ==
  ASSUME TypeOK, feed # <<>>, feed' = Tail(feed), NEW e \in Event, e = feed[1],
         NEW n \in Nodes, n = e.node, Flows(n), NEW s, s = dag.state[n]
  PROVE  /\ News(n)' \subseteq Succ(s, e.status)
         /\ sub[n].status \in {e.status} \cup Succ(s, e.status)
<1>1. /\ Len(feed) \in Nat \ {0} /\ Len(feed') = Len(feed) - 1
      /\ \A i \in 1 .. Len(feed') : feed'[i] = feed[i + 1]
  BY HandOutFacts
<1>2. \A i \in 1 .. Len(feed') : i + 1 \in 1 .. Len(feed) /\ 1 < i + 1
  BY <1>1
<1>3. 1 \in 1 .. Len(feed)
  BY <1>1
<1>4. News(n)' \subseteq Succ(s, e.status)
  <2> SUFFICES ASSUME NEW i \in 1 .. Len(feed'), feed'[i].node = n
               PROVE  feed'[i].status \in Succ(s, e.status)
    BY DEF News
  <2> QED
    BY <1>1, <1>2, <1>3 DEF Flows, Queue
<1>5. e.status \in News(n)
  BY <1>3 DEF News
<1> QED
  BY <1>4, <1>5 DEF Flows, Traced

-----------------------------------------------------------------------------
(* The steps of a DAG that the process that started it executes.           *)

\* Node k is not touched, but for a promotion.
Beside(k) ==
  /\ dag'.state[k] = dag.state[k] \/ (dag.state[k] = "pending" /\ dag'.state[k] = "ready")
  /\ dag'.assignee[k] = dag.assignee[k]
  /\ sub'[k] = sub[k]
  /\ News(k)' = News(k)
  /\ \A y \in {"review", "clarify"} :
       leads'[[kind |-> y, node |-> k]] = leads[[kind |-> y, node |-> k]]
  /\ Hand(k)' = Hand(k) \/ {Hand(k), Hand(k)'} \cap {"repost", "triage"} = {}

LEMMA BesideTended ==
  ASSUME NEW k \in Nodes, Tended(k), Beside(k), Flows(k)'
  PROVE  Tended(k)'
<1> DEFINE s == dag.state[k]
           t == dag'.state[k]
           a == Asks("review", k)
           b == Asks("clarify", k)
           st == sub[k].status
           news == News(k)
           h == Hand(k)
           g == Hand(k)'
<1>1. Suits(s, st, news, a, b, h) /\ (s \in Taken => sub[k].holder \in {None, dag.assignee[k]})
  BY DEF Tended
<1>2. /\ t = s \/ (s = "pending" /\ t = "ready")
      /\ g = h \/ {h, g} \cap {"repost", "triage"} = {}
      /\ News(k)' = news /\ sub'[k] = sub[k] /\ dag'.assignee[k] = dag.assignee[k]
  BY DEF Beside
<1>3. Asks("review", k)' = a /\ Asks("clarify", k)' = b
  BY DEF Beside, Asks
<1>4. Suits(t, st, news, a, b, g)
  <2> HIDE DEF s, t, a, b, st, news, h, g
  <2>1. CASE g = h
    BY <1>1, <1>2, <2>1 DEF Suits
  <2>2. CASE {h, g} \cap {"repost", "triage"} = {}
    <3>1. h \notin {"repost", "triage"} /\ g \notin {"repost", "triage"}
      BY <2>2
    <3> QED
      BY <1>1, <1>2, <3>1 DEF Suits
  <2> QED
    BY <1>2, <2>1, <2>2
<1>5. Suits(dag.state[k], sub[k].status, News(k), Asks("review", k), Asks("clarify", k), Hand(k))'
  BY <1>2, <1>3, <1>4
<1>6. t \in Taken => s \in Taken
  BY <1>2 DEF Taken
<1>7. (dag.state[k] \in Taken => sub[k].holder \in {None, dag.assignee[k]})'
  BY <1>1, <1>2, <1>6
<1> QED
  BY <1>5, <1>7 DEF Tended

LEMMA NodeTended ==
  ASSUME Tending, NEW n \in Nodes, dag' \in DAGExecutionState, Flows(n)',
         Suits(dag'.state[n], sub'[n].status, News(n)', Asks("review", n)', Asks("clarify", n)',
               Hand(n)'),
         dag'.state[n] \in Taken => sub'[n].holder \in {None, dag'.assignee[n]},
         \A k \in Nodes \ {n} : Beside(k) /\ Flows(k)'
  PROVE  Tending'
<1>1. Tended(n)'
  BY DEF Tended
<1>2. \A k \in Nodes \ {n} : Tended(k)'
  BY BesideTended DEF Tending
<1>3. dag' # None
  BY NoneAssumption
<1> QED
  BY <1>1, <1>2, <1>3 DEF Tending

LEMMA SameTending ==
  ASSUME Tending, UNCHANGED <<dag, sub, feed, leads, todo>>
  PROVE  Tending'
<1>1. ASSUME NEW k \in Nodes
      PROVE  Tended(k)'
  <2>1. Tended(k)
    BY DEF Tending
  <2>2. Beside(k)
    BY DEF Beside, News, Hand
  <2>3. Flows(k)'
    BY <2>1 DEF Tended, Flows, Queue, Traced, News
  <2> QED
    BY <2>1, <2>2, <2>3, BesideTended
<1> QED
  BY <1>1 DEF Tending

LEMMA RestTending ==
  ASSUME Shape, Tending, NEW op \in Ops \ {"repost", "triage"}, Doing(op), todo' = Tail(todo),
         UNCHANGED <<dag, sub, feed, leads>>
  PROVE  Tending'
<1>1. ASSUME NEW k \in Nodes
      PROVE  Tended(k)'
  <2>1. Hand(k)' \notin {"repost", "triage"}
    BY HandRest
  <2>2. Hand(k) \notin {"repost", "triage"}
    BY AtWork DEF Hand
  <2>3. Tended(k)
    BY DEF Tending
  <2>4. Beside(k)
    BY <2>1, <2>2 DEF Beside, News
  <2>5. Flows(k)'
    BY <2>3 DEF Tended, Flows, Queue, Traced, News
  <2> QED
    BY <2>3, <2>4, <2>5, BesideTended
<1> QED
  BY <1>1 DEF Tending

\* A put of the sub-quest of n that the loop has no hand in.
LEMMA PutTended ==
  ASSUME Shape, Tending, NEW n \in Nodes, NEW rec \in SubQuest, EmitSubQuest(n, rec),
         UNCHANGED <<dag, leads, todo>>, rec.holder \in {None, sub[n].holder},
         \A x \in News(n) : rec.status \in Succ(dag.state[n], x),
         Suits(dag.state[n], rec.status, News(n) \cup {rec.status}, Asks("review", n),
               Asks("clarify", n), Hand(n))
  PROVE  Tending'
<1>1. TypeOK /\ dag' \in DAGExecutionState
  BY DEF Shape, TypeOK, Tending
<1>2. ASSUME NEW k \in Nodes
      PROVE  Flows(k)'
  <2>1. Flows(k)
    BY DEF Tending, Tended
  <2>2. k = n => \A x \in News(n) : rec.status \in Succ(dag'.state[k], x)
    OBVIOUS
  <2>3. dag'.state[k] = dag.state[k]
    OBVIOUS
  <2> QED
    BY <1>1, <2>1, <2>2, <2>3, EmitFlows
<1>3. /\ News(n)' = News(n) \cup {rec.status} /\ \A k \in Nodes \ {n} : News(k)' = News(k)
      /\ sub'[n] = rec /\ \A k \in Nodes \ {n} : sub'[k] = sub[k]
  BY <1>1, EmitNews, EmitFacts
<1>4. \A k \in Nodes : Hand(k)' = Hand(k) /\ Asks("review", k)' = Asks("review", k)
                        /\ Asks("clarify", k)' = Asks("clarify", k)
  BY DEF Hand, Asks
<1>5. \A k \in Nodes \ {n} : Beside(k)
  BY <1>3, <1>4 DEF Beside
<1>6. dag.state[n] \in Taken => sub[n].holder \in {None, dag.assignee[n]}
  BY DEF Tending, Tended
<1>7. dag'.state[n] \in Taken => sub'[n].holder \in {None, dag'.assignee[n]}
  BY <1>3, <1>6
<1>8. Suits(dag'.state[n], sub'[n].status, News(n)', Asks("review", n)', Asks("clarify", n)',
            Hand(n)')
  BY <1>3, <1>4
<1> QED
  BY <1>1, <1>2, <1>5, <1>7, <1>8, NodeTended

\* What the invariant says of a node, over rigid values.
LEMMA TendedFacts ==
  ASSUME Tending, NEW n \in Nodes
  PROVE  /\ Suits(dag.state[n], sub[n].status, News(n), Asks("review", n), Asks("clarify", n), Hand(n))
         /\ \A x \in News(n) : x = sub[n].status \/ sub[n].status \in Succ(dag.state[n], x)
         /\ Flows(n)
         /\ dag.state[n] \in Taken => sub[n].holder \in {None, dag.assignee[n]}
BY DEF Tending, Tended, Flows, Traced

\* The operators, over rigid values: an attempt ends,
LEMMA EndSuits ==
  ASSUME NEW s, NEW news, NEW a, NEW b, NEW hand, NEW x \in Ends,
         Suits(s, "in_progress", news, a, b, hand),
         \A y \in news : y = "in_progress" \/ "in_progress" \in Succ(s, y)
  PROVE  Suits(s, x, news \cup {x}, a, b, hand) /\ \A y \in news : x \in Succ(s, y)
<1>1. /\ s \notin {"pending", "ready", "completed", "failed", "pending_triage"}
      /\ ~(a > 0) /\ ~(b > 0) /\ hand \notin {"triage", "repost"}
      /\ "pending_triage" \notin news
  BY DEF Suits, Verdicts
<1>2. \A y \in news : y = "in_progress" \/ y = "posted"
  BY DEF Succ, Ends, Verdicts
<1>3. \A y \in news : x \in Succ(s, y)
  BY <1>1, <1>2 DEF Succ
<1>4. Suits(s, x, news \cup {x}, a, b, hand)
  BY <1>1 DEF Suits, Ends
<1> QED
  BY <1>3, <1>4

\* triage comes to a verdict,
LEMMA VerdictSuits ==
  ASSUME NEW s, NEW news, NEW a, NEW b, NEW hand, NEW x \in Verdicts,
         Suits(s, "pending_triage", news, a, b, hand),
         \A y \in news : y = "pending_triage" \/ "pending_triage" \in Succ(s, y)
  PROVE  Suits(s, x, news \cup {x}, a, b, hand) /\ \A y \in news : x \in Succ(s, y)
<1>1. /\ s \notin {"pending", "ready", "completed", "failed"}
      /\ ~(a > 0) /\ ~(b > 0) /\ hand \notin {"triage", "repost"}
  BY DEF Suits
<1>2. \A y \in news : y = "pending_triage"
  BY DEF Succ, Ends, Verdicts
<1>3. \A y \in news : x \in Succ(s, y)
  BY <1>2 DEF Succ
<1>4. Suits(s, x, news \cup {x}, a, b, hand)
  BY <1>1 DEF Suits, Verdicts
<1> QED
  BY <1>3, <1>4

\* and an operator takes the sub-quest back.
LEMMA RepostSuits ==
  ASSUME NEW s, NEW st \in {"in_progress", "escalated"}, NEW news, NEW a, NEW b, NEW hand,
         Suits(s, st, news, a, b, hand),
         \A y \in news : y = st \/ st \in Succ(s, y)
  PROVE  /\ Suits(s, "posted", news \cup {"posted"}, a, b, hand)
         /\ \A y \in news : "posted" \in Succ(s, y)
<1>1. s \notin {"pending", "ready", "completed", "failed"} /\ ~(a > 0) /\ hand \notin {"triage", "repost"}
  BY DEF Suits
<1>2. \A y \in news : "posted" \in Succ(s, y)
  BY DEF Succ, Ends, Verdicts
<1>3. Suits(s, "posted", news \cup {"posted"}, a, b, hand)
  BY <1>1 DEF Suits, Verdicts
<1> QED
  BY <1>2, <1>3

LEMMA MembersTended ==
  ASSUME Shape, Tending, NEW n \in Nodes,
         Finish(n) \/ Ask(n) \/ TriageQuest(n) \/ SubQuestReposted(n)
  PROVE  Tending'
<1>1. /\ Suits(dag.state[n], sub[n].status, News(n), Asks("review", n), Asks("clarify", n), Hand(n))
      /\ \A x \in News(n) : x = sub[n].status \/ sub[n].status \in Succ(dag.state[n], x)
  BY TendedFacts
<1>2. UNCHANGED <<dag, leads, todo>>
  BY DEF Finish, Ask, TriageQuest, SubQuestReposted, memory, loops
<1>3. CASE Finish(n) \/ Ask(n)
  <2>1. /\ sub[n].status = "in_progress"
        /\ \E rec \in SubQuest : /\ rec.status \in Ends /\ rec.holder = sub[n].holder
                                 /\ EmitSubQuest(n, rec)
    BY <1>3, FinishEffect, AskEffect DEF Ends
  <2>2. PICK rec \in SubQuest : /\ rec.status \in Ends /\ rec.holder = sub[n].holder
                                /\ EmitSubQuest(n, rec)
    BY <2>1
  <2>3. /\ Suits(dag.state[n], "in_progress", News(n), Asks("review", n), Asks("clarify", n), Hand(n))
        /\ \A x \in News(n) : x = "in_progress" \/ "in_progress" \in Succ(dag.state[n], x)
    BY <1>1, <2>1
  <2>4. /\ Suits(dag.state[n], rec.status, News(n) \cup {rec.status}, Asks("review", n),
                 Asks("clarify", n), Hand(n))
        /\ \A x \in News(n) : rec.status \in Succ(dag.state[n], x)
    BY <2>2, <2>3, EndSuits
  <2> QED
    BY <1>2, <2>2, <2>4, PutTended
<1>4. CASE TriageQuest(n)
  <2>1. /\ sub[n].status = "pending_triage"
        /\ \E rec \in SubQuest : /\ rec.status \in Verdicts /\ rec.holder = sub[n].holder
                                 /\ EmitSubQuest(n, rec)
    BY <1>4, TriageQuestEffect DEF Verdicts
  <2>2. PICK rec \in SubQuest : /\ rec.status \in Verdicts /\ rec.holder = sub[n].holder
                                /\ EmitSubQuest(n, rec)
    BY <2>1
  <2>3. /\ Suits(dag.state[n], "pending_triage", News(n), Asks("review", n), Asks("clarify", n), Hand(n))
        /\ \A x \in News(n) : x = "pending_triage" \/ "pending_triage" \in Succ(dag.state[n], x)
    BY <1>1, <2>1
  <2>4. /\ Suits(dag.state[n], rec.status, News(n) \cup {rec.status}, Asks("review", n),
                 Asks("clarify", n), Hand(n))
        /\ \A x \in News(n) : rec.status \in Succ(dag.state[n], x)
    BY <2>2, <2>3, VerdictSuits
  <2> QED
    BY <1>2, <2>2, <2>4, PutTended
<1>5. CASE SubQuestReposted(n)
  <2>1. /\ sub[n].status \in {"in_progress", "escalated"}
        /\ \E rec \in SubQuest : rec.status = "posted" /\ rec.holder = None /\ EmitSubQuest(n, rec)
    BY <1>5, SubQuestRepostedEffect
  <2>2. PICK rec \in SubQuest : rec.status = "posted" /\ rec.holder = None /\ EmitSubQuest(n, rec)
    BY <2>1
  <2>3. /\ Suits(dag.state[n], "posted", News(n) \cup {"posted"}, Asks("review", n),
                 Asks("clarify", n), Hand(n))
        /\ \A x \in News(n) : "posted" \in Succ(dag.state[n], x)
    BY <1>1, <2>1, RepostSuits
  <2> QED
    BY <1>2, <2>2, <2>3, PutTended
<1> QED
  BY <1>3, <1>4, <1>5

-----------------------------------------------------------------------------
(* Events of a DAG that the process that started it executes.              *)

\* The status x of n is handled.
Heard(n, x) ==
  /\ Shape /\ Tending /\ Idle /\ UNCHANGED sub
  /\ feed # <<>> /\ feed' = Tail(feed)
  /\ News(n) = News(n)' \cup {x}
  /\ News(n)' \subseteq Succ(dag.state[n], x)
  /\ sub[n].status \in {x} \cup Succ(dag.state[n], x)
  /\ Suits(dag.state[n], sub[n].status, News(n), Asks("review", n), Asks("clarify", n), "none")
  /\ \A k \in Nodes \ {n} : News(k)' = News(k)

\* The handler changes nothing else than n, promotions aside.
Elsewhere(n) ==
  /\ dag' \in DAGExecutionState
  /\ \A k \in Nodes \ {n} :
       /\ dag'.state[k] = dag.state[k] \/ (dag.state[k] = "pending" /\ dag'.state[k] = "ready")
       /\ dag'.assignee[k] = dag.assignee[k]
       /\ \A y \in {"review", "clarify"} :
            leads'[[kind |-> y, node |-> k]] = leads[[kind |-> y, node |-> k]]
  /\ todo' = <<>> \/ todo'[1].node = n \/ todo'[1].op \notin {"repost", "triage"}

LEMMA BesideIdle ==
  ASSUME Idle, NEW n \in Nodes, Elsewhere(n), NEW k \in Nodes \ {n}, sub'[k] = sub[k],
         News(k)' = News(k)
  PROVE  Beside(k)
<1>1. {Hand(k), Hand(k)'} \cap {"repost", "triage"} = {}
  BY HandIdle DEF Hand, Elsewhere
<1> QED
  BY <1>1 DEF Beside, Elsewhere

LEMMA HeardTended ==
  ASSUME NEW n \in Nodes, NEW x, Heard(n, x), Elsewhere(n), NEW t, t = dag'.state[n],
         dag.state[n] = "pending_triage" \/ t # "pending_triage" \/ News(n)' = {},
         t \in Taken => dag.state[n] \in Taken /\ dag'.assignee[n] = dag.assignee[n],
         Suits(t, sub[n].status, News(n)', Asks("review", n)', Asks("clarify", n)', Hand(n)')
  PROVE  Tending'
<1>1. Tending /\ TypeOK /\ Idle
  BY DEF Heard, Shape
<1>2. Flows(n)'
  BY <1>1, TendedFacts, HandOutFlows DEF Heard
<1>3. ASSUME NEW k \in Nodes \ {n}
      PROVE  Beside(k) /\ Flows(k)'
  <2>1. Beside(k)
    BY <1>1, BesideIdle DEF Heard
  <2>2. dag.state[k] = "pending_triage" \/ dag'.state[k] # "pending_triage"
    BY DEF Elsewhere
  <2>3. Flows(k)
    BY <1>1, TendedFacts
  <2> QED
    BY <1>1, <2>1, <2>2, <2>3, HandOutFlows DEF Heard
<1>4. dag.state[n] \in Taken => sub[n].holder \in {None, dag.assignee[n]}
  BY <1>1, TendedFacts
<1>5. dag'.state[n] \in Taken => sub'[n].holder \in {None, dag'.assignee[n]}
  BY <1>4 DEF Heard
<1>6. Suits(dag'.state[n], sub'[n].status, News(n)', Asks("review", n)', Asks("clarify", n)',
            Hand(n)')
  BY DEF Heard
<1> QED
  BY <1>1, <1>2, <1>3, <1>5, <1>6, NodeTended DEF Elsewhere

\* An event of a status that only a sub-quest at work may have.
LEMMA HeardAtWork ==
  ASSUME NEW n \in Nodes, NEW x \in QuestStatuses \ {"posted"}, Heard(n, x)
  PROVE  /\ dag.state[n] \in Taken
         /\ Asks("review", n) = 0 /\ Asks("clarify", n) = 0
         /\ x \in {"in_review", "completed", "failed"} => News(n)' = {} /\ sub[n].status = x
<1>1. x \in News(n)
  BY DEF Heard
<1>2. dag.state[n] \in NodeStates
  BY IdleDag DEF Heard, Tending, DAGExecutionState
<1>3. Asks("review", n) \in Nat /\ Asks("clarify", n) \in Nat
  BY DEF Heard, Shape, TypeOK, Asks, LeadLoops
<1>4. dag.state[n] \notin {"pending", "ready", "completed", "failed"}
  BY <1>1 DEF Heard, Suits
<1>5. ~(Asks("review", n) > 0) /\ ~(Asks("clarify", n) > 0)
  BY <1>1 DEF Heard, Suits
<1>6. x \in {"in_review", "completed", "failed"} => Succ(dag.state[n], x) = {}
  BY DEF Succ
<1>7. x \in {"in_review", "completed", "failed"} => News(n)' = {} /\ sub[n].status = x
  BY <1>6 DEF Heard
<1>8. dag.state[n] \in Taken
  BY <1>2, <1>4 DEF NodeStates, Taken
<1> QED
  BY <1>3, <1>5, <1>7, <1>8

LEMMA MovedElsewhere ==
  ASSUME NEW n \in Nodes, NEW s, Moved(n, s),
         \A k \in Nodes \ {n}, y \in {"review", "clarify"} :
            leads'[[kind |-> y, node |-> k]] = leads[[kind |-> y, node |-> k]],
         todo' = <<>> \/ todo'[1].node = n \/ todo'[1].op \notin {"repost", "triage"}
  PROVE  Elsewhere(n) /\ dag'.state[n] = s /\ dag'.assignee[n] = dag.assignee[n]
BY DEF Moved, Elsewhere

LEMMA HeardStarted ==
  ASSUME NEW n \in Nodes, Heard(n, "in_progress"), Becomes(dag, n, "in_progress"), UNCHANGED loops
  PROVE  Tending'
<1>1. dag \in DAGExecutionState
  BY IdleDag DEF Heard, Tending
<1>2. Moved(n, "in_progress") /\ todo' = <<Do("persist", n)>>
  BY <1>1, BecomesEffect DEF NodeStates
<1>3. Hand(n)' \notin {"repost", "triage"} /\ todo'[1].op = "persist"
  BY <1>2, PersistFirst
<1>4. Elsewhere(n) /\ dag'.state[n] = "in_progress" /\ dag'.assignee[n] = dag.assignee[n]
  BY <1>2, <1>3, MovedElsewhere DEF loops
<1>5. /\ dag.state[n] \in Taken
      /\ Asks("review", n) = 0 /\ Asks("clarify", n) = 0
  BY HeardAtWork DEF QuestStatuses
<1>6. Asks("review", n)' = 0 /\ Asks("clarify", n)' = 0
  BY <1>5 DEF Asks, loops
<1>7. "pending_triage" \notin News(n)'
  BY DEF Heard, Succ, Ends
<1>8. Suits("in_progress", sub[n].status, News(n)', Asks("review", n)', Asks("clarify", n)', Hand(n)')
  BY <1>3, <1>6, <1>7 DEF Suits
<1> QED
  BY <1>4, <1>5, <1>8, HeardTended

LEMMA HeardFinished ==
  ASSUME NEW n \in Nodes, Heard(n, "in_review"), Becomes(dag, n, "pending_review"),
         DispatchLeadReview(n)
  PROVE  Tending'
<1>1. dag \in DAGExecutionState /\ TypeOK
  BY IdleDag DEF Heard, Tending, Shape
<1>2. Moved(n, "pending_review") /\ todo' = <<Do("persist", n)>>
  BY <1>1, BecomesEffect DEF NodeStates
<1>3. Hand(n)' \notin {"repost", "triage"} /\ todo'[1].op = "persist"
  BY <1>2, PersistFirst
<1>4. /\ \/ leads'[[kind |-> "review", node |-> n]] = leads[[kind |-> "review", node |-> n]] + 1
         \/ leads'[[kind |-> "review", node |-> n]] = leads[[kind |-> "review", node |-> n]]
      /\ \A k \in Nodes, y \in {"review", "clarify"} : k # n \/ y # "review" =>
           leads'[[kind |-> y, node |-> k]] = leads[[kind |-> y, node |-> k]]
  BY <1>1, DispatchEffect DEF DispatchLeadReview
<1>5. Elsewhere(n) /\ dag'.state[n] = "pending_review" /\ dag'.assignee[n] = dag.assignee[n]
  BY <1>2, <1>3, <1>4, MovedElsewhere
<1>6. /\ dag.state[n] \in Taken
      /\ Asks("review", n) = 0 /\ Asks("clarify", n) = 0
      /\ News(n)' = {} /\ sub[n].status = "in_review"
  BY HeardAtWork DEF QuestStatuses
<1>7. Asks("review", n)' \in {0, 1} /\ Asks("clarify", n)' = 0
  BY <1>4, <1>6 DEF Asks
<1>8. Suits("pending_review", sub[n].status, News(n)', Asks("review", n)', Asks("clarify", n)', Hand(n)')
  BY <1>3, <1>6, <1>7 DEF Suits
<1> QED
  BY <1>5, <1>6, <1>8, HeardTended

LEMMA HeardAsking ==
  ASSUME NEW n \in Nodes, Heard(n, "escalated"), Becomes(dag, n, "awaiting_clarification"),
         DispatchLeadClarification(n)
  PROVE  Tending'
<1>1. dag \in DAGExecutionState /\ TypeOK
  BY IdleDag DEF Heard, Tending, Shape
<1>2. Moved(n, "awaiting_clarification") /\ todo' = <<Do("persist", n)>>
  BY <1>1, BecomesEffect DEF NodeStates
<1>3. Hand(n)' \notin {"repost", "triage"} /\ todo'[1].op = "persist"
  BY <1>2, PersistFirst
<1>4. /\ \/ leads'[[kind |-> "clarify", node |-> n]] = leads[[kind |-> "clarify", node |-> n]] + 1
         \/ leads'[[kind |-> "clarify", node |-> n]] = leads[[kind |-> "clarify", node |-> n]]
      /\ \A k \in Nodes, y \in {"review", "clarify"} : k # n \/ y # "clarify" =>
           leads'[[kind |-> y, node |-> k]] = leads[[kind |-> y, node |-> k]]
  BY <1>1, DispatchEffect DEF DispatchLeadClarification
<1>5. Elsewhere(n) /\ dag'.state[n] = "awaiting_clarification" /\ dag'.assignee[n] = dag.assignee[n]
  BY <1>2, <1>3, <1>4, MovedElsewhere
<1>6. /\ dag.state[n] \in Taken
      /\ Asks("review", n) = 0 /\ Asks("clarify", n) = 0
  BY HeardAtWork DEF QuestStatuses
<1>7. Asks("clarify", n)' \in {0, 1} /\ Asks("review", n)' = 0
  BY <1>4, <1>6 DEF Asks
<1>8. News(n)' \subseteq {"posted"} /\ sub[n].status \in {"escalated", "posted"}
  BY DEF Heard, Succ
<1>9. Suits("awaiting_clarification", sub[n].status, News(n)', Asks("review", n)',
            Asks("clarify", n)', Hand(n)')
  BY <1>3, <1>7, <1>8 DEF Suits
<1> QED
  BY <1>5, <1>6, <1>9, HeardTended

LEMMA NewPlanEnding ==
  ASSUME GivingUp(todo') \/ Delivering(todo')
  PROVE  Ending'
<1>1. CASE GivingUp(todo')
  <2>1. 2 \in 1 .. Len(todo') /\ todo'[2].op = "escalate"
    BY <1>1 DEF GivingUp
  <2> QED
    BY <2>1 DEF Ending
<1>2. CASE Delivering(todo')
  <2>1. 2 \in 1 .. Len(todo') /\ todo'[2].op = "submit"
    BY <1>2, LenProperties DEF Delivering
  <2> QED
    BY <2>1 DEF Ending
<1> QED
  BY <1>1, <1>2

LEMMA HeardCompleted ==
  ASSUME NEW n \in Nodes, Heard(n, "completed"), HandleNodeCompleted(dag, n), UNCHANGED leads
  PROVE  Tending' \/ Ending'
<1>1. /\ dag \in DAGExecutionState
      /\ synthesis \in Nat /\ mishaps \in 0 .. MishapBound
  BY IdleDag DEF Heard, Tending, Shape, TypeOK
<1>2. /\ dag' \in DAGExecutionState
      /\ dag'.state[n] = "completed" /\ dag'.assignee = dag.assignee
      /\ \A k \in Nodes \ {n} : \/ dag'.state[k] = dag.state[k]
                                \/ dag.state[k] = "pending" /\ dag'.state[k] = "ready"
      /\ \/ /\ \A k \in Nodes : dag'.state[k] = "completed"
            /\ todo' = <<Do("persist", n)>> \/ Delivering(todo')
         \/ todo' = <<Do("assign", n), Do("persist", n)>>
  BY <1>1, NodeCompletedEffect
<1>3. CASE todo' = <<Do("persist", n)>> \/ todo' = <<Do("assign", n), Do("persist", n)>>
  <2>1. Do("persist", n).op = "persist" /\ Do("assign", n).op = "assign"
    BY DoType DEF Ops
  <2>2. todo'[1].op \notin {"repost", "triage"}
    BY <1>3, <2>1
  <2>3. Elsewhere(n) /\ Hand(n)' \notin {"repost", "triage"}
    BY <1>2, <2>2, HandElse DEF Elsewhere
  <2>4. /\ Asks("review", n) = 0 /\ Asks("clarify", n) = 0
        /\ News(n)' = {} /\ sub[n].status = "completed"
    BY HeardAtWork DEF QuestStatuses
  <2>5. Asks("review", n)' = 0 /\ Asks("clarify", n)' = 0
    BY <2>4 DEF Asks
  <2>6. Suits("completed", sub[n].status, News(n)', Asks("review", n)', Asks("clarify", n)', Hand(n)')
    BY <2>3, <2>4, <2>5 DEF Suits
  <2>7. "completed" \notin Taken
    BY DEF Taken
  <2> QED
    BY <1>2, <2>3, <2>6, <2>7, HeardTended
<1> QED
  BY <1>2, <1>3, NewPlanEnding

LEMMA KeptFlows ==
  ASSUME TypeOK, UNCHANGED sub, feed' = feed \/ (feed # <<>> /\ feed' = Tail(feed)),
         NEW k \in Nodes, Flows(k),
         dag.state[k] = "pending_triage" \/ dag'.state[k] # "pending_triage"
  PROVE  Flows(k)'
<1> DEFINE t == dag'.state[k]
<1>1. t = dag'.state[k] /\ (dag.state[k] = "pending_triage" \/ t # "pending_triage")
  OBVIOUS
<1> HIDE DEF t
<1>2. CASE feed' = feed
  BY <1>1, <1>2, StillFlows
<1>3. CASE feed # <<>> /\ feed' = Tail(feed)
  BY <1>1, <1>3, HandOutFlows
<1> QED
  BY <1>2, <1>3

\* Nothing is heard of other nodes than n.
Unheard(n) ==
  /\ \A k \in Nodes \ {n} : News(k)' = News(k)
  /\ \A k \in Nodes \ {n}, y \in {"review", "clarify"} :
       leads'[[kind |-> y, node |-> k]] = leads[[kind |-> y, node |-> k]]

\* A failed attempt is repeated, handed to triage, or the parent's end.
LEMMA FailedTended ==
  ASSUME Shape, Tending, Idle, NEW n \in Nodes, HandleNodeFailed(dag, n), UNCHANGED sub,
         feed' = feed \/ (feed # <<>> /\ feed' = Tail(feed)),
         sub[n].status \in {"failed", "in_review"}, News(n)' = {}, dag.state[n] \in Taken,
         Asks("review", n)' = 0, Asks("clarify", n)' = 0,
         Unheard(n)
  PROVE  Tending' \/ Ending'
<1>1. /\ dag \in DAGExecutionState /\ TypeOK
      /\ setting \in [fault : Faults, triage : BOOLEAN, retries : Nat]
  BY IdleDag DEF Tending, Shape, TypeOK
<1>2. \/ /\ Reopened(n)
         /\ todo' = <<Do("repost", n), Do("assign", n), Do("persist", n)>>
      \/ /\ Moved(n, "pending_triage")
         /\ todo' = <<Do("triage", n), Do("persist", n)>>
      \/ GivingUp(todo')
  BY <1>1, NodeFailedEffect
<1>3. Flows(n)'
  <2>1. \A i \in 1 .. Len(feed') : feed'[i].node # n
    BY DEF News
  <2> QED
    BY <2>1 DEF Flows, Queue, Traced
<1>4. ASSUME Elsewhere(n), NEW k \in Nodes \ {n}
      PROVE  Beside(k) /\ Flows(k)'
  <2>1. Beside(k)
    BY <1>4, BesideIdle DEF Unheard
  <2>2. dag.state[k] = "pending_triage" \/ dag'.state[k] # "pending_triage"
    BY <1>4 DEF Elsewhere
  <2>3. Flows(k)
    BY TendedFacts
  <2> QED
    BY <1>1, <2>1, <2>2, <2>3, KeptFlows
<1>5. /\ Do("repost", n).op = "repost" /\ Do("repost", n).node = n
      /\ Do("triage", n).op = "triage" /\ Do("triage", n).node = n
  BY DoType DEF Ops
<1>6. dag.state[n] \in Taken => sub[n].holder \in {None, dag.assignee[n]}
  BY TendedFacts
<1>7. CASE Reopened(n) /\ todo' = <<Do("repost", n), Do("assign", n), Do("persist", n)>>
  <2>1. todo'[1].op = "repost" /\ todo'[1].node = n /\ todo' # <<>>
    BY <1>5, <1>7
  <2>2. Hand(n)' = "repost"
    BY <2>1, HandFirst
  <2>3. Elsewhere(n)
    BY <1>7, <2>1 DEF Reopened, Elsewhere, Unheard
  <2>4. dag'.state[n] \in {"pending", "ready"}
    BY <1>7 DEF Reopened
  <2>5. Suits(dag'.state[n], sub'[n].status, News(n)', Asks("review", n)', Asks("clarify", n)', Hand(n)')
    BY <2>2, <2>4 DEF Suits
  <2>6. dag'.state[n] \notin Taken
    BY <2>4 DEF Taken
  <2> QED
    BY <1>3, <1>4, <2>3, <2>5, <2>6, NodeTended DEF Elsewhere
<1>8. CASE Moved(n, "pending_triage") /\ todo' = <<Do("triage", n), Do("persist", n)>>
  <2>1. todo'[1].op = "triage" /\ todo'[1].node = n /\ todo' # <<>>
    BY <1>5, <1>8
  <2>2. Hand(n)' = "triage"
    BY <2>1, HandFirst
  <2>3. Elsewhere(n) /\ dag'.state[n] = "pending_triage" /\ dag'.assignee[n] = dag.assignee[n]
    BY <1>8, <2>1, MovedElsewhere DEF Unheard
  <2>4. Suits(dag'.state[n], sub'[n].status, News(n)', Asks("review", n)', Asks("clarify", n)', Hand(n)')
    BY <2>2, <2>3 DEF Suits
  <2>5. dag'.state[n] \in Taken => sub'[n].holder \in {None, dag'.assignee[n]}
    BY <1>6, <2>3
  <2> QED
    BY <1>3, <1>4, <2>3, <2>4, <2>5, NodeTended DEF Elsewhere
<1>9. CASE GivingUp(todo')
  BY <1>9, NewPlanEnding
<1> QED
  BY <1>2, <1>7, <1>8, <1>9

LEMMA HeardFailed ==
  ASSUME NEW n \in Nodes, Heard(n, "failed"), HandleNodeFailed(dag, n), UNCHANGED leads
  PROVE  Tending' \/ Ending'
<1>1. /\ dag.state[n] \in Taken
      /\ Asks("review", n) = 0 /\ Asks("clarify", n) = 0
      /\ News(n)' = {} /\ sub[n].status = "failed"
  BY HeardAtWork DEF QuestStatuses
<1>2. Asks("review", n)' = 0 /\ Asks("clarify", n)' = 0
  BY <1>1 DEF Asks
<1> QED
  BY <1>1, <1>2, FailedTended DEF Heard, Unheard

LEMMA HeardDefeat ==
  ASSUME NEW n \in Nodes, Heard(n, "failed"), Becomes(dag, n, "failed"), UNCHANGED leads
  PROVE  Tending'
<1>1. dag \in DAGExecutionState
  BY IdleDag DEF Heard, Tending
<1>2. Moved(n, "failed") /\ todo' = <<Do("persist", n)>>
  BY <1>1, BecomesEffect DEF NodeStates
<1>3. Hand(n)' \notin {"repost", "triage"} /\ todo'[1].op = "persist"
  BY <1>2, PersistFirst
<1>4. Elsewhere(n) /\ dag'.state[n] = "failed" /\ dag'.assignee[n] = dag.assignee[n]
  BY <1>2, <1>3, MovedElsewhere
<1>5. /\ Asks("review", n) = 0 /\ Asks("clarify", n) = 0
      /\ News(n)' = {} /\ sub[n].status = "failed"
  BY HeardAtWork DEF QuestStatuses
<1>6. Asks("review", n)' = 0 /\ Asks("clarify", n)' = 0
  BY <1>5 DEF Asks
<1>7. Suits("failed", sub[n].status, News(n)', Asks("review", n)', Asks("clarify", n)', Hand(n)')
  BY <1>3, <1>5, <1>6 DEF Suits
<1>8. "failed" \notin Taken
  BY DEF Taken
<1> QED
  BY <1>4, <1>7, <1>8, HeardTended

\* Fewer news of a node that stays as it is.
LEMMA FewerNews ==
  ASSUME NEW s, NEW st, NEW news, NEW rest \in SUBSET news, NEW a, NEW b,
         NEW g, g \notin {"repost", "triage"}, Suits(s, st, news, a, b, "none")
  PROVE  Suits(s, st, rest, a, b, g)
BY DEF Suits

\* The event changes nothing of its node.
LEMMA HeardIdly ==
  ASSUME NEW n \in Nodes, NEW x, Heard(n, x), Elsewhere(n), UNCHANGED leads,
         dag'.state[n] = dag.state[n], dag'.assignee[n] = dag.assignee[n],
         Hand(n)' \notin {"repost", "triage"}
  PROVE  Tending'
<1>1. News(n)' \in SUBSET News(n)
  BY DEF Heard
<1>2. Suits(dag.state[n], sub[n].status, News(n), Asks("review", n), Asks("clarify", n), "none")
  BY DEF Heard
<1>3. Suits(dag.state[n], sub[n].status, News(n)', Asks("review", n), Asks("clarify", n), Hand(n)')
  BY <1>1, <1>2, FewerNews
<1>4. Asks("review", n)' = Asks("review", n) /\ Asks("clarify", n)' = Asks("clarify", n)
  BY DEF Asks
<1>5. Suits(dag'.state[n], sub[n].status, News(n)', Asks("review", n)', Asks("clarify", n)', Hand(n)')
  BY <1>3, <1>4
<1> QED
  BY <1>5, HeardTended

LEMMA HeardTriage ==
  ASSUME NEW n \in Nodes, Heard(n, "pending_triage"), Becomes(dag, n, "pending_triage"),
         UNCHANGED leads
  PROVE  Tending'
<1>1. dag \in DAGExecutionState
  BY IdleDag DEF Heard, Tending
<1>2. Moved(n, "pending_triage") /\ todo' = <<Do("persist", n)>>
  BY <1>1, BecomesEffect DEF NodeStates
<1>3. Hand(n)' \notin {"repost", "triage"} /\ todo'[1].op = "persist"
  BY <1>2, PersistFirst
<1>4. Elsewhere(n) /\ dag'.state[n] = "pending_triage" /\ dag'.assignee[n] = dag.assignee[n]
  BY <1>2, <1>3, MovedElsewhere
<1>5. dag.state[n] = "pending_triage"
  BY DEF Heard, Suits
<1> QED
  BY <1>3, <1>4, <1>5, HeardIdly

LEMMA HeardPosted ==
  ASSUME NEW n \in Nodes, NEW x, Heard(n, x), UNCHANGED <<dag, leads>>,
         todo' = <<Do("persist", n)>> \/ UNCHANGED todo
  PROVE  Tending'
<1>1. dag \in DAGExecutionState
  BY IdleDag DEF Heard, Tending
<1>2. Hand(n)' \notin {"repost", "triage"} /\ (todo' = <<>> \/ todo'[1].op = "persist")
  <2>1. CASE todo' = <<Do("persist", n)>>
    BY <2>1, PersistFirst
  <2>2. CASE UNCHANGED todo
    BY <2>2 DEF Heard, Idle, Hand
  <2> QED
    BY <2>1, <2>2
<1>3. Elsewhere(n)
  BY <1>1, <1>2 DEF Elsewhere
<1> QED
  BY <1>2, <1>3, HeardIdly

LEMMA HeardSalvaged ==
  ASSUME NEW n \in Nodes, Heard(n, "posted"), dag.state[n] = "pending_triage",
         dag' = Reopen(dag, n), todo' = <<Do("assign", n), Do("persist", n)>>, UNCHANGED leads
  PROVE  Tending'
<1>1. dag \in DAGExecutionState
  BY IdleDag DEF Heard, Tending
<1>2. /\ dag' \in DAGExecutionState
      /\ dag'.state[n] \in {"pending", "ready"}
      /\ \A k \in Nodes \ {n} : \/ dag'.state[k] = dag.state[k]
                                \/ dag.state[k] = "pending" /\ dag'.state[k] = "ready"
      /\ \A k \in Nodes \ {n} : dag'.assignee[k] = dag.assignee[k]
  BY <1>1, ReopenFacts
<1>3. Do("assign", n).op = "assign"
  BY DoType DEF Ops
<1>4. todo'[1].op = "assign"
  BY <1>3
<1>5. Hand(n)' \notin {"repost", "triage"}
  BY <1>4, HandElse
<1>6. Elsewhere(n)
  BY <1>2, <1>4 DEF Elsewhere
<1>7. Succ(dag.state[n], "posted") = {}
  BY DEF Succ
<1>8. News(n)' = {} /\ sub[n].status = "posted"
  BY <1>7 DEF Heard
<1>9. Asks("review", n) \in Nat /\ Asks("clarify", n) \in Nat
  BY DEF Heard, Shape, TypeOK, Asks, LeadLoops
<1>10. ~(Asks("review", n) > 0) /\ ~(Asks("clarify", n) > 0)
  BY DEF Heard, Suits
<1>11. ~(Asks("review", n)' > 0) /\ ~(Asks("clarify", n)' > 0)
  BY <1>10 DEF Asks
<1>12. Suits(dag'.state[n], sub[n].status, News(n)', Asks("review", n)', Asks("clarify", n)', Hand(n)')
  BY <1>2, <1>5, <1>8, <1>11 DEF Suits
<1>13. dag'.state[n] \notin Taken
  BY <1>2 DEF Taken
<1> QED
  BY <1>6, <1>8, <1>12, <1>13, HeardTended

LEMMA TransitionTended ==
  ASSUME Shape, Tending, OnSubQuestTransition
  PROVE  Tending' \/ Ending'
<1> DEFINE e == Head(feed)
<1>1. /\ Idle /\ feed # <<>> /\ feed' = Tail(feed) /\ UNCHANGED sub /\ TypeOK
  BY DEF OnSubQuestTransition, Shape
<1>2. e = feed[1] /\ e \in Event /\ e.node \in Nodes /\ e.status \in QuestStatuses
  BY <1>1, HandOutFacts DEF Event
<1>3. \/ HandleSubQuestTransition(e) /\ dag # None
      \/ UNCHANGED <<dag, todo, loops>>
  BY DEF OnSubQuestTransition
<1> HIDE DEF e
<1>4. PICK n \in Nodes, s \in QuestStatuses : n = e.node /\ s = e.status
  BY <1>2
<1>5. Heard(n, s)
  <2>1. /\ Suits(dag.state[n], sub[n].status, News(n), Asks("review", n), Asks("clarify", n), Hand(n))
        /\ Flows(n)
    BY TendedFacts
  <2>2. News(n) = News(n)' \cup {s} /\ \A k \in Nodes \ {n} : News(k)' = News(k)
    BY <1>1, <1>2, <1>4, FirstNews
  <2>3. /\ News(n)' \subseteq Succ(dag.state[n], s)
        /\ sub[n].status \in {s} \cup Succ(dag.state[n], s)
    BY <1>1, <1>2, <1>4, <2>1, FirstTraced
  <2>4. Hand(n) = "none"
    BY <1>1, HandIdle
  <2> QED
    BY <1>1, <2>1, <2>2, <2>3, <2>4 DEF Heard
<1>6. dag \in DAGExecutionState
  BY IdleDag DEF Tending
<1>7. CASE UNCHANGED <<dag, todo, loops>>
  BY <1>5, <1>7, HeardPosted DEF loops
<1> SUFFICES ASSUME HandleSubQuestTransition(e)
             PROVE  Tending' \/ Ending'
  BY <1>3, <1>7
<1>8. CASE s = "in_progress"
  BY <1>4, <1>5, <1>8, HeardStarted DEF HandleSubQuestTransition
<1>9. CASE s = "in_review"
  BY <1>4, <1>5, <1>9, HeardFinished DEF HandleSubQuestTransition
<1>10. CASE s = "completed"
  BY <1>4, <1>5, <1>10, HeardCompleted DEF HandleSubQuestTransition
<1>11. CASE s = "failed" /\ dag.state[n] # "pending_triage"
  BY <1>4, <1>5, <1>11, HeardFailed, HeardDefeat DEF HandleSubQuestTransition, loops
<1>12. CASE s \in {"failed", "escalated"} /\ dag.state[n] = "pending_triage"
  <2>1. HandleTriageTerminal(dag, n)
    BY <1>4, <1>12 DEF HandleSubQuestTransition
  <2> QED
    BY <1>6, <2>1, TriageTerminalEffect, NewPlanEnding
<1>13. CASE s = "escalated" /\ dag.state[n] # "pending_triage"
  BY <1>4, <1>5, <1>13, HeardAsking DEF HandleSubQuestTransition
<1>14. CASE s = "pending_triage"
  BY <1>4, <1>5, <1>14, HeardTriage DEF HandleSubQuestTransition, loops
<1>15. CASE s = "posted" /\ dag.state[n] = "pending_triage"
  BY <1>4, <1>5, <1>15, HeardSalvaged DEF HandleSubQuestTransition, loops
<1>16. CASE s = "posted" /\ dag.state[n] # "pending_triage"
  BY <1>4, <1>5, <1>16, HeardPosted DEF HandleSubQuestTransition, loops
<1> QED
  BY <1>8, <1>9, <1>10, <1>11, <1>12, <1>13, <1>14, <1>15, <1>16 DEF QuestStatuses

-----------------------------------------------------------------------------
(* Results of the lead, for a DAG that the process that started it executes. *)

LEMMA LeadFacts ==
  ASSUME Shape, Tending, NEW n \in Nodes
  PROVE  /\ Asks("review", n) \in Nat /\ Asks("clarify", n) \in Nat
         /\ Asks("review", n) > 0 =>
              /\ Asks("review", n) = 1 /\ Asks("clarify", n) = 0
              /\ dag.state[n] = "pending_review" /\ sub[n].status = "in_review" /\ News(n) = {}
         /\ Asks("clarify", n) > 0 =>
              /\ Asks("clarify", n) = 1 /\ Asks("review", n) = 0
              /\ dag.state[n] = "awaiting_clarification" /\ sub[n].status \in {"escalated", "posted"}
              /\ News(n) \subseteq {"posted"}
         /\ Asks("review", n) > 0 \/ Asks("clarify", n) > 0 => dag.state[n] \in Taken
<1> DEFINE a == Asks("review", n)
           b == Asks("clarify", n)
<1>1. a \in Nat /\ b \in Nat
  BY DEF Shape, TypeOK, Asks, LeadLoops
<1>2. Suits(dag.state[n], sub[n].status, News(n), a, b, Hand(n))
  BY TendedFacts
<1> HIDE DEF a, b
<1>3. /\ a > 0 => /\ a = 1 /\ ~(b > 0)
                  /\ dag.state[n] = "pending_review" /\ sub[n].status = "in_review" /\ News(n) = {}
      /\ b > 0 => /\ b = 1 /\ ~(a > 0)
                  /\ dag.state[n] = "awaiting_clarification" /\ sub[n].status \in {"escalated", "posted"}
                  /\ News(n) \subseteq {"posted"}
  BY <1>2 DEF Suits
<1> QED
  BY <1>1, <1>3 DEF a, b, Taken

\* What is left of a loop's results when one is handled.
Answered(kind, n) ==
  /\ Asks(kind, n)' = 0
  /\ \A k \in Nodes, y \in {"review", "clarify"} : k # n \/ y # kind =>
       leads'[[kind |-> y, node |-> k]] = leads[[kind |-> y, node |-> k]]

LEMMA OneAnswered ==
  ASSUME Shape, NEW n \in Nodes, NEW kind \in {"review", "clarify"}, Asks(kind, n) = 1,
         leads' = [leads EXCEPT ![[kind |-> kind, node |-> n]] = @ - 1]
  PROVE  Answered(kind, n)
<1> DEFINE l == [kind |-> kind, node |-> n]
<1>1. leads \in [LeadLoops -> Nat] /\ l \in LeadLoops
  BY DEF Shape, TypeOK, LeadLoops
<1>2. ASSUME NEW k \in Nodes, NEW y \in {"review", "clarify"}, k # n \/ y # kind
      PROVE  [kind |-> y, node |-> k] \in LeadLoops /\ [kind |-> y, node |-> k] # l
  BY <1>2 DEF LeadLoops
<1>3. leads[l] = 1 /\ leads' = [leads EXCEPT ![l] = leads[l] - 1]
  BY DEF Asks
<1>4. leads'[l] = 0
  BY <1>1, <1>3
<1>5. \A j \in LeadLoops : j # l => leads'[j] = leads[j]
  BY <1>1, <1>3
<1>6. ASSUME NEW k \in Nodes, NEW y \in {"review", "clarify"}, k # n \/ y # kind
      PROVE  leads'[[kind |-> y, node |-> k]] = leads[[kind |-> y, node |-> k]]
  BY <1>2, <1>5, <1>6
<1> QED
  BY <1>4, <1>6 DEF Answered, Asks

LEMMA ResultOnce ==
  ASSUME Shape, Tending, setting.fault # "duplicate", NEW n \in Nodes,
         NEW kind \in {"review", "clarify"}, Result(kind, n)
  PROVE  Idle /\ Asks(kind, n) > 0 /\ Answered(kind, n)
<1>1. /\ Idle /\ Asks(kind, n) > 0
      /\ leads' = [leads EXCEPT ![[kind |-> kind, node |-> n]] = @ - 1]
  BY DEF Result, Mishap, Asks
<1>2. Asks(kind, n) = 1
  BY <1>1, LeadFacts
<1> QED
  BY <1>1, <1>2, OneAnswered

\* The loop puts the sub-quest of n itself.
LEMMA LedTended ==
  ASSUME Shape, Tending, Idle, NEW n \in Nodes, NEW rec \in SubQuest, EmitSubQuest(n, rec),
         Elsewhere(n), rec.holder = sub[n].holder, dag.state[n] \in Taken,
         NEW t, t = dag'.state[n], t # "pending_triage", dag'.assignee[n] = dag.assignee[n],
         \A x \in News(n) : rec.status \in Succ(t, x),
         Suits(t, rec.status, News(n) \cup {rec.status}, Asks("review", n)', Asks("clarify", n)',
               Hand(n)')
  PROVE  Tending'
<1>1. TypeOK
  BY DEF Shape
<1>2. /\ News(n)' = News(n) \cup {rec.status} /\ \A k \in Nodes \ {n} : News(k)' = News(k)
      /\ sub'[n] = rec /\ \A k \in Nodes \ {n} : sub'[k] = sub[k]
  BY <1>1, EmitNews, EmitFacts
<1>3. Flows(n)'
  BY <1>1, TendedFacts, EmitFlows
<1>4. ASSUME NEW k \in Nodes \ {n}
      PROVE  Beside(k) /\ Flows(k)'
  <2>1. Beside(k)
    BY <1>2, BesideIdle
  <2>2. dag.state[k] = "pending_triage" \/ dag'.state[k] # "pending_triage"
    BY DEF Elsewhere
  <2>3. Flows(k)
    BY TendedFacts
  <2> QED
    BY <1>1, <2>1, <2>2, <2>3, EmitFlows
<1>5. dag.state[n] \in Taken => sub[n].holder \in {None, dag.assignee[n]}
  BY TendedFacts
<1>6. dag'.state[n] \in Taken => sub'[n].holder \in {None, dag'.assignee[n]}
  BY <1>2, <1>5
<1>7. Suits(dag'.state[n], sub'[n].status, News(n)', Asks("review", n)', Asks("clarify", n)',
            Hand(n)')
  BY <1>2
<1> QED
  BY <1>3, <1>4, <1>6, <1>7, NodeTended DEF Elsewhere

LEMMA VerdictTended ==
  ASSUME Shape, Tending, setting.fault # "duplicate", NEW n \in Nodes, OnReviewCompleted(n)
  PROVE  Tending'
<1>1. Idle /\ Asks("review", n) > 0 /\ Answered("review", n)
  BY ResultOnce DEF OnReviewCompleted
<1>2. /\ dag.state[n] = "pending_review" /\ News(n) = {}
      /\ Asks("clarify", n) = 0 /\ dag.state[n] \in Taken
  BY <1>1, LeadFacts
<1>3. PICK verdict \in {"completed", "failed"} : EmitSubQuest(n, [sub[n] EXCEPT !.status = verdict])
  BY DEF OnReviewCompleted
<1> DEFINE rec == [sub[n] EXCEPT !.status = verdict]
<1>4. verdict \in QuestStatuses /\ TypeOK
  BY DEF QuestStatuses, Shape
<1>5. rec \in SubQuest /\ rec.status = verdict /\ rec.holder = sub[n].holder
  BY <1>4, StatusPut
<1>6. EmitSubQuest(n, rec)
  BY <1>3
<1> HIDE DEF rec
<1>7. UNCHANGED <<dag, todo>> /\ dag \in DAGExecutionState
  BY IdleDag DEF OnReviewCompleted, memory, Tending
<1>8. Elsewhere(n) /\ Hand(n)' = "none"
  BY <1>1, <1>7 DEF Elsewhere, Answered, Idle, Hand
<1>9. Asks("review", n)' = 0 /\ Asks("clarify", n)' = 0
  BY <1>1, <1>2 DEF Answered, Asks
<1>10. Suits("pending_review", rec.status, News(n) \cup {rec.status}, Asks("review", n)',
             Asks("clarify", n)', Hand(n)')
  BY <1>2, <1>5, <1>8, <1>9 DEF Suits
<1>11. dag'.state[n] = "pending_review" /\ dag'.assignee[n] = dag.assignee[n]
  BY <1>2, <1>7
<1>12. \A x \in News(n) : rec.status \in Succ("pending_review", x)
  BY <1>2
<1> QED
  BY <1>1, <1>2, <1>5, <1>6, <1>8, <1>10, <1>11, <1>12, LedTended

LEMMA AnswerTended ==
  ASSUME Shape, Tending, setting.fault # "duplicate", NEW n \in Nodes, OnClarificationAnswered(n)
  PROVE  Tending'
<1>1. Idle /\ Asks("clarify", n) > 0 /\ Answered("clarify", n)
  BY ResultOnce DEF OnClarificationAnswered
<1>2. /\ dag.state[n] \in Taken /\ News(n) \subseteq {"posted"} /\ Asks("review", n) = 0
  BY <1>1, LeadFacts
<1> DEFINE rec == [sub[n] EXCEPT !.status = "in_progress"]
<1>3. rec \in SubQuest /\ rec.status = "in_progress" /\ rec.holder = sub[n].holder
  BY StatusPut DEF QuestStatuses, Shape
<1>4. EmitSubQuest(n, rec) /\ Becomes(dag, n, "assigned")
  BY DEF OnClarificationAnswered
<1> HIDE DEF rec
<1>5. dag \in DAGExecutionState
  BY IdleDag DEF Tending
<1>6. Moved(n, "assigned") /\ todo' = <<Do("persist", n)>>
  BY <1>4, <1>5, BecomesEffect DEF NodeStates
<1>7. Hand(n)' \notin {"repost", "triage"} /\ todo'[1].op = "persist"
  BY <1>6, PersistFirst
<1>8. Elsewhere(n) /\ dag'.state[n] = "assigned" /\ dag'.assignee[n] = dag.assignee[n]
  BY <1>1, <1>6, <1>7, MovedElsewhere DEF Answered
<1>9. Asks("review", n)' = 0 /\ Asks("clarify", n)' = 0
  BY <1>1, <1>2 DEF Answered, Asks
<1>10. Suits("assigned", rec.status, News(n) \cup {rec.status}, Asks("review", n)',
             Asks("clarify", n)', Hand(n)')
  BY <1>2, <1>3, <1>7, <1>9 DEF Suits
<1>11. \A x \in News(n) : rec.status \in Succ("assigned", x)
  BY <1>2, <1>3 DEF Succ
<1> QED
  BY <1>1, <1>2, <1>3, <1>4, <1>8, <1>10, <1>11, LedTended

\* The loop changes the state of n but no sub-quest.
LEMMA QuietTended ==
  ASSUME Shape, Tending, Idle, NEW n \in Nodes, Elsewhere(n), UNCHANGED <<sub, feed>>,
         dag.state[n] \in Taken, NEW t, t = dag'.state[n], t # "pending_triage",
         dag'.assignee[n] = dag.assignee[n],
         Suits(t, sub[n].status, News(n), Asks("review", n)', Asks("clarify", n)', Hand(n)')
  PROVE  Tending'
<1>1. TypeOK /\ feed' = feed /\ sub' = sub
  BY DEF Shape
<1>2. \A k \in Nodes : News(k)' = News(k)
  BY <1>1 DEF News
<1>3. Flows(n)'
  BY <1>1, TendedFacts, KeptFlows
<1>4. ASSUME NEW k \in Nodes \ {n}
      PROVE  Beside(k) /\ Flows(k)'
  <2>1. Beside(k)
    BY <1>2, BesideIdle
  <2>2. dag.state[k] = "pending_triage" \/ dag'.state[k] # "pending_triage"
    BY DEF Elsewhere
  <2>3. Flows(k)
    BY TendedFacts
  <2> QED
    BY <1>1, <2>1, <2>2, <2>3, KeptFlows
<1>5. dag.state[n] \in Taken => sub[n].holder \in {None, dag.assignee[n]}
  BY TendedFacts
<1>6. dag'.state[n] \in Taken => sub'[n].holder \in {None, dag'.assignee[n]}
  BY <1>5
<1>7. Suits(dag'.state[n], sub'[n].status, News(n)', Asks("review", n)', Asks("clarify", n)',
            Hand(n)')
  BY <1>2
<1> QED
  BY <1>3, <1>4, <1>6, <1>7, NodeTended DEF Elsewhere

LEMMA NoAnswerTended ==
  ASSUME Shape, Tending, NEW n \in Nodes, OnClarificationFailed(n)
  PROVE  Tending'
<1>1. /\ Idle /\ Asks("clarify", n) > 0 /\ UNCHANGED <<sub, feed>> /\ Becomes(dag, n, "assigned")
      /\ leads' = [leads EXCEPT ![[kind |-> "clarify", node |-> n]] = @ - 1]
  BY DEF OnClarificationFailed, Asks, entities
<1>2. /\ dag.state[n] \in Taken /\ News(n) \subseteq {"posted"} /\ Asks("review", n) = 0
      /\ Asks("clarify", n) = 1
  BY <1>1, LeadFacts
<1>3. Answered("clarify", n)
  BY <1>1, <1>2, OneAnswered
<1>4. dag \in DAGExecutionState
  BY IdleDag DEF Tending
<1>5. Moved(n, "assigned") /\ todo' = <<Do("persist", n)>>
  BY <1>1, <1>4, BecomesEffect DEF NodeStates
<1>6. Hand(n)' \notin {"repost", "triage"} /\ todo'[1].op = "persist"
  BY <1>5, PersistFirst
<1>7. Elsewhere(n) /\ dag'.state[n] = "assigned" /\ dag'.assignee[n] = dag.assignee[n]
  BY <1>3, <1>5, <1>6, MovedElsewhere DEF Answered
<1>8. Asks("review", n)' = 0 /\ Asks("clarify", n)' = 0
  BY <1>2, <1>3 DEF Answered, Asks
<1>9. Suits("assigned", sub[n].status, News(n), Asks("review", n)', Asks("clarify", n)', Hand(n)')
  BY <1>2, <1>6, <1>8 DEF Suits
<1> QED
  BY <1>1, <1>2, <1>7, <1>9, QuietTended

LEMMA ReviewFailedTended ==
  ASSUME Shape, Tending, setting.fault # "duplicate", NEW n \in Nodes, OnReviewFailed(n)
  PROVE  Tending' \/ Ending'
<1>1. UNCHANGED <<sub, feed>>
  BY DEF OnReviewFailed, entities
<1>2. Idle /\ Asks("review", n) > 0
  BY DEF OnReviewFailed, Result, Asks
<1>3. /\ Asks("review", n) = 1 /\ Asks("clarify", n) = 0
      /\ dag.state[n] = "pending_review" /\ sub[n].status = "in_review" /\ News(n) = {}
      /\ dag.state[n] \in Taken
  BY <1>2, LeadFacts
<1>4. dag \in DAGExecutionState
  BY IdleDag DEF Tending
<1>5. CASE UNCHANGED <<leads, dag, todo>>
  BY <1>1, <1>5, SameTending
<1>6. CASE /\ leads' = [leads EXCEPT ![[kind |-> "review", node |-> n]] = @ - 1]
           /\ UNCHANGED <<dag, todo>>
  <2>1. Answered("review", n)
    BY <1>3, <1>6, OneAnswered
  <2>2. Elsewhere(n) /\ Hand(n)' = "none"
    BY <1>2, <1>4, <1>6, <2>1 DEF Elsewhere, Answered, Idle, Hand
  <2>3. Asks("review", n)' = 0 /\ Asks("clarify", n)' = 0
    BY <1>3, <2>1 DEF Answered, Asks
  <2>4. Suits("pending_review", sub[n].status, News(n), Asks("review", n)', Asks("clarify", n)', Hand(n)')
    BY <1>3, <2>2, <2>3 DEF Suits
  <2>5. dag'.state[n] = "pending_review" /\ dag'.assignee[n] = dag.assignee[n]
    BY <1>3, <1>6
  <2> QED
    BY <1>1, <1>2, <1>3, <2>2, <2>4, <2>5, QuietTended
<1>7. CASE Result("review", n) /\ HandleNodeFailed(dag, n)
  <2>1. Answered("review", n)
    BY <1>7, ResultOnce
  <2>2. Asks("review", n)' = 0 /\ Asks("clarify", n)' = 0
    BY <1>3, <2>1 DEF Answered, Asks
  <2>3. News(n)' = {} /\ \A k \in Nodes : News(k)' = News(k)
    BY <1>1, <1>3 DEF News
  <2>4. Unheard(n)
    BY <2>1, <2>3 DEF Unheard, Answered
  <2>5. sub[n].status \in {"failed", "in_review"} /\ sub' = sub /\ feed' = feed
    BY <1>1, <1>3
  <2> QED
    BY <1>2, <1>3, <1>7, <2>2, <2>3, <2>4, <2>5, FailedTended
<1> QED
  BY <1>5, <1>6, <1>7 DEF OnReviewFailed, Mishap

-----------------------------------------------------------------------------
(* Puts of a handler, for a DAG that the process that started it executes. *)

LEMMA WorkTended ==
  ASSUME Shape, Tending, NEW n \in Nodes, NEW rec \in SubQuest, EmitSubQuest(n, rec), UNCHANGED leads,
         dag' \in DAGExecutionState,
         \A k \in Nodes \ {n} :
           /\ dag'.state[k] = dag.state[k] /\ dag'.assignee[k] = dag.assignee[k]
           /\ {Hand(k), Hand(k)'} \cap {"repost", "triage"} = {},
         NEW t, t = dag'.state[n], dag.state[n] = "pending_triage" \/ t # "pending_triage",
         t \in Taken => rec.holder \in {None, dag'.assignee[n]},
         \A x \in News(n) : rec.status \in Succ(t, x),
         Suits(t, rec.status, News(n) \cup {rec.status}, Asks("review", n), Asks("clarify", n),
               Hand(n)')
  PROVE  Tending'
<1>1. TypeOK
  BY DEF Shape
<1>2. /\ News(n)' = News(n) \cup {rec.status} /\ \A k \in Nodes \ {n} : News(k)' = News(k)
      /\ sub'[n] = rec /\ \A k \in Nodes \ {n} : sub'[k] = sub[k]
  BY <1>1, EmitNews, EmitFacts
<1>3. Flows(n)'
  BY <1>1, TendedFacts, EmitFlows
<1>4. ASSUME NEW k \in Nodes \ {n}
      PROVE  Beside(k) /\ Flows(k)'
  <2>1. Beside(k)
    BY <1>2 DEF Beside
  <2>2. dag.state[k] = "pending_triage" \/ dag'.state[k] # "pending_triage"
    OBVIOUS
  <2>3. Flows(k)
    BY TendedFacts
  <2> QED
    BY <1>1, <2>1, <2>2, <2>3, EmitFlows
<1>5. dag'.state[n] \in Taken => sub'[n].holder \in {None, dag'.assignee[n]}
  BY <1>2
<1>6. Asks("review", n)' = Asks("review", n) /\ Asks("clarify", n)' = Asks("clarify", n)
  BY DEF Asks
<1>7. Suits(dag'.state[n], sub'[n].status, News(n)', Asks("review", n)', Asks("clarify", n)',
            Hand(n)')
  BY <1>2, <1>6
<1> QED
  BY <1>3, <1>4, <1>5, <1>7, NodeTended

LEMMA AssignTended ==
  ASSUME Shape, Tending, Assign
  PROVE  Tending'
<1>1. Doing("assign") /\ UNCHANGED leads
  BY DEF Assign, loops
<1>2. CASE UNCHANGED <<sub, feed, dag>>
  <2>1. CASE UNCHANGED todo
    BY <1>1, <1>2, <2>1, SameTending
  <2>2. CASE todo' = Tail(todo)
    BY <1>1, <1>2, <2>2, RestTending DEF Ops
  <2> QED
    BY <2>1, <2>2 DEF Assign
<1>3. CASE ~UNCHANGED <<sub, feed, dag>>
  <2>1. PICK n \in Nodes, m \in Members :
           /\ dag.state[n] = "ready"
           /\ [sub[n] EXCEPT !.status = "in_progress", !.holder = m, !.attempts = @ + 1]
                \in SubQuest
           /\ EmitSubQuest(n, [sub[n] EXCEPT !.status = "in_progress", !.holder = m,
                                             !.attempts = @ + 1])
           /\ dag' \in DAGExecutionState
           /\ dag'.state[n] = "assigned" /\ dag'.assignee[n] = m
           /\ \A k \in Nodes \ {n} : /\ dag'.state[k] = dag.state[k]
                                     /\ dag'.assignee[k] = dag.assignee[k]
           /\ UNCHANGED todo
    BY <1>3, AssignEffect
  <2> DEFINE rec == [sub[n] EXCEPT !.status = "in_progress", !.holder = m, !.attempts = @ + 1]
  <2>2. sub[n] \in SubQuest
    BY DEF Shape, TypeOK
  <2>3. rec \in SubQuest /\ rec.status = "in_progress" /\ rec.holder = m /\ EmitSubQuest(n, rec)
    BY <2>1, <2>2 DEF SubQuest
  <2> HIDE DEF rec
  <2>4. \A k \in Nodes : Hand(k)' = Hand(k) /\ Hand(k) \notin {"repost", "triage"}
    BY <1>1, <2>1, AtWork DEF Hand
  <2>5. Suits("ready", sub[n].status, News(n), Asks("review", n), Asks("clarify", n), Hand(n))
    BY <2>1, TendedFacts
  <2>6. News(n) \subseteq {"posted"} /\ ~(Asks("review", n) > 0) /\ ~(Asks("clarify", n) > 0)
    BY <2>5 DEF Suits
  <2>7. \A x \in News(n) : rec.status \in Succ("assigned", x)
    BY <2>3, <2>6 DEF Succ
  <2>8. Suits("assigned", rec.status, News(n) \cup {rec.status}, Asks("review", n),
              Asks("clarify", n), Hand(n)')
    BY <2>3, <2>4, <2>6 DEF Suits
  <2>9. \A k \in Nodes \ {n} :
           /\ dag'.state[k] = dag.state[k] /\ dag'.assignee[k] = dag.assignee[k]
           /\ {Hand(k), Hand(k)'} \cap {"repost", "triage"} = {}
    BY <2>1, <2>4
  <2>10. dag' \in DAGExecutionState /\ dag'.state[n] = "assigned" /\ rec.holder = dag'.assignee[n]
    BY <2>1, <2>3
  <2> QED
    BY <1>1, <2>3, <2>7, <2>8, <2>9, <2>10, WorkTended
<1> QED
  BY <1>2, <1>3

LEMMA RepostTended ==
  ASSUME Shape, Tending, Repost
  PROVE  Tending'
<1>1. Doing("repost") /\ UNCHANGED <<dag, leads>> /\ todo' = Tail(todo)
  BY DEF Repost, loops
<1>2. PICK n \in Nodes : /\ n = Head(todo).node /\ Hand(n) = "repost"
                         /\ \A k \in Nodes \ {n} : Hand(k) = "none"
  BY <1>1, HandFacts
<1> DEFINE rec == [sub[n] EXCEPT !.status = "posted", !.holder = None]
<1>3. sub[n] \in SubQuest /\ dag' \in DAGExecutionState
  BY <1>1, AtWork DEF Shape, TypeOK
<1>4. rec \in SubQuest /\ rec.status = "posted" /\ rec.holder = None
  BY <1>3 DEF SubQuest, QuestStatuses
<1>5. EmitSubQuest(n, rec)
  BY <1>2 DEF Repost
<1> HIDE DEF rec
<1>6. Suits(dag.state[n], sub[n].status, News(n), Asks("review", n), Asks("clarify", n), "repost")
  BY <1>2, TendedFacts
<1>7. /\ dag.state[n] \in {"pending", "ready"} /\ News(n) = {}
      /\ ~(Asks("review", n) > 0) /\ ~(Asks("clarify", n) > 0)
  BY <1>6 DEF Suits
<1>8. \A k \in Nodes : Hand(k)' \notin {"repost", "triage"}
  BY <1>1, HandRest
<1>9. Suits(dag'.state[n], rec.status, News(n) \cup {rec.status}, Asks("review", n),
            Asks("clarify", n), Hand(n)')
  BY <1>1, <1>4, <1>7, <1>8 DEF Suits
<1>10. \A k \in Nodes \ {n} :
           /\ dag'.state[k] = dag.state[k] /\ dag'.assignee[k] = dag.assignee[k]
           /\ {Hand(k), Hand(k)'} \cap {"repost", "triage"} = {}
  BY <1>1, <1>2, <1>8
<1>11. \A x \in News(n) : rec.status \in Succ(dag'.state[n], x)
  BY <1>7
<1>12. dag.state[n] = "pending_triage" \/ dag'.state[n] # "pending_triage"
  BY <1>1
<1> QED
  BY <1>1, <1>3, <1>4, <1>5, <1>9, <1>10, <1>11, <1>12, WorkTended

LEMMA ToTriageTended ==
  ASSUME Shape, Tending, RouteNodeToTriage
  PROVE  Tending' \/ Ending'
<1>1. Doing("triage") /\ UNCHANGED leads
  BY DEF RouteNodeToTriage, loops
<1>2. PICK n \in Nodes : /\ n = Head(todo).node /\ Hand(n) = "triage"
                         /\ \A k \in Nodes \ {n} : Hand(k) = "none"
  BY <1>1, HandFacts
<1>3. TypeOK /\ dag \in DAGExecutionState
  BY <1>1, AtWork DEF Shape
<1>4. CASE HandleTriageTerminal(dag, n)
  BY <1>3, <1>4, TriageTerminalEffect, NewPlanEnding
<1>5. CASE /\ EmitSubQuest(n, [sub[n] EXCEPT !.status = "pending_triage"])
           /\ todo' = Tail(todo) /\ UNCHANGED dag
  <2> DEFINE rec == [sub[n] EXCEPT !.status = "pending_triage"]
  <2>1. /\ rec \in SubQuest /\ rec.status = "pending_triage" /\ rec.holder = sub[n].holder
    BY <1>3, StatusPut DEF QuestStatuses
  <2>2. EmitSubQuest(n, rec) /\ dag' \in DAGExecutionState /\ UNCHANGED dag
    BY <1>3, <1>5
  <2> HIDE DEF rec
  <2>3. Suits(dag.state[n], sub[n].status, News(n), Asks("review", n), Asks("clarify", n), "triage")
    BY <1>2, TendedFacts
  <2>4. /\ dag.state[n] = "pending_triage" /\ News(n) = {}
        /\ ~(Asks("review", n) > 0) /\ ~(Asks("clarify", n) > 0)
    BY <2>3 DEF Suits
  <2>5. \A k \in Nodes : Hand(k)' \notin {"repost", "triage"}
    BY <1>1, <1>5, HandRest
  <2>6. Suits(dag'.state[n], rec.status, News(n) \cup {rec.status}, Asks("review", n),
              Asks("clarify", n), Hand(n)')
    BY <2>1, <2>2, <2>4, <2>5 DEF Suits
  <2>7. \A k \in Nodes \ {n} :
           /\ dag'.state[k] = dag.state[k] /\ dag'.assignee[k] = dag.assignee[k]
           /\ {Hand(k), Hand(k)'} \cap {"repost", "triage"} = {}
    BY <1>2, <2>2, <2>5
  <2>8. \A x \in News(n) : rec.status \in Succ(dag'.state[n], x)
    BY <2>4
  <2>9. dag.state[n] \in Taken => sub[n].holder \in {None, dag.assignee[n]}
    BY TendedFacts
  <2>10. dag'.state[n] \in Taken => rec.holder \in {None, dag'.assignee[n]}
    BY <2>1, <2>2, <2>9
  <2> QED
    BY <1>1, <2>1, <2>2, <2>4, <2>6, <2>7, <2>8, <2>10, WorkTended
<1> QED
  BY <1>2, <1>4, <1>5 DEF RouteNodeToTriage

\* A handler that has not planned the end of the parent makes no other puts.
LEMMA HandlerTended ==
  ASSUME Shape, Rolled, Tending, ~Ending, HandlerStep
  PROVE  Tending' \/ Ending' \/ ~party'
<1>1. ASSUME NEW op \in {"cleanup", "escalate", "tally", "metrics", "submit"}
      PROVE  ~Doing(op)
  <2> SUFFICES ASSUME Doing(op)
               PROVE  FALSE
    OBVIOUS
  <2>1. /\ todo # <<>> /\ Len(todo) \in Nat \ {0} /\ todo[1].op = op /\ Plan(todo)
    BY AtWork DEF Shape, Routine
  <2>2. 1 \in 1 .. Len(todo)
    BY <2>1
  <2>3. CASE op = "cleanup"
    <3>1. 1 + 1 \in 1 .. Len(todo) /\ todo[1 + 1].op = "escalate"
      BY <2>1, <2>2, <2>3 DEF Plan
    <3> QED
      BY <3>1 DEF Ending
  <2>4. CASE op \in {"escalate", "submit"}
    BY <2>1, <2>2, <2>4 DEF Ending
  <2>5. CASE op \in {"tally", "metrics"}
    BY <2>1, <2>5 DEF Rolled, Ending
  <2> QED
    BY <2>3, <2>4, <2>5
<1>2. CASE Assign \/ Repost \/ RouteNodeToTriage
  BY <1>2, AssignTended, RepostTended, ToTriageTended
<1>3. CASE PersistDAGState
  BY <1>3, RestTending DEF PersistDAGState, Ops, loops
<1>4. CASE Forget
  BY <1>4 DEF Forget
<1> QED
  BY <1>1, <1>2, <1>3, <1>4
     DEF HandlerStep, Cleanup, EscalateParent, ReadForMetrics, PutMetrics, SubmitResult

-----------------------------------------------------------------------------
(* Every step of a DAG that the process that started it executes.          *)

\* The parent's entry starts the execution.
LEMMA EntryTending ==
  ASSUME Shape, Untouched, OnDAGEntry
  PROVE  Tending'
<1>1. /\ dag' = Seed /\ todo' = <<Do("assign", 1), Do("persist", 1)>>
      /\ UNCHANGED <<sub, feed, leads>> /\ setting.retries \in Nat
  BY DEF OnDAGEntry, entities, loops, Shape, TypeOK
<1>2. /\ dag' \in DAGExecutionState
      /\ \A n \in Nodes : dag'.state[n] \in {"pending", "ready"}
  BY <1>1, SeedFacts
<1>3. Do("assign", 1).op = "assign"
  BY OneIsNode, DoType DEF Ops
<1>4. todo'[1].op = "assign"
  BY <1>1, <1>3
<1>5. Len(feed') = 0
  BY <1>1 DEF Untouched
<1>6. ASSUME NEW n \in Nodes
      PROVE  Tended(n)'
  <2>1. Hand(n)' \notin {"repost", "triage"}
    BY <1>4, HandElse
  <2>2. News(n)' = {}
    BY <1>5 DEF News
  <2>3. Flows(n)'
    BY <1>5, <2>2 DEF Flows, Queue, Traced
  <2>4. Asks("review", n)' = 0 /\ Asks("clarify", n)' = 0
    BY <1>1 DEF Untouched, Asks, LeadLoops
  <2>5. sub'[n].status = "posted"
    BY <1>1 DEF Untouched
  <2>6. Suits(dag'.state[n], sub'[n].status, News(n)', Asks("review", n)', Asks("clarify", n)',
              Hand(n)')
    BY <1>2, <2>1, <2>2, <2>4, <2>5 DEF Suits
  <2>7. dag'.state[n] \notin Taken
    BY <1>2 DEF Taken
  <2> QED
    BY <2>3, <2>6, <2>7 DEF Tended
<1> QED
  BY <1>2, <1>6, NoneAssumption DEF Tending

LEMMA ResultTended ==
  ASSUME Shape, Tending, setting.fault # "duplicate", NEW n \in Nodes,
         NEW kind \in {"review", "clarify"}, LeadResult(kind, n)
  PROVE  Tending' \/ Ending'
BY VerdictTended, ReviewFailedTended, AnswerTended, NoAnswerTended
   DEF LeadResult, DropResult, Tending

\* The end of the parent is planned.
LEMMA EndPlanned ==
  ASSUME dag # None, OnSynthesisEnded \/ OnDAGTimedOut \/ OnDAGCancelled
  PROVE  Ending'
<1>1. CASE OnSynthesisEnded
  <2>1. Delivering(todo')
    BY <1>1, OneIsNode, PlanSubmit DEF OnSynthesisEnded
  <2> QED
    BY <2>1, NewPlanEnding
<1>2. CASE OnDAGTimedOut \/ OnDAGCancelled
  <2>1. GivingUp(todo')
    BY <1>2, GiveUpDagPlan DEF OnDAGTimedOut, OnDAGCancelled
  <2> QED
    BY <2>1, NewPlanEnding
<1> QED
  BY <1>1, <1>2

LEMMA TendingStep ==
  ASSUME Shape, Rolled, Followed, Tending, Next
  PROVE  Tending' \/ Ending' \/ ~party' \/ ~Live'
<1>1. ~fresh /\ ~Ending /\ Live /\ dag # None /\ setting.fault # "duplicate"
  BY DEF Followed, Tending
<1>2. CASE OnDAGEntry
  BY <1>1, <1>2 DEF OnDAGEntry
<1>3. CASE OnSubQuestTransition
  BY <1>3, TransitionTended
<1>4. CASE OnSynthesisEnded \/ OnDAGCancelled \/ OnDAGTimedOut
  BY <1>1, <1>4, EndPlanned
<1>5. CASE HandlerStep
  BY <1>1, <1>5, HandlerTended
<1>6. CASE \E n \in Nodes, kind \in {"review", "clarify"} : LeadResult(kind, n)
  BY <1>1, <1>6, ResultTended
<1>7. CASE Restart
  BY <1>7 DEF Restart
<1>8. CASE CancelParent \/ CancelPut \/ SubmitParent
  BY <1>8, SameTending DEF CancelParent, CancelPut, SubmitParent, memory, loops, entities
<1>9. CASE JudgeParent
  <2>1. parent = "in_review"
    BY <1>9 DEF JudgeParent
  <2>2. todo # <<>> /\ todo[1].op = "metrics"
    BY <1>1, <2>1 DEF Live, Shape, Routine
  <2>3. Ending
    BY <2>2 DEF Rolled, Ending
  <2> QED
    BY <1>1, <2>3
<1>10. CASE \E n \in Nodes : Finish(n) \/ TriageQuest(n) \/ Ask(n) \/ SubQuestReposted(n)
  BY <1>10, MembersTended
<1> QED
  BY <1>2, <1>3, <1>4, <1>5, <1>6, <1>7, <1>8, <1>9, <1>10 DEF Next, LoopStep, Progress

-----------------------------------------------------------------------------
(* Only an assignment brings a sub-quest to life or gives it a holder.     *)

Kept(n) == Alive(n)' => Alive(n) /\ sub'[n].holder \in {None, sub[n].holder}

\* The lead is asked about no other nodes, and none is taken to triage.
Expected ==
  \A k \in Nodes :
    Asks("review", k)' > 0 \/ Asks("clarify", k)' > 0 \/ Hand(k)' = "triage" => Alive(k)

LEMMA PutKept ==
  ASSUME TypeOK, NEW n \in Nodes, NEW rec \in SubQuest, EmitSubQuest(n, rec),
         rec.holder \in {None, sub[n].holder}, Expected, Alive(n) \/ rec.status = "posted"
  PROVE  \A k \in Nodes : Kept(k)
<1>1. /\ Len(feed) \in Nat /\ Len(feed') = Len(feed) + 1
      /\ \A i \in 1 .. Len(feed) : feed'[i] = feed[i]
      /\ feed'[Len(feed')].node = n /\ feed'[Len(feed')].status = rec.status
      /\ sub'[n] = rec /\ \A k \in Nodes \ {n} : sub'[k] = sub[k]
  BY EmitFacts
<1> DEFINE last == Len(feed')
<1>2. \A i \in 1 .. last : i \in 1 .. Len(feed) \/ i = last
  BY <1>1
<1>3. \A k \in Nodes : Pressing(k)' => Pressing(k) \/ (k = n /\ rec.status # "posted")
  <2> SUFFICES ASSUME NEW k \in Nodes, NEW i \in 1 .. last, feed'[i].node = k,
                      \/ feed'[i].status \in {"in_review", "escalated"}
                      \/ feed'[i].status = "failed" /\ ~feed'[i].defeat
               PROVE  Pressing(k) \/ (k = n /\ rec.status # "posted")
    BY DEF Pressing
  <2>1. CASE i \in 1 .. Len(feed)
    BY <1>1, <2>1 DEF Pressing
  <2>2. CASE i = last
    BY <1>1, <2>2
  <2> QED
    BY <1>2, <2>1, <2>2
<1>4. ASSUME NEW k \in Nodes, Alive(k)'
      PROVE  Alive(k)
  <2>1. CASE Asks("review", k)' > 0 \/ Asks("clarify", k)' > 0 \/ Hand(k)' = "triage"
    BY <2>1 DEF Expected
  <2>2. CASE Pressing(k)'
    BY <1>3, <2>2 DEF Alive
  <2>3. CASE sub'[k].status \in {"in_progress", "in_review", "pending_triage"}
    BY <1>1, <2>3 DEF Alive
  <2> QED
    BY <1>4, <2>1, <2>2, <2>3 DEF Alive
<1>5. \A k \in Nodes : sub'[k].holder \in {None, sub[k].holder}
  BY <1>1
<1> QED
  BY <1>4, <1>5 DEF Kept

LEMMA SameKept ==
  ASSUME TypeOK, UNCHANGED sub, Expected,
         feed' = feed \/ (feed # <<>> /\ feed' = Tail(feed)) \/ feed' = <<>>
  PROVE  \A k \in Nodes : Kept(k)
<1>1. ASSUME NEW k \in Nodes, Pressing(k)'
      PROVE  Pressing(k)
  <2>1. CASE feed' = feed
    BY <1>1, <2>1 DEF Pressing
  <2>2. CASE feed # <<>> /\ feed' = Tail(feed)
    <3>1. /\ Len(feed) \in Nat \ {0} /\ Len(feed') = Len(feed) - 1
          /\ \A i \in 1 .. Len(feed') : feed'[i] = feed[i + 1]
      BY <2>2, HandOutFacts
    <3>2. \A i \in 1 .. Len(feed') : i + 1 \in 1 .. Len(feed)
      BY <3>1
    <3> QED
      BY <1>1, <3>1, <3>2 DEF Pressing
  <2>3. CASE feed' = <<>>
    <3>1. Len(feed') = 0
      BY <2>3
    <3> QED
      BY <1>1, <3>1 DEF Pressing
  <2> QED
    BY <2>1, <2>2, <2>3
<1>2. ASSUME NEW k \in Nodes, Alive(k)'
      PROVE  Alive(k)
  <2>1. CASE Asks("review", k)' > 0 \/ Asks("clarify", k)' > 0 \/ Hand(k)' = "triage"
    BY <2>1 DEF Expected
  <2>2. CASE Pressing(k)' \/ sub'[k].status \in {"in_progress", "in_review", "pending_triage"}
    BY <1>1, <2>2 DEF Alive
  <2> QED
    BY <1>2, <2>1, <2>2 DEF Alive
<1> QED
  BY <1>2 DEF Kept

\* Nobody is asked, and the handler takes nothing to triage.
LEMMA NobodyExpected ==
  ASSUME UNCHANGED leads, UNCHANGED todo \/ \A k \in Nodes : Hand(k)' # "triage"
  PROVE  Expected
<1>1. \A k \in Nodes : Asks("review", k)' = Asks("review", k) /\ Asks("clarify", k)' = Asks("clarify", k)
  BY DEF Asks
<1>2. \A k \in Nodes : Hand(k)' = "triage" => Hand(k) = "triage"
  BY DEF Hand
<1> QED
  BY <1>1, <1>2 DEF Expected, Alive

\* The lead is asked about n at most, and n at most is taken to triage.
LEMMA OneExpected ==
  ASSUME NEW n \in Nodes, Alive(n),
         \A k \in Nodes \ {n}, y \in {"review", "clarify"} : Asks(y, k)' > 0 => Asks(y, k) > 0,
         \A k \in Nodes \ {n} : Hand(k)' # "triage" \/ Hand(k) = "triage"
  PROVE  Expected
<1> SUFFICES ASSUME NEW k \in Nodes \ {n},
                    Asks("review", k)' > 0 \/ Asks("clarify", k)' > 0 \/ Hand(k)' = "triage"
             PROVE  Alive(k)
  BY DEF Expected
<1>1. Asks("review", k) > 0 \/ Asks("clarify", k) > 0 \/ Hand(k) = "triage"
  OBVIOUS
<1> QED
  BY <1>1 DEF Alive

\* The plan that HandleNodeFailed makes is about n.
LEMMA FailedHand ==
  ASSUME Shape, dag # None, NEW n \in Nodes, HandleNodeFailed(dag, n)
  PROVE  \A k \in Nodes \ {n} : Hand(k)' # "triage"
<1>1. /\ dag \in DAGExecutionState
      /\ setting \in [fault : Faults, triage : BOOLEAN, retries : Nat]
  BY IdleDag DEF Shape, TypeOK
<1>2. \/ todo' = <<Do("repost", n), Do("assign", n), Do("persist", n)>>
      \/ todo' = <<Do("triage", n), Do("persist", n)>>
      \/ GivingUp(todo')
  BY <1>1, NodeFailedEffect
<1>3. /\ Do("repost", n).node = n /\ Do("triage", n).node = n
  BY DoType DEF Ops
<1>4. \/ todo' # <<>> /\ todo'[1].node = n
      \/ todo'[1].op = "cleanup"
  BY <1>2, <1>3 DEF GivingUp
<1> QED
  BY <1>4 DEF Hand

LEMMA TransitionKept ==
  ASSUME Shape, OnSubQuestTransition
  PROVE  \A k \in Nodes : Kept(k)
<1> DEFINE e == Head(feed)
<1>1. /\ Idle /\ feed # <<>> /\ feed' = Tail(feed) /\ UNCHANGED sub /\ TypeOK
  BY DEF OnSubQuestTransition, Shape
<1>2. e = feed[1] /\ e \in Event /\ e.node \in Nodes /\ 1 \in 1 .. Len(feed)
  BY <1>1, HandOutFacts DEF Event
<1>3. \/ HandleSubQuestTransition(e) /\ dag # None
      \/ UNCHANGED <<dag, todo, loops>>
  BY DEF OnSubQuestTransition
<1>4. PICK n \in Nodes : n = e.node
  BY <1>2
<1>5. /\ e.status \in {"in_review", "escalated"} => Alive(n)
      /\ e.status = "failed" /\ ~e.defeat => Alive(n)
  BY <1>2, <1>4 DEF Alive, Pressing
<1> HIDE DEF e
<1>6. CASE UNCHANGED <<dag, todo, loops>>
  BY <1>1, <1>6, NobodyExpected, SameKept DEF loops
<1> SUFFICES ASSUME HandleSubQuestTransition(e), dag # None
             PROVE  Expected
  BY <1>1, <1>3, <1>6, SameKept
<1>7. dag \in DAGExecutionState /\ synthesis \in Nat /\ mishaps \in 0 .. MishapBound
  BY <1>1, IdleDag DEF TypeOK
<1>8. ASSUME UNCHANGED leads,
             todo' = <<>> \/ todo'[1].op # "triage"
      PROVE  Expected
  <2>1. \A k \in Nodes : Hand(k)' # "triage"
    BY <1>8 DEF Hand
  <2> QED
    BY <1>8, <2>1, NobodyExpected
<1>9. ASSUME NEW s \in NodeStates, Becomes(dag, n, s), UNCHANGED leads
      PROVE  Expected
  BY <1>8, <1>9, PersistFirst DEF Becomes
<1>10. ASSUME NEW kind \in {"review", "clarify"}, NEW s \in NodeStates, Becomes(dag, n, s),
              Dispatch(kind, n), Alive(n)
       PROVE  Expected
  <2>1. \A k \in Nodes : Hand(k)' # "triage"
    BY <1>10, HandElse, PersistFirst DEF Becomes
  <2>2. \A k \in Nodes \ {n}, y \in {"review", "clarify"} : Asks(y, k)' = Asks(y, k)
    BY <1>1, <1>10, DispatchEffect DEF Asks
  <2> QED
    BY <1>10, <2>1, <2>2, OneExpected
<1>11. CASE e.status \in {"in_progress", "pending_triage"}
  BY <1>4, <1>9, <1>11 DEF HandleSubQuestTransition, NodeStates, loops
<1>12. CASE e.status = "in_review"
  BY <1>4, <1>5, <1>10, <1>12 DEF HandleSubQuestTransition, NodeStates, DispatchLeadReview
<1>13. CASE e.status = "completed"
  <2>1. HandleNodeCompleted(dag, n) /\ UNCHANGED leads
    BY <1>4, <1>13 DEF HandleSubQuestTransition
  <2>2. \/ todo' = <<Do("persist", n)>> \/ Delivering(todo')
        \/ todo' = <<Do("assign", n), Do("persist", n)>>
    BY <1>7, <2>1, NodeCompletedEffect
  <2>3. Do("persist", n).op = "persist" /\ Do("assign", n).op = "assign"
    BY DoType DEF Ops
  <2>4. todo'[1].op # "triage"
    BY <2>2, <2>3 DEF Delivering
  <2> QED
    BY <1>8, <2>1, <2>4
<1>14. CASE e.status = "failed" /\ dag.state[n] # "pending_triage"
  <2>1. CASE e.defeat
    BY <1>4, <1>9, <1>14, <2>1 DEF HandleSubQuestTransition, NodeStates, loops
  <2>2. CASE ~e.defeat
    <3>1. HandleNodeFailed(dag, n) /\ UNCHANGED leads
      BY <1>4, <1>14, <2>2 DEF HandleSubQuestTransition, loops
    <3>2. \A k \in Nodes \ {n} : Hand(k)' # "triage"
      BY <3>1, FailedHand
    <3>3. \A k \in Nodes \ {n}, y \in {"review", "clarify"} : Asks(y, k)' = Asks(y, k)
      BY <3>1 DEF Asks
    <3> QED
      BY <1>5, <1>14, <2>2, <3>2, <3>3, OneExpected
  <2> QED
    BY <2>1, <2>2
<1>15. CASE e.status \in {"failed", "escalated"} /\ dag.state[n] = "pending_triage"
  <2>1. HandleTriageTerminal(dag, n) /\ UNCHANGED leads
    BY <1>4, <1>15 DEF HandleSubQuestTransition, loops
  <2>2. todo'[1].op # "triage"
    BY <1>7, <2>1, TriageTerminalEffect DEF GivingUp
  <2> QED
    BY <1>8, <2>1, <2>2
<1>16. CASE e.status = "escalated" /\ dag.state[n] # "pending_triage"
  BY <1>4, <1>5, <1>10, <1>16 DEF HandleSubQuestTransition, NodeStates, DispatchLeadClarification
<1>17. CASE e.status = "posted"
  <2>1. /\ UNCHANGED leads
        /\ todo' = <<Do("assign", n), Do("persist", n)>> \/ todo' = <<Do("persist", n)>>
    BY <1>4, <1>17 DEF HandleSubQuestTransition, loops
  <2>2. Do("persist", n).op = "persist" /\ Do("assign", n).op = "assign"
    BY DoType DEF Ops
  <2>3. todo'[1].op # "triage"
    BY <2>1, <2>2
  <2> QED
    BY <1>8, <2>1, <2>3
<1> QED
  BY <1>2, <1>11, <1>12, <1>13, <1>14, <1>15, <1>16, <1>17 DEF Event, QuestStatuses

\* A result is one of a loop that was out, and brings no other loop.
LEMMA ResultAsks ==
  ASSUME Shape, NEW n \in Nodes, NEW kind \in {"review", "clarify"}, NEW x,
         Asks(kind, n) > 0, leads' = [leads EXCEPT ![[kind |-> kind, node |-> n]] = x] \/ leads' = leads
  PROVE  /\ Alive(n)
         /\ \A k \in Nodes \ {n}, y \in {"review", "clarify"} : Asks(y, k)' = Asks(y, k)
<1> DEFINE l == [kind |-> kind, node |-> n]
<1>1. leads \in [LeadLoops -> Nat] /\ l \in LeadLoops
  BY DEF Shape, TypeOK, LeadLoops
<1>2. ASSUME NEW k \in Nodes \ {n}, NEW y \in {"review", "clarify"}
      PROVE  [kind |-> y, node |-> k] \in LeadLoops /\ [kind |-> y, node |-> k] # l
  BY DEF LeadLoops
<1>3. \A j \in LeadLoops : j # l => leads'[j] = leads[j]
  BY <1>1
<1>4. ASSUME NEW k \in Nodes \ {n}, NEW y \in {"review", "clarify"}
      PROVE  Asks(y, k)' = Asks(y, k)
  BY <1>2, <1>3 DEF Asks
<1>5. Alive(n)
  BY DEF Alive
<1> QED
  BY <1>4, <1>5

LEMMA LeadKept ==
  ASSUME Shape, NEW n \in Nodes, NEW kind \in {"review", "clarify"}, LeadResult(kind, n)
  PROVE  \A k \in Nodes : Kept(k)
<1> DEFINE l == [kind |-> kind, node |-> n]
<1>1. TypeOK /\ Asks(kind, n) > 0 /\ Idle
  BY DEF LeadResult, DropResult, OnReviewCompleted, OnReviewFailed, OnClarificationAnswered,
     OnClarificationFailed, Result, Asks, Shape
<1>2. \E x : leads' = [leads EXCEPT ![l] = x] \/ leads' = leads
  BY DEF LeadResult, DropResult, OnReviewCompleted, OnReviewFailed, OnClarificationAnswered,
     OnClarificationFailed, Result
<1>3. PICK x : leads' = [leads EXCEPT ![l] = x] \/ leads' = leads
  BY <1>2
<1>4. Alive(n) /\ \A k \in Nodes \ {n}, y \in {"review", "clarify"} : Asks(y, k)' = Asks(y, k)
  BY <1>1, <1>3, ResultAsks
<1> HIDE DEF l
<1>5. ASSUME UNCHANGED todo \/ \A k \in Nodes \ {n} : Hand(k)' # "triage"
      PROVE  Expected
  <2>1. \A k \in Nodes \ {n} : Hand(k)' # "triage" \/ Hand(k) = "triage"
    BY <1>5 DEF Hand
  <2> QED
    BY <1>4, <2>1, OneExpected
<1>6. ASSUME NEW s \in QuestStatuses, EmitSubQuest(n, [sub[n] EXCEPT !.status = s]), Expected
      PROVE  \A k \in Nodes : Kept(k)
  <2> DEFINE rec == [sub[n] EXCEPT !.status = s]
  <2>1. rec \in SubQuest /\ rec.holder = sub[n].holder /\ EmitSubQuest(n, rec)
    BY <1>1, <1>6, StatusPut
  <2> HIDE DEF rec
  <2> QED
    BY <1>1, <1>4, <1>6, <2>1, PutKept
<1>7. CASE DropResult(kind, n)
  BY <1>1, <1>5, <1>7, SameKept DEF DropResult, entities, memory
<1>8. CASE OnReviewCompleted(n)
  BY <1>5, <1>6, <1>8 DEF OnReviewCompleted, memory, QuestStatuses
<1>9. CASE OnReviewFailed(n)
  <2>1. UNCHANGED <<sub, feed>>
    BY <1>9 DEF OnReviewFailed, entities
  <2>2. UNCHANGED todo \/ \A k \in Nodes \ {n} : Hand(k)' # "triage"
    BY <1>9, FailedHand DEF OnReviewFailed
  <2> QED
    BY <1>1, <1>5, <2>1, <2>2, SameKept
<1>10. ASSUME Becomes(dag, n, "assigned")
       PROVE  Expected
  BY <1>5, <1>10, PersistFirst, HandElse DEF Becomes
<1>11. CASE OnClarificationAnswered(n)
  BY <1>6, <1>10, <1>11 DEF OnClarificationAnswered, QuestStatuses
<1>12. CASE OnClarificationFailed(n)
  BY <1>1, <1>10, <1>12, SameKept DEF OnClarificationFailed, entities
<1> QED
  BY <1>7, <1>8, <1>9, <1>11, <1>12 DEF LeadResult

LEMMA HandlerKept ==
  ASSUME Shape, HandlerStep, ~Assign
  PROVE  \A k \in Nodes : Kept(k)
<1>0. TypeOK
  BY DEF Shape
<1>1. ASSUME NEW op, Doing(op), todo' = Tail(todo), UNCHANGED leads
      PROVE  Expected
  BY <1>1, HandRest, NobodyExpected
<1>2. ASSUME UNCHANGED <<leads, todo>>
      PROVE  Expected
  BY <1>2, NobodyExpected
<1>3. CASE Repost
  <2>1. Doing("repost") /\ UNCHANGED leads /\ todo' = Tail(todo)
    BY <1>3 DEF Repost, loops
  <2>2. PICK n \in Nodes : n = Head(todo).node
    BY <2>1, HandFacts
  <2> DEFINE rec == [sub[n] EXCEPT !.status = "posted", !.holder = None]
  <2>3. sub[n] \in SubQuest
    BY <1>0 DEF TypeOK
  <2>4. rec \in SubQuest /\ rec.status = "posted" /\ rec.holder = None
    BY <2>3 DEF SubQuest, QuestStatuses
  <2>5. EmitSubQuest(n, rec)
    BY <1>3, <2>2 DEF Repost
  <2> HIDE DEF rec
  <2> QED
    BY <1>0, <1>1, <2>1, <2>4, <2>5, PutKept
<1>4. CASE RouteNodeToTriage
  <2>1. Doing("triage") /\ UNCHANGED leads
    BY <1>4 DEF RouteNodeToTriage, loops
  <2>2. PICK n \in Nodes : n = Head(todo).node /\ Hand(n) = "triage"
    BY <2>1, HandFacts
  <2>3. CASE EmitSubQuest(n, [sub[n] EXCEPT !.status = "pending_triage"]) /\ todo' = Tail(todo)
    <3> DEFINE rec == [sub[n] EXCEPT !.status = "pending_triage"]
    <3>1. rec \in SubQuest /\ rec.holder = sub[n].holder
      BY <1>0, StatusPut DEF QuestStatuses
    <3>2. EmitSubQuest(n, rec)
      BY <2>3
    <3>3. Alive(n)
      BY <2>2 DEF Alive
    <3> HIDE DEF rec
    <3> QED
      BY <1>0, <1>1, <2>1, <2>3, <3>1, <3>2, <3>3, PutKept
  <2>4. CASE HandleTriageTerminal(dag, n) /\ UNCHANGED <<sub, feed>>
    <3>1. dag \in DAGExecutionState
      BY <2>1, AtWork
    <3>2. todo'[1].op = "cleanup"
      BY <2>4, <3>1, TriageTerminalEffect DEF GivingUp
    <3>3. \A k \in Nodes : Hand(k)' # "triage"
      BY <3>2 DEF Hand
    <3> QED
      BY <1>0, <2>1, <2>4, <3>3, NobodyExpected, SameKept
  <2> QED
    BY <1>4, <2>2, <2>3, <2>4 DEF RouteNodeToTriage
<1>5. CASE Cleanup
  <2>1. Doing("cleanup") /\ UNCHANGED leads
    BY <1>5 DEF Cleanup, loops
  <2>2. CASE todo' = Tail(todo) /\ UNCHANGED <<sub, feed>>
    BY <1>0, <1>1, <2>1, <2>2, SameKept
  <2>3. CASE UNCHANGED <<todo, sub, feed>>
    BY <1>0, <1>2, <2>1, <2>3, SameKept
  <2>4. ASSUME NEW n \in Nodes, UNCHANGED todo,
               sub[n].status \in {"in_progress", "in_review"},
               [sub[n] EXCEPT !.status = "failed", !.defeat = FALSE] \in SubQuest,
               EmitSubQuest(n, [sub[n] EXCEPT !.status = "failed", !.defeat = FALSE])
        PROVE  \A k \in Nodes : Kept(k)
    <3> DEFINE rec == [sub[n] EXCEPT !.status = "failed", !.defeat = FALSE]
    <3>1. sub[n] \in SubQuest
      BY <1>0 DEF TypeOK
    <3>2. rec \in SubQuest /\ rec.holder = sub[n].holder /\ EmitSubQuest(n, rec)
      BY <2>4, <3>1 DEF SubQuest
    <3>3. Alive(n)
      BY <2>4 DEF Alive
    <3> HIDE DEF rec
    <3> QED
      BY <1>0, <1>2, <2>1, <2>4, <3>2, <3>3, PutKept
  <2> QED
    BY <1>5, <2>2, <2>3, <2>4, CleanupEffect
<1>6. CASE ReadForMetrics
  <2>1. Doing("tally") /\ UNCHANGED <<leads, sub, feed>>
    BY <1>6 DEF ReadForMetrics, loops, entities
  <2>2. CASE todo' = <<Do("metrics", 1)>> \o Tail(todo)
    <3>1. todo'[1].op # "triage"
      BY <2>1, <2>2, TallyPlan
    <3>2. \A k \in Nodes : Hand(k)' # "triage"
      BY <3>1 DEF Hand
    <3> QED
      BY <1>0, <2>1, <3>2, NobodyExpected, SameKept
  <2>3. CASE todo' = Tail(todo)
    BY <1>0, <1>1, <2>1, <2>3, SameKept
  <2> QED
    BY <1>6, <2>2, <2>3 DEF ReadForMetrics
<1>7. CASE EscalateParent \/ PutMetrics \/ SubmitResult \/ PersistDAGState \/ Forget
  <2>1. PICK op \in Ops : Doing(op) /\ todo' = Tail(todo)
    BY <1>7 DEF EscalateParent, PutMetrics, SubmitResult, PersistDAGState, Forget, Ops
  <2>2. UNCHANGED <<leads, sub, feed>>
    BY <1>7 DEF EscalateParent, PutMetrics, SubmitResult, PersistDAGState, Forget, loops, entities
  <2> QED
    BY <1>0, <1>1, <2>1, <2>2, SameKept
<1> QED
  BY <1>3, <1>4, <1>5, <1>6, <1>7 DEF HandlerStep

LEMMA JudgeKept ==
  ASSUME Shape, JudgeParent
  PROVE  \A k \in Nodes : Kept(k)
<1>1. UNCHANGED <<leads, todo>> /\ TypeOK
  BY DEF JudgeParent, memory, loops, Shape
<1>2. CASE UNCHANGED <<sub, feed>>
  BY <1>1, <1>2, NobodyExpected, SameKept
<1>3. ASSUME NEW k \in Nodes,
             \A n \in Nodes : sub'[n].status = "failed" /\ sub'[n].holder = sub[n].holder,
             \A i \in 1 .. Len(feed') : \/ i \in 1 .. Len(feed) /\ feed'[i] = feed[i]
                                        \/ feed'[i].status = "failed" /\ feed'[i].defeat
      PROVE  Kept(k)
  <2>1. Pressing(k)' => Pressing(k)
    BY <1>3 DEF Pressing
  <2>2. Expected
    BY <1>1, NobodyExpected
  <2>3. Alive(k)' => Alive(k)
    <3> SUFFICES ASSUME Alive(k)'
                 PROVE  Alive(k)
      OBVIOUS
    <3>1. CASE Asks("review", k)' > 0 \/ Asks("clarify", k)' > 0 \/ Hand(k)' = "triage"
      BY <2>2, <3>1 DEF Expected
    <3>2. CASE Pressing(k)'
      BY <2>1, <3>2 DEF Alive
    <3> QED
      BY <1>3, <3>1, <3>2 DEF Alive
  <2> QED
    BY <1>3, <2>3 DEF Kept
<1> QED
  BY <1>2, <1>3, JudgeEffect

LEMMA MembersKept ==
  ASSUME Shape, NEW n \in Nodes,
         Finish(n) \/ Ask(n) \/ TriageQuest(n) \/ SubQuestReposted(n)
  PROVE  \A k \in Nodes : Kept(k)
<1>1. TypeOK /\ UNCHANGED <<leads, todo>>
  BY DEF Finish, Ask, TriageQuest, SubQuestReposted, memory, loops, Shape
<1>2. \E rec \in SubQuest : /\ rec.holder \in {None, sub[n].holder} /\ EmitSubQuest(n, rec)
                            /\ \/ rec.status = "posted"
                               \/ sub[n].status \in {"in_progress", "pending_triage"}
  BY FinishEffect, AskEffect, TriageQuestEffect, SubQuestRepostedEffect
<1>3. sub[n].status \in {"in_progress", "pending_triage"} => Alive(n)
  BY DEF Alive
<1>4. Expected
  BY <1>1, NobodyExpected
<1> QED
  BY <1>1, <1>2, <1>3, <1>4, PutKept

LEMMA RestartKept ==
  ASSUME Shape, Restart
  PROVE  \A k \in Nodes : Kept(k)
<1>1. UNCHANGED sub /\ feed' = <<>> /\ todo' = <<>> /\ TypeOK
  BY DEF Restart, Shape
<1>2. PICK lost \in SUBSET LeadLoops : leads' = [l \in LeadLoops |-> IF l \in lost THEN 0 ELSE leads[l]]
  BY DEF Restart
<1>3. \A l \in LeadLoops : leads'[l] > 0 => leads[l] > 0
  BY <1>2
<1>4. \A k \in Nodes, y \in {"review", "clarify"} : [kind |-> y, node |-> k] \in LeadLoops
  BY DEF LeadLoops
<1>5. \A k \in Nodes, y \in {"review", "clarify"} : Asks(y, k)' > 0 => Asks(y, k) > 0
  BY <1>3, <1>4 DEF Asks
<1>6. \A k \in Nodes : Hand(k)' # "triage"
  BY <1>1 DEF Hand
<1>7. Expected
  BY <1>5, <1>6 DEF Expected, Alive
<1> QED
  BY <1>1, <1>7, SameKept

LEMMA KeptStep ==
  ASSUME Shape, Next, ~Assign
  PROVE  \A k \in Nodes : Kept(k)
<1>0. TypeOK
  BY DEF Shape
<1>1. CASE OnDAGEntry \/ OnSynthesisEnded \/ OnDAGCancelled \/ OnDAGTimedOut
  <2>1. UNCHANGED <<sub, feed, leads>>
    BY <1>1 DEF OnDAGEntry, OnSynthesisEnded, OnDAGCancelled, OnDAGTimedOut, entities, loops
  <2>2. todo' = <<>> \/ todo'[1].op # "triage"
    <3>1. CASE OnDAGEntry
      <4>1. Do("assign", 1).op = "assign"
        BY OneIsNode, DoType DEF Ops
      <4> QED
        BY <3>1, <4>1 DEF OnDAGEntry
    <3>2. CASE OnSynthesisEnded
      BY <3>2, OneIsNode, PlanSubmit DEF OnSynthesisEnded, Delivering
    <3>3. CASE OnDAGCancelled \/ OnDAGTimedOut
      BY <3>3, GiveUpDagPlan DEF OnDAGCancelled, OnDAGTimedOut, GivingUp
    <3> QED
      BY <1>1, <3>1, <3>2, <3>3
  <2>3. \A k \in Nodes : Hand(k)' # "triage"
    BY <2>2 DEF Hand
  <2> QED
    BY <1>0, <2>1, <2>3, NobodyExpected, SameKept
<1>2. CASE CancelParent \/ CancelPut \/ SubmitParent
  <2>1. UNCHANGED <<sub, feed, leads, todo>>
    BY <1>2 DEF CancelParent, CancelPut, SubmitParent, memory, loops, entities
  <2> QED
    BY <1>0, <2>1, NobodyExpected, SameKept
<1>3. CASE \E n \in Nodes, kind \in {"review", "clarify"} : LeadResult(kind, n)
  BY <1>3, LeadKept
<1>4. CASE \E n \in Nodes : Finish(n) \/ TriageQuest(n) \/ Ask(n) \/ SubQuestReposted(n)
  BY <1>4, MembersKept
<1>5. CASE OnSubQuestTransition
  BY <1>5, TransitionKept
<1>6. CASE HandlerStep
  BY <1>6, HandlerKept
<1> QED
  BY <1>1, <1>2, <1>3, <1>4, <1>5, <1>6, JudgeKept, RestartKept DEF Next, LoopStep, Progress

-----------------------------------------------------------------------------
(* The invariant, and what it promises.                                    *)

\* A member who holds a sub-quest that may be in progress is not free.
LEMMA HolderTaken ==
  ASSUME Shape, Tending, NEW b \in Nodes, Alive(b), Hand(b) \notin {"repost", "triage"},
         sub[b].holder # None
  PROVE  sub[b].holder \in AlreadyAssigned(dag)
<1>1. /\ Suits(dag.state[b], sub[b].status, News(b), Asks("review", b), Asks("clarify", b), Hand(b))
      /\ dag.state[b] \in Taken => sub[b].holder \in {None, dag.assignee[b]}
  BY TendedFacts
<1>2. dag.state[b] \in NodeStates
  BY IdleDag DEF Tending, DAGExecutionState
<1>3. Pressing(b) => News(b) \cap {"in_review", "escalated", "failed"} # {}
  BY DEF Pressing, News
<1>4. dag.state[b] \notin {"pending", "ready", "completed", "failed"}
  <2>1. CASE Pressing(b)
    BY <1>1, <1>3, <2>1 DEF Suits
  <2>2. CASE Asks("review", b) > 0 \/ Asks("clarify", b) > 0
    BY <1>1, <2>2 DEF Suits
  <2>3. CASE sub[b].status \in {"in_progress", "in_review", "pending_triage"}
    BY <1>1, <2>3 DEF Suits
  <2> QED
    BY <2>1, <2>2, <2>3 DEF Alive
<1>5. dag.state[b] \in Taken
  BY <1>2, <1>4 DEF NodeStates, Taken
<1> QED
  BY <1>1, <1>4, <1>5 DEF AlreadyAssigned

LEMMA AssignFollowed ==
  ASSUME BookingInv, Assign, Live, setting.fault # "duplicate", party
  PROVE  Tending /\ \A k \in Nodes : Hand(k) \notin {"repost", "triage"}
<1>1. Doing("assign") /\ Shape
  BY DEF Assign, BookingInv
<1>2. /\ todo # <<>> /\ Len(todo) \in Nat \ {0} /\ todo[1].op = "assign" /\ Plan(todo)
  BY <1>1, AtWork DEF Shape, Routine
<1>3. ~fresh
  BY <1>2 DEF BookingInv, Untouched
<1>4. ~Ending
  <2> SUFFICES ASSUME NEW i \in 1 .. Len(todo), todo[i].op \in {"escalate", "submit"}
               PROVE  FALSE
    BY DEF Ending
  <2>1. 1 \in 1 .. Len(todo) /\ 1 < i
    BY <1>2
  <2>2. todo[1].op \in {"cleanup", "tally", "metrics"}
    BY <1>2, <2>1 DEF Plan
  <2> QED
    BY <1>2, <2>2
<1>5. Tending
  BY <1>3, <1>4 DEF BookingInv, Followed
<1> QED
  BY <1>2, <1>5 DEF Hand

LEMMA AssignApart ==
  ASSUME BookingInv, Assign, Live, setting.fault # "duplicate"
  PROVE  Apart'
<1>1. Shape /\ TypeOK /\ Apart /\ UNCHANGED leads /\ Doing("assign")
  BY DEF BookingInv, Assign, loops, Shape
<1>2. CASE UNCHANGED <<sub, feed, dag>>
  <2>1. Expected
    BY <1>1, HandRest, NobodyExpected DEF Assign
  <2>2. \A k \in Nodes : Kept(k)
    BY <1>1, <1>2, <2>1, SameKept
  <2> QED
    BY <1>1, <1>2, <2>2 DEF Apart, Kept
<1>3. CASE ~UNCHANGED <<sub, feed, dag>>
  <2>1. PICK n \in Nodes, m \in Members :
           /\ m \notin AlreadyAssigned(dag) /\ party
           /\ [sub[n] EXCEPT !.status = "in_progress", !.holder = m, !.attempts = @ + 1]
                \in SubQuest
           /\ EmitSubQuest(n, [sub[n] EXCEPT !.status = "in_progress", !.holder = m,
                                             !.attempts = @ + 1])
           /\ UNCHANGED todo
    BY <1>1, <1>3, AssignEffect
  <2> DEFINE rec == [sub[n] EXCEPT !.status = "in_progress", !.holder = m, !.attempts = @ + 1]
  <2>2. sub[n] \in SubQuest
    BY <1>1 DEF TypeOK
  <2>3. rec \in SubQuest /\ rec.holder = m /\ EmitSubQuest(n, rec)
    BY <2>1, <2>2 DEF SubQuest
  <2> HIDE DEF rec
  <2>4. Tending /\ \A k \in Nodes : Hand(k) \notin {"repost", "triage"}
    BY <2>1, AssignFollowed
  <2>5. /\ Len(feed) \in Nat /\ Len(feed') = Len(feed) + 1
        /\ \A i \in 1 .. Len(feed) : feed'[i] = feed[i]
        /\ feed'[Len(feed')].node = n
        /\ sub'[n] = rec /\ \A k \in Nodes \ {n} : sub'[k] = sub[k]
    BY <1>1, <2>3, EmitFacts
  <2>6. ASSUME NEW k \in Nodes \ {n}, Alive(k)'
        PROVE  Alive(k) /\ sub'[k] = sub[k]
    <3>1. Pressing(k)' => Pressing(k)
      <4> DEFINE last == Len(feed')
      <4>1. \A i \in 1 .. last : i \in 1 .. Len(feed) \/ i = last
        BY <2>5
      <4>2. feed'[last].node # k
        BY <2>5
      <4>3. \A i \in 1 .. last : feed'[i].node = k => i \in 1 .. Len(feed) /\ feed'[i] = feed[i]
        BY <2>5, <4>1, <4>2
      <4> QED
        BY <4>3 DEF Pressing
    <3>2. Expected
      BY <1>1, <2>1, NobodyExpected
    <3>3. CASE Asks("review", k)' > 0 \/ Asks("clarify", k)' > 0 \/ Hand(k)' = "triage"
      BY <2>5, <3>2, <3>3 DEF Expected
    <3>4. CASE Pressing(k)' \/ sub'[k].status \in {"in_progress", "in_review", "pending_triage"}
      BY <2>5, <3>1, <3>4 DEF Alive
    <3> QED
      BY <2>6, <3>3, <3>4 DEF Alive
  <2>7. \A k \in Nodes \ {n} : Alive(k)' => sub'[k].holder # m
    <3> SUFFICES ASSUME NEW k \in Nodes \ {n}, Alive(k)', sub'[k].holder = m
                 PROVE  FALSE
      OBVIOUS
    <3>1. Alive(k) /\ sub[k].holder = m
      BY <2>6
    <3>2. m # None
      BY DagAssumption
    <3>3. m \in AlreadyAssigned(dag)
      BY <1>1, <2>4, <3>1, <3>2, HolderTaken
    <3> QED
      BY <2>1, <3>3
  <2> SUFFICES ASSUME NEW a \in Nodes, NEW b \in Nodes, a # b, Alive(a)', Alive(b)',
                      sub'[a].holder = sub'[b].holder
               PROVE  sub'[a].holder = None
    BY DEF Apart
  <2>8. a # n /\ b # n
    BY <2>3, <2>5, <2>7
  <2>9. Alive(a) /\ Alive(b) /\ sub'[a] = sub[a] /\ sub'[b] = sub[b]
    BY <2>6, <2>8
  <2> QED
    BY <1>1, <2>9 DEF Apart
<1> QED
  BY <1>2, <1>3

\* Only the parent's entry and a restart end the wait for the entry; parties are not formed anew.
LEMMA FreshBack ==
  ASSUME Next
  PROVE  /\ fresh' = fresh \/ OnDAGEntry \/ ~party'
         /\ fresh' => fresh
         /\ party' => party
<1>1. CASE OnDAGEntry
  BY <1>1 DEF OnDAGEntry
<1>2. CASE Restart
  BY <1>2 DEF Restart
<1>3. CASE HandlerStep
  <2>1. UNCHANGED fresh /\ (UNCHANGED party \/ party' = FALSE)
    BY <1>3 DEF HandlerStep, Assign, Repost, RouteNodeToTriage, Cleanup, EscalateParent,
       ReadForMetrics, PutMetrics, SubmitResult, PersistDAGState, Forget
  <2> QED
    BY <2>1
<1>4. CASE \E n \in Nodes, kind \in {"review", "clarify"} : LeadResult(kind, n)
  <2>1. UNCHANGED <<fresh, party>>
    BY <1>4 DEF LeadResult, DropResult, OnReviewCompleted, OnReviewFailed,
       OnClarificationAnswered, OnClarificationFailed, memory
  <2> QED
    BY <2>1
<1>5. CASE OnSubQuestTransition \/ OnSynthesisEnded \/ OnDAGCancelled \/ OnDAGTimedOut
  <2>1. UNCHANGED <<fresh, party>>
    BY <1>5 DEF OnSubQuestTransition, OnSynthesisEnded, OnDAGCancelled, OnDAGTimedOut
  <2> QED
    BY <2>1
<1>6. CASE \/ CancelParent \/ CancelPut \/ SubmitParent \/ JudgeParent
           \/ \E n \in Nodes : Finish(n) \/ TriageQuest(n) \/ Ask(n) \/ SubQuestReposted(n)
  <2>1. UNCHANGED <<fresh, party>>
    BY <1>6 DEF CancelParent, CancelPut, SubmitParent, JudgeParent, Finish, TriageQuest, Ask,
       SubQuestReposted, memory
  <2> QED
    BY <2>1
<1> QED
  BY <1>1, <1>2, <1>3, <1>4, <1>5, <1>6 DEF Next, LoopStep, Progress

LEMMA BookingInit ==
  ASSUME Init
  PROVE  BookingInv
<1>1. Shape /\ todo = <<>> /\ Len(feed) = 0 /\ fresh
  BY ShapeInit, EmptySeq DEF Init
<1>2. Untouched
  BY DEF Init, Untouched
<1>3. Rolled /\ ~Followed
  BY <1>1 DEF Rolled, Followed
<1>4. \A n \in Nodes : sub[n].holder = None
  BY DEF Init
<1>5. Apart
  BY <1>4 DEF Apart
<1> QED
  BY <1>1, <1>2, <1>3, <1>5 DEF BookingInv

LEMMA BookingInduction ==
  ASSUME BookingInv, [Next]_vars
  PROVE  BookingInv'
<1>1. Shape /\ Shape' /\ UNCHANGED setting
  BY ShapeStep, SettingStays DEF BookingInv
<1>2. CASE UNCHANGED vars
  <2>1. UNCHANGED <<parent, rollup, party, fresh, setting, todo, sub, feed, leads, dag, synthesis,
                    questCache>>
    BY <1>2 DEF vars, entities, memory, loops, around
  <2>2. Rolled' /\ (Live' <=> Live) /\ (Followed' <=> Followed) /\ (Untouched' <=> Untouched)
    BY <2>1 DEF BookingInv, Rolled, Live, Followed, Ending, Untouched
  <2>3. Tending => Tending'
    BY <2>1, SameTending
  <2>4. Apart => Apart'
    <3>1. \A k \in Nodes : Kept(k)
      BY <1>1, <2>1, NobodyExpected, SameKept DEF Shape
    <3> QED
      BY <2>1, <3>1 DEF Apart, Kept
  <2> QED
    BY <1>1, <2>1, <2>2, <2>3, <2>4 DEF BookingInv
<1>3. CASE Next
  <2>1. Rolled'
    BY <1>1, <1>3, RolledStep DEF BookingInv
  <2>2. Live' => Live
    BY <1>1, <1>3, LiveBack
  <2>3. /\ fresh' = fresh \/ OnDAGEntry \/ ~party'
        /\ fresh' => fresh
        /\ party' => party
    BY <1>3, FreshBack
  <2>4. ASSUME Live', fresh'
        PROVE  Untouched'
    <3>1. Live /\ fresh /\ Untouched
      BY <2>2, <2>3, <2>4 DEF BookingInv
    <3>2. ~OnDAGEntry
      BY <2>4 DEF OnDAGEntry
    <3> QED
      BY <1>1, <1>3, <2>4, <3>1, <3>2, UntouchedStep
  <2>5. ASSUME Followed'
        PROVE  Tending'
    <3>1. /\ setting.fault # "duplicate" /\ Live' /\ Live /\ party' /\ party /\ ~fresh' /\ ~Ending'
      BY <1>1, <2>2, <2>3, <2>5 DEF Followed
    <3>2. CASE fresh
      <4>1. OnDAGEntry
        BY <2>3, <3>1, <3>2
      <4>2. Untouched
        BY <3>1, <3>2 DEF BookingInv
      <4> QED
        BY <1>1, <4>1, <4>2, EntryTending
    <3>3. CASE ~fresh
      <4>1. ~Ending
        BY <1>1, <1>3, <3>1, EndingStep
      <4>2. Followed
        BY <3>1, <3>3, <4>1 DEF Followed
      <4>3. Tending /\ Rolled
        BY <4>2 DEF BookingInv
      <4> QED
        BY <1>1, <1>3, <3>1, <4>2, <4>3, TendingStep
    <3> QED
      BY <3>2, <3>3
  <2>6. ASSUME Live', setting'.fault # "duplicate"
        PROVE  Apart'
    <3>1. Live /\ setting.fault # "duplicate" /\ Apart
      BY <1>1, <2>2, <2>6 DEF BookingInv
    <3>2. CASE Assign
      BY <3>1, <3>2, AssignApart
    <3>3. CASE ~Assign
      <4>1. \A k \in Nodes : Kept(k)
        BY <1>1, <1>3, <3>3, KeptStep
      <4> SUFFICES ASSUME NEW a \in Nodes, NEW b \in Nodes, a # b, Alive(a)', Alive(b)',
                          sub'[a].holder = sub'[b].holder
                   PROVE  sub'[a].holder = None
        BY DEF Apart
      <4>2. /\ Alive(a) /\ Alive(b)
            /\ sub'[a].holder \in {None, sub[a].holder} /\ sub'[b].holder \in {None, sub[b].holder}
        BY <4>1 DEF Kept
      <4> QED
        BY <3>1, <4>2 DEF Apart
    <3> QED
      BY <3>2, <3>3
  <2> QED
    BY <1>1, <2>1, <2>4, <2>5, <2>6 DEF BookingInv
<1> QED
  BY <1>2, <1>3

LEMMA ApartBooks ==
  ASSUME BookingInv
  PROVE  NoDoubleBooking
<1> SUFFICES ASSUME parent = "in_progress", setting.fault # "duplicate", NEW m \in Members
             PROVE  Cardinality({n \in Nodes : Running(n) /\ sub[n].holder = m}) <= 1
  BY DEF NoDoubleBooking
<1> DEFINE held == {n \in Nodes : Running(n) /\ sub[n].holder = m}
<1>1. Apart /\ m # None
  BY DagAssumption DEF BookingInv, Live
<1>2. \A a, b \in held : a = b
  BY <1>1 DEF Apart, Running, Alive
<1>3. held = {} \/ \E a \in held : held = {a}
  BY <1>2
<1> HIDE DEF held
<1>4. Cardinality(held) \in {0, 1}
  BY <1>3, FS_EmptySet, FS_Singleton
<1> QED
  BY <1>4 DEF held

\* While the parent is in progress no member works on two sub-quests at once, wherever in the
\* handlers a crash, an operator's repost or a lost task for the lead comes, and however far the
\* watch lags behind: the loop's own state errs on the side of a member who is busy.
THEOREM NeverDoubleBooked == Spec => []NoDoubleBooking
<1>1. Init => BookingInv
  BY BookingInit
<1>2. BookingInv /\ [Next]_vars => BookingInv'
  BY BookingInduction
<1>3. BookingInv => NoDoubleBooking
  BY ApartBooks
<1> QED
  BY <1>1, <1>2, <1>3, PTL DEF Spec
=============================================================================
