-------------------------- MODULE QuestBridgeProofs --------------------------
(***************************************************************************)
(* Proofs about QuestBridge for any number of quests, agents, loops and    *)
(* mishaps.                                                                *)
(*                                                                         *)
(* A loop is started for each time a quest entered in_progress, at most.   *)
(* Between the two lie the watch's queue and its cache: an entry into      *)
(* in_progress that was not handed out yet is a rising edge in the history *)
(* made of the cached status and the queued ones, or a dispatch that has   *)
(* still to publish.  Nothing adds an edge but a put that counts a start,  *)
(* and nothing spends one twice.                                           *)
(***************************************************************************)
EXTENDS QuestBridge, TLAPS, SequenceTheorems, FiniteSetTheorems

Entry == [key : Quests, status : Statuses, holder : Agents \cup {None}]

-----------------------------------------------------------------------------
(* What the workers have to do.                                            *)

Cleaning == {<<"forget", "unmap", "ack">>, <<"unmap", "ack">>, <<"ack">>}

\* The steps of a dispatch that come before the loop is published, and after.
Unpublished ==
  {<<"load", "put", "publish", "map", "store", "load", "put">>,
   <<"put", "publish", "map", "store", "load", "put">>,
   <<"publish", "map", "store", "load", "put">>}

Published ==
  {<<"map", "store", "load", "put">>, <<"store", "load", "put">>, <<"load", "put">>, <<"put">>}

Reconciling == {<<"reconcile">>, <<"recover">>, <<"recover", "reconcile">>}

Applying ==
  {<<"apply">>,
   <<"put", "forget", "unmap", "ack">>,
   <<"free", "put", "forget", "unmap", "ack">>,
   <<"put", "free", "forget", "unmap", "ack">>,
   <<"free", "forget", "unmap", "ack">>,
   <<"put", "fail", "forget", "unmap", "ack">>,
   <<"fail", "forget", "unmap", "ack">>}

Todos(w) ==
  CASE w = "watch"       -> {<<>>} \cup Unpublished \cup Published \cup Reconciling
    [] w = "completions" -> {<<>>} \cup Applying \cup Cleaning
    [] w = "sweep"       -> {<<>>, <<"expire">>, <<"free", "put">>, <<"put">>}
    [] w = "answer"      -> {<<>>, <<"put">>}
    [] w = "resume"      -> {<<>>} \cup Reconciling

\* The jobs whose next put, or whose fail, takes the copy they hold.
Copying ==
  {<<"put", "publish", "map", "store", "load", "put">>, <<"put">>, <<"free", "put">>,
   <<"put", "forget", "unmap", "ack">>,
   <<"free", "put", "forget", "unmap", "ack">>,
   <<"put", "free", "forget", "unmap", "ack">>,
   <<"put", "fail", "forget", "unmap", "ack">>,
   <<"fail", "forget", "unmap", "ack">>}

\* A job is one its worker does, on a quest, with the copy it is to put.
Sound(w, j) ==
  /\ j.todo \in Todos(w)
  /\ j.todo \notin {<<>>, <<"reconcile">>} => j.quest \in Quests
  /\ j.todo \in Copying => j.copy \in QuestRec
  /\ w = "completions" /\ j.todo # <<>> => j.loop \in Loops

JobsSound == \A w \in Workers : Sound(w, job[w])

\* A loop that was published works on a quest.
RunsSound == \A l \in Loops : run[l].state # "unused" => run[l].quest \in Quests

-----------------------------------------------------------------------------
(* What the watch has seen and will see.                                   *)

\* Before entry i of the queue, quest q was last seen with status s.
Was(q, i, s) ==
  \/ questCache[q] = s /\ \A k \in 1 .. i - 1 : feed[k].key # q
  \/ \E j \in 1 .. i - 1 : /\ feed[j].key = q /\ feed[j].status = s
                           /\ \A k \in j + 1 .. i - 1 : feed[k].key # q

\* Entry i takes quest q into in_progress.
Rise(q, i) ==
  /\ feed[i].key = q /\ feed[i].status = "in_progress"
  /\ ~Was(q, i, "in_progress")

Rises(q) == {i \in 1 .. Len(feed) : Rise(q, i)}

Started(q) == {l \in Loops : run[l].state # "unused" /\ run[l].quest = q}

\* A dispatch of q has still to publish.
Pending(q) == job["watch"].quest = q /\ job["watch"].todo \in Unpublished

\* The queue ends with what is stored.
SeenLast == \A q \in Quests : Was(q, Len(feed) + 1, quest[q].status)

StartsCover(q) ==
  /\ IsFiniteSet(Started(q))
  /\ Cardinality(Started(q)) + Cardinality(Rises(q)) + (IF Pending(q) THEN 1 ELSE 0)
       <= starts[q]

AllCovered == \A q \in Quests : StartsCover(q)

\* A result that is being applied is that of a loop that was started.
Taken == job["completions"].todo # <<>> => run[job["completions"].loop].state # "unused"

BridgeIInv == TypeOK /\ JobsSound /\ RunsSound /\ Taken /\ SeenLast /\ AllCovered
-----------------------------------------------------------------------------
(* The queue of the watch.                                                 *)

\* A put at the end of the queue: it is what its quest was last seen with, and it is a rise if
\* the quest was last seen with another status.
LEMMA QueueGrows ==
  ASSUME feed \in Seq(Entry), NEW e \in Entry, feed' = Append(feed, e),
         questCache' = questCache, NEW q, NEW n, n = Len(feed)
  PROVE  /\ Len(feed') = n + 1
         /\ e.key = q => Was(q, n + 2, e.status)'
         /\ e.key # q => \A s : Was(q, n + 1, s) => Was(q, n + 2, s)'
         /\ e.key # q => Rises(q)' = Rises(q)
         /\ e.status # "in_progress" => Rises(q)' = Rises(q)
         /\ Was(q, n + 1, "in_progress") => Rises(q)' = Rises(q)
         /\ Rises(q)' \subseteq Rises(q) \cup {n + 1}
<1>1. /\ n \in Nat /\ Len(feed') = n + 1 /\ feed'[n + 1] = e
      /\ \A i \in 1 .. n : feed'[i] = feed[i]
  BY LenProperties
<1>0. (n + 2) - 1 = n + 1 /\ (n + 1) - 1 = n
  BY <1>1
<1>2. \A i \in 1 .. n + 1 : \A s : Was(q, i, s)' <=> Was(q, i, s)
  BY <1>1 DEF Was
<1>3. e.key = q => Was(q, n + 2, e.status)'
  <2> SUFFICES ASSUME e.key = q  PROVE Was(q, n + 2, e.status)'
    OBVIOUS
  <2>1. n + 1 \in 1 .. (n + 2) - 1 /\ \A k \in (n + 1) + 1 .. (n + 2) - 1 : FALSE
    BY <1>1
  <2>2. feed'[n + 1].key = q /\ feed'[n + 1].status = e.status
    BY <1>1
  <2> QED BY <1>0, <2>1, <2>2 DEF Was
<1>4. ASSUME e.key # q, NEW s, Was(q, n + 1, s)  PROVE Was(q, n + 2, s)'
  <2>1. \A k \in 1 .. n + 1 : k \in 1 .. n \/ feed'[k].key # q
    BY <1>1, <1>4
  <2>2. CASE questCache[q] = s /\ \A k \in 1 .. n : feed[k].key # q
    <3>1. questCache'[q] = s /\ \A k \in 1 .. n + 1 : feed'[k].key # q
      BY <1>1, <2>1, <2>2
    <3> QED BY <1>0, <3>1 DEF Was
  <2>3. CASE \E j \in 1 .. n : /\ feed[j].key = q /\ feed[j].status = s
                               /\ \A k \in j + 1 .. n : feed[k].key # q
    <3>1. PICK j \in 1 .. n : /\ feed[j].key = q /\ feed[j].status = s
                              /\ \A k \in j + 1 .. n : feed[k].key # q
      BY <2>3
    <3>2. j \in 1 .. (n + 2) - 1 /\ feed'[j].key = q /\ feed'[j].status = s
      BY <1>1, <3>1
    <3>3. \A k \in j + 1 .. (n + 2) - 1 : feed'[k].key # q
      BY <1>1, <2>1, <3>1
    <3> QED BY <3>2, <3>3 DEF Was
  <2>4. Was(q, n + 1, s)
    BY <1>4
  <2> QED BY <1>0, <2>2, <2>3, <2>4 DEF Was
<1>5. \A i \in 1 .. n : Rise(q, i)' <=> Rise(q, i)
  BY <1>1, <1>2 DEF Rise
<1>6. Rise(q, n + 1)' => e.key = q /\ e.status = "in_progress" /\ ~Was(q, n + 1, "in_progress")
  BY <1>1, <1>2 DEF Rise
<1>7. Rises(q) = {i \in 1 .. n : Rise(q, i)} /\ Rises(q)' = {i \in 1 .. n + 1 : Rise(q, i)'}
  BY <1>1 DEF Rises
<1>8. Rises(q)' \subseteq Rises(q) \cup {n + 1} /\ (~Rise(q, n + 1)' => Rises(q)' = Rises(q))
  BY <1>1, <1>5, <1>7
<1> QED BY <1>1, <1>3, <1>4, <1>6, <1>8

\* Positions that move up by one.
LEMMA Shift ==
  ASSUME NEW n \in Nat, NEW S \in SUBSET (1 .. n),
         NEW T, T = {i \in 1 .. n - 1 : i + 1 \in S}
  PROVE  IsFiniteSet(S) /\ IsFiniteSet(T) /\ Cardinality(T) = Cardinality(S \ {1})
<1> DEFINE f == [i \in T |-> i + 1]
<1>0. 1 \in Int /\ n \in Int /\ n - 1 \in Int
  OBVIOUS
<1>1. IsFiniteSet(S)
  <2>1. IsFiniteSet(1 .. n)
    BY <1>0, FS_Interval
  <2> QED BY <2>1, FS_Subset
<1>2. IsFiniteSet(T)
  <2>1. T \in SUBSET (1 .. n - 1) /\ IsFiniteSet(1 .. n - 1)
    BY <1>0, FS_Interval
  <2> QED BY <2>1, FS_Subset
<1>3. f \in Bijection(T, S \ {1})
  <2>1. f \in [T -> S \ {1}]
    OBVIOUS
  <2>2. \A a, b \in T : f[a] = f[b] => a = b
    OBVIOUS
  <2>3. \A b \in S \ {1} : \E a \in T : f[a] = b
    <3> TAKE b \in S \ {1}
    <3>1. b - 1 \in T /\ f[b - 1] = b
      OBVIOUS
    <3> QED BY <3>1
  <2> HIDE DEF f
  <2> QED BY <2>1, <2>2, <2>3 DEF Bijection, Injection, Surjection, IsInjective
<1>4. ExistsBijection(T, S \ {1})
  BY <1>3 DEF ExistsBijection
<1> QED BY <1>1, <1>2, <1>4, FS_Bijection

\* The watch takes the first entry: the history is what it was.
LEMMA QueueMoves ==
  ASSUME feed \in Seq(Entry), feed # <<>>, questCache \in [Quests -> Statuses],
         NEW q \in Quests, NEW e, e = Head(feed), feed' = Tail(feed),
         questCache' = [questCache EXCEPT ![e.key] = e.status], NEW n, n = Len(feed)
  PROVE  /\ n \in Nat /\ Len(feed') + 1 = n
         /\ \A s : Was(q, n + 1, s) => Was(q, n, s)'
         /\ Rises(q)' = {i \in 1 .. n - 1 : i + 1 \in Rises(q)}
         /\ 1 \in Rises(q) <=> /\ e.key = q /\ e.status = "in_progress"
                               /\ questCache[q] # "in_progress"
<1>1. /\ n \in Nat \ {0} /\ Len(feed') = n - 1 /\ e = feed[1] /\ e.key \in Quests
      /\ \A i \in 1 .. n - 1 : feed'[i] = feed[i + 1]
  <2>1. n \in Nat /\ n # 0
    BY LenProperties, EmptySeq
  <2>2. e \in Entry /\ e = feed[1]
    BY HeadTailProperties
  <2>3. Len(feed') = n - 1 /\ \A i \in 1 .. n - 1 : feed'[i] = feed[i + 1]
    BY HeadTailProperties
  <2> QED BY <2>1, <2>2, <2>3 DEF Entry
<1>2. questCache'[q] = IF e.key = q THEN e.status ELSE questCache[q]
  OBVIOUS
<1>3. ASSUME NEW i \in 1 .. n, NEW s  PROVE Was(q, i, s)' <=> Was(q, i + 1, s)
  <2>1. ASSUME Was(q, i, s)'  PROVE Was(q, i + 1, s)
    <3>1. CASE questCache'[q] = s /\ \A k \in 1 .. i - 1 : feed'[k].key # q
      <4>1. \A k \in 2 .. i : feed[k].key # q
        <5> TAKE k \in 2 .. i
        <5>1. k - 1 \in 1 .. i - 1 /\ k - 1 \in 1 .. n - 1 /\ (k - 1) + 1 = k
          BY <1>1
        <5> QED BY <1>1, <3>1, <5>1
      <4>2. CASE e.key = q
        <5>1. 1 \in 1 .. (i + 1) - 1 /\ \A k \in 1 + 1 .. (i + 1) - 1 : feed[k].key # q
          BY <4>1
        <5>2. feed[1].key = q /\ feed[1].status = s
          BY <1>1, <1>2, <3>1, <4>2
        <5> QED BY <5>1, <5>2 DEF Was
      <4>3. CASE e.key # q
        <5>1. \A k \in 1 .. (i + 1) - 1 : feed[k].key # q
          BY <1>1, <4>1, <4>3
        <5> QED BY <1>2, <3>1, <4>3, <5>1 DEF Was
      <4> QED BY <4>2, <4>3
    <3>2. CASE \E j \in 1 .. i - 1 : /\ feed'[j].key = q /\ feed'[j].status = s
                                     /\ \A k \in j + 1 .. i - 1 : feed'[k].key # q
      <4>1. PICK j \in 1 .. i - 1 : /\ feed'[j].key = q /\ feed'[j].status = s
                                    /\ \A k \in j + 1 .. i - 1 : feed'[k].key # q
        BY <3>2
      <4>2. j + 1 \in 1 .. (i + 1) - 1 /\ feed[j + 1].key = q /\ feed[j + 1].status = s
        BY <1>1, <4>1
      <4>3. \A k \in (j + 1) + 1 .. (i + 1) - 1 : feed[k].key # q
        <5> TAKE k \in (j + 1) + 1 .. (i + 1) - 1
        <5>1. k - 1 \in j + 1 .. i - 1 /\ k - 1 \in 1 .. n - 1 /\ (k - 1) + 1 = k
          BY <1>1
        <5> QED BY <1>1, <4>1, <5>1
      <4> QED BY <4>2, <4>3 DEF Was
    <3> QED BY <2>1, <3>1, <3>2 DEF Was
  <2>2. ASSUME Was(q, i + 1, s)  PROVE Was(q, i, s)'
    <3>1. CASE questCache[q] = s /\ \A k \in 1 .. i : feed[k].key # q
      <4>1. e.key # q
        BY <1>1, <3>1
      <4>2. \A k \in 1 .. i - 1 : feed'[k].key # q
        <5> TAKE k \in 1 .. i - 1
        <5>1. k + 1 \in 1 .. i /\ k \in 1 .. n - 1
          BY <1>1
        <5> QED BY <1>1, <3>1, <5>1
      <4> QED BY <1>2, <3>1, <4>1, <4>2 DEF Was
    <3>2. CASE \E j \in 1 .. i : /\ feed[j].key = q /\ feed[j].status = s
                                 /\ \A k \in j + 1 .. i : feed[k].key # q
      <4>1. PICK j \in 1 .. i : /\ feed[j].key = q /\ feed[j].status = s
                                /\ \A k \in j + 1 .. i : feed[k].key # q
        BY <3>2
      <4>2. \A k \in 1 .. i - 1 : k >= j => feed'[k].key # q
        <5> TAKE k \in 1 .. i - 1
        <5> SUFFICES ASSUME k >= j  PROVE feed'[k].key # q
          OBVIOUS
        <5>1. k + 1 \in j + 1 .. i /\ k \in 1 .. n - 1
          BY <1>1
        <5> QED BY <1>1, <4>1, <5>1
      <4>3. CASE j = 1
        <5>1. questCache'[q] = s /\ \A k \in 1 .. i - 1 : feed'[k].key # q
          BY <1>1, <1>2, <4>1, <4>2, <4>3
        <5> QED BY <5>1 DEF Was
      <4>4. CASE j # 1
        <5>1. j - 1 \in 1 .. i - 1 /\ j - 1 \in 1 .. n - 1 /\ (j - 1) + 1 = j
          BY <1>1, <4>4
        <5>2. feed'[j - 1].key = q /\ feed'[j - 1].status = s
          BY <1>1, <4>1, <5>1
        <5>3. \A k \in (j - 1) + 1 .. i - 1 : feed'[k].key # q
          <6> TAKE k \in (j - 1) + 1 .. i - 1
          <6>1. k \in 1 .. i - 1 /\ k >= j
            BY <5>1
          <6> QED BY <4>2, <6>1
        <5> QED BY <5>1, <5>2, <5>3 DEF Was
      <4> QED BY <4>3, <4>4
    <3>3. (i + 1) - 1 = i
      OBVIOUS
    <3> QED BY <2>2, <3>1, <3>2, <3>3 DEF Was
  <2> QED BY <2>1, <2>2
<1>4. \A i \in 1 .. n - 1 : Rise(q, i)' <=> Rise(q, i + 1)
  BY <1>1, <1>3 DEF Rise
<1>5. Rises(q)' = {i \in 1 .. n - 1 : i + 1 \in Rises(q)}
  <2>1. Rises(q) = {i \in 1 .. n : Rise(q, i)} /\ Rises(q)' = {i \in 1 .. n - 1 : Rise(q, i)'}
    BY <1>1 DEF Rises
  <2> QED BY <1>1, <1>4, <2>1
<1>6. Rise(q, 1) <=> e.key = q /\ e.status = "in_progress" /\ questCache[q] # "in_progress"
  BY <1>1 DEF Rise, Was
<1>7. 1 \in Rises(q) <=> Rise(q, 1)
  BY <1>1 DEF Rises
<1>8. \A s : Was(q, n + 1, s) => Was(q, n, s)'
  BY <1>1, <1>3
<1> QED BY <1>1, <1>5, <1>6, <1>7, <1>8
-----------------------------------------------------------------------------
(* The steps left of a job.                                                *)

\* The job that is left is one of the worker's, and it needs no copy the job had not.
LEMMA RestTodo ==
  ASSUME NEW w \in Workers, NEW t \in Todos(w), t # <<>>
  PROVE  /\ Head(t) \in Steps /\ Tail(t) \in Todos(w) /\ t \in Seq(Steps)
         /\ Len(t) = 1 <=> Tail(t) = <<>>
         /\ t = <<"reconcile">> => Tail(t) = <<>>
         /\ Head(t) # "load" /\ Tail(t) \in Copying => t \in Copying
         /\ Head(t) \in {"put", "fail"} => t \in Copying
         /\ Tail(t) \in Unpublished => t \in Unpublished
         /\ Head(t) = "reconcile" => t = <<"reconcile">>
         /\ Head(t) = "apply" => t = <<"apply">>
         /\ Head(t) = "expire" => t = <<"expire">>
         /\ Head(t) = "fail" => t = <<"fail", "forget", "unmap", "ack">>
         /\ Head(t) = "publish" => t \in Unpublished /\ Tail(t) \notin Unpublished
                                   /\ Tail(t) # <<>> /\ Tail(t) \notin Copying
         /\ Head(t) = "ack" => Tail(t) = <<>>
<1> USE DEF Steps, Copying, Unpublished, Published, Reconciling, Applying, Cleaning
<1>1. CASE w = "watch"
  <2>1. CASE t \in Unpublished
    <3>1. CASE t = <<"load", "put", "publish", "map", "store", "load", "put">>
      BY <1>1, <3>1 DEF Todos
    <3>2. CASE t = <<"put", "publish", "map", "store", "load", "put">>
      BY <1>1, <3>2 DEF Todos
    <3>3. CASE t = <<"publish", "map", "store", "load", "put">>
      BY <1>1, <3>3 DEF Todos
    <3> QED BY <2>1, <3>1, <3>2, <3>3
  <2>2. CASE t \in Published
    <3>1. CASE t = <<"map", "store", "load", "put">>
      BY <1>1, <3>1 DEF Todos
    <3>2. CASE t = <<"store", "load", "put">>
      BY <1>1, <3>2 DEF Todos
    <3>3. CASE t = <<"load", "put">>
      BY <1>1, <3>3 DEF Todos
    <3>4. CASE t = <<"put">>
      BY <1>1, <3>4 DEF Todos
    <3> QED BY <2>2, <3>1, <3>2, <3>3, <3>4
  <2>3. CASE t \in Reconciling
    <3>1. CASE t = <<"reconcile">>
      BY <1>1, <3>1 DEF Todos
    <3>2. CASE t = <<"recover">>
      BY <1>1, <3>2 DEF Todos
    <3>3. CASE t = <<"recover", "reconcile">>
      BY <1>1, <3>3 DEF Todos
    <3> QED BY <2>3, <3>1, <3>2, <3>3
  <2> QED BY <1>1, <2>1, <2>2, <2>3 DEF Todos
<1>2. CASE w = "completions"
  <2>1. CASE t = <<"apply">>
    BY <1>2, <2>1 DEF Todos
  <2>2. CASE t = <<"put", "forget", "unmap", "ack">>
    BY <1>2, <2>2 DEF Todos
  <2>3. CASE t = <<"free", "put", "forget", "unmap", "ack">>
    BY <1>2, <2>3 DEF Todos
  <2>4. CASE t = <<"put", "free", "forget", "unmap", "ack">>
    BY <1>2, <2>4 DEF Todos
  <2>5. CASE t = <<"free", "forget", "unmap", "ack">>
    BY <1>2, <2>5 DEF Todos
  <2>6. CASE t = <<"put", "fail", "forget", "unmap", "ack">>
    BY <1>2, <2>6 DEF Todos
  <2>7. CASE t = <<"fail", "forget", "unmap", "ack">>
    BY <1>2, <2>7 DEF Todos
  <2>8. CASE t = <<"forget", "unmap", "ack">>
    BY <1>2, <2>8 DEF Todos
  <2>9. CASE t = <<"unmap", "ack">>
    BY <1>2, <2>9 DEF Todos
  <2>10. CASE t = <<"ack">>
    BY <1>2, <2>10 DEF Todos
  <2>11. t \in Applying \/ t \in Cleaning
    BY <1>2 DEF Todos
  <2> QED BY <2>1, <2>2, <2>3, <2>4, <2>5, <2>6, <2>7, <2>8, <2>9, <2>10, <2>11
<1>3. CASE w = "sweep"
  <2>1. CASE t = <<"expire">>
    BY <1>3, <2>1 DEF Todos
  <2>2. CASE t = <<"free", "put">>
    BY <1>3, <2>2 DEF Todos
  <2>3. CASE t = <<"put">>
    BY <1>3, <2>3 DEF Todos
  <2> QED BY <1>3, <2>1, <2>2, <2>3 DEF Todos
<1>4. CASE w = "answer"
  <2>1. t = <<"put">>
    BY <1>4 DEF Todos
  <2> QED BY <1>4, <2>1 DEF Todos
<1>5. CASE w = "resume"
  <2>1. CASE t = <<"reconcile">>
    BY <1>5, <2>1 DEF Todos
  <2>2. CASE t = <<"recover">>
    BY <1>5, <2>2 DEF Todos
  <2>3. CASE t = <<"recover", "reconcile">>
    BY <1>5, <2>3 DEF Todos
  <2> QED BY <1>5, <2>1, <2>2, <2>3 DEF Todos
<1> QED BY <1>1, <1>2, <1>3, <1>4, <1>5 DEF Workers

\* The steps that start with given ones and end with the clean-up.
LEMMA ThenCleanUp ==
  /\ <<>> \o CleanUp = <<"forget", "unmap", "ack">>
  /\ <<"put">> \o CleanUp = <<"put", "forget", "unmap", "ack">>
  /\ <<"free", "put">> \o CleanUp = <<"free", "put", "forget", "unmap", "ack">>
  /\ <<"put", "free">> \o CleanUp = <<"put", "free", "forget", "unmap", "ack">>
  /\ <<"put", "fail">> \o CleanUp = <<"put", "fail", "forget", "unmap", "ack">>
  /\ <<"recover">> \o <<>> = <<"recover">>
  /\ <<"recover">> \o <<"reconcile">> = <<"recover", "reconcile">>
<1> USE DEF CleanUp
<1>1. ASSUME NEW s \in Seq(Steps), NEW t \in Seq(Steps), NEW u \in Seq(Steps),
             Len(u) = Len(s) + Len(t),
             \A i \in 1 .. Len(u) : u[i] = IF i <= Len(s) THEN s[i] ELSE t[i - Len(s)]
      PROVE  s \o t = u
  <2>1. s \o t \in Seq(Steps) /\ Len(s \o t) = Len(u)
        /\ \A i \in 1 .. Len(u) : (s \o t)[i] = u[i]
    BY <1>1, ConcatProperties
  <2> QED BY <2>1, SeqEqual
<1> DEFINE c == <<"forget", "unmap", "ack">>
<1>2. c \in Seq(Steps) /\ Len(c) = 3
  BY DEF Steps
<1>3. <<>> \o c = c
  BY <1>2, ConcatEmptySeq
<1>4. <<"put">> \o c = <<"put", "forget", "unmap", "ack">>
  <2> DEFINE s == <<"put">>
             u == <<"put", "forget", "unmap", "ack">>
  <2>1. s \in Seq(Steps) /\ u \in Seq(Steps)
    BY DEF Steps
  <2>2. Len(u) = Len(s) + Len(c) /\ Len(s) = 1
    OBVIOUS
  <2>3. \A i \in 1 .. Len(u) : u[i] = IF i <= Len(s) THEN s[i] ELSE c[i - Len(s)]
    <3> TAKE i \in 1 .. Len(u)
    <3>1. i \in {1, 2, 3, 4}
      OBVIOUS
    <3> QED BY <3>1
  <2> HIDE DEF s, u, c
  <2>4. s \o c = u
    BY <1>1, <1>2, <2>1, <2>2, <2>3
  <2> QED BY <2>4 DEF s, u
<1>5. <<"free", "put">> \o c = <<"free", "put", "forget", "unmap", "ack">>
  <2> DEFINE s == <<"free", "put">>
             u == <<"free", "put", "forget", "unmap", "ack">>
  <2>1. s \in Seq(Steps) /\ u \in Seq(Steps)
    BY DEF Steps
  <2>2. Len(u) = Len(s) + Len(c) /\ Len(s) = 2
    OBVIOUS
  <2>3. \A i \in 1 .. Len(u) : u[i] = IF i <= Len(s) THEN s[i] ELSE c[i - Len(s)]
    <3> TAKE i \in 1 .. Len(u)
    <3>1. i \in {1, 2, 3, 4, 5}
      OBVIOUS
    <3> QED BY <3>1
  <2> HIDE DEF s, u, c
  <2>4. s \o c = u
    BY <1>1, <1>2, <2>1, <2>2, <2>3
  <2> QED BY <2>4 DEF s, u
<1>6. <<"put", "free">> \o c = <<"put", "free", "forget", "unmap", "ack">>
  <2> DEFINE s == <<"put", "free">>
             u == <<"put", "free", "forget", "unmap", "ack">>
  <2>1. s \in Seq(Steps) /\ u \in Seq(Steps)
    BY DEF Steps
  <2>2. Len(u) = Len(s) + Len(c) /\ Len(s) = 2
    OBVIOUS
  <2>3. \A i \in 1 .. Len(u) : u[i] = IF i <= Len(s) THEN s[i] ELSE c[i - Len(s)]
    <3> TAKE i \in 1 .. Len(u)
    <3>1. i \in {1, 2, 3, 4, 5}
      OBVIOUS
    <3> QED BY <3>1
  <2> HIDE DEF s, u, c
  <2>4. s \o c = u
    BY <1>1, <1>2, <2>1, <2>2, <2>3
  <2> QED BY <2>4 DEF s, u
<1>7. <<"put", "fail">> \o c = <<"put", "fail", "forget", "unmap", "ack">>
  <2> DEFINE s == <<"put", "fail">>
             u == <<"put", "fail", "forget", "unmap", "ack">>
  <2>1. s \in Seq(Steps) /\ u \in Seq(Steps)
    BY DEF Steps
  <2>2. Len(u) = Len(s) + Len(c) /\ Len(s) = 2
    OBVIOUS
  <2>3. \A i \in 1 .. Len(u) : u[i] = IF i <= Len(s) THEN s[i] ELSE c[i - Len(s)]
    <3> TAKE i \in 1 .. Len(u)
    <3>1. i \in {1, 2, 3, 4, 5}
      OBVIOUS
    <3> QED BY <3>1
  <2> HIDE DEF s, u, c
  <2>4. s \o c = u
    BY <1>1, <1>2, <2>1, <2>2, <2>3
  <2> QED BY <2>4 DEF s, u
<1>8. <<"recover">> \o <<>> = <<"recover">>
  <2>1. <<"recover">> \in Seq(Steps)
    BY DEF Steps
  <2> QED BY <2>1, ConcatEmptySeq
<1>9. <<"recover">> \o <<"reconcile">> = <<"recover", "reconcile">>
  <2> DEFINE s == <<"recover">>
             u == <<"recover", "reconcile">>
  <2>0. <<"reconcile">> \in Seq(Steps)
    BY DEF Steps
  <2>1. s \in Seq(Steps) /\ u \in Seq(Steps)
    BY DEF Steps
  <2>2. Len(u) = Len(s) + Len(<<"reconcile">>) /\ Len(s) = 1
    OBVIOUS
  <2>3. \A i \in 1 .. Len(u) : u[i] = IF i <= Len(s) THEN s[i] ELSE <<"reconcile">>[i - Len(s)]
    <3> TAKE i \in 1 .. Len(u)
    <3>1. i \in {1, 2}
      OBVIOUS
    <3> QED BY <3>1
  <2> HIDE DEF s, u
  <2>4. s \o <<"reconcile">> = u
    BY <1>1, <2>0, <2>1, <2>2, <2>3
  <2> QED BY <2>4 DEF s, u
<1> QED BY <1>3, <1>4, <1>5, <1>6, <1>7, <1>8, <1>9
-----------------------------------------------------------------------------
(* Jobs and steps.                                                         *)

LEMMA NoJobSound ==
  NoJob \in Job /\ NoJob.todo = <<>> /\ \A w \in Workers : Sound(w, NoJob)
<1>1. NoJob \in Job
  <2>1. <<>> \in Seq(Steps)
    BY EmptySeq
  <2> QED BY <2>1 DEF NoJob, Job
<1>2. NoJob.todo = <<>>
  BY DEF NoJob
<1>3. \A w \in Workers : <<>> \in Todos(w)
  BY DEF Todos, Workers
<1>4. <<>> \notin Copying
  BY DEF Copying
<1> QED BY <1>1, <1>2, <1>3, <1>4 DEF Sound

\* What is left of a job after a step is a job of the worker.
LEMMA RestJob ==
  ASSUME BridgeIInv, NEW w \in Workers, NEW t, t = job[w].todo, t # <<>>
  PROVE  /\ Rest(w) \in Job /\ Rest(w).todo = Tail(t)
         /\ Tail(t) # <<>> => /\ Rest(w).quest = job[w].quest
                              /\ Rest(w).agent = job[w].agent
                              /\ Rest(w).loop = job[w].loop
                              /\ Rest(w).copy = job[w].copy
         /\ Head(t) # "load" => Sound(w, Rest(w))
<1>1. job[w] \in Job /\ Sound(w, job[w]) /\ t \in Todos(w)
  BY DEF BridgeIInv, TypeOK, JobsSound, Sound
<1>2. CASE Len(t) = 1
  <2>1. Rest(w) = NoJob /\ Tail(t) = <<>>
    BY <1>1, <1>2, RestTodo DEF Rest
  <2> QED BY <2>1, NoJobSound
<1>3. CASE Len(t) # 1
  <2>1. Tail(t) # <<>> /\ Tail(t) \in Todos(w) /\ Tail(t) \in Seq(Steps)
    <3>1. t \in Seq(Steps) /\ Tail(t) # <<>> /\ Tail(t) \in Todos(w)
      BY <1>1, <1>3, RestTodo
    <3> QED BY <3>1, HeadTailProperties
  <2> DEFINE r == [job[w] EXCEPT !.todo = Tail(t)]
  <2>2. Rest(w) = r
    BY <1>3 DEF Rest
  <2>3. /\ r \in Job /\ r.todo = Tail(t) /\ r.quest = job[w].quest /\ r.agent = job[w].agent
        /\ r.loop = job[w].loop /\ r.copy = job[w].copy
    BY <1>1, <2>1 DEF Job
  <2> HIDE DEF r
  <2>4. Head(t) # "load" => Sound(w, r)
    <3>1. t \notin {<<>>, <<"reconcile">>}
      BY <1>1, <2>1, RestTodo
    <3>2. Head(t) # "load" /\ Tail(t) \in Copying => t \in Copying
      BY <1>1, RestTodo
    <3> QED BY <1>1, <2>1, <2>3, <3>1, <3>2 DEF Sound
  <2> QED BY <2>1, <2>2, <2>3, <2>4
<1> QED BY <1>2, <1>3

\* One worker has a new job.
LEMMA JobStep ==
  ASSUME BridgeIInv, NEW w \in Workers, NEW j \in Job, Sound(w, j),
         job' = [job EXCEPT ![w] = j]
  PROVE  /\ job' \in [Workers -> Job] /\ JobsSound'
         /\ w # "watch" => job'["watch"] = job["watch"]
         /\ w = "watch" => job'["watch"] = j
<1>1. job \in [Workers -> Job] /\ \A x \in Workers : Sound(x, job[x])
  BY DEF BridgeIInv, TypeOK, JobsSound
<1>2. \A x \in Workers : Sound(x, job'[x])
  BY <1>1
<1>3. JobsSound'
  BY <1>2 DEF JobsSound, Sound
<1>4. "watch" \in Workers
  BY DEF Workers
<1> QED BY <1>1, <1>3, <1>4

\* The entries that count are positions of the queue.
LEMMA RisesFinite ==
  ASSUME feed \in Seq([key : Quests, status : Statuses, holder : Agents \cup {None}]), NEW q
  PROVE  IsFiniteSet(Rises(q)) /\ Cardinality(Rises(q)) \in Nat
<1>1. 1 \in Int /\ Len(feed) \in Int
  BY LenProperties
<1>2. IsFiniteSet(1 .. Len(feed))
  BY <1>1, FS_Interval
<1>3. Rises(q) \in SUBSET (1 .. Len(feed))
  BY DEF Rises
<1>4. IsFiniteSet(Rises(q))
  BY <1>2, <1>3, FS_Subset
<1> QED BY <1>4, FS_CardinalityType

\* A step without puts and without starts of loops, which makes no dispatch.
LEMMA QuietStep ==
  ASSUME BridgeIInv, TypeOK', JobsSound', Taken',
         UNCHANGED <<quest, feed, starts, questCache>>,
         \A l \in Loops : /\ run'[l].quest = run[l].quest
                          /\ run'[l].state = "unused" <=> run[l].state = "unused",
         \A q \in Quests : Pending(q)' => Pending(q)
  PROVE  BridgeIInv'
<1>1. RunsSound'
  BY DEF RunsSound, BridgeIInv
<1>2. SeenLast'
  BY DEF SeenLast, Was, BridgeIInv
<1>3. ASSUME NEW q \in Quests PROVE StartsCover(q)'
  <2>1. Started(q)' = Started(q)
    BY DEF Started
  <2>2. Rises(q)' = Rises(q)
    BY DEF Rises, Rise, Was
  <2>4. Cardinality(Rises(q)) \in Nat /\ starts[q] \in Nat
    BY RisesFinite DEF BridgeIInv, TypeOK
  <2>5. IsFiniteSet(Started(q)) /\ Cardinality(Started(q)) \in Nat
    BY FS_CardinalityType DEF BridgeIInv, AllCovered, StartsCover
  <2>6. Cardinality(Started(q)) + Cardinality(Rises(q)) + (IF Pending(q) THEN 1 ELSE 0)
          <= starts[q]
    BY DEF BridgeIInv, AllCovered, StartsCover
  <2> QED BY <2>1, <2>2, <2>4, <2>5, <2>6 DEF StartsCover
<1>4. AllCovered'
  BY <1>3 DEF AllCovered
<1> QED BY <1>1, <1>2, <1>4 DEF BridgeIInv

\* A put: if the quest enters in_progress by it, a start is counted for the rise it may be.
LEMMA EmitStep ==
  ASSUME BridgeIInv, NEW q \in Quests, NEW rec \in QuestRec, EmitEntityUpdate(q, rec),
         job' \in [Workers -> Job], JobsSound', Taken',
         \A x \in Quests : Pending(x)' => Pending(x),
         agent' \in [Agents -> Quests \cup {None}],
         UNCHANGED <<memory, questLoops, run, paused, hurried, mishaps>>
  PROVE  BridgeIInv'
<1> DEFINE e == [key |-> q, status |-> rec.status, holder |-> rec.claimedBy]
           n == Len(feed)
<1>1. e \in Entry /\ e.key = q /\ e.status = rec.status
  BY DEF Entry, QuestRec
<1>2. /\ quest' = [quest EXCEPT ![q] = rec] /\ feed' = Append(feed, e)
      /\ starts' = IF rec.status = "in_progress" /\ quest[q].status # "in_progress"
                   THEN [starts EXCEPT ![q] = starts[q] + 1] ELSE starts
  BY DEF EmitEntityUpdate, Emit
<1>3. feed \in Seq(Entry) /\ n \in Nat /\ questCache' = questCache /\ run' = run
  BY LenProperties DEF BridgeIInv, TypeOK, Entry, memory
<1>4. TypeOK'
  <2>1. quest' \in [Quests -> QuestRec]
    BY <1>2 DEF BridgeIInv, TypeOK
  <2>2. feed' \in Seq(Entry)
    BY <1>1, <1>2, <1>3
  <2>3. starts' \in [Quests -> Nat]
    <3>1. starts[q] + 1 \in Nat /\ starts \in [Quests -> Nat]
      BY DEF BridgeIInv, TypeOK
    <3> QED BY <1>2, <3>1
  <2> QED BY <2>1, <2>2, <2>3 DEF BridgeIInv, TypeOK, Entry, memory
<1>5. ASSUME NEW x \in Quests
      PROVE  /\ Len(feed') = n + 1
             /\ x = q => Was(x, Len(feed) + 1, quest[x].status)'
             /\ x # q => Was(x, Len(feed) + 1, quest[x].status)'
             /\ IsFiniteSet(Rises(x)) /\ IsFiniteSet(Rises(x)')
             /\ \/ Rises(x)' = Rises(x)
                \/ /\ Cardinality(Rises(x)') <= Cardinality(Rises(x)) + 1
                   /\ x = q /\ starts'[x] = starts[x] + 1
  <2> HIDE DEF e
  <2> SUFFICES ASSUME NEW m, m = Len(feed)
      PROVE  /\ Len(feed') = m + 1
             /\ x = q => Was(x, Len(feed) + 1, quest[x].status)'
             /\ x # q => Was(x, Len(feed) + 1, quest[x].status)'
             /\ IsFiniteSet(Rises(x)) /\ IsFiniteSet(Rises(x)')
             /\ \/ Rises(x)' = Rises(x)
                \/ /\ Cardinality(Rises(x)') <= Cardinality(Rises(x)) + 1
                   /\ x = q /\ starts'[x] = starts[x] + 1
    OBVIOUS
  <2>1. /\ Len(feed') = m + 1
        /\ e.key = x => Was(x, m + 2, e.status)'
        /\ e.key # x => \A s : Was(x, m + 1, s) => Was(x, m + 2, s)'
        /\ e.key # x => Rises(x)' = Rises(x)
        /\ e.status # "in_progress" => Rises(x)' = Rises(x)
        /\ Was(x, m + 1, "in_progress") => Rises(x)' = Rises(x)
        /\ Rises(x)' \subseteq Rises(x) \cup {m + 1}
    BY <1>1, <1>2, <1>3, QueueGrows
  <2>2. Was(x, m + 1, quest[x].status)
    BY DEF BridgeIInv, SeenLast
  <2>3. Len(feed') + 1 = m + 2
    BY <1>3, <2>1
  <2>4. quest'[x].status = IF x = q THEN e.status ELSE quest[x].status
    BY <1>1, <1>2 DEF BridgeIInv, TypeOK
  <2>5. Was(x, m + 2, quest[x].status)'
    <3>1. \A s : s = quest'[x].status /\ Was(x, m + 2, s)' => Was(x, m + 2, quest[x].status)'
      BY DEF Was
    <3>2. CASE x = q
      BY <1>1, <2>1, <2>4, <3>1, <3>2
    <3>3. CASE x # q
      <4> DEFINE s == quest[x].status
      <4>2. Was(x, m + 1, s) /\ quest'[x].status = s
        BY <2>2, <2>4, <3>3
      <4> HIDE DEF s
      <4>3. \A v : Was(x, m + 1, v) => Was(x, m + 2, v)'
        BY <1>1, <2>1, <3>3
      <4> QED BY <3>1, <4>2, <4>3
    <3> QED BY <3>2, <3>3
  <2>6. Was(x, Len(feed) + 1, quest[x].status)'
    BY <2>3, <2>5 DEF Was
  <2>7. IsFiniteSet(Rises(x))
    BY RisesFinite DEF BridgeIInv, TypeOK
  <2>8. IsFiniteSet(Rises(x) \cup {m + 1})
        /\ Cardinality(Rises(x) \cup {m + 1}) <= Cardinality(Rises(x)) + 1
    <3>1. Cardinality(Rises(x)) \in Nat
      BY <2>7, FS_CardinalityType
    <3>2. /\ IsFiniteSet(Rises(x) \cup {m + 1})
          /\ Cardinality(Rises(x) \cup {m + 1}) =
               IF m + 1 \in Rises(x) THEN Cardinality(Rises(x)) ELSE Cardinality(Rises(x)) + 1
      BY <2>7, FS_AddElement
    <3> QED BY <3>1, <3>2
  <2>9. IsFiniteSet(Rises(x)') /\ Cardinality(Rises(x)') <= Cardinality(Rises(x)) + 1
    <3>1. IsFiniteSet(Rises(x)')
          /\ Cardinality(Rises(x)') <= Cardinality(Rises(x) \cup {m + 1})
      BY <2>1, <2>8, FS_Subset
    <3>2. Cardinality(Rises(x)) \in Nat /\ Cardinality(Rises(x)') \in Nat
          /\ Cardinality(Rises(x) \cup {m + 1}) \in Nat
      BY <2>7, <2>8, <3>1, FS_CardinalityType
    <3> QED BY <2>8, <3>1, <3>2
  <2>10. Rises(x)' = Rises(x) \/ (x = q /\ starts'[x] = starts[x] + 1)
    <3>1. CASE x = q /\ rec.status = "in_progress" /\ quest[q].status # "in_progress"
      BY <1>2, <3>1 DEF BridgeIInv, TypeOK
    <3>2. CASE ~(x = q /\ rec.status = "in_progress" /\ quest[q].status # "in_progress")
      BY <1>1, <2>1, <2>2, <3>2
    <3> QED BY <3>1, <3>2
  <2> QED BY <2>1, <2>6, <2>7, <2>9, <2>10
<1>6. SeenLast'
  BY <1>5 DEF SeenLast
<1>7. RunsSound'
  BY <1>3 DEF RunsSound, BridgeIInv
<1>8. ASSUME NEW x \in Quests PROVE StartsCover(x)'
  <2>1. Started(x)' = Started(x)
    BY <1>3 DEF Started
  <2>2. /\ IsFiniteSet(Started(x)) /\ Cardinality(Started(x)) \in Nat
        /\ Cardinality(Rises(x)) \in Nat /\ Cardinality(Rises(x)') \in Nat
        /\ starts[x] \in Nat /\ starts'[x] \in Nat /\ starts[x] <= starts'[x]
    <3>1. starts[x] \in Nat /\ starts'[x] \in Nat
      BY <1>4 DEF BridgeIInv, TypeOK
    <3>2. starts[x] <= starts'[x]
      BY <1>2, <3>1 DEF BridgeIInv, TypeOK
    <3> QED BY <1>5, <3>1, <3>2, FS_CardinalityType DEF BridgeIInv, AllCovered, StartsCover
  <2>3. Cardinality(Started(x)) + Cardinality(Rises(x)) + (IF Pending(x) THEN 1 ELSE 0)
          <= starts[x]
    BY DEF BridgeIInv, AllCovered, StartsCover
  <2>4. \/ Rises(x)' = Rises(x)
        \/ /\ Cardinality(Rises(x)') <= Cardinality(Rises(x)) + 1
           /\ starts'[x] = starts[x] + 1
    BY <1>5
  <2>5. Cardinality(Started(x)) + Cardinality(Rises(x)') + (IF Pending(x)' THEN 1 ELSE 0)
          <= starts'[x]
    BY <2>2, <2>3, <2>4
  <2> QED BY <2>1, <2>2, <2>5 DEF StartsCover
<1> QED BY <1>4, <1>6, <1>7, <1>8 DEF BridgeIInv, AllCovered
-----------------------------------------------------------------------------
(* Steps of the workers.                                                   *)

\* The types of what is no queue, quest, cache or job.
AroundOK ==
  /\ agent \in [Agents -> Quests \cup {None}]
  /\ questLoops \in [Quests -> Loops \cup {None}]
  /\ run \in [Loops -> Run]
  /\ escalatedAt \in SUBSET Quests
  /\ activeLoops \in [Quests -> Loops \cup {None}]
  /\ {paused, hurried} \subseteq BOOLEAN
  /\ mishaps \in 0 .. MishapBound[hurried]

LEMMA AroundTypes ==
  ASSUME BridgeIInv
  PROVE  AroundOK /\ (UNCHANGED <<agent, questLoops, run, paused, hurried, mishaps>> =>
                        (escalatedAt' \in SUBSET Quests
                         /\ activeLoops' \in [Quests -> Loops \cup {None}] => AroundOK'))
BY DEF BridgeIInv, TypeOK, AroundOK

\* A worker goes on without a put, a publish or an entry of the queue.
LEMMA WorkStep ==
  ASSUME BridgeIInv, NEW w \in Workers, NEW j \in Job, Sound(w, j),
         job' = [job EXCEPT ![w] = j],
         w = "watch" /\ j.todo \in Unpublished =>
           job["watch"].todo \in Unpublished /\ j.quest = job["watch"].quest,
         w = "completions" /\ j.todo # <<>> => run[j.loop].state # "unused",
         UNCHANGED <<quest, feed, starts, questCache>>, AroundOK',
         \A l \in Loops : /\ run'[l].quest = run[l].quest
                          /\ run'[l].state = "unused" <=> run[l].state = "unused"
  PROVE  BridgeIInv'
<1>1. /\ job' \in [Workers -> Job] /\ JobsSound'
      /\ w # "watch" => job'["watch"] = job["watch"]
      /\ w = "watch" => job'["watch"] = j
  BY JobStep
<1>2. TypeOK'
  BY <1>1 DEF BridgeIInv, TypeOK, AroundOK
<1>3. \A q \in Quests : Pending(q)' => Pending(q)
  BY <1>1 DEF Pending
<1>4. Taken'
  <2>1. CASE w = "completions"
    <3>1. job'["completions"] = j /\ (j.todo # <<>> => j.loop \in Loops)
      BY <2>1 DEF BridgeIInv, TypeOK, Sound
    <3> QED BY <2>1, <3>1 DEF Taken
  <2>2. CASE w # "completions"
    <3>1. job'["completions"] = job["completions"] /\ Sound("completions", job["completions"])
      BY <2>2 DEF BridgeIInv, TypeOK, JobsSound, Workers
    <3> QED BY <3>1 DEF BridgeIInv, Taken, Sound
  <2> QED BY <2>1, <2>2
<1> QED BY <1>1, <1>2, <1>3, <1>4, QuietStep

\* A worker goes on with what is left of its job.
LEMMA DoneStep ==
  ASSUME BridgeIInv, NEW w \in Workers, job[w].todo # <<>>, Head(job[w].todo) # "load",
         Done(w), UNCHANGED <<quest, feed, starts, questCache>>, AroundOK',
         \A l \in Loops : /\ run'[l].quest = run[l].quest
                          /\ run'[l].state = "unused" <=> run[l].state = "unused"
  PROVE  BridgeIInv'
<1> DEFINE j == Rest(w)
<1>1. /\ j \in Job /\ j.todo = Tail(job[w].todo) /\ Sound(w, j)
      /\ j.todo # <<>> => j.quest = job[w].quest /\ j.loop = job[w].loop
  BY RestJob
<1>2. w = "watch" /\ j.todo \in Unpublished =>
           job["watch"].todo \in Unpublished /\ j.quest = job["watch"].quest
  <2>1. job[w].todo \in Todos(w)
    BY DEF BridgeIInv, JobsSound, Sound
  <2>2. j.todo \in Unpublished => job[w].todo \in Unpublished /\ j.todo # <<>>
    <3>1. <<>> \notin Unpublished
      BY DEF Unpublished
    <3>2. Tail(job[w].todo) \in Unpublished => job[w].todo \in Unpublished
      BY <2>1, RestTodo
    <3> HIDE DEF j
    <3> QED BY <1>1, <3>1, <3>2
  <2> QED BY <1>1, <2>2
<1>3. job' = [job EXCEPT ![w] = j]
  BY DEF Done
<1> HIDE DEF j
<1>4. w = "completions" /\ j.todo # <<>> => run[j.loop].state # "unused"
  BY <1>1 DEF BridgeIInv, Taken
<1> QED BY <1>1, <1>2, <1>3, <1>4, WorkStep

LEMMA LoadStep == ASSUME BridgeIInv, Load("watch") PROVE BridgeIInv'
<1> DEFINE old == job["watch"]
           j == [Rest("watch") EXCEPT !.copy = quest[old.quest]]
<1>1. /\ "watch" \in Workers /\ old.todo # <<>> /\ Head(old.todo) = "load"
      /\ old \in Job /\ Sound("watch", old)
  BY DEF Load, At, BridgeIInv, TypeOK, JobsSound, Workers
<1>2. old.todo \in {<<"load", "put", "publish", "map", "store", "load", "put">>, <<"load", "put">>}
  BY <1>1 DEF Sound, Todos, Unpublished, Published, Reconciling
<1>3. Tail(old.todo) # <<>>
      /\ Tail(old.todo) \in {<<"put", "publish", "map", "store", "load", "put">>, <<"put">>}
      /\ (Tail(old.todo) \in Unpublished => old.todo \in Unpublished)
  <2>1. CASE old.todo = <<"load", "put">>
    BY <2>1 DEF Unpublished
  <2>2. CASE old.todo = <<"load", "put", "publish", "map", "store", "load", "put">>
    BY <2>2 DEF Unpublished
  <2> QED BY <1>2, <2>1, <2>2
<1>4. /\ Rest("watch") \in Job /\ Rest("watch").todo = Tail(old.todo)
      /\ Rest("watch").quest = old.quest
  BY <1>1, <1>3, RestJob
<1>5. old.quest \in Quests /\ quest[old.quest] \in QuestRec
  <2>1. old.todo \notin {<<>>, <<"reconcile">>}
    BY <1>2
  <2> QED BY <1>1, <2>1 DEF Sound, BridgeIInv, TypeOK
<1>6. /\ j \in Job /\ j.todo = Tail(old.todo) /\ j.quest = old.quest
      /\ j.copy = quest[old.quest]
  BY <1>4, <1>5 DEF Job
<1>7. Sound("watch", j)
  <2>1. Tail(old.todo) \in Todos("watch")
    BY <1>1, RestTodo DEF Sound
  <2> HIDE DEF j
  <2> QED BY <1>5, <1>6, <2>1 DEF Sound
<1>8. /\ job' = [job EXCEPT !["watch"] = j] /\ AroundOK'
      /\ UNCHANGED <<quest, feed, starts, questCache, run>>
  BY AroundTypes DEF Load, store, memory, around, BridgeIInv, TypeOK
<1> HIDE DEF j, old
<1>9. j.todo \in Unpublished => old.todo \in Unpublished
  BY <1>3, <1>6
<1> QED BY <1>1, <1>6, <1>7, <1>8, <1>9, WorkStep DEF old

\* Storing and dropping a mapping, and freeing an agent.
LEMMA MappingStep ==
  ASSUME BridgeIInv, \/ StoreMapping \/ ForgetMapping
                     \/ \E w \in {"completions", "sweep"} : ReleaseAgent(w)
  PROVE  BridgeIInv'
<1> USE DEF Workers
<1>3. CASE StoreMapping
  <2>1. job["watch"].loop \in Loops \cup {None}
    BY DEF BridgeIInv, TypeOK, Job
  <2>2. /\ Done("watch") /\ job["watch"].todo # <<>> /\ Head(job["watch"].todo) # "load"
        /\ UNCHANGED <<quest, feed, starts, questCache, run>>
    BY <1>3 DEF StoreMapping, At, store, memory, around
  <2>3. AroundOK'
    BY <1>3, <2>1 DEF StoreMapping, store, memory, around, BridgeIInv, TypeOK, AroundOK
  <2> QED BY <2>2, <2>3, DoneStep
<1>4. CASE ForgetMapping
  <2>1. /\ Done("completions") /\ job["completions"].todo # <<>>
        /\ Head(job["completions"].todo) # "load"
        /\ UNCHANGED <<quest, feed, starts, questCache, run>>
    BY <1>4 DEF ForgetMapping, At, store, memory, around
  <2>2. AroundOK'
    BY <1>4 DEF ForgetMapping, store, memory, around, BridgeIInv, TypeOK, AroundOK
  <2> QED BY <2>1, <2>2, DoneStep
<1>5. ASSUME NEW w \in {"completions", "sweep"}, ReleaseAgent(w)  PROVE BridgeIInv'
  <2>1. /\ Done(w) /\ job[w].todo # <<>> /\ Head(job[w].todo) # "load"
        /\ UNCHANGED <<quest, feed, starts, questCache, run>>
    BY <1>5 DEF ReleaseAgent, At, store, memory, around
  <2>2. AroundOK'
    BY <1>5 DEF ReleaseAgent, store, memory, around, BridgeIInv, TypeOK, AroundOK
  <2> QED BY <2>1, <2>2, DoneStep
<1> QED BY <1>3, <1>4, <1>5

LEMMA AcknowledgeStep == ASSUME BridgeIInv, Acknowledge PROVE BridgeIInv'
<1> DEFINE l == job["completions"].loop
<1>1. /\ "completions" \in Workers /\ job["completions"].todo # <<>>
      /\ Head(job["completions"].todo) # "load" /\ Done("completions")
      /\ UNCHANGED <<quest, feed, starts, questCache>>
  BY DEF Acknowledge, At, store, memory, Workers
<1>2. l \in Loops /\ run \in [Loops -> Run]
  BY <1>1 DEF BridgeIInv, TypeOK, JobsSound, Sound
<1>3. run[l].state # "unused"
  BY <1>1 DEF BridgeIInv, Taken
<1>4. CASE run' = [run EXCEPT ![l].state = "acked"]
  <2> DEFINE r == [run[l] EXCEPT !.state = "acked"]
  <2>1. r \in Run /\ r.state = "acked" /\ r.quest = run[l].quest
    BY <1>2 DEF Run
  <2>2. run' = [run EXCEPT ![l] = r]
    BY <1>2, <1>4
  <2> HIDE DEF r, l
  <2>3. AroundOK'
    <3>1. run' \in [Loops -> Run] /\ mishaps' \in 0 .. MishapBound[hurried]
      BY <1>2, <2>1, <2>2, BridgeAssumption
         DEF Acknowledge, Mishap, BridgeIInv, TypeOK
    <3> QED BY <3>1 DEF Acknowledge, store, memory, BridgeIInv, TypeOK, AroundOK
  <2> QED BY <1>1, <1>2, <1>3, <2>1, <2>2, <2>3, DoneStep
<1>5. CASE run' = run
  <2>1. AroundOK'
    <3>1. mishaps' \in 0 .. MishapBound[hurried]
      BY BridgeAssumption DEF Acknowledge, Mishap, BridgeIInv, TypeOK
    <3> QED BY <1>2, <1>5, <3>1 DEF Acknowledge, store, memory, BridgeIInv, TypeOK, AroundOK
  <2> QED BY <1>1, <1>5, <2>1, DoneStep
<1> QED BY <1>4, <1>5 DEF Acknowledge

LEMMA TakeStep == ASSUME BridgeIInv, NEW l \in Loops, TakeResult(l) PROVE BridgeIInv'
<1> DEFINE q == run[l].quest
           m == FindMapping(q)
<1>1. run[l].state # "unused" /\ q \in Quests /\ run[l] \in Run
  BY DEF TakeResult, Outcomes, BridgeIInv, TypeOK, RunsSound
<1>2. m \in Loops \cup {None} /\ (m # None => run[m].agent \in Agents \cup {None})
  BY <1>1 DEF FindMapping, BridgeIInv, TypeOK, Run
<1>3. UNCHANGED <<quest, feed, starts, questCache>>
  BY DEF TakeResult, store, memory
<1>4. CASE m = None
  <2> DEFINE r == [run[l] EXCEPT !.state = "acked"]
  <2>1. r \in Run /\ r.state = "acked" /\ r.quest = run[l].quest
    BY <1>1 DEF Run
  <2>2. run' = [run EXCEPT ![l] = r] /\ job' = job
    BY <1>4 DEF TakeResult, BridgeIInv, TypeOK
  <2> HIDE DEF r, m, q
  <2>3. TypeOK'
    BY <2>1, <2>2 DEF TakeResult, store, memory, BridgeIInv, TypeOK
  <2>4. \A k \in Loops : run'[k].quest = run[k].quest
                         /\ (run'[k].state = "unused" <=> run[k].state = "unused")
    BY <1>1, <2>1, <2>2 DEF BridgeIInv, TypeOK
  <2>5. JobsSound' /\ Taken' /\ \A x \in Quests : Pending(x)' => Pending(x)
    <3>1. "completions" \in Workers
      BY DEF Workers
    <3> QED BY <2>2, <2>4, <3>1 DEF JobsSound, Taken, Pending, BridgeIInv, Sound
  <2> QED BY <1>3, <2>3, <2>4, <2>5, QuietStep
<1>5. CASE m # None
  <2> DEFINE j == [NoJob EXCEPT !.todo = <<"apply">>, !.quest = run[l].quest,
                                !.agent = run[m].agent, !.loop = l]
  <2>1. /\ j \in Job /\ j.todo = <<"apply">> /\ j.quest = q /\ j.loop = l
    <3>1. <<"apply">> \in Seq(Steps)
      BY DEF Steps
    <3> QED BY <1>1, <1>2, <1>5, <3>1, NoJobSound DEF Job, NoJob
  <2>2. job' = [job EXCEPT !["completions"] = j] /\ run' = run /\ AroundOK'
    BY <1>5, AroundTypes DEF TakeResult, store, memory, BridgeIInv, TypeOK
  <2> HIDE DEF j
  <2>3. "completions" \in Workers /\ Sound("completions", j)
    BY <1>1, <2>1 DEF Sound, Todos, Applying, Copying, Workers
  <2> QED BY <1>1, <1>3, <2>1, <2>2, <2>3, WorkStep
<1> QED BY <1>4, <1>5

\* What ApplyResult leaves to be done.
LEMMA ProceedStep ==
  ASSUME BridgeIInv, At("completions", "apply"), UNCHANGED <<store, memory, around>>,
         NEW todo \in {<<>>, <<"put">>, <<"free", "put">>, <<"put", "free">>, <<"put", "fail">>},
         NEW copy \in QuestRec \cup {None}, todo # <<>> => copy \in QuestRec,
         NEW holder \in Agents \cup {None}, Proceed(todo, copy, holder)
  PROVE  BridgeIInv'
<1> DEFINE old == job["completions"]
           left == todo \o CleanUp
           j == [old EXCEPT !.todo = left, !.copy = copy, !.agent = holder]
<1>1. /\ "completions" \in Workers /\ old \in Job /\ Sound("completions", old)
      /\ old.todo # <<>> /\ old.todo # <<"reconcile">>
  BY DEF At, BridgeIInv, TypeOK, JobsSound, Workers
<1>2. left \in Todos("completions") /\ left # <<>> /\ left \in Seq(Steps)
      /\ (left \in Copying => copy \in QuestRec)
  <2>1. CASE todo = <<>>
    <3>1. left = <<"forget", "unmap", "ack">>
      BY <2>1, ThenCleanUp
    <3> HIDE DEF left
    <3> QED BY <3>1 DEF Todos, Cleaning, Copying, Steps
  <2>2. CASE todo = <<"put">>
    <3>1. left = <<"put", "forget", "unmap", "ack">> /\ copy \in QuestRec
      BY <2>2, ThenCleanUp
    <3> HIDE DEF left
    <3> QED BY <3>1 DEF Todos, Applying, Steps
  <2>3. CASE todo = <<"free", "put">>
    <3>1. left = <<"free", "put", "forget", "unmap", "ack">> /\ copy \in QuestRec
      BY <2>3, ThenCleanUp
    <3> HIDE DEF left
    <3> QED BY <3>1 DEF Todos, Applying, Steps
  <2>4. CASE todo = <<"put", "free">>
    <3>1. left = <<"put", "free", "forget", "unmap", "ack">> /\ copy \in QuestRec
      BY <2>4, ThenCleanUp
    <3> HIDE DEF left
    <3> QED BY <3>1 DEF Todos, Applying, Steps
  <2>5. CASE todo = <<"put", "fail">>
    <3>1. left = <<"put", "fail", "forget", "unmap", "ack">> /\ copy \in QuestRec
      BY <2>5, ThenCleanUp
    <3> HIDE DEF left
    <3> QED BY <3>1 DEF Todos, Applying, Steps
  <2> QED BY <2>1, <2>2, <2>3, <2>4, <2>5
<1> HIDE DEF left
<1>3. /\ j \in Job /\ j.todo = left /\ j.quest = old.quest /\ j.loop = old.loop /\ j.copy = copy
  BY <1>1, <1>2 DEF Job
<1>4. /\ job' = [job EXCEPT !["completions"] = j] /\ AroundOK'
      /\ UNCHANGED <<quest, feed, starts, questCache, run>>
  BY AroundTypes DEF Proceed, left, store, memory, around, BridgeIInv, TypeOK
<1>5. run[old.loop].state # "unused"
  BY <1>1 DEF BridgeIInv, Taken
<1> HIDE DEF j, old
<1>6. Sound("completions", j)
  BY <1>1, <1>2, <1>3 DEF Sound
<1> QED BY <1>1, <1>3, <1>4, <1>5, <1>6, WorkStep

LEMMA ApplyStep == ASSUME BridgeIInv, ApplyResult PROVE BridgeIInv'
<1> DEFINE j == job["completions"]
           rec == quest[j.quest]
<1>1. /\ At("completions", "apply") /\ UNCHANGED <<store, memory, around>>
  BY DEF ApplyResult
<1>2. j.quest \in Quests /\ rec \in QuestRec /\ j.agent \in Agents \cup {None}
  <2>1. "completions" \in Workers /\ j \in Job /\ Sound("completions", j)
        /\ j.todo \notin {<<>>, <<"reconcile">>}
    BY <1>1 DEF At, BridgeIInv, TypeOK, JobsSound, Workers
  <2> QED BY <2>1 DEF Sound, BridgeIInv, TypeOK, Job
<1> HIDE DEF rec
<1>3. /\ \A s \in Statuses : [rec EXCEPT !.status = s] \in QuestRec
      /\ [rec EXCEPT !.dag = TRUE] \in QuestRec /\ Reposted(rec) \in QuestRec
  BY <1>2 DEF QuestRec, Reposted, Statuses
<1>4. \/ Proceed(<<>>, None, None)
      \/ \E s \in Statuses : Proceed(<<"put">>, [rec EXCEPT !.status = s], None)
      \/ Proceed(<<"free", "put">>, Reposted(rec), j.agent)
      \/ Proceed(<<"put">>, [rec EXCEPT !.dag = TRUE], None)
      \/ Proceed(<<"put", "free">>, [rec EXCEPT !.status = "failed"], j.agent)
      \/ Proceed(<<"put", "fail">>, rec, j.agent)
  BY DEF ApplyResult, rec, Statuses
<1> HIDE DEF j
<1>5. "failed" \in Statuses
  BY DEF Statuses
<1>6. CASE Proceed(<<>>, None, None)
  BY <1>1, <1>6, ProceedStep
<1>7. ASSUME NEW s \in Statuses, Proceed(<<"put">>, [rec EXCEPT !.status = s], None)
      PROVE  BridgeIInv'
  BY <1>1, <1>3, <1>7, ProceedStep
<1>8. CASE Proceed(<<"free", "put">>, Reposted(rec), j.agent)
  BY <1>1, <1>2, <1>3, <1>8, ProceedStep
<1>9. CASE Proceed(<<"put">>, [rec EXCEPT !.dag = TRUE], None)
  BY <1>1, <1>3, <1>9, ProceedStep
<1>10. CASE Proceed(<<"put", "free">>, [rec EXCEPT !.status = "failed"], j.agent)
  BY <1>1, <1>2, <1>3, <1>5, <1>10, ProceedStep
<1>11. CASE Proceed(<<"put", "fail">>, rec, j.agent)
  BY <1>1, <1>2, <1>3, <1>11, ProceedStep
<1> QED BY <1>4, <1>6, <1>7, <1>8, <1>9, <1>10, <1>11
LEMMA FailStep == ASSUME BridgeIInv, FailQuest PROVE BridgeIInv'
<1> DEFINE old == job["completions"]
           rec == quest[old.quest]
           back == IF rec.attempts < MaxAttempts[old.quest]
                   THEN Reposted(rec) ELSE [rec EXCEPT !.status = "failed"]
           free == [old EXCEPT !.todo = <<"free", "put", "forget", "unmap", "ack">>,
                               !.agent = rec.claimedBy, !.copy = back]
           lost == [old.copy EXCEPT !.status = "failed"]
           fail == [old EXCEPT !.todo = <<"put", "free", "forget", "unmap", "ack">>,
                               !.copy = lost]
<1>1. /\ "completions" \in Workers /\ old \in Job /\ Sound("completions", old)
      /\ old.todo # <<>> /\ Head(old.todo) = "fail"
  BY DEF FailQuest, At, BridgeIInv, TypeOK, JobsSound, Workers
<1>2. old.todo = <<"fail", "forget", "unmap", "ack">>
  BY <1>1, RestTodo DEF Sound
<1>3. old.quest \in Quests /\ old.loop \in Loops /\ old.copy \in QuestRec /\ rec \in QuestRec
  <2>1. old.todo \notin {<<>>, <<"reconcile">>} /\ old.todo \in Copying
    BY <1>2 DEF Copying
  <2> QED BY <1>1, <2>1 DEF Sound, BridgeIInv, TypeOK
<1>4. back \in QuestRec /\ lost \in QuestRec /\ rec.claimedBy \in Agents \cup {None}
  BY <1>3 DEF QuestRec, Reposted, Statuses
<1>5. Tail(old.todo) = <<"forget", "unmap", "ack">>
      /\ <<"free", "put">> \o Tail(old.todo) = <<"free", "put", "forget", "unmap", "ack">>
      /\ <<"put", "free">> \o Tail(old.todo) = <<"put", "free", "forget", "unmap", "ack">>
  BY <1>2, ThenCleanUp DEF CleanUp
<1>6. job' = [job EXCEPT !["completions"] = free] \/ job' = [job EXCEPT !["completions"] = fail]
  <2> DEFINE rest == [old EXCEPT !.todo = Tail(old.todo)]
  <2>1. rest.todo = Tail(old.todo) /\ rest.copy = old.copy
    BY <1>1 DEF Job
  <2>2. CASE rec.status \in {"in_progress", "in_review"}
    <3>1. job' = [job EXCEPT !["completions"] =
             [rest EXCEPT !.todo = <<"free", "put">> \o Tail(old.todo),
                          !.agent = rec.claimedBy, !.copy = back]]
      BY <2>1, <2>2 DEF FailQuest
    <3>2. [rest EXCEPT !.todo = <<"free", "put">> \o Tail(old.todo),
                       !.agent = rec.claimedBy, !.copy = back] = free
      <4> HIDE DEF back
      <4> QED BY <1>1, <1>5
    <3> QED BY <3>1, <3>2
  <2>3. CASE rec.status \notin {"in_progress", "in_review"}
    <3>1. job' = [job EXCEPT !["completions"] =
             [rest EXCEPT !.todo = <<"put", "free">> \o Tail(old.todo), !.copy = lost]]
      BY <2>1, <2>3 DEF FailQuest
    <3>2. [rest EXCEPT !.todo = <<"put", "free">> \o Tail(old.todo), !.copy = lost] = fail
      <4> HIDE DEF lost
      <4> QED BY <1>1, <1>5
    <3> QED BY <3>1, <3>2
  <2> QED BY <2>2, <2>3
<1>7. /\ <<"free", "put", "forget", "unmap", "ack">> \in Seq(Steps)
      /\ <<"put", "free", "forget", "unmap", "ack">> \in Seq(Steps)
  BY DEF Steps
<1> HIDE DEF back, lost
<1>8. /\ free \in Job /\ free.todo = <<"free", "put", "forget", "unmap", "ack">>
      /\ free.quest = old.quest /\ free.loop = old.loop /\ free.copy = back
  BY <1>1, <1>4, <1>7 DEF Job
<1>9. /\ fail \in Job /\ fail.todo = <<"put", "free", "forget", "unmap", "ack">>
      /\ fail.quest = old.quest /\ fail.loop = old.loop /\ fail.copy = lost
  BY <1>1, <1>4, <1>7 DEF Job
<1> HIDE DEF free, fail, rec
<1>10. Sound("completions", free) /\ Sound("completions", fail)
  BY <1>3, <1>4, <1>8, <1>9 DEF Sound, Todos, Applying
<1>11. AroundOK' /\ UNCHANGED <<quest, feed, starts, questCache, run>>
  BY AroundTypes DEF FailQuest, store, memory, around, BridgeIInv, TypeOK
<1>12. run[old.loop].state # "unused"
  BY <1>1 DEF BridgeIInv, Taken
<1> HIDE DEF old
<1> QED BY <1>1, <1>6, <1>8, <1>9, <1>10, <1>11, <1>12, WorkStep

LEMMA SweepersStep ==
  ASSUME BridgeIInv, (\E q \in Quests : TimeOut(q)) \/ Expire \/ \E q \in Quests : Answer(q)
  PROVE  BridgeIInv'
<1>1. ASSUME NEW q \in Quests, TimeOut(q)  PROVE BridgeIInv'
  <2> DEFINE j == [NoJob EXCEPT !.todo = <<"expire">>, !.quest = q]
  <2>1. j \in Job /\ j.todo = <<"expire">> /\ j.quest = q
    <3>1. <<"expire">> \in Seq(Steps)
      BY DEF Steps
    <3> QED BY <3>1, NoJobSound DEF Job, NoJob
  <2>2. job' = [job EXCEPT !["sweep"] = j] /\ UNCHANGED <<quest, feed, starts, questCache, run>>
    BY <1>1 DEF TimeOut, store, around
  <2>3. AroundOK'
    BY <1>1 DEF TimeOut, around, BridgeIInv, TypeOK, AroundOK
  <2> HIDE DEF j
  <2>4. "sweep" \in Workers /\ Sound("sweep", j)
    BY <2>1 DEF Sound, Todos, Copying, Workers
  <2> QED BY <2>1, <2>2, <2>3, <2>4, WorkStep
<1>2. CASE Expire
  <2> DEFINE old == job["sweep"]
             rec == quest[old.quest]
             j == [old EXCEPT !.todo = <<"free", "put">>, !.agent = rec.claimedBy,
                              !.copy = Reposted(rec)]
  <2>1. /\ "sweep" \in Workers /\ old \in Job /\ old.quest \in Quests /\ rec \in QuestRec
    <3>1. "sweep" \in Workers /\ old \in Job /\ Sound("sweep", old) /\ old.todo # <<>>
          /\ Head(old.todo) = "expire"
      BY <1>2 DEF Expire, At, BridgeIInv, TypeOK, JobsSound, Workers
    <3>2. old.todo = <<"expire">>
      BY <3>1, RestTodo DEF Sound
    <3> QED BY <3>1, <3>2 DEF Sound, BridgeIInv, TypeOK
  <2>2. Reposted(rec) \in QuestRec /\ rec.claimedBy \in Agents \cup {None}
    BY <2>1 DEF QuestRec, Reposted, Statuses
  <2>3. /\ j \in Job /\ j.todo = <<"free", "put">> /\ j.quest = old.quest
        /\ j.copy = Reposted(rec)
    <3>1. <<"free", "put">> \in Seq(Steps)
      BY DEF Steps
    <3> HIDE DEF rec
    <3> QED BY <2>1, <2>2, <3>1 DEF Job
  <2>4. job' = [job EXCEPT !["sweep"] = j] \/ job' = [job EXCEPT !["sweep"] = NoJob]
    BY <1>2 DEF Expire
  <2>5. AroundOK' /\ UNCHANGED <<quest, feed, starts, questCache, run>>
    BY <1>2, AroundTypes DEF Expire, store, memory, around, BridgeIInv, TypeOK
  <2> HIDE DEF j, rec
  <2>6. Sound("sweep", j)
    BY <2>1, <2>2, <2>3 DEF Sound, Todos
  <2> QED BY <2>1, <2>3, <2>4, <2>5, <2>6, NoJobSound, WorkStep
<1>3. ASSUME NEW q \in Quests, Answer(q)  PROVE BridgeIInv'
  <2>1. PICK rounds \in {quest[q].rounds, quest[q].rounds + 1} :
          job' = [job EXCEPT !["answer"] =
            [NoJob EXCEPT !.todo = <<"put">>, !.quest = q,
               !.copy = [quest[q] EXCEPT !.status = "in_progress", !.rounds = rounds]]]
    BY <1>3 DEF Answer
  <2> DEFINE copy == [quest[q] EXCEPT !.status = "in_progress", !.rounds = rounds]
             j == [NoJob EXCEPT !.todo = <<"put">>, !.quest = q, !.copy = copy]
  <2>2. copy \in QuestRec
    <3>1. quest[q] \in QuestRec /\ rounds \in Nat
      BY DEF BridgeIInv, TypeOK, QuestRec
    <3> QED BY <3>1 DEF QuestRec, Statuses
  <2>3. job' = [job EXCEPT !["answer"] = j]
    BY <2>1
  <2> HIDE DEF copy
  <2>4. j \in Job /\ j.todo = <<"put">> /\ j.quest = q /\ j.copy = copy
    <3>1. <<"put">> \in Seq(Steps)
      BY DEF Steps
    <3> QED BY <2>2, <3>1, NoJobSound DEF Job, NoJob
  <2> HIDE DEF j
  <2>5. AroundOK' /\ UNCHANGED <<quest, feed, starts, questCache, run>>
    BY <1>3, AroundTypes DEF Answer, store, memory, around, BridgeIInv, TypeOK
  <2>6. "answer" \in Workers /\ Sound("answer", j)
    BY <2>2, <2>4 DEF Sound, Todos, Workers
  <2> QED BY <2>3, <2>4, <2>5, <2>6, WorkStep
<1> QED BY <1>1, <1>2, <1>3

LEMMA ReconcileStep ==
  ASSUME BridgeIInv, NEW w \in {"watch", "resume"}, Reconcile(w)
  PROVE  BridgeIInv'
<1> DEFINE old == job[w]
<1>1. /\ w \in Workers /\ old \in Job /\ Sound(w, old) /\ old.todo # <<>>
      /\ Head(old.todo) \in {"reconcile", "recover"}
  BY DEF Reconcile, At, BridgeIInv, TypeOK, JobsSound, Workers
<1>2. CASE At(w, "recover")
  <2>1. Done(w) /\ Head(old.todo) # "load" /\ UNCHANGED <<quest, feed, starts, questCache, run>>
    BY <1>2 DEF Reconcile, At, store, around
  <2>2. AroundOK'
    <3>1. old.loop \in Loops \cup {None}
      BY <1>1 DEF Job
    <3>2. /\ activeLoops' = [activeLoops EXCEPT ![old.quest] = old.loop]
          /\ UNCHANGED <<escalatedAt, around>>
      BY <1>2 DEF Reconcile, At
    <3> QED BY <3>1, <3>2 DEF around, BridgeIInv, TypeOK, AroundOK
  <2> QED BY <1>1, <2>1, <2>2, DoneStep
<1>3. CASE At(w, "reconcile")
  <2>0. old.todo = <<"reconcile">>
    BY <1>1, <1>3, RestTodo DEF At, Sound
  <2>1. PICK q \in old.left :
          LET left == old.left \ {q}
              todo == IF left = {} THEN <<>> ELSE <<"reconcile">>
          IN  /\ escalatedAt' = IF questCache[q] = "escalated"
                                THEN escalatedAt \cup {q} ELSE escalatedAt
              /\ job' = [job EXCEPT ![w] =
                   IF questCache[q] = "in_progress" /\ questLoops[q] # None
                   THEN [NoJob EXCEPT !.todo = <<"recover">> \o todo, !.quest = q,
                                      !.loop = questLoops[q], !.left = left]
                   ELSE IF left = {} THEN NoJob ELSE [old EXCEPT !.left = left]]
    BY <1>3 DEF Reconcile, At
  <2>2. q \in Quests /\ old.left \ {q} \in SUBSET Quests /\ questLoops[q] \in Loops \cup {None}
    BY <1>1 DEF Job, BridgeIInv, TypeOK
  <2>3. AroundOK' /\ UNCHANGED <<quest, feed, starts, questCache, run>>
    <3>1. escalatedAt' \in SUBSET Quests
      BY <2>1, <2>2 DEF BridgeIInv, TypeOK
    <3>2. UNCHANGED <<store, questCache, activeLoops, around>>
      BY <1>3 DEF Reconcile, At
    <3> QED BY <3>1, <3>2 DEF store, around, BridgeIInv, TypeOK, AroundOK
  <2> DEFINE left == old.left \ {q}
             first == [NoJob EXCEPT !.todo = <<"recover">>, !.quest = q,
                                    !.loop = questLoops[q], !.left = left]
             more  == [NoJob EXCEPT !.todo = <<"recover", "reconcile">>, !.quest = q,
                                    !.loop = questLoops[q], !.left = left]
             next  == [old EXCEPT !.left = left]
  <2>4. \E j \in {first, more, next, NoJob} : job' = [job EXCEPT ![w] = j]
    <3>1. CASE left = {}
      BY <2>1, <3>1, ThenCleanUp
    <3>2. CASE left # {}
      BY <2>1, <3>2, ThenCleanUp
    <3> QED BY <3>1, <3>2
  <2>5. first \in Job /\ first.todo = <<"recover">> /\ first.quest = q
    <3>1. <<"recover">> \in Seq(Steps)
      BY DEF Steps
    <3> HIDE DEF left
    <3> QED BY <2>2, <3>1, NoJobSound DEF Job, NoJob, left
  <2>6. more \in Job /\ more.todo = <<"recover", "reconcile">> /\ more.quest = q
    <3>1. <<"recover", "reconcile">> \in Seq(Steps)
      BY DEF Steps
    <3> QED BY <2>2, <3>1, NoJobSound DEF Job, NoJob
  <2>7. next \in Job /\ next.todo = <<"reconcile">>
    BY <1>1, <2>0, <2>2 DEF Job
  <2> HIDE DEF first, more, next
  <2>8. Sound(w, first) /\ Sound(w, more) /\ Sound(w, next)
    BY <2>2, <2>5, <2>6, <2>7 DEF Sound, Todos, Reconciling, Copying
  <2>9. \A j \in {first, more, next, NoJob} : j.todo \notin Unpublished
    BY <2>5, <2>6, <2>7, NoJobSound DEF Unpublished
  <2> QED BY <1>1, <2>3, <2>4, <2>5, <2>6, <2>7, <2>8, <2>9, NoJobSound, WorkStep
<1> QED BY <1>2, <1>3 DEF Reconcile
-----------------------------------------------------------------------------
(* Puts.                                                                   *)

LEMMA PutCopyStep ==
  ASSUME BridgeIInv, NEW w \in Workers, PutCopy(w)
  PROVE  BridgeIInv'
<1> DEFINE old == job[w]
           j == Rest(w)
<1>1. /\ old \in Job /\ Sound(w, old) /\ old.todo # <<>> /\ Head(old.todo) = "put"
      /\ EmitEntityUpdate(old.quest, old.copy) /\ job' = [job EXCEPT ![w] = j]
      /\ UNCHANGED <<memory, around>>
  BY DEF PutCopy, At, Done, BridgeIInv, TypeOK, JobsSound
<1>2. old.todo \in Copying /\ old.todo # <<"reconcile">>
      /\ (Tail(old.todo) \in Unpublished => old.todo \in Unpublished)
  BY <1>1, RestTodo DEF Sound
<1>3. old.quest \in Quests /\ old.copy \in QuestRec
  BY <1>1, <1>2 DEF Sound
<1>4. /\ j \in Job /\ j.todo = Tail(old.todo) /\ Sound(w, j)
      /\ j.todo # <<>> => j.quest = old.quest /\ j.loop = old.loop
  BY <1>1, RestJob
<1> HIDE DEF j
<1>5. /\ job' \in [Workers -> Job] /\ JobsSound'
      /\ w # "watch" => job'["watch"] = job["watch"]
      /\ w = "watch" => job'["watch"] = j
  BY <1>1, <1>4, JobStep
<1>6. \A x \in Quests : Pending(x)' => Pending(x)
  <2>1. <<>> \notin Unpublished
    BY DEF Unpublished
  <2> QED BY <1>2, <1>4, <1>5, <2>1 DEF Pending
<1>7. Taken'
  <2>1. run' = run
    BY <1>1 DEF around
  <2>2. CASE w = "completions"
    <3>1. job'["completions"] = j
      BY <1>1, <2>2 DEF BridgeIInv, TypeOK
    <3>2. run[old.loop].state # "unused"
      BY <1>1, <2>2 DEF BridgeIInv, Taken
    <3> QED BY <1>4, <2>1, <3>1, <3>2 DEF Taken
  <2>3. CASE w # "completions"
    BY <1>1, <2>1, <2>3 DEF BridgeIInv, TypeOK, Taken, Workers
  <2> QED BY <2>2, <2>3
<1>8. agent' \in [Agents -> Quests \cup {None}]
  BY <1>1 DEF around, BridgeIInv, TypeOK
<1> HIDE DEF old
<1> QED BY <1>1, <1>3, <1>5, <1>6, <1>7, <1>8, EmitStep DEF around

\* Puts of agents, operators and judges: no worker's job is changed.
LEMMA OutsiderPut ==
  ASSUME BridgeIInv, NEW q \in Quests, NEW rec \in QuestRec, EmitEntityUpdate(q, rec),
         agent' \in [Agents -> Quests \cup {None}],
         UNCHANGED <<memory, questLoops, run, paused, job, hurried, mishaps>>
  PROVE  BridgeIInv'
<1>1. job' \in [Workers -> Job] /\ JobsSound' /\ Taken'
  BY DEF BridgeIInv, TypeOK, JobsSound, Taken
<1>2. \A x \in Quests : Pending(x)' => Pending(x)
  BY DEF Pending
<1> QED BY <1>1, <1>2, EmitStep

LEMMA OutsidersStep ==
  ASSUME BridgeIInv, NEW q \in Quests,
         EndAttempt(q) \/ Approve(q) \/ \E a \in Agents : Claim(q, a)
  PROVE  BridgeIInv'
<1> DEFINE rec == quest[q]
<1>1. rec \in QuestRec
  BY DEF BridgeIInv, TypeOK
<1>2. rec.attempts + 1 \in Nat /\ rec.attempts \in Nat /\ rec.claimedBy \in Agents \cup {None}
  BY <1>1 DEF QuestRec
<1> DEFINE more == rec.attempts + 1
           counted == [rec EXCEPT !.attempts = more]
<1> HIDE DEF rec
<1>3. ASSUME NEW a \in Agents, Claim(q, a)  PROVE BridgeIInv'
  <2> DEFINE new == [rec EXCEPT !.status = "in_progress", !.claimedBy = a, !.attempts = more]
  <2>1. EmitEntityUpdate(q, new)
    BY <1>3 DEF Claim, rec
  <2>2. agent' \in [Agents -> Quests \cup {None}]
        /\ UNCHANGED <<memory, questLoops, run, paused, job, hurried, mishaps>>
    BY <1>3 DEF Claim, BridgeIInv, TypeOK
  <2>3. new \in QuestRec
    <3> HIDE DEF more
    <3> QED BY <1>1, <1>2 DEF QuestRec, Statuses, more
  <2> HIDE DEF new
  <2> QED BY <2>1, <2>2, <2>3, OutsiderPut
<1>4. CASE Approve(q)
  <2> DEFINE new == [rec EXCEPT !.status = "completed"]
  <2>1. EmitEntityUpdate(q, new)
    BY <1>4 DEF Approve, rec
  <2>2. agent' \in [Agents -> Quests \cup {None}]
        /\ UNCHANGED <<memory, questLoops, run, paused, job, hurried, mishaps>>
    BY <1>4 DEF Approve, around, BridgeIInv, TypeOK
  <2>3. new \in QuestRec
    BY <1>1 DEF QuestRec, Statuses
  <2> HIDE DEF new
  <2> QED BY <2>1, <2>2, <2>3, OutsiderPut
<1>5. CASE EndAttempt(q)
  <2>1. counted \in QuestRec
    <3> HIDE DEF more
    <3> QED BY <1>1, <1>2 DEF QuestRec, more
  <2> HIDE DEF counted
  <2>2. \E new \in {[counted EXCEPT !.status = "failed"], Reposted(counted), Reposted(rec),
                    [rec EXCEPT !.status = "failed"]} : EmitEntityUpdate(q, new)
    BY <1>5 DEF EndAttempt, counted, rec
  <2>3. \A r \in QuestRec : [r EXCEPT !.status = "failed"] \in QuestRec /\ Reposted(r) \in QuestRec
    BY DEF QuestRec, Reposted, Statuses
  <2>4. agent' \in [Agents -> Quests \cup {None}]
        /\ UNCHANGED <<memory, questLoops, run, paused, job, hurried, mishaps>>
    BY <1>5 DEF EndAttempt, BridgeIInv, TypeOK
  <2> QED BY <1>1, <2>1, <2>2, <2>3, <2>4, OutsiderPut
<1> QED BY <1>3, <1>4, <1>5

-----------------------------------------------------------------------------
(* Dispatches.                                                             *)

\* An entry is taken: the rise it may be becomes a dispatch, or is forgotten.
LEMMA LiveUpdateStep == ASSUME BridgeIInv, HandleLiveUpdate PROVE BridgeIInv'
<1> DEFINE e == Head(feed)
           j == [NoJob EXCEPT !.todo = Dispatch, !.quest = e.key, !.agent = e.holder]
           risen == e.status = "in_progress" /\ questCache[e.key] # "in_progress"
                    /\ ~paused /\ e.holder # None
<1>1. /\ feed \in Seq(Entry) /\ feed # <<>> /\ feed' = Tail(feed)
      /\ questCache' = [questCache EXCEPT ![e.key] = e.status]
      /\ job["watch"].todo = <<>>
      /\ job' = IF risen THEN [job EXCEPT !["watch"] = j] ELSE job
      /\ UNCHANGED <<quest, starts, activeLoops, around>>
  BY DEF HandleLiveUpdate, BridgeIInv, TypeOK, Entry
<1>2. e \in Entry /\ feed' \in Seq(Entry)
  BY <1>1, HeadTailProperties
<1>3. e.key \in Quests /\ e.status \in Statuses /\ e.holder \in Agents \cup {None}
  BY <1>2 DEF Entry
<1>4. j \in Job /\ j.todo = Dispatch /\ j.quest = e.key /\ Sound("watch", j)
  <2>1. Dispatch \in Seq(Steps) /\ Dispatch \in Unpublished /\ Dispatch \notin Copying
    BY DEF Dispatch, Steps, Unpublished, Copying
  <2>2. j \in Job /\ j.todo = Dispatch /\ j.quest = e.key
    <3> HIDE DEF e
    <3> QED BY <1>3, <2>1, NoJobSound DEF Job, NoJob
  <2> HIDE DEF j
  <2> QED BY <1>3, <2>1, <2>2 DEF Sound, Todos
<1>5. TypeOK'
  <2>1. escalatedAt' \in SUBSET Quests
    BY <1>3 DEF HandleLiveUpdate, BridgeIInv, TypeOK
  <2>2. questCache' \in [Quests -> Statuses]
    BY <1>1, <1>3 DEF BridgeIInv, TypeOK
  <2>3. job' \in [Workers -> Job]
    <3> HIDE DEF j
    <3> QED BY <1>1, <1>4 DEF BridgeIInv, TypeOK
  <2> QED BY <1>1, <1>2, <2>1, <2>2, <2>3 DEF around, Entry, BridgeIInv, TypeOK
<1>6. JobsSound' /\ Taken' /\ RunsSound'
  <2>1. run' = run /\ "watch" \in Workers /\ job \in [Workers -> Job]
    BY <1>1 DEF around, Workers, BridgeIInv, TypeOK
  <2>2. \A w \in Workers : Sound(w, job'[w])
    <3> HIDE DEF j
    <3> QED BY <1>1, <1>4, <2>1 DEF JobsSound, BridgeIInv
  <2>3. job'["completions"] = job["completions"]
    <3> HIDE DEF j
    <3> QED BY <1>1, <2>1
  <2> QED BY <2>1, <2>2, <2>3 DEF JobsSound, Sound, Taken, RunsSound, BridgeIInv
<1>7. ASSUME NEW q \in Quests
      PROVE Was(q, Len(feed) + 1, quest[q].status)' /\ StartsCover(q)'
  <2> HIDE DEF e, j
  <2> SUFFICES ASSUME NEW n, n = Len(feed)
               PROVE Was(q, Len(feed) + 1, quest[q].status)' /\ StartsCover(q)'
    OBVIOUS
  <2>1. /\ n \in Nat /\ Len(feed') + 1 = n
        /\ \A s : Was(q, n + 1, s) => Was(q, n, s)'
        /\ Rises(q)' = {i \in 1 .. n - 1 : i + 1 \in Rises(q)}
        /\ 1 \in Rises(q) <=> /\ e.key = q /\ e.status = "in_progress"
                              /\ questCache[q] # "in_progress"
    <3>1. questCache \in [Quests -> Statuses] /\ e = Head(feed)
      BY DEF BridgeIInv, TypeOK, e
    <3> QED BY <1>1, <3>1, QueueMoves
  <2>2. Was(q, Len(feed) + 1, quest[q].status)'
    <3>1. \A s : s = quest'[q].status /\ Was(q, n, s)' => Was(q, Len(feed) + 1, quest[q].status)'
      BY <2>1 DEF Was
    <3> DEFINE s == quest[q].status
    <3>2. Was(q, n + 1, s) /\ quest'[q].status = s
      BY <1>1 DEF BridgeIInv, SeenLast
    <3> HIDE DEF s
    <3>3. \A v : Was(q, n + 1, v) => Was(q, n, v)'
      BY <2>1
    <3> QED BY <3>1, <3>2, <3>3
  <2>3. /\ IsFiniteSet(Rises(q)) /\ IsFiniteSet(Rises(q)')
        /\ Cardinality(Rises(q)') = Cardinality(Rises(q) \ {1})
    <3>1. Rises(q) \in SUBSET (1 .. n)
      BY DEF Rises
    <3> QED BY <2>1, <3>1, Shift
  <2>4. /\ Cardinality(Rises(q)) \in Nat /\ Cardinality(Rises(q)') \in Nat
        /\ Cardinality(Rises(q)') =
             IF 1 \in Rises(q) THEN Cardinality(Rises(q)) - 1 ELSE Cardinality(Rises(q))
    <3>1. Cardinality(Rises(q) \ {1}) =
            IF 1 \in Rises(q) THEN Cardinality(Rises(q)) - 1 ELSE Cardinality(Rises(q))
      BY <2>3, FS_RemoveElement
    <3> QED BY <2>3, <3>1, FS_CardinalityType
  <2>5. Started(q)' = Started(q) /\ starts'[q] = starts[q]
    BY <1>1 DEF Started, around
  <2>6. ~Pending(q) /\ (Pending(q)' => 1 \in Rises(q))
    <3>1. ~Pending(q)
      BY <1>1 DEF Pending, Unpublished
    <3>2. CASE risen
      <4>1. job'["watch"] = j
        BY <1>1, <3>2 DEF BridgeIInv, TypeOK, Workers
      <4>2. Pending(q)' => e.key = q
        BY <1>4, <4>1 DEF Pending
      <4> QED BY <2>1, <3>1, <3>2, <4>2
    <3>3. CASE ~risen
      BY <1>1, <3>1, <3>3 DEF Pending
    <3> QED BY <3>2, <3>3
  <2>7. /\ IsFiniteSet(Started(q)) /\ Cardinality(Started(q)) \in Nat /\ starts[q] \in Nat
        /\ Cardinality(Started(q)) + Cardinality(Rises(q)) <= starts[q]
    <3>1. IsFiniteSet(Started(q)) /\ starts[q] \in Nat
      BY DEF BridgeIInv, TypeOK, AllCovered, StartsCover
    <3>2. Cardinality(Started(q)) \in Nat
      BY <3>1, FS_CardinalityType
    <3>3. Cardinality(Started(q)) + Cardinality(Rises(q)) + (IF Pending(q) THEN 1 ELSE 0)
            <= starts[q]
      BY DEF BridgeIInv, AllCovered, StartsCover
    <3> QED BY <2>4, <2>6, <3>1, <3>2, <3>3
  <2>8. Cardinality(Started(q)) + Cardinality(Rises(q)') + (IF Pending(q)' THEN 1 ELSE 0)
          <= starts[q]
    BY <2>4, <2>6, <2>7
  <2> QED BY <2>2, <2>5, <2>7, <2>8 DEF StartsCover
<1> QED BY <1>5, <1>6, <1>7 DEF BridgeIInv, SeenLast, AllCovered

\* A loop is started: one dispatch less.
LEMMA PublishStep == ASSUME BridgeIInv, Publish PROVE BridgeIInv'
<1> DEFINE old == job["watch"]
           unused == {k \in Loops : run[k].state = "unused"}
<1>1. /\ "watch" \in Workers /\ old \in Job /\ Sound("watch", old) /\ old.todo # <<>>
      /\ Head(old.todo) = "publish" /\ UNCHANGED <<store, memory>>
  BY DEF Publish, At, BridgeIInv, TypeOK, JobsSound, Workers
<1>2. /\ old.todo \in Unpublished /\ Tail(old.todo) \notin Unpublished
      /\ Tail(old.todo) # <<>> /\ Tail(old.todo) \notin Copying
      /\ old.todo \notin {<<>>, <<"reconcile">>} /\ Tail(old.todo) \in Todos("watch")
  <2>1. <<"reconcile">> \notin Unpublished
    BY DEF Unpublished
  <2> QED BY <1>1, <2>1, RestTodo DEF Sound
<1>3. old.quest \in Quests /\ old.agent \in Agents \cup {None}
  BY <1>1, <1>2 DEF Sound, Job
<1>4. CASE job' = [job EXCEPT !["watch"] = NoJob] /\ run' = run
  <2>1. AroundOK'
    BY <1>1, <1>4 DEF Publish, store, memory, BridgeIInv, TypeOK, AroundOK
  <2>2. UNCHANGED <<quest, feed, starts, questCache>>
    BY <1>1 DEF store, memory
  <2>3. NoJob.todo \notin Unpublished
    BY NoJobSound DEF Unpublished
  <2> QED BY <1>1, <1>4, <2>1, <2>2, <2>3, NoJobSound, WorkStep
<1>5. ASSUME NEW l \in Loops, run[l].state = "unused",
             run' = [run EXCEPT ![l] = [state |-> "running", quest |-> old.quest,
                                        agent |-> old.agent]],
             job' = [job EXCEPT !["watch"] = [Rest("watch") EXCEPT !.loop = l, !.copy = None]]
      PROVE  BridgeIInv'
  <2> DEFINE new == [state |-> "running", quest |-> old.quest, agent |-> old.agent]
             k == [Rest("watch") EXCEPT !.loop = l, !.copy = None]
  <2>1. new \in Run /\ new.state = "running" /\ new.quest = old.quest
    BY <1>3 DEF Run
  <2>2. k \in Job /\ k.todo = Tail(old.todo) /\ k.quest = old.quest
    <3>1. Rest("watch") \in Job /\ Rest("watch").todo = Tail(old.todo)
          /\ Rest("watch").quest = old.quest
      BY <1>1, <1>2, RestJob
    <3> QED BY <3>1 DEF Job
  <2>3. run' = [run EXCEPT ![l] = new] /\ job' = [job EXCEPT !["watch"] = k]
    BY <1>5
  <2> HIDE DEF new, k
  <2>4. Sound("watch", k)
    BY <1>2, <1>3, <2>2 DEF Sound
  <2>5. job' \in [Workers -> Job] /\ JobsSound' /\ job'["watch"] = k
    BY <1>1, <2>2, <2>3, <2>4, JobStep
  <2>6. TypeOK'
    BY <1>1, <2>1, <2>3, <2>5 DEF Publish, store, memory, BridgeIInv, TypeOK
  <2>7. Taken' /\ RunsSound'
    <3>1. job'["completions"] = job["completions"]
      BY <2>3 DEF BridgeIInv, TypeOK, Workers
    <3>2. RunsSound'
      BY <1>3, <2>1, <2>3 DEF RunsSound, BridgeIInv, TypeOK
    <3>3. Taken'
      BY <2>1, <2>3, <3>1 DEF Taken, BridgeIInv, TypeOK
    <3> QED BY <3>2, <3>3
  <2>8. SeenLast'
    BY <1>1 DEF SeenLast, Was, BridgeIInv, store, memory
  <2>9. ASSUME NEW q \in Quests PROVE StartsCover(q)'
    <3>1. Rises(q)' = Rises(q) /\ starts'[q] = starts[q]
      BY <1>1 DEF Rises, Rise, Was, store, memory
    <3>2. ~Pending(q)'
      BY <1>2, <2>2, <2>5 DEF Pending
    <3>3. /\ IsFiniteSet(Started(q)) /\ Cardinality(Started(q)) \in Nat /\ starts[q] \in Nat
          /\ Cardinality(Started(q)) + Cardinality(Rises(q)) + (IF Pending(q) THEN 1 ELSE 0)
               <= starts[q]
      BY FS_CardinalityType DEF BridgeIInv, TypeOK, AllCovered, StartsCover
    <3>4. Cardinality(Rises(q)) \in Nat
      BY RisesFinite DEF BridgeIInv, TypeOK
    <3>5. CASE q = old.quest
      <4>1. Pending(q)
        BY <1>2, <3>5 DEF Pending
      <4>2. Started(q)' = Started(q) \cup {l}
        BY <2>1, <2>3, <3>5 DEF Started, BridgeIInv, TypeOK
      <4>3. IsFiniteSet(Started(q)') /\ Cardinality(Started(q)') <= Cardinality(Started(q)) + 1
            /\ Cardinality(Started(q)') \in Nat
        <5>1. /\ IsFiniteSet(Started(q) \cup {l})
              /\ Cardinality(Started(q) \cup {l}) =
                   IF l \in Started(q) THEN Cardinality(Started(q)) ELSE Cardinality(Started(q)) + 1
          BY <3>3, FS_AddElement
        <5> QED BY <3>3, <4>2, <5>1
      <4>4. Cardinality(Started(q)') + Cardinality(Rises(q)) + 0 <= starts[q]
        BY <3>3, <3>4, <4>1, <4>3
      <4> QED BY <3>1, <3>2, <4>3, <4>4 DEF StartsCover
    <3>6. CASE q # old.quest
      <4>1. Started(q)' = Started(q)
        BY <1>5, <2>1, <2>3, <3>6 DEF Started, BridgeIInv, TypeOK
      <4>2. Cardinality(Started(q)) + Cardinality(Rises(q)) + 0 <= starts[q]
        BY <3>3, <3>4
      <4> QED BY <3>1, <3>2, <3>3, <4>1, <4>2 DEF StartsCover
    <3> QED BY <3>5, <3>6
  <2> QED BY <2>6, <2>5, <2>7, <2>8, <2>9 DEF BridgeIInv, AllCovered
<1> HIDE DEF old
<1>6. \/ job' = [job EXCEPT !["watch"] = NoJob] /\ run' = run
      \/ \E l \in Loops :
           /\ run[l].state = "unused"
           /\ run' = [run EXCEPT ![l] = [state |-> "running", quest |-> old.quest,
                                         agent |-> old.agent]]
           /\ job' = [job EXCEPT !["watch"] = [Rest("watch") EXCEPT !.loop = l, !.copy = None]]
  <2>1. (CHOOSE k \in unused : TRUE) \in unused \/ unused = {}
    OBVIOUS
  <2> QED BY <2>1 DEF Publish, old
<1> QED BY <1>4, <1>5, <1>6

-----------------------------------------------------------------------------
(* Restarts, pauses, and the end of loops.                                 *)

LEMMA ReconciliationSound ==
  /\ Reconciliation \in Job /\ Reconciliation.todo = <<"reconcile">>
  /\ \A w \in {"watch", "resume"} : Sound(w, Reconciliation)
<1>1. Reconciliation \in Job /\ Reconciliation.todo = <<"reconcile">>
  <2>1. <<"reconcile">> \in Seq(Steps)
    BY DEF Steps
  <2> QED BY <2>1, NoJobSound DEF Reconciliation, NoJob, Job
<1> QED BY <1>1 DEF Sound, Todos, Reconciling, Copying

\* The watch is told of nothing that happened before.
LEMMA RestartStep == ASSUME BridgeIInv, Restart PROVE BridgeIInv'
<1> USE DEF Workers
<1>1. TypeOK'
  <2>1. job' \in [Workers -> Job]
    BY NoJobSound, ReconciliationSound DEF Restart
  <2>2. questCache' \in [Quests -> Statuses]
    BY DEF Restart, BridgeIInv, TypeOK, QuestRec
  <2>3. mishaps' \in 0 .. MishapBound[hurried]
    BY BridgeAssumption DEF Restart, Mishap, BridgeIInv, TypeOK
  <2>4. feed' \in Seq([key : Quests, status : Statuses, holder : Agents \cup {None}])
    BY EmptySeq DEF Restart
  <2> QED BY <2>1, <2>2, <2>3, <2>4 DEF Restart, BridgeIInv, TypeOK
<1>2. JobsSound' /\ Taken' /\ RunsSound'
  <2>1. \A w \in Workers : Sound(w, job'[w])
    BY NoJobSound, ReconciliationSound DEF Restart
  <2>2. job'["completions"].todo = <<>>
    BY NoJobSound DEF Restart
  <2> QED BY <2>1, <2>2 DEF JobsSound, Sound, Taken, RunsSound, Restart, BridgeIInv
<1>3. Len(feed') = 0
  BY DEF Restart
<1>4. SeenLast'
  <2>1. \A q \in Quests : questCache'[q] = quest'[q].status /\ (Len(feed') + 1) - 1 = 0
    BY <1>3 DEF Restart
  <2> QED BY <2>1 DEF SeenLast, Was
<1>5. ASSUME NEW q \in Quests PROVE StartsCover(q)'
  <2>1. Started(q)' = Started(q) /\ starts'[q] = starts[q]
    BY DEF Started, Restart
  <2>2. Rises(q)' = {}
    BY <1>3 DEF Rises
  <2>3. ~Pending(q)'
    <3>1. job'["watch"].todo = <<"reconcile">>
      BY ReconciliationSound DEF Restart
    <3> QED BY <3>1 DEF Pending, Unpublished
  <2>4. /\ IsFiniteSet(Started(q)) /\ Cardinality(Started(q)) \in Nat /\ starts[q] \in Nat
        /\ Cardinality(Started(q)) + Cardinality(Rises(q)) + (IF Pending(q) THEN 1 ELSE 0)
             <= starts[q]
    BY FS_CardinalityType DEF BridgeIInv, TypeOK, AllCovered, StartsCover
  <2>5. Cardinality(Rises(q)) \in Nat
    BY RisesFinite DEF BridgeIInv, TypeOK
  <2>6. Cardinality({}) = 0
    BY FS_EmptySet
  <2>7. Cardinality(Started(q)) + 0 + 0 <= starts[q]
    BY <2>4, <2>5
  <2> QED BY <2>1, <2>2, <2>3, <2>4, <2>6, <2>7 DEF StartsCover
<1> QED BY <1>1, <1>2, <1>4, <1>5 DEF BridgeIInv, AllCovered

LEMMA ResumeAndPauseStep ==
  ASSUME BridgeIInv, Resume \/ Pause \/ \E q \in Quests : ReleaseHolder(q)
  PROVE  BridgeIInv'
<1>1. CASE Resume
  <2>1. /\ job' = [job EXCEPT !["resume"] = Reconciliation] /\ "resume" \in Workers
        /\ UNCHANGED <<quest, feed, starts, questCache, run>>
    BY <1>1 DEF Resume, store, memory, Workers
  <2>2. AroundOK'
    BY <1>1 DEF Resume, store, memory, BridgeIInv, TypeOK, AroundOK
  <2> QED BY <2>1, <2>2, ReconciliationSound, WorkStep
<1>2. ASSUME UNCHANGED <<store, memory, job, run>>, AroundOK'  PROVE BridgeIInv'
  <2>1. UNCHANGED <<quest, feed, starts, questCache, job, run>>
    BY <1>2 DEF store, memory
  <2>2. TypeOK'
    BY <1>2, <2>1 DEF AroundOK, BridgeIInv, TypeOK
  <2>3. JobsSound' /\ Taken' /\ \A q \in Quests : Pending(q)' => Pending(q)
    BY <2>1 DEF JobsSound, Sound, Taken, Pending, BridgeIInv
  <2> QED BY <2>1, <2>2, <2>3, QuietStep
<1>3. CASE Pause
  <2>1. mishaps' \in 0 .. MishapBound[hurried]
    BY <1>3, BridgeAssumption DEF Pause, Mishap, BridgeIInv, TypeOK
  <2> QED BY <1>2, <1>3, <2>1 DEF Pause, memory, BridgeIInv, TypeOK, AroundOK
<1>4. ASSUME NEW q \in Quests, ReleaseHolder(q)  PROVE BridgeIInv'
  BY <1>2, <1>4 DEF ReleaseHolder, memory, BridgeIInv, TypeOK, AroundOK
<1> QED BY <1>1, <1>3, <1>4

LEMMA EndLoopStep == ASSUME BridgeIInv, NEW l \in Loops, EndLoop(l) PROVE BridgeIInv'
<1>1. PICK o \in Outcomes : run' = [run EXCEPT ![l].state = o]
  BY DEF EndLoop
<1> DEFINE r == [run[l] EXCEPT !.state = o]
<1>2. r \in Run /\ r.state = o /\ r.quest = run[l].quest
  BY DEF Run, BridgeIInv, TypeOK
<1>3. run' = [run EXCEPT ![l] = r]
  BY <1>1 DEF BridgeIInv, TypeOK
<1> HIDE DEF r
<1>4. UNCHANGED <<quest, feed, starts, questCache, job>>
  BY DEF EndLoop, store, memory
<1>5. TypeOK'
  BY <1>2, <1>3 DEF EndLoop, store, memory, BridgeIInv, TypeOK
<1>6. \A k \in Loops : /\ run'[k].quest = run[k].quest
                       /\ run'[k].state = "unused" <=> run[k].state = "unused"
  BY <1>2, <1>3 DEF EndLoop, Outcomes, BridgeIInv, TypeOK
<1>7. JobsSound' /\ Taken' /\ \A q \in Quests : Pending(q)' => Pending(q)
  <2>1. "completions" \in Workers
    BY DEF Workers
  <2> QED BY <1>4, <1>6, <2>1 DEF JobsSound, Sound, Taken, Pending, BridgeIInv
<1> QED BY <1>4, <1>5, <1>6, <1>7, QuietStep

-----------------------------------------------------------------------------
(* The theorems.                                                           *)

LEMMA BridgeInit == ASSUME Init PROVE BridgeIInv
<1>1. TypeOK
  <2>1. Fresh \in QuestRec
    BY DEF Fresh, QuestRec, Statuses
  <2>2. feed \in Seq([key : Quests, status : Statuses, holder : Agents \cup {None}])
    BY EmptySeq DEF Init
  <2>3. mishaps \in 0 .. MishapBound[hurried] /\ {paused, hurried} \subseteq BOOLEAN
    <3>1. hurried \in BOOLEAN /\ paused = FALSE /\ mishaps = 0
      BY BridgeAssumption DEF Init
    <3>2. MishapBound[hurried] \in Nat
      BY <3>1, BridgeAssumption
    <3>3. 0 \in 0 .. MishapBound[hurried]
      BY <3>2
    <3> QED BY <3>1, <3>3
  <2> QED BY <2>1, <2>2, <2>3, NoJobSound DEF Init, TypeOK, Run, Statuses
<1>2. JobsSound /\ RunsSound /\ Taken
  <2>1. "completions" \in Workers
    BY DEF Workers
  <2> QED BY <2>1, NoJobSound DEF Init, JobsSound, RunsSound, Taken
<1>3. SeenLast
  BY DEF Init, SeenLast, Was, Fresh
<1>4. ASSUME NEW q \in Quests PROVE StartsCover(q)
  <2>1. Started(q) = {} /\ Rises(q) = {} /\ starts[q] = 0
    BY DEF Init, Started, Rises
  <2>2. ~Pending(q)
    <3>1. NoJob.todo = <<>> /\ <<>> \notin Unpublished
      BY DEF NoJob, Unpublished
    <3>2. job["watch"] = NoJob
      BY DEF Init, Workers
    <3> QED BY <3>1, <3>2 DEF Pending
  <2> QED BY <2>1, <2>2, FS_EmptySet DEF StartsCover
<1> QED BY <1>1, <1>2, <1>3, <1>4 DEF BridgeIInv, AllCovered

LEMMA BridgeInduction == ASSUME BridgeIInv, [Next]_vars PROVE BridgeIInv'
<1>1. CASE UNCHANGED vars
  <2>1. UNCHANGED <<quest, feed, starts, questCache, job, run>>
    BY <1>1 DEF vars, store, memory, around
  <2>2. TypeOK'
    BY <1>1 DEF vars, store, memory, around, BridgeIInv, TypeOK
  <2>3. JobsSound' /\ Taken' /\ \A q \in Quests : Pending(q)' => Pending(q)
    BY <2>1 DEF JobsSound, Sound, Taken, Pending, BridgeIInv
  <2> QED BY <2>1, <2>2, <2>3, QuietStep
<1>2. CASE WatchStep
  BY <1>2, LiveUpdateStep, PublishStep, MappingStep, LoadStep, PutCopyStep, ReconcileStep
     DEF WatchStep, Workers
<1>3. CASE CompletionStep
  BY <1>3, TakeStep, ApplyStep, FailStep, MappingStep, AcknowledgeStep, PutCopyStep
     DEF CompletionStep, Workers
<1>4. CASE SweepStep \/ AnswerStep
  BY <1>4, SweepersStep, PutCopyStep, MappingStep DEF SweepStep, AnswerStep, Workers
<1>5. CASE ResumeStep \/ Pause \/ Restart
  BY <1>5, ResumeAndPauseStep, ReconcileStep, RestartStep DEF ResumeStep
<1>6. ASSUME NEW q \in Quests, \/ Answer(q) \/ EndAttempt(q) \/ Approve(q) \/ ReleaseHolder(q)
                               \/ \E a \in Agents : Claim(q, a)
      PROVE  BridgeIInv'
  BY <1>6, SweepersStep, OutsidersStep, ResumeAndPauseStep
<1>7. ASSUME NEW l \in Loops, EndLoop(l)  PROVE BridgeIInv'
  BY <1>7, EndLoopStep
<1> QED BY <1>1, <1>2, <1>3, <1>4, <1>5, <1>6, <1>7 DEF Next

\* The entities, the mappings and the jobs of the workers keep their shapes; no worker puts a
\* copy it has not read, or applies a result to a quest it does not have.
THEOREM BridgeTypeCorrect == Spec => []TypeOK
<1>1. BridgeIInv => TypeOK
  BY DEF BridgeIInv
<1> QED BY <1>1, BridgeInit, BridgeInduction, PTL DEF Spec

\* At most one loop is started for each time a quest enters in_progress, however far the watch
\* lags and whatever is put late, redelivered, paused or restarted.
THEOREM NeverSpuriouslyDispatched == Spec => []NoSpuriousDispatch
<1>1. ASSUME BridgeIInv, NEW q \in Quests
      PROVE  Cardinality({l \in Loops : run[l].state # "unused" /\ run[l].quest = q}) <= starts[q]
  <2>1. /\ Cardinality(Started(q)) + Cardinality(Rises(q)) + (IF Pending(q) THEN 1 ELSE 0)
             <= starts[q]
        /\ Cardinality(Started(q)) \in Nat /\ starts[q] \in Nat
    BY <1>1, FS_CardinalityType DEF BridgeIInv, TypeOK, AllCovered, StartsCover
  <2>2. Cardinality(Rises(q)) \in Nat
    BY <1>1, RisesFinite DEF BridgeIInv, TypeOK
  <2>3. Cardinality(Started(q)) <= starts[q]
    BY <2>1, <2>2
  <2> QED BY <2>3 DEF Started
<1>2. BridgeIInv => NoSpuriousDispatch
  BY <1>1 DEF NoSpuriousDispatch
<1> QED BY <1>2, BridgeInit, BridgeInduction, PTL DEF Spec
=============================================================================
