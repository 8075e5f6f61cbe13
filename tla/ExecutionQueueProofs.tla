------------------------ MODULE ExecutionQueueProofs ------------------------
(***************************************************************************)
(* CExecutionQueue, for every set of tasks, tags and executors and every   *)
(* length of the queue: a tag is queued once, a replacement gives up its   *)
(* place, and exec(execAll) leaves nothing that was pending at its entry.  *)
(***************************************************************************)
EXTENDS ExecutionQueue, Integers, SequenceTheorems, TLAPS

Entry == [task : Task, due : SUBSET Executor]

TypeOK ==
  /\ queue \in Seq(Entry)
  /\ left \in [Executor -> Nat]
  /\ pc \in [Executor -> {"idle", "first", "all", "run"}]
  /\ running \in [Executor -> Task \cup {NoTask}]

\* The entries a drain is to take are within its count of the front, so that it
\* has come to them before the count is used up.
MarksInReach == \A e \in Executor : \A n \in DOMAIN queue : e \in queue[n].due =>
  pc[e] \in {"all", "run"} /\ n <= left[e]

ExecutionInv == TypeOK /\ OnePerTag /\ OldestFirst /\ MarksInReach

-----------------------------------------------------------------------------
(* What happens to the queue.                                              *)

\* q is the queue without its k-th entry.
Without(k, q) ==
  /\ k \in 1 .. Len(queue) /\ Len(q) = Len(queue) - 1
  /\ \A n \in 1 .. Len(q) : q[n] = queue[IF n < k THEN n ELSE n + 1]

LEMMA TagsAgree ==
  /\ \A t, u : SameTag(t, u) => SameTag(u, t)
  /\ \A t, u, v : SameTag(t, u) /\ SameTag(t, v) => SameTag(u, v)
BY DEF SameTag

\* As a tag is queued once, the first task of the same tag is the only one.
LEMMA Removes ==
  ASSUME NEW t \in Task, queue \in Seq(Entry), OnePerTag
  PROVE  \E q \in Seq(Entry) :
           /\ Replaced(t) = Append(q, Fresh(t))
           /\ \/ q = queue /\ \A n \in 1 .. Len(queue) : ~SameTag(t, queue[n].task)
              \/ \E k \in 1 .. Len(queue) : SameTag(t, queue[k].task) /\ Without(k, q)
<1> DEFINE Matches == {n \in 1 .. Len(queue) : SameTag(t, queue[n].task)}
<1>1. Replaced(t) = Append(IF \E n \in 1 .. Len(queue) : SameTag(t, queue[n].task)
                           THEN RemoveAt(queue, IF Matches # {} THEN Min(Matches) ELSE 0)
                           ELSE queue, Fresh(t))
  BY DEF Replaced, RemoveFirstMatch, SelectInSeq
<1>2. CASE Matches = {}
  <2>1. Replaced(t) = Append(queue, Fresh(t))
    BY <1>1, <1>2
  <2>2. QED BY <1>2, <2>1
<1>3. ASSUME NEW k \in Matches
      PROVE  \E q \in Seq(Entry) : Replaced(t) = Append(q, Fresh(t)) /\ Without(k, q)
  <2> DEFINE a == SubSeq(queue, 1, k - 1)
             b == SubSeq(queue, k + 1, Len(queue))
             q == a \o b
  <2>1. Matches = {k}
    BY TagsAgree DEF OnePerTag
  <2>2. k <= k
    OBVIOUS
  <2>3. Min({k}) = k
    BY <2>2 DEF Min
  <2>4. Replaced(t) = Append(q, Fresh(t))
    BY <1>1, <2>1, <2>3 DEF RemoveAt
  <2>5. /\ Len(queue) \in Nat /\ k \in 1 .. Len(queue)
        /\ \A n \in 1 .. Len(queue) : queue[n] \in Entry
    BY LenProperties
  <2>6. /\ a \in Seq(Entry) /\ Len(a) = k - 1 /\ \A n \in 1 .. k - 1 : a[n] = queue[n]
        /\ b \in Seq(Entry) /\ Len(b) = Len(queue) - k
        /\ \A n \in 1 .. Len(queue) - k : b[n] = queue[k + n]
    <3>1. k - 1 \in Int /\ k + 1 \in Int /\ Len(queue) \in Int /\ 1 \in Int
      BY <2>5
    <3>2. /\ \A n \in 1 .. k - 1 : queue[n] \in Entry
          /\ \A n \in k + 1 .. Len(queue) : queue[n] \in Entry
      BY <2>5
    <3>3. /\ a \in Seq(Entry) /\ Len(a) = IF 1 <= k - 1 THEN k - 1 - 1 + 1 ELSE 0
          /\ \A n \in 1 .. k - 1 - 1 + 1 : a[n] = queue[1 + n - 1]
      BY <3>1, <3>2, SubSeqProperties
    <3>4. /\ b \in Seq(Entry)
          /\ Len(b) = IF k + 1 <= Len(queue) THEN Len(queue) - (k + 1) + 1 ELSE 0
          /\ \A n \in 1 .. Len(queue) - (k + 1) + 1 : b[n] = queue[k + 1 + n - 1]
      BY <3>1, <3>2, SubSeqProperties
    <3> HIDE DEF a, b
    <3>5. QED BY <2>5, <3>3, <3>4
  <2>7. /\ q \in Seq(Entry) /\ Len(q) = Len(a) + Len(b)
        /\ \A n \in 1 .. Len(a) + Len(b) : q[n] = IF n <= Len(a) THEN a[n] ELSE b[n - Len(a)]
    BY <2>6, ConcatProperties
  <2> HIDE DEF a, b, q
  <2>8. Without(k, q)
    <3>1. Len(q) = Len(queue) - 1
      BY <2>5, <2>6, <2>7
    <3>2. ASSUME NEW n \in 1 .. Len(queue) - 1, n < k PROVE q[n] = queue[n]
      <4>1. n <= k - 1 /\ n \in 1 .. k - 1 /\ n \in 1 .. (k - 1) + (Len(queue) - k)
        BY <2>5, <3>2
      <4>2. QED BY <2>6, <2>7, <4>1
    <3>3. ASSUME NEW n \in 1 .. Len(queue) - 1, ~(n < k) PROVE q[n] = queue[n + 1]
      <4>1. ~(n <= k - 1) /\ n - (k - 1) \in 1 .. Len(queue) - k /\ k + (n - (k - 1)) = n + 1
        BY <2>5, <3>3
      <4>2. n \in 1 .. (k - 1) + (Len(queue) - k)
        BY <2>5, <3>3
      <4>3. q[n] = b[n - (k - 1)] /\ b[n - (k - 1)] = queue[k + (n - (k - 1))]
        BY <2>6, <2>7, <4>1, <4>2
      <4>4. QED BY <4>1, <4>3
    <3>4. QED BY <2>5, <3>1, <3>2, <3>3 DEF Without
  <2>9. QED BY <2>4, <2>7, <2>8
<1>4. QED BY <1>2, <1>3

\* The queue that enqueue() leaves: the others keep their order, the new task is last.
Enqueued(t, m) ==
  /\ m \in 0 .. Len(queue) /\ Len(queue') = m + 1 /\ queue'[m + 1] = Fresh(t)
  /\ \/ /\ m = Len(queue) /\ \A n \in 1 .. m : queue'[n] = queue[n]
        /\ \A n \in 1 .. m : ~SameTag(t, queue[n].task)
     \/ \E k \in 1 .. Len(queue) :
          /\ m = Len(queue) - 1 /\ SameTag(t, queue[k].task)
          /\ \A n \in 1 .. m : queue'[n] = queue[IF n < k THEN n ELSE n + 1]

LEMMA Enqueues ==
  ASSUME NEW t \in Task, TypeOK, OnePerTag, Enqueue(t)
  PROVE  queue' \in Seq(Entry) /\ \E m \in Nat : Enqueued(t, m)
<1>1. queue \in Seq(Entry) /\ Fresh(t) \in Entry
  BY DEF TypeOK, Fresh, Entry
<1>2. PICK q \in Seq(Entry) :
        /\ queue' = Append(q, Fresh(t))
        /\ \/ q = queue /\ \A n \in 1 .. Len(queue) : ~SameTag(t, queue[n].task)
           \/ \E k \in 1 .. Len(queue) : SameTag(t, queue[k].task) /\ Without(k, q)
  BY <1>1, Removes DEF Enqueue
<1>3. /\ queue' \in Seq(Entry) /\ Len(queue') = Len(q) + 1
      /\ \A n \in 1 .. Len(q) : queue'[n] = q[n]
      /\ queue'[Len(q) + 1] = Fresh(t)
  BY <1>1, <1>2, AppendProperties
<1>4. Len(q) \in Nat /\ Len(queue) \in Nat
  BY <1>1, LenProperties
<1>5. Enqueued(t, Len(q))
  <2>1. CASE q = queue /\ \A n \in 1 .. Len(queue) : ~SameTag(t, queue[n].task)
    BY <1>3, <1>4, <2>1 DEF Enqueued
  <2>2. ASSUME NEW k \in 1 .. Len(queue), SameTag(t, queue[k].task), Without(k, q)
        PROVE  Enqueued(t, Len(q))
    BY <1>3, <1>4, <2>2 DEF Enqueued, Without
  <2>3. QED BY <1>2, <2>1, <2>2
<1>6. QED BY <1>3, <1>4, <1>5

\* The other steps leave the queue's tasks in their order and give no mark to a task
\* queued later; an exec(execAll) that begins marks all.
LEMMA QueueLens ==
  ASSUME TypeOK
  PROVE  Len(queue) \in Nat /\ DOMAIN queue = 1 .. Len(queue)
         /\ \A n \in 1 .. Len(queue) : queue[n] \in Entry
BY LenProperties DEF TypeOK

LEMMA Pops ==
  ASSUME TypeOK, queue # <<>>
  PROVE  /\ Tail(queue) \in Seq(Entry) /\ Len(queue) > 0 /\ Len(Tail(queue)) = Len(queue) - 1
         /\ Head(queue) \in Entry /\ Head(queue) = queue[1]
         /\ \A n \in 1 .. Len(queue) - 1 : Tail(queue)[n] = queue[n + 1]
<1>1. queue \in Seq(Entry)
  BY DEF TypeOK
<1>2. QED BY <1>1, HeadTailProperties, EmptySeq

LEMMA Marks ==
  ASSUME TypeOK, NEW e \in Executor
  PROVE  /\ Marked(e) \in Seq(Entry) /\ Len(Marked(e)) = Len(queue)
         /\ \A n \in 1 .. Len(queue) : /\ Marked(e)[n].task = queue[n].task
                                       /\ Marked(e)[n].due = queue[n].due \cup {e}
<1>1. DOMAIN queue = 1 .. Len(queue) /\ Len(queue) \in Nat
      /\ \A n \in 1 .. Len(queue) : queue[n] \in Entry
  BY QueueLens
<1>2. \A n \in 1 .. Len(queue) : /\ Marked(e)[n] \in Entry
                                 /\ Marked(e)[n].task = queue[n].task
                                 /\ Marked(e)[n].due = queue[n].due \cup {e}
  BY <1>1 DEF Marked, Entry
<1>3. Marked(e) \in [1 .. Len(queue) -> Entry]
  BY <1>1, <1>2 DEF Marked
<1>4. QED BY <1>1, <1>2, <1>3

-----------------------------------------------------------------------------
(* The steps.                                                              *)

LEMMA ExecutionInit == Init => ExecutionInv
<1> SUFFICES ASSUME Init PROVE ExecutionInv  OBVIOUS
<1>1. queue \in Seq(Entry) /\ DOMAIN queue = {}
  BY EmptySeq DEF Init
<1>2. QED BY <1>1 DEF Init, ExecutionInv, TypeOK, OnePerTag, OldestFirst, MarksInReach

\* What a pop takes is the front, so of what is left everything moves up by one.
LEMMA PopStep ==
  ASSUME ExecutionInv, NEW e \in Executor, Pop(e)
  PROVE  ExecutionInv'
<1> USE DEF ExecutionInv
<1>1. /\ queue' \in Seq(Entry) /\ Len(queue') = Len(queue) - 1 /\ Len(queue) > 0
      /\ \A n \in 1 .. Len(queue) - 1 : queue'[n] = queue[n + 1]
      /\ DOMAIN queue' = 1 .. Len(queue) - 1
      /\ Head(queue).task \in Task
  <2>1. queue # <<>> /\ queue' = Tail(queue)
    BY DEF Pop, More
  <2>2. QED BY <2>1, Pops, LenProperties DEF Entry
<1>2. Len(queue) \in Nat /\ DOMAIN queue = 1 .. Len(queue)
  BY QueueLens
<1>3. /\ left[e] > 0 /\ left' = [left EXCEPT ![e] = left[e] - 1] /\ left[e] \in Nat
      /\ pc' = [pc EXCEPT ![e] = "run"] /\ pc[e] \in {"first", "all"}
      /\ running' = [running EXCEPT ![e] = Head(queue).task]
  <2>1. left[e] > 0 /\ left[e] \in Nat
    BY DEF Pop, More, TypeOK
  <2>2. (IF left[e] = 0 THEN 0 ELSE left[e] - 1) = left[e] - 1
    BY <2>1
  <2>3. QED BY <2>1, <2>2 DEF Pop
<1>4. TypeOK'
  BY <1>1, <1>3 DEF TypeOK
<1>5. OnePerTag'
  <2>1. ASSUME NEW n \in 1 .. Len(queue) - 1, NEW k \in 1 .. Len(queue) - 1,
               SameTag(queue'[n].task, queue'[k].task)
        PROVE  n = k
    <3>1. n + 1 \in DOMAIN queue /\ k + 1 \in DOMAIN queue
      BY <1>2
    <3>2. SameTag(queue[n + 1].task, queue[k + 1].task)
      BY <1>1, <2>1
    <3>3. n + 1 = k + 1
      BY <3>1, <3>2 DEF OnePerTag
    <3>4. QED BY <3>3
  <2>2. \A n, k \in DOMAIN queue' : SameTag(queue'[n].task, queue'[k].task) => n = k
    BY <1>1, <2>1
  <2>3. QED BY <2>2 DEF OnePerTag, SameTag
<1>6. OldestFirst'
  <2> SUFFICES ASSUME NEW n \in 1 .. Len(queue) - 1, NEW k \in 1 .. Len(queue) - 1, n < k
               PROVE  queue[k + 1].due \subseteq queue[n + 1].due
    BY <1>1 DEF OldestFirst
  <2>1. n + 1 \in DOMAIN queue /\ k + 1 \in DOMAIN queue /\ n + 1 < k + 1
    BY <1>2
  <2>2. QED BY <2>1 DEF OldestFirst
<1>7. MarksInReach'
  <2> SUFFICES ASSUME NEW x \in Executor, NEW n \in 1 .. Len(queue) - 1, x \in queue[n + 1].due
               PROVE  pc'[x] \in {"all", "run"} /\ n <= left'[x]
    BY <1>1 DEF MarksInReach
  <2>1. pc[x] \in {"all", "run"} /\ n + 1 <= left[x] /\ left[x] \in Nat
    BY <1>2 DEF MarksInReach, TypeOK
  <2>2. CASE x = e
    BY <1>3, <2>1, <2>2 DEF TypeOK
  <2>3. CASE x # e
    BY <1>3, <2>1, <2>3 DEF TypeOK
  <2>4. QED BY <2>2, <2>3
<1>8. QED BY <1>4, <1>5, <1>6, <1>7

\* An exec(execAll) that begins marks all there is, and has it in reach.
LEMMA ExecAllStep ==
  ASSUME ExecutionInv, NEW e \in Executor, ExecAll(e)
  PROVE  ExecutionInv'
<1> USE DEF ExecutionInv
<1>1. /\ queue' \in Seq(Entry) /\ DOMAIN queue' = 1 .. Len(queue)
      /\ \A n \in 1 .. Len(queue) : /\ queue'[n].task = queue[n].task
                                    /\ queue'[n].due = queue[n].due \cup {e}
  <2>1. queue' = Marked(e)
    BY DEF ExecAll
  <2>2. QED BY <2>1, Marks, LenProperties
<1>2. Len(queue) \in Nat /\ DOMAIN queue = 1 .. Len(queue)
  BY QueueLens
<1>3. /\ pc[e] = "idle" /\ pc' = [pc EXCEPT ![e] = "all"]
      /\ left' = [left EXCEPT ![e] = Len(queue)] /\ UNCHANGED running
  BY DEF ExecAll
<1>4. TypeOK'
  BY <1>1, <1>2, <1>3 DEF TypeOK
<1>5. OnePerTag'
  BY <1>1, <1>2 DEF OnePerTag, SameTag
<1>6. OldestFirst'
  BY <1>1, <1>2 DEF OldestFirst
<1>7. MarksInReach'
  BY <1>1, <1>2, <1>3 DEF MarksInReach, TypeOK
<1>8. QED BY <1>4, <1>5, <1>6, <1>7

\* A replaced task frees its place: what was behind it moves up, the new task comes
\* last, without a mark.
LEMMA EnqueueStep ==
  ASSUME ExecutionInv, NEW t \in Task, Enqueue(t)
  PROVE  ExecutionInv'
<1> USE DEF ExecutionInv
<1>1. PICK m \in Nat : Enqueued(t, m)
  BY Enqueues
<1>2. queue' \in Seq(Entry) /\ DOMAIN queue' = 1 .. m + 1 /\ queue'[m + 1] = Fresh(t)
  BY <1>1, Enqueues, LenProperties DEF Enqueued
<1>3. Len(queue) \in Nat /\ DOMAIN queue = 1 .. Len(queue)
  BY QueueLens
<1>4. UNCHANGED <<left, pc, running>>
  BY DEF Enqueue
<1>5. PICK old \in [1 .. m -> 1 .. Len(queue)] :
        /\ \A n \in 1 .. m : queue'[n] = queue[old[n]] /\ n <= old[n]
                             /\ ~SameTag(t, queue[old[n]].task)
        /\ \A n, k \in 1 .. m : n < k => old[n] < old[k]
  <2>1. CASE /\ m = Len(queue) /\ \A n \in 1 .. m : queue'[n] = queue[n]
             /\ \A n \in 1 .. m : ~SameTag(t, queue[n].task)
    <3> DEFINE f == [n \in 1 .. m |-> n]
    <3>1. f \in [1 .. m -> 1 .. Len(queue)]
      BY <2>1
    <3>2. \A n \in 1 .. m : f[n] = n /\ n <= n
      OBVIOUS
    <3> HIDE DEF f
    <3>3. QED BY <2>1, <3>1, <3>2
  <2>2. ASSUME NEW k \in 1 .. Len(queue), m = Len(queue) - 1, SameTag(t, queue[k].task),
               \A n \in 1 .. m : queue'[n] = queue[IF n < k THEN n ELSE n + 1]
        PROVE  \E f \in [1 .. m -> 1 .. Len(queue)] :
                 /\ \A n \in 1 .. m : queue'[n] = queue[f[n]] /\ n <= f[n]
                                      /\ ~SameTag(t, queue[f[n]].task)
                 /\ \A n, j \in 1 .. m : n < j => f[n] < f[j]
    <3> DEFINE f == [n \in 1 .. m |-> IF n < k THEN n ELSE n + 1]
    <3>1. f \in [1 .. m -> 1 .. Len(queue)]
      BY <1>3, <2>2
    <3>2. \A n \in 1 .. m : f[n] # k
      BY <2>2
    <3>3. \A j \in 1 .. Len(queue) : j # k => ~SameTag(t, queue[j].task)
      BY <1>3, <2>2, TagsAgree DEF OnePerTag
    <3>4. \A n \in 1 .. m : queue'[n] = queue[f[n]] /\ n <= f[n]
      BY <2>2
    <3>5. \A n, j \in 1 .. m : n < j => f[n] < f[j]
      BY <2>2
    <3>6. \A n \in 1 .. m : ~SameTag(t, queue[f[n]].task)
      BY <3>1, <3>2, <3>3
    <3> HIDE DEF f
    <3>7. QED BY <3>1, <3>4, <3>5, <3>6
  <2>3. QED BY <1>1, <2>1, <2>2 DEF Enqueued
<1>6. TypeOK'
  BY <1>2, <1>4 DEF TypeOK
<1>7. OnePerTag'
  <2>1. \A n, k \in 1 .. m : SameTag(queue'[n].task, queue'[k].task) => n = k
    <3>1. ASSUME NEW n \in 1 .. m, NEW k \in 1 .. m, SameTag(queue'[n].task, queue'[k].task)
          PROVE  n = k
      <4>1. old[n] = old[k]
        BY <1>3, <1>5, <3>1 DEF OnePerTag
      <4>2. old[n] \in Int /\ ~(old[n] < old[n])
        BY <1>5
      <4>3. ~(n < k) /\ ~(k < n)
        BY <1>5, <4>1, <4>2
      <4>4. QED BY <4>3
    <3>2. QED BY <3>1
  <2>2. \A n \in 1 .. m : /\ ~SameTag(Fresh(t).task, queue'[n].task)
                          /\ ~SameTag(queue'[n].task, Fresh(t).task)
    BY <1>5, TagsAgree DEF Fresh
  <2>3. QED BY <1>2, <2>1, <2>2 DEF OnePerTag, SameTag
<1>8. OldestFirst'
  <2>1. \A n, k \in 1 .. m : n < k => queue'[k].due \subseteq queue'[n].due
    BY <1>3, <1>5 DEF OldestFirst
  <2>2. queue'[m + 1].due = {}
    BY <1>2 DEF Fresh
  <2>3. QED BY <1>2, <2>1, <2>2 DEF OldestFirst
<1>9. MarksInReach'
  <2>1. ASSUME NEW x \in Executor, NEW n \in 1 .. m, x \in queue'[n].due
        PROVE  pc[x] \in {"all", "run"} /\ n <= left[x]
    <3>1. x \in queue[old[n]].due /\ old[n] \in 1 .. Len(queue) /\ n <= old[n]
      BY <1>5, <2>1
    <3>2. pc[x] \in {"all", "run"} /\ old[n] <= left[x] /\ left[x] \in Nat
      BY <1>3, <3>1 DEF MarksInReach, TypeOK
    <3>3. QED BY <3>1, <3>2
  <2>2. queue'[m + 1].due = {}
    BY <1>2 DEF Fresh
  <2>3. QED BY <1>2, <1>4, <2>1, <2>2 DEF MarksInReach
<1>10. QED BY <1>6, <1>7, <1>8, <1>9

\* No drain returns before what it is to take is gone.
LEMMA NoneMarked ==
  ASSUME ExecutionInv, NEW e \in Executor, pc[e] \in {"first", "all"}, ~More(e)
  PROVE  \A n \in DOMAIN queue : e \notin queue[n].due
<1>1. CASE queue = <<>>
  BY <1>1, EmptySeq
<1>2. CASE left[e] = 0
  <2>1. \A n \in DOMAIN queue : ~(n <= left[e])
    BY <1>2, QueueLens DEF ExecutionInv
  <2>2. QED BY <2>1 DEF ExecutionInv, MarksInReach
<1>3. QED BY <1>1, <1>2 DEF More, ExecutionInv, TypeOK

LEMMA ExecutionStep == ExecutionInv /\ [Next]_vars => ExecutionInv'
<1> SUFFICES ASSUME ExecutionInv, [Next]_vars PROVE ExecutionInv'  OBVIOUS
<1>1. CASE UNCHANGED vars
  BY <1>1 DEF vars, ExecutionInv, TypeOK, OnePerTag, OldestFirst, MarksInReach, SameTag
<1>2. CASE Clear
  <2>1. queue' \in Seq(Entry) /\ DOMAIN queue' = {} /\ UNCHANGED <<left, pc, running>>
    BY <1>2, EmptySeq DEF Clear
  <2>2. QED BY <2>1 DEF ExecutionInv, TypeOK, OnePerTag, OldestFirst, MarksInReach
<1>3. ASSUME NEW e \in Executor, ExecFirst(e) PROVE ExecutionInv'
  <2>1. /\ pc[e] = "idle" /\ pc' = [pc EXCEPT ![e] = "first"]
        /\ left' = [left EXCEPT ![e] = 1] /\ UNCHANGED <<queue, running>>
    BY <1>3 DEF ExecFirst
  <2>2. TypeOK' /\ OnePerTag' /\ OldestFirst'
    BY <2>1 DEF ExecutionInv, TypeOK, OnePerTag, OldestFirst, SameTag
  <2>3. MarksInReach'
    BY <2>1 DEF ExecutionInv, TypeOK, MarksInReach
  <2>4. QED BY <2>2, <2>3 DEF ExecutionInv
<1>4. ASSUME NEW e \in Executor, TaskEnds(e) PROVE ExecutionInv'
  <2>1. /\ pc[e] = "run" /\ pc' = [pc EXCEPT ![e] = "all"]
        /\ running' = [running EXCEPT ![e] = NoTask] /\ UNCHANGED <<queue, left>>
    BY <1>4 DEF TaskEnds
  <2>2. TypeOK' /\ OnePerTag' /\ OldestFirst'
    BY <2>1 DEF ExecutionInv, TypeOK, OnePerTag, OldestFirst, SameTag
  <2>3. MarksInReach'
    BY <2>1 DEF ExecutionInv, TypeOK, MarksInReach
  <2>4. QED BY <2>2, <2>3 DEF ExecutionInv
<1>5. ASSUME NEW e \in Executor, ExecReturn(e) PROVE ExecutionInv'
  <2>1. /\ pc[e] \in {"first", "all"} /\ ~More(e)
        /\ pc' = [pc EXCEPT ![e] = "idle"] /\ left' = [left EXCEPT ![e] = 0]
        /\ UNCHANGED <<queue, running>>
    BY <1>5 DEF ExecReturn
  <2>2. TypeOK' /\ OnePerTag' /\ OldestFirst'
    BY <2>1 DEF ExecutionInv, TypeOK, OnePerTag, OldestFirst, SameTag
  <2>3. MarksInReach'
    BY <2>1, NoneMarked DEF ExecutionInv, TypeOK, MarksInReach
  <2>4. QED BY <2>2, <2>3 DEF ExecutionInv
<1>6. QED BY <1>1, <1>2, <1>3, <1>4, <1>5, PopStep, ExecAllStep, EnqueueStep
          DEF Next, ExecStep

-----------------------------------------------------------------------------
LEMMA ExecutionInvariant == Spec => []ExecutionInv
<1>1. QED BY ExecutionInit, ExecutionStep, PTL DEF Spec

\* However enqueue(), clear() and the pops of several exec() calls interleave, a tag
\* has one task in the queue at most.
THEOREM TagsAreQueuedOnce == Spec => []OnePerTag
<1>1. QED BY ExecutionInvariant, PTL DEF ExecutionInv

\* What was pending at the entry of an exec(execAll) is ahead of what is newer.
THEOREM OldestStayFirst == Spec => []OldestFirst
<1>1. QED BY ExecutionInvariant, PTL DEF ExecutionInv

\* An exec(execAll) that returns has left nothing that was pending at its entry, be it
\* that it took it, that another exec() did, or that it was replaced or cleared.
THEOREM EntryIsTaken == Spec => EntryTaken
<1>1. ASSUME ExecutionInv, [Next]_vars, NEW e \in Executor, pc[e] # "idle", pc'[e] = "idle"
      PROVE  \A n \in DOMAIN queue' : e \notin queue'[n].due
  <2>1. ExecReturn(e)
    <3>1. \A x \in Executor : x # e /\ (ExecFirst(x) \/ ExecAll(x) \/ ExecStep(x)) => pc'[e] = pc[e]
      BY <1>1 DEF ExecFirst, ExecAll, ExecStep, Pop, TaskEnds, ExecReturn, ExecutionInv, TypeOK
    <3>2. ~(ExecFirst(e) \/ ExecAll(e) \/ Pop(e) \/ TaskEnds(e))
      BY <1>1 DEF ExecFirst, ExecAll, Pop, TaskEnds, ExecutionInv, TypeOK
    <3>3. ~(\E t \in Task : Enqueue(t)) /\ ~Clear /\ ~UNCHANGED vars
      BY <1>1 DEF Enqueue, Clear, vars
    <3>4. QED BY <1>1, <3>1, <3>2, <3>3 DEF Next, ExecStep
  <2>2. UNCHANGED queue
    BY <2>1 DEF ExecReturn
  <2>3. \A n \in DOMAIN queue : e \notin queue[n].due
    BY <1>1, <2>1, NoneMarked DEF ExecReturn
  <2>4. QED BY <2>2, <2>3
<1>2. ExecutionInv /\ [Next]_vars =>
        [\A e \in Executor : pc[e] # "idle" /\ pc'[e] = "idle" =>
           \A n \in DOMAIN queue' : e \notin queue'[n].due]_vars
  BY <1>1
<1>3. QED BY <1>2, ExecutionInvariant, PTL DEF Spec, EntryTaken
=============================================================================
