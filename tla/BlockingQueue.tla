---------------------------- MODULE BlockingQueue ----------------------------
(***************************************************************************)
(* CConsumerBlockingQueue (threading/cconsumerblockingqueue.h).  A call    *)
(* that holds the mutex throughout is one step; a wait is one step up to   *)
(* its blocking and one from the mutex reacquired; a push to a full queue  *)
(* looks again each time it has yielded.  Only the wait predicate reads    *)
(* something the mutex does not guard, so evaluating it takes two steps.   *)
(*                                                                         *)
(* One condition variable serves pop() and waitForItem() alike, and a      *)
(* notify_one spent on the latter takes no item away.  usage says which of *)
(* the two the users of this queue block in.                               *)
(***************************************************************************)
EXTENDS Naturals, Sequences, FiniteSets

CONSTANTS
  Producer, Consumer,
  MaxSize,       \* _maxSize
  MaxPushes,     \* bound: the items each producer pushes
  Usages         \* "pop", "wait" (without predicate), "predicate"

QueueAssumption ==
  /\ MaxSize \in Nat \ {0} /\ MaxPushes \in Nat
  /\ Producer \cap Consumer = {} /\ IsFiniteSet(Consumer)
  /\ Usages \subseteq {"pop", "wait", "predicate"}

VARIABLES
  queue,
  pc,        \* of each thread's call in progress
  pushed,    \* the items each producer has pushed: <<p, 1>> .. <<p, pushed[p]>>
  holder,    \* the consumer holding the mutex between two steps, or none: {}
  inTime,    \* the consumer's last wait did not end by its timeout
  flag,      \* what the extraWakeCondition of waitForItem reads
  stopper,   \* the thread that sets the flag, then calls wakeAllThreads()
  usage

vars == <<queue, pc, pushed, holder, inTime, flag, stopper, usage>>

Init ==
  /\ queue = <<>> /\ pc = [t \in Producer \cup Consumer |-> "idle"]
  /\ pushed = [p \in Producer |-> 0] /\ holder = {}
  /\ inTime = [c \in Consumer |-> TRUE]
  /\ flag = FALSE /\ stopper = "idle" /\ usage \in Usages

Unlocked == holder = {}
Blocked == {c \in Consumer : pc[c] = "blocked"}
Woken == {c \in Consumer : pc[c] = "woken"}

-----------------------------------------------------------------------------
Full == Len(queue) >= MaxSize

Emplaced(p, q, wake) ==
  /\ pushed' = [pushed EXCEPT ![p] = @ + 1] /\ queue' = q
  /\ IF Blocked = {} \/ ~wake THEN pc' = [pc EXCEPT ![p] = "idle"]
     ELSE \E c \in Blocked : pc' = [pc EXCEPT ![p] = "idle", ![c] = "woken"]
  /\ UNCHANGED <<holder, inTime, flag, stopper, usage>>

\* Mutant: only the first item into an empty queue notifies.
EmplaceQuiet(p) == Emplaced(p, Append(queue, <<p, pushed[p] + 1>>), queue = <<>>)

\* emplace_back and notify_one, which wakes any one blocked thread.
Emplace(p) == Emplaced(p, Append(queue, <<p, pushed[p] + 1>>), TRUE)

\* push(), and try_push() that finds room.
Push(p) ==
  /\ pc[p] = "idle" /\ Unlocked /\ pushed[p] < MaxPushes /\ ~Full
  /\ Emplace(p)

PushFull(p) ==
  /\ pc[p] = "idle" /\ Unlocked /\ pushed[p] < MaxPushes /\ Full
  /\ pc' = [pc EXCEPT ![p] = "spin"]
  /\ UNCHANGED <<queue, pushed, holder, inTime, flag, stopper, usage>>

PushAgain(p) == pc[p] = "spin" /\ Unlocked /\ ~Full /\ Emplace(p)

-----------------------------------------------------------------------------
\* The front goes to the caller, and the call returns.
Take(c) ==
  /\ queue # <<>> /\ queue' = Tail(queue)
  /\ pc' = [pc EXCEPT ![c] = "idle"]
  /\ UNCHANGED <<pushed, holder, inTime, flag, stopper, usage>>

Goto(c, to) ==
  /\ pc' = [pc EXCEPT ![c] = to]
  /\ UNCHANGED <<queue, pushed, flag, stopper, usage>>

TryPop(c) == pc[c] = "idle" /\ Unlocked /\ Take(c)

\* pop() or waitForItem() finds the queue empty and blocks; the predicate form
\* keeps the mutex while it evaluates extraWakeCondition.
Wait(c) ==
  /\ pc[c] = "idle" /\ Unlocked /\ queue = <<>>
  /\ Goto(c, IF usage = "predicate" THEN "evaluate" ELSE "blocked")
  /\ holder' = IF usage = "predicate" THEN {c} ELSE {}
  /\ inTime' = [inTime EXCEPT ![c] = TRUE]

Evaluate(c) ==
  /\ pc[c] = "evaluate"
  /\ Goto(c, IF flag \/ ~inTime[c] THEN "idle" ELSE "block")
  /\ holder' = IF flag \/ ~inTime[c] THEN {} ELSE holder
  /\ UNCHANGED inTime

Block(c) ==
  /\ pc[c] = "block" /\ Goto(c, "blocked")
  /\ holder' = {} /\ UNCHANGED inTime

Timeout(c) ==
  /\ pc[c] = "blocked" /\ Goto(c, "woken")
  /\ inTime' = [inTime EXCEPT ![c] = FALSE] /\ UNCHANGED holder

SpuriousWake(c) == pc[c] = "blocked" /\ Goto(c, "woken") /\ UNCHANGED <<holder, inTime>>

\* pop() takes the front if there is one, and returns either way.
ResumePop(c) ==
  /\ usage = "pop" /\ pc[c] = "woken" /\ Unlocked
  /\ Take(c) \/ (queue = <<>> /\ Goto(c, "idle") /\ UNCHANGED <<holder, inTime>>)

ResumeWait(c) ==
  /\ usage = "wait" /\ pc[c] = "woken" /\ Unlocked
  /\ Goto(c, "idle") /\ UNCHANGED <<holder, inTime>>

\* Mutant: the predicate form trusts its wakeup.
ResumeUnchecked(c) ==
  /\ usage = "predicate" /\ pc[c] = "woken" /\ Unlocked
  /\ Goto(c, "idle") /\ UNCHANGED <<holder, inTime>>

ResumePredicate(c) ==
  /\ usage = "predicate" /\ pc[c] = "woken" /\ Unlocked
  /\ Goto(c, IF queue = <<>> THEN "evaluate" ELSE "idle")
  /\ holder' = IF queue = <<>> THEN {c} ELSE {}
  /\ UNCHANGED inTime

Resume(c) == ResumePop(c) \/ ResumeWait(c) \/ ResumePredicate(c)

-----------------------------------------------------------------------------
\* remove_if(), by a predicate that tells the producers apart (a task's tag): what
\* is kept closes up in the order it was in.
RemoveIf(p) ==
  LET kept == {n \in 1 .. Len(queue) : queue[n][1] # p} IN
  /\ Unlocked /\ kept # 1 .. Len(queue)
  /\ \E from \in [1 .. Cardinality(kept) -> kept] :
       /\ \A m, n \in DOMAIN from : m < n => from[m] < from[n]
       /\ queue' = [n \in DOMAIN from |-> queue[from[n]]]
  /\ UNCHANGED <<pc, pushed, holder, inTime, flag, stopper, usage>>

SetFlag ==
  /\ stopper = "idle" /\ stopper' = "notify" /\ flag' = TRUE
  /\ UNCHANGED <<queue, pc, pushed, holder, inTime, usage>>

NotifyAll ==
  /\ stopper = "notify" /\ stopper' = "ended"
  /\ pc' = [t \in DOMAIN pc |-> IF pc[t] = "blocked" THEN "woken" ELSE pc[t]]
  /\ UNCHANGED <<queue, pushed, holder, inTime, flag, usage>>
WakeUnlocked == NotifyAll                                        \* mutant
WakeAllThreads == Unlocked /\ NotifyAll

-----------------------------------------------------------------------------
ProducerStep(p) == Push(p) \/ PushFull(p) \/ PushAgain(p)
CallStep(c) == Evaluate(c) \/ Block(c) \/ Resume(c)

Next ==
  \/ \E p \in Producer : ProducerStep(p) \/ RemoveIf(p)
  \/ \E c \in Consumer : TryPop(c) \/ Wait(c) \/ CallStep(c) \/ Timeout(c) \/ SpuriousWake(c)
  \/ SetFlag \/ WakeAllThreads

Spec == Init /\ [][Next]_vars

-----------------------------------------------------------------------------
\* One notify_one per item is enough for pop(): while a consumer stays blocked,
\* each item in the queue has a woken consumer on its way.
EachItemWakesOne ==
  usage = "pop" /\ Blocked # {} => Len(queue) <= Cardinality(Woken)

\* wakeAllThreads() "eliminates the window for lost wakeup": after the flag was
\* set and it returned, no waitForItem with a predicate is or gets blocked.
FlagReachesAll == usage = "predicate" /\ stopper = "ended" => Blocked = {}

Returns(c) == pc[c] # "idle" /\ pc'[c] = "idle"

\* With a predicate, a wait that did not time out ends only with an item there
\* or the condition true, whatever woke it and whoever was faster.
PredicateWaitHolds == [][\A c \in Consumer :
  usage = "predicate" /\ Returns(c) /\ inTime[c] => queue # <<>> \/ flag]_vars

\* The same of the form without a predicate: it "blocks until the queue is
\* non-empty or the timeout elapses".
WaitHolds == [][\A c \in Consumer :
  usage = "wait" /\ Returns(c) /\ inTime[c] => queue # <<>>]_vars
=============================================================================
