-------------------------- MODULE ThreadPoolProofs --------------------------
(***************************************************************************)
(* Theorems about ThreadPool, for every number of workers and every finite *)
(* set of tasks.                                                           *)
(*                                                                         *)
(* Its types, and then its counters, which are exact: queuedCount,         *)
(* retire()'s removedCount, a tag's outstandingTaskCount.  From the last   *)
(* one it follows that retire() returns only when nothing of its tag is    *)
(* left.                                                                   *)
(*                                                                         *)
(* Its workers: a popped task is in exactly one pair of hands, idleCount   *)
(* counts the idle wait, a stop request reaches every worker, and one      *)
(* notify_one per task suffices.                                           *)
(*                                                                         *)
(* What its shutdown calls leave behind.                                   *)
(***************************************************************************)
EXTENDS ThreadPool, FiniteSetTheorems, TLAPS

\* x % n is a lane index: laneSelectorMod.mod() never leaves 0 .. n-1.
LEMMA ModInRange ==
  ASSUME NEW x \in Nat, NEW n \in Nat \ {0}
  PROVE  x % n \in 0 .. n - 1
OBVIOUS

\* Every set of tasks is finite, with a natural number as its cardinality.
LEMMA TaskSetsFinite ==
  ASSUME NEW S \in SUBSET Task
  PROVE  IsFiniteSet(S) /\ Cardinality(S) \in Nat
BY PoolAssumption, FS_Subset, FS_CardinalityType

-----------------------------------------------------------------------------
(* Type correctness.                                                       *)

LEMMA TypeInit == Init => TypeOK
<1> SUFFICES ASSUME Init PROVE TypeOK  OBVIOUS
<1> USE DEF Init
<1>1. CallTypes
  BY PoolAssumption DEF CallTypes, CallPC
<1>2. LaneTypes
  BY PoolAssumption DEF LaneTypes, Status, Lane, Worker
<1>3. CountTypes
  BY DEF CountTypes
<1>4. ExecTypes
  BY PoolAssumption DEF ExecTypes, WorkerPC, OwnerPC, Executor, Worker
<1>5. TagTypes
  BY DEF TagTypes
<1>6. RetireTypes
  BY PoolAssumption DEF RetireTypes, RetirePC
<1>7. OwnerTypes
  BY DEF OwnerTypes
<1>8. QED BY <1>1, <1>2, <1>3, <1>4, <1>5, <1>6, <1>7 DEF TypeOK

\* Taking tasks out of a lane, to be run or to be retired, keeps the types.
LEMMA RemoveTypes ==
  ASSUME LaneTypes, NEW S, NEW st \in Status, RemoveFromLane(S, st)
  PROVE  LaneTypes'
BY PoolAssumption DEF LaneTypes, RemoveFromLane, Lane, Worker

LEMMA TryPopTypes ==
  ASSUME LaneTypes, ExecTypes, NEW e \in Executor, NEW l, TryPop(e, l)
  PROVE  LaneTypes' /\ item' \in [Executor -> Task \cup {NoTask}]
<1>1. PICK t \in Front(l) :
        RemoveFromLane({t}, "popped") /\ item' = [item EXCEPT ![e] = t]
  BY DEF TryPop
<1>2. t \in Task
  BY DEF Front, InLane
<1>3. LaneTypes'
  BY <1>1, RemoveTypes DEF Status, Held
<1>4. QED BY <1>1, <1>2, <1>3 DEF ExecTypes

LEMMA CompleteTypes ==
  ASSUME TagTypes, RetireTypes, NEW t \in Task, CompleteTaggedTask(t)
  PROVE  outstanding' \in [Tag -> Int] /\ rpc' \in [Tag -> RetirePC]
BY DEF TagTypes, RetireTypes, CompleteTaggedTask, RetirePC

LEMMA TypeNext == TypeOK /\ [Next]_vars => TypeOK'
<1> SUFFICES ASSUME TypeOK, [Next]_vars PROVE TypeOK'  OBVIOUS
<1> USE PoolAssumption DEF TypeOK, callVars, laneVars, idleVars, execVars, tagVars,
      retireVars, ownerVars
<1>1. ASSUME NEW t \in Task, Enqueue(t) PROVE TypeOK'
  <2>1. CallTypes'
    BY <1>1, ModInRange DEF CallTypes, CallPC, Enqueue, UnchangedByCall, LaneIndex
  <2>2. LaneTypes'
    <3>1. LaneIndex \in Lane
      BY ModInRange DEF CallTypes, LaneIndex, Lane, Worker
    <3>2. QED BY <1>1, <3>1 DEF LaneTypes, Enqueue
  <2>3. CountTypes' /\ ExecTypes' /\ TagTypes' /\ RetireTypes' /\ OwnerTypes'
    BY <1>1 DEF CountTypes, ExecTypes, TagTypes, RetireTypes, OwnerTypes, Enqueue,
       UnchangedByCall
  <2>4. QED BY <2>1, <2>2, <2>3
<1>2. ASSUME NEW t \in Task, RegisterTag(t) PROVE TypeOK'
  <2>1. CallTypes'
    BY <1>2 DEF CallTypes, CallPC, RegisterTag, UnchangedByCall
  <2>2. TagTypes'
    <3>1. known' \in [Tag -> BOOLEAN] /\ retired' \in [Tag -> BOOLEAN]
      BY <1>2 DEF TagTypes, RegisterTag
    <3>2. outstanding' \in [Tag -> Int]
      BY <1>2 DEF TagTypes, RegisterTag
    <3>3. QED BY <3>1, <3>2 DEF TagTypes
  <2>3. LaneTypes' /\ CountTypes' /\ ExecTypes' /\ RetireTypes' /\ OwnerTypes'
    BY <1>2 DEF LaneTypes, CountTypes, ExecTypes, RetireTypes, OwnerTypes,
       RegisterTag, UnchangedByCall
  <2>4. QED BY <2>1, <2>2, <2>3
<1>3. ASSUME NEW t \in Task, CountTask(t) PROVE TypeOK'
  BY <1>3 DEF CallTypes, LaneTypes, CountTypes, ExecTypes, TagTypes, RetireTypes,
     OwnerTypes, CallPC, Status, Held, WorkerPC, OwnerPC, RetirePC, Executor, Lane,
     CountTask, UnchangedByCall
<1>4. ASSUME NEW t \in Task, PushTask(t) PROVE TypeOK'
  <2>1. CallTypes'
    BY <1>4 DEF CallTypes, CallPC, PushTask, UnchangedByCall, PushBack, InLane
  <2>2. LaneTypes'
    BY <1>4 DEF LaneTypes, Status, Held, Lane, PushTask, UnchangedByCall, PushBack,
       InLane
  <2>3. CountTypes' /\ ExecTypes' /\ TagTypes' /\ RetireTypes' /\ OwnerTypes'
    BY <1>4 DEF CountTypes, ExecTypes, TagTypes, RetireTypes, OwnerTypes, PushTask,
       UnchangedByCall
  <2>4. QED BY <2>1, <2>2, <2>3
<1>5. ASSUME NEW t \in Task, PushThrows(t) PROVE TypeOK'
  BY <1>5 DEF CallTypes, LaneTypes, CountTypes, ExecTypes, TagTypes, RetireTypes,
     OwnerTypes, CallPC, Status, Held, WorkerPC, OwnerPC, RetirePC, Executor, Lane,
     PushThrows, UnchangedByCall
<1>6. ASSUME NEW t \in Task, UndoRegister(t) PROVE TypeOK'
  BY <1>6 DEF CallTypes, LaneTypes, CountTypes, ExecTypes, TagTypes, RetireTypes,
     OwnerTypes, CallPC, Status, Held, WorkerPC, OwnerPC, RetirePC, Executor, Lane,
     UndoRegister, CompleteTaggedTask
<1>7. ASSUME NEW t \in Task, Gate(t) PROVE TypeOK'
  BY <1>7 DEF CallTypes, LaneTypes, CountTypes, ExecTypes, TagTypes, RetireTypes,
     OwnerTypes, CallPC, Status, Held, WorkerPC, OwnerPC, RetirePC, Executor, Lane,
     Gate, UnchangedByCall
<1>8. ASSUME NEW t \in Task, NotifyOne(t) PROVE TypeOK'
  <2>1. CallTypes'
    BY <1>8 DEF CallTypes, CallPC, NotifyOne
  <2>2. ExecTypes'
    <3>1. pc' = pc \/ \E w \in Worker : pc' = [pc EXCEPT ![w] = "lock"]
      BY <1>8 DEF NotifyOne, Blocked
    <3>2. QED BY <1>8, <3>1 DEF ExecTypes, WorkerPC, Executor, NotifyOne
  <2>3. LaneTypes' /\ CountTypes' /\ TagTypes' /\ RetireTypes' /\ OwnerTypes'
    BY <1>8 DEF LaneTypes, CountTypes, TagTypes, RetireTypes, OwnerTypes, NotifyOne
  <2>4. QED BY <2>1, <2>2, <2>3
<1>9. ASSUME NEW e \in Executor, Decrement(e) PROVE TypeOK'
  <2>1. LaneTypes'
    BY <1>9 DEF LaneTypes, Status, Held, Lane, Decrement, UnchangedByTask, HoldsTask
  <2>2. CountTypes'
    BY <1>9 DEF CountTypes, Decrement, UnchangedByTask, HoldsTask
  <2>3. CallTypes' /\ ExecTypes' /\ TagTypes' /\ RetireTypes' /\ OwnerTypes'
    BY <1>9 DEF CallTypes, ExecTypes, TagTypes, RetireTypes, OwnerTypes, Decrement,
       UnchangedByTask
  <2>4. QED BY <2>1, <2>2, <2>3
<1>10. ASSUME NEW e \in Executor, Decide(e) PROVE TypeOK'
  <2>1. LaneTypes'
    BY <1>10 DEF LaneTypes, Status, Held, Lane, Decide, UnchangedByTask, HoldsTask,
       Discarding
  <2>2. CallTypes' /\ CountTypes' /\ ExecTypes' /\ TagTypes' /\ RetireTypes' /\ OwnerTypes'
    BY <1>10 DEF CallTypes, CountTypes, ExecTypes, TagTypes, RetireTypes,
       OwnerTypes, Decide, UnchangedByTask
  <2>3. QED BY <2>1, <2>2
<1>11. ASSUME NEW e \in Executor, BodyBegins(e) \/ BodyEnds(e) PROVE TypeOK'
  BY <1>11 DEF CallTypes, LaneTypes, CountTypes, ExecTypes, TagTypes, RetireTypes,
     OwnerTypes, CallPC, Status, Held, WorkerPC, OwnerPC, RetirePC, Executor, Lane,
     BodyBegins, BodyEnds, UnchangedByTask, HoldsTask
<1>12. ASSUME NEW e \in Executor, Complete(e) PROVE TypeOK'
  <2>1. LaneTypes'
    BY <1>12 DEF LaneTypes, Status, Held, Lane, Complete, UnchangedByTask,
       CompleteTaggedTask, MayComplete, HoldsTask, Discarding
  <2>2. ExecTypes'
    BY <1>12 DEF ExecTypes, WorkerPC, OwnerPC, Executor, Complete, UnchangedByTask,
       CompleteTaggedTask, MayComplete, HoldsTask, Discarding
  <2>3. TagTypes'
    BY <1>12 DEF TagTypes, Complete, UnchangedByTask, CompleteTaggedTask,
       MayComplete, HoldsTask, Discarding
  <2>4. RetireTypes'
    BY <1>12 DEF RetireTypes, RetirePC, Complete, UnchangedByTask,
       CompleteTaggedTask, MayComplete, HoldsTask, Discarding
  <2>5. CallTypes' /\ CountTypes' /\ OwnerTypes'
    BY <1>12 DEF CallTypes, CountTypes, OwnerTypes, Complete, UnchangedByTask
  <2>6. QED BY <2>1, <2>2, <2>3, <2>4, <2>5
<1>13. ASSUME NEW w \in Worker, Loop(w) PROVE TypeOK'
  BY <1>13 DEF CallTypes, LaneTypes, CountTypes, ExecTypes, TagTypes, RetireTypes,
     OwnerTypes, CallPC, Status, Held, WorkerPC, OwnerPC, RetirePC, Executor, Lane,
     Loop, PcOnly, UnchangedByWorker, Goto
<1>14. ASSUME NEW w \in Worker, PopOwn(w) PROVE TypeOK'
  <2>1. LaneTypes' /\ item' \in [Executor -> Task \cup {NoTask}]
    BY <1>14, TryPopTypes DEF PopOwn, Executor
  <2>2. ExecTypes'
    BY <1>14, <2>1 DEF ExecTypes, WorkerPC, OwnerPC, Executor, PopOwn,
       UnchangedByWorker, Goto, TryPop, RemoveFromLane, Front, InLane
  <2>3. CallTypes' /\ CountTypes' /\ TagTypes' /\ RetireTypes' /\ OwnerTypes'
    BY <1>14 DEF CallTypes, CountTypes, TagTypes, RetireTypes, OwnerTypes, PopOwn,
       UnchangedByWorker, Goto
  <2>4. QED BY <2>1, <2>2, <2>3
<1>15. ASSUME NEW w \in Worker, OwnEmpty(w) PROVE TypeOK'
  BY <1>15 DEF CallTypes, LaneTypes, CountTypes, ExecTypes, TagTypes, RetireTypes,
     OwnerTypes, CallPC, Status, Held, WorkerPC, OwnerPC, RetirePC, Executor, Lane,
     OwnEmpty, PcOnly, UnchangedByWorker, Goto, InLane
<1>16. ASSUME NEW w \in Worker, Recheck(w) PROVE TypeOK'
  BY <1>16 DEF CallTypes, LaneTypes, CountTypes, ExecTypes, TagTypes, RetireTypes,
     OwnerTypes, CallPC, Status, Held, WorkerPC, OwnerPC, RetirePC, Executor, Lane,
     Recheck, UnchangedByWorker, Goto
<1>17. ASSUME NEW w \in Worker, Steal(w) PROVE TypeOK'
  <2>1. LaneTypes' /\ item' \in [Executor -> Task \cup {NoTask}]
    BY <1>17, TryPopTypes DEF Steal, Executor
  <2>2. ExecTypes'
    BY <1>17, <2>1 DEF ExecTypes, WorkerPC, OwnerPC, Executor, Steal,
       UnchangedByWorker, Goto, TryPop, RemoveFromLane, Front, InLane, Victim
  <2>3. CallTypes' /\ CountTypes' /\ TagTypes' /\ RetireTypes' /\ OwnerTypes'
    BY <1>17 DEF CallTypes, CountTypes, TagTypes, RetireTypes, OwnerTypes, Steal,
       UnchangedByWorker, Goto
  <2>4. QED BY <2>1, <2>2, <2>3
<1>18. ASSUME NEW w \in Worker, StealNext(w) PROVE TypeOK'
  BY <1>18 DEF CallTypes, LaneTypes, CountTypes, ExecTypes, TagTypes, RetireTypes,
     OwnerTypes, CallPC, Status, Held, WorkerPC, OwnerPC, RetirePC, Executor, Lane,
     StealNext, UnchangedByWorker, Victim, InLane
<1>19. ASSUME NEW w \in Worker, StealNone(w) PROVE TypeOK'
  BY <1>19 DEF CallTypes, LaneTypes, CountTypes, ExecTypes, TagTypes, RetireTypes,
     OwnerTypes, CallPC, Status, Held, WorkerPC, OwnerPC, RetirePC, Executor, Lane,
     StealNone, UnchangedByWorker, Goto
<1>20. ASSUME NEW w \in Worker, EnterIdle(w) PROVE TypeOK'
  BY <1>20 DEF CallTypes, LaneTypes, CountTypes, ExecTypes, TagTypes, RetireTypes,
     OwnerTypes, CallPC, Status, Held, WorkerPC, OwnerPC, RetirePC, Executor, Lane,
     EnterIdle, UnchangedByWorker, Goto
<1>21. ASSUME NEW w \in Worker, LockIdle(w) PROVE TypeOK'
  BY <1>21 DEF CallTypes, LaneTypes, CountTypes, ExecTypes, TagTypes, RetireTypes,
     OwnerTypes, CallPC, Status, Held, WorkerPC, OwnerPC, RetirePC, Executor, Lane,
     LockIdle, UnchangedByWorker, Goto
<1>22. ASSUME NEW w \in Worker, Predicate(w) PROVE TypeOK'
  BY <1>22 DEF CallTypes, LaneTypes, CountTypes, ExecTypes, TagTypes, RetireTypes,
     OwnerTypes, CallPC, Status, Held, WorkerPC, OwnerPC, RetirePC, Executor, Lane,
     Predicate, UnchangedByWorker, Goto
<1>23. ASSUME NEW w \in Worker, Block(w) PROVE TypeOK'
  BY <1>23 DEF CallTypes, LaneTypes, CountTypes, ExecTypes, TagTypes, RetireTypes,
     OwnerTypes, CallPC, Status, Held, WorkerPC, OwnerPC, RetirePC, Executor, Lane,
     Block, UnchangedByWorker, Goto
<1>24. ASSUME NEW w \in Worker, LeaveIdle(w) PROVE TypeOK'
  BY <1>24 DEF CallTypes, LaneTypes, CountTypes, ExecTypes, TagTypes, RetireTypes,
     OwnerTypes, CallPC, Status, Held, WorkerPC, OwnerPC, RetirePC, Executor, Lane,
     LeaveIdle, UnchangedByWorker, Goto
<1>25. ASSUME NEW w \in Worker, SpuriousWake(w) PROVE TypeOK'
  BY <1>25 DEF CallTypes, LaneTypes, CountTypes, ExecTypes, TagTypes, RetireTypes,
     OwnerTypes, CallPC, Status, Held, WorkerPC, OwnerPC, RetirePC, Executor, Lane,
     SpuriousWake, PcOnly, UnchangedByWorker, Goto
<1>26. ASSUME NEW w \in Worker, Timeout(w) PROVE TypeOK'
  BY <1>26 DEF CallTypes, LaneTypes, CountTypes, ExecTypes, TagTypes, RetireTypes,
     OwnerTypes, CallPC, Status, Held, WorkerPC, OwnerPC, RetirePC, Executor, Lane,
     Timeout, PcOnly, UnchangedByWorker, Goto
<1>27. ASSUME NEW g \in Tag, RetireBegin(g) PROVE TypeOK'
  BY <1>27 DEF CallTypes, LaneTypes, CountTypes, ExecTypes, TagTypes, RetireTypes,
     OwnerTypes, CallPC, Status, Held, WorkerPC, OwnerPC, RetirePC, Executor, Lane,
     RetireBegin, UnchangedByRetire
<1>28. ASSUME NEW g \in Tag, RetireSweep(g) PROVE TypeOK'
  <2>1. LaneTypes'
    BY <1>28, RemoveTypes DEF Status, RetireSweep
  <2>2. RetireTypes'
    BY <1>28, TaskSetsFinite DEF RetireTypes, RetirePC, RetireSweep,
       UnchangedByRetire, RemoveFromLane, InLane
  <2>3. CallTypes' /\ CountTypes' /\ ExecTypes' /\ TagTypes' /\ OwnerTypes'
    BY <1>28 DEF CallTypes, CountTypes, ExecTypes, TagTypes, OwnerTypes,
       RetireSweep, UnchangedByRetire
  <2>4. QED BY <2>1, <2>2, <2>3
<1>29. ASSUME NEW g \in Tag, RetireSubtract(g) PROVE TypeOK'
  BY <1>29 DEF CallTypes, LaneTypes, CountTypes, ExecTypes, TagTypes, RetireTypes,
     OwnerTypes, CallPC, Status, Held, WorkerPC, OwnerPC, RetirePC, Executor, Lane,
     RetireSubtract, UnchangedByRetire
<1>30. ASSUME NEW g \in Tag, RetireSettle(g) PROVE TypeOK'
  BY <1>30 DEF CallTypes, LaneTypes, CountTypes, ExecTypes, TagTypes, RetireTypes,
     OwnerTypes, CallPC, Status, Held, WorkerPC, OwnerPC, RetirePC, Executor, Lane,
     RetireSettle, UnchangedByRetire, RetireWait
<1>31. ASSUME NEW g \in Tag, RetireWake(g) PROVE TypeOK'
  BY <1>31 DEF CallTypes, LaneTypes, CountTypes, ExecTypes, TagTypes, RetireTypes,
     OwnerTypes, CallPC, Status, Held, WorkerPC, OwnerPC, RetirePC, Executor, Lane,
     RetireWake, UnchangedByRetire, RetireWait
<1>32. ASSUME NEW g \in Tag, RetireSpurious(g) PROVE TypeOK'
  BY <1>32 DEF CallTypes, LaneTypes, CountTypes, ExecTypes, TagTypes, RetireTypes,
     OwnerTypes, CallPC, Status, Held, WorkerPC, OwnerPC, RetirePC, Executor, Lane,
     RetireSpurious, UnchangedByRetire
<1>33. ASSUME NEW m \in ShutdownCalls, ExplicitShutdown(m) PROVE TypeOK'
  BY <1>33 DEF CallTypes, LaneTypes, CountTypes, ExecTypes, TagTypes, RetireTypes,
     OwnerTypes, CallPC, Status, Held, WorkerPC, OwnerPC, RetirePC, Executor, Lane,
     ExplicitShutdown, Shutdown, Goto, UnchangedByOwner
<1>34. ASSUME NEW m \in Policies, Destructor(m) PROVE TypeOK'
  BY <1>34 DEF CallTypes, LaneTypes, CountTypes, ExecTypes, TagTypes, RetireTypes,
     OwnerTypes, CallPC, Status, Held, WorkerPC, OwnerPC, RetirePC, Executor, Lane,
     Destructor, Shutdown, Goto, UnchangedByOwner
<1>35. ASSUME WakeAll PROVE TypeOK'
  BY <1>35 DEF CallTypes, LaneTypes, CountTypes, ExecTypes, TagTypes, RetireTypes,
     OwnerTypes, CallPC, Status, Held, WorkerPC, OwnerPC, RetirePC, Executor, Lane,
     WakeAll, UnchangedByOwner, NotifyAll
<1>36. ASSUME Join PROVE TypeOK'
  BY <1>36 DEF CallTypes, LaneTypes, CountTypes, ExecTypes, TagTypes, RetireTypes,
     OwnerTypes, CallPC, Status, Held, WorkerPC, OwnerPC, RetirePC, Executor, Lane,
     Join, Goto, UnchangedByOwner
<1>37. ASSUME SweepPops PROVE TypeOK'
  <2>1. LaneTypes' /\ item' \in [Executor -> Task \cup {NoTask}]
    BY <1>37, TryPopTypes DEF SweepPops, Executor
  <2>2. ExecTypes'
    BY <1>37, <2>1 DEF ExecTypes, WorkerPC, OwnerPC, Executor, SweepPops,
       UnchangedByOwner, TryPop, RemoveFromLane, Front, InLane, OwnerFree
  <2>3. OwnerTypes'
    BY <1>37 DEF OwnerTypes, SweepPops, UnchangedByOwner, TryPop, RemoveFromLane,
       Front, InLane, OwnerFree
  <2>4. CallTypes' /\ CountTypes' /\ TagTypes' /\ RetireTypes'
    BY <1>37 DEF CallTypes, CountTypes, TagTypes, RetireTypes, SweepPops,
       UnchangedByOwner
  <2>5. QED BY <2>1, <2>2, <2>3, <2>4
<1>38. ASSUME SweepNextLane PROVE TypeOK'
  BY <1>38 DEF CallTypes, LaneTypes, CountTypes, ExecTypes, TagTypes, RetireTypes,
     OwnerTypes, CallPC, Status, Held, WorkerPC, OwnerPC, RetirePC, Executor, Lane,
     SweepNextLane, UnchangedByOwner, OwnerFree
<1>39. ASSUME DrainPassEnds PROVE TypeOK'
  <2>1. ExecTypes'
    BY <1>39 DEF ExecTypes, WorkerPC, OwnerPC, Executor, DrainPassEnds, Goto,
       UnchangedByOwner
  <2>2. OwnerTypes'
    BY <1>39 DEF OwnerTypes, DrainPassEnds, Goto, UnchangedByOwner
  <2>3. CallTypes' /\ LaneTypes' /\ CountTypes' /\ TagTypes' /\ RetireTypes'
    BY <1>39 DEF CallTypes, LaneTypes, CountTypes, TagTypes, RetireTypes,
       DrainPassEnds, Goto, UnchangedByOwner
  <2>4. QED BY <2>1, <2>2, <2>3
<1>40. ASSUME DrainReturns PROVE TypeOK'
  BY <1>40 DEF CallTypes, LaneTypes, CountTypes, ExecTypes, TagTypes, RetireTypes,
     OwnerTypes, CallPC, Status, Held, WorkerPC, OwnerPC, RetirePC, Executor, Lane,
     DrainReturns, Goto, UnchangedByOwner
<1>41. ASSUME AbandonReturns PROVE TypeOK'
  <2>1. ExecTypes'
    BY <1>41 DEF ExecTypes, WorkerPC, OwnerPC, Executor, AbandonReturns, Goto,
       UnchangedByOwner
  <2>2. OwnerTypes'
    BY <1>41 DEF OwnerTypes, AbandonReturns, Goto, UnchangedByOwner
  <2>3. CallTypes' /\ LaneTypes' /\ CountTypes' /\ TagTypes' /\ RetireTypes'
    BY <1>41 DEF CallTypes, LaneTypes, CountTypes, TagTypes, RetireTypes,
       AbandonReturns, Goto, UnchangedByOwner
  <2>4. QED BY <2>1, <2>2, <2>3
<1>42. CASE UNCHANGED vars
  BY <1>42 DEF vars, CallTypes, LaneTypes, CountTypes, ExecTypes, TagTypes,
     RetireTypes, OwnerTypes
<1>43. QED
  BY <1>1, <1>2, <1>3, <1>4, <1>5, <1>6, <1>7, <1>8, <1>9, <1>10, <1>11, <1>12,
     <1>13, <1>14, <1>15, <1>16, <1>17, <1>18, <1>19, <1>20, <1>21, <1>22, <1>23,
     <1>24, <1>25, <1>26, <1>27, <1>28, <1>29, <1>30, <1>31, <1>32, <1>33, <1>34,
     <1>35, <1>36, <1>37, <1>38, <1>39, <1>40, <1>41, <1>42
    DEF Next, EnqueueStep, TaskStep, WorkerStep, RetireStep, OwnerStep, Ended

\* Every variable keeps its type: no counter, program counter or lane index
\* ever leaves its range.
THEOREM TypeCorrect == Spec => []TypeOK
BY TypeInit, TypeNext, PTL DEF Spec

-----------------------------------------------------------------------------
(* The counters.                                                           *)

\* A task enters the lanes only through the push of its enqueue() call, and
\* only a tagged task registers.
CallStatus == \A t \in Task :
  /\ call[t] \in {"idle", "register", "count", "push", "undo"} => status[t] = "absent"
  /\ call[t] = "register" => TagOf[t] # NoTag

\* What retire() removed waits for the retire() call of its own tag.
RetirePhase == \A t \in Task :
  /\ status[t] = "swept" => TagOf[t] # NoTag /\ rpc[TagOf[t]] = "sweep"
  /\ status[t] = "uncounted" => TagOf[t] # NoTag /\ rpc[TagOf[t]] = "settle"

\* removedCount is the number of tasks the call has removed and not settled.
RemovedBy(g) == {t \in Tagged(g) : status[t] \in {"swept", "uncounted"}}
RemovedExact == \A g \in Tag : removed[g] = Cardinality(RemovedBy(g))

\* A tag without state has no task, and retire() in progress means retired.
TagState == \A g \in Tag :
  /\ ~known[g] => outstanding[g] = 0
  /\ rpc[g] \notin {"idle", "returned"} => retired[g]

-----------------------------------------------------------------------------
(* The steps, by what they do to the variables the counters depend on.     *)

acctVars == <<call, status, queuedCount, tagVars, rpc, removed>>

CallEnds(t) ==
  /\ call[t] \in {"gate", "notify"}
  /\ \E to \in {"notify", "returned"} : call' = [call EXCEPT ![t] = to]
  /\ UNCHANGED <<status, queuedCount, tagVars, rpc, removed>>

Pops(t) ==
  /\ status[t] = "lane" /\ status' = [status EXCEPT ![t] = "popped"]
  /\ UNCHANGED <<call, queuedCount, tagVars, rpc, removed>>

Uncounts(t) ==
  /\ status[t] = "popped" /\ status' = [status EXCEPT ![t] = "taken"]
  /\ queuedCount' = queuedCount - 1
  /\ UNCHANGED <<call, tagVars, rpc, removed>>

Advances(t) ==
  /\ \/ /\ status[t] = "taken"
        /\ status' = [status EXCEPT ![t] = IF TaggedTaskCanRun(t) THEN "cleared" ELSE "skipped"]
     \/ status[t] = "cleared" /\ status' = [status EXCEPT ![t] = "running"]
     \/ status[t] = "running" /\ status' = [status EXCEPT ![t] = "ran"]
  /\ UNCHANGED <<call, queuedCount, tagVars, rpc, removed>>

Settles(t) ==
  /\ status[t] \in {"taken", "ran", "skipped"}
  /\ status' = [status EXCEPT ![t] = IF @ = "ran" THEN "done" ELSE "dropped"]
  /\ CompleteTaggedTask(t)
  /\ UNCHANGED <<call, queuedCount, known, retired, removed>>

CallKind(t) == \/ Enqueue(t) \/ RegisterTag(t) \/ CountTask(t) \/ PushTask(t)
               \/ PushThrows(t) \/ UndoRegister(t) \/ CallEnds(t)
TaskKind(t) == Pops(t) \/ Uncounts(t) \/ Advances(t) \/ Settles(t)
RetireKind(g) == RetireBegin(g) \/ RetireStep(g) \/ RetireSpurious(g)

LEMMA PopKind ==
  ASSUME TypeOK, NEW e, NEW l, TryPop(e, l),
         UNCHANGED <<call, queuedCount, tagVars, rpc, removed>>
  PROVE  \E t \in Task : Pops(t)
<1>1. PICK t \in Front(l) : RemoveFromLane({t}, "popped")
  BY DEF TryPop
<1>2. t \in Task /\ status[t] = "lane"
  BY DEF Front, InLane
<1>3. status' = [status EXCEPT ![t] = "popped"]
  BY <1>1, <1>2 DEF RemoveFromLane, TypeOK, LaneTypes
<1>4. QED BY <1>2, <1>3 DEF Pops

LEMMA TaskStepKind ==
  ASSUME TypeOK, NEW e \in Executor, TaskStep(e)
  PROVE  \E t \in Task : TaskKind(t)
<1> DEFINE t == item[e]
<1> USE DEF laneVars, tagVars, callVars
<1>1. t \in Task
  BY DEF TypeOK, ExecTypes, TaskStep, Decrement, Decide, BodyBegins, BodyEnds, Complete, MayComplete, HoldsTask
<1>2. CASE Decrement(e)
  <2>1. Uncounts(t)
    BY <1>2 DEF Decrement, HoldsTask, UnchangedByTask, Uncounts
  <2>2. QED BY <1>1, <2>1 DEF TaskKind
<1>3. CASE Decide(e) \/ BodyBegins(e) \/ BodyEnds(e)
  <2>1. Advances(t)
    BY <1>3 DEF Decide, BodyBegins, BodyEnds, HoldsTask, UnchangedByTask, Advances
  <2>2. QED BY <1>1, <2>1 DEF TaskKind
<1>4. CASE Complete(e)
  <2>1. Settles(t)
    BY <1>4 DEF Complete, MayComplete, HoldsTask, UnchangedByTask, Settles
  <2>2. QED BY <1>1, <2>1 DEF TaskKind
<1>5. QED BY <1>2, <1>3, <1>4 DEF TaskStep

LEMMA StepKinds ==
  ASSUME TypeOK, [Next]_vars
  PROVE  \/ UNCHANGED acctVars
         \/ \E t \in Task : CallKind(t) \/ TaskKind(t)
         \/ \E g \in Tag : RetireKind(g)
<1> DEFINE Kinds == \/ UNCHANGED acctVars
                    \/ \E t \in Task : CallKind(t) \/ TaskKind(t)
                    \/ \E g \in Tag : RetireKind(g)
<1> USE DEF acctVars, callVars, laneVars, tagVars, retireVars
<1>1. ASSUME NEW t \in Task, Enqueue(t) \/ EnqueueStep(t) PROVE Kinds
  <2>1. ASSUME Gate(t) \/ NotifyOne(t) PROVE CallEnds(t)
    BY <2>1 DEF Gate, NotifyOne, CallEnds, UnchangedByCall
  <2>2. QED BY <1>1, <2>1 DEF EnqueueStep, CallKind
<1>2. ASSUME NEW w \in Worker, WorkerStep(w) PROVE Kinds
  <2>1. CASE PopOwn(w) \/ Steal(w)
    <3>1. \E l : TryPop(w, l)
      BY <2>1 DEF PopOwn, Steal
    <3>2. UNCHANGED <<call, queuedCount, tagVars, rpc, removed>>
      BY <2>1 DEF PopOwn, Steal, UnchangedByWorker
    <3>3. QED BY <3>1, <3>2, PopKind DEF TaskKind
  <2>2. CASE Loop(w) \/ OwnEmpty(w) \/ Recheck(w) \/ StealNext(w) \/ StealNone(w)
    BY <2>2 DEF Loop, OwnEmpty, Recheck, StealNext, StealNone, PcOnly, UnchangedByWorker
  <2>3. CASE EnterIdle(w) \/ LockIdle(w) \/ Predicate(w) \/ Block(w) \/ LeaveIdle(w)
    BY <2>3 DEF EnterIdle, LockIdle, Predicate, Block, LeaveIdle, UnchangedByWorker
  <2>4. QED BY <1>2, <2>1, <2>2, <2>3 DEF WorkerStep
<1>3. ASSUME NEW w \in Worker, SpuriousWake(w) \/ Timeout(w) PROVE Kinds
  BY <1>3 DEF SpuriousWake, Timeout, PcOnly, UnchangedByWorker
<1>4. ASSUME NEW m, ExplicitShutdown(m) \/ Destructor(m) PROVE Kinds
  BY <1>4 DEF ExplicitShutdown, Destructor, Shutdown, UnchangedByOwner
<1>5. ASSUME OwnerStep PROVE Kinds
  <2>1. CASE SweepPops
    <3>1. TryPop(Owner, scan[Owner])
      BY <2>1 DEF SweepPops
    <3>2. UNCHANGED <<call, queuedCount, tagVars, rpc, removed>>
      BY <2>1 DEF SweepPops, UnchangedByOwner
    <3>3. QED BY <3>1, <3>2, PopKind DEF TaskKind
  <2>2. CASE WakeAll \/ Join \/ SweepNextLane
    BY <2>2 DEF WakeAll, Join, SweepNextLane, UnchangedByOwner
  <2>3. CASE DrainPassEnds \/ DrainReturns \/ AbandonReturns
    BY <2>3 DEF DrainPassEnds, DrainReturns, AbandonReturns, UnchangedByOwner
  <2>4. QED BY <1>5, <2>1, <2>2, <2>3 DEF OwnerStep
<1>6. CASE UNCHANGED vars
  BY <1>6 DEF vars
<1>7. ASSUME NEW e \in Executor, TaskStep(e) PROVE Kinds
  BY <1>7, TaskStepKind
<1>8. QED BY <1>1, <1>2, <1>3, <1>4, <1>5, <1>6, <1>7 DEF Next, RetireKind, Ended

-----------------------------------------------------------------------------
(* The phases of enqueue() and retire().                                   *)

LEMMA CallStatusStep ==
  ASSUME PoolAssumption, TypeOK, CallStatus, [Next]_vars
  PROVE  CallStatus'
<1> USE DEF CallStatus, TypeOK, CallTypes, LaneTypes, laneVars, tagVars
<1>1. CASE UNCHANGED acctVars
  BY <1>1 DEF acctVars
<1>2. ASSUME NEW t \in Task, CallKind(t) PROVE CallStatus'
  <2>1. CASE Enqueue(t) \/ RegisterTag(t) \/ CountTask(t)
    BY <2>1 DEF Enqueue, RegisterTag, CountTask
  <2>2. CASE PushTask(t) \/ PushThrows(t) \/ UndoRegister(t) \/ CallEnds(t)
    BY <2>2 DEF PushTask, PushBack, PushThrows, UndoRegister, CallEnds
  <2>3. QED BY <1>2, <2>1, <2>2 DEF CallKind
<1>3. ASSUME NEW t \in Task, TaskKind(t) PROVE CallStatus'
  BY <1>3 DEF TaskKind, Pops, Uncounts, Advances, Settles
<1>4. ASSUME NEW g \in Tag, RetireKind(g) PROVE CallStatus'
  <2>1. CASE RetireSweep(g)
    BY <2>1 DEF RetireSweep, RemoveFromLane, InLane, UnchangedByRetire, callVars
  <2>2. CASE RetireSubtract(g) \/ RetireSettle(g)
    BY <2>2 DEF RetireSubtract, RetireSettle, SweptBy, UnchangedByRetire, callVars
  <2>3. CASE RetireBegin(g) \/ RetireWake(g) \/ RetireSpurious(g)
    BY <2>3 DEF RetireBegin, RetireWake, RetireSpurious, UnchangedByRetire, callVars
  <2>4. QED BY <1>4, <2>1, <2>2, <2>3 DEF RetireKind, RetireStep
<1>5. QED BY <1>1, <1>2, <1>3, <1>4, StepKinds

LEMMA RetirePhaseStep ==
  ASSUME PoolAssumption, TypeOK, CallStatus, RetirePhase, [Next]_vars
  PROVE  RetirePhase'
<1> USE DEF RetirePhase, TypeOK, LaneTypes, RetireTypes, Tagged, laneVars, tagVars, retireVars
<1>1. CASE UNCHANGED acctVars
  BY <1>1 DEF acctVars
<1>2. ASSUME NEW t \in Task, CallKind(t) PROVE RetirePhase'
  <2>1. CASE Enqueue(t) \/ RegisterTag(t) \/ CountTask(t) \/ PushThrows(t)
    BY <2>1 DEF Enqueue, RegisterTag, CountTask, PushThrows, UnchangedByCall
  <2>2. CASE PushTask(t) \/ CallEnds(t)
    BY <2>2 DEF PushTask, PushBack, CallEnds, UnchangedByCall
  <2>3. CASE UndoRegister(t)
    BY <2>3, PoolAssumption DEF UndoRegister, CompleteTaggedTask, WakesRetire
  <2>4. QED BY <1>2, <2>1, <2>2, <2>3 DEF CallKind
<1>3. ASSUME NEW t \in Task, TaskKind(t) PROVE RetirePhase'
  <2>1. CASE Pops(t) \/ Uncounts(t) \/ Advances(t)
    BY <2>1 DEF Pops, Uncounts, Advances
  <2>2. CASE Settles(t)
    BY <2>2, PoolAssumption DEF Settles, CompleteTaggedTask, WakesRetire
  <2>3. QED BY <1>3, <2>1, <2>2 DEF TaskKind
<1>4. ASSUME NEW g \in Tag, RetireKind(g) PROVE RetirePhase'
  <2>1. CASE RetireSweep(g)
    BY <2>1, PoolAssumption DEF RetireSweep, RemoveFromLane, InLane
  <2>2. CASE RetireSubtract(g) \/ RetireSettle(g)
    BY <2>2, PoolAssumption DEF RetireSubtract, RetireSettle, RetireWait, SweptBy
  <2>3. CASE RetireBegin(g) \/ RetireWake(g) \/ RetireSpurious(g)
    BY <2>3, PoolAssumption DEF RetireBegin, RetireWake, RetireWait, RetireSpurious
  <2>4. QED BY <1>4, <2>1, <2>2, <2>3 DEF RetireKind, RetireStep
<1>5. QED BY <1>1, <1>2, <1>3, <1>4, StepKinds

-----------------------------------------------------------------------------
(* Cardinalities of sets of tasks, one step apart.                         *)

LEMMA CardAdd ==
  ASSUME PoolAssumption, NEW S \in SUBSET Task, NEW t \in Task, t \notin S
  PROVE  Cardinality(S \cup {t}) = Cardinality(S) + 1
BY TaskSetsFinite, FS_AddElement

LEMMA CardRemove ==
  ASSUME PoolAssumption, NEW S \in SUBSET Task, NEW t \in S
  PROVE  Cardinality(S \ {t}) = Cardinality(S) - 1
BY TaskSetsFinite, FS_RemoveElement

LEMMA CardUnion ==
  ASSUME PoolAssumption, NEW S \in SUBSET Task, NEW R \in SUBSET Task, S \cap R = {}
  PROVE  Cardinality(S \cup R) = Cardinality(S) + Cardinality(R)
<1>1. Cardinality(S) \in Nat /\ Cardinality(R) \in Nat
  BY TaskSetsFinite
<1>2. Cardinality(S \cup R) = Cardinality(S) + Cardinality(R) - Cardinality(S \cap R)
  BY TaskSetsFinite, FS_Union
<1>3. Cardinality(S \cap R) = 0
  BY FS_EmptySet
<1>4. QED BY <1>1, <1>2, <1>3

LEMMA CardMinus ==
  ASSUME PoolAssumption, NEW S \in SUBSET Task, NEW R \in SUBSET S
  PROVE  Cardinality(S \ R) = Cardinality(S) - Cardinality(R)
<1>1. S \ R \in SUBSET Task /\ R \in SUBSET Task /\ (S \ R) \cap R = {}
  OBVIOUS
<1>2. Cardinality((S \ R) \cup R) = Cardinality(S \ R) + Cardinality(R)
  BY <1>1, CardUnion
<1>3. (S \ R) \cup R = S
  OBVIOUS
<1>4. Cardinality(S \ R) \in Nat /\ Cardinality(R) \in Nat
  BY <1>1, TaskSetsFinite
<1>5. Cardinality(S) = Cardinality(S \ R) + Cardinality(R)
  BY <1>2, <1>3
<1>6. QED BY <1>4, <1>5

-----------------------------------------------------------------------------
(* removedCount.                                                           *)

LEMMA RemovedStep ==
  ASSUME PoolAssumption, TypeOK, CallStatus, RetirePhase, RemovedExact, [Next]_vars
  PROVE  RemovedExact'
<1> USE DEF TypeOK, LaneTypes, RetireTypes
<1> DEFINE Same(h) == RemovedBy(h)' = RemovedBy(h) /\ removed'[h] = removed[h]
<1>1. ASSUME \A h \in Tag : Same(h) PROVE RemovedExact'
  BY <1>1 DEF RemovedExact
<1>2. CASE UNCHANGED acctVars
  <2>1. \A h \in Tag : Same(h)
    BY <1>2 DEF acctVars, RemovedBy, Tagged
  <2>2. QED BY <1>1, <2>1
<1>3. ASSUME NEW t \in Task, CallKind(t) PROVE RemovedExact'
  <2>1. CASE UNCHANGED <<status, removed>>
    <3>1. \A h \in Tag : Same(h)
      BY <2>1 DEF RemovedBy, Tagged
    <3>2. QED BY <1>1, <3>1
  <2>2. CASE PushTask(t)
    <3>1. \A h \in Tag : Same(h)
      BY <2>2 DEF PushTask, PushBack, CallStatus, RemovedBy, Tagged, UnchangedByCall, retireVars
    <3>2. QED BY <1>1, <3>1
  <2>3. QED BY <1>3, <2>1, <2>2 DEF CallKind, Enqueue, RegisterTag, CountTask, PushThrows,
          UndoRegister, CallEnds, UnchangedByCall, laneVars, retireVars
<1>4. ASSUME NEW t \in Task, TaskKind(t) PROVE RemovedExact'
  <2>1. \A h \in Tag : Same(h)
    BY <1>4 DEF TaskKind, Pops, Uncounts, Advances, Settles, RemovedBy, Tagged
  <2>2. QED BY <1>1, <2>1
<1>5. ASSUME NEW g \in Tag, RetireSweep(g) PROVE RemovedExact'
  <2> DEFINE S == InLane(rscan[g]) \cap Tagged(g)
  <2>1. S \in SUBSET Task /\ RemovedBy(g) \in SUBSET Task /\ RemovedBy(g) \cap S = {}
    BY DEF InLane, RemovedBy, Tagged
  <2>2. Cardinality(RemovedBy(g) \cup S) = Cardinality(RemovedBy(g)) + Cardinality(S)
    BY <2>1, CardUnion
  <2>3. RemovedBy(g)' = RemovedBy(g) \cup S
    BY <1>5 DEF RetireSweep, RemoveFromLane, RemovedBy, InLane, Tagged
  <2>4. removed'[g] = removed[g] + Cardinality(S)
    BY <1>5 DEF RetireSweep
  <2>5. \A h \in Tag \ {g} : Same(h)
    BY <1>5 DEF RetireSweep, RemoveFromLane, RemovedBy, InLane, Tagged
  <2>6. QED BY <2>2, <2>3, <2>4, <2>5 DEF RemovedExact
<1>6. ASSUME NEW g \in Tag, RetireSubtract(g) PROVE RemovedExact'
  <2>1. \A h \in Tag : Same(h)
    BY <1>6 DEF RetireSubtract, SweptBy, RemovedBy, Tagged
  <2>2. QED BY <1>1, <2>1
<1>7. ASSUME NEW g \in Tag, RetireSettle(g) PROVE RemovedExact'
  <2>1. RemovedBy(g)' = {}
    BY <1>7 DEF RetireSettle, RetirePhase, RemovedBy, Tagged
  <2>2. removed'[g] = 0
    BY <1>7 DEF RetireSettle
  <2>3. \A h \in Tag \ {g} : Same(h)
    BY <1>7 DEF RetireSettle, RemovedBy, Tagged
  <2>4. QED BY <2>1, <2>2, <2>3, FS_EmptySet DEF RemovedExact
<1>8. ASSUME NEW g \in Tag, RetireBegin(g) \/ RetireWake(g) \/ RetireSpurious(g)
      PROVE  RemovedExact'
  <2>1. \A h \in Tag : Same(h)
    BY <1>8 DEF RetireBegin, RetireWake, RetireSpurious, RemovedBy, Tagged, laneVars
  <2>2. QED BY <1>1, <2>1
<1>9. QED BY <1>2, <1>3, <1>4, <1>5, <1>6, <1>7, <1>8, StepKinds DEF RetireKind, RetireStep

-----------------------------------------------------------------------------
(* queuedCount.                                                            *)

LEMMA QueuedStep ==
  ASSUME PoolAssumption, TypeOK, CallStatus, RetirePhase, RemovedExact, QueuedCountExact,
         [Next]_vars
  PROVE  QueuedCountExact'
<1> USE DEF QueuedCountExact, TypeOK, LaneTypes, CallTypes
<1>1. ASSUME Counted' = Counted, queuedCount' = queuedCount PROVE QueuedCountExact'
  BY <1>1
<1>2. Counted \in SUBSET Task /\ Cardinality(Counted) \in Nat
  BY TaskSetsFinite DEF Counted
<1>3. ASSUME NEW t \in Task, t \notin Counted, Counted' = Counted \cup {t},
             queuedCount' = queuedCount + 1
      PROVE  QueuedCountExact'
  BY <1>2, <1>3, CardAdd
<1>4. ASSUME NEW t \in Counted, Counted' = Counted \ {t}, queuedCount' = queuedCount - 1
      PROVE  QueuedCountExact'
  BY <1>2, <1>4, CardRemove
<1>5. CASE UNCHANGED acctVars
  BY <1>1, <1>5 DEF acctVars, Counted
<1>6. ASSUME NEW t \in Task, CallKind(t) PROVE QueuedCountExact'
  <2>1. CASE CountTask(t)
    <3>1. t \notin Counted /\ Counted' = Counted \cup {t} /\ queuedCount' = queuedCount + 1
      BY <2>1 DEF CountTask, CallStatus, Counted, laneVars
    <3>2. QED BY <1>3, <3>1
  <2>2. CASE PushThrows(t)
    <3>1. t \in Counted /\ Counted' = Counted \ {t} /\ queuedCount' = queuedCount - 1
      BY <2>2 DEF PushThrows, CallStatus, Counted, laneVars
    <3>2. QED BY <1>4, <3>1
  <2>3. CASE Enqueue(t) \/ RegisterTag(t)
    <3>1. Counted' = Counted /\ queuedCount' = queuedCount
      BY <2>3 DEF Enqueue, RegisterTag, Counted, laneVars
    <3>2. QED BY <1>1, <3>1
  <2>4. CASE PushTask(t)
    <3>1. Counted' = Counted /\ queuedCount' = queuedCount
      BY <2>4 DEF PushTask, PushBack, Counted
    <3>2. QED BY <1>1, <3>1
  <2>5. CASE UndoRegister(t) \/ CallEnds(t)
    <3>1. Counted' = Counted /\ queuedCount' = queuedCount
      BY <2>5 DEF UndoRegister, CallEnds, Counted, laneVars
    <3>2. QED BY <1>1, <3>1
  <2>6. QED BY <1>6, <2>1, <2>2, <2>3, <2>4, <2>5 DEF CallKind
<1>7. ASSUME NEW t \in Task, TaskKind(t) PROVE QueuedCountExact'
  <2>1. CASE Uncounts(t)
    <3>1. t \in Counted /\ Counted' = Counted \ {t} /\ queuedCount' = queuedCount - 1
      BY <2>1 DEF Uncounts, CallStatus, Counted
    <3>2. QED BY <1>4, <3>1
  <2>2. CASE Pops(t) \/ Advances(t) \/ Settles(t)
    <3>1. Counted' = Counted /\ queuedCount' = queuedCount
      BY <2>2 DEF Pops, Advances, Settles, CallStatus, Counted
    <3>2. QED BY <1>1, <3>1
  <2>3. QED BY <1>7, <2>1, <2>2 DEF TaskKind
<1>8. ASSUME NEW g \in Tag, RetireSubtract(g) PROVE QueuedCountExact'
  <2>1. SweptBy(g) \in SUBSET Counted
    BY DEF SweptBy, Tagged, Counted
  <2>2. Counted' = Counted \ SweptBy(g)
    BY <1>8 DEF RetireSubtract, SweptBy, Tagged, Counted, CallStatus, UnchangedByRetire, callVars
  <2>3. SweptBy(g) = RemovedBy(g)
    BY <1>8 DEF RetireSubtract, RetirePhase, SweptBy, RemovedBy, Tagged
  <2>4. queuedCount' = queuedCount - Cardinality(SweptBy(g))
    BY <1>8, <2>3 DEF RetireSubtract, RemovedExact
  <2>5. QED BY <1>2, <2>1, <2>2, <2>4, CardMinus
<1>9. ASSUME NEW g \in Tag, RetireSweep(g) \/ RetireSettle(g) PROVE QueuedCountExact'
  <2>1. Counted' = Counted /\ queuedCount' = queuedCount
    BY <1>9 DEF RetireSweep, RetireSettle, RemoveFromLane, InLane, Tagged, Counted,
       UnchangedByRetire, callVars
  <2>2. QED BY <1>1, <2>1
<1>10. ASSUME NEW g \in Tag, RetireBegin(g) \/ RetireWake(g) \/ RetireSpurious(g)
       PROVE  QueuedCountExact'
  <2>1. Counted' = Counted /\ queuedCount' = queuedCount
    BY <1>10 DEF RetireBegin, RetireWake, RetireSpurious, Counted, UnchangedByRetire, callVars, laneVars
  <2>2. QED BY <1>1, <2>1
<1>11. QED BY <1>5, <1>6, <1>7, <1>8, <1>9, <1>10, StepKinds DEF RetireKind, RetireStep

-----------------------------------------------------------------------------
(* outstandingTaskCount.                                                   *)

LEMMA OutstandingStep ==
  ASSUME PoolAssumption, TypeOK, CallStatus, RetirePhase, RemovedExact, OutstandingExact,
         [Next]_vars
  PROVE  OutstandingExact'
<1> USE DEF TypeOK, LaneTypes, CallTypes, TagTypes
<1> DEFINE Same(h) == Unsettled(h)' = Unsettled(h) /\ outstanding'[h] = outstanding[h]
<1>1. ASSUME \A h \in Tag : Same(h) PROVE OutstandingExact'
  BY <1>1 DEF OutstandingExact
<1>2. ASSUME NEW h \in Tag
      PROVE  Unsettled(h) \in SUBSET Task /\ Cardinality(Unsettled(h)) \in Nat
  <2>1. Unsettled(h) \in SUBSET Task
    BY DEF Unsettled, Tagged
  <2>2. QED BY <2>1, TaskSetsFinite
<1>3. ASSUME NEW t \in Task, CompleteTaggedTask(t), TagOf[t] \in Tag => t \in Unsettled(TagOf[t]),
             \A h \in Tag : Unsettled(h)' = Unsettled(h) \ {t}
      PROVE  OutstandingExact'
  <2>1. ASSUME NEW h \in Tag, h # TagOf[t] PROVE Same(h)
    <3>1. t \notin Unsettled(h)
      BY <2>1 DEF Unsettled, Tagged
    <3>2. outstanding'[h] = outstanding[h]
      BY <1>3, <2>1 DEF CompleteTaggedTask
    <3>3. Unsettled(h)' = Unsettled(h) \ {t}
      BY <1>3, <2>1
    <3>4. Unsettled(h) \ {t} = Unsettled(h)
      BY <3>1
    <3>5. QED BY <3>2, <3>3, <3>4
  <2>2. ASSUME NEW h \in Tag, h = TagOf[t]
        PROVE  outstanding'[h] = Cardinality(Unsettled(h)')
    <3>1. outstanding'[h] = outstanding[h] - 1
      BY <1>3, <2>2, PoolAssumption DEF CompleteTaggedTask
    <3>2. t \in Unsettled(h) /\ Unsettled(h)' = Unsettled(h) \ {t}
      BY <1>3, <2>2
    <3>3. Cardinality(Unsettled(h)') = Cardinality(Unsettled(h)) - 1
      BY <1>2, <3>2, CardRemove
    <3>4. QED BY <3>1, <3>3 DEF OutstandingExact
  <2>3. QED BY <2>1, <2>2 DEF OutstandingExact
<1>4. CASE UNCHANGED acctVars
  <2>1. \A h \in Tag : Same(h)
    BY <1>4 DEF acctVars, tagVars, Unsettled, Tagged
  <2>2. QED BY <1>1, <2>1
<1>5. ASSUME NEW t \in Task, CallKind(t) PROVE OutstandingExact'
  <2>1. CASE RegisterTag(t) /\ ~retired[TagOf[t]]
    <3> DEFINE g == TagOf[t]
    <3>1. g \in Tag /\ status[t] = "absent"
      BY <2>1, PoolAssumption DEF RegisterTag, CallStatus
    <3>2. t \notin Unsettled(g) /\ Unsettled(g)' = Unsettled(g) \cup {t}
      BY <2>1, <3>1 DEF RegisterTag, Unsettled, Tagged, Held, laneVars
    <3>3. Cardinality(Unsettled(g)') = Cardinality(Unsettled(g)) + 1
      BY <1>2, <3>1, <3>2, CardAdd
    <3>4. outstanding'[g] = outstanding[g] + 1
      BY <2>1, <3>1 DEF RegisterTag
    <3>5. \A h \in Tag \ {g} : Same(h)
      BY <2>1 DEF RegisterTag, Unsettled, Tagged, laneVars
    <3>6. QED BY <3>1, <3>3, <3>4, <3>5 DEF OutstandingExact
  <2>2. CASE UndoRegister(t)
    <3>1. \A h \in Tag : Unsettled(h)' = Unsettled(h) \ {t}
      BY <2>2 DEF UndoRegister, CallStatus, Unsettled, Tagged, Held, laneVars
    <3>2. TagOf[t] \in Tag => t \in Unsettled(TagOf[t])
      BY <2>2 DEF UndoRegister, Unsettled, Tagged
    <3>3. QED BY <1>3, <2>2, <3>1, <3>2 DEF UndoRegister
  <2>3. CASE Enqueue(t) \/ (RegisterTag(t) /\ retired[TagOf[t]])
    <3>1. \A h \in Tag : Same(h)
      BY <2>3, PoolAssumption DEF Enqueue, RegisterTag, Unsettled, Tagged, tagVars, laneVars
    <3>2. QED BY <1>1, <3>1
  <2>4. CASE CountTask(t) \/ PushThrows(t)
    <3>1. \A h \in Tag : Same(h)
      BY <2>4 DEF CountTask, PushThrows, Unsettled, Tagged, tagVars, laneVars
    <3>2. QED BY <1>1, <3>1
  <2>5. CASE PushTask(t) \/ CallEnds(t)
    <3>1. \A h \in Tag : Same(h)
      BY <2>5 DEF PushTask, PushBack, CallEnds, Unsettled, Tagged, tagVars
    <3>2. QED BY <1>1, <3>1
  <2>6. QED BY <1>5, <2>1, <2>2, <2>3, <2>4, <2>5 DEF CallKind
<1>6. ASSUME NEW t \in Task, TaskKind(t) PROVE OutstandingExact'
  <2>1. CASE Pops(t) \/ Uncounts(t) \/ Advances(t)
    <3>1. \A h \in Tag : Same(h)
      BY <2>1 DEF Pops, Uncounts, Advances, Unsettled, Tagged, Held, tagVars
    <3>2. QED BY <1>1, <3>1
  <2>2. CASE Settles(t)
    <3>1. \A h \in Tag : Unsettled(h)' = Unsettled(h) \ {t}
      BY <2>2 DEF Settles, CallStatus, Unsettled, Tagged, Held
    <3>2. TagOf[t] \in Tag => t \in Unsettled(TagOf[t])
      BY <2>2 DEF Settles, Unsettled, Tagged, Held
    <3>3. QED BY <1>3, <2>2, <3>1, <3>2 DEF Settles
  <2>3. QED BY <1>6, <2>1, <2>2 DEF TaskKind
<1>7. ASSUME NEW g \in Tag, RetireSettle(g) PROVE OutstandingExact'
  <2>1. RemovedBy(g) \in SUBSET Unsettled(g)
    BY DEF RemovedBy, Unsettled, Tagged
  <2>2. Unsettled(g)' = Unsettled(g) \ RemovedBy(g)
    BY <1>7 DEF RetireSettle, RetirePhase, CallStatus, RemovedBy, Unsettled, Tagged, Held,
       UnchangedByRetire, callVars
  <2>3. Cardinality(Unsettled(g)') = Cardinality(Unsettled(g)) - Cardinality(RemovedBy(g))
    BY <1>2, <2>1, <2>2, CardMinus
  <2>4. outstanding'[g] = outstanding[g] - removed[g]
    BY <1>7 DEF RetireSettle, RetireWait
  <2>5. \A h \in Tag \ {g} : Same(h)
    BY <1>7 DEF RetireSettle, RetireWait, Unsettled, Tagged, UnchangedByRetire, callVars
  <2>6. QED BY <2>3, <2>4, <2>5 DEF OutstandingExact, RemovedExact
<1>8. ASSUME NEW g \in Tag, RetireSweep(g) \/ RetireSubtract(g) PROVE OutstandingExact'
  <2>1. \A h \in Tag : Same(h)
    BY <1>8 DEF RetireSweep, RetireSubtract, RemoveFromLane, InLane, SweptBy, Unsettled,
       Tagged, Held, UnchangedByRetire, callVars, tagVars
  <2>2. QED BY <1>1, <2>1
<1>9. ASSUME NEW g \in Tag, RetireBegin(g) \/ RetireWake(g) \/ RetireSpurious(g)
      PROVE  OutstandingExact'
  <2>1. \A h \in Tag : Same(h)
    BY <1>9 DEF RetireBegin, RetireWake, RetireWait, RetireSpurious, Unsettled, Tagged,
       UnchangedByRetire, callVars, laneVars, tagVars
  <2>2. QED BY <1>1, <2>1
<1>10. QED BY <1>4, <1>5, <1>6, <1>7, <1>8, <1>9, StepKinds DEF RetireKind, RetireStep

-----------------------------------------------------------------------------
(* The states of a tag.                                                    *)

LEMMA TagStateStep ==
  ASSUME PoolAssumption, TypeOK, CallStatus, OutstandingExact, TagState, [Next]_vars
  PROVE  TagState'
<1> USE DEF TagState, TypeOK, TagTypes, RetireTypes, laneVars, tagVars, retireVars
<1>1. ASSUME NEW t \in Task, CompleteTaggedTask(t), UNCHANGED <<known, retired>>,
             TagOf[t] \in Tag => t \in Unsettled(TagOf[t])
      PROVE  TagState'
  <2>1. ASSUME TagOf[t] \in Tag PROVE known[TagOf[t]]
    <3>1. Unsettled(TagOf[t]) \in SUBSET Task /\ Unsettled(TagOf[t]) # {}
      BY <1>1, <2>1 DEF Unsettled, Tagged
    <3>2. Cardinality(Unsettled(TagOf[t])) # 0
      BY <3>1, TaskSetsFinite, FS_EmptySet
    <3>3. QED BY <2>1, <3>2 DEF OutstandingExact
  <2>2. QED BY <1>1, <2>1, PoolAssumption DEF CompleteTaggedTask, WakesRetire
<1>2. CASE UNCHANGED acctVars
  BY <1>2 DEF acctVars
<1>3. ASSUME NEW t \in Task, CallKind(t) PROVE TagState'
  <2>1. CASE RegisterTag(t)
    BY <2>1 DEF RegisterTag, UnchangedByCall
  <2>2. CASE UndoRegister(t)
    BY <1>1, <2>2 DEF UndoRegister, Unsettled, Tagged
  <2>3. CASE Enqueue(t) \/ CountTask(t) \/ PushTask(t) \/ PushThrows(t) \/ CallEnds(t)
    BY <2>3 DEF Enqueue, CountTask, PushTask, PushThrows, CallEnds, UnchangedByCall
  <2>4. QED BY <1>3, <2>1, <2>2, <2>3 DEF CallKind
<1>4. ASSUME NEW t \in Task, TaskKind(t) PROVE TagState'
  <2>1. CASE Settles(t)
    BY <1>1, <2>1 DEF Settles, Unsettled, Tagged, Held
  <2>2. CASE Pops(t) \/ Uncounts(t) \/ Advances(t)
    BY <2>2 DEF Pops, Uncounts, Advances
  <2>3. QED BY <1>4, <2>1, <2>2 DEF TaskKind
<1>5. ASSUME NEW g \in Tag, RetireKind(g) PROVE TagState'
  <2>1. CASE RetireBegin(g)
    BY <2>1 DEF RetireBegin
  <2>2. CASE RetireSweep(g) \/ RetireSubtract(g) \/ RetireSpurious(g)
    BY <2>2 DEF RetireSweep, RetireSubtract, RetireSpurious
  <2>3. CASE RetireSettle(g) \/ RetireWake(g)
    BY <2>3 DEF RetireSettle, RetireWake, RetireWait
  <2>4. QED BY <1>5, <2>1, <2>2, <2>3 DEF RetireKind, RetireStep
<1>6. QED BY <1>2, <1>3, <1>4, <1>5, StepKinds

-----------------------------------------------------------------------------
(* The inductive invariant and what follows from it.                       *)

Accounts == /\ TypeOK /\ CallStatus /\ RetirePhase
            /\ RemovedExact /\ QueuedCountExact /\ OutstandingExact /\ TagState

LEMMA AccountsInit == Init => Accounts
<1> SUFFICES ASSUME Init PROVE Accounts  OBVIOUS
<1> USE DEF Init
<1>1. TypeOK
  BY TypeInit
<1>2. CallStatus /\ RetirePhase /\ TagState
  BY DEF CallStatus, RetirePhase, TagState
<1>3. RemovedExact
  <2>1. \A g \in Tag : RemovedBy(g) = {}
    BY DEF RemovedBy, Tagged
  <2>2. QED BY <2>1, FS_EmptySet DEF RemovedExact
<1>4. QueuedCountExact
  <2>1. Counted = {}
    BY DEF Counted
  <2>2. QED BY <2>1, FS_EmptySet DEF QueuedCountExact
<1>5. OutstandingExact
  <2>1. \A g \in Tag : Unsettled(g) = {}
    BY DEF Unsettled, Tagged, Held
  <2>2. QED BY <2>1, FS_EmptySet DEF OutstandingExact
<1>6. QED BY <1>1, <1>2, <1>3, <1>4, <1>5 DEF Accounts

LEMMA AccountsNext == Accounts /\ [Next]_vars => Accounts'
BY PoolAssumption, TypeNext, CallStatusStep, RetirePhaseStep, RemovedStep, QueuedStep,
   OutstandingStep, TagStateStep DEF Accounts

LEMMA AccountsHold == Spec => []Accounts
BY AccountsInit, AccountsNext, PTL DEF Spec

\* queuedCount counts the tasks announced, queued, or removed and not yet
\* subtracted: it never wraps below zero and is 0 when nothing is in flight.
THEOREM QueuedCountCorrect == Spec => []QueuedCountExact
<1>1. Accounts => QueuedCountExact
  BY DEF Accounts
<1>2. QED BY <1>1, AccountsHold, PTL

\* Each tag's outstandingTaskCount is the number of its unsettled tasks, however
\* enqueue(), the executors, a failed push and retire() interleave.
THEOREM OutstandingCorrect == Spec => []OutstandingExact
<1>1. Accounts => OutstandingExact
  BY DEF Accounts
<1>2. QED BY <1>1, AccountsHold, PTL

\* retire(g) returns only where the tag's count is 0, hence its tasks settled.
LEMMA ReturnSettles ==
  ASSUME Accounts, [Next]_vars, NEW g \in Tag, rpc[g] # "returned", rpc'[g] = "returned"
  PROVE  Unsettled(g)' = {}
<1> USE DEF Accounts, TypeOK, RetireTypes
<1>1. outstanding'[g] = 0
  <2>1. CASE UNCHANGED acctVars
    BY <2>1 DEF acctVars
  <2>2. ASSUME NEW t \in Task, CallKind(t) \/ TaskKind(t) PROVE FALSE
    <3>1. UNCHANGED rpc \/ CompleteTaggedTask(t)
      BY <2>2 DEF CallKind, TaskKind, Enqueue, RegisterTag, CountTask, PushTask, PushThrows,
         UndoRegister, CallEnds, Pops, Uncounts, Advances, Settles, UnchangedByCall, retireVars
    <3>2. QED BY <3>1 DEF CompleteTaggedTask
  <2>3. ASSUME NEW h \in Tag, RetireKind(h) PROVE outstanding'[g] = 0
    <3>1. CASE RetireBegin(h)
      BY <3>1 DEF RetireBegin, TagState, TagTypes
    <3>2. CASE RetireSweep(h) \/ RetireSubtract(h) \/ RetireSpurious(h)
      BY <3>2 DEF RetireSweep, RetireSubtract, RetireSpurious
    <3>3. CASE RetireSettle(h) \/ RetireWake(h)
      BY <3>3 DEF RetireSettle, RetireWake, RetireWait, TagTypes
    <3>4. QED BY <2>3, <3>1, <3>2, <3>3 DEF RetireKind, RetireStep
  <2>4. QED BY <2>1, <2>2, <2>3, StepKinds
<1>2. OutstandingExact'
  BY AccountsNext
<1>3. Unsettled(g)' \in SUBSET Task
  BY DEF Unsettled, Tagged
<1>4. Cardinality(Unsettled(g)') = 0
  BY <1>1, <1>2 DEF OutstandingExact
<1>5. IsFiniteSet(Unsettled(g)')
  BY <1>3, TaskSetsFinite
<1>6. QED BY <1>4, <1>5, FS_EmptySet

\* In the step in which retire(g) returns, nothing of g is queued, held or on
\* its way into a lane.
THEOREM RetireBarrierCorrect == Spec => RetireBarrier
<1>1. Accounts /\ [Next]_vars =>
        \A g \in Tag : rpc[g] # "returned" /\ rpc'[g] = "returned" => Unsettled(g)' = {}
  BY ReturnSettles
<1>2. QED BY <1>1, AccountsHold, PTL DEF Spec, RetireBarrier

\* A task that has not passed its check when retire(g) sets retired never runs:
\* it stays doomed until it has ended unrun, whoever moves it and however often
\* retire(g) and its tag's other tasks move in between.
THEOREM RetiredTasksNeverRun == Spec => RetiredNeverRuns
<1> DEFINE Ends(g, u) == u \in Doomed(g)' \cup EndedUnrun'
<1>1. ASSUME Accounts, [Next]_vars, NEW g \in Tag, NEW u \in Doomed(g) PROVE Ends(g, u)
  <2> USE <1>1 DEF Accounts, TypeOK, CallTypes, LaneTypes, RetireTypes, Tagged, Doomed, Unsettled
  <2>1. /\ u \in Task /\ TagOf[u] = g /\ rpc[g] \notin {"idle", "returned"}
        /\ status[u] \notin {"cleared", "running", "ran"} /\ retired[g]
    BY DEF TagState
  <2>2. CASE UNCHANGED acctVars
    BY <2>2 DEF acctVars
  <2>3. ASSUME NEW t \in Task, CallKind(t) PROVE Ends(g, u)
    <3>1. rpc'[g] \notin {"idle", "returned"}
      BY <2>1, <2>3 DEF CallKind, Enqueue, RegisterTag, CountTask, PushTask, PushThrows,
         UndoRegister, CallEnds, CompleteTaggedTask, UnchangedByCall, retireVars
    <3>2. CASE t # u
      <4>1. call'[u] = call[u] /\ status'[u] = status[u]
        BY <2>1, <2>3, <3>2 DEF CallKind, Enqueue, RegisterTag, CountTask, PushTask, PushBack,
           PushThrows, UndoRegister, CallEnds, laneVars
      <4>2. QED BY <2>1, <3>1, <4>1
    <3>3. CASE t = u /\ (Enqueue(t) \/ RegisterTag(t))
      BY <2>1, <3>3 DEF Enqueue, RegisterTag, CallStatus, Held
    <3>4. CASE t = u /\ (CountTask(t) \/ PushThrows(t))
      BY <2>1, <3>1, <3>4 DEF CountTask, PushThrows, laneVars
    <3>5. CASE t = u /\ PushTask(t)
      BY <2>1, <3>1, <3>5 DEF PushTask, PushBack
    <3>6. CASE t = u /\ UndoRegister(t)
      BY <2>1, <3>6 DEF UndoRegister, CallStatus, EndedUnrun, laneVars
    <3>7. CASE t = u /\ CallEnds(t)
      BY <2>1, <3>1, <3>7 DEF CallEnds
    <3>8. QED BY <2>3, <3>2, <3>3, <3>4, <3>5, <3>6, <3>7 DEF CallKind
  <2>4. ASSUME NEW t \in Task, TaskKind(t) PROVE Ends(g, u)
    <3>1. rpc'[g] \notin {"idle", "returned"} /\ call'[u] = call[u]
      BY <2>1, <2>4 DEF TaskKind, Pops, Uncounts, Advances, Settles, CompleteTaggedTask
    <3>2. CASE t # u
      BY <2>1, <2>4, <3>1, <3>2 DEF TaskKind, Pops, Uncounts, Advances, Settles
    <3>3. CASE t = u /\ Advances(t)
      BY <2>1, <3>1, <3>3, PoolAssumption DEF Advances, TaggedTaskCanRun, Held
    <3>4. CASE t = u /\ (Pops(t) \/ Uncounts(t))
      BY <2>1, <3>1, <3>4 DEF Pops, Uncounts, Held
    <3>5. CASE t = u /\ Settles(t)
      BY <2>1, <3>5 DEF Settles, EndedUnrun
    <3>6. QED BY <2>4, <3>2, <3>3, <3>4, <3>5 DEF TaskKind
  <2>5. ASSUME NEW h \in Tag, RetireKind(h) PROVE Ends(g, u)
    <3>1. call' = call /\ \A k \in Tag : k # h => rpc'[k] = rpc[k]
      BY <2>5 DEF RetireKind, RetireStep, RetireBegin, RetireSweep, RetireSubtract, RetireSettle,
         RetireWake, RetireWait, RetireSpurious, UnchangedByRetire, callVars
    <3>2. \/ status'[u] = status[u]
          \/ h = g /\ status'[u] \in {"swept", "uncounted"} /\ rpc'[g] \in {"sweep", "settle"}
          \/ status'[u] = "dropped"
      BY <2>1, <2>5 DEF RetireKind, RetireStep, RetireBegin, RetireSweep, RetireSubtract,
         RetireSettle, RetireWake, RetireSpurious, RemoveFromLane, SweptBy, laneVars
    <3>3. CASE status'[u] = "dropped"
      BY <2>1, <3>3 DEF EndedUnrun
    <3>4. CASE h = g /\ status'[u] \in {"swept", "uncounted"} /\ rpc'[g] \in {"sweep", "settle"}
      BY <2>1, <3>4
    <3>5. CASE status'[u] = status[u]
      <4>1. u \in Unsettled(g)'
        BY <2>1, <3>1, <3>5
      <4>2. rpc'[g] # "returned"
        BY <2>1, <4>1, ReturnSettles
      <4>3. rpc'[g] # "idle"
        BY <2>1, <2>5 DEF RetireKind, RetireStep, RetireBegin, RetireSweep, RetireSubtract,
           RetireSettle, RetireWake, RetireWait, RetireSpurious
      <4>4. QED BY <2>1, <3>5, <4>1, <4>2, <4>3
    <3>6. QED BY <3>2, <3>3, <3>4, <3>5
  <2>6. QED BY <2>2, <2>3, <2>4, <2>5, StepKinds
<1>2. Accounts /\ [Next]_vars => \A g \in Tag : \A t \in Doomed(g) : Ends(g, t)
  BY <1>1
<1>3. QED BY <1>2, AccountsHold, PTL DEF Spec, RetiredNeverRuns

-----------------------------------------------------------------------------
(* The workers.                                                            *)

\* A worker holds a task exactly while it is at work on it.
Hands == \A w \in Worker : item[w] # NoTask <=> pc[w] = "task"
OneHolder == \A e, f \in Executor : item[e] = item[f] /\ item[e] # NoTask => e = f

\* The owner pops only when it holds nothing, and only in its sweeps.
OwnerHands == item[Owner] # NoTask =>
  pc[Owner] \in {"drain", "abandon"} /\ scan[Owner] < NumThreads

-----------------------------------------------------------------------------
(* The steps, by whose hands they change.                                  *)

SameHands ==
  /\ UNCHANGED item
  /\ \A t \in Task : status'[t] \in Held <=> status[t] \in Held
  /\ \A w \in Worker : pc'[w] = "task" <=> pc[w] = "task"
  /\ item[Owner] # NoTask => pc'[Owner] = pc[Owner] /\ scan'[Owner] = scan[Owner]

Grabs(e) == \E t \in Task :
  /\ status[t] = "lane" /\ status' = [status EXCEPT ![t] = "popped"]
  /\ item' = [item EXCEPT ![e] = t]
  /\ \A w \in Worker : pc'[w] = "task" <=> w = e \/ pc[w] = "task"
  /\ pc'[Owner] = pc[Owner] /\ scan'[Owner] = scan[Owner]
  /\ IF e = Owner THEN /\ item[e] = NoTask
                       /\ pc[e] \in {"drain", "abandon"} /\ scan[e] < NumThreads
     ELSE pc[e] # "task"

LetsGo(e) ==
  /\ item[e] \in Task
  /\ \E st \in {"done", "dropped"} : status' = [status EXCEPT ![item[e]] = st]
  /\ item' = [item EXCEPT ![e] = NoTask]
  /\ \A w \in Worker : pc'[w] = "task" <=> w # e /\ pc[w] = "task"
  /\ pc'[Owner] = pc[Owner] /\ scan'[Owner] = scan[Owner]

LEMMA PopGrabs ==
  ASSUME TypeOK, NEW e \in Executor, NEW l, TryPop(e, l)
  PROVE  \E t \in Task : /\ status[t] = "lane" /\ status' = [status EXCEPT ![t] = "popped"]
                         /\ item' = [item EXCEPT ![e] = t]
<1>1. PICK t \in Front(l) : RemoveFromLane({t}, "popped") /\ item' = [item EXCEPT ![e] = t]
  BY DEF TryPop
<1>2. t \in Task /\ status[t] = "lane"
  BY DEF Front, InLane
<1>3. status' = [status EXCEPT ![t] = "popped"]
  BY <1>1, <1>2 DEF RemoveFromLane, TypeOK, LaneTypes
<1>4. QED BY <1>1, <1>2, <1>3

LEMMA HandKinds ==
  ASSUME PoolAssumption, TypeOK, CallStatus, OwnerHands, [Next]_vars
  PROVE  SameHands \/ \E e \in Executor : Grabs(e) \/ LetsGo(e)
<1> DEFINE Kinds == SameHands \/ \E e \in Executor : Grabs(e) \/ LetsGo(e)
<1> USE PoolAssumption DEF TypeOK, ExecTypes, LaneTypes, Executor, laneVars, execVars
<1>1. ASSUME NEW t \in Task, Enqueue(t) \/ EnqueueStep(t) PROVE SameHands
  <2>1. CASE PushTask(t)
    BY <2>1 DEF PushTask, PushBack, CallStatus, UnchangedByCall, SameHands, Held
  <2>2. CASE NotifyOne(t)
    <3>1. pc' = pc \/ \E w \in Blocked : pc' = [pc EXCEPT ![w] = "lock"]
      BY <2>2 DEF NotifyOne
    <3>2. QED BY <2>2, <3>1 DEF NotifyOne, Blocked, SameHands
  <2>3. CASE Enqueue(t) \/ RegisterTag(t) \/ CountTask(t)
    BY <2>3 DEF Enqueue, RegisterTag, CountTask, UnchangedByCall, SameHands
  <2>4. CASE PushThrows(t) \/ UndoRegister(t) \/ Gate(t)
    BY <2>4 DEF PushThrows, UndoRegister, Gate, UnchangedByCall, SameHands
  <2>5. QED BY <1>1, <2>1, <2>2, <2>3, <2>4 DEF EnqueueStep
<1>2. ASSUME NEW e \in Executor, TaskStep(e) PROVE Kinds
  <2>1. item[e] \in Task
    BY <1>2 DEF TaskStep, Decrement, Decide, BodyBegins, BodyEnds, Complete, MayComplete, HoldsTask
  <2>2. CASE Decrement(e) \/ Decide(e) \/ BodyBegins(e) \/ BodyEnds(e)
    BY <2>1, <2>2 DEF Decrement, Decide, BodyBegins, BodyEnds, HoldsTask, SameHands, Held
  <2>3. CASE Complete(e)
    BY <2>1, <2>3 DEF Complete, LetsGo
  <2>4. QED BY <1>2, <2>2, <2>3 DEF TaskStep
<1>3. ASSUME NEW w \in Worker, WorkerStep(w) PROVE Kinds
  <2>1. CASE PopOwn(w)
    <3>1. TryPop(w, w) /\ pc[w] = "pop" /\ pc' = [pc EXCEPT ![w] = "task"] /\ UNCHANGED scan
      BY <2>1 DEF PopOwn, Goto
    <3>2. Grabs(w)
      BY <3>1, PopGrabs DEF Grabs
    <3>3. QED BY <3>2
  <2>2. CASE Steal(w)
    <3>1. /\ TryPop(w, Victim(w)) /\ pc[w] = "steal" /\ pc' = [pc EXCEPT ![w] = "task"]
          /\ scan' = [scan EXCEPT ![w] = 0]
      BY <2>2 DEF Steal, Goto
    <3>2. Grabs(w)
      BY <3>1, PopGrabs DEF Grabs
    <3>3. QED BY <3>2
  <2>3. CASE Loop(w) \/ OwnEmpty(w) \/ Recheck(w)
    BY <2>3 DEF Loop, OwnEmpty, Recheck, PcOnly, Goto, SameHands
  <2>4. CASE StealNext(w) \/ StealNone(w) \/ EnterIdle(w)
    BY <2>4 DEF StealNext, StealNone, EnterIdle, Goto, SameHands
  <2>5. CASE LockIdle(w) \/ Predicate(w) \/ Block(w) \/ LeaveIdle(w)
    BY <2>5 DEF LockIdle, Predicate, Block, LeaveIdle, Goto, SameHands
  <2>6. QED BY <1>3, <2>1, <2>2, <2>3, <2>4, <2>5 DEF WorkerStep
<1>4. ASSUME NEW w \in Worker, SpuriousWake(w) \/ Timeout(w) PROVE SameHands
  BY <1>4 DEF SpuriousWake, Timeout, PcOnly, Goto, SameHands
<1>5. ASSUME NEW g \in Tag, RetireBegin(g) \/ RetireStep(g) \/ RetireSpurious(g)
      PROVE  SameHands
  <2>1. CASE RetireSweep(g)
    BY <2>1 DEF RetireSweep, RemoveFromLane, InLane, UnchangedByRetire, SameHands, Held
  <2>2. CASE RetireSubtract(g) \/ RetireSettle(g)
    BY <2>2 DEF RetireSubtract, RetireSettle, SweptBy, UnchangedByRetire, SameHands, Held
  <2>3. CASE RetireBegin(g) \/ RetireWake(g) \/ RetireSpurious(g)
    BY <2>3 DEF RetireBegin, RetireWake, RetireSpurious, UnchangedByRetire, SameHands
  <2>4. QED BY <1>5, <2>1, <2>2, <2>3 DEF RetireStep
<1>6. ASSUME NEW m, ExplicitShutdown(m) \/ Destructor(m) PROVE SameHands
  BY <1>6 DEF ExplicitShutdown, Destructor, Shutdown, Goto, SameHands, OwnerHands
<1>7. ASSUME OwnerStep PROVE Kinds
  <2>1. CASE SweepPops
    <3>1. TryPop(Owner, scan[Owner]) /\ UNCHANGED <<pc, scan>> /\ item[Owner] = NoTask
          /\ pc[Owner] \in {"drain", "abandon"} /\ scan[Owner] < NumThreads
      BY <2>1 DEF SweepPops, OwnerFree
    <3>2. Grabs(Owner)
      BY <3>1, PopGrabs DEF Grabs, OwnerPC
    <3>3. QED BY <3>2
  <2>2. CASE WakeAll
    BY <2>2 DEF WakeAll, NotifyAll, SameHands, OwnerHands
  <2>3. CASE Join \/ SweepNextLane
    BY <2>3 DEF Join, SweepNextLane, OwnerFree, Goto, SameHands, OwnerHands
  <2>4. CASE DrainPassEnds \/ DrainReturns \/ AbandonReturns
    BY <2>4 DEF DrainPassEnds, DrainReturns, AbandonReturns, Goto, SameHands, OwnerHands
  <2>5. QED BY <1>7, <2>1, <2>2, <2>3, <2>4 DEF OwnerStep
<1>8. CASE UNCHANGED vars
  BY <1>8 DEF vars, SameHands
<1>9. QED BY <1>1, <1>2, <1>3, <1>4, <1>5, <1>6, <1>7, <1>8 DEF Next, Ended

LEMMA HandsStep ==
  ASSUME PoolAssumption, TypeOK, CallStatus, Hands, OneHolder, OwnerHands, Custody,
         [Next]_vars
  PROVE  Hands' /\ OneHolder' /\ OwnerHands' /\ Custody'
<1> USE PoolAssumption DEF TypeOK, ExecTypes, LaneTypes, Executor, Hands, OneHolder, OwnerHands
<1>1. CASE SameHands
  BY <1>1 DEF SameHands, Custody
<1>2. ASSUME NEW e \in Executor, Grabs(e) PROVE Hands' /\ OneHolder' /\ OwnerHands' /\ Custody'
  <2>1. PICK t \in Task : /\ status[t] = "lane" /\ status' = [status EXCEPT ![t] = "popped"]
                          /\ item' = [item EXCEPT ![e] = t]
    BY <1>2 DEF Grabs
  <2>2. item[e] = NoTask
    BY <1>2 DEF Grabs
  <2>3. \A f \in Executor : item[f] # t
    BY <2>1 DEF Custody, Held
  <2>4. Hands' /\ OwnerHands'
    BY <1>2, <2>1 DEF Grabs
  <2>5. OneHolder'
    BY <2>1, <2>3
  <2>6. Custody'
    BY <2>1, <2>2, <2>3 DEF Custody, Held
  <2>7. QED BY <2>4, <2>5, <2>6
<1>3. ASSUME NEW e \in Executor, LetsGo(e) PROVE Hands' /\ OneHolder' /\ OwnerHands' /\ Custody'
  <2>1. Hands' /\ OwnerHands' /\ OneHolder'
    BY <1>3 DEF LetsGo
  <2>2. Custody'
    BY <1>3 DEF LetsGo, Custody, Held
  <2>3. QED BY <2>1, <2>2
<1>4. QED BY <1>1, <1>2, <1>3, HandKinds
-----------------------------------------------------------------------------
(* The idle wait.  Between the two halves of the predicate, and between the*)
(* predicate and the block, the worker keeps idleMutex.                    *)

IdleMutex == \A w \in Worker : pc[w] \in {"predicate", "block"} <=> idleOwner = w

\* No worker goes to sleep on a stop request that has been announced.
StopHeld == terminate /\ pc[Owner] # "wakeAll" =>
  \A w \in Worker : pc[w] \notin {"predicate", "block", "blocked"}

\* What was queued since a worker about to block found queuedCount at 0 has its
\* notification still to come.
BlockSeesAll == \A w \in Worker : pc[w] = "block" => Queued \subseteq Announcing

LEMMA WorkerSetsFinite ==
  ASSUME PoolAssumption, NEW S \in SUBSET Worker
  PROVE  IsFiniteSet(S) /\ Cardinality(S) \in Nat
<1>1. IsFiniteSet(Worker)
  BY PoolAssumption, FS_Interval DEF Worker
<1>2. QED BY <1>1, FS_Subset, FS_CardinalityType

-----------------------------------------------------------------------------
(* The steps, by what they do to the idle wait.                            *)

\* Steps that move nobody and queue or announce nothing.
StandsStill == /\ UNCHANGED <<pc, idleVars, terminate>>
               /\ Queued' \subseteq Queued /\ Announcing' = Announcing

\* A worker moves outside the idle wait; a lane loses a task to it, or none.
Outside == {"loop", "pop", "recheck", "steal", "idle"}
Roams(w) == /\ pc[w] \in Outside
            /\ \E to \in Outside \cup {"exited"} : /\ pc' = [pc EXCEPT ![w] = to]
                                                   /\ to = "exited" => terminate
            /\ UNCHANGED <<call, status, idleVars, terminate>>
TakesOne(w) == /\ pc[w] \in Outside /\ pc' = [pc EXCEPT ![w] = "task"]
               /\ \E t \in Queued : status' = [status EXCEPT ![t] = "popped"]
               /\ UNCHANGED <<call, idleVars, terminate>>
ComesBack(w) == /\ pc[w] = "task" /\ pc' = [pc EXCEPT ![w] = "loop"]
                /\ Queued' = Queued /\ UNCHANGED <<call, idleVars, terminate>>
WakesUp(w) == /\ pc[w] = "blocked"
              /\ \E to \in {"lock", "leave"} : pc' = [pc EXCEPT ![w] = to]
              /\ UNCHANGED <<call, status, idleVars, terminate>>
IdleStep(w) == EnterIdle(w) \/ LockIdle(w) \/ Predicate(w) \/ Block(w) \/ LeaveIdle(w)

\* The owner moves; a new stop request puts it before its notify_all.
OwnerMoves ==
  /\ \E to \in OwnerPC :
       /\ pc' = [pc EXCEPT ![Owner] = to]
       /\ to = "wakeAll" \/ (pc[Owner] # "wakeAll" /\ terminate' = terminate)
  /\ terminate => terminate'
  /\ UNCHANGED <<call, status, idleVars>>

CallWakes(t) == PushTask(t) \/ Gate(t) \/ NotifyOne(t)
WakeKinds ==
  \/ StandsStill \/ OwnerMoves \/ WakeAll
  \/ \E t \in Task : CallWakes(t)
  \/ \E w \in Worker : Roams(w) \/ TakesOne(w) \/ ComesBack(w) \/ WakesUp(w) \/ IdleStep(w)

LEMMA StepWakeKinds ==
  ASSUME PoolAssumption, TypeOK, CallStatus, Hands, [Next]_vars
  PROVE  WakeKinds
<1> USE PoolAssumption DEF TypeOK, ExecTypes, LaneTypes, CallTypes, Executor, WakeKinds,
      laneVars, idleVars, execVars, callVars
<1>1. ASSUME NEW t \in Task, Enqueue(t) \/ EnqueueStep(t) PROVE WakeKinds
  <2>1. CASE PushTask(t) \/ Gate(t) \/ NotifyOne(t)
    BY <2>1 DEF CallWakes
  <2>2. CASE Enqueue(t) \/ RegisterTag(t) \/ CountTask(t)
    BY <2>2 DEF Enqueue, RegisterTag, CountTask, UnchangedByCall, StandsStill, Queued, Announcing
  <2>3. CASE PushThrows(t) \/ UndoRegister(t)
    BY <2>3 DEF PushThrows, UndoRegister, UnchangedByCall, StandsStill, Queued, Announcing
  <2>4. QED BY <1>1, <2>1, <2>2, <2>3 DEF EnqueueStep
<1>2. ASSUME NEW e \in Executor, TaskStep(e) PROVE WakeKinds
  <2>1. item[e] \in Task
    BY <1>2 DEF TaskStep, Decrement, Decide, BodyBegins, BodyEnds, Complete, MayComplete, HoldsTask
  <2>2. CASE Decrement(e) \/ Decide(e) \/ BodyBegins(e) \/ BodyEnds(e)
    BY <2>1, <2>2 DEF Decrement, Decide, BodyBegins, BodyEnds, HoldsTask, UnchangedByTask, StandsStill,
       Queued, Announcing
  <2>3. CASE Complete(e)
    <3>1. Queued' = Queued /\ UNCHANGED <<call, idleVars, terminate>>
      BY <2>1, <2>3 DEF Complete, MayComplete, HoldsTask, UnchangedByTask, Queued
    <3>2. CASE e = Owner
      <4>1. pc' = pc
        BY <2>3, <3>2 DEF Complete
      <4>2. QED BY <3>1, <4>1 DEF StandsStill, Announcing
    <3>3. CASE e # Owner
      BY <2>1, <2>3, <3>1, <3>3 DEF Complete, ComesBack, Hands
    <3>4. QED BY <3>2, <3>3
  <2>4. QED BY <1>2, <2>2, <2>3 DEF TaskStep
<1>3. ASSUME NEW w \in Worker, WorkerStep(w) PROVE WakeKinds
  <2>1. CASE PopOwn(w) \/ Steal(w)
    <3>1. PICK l : TryPop(w, l)
      BY <2>1 DEF PopOwn, Steal
    <3>2. \E t \in Queued : status' = [status EXCEPT ![t] = "popped"]
      BY <3>1, PopGrabs DEF Queued
    <3>3. TakesOne(w)
      BY <2>1, <3>2 DEF PopOwn, Steal, Goto, UnchangedByWorker, TakesOne, Outside
    <3>4. QED BY <3>3
  <2>2. CASE Loop(w) \/ OwnEmpty(w) \/ Recheck(w) \/ StealNone(w)
    BY <2>2 DEF Loop, OwnEmpty, Recheck, StealNone, PcOnly, Goto, UnchangedByWorker, Roams, Outside
  <2>3. CASE StealNext(w)
    BY <2>3 DEF StealNext, UnchangedByWorker, StandsStill, Queued, Announcing
  <2>4. CASE IdleStep(w)
    BY <2>4
  <2>5. QED BY <1>3, <2>1, <2>2, <2>3, <2>4 DEF WorkerStep, IdleStep
<1>4. ASSUME NEW w \in Worker, SpuriousWake(w) \/ Timeout(w) PROVE WakeKinds
  BY <1>4 DEF SpuriousWake, Timeout, PcOnly, Goto, UnchangedByWorker, WakesUp
<1>5. ASSUME NEW g \in Tag, RetireBegin(g) \/ RetireStep(g) \/ RetireSpurious(g)
      PROVE  WakeKinds
  <2>1. CASE RetireSweep(g)
    BY <2>1 DEF RetireSweep, RemoveFromLane, InLane, UnchangedByRetire, StandsStill, Queued,
       Announcing
  <2>2. CASE RetireSubtract(g) \/ RetireSettle(g)
    BY <2>2 DEF RetireSubtract, RetireSettle, SweptBy, UnchangedByRetire, StandsStill, Queued,
       Announcing
  <2>3. CASE RetireBegin(g) \/ RetireWake(g) \/ RetireSpurious(g)
    BY <2>3 DEF RetireBegin, RetireWake, RetireSpurious, UnchangedByRetire, StandsStill, Queued,
       Announcing
  <2>4. QED BY <1>5, <2>1, <2>2, <2>3 DEF RetireStep
<1>6. ASSUME NEW m, ExplicitShutdown(m) \/ Destructor(m) PROVE WakeKinds
  BY <1>6 DEF ExplicitShutdown, Destructor, Shutdown, Goto, UnchangedByOwner, OwnerMoves, OwnerPC
<1>7. ASSUME OwnerStep PROVE WakeKinds
  <2>1. CASE SweepPops
    <3>1. \E t \in Queued : status' = [status EXCEPT ![t] = "popped"]
      BY <2>1, PopGrabs DEF SweepPops, Queued
    <3>2. QED BY <2>1, <3>1 DEF SweepPops, UnchangedByOwner, StandsStill, Queued, Announcing
  <2>2. CASE WakeAll
    BY <2>2
  <2>3. CASE SweepNextLane
    BY <2>3 DEF SweepNextLane, UnchangedByOwner, StandsStill, Queued, Announcing
  <2>4. CASE Join \/ DrainPassEnds \/ DrainReturns \/ AbandonReturns
    BY <2>4 DEF Join, DrainPassEnds, DrainReturns, AbandonReturns, Goto, UnchangedByOwner,
       OwnerMoves, OwnerPC
  <2>5. QED BY <1>7, <2>1, <2>2, <2>3, <2>4 DEF OwnerStep
<1>8. CASE UNCHANGED vars
  BY <1>8 DEF vars, StandsStill, Queued, Announcing
<1>9. QED BY <1>1, <1>2, <1>3, <1>4, <1>5, <1>6, <1>7, <1>8 DEF Next, Ended

-----------------------------------------------------------------------------
(* The mutex and the stop request.                                         *)

LEMMA IdleMutexStep ==
  ASSUME PoolAssumption, TypeOK, CallStatus, Hands, IdleMutex, [Next]_vars
  PROVE  IdleMutex'
<1> USE PoolAssumption DEF IdleMutex, TypeOK, ExecTypes, CountTypes, Executor, idleVars
<1>1. CASE StandsStill \/ OwnerMoves
  BY <1>1 DEF StandsStill, OwnerMoves
<1>2. CASE WakeAll
  BY <1>2 DEF WakeAll, NotifyAll, UnchangedByOwner
<1>3. ASSUME NEW t \in Task, CallWakes(t) PROVE IdleMutex'
  <2>1. UNCHANGED idleVars /\ (UNCHANGED pc \/ \E w \in Blocked : pc' = [pc EXCEPT ![w] = "lock"])
    BY <1>3 DEF CallWakes, PushTask, Gate, NotifyOne, UnchangedByCall, execVars
  <2>2. QED BY <2>1 DEF Blocked
<1>4. ASSUME NEW w \in Worker, Roams(w) \/ TakesOne(w) \/ ComesBack(w) \/ WakesUp(w)
      PROVE  IdleMutex'
  BY <1>4 DEF Roams, TakesOne, ComesBack, WakesUp, Outside
<1>5. ASSUME NEW w \in Worker, IdleStep(w) PROVE IdleMutex'
  BY <1>5 DEF IdleStep, EnterIdle, LockIdle, Predicate, Block, LeaveIdle, Goto
<1>6. QED BY <1>1, <1>2, <1>3, <1>4, <1>5, StepWakeKinds DEF WakeKinds

LEMMA StopHeldStep ==
  ASSUME PoolAssumption, TypeOK, CallStatus, Hands, IdleMutex, StopHeld, [Next]_vars
  PROVE  StopHeld'
<1> USE PoolAssumption DEF StopHeld, TypeOK, ExecTypes, Executor, idleVars
<1>1. CASE StandsStill \/ OwnerMoves
  BY <1>1 DEF StandsStill, OwnerMoves
<1>2. CASE WakeAll
  BY <1>2 DEF WakeAll, NotifyAll, UnchangedByOwner, IdleMutex
<1>3. ASSUME NEW t \in Task, CallWakes(t) PROVE StopHeld'
  <2>1. /\ UNCHANGED terminate
        /\ UNCHANGED pc \/ \E w \in Blocked : pc' = [pc EXCEPT ![w] = "lock"]
    BY <1>3 DEF CallWakes, PushTask, Gate, NotifyOne, UnchangedByCall, execVars
  <2>2. QED BY <2>1 DEF Blocked
<1>4. ASSUME NEW w \in Worker, Roams(w) \/ TakesOne(w) \/ ComesBack(w) \/ WakesUp(w)
      PROVE  StopHeld'
  BY <1>4 DEF Roams, TakesOne, ComesBack, WakesUp, Outside
<1>5. ASSUME NEW w \in Worker, IdleStep(w) PROVE StopHeld'
  BY <1>5 DEF IdleStep, EnterIdle, LockIdle, Predicate, Block, LeaveIdle, Goto, StopSeen,
     UnchangedByWorker
<1>6. QED BY <1>1, <1>2, <1>3, <1>4, <1>5, StepWakeKinds DEF WakeKinds

-----------------------------------------------------------------------------
(* idleCount.                                                              *)

LEMMA IdleCountStep ==
  ASSUME PoolAssumption, TypeOK, CallStatus, Hands, IdleCountExact, [Next]_vars
  PROVE  IdleCountExact'
<1> USE PoolAssumption DEF IdleCountExact, TypeOK, ExecTypes, CountTypes, Executor, idleVars
<1>1. ASSUME InIdleWait' = InIdleWait, idleCount' = idleCount PROVE IdleCountExact'
  BY <1>1
<1>2. InIdleWait \in SUBSET Worker /\ IsFiniteSet(InIdleWait) /\ Cardinality(InIdleWait) \in Nat
  BY WorkerSetsFinite DEF InIdleWait
<1>3. CASE StandsStill \/ OwnerMoves
  BY <1>1, <1>3 DEF StandsStill, OwnerMoves, InIdleWait
<1>4. CASE WakeAll
  BY <1>1, <1>4 DEF WakeAll, NotifyAll, UnchangedByOwner, InIdleWait
<1>5. ASSUME NEW t \in Task, CallWakes(t) PROVE IdleCountExact'
  <2>1. UNCHANGED idleVars /\ (UNCHANGED pc \/ \E w \in Blocked : pc' = [pc EXCEPT ![w] = "lock"])
    BY <1>5 DEF CallWakes, PushTask, Gate, NotifyOne, UnchangedByCall, execVars
  <2>2. QED BY <1>1, <2>1 DEF Blocked, InIdleWait
<1>6. ASSUME NEW w \in Worker, Roams(w) \/ TakesOne(w) \/ ComesBack(w) \/ WakesUp(w)
      PROVE  IdleCountExact'
  BY <1>1, <1>6 DEF Roams, TakesOne, ComesBack, WakesUp, Outside, InIdleWait
<1>7. ASSUME NEW w \in Worker, LockIdle(w) \/ Predicate(w) \/ Block(w) PROVE IdleCountExact'
  BY <1>1, <1>7 DEF LockIdle, Predicate, Block, Goto, InIdleWait
<1>8. ASSUME NEW w \in Worker, EnterIdle(w) PROVE IdleCountExact'
  <2>1. w \notin InIdleWait /\ InIdleWait' = InIdleWait \cup {w}
    BY <1>8 DEF EnterIdle, Goto, InIdleWait
  <2>2. Cardinality(InIdleWait') = Cardinality(InIdleWait) + 1
    BY <1>2, <2>1, FS_AddElement
  <2>3. QED BY <1>8, <2>2 DEF EnterIdle
<1>9. ASSUME NEW w \in Worker, LeaveIdle(w) PROVE IdleCountExact'
  <2>1. w \in InIdleWait /\ InIdleWait' = InIdleWait \ {w}
    BY <1>9 DEF LeaveIdle, Goto, InIdleWait
  <2>2. Cardinality(InIdleWait') = Cardinality(InIdleWait) - 1
    BY <1>2, <2>1, FS_RemoveElement
  <2>3. QED BY <1>9, <2>2 DEF LeaveIdle
<1>10. QED BY <1>3, <1>4, <1>5, <1>6, <1>7, <1>8, <1>9, StepWakeKinds DEF WakeKinds, IdleStep

-----------------------------------------------------------------------------
(* One notification per task.                                              *)

\* A push, its gate and its notify_one, seen from the lanes and the announcers.
LEMMA AnnounceStep ==
  ASSUME TypeOK, CallStatus, NEW t \in Task, CallWakes(t)
  PROVE  \/ /\ t \notin Queued /\ t \notin Announcing
            /\ Queued' = Queued \cup {t} /\ Announcing' = Announcing \cup {t}
            /\ UNCHANGED <<pc, idleVars, terminate>>
         \/ /\ Queued' = Queued /\ Announcing' = Announcing /\ UNCHANGED <<pc, idleVars, terminate>>
         \/ /\ ~SomeoneIdle \/ (idleOwner = NoWorker /\ Blocked = {})
            /\ Queued' = Queued /\ t \in Announcing /\ Announcing' = Announcing \ {t}
            /\ UNCHANGED <<pc, idleVars, terminate>>
         \/ /\ idleOwner = NoWorker
            /\ \E w \in Blocked : pc' = [pc EXCEPT ![w] = "lock"]
            /\ Queued' = Queued /\ t \in Announcing /\ Announcing' = Announcing \ {t}
            /\ UNCHANGED <<idleVars, terminate>>
<1> USE DEF TypeOK, CallTypes, LaneTypes, CountTypes, Queued, Announcing, laneVars, execVars
<1>1. CASE PushTask(t)
  BY <1>1 DEF PushTask, PushBack, CallStatus, UnchangedByCall
<1>2. CASE Gate(t) /\ SomeoneIdle
  BY <1>2 DEF Gate, UnchangedByCall
<1>3. CASE Gate(t) /\ ~SomeoneIdle
  BY <1>3 DEF Gate, UnchangedByCall
<1>4. CASE NotifyOne(t)
  BY <1>4 DEF NotifyOne
<1>5. QED BY <1>1, <1>2, <1>3, <1>4 DEF CallWakes

LEMMA BlockSeesAllStep ==
  ASSUME PoolAssumption, TypeOK, CallStatus, Hands, QueuedCountExact, IdleMutex,
         IdleCountExact, BlockSeesAll, [Next]_vars
  PROVE  BlockSeesAll'
<1> USE PoolAssumption DEF BlockSeesAll, TypeOK, ExecTypes, Executor, idleVars
<1>1. CASE StandsStill
  BY <1>1 DEF StandsStill
<1>2. CASE OwnerMoves
  BY <1>2 DEF OwnerMoves, Queued, Announcing
<1>3. CASE WakeAll
  BY <1>3 DEF WakeAll, NotifyAll, UnchangedByOwner, laneVars, callVars, Queued, Announcing
<1>4. ASSUME NEW t \in Task, CallWakes(t) PROVE BlockSeesAll'
  <2>1. ASSUME NEW w \in Worker, pc[w] = "block" PROVE idleOwner # NoWorker /\ SomeoneIdle
    <3>1. InIdleWait \in SUBSET Worker /\ w \in InIdleWait
      BY <2>1 DEF InIdleWait
    <3>2. Cardinality(InIdleWait) \in Nat /\ Cardinality(InIdleWait) # 0
      BY <3>1, WorkerSetsFinite, FS_EmptySet
    <3>3. QED BY <2>1, <3>2 DEF IdleMutex, IdleCountExact, SomeoneIdle
  <2>2. \A w \in Worker : pc'[w] = "block" => pc[w] = "block"
    BY <1>4, AnnounceStep DEF Blocked
  <2>3. \A w \in Worker : pc[w] = "block" => Queued' \subseteq Announcing'
    BY <1>4, <2>1, AnnounceStep
  <2>4. QED BY <2>2, <2>3
<1>5. ASSUME NEW w \in Worker, Roams(w) \/ TakesOne(w) PROVE BlockSeesAll'
  <2>1. Queued' \subseteq Queued /\ Announcing' = Announcing
    BY <1>5 DEF Roams, TakesOne, LaneTypes, Queued, Announcing
  <2>2. QED BY <1>5, <2>1 DEF Roams, TakesOne, Outside
<1>6. ASSUME NEW w \in Worker, ComesBack(w) \/ WakesUp(w) PROVE BlockSeesAll'
  BY <1>6 DEF ComesBack, WakesUp, Queued, Announcing
<1>7. ASSUME NEW w \in Worker, IdleStep(w) PROVE BlockSeesAll'
  <2>1. Queued' = Queued /\ Announcing' = Announcing
    BY <1>7 DEF IdleStep, EnterIdle, LockIdle, Predicate, Block, LeaveIdle, UnchangedByWorker,
       laneVars, callVars, Queued, Announcing
  <2>2. CASE Predicate(w) /\ ~WorkSeen
    <3>1. Counted \in SUBSET Task
      BY DEF Counted
    <3>2. Cardinality(Counted) = 0
      BY <2>2, <3>1, TaskSetsFinite DEF WorkSeen, QueuedCountExact
    <3>3. Counted = {}
      BY <3>1, <3>2, TaskSetsFinite, FS_EmptySet
    <3>4. Queued = {}
      BY <3>3 DEF Queued, Counted
    <3>5. QED BY <2>1, <3>4
  <2>3. CASE ~(Predicate(w) /\ ~WorkSeen)
    <3>1. \A v \in Worker : pc'[v] = "block" => pc[v] = "block"
      BY <1>7, <2>3 DEF IdleStep, EnterIdle, LockIdle, Predicate, Block, LeaveIdle, Goto
    <3>2. QED BY <2>1, <3>1
  <2>4. QED BY <2>2, <2>3
<1>8. QED BY <1>1, <1>2, <1>3, <1>4, <1>5, <1>6, <1>7, StepWakeKinds DEF WakeKinds

LEMMA WorkConservingStep ==
  ASSUME PoolAssumption, TypeOK, CallStatus, Hands, IdleCountExact, BlockSeesAll,
         WorkConserving, [Next]_vars
  PROVE  WorkConserving'
<1> DEFINE Supply == Cardinality(Searching) + Cardinality(Announcing)
<1> USE PoolAssumption DEF TypeOK, ExecTypes, Executor, idleVars
<1> SUFFICES ASSUME Blocked' # {}, ~terminate'
             PROVE  Cardinality(Queued') <= Cardinality(Searching') + Cardinality(Announcing')
  BY DEF WorkConserving
<1>1. /\ Queued \in SUBSET Task /\ Queued' \in SUBSET Task
      /\ Announcing \in SUBSET Task /\ Announcing' \in SUBSET Task
      /\ Searching \in SUBSET Worker /\ Searching' \in SUBSET Worker
  BY DEF Queued, Announcing, Searching
<1>2. /\ Cardinality(Queued) \in Nat /\ Cardinality(Queued') \in Nat
      /\ Cardinality(Announcing) \in Nat /\ Cardinality(Announcing') \in Nat
      /\ Cardinality(Searching) \in Nat /\ Cardinality(Searching') \in Nat
      /\ IsFiniteSet(Queued) /\ IsFiniteSet(Searching) /\ IsFiniteSet(Announcing)
      /\ IsFiniteSet(Announcing') /\ IsFiniteSet(Searching')
  BY <1>1, TaskSetsFinite, WorkerSetsFinite
<1>3. ASSUME Blocked # {}, ~terminate PROVE Cardinality(Queued) <= Supply
  BY <1>3 DEF WorkConserving
<1>4. ASSUME Blocked # {}, ~terminate, Queued' \subseteq Queued, Announcing' = Announcing,
             Searching \subseteq Searching'
      PROVE  Cardinality(Queued') <= Cardinality(Searching') + Cardinality(Announcing')
  <2>1. Cardinality(Queued') <= Cardinality(Queued)
    BY <1>2, <1>4, FS_Subset
  <2>2. Cardinality(Searching) <= Cardinality(Searching')
    BY <1>2, <1>4, FS_Subset
  <2>3. QED BY <1>2, <1>3, <1>4, <2>1, <2>2
<1>5. CASE StandsStill
  BY <1>4, <1>5 DEF StandsStill, Searching, Blocked
<1>6. CASE OwnerMoves
  BY <1>4, <1>6 DEF OwnerMoves, Searching, Blocked, Queued, Announcing
<1>7. CASE WakeAll
  BY <1>7 DEF WakeAll, NotifyAll, Blocked
<1>8. ASSUME NEW t \in Task, CallWakes(t)
      PROVE  Cardinality(Queued') <= Cardinality(Searching') + Cardinality(Announcing')
  <2>1. terminate' = terminate /\ Blocked # {}
    BY <1>8, AnnounceStep DEF Blocked
  <2>2. CASE /\ t \notin Queued /\ t \notin Announcing
             /\ Queued' = Queued \cup {t} /\ Announcing' = Announcing \cup {t}
             /\ UNCHANGED <<pc, idleVars, terminate>>
    <3>1. Cardinality(Queued') = Cardinality(Queued) + 1
      BY <1>2, <2>2, FS_AddElement
    <3>2. Cardinality(Announcing') = Cardinality(Announcing) + 1
      BY <1>2, <2>2, FS_AddElement
    <3>3. Searching' = Searching
      BY <2>2 DEF Searching
    <3>4. QED BY <1>2, <1>3, <2>1, <3>1, <3>2, <3>3
  <2>3. CASE Queued' = Queued /\ Announcing' = Announcing /\ UNCHANGED <<pc, idleVars, terminate>>
    BY <1>4, <2>1, <2>3 DEF Searching
  <2>4. SomeoneIdle
    <3>1. InIdleWait \in SUBSET Worker /\ InIdleWait # {}
      BY <2>1 DEF InIdleWait, Blocked
    <3>2. Cardinality(InIdleWait) \in Nat /\ Cardinality(InIdleWait) # 0
      BY <3>1, WorkerSetsFinite, FS_EmptySet
    <3>3. QED BY <3>2 DEF IdleCountExact, SomeoneIdle
  <2>5. CASE /\ idleOwner = NoWorker
             /\ \E w \in Blocked : pc' = [pc EXCEPT ![w] = "lock"]
             /\ Queued' = Queued /\ t \in Announcing /\ Announcing' = Announcing \ {t}
             /\ UNCHANGED <<idleVars, terminate>>
    <3>1. Cardinality(Announcing') = Cardinality(Announcing) - 1
      BY <1>2, <2>5, FS_RemoveElement
    <3>2. PICK w \in Blocked : pc' = [pc EXCEPT ![w] = "lock"]
      BY <2>5
    <3>3. w \notin Searching /\ Searching' = Searching \cup {w}
      BY <3>2 DEF Blocked, Searching
    <3>4. Cardinality(Searching') = Cardinality(Searching) + 1
      BY <1>2, <3>3, FS_AddElement
    <3>5. QED BY <1>2, <1>3, <2>1, <2>5, <3>1, <3>4
  <2>6. QED BY <1>8, <2>1, <2>2, <2>3, <2>4, <2>5, AnnounceStep
<1>9. ASSUME NEW w \in Worker, Roams(w)
      PROVE  Cardinality(Queued') <= Cardinality(Searching') + Cardinality(Announcing')
  BY <1>4, <1>9 DEF Roams, Outside, Searching, Blocked, Queued, Announcing
<1>10. ASSUME NEW w \in Worker, TakesOne(w)
       PROVE  Cardinality(Queued') <= Cardinality(Searching') + Cardinality(Announcing')
  <2>1. PICK t \in Queued : status' = [status EXCEPT ![t] = "popped"]
    BY <1>10 DEF TakesOne
  <2>2. Queued' = Queued \ {t}
    BY <2>1 DEF Queued, LaneTypes
  <2>3. Cardinality(Queued') = Cardinality(Queued) - 1
    BY <1>2, <2>1, <2>2, FS_RemoveElement
  <2>4. w \in Searching /\ Searching' = Searching \ {w}
    BY <1>10 DEF TakesOne, Outside, Searching
  <2>5. Cardinality(Searching') = Cardinality(Searching) - 1
    BY <1>2, <2>4, FS_RemoveElement
  <2>6. Announcing' = Announcing /\ terminate' = terminate /\ Blocked # {}
    BY <1>10 DEF TakesOne, Announcing, Blocked, Outside
  <2>7. QED BY <1>2, <1>3, <2>3, <2>5, <2>6
<1>11. ASSUME NEW w \in Worker, ComesBack(w) \/ WakesUp(w)
       PROVE  Cardinality(Queued') <= Cardinality(Searching') + Cardinality(Announcing')
  BY <1>4, <1>11 DEF ComesBack, WakesUp, Searching, Blocked, Queued, Announcing
<1>12. ASSUME NEW w \in Worker, IdleStep(w)
       PROVE  Cardinality(Queued') <= Cardinality(Searching') + Cardinality(Announcing')
  <2>1. Queued' = Queued /\ Announcing' = Announcing /\ terminate' = terminate
    BY <1>12 DEF IdleStep, EnterIdle, LockIdle, Predicate, Block, LeaveIdle, UnchangedByWorker,
       laneVars, callVars, Queued, Announcing
  <2>2. CASE Block(w)
    <3>1. Queued \subseteq Announcing
      BY <2>2 DEF Block, Goto, BlockSeesAll
    <3>2. Cardinality(Queued) <= Cardinality(Announcing)
      BY <1>2, <3>1, FS_Subset
    <3>3. QED BY <1>2, <2>1, <3>2
  <2>3. CASE ~Block(w)
    <3>1. Searching' = Searching /\ Blocked' = Blocked
      BY <1>12, <2>3 DEF IdleStep, EnterIdle, LockIdle, Predicate, LeaveIdle, Goto, Searching,
         Blocked
    <3>2. QED BY <1>4, <2>1, <3>1
  <2>4. QED BY <2>2, <2>3
<1>13. QED BY <1>5, <1>6, <1>7, <1>8, <1>9, <1>10, <1>11, <1>12, StepWakeKinds DEF WakeKinds

-----------------------------------------------------------------------------
(* The inductive invariant and what follows from it.                       *)

Workers == /\ Accounts /\ Hands /\ OneHolder /\ OwnerHands /\ Custody
           /\ IdleMutex /\ StopHeld /\ IdleCountExact /\ BlockSeesAll /\ WorkConserving

LEMMA WorkersInit == Init => Workers
<1> SUFFICES ASSUME Init PROVE Workers  OBVIOUS
<1>1. Accounts
  BY AccountsInit
<1>2. Hands /\ OneHolder /\ OwnerHands /\ Custody
  BY PoolAssumption DEF Init, Hands, OneHolder, OwnerHands, Custody, Executor, Held
<1>3. IdleMutex /\ StopHeld /\ BlockSeesAll
  BY PoolAssumption DEF Init, IdleMutex, StopHeld, BlockSeesAll, Executor
<1>4. Blocked = {} /\ InIdleWait = {}
  BY PoolAssumption DEF Init, Blocked, InIdleWait, Executor
<1>5. IdleCountExact /\ WorkConserving
  BY <1>4, FS_EmptySet DEF Init, IdleCountExact, WorkConserving
<1>6. QED BY <1>1, <1>2, <1>3, <1>5 DEF Workers

LEMMA WorkersNext == Workers /\ [Next]_vars => Workers'
<1> SUFFICES ASSUME Workers, [Next]_vars PROVE Workers'  OBVIOUS
<1> USE PoolAssumption DEF Workers, Accounts
<1>1. Accounts'
  BY AccountsNext
<1>2. Hands' /\ OneHolder' /\ OwnerHands' /\ Custody'
  BY HandsStep
<1>3. IdleMutex' /\ StopHeld' /\ IdleCountExact'
  BY IdleMutexStep, StopHeldStep, IdleCountStep
<1>4. BlockSeesAll' /\ WorkConserving'
  BY BlockSeesAllStep, WorkConservingStep
<1>5. QED BY <1>1, <1>2, <1>3, <1>4

LEMMA WorkersHold == Spec => []Workers
BY WorkersInit, WorkersNext, PTL DEF Spec

\* No two of the workers and the sweeping owner ever hold, hence run, the same
\* task, and no popped task gets lost between a lane and its executor.
THEOREM CustodyCorrect == Spec => []Custody
<1>1. Workers => Custody
  BY DEF Workers
<1>2. QED BY <1>1, WorkersHold, PTL

\* idleCount is the number of workers inside the idle wait, whoever ended it:
\* the predicate, a notification, a spurious wakeup or the timeout.
THEOREM IdleCountCorrect == Spec => []IdleCountExact
<1>1. Workers => IdleCountExact
  BY DEF Workers
<1>2. QED BY <1>1, WorkersHold, PTL

\* Once requestWorkersStop has notified, no worker is blocked in the idle wait
\* and none ever blocks again: the stop request is not lost.
THEOREM StopReachesAllWorkers == Spec => []StopReachesAll
<1>1. Workers => StopReachesAll
  BY DEF Workers, StopHeld, StopReachesAll, Blocked
<1>2. QED BY <1>1, WorkersHold, PTL

\* enqueue() may skip the lock when nobody is idle, and one notify_one per task
\* is enough: while a worker sleeps, every queued task has a searching worker or
\* a coming notification of its own.
THEOREM NotifyOneSuffices == Spec => []WorkConserving
<1>1. Workers => WorkConserving
  BY DEF Workers
<1>2. QED BY <1>1, WorkersHold, PTL

-----------------------------------------------------------------------------
(* The shutdown calls.                                                     *)

\* No client calls enqueue(), or retire(), while a shutdown call runs or after it.
NoClientEnqueues == "enqueue-shutdown" \notin Overlap
NoClientRetires == "retire-shutdown" \notin Overlap

\* So from the first shutdown call on, only the bodies of tasks submit work ...
ClientsDone == mode # "none" =>
  \A t \in Task \ Spawned : call[t] \in {"idle", "returned"}
RetiresDone == mode # "none" => \A g \in Tag : rpc[g] \in {"idle", "returned"}

\* ... and such a call belongs to a body that is running.
BodyCalls == \A t \in Spawned : call[t] \notin {"idle", "returned"} =>
  \E p \in Task : t \in Spawns[p] /\ status[p] = "running"

\* Which phases of which shutdown call the owner can be in.
OwnerPhase ==
  /\ pc[Owner] # "idle" => mode # "none"
  /\ pc[Owner] = "abandon" => mode = "abandon"
  /\ pc[Owner] = "join" => mode # "abandon"
  /\ pc[Owner] \in {"drain", "drained"} => mode = "drain" /\ threads = "joined"
  /\ mode = "none" => threads = "live"
  /\ mode = "drain" => threads # "detached"
  /\ pc[Owner] \notin {"drain", "abandon"} => scan[Owner] = 0

Joined == threads = "joined" => \A w \in Worker : pc[w] = "exited"

\* A drain pass that has found no task has left nothing behind it, and a drain
\* that is over has left nothing at all.
DrainPass ==
  /\ pc[Owner] = "drain" /\ ~drainedAny =>
       item[Owner] = NoTask /\ \A t \in Queued : laneOf[t] >= scan[Owner]
  /\ pc[Owner] = "drained" => Queued = {}

\* The abandoning pass leaves behind it what running bodies spawned.
AbandonPass ==
  /\ pc[Owner] = "abandon" => \A t \in Queued \ Spawned : laneOf[t] >= scan[Owner]
  /\ mode = "abandon" /\ pc[Owner] = "idle" => Queued \subseteq Spawned

-----------------------------------------------------------------------------
(* The steps, by what they do to the calls and to the lanes.               *)

\* A call begins, or one in progress takes a step; the calls of others rest.
CallMoves(t) ==
  /\ \/ call[t] = "idle" /\ MayCall(t)
     \/ call[t] \notin {"idle", "returned"}
  /\ \E to \in CallPC : call' = [call EXCEPT ![t] = to]

LEMMA CallSteps ==
  ASSUME TypeOK, CallStatus, [Next]_vars
  PROVE  UNCHANGED call \/ \E t \in Task : CallMoves(t)
<1>1. ASSUME NEW t \in Task, CallKind(t) PROVE CallMoves(t)
  BY <1>1 DEF CallKind, Enqueue, RegisterTag, CountTask, PushTask, PushThrows, UndoRegister,
     CallEnds, CallMoves, CallPC
<1>2. ASSUME NEW t \in Task, TaskKind(t) PROVE UNCHANGED call
  BY <1>2 DEF TaskKind, Pops, Uncounts, Advances, Settles
<1>3. ASSUME NEW g \in Tag, RetireKind(g) PROVE UNCHANGED call
  BY <1>3 DEF RetireKind, RetireStep, RetireBegin, RetireSweep, RetireSubtract, RetireSettle,
     RetireWake, RetireSpurious, UnchangedByRetire, callVars
<1>4. QED BY <1>1, <1>2, <1>3, StepKinds DEF acctVars

\* Only a push puts a task into a lane, and a queued task stays in its lane.
LEMMA LaneSteps ==
  ASSUME PoolAssumption, TypeOK, CallStatus, [Next]_vars
  PROVE  \/ \E t \in Task : PushTask(t)
         \/ \A t \in Queued' : t \in Queued /\ laneOf'[t] = laneOf[t]
<1> DEFINE Kinds == \/ \E t \in Task : PushTask(t)
                    \/ \A t \in Queued' : t \in Queued /\ laneOf'[t] = laneOf[t]
<1> USE DEF TypeOK, LaneTypes, laneVars, Queued
<1>1. ASSUME NEW e, NEW l, TryPop(e, l) PROVE Kinds
  BY <1>1 DEF TryPop, RemoveFromLane
<1>2. ASSUME NEW t \in Task, Enqueue(t) \/ EnqueueStep(t) PROVE Kinds
  BY <1>2 DEF EnqueueStep, Enqueue, RegisterTag, CountTask, PushThrows, UndoRegister, Gate,
     NotifyOne, CallStatus
<1>3. ASSUME NEW e \in Executor, TaskStep(e) PROVE Kinds
  BY <1>3 DEF TaskStep, Decrement, Decide, BodyBegins, BodyEnds, Complete, MayComplete, HoldsTask,
     UnchangedByTask
<1>4. ASSUME NEW w \in Worker, WorkerStep(w) \/ SpuriousWake(w) \/ Timeout(w) PROVE Kinds
  BY <1>1, <1>4 DEF WorkerStep, Loop, PopOwn, OwnEmpty, Recheck, Steal, StealNext, StealNone,
     EnterIdle, LockIdle, Predicate, Block, LeaveIdle, SpuriousWake, Timeout, PcOnly
<1>5. ASSUME NEW g \in Tag, RetireBegin(g) \/ RetireStep(g) \/ RetireSpurious(g) PROVE Kinds
  BY <1>5 DEF RetireStep, RetireBegin, RetireSweep, RetireSubtract, RetireSettle, RetireWake,
     RetireSpurious, RemoveFromLane
<1>6. ASSUME NEW m, ExplicitShutdown(m) \/ Destructor(m) PROVE Kinds
  BY <1>6 DEF ExplicitShutdown, Destructor, Shutdown
<1>7. ASSUME OwnerStep PROVE Kinds
  BY <1>1, <1>7 DEF OwnerStep, WakeAll, Join, SweepPops, SweepNextLane, DrainPassEnds,
     DrainReturns, AbandonReturns
<1>8. CASE UNCHANGED vars
  BY <1>8 DEF vars
<1>9. QED BY <1>2, <1>3, <1>4, <1>5, <1>6, <1>7, <1>8 DEF Next, Ended

\* What only the owner's own calls change.
ownerSide == <<pc[Owner], scan[Owner], ownerVars>>
ShutdownStep == \/ \E m \in ShutdownCalls : ExplicitShutdown(m)
                \/ \E m \in Policies : Destructor(m)

LEMMA OwnerSteps ==
  ASSUME PoolAssumption, TypeOK, [Next]_vars
  PROVE  \/ OwnerStep \/ ShutdownStep
         \/ UNCHANGED ownerSide /\ item'[Owner] \in {item[Owner], NoTask}
<1> DEFINE Rests == UNCHANGED ownerSide /\ item'[Owner] \in {item[Owner], NoTask}
<1> USE PoolAssumption DEF TypeOK, ExecTypes, Executor, ownerSide, ownerVars, execVars
<1>1. ASSUME NEW t \in Task, Enqueue(t) \/ EnqueueStep(t) PROVE Rests
  <2>1. CASE NotifyOne(t)
    BY <2>1 DEF NotifyOne, Blocked
  <2>2. CASE ~NotifyOne(t)
    BY <1>1, <2>2 DEF EnqueueStep, Enqueue, RegisterTag, CountTask, PushTask, PushThrows,
       UndoRegister, Gate, UnchangedByCall
  <2>3. QED BY <2>1, <2>2
<1>2. ASSUME NEW e \in Executor, TaskStep(e) PROVE Rests
  BY <1>2 DEF TaskStep, Decrement, Decide, BodyBegins, BodyEnds, Complete, UnchangedByTask
<1>3. ASSUME NEW w \in Worker, PopOwn(w) \/ Steal(w) PROVE Rests
  BY <1>3 DEF PopOwn, Steal, TryPop, Goto, UnchangedByWorker
<1>4. ASSUME NEW w \in Worker, Loop(w) \/ OwnEmpty(w) \/ Recheck(w) \/ StealNext(w) \/ StealNone(w)
      PROVE  Rests
  BY <1>4 DEF Loop, OwnEmpty, Recheck, StealNext, StealNone, PcOnly, Goto, UnchangedByWorker
<1>5. ASSUME NEW w \in Worker, IdleStep(w) \/ SpuriousWake(w) \/ Timeout(w) PROVE Rests
  BY <1>5 DEF IdleStep, EnterIdle, LockIdle, Predicate, Block, LeaveIdle, SpuriousWake, Timeout,
     PcOnly, Goto, UnchangedByWorker
<1>6. ASSUME NEW g \in Tag, RetireBegin(g) \/ RetireStep(g) \/ RetireSpurious(g) PROVE Rests
  BY <1>6 DEF RetireStep, RetireBegin, RetireSweep, RetireSubtract, RetireSettle, RetireWake,
     RetireSpurious, UnchangedByRetire
<1>7. CASE UNCHANGED vars
  BY <1>7 DEF vars
<1>8. QED BY <1>1, <1>2, <1>3, <1>4, <1>5, <1>6, <1>7
          DEF Next, WorkerStep, IdleStep, ShutdownStep, Ended

-----------------------------------------------------------------------------
(* Who still calls into the pool.                                          *)

LEMMA ModeSteps ==
  ASSUME PoolAssumption, TypeOK, [Next]_vars
  PROVE  mode' = mode \/ (ShutdownStep /\ ClientsQuiet /\ UNCHANGED <<call, rpc>>)
BY OwnerSteps DEF OwnerStep, WakeAll, Join, SweepPops, SweepNextLane, DrainPassEnds, DrainReturns,
   AbandonReturns, ShutdownStep, ExplicitShutdown, Destructor, Shutdown, UnchangedByOwner,
   ownerSide, ownerVars, callVars, retireVars

LEMMA ClientsDoneStep ==
  ASSUME PoolAssumption, NoClientEnqueues, TypeOK, CallStatus, ClientsDone, [Next]_vars
  PROVE  ClientsDone'
<1> USE DEF ClientsDone, NoClientEnqueues
<1>1. CASE ShutdownStep /\ ClientsQuiet /\ UNCHANGED <<call, rpc>>
  BY <1>1 DEF ClientsQuiet, Spawned
<1>2. CASE mode' = mode /\ mode # "none"
  <2>1. ASSUME NEW t \in Task, CallMoves(t) PROVE t \in Spawned
    BY <1>2, <2>1 DEF CallMoves, MayCall, ClientMay, ShutdownBegun
  <2>2. ASSUME NEW t \in Task \ Spawned PROVE call'[t] = call[t]
    BY <2>1, CallSteps DEF CallMoves, TypeOK, CallTypes
  <2>3. QED BY <1>2, <2>2 DEF Spawned
<1>3. CASE mode' = mode /\ mode = "none"
  BY <1>3
<1>4. QED BY <1>1, <1>2, <1>3, ModeSteps

LEMMA RetiresDoneStep ==
  ASSUME PoolAssumption, NoClientRetires, TypeOK, RetiresDone, [Next]_vars
  PROVE  RetiresDone'
<1> USE DEF RetiresDone, NoClientRetires
<1>1. CASE ShutdownStep /\ ClientsQuiet /\ UNCHANGED <<call, rpc>>
  BY <1>1 DEF ClientsQuiet
<1>2. CASE mode' = mode /\ mode # "none"
  <2> USE DEF TypeOK, RetireTypes
  <2>1. CASE UNCHANGED rpc
    BY <1>2, <2>1
  <2>2. ASSUME NEW t \in Task, CallKind(t) \/ TaskKind(t) PROVE RetiresDone'
    <3>1. UNCHANGED rpc \/ CompleteTaggedTask(t)
      BY <2>2 DEF CallKind, TaskKind, Enqueue, RegisterTag, CountTask, PushTask, PushThrows,
         UndoRegister, CallEnds, Pops, Uncounts, Advances, Settles, UnchangedByCall, retireVars
    <3>2. QED BY <1>2, <3>1, PoolAssumption DEF CompleteTaggedTask, WakesRetire
  <2>3. ASSUME NEW g \in Tag, RetireKind(g) PROVE FALSE
    BY <1>2, <2>3 DEF RetireKind, RetireStep, RetireBegin, RetireSweep, RetireSubtract,
       RetireSettle, RetireWake, RetireSpurious, ShutdownBegun
  <2>4. QED BY <2>1, <2>2, <2>3, StepKinds DEF acctVars
<1>3. CASE mode' = mode /\ mode = "none"
  BY <1>3
<1>4. QED BY <1>1, <1>2, <1>3, ModeSteps

LEMMA BodyCallsStep ==
  ASSUME PoolAssumption, TypeOK, CallStatus, BodyCalls, [Next]_vars
  PROVE  BodyCalls'
<1> USE DEF TypeOK, CallTypes, LaneTypes
<1>1. ASSUME NEW t \in Spawned, call[t] \notin {"idle", "returned"} \/ CallMoves(t)
      PROVE  \E p \in Task : t \in Spawns[p] /\ status[p] = "running"
  <2>1. CASE call[t] \notin {"idle", "returned"}
    BY <2>1 DEF BodyCalls
  <2>2. CASE call[t] \in {"idle", "returned"}
    BY <1>1, <2>2 DEF CallMoves, MayCall, BodyMay
  <2>3. QED BY <2>1, <2>2
<1>2. \A t \in Spawned : call'[t] \notin {"idle", "returned"} =>
        call[t] \notin {"idle", "returned"} \/ CallMoves(t)
  BY CallSteps DEF CallMoves, Spawned
<1>3. ASSUME NEW p \in Task, status[p] = "running", status'[p] # "running"
      PROVE  UNCHANGED call /\ \A c \in Spawns[p] : call[c] \in {"idle", "returned"}
  <2>1. PICK e \in Executor : BodyEnds(e) /\ item[e] = p
    <3>1. ASSUME NEW e \in Executor, TaskStep(e) PROVE BodyEnds(e) /\ item[e] = p
      BY <1>3, <3>1 DEF TaskStep, Decrement, Decide, BodyBegins, BodyEnds, Complete, MayComplete, HoldsTask
    <3>2. ASSUME NEW t \in Task, Enqueue(t) \/ EnqueueStep(t) PROVE FALSE
      BY <1>3, <3>2 DEF EnqueueStep, Enqueue, RegisterTag, CountTask, PushTask, PushBack,
         PushThrows, UndoRegister, Gate, NotifyOne, laneVars, CallStatus
    <3>3. ASSUME NEW w \in Worker, WorkerStep(w) \/ SpuriousWake(w) \/ Timeout(w) PROVE FALSE
      <4>1. ASSUME NEW l, TryPop(w, l) PROVE FALSE
        BY <1>3, <4>1 DEF TryPop, Front, InLane, RemoveFromLane
      <4>2. QED BY <1>3, <3>3, <4>1 DEF WorkerStep, Loop, PopOwn, OwnEmpty, Recheck, Steal,
            StealNext, StealNone, EnterIdle, LockIdle, Predicate, Block, LeaveIdle,
            SpuriousWake, Timeout, PcOnly, laneVars
    <3>4. ASSUME NEW g \in Tag, RetireBegin(g) \/ RetireStep(g) \/ RetireSpurious(g) PROVE FALSE
      BY <1>3, <3>4 DEF RetireStep, RetireBegin, RetireSweep, RetireSubtract, RetireSettle,
         RetireWake, RetireSpurious, RemoveFromLane, InLane, SweptBy, laneVars
    <3>5. ASSUME NEW m, ExplicitShutdown(m) \/ Destructor(m) PROVE FALSE
      BY <1>3, <3>5 DEF ExplicitShutdown, Destructor, Shutdown, laneVars
    <3>6. ASSUME OwnerStep PROVE FALSE
      <4>1. ASSUME NEW l, TryPop(Owner, l) PROVE FALSE
        BY <1>3, <4>1 DEF TryPop, Front, InLane, RemoveFromLane
      <4>2. QED BY <1>3, <3>6, <4>1 DEF OwnerStep, WakeAll, Join, SweepPops, SweepNextLane,
            DrainPassEnds, DrainReturns, AbandonReturns, laneVars
    <3>7. CASE UNCHANGED vars
      BY <1>3, <3>7 DEF vars, laneVars
    <3>8. QED BY <3>1, <3>2, <3>3, <3>4, <3>5, <3>6, <3>7 DEF Next, Ended
  <2>2. QED BY <2>1 DEF BodyEnds, UnchangedByTask, callVars
<1>4. SUFFICES ASSUME NEW t \in Spawned, call'[t] \notin {"idle", "returned"}
               PROVE  \E p \in Task : t \in Spawns[p] /\ status'[p] = "running"
  BY DEF BodyCalls, Spawned
<1>5. PICK p \in Task : t \in Spawns[p] /\ status[p] = "running"
  BY <1>1, <1>2, <1>4
<1>6. status'[p] = "running"
  BY <1>3, <1>4, <1>5
<1>7. QED BY <1>5, <1>6

\* Workers gone and the owner empty-handed, nobody runs a body or submits.
LEMMA NobodyCalls ==
  ASSUME PoolAssumption, Workers, ClientsDone, BodyCalls, Joined,
         mode # "none", threads = "joined", item[Owner] = NoTask
  PROVE  \A t \in Task : status[t] \notin Held /\ call[t] \in {"idle", "returned"}
<1>1. ASSUME NEW e \in Executor PROVE item[e] = NoTask
  BY DEF Workers, Hands, Joined, Executor
<1>2. ASSUME NEW t \in Task PROVE status[t] \notin Held
  BY <1>1, PoolAssumption DEF Workers, Custody
<1>3. ASSUME NEW t \in Task PROVE call[t] \in {"idle", "returned"}
  BY <1>2 DEF ClientsDone, BodyCalls, Held
<1>4. QED BY <1>2, <1>3

-----------------------------------------------------------------------------
(* The owner's phases.                                                     *)

LEMMA OwnerPhaseStep ==
  ASSUME PoolAssumption, TypeOK, OwnerPhase, [Next]_vars
  PROVE  OwnerPhase'
<1> USE PoolAssumption DEF OwnerPhase, TypeOK, ExecTypes, OwnerTypes, Executor
<1>1. CASE UNCHANGED ownerSide
  BY <1>1 DEF ownerSide, ownerVars
<1>2. CASE ShutdownStep
  BY <1>2 DEF ShutdownStep, ExplicitShutdown, Destructor, Shutdown, Goto
<1>3. CASE WakeAll
  BY <1>3 DEF WakeAll, NotifyAll, ownerVars
<1>4. CASE Join
  BY <1>4 DEF Join, Goto
<1>5. CASE SweepPops \/ SweepNextLane
  BY <1>5 DEF SweepPops, SweepNextLane, ownerVars
<1>6. CASE DrainPassEnds \/ DrainReturns
  BY <1>6 DEF DrainPassEnds, DrainReturns, Goto, ownerVars
<1>7. CASE AbandonReturns
  BY <1>7 DEF AbandonReturns, Goto
<1>8. QED BY <1>1, <1>2, <1>3, <1>4, <1>5, <1>6, <1>7, OwnerSteps DEF OwnerStep

LEMMA JoinedStep ==
  ASSUME PoolAssumption, TypeOK, CallStatus, Hands, Joined, [Next]_vars
  PROVE  Joined'
<1> USE PoolAssumption DEF Joined, TypeOK, ExecTypes, Executor
<1>1. ASSUME NEW w \in Worker, pc[w] = "exited" PROVE pc'[w] = "exited"
  <2>1. CASE StandsStill \/ OwnerMoves \/ WakeAll
    BY <1>1, <2>1 DEF StandsStill, OwnerMoves, WakeAll, NotifyAll
  <2>2. ASSUME NEW t \in Task, CallWakes(t) PROVE pc'[w] = "exited"
    BY <1>1, <2>2, AnnounceStep DEF Blocked
  <2>3. ASSUME NEW v \in Worker, Roams(v) \/ TakesOne(v) \/ ComesBack(v) \/ WakesUp(v)
        PROVE  pc'[w] = "exited"
    BY <1>1, <2>3 DEF Roams, TakesOne, ComesBack, WakesUp, Outside
  <2>4. ASSUME NEW v \in Worker, IdleStep(v) PROVE pc'[w] = "exited"
    BY <1>1, <2>4 DEF IdleStep, EnterIdle, LockIdle, Predicate, Block, LeaveIdle, Goto
  <2>5. QED BY <2>1, <2>2, <2>3, <2>4, StepWakeKinds DEF WakeKinds
<1>2. threads' = "joined" => threads = "joined" \/ \A w \in Worker : pc[w] = "exited"
  BY OwnerSteps DEF OwnerStep, WakeAll, Join, SweepPops, SweepNextLane, DrainPassEnds,
     DrainReturns, AbandonReturns, ShutdownStep, ExplicitShutdown, Destructor, Shutdown,
     ownerSide, ownerVars
<1>3. QED BY <1>1, <1>2

-----------------------------------------------------------------------------
(* The sweeps.                                                             *)

LEMMA DrainPassStep ==
  ASSUME PoolAssumption, Workers, ClientsDone, BodyCalls, OwnerPhase, Joined, DrainPass,
         [Next]_vars
  PROVE  DrainPass'
<1> USE PoolAssumption DEF Workers, Accounts, TypeOK, ExecTypes, OwnerTypes, Executor
<1>1. LaneTypes'
  BY TypeNext
<1>2. ASSUME pc[Owner] \in {"drain", "drained"}, item[Owner] = NoTask
      PROVE  \A t \in Queued' : t \in Queued /\ laneOf'[t] = laneOf[t]
  <2>1. ASSUME NEW t \in Task PROVE ~PushTask(t)
    BY <1>2, NobodyCalls DEF OwnerPhase, PushTask
  <2>2. QED BY <2>1, LaneSteps
<1>3. item[Owner] # NoTask => pc[Owner] = "drain" \/ pc[Owner] = "abandon"
  BY DEF OwnerHands
<1>4. CASE UNCHANGED ownerSide /\ item'[Owner] \in {item[Owner], NoTask}
  <2>1. CASE pc[Owner] = "drain" /\ ~drainedAny
    BY <1>2, <1>4, <2>1 DEF DrainPass, ownerSide, ownerVars
  <2>2. CASE pc[Owner] = "drained"
    BY <1>2, <1>3, <1>4, <2>2 DEF DrainPass, ownerSide, ownerVars
  <2>3. CASE ~(pc[Owner] = "drain" /\ ~drainedAny) /\ pc[Owner] # "drained"
    BY <1>4, <2>3 DEF DrainPass, ownerSide, ownerVars
  <2>4. QED BY <2>1, <2>2, <2>3
<1>5. CASE ShutdownStep
  BY <1>5 DEF ShutdownStep, ExplicitShutdown, Destructor, Shutdown, Goto, DrainPass
<1>6. CASE WakeAll \/ DrainReturns \/ AbandonReturns
  BY <1>6 DEF WakeAll, NotifyAll, DrainReturns, AbandonReturns, Goto, DrainPass
<1>7. CASE Join
  <2>1. pc[Owner] = "join" /\ pc'[Owner] \in {"drain", "idle"} /\ UNCHANGED <<item, scan>>
    BY <1>7 DEF Join, Goto
  <2>2. item[Owner] = NoTask /\ scan[Owner] = 0
    BY <1>3, <2>1 DEF OwnerPhase
  <2>3. \A t \in Queued' : laneOf'[t] >= 0
    BY <1>1 DEF LaneTypes, Lane, Worker, Queued
  <2>4. QED BY <2>1, <2>2, <2>3 DEF DrainPass
<1>8. CASE SweepPops
  BY <1>8 DEF SweepPops, DrainPass
<1>9. CASE SweepNextLane
  <2>1. UNCHANGED <<pc, item, laneVars, drainedAny>> /\ scan'[Owner] = scan[Owner] + 1
    BY <1>9 DEF SweepNextLane, ownerVars
  <2>2. \A t \in Queued : laneOf[t] # scan[Owner]
    BY <1>9 DEF SweepNextLane, LaneSwept, InLane, Queued
  <2>3. \A t \in Queued : laneOf[t] >= scan[Owner] => laneOf[t] >= scan[Owner] + 1
    BY <2>2 DEF LaneTypes, Lane, Worker, Queued
  <2>4. QED BY <2>1, <2>3 DEF DrainPass, Queued, laneVars
<1>10. CASE DrainPassEnds
  <2>1. pc[Owner] = "drain" /\ scan[Owner] = NumThreads /\ UNCHANGED <<item, laneVars>>
        /\ scan'[Owner] = 0
    BY <1>10 DEF DrainPassEnds, Goto
  <2>2. item[Owner] = NoTask
    BY <2>1 DEF OwnerHands
  <2>3. \A t \in Queued' : laneOf'[t] >= 0
    BY <1>1 DEF LaneTypes, Lane, Worker, Queued
  <2>4. ASSUME ~drainedAny PROVE Queued = {}
    <3>1. \A t \in Queued : laneOf[t] >= NumThreads /\ laneOf[t] < NumThreads
      BY <2>1, <2>4 DEF DrainPass, LaneTypes, Lane, Worker, Queued
    <3>2. QED BY <3>1 DEF LaneTypes, Lane, Worker, Queued
  <2>5. pc'[Owner] = IF drainedAny THEN "drain" ELSE "drained"
    BY <1>10 DEF DrainPassEnds, Goto, AnotherPass
  <2>6. QED BY <2>1, <2>2, <2>3, <2>4, <2>5 DEF DrainPass, Queued, laneVars
<1>11. QED BY <1>4, <1>5, <1>6, <1>7, <1>8, <1>9, <1>10, OwnerSteps DEF OwnerStep

LEMMA AbandonPassStep ==
  ASSUME PoolAssumption, TypeOK, CallStatus, ClientsDone, OwnerPhase, AbandonPass, [Next]_vars
  PROVE  AbandonPass'
<1> USE PoolAssumption DEF TypeOK, ExecTypes, OwnerTypes, Executor
<1>1. LaneTypes'
  BY TypeNext
<1>2. ASSUME mode = "abandon"
      PROVE  \A t \in Queued' \ Spawned : t \in Queued /\ laneOf'[t] = laneOf[t]
  <2>1. ASSUME NEW t \in Task, PushTask(t) PROVE t \in Spawned
    BY <1>2, <2>1 DEF PushTask, ClientsDone
  <2>2. ASSUME NEW t \in Task, PushTask(t)
        PROVE  UNCHANGED laneOf /\ Queued' = Queued \cup {t}
    BY <2>2 DEF PushTask, PushBack, LaneTypes, Queued
  <2>3. QED BY <2>1, <2>2, LaneSteps
<1>3. CASE UNCHANGED ownerSide
  BY <1>2, <1>3 DEF AbandonPass, OwnerPhase, ownerSide, ownerVars
<1>4. CASE ShutdownStep
  BY <1>4 DEF ShutdownStep, ExplicitShutdown, Destructor, Shutdown, Goto, AbandonPass
<1>5. CASE WakeAll
  <2>1. pc[Owner] = "wakeAll" /\ UNCHANGED scan /\ pc'[Owner] \in {"abandon", "join"}
    BY <1>5 DEF WakeAll, NotifyAll
  <2>2. \A t \in Queued' : laneOf'[t] >= 0
    BY <1>1 DEF LaneTypes, Lane, Worker, Queued
  <2>3. QED BY <2>1, <2>2 DEF AbandonPass, OwnerPhase
<1>6. CASE Join \/ DrainReturns \/ DrainPassEnds
  BY <1>6 DEF Join, DrainReturns, DrainPassEnds, Goto, AbandonPass, OwnerPhase, ownerVars
<1>7. CASE SweepPops
  <2>1. UNCHANGED <<pc, scan, mode>>
    BY <1>7 DEF SweepPops
  <2>2. QED BY <1>2, <2>1 DEF AbandonPass, OwnerPhase
<1>8. CASE SweepNextLane
  <2>1. UNCHANGED <<pc, mode, laneVars>> /\ scan'[Owner] = scan[Owner] + 1
    BY <1>8 DEF SweepNextLane, ownerVars
  <2>2. \A t \in Queued : laneOf[t] # scan[Owner]
    BY <1>8 DEF SweepNextLane, LaneSwept, InLane, Queued
  <2>3. \A t \in Queued : laneOf[t] >= scan[Owner] => laneOf[t] >= scan[Owner] + 1
    <3>1. scan[Owner] \in Int /\ \A t \in Queued : laneOf[t] \in Int
      BY DEF LaneTypes, Lane, Worker, Queued
    <3>2. QED BY <2>2, <3>1
  <2>4. QED BY <2>1, <2>3 DEF AbandonPass, Queued, laneVars
<1>9. CASE AbandonReturns
  <2>1. pc[Owner] = "abandon" /\ scan[Owner] = NumThreads /\ UNCHANGED laneVars
        /\ pc'[Owner] = "idle"
    BY <1>9 DEF AbandonReturns, Goto
  <2>2. \A t \in Queued : laneOf[t] < NumThreads /\ laneOf[t] \in Int
    BY DEF LaneTypes, Lane, Worker, Queued
  <2>3. Queued \subseteq Spawned
    BY <2>1, <2>2 DEF AbandonPass
  <2>4. QED BY <2>1, <2>3 DEF AbandonPass, Queued, laneVars
<1>10. QED BY <1>3, <1>4, <1>5, <1>6, <1>7, <1>8, <1>9, OwnerSteps DEF OwnerStep

-----------------------------------------------------------------------------
(* The inductive invariants and what follows from them.                    *)

Phases == Workers /\ OwnerPhase /\ Joined /\ BodyCalls

LEMMA PhasesInit == Init => Phases
<1> SUFFICES ASSUME Init PROVE Phases  OBVIOUS
<1>1. Workers
  BY WorkersInit
<1>2. OwnerPhase /\ Joined
  BY PoolAssumption DEF Init, OwnerPhase, Joined, Executor
<1>3. BodyCalls
  BY PoolAssumption DEF Init, BodyCalls, Spawned
<1>4. QED BY <1>1, <1>2, <1>3 DEF Phases

LEMMA PhasesNext == Phases /\ [Next]_vars => Phases'
BY PoolAssumption, WorkersNext, OwnerPhaseStep, JoinedStep, BodyCallsStep
   DEF Phases, Workers, Accounts

LEMMA PhasesHold == Spec => []Phases
BY PhasesInit, PhasesNext, PTL DEF Spec

LEMMA SweepsHold ==
  ASSUME NoClientEnqueues
  PROVE  Spec => [](Phases /\ ClientsDone /\ DrainPass /\ AbandonPass)
<1> DEFINE Sweeps == Phases /\ ClientsDone /\ DrainPass /\ AbandonPass
<1>1. Init => Sweeps
  <2> SUFFICES ASSUME Init PROVE Sweeps  OBVIOUS
  <2>1. Phases
    BY PhasesInit
  <2>2. ClientsDone /\ DrainPass /\ AbandonPass
    BY PoolAssumption DEF Init, ClientsDone, DrainPass, AbandonPass, Executor
  <2>3. QED BY <2>1, <2>2
<1>2. Sweeps /\ [Next]_vars => Sweeps'
  <2> SUFFICES ASSUME Sweeps, [Next]_vars PROVE Sweeps'  OBVIOUS
  <2> USE PoolAssumption DEF Phases, Workers, Accounts
  <2>1. Phases'
    BY PhasesNext
  <2>2. ClientsDone'
    BY ClientsDoneStep
  <2>3. DrainPass'
    BY DrainPassStep
  <2>4. AbandonPass'
    BY AbandonPassStep
  <2>5. QED BY <2>1, <2>2, <2>3, <2>4
<1>3. QED BY <1>1, <1>2, PTL DEF Spec

LEMMA RetiresHold ==
  ASSUME NoClientRetires
  PROVE  Spec => []RetiresDone
<1>1. Init => RetiresDone
  BY DEF Init, RetiresDone
<1>2. TypeOK /\ RetiresDone /\ [Next]_vars => RetiresDone'
  BY PoolAssumption, RetiresDoneStep
<1>3. QED BY <1>1, <1>2, TypeCorrect, PTL DEF Spec

LEMMA DrainedIsDone ==
  ASSUME PoolAssumption, Phases, ClientsDone, DrainPass, RetiresDone, pc[Owner] = "drained"
  PROVE  \A t \in Task : /\ call[t] \in {"idle", "returned"}
                         /\ status[t] \in {"absent", "done", "dropped"}
<1> USE DEF Phases
<1>1. mode # "none" /\ threads = "joined" /\ item[Owner] = NoTask
  BY DEF OwnerPhase, Workers, OwnerHands
<1>2. \A t \in Task : status[t] \notin Held /\ call[t] \in {"idle", "returned"}
  BY <1>1, NobodyCalls
<1>3. \A t \in Task : status[t] # "lane"
  BY DEF DrainPass, Queued
<1>4. \A t \in Task : status[t] \notin {"swept", "uncounted"}
  BY <1>1, PoolAssumption DEF RetiresDone, Workers, Accounts, RetirePhase
<1>5. QED BY <1>2, <1>3, <1>4 DEF Workers, Accounts, TypeOK, LaneTypes, Status

\* finishAllThreads(true) returns with every accepted task settled, those spawned
\* during the drain into any lane included, if clients leave the pool alone
\* meanwhile.
THEOREM DrainCompletesCorrect ==
  ASSUME NoClientEnqueues, NoClientRetires
  PROVE  Spec => []DrainCompletes
<1>1. Phases /\ ClientsDone /\ DrainPass /\ RetiresDone => DrainCompletes
  BY DrainedIsDone, PoolAssumption DEF DrainCompletes
<1>2. QED BY <1>1, SweepsHold, RetiresHold, PTL

\* The assertion that ends the drain, queuedCount == 0, holds for every pool that
\* no retire() call meets during its shutdown: the one that does is the only way
\* to break it.
THEOREM DrainAssertionAlone ==
  ASSUME NoClientEnqueues, NoClientRetires
  PROVE  Spec => []DrainAssertion
<1>1. ASSUME Phases, ClientsDone, DrainPass, RetiresDone PROVE DrainAssertion
  <2> SUFFICES ASSUME pc[Owner] = "drained" PROVE queuedCount = 0
    BY DEF DrainAssertion
  <2>1. Counted = {}
    BY <1>1, DrainedIsDone, PoolAssumption DEF Counted
  <2>2. QED BY <1>1, <2>1, FS_EmptySet DEF Phases, Workers, Accounts, QueuedCountExact
<1>2. QED BY <1>1, SweepsHold, RetiresHold, PTL

\* After abandonAllThreads nothing is queued but what bodies already running
\* have spawned: the whole backlog was destroyed on the calling thread.
THEOREM AbandonCorrect ==
  ASSUME NoClientEnqueues
  PROVE  Spec => []AbandonLeavesNoBacklog
<1>1. AbandonPass => AbandonLeavesNoBacklog
  BY DEF AbandonPass, AbandonLeavesNoBacklog
<1>2. QED BY <1>1, SweepsHold, PTL

\* The assertion after the join, idleCount == 0: every exited worker has left
\* the idle wait and taken its increment back.
JoinAssertion == threads = "joined" => idleCount = 0
THEOREM JoinedLeavesNobodyIdle == Spec => []JoinAssertion
<1>1. ASSUME Phases, threads = "joined" PROVE idleCount = 0
  <2>1. InIdleWait = {}
    BY <1>1 DEF Phases, Joined, InIdleWait
  <2>2. QED BY <1>1, <2>1, FS_EmptySet DEF Phases, Workers, IdleCountExact
<1>2. Phases => JoinAssertion
  BY <1>1 DEF JoinAssertion
<1>3. QED BY <1>2, PhasesHold, PTL
=============================================================================
