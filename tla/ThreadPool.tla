----------------------------- MODULE ThreadPool -----------------------------
(***************************************************************************)
(* CThreadPool (threading/cthreadpool.h, threading/cthreadpool.cpp): the   *)
(* worker loop with its stealing scan and idle wait, enqueue(), retire()   *)
(* and the three shutdown paths, at the grain of one atomic access or one  *)
(* critical section per step.                                              *)
(*                                                                         *)
(* A task is submitted at most once, so its identity stands for the        *)
(* submission too: call[t] is the program counter of the enqueue() call    *)
(* that submits t, status[t] says where t itself is.  A lane is a          *)
(* std::deque used through push_back, pop_front and erase_if only, hence   *)
(* its set of elements and, for each of them, the set of those ahead of    *)
(* it.  A condition variable is the set of the threads blocked on it.      *)
(***************************************************************************)
EXTENDS Integers, FiniteSets

CONSTANTS
  NumThreads,      \* maxNumThreads: workers and lanes 0 .. NumThreads-1
  SelectorRange,   \* the values of laneSelector before it wraps (2^32)
  Task, NoTask,
  Tag, NoTag,      \* NoTag is tag 0, the untagged sentinel
  TagOf,           \* the tag each task is submitted with
  Spawns,          \* the tasks the body of a task may enqueue
  Owner,           \* the thread that shuts the pool down
  NoWorker,
  Overlap,         \* which client calls may meet which: see MayCall, RetireBegin, Shutdown
  ShutdownCalls,   \* the shutdown call the owner may make before destruction
  Policies         \* the calls ~CThreadPool may make: its ShutdownPolicy

Worker == 0 .. NumThreads - 1
Lane == Worker
Executor == Worker \cup {Owner}
Tagged(g) == {t \in Task : TagOf[t] = g}
Spawned == UNION {Spawns[t] : t \in Task}

ASSUME PoolAssumption ==
  /\ NumThreads \in Nat \ {0} /\ SelectorRange \in Nat \ {0}
  /\ IsFiniteSet(Task) /\ NoTask \notin Task /\ NoTag \notin Tag
  /\ TagOf \in [Task -> Tag \cup {NoTag}]
  /\ Spawns \in [Task -> SUBSET Task]
  /\ Owner \notin Worker /\ NoWorker \notin Worker
  /\ Overlap \subseteq {"enqueue-retire", "retire-shutdown", "enqueue-shutdown"}
  /\ ShutdownCalls \subseteq {"finish", "drain", "abandon"}
  /\ Policies \subseteq {"finish", "abandon"}

VARIABLES
  call,          \* call[t]: where the enqueue() call for t stands
  status,        \* status[t]: where the task t is
  laneOf,        \* laneOf[t]: the lane enqueue() chose for t
  ahead,         \* ahead[t]: the tasks in front of t in its lane
  laneSelector, queuedCount, idleCount, terminate,
  idleOwner,     \* the worker holding idleMutex
  pc, item,      \* of each executor: the workers, and the owner in its sweeps
  scan,          \* a worker's steal offset; the lane the owner's sweep is at
  known, retired, outstanding,  \* tagStates: present; TaskTagState's two members
  rpc, rscan, removed,          \* retire(g): program counter, lane, removedCount
  threads,       \* _workerThreads: "live", or emptied by "joined" / "detached"
  mode,          \* the owner's current or last shutdown call
  destroying,    \* ~CThreadPool has begun
  drainedAny

tagVars == <<known, retired, outstanding>>
retireVars == <<rpc, rscan, removed>>
ownerVars == <<threads, mode, destroying, drainedAny>>
execVars == <<pc, item, scan>>
idleVars == <<idleCount, idleOwner>>
laneVars == <<status, laneOf, ahead>>
callVars == <<call, laneSelector>>
vars == <<callVars, laneVars, queuedCount, terminate, idleVars, execVars,
          tagVars, retireVars, ownerVars>>

Held == {"popped", "taken", "cleared", "running", "ran", "skipped"}
Status == {"absent", "lane", "swept", "uncounted", "done", "dropped"} \cup Held
CallPC == {"idle", "register", "count", "push", "undo", "gate", "notify", "returned"}
WorkerPC == {"loop", "pop", "recheck", "steal", "task", "idle", "lock",
             "predicate", "block", "blocked", "leave", "exited"}
OwnerPC == {"idle", "wakeAll", "join", "drain", "drained", "abandon"}
RetirePC == {"idle", "sweep", "subtract", "settle", "blocked", "woken", "returned"}

CallTypes == call \in [Task -> CallPC] /\ laneSelector \in 0 .. SelectorRange - 1
LaneTypes == /\ status \in [Task -> Status] /\ laneOf \in [Task -> Lane]
             /\ ahead \in [Task -> SUBSET Task]
CountTypes == queuedCount \in Int /\ idleCount \in Int
              /\ idleOwner \in Worker \cup {NoWorker}
ExecTypes == /\ pc \in [Executor -> WorkerPC \cup OwnerPC] /\ pc[Owner] \in OwnerPC
             /\ \A w \in Worker : pc[w] \in WorkerPC
             /\ item \in [Executor -> Task \cup {NoTask}]
             /\ scan \in [Executor -> 0 .. NumThreads]
TagTypes == /\ known \in [Tag -> BOOLEAN] /\ retired \in [Tag -> BOOLEAN]
            /\ outstanding \in [Tag -> Int]
RetireTypes == /\ rpc \in [Tag -> RetirePC] /\ rscan \in [Tag -> 0 .. NumThreads]
               /\ removed \in [Tag -> Nat]
OwnerTypes == /\ terminate \in BOOLEAN
              /\ threads \in {"live", "joined", "detached"}
              /\ mode \in {"none", "finish", "drain", "abandon"}
              /\ destroying \in BOOLEAN /\ drainedAny \in BOOLEAN
TypeOK == /\ CallTypes /\ LaneTypes /\ CountTypes /\ ExecTypes
          /\ TagTypes /\ RetireTypes /\ OwnerTypes

Init ==
  /\ call = [t \in Task |-> "idle"] /\ status = [t \in Task |-> "absent"]
  /\ laneOf = [t \in Task |-> 0] /\ ahead = [t \in Task |-> {}]
  /\ laneSelector = 0 /\ queuedCount = 0 /\ idleCount = 0
  /\ terminate = FALSE /\ idleOwner = NoWorker
  /\ pc = [e \in Executor |-> IF e = Owner THEN "idle" ELSE "loop"]
  /\ item = [e \in Executor |-> NoTask] /\ scan = [e \in Executor |-> 0]
  /\ known = [g \in Tag |-> FALSE] /\ retired = [g \in Tag |-> FALSE]
  /\ outstanding = [g \in Tag |-> 0]
  /\ rpc = [g \in Tag |-> "idle"] /\ rscan = [g \in Tag |-> 0]
  /\ removed = [g \in Tag |-> 0]
  /\ threads = "live" /\ mode = "none" /\ destroying = FALSE /\ drainedAny = FALSE

-----------------------------------------------------------------------------
(* Lanes, and the helpers shared by workers, drain, abandon and retire.    *)

InLane(l) == {t \in Task : status[t] = "lane" /\ laneOf[t] = l}
Front(l) == {t \in InLane(l) : ahead[t] = {}}

\* push_back under the lane's mutex.
PushBack(t) ==
  /\ status' = [status EXCEPT ![t] = "lane"]
  /\ ahead' = [ahead EXCEPT ![t] = InLane(laneOf[t])]
  /\ UNCHANGED laneOf

\* The tasks of S leave their lane and become st; laneOf is reset with them.
RemoveFromLane(S, st) ==
  /\ status' = [t \in Task |-> IF t \in S THEN st ELSE status[t]]
  /\ laneOf' = [t \in Task |-> IF t \in S THEN 0 ELSE laneOf[t]]
  /\ ahead' = [t \in Task |-> IF t \in S THEN {} ELSE ahead[t] \ S]

\* Mutant: the front is copied and stays queued.
TryPopCopies(e, l) == \E t \in Front(l) :
  item' = [item EXCEPT ![e] = t] /\ UNCHANGED laneVars

\* try_pop(task) that succeeds: e now holds the front of lane l.
TryPop(e, l) == \E t \in Front(l) :
  /\ RemoveFromLane({t}, "popped")
  /\ item' = [item EXCEPT ![e] = t]

\* The completion that brings the count to 0 notifies tagStateChanged.
WakesNobody(g) == FALSE                                          \* mutant
WakesRetire(g) == outstanding[g] = 1 /\ rpc[g] = "blocked"

\* The tag accounting of completeTaggedTask, under tagStateMutex; the last
\* completion wakes the retire() blocked on tagStateChanged.
CompleteTaggedTask(t) ==
  IF TagOf[t] = NoTag THEN UNCHANGED <<outstanding, rpc>>
  ELSE LET g == TagOf[t] IN
       /\ outstanding' = [outstanding EXCEPT ![g] = @ - 1]
       /\ rpc' = [rpc EXCEPT ![g] = IF WakesRetire(g) THEN "woken" ELSE @]

RetiredTaskCanRun(t) == TRUE                                     \* mutant
TaggedTaskCanRun(t) == TagOf[t] = NoTag \/ ~retired[TagOf[t]]

-----------------------------------------------------------------------------
(* enqueue(): by a client thread for a root task, by the thread running    *)
(* the parent's body for a spawned one.                                    *)

PoolGone == destroying /\ pc[Owner] = "idle"
ShutdownBegun == mode # "none"

ClientMay == ~destroying /\ (ShutdownBegun => "enqueue-shutdown" \in Overlap)
BodyMay(t) == \E p \in Task :
  /\ t \in Spawns[p] /\ status[p] = "running" /\ ~PoolGone
  /\ \A c \in Spawns[p] : call[c] \in {"idle", "returned"}

\* "The owner must stop submitting before calling" retire, unless Overlap
\* lets the two meet, which the code tolerates by refusing the task.
MayCall(t) ==
  /\ IF t \in Spawned THEN BodyMay(t) ELSE ClientMay
  /\ (TagOf[t] # NoTag /\ "enqueue-retire" \notin Overlap) => rpc[TagOf[t]] = "idle"

LaneIndex == laneSelector % NumThreads

UnchangedByCall == UNCHANGED <<terminate, idleVars, execVars, retireVars, ownerVars>>

\* The call begins: laneSelector.fetch_add picks the lane.
Enqueue(t) ==
  /\ call[t] = "idle" /\ MayCall(t)
  /\ laneOf' = [laneOf EXCEPT ![t] = LaneIndex]
  /\ laneSelector' = (laneSelector + 1) % SelectorRange
  /\ call' = [call EXCEPT ![t] = IF TagOf[t] = NoTag THEN "count" ELSE "register"]
  /\ UNCHANGED <<status, ahead, queuedCount, tagVars>> /\ UnchangedByCall

\* Register with the tag before the task is visible; a retired tag refuses.
RegisterTag(t) ==
  LET g == TagOf[t] IN
  /\ call[t] = "register"
  /\ known' = [known EXCEPT ![g] = TRUE]
  /\ IF retired[g]
     THEN call' = [call EXCEPT ![t] = "returned"] /\ UNCHANGED outstanding
     ELSE /\ call' = [call EXCEPT ![t] = "count"]
          /\ outstanding' = [outstanding EXCEPT ![g] = @ + 1]
  /\ UNCHANGED <<laneSelector, laneVars, queuedCount, retired>> /\ UnchangedByCall

CountTask(t) ==
  /\ call[t] = "count"
  /\ queuedCount' = queuedCount + 1
  /\ call' = [call EXCEPT ![t] = "push"]
  /\ UNCHANGED <<laneSelector, laneVars, tagVars>> /\ UnchangedByCall

PushTask(t) ==
  /\ call[t] = "push"
  /\ PushBack(t)
  /\ call' = [call EXCEPT ![t] = "gate"]
  /\ UNCHANGED <<laneSelector, queuedCount, tagVars>> /\ UnchangedByCall

\* Mutant: the rollback forgets the count.
PushThrowsCounted(t) ==
  /\ call[t] = "push" /\ call' = [call EXCEPT ![t] = "undo"]
  /\ UNCHANGED <<laneSelector, laneVars, queuedCount, tagVars>> /\ UnchangedByCall

\* The push throws (the deque cannot grow): first undo the count ...
PushThrows(t) ==
  /\ call[t] = "push"
  /\ queuedCount' = queuedCount - 1
  /\ call' = [call EXCEPT ![t] = "undo"]
  /\ UNCHANGED <<laneSelector, laneVars, tagVars>> /\ UnchangedByCall

\* Mutant: the registration outlives the failed push.
UndoNothing(t) ==
  /\ call[t] = "undo" /\ call' = [call EXCEPT ![t] = "returned"]
  /\ UNCHANGED <<laneSelector, laneVars, queuedCount, tagVars>> /\ UnchangedByCall

\* ... then the registration, and rethrow to the caller.
UndoRegister(t) ==
  /\ call[t] = "undo"
  /\ CompleteTaggedTask(t)
  /\ call' = [call EXCEPT ![t] = "returned"]
  /\ UNCHANGED <<laneSelector, laneVars, queuedCount, terminate, idleVars, execVars, known,
                 retired, rscan, removed, ownerVars>>

\* The gate: no idle worker, no lock taken.
OthersIdle == idleCount > 1                                      \* mutant
SomeoneIdle == idleCount > 0

Gate(t) ==
  /\ call[t] = "gate"
  /\ call' = [call EXCEPT ![t] = IF SomeoneIdle THEN "notify" ELSE "returned"]
  /\ UNCHANGED <<laneSelector, laneVars, queuedCount, tagVars>> /\ UnchangedByCall

Blocked == {w \in Worker : pc[w] = "blocked"}

\* idleMutex is taken around notify_one(), which wakes any one blocked worker.
NotifyOne(t) ==
  /\ call[t] = "notify" /\ idleOwner = NoWorker
  /\ call' = [call EXCEPT ![t] = "returned"]
  /\ IF Blocked = {} THEN UNCHANGED pc
     ELSE \E w \in Blocked : pc' = [pc EXCEPT ![w] = "lock"]
  /\ UNCHANGED <<laneSelector, laneVars, queuedCount, terminate, idleVars, item, scan,
                 tagVars, retireVars, ownerVars>>

-----------------------------------------------------------------------------
(* What any executor does with the task it holds.                          *)

HoldsTask(e, st) == item[e] # NoTask /\ status[item[e]] = st
UnchangedByTask ==
  UNCHANGED <<callVars, laneOf, ahead, terminate, idleVars, rscan, removed, ownerVars>>
Discarding(e) == e = Owner /\ pc[Owner] = "abandon"

Decrement(e) ==
  /\ HoldsTask(e, "popped")
  /\ queuedCount' = queuedCount - 1
  /\ status' = [status EXCEPT ![item[e]] = "taken"]
  /\ UNCHANGED <<execVars, tagVars, rpc>> /\ UnchangedByTask

\* taggedTaskCanRun, under tagStateMutex, decides whether the body is run ...
Decide(e) ==
  /\ HoldsTask(e, "taken") /\ ~Discarding(e)
  /\ status' = [status EXCEPT ![item[e]] =
                  IF TaggedTaskCanRun(item[e]) THEN "cleared" ELSE "skipped"]
  /\ UNCHANGED <<queuedCount, execVars, tagVars, rpc>> /\ UnchangedByTask

\* ... and the mutex is free again when the body begins: retire() may have set
\* retired in between.
BodyBegins(e) ==
  /\ HoldsTask(e, "cleared")
  /\ status' = [status EXCEPT ![item[e]] = "running"]
  /\ UNCHANGED <<queuedCount, execVars, tagVars, rpc>> /\ UnchangedByTask

\* The body returns or throws: a throw is contained and changes nothing else.
BodyEnds(e) ==
  /\ HoldsTask(e, "running")
  /\ \A c \in Spawns[item[e]] : call[c] \in {"idle", "returned"}
  /\ status' = [status EXCEPT ![item[e]] = "ran"]
  /\ UNCHANGED <<queuedCount, execVars, tagVars, rpc>> /\ UnchangedByTask

MayComplete(e) == \/ HoldsTask(e, "ran") \/ HoldsTask(e, "skipped")
                  \/ Discarding(e) /\ HoldsTask(e, "taken")

Complete(e) ==
  /\ MayComplete(e)
  /\ CompleteTaggedTask(item[e])
  /\ status' = [status EXCEPT ![item[e]] = IF @ = "ran" THEN "done" ELSE "dropped"]
  /\ item' = [item EXCEPT ![e] = NoTask]
  /\ pc' = [pc EXCEPT ![e] = IF e = Owner THEN @ ELSE "loop"]
  /\ UNCHANGED <<queuedCount, scan, known, retired>> /\ UnchangedByTask

TaskStep(e) ==
  Decrement(e) \/ Decide(e) \/ BodyBegins(e) \/ BodyEnds(e) \/ Complete(e)

-----------------------------------------------------------------------------
(* runWorker and tryGetTask.                                               *)

UnchangedByWorker == UNCHANGED <<callVars, terminate, tagVars, retireVars, ownerVars>>
PcOnly == UNCHANGED <<laneVars, queuedCount, idleVars, item, scan>> /\ UnchangedByWorker
Goto(e, from, to) == pc[e] = from /\ pc' = [pc EXCEPT ![e] = to]

\* while (!terminate)
Loop(w) ==
  /\ Goto(w, "loop", IF terminate THEN "exited" ELSE "pop")
  /\ PcOnly

PopOwn(w) ==
  /\ InLane(w) # {} /\ Goto(w, "pop", "task")
  /\ TryPop(w, w)
  /\ UNCHANGED <<queuedCount, idleVars, scan>> /\ UnchangedByWorker

OwnEmpty(w) ==
  /\ InLane(w) = {} /\ Goto(w, "pop", "recheck")
  /\ PcOnly

\* Nothing queued anywhere: no sweep.
Recheck(w) ==
  /\ Goto(w, "recheck", IF queuedCount = 0 THEN "idle" ELSE "steal")
  /\ scan' = [scan EXCEPT ![w] = IF queuedCount = 0 THEN 0 ELSE 1]
  /\ UNCHANGED <<laneVars, queuedCount, idleVars, item>> /\ UnchangedByWorker

VictimOffByOne(w) == (w + scan[w] - 1) % NumThreads              \* mutant
Victim(w) == (w + scan[w]) % NumThreads

Steal(w) ==
  /\ scan[w] < NumThreads /\ InLane(Victim(w)) # {}
  /\ Goto(w, "steal", "task")
  /\ TryPop(w, Victim(w)) /\ scan' = [scan EXCEPT ![w] = 0]
  /\ UNCHANGED <<queuedCount, idleVars>> /\ UnchangedByWorker

StealNext(w) ==
  /\ pc[w] = "steal" /\ scan[w] < NumThreads /\ InLane(Victim(w)) = {}
  /\ scan' = [scan EXCEPT ![w] = @ + 1]
  /\ UNCHANGED <<laneVars, queuedCount, idleVars, pc, item>> /\ UnchangedByWorker

StealNone(w) ==
  /\ scan[w] >= NumThreads /\ Goto(w, "steal", "idle")
  /\ scan' = [scan EXCEPT ![w] = 0]
  /\ UNCHANGED <<laneVars, queuedCount, idleVars, item>> /\ UnchangedByWorker

\* ++idleCount, before the predicate reads queuedCount.
EnterIdle(w) ==
  /\ Goto(w, "idle", "lock")
  /\ idleCount' = idleCount + 1
  /\ UNCHANGED <<laneVars, queuedCount, idleOwner, item, scan>> /\ UnchangedByWorker

\* The halves of the wait's predicate: terminate, and queuedCount > 0.
StopUnseen == FALSE                                              \* mutant
StopSeen == terminate
WorkSeen == queuedCount > 0

\* Take idleMutex and read the predicate's first half ...
LockIdle(w) ==
  /\ idleOwner = NoWorker
  /\ Goto(w, "lock", IF StopSeen THEN "leave" ELSE "predicate")
  /\ idleOwner' = IF StopSeen THEN NoWorker ELSE w
  /\ UNCHANGED <<laneVars, queuedCount, idleCount, item, scan>> /\ UnchangedByWorker

\* ... and its second half, which a producer changes outside the mutex.
Predicate(w) ==
  /\ Goto(w, "predicate", IF WorkSeen THEN "leave" ELSE "block")
  /\ idleOwner' = IF WorkSeen THEN NoWorker ELSE w
  /\ UNCHANGED <<laneVars, queuedCount, idleCount, item, scan>> /\ UnchangedByWorker

Block(w) ==
  /\ Goto(w, "block", "blocked") /\ idleOwner' = NoWorker
  /\ UNCHANGED <<laneVars, queuedCount, idleCount, item, scan>> /\ UnchangedByWorker

\* The wait may end for no reason and check the predicate again, or time out
\* and, the mutex reacquired, leave whatever the predicate says.
SpuriousWake(w) ==
  /\ Goto(w, "blocked", "lock")
  /\ PcOnly

TimeoutLeaks(w) ==                                               \* mutant
  /\ idleOwner = NoWorker /\ Goto(w, "blocked", "loop")
  /\ PcOnly

Timeout(w) ==
  /\ idleOwner = NoWorker /\ Goto(w, "blocked", "leave")
  /\ PcOnly

LeaveIdle(w) ==
  /\ Goto(w, "leave", "loop")
  /\ idleCount' = idleCount - 1
  /\ UNCHANGED <<laneVars, queuedCount, idleOwner, item, scan>> /\ UnchangedByWorker

WorkerStep(w) ==
  \/ Loop(w) \/ PopOwn(w) \/ OwnEmpty(w) \/ Recheck(w)
  \/ Steal(w) \/ StealNext(w) \/ StealNone(w)
  \/ EnterIdle(w) \/ LockIdle(w) \/ Predicate(w) \/ Block(w) \/ LeaveIdle(w)

-----------------------------------------------------------------------------
(* retire(g), at most one call per tag (the code asserts ~retired).        *)

UnchangedByRetire == UNCHANGED <<callVars, terminate, idleVars, execVars, ownerVars>>
Quiet(g) == \A t \in Tagged(g) : call[t] \in {"idle", "returned"}

RetireBegin(g) ==
  /\ rpc[g] = "idle" /\ ~destroying
  /\ ShutdownBegun => "retire-shutdown" \in Overlap
  /\ "enqueue-retire" \in Overlap \/ Quiet(g)
  /\ rpc' = [rpc EXCEPT ![g] = IF known[g] THEN "sweep" ELSE "returned"]
  /\ retired' = [retired EXCEPT ![g] = known[g]]
  /\ UNCHANGED <<laneVars, queuedCount, known, outstanding, rscan, removed>>
  /\ UnchangedByRetire

\* remove_if on one lane, under its mutex.
RetireSweep(g) ==
  LET S == InLane(rscan[g]) \cap Tagged(g) IN
  /\ rpc[g] = "sweep" /\ rscan[g] < NumThreads
  /\ RemoveFromLane(S, "swept")
  /\ removed' = [removed EXCEPT ![g] = @ + Cardinality(S)]
  /\ rscan' = [rscan EXCEPT ![g] = @ + 1]
  /\ UNCHANGED <<queuedCount, tagVars, rpc>> /\ UnchangedByRetire

SweptBy(g) == {t \in Tagged(g) : status[t] = "swept"}

\* queuedCount -= removedCount, once every lane has been swept.
RetireSubtract(g) ==
  /\ rpc[g] = "sweep" /\ rscan[g] = NumThreads
  /\ queuedCount' = queuedCount - removed[g]
  /\ status' = [t \in Task |-> IF t \in SweptBy(g) THEN "uncounted" ELSE status[t]]
  /\ rpc' = [rpc EXCEPT ![g] = "settle"]
  /\ UNCHANGED <<laneOf, ahead, tagVars, rscan, removed>> /\ UnchangedByRetire

\* Mutant: retire() returns without waiting for the popped tasks.
RetireNoWait(g, n) ==
  /\ rpc' = [rpc EXCEPT ![g] = "returned"] /\ outstanding' = [outstanding EXCEPT ![g] = n]
  /\ UNCHANGED <<known, retired>>

\* The wait's predicate, under tagStateMutex with outstanding = n: return and
\* erase the tag's state, or block.
RetireWait(g, n) ==
  /\ rpc' = [rpc EXCEPT ![g] = IF n = 0 THEN "returned" ELSE "blocked"]
  /\ known' = [known EXCEPT ![g] = n # 0]
  /\ retired' = [retired EXCEPT ![g] = n # 0]
  /\ outstanding' = [outstanding EXCEPT ![g] = n]

RetireSettle(g) ==
  /\ rpc[g] = "settle"
  /\ RetireWait(g, outstanding[g] - removed[g])
  /\ status' = [t \in Task |-> IF t \in Tagged(g) /\ status[t] = "uncounted"
                               THEN "dropped" ELSE status[t]]
  /\ removed' = [removed EXCEPT ![g] = 0]
  /\ UNCHANGED <<laneOf, ahead, queuedCount, rscan>> /\ UnchangedByRetire

RetireWake(g) ==
  /\ rpc[g] = "woken"
  /\ RetireWait(g, outstanding[g])
  /\ UNCHANGED <<laneVars, queuedCount, rscan, removed>> /\ UnchangedByRetire

RetireSpurious(g) ==
  /\ rpc[g] = "blocked" /\ rpc' = [rpc EXCEPT ![g] = "woken"]
  /\ UNCHANGED <<laneVars, queuedCount, tagVars, rscan, removed>> /\ UnchangedByRetire

RetireStep(g) == RetireSweep(g) \/ RetireSubtract(g) \/ RetireSettle(g) \/ RetireWake(g)

-----------------------------------------------------------------------------
(* Shutdown by the owner: finishAllThreads, abandonAllThreads, ~CThreadPool.*)

UnchangedByOwner == UNCHANGED <<callVars, tagVars, retireVars, idleVars>>
ClientsQuiet ==
  /\ "enqueue-shutdown" \notin Overlap =>
       \A t \in Task \ Spawned : call[t] \in {"idle", "returned"}
  /\ "retire-shutdown" \notin Overlap => \A g \in Tag : rpc[g] \in {"idle", "returned"}

\* Any shutdown call starts with requestWorkersStop: terminate = true ...
Shutdown(m) ==
  /\ ClientsQuiet /\ Goto(Owner, "idle", "wakeAll")
  /\ mode' = m /\ terminate' = TRUE
  /\ UNCHANGED <<laneVars, queuedCount, item, scan, threads, drainedAny>> /\ UnchangedByOwner

ExplicitShutdown(m) ==
  /\ m \in ShutdownCalls /\ mode = "none" /\ ~destroying
  /\ Shutdown(m) /\ UNCHANGED destroying

\* Nobody may still be inside enqueue() or retire() when the pool is destroyed.
Destructor(m) ==
  /\ m \in Policies /\ ~destroying /\ destroying' = TRUE
  /\ \A t \in Task \ Spawned : call[t] \in {"idle", "returned"}
  /\ \A g \in Tag : rpc[g] \in {"idle", "returned"}
  /\ Shutdown(m)

\* ... then notify_all, under idleMutex.
NotifyAll ==
  /\ pc[Owner] = "wakeAll"
  /\ pc' = [e \in Executor |->
              IF e = Owner THEN (IF mode = "abandon" THEN "abandon" ELSE "join")
              ELSE IF pc[e] = "blocked" THEN "lock" ELSE pc[e]]

WakeAllUnlocked ==                                               \* mutant
  /\ NotifyAll
  /\ UNCHANGED <<laneVars, queuedCount, terminate, item, scan, ownerVars>> /\ UnchangedByOwner

WakeAll ==
  /\ idleOwner = NoWorker /\ NotifyAll
  /\ UNCHANGED <<laneVars, queuedCount, terminate, item, scan, ownerVars>> /\ UnchangedByOwner

\* Joins every worker, unless an earlier call emptied _workerThreads.
Join ==
  /\ threads = "live" => \A w \in Worker : pc[w] = "exited"
  /\ threads' = IF threads = "live" THEN "joined" ELSE threads
  /\ Goto(Owner, "join", IF mode = "drain" THEN "drain" ELSE "idle")
  /\ drainedAny' = FALSE
  /\ UNCHANGED <<laneVars, queuedCount, terminate, item, scan, mode, destroying>> /\ UnchangedByOwner

OwnerFree == item[Owner] = NoTask
SweepPops ==
  /\ OwnerFree /\ scan[Owner] < NumThreads /\ pc[Owner] \in {"drain", "abandon"}
  /\ TryPop(Owner, scan[Owner])
  /\ drainedAny' = TRUE
  /\ UNCHANGED <<queuedCount, terminate, pc, scan, threads, mode, destroying>> /\ UnchangedByOwner

LaneSkipped == TRUE                                              \* mutant
LaneSwept == InLane(scan[Owner]) = {}

SweepNextLane ==
  /\ OwnerFree /\ scan[Owner] < NumThreads /\ pc[Owner] \in {"drain", "abandon"}
  /\ LaneSwept
  /\ scan' = [scan EXCEPT ![Owner] = @ + 1]
  /\ UNCHANGED <<laneVars, queuedCount, terminate, pc, item, ownerVars>> /\ UnchangedByOwner

\* The drain sweeps all lanes again until a full pass comes up empty.
SinglePass == FALSE                                              \* mutant
AnotherPass == drainedAny

DrainPassEnds ==
  /\ scan[Owner] = NumThreads
  /\ Goto(Owner, "drain", IF AnotherPass THEN "drain" ELSE "drained")
  /\ scan' = [scan EXCEPT ![Owner] = 0] /\ drainedAny' = FALSE
  /\ UNCHANGED <<laneVars, queuedCount, terminate, item, threads, mode, destroying>> /\ UnchangedByOwner

DrainReturns ==
  /\ Goto(Owner, "drained", "idle")
  /\ UNCHANGED <<laneVars, queuedCount, terminate, item, scan, ownerVars>> /\ UnchangedByOwner

\* One pass over the lanes, then detach whatever threads are left.
AbandonReturns ==
  /\ scan[Owner] = NumThreads /\ Goto(Owner, "abandon", "idle")
  /\ scan' = [scan EXCEPT ![Owner] = 0] /\ drainedAny' = FALSE
  /\ threads' = IF threads = "live" THEN "detached" ELSE threads
  /\ UNCHANGED <<laneVars, queuedCount, terminate, item, mode, destroying>> /\ UnchangedByOwner

OwnerStep == WakeAll \/ Join \/ SweepPops \/ SweepNextLane \/ DrainPassEnds
             \/ DrainReturns \/ AbandonReturns

-----------------------------------------------------------------------------
EnqueueStep(t) == RegisterTag(t) \/ CountTask(t) \/ PushTask(t) \/ PushThrows(t)
                  \/ UndoRegister(t) \/ Gate(t) \/ NotifyOne(t)

\* Everything has been called, returned and exited: the program may end.
AllEnded ==
  /\ PoolGone
  /\ \A w \in Worker : pc[w] = "exited"
  /\ \A t \in Task : call[t] \in {"idle", "returned"}
  /\ \A g \in Tag : rpc[g] \in {"idle", "returned"}
Ended == AllEnded /\ UNCHANGED vars

Next ==
  \/ \E t \in Task : Enqueue(t) \/ EnqueueStep(t)
  \/ \E e \in Executor : TaskStep(e)
  \/ \E w \in Worker : WorkerStep(w) \/ SpuriousWake(w) \/ Timeout(w)
  \/ \E g \in Tag : RetireBegin(g) \/ RetireStep(g) \/ RetireSpurious(g)
  \/ \E m \in ShutdownCalls : ExplicitShutdown(m)
  \/ \E m \in Policies : Destructor(m)
  \/ OwnerStep
  \/ Ended

Spec == Init /\ [][Next]_vars
-----------------------------------------------------------------------------
(* Correctness.                                                            *)

\* What queuedCount counts: tasks announced but not pushed yet, queued ones,
\* and removed ones whose remover has not reached its decrement.
Counted == {t \in Task : call[t] = "push" \/ status[t] \in {"lane", "popped", "swept"}}

\* queuedCount "must never underflow and must reach exactly 0 when all queues
\* are empty": every removal path (pop, steal, drain, abandon, retire, failed
\* push) decrements exactly once, and never before the increment.
QueuedCountExact == queuedCount = Cardinality(Counted)

\* idleCount counts the workers inside the idle wait, so none consumes or
\* leaks another's transition.
InIdleWait == {w \in Worker : pc[w] \in {"lock", "predicate", "block", "blocked", "leave"}}
IdleCountExact == idleCount = Cardinality(InIdleWait)

\* What a tag's outstandingTaskCount counts: registered and not yet completed.
Unsettled(g) == {t \in Tagged(g) :
  \/ call[t] \in {"count", "push", "undo"}
  \/ status[t] \in {"lane", "swept", "uncounted"} \cup Held}

\* outstandingTaskCount is exact whatever mix of workers, sweeps, failed pushes
\* and retire() calls settles the tag's tasks.
OutstandingExact == \A g \in Tag : outstanding[g] = Cardinality(Unsettled(g))

\* A task popped from a lane is in exactly one pair of hands: no two of the
\* workers and the sweeping owner ever hold, hence run, the same task.
Custody ==
  /\ \A e \in Executor : item[e] # NoTask => status[item[e]] \in Held
  /\ \A t \in Task : status[t] \in Held =>
       \E e \in Executor : /\ item[e] = t
                           /\ \A f \in Executor : item[f] = t => f = e

\* The workers that will still look into the lanes before they block.
Searching == {w \in Worker : pc[w] \notin {"task", "blocked", "exited"}}
Announcing == {t \in Task : call[t] \in {"gate", "notify"}}
Queued == {t \in Task : status[t] = "lane"}

\* "A single notify_one always suffices": while some worker sleeps, there are
\* never more queued tasks than workers searching and producers about to
\* notify, so no task waits for a busy worker, or a timeout, next to a sleeper.
WorkConserving ==
  Blocked # {} /\ ~terminate =>
    Cardinality(Queued) <= Cardinality(Searching) + Cardinality(Announcing)

\* requestWorkersStop wakes every worker: once its notify_all is done, no
\* worker is, or gets, blocked in the idle wait.
StopReachesAll == terminate /\ pc[Owner] # "wakeAll" => Blocked = {}

\* The two ends of a retire() call never leave work behind: in the step in
\* which it returns, no task of the tag is queued, held by a worker or being
\* pushed.
RetireBarrier ==
  [][\A g \in Tag : rpc[g] # "returned" /\ rpc'[g] = "returned" => Unsettled(g)' = {}]_vars

\* The tasks retire(g), once it has set retired, must keep from running: those
\* registered that have not passed taggedTaskCanRun yet, wherever they are.
Doomed(g) == {t \in Unsettled(g) :
  rpc[g] \notin {"idle", "returned"} /\ status[t] \notin {"cleared", "running", "ran"}}
EndedUnrun == {t \in Task :
  status[t] = "dropped" \/ (call[t] = "returned" /\ status[t] = "absent")}

\* "Popped tasks ... either finish normally or observe retired and are skipped
\* before execution", and the rest is removed: a task that has not passed its
\* check when retire(g) sets retired never runs.  Being pushed, queued, popped,
\* stolen, drained or swept, it stays doomed until it has ended unrun, the end
\* of retire(g) included.  One that has passed it may still begin.
RetiredNeverRuns ==
  [][\A g \in Tag : \A t \in Doomed(g) : t \in Doomed(g)' \cup EndedUnrun']_vars

\* finishAllThreads(true) returns with every accepted task settled, those
\* spawned during the drain included.
DrainCompletes ==
  pc[Owner] = "drained" => \A t \in Task :
     call[t] \in {"idle", "returned"} /\ status[t] \in {"absent", "done", "dropped"}

\* The assertion that ends the drain: "Everything drained, so any nonzero count
\* means a pop/removal path missed its decrement".
DrainAssertion == pc[Owner] = "drained" => queuedCount = 0

\* abandonAllThreads destroys the whole backlog on the calling thread: what is
\* queued after it returned was enqueued by a body that was already running.
AbandonLeavesNoBacklog ==
  mode = "abandon" /\ pc[Owner] = "idle" => Queued \subseteq Spawned

-----------------------------------------------------------------------------
(* Liveness.  The scheduler runs every thread, a body ends, and a producer  *)
(* contending for idleMutex is granted it eventually: the workers need no   *)
(* more than a mutex that stays free.  Timeouts and spurious wakeups get no *)
(* fairness: nothing may depend on them.                                    *)

ThreadStep(e) == TaskStep(e) \/ IF e = Owner THEN OwnerStep ELSE WorkerStep(e)

Fairness ==
  /\ \A e \in Executor : WF_vars(ThreadStep(e))
  /\ \A t \in Task : SF_vars(EnqueueStep(t))
  /\ \A g \in Tag : WF_vars(RetireStep(g))

FairSpec == Spec /\ Fairness

\* A queued task is taken by someone unless the pool is shut down, without the
\* help of the 5 second timeout: the worker that the push woke finds it in
\* whatever lane it is, though that lane's own worker sleeps on.
QueuedIsTaken == \A t \in Task : status[t] = "lane" ~> status[t] # "lane" \/ terminate

\* retire() returns, even while finishAllThreads(true) drains the pool or
\* abandonAllThreads() empties it meanwhile: whoever holds the last task of the
\* tag, a worker, a detached one or the sweeping owner, wakes it.
RetireReturns == \A g \in Tag : rpc[g] = "sweep" ~> rpc[g] = "returned"

\* Once a shutdown call has set terminate, it returns and every worker ends, the
\* detached ones included, and so for each later call (the destructor's after an
\* explicit one): nobody sleeps through the stop request, and the drain ends.
ShutdownReturns ==
  terminate ~> pc[Owner] = "idle" /\ \A w \in Worker : pc[w] = "exited"
=============================================================================
