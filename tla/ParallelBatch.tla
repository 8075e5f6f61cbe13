---------------------------- MODULE ParallelBatch ----------------------------
(***************************************************************************)
(* parallelFor() and parallelForAsync() of CThreadPool (cthreadpool.h): a  *)
(* shared dispenser of indices drained by the helper tasks and, for        *)
(* parallelFor(), by the calling thread too.                               *)
(*                                                                         *)
(* An activation is <<b, 0>>, the call itself, or <<b, n>>, the n-th       *)
(* helper task it enqueues.  The pool is reduced to what a batch can       *)
(* observe: a queued helper is picked up by a free worker in any order, or *)
(* dropped once the pool is abandoned.  A call nested in fn(0) of another  *)
(* batch runs on the thread of that fn and takes no worker of its own.     *)
(***************************************************************************)
EXTENDS Naturals, FiniteSets

CONSTANTS
  Batch, NoBatch,
  Async,       \* the batches started with parallelForAsync()
  Count,       \* the number of indices of each batch
  Within,      \* the batch whose fn(0) makes the call, or NoBatch for a client
  NumWorkers   \* maxNumThreads of the pool

ASSUME BatchAssumption ==
  /\ NoBatch \notin Batch /\ Async \subseteq Batch
  /\ Count \in [Batch -> Nat] /\ Within \in [Batch -> Batch \cup {NoBatch}]
  /\ NumWorkers \in Nat \ {0}

Index(b) == 0 .. Count[b] - 1
Lesser(m, n) == IF m < n THEN m ELSE n

\* One helper less than indices for parallelFor(), whose caller takes part;
\* none for the two counts it answers alone.
HelperCount(b) ==
  IF b \in Async THEN IF Count[b] = 0 THEN 1 ELSE Lesser(Count[b], NumWorkers)
  ELSE IF Count[b] <= 1 THEN 0 ELSE Lesser(Count[b] - 1, NumWorkers)

Activation == UNION {{b} \X (0 .. HelperCount(b)) : b \in Batch}
Call(b) == <<b, 0>>
Helper == {a \in Activation : a[2] # 0}
Of(b) == {a \in Activation : a[1] = b}

VARIABLES
  pc,          \* of each activation
  index,       \* the index an activation's fn call is for
  dispatched,  \* how many helpers the call has enqueued
  nextIndex, completedCount,
  done,        \* WaitSync::done; that onAllCompleted has run, for Async
  abandoned,   \* the pool's shutdown discards what is queued
  fnState      \* history: what has become of fn(i)

counters == <<nextIndex, completedCount>>
vars == <<pc, index, dispatched, counters, done, abandoned, fnState>>

Init ==
  /\ pc = [a \in Activation |-> "idle"] /\ index = [a \in Activation |-> 0]
  /\ dispatched = [b \in Batch |-> 0]
  /\ nextIndex = [b \in Batch |-> 0] /\ completedCount = [b \in Batch |-> 0]
  /\ done = [b \in Batch |-> FALSE] /\ abandoned = FALSE
  /\ fnState = [b \in Batch |-> [i \in Index(b) |-> "todo"]]

-----------------------------------------------------------------------------
\* A thread makes one call at a time.
Ended(b) == pc[Call(b)] \in {"returned", "thrown"}
NoneNested(p) == \A b \in Batch : Within[b] = p => pc[Call(b)] = "idle" \/ Ended(b)

MayCall(b) ==
  \/ Within[b] = NoBatch
  \/ /\ \E a \in Of(Within[b]) : pc[a] = "fn" /\ index[a] = 0
     /\ NoneNested(Within[b])

Single(b) == b \notin Async /\ Count[b] = 1

Begin(b) ==
  /\ pc[Call(b)] = "idle" /\ MayCall(b)
  /\ pc' = [pc EXCEPT ![Call(b)] = IF Single(b) THEN "single" ELSE "dispatch"]
  /\ UNCHANGED <<index, dispatched, counters, done, abandoned, fnState>>

\* parallelFor(1) calls fn directly ...
SingleCall(b) ==
  /\ pc[Call(b)] = "single"
  /\ pc' = [pc EXCEPT ![Call(b)] = "fn"]
  /\ fnState' = [fnState EXCEPT ![b][0] = "running"]
  /\ UNCHANGED <<index, dispatched, counters, done, abandoned>>

\* ... with no handler around it.
Leave(b) ==
  /\ pc[Call(b)] = "leave"
  /\ \E how \in {"returned", "thrown"} : pc' = [pc EXCEPT ![Call(b)] = how]
  /\ UNCHANGED <<index, dispatched, counters, done, abandoned, fnState>>

\* enqueue() one helper.
Dispatch(b) ==
  LET n == dispatched[b] + 1 IN
  /\ pc[Call(b)] = "dispatch" /\ n <= HelperCount(b)
  /\ dispatched' = [dispatched EXCEPT ![b] = n]
  /\ pc' = [pc EXCEPT ![<<b, n>>] = "queued"]
  /\ UNCHANGED <<index, counters, done, abandoned, fnState>>

\* enqueue() throws (its push cannot allocate), out of parallelFor() too.
DispatchThrows(b) ==
  /\ pc[Call(b)] = "dispatch" /\ dispatched[b] < HelperCount(b)
  /\ pc' = [pc EXCEPT ![Call(b)] = "thrown"]
  /\ UNCHANGED <<index, dispatched, counters, done, abandoned, fnState>>

\* Mutant: the caller leaves the indices to the workers.
CallerOnlyWaits(b) ==
  /\ pc[Call(b)] = "dispatch" /\ dispatched[b] = HelperCount(b)
  /\ pc' = [pc EXCEPT ![Call(b)] =
               IF b \in Async \/ Count[b] = 0 THEN "returned" ELSE "wait"]
  /\ UNCHANGED <<index, dispatched, counters, done, abandoned, fnState>>

\* Nothing was to be done, or the helpers are on their way.
DispatchEnds(b) ==
  /\ pc[Call(b)] = "dispatch" /\ dispatched[b] = HelperCount(b)
  /\ pc' = [pc EXCEPT ![Call(b)] =
               IF b \in Async \/ Count[b] = 0 THEN "returned" ELSE "fetch"]
  /\ UNCHANGED <<index, dispatched, counters, done, abandoned, fnState>>

Busy == {a \in Helper : pc[a] \in {"fetch", "fn", "count", "complete"}}

\* A worker that runs no task pops the helper.  An empty batch's only helper
\* is the completion action itself.
Pick(a) ==
  /\ a \in Helper /\ pc[a] = "queued" /\ Cardinality(Busy) < NumWorkers
  /\ pc' = [pc EXCEPT ![a] = IF Count[a[1]] = 0 THEN "complete" ELSE "fetch"]
  /\ UNCHANGED <<index, dispatched, counters, done, abandoned, fnState>>

Abandon ==
  /\ ~abandoned /\ abandoned' = TRUE
  /\ UNCHANGED <<pc, index, dispatched, counters, done, fnState>>

Drop(a) ==
  /\ abandoned /\ pc[a] = "queued"
  /\ pc' = [pc EXCEPT ![a] = "dropped"]
  /\ UNCHANGED <<index, dispatched, counters, done, abandoned, fnState>>

-----------------------------------------------------------------------------
(* drainIndices().                                                         *)

\* Mutants: a dropped pool stops the drain; the dispenser is read before it
\* is advanced, so two activations may draw the same index.
MoreUntilAbandoned(b) == nextIndex[b] < Count[b] /\ ~abandoned
Redrawn(b) == {0, nextIndex[b]}

More(b) == nextIndex[b] < Count[b]
Drawn(b) == {nextIndex[b]}

\* nextIndex.fetch_add, and either fn is called or the dispenser was exhausted.
Fetch(a) ==
  LET b == a[1] IN
  /\ pc[a] = "fetch"
  /\ nextIndex' = [nextIndex EXCEPT ![b] = @ + 1]
  /\ \E i \in Drawn(b) : IF More(b)
     THEN /\ pc' = [pc EXCEPT ![a] = "fn"]
          /\ index' = [index EXCEPT ![a] = i]
          /\ fnState' = [fnState EXCEPT ![b][i] = "running"]
     ELSE /\ pc' = [pc EXCEPT ![a] = IF a[2] = 0 THEN "wait" ELSE "returned"]
          /\ UNCHANGED <<index, fnState>>
  /\ UNCHANGED <<dispatched, completedCount, done, abandoned>>

FnEnds(a, to) ==
  /\ pc[a] = "fn" /\ (index[a] = 0 => NoneNested(a[1]))
  /\ fnState' = [fnState EXCEPT ![a[1]][index[a]] = "done"]
  /\ pc' = [pc EXCEPT ![a] = IF Single(a[1]) THEN "leave" ELSE to]
  /\ UNCHANGED <<index, dispatched, counters, done, abandoned>>

FnReturns(a) == FnEnds(a, "count")

\* Mutant: nothing around fn, so a throw ends the helper task or the call.
ThrowEscapes(a) ==
  ~Single(a[1]) /\ FnEnds(a, IF a[2] = 0 THEN "thrown" ELSE "returned")

\* fn throws: the handler logs, and the index is counted all the same.  (What
\* the throw of a single index does is Leave's.)
FnThrows(a) == ~Single(a[1]) /\ FnEnds(a, "count")

CountsLate(b) == completedCount[b] >= Count[b]                   \* mutant
IsLast(b) == completedCount[b] + 1 = Count[b]

CountCompleted(a) ==
  LET b == a[1] IN
  /\ pc[a] = "count"
  /\ completedCount' = [completedCount EXCEPT ![b] = @ + 1]
  /\ pc' = [pc EXCEPT ![a] = IF IsLast(b) THEN "complete" ELSE "fetch"]
  /\ UNCHANGED <<index, dispatched, nextIndex, done, abandoned, fnState>>

\* onAllCompleted(): parallelFor()'s own sets done and notifies, under the mutex.
Complete(a) ==
  LET b == a[1] IN
  /\ pc[a] = "complete"
  /\ done' = [done EXCEPT ![b] = TRUE]
  /\ pc' = [x \in Activation |->
              IF x = a THEN IF Count[b] = 0 THEN "returned" ELSE "fetch"
              ELSE IF x = Call(b) /\ pc[x] = "blocked" THEN "wait" ELSE pc[x]]
  /\ UNCHANGED <<index, dispatched, counters, abandoned, fnState>>

\* The wait's predicate, under the mutex.
Wait(b) ==
  /\ pc[Call(b)] = "wait"
  /\ pc' = [pc EXCEPT ![Call(b)] = IF done[b] THEN "returned" ELSE "blocked"]
  /\ UNCHANGED <<index, dispatched, counters, done, abandoned, fnState>>

SpuriousWake(b) ==
  /\ pc[Call(b)] = "blocked"
  /\ pc' = [pc EXCEPT ![Call(b)] = "wait"]
  /\ UNCHANGED <<index, dispatched, counters, done, abandoned, fnState>>

-----------------------------------------------------------------------------
CallStep(b) == SingleCall(b) \/ Leave(b) \/ Dispatch(b) \/ DispatchEnds(b) \/ Wait(b)
Drain(a) == Fetch(a) \/ FnReturns(a) \/ FnThrows(a) \/ CountCompleted(a) \/ Complete(a)

AllEnded == \A a \in Activation : pc[a] \in {"idle", "returned", "thrown", "dropped"}
Terminated == AllEnded /\ UNCHANGED vars

Next ==
  \/ \E b \in Batch : Begin(b) \/ CallStep(b) \/ DispatchThrows(b) \/ SpuriousWake(b)
  \/ \E a \in Activation : Pick(a) \/ Drop(a) \/ Drain(a)
  \/ Abandon \/ Terminated

Spec == Init /\ [][Next]_vars

-----------------------------------------------------------------------------
(* Correctness.                                                            *)

\* parallelForAsync() with a pool that may go away: either no worker picked the
\* batch up and neither fn nor onAllCompleted ran, or all of it did.
AsyncAllOrNothing == AllEnded => \A b \in Async :
  IF \E a \in Of(b) \cap Helper : pc[a] = "returned"
  THEN done[b] /\ \A i \in Index(b) : fnState[b][i] = "done"
  ELSE ~done[b] /\ \A i \in Index(b) : fnState[b][i] = "todo"

\* "A throw from fn is contained and logged": the only exception parallelFor()
\* may let through is enqueue()'s.
FnThrowContained == \A b \in Batch : Single(b) => pc[Call(b)] # "thrown"

\* The batch implements the loop its callers see.
Result(b) == CASE pc[Call(b)] \in {"idle", "returned", "thrown"} -> pc[Call(b)]
               [] OTHER -> "active"
Loop == INSTANCE ParallelLoop WITH
          allDone <- done, result <- [b \in Batch |-> Result(b)]
ImplementsLoop == Loop!LoopSpec

-----------------------------------------------------------------------------
\* Threads run and fn ends, by a return or a throw.  Nothing obliges a worker to pick a helper up, nor
\* a client to call.
Fairness == /\ \A b \in Batch : WF_vars(CallStep(b))
            /\ \A a \in Activation : WF_vars(Drain(a))
FairSpec == Spec /\ Fairness

\* "The calling thread can complete the entire range alone": parallelFor() comes
\* back although no worker need ever pick a helper up, nested in a saturated
\* pool's task or not, and whatever fn throws, on whichever thread: a throw
\* "must not abort the drain and leave completedCount short of count".
ForReturns == \A b \in Batch \ Async : pc[Call(b)] = "dispatch" ~> Ended(b)

\* parallelForAsync() completes if the pool takes what is queued (QueuedIsTaken
\* of ThreadPool), unless it is abandoned.
WorkersServe == WF_vars(\E a \in Activation : Pick(a))
AsyncCompletes == WorkersServe =>
  \A b \in Async : pc[Call(b)] = "returned" ~> done[b] \/ abandoned
=============================================================================
