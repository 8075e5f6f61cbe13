------------------------ MODULE ParallelBatchProofs ------------------------
(***************************************************************************)
(* parallelFor() and parallelForAsync(), for every set of batches, however *)
(* they nest, every count and every number of workers: ParallelBatch       *)
(* implements ParallelLoop, and an asynchronous batch runs as a whole or   *)
(* not at all.                                                             *)
(***************************************************************************)
EXTENDS ParallelBatch, Integers, FiniteSetTheorems, TLAPS

-----------------------------------------------------------------------------
(* Activations.                                                            *)

LEMMA HelperCounts ==
  ASSUME NEW b \in Batch
  PROVE  /\ HelperCount(b) \in Nat
         /\ Single(b) => HelperCount(b) = 0
         /\ Count[b] = 0 => HelperCount(b) <= 1
BY BatchAssumption DEF HelperCount, Lesser, Single

LEMMA Numbered ==
  /\ \A b \in Batch : \A n \in 1 .. HelperCount(b) :
       <<b, n>> \in Helper /\ <<b, n>>[1] = b /\ <<b, n>>[2] = n
  /\ \A a \in Activation : a[2] \in 0 .. HelperCount(a[1]) /\ a = <<a[1], a[2]>>
BY HelperCounts DEF Activation, Helper

\* An activation is the call of its batch or one of its helpers.
LEMMA Activations ==
  /\ \A b \in Batch : Call(b) \in Activation /\ Call(b)[1] = b /\ Call(b) \notin Helper
  /\ \A a \in Activation : a[1] \in Batch /\ (a \in Helper <=> a # Call(a[1]))
  /\ \A a \in Helper : a \in Activation
  /\ \A b \in Batch : \A a : a \in Of(b) <=> a \in Activation /\ a[1] = b
BY HelperCounts DEF Activation, Helper, Call, Of

\* parallelFor(1) has no helper, and a batch without indices one at most.
LEMMA FewHelpers ==
  /\ \A a \in Helper : ~Single(a[1])
  /\ \A a, c \in Helper : a[1] = c[1] /\ Count[a[1]] = 0 => a = c
<1>1. \A a \in Helper : a[2] \in 1 .. HelperCount(a[1]) /\ a[1] \in Batch /\ a = <<a[1], a[2]>>
  BY HelperCounts, Numbered, Activations DEF Helper
<1>2. QED BY <1>1, HelperCounts

\* The activations of a batch are as many as its helpers and its call.
LEMMA OfFinite ==
  ASSUME NEW b \in Batch, NEW S \in SUBSET Of(b)
  PROVE  IsFiniteSet(S) /\ Cardinality(S) \in Nat
<1> DEFINE f == [n \in 0 .. HelperCount(b) |-> <<b, n>>]
<1>1. IsFiniteSet(0 .. HelperCount(b))
  BY HelperCounts, FS_Interval
<1>2. f \in Surjection(0 .. HelperCount(b), Of(b))
  <2>1. \A n \in 0 .. HelperCount(b) : <<b, n>> \in Of(b)
    BY DEF Of, Activation
  <2>2. \A a \in Of(b) : \E n \in 0 .. HelperCount(b) : f[n] = a
    BY Activations, Numbered
  <2>3. QED BY <2>1, <2>2 DEF Surjection
<1>3. IsFiniteSet(Of(b))
  BY <1>1, <1>2, FS_Surjection
<1>4. QED BY <1>3, FS_Subset, FS_CardinalityType

LEMMA IndexFinite ==
  ASSUME NEW b \in Batch, NEW S \in SUBSET Index(b)
  PROVE  /\ IsFiniteSet(S) /\ Cardinality(S) \in Nat
         /\ Cardinality(S) <= Count[b]
         /\ Cardinality(S) = Count[b] <=> S = Index(b)
<1>1. Count[b] \in Nat
  BY BatchAssumption
<1>2. IsFiniteSet(Index(b)) /\ Cardinality(Index(b)) = Count[b]
  <2>1. Count[b] - 1 \in Int /\ 0 \in Int
    BY <1>1
  <2>2. /\ IsFiniteSet(0 .. Count[b] - 1)
        /\ Cardinality(0 .. Count[b] - 1) = IF 0 > Count[b] - 1 THEN 0 ELSE Count[b] - 1 - 0 + 1
    BY <2>1, FS_Interval
  <2>3. QED BY <1>1, <2>2 DEF Index
<1>3. IsFiniteSet(S) /\ Cardinality(S) <= Cardinality(Index(b))
  BY <1>2, FS_Subset
<1>5. Cardinality(S) \in Nat
  BY <1>3, FS_CardinalityType
<1>4. Cardinality(S) = Cardinality(Index(b)) => S = Index(b)
  BY <1>2, FS_Subset
<1>6. QED BY <1>2, <1>3, <1>4, <1>5

-----------------------------------------------------------------------------
(* The invariant.                                                          *)

CallPC == {"idle", "single", "dispatch", "fetch", "fn", "count", "complete", "wait", "blocked",
           "leave", "returned", "thrown"}
HelperPC == {"idle", "queued", "fetch", "fn", "count", "complete", "returned", "dropped"}

PcTypes == pc \in [Activation -> CallPC \cup HelperPC] /\ index \in [Activation -> Nat]
CountTypes ==
  /\ dispatched \in [Batch -> Nat]
  /\ nextIndex \in [Batch -> Nat] /\ completedCount \in [Batch -> Nat]
  /\ done \in [Batch -> BOOLEAN] /\ abandoned \in BOOLEAN
FnTypes == /\ fnState = [b \in Batch |-> fnState[b]]
           /\ \A b \in Batch : fnState[b] \in [Index(b) -> {"todo", "running", "done"}]
TypeOK == PcTypes /\ CountTypes /\ FnTypes

\* A helper exists once dispatched, which is after the call began.
HelperPhase == \A a \in Helper :
  /\ pc[a] \in HelperPC
  /\ pc[a] # "idle" => a[2] <= dispatched[a[1]]
HelperAfterCall == \A b \in Batch : dispatched[b] > 0 => pc[Call(b)] # "idle"

\* A call that leaves the indices to others never drains; parallelFor(1) never
\* drains either, and it alone runs fn outside drainIndices().
CallPhase == \A b \in Batch :
  /\ pc[Call(b)] \in CallPC
  /\ b \in Async \/ Count[b] = 0 => pc[Call(b)] \in {"idle", "dispatch", "returned", "thrown"}
  /\ Single(b) => pc[Call(b)] \in {"idle", "single", "fn", "leave", "returned", "thrown"}
  /\ ~Single(b) => pc[Call(b)] \notin {"single", "leave"}
EmptyPhase == \A a \in Activation : Count[a[1]] = 0 => pc[a] \notin {"fetch", "fn", "count"}

\* The dispenser divides the indices into those handed out and those to come.
Dispenser == \A b \in Batch : ~Single(b) =>
  \A i \in Index(b) : fnState[b][i] = "todo" <=> i >= nextIndex[b]
SingleIndex == \A b \in Batch : Single(b) =>
  /\ index[Call(b)] = 0
  /\ pc[Call(b)] \in {"idle", "single"} => fnState[b][0] = "todo"
  /\ pc[Call(b)] \in {"leave", "returned", "thrown"} => fnState[b][0] = "done"

\* An index that runs has exactly one activation in fn.
InFn(a) == pc[a] = "fn"
FnRuns == \A a \in Activation : InFn(a) =>
  index[a] \in Index(a[1]) /\ fnState[a[1]][index[a]] = "running"
OneInFn == \A a, c \in Activation :
  InFn(a) /\ InFn(c) /\ a[1] = c[1] /\ index[a] = index[c] => a = c
RunningHasFn == \A b \in Batch : \A i \in Index(b) : fnState[b][i] = "running" =>
  \E a \in Of(b) : InFn(a) /\ index[a] = i
Running == FnRuns /\ OneInFn /\ RunningHasFn

\* completedCount lacks only the indices whose activations have still to count them.
DoneIndices(b) == {i \in Index(b) : fnState[b][i] = "done"}
Counting(b) == {a \in Of(b) : pc[a] = "count"}
CompletedExact == \A b \in Batch : ~Single(b) =>
  Cardinality(DoneIndices(b)) = completedCount[b] + Cardinality(Counting(b))

\* One activation runs onAllCompleted, once, and it does so when all is counted.
Completing(a) == pc[a] = "complete"
OneCompletes == \A a, c \in Activation :
  Completing(a) /\ Completing(c) /\ a[1] = c[1] => a = c
CompletesLast == \A a \in Activation : Completing(a) =>
  ~Single(a[1]) /\ ~done[a[1]] /\ completedCount[a[1]] = Count[a[1]]
DoneCounted == \A b \in Batch : done[b] => ~Single(b) /\ completedCount[b] = Count[b]
EmptyDone == \A a \in Helper :
  Count[a[1]] = 0 => pc[a] \in {"idle", "queued", "complete", "returned", "dropped"}
                     /\ (done[a[1]] <=> pc[a] = "returned")
Completion == OneCompletes /\ CompletesLast /\ DoneCounted /\ EmptyDone

\* A helper comes back once the dispenser is exhausted; the last index counted
\* has somebody to complete the batch; and a dispenser that moved, of a batch
\* whose call does not drain, was moved by a helper.
HelperReturns == \A a \in Helper : pc[a] = "returned" => nextIndex[a[1]] >= Count[a[1]]
LastCompletes == \A b \in Batch : ~Single(b) /\ completedCount[b] = Count[b] /\ Count[b] > 0 =>
  done[b] \/ \E a \in Of(b) : Completing(a)
Drains == {"fetch", "fn", "count", "complete", "returned"}
Picked == \A b \in Async : nextIndex[b] > 0 \/ done[b] =>
  \E a \in Of(b) : a \in Helper /\ pc[a] \in Drains
Outcome == HelperReturns /\ LastCompletes /\ Picked

Phases == HelperPhase /\ HelperAfterCall /\ CallPhase /\ EmptyPhase
BatchInv == TypeOK /\ Phases /\ Dispenser /\ SingleIndex /\ Running /\ CompletedExact
            /\ Completion /\ Outcome

-----------------------------------------------------------------------------
(* What a step does to an activation.                                      *)

Unmoved == UNCHANGED <<pc, index, dispatched, counters, done, fnState>>

\* A step outside drainIndices(), onAllCompleted() and fn: the call begins, hands
\* out its helpers, waits or comes back; a worker takes a helper, or none will.
Walks(a, to) ==
  /\ pc' = [pc EXCEPT ![a] = to]
  /\ pc[a] \notin {"fetch", "fn", "count", "complete", "returned", "thrown"}
  /\ to \in CallPC \cup HelperPC /\ to \notin {"idle", "fn", "count"}
  /\ pc[a] = "idle" => to \in {"single", "dispatch", "queued"}
  /\ to = "returned" =>
       a[1] \in Async \/ Count[a[1]] = 0 \/ done[a[1]] \/ (Single(a[1]) /\ pc[a] = "leave")
  /\ to = "complete" => a \in Helper /\ Count[a[1]] = 0
  /\ to = "fetch" => Count[a[1]] # 0 /\ ~Single(a[1])
  /\ a \in Helper => \/ pc[a] = "idle" /\ to = "queued"
                     \/ pc[a] = "queued" /\ to \in {"fetch", "complete", "dropped"}
  /\ Single(a[1]) => \/ pc[a] = "idle" /\ to = "single"
                     \/ pc[a] = "leave" /\ to \in {"returned", "thrown"}
  /\ UNCHANGED <<index, counters, done, fnState>>

\* The dispenser hands out an index, or had none left.
Obtains(a) ==
  LET b == a[1]
      i == nextIndex[b] IN
  /\ pc[a] = "fetch" /\ i < Count[b]
  /\ nextIndex' = [nextIndex EXCEPT ![b] = i + 1]
  /\ pc' = [pc EXCEPT ![a] = "fn"] /\ index' = [index EXCEPT ![a] = i]
  /\ fnState' = [fnState EXCEPT ![b][i] = "running"]
  /\ UNCHANGED <<dispatched, completedCount, done, abandoned>>
FindsNone(a) ==
  LET b == a[1] IN
  /\ pc[a] = "fetch" /\ ~(nextIndex[b] < Count[b])
  /\ nextIndex' = [nextIndex EXCEPT ![b] = nextIndex[b] + 1]
  /\ pc' = [pc EXCEPT ![a] = IF a \in Helper THEN "returned" ELSE "wait"]
  /\ UNCHANGED <<index, dispatched, completedCount, done, abandoned, fnState>>

\* A throw leaves the batch as a return does: the index is counted.
LEMMA ThrowsCount == \A a : FnThrows(a) => FnReturns(a)
BY DEF FnThrows, FnReturns

LEMMA Fetches ==
  ASSUME NEW a \in Activation, Fetch(a)
  PROVE  Obtains(a) \/ FindsNone(a)
<1>1. a \in Helper <=> a[2] # 0
  BY DEF Helper
<1>2. QED BY <1>1 DEF Fetch, More, Drawn, Obtains, FindsNone

-----------------------------------------------------------------------------
(* Types and phases.                                                       *)

LEMMA TypesStep == TypeOK /\ [Next]_vars => TypeOK'
<1> SUFFICES ASSUME TypeOK, [Next]_vars PROVE TypeOK'  OBVIOUS
<1> USE Activations, BatchAssumption DEF TypeOK
<1>1. ASSUME NEW b \in Batch, Begin(b) \/ Leave(b) \/ DispatchThrows(b) \/ DispatchEnds(b)
                              \/ Wait(b) \/ SpuriousWake(b)
      PROVE  TypeOK'
  <2>1. PcTypes' /\ CountTypes'
    BY <1>1 DEF Begin, Leave, DispatchThrows, DispatchEnds, Wait, SpuriousWake, PcTypes,
                CountTypes, CallPC, HelperPC, counters
  <2>2. FnTypes'
    BY <1>1 DEF Begin, Leave, DispatchThrows, DispatchEnds, Wait, SpuriousWake, FnTypes
  <2>3. QED BY <2>1, <2>2
<1>2. ASSUME NEW b \in Batch, Dispatch(b) PROVE TypeOK'
  <2>1. PcTypes'
    BY <1>2 DEF Dispatch, PcTypes, HelperPC
  <2>2. CountTypes'
    BY <1>2 DEF Dispatch, CountTypes, counters
  <2>3. FnTypes'
    BY <1>2 DEF Dispatch, FnTypes
  <2>4. QED BY <2>1, <2>2, <2>3
<1>3. ASSUME NEW b \in Batch, SingleCall(b) PROVE TypeOK'
  <2>1. PcTypes' /\ CountTypes'
    BY <1>3 DEF SingleCall, PcTypes, CountTypes, CallPC, HelperPC, counters
  <2>2. FnTypes'
    BY <1>3 DEF SingleCall, FnTypes
  <2>3. QED BY <2>1, <2>2
<1>4. ASSUME NEW a \in Activation, Pick(a) \/ Drop(a) PROVE TypeOK'
  BY <1>4 DEF Pick, Drop, PcTypes, CountTypes, FnTypes, CallPC, HelperPC, counters
<1>5. ASSUME NEW a \in Activation, Obtains(a) PROVE TypeOK'
  <2>1. PcTypes' /\ CountTypes'
    BY <1>5 DEF Obtains, PcTypes, CountTypes, CallPC, HelperPC
  <2>2. FnTypes'
    BY <1>5 DEF Obtains, FnTypes
  <2>3. QED BY <2>1, <2>2
<1>6. ASSUME NEW a \in Activation, FindsNone(a) PROVE TypeOK'
  BY <1>6 DEF FindsNone, PcTypes, CountTypes, FnTypes, CallPC, HelperPC
<1>7. ASSUME NEW a \in Activation, FnReturns(a) PROVE TypeOK'
  <2>1. PcTypes' /\ CountTypes'
    BY <1>7 DEF FnReturns, FnEnds, PcTypes, CountTypes, CallPC, HelperPC, counters
  <2>2. FnTypes'
    BY <1>7 DEF FnReturns, FnEnds, FnTypes
  <2>3. QED BY <2>1, <2>2
<1>8. ASSUME NEW a \in Activation, CountCompleted(a) PROVE TypeOK'
  BY <1>8 DEF CountCompleted, PcTypes, CountTypes, FnTypes, CallPC, HelperPC
<1>9. ASSUME NEW a \in Activation, Complete(a) PROVE TypeOK'
  BY <1>9 DEF Complete, PcTypes, CountTypes, FnTypes, CallPC, HelperPC, counters
<1>10. CASE Abandon \/ UNCHANGED vars
  <2>1. PcTypes'
    BY <1>10 DEF Abandon, vars, PcTypes
  <2>2. CountTypes'
    BY <1>10 DEF Abandon, vars, CountTypes, counters
  <2>3. FnTypes'
    BY <1>10 DEF Abandon, vars, FnTypes
  <2>4. QED BY <2>1, <2>2, <2>3
<1>11. QED BY <1>1, <1>2, <1>3, <1>4, <1>5, <1>6, <1>7, <1>8, <1>9, <1>10, Fetches,
           ThrowsCount DEF Next, CallStep, Drain, Terminated

\* A helper that is dispatched was idle, or it would be among the dispatched.
LEMMA NewHelper ==
  ASSUME TypeOK, Phases, NEW b \in Batch, Dispatch(b)
  PROVE  /\ <<b, dispatched[b] + 1>> \in Helper /\ pc[<<b, dispatched[b] + 1>>] = "idle"
         /\ <<b, dispatched[b] + 1>>[1] = b /\ <<b, dispatched[b] + 1>>[2] = dispatched[b] + 1
         /\ <<b, dispatched[b] + 1>> # Call(b)
<1>1. dispatched[b] \in Nat /\ dispatched[b] + 1 <= HelperCount(b)
  BY DEF Dispatch, TypeOK, CountTypes
<1>2. dispatched[b] + 1 \in 1 .. HelperCount(b)
  BY <1>1, HelperCounts
<1>3. ~(dispatched[b] + 1 <= dispatched[b])
  BY <1>1
<1>4. <<b, dispatched[b] + 1>> \in Helper /\ <<b, dispatched[b] + 1>>[1] = b
      /\ <<b, dispatched[b] + 1>>[2] = dispatched[b] + 1
  BY <1>2, Numbered
<1>5. QED BY <1>1, <1>3, <1>4, Activations DEF Phases, HelperPhase

LEMMA PhasesStep ==
  ASSUME TypeOK, Phases, [Next]_vars
  PROVE  Phases'
<1> USE Activations, FewHelpers DEF Phases
<1>1. ASSUME NEW b \in Batch, Begin(b) \/ Leave(b) \/ DispatchThrows(b) \/ DispatchEnds(b)
                              \/ Wait(b) \/ SpuriousWake(b) \/ SingleCall(b)
      PROVE  Phases'
  <2>1. \E to \in CallPC :
          /\ pc' = [pc EXCEPT ![Call(b)] = to] /\ UNCHANGED dispatched /\ to # "idle"
          /\ b \in Async \/ Count[b] = 0 =>
               pc[Call(b)] \in {"idle", "dispatch"} /\ to \in {"dispatch", "returned", "thrown"}
          /\ Single(b) => to \in {"single", "fn", "leave", "returned", "thrown"}
          /\ ~Single(b) => to \notin {"single", "leave"}
          /\ to = "fetch" => Count[b] # 0
          /\ to = "fn" => Single(b)
    BY <1>1 DEF Begin, Leave, DispatchThrows, DispatchEnds, Wait, SpuriousWake, SingleCall,
                CallPC, CallPhase, Single
  <2>2. HelperPhase' /\ HelperAfterCall' /\ CallPhase'
    BY <2>1 DEF HelperPhase, HelperAfterCall, CallPhase, CallPC, HelperPC, TypeOK, PcTypes
  <2>3. EmptyPhase'
    BY <2>1 DEF EmptyPhase, TypeOK, PcTypes, Single
  <2>4. QED BY <2>2, <2>3
<1>2. ASSUME NEW b \in Batch, Dispatch(b) PROVE Phases'
  <2>1. PICK h \in Helper :
          /\ h[1] = b /\ h[2] = dispatched[b] + 1 /\ pc' = [pc EXCEPT ![h] = "queued"]
    BY <1>2, NewHelper DEF Dispatch
  <2>2. /\ dispatched' = [dispatched EXCEPT ![b] = dispatched[b] + 1] /\ dispatched[b] \in Nat
        /\ pc[Call(b)] = "dispatch"
    BY <1>2 DEF Dispatch, TypeOK, CountTypes
  <2>3. HelperPhase'
    <3>1. \A a \in Helper : a[2] <= dispatched[a[1]] => a[2] <= dispatched'[a[1]]
      BY <2>2, Numbered, HelperCounts DEF TypeOK, CountTypes
    <3>2. h[2] <= dispatched'[h[1]]
      BY <2>1, <2>2 DEF TypeOK, CountTypes
    <3>3. QED BY <2>1, <3>1, <3>2 DEF HelperPhase, HelperPC, TypeOK, PcTypes
  <2>4. HelperAfterCall' /\ CallPhase' /\ EmptyPhase'
    BY <2>1, <2>2 DEF HelperAfterCall, CallPhase, EmptyPhase, TypeOK, PcTypes, CountTypes
  <2>5. QED BY <2>3, <2>4
<1>3. ASSUME NEW a \in Activation, Pick(a) \/ Drop(a) PROVE Phases'
  <2>1. a \in Helper
    BY <1>3 DEF Pick, Drop, CallPhase, CallPC
  <2>2. QED BY <1>3, <2>1
            DEF Pick, Drop, HelperPhase, HelperAfterCall, CallPhase, EmptyPhase, HelperPC,
                TypeOK, PcTypes
<1>4. ASSUME NEW a \in Activation, Obtains(a) PROVE Phases'
  BY <1>4 DEF Obtains, HelperPhase, HelperAfterCall, CallPhase, EmptyPhase, CallPC, HelperPC,
              TypeOK, PcTypes
<1>5. ASSUME NEW a \in Activation, FindsNone(a) PROVE Phases'
  BY <1>5 DEF FindsNone, HelperPhase, HelperAfterCall, CallPhase, EmptyPhase, CallPC, HelperPC,
              TypeOK, PcTypes
<1>6. ASSUME NEW a \in Activation, FnReturns(a) PROVE Phases'
  BY <1>6 DEF FnReturns, FnEnds, HelperPhase, HelperAfterCall, CallPhase, EmptyPhase, CallPC,
              HelperPC, TypeOK, PcTypes
<1>7. ASSUME NEW a \in Activation, CountCompleted(a) PROVE Phases'
  BY <1>7 DEF CountCompleted, HelperPhase, HelperAfterCall, CallPhase, EmptyPhase, CallPC,
              HelperPC, TypeOK, PcTypes
<1>8. ASSUME NEW a \in Activation, Complete(a) PROVE Phases'
  BY <1>8 DEF Complete, HelperPhase, HelperAfterCall, CallPhase, EmptyPhase, CallPC,
              HelperPC, TypeOK, PcTypes
<1>9. CASE Abandon \/ UNCHANGED vars
  BY <1>9 DEF Abandon, vars, HelperPhase, HelperAfterCall, CallPhase, EmptyPhase
<1>10. QED BY <1>1, <1>2, <1>3, <1>4, <1>5, <1>6, <1>7, <1>8, <1>9, Fetches,
           ThrowsCount DEF Next, CallStep, Drain, Terminated

LEMMA StepKinds ==
  ASSUME TypeOK, Phases, [Next]_vars
  PROVE  \/ \E a \in Activation :
              \/ \E to \in CallPC \cup HelperPC : Walks(a, to)
              \/ Obtains(a) \/ FindsNone(a) \/ FnReturns(a) \/ CountCompleted(a) \/ Complete(a)
         \/ \E b \in Batch : SingleCall(b)
         \/ Unmoved
<1> USE Activations, FewHelpers
<1>1. ASSUME NEW b \in Batch, Begin(b) \/ Leave(b) \/ DispatchThrows(b) \/ DispatchEnds(b)
                              \/ Wait(b) \/ SpuriousWake(b)
      PROVE  \E to \in CallPC \cup HelperPC : Walks(Call(b), to)
  <2>1. Begin(b) => Walks(Call(b), "single") \/ Walks(Call(b), "dispatch")
    BY DEF Begin, Walks, CallPC, Single
  <2>2. Leave(b) => Walks(Call(b), "returned") \/ Walks(Call(b), "thrown")
    <3> SUFFICES ASSUME Leave(b) PROVE \E how \in {"returned", "thrown"} : Walks(Call(b), how)
      OBVIOUS
    <3>1. PICK how \in {"returned", "thrown"} : pc' = [pc EXCEPT ![Call(b)] = how]
      BY DEF Leave
    <3>2. pc[Call(b)] = "leave" /\ Single(b)
      BY DEF Leave, Phases, CallPhase
    <3>3. Walks(Call(b), how)
      BY <3>1, <3>2 DEF Leave, Walks, CallPC
    <3>4. QED BY <3>3
  <2>3. DispatchThrows(b) => Walks(Call(b), "thrown")
    BY DEF DispatchThrows, Walks, CallPC, Phases, CallPhase
  <2>4. DispatchEnds(b) => Walks(Call(b), "returned") \/ Walks(Call(b), "fetch")
    BY DEF DispatchEnds, Walks, CallPC, Phases, CallPhase
  <2>5. Wait(b) => Walks(Call(b), "returned") \/ Walks(Call(b), "blocked")
    BY DEF Wait, Walks, CallPC, Phases, CallPhase
  <2>6. SpuriousWake(b) => Walks(Call(b), "wait")
    BY DEF SpuriousWake, Walks, CallPC, Phases, CallPhase
  <2>7. QED BY <1>1, <2>1, <2>2, <2>3, <2>4, <2>5, <2>6 DEF CallPC
<1>2. ASSUME NEW b \in Batch, Dispatch(b)
      PROVE  Walks(<<b, dispatched[b] + 1>>, "queued")
  BY <1>2, NewHelper DEF Dispatch, Walks, HelperPC
<1>3. ASSUME NEW a \in Activation, Pick(a) \/ Drop(a)
      PROVE  \E to \in CallPC \cup HelperPC : Walks(a, to)
  BY <1>3 DEF Pick, Drop, Walks, HelperPC, CallPC, Phases, CallPhase
<1>4. CASE Abandon \/ UNCHANGED vars
  BY <1>4 DEF Abandon, vars, Unmoved
<1>5. ASSUME NEW b \in Batch, Dispatch(b)
      PROVE  \E a \in Activation : \E to \in CallPC \cup HelperPC : Walks(a, to)
  BY <1>2, <1>5, NewHelper DEF HelperPC
<1>6. ASSUME NEW b \in Batch, CallStep(b)
      PROVE  SingleCall(b) \/ \E a \in Activation : \E to \in CallPC \cup HelperPC : Walks(a, to)
  BY <1>1, <1>5, <1>6 DEF CallStep
<1>7. ASSUME NEW a \in Activation, Drain(a)
      PROVE  Obtains(a) \/ FindsNone(a) \/ FnReturns(a) \/ CountCompleted(a) \/ Complete(a)
  BY <1>7, Fetches, ThrowsCount DEF Drain
<1>8. CASE Terminated \/ UNCHANGED vars
  BY <1>4, <1>8 DEF Terminated
<1>9. QED BY <1>1, <1>3, <1>4, <1>6, <1>7, <1>8 DEF Next

-----------------------------------------------------------------------------
(* Which index is at whom.                                                 *)

LEMMA DispenserStep ==
  ASSUME TypeOK, Phases, Dispenser, FnRuns, [Next]_vars
  PROVE  Dispenser'
<1> USE Activations, BatchAssumption DEF Dispenser, Index
<1>1. CASE Unmoved
  BY <1>1 DEF Unmoved, counters
<1>2. ASSUME NEW a \in Activation, NEW to, Walks(a, to) PROVE Dispenser'
  BY <1>2 DEF Walks, counters
<1>3. ASSUME NEW a \in Activation, Obtains(a) PROVE Dispenser'
  BY <1>3 DEF Obtains, TypeOK, CountTypes, FnTypes
<1>4. ASSUME NEW a \in Activation, FindsNone(a) PROVE Dispenser'
  BY <1>4 DEF FindsNone, TypeOK, CountTypes
<1>5. ASSUME NEW a \in Activation, FnReturns(a) PROVE Dispenser'
  <2>1. index[a] \in Index(a[1]) /\ fnState[a[1]][index[a]] = "running"
    BY <1>5 DEF FnReturns, FnEnds, FnRuns, InFn
  <2>2. QED BY <1>5, <2>1 DEF FnReturns, FnEnds, TypeOK, FnTypes, counters
<1>6. ASSUME NEW a \in Activation, CountCompleted(a) \/ Complete(a) PROVE Dispenser'
  BY <1>6 DEF CountCompleted, Complete, counters
<1>7. ASSUME NEW b \in Batch, SingleCall(b) PROVE Dispenser'
  <2>1. Single(b)
    BY <1>7 DEF SingleCall, Phases, CallPhase
  <2>2. QED BY <1>7, <2>1 DEF SingleCall, TypeOK, FnTypes, counters, Single
<1>8. QED BY <1>1, <1>2, <1>3, <1>4, <1>5, <1>6, <1>7, StepKinds

\* The single index of a parallelFor(1) follows its call.
LEMMA SingleIndexStep ==
  ASSUME TypeOK, Phases, SingleIndex, [Next]_vars
  PROVE  SingleIndex'
<1> USE Activations, FewHelpers DEF SingleIndex
<1>0. \A b \in Batch : Single(b) => 0 \in Index(b)
  BY DEF Single, Index
<1>1. CASE Unmoved
  BY <1>1 DEF Unmoved
<1>2. ASSUME NEW a \in Activation, NEW to, Walks(a, to) PROVE SingleIndex'
  BY <1>2 DEF Walks, TypeOK, PcTypes
<1>3. ASSUME NEW a \in Activation, Obtains(a) \/ FindsNone(a) \/ CountCompleted(a)
      PROVE  SingleIndex'
  <2>1. ~Single(a[1])
    BY <1>3 DEF Obtains, FindsNone, CountCompleted, Phases, CallPhase
  <2>2. QED BY <1>3, <2>1 DEF Obtains, FindsNone, CountCompleted, TypeOK, PcTypes, FnTypes
<1>4. ASSUME NEW a \in Activation, FnReturns(a) PROVE SingleIndex'
  BY <1>0, <1>4 DEF FnReturns, FnEnds, TypeOK, PcTypes, FnTypes
<1>5. ASSUME NEW a \in Activation, Complete(a) PROVE SingleIndex'
  <2>1. ~Single(a[1])
    BY <1>5 DEF Complete, Phases, CallPhase
  <2>2. \A b \in Batch : Single(b) => pc'[Call(b)] = pc[Call(b)]
    BY <1>5, <2>1 DEF Complete, Phases, CallPhase
  <2>3. QED BY <1>5, <2>2 DEF Complete
<1>6. ASSUME NEW b \in Batch, SingleCall(b) PROVE SingleIndex'
  BY <1>0, <1>6 DEF SingleCall, TypeOK, PcTypes, FnTypes
<1>7. QED BY <1>1, <1>2, <1>3, <1>4, <1>5, <1>6, StepKinds

LEMMA RunningStep ==
  ASSUME TypeOK, Phases, Dispenser, SingleIndex, Running, [Next]_vars
  PROVE  Running'
<1> USE Activations, FewHelpers DEF Running, FnRuns, OneInFn, RunningHasFn, InFn
<1>1. CASE Unmoved
  BY <1>1 DEF Unmoved
<1>2. ASSUME NEW a \in Activation, NEW to, Walks(a, to) PROVE Running'
  <2>1. \A x \in Activation : pc'[x] = "fn" <=> pc[x] = "fn"
    BY <1>2 DEF Walks, TypeOK, PcTypes
  <2>2. QED BY <1>2, <2>1 DEF Walks
<1>3. ASSUME NEW a \in Activation, Obtains(a) PROVE Running'
  <2>1. /\ a[1] \in Batch /\ ~Single(a[1]) /\ nextIndex[a[1]] \in Index(a[1])
        /\ fnState[a[1]][nextIndex[a[1]]] = "todo"
    <3>1. a[1] \in Batch /\ ~Single(a[1])
      BY <1>3 DEF Obtains, Phases, CallPhase
    <3>2. nextIndex[a[1]] \in Index(a[1]) /\ nextIndex[a[1]] >= nextIndex[a[1]]
      <4>1. nextIndex[a[1]] \in Nat /\ Count[a[1]] \in Nat /\ nextIndex[a[1]] < Count[a[1]]
        BY <1>3, <3>1, BatchAssumption DEF Obtains, TypeOK, CountTypes
      <4>2. QED BY <4>1 DEF Index
    <3>3. QED BY <3>1, <3>2 DEF Dispenser
  <2>2. \A x \in Activation : pc[x] = "fn" /\ x[1] = a[1] => index[x] # nextIndex[a[1]]
    BY <2>1
  <2>3. \A x \in Activation : pc'[x] = "fn" <=> pc[x] = "fn" \/ x = a
    BY <1>3 DEF Obtains, TypeOK, PcTypes
  <2>4. \A x \in Activation : index'[x] = IF x = a THEN nextIndex[a[1]] ELSE index[x]
    BY <1>3 DEF Obtains, TypeOK, PcTypes
  <2>5. \A b \in Batch : \A i \in Index(b) :
          fnState'[b][i] = IF b = a[1] /\ i = nextIndex[b] THEN "running" ELSE fnState[b][i]
    BY <1>3 DEF Obtains, TypeOK, FnTypes
  <2>6. pc[a] # "fn"
    BY <1>3 DEF Obtains
  <2>7. FnRuns'
    BY <2>1, <2>3, <2>4, <2>5
  <2>8. OneInFn'
    BY <2>2, <2>3, <2>4
  <2>9. RunningHasFn'
    BY <2>1, <2>3, <2>4, <2>5, <2>6
  <2>10. QED BY <2>7, <2>8, <2>9
<1>4. ASSUME NEW a \in Activation, FindsNone(a) \/ CountCompleted(a) \/ Complete(a)
      PROVE  Running'
  <2>1. \A x \in Activation : pc'[x] = "fn" <=> pc[x] = "fn"
    BY <1>4 DEF FindsNone, CountCompleted, Complete, TypeOK, PcTypes
  <2>2. QED BY <1>4, <2>1 DEF FindsNone, CountCompleted, Complete
<1>5. ASSUME NEW a \in Activation, FnReturns(a) PROVE Running'
  <2>1. \A x \in Activation : pc'[x] = "fn" <=> pc[x] = "fn" /\ x # a
    BY <1>5 DEF FnReturns, FnEnds, TypeOK, PcTypes
  <2>2. \A b \in Batch : \A i \in Index(b) :
          fnState'[b][i] = IF b = a[1] /\ i = index[a] THEN "done" ELSE fnState[b][i]
    BY <1>5 DEF FnReturns, FnEnds, TypeOK, FnTypes
  <2>3. UNCHANGED index /\ pc[a] = "fn"
    BY <1>5 DEF FnReturns, FnEnds
  <2>4. QED BY <2>1, <2>2, <2>3
<1>6. ASSUME NEW b \in Batch, SingleCall(b) PROVE Running'
  <2>1. Single(b) /\ index[Call(b)] = 0 /\ pc[Call(b)] = "single"
    BY <1>6 DEF SingleCall, Phases, CallPhase, SingleIndex
  <2>2. \A x \in Activation : x[1] = b => x = Call(b)
    BY <2>1
  <2>3. \A i \in Index(b) : i = 0
    BY <2>1 DEF Single, Index
  <2>4. \A x \in Activation : pc'[x] = "fn" <=> pc[x] = "fn" \/ x = Call(b)
    BY <1>6 DEF SingleCall, TypeOK, PcTypes
  <2>5. \A c \in Batch : \A i \in Index(c) :
          fnState'[c][i] = IF c = b /\ i = 0 THEN "running" ELSE fnState[c][i]
    BY <1>6 DEF SingleCall, TypeOK, FnTypes
  <2>6. UNCHANGED index /\ 0 \in Index(b)
    BY <1>6, <2>1 DEF SingleCall, Single, Index
  <2>7. QED BY <2>1, <2>2, <2>3, <2>4, <2>5, <2>6
<1>7. QED BY <1>1, <1>2, <1>3, <1>4, <1>5, <1>6, StepKinds

-----------------------------------------------------------------------------
(* What is counted.                                                        *)

\* The sets behind the count change with fn's return and with the count alone.
CountsStill(b) == DoneIndices(b)' = DoneIndices(b) /\ Counting(b)' = Counting(b)

LEMMA CompletedStep ==
  ASSUME TypeOK, Phases, Dispenser, SingleIndex, Running, CompletedExact, [Next]_vars
  PROVE  CompletedExact'
<1> USE Activations
<1>0. ASSUME NEW b \in Batch, CountsStill(b), completedCount'[b] = completedCount[b]
      PROVE  ~Single(b) =>
               Cardinality(DoneIndices(b)') = completedCount'[b] + Cardinality(Counting(b)')
  BY <1>0 DEF CountsStill, CompletedExact
<1>1. CASE Unmoved
  <2>1. \A b \in Batch : CountsStill(b) /\ completedCount'[b] = completedCount[b]
    BY <1>1 DEF Unmoved, CountsStill, DoneIndices, Counting, counters
  <2>2. QED BY <1>0, <2>1 DEF CompletedExact
<1>2. ASSUME NEW a \in Activation, NEW to, Walks(a, to) PROVE CompletedExact'
  <2>1. \A x \in Activation : pc'[x] = "count" <=> pc[x] = "count"
    BY <1>2 DEF Walks, TypeOK, PcTypes
  <2>2. \A b \in Batch : CountsStill(b) /\ completedCount'[b] = completedCount[b]
    BY <1>2, <2>1 DEF Walks, CountsStill, DoneIndices, Counting, counters
  <2>3. QED BY <1>0, <2>2 DEF CompletedExact
<1>3. ASSUME NEW a \in Activation, Obtains(a) PROVE CompletedExact'
  <2>1. \A x \in Activation : pc'[x] = "count" <=> pc[x] = "count"
    BY <1>3 DEF Obtains, TypeOK, PcTypes
  <2>2. ~Single(a[1])
    BY <1>3, FewHelpers DEF Obtains, Phases, CallPhase
  <2>3. \A i \in Index(a[1]) : i = nextIndex[a[1]] => fnState[a[1]][i] = "todo"
    BY <2>2 DEF Dispenser, TypeOK, CountTypes
  <2>4. \A b \in Batch : \A i \in Index(b) :
          fnState'[b][i] = "done" <=> fnState[b][i] = "done"
    BY <1>3, <2>3 DEF Obtains, TypeOK, FnTypes
  <2>5. \A b \in Batch : CountsStill(b) /\ completedCount'[b] = completedCount[b]
    BY <1>3, <2>1, <2>4 DEF Obtains, CountsStill, DoneIndices, Counting
  <2>6. QED BY <1>0, <2>5 DEF CompletedExact
<1>4. ASSUME NEW a \in Activation, FindsNone(a) \/ Complete(a) PROVE CompletedExact'
  <2>1. \A x \in Activation : pc'[x] = "count" <=> pc[x] = "count"
    BY <1>4 DEF FindsNone, Complete, TypeOK, PcTypes
  <2>2. \A b \in Batch : CountsStill(b) /\ completedCount'[b] = completedCount[b]
    BY <1>4, <2>1 DEF FindsNone, Complete, CountsStill, DoneIndices, Counting, counters
  <2>3. QED BY <1>0, <2>2 DEF CompletedExact
<1>5. ASSUME NEW a \in Activation, FnReturns(a) PROVE CompletedExact'
  <2>1. /\ pc[a] = "fn" /\ index[a] \in Index(a[1]) /\ fnState[a[1]][index[a]] = "running"
        /\ UNCHANGED completedCount
    BY <1>5 DEF FnReturns, FnEnds, Running, FnRuns, InFn, counters
  <2>2. \A b \in Batch : \A i \in Index(b) :
          fnState'[b][i] = IF b = a[1] /\ i = index[a] THEN "done" ELSE fnState[b][i]
    BY <1>5 DEF FnReturns, FnEnds, TypeOK, FnTypes
  <2>3. \A x \in Activation : pc'[x] = IF x = a THEN IF Single(a[1]) THEN "leave" ELSE "count"
                                      ELSE pc[x]
    BY <1>5 DEF FnReturns, FnEnds, TypeOK, PcTypes
  <2>4. ASSUME NEW b \in Batch, b # a[1], ~Single(b)
        PROVE  Cardinality(DoneIndices(b)') = completedCount'[b] + Cardinality(Counting(b)')
    <3>1. CountsStill(b) /\ completedCount'[b] = completedCount[b]
      BY <2>1, <2>2, <2>3, <2>4 DEF CountsStill, DoneIndices, Counting
    <3>2. QED BY <1>0, <2>4, <3>1
  <2>5. ASSUME ~Single(a[1])
        PROVE  Cardinality(DoneIndices(a[1])')
                 = completedCount'[a[1]] + Cardinality(Counting(a[1])')
    <3> DEFINE b == a[1]
    <3>1. DoneIndices(b)' = DoneIndices(b) \cup {index[a]} /\ index[a] \notin DoneIndices(b)
      BY <2>1, <2>2 DEF DoneIndices
    <3>2. Counting(b)' = Counting(b) \cup {a} /\ a \notin Counting(b)
      BY <2>1, <2>3, <2>5 DEF Counting
    <3>3. /\ IsFiniteSet(DoneIndices(b)) /\ Cardinality(DoneIndices(b)) \in Nat
          /\ IsFiniteSet(Counting(b)) /\ Cardinality(Counting(b)) \in Nat
      BY IndexFinite, OfFinite DEF DoneIndices, Counting
    <3>4. /\ Cardinality(DoneIndices(b)') = Cardinality(DoneIndices(b)) + 1
          /\ Cardinality(Counting(b)') = Cardinality(Counting(b)) + 1
      BY <3>1, <3>2, <3>3, FS_AddElement
    <3>5. /\ Cardinality(DoneIndices(b)) = completedCount[b] + Cardinality(Counting(b))
          /\ completedCount[b] \in Nat /\ completedCount'[b] = completedCount[b]
      BY <2>1, <2>5 DEF CompletedExact, TypeOK, CountTypes
    <3>6. QED BY <3>3, <3>4, <3>5
  <2>6. QED BY <2>4, <2>5 DEF CompletedExact
<1>6. ASSUME NEW a \in Activation, CountCompleted(a) PROVE CompletedExact'
  <2>1. /\ pc[a] = "count" /\ UNCHANGED fnState
        /\ completedCount' = [completedCount EXCEPT ![a[1]] = completedCount[a[1]] + 1]
    BY <1>6 DEF CountCompleted
  <2>2. \A x \in Activation : pc'[x] = "count" <=> pc[x] = "count" /\ x # a
    BY <1>6 DEF CountCompleted, TypeOK, PcTypes
  <2>3. ASSUME NEW b \in Batch, b # a[1], ~Single(b)
        PROVE  Cardinality(DoneIndices(b)') = completedCount'[b] + Cardinality(Counting(b)')
    <3>1. CountsStill(b) /\ completedCount'[b] = completedCount[b]
      BY <2>1, <2>2, <2>3 DEF CountsStill, DoneIndices, Counting, TypeOK, CountTypes
    <3>2. QED BY <1>0, <2>3, <3>1
  <2>4. ASSUME ~Single(a[1])
        PROVE  Cardinality(DoneIndices(a[1])')
                 = completedCount'[a[1]] + Cardinality(Counting(a[1])')
    <3> DEFINE b == a[1]
    <3>1. DoneIndices(b)' = DoneIndices(b)
      BY <2>1 DEF DoneIndices
    <3>2. Counting(b)' = Counting(b) \ {a} /\ a \in Counting(b)
      BY <2>1, <2>2 DEF Counting
    <3>3. IsFiniteSet(Counting(b)) /\ Cardinality(Counting(b)) \in Nat
      BY OfFinite DEF Counting
    <3>4. Cardinality(Counting(b)') = Cardinality(Counting(b)) - 1
      <4>1. Cardinality(Counting(b) \ {a}) = Cardinality(Counting(b)) - 1
        BY <3>2, <3>3, FS_RemoveElement
      <4>2. QED BY <3>2, <4>1
    <3>5. /\ Cardinality(DoneIndices(b)) = completedCount[b] + Cardinality(Counting(b))
          /\ completedCount[b] \in Nat /\ completedCount'[b] = completedCount[b] + 1
      BY <2>1, <2>4 DEF CompletedExact, TypeOK, CountTypes
    <3>6. QED BY <3>1, <3>3, <3>4, <3>5
  <2>5. QED BY <2>3, <2>4 DEF CompletedExact
<1>7. ASSUME NEW b \in Batch, SingleCall(b) PROVE CompletedExact'
  <2>1. Single(b) /\ UNCHANGED completedCount
    BY <1>7 DEF SingleCall, Phases, CallPhase, counters
  <2>2. ASSUME NEW c \in Batch, c # b PROVE CountsStill(c)
    BY <1>7, <2>2 DEF SingleCall, CountsStill, DoneIndices, Counting, TypeOK, PcTypes, FnTypes
  <2>3. QED BY <1>0, <2>1, <2>2 DEF CompletedExact
<1>8. QED BY <1>1, <1>2, <1>3, <1>4, <1>5, <1>6, <1>7, StepKinds

-----------------------------------------------------------------------------
(* Who completes the batch.                                                *)

\* An index that is still to be counted keeps the count short of the last one.
LEMMA CountBound ==
  ASSUME TypeOK, CompletedExact, NEW b \in Batch, ~Single(b)
  PROVE  /\ completedCount[b] <= Count[b]
         /\ \A a \in Of(b) : pc[a] = "count" => completedCount[b] < Count[b]
<1>1. /\ Cardinality(DoneIndices(b)) <= Count[b] /\ Cardinality(DoneIndices(b)) \in Nat
      /\ Cardinality(Counting(b)) \in Nat /\ IsFiniteSet(Counting(b))
  BY IndexFinite, OfFinite DEF DoneIndices, Counting
<1>2. /\ Cardinality(DoneIndices(b)) = completedCount[b] + Cardinality(Counting(b))
      /\ completedCount[b] \in Nat /\ Count[b] \in Nat
  BY BatchAssumption DEF CompletedExact, TypeOK, CountTypes
<1>3. \A a \in Of(b) : pc[a] = "count" => Cardinality(Counting(b)) # 0
  BY <1>1, FS_EmptySet DEF Counting
<1>4. QED BY <1>1, <1>2, <1>3

LEMMA Completes ==
  ASSUME TypeOK, Phases, NEW a \in Activation, Complete(a)
  PROVE  /\ pc[a] = "complete" /\ UNCHANGED <<completedCount, nextIndex>>
         /\ \A b \in Batch : done'[b] <=> b = a[1] \/ done[b]
         /\ \A x \in Activation : pc'[x] = "complete" <=> pc[x] = "complete" /\ x # a
         /\ \A x \in Helper : x # a => pc'[x] = pc[x]
         /\ pc'[a] = IF Count[a[1]] = 0 THEN "returned" ELSE "fetch"
         /\ Count[a[1]] = 0 \/ a[1] \in Async => a \in Helper
<1> USE Activations
<1>1. pc[a] = "complete" /\ UNCHANGED <<completedCount, nextIndex>>
  BY DEF Complete, counters
<1>2. \A b \in Batch : done'[b] <=> b = a[1] \/ done[b]
  BY DEF Complete, TypeOK, CountTypes
<1>3. pc'[a] = IF Count[a[1]] = 0 THEN "returned" ELSE "fetch"
  BY DEF Complete
<1>4. \A x \in Activation : pc'[x] = "complete" <=> pc[x] = "complete" /\ x # a
  BY <1>3 DEF Complete
<1>5. \A x \in Helper : x # a => pc'[x] = pc[x]
  BY DEF Complete
<1>6. Count[a[1]] = 0 \/ a[1] \in Async => a \in Helper
  BY <1>1 DEF Phases, CallPhase
<1>7. QED BY <1>1, <1>2, <1>3, <1>4, <1>5, <1>6

LEMMA CompletionStep ==
  ASSUME TypeOK, Phases, CompletedExact, Completion, [Next]_vars
  PROVE  Completion'
<1> USE Activations, FewHelpers DEF Completion, Completing
<1>1. CASE Unmoved
  BY <1>1 DEF Unmoved, OneCompletes, CompletesLast, DoneCounted, EmptyDone, counters
<1>2. ASSUME NEW a \in Activation, NEW to, Walks(a, to) PROVE Completion'
  <2>1. /\ \A x \in Activation : pc'[x] = IF x = a THEN to ELSE pc[x]
        /\ UNCHANGED <<done, completedCount>>
    BY <1>2 DEF Walks, TypeOK, PcTypes, counters
  <2>2. ASSUME to = "complete"
        PROVE  /\ a \in Helper /\ Count[a[1]] = 0 /\ ~Single(a[1]) /\ ~done[a[1]]
               /\ completedCount[a[1]] = Count[a[1]]
               /\ \A x \in Activation : x[1] = a[1] /\ pc[x] = "complete" => x = a
    <3>1. a \in Helper /\ Count[a[1]] = 0 /\ ~Single(a[1]) /\ pc[a] = "queued"
      BY <1>2, <2>2 DEF Walks
    <3>2. ~done[a[1]]
      BY <3>1 DEF EmptyDone
    <3>3. completedCount[a[1]] = Count[a[1]]
      BY <3>1, CountBound DEF TypeOK, CountTypes
    <3>4. \A x \in Activation : x[1] = a[1] /\ pc[x] = "complete" => x \in Helper
      BY <3>1 DEF Phases, CallPhase
    <3>5. QED BY <3>1, <3>2, <3>3, <3>4
  <2>3. OneCompletes' /\ CompletesLast'
    BY <2>1, <2>2 DEF OneCompletes, CompletesLast
  <2>4. DoneCounted'
    BY <2>1 DEF DoneCounted
  <2>5. EmptyDone'
    BY <1>2, <2>1 DEF EmptyDone, Walks
  <2>6. QED BY <2>3, <2>4, <2>5
<1>3. ASSUME NEW a \in Activation, Obtains(a) \/ FindsNone(a) \/ FnReturns(a)
      PROVE  Completion'
  <2>1. /\ \A x \in Activation : x # a => pc'[x] = pc[x]
        /\ pc[a] \in {"fetch", "fn"} /\ pc'[a] # "complete" /\ UNCHANGED <<done, completedCount>>
    BY <1>3 DEF Obtains, FindsNone, FnReturns, FnEnds, TypeOK, PcTypes, counters
  <2>2. Count[a[1]] # 0
    BY <2>1 DEF Phases, EmptyPhase
  <2>3. QED BY <2>1, <2>2 DEF OneCompletes, CompletesLast, DoneCounted, EmptyDone
<1>4. ASSUME NEW a \in Activation, CountCompleted(a) PROVE Completion'
  <2>1. /\ \A x \in Activation : x # a => pc'[x] = pc[x]
        /\ pc[a] = "count" /\ UNCHANGED done
        /\ pc'[a] = IF completedCount[a[1]] + 1 = Count[a[1]] THEN "complete" ELSE "fetch"
        /\ \A b \in Batch : completedCount'[b] = IF b = a[1] THEN completedCount[b] + 1
                                                 ELSE completedCount[b]
    BY <1>4 DEF CountCompleted, IsLast, TypeOK, PcTypes, CountTypes
  <2>2. ~Single(a[1]) /\ Count[a[1]] # 0
    BY <2>1 DEF Phases, CallPhase, EmptyPhase
  <2>3. completedCount[a[1]] < Count[a[1]]
    BY <2>1, <2>2, CountBound
  <2>4. completedCount[a[1]] # Count[a[1]]
    BY <2>3, BatchAssumption DEF TypeOK, CountTypes
  <2>5. \A x \in Activation : x[1] = a[1] => pc[x] # "complete"
    BY <2>4 DEF CompletesLast
  <2>6. ~done[a[1]]
    BY <2>4 DEF DoneCounted
  <2>7. OneCompletes' /\ CompletesLast'
    BY <2>1, <2>2, <2>5, <2>6 DEF OneCompletes, CompletesLast
  <2>8. DoneCounted' /\ EmptyDone'
    BY <2>1, <2>2, <2>6 DEF DoneCounted, EmptyDone
  <2>9. QED BY <2>7, <2>8
<1>5. ASSUME NEW a \in Activation, Complete(a) PROVE Completion'
  <2>1. /\ pc[a] = "complete" /\ UNCHANGED completedCount
        /\ \A b \in Batch : done'[b] <=> b = a[1] \/ done[b]
        /\ \A x \in Activation : pc'[x] = "complete" <=> pc[x] = "complete" /\ x # a
        /\ \A x \in Helper : x # a => pc'[x] = pc[x]
        /\ pc'[a] = IF Count[a[1]] = 0 THEN "returned" ELSE "fetch"
        /\ Count[a[1]] = 0 => a \in Helper
    BY <1>5, Completes
  <2>2. ~Single(a[1]) /\ completedCount[a[1]] = Count[a[1]]
    BY <2>1 DEF CompletesLast
  <2>3. OneCompletes'
    BY <2>1 DEF OneCompletes
  <2>4. CompletesLast'
    BY <2>1 DEF CompletesLast, OneCompletes
  <2>5. DoneCounted'
    BY <2>1, <2>2 DEF DoneCounted
  <2>6. EmptyDone'
    <3>1. ASSUME NEW x \in Helper, Count[x[1]] = 0, x # a
          PROVE  pc'[x] = pc[x] /\ (done'[x[1]] <=> done[x[1]])
      BY <2>1, <3>1
    <3>2. QED BY <2>1, <3>1 DEF EmptyDone
  <2>7. QED BY <2>3, <2>4, <2>5, <2>6
<1>6. ASSUME NEW b \in Batch, SingleCall(b) PROVE Completion'
  <2>1. /\ \A x \in Activation : pc'[x] = "complete" <=> pc[x] = "complete"
        /\ \A x \in Helper : pc'[x] = pc[x]
        /\ UNCHANGED <<done, completedCount>>
    BY <1>6 DEF SingleCall, TypeOK, PcTypes, counters
  <2>2. QED BY <2>1 DEF OneCompletes, CompletesLast, DoneCounted, EmptyDone
<1>7. QED BY <1>1, <1>2, <1>3, <1>4, <1>5, <1>6, StepKinds

LEMMA OutcomeStep ==
  ASSUME TypeOK, Phases, CompletedExact, Completion, Outcome, [Next]_vars
  PROVE  Outcome'
<1> USE Activations, FewHelpers, BatchAssumption DEF Outcome, Completing, Drains
<1>1. CASE Unmoved
  BY <1>1 DEF Unmoved, HelperReturns, LastCompletes, Picked, counters
<1>2. ASSUME NEW a \in Activation, NEW to, Walks(a, to) PROVE Outcome'
  <2>1. /\ \A x \in Activation : x # a => pc'[x] = pc[x]
        /\ pc'[a] = to /\ UNCHANGED <<done, completedCount, nextIndex>>
    BY <1>2 DEF Walks, TypeOK, PcTypes, counters
  <2>2. HelperReturns'
    BY <1>2, <2>1 DEF HelperReturns, Walks
  <2>3. LastCompletes'
    BY <1>2, <2>1 DEF LastCompletes, Walks
  <2>4. Picked'
    BY <1>2, <2>1 DEF Picked, Walks
  <2>5. QED BY <2>2, <2>3, <2>4
<1>3. ASSUME NEW a \in Activation, Obtains(a) \/ FindsNone(a) PROVE Outcome'
  <2>1. /\ \A x \in Activation : x # a => pc'[x] = pc[x]
        /\ pc[a] = "fetch" /\ UNCHANGED <<done, completedCount>>
        /\ \A b \in Batch : nextIndex'[b] = IF b = a[1] THEN nextIndex[b] + 1 ELSE nextIndex[b]
        /\ a \in Helper => pc'[a] \in {"fn", "returned"}
        /\ a \in Helper /\ pc'[a] = "returned" => ~(nextIndex[a[1]] < Count[a[1]])
    BY <1>3 DEF Obtains, FindsNone, TypeOK, PcTypes, CountTypes
  <2>2. HelperReturns'
    <3>1. \A b \in Batch : /\ nextIndex[b] \in Nat /\ Count[b] \in Nat
                           /\ nextIndex[b] >= Count[b] => nextIndex'[b] >= Count[b]
      BY <2>1 DEF TypeOK, CountTypes
    <3>2. QED BY <2>1, <3>1 DEF HelperReturns
  <2>3. LastCompletes'
    BY <2>1 DEF LastCompletes
  <2>4. Picked'
    <3>1. a[1] \in Async => a \in Helper
      BY <2>1 DEF Phases, CallPhase
    <3>2. QED BY <2>1, <3>1 DEF Picked
  <2>5. QED BY <2>2, <2>3, <2>4
<1>4. ASSUME NEW a \in Activation, FnReturns(a) PROVE Outcome'
  <2>1. /\ \A x \in Activation : x # a => pc'[x] = pc[x]
        /\ pc[a] = "fn" /\ pc'[a] \in {"leave", "count"} /\ (a \in Helper => pc'[a] = "count")
        /\ UNCHANGED <<done, completedCount, nextIndex>>
    BY <1>4 DEF FnReturns, FnEnds, TypeOK, PcTypes, counters
  <2>2. QED BY <2>1 DEF HelperReturns, LastCompletes, Picked
<1>5. ASSUME NEW a \in Activation, CountCompleted(a) PROVE Outcome'
  <2>1. /\ \A x \in Activation : x # a => pc'[x] = pc[x]
        /\ pc[a] = "count" /\ UNCHANGED <<done, nextIndex>>
        /\ pc'[a] = IF completedCount[a[1]] + 1 = Count[a[1]] THEN "complete" ELSE "fetch"
        /\ \A b \in Batch : completedCount'[b] = IF b = a[1] THEN completedCount[b] + 1
                                                 ELSE completedCount[b]
    BY <1>5 DEF CountCompleted, IsLast, TypeOK, PcTypes, CountTypes
  <2>2. HelperReturns' /\ Picked'
    BY <2>1 DEF HelperReturns, Picked
  <2>3. LastCompletes'
    BY <2>1 DEF LastCompletes
  <2>4. QED BY <2>2, <2>3
<1>6. ASSUME NEW a \in Activation, Complete(a) PROVE Outcome'
  <2>1. /\ pc[a] = "complete" /\ UNCHANGED <<completedCount, nextIndex>>
        /\ \A b \in Batch : done'[b] <=> b = a[1] \/ done[b]
        /\ \A x \in Activation : pc'[x] = "complete" <=> pc[x] = "complete" /\ x # a
        /\ \A x \in Helper : x # a => pc'[x] = pc[x]
        /\ pc'[a] = IF Count[a[1]] = 0 THEN "returned" ELSE "fetch"
        /\ a[1] \in Async => a \in Helper
    BY <1>6, Completes
  <2>2. HelperReturns'
    <3>1. \A b \in Batch : nextIndex[b] \in Nat
      BY DEF TypeOK, CountTypes
    <3>2. ASSUME NEW x \in Helper, pc'[x] = "returned" PROVE nextIndex[x[1]] >= Count[x[1]]
      BY <2>1, <3>1, <3>2 DEF HelperReturns
    <3>3. QED BY <2>1, <3>2 DEF HelperReturns
  <2>3. LastCompletes'
    <3>1. ASSUME NEW b \in Batch, ~Single(b), completedCount[b] = Count[b], Count[b] > 0,
                 ~done'[b]
          PROVE  \E x \in Of(b) : pc'[x] = "complete"
      <4>1. b # a[1] /\ ~done[b]
        BY <2>1, <3>1
      <4>2. PICK x \in Of(b) : pc[x] = "complete"
        BY <3>1, <4>1 DEF LastCompletes
      <4>3. QED BY <2>1, <4>1, <4>2
    <3>2. QED BY <2>1, <3>1 DEF LastCompletes
  <2>4. Picked'
    <3>1. ASSUME NEW b \in Async, nextIndex[b] > 0 \/ done'[b]
          PROVE  \E x \in Of(b) : x \in Helper /\ pc'[x] \in Drains
      <4>1. CASE b = a[1]
        BY <2>1, <4>1
      <4>2. CASE b # a[1]
        <5>1. PICK x \in Of(b) : x \in Helper /\ pc[x] \in Drains
          BY <2>1, <3>1, <4>2 DEF Picked
        <5>2. QED BY <2>1, <4>2, <5>1
      <4>3. QED BY <4>1, <4>2
    <3>2. QED BY <2>1, <3>1 DEF Picked
  <2>5. QED BY <2>2, <2>3, <2>4
<1>7. ASSUME NEW b \in Batch, SingleCall(b) PROVE Outcome'
  <2>1. /\ \A x \in Activation : pc'[x] = "complete" <=> pc[x] = "complete"
        /\ \A x \in Helper : pc'[x] = pc[x]
        /\ UNCHANGED <<done, completedCount, nextIndex>>
    BY <1>7 DEF SingleCall, TypeOK, PcTypes, counters
  <2>2. QED BY <2>1 DEF HelperReturns, LastCompletes, Picked
<1>8. QED BY <1>1, <1>2, <1>3, <1>4, <1>5, <1>6, <1>7, StepKinds

-----------------------------------------------------------------------------
LEMMA BatchInit == Init => BatchInv
<1> SUFFICES ASSUME Init PROVE BatchInv  OBVIOUS
<1> USE Activations, BatchAssumption DEF Init
<1>1. TypeOK
  <2>1. PcTypes
    BY DEF PcTypes, CallPC, HelperPC
  <2>2. CountTypes
    BY DEF CountTypes
  <2>3. FnTypes
    BY DEF FnTypes
  <2>4. QED BY <2>1, <2>2, <2>3 DEF TypeOK
<1>2. Phases
  BY DEF Phases, HelperPhase, HelperAfterCall, CallPhase, EmptyPhase, CallPC, HelperPC
<1>3. Dispenser /\ SingleIndex
  BY DEF Dispenser, SingleIndex, Single, Index
<1>4. Running /\ Completion
  BY DEF Running, FnRuns, OneInFn, RunningHasFn, InFn, Completion, OneCompletes, CompletesLast,
         DoneCounted, EmptyDone, Completing
<1>5. CompletedExact
  <2>1. \A b \in Batch : DoneIndices(b) = {} /\ Counting(b) = {}
    BY DEF DoneIndices, Counting
  <2>2. Cardinality({}) = 0
    BY FS_EmptySet
  <2>3. \A b \in Batch : completedCount[b] = 0
    OBVIOUS
  <2>4. \A b \in Batch : Cardinality(DoneIndices(b)) = 0 /\ Cardinality(Counting(b)) = 0
    BY <2>1, <2>2
  <2> HIDE DEF Init
  <2>5. QED BY <2>3, <2>4 DEF CompletedExact
<1>6. Outcome
  BY DEF Outcome, HelperReturns, LastCompletes, Picked
<1>7. QED BY <1>1, <1>2, <1>3, <1>4, <1>5, <1>6 DEF BatchInv

LEMMA BatchStep == BatchInv /\ [Next]_vars => BatchInv'
<1> SUFFICES ASSUME BatchInv, [Next]_vars PROVE BatchInv'  OBVIOUS
<1>1. TypeOK' /\ Phases'
  BY TypesStep, PhasesStep DEF BatchInv
<1>2. Dispenser' /\ SingleIndex' /\ Running'
  BY DispenserStep, SingleIndexStep, RunningStep DEF BatchInv, Running
<1>3. CompletedExact' /\ Completion' /\ Outcome'
  BY CompletedStep, CompletionStep, OutcomeStep DEF BatchInv
<1>4. QED BY <1>1, <1>2, <1>3 DEF BatchInv

LEMMA BatchInvariant == Spec => []BatchInv
<1>1. QED BY BatchInit, BatchStep, PTL DEF Spec

-----------------------------------------------------------------------------
(* The loop the callers see.                                               *)

\* completedCount reaches Count only when no index is left.
LEMMA CountedIsDone ==
  ASSUME BatchInv, NEW b \in Batch, ~Single(b), completedCount[b] = Count[b]
  PROVE  \A i \in Index(b) : fnState[b][i] = "done"
<1>1. /\ Cardinality(DoneIndices(b)) = Count[b] + Cardinality(Counting(b))
      /\ Count[b] \in Nat
  BY BatchAssumption DEF BatchInv, CompletedExact
<1>2. /\ Cardinality(DoneIndices(b)) \in Nat /\ Cardinality(DoneIndices(b)) <= Count[b]
      /\ Cardinality(Counting(b)) \in Nat
  BY IndexFinite, OfFinite DEF DoneIndices, Counting
<1>3. Cardinality(DoneIndices(b)) = Count[b]
  BY <1>1, <1>2
<1>4. DoneIndices(b) = Index(b)
  BY <1>3, IndexFinite DEF DoneIndices
<1>5. QED BY <1>4 DEF DoneIndices

\* An activation at work is one of a call that has begun.
LEMMA Begun ==
  ASSUME BatchInv, NEW a \in Activation, pc[a] # "idle"
  PROVE  pc[Call(a[1])] # "idle"
<1>1. CASE a \in Helper
  <2>1. a[2] <= dispatched[a[1]] /\ a[2] \in 0 .. HelperCount(a[1]) /\ a[2] # 0 /\ a[1] \in Batch
    BY <1>1, Numbered, Activations DEF BatchInv, Phases, HelperPhase, Helper
  <2>2. dispatched[a[1]] > 0
    BY <2>1, HelperCounts DEF BatchInv, TypeOK, CountTypes
  <2>3. QED BY <2>1, <2>2 DEF BatchInv, Phases, HelperAfterCall
<1>2. QED BY <1>1, Activations

Outcomes == {"idle", "returned", "thrown"}
LEMMA Results ==
  /\ \A b \in Batch : Result(b) = IF pc[Call(b)] \in Outcomes THEN pc[Call(b)] ELSE "active"
  /\ \A b \in Batch : Result(b)' = IF pc'[Call(b)] \in Outcomes THEN pc'[Call(b)] ELSE "active"
BY DEF Result, Outcomes, Call

LEMMA LoopStarts == Init => Loop!LoopInit
<1> SUFFICES ASSUME Init PROVE Loop!LoopInit  OBVIOUS
<1>1. \A b \in Batch : Result(b) = "idle"
  BY Results, Activations DEF Init, Outcomes
<1>2. QED BY <1>1 DEF Init, Loop!LoopInit, Loop!Index, Index

LEMMA LoopSteps == BatchInv /\ [Next]_vars => [Loop!LoopNext]_(Loop!loopVars)
<1> SUFFICES ASSUME BatchInv, [Next]_vars, ~UNCHANGED (Loop!loopVars) PROVE Loop!LoopNext
  OBVIOUS
<1> DEFINE res == [b \in Batch |-> Result(b)]
<1> USE Activations
<1>0. TypeOK /\ Phases /\ PcTypes /\ FnTypes /\ CountTypes
  BY DEF BatchInv, TypeOK
<1>1. ASSUME NEW b \in Batch, UNCHANGED <<fnState, done>>,
             \A x \in Activation : x # Call(b) => pc'[x] = pc[x],
             \/ Result(b) = "idle" /\ Result(b)' = "active"
             \/ Result(b) = "active" /\ Result(b)' = "thrown"
             \/ /\ Result(b) = "active" /\ Result(b)' = "returned"
                /\ b \in Async \/ \A i \in Index(b) : fnState[b][i] = "done"
      PROVE  Loop!LoopNext
  <2>1. res' = [res EXCEPT ![b] = Result(b)']
    <3>1. ASSUME NEW c \in Batch, c # b PROVE Result(c)' = Result(c)
      BY <1>1, <3>1, Results
    <3>2. res' = [c \in Batch |-> Result(c)']
      OBVIOUS
    <3>3. QED BY <3>1, <3>2
  <2>2. CASE Result(b) = "idle"
    <3>1. Loop!LoopCall(b)
      BY <1>1, <2>1, <2>2 DEF Loop!LoopCall
    <3>2. QED BY <3>1 DEF Loop!LoopNext
  <2>3. CASE Result(b) = "active"
    <3>1. Loop!LoopEnds(b)
      BY <1>1, <2>1, <2>3 DEF Loop!LoopEnds, Loop!AllIndicesDone, Loop!Index, Index
    <3>2. QED BY <3>1 DEF Loop!LoopNext
  <2>4. QED BY <1>1, <2>2, <2>3
<1>2. ASSUME UNCHANGED <<fnState, done>>, \A b \in Batch : Result(b)' = Result(b)
      PROVE  FALSE
  BY <1>2 DEF Loop!loopVars
<1>3. ASSUME NEW b \in Batch, NEW i \in Index(b), \A c \in Batch : Result(c)' = Result(c),
             UNCHANGED done, Result(b) # "idle", fnState[b][i] = "todo",
             fnState' = [fnState EXCEPT ![b][i] = "running"]
      PROVE  Loop!LoopNext
  BY <1>3 DEF Loop!LoopNext, Loop!FnStarts, Loop!Index, Index
<1>4. ASSUME NEW b \in Batch, NEW i \in Index(b), \A c \in Batch : Result(c)' = Result(c),
             UNCHANGED done, fnState[b][i] = "running",
             fnState' = [fnState EXCEPT ![b][i] = "done"]
      PROVE  Loop!LoopNext
  BY <1>4 DEF Loop!LoopNext, Loop!FnEnds, Loop!Index, Index
<1>5. ASSUME NEW a \in Activation, NEW to, Walks(a, to) PROVE Loop!LoopNext
  <2> DEFINE b == a[1]
  <2>1. /\ \A x \in Activation : pc'[x] = IF x = a THEN to ELSE pc[x]
        /\ UNCHANGED <<fnState, done>>
    BY <1>0, <1>5 DEF Walks, PcTypes
  <2>2. CASE a \in Helper
    <3>1. \A c \in Batch : Result(c)' = Result(c)
      BY <2>1, <2>2, Results
    <3>2. QED BY <1>2, <2>1, <3>1
  <2>3. CASE a = Call(b)
    <3>1. /\ pc[a] \notin {"returned", "thrown"} /\ to # "idle"
          /\ pc[a] = "idle" => to \notin {"returned", "thrown"}
      BY <1>5 DEF Walks
    <3>2. ASSUME to = "returned" PROVE b \in Async \/ \A i \in Index(b) : fnState[b][i] = "done"
      <4>1. CASE Count[b] = 0
        BY <4>1 DEF Index
      <4>2. CASE done[b]
        BY <4>2, CountedIsDone DEF BatchInv, Completion, DoneCounted
      <4>3. CASE Single(b) /\ pc[a] = "leave"
        BY <2>3, <4>3 DEF BatchInv, SingleIndex, Single, Index
      <4>4. QED BY <1>5, <3>2, <4>1, <4>2, <4>3 DEF Walks
    <3>3. CASE Result(b)' = Result(b)
      <4>1. \A c \in Batch : Result(c)' = Result(c)
        BY <2>1, <2>3, <3>3, Results
      <4>2. QED BY <1>2, <2>1, <4>1
    <3>4. CASE Result(b)' # Result(b)
      <4>1. \/ Result(b) = "idle" /\ Result(b)' = "active"
            \/ Result(b) = "active" /\ Result(b)' = "thrown"
            \/ Result(b) = "active" /\ Result(b)' = "returned" /\ to = "returned"
        BY <2>1, <2>3, <3>1, <3>4, Results DEF Outcomes
      <4>2. QED BY <1>1, <2>1, <2>3, <3>2, <4>1
    <3>5. QED BY <3>3, <3>4
  <2>4. QED BY <2>2, <2>3
<1>6. ASSUME NEW a \in Activation, Obtains(a) PROVE Loop!LoopNext
  <2>1. a[1] \in Batch /\ nextIndex[a[1]] \in Index(a[1])
    <3>1. nextIndex[a[1]] \in Nat /\ Count[a[1]] \in Nat /\ nextIndex[a[1]] < Count[a[1]]
      BY <1>0, <1>6, BatchAssumption DEF Obtains, CountTypes
    <3>2. QED BY <3>1 DEF Index
  <2>2. ~Single(a[1])
    BY <1>0, <1>6, FewHelpers DEF Obtains, Phases, CallPhase
  <2>3. fnState[a[1]][nextIndex[a[1]]] = "todo"
    BY <1>0, <2>1, <2>2 DEF BatchInv, Dispenser, CountTypes
  <2>4. Result(a[1]) # "idle"
    BY <1>6, Begun, Results DEF Obtains, Outcomes
  <2>5. \A c \in Batch : Result(c)' = Result(c)
    BY <1>0, <1>6, Results DEF Obtains, Outcomes, PcTypes
  <2>6. QED BY <1>3, <1>6, <2>1, <2>3, <2>4, <2>5 DEF Obtains
<1>7. ASSUME NEW a \in Activation, FindsNone(a) \/ CountCompleted(a) PROVE Loop!LoopNext
  <2>1. \A c \in Batch : Result(c)' = Result(c)
    BY <1>0, <1>7, Results DEF FindsNone, CountCompleted, Outcomes, PcTypes
  <2>2. QED BY <1>2, <1>7, <2>1 DEF FindsNone, CountCompleted
<1>8. ASSUME NEW a \in Activation, FnReturns(a) PROVE Loop!LoopNext
  <2>1. index[a] \in Index(a[1]) /\ fnState[a[1]][index[a]] = "running"
    BY <1>8 DEF FnReturns, FnEnds, BatchInv, Running, FnRuns, InFn
  <2>2. \A c \in Batch : Result(c)' = Result(c)
    BY <1>0, <1>8, Results DEF FnReturns, FnEnds, Outcomes, PcTypes
  <2>3. QED BY <1>4, <1>8, <2>1, <2>2 DEF FnReturns, FnEnds
<1>9. ASSUME NEW a \in Activation, Complete(a) PROVE Loop!LoopNext
  <2>1. /\ ~Single(a[1]) /\ ~done[a[1]] /\ completedCount[a[1]] = Count[a[1]]
        /\ pc[a] = "complete"
    BY <1>9 DEF Complete, BatchInv, Completion, CompletesLast, Completing
  <2>2. \A i \in Index(a[1]) : fnState[a[1]][i] = "done"
    BY <2>1, CountedIsDone
  <2>3. Result(a[1]) # "idle"
    BY <2>1, Begun, Results DEF Outcomes
  <2>4. \A c \in Batch : Result(c)' = Result(c)
    <3>1. \A c \in Batch : Call(c) = a => Count[c] # 0
      BY <1>0, <2>1 DEF Phases, CallPhase
    <3>2. pc'[a] = IF Count[a[1]] = 0 THEN "returned" ELSE "fetch"
      BY <1>9 DEF Complete
    <3>3. \A x \in Activation :
            x # a => pc'[x] = pc[x] \/ (pc[x] = "blocked" /\ pc'[x] = "wait")
      BY <1>9 DEF Complete
    <3>4. \A c \in Batch : Call(c) \in Activation /\ (Call(c) = a => c = a[1])
      OBVIOUS
    <3>5. ASSUME NEW c \in Batch PROVE Result(c)' = Result(c)
      BY <2>1, <3>1, <3>2, <3>3, <3>4, Results DEF Outcomes
    <3>6. QED BY <3>5
  <2>5. Loop!LoopCompletes(a[1])
    BY <1>9, <2>1, <2>2, <2>3, <2>4
       DEF Complete, Loop!LoopCompletes, Loop!AllIndicesDone, Loop!Index, Index
  <2>6. QED BY <2>5 DEF Loop!LoopNext
<1>10. ASSUME NEW b \in Batch, SingleCall(b) PROVE Loop!LoopNext
  <2>1. pc[Call(b)] = "single" /\ Single(b)
    BY <1>0, <1>10 DEF SingleCall, Phases, CallPhase
  <2>2. fnState[b][0] = "todo" /\ 0 \in Index(b)
    BY <2>1 DEF BatchInv, SingleIndex, Single, Index
  <2>3. Result(b) # "idle"
    BY <2>1, Results DEF Outcomes
  <2>4. \A c \in Batch : Result(c)' = Result(c)
    BY <1>0, <1>10, Results DEF SingleCall, Outcomes, PcTypes
  <2>5. QED BY <1>3, <1>10, <2>2, <2>3, <2>4 DEF SingleCall
<1>11. CASE Unmoved
  BY <1>2, <1>11, Results DEF Unmoved
<1>12. QED BY <1>0, <1>5, <1>6, <1>7, <1>8, <1>9, <1>10, <1>11, StepKinds

\* The calls a program makes of parallelFor() and parallelForAsync() are the loops
\* of ParallelLoop: fn runs once per index, onAllCompleted once and last.
THEOREM BatchImplementsLoop == Spec => ImplementsLoop
<1>1. QED BY BatchInvariant, LoopStarts, LoopSteps, PTL DEF Spec, ImplementsLoop, Loop!LoopSpec

-----------------------------------------------------------------------------
(* All or nothing.                                                         *)

LEMMA AllOrNothing ==
  ASSUME BatchInv, AllEnded, NEW b \in Async
  PROVE  IF \E a \in Of(b) \cap Helper : pc[a] = "returned"
         THEN done[b] /\ \A i \in Index(b) : fnState[b][i] = "done"
         ELSE ~done[b] /\ \A i \in Index(b) : fnState[b][i] = "todo"
<1>0. b \in Batch /\ ~Single(b) /\ Count[b] \in Nat /\ nextIndex[b] \in Nat
  BY BatchAssumption DEF Single, BatchInv, TypeOK, CountTypes
<1>1. \A a \in Activation : pc[a] \notin {"fn", "count", "complete"}
  BY DEF AllEnded
<1>2. ASSUME NEW a \in Of(b) \cap Helper, pc[a] = "returned"
      PROVE  done[b] /\ \A i \in Index(b) : fnState[b][i] = "done"
  <2>1. a \in Activation /\ a[1] = b
    BY <1>0, Activations
  <2>2. \A i \in Index(b) : fnState[b][i] = "done"
    <3>1. nextIndex[b] >= Count[b]
      BY <1>2, <2>1 DEF BatchInv, Outcome, HelperReturns
    <3>2. ASSUME NEW i \in Index(b) PROVE fnState[b][i] = "done"
      <4>1. i < nextIndex[b] /\ i \in Int
        BY <1>0, <3>1 DEF Index
      <4>2. fnState[b][i] # "todo"
        BY <1>0, <4>1 DEF BatchInv, Dispenser
      <4>3. fnState[b][i] # "running"
        BY <1>0, <1>1, <3>2, Activations DEF BatchInv, Running, RunningHasFn, InFn
      <4>4. QED BY <1>0, <4>2, <4>3 DEF BatchInv, TypeOK, FnTypes
    <3>3. QED BY <3>2
  <2>3. done[b]
    <3>1. CASE Count[b] = 0
      BY <1>2, <2>1, <3>1 DEF BatchInv, Completion, EmptyDone
    <3>2. CASE Count[b] > 0
      <4>1. DoneIndices(b) = Index(b) /\ Counting(b) = {}
        BY <1>0, <1>1, <2>2, Activations DEF DoneIndices, Counting
      <4>2. Cardinality(Index(b)) = Count[b]
        BY <1>0, IndexFinite
      <4>3. Cardinality(Index(b)) = completedCount[b] + 0
        BY <1>0, <4>1, FS_EmptySet DEF BatchInv, CompletedExact
      <4>4. completedCount[b] = Count[b]
        BY <1>0, <4>2, <4>3 DEF BatchInv, TypeOK, CountTypes
      <4>5. QED BY <1>0, <1>1, <3>2, <4>4, Activations
                DEF BatchInv, Outcome, LastCompletes, Completing
    <3>3. QED BY <1>0, <3>1, <3>2
  <2>4. QED BY <2>2, <2>3
<1>3. ASSUME \A a \in Of(b) \cap Helper : pc[a] # "returned"
      PROVE  ~done[b] /\ \A i \in Index(b) : fnState[b][i] = "todo"
  <2>1. \A a \in Of(b) : a \in Helper => pc[a] \notin Drains
    BY <1>3, Activations DEF AllEnded, Drains
  <2>2. ~(nextIndex[b] > 0) /\ ~done[b]
    BY <2>1 DEF BatchInv, Outcome, Picked
  <2>3. \A i \in Index(b) : i >= nextIndex[b]
    BY <1>0, <2>2 DEF Index
  <2>4. QED BY <1>0, <2>2, <2>3 DEF BatchInv, Dispenser
<1>4. QED BY <1>2, <1>3

\* Once no activation is at work, a helper that came back has left every index
\* of its batch done and the completion action run; and if none did, nothing of an
\* asynchronous batch was touched.
THEOREM AsyncRunsWhole == Spec => []AsyncAllOrNothing
<1>1. BatchInv => AsyncAllOrNothing
  BY AllOrNothing DEF AsyncAllOrNothing
<1>2. QED BY <1>1, BatchInvariant, PTL

-----------------------------------------------------------------------------
(* What the loop promises.                                                 *)

\* When parallelFor() has returned, and when onAllCompleted has run, every index
\* is through; nothing turns an index that is done back.
EveryIndexThrough == \A b \in Batch :
  done[b] \/ (b \notin Async /\ Result(b) = "returned") =>
    \A i \in Index(b) : fnState[b][i] = "done"

\* It holds of the abstract loop, so of the batch, which takes only its steps.
LEMMA ThroughStep ==
  ASSUME BatchInv, EveryIndexThrough, [Next]_vars
  PROVE  EveryIndexThrough'
<1> USE DEF EveryIndexThrough
<1>1. TypeOK
  BY DEF BatchInv
<1>2. CASE UNCHANGED (Loop!loopVars)
  <2>1. UNCHANGED <<fnState, done>> /\ \A b \in Batch : Result(b)' = Result(b)
    <3>1. [b \in Batch |-> Result(b)]' = [b \in Batch |-> Result(b)]
          /\ UNCHANGED <<fnState, done>>
      BY <1>2 DEF Loop!loopVars
    <3>2. [b \in Batch |-> Result(b)]' = [b \in Batch |-> Result(b)']
      OBVIOUS
    <3>3. \A b \in Batch : [c \in Batch |-> Result(c)'][b] = Result(b)'
                           /\ [c \in Batch |-> Result(c)][b] = Result(b)
      OBVIOUS
    <3>4. QED BY <3>1, <3>2, <3>3
  <2>2. QED BY <2>1
<1>3. CASE Loop!LoopNext
  <2> DEFINE res == [b \in Batch |-> Result(b)]
  <2>0. \A b \in Batch : res[b] = Result(b) /\ res'[b] = Result(b)'
    <3>1. res' = [b \in Batch |-> Result(b)']
      OBVIOUS
    <3>2. QED BY <3>1
  <2>1. PICK b \in Batch :
          \/ Loop!LoopCall(b) \/ Loop!LoopCompletes(b) \/ Loop!LoopEnds(b)
          \/ \E i \in Index(b) : Loop!FnStarts(b, i) \/ Loop!FnEnds(b, i)
    BY <1>3 DEF Loop!LoopNext, Loop!Index, Index
  <2>2. CASE Loop!LoopCall(b)
    <3>1. UNCHANGED <<fnState, done>> /\ res' = [res EXCEPT ![b] = "active"]
      BY <2>2 DEF Loop!LoopCall
    <3>2. \A c \in Batch : Result(c)' = "returned" => Result(c) = "returned"
      BY <2>0, <3>1
    <3>3. QED BY <3>1, <3>2
  <2>3. CASE Loop!LoopCompletes(b)
    <3>1. /\ UNCHANGED fnState /\ res' = res /\ done' = [done EXCEPT ![b] = TRUE]
          /\ \A i \in Index(b) : fnState[b][i] = "done"
      BY <2>3 DEF Loop!LoopCompletes, Loop!AllIndicesDone, Loop!Index, Index
    <3>2. \A c \in Batch : c # b => Result(c)' = Result(c) /\ done'[c] = done[c]
      BY <2>0, <3>1, <1>1 DEF TypeOK, CountTypes
    <3>3. QED BY <3>1, <3>2
  <2>4. CASE Loop!LoopEnds(b)
    <3>1. /\ UNCHANGED <<fnState, done>>
          /\ \/ /\ b \in Async \/ \A i \in Index(b) : fnState[b][i] = "done"
                /\ res' = [res EXCEPT ![b] = "returned"]
             \/ res' = [res EXCEPT ![b] = "thrown"]
      BY <2>4 DEF Loop!LoopEnds, Loop!AllIndicesDone, Loop!Index, Index
    <3>2. \A c \in Batch : Result(c)' = "returned" =>
            \/ Result(c) = "returned"
            \/ c = b /\ (b \in Async \/ \A i \in Index(b) : fnState[b][i] = "done")
      BY <2>0, <3>1
    <3>3. QED BY <3>1, <3>2
  <2>5. ASSUME NEW i \in Index(b), Loop!FnStarts(b, i) \/ Loop!FnEnds(b, i)
        PROVE  EveryIndexThrough'
    <3>1. /\ UNCHANGED done /\ res' = res
          /\ \/ fnState' = [fnState EXCEPT ![b][i] = "done"]
             \/ fnState[b][i] = "todo" /\ fnState' = [fnState EXCEPT ![b][i] = "running"]
      BY <2>5 DEF Loop!FnStarts, Loop!FnEnds
    <3>2. \A c \in Batch : Result(c)' = Result(c)
      BY <2>0, <3>1
    <3>3. \A c \in Batch : \A k \in Index(c) : fnState'[c][k] =
            IF c = b /\ k = i THEN fnState'[b][i] ELSE fnState[c][k]
      BY <1>1, <3>1 DEF TypeOK, FnTypes
    <3>4. fnState'[b][i] = "done" \/ fnState[b][i] = "todo"
      BY <1>1, <3>1 DEF TypeOK, FnTypes
    <3>5. QED BY <3>1, <3>2, <3>3, <3>4
  <2>6. QED BY <2>1, <2>2, <2>3, <2>4, <2>5
<1>4. QED BY <1>2, <1>3, LoopSteps

THEOREM LoopKeepsItsPromise == Spec => []EveryIndexThrough
<1>1. Init => EveryIndexThrough
  BY Results, Activations DEF Init, EveryIndexThrough, Outcomes
<1>2. QED BY <1>1, ThroughStep, BatchInvariant, PTL DEF Spec

=============================================================================
