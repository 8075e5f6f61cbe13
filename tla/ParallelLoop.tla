---------------------------- MODULE ParallelLoop ----------------------------
(***************************************************************************)
(* What CThreadPool promises of parallelFor() and parallelForAsync(), with *)
(* no pool, no dispenser and no counters: every index is handed to fn at   *)
(* most once, the completion action runs at most once and, like the return *)
(* of parallelFor(), only when every index is through.                     *)
(***************************************************************************)
EXTENDS Naturals

CONSTANTS
  Batch,     \* the parallelFor() and parallelForAsync() calls
  Async,     \* those that are parallelForAsync() calls
  Count      \* the number of indices of each

Index(b) == 0 .. Count[b] - 1
Indices == UNION {Index(b) : b \in Batch}

VARIABLES
  fnState,   \* fnState[b][i]: fn(i) of batch b is "todo", "running" or "done"
  allDone,   \* allDone[b]: the completion action of b has run
  result     \* result[b]: the call is "idle", "active", "returned" or has "thrown"

loopVars == <<fnState, allDone, result>>

LoopInit ==
  /\ fnState = [b \in Batch |-> [i \in Index(b) |-> "todo"]]
  /\ allDone = [b \in Batch |-> FALSE]
  /\ result = [b \in Batch |-> "idle"]

LoopCall(b) ==
  /\ result[b] = "idle" /\ result' = [result EXCEPT ![b] = "active"]
  /\ UNCHANGED <<fnState, allDone>>

FnStarts(b, i) ==
  /\ fnState[b][i] = "todo" /\ result[b] # "idle"
  /\ fnState' = [fnState EXCEPT ![b][i] = "running"]
  /\ UNCHANGED <<allDone, result>>

FnEnds(b, i) ==
  /\ fnState[b][i] = "running"
  /\ fnState' = [fnState EXCEPT ![b][i] = "done"]
  /\ UNCHANGED <<allDone, result>>

AllIndicesDone(b) == \A i \in Index(b) : fnState[b][i] = "done"

LoopCompletes(b) ==
  /\ ~allDone[b] /\ AllIndicesDone(b) /\ result[b] # "idle"
  /\ allDone' = [allDone EXCEPT ![b] = TRUE]
  /\ UNCHANGED <<fnState, result>>

\* A call that throws promises nothing about the indices it has handed out.
LoopEnds(b) ==
  /\ result[b] = "active"
  /\ \/ /\ b \in Async \/ AllIndicesDone(b)
        /\ result' = [result EXCEPT ![b] = "returned"]
     \/ result' = [result EXCEPT ![b] = "thrown"]
  /\ UNCHANGED <<fnState, allDone>>

LoopNext == \E b \in Batch :
  \/ LoopCall(b) \/ LoopCompletes(b) \/ LoopEnds(b)
  \/ \E i \in Index(b) : FnStarts(b, i) \/ FnEnds(b, i)

LoopSpec == LoopInit /\ [][LoopNext]_loopVars
=============================================================================
