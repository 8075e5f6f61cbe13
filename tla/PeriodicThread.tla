--------------------------- MODULE PeriodicThread ---------------------------
(***************************************************************************)
(* CPeriodicExecutionThread (threading/cperiodicexecutionthread.{h,cpp}):  *)
(* an owner that starts and terminates the thread again and again, clients *)
(* that pause and resume it at any moment, and the thread with its three   *)
(* waits.  All that the wait predicates read is guarded by _cvMutex, so to *)
(* take the mutex, evaluate and block is one step.                         *)
(***************************************************************************)
EXTENDS Naturals

CONSTANTS MaxPauses, MaxStarts    \* bounds: pause() and start() calls

PeriodicAssumption == MaxPauses \in Nat /\ MaxStarts \in Nat

VARIABLES
  workload,   \* _workload: whether there is something to call
  thread,     \* where threadFunc stands
  owner,      \* "idle", or in terminate(): "join"
  joinable,   \* _thread.joinable()
  terminate, paused,
  starts, pauses,
  late        \* history: the workload calls begun since the last pause() or terminate()

vars == <<workload, thread, owner, joinable, terminate, paused, starts, pauses, late>>

Init ==
  /\ workload = FALSE /\ thread = "none" /\ owner = "idle" /\ joinable = FALSE
  /\ terminate = FALSE /\ paused = FALSE
  /\ starts = 0 /\ pauses = 0 /\ late = 0

-----------------------------------------------------------------------------
(* The owner and the clients.                                              *)

\* setWorkload(), which start() overrules; nothing else sets it while a thread runs.
SetWorkload ==
  /\ owner = "idle" /\ ~joinable /\ workload' \in BOOLEAN
  /\ UNCHANGED <<thread, owner, joinable, terminate, paused, starts, pauses, late>>

Start ==
  /\ owner = "idle" /\ ~joinable /\ starts < MaxStarts
  /\ workload' \in BOOLEAN
  /\ thread' = "started" /\ joinable' = TRUE /\ starts' = starts + 1
  /\ UNCHANGED <<owner, terminate, paused, pauses, late>>

\* notify_all under _cvMutex: whoever waits evaluates its predicate again.
Notified == CASE thread = "delayed" -> "delay" [] thread = "parked" -> "park"
              [] thread = "waiting" -> "period" [] OTHER -> thread

\* Mutant: the first delay is not a wait that terminate() can end.
TerminateNoNotify ==
  /\ owner = "idle" /\ joinable
  /\ terminate' = TRUE /\ owner' = "join" /\ late' = 0
  /\ thread' = IF thread = "delayed" THEN thread ELSE Notified
  /\ UNCHANGED <<workload, joinable, paused, starts, pauses>>

Terminate ==
  /\ owner = "idle" /\ joinable
  /\ terminate' = TRUE /\ thread' = Notified /\ owner' = "join" /\ late' = 0
  /\ UNCHANGED <<workload, joinable, paused, starts, pauses>>

JoinKeepsFlag ==                                                 \* mutant
  /\ owner = "join" /\ thread = "exited"
  /\ owner' = "idle" /\ joinable' = FALSE
  /\ UNCHANGED <<workload, thread, terminate, paused, starts, pauses, late>>

\* The join, and the flag reset for the next start().
Join ==
  /\ owner = "join" /\ thread = "exited"
  /\ owner' = "idle" /\ joinable' = FALSE /\ terminate' = FALSE
  /\ UNCHANGED <<workload, thread, paused, starts, pauses, late>>

Pause ==
  /\ pauses < MaxPauses /\ pauses' = pauses + 1
  /\ paused' = TRUE /\ thread' = Notified /\ late' = 0
  /\ UNCHANGED <<workload, owner, joinable, terminate, starts>>

Resume ==
  /\ paused /\ paused' = FALSE /\ thread' = Notified
  /\ UNCHANGED <<workload, owner, joinable, terminate, starts, pauses, late>>

-----------------------------------------------------------------------------
(* threadFunc.                                                             *)

Move(from, to) ==
  /\ thread = from /\ thread' = to
  /\ UNCHANGED <<workload, owner, joinable, terminate, paused, starts, pauses, late>>

\* Without a workload the thread ends at the assertion; the delay may be zero.
Begin == \E to \in IF workload THEN {"delay", "park"} ELSE {"exited"} : Move("started", to)

\* The delay before the first run ends early only to terminate.
Delay == Move("delay", IF terminate THEN "park" ELSE "delayed")
DelayEnds == Move("delayed", "park")

Park == Move("park", IF terminate THEN "exited" ELSE IF paused THEN "parked" ELSE "call")

\* The workload is called with the mutex released.
CallWorkload ==
  /\ thread = "call" /\ thread' = "work"
  /\ late' = IF paused \/ terminate THEN late + 1 ELSE late
  /\ UNCHANGED <<workload, owner, joinable, terminate, paused, starts, pauses>>
WorkloadReturns == Move("work", "period")

\* Mutants: pause() does not cut the period short, or the workload runs again.
PeriodIgnoresPause == Move("period", IF terminate THEN "exited" ELSE "waiting")
PeriodRunsAgain ==
  Move("period", IF terminate THEN "exited" ELSE IF paused THEN "call" ELSE "waiting")
Period ==
  Move("period", IF terminate THEN "exited" ELSE IF paused THEN "park" ELSE "waiting")
PeriodEnds == Move("waiting", IF terminate THEN "exited" ELSE "park")

\* A spurious wakeup evaluates the predicate again, as a notify does.
SpuriousWake == thread # Notified /\ Move(thread, Notified)

ThreadStep == Begin \/ Delay \/ Park \/ CallWorkload \/ WorkloadReturns \/ Period

Next == SetWorkload \/ Start \/ Terminate \/ Join \/ Pause \/ Resume \/ ThreadStep
        \/ DelayEnds \/ PeriodEnds \/ SpuriousWake

Spec == Init /\ [][Next]_vars

\* The thread runs, its workload ends, a join returns.  The delay and the
\* period are given no fairness: they may be as long as one likes.
Fairness == WF_vars(ThreadStep) /\ WF_vars(Join)
FairSpec == Spec /\ Fairness

-----------------------------------------------------------------------------
\* pause() and terminate() against the gap between the check and the call: at
\* most the one workload call already decided on begins after either.
AtMostOneLateCall == late <= 1

\* terminate() returns although the delay or the period never elapses, parked
\* or not, and however pause() and resume() compete with it.
TerminateReturns == owner = "join" ~> owner = "idle"

\* A thread at its parking check, because of a start(), of resume() or of the
\* period, gets to its workload without any wait to elapse; no terminate() of an
\* earlier run stops it.
UnpausedRuns ==
  thread \in {"park", "parked"} /\ ~paused ~> thread = "work" \/ paused \/ owner = "join"

\* pause() "cuts the current period wait short so the thread parks right away":
\* it parks without waiting the period out.
PauseParks ==
  thread \in {"period", "waiting"} /\ paused ~> thread = "parked" \/ ~paused \/ terminate
=============================================================================
