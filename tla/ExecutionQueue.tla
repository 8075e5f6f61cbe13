--------------------------- MODULE ExecutionQueue ---------------------------
(***************************************************************************)
(* CExecutionQueue (threading/cexecutionqueue.h): tasks enqueued by any    *)
(* thread and run by whoever calls exec().  Each call is one critical      *)
(* section, except exec(), which takes the mutex for the size and again    *)
(* for each pop, and runs the tasks without it.                            *)
(*                                                                         *)
(* The same task may be enqueued again and again, by clients and by tasks  *)
(* being run, itself included.  Each queued task carries a mark for every  *)
(* exec(execAll) in progress at whose entry it was pending.                *)
(***************************************************************************)
EXTENDS Naturals, Sequences, SequencesExt

CONSTANTS
  Task, NoTask,
  TagOf, Untagged,  \* Untagged is the tag -1
  Executor,         \* the threads that call exec()
  MaxLength         \* bound: the queue length clients and tasks stop at

ExecutionAssumption ==
  NoTask \notin Task /\ DOMAIN TagOf = Task /\ MaxLength \in Nat

VARIABLES
  queue,
  left,         \* tasksToExecute of each exec() in progress
  pc, running   \* of each executor; the task it runs

vars == <<queue, left, pc, running>>

Init ==
  /\ queue = <<>> /\ left = [e \in Executor |-> 0]
  /\ pc = [e \in Executor |-> "idle"] /\ running = [e \in Executor |-> NoTask]

-----------------------------------------------------------------------------
SameTag(t, u) == TagOf[t] # Untagged /\ TagOf[t] = TagOf[u]
Fresh(t) == [task |-> t, due |-> {}]

\* Mutants: the new task takes the old one's place; a new task is just added.
ReplacedInPlace(t) ==
  IF \E n \in DOMAIN queue : SameTag(t, queue[n].task)
  THEN [n \in DOMAIN queue |-> IF SameTag(t, queue[n].task) THEN Fresh(t) ELSE queue[n]]
  ELSE Append(queue, Fresh(t))
JustAdded(t) == Append(queue, Fresh(t))

\* The first queued task of the same tag goes; the new one comes last.
Replaced(t) ==
  Append(RemoveFirstMatch(queue, LAMBDA q : SameTag(t, q.task)), Fresh(t))

Enqueue(t) ==
  /\ Len(queue) < MaxLength
  /\ queue' = Replaced(t)
  /\ UNCHANGED <<left, pc, running>>

Clear ==
  /\ queue # <<>> /\ queue' = <<>>
  /\ UNCHANGED <<left, pc, running>>

-----------------------------------------------------------------------------
Marked(e) == [n \in DOMAIN queue |-> [queue[n] EXCEPT !.due = @ \cup {e}]]

ExecFirst(e) ==
  /\ pc[e] = "idle" /\ pc' = [pc EXCEPT ![e] = "first"]
  /\ left' = [left EXCEPT ![e] = 1]
  /\ UNCHANGED <<queue, running>>

ExecAll(e) ==
  /\ pc[e] = "idle" /\ pc' = [pc EXCEPT ![e] = "all"]
  /\ left' = [left EXCEPT ![e] = Len(queue)]
  /\ queue' = Marked(e)
  /\ UNCHANGED running

\* Mutants: until the queue is empty; one task fewer.
UntilEmpty(e) == queue # <<>>
OneFewer(e) == left[e] > 1 /\ queue # <<>>

More(e) == left[e] > 0 /\ queue # <<>>

\* The pop, with what the loop does before the task's code is called.
Pop(e) ==
  /\ pc[e] \in {"first", "all"} /\ More(e)
  /\ running' = [running EXCEPT ![e] = Head(queue).task]
  /\ queue' = Tail(queue)
  /\ left' = [left EXCEPT ![e] = IF @ = 0 THEN 0 ELSE @ - 1]
  /\ pc' = [pc EXCEPT ![e] = "run"]

\* The task returns, or throws and is contained.
TaskEnds(e) ==
  /\ pc[e] = "run"
  /\ running' = [running EXCEPT ![e] = NoTask]
  /\ pc' = [pc EXCEPT ![e] = "all"]
  /\ UNCHANGED <<queue, left>>

ExecReturn(e) ==
  /\ pc[e] \in {"first", "all"} /\ ~More(e)
  /\ pc' = [pc EXCEPT ![e] = "idle"] /\ left' = [left EXCEPT ![e] = 0]
  /\ UNCHANGED <<queue, running>>

ExecStep(e) == Pop(e) \/ TaskEnds(e) \/ ExecReturn(e)

Next ==
  \/ \E t \in Task : Enqueue(t)
  \/ Clear
  \/ \E e \in Executor : ExecFirst(e) \/ ExecAll(e) \/ ExecStep(e)

Spec == Init /\ [][Next]_vars

\* The thread that called exec() runs, and each task ends.
Fairness == \A e \in Executor : WF_vars(ExecStep(e))
FairSpec == Spec /\ Fairness

-----------------------------------------------------------------------------
\* A tag has at most one task in the queue, however enqueue(), clear() and the
\* pops of several exec() calls interleave.
OnePerTag == \A m, n \in DOMAIN queue :
  SameTag(queue[m].task, queue[n].task) => m = n

\* What was pending when an exec(execAll) began is ahead of everything enqueued
\* since: a replacement gives up its place.
OldestFirst == \A m, n \in DOMAIN queue : m < n => queue[n].due \subseteq queue[m].due

\* When exec(execAll) returns, nothing that was pending at its entry is still
\* in the queue, whichever task threw, was replaced or taken by somebody else.
EntryTaken == [][\A e \in Executor :
  pc[e] # "idle" /\ pc'[e] = "idle" => \A n \in DOMAIN queue' : e \notin queue'[n].due]_vars

\* "Newly added work cannot extend an execAll() drain": exec() returns even if
\* each task enqueues another, or itself.
ExecReturns == \A e \in Executor : pc[e] # "idle" ~> pc[e] = "idle"
=============================================================================
