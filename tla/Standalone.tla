----------------------------- MODULE Standalone -----------------------------
(***************************************************************************)
(* The components that have nothing to do with one another, side by side:  *)
(* a behaviour is one of the component that it begins with, and the        *)
(* variables of the others keep their initial values.                      *)
(***************************************************************************)
CONSTANTS
  MaxPauses, MaxStarts,                                             \* PeriodicThread
  Task, NoTask, Untagged, TagOf, Executor, MaxLength,               \* ExecutionQueue
  Producer, Consumer, MaxSize, MaxPushes, Usages,                   \* BlockingQueue
  MaxRuns, MaxRequests,                                             \* InterruptableThread
  Permutation(_), Widths, Pieces, MaxMessage,                       \* Sha3
  Seeds,                                                            \* Keccak
  Systems, MaxChanges,                                              \* CpuTopology
  Site, NameOf, Nobody, Resetter, Durations, MaxSamples, MaxResets, \* ProfilerCounters
  Volumes, MaxReplaced                                              \* VolumeSpeed

VARIABLE component

VARIABLES
  workload, thread, owner, joinable, terminate, paused, starts, pauses, late,
  queue, left, pc, running,
  items, calls, pushed, holder, inTime, flag, stopper, usage,
  payload, caller, cancellationRequested, runs, requests, asked,
  ctx, phase, width, fed, digest,
  s, round,
  system, stage, changes, exact, allowed, todo, inserted, masks, cpuSets, cores, ranked, count,
  counters, registryOwner, counterOf, at, sampled, resetting, resets, tally, blurred,
  volume, keyedBy, mounted, replaced, step, found, cached, answer

periodicVars ==
  <<workload, thread, owner, joinable, terminate, paused, starts, pauses, late>>
executionVars == <<queue, left, pc, running>>
queueVars == <<items, calls, pushed, holder, inTime, flag, stopper, usage>>
interruptableVars == <<payload, caller, cancellationRequested, runs, requests, asked>>
hashVars == <<ctx, phase, width, fed, digest>>
roundsVars == <<s, round>>
topologyVars ==
  <<system, stage, changes, exact, allowed, todo, inserted, masks, cpuSets, cores, ranked, count>>
profileVars ==
  <<counters, registryOwner, counterOf, at, sampled, resetting, resets, tally, blurred>>
deviceVars == <<volume, keyedBy, mounted, replaced, step, found, cached, answer>>
threads == <<periodicVars, executionVars, queueVars, interruptableVars>>
queries == <<hashVars, roundsVars, profileVars, topologyVars, deviceVars>>

-----------------------------------------------------------------------------
\* Three of the components come with the theorems about them.
Periodic == INSTANCE PeriodicThread
Execution == INSTANCE ExecutionQueueProofs
Queue == INSTANCE BlockingQueueProofs WITH queue <- items, pc <- calls
Interruptable == INSTANCE InterruptableThread
Hash == INSTANCE Sha3Proofs WITH MaxLength <- MaxMessage
Rounds == INSTANCE Keccak
Topology == INSTANCE CpuTopology
Profile == INSTANCE ProfilerCounters
Device == INSTANCE VolumeSpeed

ASSUME InstancesAreSound ==
  /\ Periodic!PeriodicAssumption /\ Execution!ExecutionAssumption
  /\ Queue!QueueAssumption /\ Interruptable!InterruptableAssumption /\ Hash!Sha3Assumption
  /\ Rounds!KeccakAssumption /\ Profile!CountersAssumption
  /\ Topology!CpuAssumption /\ Topology!CpusFit
  /\ Device!VolumesAssumption

-----------------------------------------------------------------------------
Components == {"periodic", "execution", "queue", "interruptable", "hash", "rounds",
               "profile", "topology", "device"}

Init ==
  /\ component \in Components
  /\ Periodic!Init /\ Execution!Init /\ Queue!Init /\ Interruptable!Init
  /\ Hash!Init /\ Rounds!Init /\ Profile!Init /\ Topology!Init /\ Device!Init
  /\ component # "queue" => usage = "pop"
  /\ component # "device" =>
       volume = (CHOOSE v \in Volumes : TRUE) /\ keyedBy \in {"number", "path"}

vars == <<component, threads, queries>>

Next ==
  /\ UNCHANGED component
  /\ \/ /\ component = "periodic" /\ Periodic!Next
        /\ UNCHANGED <<queries, executionVars, queueVars, interruptableVars>>
     \/ /\ component = "execution" /\ Execution!Next
        /\ UNCHANGED <<queries, periodicVars, queueVars, interruptableVars>>
     \/ /\ component = "queue" /\ Queue!Next
        /\ UNCHANGED <<queries, periodicVars, executionVars, interruptableVars>>
     \/ /\ component = "interruptable" /\ Interruptable!Next
        /\ UNCHANGED <<queries, periodicVars, executionVars, queueVars>>
     \/ /\ component = "hash" /\ Hash!Next
        /\ UNCHANGED <<threads, roundsVars, profileVars, topologyVars, deviceVars>>
     \/ /\ component = "rounds" /\ Rounds!Next
        /\ UNCHANGED <<threads, hashVars, profileVars, topologyVars, deviceVars>>
     \/ /\ component = "profile" /\ Profile!Next
        /\ UNCHANGED <<threads, hashVars, roundsVars, topologyVars, deviceVars>>
     \/ /\ component = "topology" /\ Topology!Next
        /\ UNCHANGED <<threads, hashVars, roundsVars, profileVars, deviceVars>>
     \/ /\ component = "device" /\ Device!Next
        /\ UNCHANGED <<threads, hashVars, roundsVars, profileVars, topologyVars>>

\* A component that was not chosen stays where its threads have nothing to do.
Spec == /\ Init /\ [][Next]_vars
        /\ Periodic!Fairness /\ Execution!Fairness /\ Interruptable!Fairness

-----------------------------------------------------------------------------
(* The properties, stated in the components' modules.                      *)

\* PeriodicThread: at most one workload call begins after a pause or the end.
AtMostOneLateCall == Periodic!AtMostOneLateCall
\* PeriodicThread: terminate() returns without a wait to elapse.
TerminateReturns == Periodic!TerminateReturns
\* PeriodicThread: a thread at its parking check, not paused, gets to work.
UnpausedRuns == Periodic!UnpausedRuns
\* PeriodicThread: a paused thread parks without waiting its period out.
PauseParks == Periodic!PauseParks

\* ExecutionQueue: a tag has one task in the queue at most.
OnePerTag == Execution!OnePerTag
\* ExecutionQueue: what was pending at an exec()'s entry is ahead of what is newer.
OldestFirst == Execution!OldestFirst
\* ExecutionQueue: exec(execAll) leaves nothing that was pending at its entry.
EntryTaken == Execution!EntryTaken
\* ExecutionQueue: exec() returns, whatever its tasks enqueue.
ExecReturns == Execution!ExecReturns

\* BlockingQueue: a consumer blocked in pop() next to an item has another woken.
EachItemWakesOne == Queue!EachItemWakesOne
\* BlockingQueue: no wait with a predicate survives wakeAllThreads().
FlagReachesAll == Queue!FlagReachesAll
\* BlockingQueue: a wait with a predicate ends for a reason.
PredicateWaitHolds == Queue!PredicateWaitHolds

\* InterruptableThread: a cancellation since start() ends the run.
CancellationEndsRun == Interruptable!CancellationEndsRun

\* Sha3: the hash does not depend on how the message was cut into pieces.
HashIsOfMessage == Hash!HashIsOfMessage
\* Keccak: each round of the permutation is the one of FIPS 202.
RoundIsFips == Rounds!RoundIsFips

\* ProfilerCounters: no sample is lost to another thread or to the registry.
SamplesAreCounted == Profile!SamplesAreCounted

\* CpuTopology: the counts agree with one another whatever fails ...
CountsAddUp == Topology!CountsAddUp
\* ... and with the CPUs the process may use if nothing does.
CountsMatchCpus == Topology!CountsMatchCpus

\* VolumeSpeed: a volume is fast only if the system said so of each thing asked.
FastIsAttested == Device!FastIsAttested
=============================================================================
