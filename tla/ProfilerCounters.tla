-------------------------- MODULE ProfilerCounters --------------------------
(***************************************************************************)
(* The named accumulators of timing/profiler.{h,cpp}: call sites that look *)
(* their counter up on first use and add a sample each time they run,      *)
(* while another thread resets the counters.  Every access to an atomic,   *)
(* and every critical section of countersMutex that is not interrupted by  *)
(* one, is a step.                                                         *)
(***************************************************************************)
EXTENDS Naturals, Sequences, SequencesExt

CONSTANTS
  Site, NameOf,      \* the call sites, each on a thread of its own; their counters' names
  Nobody, Resetter,
  Durations,         \* what a sample may measure, in ns
  MaxSamples, MaxResets          \* bounds: samples per site, resetCounters() calls

CountersAssumption ==
  /\ DOMAIN NameOf = Site /\ {Nobody, Resetter} \cap Site = {} /\ Nobody # Resetter
  /\ Durations \subseteq Nat /\ MaxSamples \in Nat /\ MaxResets \in Nat

VARIABLES
  counters,          \* in the order of their creation: [name, ns, calls]
  registryOwner,     \* who holds countersMutex
  counterOf,         \* the static reference of each site, as an index; 0 before
  at,                \* where each site stands
  sampled,           \* samples begun, per site
  resetting, resets, \* the counter being reset, 0 if none, and whether its ns are; the calls
  tally,             \* history: the samples since its last reset, per name
  blurred            \* history: the names whose last reset and a sample overlapped

vars == <<counters, registryOwner, counterOf, at, sampled, resetting, resets, tally, blurred>>

Names == {NameOf[c] : c \in Site}
NoSamples == [ns |-> 0, calls |-> 0]

Init ==
  /\ counters = <<>> /\ registryOwner = Nobody
  /\ counterOf = [c \in Site |-> 0] /\ at = [c \in Site |-> "idle"]
  /\ sampled = [c \in Site |-> 0] /\ resetting = [index |-> 0, halfway |-> FALSE] /\ resets = 0
  /\ tally = [n \in Names |-> NoSamples] /\ blurred = {}

Named(n) == {k \in DOMAIN counters : counters[k].name = n}
Goto(c, from, to) == at[c] = from /\ at' = [at EXCEPT ![c] = to]

-----------------------------------------------------------------------------
(* counter(), whose result a site keeps.                                   *)

UnchangedByLookup == UNCHANGED <<sampled, resetting, resets, tally, blurred>>

Find(c) ==
  /\ counterOf[c] = 0 /\ registryOwner = Nobody /\ Named(NameOf[c]) # {}
  /\ counterOf' = [counterOf EXCEPT ![c] = CHOOSE k \in Named(NameOf[c]) : TRUE]
  /\ UNCHANGED <<counters, registryOwner, at>> /\ UnchangedByLookup

\* Mutant: the search is not locked, only what it leads to.
FindNothingUnlocked(c) ==
  /\ counterOf[c] = 0 /\ Named(NameOf[c]) = {} /\ Goto(c, "idle", "create")
  /\ UNCHANGED <<counters, registryOwner, counterOf>> /\ UnchangedByLookup

FindNothing(c) ==
  /\ counterOf[c] = 0 /\ registryOwner = Nobody /\ Named(NameOf[c]) = {}
  /\ Goto(c, "idle", "create") /\ registryOwner' = c
  /\ UNCHANGED <<counters, counterOf>> /\ UnchangedByLookup

Create(c) ==
  /\ Goto(c, "create", "idle")
  /\ counters' = Append(counters, [name |-> NameOf[c], ns |-> 0, calls |-> 0])
  /\ counterOf' = [counterOf EXCEPT ![c] = Len(counters) + 1] /\ registryOwner' = Nobody
  /\ UnchangedByLookup

-----------------------------------------------------------------------------
(* Sample: the interval, then ns and calls one after the other.            *)

HalfReset(k) == resetting = [index |-> k, halfway |-> TRUE]
Added(k, field, n) == counters' = [counters EXCEPT ![k][field] = @ + n]
Tallied(name, field, n) == tally' = [tally EXCEPT ![name][field] = @ + n]
UnchangedBySample == UNCHANGED <<registryOwner, counterOf, resetting, resets>>

BeginSample(c) ==
  /\ counterOf[c] # 0 /\ sampled[c] < MaxSamples
  /\ Goto(c, "idle", "ns") /\ sampled' = [sampled EXCEPT ![c] = @ + 1]
  /\ UNCHANGED <<counters, tally, blurred>> /\ UnchangedBySample

AddNs(c) ==
  /\ Goto(c, "ns", "calls")
  /\ \E d \in Durations : Added(counterOf[c], "ns", d) /\ Tallied(NameOf[c], "ns", d)
  /\ UNCHANGED <<sampled, blurred>> /\ UnchangedBySample

AddCall(c) ==
  /\ Goto(c, "calls", "idle")
  /\ Added(counterOf[c], "calls", 1) /\ Tallied(NameOf[c], "calls", 1)
  /\ blurred' = blurred \cup {n \in {NameOf[c]} : HalfReset(counterOf[c])}
  /\ UNCHANGED sampled /\ UnchangedBySample

-----------------------------------------------------------------------------
(* resetCounters().  reportCounters() reads under the same mutex.          *)

UnchangedByReset == UNCHANGED <<counterOf, at, sampled>>

BeginReset ==
  /\ registryOwner = Nobody /\ counters # <<>> /\ resets < MaxResets
  /\ registryOwner' = Resetter /\ resets' = resets + 1
  /\ resetting' = [index |-> 1, halfway |-> FALSE]
  /\ UNCHANGED <<counters, tally, blurred>> /\ UnchangedByReset

Halves(k) == {c \in Site : counterOf[c] = k /\ at[c] = "calls"}

ResetNs ==
  LET k == resetting.index  n == counters[k].name IN
  /\ k # 0 /\ ~resetting.halfway /\ resetting' = [resetting EXCEPT !.halfway = TRUE]
  /\ counters' = [counters EXCEPT ![k].ns = 0]
  /\ tally' = [tally EXCEPT ![n] = NoSamples]
  /\ blurred' = IF Halves(k) # {} THEN blurred \cup {n} ELSE blurred \ {n}
  /\ UNCHANGED <<registryOwner, resets>> /\ UnchangedByReset

ResetCalls ==
  LET k == resetting.index  last == k = Len(counters) IN
  /\ resetting.halfway
  /\ counters' = [counters EXCEPT ![k].calls = 0]
  /\ resetting' = [index |-> IF last THEN 0 ELSE k + 1, halfway |-> FALSE]
  /\ registryOwner' = IF last THEN Nobody ELSE Resetter
  /\ UNCHANGED <<resets, tally, blurred>> /\ UnchangedByReset

Next ==
  \/ \E c \in Site : Find(c) \/ FindNothing(c) \/ Create(c)
                     \/ BeginSample(c) \/ AddNs(c) \/ AddCall(c)
  \/ BeginReset \/ ResetNs \/ ResetCalls

Spec == Init /\ [][Next]_vars

-----------------------------------------------------------------------------
\* A name has one counter, which every call site with this name adds to, and its
\* time and its calls are those of the same samples, all of them since the last
\* reset: but while a sample or a reset is half done, or after one fell between the
\* halves of the other.
SamplesAreCounted ==
  \A k \in DOMAIN counters :
    LET n == counters[k].name IN
    Halves(k) = {} /\ ~HalfReset(k) /\ n \notin blurred =>
      /\ Named(n) = {k}
      /\ counters[k].ns = tally[n].ns /\ counters[k].calls = tally[n].calls
=============================================================================
