-------------------------- MODULE ProfilerTimeline --------------------------
(***************************************************************************)
(* The timeline of timing/profiler.cpp: start(), mark() and Scope, of the  *)
(* single thread that may use them, on a clock that goes on.               *)
(***************************************************************************)
EXTENDS Integers, Sequences, SequencesExt

CONSTANTS
  MaxTime,        \* bound: of the clock
  MaxDepth,       \* bound: of the scopes open at a time
  Modulus         \* the 2^64 of uint64_t, scaled down to the clock

VARIABLES
  now,
  timeline,       \* the time of its start, in a set that is empty before the first use
  previousNs,     \* mark()'s static
  delta,          \* what the last mark() logged as its delta
  scopes,         \* the open scopes: [indent, started]
  scopeDepth,
  lastMark        \* history: the time of the last mark()

vars == <<now, timeline, previousNs, delta, scopes, scopeDepth, lastMark>>

Init ==
  /\ now = 0 /\ timeline = {} /\ previousNs = 0 /\ delta = 0
  /\ scopes = <<>> /\ scopeDepth = 0 /\ lastMark = {}

Tick ==
  /\ now < MaxTime /\ now' = now + 1
  /\ UNCHANGED <<timeline, previousNs, delta, scopes, scopeDepth, lastMark>>

\* "Auto-starts on first use".
Started == IF timeline = {} THEN {now} ELSE timeline
NsElapsed == now - (CHOOSE t \in Started : TRUE)

Start ==
  /\ timeline' = {now}
  /\ UNCHANGED <<now, previousNs, delta, scopes, scopeDepth, lastMark>>

Mark ==
  /\ timeline' = Started
  /\ delta' = (NsElapsed - previousNs) % Modulus
  /\ previousNs' = NsElapsed /\ lastMark' = {now}
  /\ UNCHANGED <<now, scopes, scopeDepth>>

OpenScope ==
  /\ Len(scopes) < MaxDepth
  /\ scopes' = Append(scopes, [indent |-> scopeDepth, started |-> now])
  /\ scopeDepth' = scopeDepth + 1
  /\ UNCHANGED <<now, timeline, previousNs, delta, lastMark>>

CloseScope ==
  /\ scopes # <<>> /\ scopes' = Front(scopes) /\ scopeDepth' = scopeDepth - 1
  /\ timeline' = Started
  /\ UNCHANGED <<now, previousNs, delta, lastMark>>

Next == Tick \/ Start \/ Mark \/ OpenScope \/ CloseScope

Spec == Init /\ [][Next]_vars

-----------------------------------------------------------------------------
\* "The delta is against the previous mark from anywhere": what mark() logs is the
\* time since the mark before it; less, if need be, with a start() in between,
\* but never more.
DeltaSincePreviousMark ==
  [][lastMark' # lastMark => \A t \in lastMark : delta' <= now - t]_vars
=============================================================================
