------------------------- MODULE InterruptableThread -------------------------
(***************************************************************************)
(* CInterruptableThread (threading/cinterruptablethread.{h,cpp}): an owner *)
(* that starts, joins and destroys the thread, another thread that asks to *)
(* cancel the run at any moment, and a payload that polls the flag and     *)
(* need not end by itself.                                                 *)
(***************************************************************************)
EXTENDS Naturals

CONSTANTS MaxRuns, MaxRequests      \* bounds: start() and requestCancellation() calls

InterruptableAssumption == MaxRuns \in Nat /\ MaxRequests \in Nat

VARIABLES
  payload,                 \* "none", "running", "exited"
  caller,                  \* where the owner stands: "idle", in "start", "join", "destroy"; "gone"
  cancellationRequested,
  runs, requests,
  asked                    \* history: cancellation was requested since a start() reset the flag

vars == <<payload, caller, cancellationRequested, runs, requests, asked>>

Init ==
  /\ payload = "none" /\ caller = "idle" /\ cancellationRequested = FALSE
  /\ runs = 0 /\ requests = 0 /\ asked = FALSE

\* start() requires the run before to have been joined.
ResetFlag ==
  /\ caller = "idle" /\ payload = "none" /\ runs < MaxRuns
  /\ caller' = "start" /\ runs' = runs + 1
  /\ cancellationRequested' = FALSE /\ asked' = FALSE
  /\ UNCHANGED <<payload, requests>>

\* Mutant: the flag is cleared by the thread that is starting.
SpawnAndReset ==
  /\ caller = "start" /\ caller' = "idle"
  /\ payload' = "running" /\ cancellationRequested' = FALSE
  /\ UNCHANGED <<runs, requests, asked>>

Spawn ==
  /\ caller = "start" /\ caller' = "idle"
  /\ payload' = "running"
  /\ UNCHANGED <<cancellationRequested, runs, requests, asked>>

\* std::thread's constructor throws: there is no run.
SpawnThrows ==
  /\ caller = "start" /\ caller' = "idle"
  /\ UNCHANGED <<payload, cancellationRequested, runs, requests, asked>>

RequestCancellation ==
  /\ caller # "gone" /\ requests < MaxRequests /\ requests' = requests + 1
  /\ cancellationRequested' = TRUE /\ asked' = TRUE
  /\ UNCHANGED <<payload, caller, runs>>

\* The payload returns or throws, for whatever reason ...
PayloadEnds ==
  /\ payload = "running" /\ payload' = "exited"
  /\ UNCHANGED <<caller, cancellationRequested, runs, requests, asked>>

\* ... and surely once it sees the flag.
PayloadPolls == cancellationRequested /\ PayloadEnds

Join ==
  /\ caller = "idle" /\ payload # "none" /\ caller' = "join"
  /\ UNCHANGED <<payload, cancellationRequested, runs, requests, asked>>

\* The destructor's requestCancellation() and join().
Destroy ==
  /\ caller = "idle" /\ caller' = "destroy"
  /\ cancellationRequested' = TRUE /\ asked' = TRUE
  /\ UNCHANGED <<payload, runs, requests>>

Joined ==
  /\ \/ caller = "join" /\ payload = "exited" /\ caller' = "idle"
     \/ caller = "destroy" /\ payload \in {"none", "exited"} /\ caller' = "gone"
  /\ payload' = "none"
  /\ UNCHANGED <<cancellationRequested, runs, requests, asked>>

Next == ResetFlag \/ Spawn \/ SpawnThrows \/ RequestCancellation \/ PayloadEnds
        \/ Join \/ Destroy \/ Joined

Spec == Init /\ [][Next]_vars

\* Threads run, and the payload looks at the flag again and again; nothing else
\* obliges it to end, or the owner to call anything.
ThreadsRun == Spawn \/ SpawnThrows \/ PayloadPolls \/ Joined
Fairness == WF_vars(ThreadsRun)
FairSpec == Spec /\ Fairness

-----------------------------------------------------------------------------
\* A cancellation asked for at any moment since start() cleared the flag, its
\* thread not yet started included, ends the run, as the destructor's does: it
\* returns, although the payload goes on until it is cancelled.
CancellationEndsRun ==
  /\ payload = "running" /\ asked ~> payload # "running"
  /\ caller = "destroy" ~> caller = "gone"
=============================================================================
