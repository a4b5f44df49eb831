-------------------------- MODULE RuntimeStartup --------------------------
(***************************************************************************)
(* The life of a runtime from the call of build: its workers are launched  *)
(* pool by pool, set themselves up and meet at the startup gate            *)
(* (src/runtime/lifecycle.rs:20-143), the builder opens the gate or rolls  *)
(* everything back (src/runtime.rs:188-290), and only then does the        *)
(* runtime of RuntimeShutdown begin.                                       *)
(***************************************************************************)
EXTENDS RuntimeShutdown

CONSTANTS
  Workers,   \* numbers, in the order they are launched
  PoolOf     \* the pool a worker belongs to, a number

ASSUME StartupAssumption ==
  /\ IsFiniteSet(Workers) /\ Workers \subseteq Nat
  /\ PoolOf \in [Workers -> Nat]
  /\ \A v, w \in Workers : v < w => PoolOf[v] <= PoolOf[w]

VARIABLES
  gate,      \* Startup's State::phase
  ready,     \* State::ready
  error,     \* an error is recorded
  worker,    \* where a worker's thread stands
  builder,   \* where build stands
  reported   \* build has an error to return

buildVars == <<gate, ready, error, worker, builder, reported>>
lifeVars == <<vars, buildVars>>

-----------------------------------------------------------------------------
BuildInit ==
  /\ gate = "Preparing" /\ ready = 0 /\ error = FALSE /\ reported = FALSE
  /\ worker = [w \in Workers |-> "none"]
  /\ builder = "spawning"

\* Fault: only the builder hears of a change.
NotWoken == worker

\* notify_all: whoever waits at the gate looks again.
Woken == [w \in Workers |-> IF worker[w] = "asleep" THEN "woken" ELSE worker[w]]
BuilderWoken == IF builder = "asleep" THEN "waiting" ELSE builder

\* A worker that looks at the gate waits, goes on to its pool's loop, or leaves.
AtGate == CASE gate = "Preparing" -> "asleep"
            [] gate = "Started" -> "running"
            [] gate = "Aborted" -> "ended"

\* Startup::fail keeps the first error and closes the gate for good.
RecordFailure == error' = TRUE /\ gate' = "Aborted"

Unlaunched == {w \in Workers : worker[w] = "none"}
IsNext(w) == w \in Unlaunched /\ \A v \in Unlaunched : w <= v

-----------------------------------------------------------------------------
(* The builder *)

\* A launcher that finds the gate closed refuses; after the last worker the
\* builder goes to the gate itself.
BeforeLaunch ==
  /\ builder = "spawning"
  /\ builder' = IF Unlaunched = {} THEN "waiting"
                ELSE IF gate = "Aborted" THEN "rollback" ELSE "launching"
  /\ UNCHANGED <<vars, gate, ready, error, worker, reported>>

Launch(w) ==
  /\ builder = "launching" /\ IsNext(w)
  /\ builder' = "spawning"
  /\ worker' = [worker EXCEPT ![w] = "setup"]
  /\ UNCHANGED <<vars, gate, ready, error, reported>>

\* The thread cannot be spawned: the gate is closed before the rollback, which
\* joins the pool's other workers.
FailLaunch(w) ==
  /\ builder = "launching" /\ IsNext(w)
  /\ RecordFailure
  /\ worker' = Woken /\ builder' = "rollback"
  /\ UNCHANGED <<vars, ready, reported>>

\* try_build_with stops and joins the workers of the pool under construction.
Rollback ==
  /\ builder = "rollback"
  /\ \E w \in Workers :
       /\ IsNext(w)
       /\ \A v \in Workers : PoolOf[v] = PoolOf[w] => worker[v] \in {"none", "ended"}
  /\ builder' = "refused"
  /\ UNCHANGED <<vars, gate, ready, error, worker, reported>>

\* start_when_ready.  A gate once opened stays open, so that everybody who waits
\* at it is let through in the same step.
StartWhenReady ==
  /\ builder = "waiting"
  /\ \/ /\ gate = "Preparing" /\ ready # Cardinality(Workers)
        /\ builder' = "asleep" /\ UNCHANGED <<gate, worker>>
     \/ /\ gate = "Aborted"
        /\ builder' = "refused" /\ UNCHANGED <<gate, worker>>
     \/ /\ gate = "Preparing" /\ ready = Cardinality(Workers)
        /\ gate' = "Started" /\ builder' = "built"
        /\ worker' = [w \in Workers |->
                         IF worker[w] \in {"asleep", "woken"} THEN "running" ELSE worker[w]]
  /\ UNCHANGED <<vars, ready, error, reported>>

\* take_error expects one; without it the builder would unwind with nothing.
TakeError ==
  /\ builder = "refused"
  /\ reported' = error /\ error' = FALSE
  /\ builder' = "dropping"
  /\ UNCHANGED <<vars, gate, ready, worker>>

\* StartupGuard::drop closes the gate before it joins any pool ...
AbortGate ==
  /\ builder = "dropping"
  /\ gate' = "Aborted"
  /\ worker' = Woken /\ builder' = "joining"
  /\ UNCHANGED <<vars, ready, error, reported>>

\* ... and joins those that were built.
JoinPools ==
  /\ builder = "joining"
  /\ \A w \in Workers : worker[w] \in {"none", "ended"}
  /\ builder' = "failed"
  /\ UNCHANGED <<vars, gate, ready, error, worker, reported>>

-----------------------------------------------------------------------------
(* A worker *)

\* Priority and setup hook, which may fail or panic.
FailSetup(w) ==
  /\ worker[w] = "setup"
  /\ RecordFailure
  /\ worker' = [Woken EXCEPT ![w] = "ended"] /\ builder' = BuilderWoken
  /\ UNCHANGED <<vars, ready, reported>>

\* ready_and_wait: counted, announced and, in the same section, waiting.
ReadyAndWait(w) ==
  /\ worker[w] = "setup"
  /\ ready' = ready + 1
  /\ worker' = [Woken EXCEPT ![w] = AtGate]
  /\ builder' = BuilderWoken
  /\ UNCHANGED <<vars, gate, error, reported>>

\* A worker that was woken finds the gate as it was, or decided.
LookAgain(w) ==
  /\ worker[w] = "woken"
  /\ worker' = [worker EXCEPT ![w] = AtGate]
  /\ UNCHANGED <<vars, gate, ready, error, builder, reported>>

-----------------------------------------------------------------------------
BuilderStep ==
  \/ BeforeLaunch \/ (\E w \in Workers : Launch(w) \/ FailLaunch(w))
  \/ Rollback \/ StartWhenReady \/ TakeError \/ AbortGate \/ JoinPools

WorkerStep(w) == FailSetup(w) \/ ReadyAndWait(w) \/ LookAgain(w)

\* The runtime that build returned.
Run(A) == builder = "built" /\ A /\ UNCHANGED buildVars

LifeInit == Init /\ BuildInit

LifeNext == BuilderStep \/ (\E w \in Workers : WorkerStep(w)) \/ Run(Next)

LifeSpec == LifeInit /\ [][LifeNext]_lifeVars

\* As RuntimeShutdown; and the builder goes on, and every setup returns.
LifeFairSpec ==
  /\ LifeSpec
  /\ WF_lifeVars(BuilderStep) /\ \A w \in Workers : WF_lifeVars(WorkerStep(w))
  /\ WF_lifeVars(Run(System)) /\ WF_lifeVars(Run(phase = "Closing" /\ HostStep))

-----------------------------------------------------------------------------
(* Properties *)

\* The type invariant.
BuildTypeOK ==
  /\ gate \in {"Preparing", "Started", "Aborted"} /\ ready \in Nat
  /\ error \in BOOLEAN /\ reported \in BOOLEAN
  /\ worker \in [Workers -> {"none", "setup", "asleep", "woken", "running", "ended"}]
  /\ builder \in {"spawning", "launching", "rollback", "waiting", "asleep", "built", "refused",
                  "dropping", "joining", "failed"}

AllUp == builder = "built" /\ \A w \in Workers : worker[w] = "running"

AllGone == builder = "failed" /\ reported /\ \A w \in Workers : worker[w] \in {"none", "ended"}

\* build ends, and whole: either every worker of every pool runs, or none is left
\* and there is the error of one that failed to be returned; nobody waits at the
\* gate for ever, whichever worker or launch fails and whenever (Startup,
\* StartupGuard).
BuildEndsWhole == <>[](AllUp \/ AllGone)

\* No worker reaches its pool's loop unless all have been set up, while one runs
\* none is left behind, and a build that failed leaves nothing (ready_and_wait,
\* start_when_ready, StartupGuard).
AllOrNone ==
  /\ (\E w \in Workers : worker[w] = "running") => AllUp
  /\ builder = "failed" => AllGone

\* "aborted startup has a worker error": what take_error expects.
RefusalHasError == builder = "refused" => error
=============================================================================
