-------------------------- MODULE RuntimeShutdown --------------------------
(***************************************************************************)
(* Joining shutdown against live work: SWRuntime::try_shutdown             *)
(* (src/runtime.rs) decides from three readings, none of them atomic with  *)
(* another, that nobody can reach the backend any more, and takes it       *)
(* apart.  The readings are RuntimeControl's activity count and the        *)
(* scheduler's record and handoff counts; the threads they must account    *)
(* for are submitters, dispatchers, backend workers, cancellers and        *)
(* callers that execute jobs themselves (runtime/lifecycle.rs,             *)
(* scheduler.rs).                                                          *)
(*                                                                         *)
(* Queues and prerequisites are left to OwnedScheduler: here an accepted   *)
(* job may be dispatched at any time, alone in its portion.                *)
(***************************************************************************)
EXTENDS Integers, FiniteSets

CONSTANTS
  Jobs,     \* jobs the program may submit
  Callers,  \* threads outside every job that may execute an eligible job
  Classes,  \* execution classes
  ClassOf,  \* class of a job
  Parent,   \* the job whose body submits it, or Host
  Host,     \* the program outside any job
  None      \* no candidate

ASSUME ShutdownAssumption ==
  /\ IsFiniteSet(Jobs) /\ IsFiniteSet(Callers)
  /\ Jobs \cap Callers = {}
  /\ ClassOf \in [Jobs -> Classes]
  /\ Parent \in [Jobs -> Jobs \cup {Host}]
  /\ Host \notin Jobs /\ None \notin Jobs

VARIABLES
  phase,    \* ControlState::phase
  active,   \* ControlState::active
  records,  \* Accounting::records
  handed,   \* handed_off of each class
  job,      \* where a submitted job stands
  portion,  \* the dispatcher that took the job out of the ready queue
  attempt,  \* claim_and_run of the job's wrapper, or of a caller
  target,   \* the job a caller took for a candidate
  host,     \* where try_shutdown stands
  unread    \* classes whose handoff count it has yet to read

vars == <<phase, active, records, handed, job, portion, attempt, target, host,
          unread>>

hostVars == <<host, unread>>

-----------------------------------------------------------------------------
(* Vocabulary *)

Threads == Jobs \cup Callers

\* The job a thread may execute: a wrapper has its own.
TargetOf(x) == IF x \in Jobs THEN x ELSE target[x]

\* Jobs whose OwnedAdmission is alive.
Admitted == {j \in Jobs : job[j] \in {"admitted", "ready", "handed", "running",
                                      "settling", "removed"}}

\* ExecutionLeases counted in active, of dispatchers and of claims.
DispatchLeases == {j \in Jobs : portion[j] \in {"leased", "spawned", "released"}}

ClaimLeases == {x \in Threads : attempt[x] \in {"leased", "running", "lost",
                                                "released"}}

\* The leases among them that still hold the backend Arc.
Owners == {j \in Jobs : portion[j] \in {"leased", "spawned"}} \cup
          {x \in Threads : attempt[x] \in {"leased", "running", "lost"}}

\* Jobs whose handoff slot is taken.
Slots(c) == {j \in Jobs : ClassOf[j] = c /\
               (portion[j] \in {"selected", "leased"} \/
                attempt[j] \in {"queued", "leased", "running", "lost",
                                "released", "leaving"})}

\* Fault: closure refuses leases to work already admitted.
UpgradableRunning ==
  phase = "Running" /\ (host # "panicked" \/ Owners # {})

\* acquire_handoff: the phase allows it and the weak backend upgrades.
Upgradable ==
  phase \in {"Running", "Closing"} /\ (host # "panicked" \/ Owners # {})

TypeOK ==
  /\ phase \in {"Running", "Closing", "Stopped"}
  /\ active \in Int /\ records \in Int
  /\ handed \in [Classes -> Int]
  /\ job \in [Jobs -> {"absent", "admitted", "ready", "handed", "running",
                       "settling", "removed", "gone"}]
  /\ portion \in [Jobs -> {"none", "selected", "leased", "spawned", "released",
                           "done"}]
  /\ attempt \in [Threads -> {"none", "queued", "leased", "running", "lost",
                              "released", "leaving", "gone"}]
  /\ target \in [Callers -> Jobs \cup {None}]
  /\ host \in {"idle", "active", "records", "handed", "recheck", "unwrap",
               "joined", "panicked"}
  /\ unread \subseteq Classes

Init ==
  /\ phase = "Running"
  /\ active = 0 /\ records = 0 /\ handed = [c \in Classes |-> 0]
  /\ job = [j \in Jobs |-> "absent"]
  /\ portion = [j \in Jobs |-> "none"]
  /\ attempt = [x \in Threads |-> "none"]
  /\ target = [x \in Callers |-> None]
  /\ host = "idle" /\ unread = {}

-----------------------------------------------------------------------------
(* A job's own life *)

Become(j, from, to) == job[j] \in from /\ job' = [job EXCEPT ![j] = to]

\* admit_owned: a root while Running, a descendant while Closing as well.
Admit(j) ==
  /\ Parent[j] # Host => job[Parent[j]] = "running"
  /\ phase = "Running" \/ (phase = "Closing" /\ Parent[j] # Host)
  /\ Become(j, {"absent"}, "admitted")
  /\ active' = active + 1
  /\ UNCHANGED <<phase, records, handed, portion, attempt, target, hostVars>>

\* Accounting::acquire and acceptance: the job is ready to be taken.
Accept(j) ==
  /\ Become(j, {"admitted"}, "ready")
  /\ records' = records + 1
  /\ UNCHANGED <<phase, active, handed, portion, attempt, target, hostVars>>

\* Every refusal after admission gives the admission back, its charge before.
Refuse(j) ==
  /\ Become(j, {"admitted"}, "gone")
  /\ active' = active - 1
  /\ UNCHANGED <<phase, records, handed, portion, attempt, target, hostVars>>

\* A producer control settles an unclaimed job without any lease.
Cancel(j) ==
  /\ Become(j, {"ready", "handed"}, "settling")
  /\ UNCHANGED <<phase, active, records, handed, portion, attempt, target,
                 hostVars>>

\* The body returns, after the submissions it is making.
Return(j) ==
  /\ \A k \in Jobs : Parent[k] = j => job[k] # "admitted"
  /\ Become(j, {"running"}, "settling")
  /\ UNCHANGED <<phase, active, records, handed, portion, attempt, target,
                 hostVars>>

\* finalize_record drops the record's charge, and its admission only after the
\* group was told.
Remove(j) ==
  /\ Become(j, {"settling"}, "removed")
  /\ records' = records - 1
  /\ UNCHANGED <<phase, active, handed, portion, attempt, target, hostVars>>

Retire(j) ==
  /\ Become(j, {"removed"}, "gone")
  /\ active' = active - 1
  /\ UNCHANGED <<phase, records, handed, portion, attempt, target, hostVars>>

-----------------------------------------------------------------------------
(* dispatch_class_ready and the wrapper it hands to the backend *)

\* The job leaves the ready queue with a slot, before any lease is taken.
Select(j) ==
  /\ portion[j] = "none"
  /\ Become(j, {"ready"}, "handed")
  /\ handed' = [handed EXCEPT ![ClassOf[j]] = @ + 1]
  /\ portion' = [portion EXCEPT ![j] = "selected"]
  /\ UNCHANGED <<phase, active, records, attempt, target, hostVars>>

\* acquire_handoff.
LeasePortion(j) ==
  /\ portion[j] = "selected" /\ Upgradable
  /\ portion' = [portion EXCEPT ![j] = "leased"]
  /\ active' = active + 1
  /\ UNCHANGED <<phase, records, handed, job, attempt, target, hostVars>>

\* try_spawn_owned: the slot belongs to the wrapper from here on.
Spawn(j) ==
  /\ portion[j] = "leased"
  /\ portion' = [portion EXCEPT ![j] = "spawned"]
  /\ attempt' = [attempt EXCEPT ![j] = "queued"]
  /\ UNCHANGED <<phase, active, records, handed, job, target, hostVars>>

\* ExecutionLease::drop: the backend Arc first, the count afterwards.
DropPortion(j) ==
  /\ portion[j] = "spawned"
  /\ portion' = [portion EXCEPT ![j] = "released"]
  /\ UNCHANGED <<phase, active, records, handed, job, attempt, target, hostVars>>

UncountPortion(j) ==
  /\ portion[j] = "released"
  /\ portion' = [portion EXCEPT ![j] = "done"]
  /\ active' = active - 1
  /\ UNCHANGED <<phase, records, handed, job, attempt, target, hostVars>>

-----------------------------------------------------------------------------
(* claim_and_run *)

\* A caller takes a job it may execute: the head of a group's ready list
\* (help_group), or its own submission past a full window.
TakeCandidate(x, j) ==
  /\ attempt[x] = "none"
  /\ job[j] \in {"ready", "handed"}
  /\ attempt' = [attempt EXCEPT ![x] = "queued"]
  /\ target' = [target EXCEPT ![x] = j]
  /\ UNCHANGED <<phase, active, records, handed, job, portion, hostVars>>

\* acquire_owned, by a worker or by a caller.
LeaseClaim(x) ==
  /\ attempt[x] = "queued" /\ Upgradable
  /\ attempt' = [attempt EXCEPT ![x] = "leased"]
  /\ active' = active + 1
  /\ UNCHANGED <<phase, records, handed, job, portion, target, hostVars>>

\* acquire_owned fails: Unavailable.
RefuseClaim(x) ==
  /\ attempt[x] = "queued" /\ ~Upgradable
  /\ attempt' = [attempt EXCEPT ![x] = "leaving"]
  /\ UNCHANGED <<phase, active, records, handed, job, portion, target, hostVars>>

\* The class section: the claim is won, or Lost.
Claim(x) ==
  /\ attempt[x] = "leased"
  /\ LET j == TargetOf(x)
     IN  IF job[j] \in {"ready", "handed"}
         THEN /\ job' = [job EXCEPT ![j] = "running"]
              /\ attempt' = [attempt EXCEPT ![x] = "running"]
         ELSE /\ attempt' = [attempt EXCEPT ![x] = "lost"]
              /\ UNCHANGED job
  /\ UNCHANGED <<phase, active, records, handed, portion, target, hostVars>>

\* The lease goes once the job it ran is finalized: Arc first, then the count.
DropClaim(x) ==
  /\ \/ attempt[x] = "lost"
     \/ attempt[x] = "running" /\ job[TargetOf(x)] = "gone"
  /\ attempt' = [attempt EXCEPT ![x] = "released"]
  /\ UNCHANGED <<phase, active, records, handed, job, portion, target, hostVars>>

UncountClaim(x) ==
  /\ attempt[x] = "released"
  /\ attempt' = [attempt EXCEPT ![x] = "leaving"]
  /\ active' = active - 1
  /\ UNCHANGED <<phase, records, handed, job, portion, target, hostVars>>

\* Fault: the slot stays taken.
DepartKeeping(x) ==
  /\ attempt[x] = "leaving"
  /\ attempt' = [attempt EXCEPT ![x] = "gone"]
  /\ UNCHANGED <<phase, active, records, handed, job, portion, target, hostVars>>

\* Handoff::drop returns the wrapper's slot; a caller has none.
Depart(x) ==
  /\ attempt[x] = "leaving"
  /\ attempt' = [attempt EXCEPT ![x] = "gone"]
  /\ handed' = IF x \in Jobs
               THEN [handed EXCEPT ![ClassOf[x]] = @ - 1]
               ELSE handed
  /\ UNCHANGED <<phase, active, records, job, portion, target, hostVars>>

-----------------------------------------------------------------------------
(* try_shutdown *)

\* Any thread, or a callback, may ask for closure.
BeginShutdown ==
  /\ phase = "Running" /\ phase' = "Closing"
  /\ UNCHANGED <<active, records, handed, job, portion, attempt, target, hostVars>>

\* The host closes root admission, then takes the readings.  A reading that
\* fails returns Ok(false), and the host calls again.
TryShutdown ==
  /\ host = "idle"
  /\ phase' = "Closing" /\ host' = "active"
  /\ UNCHANGED <<active, records, handed, job, portion, attempt, target, unread>>

Reading(ok, next) == host' = IF ok THEN next ELSE "idle"

\* RuntimeControl::is_quiescent.
ReadActive ==
  /\ host = "active" /\ Reading(active = 0, "records")
  /\ UNCHANGED <<phase, active, records, handed, job, portion, attempt, target,
                 unread>>

\* Fault: the handoff counts are not read.
ReadRecordsOnly ==
  /\ host = "records" /\ Reading(records = 0, "recheck")
  /\ unread' = Classes
  /\ UNCHANGED <<phase, active, records, handed, job, portion, attempt, target>>

\* OwnedScheduler::quiescent: the records, then one class after another.
ReadRecords ==
  /\ host = "records" /\ Reading(records = 0, "handed")
  /\ unread' = Classes
  /\ UNCHANGED <<phase, active, records, handed, job, portion, attempt, target>>

ReadHanded(c) ==
  /\ host = "handed" /\ c \in unread
  /\ unread' = unread \ {c}
  /\ Reading(handed[c] = 0, IF unread' = {} THEN "recheck" ELSE "handed")
  /\ UNCHANGED <<phase, active, records, handed, job, portion, attempt, target>>

\* Fault: the activity count is read only once.
SkipRecheck ==
  /\ host = "recheck" /\ host' = "unwrap"
  /\ UNCHANGED <<phase, active, records, handed, job, portion, attempt, target,
                 unread>>

\* is_quiescent again.
RecheckActive ==
  /\ host = "recheck" /\ Reading(active = 0, "unwrap")
  /\ UNCHANGED <<phase, active, records, handed, job, portion, attempt, target,
                 unread>>

\* Arc::try_unwrap of the backend, then the join.
Unwrap ==
  /\ host = "unwrap"
  /\ IF Owners = {} THEN host' = "joined" /\ phase' = "Stopped"
                    ELSE host' = "panicked" /\ UNCHANGED phase
  /\ UNCHANGED <<active, records, handed, job, portion, attempt, target, unread>>

-----------------------------------------------------------------------------
Environment ==
  \/ \E j \in Jobs : Admit(j) \/ Cancel(j)
  \/ \E x \in Callers, j \in Jobs : TakeCandidate(x, j)
  \/ BeginShutdown

JobStep(j) == Accept(j) \/ Refuse(j) \/ Return(j) \/ Remove(j) \/ Retire(j)

PortionStep(j) ==
  Select(j) \/ LeasePortion(j) \/ Spawn(j) \/ DropPortion(j) \/ UncountPortion(j)

ClaimStep(x) ==
  \/ LeaseClaim(x) \/ RefuseClaim(x) \/ Claim(x) \/ DropClaim(x)
  \/ UncountClaim(x) \/ Depart(x)

HostStep ==
  \/ TryShutdown \/ ReadActive \/ ReadRecords
  \/ \E c \in Classes : ReadHanded(c)
  \/ RecheckActive \/ Unwrap

System ==
  \/ \E j \in Jobs : JobStep(j) \/ PortionStep(j)
  \/ \E x \in Threads : ClaimStep(x)

Next == Environment \/ System \/ HostStep

Spec == Init /\ [][Next]_vars

\* Every thread inside the library goes on (bodies return, workers take what is
\* queued), and once closing the host keeps calling try_shutdown, as the loop of
\* SWRuntime::shutdown does at least every second.
FairSpec == Spec /\ WF_vars(System) /\ WF_vars(phase = "Closing" /\ HostStep)

-----------------------------------------------------------------------------
(* Properties *)

\* active counts exactly the live admissions and leases, so that zero means
\* that no lease owns a backend Arc ("Zero active leases must imply no lease
\* still owns a backend Arc", lifecycle.rs:886).
ActiveExact ==
  active = Cardinality(Admitted) + Cardinality(DispatchLeases)
             + Cardinality(ClaimLeases)

\* The three readings of try_shutdown together mean that no dispatcher and no
\* worker holds the backend: whoever still does is a caller that took its
\* candidate before the readings (runtime.rs:637-657).
OnlyCallersOwn == host = "unwrap" => Owners \subseteq Callers

\* "quiescent runtime still has a backend execution owner" (runtime.rs:657)
\* never fires.
QuiescentOwnsBackend == host # "panicked"

\* The workers are joined only when every admitted job is finalized and no
\* wrapper is left in the backend or on its way to it.
StoppedIsDrained ==
  phase = "Stopped" =>
    /\ \A j \in Jobs : job[j] \in {"absent", "gone"}
    /\ \A c \in Classes : Slots(c) = {} /\ handed[c] = 0

\* What the readings are for: after them nobody but a caller can own the backend,
\* and the join finds no job and no wrapper.
ReadingsSuffice == OnlyCallersOwn /\ StoppedIsDrained

\* "Ready successors remain dispatchable during graceful closure"
\* (lifecycle.rs:632): a dispatcher or worker that holds a slot always gets
\* its lease, so a joining shutdown never turns into an abandonment.
SlotsGetLeases ==
  \A j \in Jobs : portion[j] = "selected" \/ attempt[j] = "queued" => Upgradable

\* Joining shutdown finishes: no count is left above zero by work that is over,
\* and no reading keeps failing.  (The panic is the subject of
\* QuiescentOwnsBackend.)
ShutdownFinishes ==
  (phase = "Closing") ~> (phase = "Stopped" \/ host = "panicked")
=============================================================================
