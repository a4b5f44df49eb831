---------------------------- MODULE ExternalWork ----------------------------
(***************************************************************************)
(* Work that a foreign provider finishes (src/external): logical results   *)
(* held by producers, physical accesses, and the work set that counts them *)
(* and the discoverers which may still admit more                          *)
(* (src/scheduler/work_set.rs).  The runtime's phase, the set, the         *)
(* scheduler's external records and the physical registry are each under a *)
(* lock of their own, and an admission passes them one after the other     *)
(* while the set is cancelled and the runtime closed, drained or abandoned.*)
(***************************************************************************)
EXTENDS Naturals, FiniteSets

CONSTANTS
  Producers,      \* calls of SWRuntime::external
  Accesses,       \* calls of SWRuntime::prepare_external
  Permits,        \* discovery permits
  Origin,         \* what such a call goes through: a permit, the set or nothing
  TheSet,         \* the origin of a root
  Nothing,        \* the origin of a call without a set
  Values,         \* results a provider may complete with
  None,           \* no result, no stored status
  PermitLimit, PhysicalLimit   \* capacities of the set and the registry

Calls == Producers \cup Accesses

ASSUME ExternalAssumption ==
  /\ IsFiniteSet(Calls \cup Permits)
  /\ Producers \cap Accesses = {} /\ Calls \cap Permits = {}
  /\ Origin \in [Calls \cup Permits -> Permits \cup {TheSet, Nothing}]
  /\ \A d \in Permits : Origin[d] # Nothing
  /\ {TheSet, Nothing} \cap Permits = {} /\ TheSet # Nothing
  /\ Values \cap {"Cancelled", "Abandoned"} = {} /\ None \notin Values
  /\ None \notin {"Cancelled", "Abandoned"}

VARIABLES
  phase,       \* ControlState::phase
  admitted,    \* whose ExternalAdmission is live, ControlState::external
  registry,    \* PhysicalRegistry's entries
  body,        \* a job's body of this runtime is executing
  abandoned,   \* OwnedScheduler::abandoned
  open, cancelled,  \* the set's State
  leases,      \* whose WorkSetLease is live, State::active_work
  hooks,       \* State::cancel_hooks
  handle,      \* a clone of the SWWorkSet is left
  firing,      \* hooks a cancellation took and has yet to call
  at,          \* where a call, or a permit, stands
  record,      \* where a producer's ExternalRecord stands
  deferred,    \* its deferred_status
  claims,      \* results that won claim_external
  result,      \* what the core published
  host, cut    \* where the runtime's owner stands, what abandon has to settle

setVars == <<open, cancelled, leases, hooks, handle, firing>>
recordVars == <<record, deferred, claims, result>>
runtimeVars == <<phase, abandoned, host, cut>>
vars == <<setVars, recordVars, runtimeVars, admitted, registry, body, at>>

-----------------------------------------------------------------------------
(* Vocabulary *)

InSet(x) == Origin[x] # Nothing

LivePermits == {d \in Permits : at[d] = "live"}

\* WorkSetInner is referenced, so the weak list of the control still sees it.
Alive == handle \/ leases # {} \/ LivePermits # {}

\* SWWorkSetProgress::is_drained.
Drained == ~open /\ leases = {} /\ LivePermits = {}

\* A call borrows what it goes through until it returns.
InCall(x) == at[x] \notin {"idle", "refused", "live", "dropped", "returned", "prepared",
                           "active", "orphaned", "retiring", "released"}

Borrowed(origin) == \E x \in Calls \cup Permits : Origin[x] = origin /\ InCall(x)

\* Fault: phase, counts and registry, but the sets are not asked.
QuiescentWithoutSets == phase = "Closing" /\ ~body /\ admitted = {} /\ registry = {}

\* RuntimeControl::is_quiescent: one hold of the control lock.
Quiescent ==
  /\ phase = "Closing" /\ ~body
  /\ admitted = {} /\ registry = {}
  /\ Alive => Drained

\* The keys of the external map.
Records == {p \in Producers : record[p] \in {"present", "claimed"}}

\* The records charge of an admission not yet given back, OwnedScheduler::quiescent.
Charged == Records \cup {p \in Producers : record[p] = "removed"}

Init ==
  /\ phase = "Running" /\ abandoned = FALSE /\ host = "idle" /\ cut = {}
  /\ admitted = {} /\ registry = {} /\ body \in BOOLEAN
  /\ open = TRUE /\ cancelled = FALSE /\ leases = {} /\ hooks = {}
  /\ handle = TRUE /\ firing = {}
  /\ at = [x \in Calls \cup Permits |-> "idle"]
  /\ record = [p \in Producers |-> "absent"]
  /\ deferred = [p \in Producers |-> None]
  /\ claims = [p \in Producers |-> {}]
  /\ result = [p \in Producers |-> None]

-----------------------------------------------------------------------------
(* Settlement of one producer *)

Step(x, from, to) == at[x] = from /\ at' = [at EXCEPT ![x] = to]

\* Fault: a record being settled may be claimed again.
ClaimableTwice(p, r) ==
  record[p] \in {"present", "claimed"} /\ (abandoned => r = "Abandoned")

\* claim_external lets one outcome through, and after the cut of an abandonment
\* only that one.
Claimable(p, r) == record[p] = "present" /\ (abandoned => r = "Abandoned")

Claim(p, r) ==
  /\ record' = [record EXCEPT ![p] = "claimed"]
  /\ claims' = [claims EXCEPT ![p] = @ \cup {r}]

Attaching(p) == at[p] = "attaching"

\* settle_external: a status for a record still attaching is kept for later;
\* an absent or claimed record ignores it.
Settle(p, status) ==
  \/ /\ Attaching(p)
     /\ deferred' = [deferred EXCEPT ![p] = status]
     /\ UNCHANGED <<record, claims, result>>
  \/ /\ ~Attaching(p) /\ Claimable(p, status)
     /\ Claim(p, status)
     /\ UNCHANGED <<deferred, result>>
  \/ /\ ~Attaching(p) /\ ~Claimable(p, status)
     /\ UNCHANGED recordVars

\* The provider completes, cancels or drops its producer; once it holds it.
Complete(p, v) ==
  /\ at[p] = "returned" /\ Claimable(p, v)
  /\ Claim(p, v)
  /\ UNCHANGED <<setVars, runtimeVars, admitted, registry, body, at, deferred, result>>

CancelOrDrop(p, status) ==
  /\ at[p] = "returned" /\ Claimable(p, status)
  /\ Settle(p, status)
  /\ UNCHANGED <<setVars, runtimeVars, admitted, registry, body, at>>

\* finish_external publishes and removes the record, which from its claim on
\* nobody heeds; then it gives back the lease, the charge and last the admission.
Publish(p) ==
  /\ record[p] = "claimed"
  /\ record' = [record EXCEPT ![p] = "removed"]
  /\ \E r \in claims[p] : result' = [result EXCEPT ![p] = r]
  /\ UNCHANGED <<setVars, runtimeVars, admitted, registry, body, at, deferred, claims>>

\* The set's lease is shared with the admission until that has registered.
Registering(p) == at[p] \in {"attaching", "settling", "registering", "hooking", "registered"}

\* LeaseInner::drop, one section of the set.
Leave(x) ==
  /\ leases' = leases \ {x} /\ hooks' = hooks \ {x}
  /\ UNCHANGED <<open, cancelled, handle, firing>>

ReleaseLease(p) ==
  /\ record[p] = "removed"
  /\ record' = [record EXCEPT ![p] = "released"]
  /\ IF Registering(p) THEN UNCHANGED setVars ELSE Leave(p)
  /\ UNCHANGED <<runtimeVars, admitted, registry, body, at, deferred, claims, result>>

ReleaseAdmission(p) ==
  /\ record[p] = "released"
  /\ record' = [record EXCEPT ![p] = "done"]
  /\ admitted' = admitted \ {p}
  /\ UNCHANGED <<setVars, runtimeVars, registry, body, at, deferred, claims, result>>

-----------------------------------------------------------------------------
(* Admission *)

Refuse(x) ==
  /\ at' = [at EXCEPT ![x] = "refused"]
  /\ UNCHANGED <<setVars, runtimeVars, recordVars, admitted, registry, body>>

\* The call may be made: a set is reached through a handle, a child through a
\* live permit.
Reachable(x) ==
  CASE Origin[x] = TheSet -> handle
    [] Origin[x] \in Permits -> at[Origin[x]] = "live"
    [] OTHER -> FALSE

\* WorkSetInner::runtime_accepts: under the control lock, before the set's.
RuntimeAccepts(x) ==
  phase = "Running" \/ (phase = "Closing" /\ Origin[x] # TheSet)

Gate(x) ==
  /\ Reachable(x)
  /\ Step(x, "idle", IF RuntimeAccepts(x) THEN "gated" ELSE "refused")
  /\ UNCHANGED <<setVars, runtimeVars, recordVars, admitted, registry, body>>

\* Without a set there is nothing to ask before the control.
CallBare(x) ==
  /\ ~InSet(x)
  /\ Step(x, "idle", "leased")
  /\ UNCHANGED <<setVars, runtimeVars, recordVars, admitted, registry, body>>

\* Fault: the runtime was asked, so the set's seal is not.
AcceptsSealed(x) == ~cancelled

\* The set's own test.
SetAccepts(x) == ~cancelled /\ (Origin[x] = TheSet => open)

\* WorkSetInner::acquire_work takes the lease under the set's lock.
AcquireWork(x) ==
  /\ x \in Calls /\ SetAccepts(x)
  /\ Step(x, "gated", "leased")
  /\ leases' = leases \cup {x}
  /\ UNCHANGED <<open, cancelled, hooks, handle, firing, runtimeVars, recordVars, admitted,
                 registry, body>>

\* SWWorkSet::discovery and SWDiscoveryPermit::fork.
AcquirePermit(d) ==
  /\ d \in Permits /\ SetAccepts(d) /\ Cardinality(LivePermits) < PermitLimit
  /\ Step(d, "gated", "live")
  /\ UNCHANGED <<setVars, runtimeVars, recordVars, admitted, registry, body>>

RefuseSet(x) ==
  /\ at[x] = "gated"
  /\ ~SetAccepts(x) \/ (x \in Permits /\ Cardinality(LivePermits) >= PermitLimit)
  /\ Refuse(x)

\* SWDiscoveryPermit::drop.
DropPermit(d) ==
  /\ ~Borrowed(d)
  /\ Step(d, "live", "dropped")
  /\ UNCHANGED <<setVars, runtimeVars, recordVars, admitted, registry, body>>

DropHandle ==
  /\ handle /\ ~Borrowed(TheSet)
  /\ handle' = FALSE
  /\ UNCHANGED <<open, cancelled, leases, hooks, firing, runtimeVars, recordVars, admitted,
                 registry, body, at>>

\* RuntimeControl::admit_external and reserve_physical: a closing runtime takes
\* what a set accounts for and what an executing body asks for itself.
RuntimeAdmits(x) ==
  phase = "Running" \/ (phase = "Closing" /\ (InSet(x) \/ body))

Admit(p) ==
  /\ p \in Producers /\ RuntimeAdmits(p)
  /\ Step(p, "leased", "admitted")
  /\ admitted' = admitted \cup {p}
  /\ UNCHANGED <<setVars, runtimeVars, recordVars, registry, body>>

Reserve(a) ==
  /\ a \in Accesses /\ RuntimeAdmits(a)
  /\ Cardinality(registry) < PhysicalLimit
  /\ Step(a, "leased", "prepared")
  /\ registry' = registry \cup {a}
  /\ UNCHANGED <<setVars, runtimeVars, recordVars, admitted, body>>

\* Otherwise the call returns its options and lets go of the lease.
RefuseControl(x) ==
  /\ ~RuntimeAdmits(x) \/ (x \in Accesses /\ Cardinality(registry) >= PhysicalLimit)
  /\ Step(x, "leased", "refused")
  /\ Leave(x)
  /\ UNCHANGED <<runtimeVars, recordVars, admitted, registry, body>>

\* admit_external under the external lock: the record is in the map before an
\* abandonment's cut or not at all.
Insert(p) ==
  /\ ~abandoned
  /\ Step(p, "admitted", "attaching")
  /\ record' = [record EXCEPT ![p] = "present"]
  /\ UNCHANGED <<setVars, runtimeVars, admitted, registry, body, deferred, claims, result>>

\* A capacity, a rank, the delivery ticket or the cut refuses: the admission
\* goes first, then the lease.
Reject(p) ==
  /\ Step(p, "admitted", IF InSet(p) THEN "rejected" ELSE "refused")
  /\ admitted' = admitted \ {p}
  /\ UNCHANGED <<setVars, runtimeVars, recordVars, registry, body>>

RejectLease(p) ==
  /\ Step(p, "rejected", "refused")
  /\ Leave(p)
  /\ UNCHANGED <<runtimeVars, recordVars, admitted, registry, body>>

Registration(p) == IF InSet(p) THEN "registering" ELSE "returned"

\* The record leaves its attachment; a status stored meanwhile settles it first.
EndAttachment(p) ==
  /\ Attaching(p)
  /\ deferred' = [deferred EXCEPT ![p] = None]
  /\ \/ /\ deferred[p] = None
        /\ at' = [at EXCEPT ![p] = Registration(p)]
        /\ UNCHANGED <<record, claims>>
     \/ /\ deferred[p] # None
        /\ at' = [at EXCEPT ![p] = "settling"]
        /\ Claim(p, deferred[p])
  /\ UNCHANGED <<setVars, runtimeVars, admitted, registry, body, result>>

\* Fault: a set cancelled before the registration still stores the hook.
RegisterBlindly(p) ==
  /\ Step(p, "registering", "registered")
  /\ hooks' = hooks \cup {p}
  /\ UNCHANGED <<open, cancelled, leases, handle, firing, recordVars, runtimeVars, admitted,
                 registry, body>>

\* WorkSetLease::register_producer: a set cancelled in the meantime has the hook
\* called at once.
Register(p) ==
  /\ \/ /\ ~cancelled
        /\ Step(p, "registering", "registered")
        /\ hooks' = hooks \cup {p}
        /\ UNCHANGED recordVars
     \/ /\ cancelled
        /\ Step(p, "registering",
                IF Claimable(p, "Cancelled") THEN "hooking" ELSE "registered")
        /\ Settle(p, "Cancelled")
        /\ UNCHANGED hooks
  /\ UNCHANGED <<open, cancelled, leases, handle, firing, runtimeVars, admitted, registry, body>>

\* The admitting thread has finished a settlement of its own.
SettledOwn(p) ==
  /\ record[p] = "done"
  /\ \/ Step(p, "settling", Registration(p))
     \/ Step(p, "hooking", "registered")
  /\ UNCHANGED <<setVars, runtimeVars, recordVars, admitted, registry, body>>

\* The registration's share of the lease goes; the call returns the producer.
Return(p) ==
  /\ Step(p, "registered", "returned")
  /\ IF record[p] \in {"released", "done"} THEN Leave(p) ELSE UNCHANGED setVars
  /\ UNCHANGED <<runtimeVars, recordVars, admitted, registry, body>>

-----------------------------------------------------------------------------
(* Physical accesses *)

\* activate_physical: the phase under the control lock, cancellation under the
\* set's; a refused access stays prepared.
Activate(a) ==
  /\ phase \in {"Running", "Closing"}
  /\ InSet(a) => ~cancelled
  /\ Step(a, "prepared", "active")
  /\ UNCHANGED <<setVars, runtimeVars, recordVars, admitted, registry, body>>

\* A lost ticket: the capsule keeps the resource and its registration for ever.
Orphan(a) ==
  /\ Step(a, "active", "orphaned")
  /\ UNCHANGED <<setVars, runtimeVars, recordVars, admitted, registry, body>>

\* into_retained, release and acknowledge_release end in PhysicalRetention::drop:
\* the lease, then the entry.
Retire(a) ==
  /\ Step(a, "prepared", "retiring") \/ Step(a, "active", "retiring")
  /\ Leave(a)
  /\ UNCHANGED <<runtimeVars, recordVars, admitted, registry, body>>

Unregister(a) ==
  /\ Step(a, "retiring", "released")
  /\ registry' = registry \ {a}
  /\ UNCHANGED <<setVars, runtimeVars, recordVars, admitted, body>>

-----------------------------------------------------------------------------
(* The set, the runtime and its owner *)

Cancellation ==
  /\ open' = FALSE /\ cancelled' = TRUE
  /\ hooks' = {} /\ firing' = firing \cup hooks
  /\ UNCHANGED <<leases, handle>>

\* WorkSetInner::cancel: the hooks are taken under the lock and called after it.
CancelSet ==
  /\ handle /\ ~cancelled
  /\ Cancellation
  /\ UNCHANGED <<runtimeVars, recordVars, admitted, registry, body, at>>

FireHook(p) ==
  /\ p \in firing
  /\ firing' = firing \ {p}
  /\ Settle(p, "Cancelled")
  /\ UNCHANGED <<open, cancelled, leases, hooks, handle, runtimeVars, admitted, registry, body, at>>

Seal ==
  /\ handle /\ open
  /\ open' = FALSE
  /\ UNCHANGED <<cancelled, leases, hooks, handle, firing, runtimeVars, recordVars, admitted,
                 registry, body, at>>

EndBody ==
  /\ body /\ body' = FALSE
  /\ UNCHANGED <<setVars, runtimeVars, recordVars, admitted, registry, at>>

\* begin_shutdown_locked seals every set before the control lock is let go.
Closing ==
  IF phase = "Running"
    THEN phase' = "Closing" /\ open' = (open /\ ~Alive)
    ELSE UNCHANGED <<phase, open>>

BeginShutdown ==
  /\ phase = "Running" /\ host \notin {"stopped", "abandoned"}
  /\ Closing
  /\ UNCHANGED <<abandoned, host, cut, cancelled, leases, hooks, handle, firing, recordVars,
                 admitted, registry, body, at>>

HostStep(from, to) == host = from /\ host' = to

\* try_shutdown looks at the runtime, at the scheduler, and at the runtime again.
TryShutdown ==
  /\ phase \in {"Running", "Closing"}
  /\ HostStep("idle", "scan")
  /\ Closing
  /\ UNCHANGED <<abandoned, cut, cancelled, leases, hooks, handle, firing, recordVars,
                 admitted, registry, body, at>>

HostRest == UNCHANGED <<setVars, recordVars, phase, abandoned, cut, admitted, registry, body, at>>

Scan == HostStep("scan", IF Quiescent THEN "scheduler" ELSE "idle") /\ HostRest

ScanScheduler == HostStep("scheduler", IF Charged = {} THEN "rescan" ELSE "idle") /\ HostRest

Rescan == HostStep("rescan", IF Quiescent THEN "join" ELSE "idle") /\ HostRest

Stop ==
  /\ HostStep("join", "stopped")
  /\ phase' = "Stopped"
  /\ UNCHANGED <<setVars, recordVars, abandoned, cut, admitted, registry, body, at>>

\* SWRuntime::abandon.
Abandon ==
  /\ phase \in {"Running", "Closing"}
  /\ HostStep("idle", "cutting")
  /\ phase' = "Abandoned"
  /\ UNCHANGED <<setVars, recordVars, abandoned, cut, admitted, registry, body, at>>

\* OwnedScheduler::abandon: the flag and the snapshot under the external lock.
Cut ==
  /\ HostStep("cutting", "settling")
  /\ abandoned' = TRUE /\ cut' = Records
  /\ UNCHANGED <<setVars, recordVars, phase, admitted, registry, body, at>>

SettleCut(p) ==
  /\ p \in cut
  /\ cut' = cut \ {p}
  /\ Settle(p, "Abandoned")
  /\ UNCHANGED <<setVars, phase, abandoned, host, admitted, registry, body, at>>

\* cancel_work_sets comes last, so that the producers keep the runtime's reason.
CancelSets ==
  /\ cut = {} /\ HostStep("settling", "abandoned")
  /\ IF Alive THEN Cancellation ELSE UNCHANGED setVars
  /\ UNCHANGED <<recordVars, phase, abandoned, cut, admitted, registry, body, at>>

-----------------------------------------------------------------------------
\* What the program may do.
Environment ==
  \/ \E x \in Calls \cup Permits : Gate(x)
  \/ \E d \in Permits : DropPermit(d)
  \/ \E x \in Calls : CallBare(x)
  \/ \E p \in Producers : Reject(p) \/ (\E v \in Values : Complete(p, v))
                          \/ CancelOrDrop(p, "Cancelled") \/ CancelOrDrop(p, "Abandoned")
  \/ \E a \in Accesses : Activate(a) \/ Orphan(a) \/ Retire(a)
  \/ DropHandle \/ CancelSet \/ Seal \/ EndBody \/ BeginShutdown \/ TryShutdown \/ Abandon

\* What a thread inside a call goes on to do.
CallStep(x) ==
  \/ AcquireWork(x) \/ AcquirePermit(x) \/ RefuseSet(x)
  \/ Admit(x) \/ Reserve(x) \/ RefuseControl(x)

ProducerStep(p) ==
  \/ Insert(p) \/ (abandoned /\ Reject(p)) \/ RejectLease(p) \/ EndAttachment(p)
  \/ Register(p) \/ SettledOwn(p) \/ Return(p)
  \/ Publish(p) \/ ReleaseLease(p) \/ ReleaseAdmission(p)
  \/ FireHook(p) \/ SettleCut(p)

HostProgress == Scan \/ ScanScheduler \/ Rescan \/ Stop \/ Cut \/ CancelSets

Next ==
  \/ Environment
  \/ \E x \in Calls \cup Permits : CallStep(x)
  \/ \E p \in Producers : ProducerStep(p)
  \/ \E a \in Accesses : Unregister(a)
  \/ HostProgress

Spec == Init /\ [][Next]_vars

\* A call that has begun runs to its end: no step of it waits for anything but
\* another one's short critical section.
FairSpec ==
  /\ Spec
  /\ WF_vars(HostProgress)
  /\ \A x \in Calls \cup Permits : WF_vars(CallStep(x))
  /\ \A p \in Producers : WF_vars(ProducerStep(p))
  /\ \A a \in Accesses : WF_vars(Unregister(a))

-----------------------------------------------------------------------------
(* Properties *)

\* Where a call or a permit stands, and what a producer may come to.
Places == {"idle", "gated", "refused", "live", "dropped", "leased", "admitted", "rejected",
           "attaching", "settling", "registering", "hooking", "registered", "returned",
           "prepared", "active", "orphaned", "retiring", "released"}

Results == Values \cup {"Cancelled", "Abandoned"}

\* The type invariant.
TypeOK ==
  /\ phase \in {"Running", "Closing", "Stopped", "Abandoned"} /\ abandoned \in BOOLEAN
  /\ host \in {"idle", "scan", "scheduler", "rescan", "join", "stopped", "cutting",
               "settling", "abandoned"}
  /\ cut \subseteq Producers /\ admitted \subseteq Producers /\ registry \subseteq Accesses
  /\ body \in BOOLEAN /\ open \in BOOLEAN /\ cancelled \in BOOLEAN /\ handle \in BOOLEAN
  /\ leases \subseteq Calls /\ hooks \subseteq Producers /\ firing \subseteq Producers
  /\ at \in [Calls \cup Permits -> Places]
  /\ record \in [Producers -> {"absent", "present", "claimed", "removed", "released", "done"}]
  /\ deferred \in [Producers -> Results \cup {None}]
  /\ claims \in [Producers -> SUBSET Results]
  /\ result \in [Producers -> Results \cup {None}]

\* Of a provider's completion, a cancellation, the drop of the producer, the
\* set's hook and an abandonment exactly one decides the result, and nobody else
\* was told that he did (claim_external, SWProducer::complete).
OneResult ==
  \A p \in Producers :
    /\ Cardinality(claims[p]) <= 1
    /\ result[p] # None => claims[p] = {result[p]}

\* A runtime that stopped left nothing behind: no result to come, no access to a
\* resource, no permit, and no call that has got past the point where it is refused
\* (try_shutdown).
StoppedIsEmpty ==
  phase = "Stopped" =>
    /\ \A p \in Producers : record[p] \in {"absent", "done"} /\ p \notin admitted
    /\ \A x \in Calls : x \notin leases \cup registry
    /\ \A x \in Calls \cup Permits :
         \/ at[x] \in {"idle", "gated", "refused", "dropped", "returned", "released"}
         \/ at[x] = "leased" /\ ~InSet(x)

\* A set that has drained stays drained: a child is counted before the permit it
\* came through can go (SWWorkSet::is_drained, wait_drained).
DrainedIsFinal == [][Drained => Drained']_vars

\* Whoever is admitted when his set is cancelled or the runtime abandoned is
\* settled in the end, by whichever path reaches him (settle_external,
\* cancel_work_sets).
CancelledSettle ==
  \A p \in Producers :
    (/\ record[p] # "absent"
     /\ phase = "Abandoned" \/ (cancelled /\ InSet(p))) ~> (record[p] = "done")
=============================================================================
