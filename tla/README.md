# Verification of SOLWorker

SOLWorker (`src/src/`, Rust) schedules owned jobs of three execution classes over a
work-stealing backend, and surrounds them with groups, reservations, owner routes,
external producers, host notification and an explicit, joining shutdown. Almost all of it
is code that runs on several threads at once, with small critical sections, counters that
must come back to zero, callbacks that run between locks, and objects that are recycled.
This directory models that code in TLA+, checks the models with TLC and proves theorems
about them with TLAPS.

Paths below are relative to `src/src/` of the repository unless they say otherwise.

## 1. The system

| Component | State | Operations | Hard behaviour | Correct when |
|---|---|---|---|---|
| Owned-job scheduler: `scheduler.rs`, `scheduler/ready.rs` | a record per job (stage, pending count, failed flag), per class a ready and a deferred queue, the runnable and handed-off counts; global record and edge counts | submit, attach prerequisites, activate, dispatch, claim and run (worker, helper, inline), cancel, settle, publish, finalize, close, abandon | every operation is several critical sections; settlement, cancellation, publication and attachment of one job race each other; the runnable window demotes and promotes | counters and queues exact, each body at most once, after its prerequisites; every charge returned once; no job stranded |
| Completion signals: `task/completion.rs` | one status, subscribers | publish, subscribe, detach, wait | publication races attachment and detachment | one status, every subscriber called or detached |
| Retained groups: `execution/group.rs`, members: `execution/group/members.rs` | pending, sealed, failed, publishing, generation; slots and the list of ready members | add, mark ready and unready, finish, seal, publish, help, wait helping, reset | three mutexes and a condition variable; helpers race workers | status true and final, no lost wakeup, helpers offered exactly what they can claim |
| Startup gate: `runtime/lifecycle.rs:20-143` | phase, count of ready workers, first error | worker setup, wait, open, abort, roll back | a worker or a launch fails while others wait at the gate | all workers run or none is left, and then there is an error |
| Runtime control: `runtime/lifecycle.rs` | phase, activity count, backend `Arc` | admit, acquire leases, begin shutdown, quiescence, registrations | leases own the backend; drop order matters | count exact, admitted work always gets its leases |
| Runtime: `runtime.rs` | backend, control, scheduler | build, `try_shutdown`, `shutdown`, abandon, drop | quiescence is decided from separate readings | joined only when drained, and joined at last |
| Backend adapter: `backend.rs`, `backend/micropool.rs` | a vendored work-stealing pool | spawn a portion, run a scope | a stopping pool drops its queue unrun | outside code, modelled by how it is used |
| Batch admission: `scheduler/bulk.rs`, `prerequisite_range.rs`, `scratch.rs` | prepared portions, a shared registration for a portion | prepare, submit portions, deliver, roll back | one delivery races the detachment of single members | as if each member were submitted alone |
| Resource demand: `scheduler/demand.rs` | demands, edges, versions, dirty queue | lease, propagate within a budget, service | an older aggregate overwrites a newer one | the served priority is the aggregate of the live demands |
| Capacity reservations: `scheduler/reservation.rs` | a ledger per runtime, pipelines, credit banks, byte leases | reserve, stage, grow, retain, drop, close | handles and leases die in any order; refunds climb a tree that dies around them | ledger exact, limits held, credits conserved |
| Work sets: `scheduler/work_set.rs`, `execution/work_set.rs` | root and child leases, producers, sealing | register, seal, cancel, drain | cancellation races registration | a cancelled set leaves nobody behind; drained means empty |
| Control storage: `scheduler/storage*.rs` | free lists of job controls and buffers | take, return, trim | a control is reused while an old weak reference may be upgraded | exclusive reuse |
| Submission surfaces: `scheduler/admission.rs`, `execution/*.rs` | options of one request | typed wrappers of submission | none of their own | as the scheduler |
| Scoped lanes: `execution/scope.rs` | none but a lease | borrowed joins inside the backend | the backend's fork-join | a lease held throughout |
| Execution context: `execution/context.rs` | a thread-local stack | enter, query | nesting | submissions judged by the right context |
| Owner routes: `owner.rs`, `owner/*.rs` | route, tickets, commitments, phase | submit, commit, claim on the owner's thread, clean up, close | cancellation races commitment; the owner thread leaves | each delivery runs or is cleaned up once, on the owner's thread |
| External producers: `external.rs`, `external/*.rs` | logical result, physical access | complete, cancel, drop, retire | completion races cancellation; physical end is separate | one logical result; physical access outlives it safely |
| Notification: `notification.rs` | route, binding and source cells, per-thread claim queues | create, watch, publish, run claim, arm, recheck, close | user code runs between locks; cells are recycled | no signal lost; quiescent means no call is left |
| Progress and wake: `progress.rs` | generation, enabled flag, condition variable | sample, notify, wait | lock-free gate and generation | no wakeup lost |
| Task plumbing: `task.rs`, `task/dependency.rs`, `task/retained.rs` | result cells | hand values of prerequisites to closures | relies on the order of jobs | values present when a body starts |
| Configuration, platform, cleanup, diagnostics | constants | validation, affinity, tracing | none | - |

How they interact. A submission asks `RuntimeControl` for an admission, takes charges,
joins its group, installs a record, subscribes to its prerequisites' signals and activates
the job. Activation puts it into the ready queue of its class, makes it visible to helpers
in the group's ready list and dispatches the class: a portion of the queue is taken, a
handoff lease acquired and the wrappers given to the backend. A worker, helper or
saturated submitter claims the job under an execution lease, runs it, and settles it: the
record goes, the signal is published (which calls the subscribers of other jobs), and
finalization gives back charges, tells the group and drops the admission. Shutdown reads
the counts of all this. Every transition ends by notifying the runtime's wake, which also
publishes the progress source of the notification domain.

## 2. Modules

| Module | What it models |
|---|---|
| `OwnedScheduler` | the scheduler with signals, ready queue and group membership, one action per critical section |
| `JobContract` | what a program may rely on: the life of a job, its status, its group's status, the cut |
| `SchedulerRefinement` | the mapping from the scheduler's state to the contract's |
| `RuntimeShutdown` | the readings of `try_shutdown` against submitters, dispatchers, workers, cancellers and callers |
| `RuntimeStartup` | the startup gate and the builder, and then the life of the runtime it built |
| `GroupWait` | helping waits on a group: generation, ready list and completion under three mutexes |
| `Reservations` | the ledger, pipelines, credit banks and byte leases |
| `HostWakeup` | the wake's generation wait, and notification routes with their claims |
| `ExternalWork` | external producers, physical accesses and the work set that counts them, against cancellation, shutdown and abandonment |
| `OwnerDelivery` | an owner, its transport and inbox, its pump and its closing |
| `Demand` | resource demand from leases through the graph and the mailbox into the queues, and to providers |
| `BatchPortion` | batch admission in portions, with the shared registration of a portion |
| `OwnedSchedulerProofs` (with the refinement), `RuntimeProofs` (shutdown, startup and the ledger), `WakeupProofs` (waiting threads and host wakeups), `ExternalWorkProofs`, `OwnerDeliveryProofs`, `DemandProofs`, `BatchPortionProofs`, `BatchRangeProofs` | theorems and proofs |
| `MCScheduler`, `MCShutdown`, `MCRuntimeStartup`, `MCGroupWait`, `MCReservations`, `MCHostWakeup`, `MCExternalWork`, `MCOwnerDelivery`, `MCDemand`, `MCBatchPortion` | the small instances the runs choose from |

The modules are separate because the code separates the components by locks of their own
and narrow calls: what a module leaves to another appears in it as one step of the
environment (a job that is claimed as soon as it is ready, a completion that is published
at any time). The composition that matters most for correctness, scheduler, signals and
groups, is one module.

Definitions that begin with the comment `Fault:` are not part of a specification. Each is
a plausible wrong version of the definition next to it, and shows that some property can
tell them apart; `PROJECT.json` (`mutants`) pairs them.

No module uses RECURSIVE operators: repetition and sums are folds of the community modules.

### OwnedScheduler

State follows the code: `stage`, `pending`, `failed` are fields of `Record`; `class` is
`ClassState` (ready and deferred queue, `runnable`, `handed`, the rebalance flag); `records`
and `edges` are `Accounting`; `edge` is the place of each dependency registration
(prerequisite by prerequisite: not yet made, stored in the signal, being delivered,
consumed); `group`, `index`, `status` are `GroupState`, the group's ready list and
`SignalState::status`. Four variables are program counters of calls under way: `sub` for
`submit_payload_accounted`, `exec` for the settlement of a job (`settle`, `finish_record`,
`finalize_record`), `calls` and `offers` for `dispatch_class_ready`, `suppressing` for
`suppress`.

An action is a critical section of one mutex, or a step between two. Merged where no other
thread can tell:
- the record's removal from the map, from its class and from the group's ready list and
  the return of its charges are `Finalize`: each touches only what the settled job alone
  still owns. The two atomic counters of `AccountingLease::drop` are likewise one.
- the part of `finish_record` that does not defer to an attaching submitter is folded into
  the step that detaches and publishes.
- a worker that loses its claim drops its `Handoff` in the same step (`LeaveWrapper`).
- a lease and what directly follows it under it (spawning the portion, entering the class)
  are one step. The one thing that can happen between them is abandonment, so `leased`
  says that a lease was taken before it.
- `Help` takes a candidate and claims it in one step. What lies between only matters to
  shutdown, and is split in `RuntimeShutdown`.

Not in it, and modelled elsewhere: batches and prerequisite ranges (`BatchPortion`), the
resource route of the queue (`Demand`), external records (`ExternalWork`), reservations in
place of plain charges (`Reservations`), delivery to owners (`OwnerDelivery`). Not modelled:
the reset of a group for a new round.

### RuntimeShutdown

It keeps what shutdown reads and what moves between the readings: `active`, `records`,
`handed`, the place of each job's admission, dispatcher lease (`portion`), wrapper or
caller's claim (`attempt`), and where `try_shutdown` stands (`host`, with the classes it
has yet to read). Dropping a lease is two steps, the backend `Arc` first and the count
second, in the order of `ExecutionLease::drop`. Queues and prerequisites are left out: an
accepted job may be dispatched or cancelled at any time, in a portion of its own. That
only adds behaviours.

### RuntimeStartup

`RuntimeStartup` EXTENDS `RuntimeShutdown` and puts its beginning in front of it: until
`builder` is `built` only the steps of the build are possible, and from then on those of
`RuntimeShutdown`. `gate`, `ready` and `error` are the `State` under the gate's mutex;
a worker or the builder that waits on the condition variable is `asleep`, and `woken` or
`waiting` again after a `notify_all`. The vendored pools are seen through what the builder
gets of them: a launch that succeeds or fails, the rollback and the join that `try_build_with`
makes when it fails, and the join of a pool that is dropped. An opened gate is never closed,
so everybody who waits at it is let through in the step that opens it. What `build` does
after the gate is assembly and takes no step.

### GroupWait

One action per step of `wait_helping`, per mutex it takes. The generation is a counter
that is only ever compared for equality with a sample, so the model keeps the set `fresh`
of waiters whose sample is still current. A member made ready, and the notification for
it, are two steps (`Activate`, `NotifyReady`), as are the publication of the signal and
its notification. A job is demoted at most once, to keep the state finite.

### Reservations

Each mutex of `reservation.rs` (the ledger, a pipeline's total, a credit bank) gives one
action per critical section, so a refund that climbs the tree of banks is a sequence of
steps (`RefundStep`), and `try_grow` is its claim (`Grow`) and its end (`FinishGrow`) with
the pipeline's total locked in between. A handle stands for its credit bank, and the first
handle of a pipeline for the pipeline. `Refs` is the strong count of the pipeline's `Arc`,
which decides `Weak::upgrade` in `SWByteLease::drop`. Of the four dimensions of a cost, the
three that count metadata go through the same code and are one here; bytes are apart,
because the hard ceiling and required work treat them differently. Refused calls change
nothing and are left out. When an upgrade fails it would fail for ever, and the release
that follows is in the same step.

### HostWakeup

`SWWake::notify` is four steps of a publisher (gate, generation, condition variable,
notification source) and the host's side is the sample, the inspection, the comparison and
the park, of which the last two hold the wake's mutex. With a route the host follows the
documented protocol (`pubdocs/notifications.md`): drain the wake primitive, `prepare_wait`,
inspect, `changed_since`, sleep. A claim of the route belongs to the thread that queued
it, and `claim` is its place in `run_claim`: queued, taken, called or failed, discarding
the signal, returning the cell. A thread drains its queue when its notification scope
ends. One route cell, recycled; one binding per source; binding cells are not recycled. A
host drops its bindings before it makes another route, and does not wait on the wake while
it has one. The wake primitive, the host's loop and its deadline are external and modelled
from the documented use. The counters are again `armed` and `sampled`: whether the value
the host holds is still current.

### ExternalWork

An external call passes, in this order, the control lock and the set's lock for its lease
(`gated`, `leased`), the control lock again for its admission or its registry entry
(`admitted`, `prepared`), the scheduler's external map (`attaching`), and the set once more
to leave its cancellation hook (`registering`). `at` is that place. Between any two places
the set may be cancelled or sealed and the runtime closed, drained, stopped or abandoned:
`host` is where `try_shutdown` or `abandon` stands. A producer's record is settled by
whoever wins `claim_external`, and then published, its lease, its charges and its admission
returned, in the order of the code (`Publish`, `ReleaseLease`, `ReleaseAdmission`). A set
that is cancelled takes its hooks under the lock and calls them afterwards (`firing`).
One work set; permits may be forked from each other to any depth (`Origin`). Left out: the
memory behind a physical capsule (only its registration and lease are kept), the reserved
capacity of a request, and owned jobs in a set, which take the same lease in the same way.

### OwnerDelivery

`status`, `cancelled` and `notified` are a delivery's `RecordState`, `records` and
`tclosed` the `TransportState`; `channel` is the bounded channel of notifications, `inbox`
what other threads have posted, and `lock` the sender that holds the inbox's mutex, because
it keeps it over several steps. The owner's thread is one program counter (`pc`, with
`next` and `after` for where a nested call returns to) that goes through a pump: a close
request, the transport's closure, receiving, then entry by entry selection, claim, run or
discard, settlement, fault. `mode` says how a pump selects: a live one looks at the phase
before each entry, a batch keeps what it found. `Close` is the drop of an owner from any
place where its thread is not inside it. Tickets go through commitment and the two steps of
`bind`, against the completion's publication. Left out: `with_ready` (a nested loop of the
same steps), the endpoint class of the runtime, work-set leases of a delivery
(`ExternalWork` has their protocol), progress snapshots.

### Demand

The graph (`nodes`, `dirty`, `selection`) changes only under its lock; `Service` visits at
most `Budget` dirty nodes and keeps the transfer lock while what changed is put into the
class's mailbox, entry by entry (`Transfer`), and gives it up with the new value of
`demand_pending`. Hooks are called after that, so two threads may call hooks of the same
node in either order (`CallHook`). A dispatcher fetches the mailbox and re-keys what is
queued (`Promoted`); a submitter writes the selection it read at registration afterwards
(`Attach`). `Retire` and `RemoveNode` are the end of a record, with the mailbox's entry
erased under the transfer lock. `binding` is a `ConsumerBinding`: bound to the set, to the
completion, ended by whichever comes first, the lease detached after that.
Abstractions: versions are counted per node, as they are only compared within one; one
class; a wrapper's slot is returned at any time after its job was claimed; the sequence
numbers that make keys unique are the ties themselves; a provider keeps the newest snapshot
it is given, which is what the version in it is for; no refusals and no abandonment.
`Populations` are the sets of nodes and consumers that exist together, and `Early` jobs are
there from the start: one run looks at several small scenarios.

### BatchPortion

One call of `submit_batch`. `batch` is its program counter with the input, the prepared
members, the accepted ones and the reason it stopped; `ledger` everything it charges;
`range` the shared registration of a portion of at least two with one prerequisite, with
its count of interested members (`active`) and whether it holds the signal's registration
(`handle`). Activation by a publishing thread is split where the code changes locks:
`deliver`, `take_members`, the class section, the tokens dropped one by one. The settlement
of different jobs is interleaved freely. Abstractions: the capacity pool (`Reservations`),
handing jobs to the backend and its limit (`OwnedScheduler`), resource ranks (`Demand`); a
token that is dropped and its effect on the range are one step, since the descriptor's lock
covers both; a batch of one operation is submitted like a single job and is not here.

## 3. Runs

| Run | States | What it asks | Bounds |
|---|---|---|---|
| `Window` | 811k | counters, queues, order and stranded work under constant pressure on the window | 3 jobs of one class, runnable and handoff limit 1, one cancellable, one helpable and inline, one waiting for a group |
| `Groups` | 199k | order of prerequisites, group status, settlement, publication of sealed groups | 3 jobs: two in a group, the third behind one of them and behind the group; 2 edges |
| `Abandon` | 189k | charges, edges, the contract and settlement when the runtime is closed or abandoned at any point | 2 jobs of two classes, the second submitted inside the first and behind its group |
| `Shutdown` | 117k | the build, its failures, and of what it built the counts, leases and ownership, and that shutdown finishes | three workers in two pools; a job, its child in another class, a caller |
| `CallerShutdown` | - | the panic of `runtime.rs:657`, which can be reached (section 6) | as `Shutdown` |
| `GroupWait` | 151k | lost wakeups, completion, return of every waiter | two members, one eligible; two waiters |
| `Capacity` | 1.5M | ledger, limits, credits | three handles, two byte leases, batches of two; limits of one or two units, so that every limit is met |
| `HostWakeup` | 3.9M | lost wakeups and signals, quiescence | one thread that makes progress, one that completes a task; the cell is used twice; signals may fail |
| `External` | 430k | one result, drained sets, an empty stopped runtime, settlement after cancellation | a root producer, an access through a permit forked from a permit, an access without a set; registry of one |
| `Owner` | 767k | cancellation, faults, messages and callbacks, release of the owner | two deliveries that may each be registered in two ways, in two phases; room for two |
| `Demand` | 922k | propagation, the mailbox, the window's order, providers, ended consumers | two threads, one node per service, window and handoff of 1; four populations of up to three nodes and one consumer |
| `Batch` | 1.3M | every account, the shared registration, forgotten members | 3 operations in portions of at most 2, any subset of two prerequisites, 2 records, 3 edges, one runnable |

Why the bounds are enough to be interesting: the limits are the smallest that a job, a
batch or a byte lease can meet, so every queue overflows, every limit refuses and every
window demotes; two actors of each kind are enough for a race of two; the topologies give
each run the relation its question is about (a join, a group, a child, a permit of a
permit). In `Batch` the third operation finds the record limit, a portion that is only
partly accepted, and a second portion; a set of two prerequisites goes without a range, a
set of one with it. The bounds are `RecordLimit`, `EdgeLimit`, `RunnableLimit`/`Runnable`,
`HandoffLimit`, `Quantum` (scheduler, batches and demand), `N` (the length of a batch),
`Budget` (nodes per service), `Target`, `Allowance`, `PipelineLimit`, `Ceiling`, `Batches`,
`Costs` (reservations), `PermitLimit`, `PhysicalLimit` (external work), `Capacity` (a
transport): all of them constants of the code, too. Bounds of the model alone are `Changes`
and `MaxRoutes` (how often a source changes and a cell is used) and `MaxCommands` (how
often consumers change their mind). Identifiers are model values, so a job is submitted
once and a handle used once. `Capacity` uses the symmetry of handles and of leases and
`Batch` that of the prerequisites; both check invariants only.

`CHECK_DEADLOCK FALSE` is set where a program may come to rest: all its jobs are settled,
its handles dropped or its runtime stopped. `HostWakeup` has no rest and is checked for
deadlock.

### Properties, and what would break them

*Scheduler.* `ClassesExact` relates `runnable` and `handed_off` to the stages of jobs and
to live wrappers, with the one overshoot the documentation of `SWOwnedLimits` allows
(`CountersExact`), and record, queues and group list to each other (`PlacesAgree`).
`NoStrandedWork`: a deferred job waits behind a full window, and a ready job always has
somebody under way who will dispatch its class. `QueueOrder`: neither promotion nor
demotion reorders. `RunsAfterPrerequisites`: attachment against publication.
`NothingLeaks`: each exit path returns its charges once (`ChargesExact`) and no dependency
registration outlives its job (`EdgesReleased`). `GroupTruth`: a group's status comes after
all its members, and is right. `ClosedStaysEmpty`: what the readings of shutdown rest on.
`ImplementsContract`: the refinement. `ReadyJobSettles`, `AbandonSettles`,
`SealedGroupsPublish`: liveness.

*Startup and shutdown.* `BuildEndsWhole`: whichever setup or launch fails, and whenever, the
build ends with all workers running or with none left and an error. `ReadingsSuffice`: after
the readings of `try_shutdown` only a caller can own the backend (`OnlyCallersOwn`), and
the join finds no job and no wrapper (`StoppedIsDrained`). `SlotsGetLeases`: who holds a
slot is served in a closing runtime. `ShutdownFinishes`.
*Groups.* `NoLostWakeup`, `CompleteIsSettled`, `WaitersReturn`. *Reservations.*
`LedgerBounded` (the ledger is the sum of what everybody holds, and no limit is passed),
`CreditsConserved`. *Host.* `NoLostWake`, `NoLostSignal`, `QuiescenceHolds`.

*External work.* `OneResult`: five parties race to decide a result and one does.
`StoppedIsEmpty`: the two readings of `is_quiescent` around that of the scheduler, each
under a different lock, leave no gap for an admission under way. `DrainedIsFinal`: a child
is counted before its permit can go. `CancelledSettle`: a cancellation that meets an
admission halfway still reaches it.

*Owner.* `CancelHolds`: an answered cancellation is never followed by the callback.
`NoneStranded`: the message that fetches a callback exists exactly once, and the bounded
channel cannot be full. `FaultedRunsNothing`: a fault reaches the senders before the next
entry. `ReleasedIsEmpty`, `ClosingDrains`: an owner gives up its registration with nothing
left behind, and does give it up.

*Demand.* `CleanIsCurrent`: what nobody has marked dirty is exactly the aggregate of what
it depends on. `NewestArrives`: of four places where a selection may be, the newest is on
its way to the record and each stage is announced. `WindowInOrder`: demand reaches across
the window. `ProvidersCatchUp`: hooks in any order leave the provider with the truth, and
quiescence leaves no hook. `EndedConsumersGone`: whatever ends a consumer, while it is being
bound or later.

*Batches.* `BooksExact`: five accounts and the window through partial acceptance and
recovery, and input, prepared and accepted are always the batch in its order. `RangeExact`:
the registration is counted by exactly those who may still drop it. `NoneForgotten`: each
waiting member has exactly the deliveries coming that it waits for.

Each is stated in words where it is defined. There is no run for `TypeOK` alone: the type
invariants are proved wherever there is a proof module (section 4), that of `Reservations`
is part of `LedgerBounded`.

### Fairness

- `OwnedScheduler!FairSpec`: `WF(System)`, where `System` is every step of a call that is
  under way inside the library and every step of a worker with work in its queue. It says
  that some thread inside the library goes on while one can. The program owes nothing: it
  need not submit, seal, help, cancel or abandon.
- `RuntimeShutdown!FairSpec`: the same, and the host keeps calling `try_shutdown` while the
  runtime is closing, as the loop of `SWRuntime::shutdown` does at least once a second.
- `RuntimeStartup!LifeFairSpec`: the builder goes on, every worker goes on (its setup hook
  returns, or fails), and what was built is scheduled as in `RuntimeShutdown!FairSpec`.
- `GroupWait!GroupFairSpec`: weak fairness of every waiter, whose steps are held up only by the
  short section of another one's parking; strong fairness of the threads that owe the group
  a step, since they may find its mutex taken repeatedly, but not for ever.
- `ExternalWork!FairSpec`: weak fairness of each call that has begun, of the settlement of
  each producer, of each release and of the host's call: none of these steps waits for
  anything but a short critical section, which is one action. Providers owe nothing: they
  may never complete.
- `OwnerDelivery!FairSpec`: the host keeps pumping, with a budget for an entry now and then,
  as a pump is documented to be called in the host's loop. `OwnerStep` and `Select` are
  strongly fair because senders may take the inbox's mutex again and again; the abandoning
  thread and every other call under way are weakly fair.
- `Reservations`, `HostWakeup`, `Demand` and `BatchPortion` are checked for safety only.
  Their invariants of the kind "nothing is lost" say that the notification, selection or
  delivery is there or still to come from a thread that is on its way to it.

## 4. Theorems

`RuntimeProofs`, first part (`RuntimeShutdown`, any finite sets of jobs and callers, any
classes, any job tree):

- `TypeCorrect`, `ActivityCounted` (`ActiveExact`), `JoinedIsDrained` (`StoppedIsDrained`),
  `SlotsAreServed` (`SlotsGetLeases`), `UnwrapMeetsCallers` (`OnlyCallersOwn`),
  `ReadingsAreEnough` (`ReadingsSuffice`).
- `QuietMeansUnowned`: without callers, the panic of `runtime.rs:657` is unreachable. With
  `CallerShutdown` this says exactly what the panic depends on.

The assumption is `ShutdownAssumption`: the sets are finite and disjoint, the functions
have the right types. The argument: `IInv` is `TypeOK`, `ActiveExact`, `HandedExact` (the
handoff counts equal the taken slots), `HandoffOrder` (a wrapper exists exactly from the
spawning of its portion on, and no portion holds a job that was not ready) and `Readings`, which says for
each place of `try_shutdown` what the readings so far still guarantee: after the activity
count was zero nothing is admitted, so no record and no slot can appear behind the
reader's back; after the records were zero no job can be taken; after the classes read so
far their slots stay empty. `StoppedIsDrained` alone is not inductive, because the moment
of stopping sees none of this. The count lemmas are case splits over the actions with
`FS_AddElement` and `FS_RemoveElement`.

`WakeupProofs`, second part (`GroupWait`, any jobs, eligible members and waiters):
`GroupTypeCorrect`, `NobodySleepsThrough` (`NoLostWakeup`), `CompletionSettled`
(`CompleteIsSettled`) and `CompletionStays` (`CompletionIsFinal`), under `GroupAssumption`.
`NoLostWakeup` speaks of threads that park, but what makes it true begins earlier:
`NothingMissed` says from the moment a thread has found nothing to help, as long as its sampled generation is current,
that every ready member is still to be announced. Any section that changes the group ends
this for every thread (`ChangedDisturbs`), because it makes samples stale and wakes the
parked, and cannot run while one is between comparison and park. `CompletionOrder` orders
the stages of completion: no members, then the decision under the mutex, then the status,
then its announcement.

`RuntimeProofs`, second part (`RuntimeStartup`, any number of workers in any pools):
`BuildTypeCorrect`, `StartsWhole` (`AllOrNone`), `ErrorIsThere` (`RefusalHasError`, which is
what `take_error` expects), `LifeImplements` (every life of a runtime, built or not, is a
behaviour of `RuntimeShutdown!Spec`, by the identity mapping), and from that and
`ReadingsAreEnough` `BuiltRuntimesDrain`. The assumptions are `StartupAssumption` (finitely
many workers, numbered pool by pool) and `ShutdownAssumption`. The invariant `BuildInv` adds
to the types that the count is that of the workers at the gate while it is closed to all
(`CountExact`), that only the builder opens it, and for everybody (`OpenForAll`), and that
the error that closed it is still there when it is fetched (`ErrorKept`).

`WakeupProofs`, first part (`HostWakeup`, any finite set of publishers of any sources, any number of
changes and of uses of the cell, signals that fail or not; `WakeupAssumption`):
`TypeCorrect`, `WakesArrive` (`NoLostWake`), `SignalsArrive` (`NoLostSignal`),
`QuietMeansQuiescent` (`QuiescenceHolds`). `WakeOrder` says what a sampled generation stands
for before anybody parks: while nobody has counted, an unseen change is still to be counted,
and who finds it counted after comparing is still to be woken. `ArmOrder` says the same of
an armed epoch: a change that was inspected away is still to be marked, and a mark since
then has called the signal or will. This needs the rest of the invariant: that a mark finds
the route (`Links`, `RouteLife`), that a coalesced mark can rely on the queued claim
(`Counts`, the claims as the cardinality of the threads that hold one), and that completions
are announced once (`CompletesOnce`, `PublisherOrder`).

`ExternalWorkProofs` (`ExternalWork`, any producers, accesses and permits, `ExternalAssumption`):
`TypeCorrect`, `ResultDecidedOnce` (`OneResult`), `StoppedLeavesNothing` (`StoppedIsEmpty`),
`DrainedStays` (`DrainedIsFinal`). The invariant orders the stages of a record (`RecordOrder`),
says what has been decided and published at each (`Decided`), who holds a lease or an entry
(`Holders`), that who asks a set holds what it asks through (`GatedReachable`), and what the
first reading of `is_quiescent` has established for good (`Quiet`).

`OwnerDeliveryProofs` (`OwnerDelivery`, any deliveries, kinds, phases and capacity,
`OwnerAssumption`): `TypeCorrect`, `CancellationHolds` (`CancelHolds`), `FaultStopsCallbacks`
(`FaultedRunsNothing`). The invariant is about what the owner's thread has in hand (`Entry`),
that no claim is undone (`RanWasClaimed`) and that a fault cancels everything before the
thread goes on (`FaultCancels`). `NothingIsStranded` (`NoneStranded`) and
`ReleaseLeavesNothing` (`ReleasedIsEmpty`) rest on a second invariant, `Routing`: where the
one message of a record is (`Mail`), that the transport's records are those still to be
claimed and the one in hand, each with its callback where the message will look for it
(`Standing`), and for the release, that whoever sweeps a closed owner finds every message
already sent (`Sweeping`, `Closure`) and that a subscription is kept only with a record or a
callback (`Kept`). The channel is then no longer than the records are many, which is its
capacity. `ReleasedIsEmpty` needs the detour over messages: `close` gives up the
registration when its list is empty, without looking at the records.

`OwnedSchedulerProofs` (`OwnedScheduler`, any jobs, classes, groups, members,
prerequisites and limits, `SchedulerAssumption`): `TypeCorrect`, `AgreePlaces`
(`PlacesAgree`), `RunAfterPrerequisites` (`RunsAfterPrerequisites`), `ReleaseEdges`
(`EdgesReleased`), `NothingIsLeaked` (`NothingLeaks`), `TruthOfGroups` (`GroupTruth`),
`StayClosed` (`ClosedStaysEmpty`), `ClassesAreExact` (`ClassesExact`), `NoWorkStranded`
(`NoStrandedWork`), `OrderIsKept` (`QueueOrder`). The invariant comes in layers, each of
which rests on the ones before it:

- `Footing`. `Places`: the class queues and the group's ready list are exactly the jobs of
  the stages they stand for, each once (`Lists`); needed because promotion and demotion
  change many records at a time, and are known only through the queue. `Lives`: of one job,
  what its submission, its record, its settlement and its signal can be together; needed
  because each of them is moved by a different thread.
- `Links`. `Link`: where a registration can be while its job and its prerequisite are where
  they are (stored only in an unpublished signal, fired only by a published one). `Debt`:
  `pending` is the number of registrations not yet counted off, and `failed` has a failed
  prerequisite to blame. `Met`: who has no debt any more and was activated has settled
  prerequisites. `RunsAfterPrerequisites` alone says nothing of waiting jobs, so it cannot
  survive the step that activates one; `Debt` is what that step needs.
- `Companies`: the pending count of a group is the number of members between admission and
  leaving, its failed flag has a member that left without success, and publication begins
  only when the group is sealed and empty. `GroupTruth` speaks of the published status only.
- `Ledger`: `records` and `edges` are the cardinalities of what the submissions and records
  hold that have borrowed and not yet returned.
- `Tally`, `Limits` and `CutOff`: `runnable` counts the Ready and Handed jobs, nothing is
  deferred while there is room, and the limit is passed only by the jobs of submitters that
  will run them while the runtime serves. A class section is summed up by `Turned`: the
  limit excess stays with whoever had it before, except for those the section took out or
  brought in, and no two jobs that were queued before are in a new order. Every action is
  shown to be such a turn of one class (`ClaimTurns`, `SuppressTurns`, `ActivateTurns`,
  `DispatchTurns`) or to leave the queues alone (`Quiet`); `QueueOrder` is read off the turn.
- `Hands`: `handed_off` is the number of live wrappers, every offered wrapper is in exactly
  one offer of its class, and a job that has never been handed out has no wrapper, without
  which a second handout could count one wrapper twice.
- `Owed`: a class with ready jobs has a `dispatch_class` in its loop, an offer, or a job
  that is run, settled, wrapped or about to be run by its submitter. The hard step is the
  turn that hands nothing out: it ends a call, and only because the credits are then
  exhausted, so `Hands` yields a wrapper whose end dispatches again. `DispatchOwed` is not
  inductive, because a submitter that is about to claim a job no longer in the window owes
  nothing; `Engaged` asks that the job is still Ready.
- `Reasons`: what a suppression under way goes back to, an abandonment or a failed
  prerequisite of a job that wants success, which is what the contract asks of the step
  that settles the job with it.

`OwnedSchedulerProofs` ends with `Implements`, that every behaviour of the scheduler is one of
`JobContract` under the mapping of `SchedulerRefinement`. Each step is a step of the
contract or a stutter; the layers above are invariants and supply what a step's guard in
the contract asks (that prerequisites have settled when a job starts, that a group's
members have left when it publishes).

`RuntimeProofs`, third part (`Reservations`, any handles, leases, costs, batches and limits):
`Invariance`, `LedgerStaysExact` (`LedgerBounded`), `CreditsStayConserved`
(`CreditsConserved`). `ReservationAssumption` asks that handles and leases are finitely many
and disjoint and that the limits are ones `SWLimits::new` accepts. Sums over
sets are folds, and the library's induction theorems take operators, which the provers
cannot instantiate; this part first proves what it needs of sums (the sum without an
element, with one more, with one changed, over two disjoint sets) from least
counterexamples, which a well-founded relation has as a matter of set theory. The ledger's
clauses are then one lemma for each kind of change. Beyond the two properties the invariant
says what keeps them true: `Rooted`, that handles form trees, that a refund stays on the
branch it came from, and that a pipeline is charged while one of its handles keeps it;
`Leased`, the same of byte leases, whose upgrade succeeds only in a pipeline that is charged.
`CreditsConserved` has to say that the credits never exceed the charge even when the first
handle has gone, since it is this that keeps `retain` from taking more than there is.

`DemandProofs` (`Demand`, any acyclic graph, leases, ranks, threads, budget, window and
handoff limit, `DemandAssumption`): `Invariance`, `CleanNodesAreCurrent` (`CleanIsCurrent`),
`NewestSelectionArrives` (`NewestArrives`), `WindowStaysInOrder` (`WindowInOrder`),
`ProvidersKnow` (`ProvidersCatchUp`), `EndedConsumersLeave` (`EndedConsumersGone`).
`DemandAssumption` says that ids are numbers and prerequisites have smaller ones, which is
how the code hands them out, and that no job of `Early`, those the initial state has settled
already, is a prerequisite of another. The invariant has four parts and the consumers':

- `GraphOK`: `CleanIsCurrent` with what is registered when (`Placed`). A round of visits
  (`Serviced`) is a fold over the budget; `Sound` is what every visit keeps, and says of a
  node visited that its change is on its way to the mailbox or to the hooks (`Progressed`).
  The order of visits plays no part in it: a node may be visited more than once.
- `FlowOK`: where selections are. No copy of a selection anywhere is newer than the node's,
  and one that is as new is the same but for the tie (`Traced`); the newest is somewhere
  (`Newest`); which places may hold one at which stage of the record (`Stages`); and no two
  nodes ever have the same tie (`Ties`), whatever was promoted or refreshed. `Flags` says
  that each stage announces what it holds.
- `ClassOK`: each queue holds exactly the jobs of the state it stands for, by the record's
  own selection, in order across the window. It is a predicate on the class's state as one
  value, so that promotion, refilling and handing out, which are folds, are shown to keep it
  step by step. A queue has a head (`PeekIsHead`) because ties are unique: this is why `Ties`
  has to range over selections still on their way.
- `HooksOK`: what a provider was told, and what is in its hooks, never overtakes the graph
  (`Informed`); the announcement counter is the number of announcements not taken back
  (`Counted`, as the cardinality of a set of them); and `Quiet` says of each place in the
  readings of `quiescent` what it has established for good.
- `Held`, the consumers: an ended binding's lease is gone or about to be detached by the
  party that ended it.

Each action is then summed up once by what it does to these parts (`LeaseStep`, `ClassStep`,
or nothing), and one lemma a part carries it over.

`BatchPortionProofs` (`BatchPortion`, any number of operations, any limits, any finite set of
completions, `Sizes`): `TypeCorrect` and `ExactBooks` (`BooksExact`). `Sizes` says that a
batch has at least two operations (one alone takes another route), that the portion and the
limits are positive, and that the submitting thread is not a completion. The invariant is
`BookInv`:

- `Ordered`: accepted, prepared and remaining operations are consecutive stretches of the
  input, and the portion in hand is what was accepted last. `Phased` and `Ranged` say what
  the submitter has in hand at each place of `submit_batch`.
- `Staged`: where a job is in the batch and in its settlement determines the marks of its
  record. It is what makes the accounts agree: a place is held exactly while a member is
  being attached, whether or not it was suppressed meanwhile, and a result held back for the
  publication keeps its record alive. `JobFits` states it of one record at one spot, so that
  an action is judged by the records it changes (`Plain` steps leave every job at its spot;
  the six others move jobs between spots).
- `ClassOK`: the counts of the class and its backlog are those of the records. Like
  `Demand`'s it is a predicate on the class state as one value: `Activated`, `Promoted` and
  `Published` keep it one by one, and the two folds, over the members a delivery reaches and
  over the portion, are followed through a table of the values they take (`TableOfSteps`).
- `Ledgered`: the charges, as cardinalities of the jobs prepared and alive.

`BatchRangeProofs` (the shared ranges and the waiting members of `BatchPortion`, under the
same assumption): `RangesKept` and `ExactRanges` (`RangeExact`), `DeliveriesKept` and
`NobodyForgotten` (`NoneForgotten`), and `BatchStartsSettled`. On top of `BookInv`, the
invariant is `RangeInv`, in four layers:

- `RangeShape`: ranges share no job, the one of the portion in hand covers exactly the
  portion and is filed under its first member, and it is being installed exactly as long as
  the submitter does so. Without it `RangeOf` could not tell whose count a token lowers.
- `Registered`: nobody is registered, or delivered, before its portion is at that point
  (`Late`), and a range is delivered by one thread. This is what makes the steps after
  `deliver` exclusive although every completion has a thread of its own.
- `Tokened`: a token is held by one of the record, the settlement that took it, the submitter
  that has still to give it out and the thread that delivered. Three threads may be about to
  drop the same member's token; that no two do is read off the stage of the record
  (`JobToken`), one action at a time.
- `RangeCounted`: the count is the cardinality of those holders, and a registration left in
  the signal's list has somebody to take it out. `RangeExact` says the last two of ranges
  only; neither is inductive without the first three.

`Busy`, that the submitter runs a delivery only where `submit_batch` waits for it, is kept
with it.

`NoneForgotten` says where the deliveries are that a waiting member counts on; it follows
from a third invariant, `ForgetInv`, on top of both:

- `Once`, `Interested`, `Underway`, for members of a range: the range is called once, from
  the list or by one thread; a member that still waits has its token, or is to get it, so
  that nobody gives up the registration it relies on; and the delivery is with the
  submitter, in a list, between the call and the snapshot, or in the snapshot of a thread
  that has not activated yet. `ReachedBefore` is what ties them together: with one
  prerequisite, a member that waits after a step waited for the same delivery before it.
- `Awaited`, `Unlisted`, for members alone: what the record still counts is the number of
  prerequisites to be subscribed, of calls in the lists and of threads on their way to it.
  Each action moves one unit between the three sets, or takes one of it and of the record.
- `Decided`: the last delivery leaves its thread about to make the member ready, or the
  member doomed; a publication that finds nothing pending decides at once.
- `Backlogged`: room appears before a backlog only in steps that fill it, or with a dispatch
  still to come; `DispatchingKept` says that nobody loses the duty to dispatch.
- `SharedOne`, `PendingIn`, `Handles`, `Signalled`: ranges are of one prerequisite, counts
  are within it, handles belong to single members, and a call is in the list that the state
  of its signal says.

`BatchStartsSettled` is the other half of that promise: not only is nobody forgotten, nobody
is let through early. `StartsSettled` says that a member is deferred, ready or running only
when every prerequisite is over and, under `successOnly`, has succeeded. A start is decided
in three places (`PublishPortion`, `ActivateReady` and `ActivateRange`), from the record's
own `pending` and `failed`, never from the signals; that these two fields stand for the
signals is what has to be proved. `EntersAs` reduces every step to those three places.
`Heard` says that how each prerequisite ended is in the record of a member that waits, or
still due, in a list, or carried by a thread on its way to it: with `Awaited`, a member that
counts nothing more has taken in everything, a failure included. `Told` says that a thread
on its way to a range carries the outcome of the one prerequisite there is. `StartsSettled`
is proved only: TLC has agreed with the three of them on the bounds of the run `Batch`, but
no run of the project lists them.

## 5. Only model-checked, and not modelled

Only model-checked: all liveness, which under fairness is beyond the proof system. What
recursion computes is within reach only where a step-by-step invariant of a fold says it, as
in `DemandProofs` and `BatchPortionProofs`, or where it is a sum of the ledger's, in
`RuntimeProofs`.

Not modelled: the components listed with `not_modelled` in `PROJECT.json` and, within the
modelled ones, what section 2 names. The main ones: the free lists of job
controls and buffers, the slots of a group's membership directory, `with_ready` of an owner,
the memory of physical capsules, and the vendored pool (modelled from its use). Memory
ordering is taken as sequentially consistent: the code uses `SeqCst` for the wake's pair and
mutexes elsewhere. Numeric exhaustion of the 64-bit generations and epochs, which panics or
faults a route, is left out.

## 6. Finding

`SWRuntime::try_shutdown` panics with "quiescent runtime still has a backend execution
owner" if `Arc::try_unwrap` fails after its readings. A thread outside the pool that is
about to execute a job itself (helping a group, or running its own submission on a
saturated class) picks the job first and asks for a lease later. In between it is counted
nowhere. If the job is settled elsewhere meanwhile, all three readings pass, and then
`acquire_owned` still hands the thread the backend's `Arc`, because the phase is `Closing`.
`CallerShutdown` shows the interleaving; `UnwrapMeetsCallers` shows that such a thread is
the only possible owner.

## 7. Plan

Done: `OwnedScheduler` with its contract, `RuntimeShutdown`, `RuntimeStartup`, `GroupWait`,
`Reservations`, `HostWakeup`, `ExternalWork`, `OwnerDelivery`, `Demand`, `BatchPortion`; the
proofs of section 4.

Next, in this order:

1. `JobStorage` (`scheduler/storage*.rs`) and the membership directory: recycling of cells
   while weak references of their earlier use are upgraded.
2. `with_ready` of an owner, as a second loop of `OwnerDelivery`.

Then the theorems about the new modules.
