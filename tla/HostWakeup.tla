----------------------------- MODULE HostWakeup -----------------------------
(***************************************************************************)
(* How a host learns of progress without polling: the generation wait of   *)
(* SWWake (src/progress.rs), and notification routes that call a host      *)
(* signal (src/notification.rs).  Publishers change a source's state and   *)
(* then announce it; one host waits on the wake's condition variable, the  *)
(* other follows the arm, inspect and park protocol of a route around a    *)
(* wake primitive of its own that keeps a signal until it is drained.      *)
(*                                                                         *)
(* One route cell, which is recycled, and at most one binding per source.  *)
(* The recycling of binding cells is left out.  Counters that are compared *)
(* for equality only (the wake's generation, the route's epoch) appear as  *)
(* whether the sampled value is still the current one.                     *)
(***************************************************************************)
EXTENDS Integers, FiniteSets

CONSTANTS
  Publishers,   \* threads that publish
  SourceOf,     \* the source a publisher changes
  Changes,      \* how many changes "progress" sees
  MaxRoutes,    \* how many routes are made of the one cell
  SignalFails   \* whether the host's signal may fail or panic

Sources == {"progress", "completion"}

ASSUME WakeupAssumption ==
  /\ IsFiniteSet(Publishers)
  /\ SourceOf \in [Publishers -> Sources]
  /\ "host" \notin Publishers
  /\ Changes \in Nat /\ MaxRoutes \in Nat
  /\ SignalFails \in BOOLEAN

VARIABLES
  version,   \* the authoritative state of each source
  publisher, \* where a publisher stands
  enabled,   \* SWWake::enabled
  sampled,   \* the generation the waiting host sampled is the current one
  waiter,    \* where the host stands in a wait on the wake
  terminal,  \* sources whose one-shot publication is over
  watched,   \* sources with SourceInner::ever_watched
  link,      \* the route generation linked to a source, or 0
  route,     \* RouteState
  claim,     \* where a thread's claim of the route stands
  retired,   \* the generation of the claim a thread retired
  token,     \* the host's wake primitive
  host,      \* where the host stands with its route
  armed,     \* the epoch of its stamp is the current one
  unread,    \* sources it has yet to inspect
  seen,      \* what it has inspected of each source
  held       \* sources it holds a binding of

vars == <<version, publisher, enabled, sampled, waiter, terminal, watched,
          link, route, claim, retired, token, host, armed, unread, seen, held>>

wakeVars == <<enabled, sampled, waiter>>
sourceVars == <<terminal, watched, link>>
routeVars == <<route, armed>>
claimVars == <<claim, retired>>
hostVars == <<host, unread, seen, held>>

-----------------------------------------------------------------------------
(* Vocabulary *)

Threads == Publishers \cup {"host"}

Limit(s) == IF s = "progress" THEN Changes ELSE 1

\* A thread between wait_since's comparison and its park holds the wake's mutex.
WakeUnlocked == waiter # "parking"

Healthy == ~route.closed /\ ~route.fault

\* Fault: a pending route is queued again.
MarkTwice(t, g) ==
  IF route.generation = g /\ Healthy
  THEN /\ armed' = FALSE
       /\ route' = [route EXCEPT !.pending = TRUE, !.queued = TRUE,
                      !.claims = @ + 1]
       /\ claim' = [claim EXCEPT ![t] = "queued"]
  ELSE claim' = [claim EXCEPT ![t] = "none"] /\ UNCHANGED routeVars

\* RouteCell::mark_changed: every change counts, one signal call covers those
\* made since the route was armed, and one queued claim those not yet called.
Mark(t, g) ==
  IF route.generation = g /\ Healthy
  THEN /\ armed' = FALSE
       /\ route' = [route EXCEPT !.pending = TRUE,
                      !.queued = @ \/ ~route.pending,
                      !.claims = IF route.pending \/ route.queued THEN @ ELSE @ + 1]
       /\ claim' = [claim EXCEPT ![t] =
                      IF route.pending \/ route.queued THEN "none" ELSE "queued"]
  ELSE claim' = [claim EXCEPT ![t] = "none"] /\ UNCHANGED routeVars

Init ==
  /\ version = [s \in Sources |-> 0] /\ seen = [s \in Sources |-> 0]
  /\ publisher = [p \in Publishers |-> "idle"]
  /\ enabled = FALSE /\ sampled = FALSE /\ waiter = "idle"
  /\ terminal = {} /\ watched = {} /\ link = [s \in Sources |-> 0]
  /\ route = [generation |-> 0, occupied |-> FALSE, alive |-> FALSE,
              closed |-> TRUE, pending |-> FALSE, queued |-> FALSE, claims |-> 0,
              fault |-> FALSE, signal |-> FALSE]
  /\ claim = [t \in Threads |-> "none"] /\ retired = [t \in Threads |-> 0]
  /\ token = FALSE /\ host = "absent" /\ armed = FALSE /\ unread = {} /\ held = {}

-----------------------------------------------------------------------------
(* Publishers *)

Advance(p, from, to) ==
  publisher[p] = from /\ publisher' = [publisher EXCEPT ![p] = to]

\* A completion announces itself; other state is announced by SWWake::notify.
Change(p) ==
  LET s == SourceOf[p]
  IN  /\ Advance(p, "idle", IF s = "completion" THEN "mark" ELSE "notify")
      /\ version[s] < Limit(s)
      /\ version' = [version EXCEPT ![s] = @ + 1]
      /\ UNCHANGED <<wakeVars, sourceVars, routeVars, claimVars, token, hostVars>>

\* SWWake::notify skips the generation until somebody has ever sampled it.
ReadEnabled(p) ==
  /\ Advance(p, "notify", IF enabled THEN "count" ELSE "gate")
  /\ UNCHANGED <<version, wakeVars, sourceVars, routeVars, claimVars, token, hostVars>>

CountGeneration(p) ==
  /\ Advance(p, "count", "wake")
  /\ sampled' = FALSE
  /\ UNCHANGED <<version, enabled, waiter, sourceVars, routeVars, claimVars,
                 token, hostVars>>

NotifyAll(p) ==
  /\ Advance(p, "wake", "gate") /\ WakeUnlocked
  /\ waiter' = IF waiter = "parked" THEN "compare" ELSE waiter
  /\ UNCHANGED <<version, enabled, sampled, sourceVars, routeVars, claimVars,
                 token, hostVars>>

\* publish_if_watched.
ReadWatched(p) ==
  /\ Advance(p, "gate", IF SourceOf[p] \in watched THEN "mark" ELSE "idle")
  /\ UNCHANGED <<version, wakeVars, sourceVars, routeVars, claimVars, token, hostVars>>

\* publish_impl under the source's lock: the linked route is marked, and a
\* one-shot source drops its members.
MarkSource(p) ==
  LET s == SourceOf[p]
  IN  /\ Advance(p, "mark", "drain")
      /\ IF s \notin terminal /\ link[s] # 0
         THEN Mark(p, link[s])
         ELSE UNCHANGED <<routeVars, claim>>
      /\ IF s = "completion"
         THEN terminal' = terminal \cup {s} /\ link' = [link EXCEPT ![s] = 0]
         ELSE UNCHANGED <<terminal, link>>
      /\ UNCHANGED <<version, wakeVars, watched, retired, token, hostVars>>

\* The notification scope ends once the thread's queue is drained.
EndScope(p) ==
  /\ Advance(p, "drain", "idle") /\ claim[p] = "none"
  /\ UNCHANGED <<version, wakeVars, sourceVars, routeVars, claimVars, token, hostVars>>

-----------------------------------------------------------------------------
(* run_claim, in any thread that drains its queue *)

Draining(t) == t \in Publishers => publisher[t] = "drain"

TakeClaim(t) ==
  /\ claim[t] = "queued" /\ Draining(t)
  /\ claim' = [claim EXCEPT ![t] = "taken"]
  /\ route' = [route EXCEPT !.queued = FALSE]
  /\ UNCHANGED <<version, publisher, wakeVars, sourceVars, armed, retired, token,
                 hostVars>>

\* The host's closure rings its primitive; it, or the drop of its captures, may
\* fail.
CallSignal(t, rings, fails) ==
  /\ claim[t] = "taken" /\ (rings \/ fails) /\ (fails => SignalFails)
  /\ claim' = [claim EXCEPT ![t] = IF fails THEN "failed" ELSE "called"]
  /\ token' = (token \/ rings)
  /\ UNCHANGED <<version, publisher, wakeVars, sourceVars, routeVars, retired, hostVars>>

RecordFault(t) ==
  /\ claim[t] = "failed"
  /\ claim' = [claim EXCEPT ![t] = "called"]
  /\ route' = [route EXCEPT !.fault = TRUE]
  /\ UNCHANGED <<version, publisher, wakeVars, sourceVars, armed, retired, token,
                 hostVars>>

\* The last claim of a closed route takes the signal, and stays counted until
\* the signal's captures are dropped.
RetireClaim(t) ==
  LET last == route.closed /\ route.claims = 1
  IN  /\ claim[t] = "called"
      /\ claim' = [claim EXCEPT ![t] = IF last THEN "discard" ELSE "return"]
      /\ retired' = [retired EXCEPT ![t] = route.generation]
      /\ route' = [route EXCEPT !.signal = @ /\ ~last,
                     !.claims = IF last THEN 1 ELSE @ - 1]
      /\ UNCHANGED <<version, publisher, wakeVars, sourceVars, armed, token, hostVars>>

DiscardSignal(t) ==
  /\ claim[t] = "discard"
  /\ claim' = [claim EXCEPT ![t] = "return"]
  /\ route' = [route EXCEPT !.claims = @ - 1]
  /\ UNCHANGED <<version, publisher, wakeVars, sourceVars, armed, retired, token,
                 hostVars>>

\* maybe_return_route frees the cell of a dropped route without claims.
Recycled(r, g) ==
  IF r.generation = g /\ r.occupied /\ ~r.alive /\ r.claims = 0
  THEN [r EXCEPT !.occupied = FALSE, !.signal = FALSE]
  ELSE r

ReturnRoute(t) ==
  /\ claim[t] = "return"
  /\ claim' = [claim EXCEPT ![t] = "none"]
  /\ route' = Recycled(route, retired[t])
  /\ UNCHANGED <<version, publisher, wakeVars, sourceVars, armed, retired, token,
                 hostVars>>

-----------------------------------------------------------------------------
(* The host without a route, waiting on the wake *)

MoveWaiter(from, to) == waiter = from /\ waiter' = to

\* Fault: counting is enabled after the sample.
EnableLate ==
  /\ MoveWaiter("idle", "sample") /\ host \in {"absent", "dropped"}
  /\ UNCHANGED <<version, publisher, enabled, sampled, sourceVars, routeVars,
                 claimVars, token, hostVars>>

\* SWWake::generation enables counting before it samples.
Enable ==
  /\ MoveWaiter("idle", "sample") /\ host \in {"absent", "dropped"}
  /\ enabled' = TRUE
  /\ UNCHANGED <<version, publisher, sampled, sourceVars, routeVars, claimVars,
                 token, hostVars>>

SampleGeneration ==
  /\ MoveWaiter("sample", "inspect")
  /\ sampled' = TRUE
  /\ UNCHANGED <<version, publisher, enabled, sourceVars, routeVars, claimVars,
                 token, hostVars>>

InspectProgress ==
  /\ MoveWaiter("inspect", "compare")
  /\ seen' = [seen EXCEPT !["progress"] = version["progress"]]
  /\ UNCHANGED <<version, publisher, enabled, sampled, sourceVars, routeVars,
                 claimVars, token, host, unread, held>>

\* wait_since compares under the mutex and keeps it until it is parked.
CompareGeneration ==
  /\ MoveWaiter("compare", IF sampled THEN "parking" ELSE "idle")
  /\ UNCHANGED <<version, publisher, enabled, sampled, sourceVars, routeVars,
                 claimVars, token, hostVars>>

Park ==
  /\ MoveWaiter("parking", "parked")
  /\ UNCHANGED <<version, publisher, enabled, sampled, sourceVars, routeVars,
                 claimVars, token, hostVars>>

\* The deadline passes, or the condition variable wakes for no reason.
WaitEnds ==
  /\ waiter = "parked" /\ waiter' \in {"idle", "compare"}
  /\ UNCHANGED <<version, publisher, enabled, sampled, sourceVars, routeVars,
                 claimVars, token, hostVars>>

-----------------------------------------------------------------------------
(* The host with a route *)

\* Its own claim, from a binding's initial mark, runs before the call returns.
HostFree == claim["host"] = "none"

MoveHost(from, to) == HostFree /\ host \in from /\ host' = to

Unlinked(s) == [link EXCEPT ![s] = 0]

\* NotifyDomain::create_route on the free cell, by a host without bindings.
CreateRoute ==
  /\ MoveHost({"absent", "dropped"}, "ready") /\ held = {} /\ waiter = "idle"
  /\ ~route.occupied /\ route.generation < MaxRoutes
  /\ route' = [generation |-> route.generation + 1, occupied |-> TRUE, alive |-> TRUE,
               closed |-> FALSE, pending |-> FALSE, queued |-> FALSE, claims |-> 0,
               fault |-> FALSE, signal |-> TRUE]
  /\ armed' = FALSE /\ token' = FALSE
  /\ UNCHANGED <<version, publisher, wakeVars, sourceVars, claimVars, unread, seen,
                 held>>

\* watch_source: the membership and then the gate, under the source's lock.
Watch(s) ==
  /\ MoveHost({"ready", "inspect", "compare"}, host)
  /\ s \notin held /\ Healthy
  /\ held' = held \cup {s}
  /\ IF s \in terminal
     THEN UNCHANGED <<link, watched>>
     ELSE link' = [link EXCEPT ![s] = route.generation] /\ watched' = watched \cup {s}
  /\ claim' = [claim EXCEPT !["host"] = "initial"]
  /\ UNCHANGED <<version, publisher, wakeVars, terminal, routeVars, retired, token,
                 unread, seen>>

\* Fault: a source that was changed before the registration is not rechecked.
InitialMarkIfOpen ==
  /\ claim["host"] = "initial"
  /\ IF held \cap terminal = {} THEN Mark("host", route.generation)
     ELSE claim' = [claim EXCEPT !["host"] = "none"] /\ UNCHANGED routeVars
  /\ UNCHANGED <<version, publisher, wakeVars, sourceVars, retired, token, hostVars>>

\* The recheck of what was published before or during the registration.
InitialMark ==
  /\ claim["host"] = "initial"
  /\ Mark("host", route.generation)
  /\ UNCHANGED <<version, publisher, wakeVars, sourceVars, retired, token, hostVars>>

\* SWNotifyBinding::drop.
DropBinding(s) ==
  /\ MoveHost({"ready", "closed", "released", "dropped"}, host)
  /\ s \in held /\ held' = held \ {s} /\ link' = Unlinked(s)
  /\ UNCHANGED <<version, publisher, wakeVars, terminal, watched, routeVars, claimVars,
                 token, unread, seen>>

DrainToken ==
  /\ MoveHost({"ready"}, "drained")
  /\ token' = FALSE
  /\ UNCHANGED <<version, publisher, wakeVars, sourceVars, routeVars, claimVars, unread,
                 seen, held>>

\* prepare_wait; on a fault the host gives the route up.
PrepareWait ==
  /\ MoveHost({"drained"}, IF route.fault THEN "ready" ELSE "inspect")
  /\ IF route.fault
     THEN UNCHANGED <<routeVars, unread>>
     ELSE /\ route' = [route EXCEPT !.pending = FALSE]
          /\ armed' = TRUE /\ unread' = Sources
  /\ UNCHANGED <<version, publisher, wakeVars, sourceVars, claimVars, token, seen, held>>

Inspect(s) ==
  /\ MoveHost({"inspect"}, IF unread = {s} THEN "compare" ELSE "inspect")
  /\ s \in unread /\ unread' = unread \ {s}
  /\ seen' = [seen EXCEPT ![s] = version[s]]
  /\ UNCHANGED <<version, publisher, wakeVars, sourceVars, routeVars, claimVars, token,
                 held>>

ChangedSince ==
  /\ MoveHost({"compare"}, IF armed /\ ~route.fault THEN "waiting" ELSE "ready")
  /\ UNCHANGED <<version, publisher, wakeVars, sourceVars, routeVars, claimVars, token,
                 unread, seen, held>>

WakeHost ==
  /\ token /\ MoveHost({"waiting"}, "ready")
  /\ UNCHANGED <<version, publisher, wakeVars, sourceVars, routeVars, claimVars, token,
                 unread, seen, held>>

HostTimeout ==
  /\ MoveHost({"waiting"}, "ready")
  /\ UNCHANGED <<version, publisher, wakeVars, sourceVars, routeVars, claimVars, token,
                 unread, seen, held>>

\* close_inner first closes, taking the signal if no claim needs it, ...
Close ==
  /\ MoveHost({"ready"}, "closing")
  /\ route' = [route EXCEPT !.closed = TRUE, !.signal = route.claims # 0]
  /\ UNCHANGED <<version, publisher, wakeVars, sourceVars, armed, claimVars, token,
                 unread, seen, held>>

\* ... then detaches the route from each of its sources.
Detach(s) ==
  /\ host = "closing" /\ link[s] = route.generation
  /\ link' = Unlinked(s)
  /\ UNCHANGED <<version, publisher, wakeVars, terminal, watched, routeVars, claimVars,
                 token, hostVars>>

Closed ==
  /\ MoveHost({"closing"}, "closed")
  /\ \A s \in Sources : link[s] # route.generation
  /\ UNCHANGED <<version, publisher, wakeVars, sourceVars, routeVars, claimVars, token,
                 unread, seen, held>>

\* is_quiescent lets the host release its wake primitive.
ReleasePrimitive ==
  /\ MoveHost({"closed"}, "released")
  /\ route.claims = 0
  /\ UNCHANGED <<version, publisher, wakeVars, sourceVars, routeVars, claimVars, token,
                 unread, seen, held>>

\* SWNotifyRoute::drop after close_inner.
DropRoute ==
  /\ MoveHost({"closed", "released"}, "dropped")
  /\ route' = Recycled([route EXCEPT !.alive = FALSE], route.generation)
  /\ UNCHANGED <<version, publisher, wakeVars, sourceVars, armed, claimVars, token,
                 unread, seen, held>>

-----------------------------------------------------------------------------
Environment ==
  \/ \E p \in Publishers : Change(p)
  \/ WaitEnds \/ HostTimeout
  \/ \E s \in Sources : Watch(s) \/ DropBinding(s)
  \/ CreateRoute \/ Close \/ ReleasePrimitive \/ DropRoute

PublisherStep(p) ==
  \/ ReadEnabled(p) \/ CountGeneration(p) \/ NotifyAll(p) \/ ReadWatched(p)
  \/ MarkSource(p) \/ EndScope(p)

ClaimStep(t) ==
  \/ \E rings, fails \in BOOLEAN : CallSignal(t, rings, fails)
  \/ TakeClaim(t) \/ RecordFault(t) \/ RetireClaim(t) \/ DiscardSignal(t) \/ ReturnRoute(t)

WaiterStep ==
  Enable \/ SampleGeneration \/ InspectProgress \/ CompareGeneration \/ Park

HostStep ==
  \/ InitialMark \/ DrainToken \/ PrepareWait \/ ChangedSince \/ WakeHost \/ Closed
  \/ \E s \in Sources : Inspect(s) \/ Detach(s)

Next ==
  \/ Environment \/ WaiterStep \/ HostStep
  \/ \E p \in Publishers : PublisherStep(p)
  \/ \E t \in Threads : ClaimStep(t)

Spec == Init /\ [][Next]_vars

-----------------------------------------------------------------------------
(* Properties *)

\* RouteState, and where a claim of it may be.
Routes == [generation : 0 .. MaxRoutes, occupied : BOOLEAN, alive : BOOLEAN, closed : BOOLEAN,
           pending : BOOLEAN, queued : BOOLEAN, claims : Int, fault : BOOLEAN, signal : BOOLEAN]

Claims == {"none", "initial", "queued", "taken", "called", "failed", "discard", "return"}

\* The type invariant.
TypeOK ==
  /\ version \in [Sources -> Nat] /\ seen \in [Sources -> Nat]
  /\ publisher \in [Publishers -> {"idle", "notify", "count", "wake", "gate",
                                   "mark", "drain"}]
  /\ enabled \in BOOLEAN /\ sampled \in BOOLEAN /\ armed \in BOOLEAN
  /\ token \in BOOLEAN
  /\ waiter \in {"idle", "sample", "inspect", "compare", "parking", "parked"}
  /\ terminal \subseteq Sources /\ watched \subseteq Sources
  /\ held \subseteq Sources /\ unread \subseteq Sources
  /\ link \in [Sources -> 0 .. MaxRoutes]
  /\ route \in Routes /\ claim \in [Threads -> Claims]
  /\ retired \in [Threads -> 0 .. MaxRoutes]
  /\ host \in {"absent", "ready", "drained", "inspect", "compare", "waiting",
               "closing", "closed", "released", "dropped"}

\* No wakeup of the condition variable is lost: a host parked on progress it has
\* not seen will be woken by a publisher already past its change ("the host
\* samples generation before reading it", progress.rs:150).
NoLostWake ==
  waiter \in {"parking", "parked"} /\ seen["progress"] # version["progress"] =>
    \E p \in Publishers : \/ publisher[p] = "notify" /\ enabled
                          \/ publisher[p] \in {"count", "wake"}

\* Whether the thread still has the signal to call, or its failure to record.
Calling(t) == claim[t] \in {"queued", "taken", "failed"}

\* Whether the thread has a claim that the route counts.
Claiming(t) == claim[t] \notin {"none", "initial", "return"}

\* No signal is lost: a host parked with an unseen change of a source it is
\* bound to has its token set, or a call of its signal to come (or one that
\* failed, and closes the route to more), or a publisher that has yet to mark it.
NoLostSignal ==
  \A s \in held :
    host = "waiting" /\ Healthy /\ seen[s] # version[s] =>
      \/ token
      \/ \E t \in Threads : Calling(t)
      \/ \E p \in Publishers :
           SourceOf[p] = s /\ publisher[p] \in {"notify", "count", "wake", "gate", "mark"}

\* Claims are counted: the route sits in at most one thread's queue, and no call
\* of its signal and no drop of its captures is under way once it is quiescent,
\* so the host may release what the signal uses and the cell may be reused
\* ("True after close and all queued or running claims retire", is_quiescent).
QuiescenceHolds ==
  /\ route.claims = Cardinality({t \in Threads : Claiming(t)})
  /\ Cardinality({t \in Threads : claim[t] = "queued"}) <= 1
  /\ \A t \in Threads : claim[t] = "taken" => route.signal
  /\ host = "released" \/ ~route.occupied =>
       /\ \A t \in Threads : ~Claiming(t)
       /\ \A s \in Sources : link[s] = 0 /\ ~route.signal
=============================================================================
