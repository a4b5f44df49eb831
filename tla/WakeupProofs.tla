---------------------------- MODULE WakeupProofs ----------------------------
(***************************************************************************)
(* Proofs about the two waits for progress.  HostWakeup, for any number of *)
(* publishers, changes and routes made of the cell; GroupWait, for any     *)
(* members and any number of waiters.                                      *)
(***************************************************************************)
EXTENDS HostWakeup, GroupWait, FiniteSetTheorems, TLAPS

-----------------------------------------------------------------------------
(* HostWakeup *)

\* Host states in which its route takes marks, and in which the cell is alive.
Open == {"ready", "drained", "inspect", "compare", "waiting"}
Alive == Open \cup {"closing", "closed", "released"}

Claimants == {t \in Threads : Claiming(t)}

\* A publisher has a claim only while it drains its queue, and completions are
\* announced by the thread that completed.
PublisherOrder ==
  \A p \in Publishers :
    /\ publisher[p] # "drain" => claim[p] = "none"
    /\ SourceOf[p] = "completion" => publisher[p] \in {"idle", "mark", "drain"}

\* A task completes once, and its source ends with the announcement of that.
CompletesOnce ==
  /\ terminal \subseteq {"completion"}
  /\ version["completion"] = 0 =>
       /\ terminal = {}
       /\ \A p \in Publishers : SourceOf[p] = "completion" => publisher[p] = "idle"
  /\ \A p, q \in Publishers :
       /\ SourceOf[p] = "completion" /\ publisher[p] = "mark"
       /\ SourceOf[q] = "completion" /\ publisher[q] = "mark"
       => p = q
  /\ "completion" \in terminal =>
       \A p \in Publishers : SourceOf[p] = "completion" => publisher[p] # "mark"

\* What a sampled generation stands for: while nobody has counted, a change that
\* was not seen is still to be counted; and who finds it counted after comparing
\* is still to be woken.
WakeOrder ==
  /\ waiter # "idle" => enabled /\ host \in {"absent", "dropped"}
  /\ (/\ waiter \in {"compare", "parking", "parked"} /\ sampled
      /\ seen["progress"] # version["progress"])
       => \E p \in Publishers : publisher[p] \in {"notify", "count"}
  /\ waiter \in {"parking", "parked"} /\ ~sampled =>
       \E p \in Publishers : publisher[p] = "wake"

\* The life of the route's cell.
RouteLife ==
  /\ host \in Open <=> ~route.closed
  /\ ~route.closed => route.signal
  /\ route.alive <=> host \in Alive
  /\ route.alive => route.occupied /\ route.generation # 0
  /\ claim["host"] = "initial" => host \in {"ready", "inspect", "compare"}

\* Sources point to the current route only, and to none that is closed.
Links ==
  /\ \A s \in Sources : link[s] \in {0, route.generation}
  /\ host \notin Open \cup {"closing"} => \A s \in Sources : link[s] = 0
  /\ host \in Open =>
       \A s \in held : s \in terminal \/ (link[s] = route.generation /\ s \in watched)

\* Every claim is counted, one queue at most holds the route, and whoever is to
\* call the signal finds it.
Counts ==
  /\ route.claims = Cardinality(Claimants)
  /\ route.queued <=> \E t \in Threads : claim[t] = "queued"
  /\ \A t, u \in Threads : claim[t] = "queued" /\ claim[u] = "queued" => t = u
  /\ \A t \in Threads : claim[t] \in {"queued", "taken", "called", "failed"} => route.signal
  /\ \A t \in Threads : claim[t] = "discard" => route.closed /\ ~route.signal
  /\ route.closed /\ route.claims = 0 => ~route.signal
  /\ host = "released" \/ ~route.occupied => route.claims = 0

\* Whether a change of the source is still to be marked.
Coming(s) ==
  \E p \in Publishers :
    SourceOf[p] = s /\ publisher[p] \in {"notify", "count", "wake", "gate", "mark"}

\* An unchanged epoch: what changed since it was inspected is still to be marked.
Inspected ==
  armed /\ Healthy /\ host \in {"inspect", "compare", "waiting"} /\ claim["host"] # "initial" =>
    \A s \in held \ unread : seen[s] # version[s] => Coming(s)

\* An epoch that changed: the mark has called the signal or will.
Marked == host = "waiting" /\ ~armed /\ Healthy => token \/ \E t \in Threads : Calling(t)

ArmOrder ==
  /\ armed => ~route.pending
  /\ host \in {"compare", "waiting"} => unread = {}
  /\ Inspected
  /\ Marked

IInv ==
  /\ TypeOK /\ PublisherOrder /\ CompletesOnce /\ WakeOrder /\ RouteLife /\ Links /\ Counts
  /\ ArmOrder

-----------------------------------------------------------------------------
(* Records and claims *)

LEMMA RouteFields ==
  ASSUME NEW r \in Routes
  PROVE  /\ r.generation \in 0 .. MaxRoutes /\ r.claims \in Int
         /\ r.occupied \in BOOLEAN /\ r.alive \in BOOLEAN /\ r.closed \in BOOLEAN
         /\ r.pending \in BOOLEAN /\ r.queued \in BOOLEAN /\ r.fault \in BOOLEAN
         /\ r.signal \in BOOLEAN
BY DEF Routes

LEMMA RecycledType == ASSUME NEW r \in Routes, NEW g PROVE Recycled(r, g) \in Routes
BY DEF Recycled, Routes

\* The two ways to retire a claim.
LEMMA Retirement ==
  ASSUME TypeOK, NEW t \in Threads, RetireClaim(t)
  PROVE  \/ /\ route.closed /\ route.claims = 1
            /\ route' = [route EXCEPT !.signal = FALSE]
            /\ claim' = [claim EXCEPT ![t] = "discard"]
         \/ /\ ~(route.closed /\ route.claims = 1)
            /\ route' = [route EXCEPT !.claims = route.claims - 1]
            /\ claim' = [claim EXCEPT ![t] = "return"]
<1> USE DEF RetireClaim, TypeOK, Routes
<1>1. CASE route.closed /\ route.claims = 1
  BY <1>1
<1>2. CASE ~(route.closed /\ route.claims = 1)
  <2>1. route' = [route EXCEPT !.signal = route.signal, !.claims = route.claims - 1]
    BY <1>2
  <2>2. route' = [route EXCEPT !.claims = route.claims - 1]
    BY <2>1
  <2> QED
    BY <1>2, <2>2
<1> QED
  BY <1>1, <1>2

\* The two ways to close.
LEMMA Closing ==
  ASSUME TypeOK, Close
  PROVE  \/ route.claims = 0 /\ route' = [route EXCEPT !.closed = TRUE, !.signal = FALSE]
         \/ route.claims # 0 /\ route' = [route EXCEPT !.closed = TRUE, !.signal = TRUE]
BY DEF Close, TypeOK, Routes

-----------------------------------------------------------------------------
(* Marking a route *)

\* A mark is refused, finds the signal already owed, or queues a claim.
Refused(t, g) ==
  /\ ~(route.generation = g /\ Healthy) /\ UNCHANGED <<route, armed>>
  /\ claim' = [claim EXCEPT ![t] = "none"]

Coalesced(t, g) ==
  /\ route.generation = g /\ Healthy /\ (route.pending \/ route.queued)
  /\ armed' = FALSE /\ route' = [route EXCEPT !.pending = TRUE]
  /\ claim' = [claim EXCEPT ![t] = "none"]

Enqueued(t, g) ==
  /\ route.generation = g /\ Healthy /\ ~route.pending /\ ~route.queued
  /\ armed' = FALSE
  /\ route' = [route EXCEPT !.pending = TRUE, !.queued = TRUE, !.claims = @ + 1]
  /\ claim' = [claim EXCEPT ![t] = "queued"]

LEMMA MarkCases ==
  ASSUME TypeOK, NEW t \in Threads, NEW g, Mark(t, g)
  PROVE  Refused(t, g) \/ Coalesced(t, g) \/ Enqueued(t, g)
<1> USE DEF Mark, TypeOK, Routes, routeVars, Healthy
<1>1. CASE ~(route.generation = g /\ Healthy)
  BY <1>1 DEF Refused
<1>2. CASE route.generation = g /\ Healthy /\ (route.pending \/ route.queued)
  <2>1. [route EXCEPT !.pending = TRUE, !.queued = @ \/ ~route.pending,
           !.claims = IF route.pending \/ route.queued THEN @ ELSE @ + 1]
          = [route EXCEPT !.pending = TRUE]
    BY <1>2
  <2> QED
    BY <1>2, <2>1 DEF Coalesced
<1>3. CASE route.generation = g /\ Healthy /\ ~route.pending /\ ~route.queued
  <2>1. [route EXCEPT !.pending = TRUE, !.queued = @ \/ ~route.pending,
           !.claims = IF route.pending \/ route.queued THEN @ ELSE @ + 1]
          = [route EXCEPT !.pending = TRUE, !.queued = TRUE, !.claims = @ + 1]
    BY <1>3
  <2> QED
    BY <1>3, <2>1 DEF Enqueued
<1> QED
  BY <1>1, <1>2, <1>3

LEMMA MarkTypes ==
  ASSUME TypeOK, NEW t \in Threads, NEW g, Refused(t, g) \/ Coalesced(t, g) \/ Enqueued(t, g)
  PROVE  route' \in Routes /\ claim' \in [Threads -> Claims] /\ armed' \in BOOLEAN
<1>1. claim' \in [Threads -> Claims] /\ armed' \in BOOLEAN
  BY DEF Refused, Coalesced, Enqueued, TypeOK, Claims
<1>2. route.claims + 1 \in Int
  BY RouteFields DEF TypeOK
<1>3. route' \in Routes
  BY <1>2 DEF Refused, Coalesced, Enqueued, TypeOK, Routes
<1> QED
  BY <1>1, <1>3

\* Who marks: a publisher under its source's lock, or the host's own recheck.
LEMMA PublisherMarks ==
  ASSUME TypeOK, NEW p \in Publishers, MarkSource(p)
  PROVE  \/ UNCHANGED <<route, armed, claim>>
            /\ (SourceOf[p] \in terminal \/ link[SourceOf[p]] = 0)
         \/ SourceOf[p] \notin terminal /\ link[SourceOf[p]] # 0
            /\ \/ Refused(p, link[SourceOf[p]])
               \/ Coalesced(p, link[SourceOf[p]])
               \/ Enqueued(p, link[SourceOf[p]])
BY MarkCases DEF MarkSource, routeVars, Threads

LEMMA HostMarks ==
  ASSUME TypeOK, InitialMark
  PROVE  \/ Refused("host", route.generation) \/ Coalesced("host", route.generation)
         \/ Enqueued("host", route.generation)
BY MarkCases DEF InitialMark, Threads

-----------------------------------------------------------------------------
(* Types *)

LEMMA TypeInit == Init => TypeOK
<1> SUFFICES ASSUME Init PROVE TypeOK
  OBVIOUS
<1>1. route \in Routes
  BY WakeupAssumption DEF Init, Routes
<1>2. claim \in [Threads -> Claims] /\ retired \in [Threads -> 0 .. MaxRoutes]
  BY WakeupAssumption DEF Init, Claims
<1>3. /\ version \in [Sources -> Nat] /\ seen \in [Sources -> Nat]
      /\ link \in [Sources -> 0 .. MaxRoutes]
  BY WakeupAssumption DEF Init
<1>4. publisher \in [Publishers -> {"idle", "notify", "count", "wake", "gate", "mark", "drain"}]
  BY DEF Init
<1> QED
  BY <1>1, <1>2, <1>3, <1>4 DEF Init, TypeOK

LEMMA TypeStep == TypeOK /\ [Next]_vars => TypeOK'
<1> SUFFICES ASSUME TypeOK, [Next]_vars PROVE TypeOK'
  OBVIOUS
<1> USE WakeupAssumption DEF wakeVars, sourceVars, routeVars, claimVars, hostVars
<1>1. ASSUME NEW p \in Publishers, Change(p) PROVE TypeOK'
  BY <1>1 DEF Change, Advance, TypeOK
<1>2. ASSUME NEW p \in Publishers, PublisherStep(p) PROVE TypeOK'
  <2>1. CASE MarkSource(p)
    <3>1. /\ publisher' = [publisher EXCEPT ![p] = "drain"]
          /\ terminal' \subseteq Sources /\ link' \in [Sources -> 0 .. MaxRoutes]
          /\ UNCHANGED <<version, enabled, sampled, waiter, watched, retired, token, host, unread,
                         seen, held>>
      BY <2>1 DEF MarkSource, Advance, TypeOK
    <3>2. route' \in Routes /\ claim' \in [Threads -> Claims] /\ armed' \in BOOLEAN
      BY <2>1, PublisherMarks, MarkTypes DEF TypeOK, Threads
    <3> QED
      BY <3>1, <3>2 DEF TypeOK
  <2>2. CASE ReadEnabled(p) \/ CountGeneration(p)
    <3>1. publisher' \in [Publishers -> {"idle", "notify", "count", "wake", "gate", "mark", "drain"}]
      BY <2>2 DEF ReadEnabled, CountGeneration, Advance, TypeOK
    <3>2. sampled' \in BOOLEAN
      BY <2>2 DEF ReadEnabled, CountGeneration, TypeOK
    <3>3. UNCHANGED <<version, enabled, waiter, terminal, watched, link, retired, route, claim, token,
                      host, armed, unread, seen, held>>
      BY <2>2 DEF ReadEnabled, CountGeneration
    <3> QED
      BY <3>1, <3>2, <3>3 DEF TypeOK
  <2>3. CASE NotifyAll(p)
    BY <2>3 DEF NotifyAll, Advance, TypeOK
  <2>4. CASE ReadWatched(p) \/ EndScope(p)
    BY <2>4 DEF ReadWatched, EndScope, Advance, TypeOK
  <2> QED
    BY <1>2, <2>1, <2>2, <2>3, <2>4 DEF PublisherStep
<1>3. ASSUME NEW t \in Threads, ClaimStep(t) PROVE TypeOK'
  <2> USE DEF TypeOK
  <2>0. claim[t] \in Claims /\ \A v \in Claims : [claim EXCEPT ![t] = v] \in [Threads -> Claims]
    OBVIOUS
  <2>1. CASE TakeClaim(t) \/ RecordFault(t)
    <3>1. route' \in Routes
      BY <2>1 DEF TakeClaim, RecordFault, Routes
    <3> QED
      BY <2>0, <2>1, <3>1 DEF TakeClaim, RecordFault, Claims
  <2>2. CASE DiscardSignal(t)
    <3>1. route' \in Routes
      BY <2>2 DEF DiscardSignal, Routes
    <3> QED
      BY <2>0, <2>2, <3>1 DEF DiscardSignal, Claims
  <2>3. CASE RetireClaim(t)
    <3>1. route' \in Routes
      <4>1. \/ route' = [route EXCEPT !.signal = FALSE]
            \/ route' = [route EXCEPT !.claims = route.claims - 1]
        BY <2>3, Retirement
      <4>2. [route EXCEPT !.signal = FALSE] \in Routes
        BY DEF Routes
      <4>3. route.claims - 1 \in Int
        BY RouteFields
      <4>4. [route EXCEPT !.claims = route.claims - 1] \in Routes
        BY <4>3 DEF Routes
      <4> QED
        BY <4>1, <4>2, <4>4
    <3>2. retired' \in [Threads -> 0 .. MaxRoutes]
      BY <2>3, RouteFields DEF RetireClaim
    <3> QED
      BY <2>0, <2>3, <3>1, <3>2 DEF RetireClaim, Claims
  <2>4. CASE ReturnRoute(t)
    BY <2>0, <2>4, RecycledType DEF ReturnRoute, Claims
  <2>5. ASSUME NEW rings \in BOOLEAN, NEW fails \in BOOLEAN, CallSignal(t, rings, fails)
        PROVE  TypeOK'
    BY <2>0, <2>5 DEF CallSignal, Claims
  <2> QED
    BY <1>3, <2>1, <2>2, <2>3, <2>4, <2>5 DEF ClaimStep
<1>4. CASE WaiterStep \/ WaitEnds
  <2>1. CASE Enable \/ SampleGeneration \/ Park \/ WaitEnds
    BY <2>1 DEF Enable, SampleGeneration, Park, WaitEnds, MoveWaiter, TypeOK
  <2>2. CASE InspectProgress
    BY <2>2 DEF InspectProgress, MoveWaiter, TypeOK, Sources
  <2>3. CASE CompareGeneration
    BY <2>3 DEF CompareGeneration, MoveWaiter, TypeOK
  <2> QED
    BY <1>4, <2>1, <2>2, <2>3 DEF WaiterStep
<1>5. CASE HostStep
  <2>1. CASE InitialMark
    <3>1. route' \in Routes /\ claim' \in [Threads -> Claims] /\ armed' \in BOOLEAN
      BY <2>1, HostMarks, MarkTypes DEF Threads
    <3> QED
      BY <2>1, <3>1 DEF InitialMark, TypeOK
  <2>2. CASE DrainToken \/ ChangedSince \/ WakeHost \/ Closed
    BY <2>2 DEF DrainToken, ChangedSince, WakeHost, Closed, MoveHost, TypeOK
  <2>3. CASE PrepareWait
    <3>1. route' \in Routes
      <4>1. route' = route \/ route' = [route EXCEPT !.pending = FALSE]
        BY <2>3 DEF PrepareWait
      <4>2. [route EXCEPT !.pending = FALSE] \in Routes
        BY DEF TypeOK, Routes
      <4> QED
        BY <4>1, <4>2 DEF TypeOK
    <3> QED
      BY <2>3, <3>1 DEF PrepareWait, MoveHost, TypeOK
  <2>4. ASSUME NEW s \in Sources, Inspect(s) PROVE TypeOK'
    BY <2>4 DEF Inspect, MoveHost, TypeOK
  <2>5. ASSUME NEW s \in Sources, Detach(s) PROVE TypeOK'
    BY <2>5 DEF Detach, Unlinked, TypeOK
  <2> QED
    BY <1>5, <2>1, <2>2, <2>3, <2>4, <2>5 DEF HostStep
<1>6. CASE CreateRoute
  <2>1. route.generation + 1 \in 0 .. MaxRoutes
    BY <1>6, RouteFields DEF CreateRoute, TypeOK
  <2>2. route' \in Routes
    BY <1>6, <2>1 DEF CreateRoute, Routes
  <2> QED
    BY <1>6, <2>2 DEF CreateRoute, MoveHost, TypeOK
<1>7. CASE Close \/ ReleasePrimitive \/ HostTimeout
  <2>2. route' \in Routes
    <3>1. CASE Close
      <4>1. \/ route' = [route EXCEPT !.closed = TRUE, !.signal = FALSE]
            \/ route' = [route EXCEPT !.closed = TRUE, !.signal = TRUE]
        BY <3>1, Closing
      <4>2. /\ [route EXCEPT !.closed = TRUE, !.signal = FALSE] \in Routes
            /\ [route EXCEPT !.closed = TRUE, !.signal = TRUE] \in Routes
        BY DEF TypeOK, Routes
      <4> QED
        BY <4>1, <4>2
    <3>2. CASE ReleasePrimitive \/ HostTimeout
      BY <3>2 DEF ReleasePrimitive, HostTimeout, TypeOK
    <3> QED
      BY <1>7, <3>1, <3>2
  <2> QED
    BY <1>7, <2>2 DEF Close, ReleasePrimitive, HostTimeout, MoveHost, TypeOK
<1>8. CASE DropRoute
  <2>1. [route EXCEPT !.alive = FALSE] \in Routes
    BY DEF TypeOK, Routes
  <2>2. route' \in Routes
    BY <1>8, <2>1, RecycledType DEF DropRoute
  <2> QED
    BY <1>8, <2>2 DEF DropRoute, MoveHost, TypeOK
<1>9. ASSUME NEW s \in Sources, Watch(s) \/ DropBinding(s) PROVE TypeOK'
  <2>1. CASE Watch(s)
    BY <2>1, RouteFields DEF Watch, MoveHost, TypeOK, Threads, Claims
  <2>2. CASE DropBinding(s)
    BY <2>2 DEF DropBinding, Unlinked, MoveHost, TypeOK
  <2> QED
    BY <1>9, <2>1, <2>2
<1>10. CASE UNCHANGED vars
  BY <1>10 DEF vars, TypeOK
<1> QED
  BY <1>1, <1>2, <1>3, <1>4, <1>5, <1>6, <1>7, <1>8, <1>9, <1>10 DEF Next, Environment

-----------------------------------------------------------------------------
(* What an action leaves alone *)

LEMMA MarkFrame ==
  ASSUME TypeOK, NEW t \in Threads, NEW g, Refused(t, g) \/ Coalesced(t, g) \/ Enqueued(t, g)
  PROVE  /\ route'.generation = route.generation /\ route'.occupied = route.occupied
         /\ route'.alive = route.alive /\ route'.closed = route.closed
         /\ route'.fault = route.fault /\ route'.signal = route.signal
         /\ claim'[t] \in {"none", "queued"}
         /\ \A u \in Threads \ {t} : claim'[u] = claim[u]
<1>1. /\ route \in Routes
      /\ \/ route' = route \/ route' = [route EXCEPT !.pending = TRUE]
         \/ route' = [route EXCEPT !.pending = TRUE, !.queued = TRUE, !.claims = @ + 1]
  BY DEF Refused, Coalesced, Enqueued, TypeOK
<1>2. \/ claim' = [claim EXCEPT ![t] = "none"]
      \/ claim' = [claim EXCEPT ![t] = "queued"]
  BY DEF Refused, Coalesced, Enqueued
<1>3. claim \in [Threads -> Claims]
  BY DEF TypeOK
<1> QED
  BY <1>1, <1>2, <1>3 DEF Routes

LEMMA ClaimFrame ==
  ASSUME TypeOK, NEW t \in Threads, ClaimStep(t)
  PROVE  /\ UNCHANGED <<version, publisher, enabled, sampled, waiter, terminal, watched, link,
                        armed, host, unread, seen, held>>
         /\ claim[t] \notin {"none", "initial"} /\ claim'[t] # "initial"
         /\ \A u \in Threads \ {t} : claim'[u] = claim[u]
         /\ route'.generation = route.generation /\ route'.alive = route.alive
         /\ route'.closed = route.closed /\ route'.pending = route.pending
         /\ route.alive => route'.occupied = route.occupied
<1> USE DEF wakeVars, sourceVars, routeVars, hostVars, TypeOK
<1>1. ASSUME NEW rings \in BOOLEAN, NEW fails \in BOOLEAN, CallSignal(t, rings, fails)
      PROVE  /\ UNCHANGED <<version, publisher, enabled, sampled, waiter, terminal, watched, link,
                            armed, host, unread, seen, held, route>>
             /\ claim[t] \notin {"none", "initial"} /\ claim'[t] # "initial"
             /\ \A u \in Threads \ {t} : claim'[u] = claim[u]
  BY <1>1 DEF CallSignal
<1>2. CASE TakeClaim(t) \/ RecordFault(t) \/ DiscardSignal(t)
  BY <1>2 DEF TakeClaim, RecordFault, DiscardSignal, Routes
<1>3. CASE RetireClaim(t)
  BY <1>3, Retirement DEF RetireClaim, Routes
<1>4. CASE ReturnRoute(t)
  BY <1>4 DEF ReturnRoute, Recycled, Routes
<1> QED
  BY <1>1, <1>2, <1>3, <1>4 DEF ClaimStep

\* The actions of the host that leave the route and all claims alone.
HostMoves ==
  \/ DrainToken \/ ChangedSince \/ WakeHost \/ HostTimeout \/ ReleasePrimitive \/ Closed
  \/ \E s \in Sources : Inspect(s)

LEMMA HostFrame ==
  ASSUME HostMoves
  PROVE  /\ UNCHANGED <<version, publisher, enabled, sampled, waiter, terminal, watched, link,
                        route, armed, claim, held>>
         /\ claim["host"] = "none"
BY DEF HostMoves, DrainToken, ChangedSince, WakeHost, HostTimeout, ReleasePrimitive, Closed,
  Inspect, MoveHost, HostFree, wakeVars, sourceVars, routeVars, claimVars, hostVars

\* Publishers that only move on.
Moves(p) ==
  ReadEnabled(p) \/ CountGeneration(p) \/ NotifyAll(p) \/ ReadWatched(p) \/ EndScope(p)

LEMMA PublisherFrame ==
  ASSUME NEW p \in Publishers, Moves(p)
  PROVE  /\ UNCHANGED <<version, enabled, terminal, watched, link, route, armed, claim, token, host,
                        unread, seen, held>>
         /\ publisher' = [publisher EXCEPT ![p] = publisher'[p]]
BY DEF Moves, ReadEnabled, CountGeneration, NotifyAll, ReadWatched, EndScope, Advance, wakeVars,
  sourceVars, routeVars, claimVars, hostVars

LEMMA WaiterFrame ==
  ASSUME WaiterStep \/ WaitEnds
  PROVE  UNCHANGED <<version, publisher, terminal, watched, link, route, armed, claim, token, host,
                     unread, held>>
BY DEF WaiterStep, WaitEnds, Enable, SampleGeneration, InspectProgress, CompareGeneration, Park,
  sourceVars, routeVars, claimVars, hostVars

\* Every step is one of these.
LEMMA Steps ==
  ASSUME [Next]_vars
  PROVE  \/ \E p \in Publishers : Change(p) \/ Moves(p) \/ MarkSource(p)
         \/ \E t \in Threads : ClaimStep(t)
         \/ WaiterStep \/ WaitEnds \/ HostMoves \/ InitialMark \/ PrepareWait
         \/ \E s \in Sources : Watch(s) \/ DropBinding(s) \/ Detach(s)
         \/ CreateRoute \/ Close \/ DropRoute
         \/ UNCHANGED vars
BY DEF Next, Environment, HostStep, PublisherStep, Moves, HostMoves

-----------------------------------------------------------------------------
(* Publishers *)

LEMMA PublisherOrderStep ==
  TypeOK /\ PublisherOrder /\ [Next]_vars => PublisherOrder'
<1> SUFFICES ASSUME TypeOK, PublisherOrder, [Next]_vars PROVE PublisherOrder'
  OBVIOUS
<1> USE DEF PublisherOrder
<1>1. ASSUME NEW p \in Publishers, Change(p) PROVE PublisherOrder'
  BY <1>1 DEF Change, Advance, TypeOK, claimVars
<1>2. ASSUME NEW p \in Publishers, Moves(p) PROVE PublisherOrder'
  <2>1. publisher'[p] = "drain" => publisher[p] = "drain"
    BY <1>2 DEF Moves, ReadEnabled, CountGeneration, NotifyAll, ReadWatched, EndScope, Advance,
      TypeOK
  <2>2. SourceOf[p] = "completion" => publisher'[p] = "idle"
    BY <1>2 DEF Moves, ReadEnabled, CountGeneration, NotifyAll, ReadWatched, EndScope, Advance,
      TypeOK
  <2>3. publisher[p] = "drain" => claim[p] = "none"
    BY <1>2 DEF Moves, ReadEnabled, CountGeneration, NotifyAll, ReadWatched, EndScope, Advance
  <2> QED
    BY <1>2, <2>1, <2>2, <2>3, PublisherFrame DEF TypeOK
<1>3. ASSUME NEW p \in Publishers, MarkSource(p) PROVE PublisherOrder'
  <2>1. publisher' = [publisher EXCEPT ![p] = "drain"]
    BY <1>3 DEF MarkSource, Advance
  <2>2. \A u \in Publishers \ {p} : claim'[u] = claim[u]
    BY <1>3, PublisherMarks, MarkFrame DEF Threads
  <2> QED
    BY <2>1, <2>2 DEF TypeOK
<1>4. ASSUME NEW t \in Threads, ClaimStep(t) PROVE PublisherOrder'
  BY <1>4, ClaimFrame DEF Threads
<1>5. CASE InitialMark
  <2>1. publisher' = publisher /\ \A u \in Publishers : claim'[u] = claim[u]
    BY <1>5, HostMarks, MarkFrame, WakeupAssumption DEF InitialMark, Threads
  <2> QED
    BY <2>1
<1>6. ASSUME NEW s \in Sources, Watch(s) \/ DropBinding(s) \/ Detach(s) PROVE PublisherOrder'
  <2>1. publisher' = publisher /\ \A u \in Publishers : claim'[u] = claim[u]
    BY <1>6, WakeupAssumption DEF Watch, DropBinding, Detach, claimVars, Threads, TypeOK
  <2> QED
    BY <2>1
<1>7. CASE WaiterStep \/ WaitEnds \/ HostMoves
  BY <1>7, WaiterFrame, HostFrame
<1>8. CASE PrepareWait \/ CreateRoute \/ Close \/ DropRoute \/ UNCHANGED vars
  BY <1>8 DEF PrepareWait, CreateRoute, Close, DropRoute, vars, claimVars
<1> QED
  BY <1>1, <1>2, <1>3, <1>4, <1>5, <1>6, <1>7, <1>8, Steps

LEMMA CompletesOnceStep ==
  TypeOK /\ PublisherOrder /\ CompletesOnce /\ [Next]_vars => CompletesOnce'
<1> SUFFICES ASSUME TypeOK, PublisherOrder, CompletesOnce, [Next]_vars PROVE CompletesOnce'
  OBVIOUS
<1> USE DEF CompletesOnce
<1>1. ASSUME NEW p \in Publishers, Change(p) PROVE CompletesOnce'
  <2>1. CASE SourceOf[p] = "completion"
    <3>1. version["completion"] = 0 /\ version'["completion"] # 0
      BY <1>1, <2>1 DEF Change, Limit, TypeOK, Sources
    <3>2. terminal' = terminal /\ publisher' = [publisher EXCEPT ![p] = "mark"]
      BY <1>1, <2>1 DEF Change, Advance, sourceVars
    <3> QED
      BY <3>1, <3>2 DEF TypeOK
  <2>2. CASE SourceOf[p] # "completion"
    BY <1>1, <2>2 DEF Change, Advance, sourceVars, TypeOK, Sources
  <2> QED
    BY <2>1, <2>2
<1>2. ASSUME NEW p \in Publishers, Moves(p) PROVE CompletesOnce'
  <2>1. SourceOf[p] = "completion" => publisher'[p] = "idle"
    BY <1>2 DEF Moves, ReadEnabled, CountGeneration, NotifyAll, ReadWatched, EndScope, Advance,
      TypeOK, PublisherOrder
  <2>2. \A q \in Publishers \ {p} : publisher'[q] = publisher[q]
    BY <1>2, PublisherFrame DEF TypeOK
  <2>3. UNCHANGED <<version, terminal>>
    BY <1>2, PublisherFrame
  <2> QED
    BY <2>1, <2>2, <2>3
<1>3. ASSUME NEW p \in Publishers, MarkSource(p) PROVE CompletesOnce'
  BY <1>3, WakeupAssumption DEF MarkSource, Advance, TypeOK, Sources
<1>4. ASSUME NEW t \in Threads, ClaimStep(t) PROVE CompletesOnce'
  <2>1. UNCHANGED <<version, publisher, terminal>>
    BY <1>4, ClaimFrame
  <2> QED
    BY <2>1
<1>5. ASSUME NEW s \in Sources, Watch(s) \/ DropBinding(s) \/ Detach(s) PROVE CompletesOnce'
  BY <1>5 DEF Watch, DropBinding, Detach
<1>6. CASE WaiterStep \/ WaitEnds \/ HostMoves
  BY <1>6, WaiterFrame, HostFrame
<1>7. CASE InitialMark \/ PrepareWait \/ CreateRoute \/ Close \/ DropRoute \/ UNCHANGED vars
  BY <1>7 DEF InitialMark, PrepareWait, CreateRoute, Close, DropRoute, vars, sourceVars
<1> QED
  BY <1>1, <1>2, <1>3, <1>4, <1>5, <1>6, <1>7, Steps

-----------------------------------------------------------------------------
(* The wake *)

LEMMA WakeOrderStep == TypeOK /\ WakeOrder /\ [Next]_vars => WakeOrder'
<1> SUFFICES ASSUME TypeOK, WakeOrder, [Next]_vars PROVE WakeOrder'
  OBVIOUS
<1> USE DEF WakeOrder
<1>1. ASSUME NEW p \in Publishers, Change(p) PROVE WakeOrder'
  <2>1. UNCHANGED <<enabled, sampled, waiter, host, seen>> /\ publisher[p] = "idle"
    BY <1>1 DEF Change, Advance, wakeVars, hostVars
  <2>2. \A q \in Publishers \ {p} : publisher'[q] = publisher[q]
    BY <1>1 DEF Change, Advance, TypeOK
  <2>3. CASE SourceOf[p] = "progress"
    <3>1. publisher'[p] = "notify"
      BY <1>1, <2>3 DEF Change, Advance, TypeOK
    <3> QED
      BY <2>1, <2>2, <3>1
  <2>4. CASE SourceOf[p] # "progress"
    <3>1. version'["progress"] = version["progress"]
      BY <1>1, <2>4 DEF Change, TypeOK, Sources
    <3> QED
      BY <2>1, <2>2, <3>1
  <2> QED
    BY <2>3, <2>4
<1>2. ASSUME NEW p \in Publishers, Moves(p) PROVE WakeOrder'
  <2>0. \A q \in Publishers \ {p} : publisher'[q] = publisher[q]
    BY <1>2, PublisherFrame DEF TypeOK
  <2>1. CASE ReadEnabled(p)
    <3>1. publisher[p] = "notify" /\ (enabled => publisher'[p] = "count")
      BY <2>1 DEF ReadEnabled, Advance, TypeOK
    <3> QED
      BY <2>0, <2>1, <3>1 DEF ReadEnabled, wakeVars, hostVars
  <2>2. CASE CountGeneration(p)
    <3>1. publisher'[p] = "wake"
      BY <2>2 DEF CountGeneration, Advance, TypeOK
    <3> QED
      BY <2>2, <3>1 DEF CountGeneration, hostVars
  <2>3. CASE NotifyAll(p)
    <3>1. publisher[p] = "wake" /\ waiter' \notin {"parking", "parked"}
      BY <2>3 DEF NotifyAll, Advance, WakeUnlocked
    <3>2. waiter' \in {waiter, "compare"} /\ (waiter' # waiter => waiter = "parked")
      BY <2>3 DEF NotifyAll
    <3> QED
      BY <2>0, <2>3, <3>1, <3>2 DEF NotifyAll, hostVars
  <2>4. CASE ReadWatched(p) \/ EndScope(p)
    <3>1. publisher[p] \notin {"notify", "count", "wake"}
      BY <2>4 DEF ReadWatched, EndScope, Advance
    <3> QED
      BY <2>0, <2>4, <3>1 DEF ReadWatched, EndScope, wakeVars, hostVars
  <2> QED
    BY <1>2, <2>1, <2>2, <2>3, <2>4 DEF Moves
<1>3. ASSUME NEW p \in Publishers, MarkSource(p) PROVE WakeOrder'
  <2>1. publisher[p] = "mark" /\ \A q \in Publishers \ {p} : publisher'[q] = publisher[q]
    BY <1>3 DEF MarkSource, Advance, TypeOK
  <2> QED
    BY <1>3, <2>1 DEF MarkSource, wakeVars, hostVars
<1>4. ASSUME NEW t \in Threads, ClaimStep(t) PROVE WakeOrder'
  BY <1>4, ClaimFrame
<1>5. CASE WaiterStep \/ WaitEnds
  <2>1. CASE Enable \/ SampleGeneration \/ Park
    BY <2>1 DEF Enable, SampleGeneration, Park, MoveWaiter, hostVars
  <2>2. CASE InspectProgress
    BY <2>2 DEF InspectProgress, MoveWaiter, TypeOK, Sources
  <2>3. CASE CompareGeneration
    BY <2>3 DEF CompareGeneration, MoveWaiter, hostVars
  <2>4. CASE WaitEnds
    BY <2>4 DEF WaitEnds, hostVars
  <2> QED
    BY <1>5, <2>1, <2>2, <2>3, <2>4 DEF WaiterStep
<1>6. CASE HostMoves
  <2>1. ASSUME NEW s \in Sources, Inspect(s) PROVE WakeOrder'
    BY <2>1 DEF Inspect, MoveHost, wakeVars
  <2>2. CASE DrainToken \/ ChangedSince \/ WakeHost \/ HostTimeout \/ ReleasePrimitive \/ Closed
    BY <2>2 DEF DrainToken, ChangedSince, WakeHost, HostTimeout, ReleasePrimitive, Closed, MoveHost,
      wakeVars
  <2> QED
    BY <1>6, <2>1, <2>2 DEF HostMoves
<1>7. ASSUME NEW s \in Sources, Watch(s) \/ DropBinding(s) \/ Detach(s) PROVE WakeOrder'
  BY <1>7 DEF Watch, DropBinding, Detach, MoveHost, wakeVars, hostVars
<1>8. CASE InitialMark \/ UNCHANGED vars
  BY <1>8 DEF InitialMark, vars, wakeVars, hostVars
<1>9. CASE PrepareWait \/ CreateRoute \/ Close \/ DropRoute
  BY <1>9 DEF PrepareWait, CreateRoute, Close, DropRoute, MoveHost, wakeVars
<1> QED
  BY <1>1, <1>2, <1>3, <1>4, <1>5, <1>6, <1>7, <1>8, <1>9, Steps

-----------------------------------------------------------------------------
(* The cell and its links *)

\* Marks by either party leave the life of the cell alone.
LEMMA MarkedLife ==
  ASSUME TypeOK, RouteLife, NEW t \in Threads, NEW g,
         Refused(t, g) \/ Coalesced(t, g) \/ Enqueued(t, g), host' = host
  PROVE  RouteLife'
<1>1. claim'["host"] = "initial" => claim["host"] = "initial"
  BY MarkFrame DEF Threads
<1> QED
  BY <1>1, MarkFrame DEF RouteLife

LEMMA RouteLifeStep == TypeOK /\ RouteLife /\ Counts /\ [Next]_vars => RouteLife'
<1> SUFFICES ASSUME TypeOK, RouteLife, Counts, [Next]_vars PROVE RouteLife'
  OBVIOUS
<1> USE DEF RouteLife, Open, Alive
<1>1. ASSUME NEW p \in Publishers, Change(p) \/ Moves(p) PROVE RouteLife'
  BY <1>1, PublisherFrame DEF Change, hostVars, routeVars, claimVars
<1>2. ASSUME NEW p \in Publishers, MarkSource(p) PROVE RouteLife'
  <2>1. host' = host /\ p \in Threads
    BY <1>2 DEF MarkSource, hostVars, Threads
  <2> QED
    BY <1>2, <2>1, PublisherMarks, MarkedLife
<1>3. ASSUME NEW t \in Threads, ClaimStep(t) PROVE RouteLife'
  <2>1. claim'["host"] = "initial" => claim["host"] = "initial"
    BY <1>3, ClaimFrame DEF Threads
  <2>2. ~route.closed => route'.signal
    <3>1. CASE RetireClaim(t)
      BY <3>1, Retirement DEF TypeOK, Routes
    <3>2. CASE ReturnRoute(t)
      BY <3>2 DEF ReturnRoute, Recycled, TypeOK, Routes
    <3>3. CASE TakeClaim(t) \/ RecordFault(t) \/ DiscardSignal(t)
      BY <3>3 DEF TakeClaim, RecordFault, DiscardSignal, TypeOK, Routes
    <3>4. ASSUME NEW rings \in BOOLEAN, NEW fails \in BOOLEAN, CallSignal(t, rings, fails)
          PROVE  ~route.closed => route'.signal
      BY <3>4 DEF CallSignal, routeVars
    <3> QED
      BY <1>3, <3>1, <3>2, <3>3, <3>4 DEF ClaimStep
  <2> QED
    BY <1>3, <2>1, <2>2, ClaimFrame
<1>4. CASE WaiterStep \/ WaitEnds
  BY <1>4, WaiterFrame
<1>5. CASE HostMoves
  <2>1. host' \in Open <=> host \in Open
    BY <1>5 DEF HostMoves, DrainToken, ChangedSince, WakeHost, HostTimeout, ReleasePrimitive,
      Closed, Inspect, MoveHost
  <2>2. host' \in Alive <=> host \in Alive
    BY <1>5 DEF HostMoves, DrainToken, ChangedSince, WakeHost, HostTimeout, ReleasePrimitive,
      Closed, Inspect, MoveHost
  <2> QED
    BY <1>5, <2>1, <2>2, HostFrame
<1>6. CASE InitialMark
  BY <1>6, HostMarks, MarkedLife DEF InitialMark, hostVars, Threads
<1>7. CASE PrepareWait
  BY <1>7 DEF PrepareWait, MoveHost, HostFree, claimVars, routeVars, TypeOK, Routes
<1>8. ASSUME NEW s \in Sources, Watch(s) \/ DropBinding(s) \/ Detach(s) PROVE RouteLife'
  <2>1. CASE Watch(s)
    BY <2>1 DEF Watch, MoveHost, routeVars, TypeOK, Threads
  <2>2. CASE DropBinding(s) \/ Detach(s)
    BY <2>2 DEF DropBinding, Detach, MoveHost, HostFree, routeVars, claimVars, hostVars
  <2> QED
    BY <1>8, <2>1, <2>2
<1>9. CASE CreateRoute
  <2>1. route.generation + 1 # 0
    BY RouteFields DEF TypeOK
  <2> QED
    BY <1>9, <2>1 DEF CreateRoute, MoveHost, HostFree, claimVars
<1>10. CASE Close
  <2>1. /\ route'.closed /\ route'.alive = route.alive /\ route'.occupied = route.occupied
        /\ route'.generation = route.generation
    BY <1>10 DEF Close, TypeOK, Routes
  <2> QED
    BY <1>10, <2>1 DEF Close, MoveHost, HostFree, claimVars
<1>11. CASE DropRoute
  <2>1. route'.closed = route.closed /\ ~route'.alive
    BY <1>11 DEF DropRoute, Recycled, TypeOK, Routes
  <2> QED
    BY <1>11, <2>1 DEF DropRoute, MoveHost, HostFree, claimVars
<1>12. CASE UNCHANGED vars
  BY <1>12 DEF vars
<1> QED
  BY <1>1, <1>2, <1>3, <1>4, <1>5, <1>6, <1>7, <1>8, <1>9, <1>10, <1>11, <1>12, Steps

LEMMA LinksStep == TypeOK /\ RouteLife /\ Links /\ [Next]_vars => Links'
<1> SUFFICES ASSUME TypeOK, RouteLife, Links, [Next]_vars PROVE Links'
  OBVIOUS
<1> USE DEF Links, Open
<1>1. ASSUME NEW p \in Publishers, Change(p) \/ Moves(p) PROVE Links'
  BY <1>1, PublisherFrame DEF Change, hostVars, routeVars, sourceVars
<1>2. ASSUME NEW p \in Publishers, MarkSource(p) PROVE Links'
  <2>1. route'.generation = route.generation
    BY <1>2, PublisherMarks, MarkFrame DEF Threads
  <2>2. /\ UNCHANGED <<host, held, watched>> /\ terminal \subseteq terminal'
        /\ \A s \in Sources : link'[s] = link[s] \/ (link'[s] = 0 /\ s \in terminal')
    BY <1>2 DEF MarkSource, hostVars, TypeOK
  <2> QED
    BY <2>1, <2>2 DEF TypeOK
<1>3. ASSUME NEW t \in Threads, ClaimStep(t) PROVE Links'
  BY <1>3, ClaimFrame
<1>4. CASE WaiterStep \/ WaitEnds
  BY <1>4, WaiterFrame
<1>5. CASE HostMoves
  <2>1. UNCHANGED <<link, route, held, terminal, watched>>
    BY <1>5, HostFrame
  <2>2. CASE Closed
    BY <2>1, <2>2 DEF Closed, MoveHost
  <2>3. CASE ~Closed
    <3>1. (host' \in Open <=> host \in Open) /\ (host' = "closing" <=> host = "closing")
      BY <1>5, <2>3 DEF HostMoves, DrainToken, ChangedSince, WakeHost, HostTimeout,
        ReleasePrimitive, Inspect, MoveHost
    <3> QED
      BY <2>1, <3>1
  <2> QED
    BY <2>2, <2>3
<1>6. CASE InitialMark
  BY <1>6, HostMarks, MarkFrame DEF InitialMark, sourceVars, hostVars, Threads
<1>7. CASE PrepareWait
  BY <1>7 DEF PrepareWait, MoveHost, sourceVars, routeVars, TypeOK, Routes
<1>8. ASSUME NEW s \in Sources, Watch(s) PROVE Links'
  <2>1. /\ host \in Open /\ host' = host /\ route' = route /\ held' = held \cup {s}
        /\ terminal' = terminal
    BY <1>8 DEF Watch, MoveHost, routeVars
  <2>2. CASE s \in terminal
    BY <1>8, <2>1, <2>2 DEF Watch
  <2>3. CASE s \notin terminal
    <3>1. link' = [link EXCEPT ![s] = route.generation] /\ watched' = watched \cup {s}
      BY <1>8, <2>3 DEF Watch
    <3> QED
      BY <2>1, <3>1 DEF TypeOK
  <2> QED
    BY <2>2, <2>3
<1>9. ASSUME NEW s \in Sources, DropBinding(s) \/ Detach(s) PROVE Links'
  <2>1. /\ link' = [link EXCEPT ![s] = 0] /\ UNCHANGED <<host, route, terminal, watched>>
        /\ held' = held \ {s} \/ host = "closing"
    BY <1>9 DEF DropBinding, Detach, Unlinked, MoveHost, routeVars, hostVars
  <2> QED
    BY <2>1 DEF TypeOK
<1>10. CASE CreateRoute
  BY <1>10 DEF CreateRoute, MoveHost, sourceVars
<1>11. CASE Close \/ DropRoute
  <2>1. route'.generation = route.generation
    BY <1>11 DEF Close, DropRoute, Recycled, TypeOK, Routes
  <2> QED
    BY <1>11, <2>1 DEF Close, DropRoute, MoveHost, sourceVars
<1>12. CASE UNCHANGED vars
  BY <1>12 DEF vars
<1> QED
  BY <1>1, <1>2, <1>3, <1>4, <1>5, <1>6, <1>7, <1>8, <1>9, <1>10, <1>11, <1>12, Steps

-----------------------------------------------------------------------------
(* Counting claims *)

LEMMA FiniteClaimants == IsFiniteSet(Claimants) /\ Cardinality(Claimants) \in Nat
<1>1. IsFiniteSet(Threads)
  BY WakeupAssumption, FS_AddElement DEF Threads
<1> QED
  BY <1>1, FS_Subset, FS_CardinalityType DEF Claimants

\* One thread's claim starts to be counted, ceases to be, or does not.
LEMMA OneClaim ==
  ASSUME TypeOK, NEW t \in Threads, \A u \in Threads \ {t} : claim'[u] = claim[u]
  PROVE  /\ (Claiming(t) <=> Claiming(t)') => Claimants' = Claimants
         /\ ~Claiming(t) /\ Claiming(t)' => Cardinality(Claimants') = Cardinality(Claimants) + 1
         /\ Claiming(t) /\ ~Claiming(t)' => Cardinality(Claimants') = Cardinality(Claimants) - 1
<1>1. (Claiming(t) <=> Claiming(t)') => Claimants' = Claimants
  BY DEF Claimants, Claiming
<1>2. ~Claiming(t) /\ Claiming(t)' => Claimants' = Claimants \cup {t} /\ t \notin Claimants
  BY DEF Claimants, Claiming
<1>3. Claiming(t) /\ ~Claiming(t)' => Claimants' = Claimants \ {t} /\ t \in Claimants
  BY DEF Claimants, Claiming
<1>4. ~Claiming(t) /\ Claiming(t)' => Cardinality(Claimants') = Cardinality(Claimants) + 1
  BY <1>2, FiniteClaimants, FS_AddElement
<1>5. Claiming(t) /\ ~Claiming(t)' => Cardinality(Claimants') = Cardinality(Claimants) - 1
  BY <1>3, FiniteClaimants, FS_RemoveElement
<1> QED
  BY <1>1, <1>4, <1>5

\* No count, no claim; and a count of one leaves no other.
LEMMA FewClaims ==
  ASSUME Counts, NEW t \in Threads, NEW u \in Threads, Claiming(t)
  PROVE  route.claims # 0 /\ (route.claims = 1 /\ Claiming(u) => t = u)
<1>1. t \in Claimants /\ (Claiming(u) => u \in Claimants)
  BY DEF Claimants
<1>2. route.claims = Cardinality(Claimants)
  BY DEF Counts
<1>3. route.claims # 0
  BY <1>1, <1>2, FiniteClaimants, FS_EmptySet
<1>4. route.claims = 1 => \E x : Claimants = {x}
  BY <1>2, FiniteClaimants, FS_Singleton
<1> QED
  BY <1>1, <1>3, <1>4

LEMMA MarkedCounts ==
  ASSUME TypeOK, RouteLife, Counts, NEW t \in Threads, NEW g, claim[t] \in {"none", "initial"},
         Refused(t, g) \/ Coalesced(t, g) \/ Enqueued(t, g), host' = host
  PROVE  Counts'
<1>1. CASE Refused(t, g) \/ Coalesced(t, g)
  <2>1. /\ claim'[t] = "none" /\ \A u \in Threads \ {t} : claim'[u] = claim[u]
        /\ route'.claims = route.claims /\ route'.queued = route.queued
        /\ route'.signal = route.signal /\ route'.closed = route.closed
        /\ route'.occupied = route.occupied
    BY <1>1 DEF Refused, Coalesced, TypeOK, Routes
  <2>2. Claimants' = Claimants
    BY <2>1, OneClaim DEF Claiming
  <2> QED
    BY <2>1, <2>2 DEF Counts
<1>2. CASE Enqueued(t, g)
  <2>1. /\ claim'[t] = "queued" /\ \A u \in Threads \ {t} : claim'[u] = claim[u]
        /\ route'.claims = route.claims + 1 /\ route'.queued /\ route'.signal = route.signal
        /\ ~route.closed /\ ~route'.closed /\ route'.occupied = route.occupied /\ ~route.queued
    BY <1>2 DEF Enqueued, Healthy, TypeOK, Routes
  <2>2. Cardinality(Claimants') = Cardinality(Claimants) + 1
    BY <2>1, OneClaim DEF Claiming
  <2>3. route.signal /\ route.occupied /\ host # "released"
    BY <2>1 DEF RouteLife, Open, Alive
  <2>4. \A u \in Threads : claim[u] # "queued"
    BY <2>1 DEF Counts
  <2> QED
    BY <2>1, <2>2, <2>3, <2>4 DEF Counts
<1> QED
  BY <1>1, <1>2

\* A claim on its way to the signal, at it, and back.
LEMMA ClaimCounts ==
  ASSUME TypeOK, RouteLife, Counts, NEW t \in Threads, ClaimStep(t)
  PROVE  Counts'
<1>0. \A u \in Threads \ {t} : claim'[u] = claim[u]
  BY ClaimFrame
<1>1. host' = host
  BY ClaimFrame
<1>2. CASE TakeClaim(t)
  <2>1. /\ claim[t] = "queued" /\ claim'[t] = "taken" /\ ~route'.queued
        /\ route'.claims = route.claims /\ route'.signal = route.signal
        /\ route'.closed = route.closed /\ route'.occupied = route.occupied
    BY <1>2 DEF TakeClaim, TypeOK, Routes
  <2>2. Claimants' = Claimants
    BY <1>0, <2>1, OneClaim DEF Claiming
  <2> QED
    BY <1>0, <1>1, <2>1, <2>2 DEF Counts
<1>3. ASSUME NEW rings \in BOOLEAN, NEW fails \in BOOLEAN, CallSignal(t, rings, fails)
      PROVE  Counts'
  <2>1. claim[t] = "taken" /\ claim'[t] \in {"failed", "called"} /\ route' = route
    BY <1>3 DEF CallSignal, TypeOK, routeVars
  <2>2. Claimants' = Claimants
    BY <1>0, <2>1, OneClaim DEF Claiming
  <2> QED
    BY <1>0, <1>1, <2>1, <2>2 DEF Counts
<1>4. CASE RecordFault(t)
  <2>1. /\ claim[t] = "failed" /\ claim'[t] = "called"
        /\ route'.claims = route.claims /\ route'.signal = route.signal
        /\ route'.queued = route.queued
        /\ route'.closed = route.closed /\ route'.occupied = route.occupied
    BY <1>4 DEF RecordFault, TypeOK, Routes
  <2>2. Claimants' = Claimants
    BY <1>0, <2>1, OneClaim DEF Claiming
  <2> QED
    BY <1>0, <1>1, <2>1, <2>2 DEF Counts
<1>5. CASE RetireClaim(t)
  <2>1. claim[t] = "called"
    BY <1>5 DEF RetireClaim
  <2>2. CASE route.closed /\ route.claims = 1
    <3>1. /\ claim'[t] = "discard" /\ ~route'.signal
          /\ route'.claims = route.claims /\ route'.queued = route.queued
          /\ route'.closed = route.closed /\ route'.occupied = route.occupied
      BY <1>5, <2>2, Retirement DEF TypeOK, Routes
    <3>2. Claimants' = Claimants
      BY <1>0, <2>1, <3>1, OneClaim DEF Claiming
    <3>3. \A u \in Threads \ {t} : ~Claiming(u)
      BY <2>1, <2>2, FewClaims DEF Claiming
    <3> QED
      BY <1>0, <1>1, <2>1, <2>2, <3>1, <3>2, <3>3 DEF Counts, Claiming
  <2>3. CASE ~(route.closed /\ route.claims = 1)
    <3>1. /\ claim'[t] = "return" /\ route'.signal = route.signal
          /\ route'.claims = route.claims - 1 /\ route'.queued = route.queued
          /\ route'.closed = route.closed /\ route'.occupied = route.occupied
      BY <1>5, <2>3, Retirement DEF TypeOK, Routes
    <3>2. Cardinality(Claimants') = Cardinality(Claimants) - 1
      BY <1>0, <2>1, <3>1, OneClaim DEF Claiming
    <3>3. route.claims # 0 /\ route.claims \in Int
      BY <2>1, FewClaims, RouteFields DEF Claiming, TypeOK
    <3>4. route'.closed => route'.claims # 0
      BY <2>3, <3>1, <3>3
    <3> QED
      BY <1>0, <1>1, <2>1, <3>1, <3>2, <3>3, <3>4 DEF Counts
  <2> QED
    BY <2>2, <2>3
<1>6. CASE DiscardSignal(t)
  <2>1. /\ claim[t] = "discard" /\ claim'[t] = "return" /\ route'.signal = route.signal
        /\ route'.claims = route.claims - 1 /\ route'.queued = route.queued
        /\ route'.closed = route.closed /\ route'.occupied = route.occupied
    BY <1>6 DEF DiscardSignal, TypeOK, Routes
  <2>2. Cardinality(Claimants') = Cardinality(Claimants) - 1
    BY <1>0, <2>1, OneClaim DEF Claiming
  <2>3. route.claims # 0 /\ ~route.signal
    BY <2>1, FewClaims DEF Claiming, Counts
  <2> QED
    BY <1>0, <1>1, <2>1, <2>2, <2>3 DEF Counts
<1>7. CASE ReturnRoute(t)
  <2>1. /\ claim[t] = "return" /\ claim'[t] = "none"
        /\ route'.claims = route.claims /\ route'.queued = route.queued
        /\ route'.closed = route.closed
        /\ \/ route'.signal = route.signal /\ route'.occupied = route.occupied
           \/ ~route'.signal /\ route.claims = 0
    BY <1>7 DEF ReturnRoute, Recycled, TypeOK, Routes
  <2>2. Claimants' = Claimants
    BY <1>0, <2>1, OneClaim DEF Claiming
  <2>3. route.claims = 0 => \A u \in Threads : ~Claiming(u)
    BY FewClaims
  <2> QED
    BY <1>0, <1>1, <2>1, <2>2, <2>3 DEF Counts, Claiming
<1> QED
  BY <1>2, <1>3, <1>4, <1>5, <1>6, <1>7 DEF ClaimStep

LEMMA CountsStep ==
  TypeOK /\ PublisherOrder /\ RouteLife /\ Counts /\ [Next]_vars => Counts'
<1> SUFFICES ASSUME TypeOK, PublisherOrder, RouteLife, Counts, [Next]_vars PROVE Counts'
  OBVIOUS
<1>0. ASSUME UNCHANGED <<route, claim>>, host' = "released" => host = "released" \/ route.claims = 0
      PROVE  Counts'
  <2>1. Claimants' = Claimants
    BY <1>0 DEF Claimants, Claiming
  <2> QED
    BY <1>0, <2>1 DEF Counts
<1>1. ASSUME NEW p \in Publishers, Change(p) \/ Moves(p) PROVE Counts'
  BY <1>0, <1>1, PublisherFrame DEF Change, hostVars, routeVars, claimVars
<1>2. ASSUME NEW p \in Publishers, MarkSource(p) PROVE Counts'
  <2>1. host' = host /\ p \in Threads /\ claim[p] = "none"
    BY <1>2 DEF MarkSource, Advance, hostVars, Threads, PublisherOrder
  <2> QED
    BY <1>0, <1>2, <2>1, PublisherMarks, MarkedCounts
<1>3. ASSUME NEW t \in Threads, ClaimStep(t) PROVE Counts'
  BY <1>3, ClaimCounts
<1>4. CASE WaiterStep \/ WaitEnds
  BY <1>0, <1>4, WaiterFrame
<1>5. CASE HostMoves
  <2>1. host' = "released" => host = "released" \/ route.claims = 0
    BY <1>5 DEF HostMoves, DrainToken, ChangedSince, WakeHost, HostTimeout, ReleasePrimitive,
      Closed, Inspect, MoveHost
  <2> QED
    BY <1>0, <1>5, <2>1, HostFrame
<1>6. CASE InitialMark
  BY <1>6, HostMarks, MarkedCounts DEF InitialMark, hostVars, Threads
<1>7. CASE PrepareWait
  <2>1. /\ route'.claims = route.claims /\ route'.queued = route.queued
        /\ route'.closed = route.closed /\ route'.occupied = route.occupied
        /\ route'.signal = route.signal
    BY <1>7 DEF PrepareWait, routeVars, TypeOK, Routes
  <2>2. claim' = claim /\ host' # "released"
    BY <1>7 DEF PrepareWait, MoveHost, claimVars
  <2>3. Claimants' = Claimants
    BY <2>2 DEF Claimants, Claiming
  <2> QED
    BY <2>1, <2>2, <2>3 DEF Counts
<1>8. ASSUME NEW s \in Sources, Watch(s) PROVE Counts'
  <2>1. /\ claim["host"] = "none" /\ claim'["host"] = "initial" /\ route' = route /\ host' = host
        /\ \A u \in Threads \ {"host"} : claim'[u] = claim[u]
    BY <1>8 DEF Watch, MoveHost, HostFree, routeVars, TypeOK, Threads
  <2>2. Claimants' = Claimants
    BY <2>1, OneClaim DEF Claiming, Threads
  <2> QED
    BY <2>1, <2>2 DEF Counts, Threads
<1>9. ASSUME NEW s \in Sources, DropBinding(s) \/ Detach(s) PROVE Counts'
  BY <1>0, <1>9 DEF DropBinding, Detach, MoveHost, routeVars, claimVars, hostVars
<1>10. CASE CreateRoute
  <2>1. route.claims = 0 /\ claim' = claim /\ host' = "ready"
    BY <1>10 DEF CreateRoute, MoveHost, Counts, claimVars
  <2>2. \A t \in Threads : ~Claiming(t)
    BY <2>1, FewClaims
  <2>3. route'.claims = 0 /\ ~route'.queued /\ route'.signal /\ ~route'.closed /\ route'.occupied
    BY <1>10 DEF CreateRoute
  <2>4. Claimants' = Claimants
    BY <2>1 DEF Claimants, Claiming
  <2> QED
    BY <2>1, <2>2, <2>3, <2>4 DEF Counts, Claiming
<1>11. CASE Close
  <2>1. /\ route'.claims = route.claims /\ route'.queued = route.queued
        /\ route'.closed /\ route'.occupied = route.occupied
        /\ route'.signal <=> route.claims # 0
    BY <1>11, Closing DEF TypeOK, Routes
  <2>2. claim' = claim /\ host' = "closing" /\ host = "ready"
    BY <1>11 DEF Close, MoveHost, claimVars
  <2>3. Claimants' = Claimants
    BY <2>2 DEF Claimants, Claiming
  <2>4. \A t \in Threads : Claiming(t) => route.claims # 0
    BY FewClaims
  <2>5. ~route.closed
    BY <2>2 DEF RouteLife, Open
  <2> QED
    BY <2>1, <2>2, <2>3, <2>4, <2>5 DEF Counts, Claiming
<1>12. CASE DropRoute
  <2>1. /\ route'.claims = route.claims /\ route'.queued = route.queued
        /\ route'.closed = route.closed
        /\ \/ route'.signal = route.signal /\ route'.occupied = route.occupied
           \/ ~route'.signal /\ route.claims = 0
    BY <1>12 DEF DropRoute, Recycled, TypeOK, Routes
  <2>2. claim' = claim /\ host' = "dropped"
    BY <1>12 DEF DropRoute, MoveHost, claimVars
  <2>3. Claimants' = Claimants
    BY <2>2 DEF Claimants, Claiming
  <2>4. \A t \in Threads : Claiming(t) => route.claims # 0
    BY FewClaims
  <2> QED
    BY <2>1, <2>2, <2>3, <2>4 DEF Counts, Claiming
<1>13. CASE UNCHANGED vars
  BY <1>0, <1>13 DEF vars
<1> QED
  BY <1>1, <1>2, <1>3, <1>4, <1>5, <1>6, <1>7, <1>8, <1>9, <1>10, <1>11, <1>12, <1>13, Steps

-----------------------------------------------------------------------------
(* The arm, inspect and park protocol *)

\* A mark on the armed route clears the epoch, and its signal call is owed.
LEMMA ArmedMark ==
  ASSUME TypeOK, Counts, ArmOrder, NEW t \in Threads, NEW g, claim[t] \in {"none", "initial"},
         Refused(t, g) \/ Coalesced(t, g) \/ Enqueued(t, g), UNCHANGED <<host, token>>
  PROVE  /\ (armed => ~route.pending)' /\ Marked'
         /\ Healthy' = Healthy /\ (route.generation = g /\ Healthy => ~armed')
<1>1. Healthy' = Healthy /\ \A u \in Threads \ {t} : claim'[u] = claim[u]
  BY MarkFrame DEF Healthy
<1>2. \A u \in Threads : Calling(u) => Calling(u)'
  BY <1>1 DEF Calling
<1>3. CASE Refused(t, g)
  BY <1>1, <1>2, <1>3 DEF Refused, ArmOrder, Marked
<1>4. CASE Coalesced(t, g)
  <2>1. armed => \E u \in Threads : Calling(u)
    BY <1>4 DEF Coalesced, ArmOrder, Counts, Calling
  <2> QED
    BY <1>1, <1>2, <1>4, <2>1 DEF Coalesced, ArmOrder, Marked
<1>5. CASE Enqueued(t, g)
  <2>1. Calling(t)'
    BY <1>5 DEF Enqueued, Calling, TypeOK
  <2> QED
    BY <1>1, <1>5, <2>1 DEF Enqueued, Marked
<1> QED
  BY <1>3, <1>4, <1>5

\* A publisher of a bound source finds the gate open and the route linked.
LEMMA BoundSource ==
  ASSUME TypeOK, PublisherOrder, CompletesOnce, RouteLife, Links, host \in Open,
         NEW p \in Publishers, SourceOf[p] \in held
  PROVE  /\ publisher[p] = "gate" => SourceOf[p] \in watched
         /\ publisher[p] = "mark" => /\ SourceOf[p] \notin terminal
                                     /\ link[SourceOf[p]] = route.generation
         /\ route.generation # 0
<1>1. publisher[p] \in {"gate", "mark"} => SourceOf[p] \notin terminal
  BY DEF PublisherOrder, CompletesOnce
<1> QED
  BY <1>1 DEF Links, RouteLife, Alive

LEMMA ArmOrderClaims ==
  ASSUME TypeOK, ArmOrder, NEW t \in Threads, ClaimStep(t)
  PROVE  ArmOrder'
<1> USE DEF ArmOrder
<1>1. Healthy' => Healthy
  <2>1. ASSUME NEW rings \in BOOLEAN, NEW fails \in BOOLEAN, CallSignal(t, rings, fails)
        PROVE  Healthy' => Healthy
    BY <2>1 DEF CallSignal, routeVars, Healthy
  <2>2. CASE TakeClaim(t) \/ RecordFault(t) \/ DiscardSignal(t)
    BY <2>2 DEF TakeClaim, RecordFault, DiscardSignal, TypeOK, Routes, Healthy
  <2>3. CASE RetireClaim(t)
    BY <2>3, Retirement DEF TypeOK, Routes, Healthy
  <2>4. CASE ReturnRoute(t)
    BY <2>4 DEF ReturnRoute, Recycled, TypeOK, Routes, Healthy
  <2> QED
    BY <2>1, <2>2, <2>3, <2>4 DEF ClaimStep
<1>2. claim["host"] = "initial" => claim'["host"] = "initial"
  BY ClaimFrame DEF Threads
<1>3. Inspected'
  <2>1. UNCHANGED <<version, publisher, armed, host, unread, seen, held>>
    BY ClaimFrame
  <2>2. \A s : Coming(s)' <=> Coming(s)
    BY <2>1 DEF Coming
  <2> QED
    BY <1>1, <1>2, <2>1, <2>2 DEF Inspected
<1>4. Marked'
  <2>0. \A u \in Threads \ {t} : Calling(u) => Calling(u)'
    BY ClaimFrame DEF Calling
  <2>1. CASE TakeClaim(t)
    <3>1. Calling(t)' /\ token' = token
      BY <2>1 DEF TakeClaim, Calling, TypeOK
    <3> QED
      BY <3>1 DEF Marked
  <2>2. ASSUME NEW rings \in BOOLEAN, NEW fails \in BOOLEAN, CallSignal(t, rings, fails)
        PROVE  Marked'
    <3>1. token' \/ Calling(t)'
      BY <2>2 DEF CallSignal, Calling, TypeOK
    <3> QED
      BY <3>1 DEF Marked
  <2>3. CASE RecordFault(t)
    BY <2>3 DEF RecordFault, Marked, Healthy, TypeOK, Routes
  <2>4. CASE RetireClaim(t) \/ DiscardSignal(t) \/ ReturnRoute(t)
    <3>1. ~Calling(t) /\ token' = token
      BY <2>4 DEF RetireClaim, DiscardSignal, ReturnRoute, Calling
    <3>2. \A u \in Threads : Calling(u) => Calling(u)'
      BY <2>0, <3>1
    <3> QED
      BY <1>1, <3>1, <3>2, ClaimFrame DEF Marked
  <2> QED
    BY <2>1, <2>2, <2>3, <2>4 DEF ClaimStep
<1> QED
  BY <1>3, <1>4, ClaimFrame

LEMMA ArmOrderPublishers ==
  ASSUME TypeOK, PublisherOrder, CompletesOnce, RouteLife, Links, Counts, ArmOrder,
         NEW p \in Publishers, Change(p) \/ Moves(p) \/ MarkSource(p)
  PROVE  ArmOrder'
<1> USE DEF ArmOrder
<1>1. CASE Change(p)
  <2>1. UNCHANGED <<route, armed, claim, token, host, unread, seen, held>>
    BY <1>1 DEF Change, routeVars, claimVars, hostVars
  <2>2. publisher[p] = "idle" /\ \A q \in Publishers \ {p} : publisher'[q] = publisher[q]
    BY <1>1 DEF Change, Advance, TypeOK
  <2>3. publisher'[p] \in {"notify", "mark"}
    BY <1>1 DEF Change, Advance, TypeOK
  <2>4. \A s \in Sources : version'[s] = version[s] \/ SourceOf[p] = s
    BY <1>1 DEF Change, TypeOK
  <2>5. \A s \in Sources : Coming(s)' <=> Coming(s) \/ SourceOf[p] = s
    BY <2>2, <2>3 DEF Coming
  <2>6. Inspected'
    BY <2>1, <2>4, <2>5 DEF Inspected, Healthy, TypeOK
  <2>7. Marked'
    BY <2>1 DEF Marked, Healthy, Calling
  <2> QED
    BY <2>1, <2>6, <2>7
<1>2. CASE Moves(p)
  <2>1. UNCHANGED <<version, route, armed, claim, token, host, unread, seen, held>>
    BY <1>2, PublisherFrame
  <2>2. \A q \in Publishers \ {p} : publisher'[q] = publisher[q]
    BY <1>2, PublisherFrame DEF TypeOK
  <2>3. \/ publisher'[p] \in {"notify", "count", "wake", "gate", "mark"}
        \/ publisher[p] = "drain"
        \/ publisher[p] = "gate" /\ SourceOf[p] \notin watched
    BY <1>2 DEF Moves, ReadEnabled, CountGeneration, NotifyAll, ReadWatched, EndScope, Advance,
      TypeOK
  <2>4. host \in Open => \A s \in held : Coming(s) => Coming(s)'
    BY <2>2, <2>3, BoundSource DEF Coming
  <2>5. Inspected'
    BY <2>1, <2>4 DEF Inspected, Healthy, Open
  <2>6. Marked'
    BY <2>1 DEF Marked, Healthy, Calling
  <2> QED
    BY <2>1, <2>5, <2>6
<1>3. CASE MarkSource(p)
  <2>1. UNCHANGED <<version, token, host, unread, seen, held>> /\ publisher[p] = "mark"
    BY <1>3 DEF MarkSource, Advance, hostVars
  <2>2. \A q \in Publishers \ {p} : publisher'[q] = publisher[q]
    BY <1>3 DEF MarkSource, Advance, TypeOK
  <2>3. claim[p] = "none" /\ p \in Threads /\ p # "host"
    BY <2>1, WakeupAssumption DEF PublisherOrder, Threads
  <2>4. CASE /\ UNCHANGED <<route, armed, claim>>
             /\ SourceOf[p] \in terminal \/ link[SourceOf[p]] = 0
    <3>1. host \in Open => \A s \in held : Coming(s) => Coming(s)'
      BY <2>1, <2>2, <2>4, BoundSource DEF Coming
    <3>2. Inspected'
      BY <2>1, <2>4, <3>1 DEF Inspected, Healthy, Open
    <3> QED
      BY <2>1, <2>4, <3>2 DEF Marked, Healthy, Calling
  <2>5. CASE \/ Refused(p, link[SourceOf[p]])
             \/ Coalesced(p, link[SourceOf[p]])
             \/ Enqueued(p, link[SourceOf[p]])
    <3>1. /\ (armed => ~route.pending)' /\ Marked' /\ Healthy' = Healthy
          /\ route.generation = link[SourceOf[p]] /\ Healthy => ~armed'
      BY <2>1, <2>3, <2>5, ArmedMark
    <3>2. claim'["host"] = claim["host"]
      BY <2>3, <2>5, MarkFrame DEF Threads
    <3>3. armed' => armed
      BY <2>5 DEF Refused, Coalesced, Enqueued
    <3>4. host \in Open /\ Healthy /\ armed' => SourceOf[p] \notin held
      BY <2>1, <3>1, BoundSource
    <3>5. host \in Open /\ Healthy /\ armed' => \A s \in held : Coming(s) => Coming(s)'
      BY <2>2, <3>4 DEF Coming
    <3>6. Inspected'
      BY <2>1, <3>1, <3>2, <3>3, <3>5 DEF Inspected, Open
    <3> QED
      BY <2>1, <3>1, <3>6
  <2> QED
    BY <1>3, <2>4, <2>5, PublisherMarks
<1> QED
  BY <1>1, <1>2, <1>3

LEMMA ArmOrderHost ==
  ASSUME TypeOK, ArmOrder, HostMoves
  PROVE  ArmOrder'
<1> USE DEF ArmOrder
<1>0. UNCHANGED <<version, publisher, route, armed, claim, held>> /\ claim["host"] = "none"
  BY HostFrame
<1>1. CASE DrainToken \/ WakeHost \/ HostTimeout \/ ReleasePrimitive \/ Closed
  <2>1. host' \in {"drained", "ready", "released", "closed"}
    BY <1>1 DEF DrainToken, WakeHost, HostTimeout, ReleasePrimitive, Closed, MoveHost
  <2> QED
    BY <1>0, <2>1 DEF Inspected, Marked
<1>2. CASE ChangedSince
  <2>1. /\ host = "compare" /\ host' \in {"waiting", "ready"} /\ (host' = "waiting" => armed)
        /\ UNCHANGED <<token, unread, seen>>
    BY <1>2 DEF ChangedSince, MoveHost
  <2> QED
    BY <1>0, <2>1 DEF Inspected, Marked, Healthy, Coming
<1>3. ASSUME NEW s \in Sources, Inspect(s) PROVE ArmOrder'
  <2>1. /\ host = "inspect" /\ host' \in {"inspect", "compare"}
        /\ unread' = unread \ {s} /\ (host' = "compare" => unread' = {})
    BY <1>3 DEF Inspect, MoveHost
  <2>2. \A x \in Sources : seen'[x] = version[x] \/ (x # s /\ seen'[x] = seen[x])
    BY <1>3 DEF Inspect, TypeOK
  <2>3. Inspected'
    BY <1>0, <2>1, <2>2 DEF Inspected, Healthy, Coming, TypeOK
  <2> QED
    BY <1>0, <2>1, <2>3 DEF Marked
<1> QED
  BY <1>1, <1>2, <1>3 DEF HostMoves

LEMMA ArmOrderStep ==
  /\ TypeOK /\ PublisherOrder /\ CompletesOnce /\ WakeOrder /\ RouteLife /\ Links /\ Counts
  /\ ArmOrder /\ [Next]_vars
  => ArmOrder'
<1> SUFFICES ASSUME TypeOK, PublisherOrder, CompletesOnce, WakeOrder, RouteLife, Links, Counts,
                    ArmOrder, [Next]_vars
             PROVE  ArmOrder'
  OBVIOUS
<1> USE DEF ArmOrder
<1>1. ASSUME NEW p \in Publishers, Change(p) \/ Moves(p) \/ MarkSource(p) PROVE ArmOrder'
  BY <1>1, ArmOrderPublishers
<1>2. ASSUME NEW t \in Threads, ClaimStep(t) PROVE ArmOrder'
  BY <1>2, ArmOrderClaims
<1>3. CASE WaiterStep \/ WaitEnds
  <2>1. UNCHANGED <<version, publisher, route, armed, claim, token, host, unread, held>>
    BY <1>3, WaiterFrame
  <2>2. host \in {"absent", "dropped"} \/ seen' = seen
    BY <1>3 DEF WakeOrder, WaiterStep, WaitEnds, Enable, SampleGeneration, InspectProgress,
      CompareGeneration, Park, MoveWaiter, hostVars
  <2> QED
    BY <2>1, <2>2 DEF Inspected, Marked, Healthy, Coming, Calling
<1>4. CASE HostMoves
  BY <1>4, ArmOrderHost
<1>5. CASE InitialMark
  <2>1. /\ claim["host"] = "initial"
        /\ UNCHANGED <<version, publisher, token, host, unread, seen, held>>
    BY <1>5 DEF InitialMark, hostVars
  <2>2. (armed => ~route.pending)' /\ Marked' /\ (Healthy' => ~armed')
    BY <1>5, <2>1, HostMarks, ArmedMark DEF Threads
  <2> QED
    BY <2>1, <2>2 DEF Inspected
<1>6. CASE PrepareWait
  <2>1. CASE route.fault
    BY <1>6, <2>1 DEF PrepareWait, MoveHost, routeVars, Inspected, Marked
  <2>2. CASE ~route.fault
    BY <1>6, <2>2 DEF PrepareWait, MoveHost, Inspected, Marked, TypeOK, Routes
  <2> QED
    BY <2>1, <2>2
<1>7. ASSUME NEW s \in Sources, Watch(s) \/ DropBinding(s) \/ Detach(s) PROVE ArmOrder'
  <2>1. UNCHANGED <<route, armed, unread>>
    BY <1>7 DEF Watch, DropBinding, Detach, routeVars, hostVars
  <2>2. host' = host /\ host # "waiting"
    BY <1>7 DEF Watch, DropBinding, Detach, MoveHost, hostVars
  <2>3. host \in {"inspect", "compare"} => claim'["host"] = "initial"
    BY <1>7 DEF Watch, DropBinding, Detach, MoveHost, hostVars, TypeOK, Threads
  <2> QED
    BY <2>1, <2>2, <2>3 DEF Inspected, Marked
<1>8. CASE CreateRoute
  BY <1>8 DEF CreateRoute, MoveHost, Inspected, Marked
<1>9. CASE Close \/ DropRoute
  <2>1. route'.pending = route.pending /\ armed' = armed
    BY <1>9 DEF Close, DropRoute, Recycled, TypeOK, Routes
  <2>2. host' \in {"closing", "dropped"}
    BY <1>9 DEF Close, DropRoute, MoveHost
  <2> QED
    BY <2>1, <2>2 DEF Inspected, Marked
<1>10. CASE UNCHANGED vars
  BY <1>10 DEF vars, Inspected, Marked, Healthy, Coming, Calling
<1> QED
  BY <1>1, <1>2, <1>3, <1>4, <1>5, <1>6, <1>7, <1>8, <1>9, <1>10, Steps

-----------------------------------------------------------------------------
(* Theorems *)

LEMMA Initially == Init => IInv
<1> SUFFICES ASSUME Init PROVE IInv
  OBVIOUS
<1>1. TypeOK
  BY TypeInit
<1>2. PublisherOrder /\ CompletesOnce
  BY DEF Init, PublisherOrder, CompletesOnce, Threads, Sources
<1>3. WakeOrder /\ ArmOrder
  BY DEF Init, WakeOrder, ArmOrder, Inspected, Marked
<1>4. RouteLife /\ Links
  BY DEF Init, RouteLife, Links, Open, Alive, Threads
<1>5. Counts
  <2>1. Claimants = {} /\ \A t \in Threads : claim[t] = "none"
    BY DEF Init, Claimants, Claiming
  <2>2. Cardinality(Claimants) = 0
    BY <2>1, FS_EmptySet
  <2> QED
    BY <2>1, <2>2 DEF Init, Counts
<1> QED
  BY <1>1, <1>2, <1>3, <1>4, <1>5 DEF IInv

LEMMA Inductive == Spec => []IInv
<1>1. Init => IInv
  BY Initially
<1>2. IInv /\ [Next]_vars => IInv'
  BY TypeStep, PublisherOrderStep, CompletesOnceStep, WakeOrderStep, RouteLifeStep, LinksStep,
    CountsStep, ArmOrderStep DEF IInv
<1> QED
  BY <1>1, <1>2, PTL DEF Spec

\* The variables keep their types whatever the number of publishers and routes.
THEOREM TypeCorrect == Spec => []TypeOK
<1>1. IInv => TypeOK
  BY DEF IInv
<1> QED
  BY <1>1, Inductive, PTL

\* Nobody sleeps on the wake's condition variable past a change it has not seen
\* (SWWake::generation, wait_since and notify), for any number of publishers.
THEOREM WakesArrive == Spec => []NoLostWake
<1>1. IInv => NoLostWake
  <2> SUFFICES ASSUME IInv, waiter \in {"parking", "parked"}, seen["progress"] # version["progress"]
               PROVE  \E p \in Publishers : \/ publisher[p] = "notify" /\ enabled
                                            \/ publisher[p] \in {"count", "wake"}
    BY DEF NoLostWake
  <2>1. CASE sampled
    BY <2>1 DEF IInv, WakeOrder
  <2>2. CASE ~sampled
    BY <2>2 DEF IInv, WakeOrder
  <2> QED
    BY <2>1, <2>2 DEF IInv, TypeOK
<1> QED
  BY <1>1, Inductive, PTL

\* Nobody sleeps on its own primitive past a change of a source it is bound to
\* (prepare_wait, changed_since and mark_changed), for any number of publishers.
THEOREM SignalsArrive == Spec => []NoLostSignal
<1>1. IInv => NoLostSignal
  <2> SUFFICES ASSUME IInv, NEW s \in held, host = "waiting", Healthy, seen[s] # version[s]
               PROVE  token \/ (\E t \in Threads : Calling(t)) \/ Coming(s)
    BY DEF NoLostSignal, Coming
  <2>1. CASE armed
    <3>1. claim["host"] # "initial" /\ unread = {}
      BY DEF IInv, RouteLife, ArmOrder
    <3> QED
      BY <2>1, <3>1 DEF IInv, ArmOrder, Inspected
  <2>2. CASE ~armed
    BY <2>2 DEF IInv, ArmOrder, Marked
  <2> QED
    BY <2>1, <2>2
<1> QED
  BY <1>1, Inductive, PTL

\* Whoever is told the route is quiescent may release what its signal uses, and
\* the cell may be reused (is_quiescent, maybe_return_route), for any number of
\* publishers and however often the cell has been.
THEOREM QuietMeansQuiescent == Spec => []QuiescenceHolds
<1>1. IInv => QuiescenceHolds
  <2> SUFFICES ASSUME IInv PROVE QuiescenceHolds
    OBVIOUS
  <2>1. route.claims = Cardinality({t \in Threads : Claiming(t)})
    BY DEF IInv, Counts, Claimants
  <2>2. Cardinality({t \in Threads : claim[t] = "queued"}) <= 1
    <3> DEFINE Queued == {t \in Threads : claim[t] = "queued"}
    <3>1. CASE Queued = {}
      BY <3>1, FS_EmptySet
    <3>2. ASSUME NEW t \in Queued PROVE Cardinality(Queued) <= 1
      <4>1. Queued = {t}
        BY DEF IInv, Counts
      <4>2. Cardinality({t}) = 1
        BY FS_Singleton
      <4> QED
        BY <4>1, <4>2
    <3> QED
      BY <3>1, <3>2
  <2>3. \A t \in Threads : claim[t] = "taken" => route.signal
    BY DEF IInv, Counts
  <2>4. ASSUME host = "released" \/ ~route.occupied
        PROVE  /\ \A t \in Threads : ~Claiming(t)
               /\ \A s \in Sources : link[s] = 0 /\ ~route.signal
    <3>1. route.claims = 0 /\ \A t \in Threads : ~Claiming(t)
      BY <2>4, FewClaims DEF IInv, Counts
    <3>2. host \notin Open \cup {"closing"}
      BY <2>4 DEF IInv, RouteLife, Open, Alive
    <3> QED
      BY <3>1, <3>2 DEF IInv, Counts, Links, RouteLife
  <2> QED
    BY <2>1, <2>2, <2>3, <2>4 DEF QuiescenceHolds
<1> QED
  BY <1>1, Inductive, PTL

-----------------------------------------------------------------------------
(* GroupWait *)

\* Members that have joined and not left.
Inside == {j \in Jobs : member[j] \notin {"absent", "left"}}

\* Completion is decided once, on a sealed group without members, before it is
\* shown and before it is announced.
CompletionOrder ==
  /\ pending = Cardinality(Inside)
  /\ publishing => sealed /\ Inside = {}
  /\ complete => publishing
  /\ announced => complete

\* A thread that looked for work and found none, and has not heard of a change
\* since.
Satisfied(w) == \/ waiting[w] = "park" /\ w \in fresh
                \/ waiting[w] \in {"parking", "parked"}

\* NoLostWakeup from the moment a thread has found nothing to help.
NothingMissed ==
  \A w \in Waiters :
    /\ Satisfied(w) /\ ~cut => Ready \subseteq owed
    /\ waiting[w] \in {"parking", "parked"} /\ complete => ~announced

GroupInv == GroupTypeOK /\ CompletionOrder /\ NothingMissed

-----------------------------------------------------------------------------

LEMMA GroupTypeInit == GroupInit => GroupTypeOK
<1> SUFFICES ASSUME GroupInit PROVE GroupTypeOK
  OBVIOUS
<1>1. /\ pending \in Int /\ fresh \subseteq Waiters
      /\ demoted \subseteq Jobs /\ owed \subseteq Jobs
  BY DEF GroupInit
<1>2. /\ sealed \in BOOLEAN /\ publishing \in BOOLEAN /\ complete \in BOOLEAN
      /\ announced \in BOOLEAN /\ cut \in BOOLEAN
  BY DEF GroupInit
<1>3. /\ member \in [Jobs -> {"absent"}] /\ waiting \in [Waiters -> {"idle"}]
      /\ helping \in [Waiters -> {None}]
  BY DEF GroupInit
<1> QED
  BY <1>1, <1>2, <1>3 DEF GroupTypeOK

LEMMA GroupTypeStep == GroupTypeOK /\ [GroupNext]_allVars => GroupTypeOK'
<1> SUFFICES ASSUME GroupTypeOK, [GroupNext]_allVars PROVE GroupTypeOK'
  OBVIOUS
<1> USE GroupAssumption DEF GroupTypeOK, groupVars, signalVars, jobVars, waitVars,
  Become, Changed, Woken, Terminal, Move
<1>1. ASSUME NEW j \in Jobs,
             \/ Add(j) \/ Demote(j) \/ Suppress(j) \/ WorkerClaim(j)
             \/ Activate(j) \/ NotifyReady(j) \/ BodyEnds(j) \/ Finish(j)
      PROVE  GroupTypeOK'
  BY <1>1 DEF Add, Demote, Suppress, WorkerClaim, Activate, NotifyReady,
    BodyEnds, Finish
<1>2. CASE Seal \/ Abandon \/ PublishStatus \/ PublishNotify
  BY <1>2 DEF Seal, Abandon, PublishStatus, PublishNotify
<1>3. ASSUME NEW w \in Waiters, Call(w) \/ WakeSpuriously(w) PROVE GroupTypeOK'
  BY <1>3 DEF Call, WakeSpuriously
<1>4. ASSUME NEW w \in Waiters, WaitStep(w) PROVE GroupTypeOK'
  BY <1>4 DEF WaitStep, CheckComplete, ReadGeneration, Help, MissHelp,
    ReturnFromHelp, WaitChange, ParkWaiter, Ready
<1>5. CASE UNCHANGED allVars
  BY <1>5 DEF allVars
<1> QED
  BY <1>1, <1>2, <1>3, <1>4, <1>5 DEF GroupNext, GroupEnvironment, MemberStep

-----------------------------------------------------------------------------
(* Completion *)

LEMMA CompletionInit == GroupInit => CompletionOrder
<1> SUFFICES ASSUME GroupInit PROVE CompletionOrder
  OBVIOUS
<1>1. Inside = {}
  BY DEF GroupInit, Inside
<1> QED
  BY <1>1, FS_EmptySet DEF GroupInit, CompletionOrder

LEMMA CompletionStep ==
  GroupTypeOK /\ CompletionOrder /\ [GroupNext]_allVars => CompletionOrder'
<1> SUFFICES ASSUME GroupTypeOK, CompletionOrder, [GroupNext]_allVars PROVE CompletionOrder'
  OBVIOUS
<1> USE DEF groupVars, signalVars, jobVars, waitVars, CompletionOrder
<1>fin. IsFiniteSet(Inside)
  BY GroupAssumption, FS_Subset DEF Inside
<1>1. ASSUME NEW j \in Jobs, Add(j) PROVE CompletionOrder'
  <2>1. Inside' = Inside \cup {j} /\ j \notin Inside
    BY <1>1 DEF Add, Become, Inside, GroupTypeOK
  <2>2. pending' = Cardinality(Inside')
    BY <1>1, <2>1, <1>fin, FS_AddElement DEF Add
  <2> QED
    BY <1>1, <2>2 DEF Add
<1>2. ASSUME NEW j \in Jobs, Finish(j) PROVE CompletionOrder'
  <2>1. Inside' = Inside \ {j} /\ j \in Inside
    BY <1>2 DEF Finish, Become, Inside, GroupTypeOK
  <2>2. pending' = Cardinality(Inside') /\ IsFiniteSet(Inside')
    BY <1>2, <2>1, <1>fin, FS_RemoveElement DEF Finish
  <2>3. ~publishing
    BY <2>1
  <2>4. publishing' => sealed' /\ Inside' = {}
    BY <1>2, <2>2, <2>3, FS_EmptySet DEF Finish, Terminal
  <2> QED
    BY <1>2, <2>2, <2>3, <2>4 DEF Finish
<1>3. ASSUME NEW j \in Jobs,
             \/ Demote(j) \/ Suppress(j) \/ WorkerClaim(j) \/ Activate(j)
             \/ NotifyReady(j) \/ BodyEnds(j)
      PROVE  CompletionOrder'
  <2>1. Inside' = Inside
    BY <1>3 DEF Demote, Suppress, WorkerClaim, Activate, NotifyReady, BodyEnds,
      Become, Inside, GroupTypeOK
  <2> QED
    BY <1>3, <2>1 DEF Demote, Suppress, WorkerClaim, Activate, NotifyReady, BodyEnds
<1>4. CASE Seal
  <2>1. Inside' = Inside
    BY <1>4 DEF Seal, Inside
  <2>2. publishing' => Inside = {}
    BY <1>4, <1>fin, FS_EmptySet DEF Seal, Terminal
  <2> QED
    BY <1>4, <2>1, <2>2 DEF Seal
<1>5. CASE Abandon \/ PublishStatus \/ PublishNotify
  <2>1. Inside' = Inside
    BY <1>5 DEF Abandon, PublishStatus, PublishNotify, Inside
  <2> QED
    BY <1>5, <2>1 DEF Abandon, PublishStatus, PublishNotify
<1>6. ASSUME NEW w \in Waiters, Call(w) \/ WakeSpuriously(w) \/ WaitStep(w)
      PROVE  CompletionOrder'
  <2>1. Inside' = Inside
    BY <1>6, GroupAssumption DEF Call, WakeSpuriously, WaitStep, CheckComplete,
      ReadGeneration, Help, MissHelp, ReturnFromHelp, WaitChange, ParkWaiter, Inside,
      Become, Ready, GroupTypeOK
  <2> QED
    BY <1>6, <2>1 DEF Call, WakeSpuriously, WaitStep, CheckComplete,
      ReadGeneration, Help, MissHelp, ReturnFromHelp, WaitChange, ParkWaiter
<1>7. CASE UNCHANGED allVars
  BY <1>7 DEF allVars, Inside
<1> QED
  BY <1>1, <1>2, <1>3, <1>4, <1>5, <1>6, <1>7, GroupAssumption
    DEF GroupNext, GroupEnvironment, MemberStep

-----------------------------------------------------------------------------
(* Wakeups *)

\* A section that changes the group leaves nobody asleep or satisfied.
LEMMA ChangedDisturbs ==
  ASSUME GroupTypeOK, Changed, NEW w \in Waiters
  PROVE  ~Satisfied(w)' /\ waiting'[w] \notin {"parking", "parked"}
BY DEF GroupTypeOK, Changed, Woken, Unlocked, Satisfied

LEMMA MissedStep ==
  GroupTypeOK /\ CompletionOrder /\ NothingMissed /\ [GroupNext]_allVars => NothingMissed'
<1> SUFFICES ASSUME GroupTypeOK, CompletionOrder, NothingMissed, [GroupNext]_allVars,
                    NEW w \in Waiters
             PROVE  /\ Satisfied(w)' /\ ~cut' => Ready' \subseteq owed'
                    /\ waiting'[w] \in {"parking", "parked"} /\ complete' => ~announced'
  BY DEF NothingMissed
<1> USE DEF NothingMissed, groupVars, signalVars, jobVars, waitVars
<1>1. CASE Changed
  BY <1>1, ChangedDisturbs
<1>2. ASSUME NEW j \in Jobs,
             Demote(j) \/ Suppress(j) \/ WorkerClaim(j) \/ Activate(j) \/ BodyEnds(j)
      PROVE  /\ Satisfied(w)' /\ ~cut' => Ready' \subseteq owed'
             /\ waiting'[w] \in {"parking", "parked"} /\ complete' => ~announced'
  <2>1. Ready' \subseteq Ready \cup owed' /\ owed \subseteq owed'
    <3>1. CASE Activate(j)
      BY <3>1 DEF Activate, Become, Ready, GroupTypeOK
    <3>2. CASE Demote(j)
      BY <3>2 DEF Demote, Become, Ready, GroupTypeOK
    <3>3. CASE Suppress(j)
      BY <3>3 DEF Suppress, Become, Ready, GroupTypeOK
    <3>4. CASE WorkerClaim(j)
      BY <3>4 DEF WorkerClaim, Become, Ready, GroupTypeOK
    <3>5. CASE BodyEnds(j)
      BY <3>5 DEF BodyEnds, Become, Ready, GroupTypeOK
    <3> QED
      BY <1>2, <3>1, <3>2, <3>3, <3>4, <3>5
  <2>2. /\ Satisfied(w)' <=> Satisfied(w)
        /\ UNCHANGED <<cut, waiting, complete, announced>>
    BY <1>2 DEF Demote, Suppress, WorkerClaim, Activate, BodyEnds, Satisfied
  <2> QED
    BY <2>1, <2>2
<1>3. CASE Abandon \/ PublishStatus
  BY <1>3 DEF Abandon, PublishStatus, Ready, Satisfied, CompletionOrder
<1>4. ASSUME NEW v \in Waiters, Call(v) \/ WakeSpuriously(v) \/ WaitStep(v)
      PROVE  /\ Satisfied(w)' /\ ~cut' => Ready' \subseteq owed'
             /\ waiting'[w] \in {"parking", "parked"} /\ complete' => ~announced'
  <2>1. CASE WaitChange(v)
    BY <1>4, <2>1 DEF WaitChange, Move, Ready, Satisfied, GroupTypeOK
  <2>2. CASE MissHelp(v)
    BY <1>4, <2>2 DEF MissHelp, Move, Ready, Satisfied, GroupTypeOK
  <2>3. CASE ReadGeneration(v)
    BY <1>4, <2>3 DEF ReadGeneration, Move, Ready, Satisfied, GroupTypeOK
  <2>4. ASSUME NEW j \in Eligible, Help(v, j)
        PROVE  /\ Satisfied(w)' /\ ~cut' => Ready' \subseteq owed'
               /\ waiting'[w] \in {"parking", "parked"} /\ complete' => ~announced'
    BY <1>4, <2>4 DEF Help, Move, Become, Ready, Satisfied, GroupTypeOK
  <2>5. CASE Call(v) \/ WakeSpuriously(v) \/ CheckComplete(v) \/ ReturnFromHelp(v)
               \/ ParkWaiter(v)
    BY <1>4, <2>5 DEF Call, WakeSpuriously, CheckComplete, ReturnFromHelp, ParkWaiter,
      Move, Ready, Satisfied, GroupTypeOK
  <2> QED
    BY <1>4, <2>1, <2>2, <2>3, <2>4, <2>5 DEF WaitStep
<1>5. CASE UNCHANGED allVars
  BY <1>5 DEF allVars, Ready, Satisfied
<1> QED
  BY <1>1, <1>2, <1>3, <1>4, <1>5, GroupAssumption
    DEF GroupNext, GroupEnvironment, MemberStep, Add, NotifyReady, Finish, Seal, PublishNotify

-----------------------------------------------------------------------------
(* The theorems *)

LEMMA GroupInductive == GroupSpec => []GroupInv
<1>1. GroupInit => NothingMissed
  BY DEF GroupInit, NothingMissed, Satisfied, Ready
<1>2. GroupInit => GroupInv
  BY <1>1, GroupTypeInit, CompletionInit DEF GroupInv
<1>3. GroupInv /\ [GroupNext]_allVars => GroupInv'
  BY GroupTypeStep, CompletionStep, MissedStep DEF GroupInv
<1> QED
  BY <1>2, <1>3, PTL DEF GroupSpec

\* Every reachable state is well typed.
THEOREM GroupTypeCorrect == GroupSpec => []GroupTypeOK
<1>1. GroupInv => GroupTypeOK
  BY DEF GroupInv
<1> QED
  BY <1>1, GroupInductive, PTL

\* No thread sleeps through work it could execute, or through the completion:
\* wait_helping and wait_change against every section that changes the group.
THEOREM NobodySleepsThrough == GroupSpec => []NoLostWakeup
<1>1. GroupInv => NoLostWakeup
  BY DEF GroupInv, NothingMissed, Satisfied, NoLostWakeup
<1> QED
  BY <1>1, GroupInductive, PTL

\* The pending count is the number of members that have not left, and a complete
\* group has none.
THEOREM CompletionSettled == GroupSpec => []CompleteIsSettled
<1>1. GroupInv => CompleteIsSettled
  BY DEF GroupInv, CompletionOrder, Inside, CompleteIsSettled, GroupTypeOK
<1> QED
  BY <1>1, GroupInductive, PTL

\* A complete group stays complete and admits nobody, whatever races its seal.
THEOREM CompletionStays == GroupSpec => CompletionIsFinal
<1>1. GroupInv /\ [GroupNext]_allVars => (complete => complete' /\ member' = member)
  <2> SUFFICES ASSUME GroupInv, [GroupNext]_allVars, complete
               PROVE  complete' /\ member' = member
    OBVIOUS
  <2>1. sealed /\ \A j \in Jobs : member[j] \in {"absent", "left"}
    BY DEF GroupInv, CompletionOrder, Inside, GroupTypeOK
  <2> USE DEF groupVars, signalVars, jobVars, waitVars
  <2>2. ASSUME NEW j \in Jobs,
               \/ Add(j) \/ Demote(j) \/ Suppress(j) \/ WorkerClaim(j)
               \/ Activate(j) \/ NotifyReady(j) \/ BodyEnds(j) \/ Finish(j)
        PROVE  complete' /\ member' = member
    BY <2>1, <2>2 DEF Add, Demote, Suppress, WorkerClaim, Activate, NotifyReady,
      BodyEnds, Finish, Become
  <2>3. CASE Seal \/ Abandon \/ PublishStatus \/ PublishNotify
    BY <2>3 DEF Seal, Abandon, PublishStatus, PublishNotify
  <2>4. ASSUME NEW w \in Waiters, Call(w) \/ WakeSpuriously(w) \/ WaitStep(w)
        PROVE  complete' /\ member' = member
    BY <2>1, <2>4, GroupAssumption DEF Call, WakeSpuriously, WaitStep,
      CheckComplete, ReadGeneration, Help, MissHelp, ReturnFromHelp, WaitChange,
      ParkWaiter, Become
  <2>5. CASE UNCHANGED allVars
    BY <2>5 DEF allVars
  <2> QED
    BY <2>2, <2>3, <2>4, <2>5, GroupAssumption DEF GroupNext, GroupEnvironment, MemberStep
<1> QED
  BY <1>1, GroupInductive, PTL DEF GroupSpec, CompletionIsFinal
=============================================================================
