------------------------------- MODULE Demand -------------------------------
(***************************************************************************)
(* Resource demand (src/scheduler/demand.rs and its use by                 *)
(* src/scheduler.rs).  Consumers hold leases on nodes; a node's interest   *)
(* reaches its prerequisites through a graph that is serviced a few dirty  *)
(* nodes at a time.  What changed is handed from the graph to the class's  *)
(* mailbox under the transfer lock, from there into the records and the    *)
(* queues under the class lock, and to the providers' hooks under no lock. *)
(***************************************************************************)
EXTENDS Integers, Sequences, FiniteSets, SequencesExt, FiniteSetsExt

CONSTANTS
  Nodes,         \* jobs and external records, by id: 1 .. n
  External,      \* those that are external records with a provider's hook
  Baseline,      \* a node's configured rank, or NoRank
  Prereqs,       \* its prerequisites in this runtime
  Consumers,     \* demand leases, each attached once
  Wants, Asks,   \* the node a consumer attaches to, and the rank it asks for
  Bound,         \* consumers bound to a work set
  Ranks, NoRank,
  Threads,       \* that service the graph, numbers
  Budget,        \* nodes serviced per call
  Runnable,      \* limit of the class's runnable window
  HandoffLimit,  \* and of jobs handed to the backend
  MaxCommands,   \* promotions, refreshes and deferrals
  Eligible,      \* jobs that a caller may run itself
  Early,         \* jobs that were there before, none a prerequisite of another:
                 \* ordinary ones run already
  Populations,   \* sets of nodes and consumers that may be there together
  None

Jobs == Nodes \ External
Resource(n) == n \in Jobs /\ Baseline[n] # NoRank

ASSUME DemandAssumption ==
  /\ Nodes \subseteq Nat /\ IsFiniteSet(Nodes) /\ External \subseteq Nodes
  /\ Ranks \subseteq Nat /\ NoRank \notin Ranks
  /\ Baseline \in [Nodes -> Ranks \cup {NoRank}]
  /\ Prereqs \in [Nodes -> SUBSET Nodes]
  /\ \A n \in Nodes : \A m \in Prereqs[n] : m < n
  /\ Wants \in [Consumers -> Nodes] /\ Asks \in [Consumers -> Ranks] /\ Bound \subseteq Consumers
  /\ Early \subseteq Jobs /\ \A n \in Early : Prereqs[n] \cap Early = {}
  /\ None \notin Threads /\ Threads \subseteq Nat
  /\ Budget \in Nat \ {0} /\ Runnable \in Nat \ {0} /\ HandoffLimit \in Nat \ {0}

VARIABLES
  nodes, dirty,     \* registered nodes; those to visit
  selection,        \* a node's rank, activity, tie and version
  shown,            \* the tie it was last published with, 0 before
  interest, rank,   \* consumers' leases
  front, back,     \* the next tie before all others and behind them
  demandPending,    \* read without the graph's lock
  transfer,         \* the thread that holds the transfer lock
  changes,          \* of each thread: selections to be put into the mailbox,
  hooks, counted,   \* hooks to be called, and how many it has announced
  providerCallbacks,
  mailbox, updatesPending,  \* of the class
  life, done,       \* of each node; completions published
  copy,             \* the selection a submitter has read from the graph
  applied, entry,   \* a record's selection, and the one its queue entry is under
  ready, deferred, rebalance,  \* ClassState
  handedOff,        \* jobs whose wrappers the backend holds
  seen,             \* the newest snapshot a provider got
  binding, bound, subscription, ending, setCancelled,  \* ConsumerBinding
  present,          \* the nodes and consumers there are
  reading,          \* how far a reading of quiescence has got; "open" admits
  commands

graphVars == <<nodes, dirty, selection, shown, interest, rank, front, back>>
flagVars == <<demandPending, updatesPending, mailbox>>
threadVars == <<transfer, changes, hooks, counted, providerCallbacks, seen>>
jobVars == <<life, done, copy, applied>>
queueVars == <<entry, ready, deferred, rebalance, handedOff>>
bindingVars == <<binding, bound, subscription, ending, setCancelled>>
vars == <<graphVars, flagVars, threadVars, jobVars, queueVars, bindingVars, present, reading,
          commands>>

NoSelection == [rank |-> NoRank, active |-> FALSE, tie |-> 0, version |-> 0]
EmptyQueue == [ordinary |-> <<>>, resource |-> {}]

Present == Early \cap present

\* Jobs that were registered, visited and attached before all others.
Settled(n) ==
  IF n \notin Present THEN NoSelection
  ELSE [rank |-> Baseline[n], active |-> Baseline[n] # NoRank,
        tie |-> Cardinality({m \in Present : m <= n}), version |-> 2]

Init ==
  /\ present \in Populations
  /\ nodes = Present /\ dirty = <<>>
  /\ selection = [n \in Nodes |-> Settled(n)]
  /\ shown = [n \in Nodes |-> Settled(n).tie]
  /\ interest = [c \in Consumers |-> "none"] /\ rank = [c \in Consumers |-> NoRank]
  /\ front = -1 /\ back = Cardinality(Present) + 1
  /\ demandPending = FALSE /\ updatesPending = FALSE
  /\ mailbox = [n \in Nodes |-> NoSelection]
  /\ transfer = None /\ changes = [t \in Threads |-> <<>>] /\ hooks = [t \in Threads |-> <<>>]
  /\ counted = [t \in Threads |-> 0] /\ providerCallbacks = 0
  /\ life = [n \in Nodes |-> IF n \notin Present THEN "none"
                             ELSE IF Resource(n) THEN "waiting" ELSE "claimed"]
  /\ done = {}
  /\ copy = [n \in Nodes |-> NoSelection] /\ applied = selection
  /\ entry = [n \in Nodes |-> NoSelection]
  /\ ready = EmptyQueue /\ deferred = EmptyQueue /\ rebalance = FALSE
  /\ handedOff = {n \in Present : ~Resource(n)}
  /\ seen = [n \in Nodes |-> NoSelection]
  /\ binding = [c \in Consumers |-> "none"] /\ bound = {} /\ subscription = {} /\ ending = {}
  /\ setCancelled = FALSE
  /\ reading = "open" /\ commands = 0

-----------------------------------------------------------------------------
(* The graph *)

Parents(n) == Prereqs[n] \cap nodes
Children(n) == {m \in nodes : n \in Prereqs[m]}
Attached(n) == {c \in Consumers : Wants[c] = n /\ interest[c] \in {"active", "deferred"}}

\* mark_dirty: a node is in the queue once, those marked together in some order.
Marked(queue, S) == queue \o SetToSeq(S \ ToSet(queue))

\* The ranks a node is wanted at, by its own leases and by its children.
WantedAt(n, sel, active) ==
  {rank[c] : c \in {c \in Attached(n) : (interest[c] = "active") = active}}
    \cup {sel[m].rank : m \in {m \in Children(n) : sel[m].rank # NoRank
                                                    /\ sel[m].active = active}}

Base(n) == IF Baseline[n] = NoRank THEN {} ELSE {Baseline[n]}

\* aggregate: active interest counts together with the baseline; deferred
\* interest alone takes its place.
Aggregate(n, sel) ==
  LET active == WantedAt(n, sel, TRUE)
      idle == WantedAt(n, sel, FALSE)
  IN IF active # {} THEN [rank |-> Min(active \cup Base(n)), active |-> TRUE]
     ELSE IF idle # {} THEN [rank |-> Min(idle), active |-> FALSE]
     ELSE [rank |-> Baseline[n], active |-> Baseline[n] # NoRank]

\* Fault: what is passed on stays behind.
OnwardNowhere(queue, n) == queue

\* A node that has changed makes its prerequisites dirty.
Onward(queue, n) == Marked(queue, Parents(n))

\* A change of a ranked job is for its class's mailbox, one of an external record
\* for its provider's hook.
ClassTargets == {n \in Nodes : Resource(n)}

Sent(queue, change, S) == IF change.node \in S THEN Append(queue, change) ELSE queue

\* One round of service: what is as it was last published is skipped, a change
\* gets a new version.  Versions are only compared within a node, and so counted
\* by node.
Visit(g) ==
  LET n == Head(g.dirty)
      old == g.selection[n]
      agg == Aggregate(n, g.selection)
      new == [rank |-> agg.rank, active |-> agg.active, tie |-> old.tie,
              version |-> old.version + 1]
      change == [node |-> n, selection |-> new]
  IN IF g.shown[n] = old.tie /\ old.rank = agg.rank /\ old.active = agg.active
       THEN [g EXCEPT !.dirty = Tail(@)]
       ELSE [dirty |-> Onward(Tail(g.dirty), n),
             selection |-> [g.selection EXCEPT ![n] = new],
             shown |-> [g.shown EXCEPT ![n] = old.tie],
             changes |-> Sent(g.changes, change, ClassTargets),
             hooks |-> Sent(g.hooks, change, External)]

Serviced ==
  FoldLeft(LAMBDA g, i : IF g.dirty = <<>> THEN g ELSE Visit(g),
           [dirty |-> dirty, selection |-> selection, shown |-> shown,
            changes |-> <<>>, hooks |-> <<>>],
           [i \in 1 .. Budget |-> i])

-----------------------------------------------------------------------------
(* service_demand_chunk, and the hooks it calls *)

Idle(t) == transfer # t /\ hooks[t] = <<>>

\* The visits, under the graph's lock, with the transfer held.  A test of the flag
\* that is stale by then finds nothing to visit; which of the idle threads it is does not matter.
Service(t) ==
  /\ demandPending /\ transfer = None
  /\ Idle(t) /\ \A u \in Threads : u < t => ~Idle(u)
  /\ LET g == Serviced
     IN /\ dirty' = g.dirty /\ selection' = g.selection /\ shown' = g.shown
        /\ changes' = [changes EXCEPT ![t] = g.changes]
        /\ hooks' = [hooks EXCEPT ![t] = g.hooks]
        /\ counted' = [counted EXCEPT ![t] = Len(g.hooks)]
        /\ providerCallbacks' = providerCallbacks + Len(g.hooks)
  /\ transfer' = t
  /\ UNCHANGED <<nodes, interest, rank, front, back, flagVars, seen, jobVars, queueVars,
                 bindingVars, present, reading, commands>>

\* One entry per live node; only a newer selection replaces it.
Put(box, change) ==
  [box EXCEPT ![change.node] =
     IF @.version < change.selection.version THEN change.selection ELSE @]

Transfer(t) ==
  /\ transfer = t /\ changes[t] # <<>>
  /\ mailbox' = Put(mailbox, Head(changes[t])) /\ updatesPending' = TRUE
  /\ changes' = [changes EXCEPT ![t] = Tail(@)]
  /\ UNCHANGED <<graphVars, demandPending, transfer, hooks, counted, providerCallbacks, seen,
                 jobVars, queueVars, bindingVars, present,
                 reading, commands>>

\* Fault: the flag is cleared without another look at the graph.
PendingCleared(queue) == FALSE

\* What demand_pending is set to, under the graph's lock.
PendingUpdates(queue) == queue # <<>>

EndTransfer(t) ==
  /\ transfer = t /\ changes[t] = <<>>
  /\ demandPending' = PendingUpdates(dirty)
  /\ transfer' = None
  /\ UNCHANGED <<graphVars, updatesPending, mailbox, changes, hooks, counted,
                 providerCallbacks, seen, jobVars, queueVars, bindingVars, present,
                 reading, commands>>

\* A hook is called without a lock, so that those of two threads overlap; a
\* provider keeps the newest snapshot of a node there is.  The count goes down
\* after the last one.
CallHook(t) ==
  /\ transfer # t /\ hooks[t] # <<>>
  /\ LET h == Head(hooks[t])
         last == Len(hooks[t]) = 1
     IN /\ seen' = [seen EXCEPT ![h.node] =
             IF h.node \in nodes /\ @.version < h.selection.version THEN h.selection ELSE @]
        /\ providerCallbacks' = IF last THEN providerCallbacks - counted[t] ELSE providerCallbacks
        /\ counted' = IF last THEN [counted EXCEPT ![t] = 0] ELSE counted
  /\ hooks' = [hooks EXCEPT ![t] = Tail(@)]
  /\ UNCHANGED <<graphVars, flagVars, transfer, changes, jobVars, queueVars, bindingVars,
                 present, reading, commands>>

-----------------------------------------------------------------------------
(* Nodes and leases; every change is followed by a call of Service *)

\* Ids are given in the order of admission, and a prerequisite's completion is
\* known once its own admission is over.
Admit(n) ==
  /\ reading = "open" /\ n \in present /\ life[n] = "none"
  /\ \A m \in Nodes \cap present : m < n => life[m] # "none"
  /\ \A m \in Prereqs[n] : life[m] \notin {"admitted", "registered"}
  /\ life' = [life EXCEPT ![n] = "admitted"]
  /\ UNCHANGED <<graphVars, flagVars, threadVars, done, copy, applied, queueVars, bindingVars,
                 present, reading, commands>>

Fresh(n) ==
  [rank |-> Baseline[n], active |-> Baseline[n] # NoRank, tie |-> back, version |-> 1]

\* register, for a record that is in its class already.
Register(n) ==
  /\ life[n] = "admitted"
  /\ nodes' = nodes \cup {n}
  /\ selection' = [selection EXCEPT ![n] = Fresh(n)]
  /\ back' = back + 1
  /\ dirty' = Append(Marked(dirty, Parents(n)), n)
  /\ demandPending' = TRUE
  /\ IF n \in External
       THEN life' = [life EXCEPT ![n] = "waiting"] /\ UNCHANGED copy
       ELSE /\ life' = [life EXCEPT ![n] = "registered"]
            /\ copy' = [copy EXCEPT ![n] = Fresh(n)]
  /\ UNCHANGED <<shown, interest, rank, front, updatesPending, mailbox, threadVars, done,
                 applied, queueVars, bindingVars, present, reading, commands>>

\* Only a newer selection replaces a record's.
Newer(n, sel) == applied[n].version < sel.version

\* The submitter writes what it has read into the record; attachment ends.
Attach(n) ==
  /\ life[n] = "registered"
  /\ applied' = IF Newer(n, copy[n]) THEN [applied EXCEPT ![n] = copy[n]] ELSE applied
  /\ copy' = [copy EXCEPT ![n] = NoSelection]
  /\ life' = [life EXCEPT ![n] = "waiting"]
  /\ UNCHANGED <<graphVars, flagVars, threadVars, done, queueVars, bindingVars, reading,
                 commands, present>>

\* attach_demand, while the node is in the graph.
Consume(c) ==
  /\ c \in present /\ interest[c] = "none" /\ Wants[c] \in nodes
  /\ interest' = [interest EXCEPT ![c] = "active"]
  /\ rank' = [rank EXCEPT ![c] = Asks[c]]
  /\ dirty' = Marked(dirty, {Wants[c]}) /\ demandPending' = TRUE
  /\ UNCHANGED <<nodes, selection, shown, front, back, updatesPending, mailbox,
                 threadVars, jobVars, queueVars, bindingVars, present,
                 reading, commands>>

Commanded(c) ==
  /\ interest[c] \in {"active", "deferred"} /\ commands < MaxCommands
  /\ commands' = commands + 1
  /\ dirty' = Marked(dirty, {Wants[c]}) /\ demandPending' = TRUE
  /\ UNCHANGED <<nodes, shown, updatesPending, mailbox, threadVars, jobVars,
                 queueVars, bindingVars, present, reading>>

Promote(c) ==
  /\ Commanded(c)
  /\ selection' = [selection EXCEPT ![Wants[c]].tie = front] /\ front' = front - 1
  /\ UNCHANGED <<interest, rank, back>>

Refresh(c, r) ==
  /\ Commanded(c)
  /\ IF rank[c] = r /\ interest[c] = "active"
       THEN UNCHANGED <<interest, rank, selection, back>>
       ELSE /\ interest' = [interest EXCEPT ![c] = "active"]
            /\ rank' = [rank EXCEPT ![c] = r]
            /\ selection' = [selection EXCEPT ![Wants[c]].tie = back] /\ back' = back + 1
  /\ UNCHANGED front

Defer(c) ==
  /\ Commanded(c)
  /\ interest' = [interest EXCEPT ![c] = "deferred"]
  /\ UNCHANGED <<rank, selection, front, back>>

\* The command Detach; a lease whose node has been removed is gone already.
DetachLease(c) ==
  IF interest[c] \in {"active", "deferred"}
    THEN /\ interest' = [interest EXCEPT ![c] = "gone"]
         /\ rank' = [rank EXCEPT ![c] = NoRank]
         /\ dirty' = Marked(dirty, {Wants[c]}) /\ demandPending' = TRUE
    ELSE UNCHANGED <<interest, rank, dirty, demandPending>>

\* A removed node has no entry in its class's mailbox.
Erased(n) == IF Resource(n) THEN [mailbox EXCEPT ![n] = NoSelection] ELSE mailbox

HasMail(box) == \E n \in Nodes : box[n].version # 0

\* remove_demand, which holds the transfer lock: the node and its leases, then the
\* mail, which a dispatcher that fetched it in between would find no record for.
\* The record's charge goes after it.
RemoveNode(n) ==
  /\ life[n] = "removing" /\ transfer = None
  /\ nodes' = nodes \ {n}
  /\ dirty' = Marked(RemoveFirst(dirty, n), Parents(n))
  /\ demandPending' = PendingUpdates(dirty')
  /\ interest' = [c \in Consumers |->
       IF Wants[c] = n /\ interest[c] # "none" THEN "gone" ELSE interest[c]]
  /\ rank' = [c \in Consumers |-> IF Wants[c] = n THEN NoRank ELSE rank[c]]
  /\ selection' = [selection EXCEPT ![n] = NoSelection]
  /\ shown' = [shown EXCEPT ![n] = 0]
  /\ seen' = [seen EXCEPT ![n] = NoSelection]
  /\ mailbox' = Erased(n)
  /\ updatesPending' = IF Resource(n) THEN HasMail(Erased(n)) ELSE updatesPending
  /\ life' = [life EXCEPT ![n] = "gone"]
  /\ UNCHANGED <<front, back, transfer, changes, hooks, counted, providerCallbacks, done, copy,
                 applied, queueVars, bindingVars, present, reading, commands>>

-----------------------------------------------------------------------------
(* A consumer bound to a work set: SWDemand::bind_consumer and its end *)

SetBinding(c, to) == binding' = [binding EXCEPT ![c] = to]

\* The work set's hook is registered; it fires at once in a cancelled set.
BindSet(c) ==
  /\ c \in Bound /\ interest[c] # "none" /\ binding[c] = "none"
  /\ SetBinding(c, "hooked") /\ bound' = bound \cup {c}
  /\ UNCHANGED <<graphVars, flagVars, threadVars, jobVars, queueVars, subscription, ending,
                 setCancelled, present, reading, commands>>

\* ConsumerBinding::end takes what the binding holds; the first one counts.
End(c) ==
  IF c \in bound
    THEN /\ bound' = bound \ {c} /\ ending' = ending \cup {c}
         /\ subscription' = subscription \ {c}
    ELSE UNCHANGED <<bound, ending, subscription>>

\* The hook of the cancelled set, and the subscription to the completion.
SetEnds(c) ==
  /\ setCancelled /\ c \in bound
  /\ End(c)
  /\ UNCHANGED <<graphVars, flagVars, threadVars, jobVars, queueVars, binding, setCancelled,
                 present, reading, commands>>

CompletionEnds(c) ==
  /\ Wants[c] \in done /\ binding[c] \in {"subscribed", "bound"} /\ c \in bound
  /\ End(c)
  /\ UNCHANGED <<graphVars, flagVars, threadVars, jobVars, queueVars, binding, setCancelled,
                 present, reading, commands>>

Subscribe(c) ==
  /\ binding[c] = "hooked" /\ c \notin ending
  /\ SetBinding(c, "subscribed")
  /\ UNCHANGED <<graphVars, flagVars, threadVars, jobVars, queueVars, bound, subscription,
                 ending, setCancelled, present, reading, commands>>

\* Fault: the subscription is stored with a binding that has ended.
Keeps(c) == TRUE

\* A binding that has ended has no use for the subscription.
Stores(c) == c \in bound

StoreSubscription(c) ==
  /\ binding[c] = "subscribed"
  /\ SetBinding(c, "bound")
  /\ subscription' = IF Stores(c) THEN subscription \cup {c} ELSE subscription
  /\ UNCHANGED <<graphVars, flagVars, threadVars, jobVars, queueVars, bound, ending,
                 setCancelled, present, reading, commands>>

\* The end's second half: the lease is detached, without a lock of the binding.
EndDetach(c) ==
  /\ c \in ending
  /\ DetachLease(c) /\ ending' = ending \ {c}
  /\ UNCHANGED <<nodes, selection, shown, front, back, updatesPending, mailbox,
                 threadVars, jobVars, queueVars, binding, bound, subscription, setCancelled,
                 present, reading, commands>>

\* The consumer drops its handle.
DropHandle(c) ==
  /\ interest[c] # "none"
  /\ IF c \in Bound
       THEN /\ binding[c] = "bound" /\ c \in bound /\ End(c)
            /\ UNCHANGED <<interest, rank, dirty, demandPending>>
       ELSE /\ interest[c] # "gone" /\ DetachLease(c)
            /\ UNCHANGED <<bound, ending, subscription>>
  /\ UNCHANGED <<nodes, selection, shown, front, back, updatesPending, mailbox,
                 threadVars, jobVars, queueVars, binding, setCancelled, present, reading, commands>>

CancelSet ==
  /\ ~setCancelled /\ Bound \cap present # {}
  /\ setCancelled' = TRUE
  /\ UNCHANGED <<graphVars, flagVars, threadVars, jobVars, queueVars, binding, bound,
                 subscription, ending, present, reading, commands>>

-----------------------------------------------------------------------------
(* PendingQueue: an ordinary FIFO and a resource route, merged by id *)

Size(q) == Len(q.ordinary) + Cardinality(q.resource)
HasResources(q) == q.resource # {}

Push(q, n) ==
  IF Resource(n) THEN [q EXCEPT !.resource = @ \cup {n}] ELSE [q EXCEPT !.ordinary = Append(@, n)]

Without(q, n) == [ordinary |-> RemoveFirst(q.ordinary, n), resource |-> q.resource \ {n}]

\* ResourceKey: active work first, then rank, then the tie, which is unique.
Before(a, b) ==
  \/ a.active /\ ~b.active
  \/ a.active = b.active /\ (a.rank < b.rank \/ (a.rank = b.rank /\ a.tie < b.tie))

Heads(q, keys) ==
  {n \in q.resource : \A m \in q.resource \ {n} : Before(keys[n], keys[m])}
    \cup (IF q.ordinary = <<>> THEN {} ELSE {Head(q.ordinary)})

Peek(q, keys) == Min(Heads(q, keys))

\* What the class's gate guards, as one value.
Class == [ready |-> ready, deferred |-> deferred, life |-> life, applied |-> applied,
          entry |-> entry, rebalance |-> rebalance]

Queued(k, n) == k.life[n] \in {"ready", "deferred"}

SetClass(k) ==
  /\ ready' = k.ready /\ deferred' = k.deferred /\ life' = k.life /\ applied' = k.applied
  /\ entry' = [n \in Nodes |-> IF Queued(k, n) THEN k.entry[n] ELSE NoSelection]
  /\ rebalance' = k.rebalance

\* Fault: the window is left as it is.
RekeyedOnly(k, sel, moved) == [k EXCEPT !.applied = sel, !.entry =
  [n \in Nodes |-> IF n \in moved THEN sel[n] ELSE @[n]]]

\* update_resource re-keys the entries of queued records.
Rekeyed(k, sel, moved) == [k EXCEPT !.applied = sel, !.entry =
  [n \in Nodes |-> IF n \in moved THEN sel[n] ELSE @[n]], !.rebalance = @ \/ moved # {}]

\* Records in the class of which the mailbox knows something newer.
Updated == {n \in Jobs : /\ life[n] \in {"admitted", "registered", "waiting", "ready",
                                         "deferred", "handed", "claimed"}
                         /\ Newer(n, mailbox[n])}

\* apply_demand_updates.
Apply(k) ==
  IF ~updatesPending THEN k
  ELSE Rekeyed(k, [n \in Nodes |-> IF n \in Updated THEN mailbox[n] ELSE k.applied[n]],
               {n \in Updated : Queued(k, n)})

\* The ready window goes back to the front of the deferred backlog.
Unwound(k) ==
  IF ~k.rebalance \/ Size(k.deferred) = 0 THEN [k EXCEPT !.rebalance = FALSE]
  ELSE [k EXCEPT !.ready = EmptyQueue, !.rebalance = FALSE,
          !.deferred = [ordinary |-> k.ready.ordinary \o @.ordinary,
                        resource |-> k.ready.resource \cup @.resource],
          !.life = [n \in Nodes |-> IF @[n] = "ready" THEN "deferred" ELSE @[n]],
          !.entry = [n \in Nodes |-> IF k.life[n] = "ready" THEN k.applied[n] ELSE @[n]]]

\* ReadyQueue::runnable, which counts what is handed off.
RunnableIn(k) == Size(k.ready) + Cardinality({n \in Nodes : k.life[n] = "handed"})

Refilled(k) ==
  FoldLeft(LAMBDA g, i :
             IF RunnableIn(g) < Runnable /\ Size(g.deferred) # 0
               THEN LET n == Peek(g.deferred, g.entry) IN
                    [g EXCEPT !.deferred = Without(@, n), !.ready = Push(@, n),
                              !.life[n] = "ready", !.entry[n] = g.applied[n]]
               ELSE g,
           k, [i \in 1 .. Runnable |-> i])

\* promote_locked, which fetches the mailbox first.
Promoted(k) == Refilled(Unwound(Apply(k)))
FetchMail ==
  /\ mailbox' = IF updatesPending THEN [n \in Nodes |-> NoSelection] ELSE mailbox
  /\ updatesPending' = FALSE

-----------------------------------------------------------------------------
(* Jobs *)

\* activate_ready, once every prerequisite has succeeded.
Activate(n) ==
  /\ n \in Jobs /\ life[n] = "waiting" /\ Prereqs[n] \subseteq done
  /\ IF RunnableIn(Class) < Runnable
       THEN SetClass([Class EXCEPT !.life[n] = "ready", !.ready = Push(@, n),
                                   !.entry[n] = applied[n], !.rebalance = TRUE])
       ELSE SetClass([Class EXCEPT !.life[n] = "deferred", !.deferred = Push(@, n),
                        !.entry[n] = applied[n],
                        !.rebalance = @ \/ Resource(n) \/ HasResources(ready)
                                        \/ HasResources(deferred)])
  /\ UNCHANGED <<graphVars, flagVars, threadVars, done, copy, handedOff, bindingVars, reading,
                 commands, present>>

\* remove_ready: taking an entry that is not the next may expose a resource.
OutOfReady(k, n) ==
  [k EXCEPT !.ready = Without(@, n),
            !.rebalance = @ \/ (Peek(k.ready, k.entry) # n
                                  /\ (HasResources(k.ready) \/ HasResources(k.deferred)))]

\* dispatch_class_ready: promotion, and then as many as the handoff limit takes.
Handover(k) ==
  FoldLeft(LAMBDA g, i :
             IF Size(g.ready) = 0 THEN g
             ELSE LET n == Peek(g.ready, g.entry) IN
                  [g EXCEPT !.ready = Without(@, n), !.life[n] = "handed"],
           k,
           [i \in 1 .. (HandoffLimit - Cardinality(handedOff)) |-> i])

Dispatch ==
  /\ LET k == Handover(Promoted(Class)) IN
       /\ SetClass(k)
       /\ handedOff' = handedOff \cup {n \in Nodes : k.life[n] = "handed"}
  /\ FetchMail
  /\ UNCHANGED <<graphVars, demandPending, threadVars, done, copy, bindingVars, reading,
                 commands, present>>

\* claim_and_run, by a wrapper or by a thread that helps.
Claim(n) ==
  /\ life[n] = "handed" \/ (life[n] = "ready" /\ n \in Eligible)
  /\ LET k == IF life[n] = "ready" THEN OutOfReady(Class, n) ELSE Class IN
       SetClass(Promoted([k EXCEPT !.life[n] = "claimed"]))
  /\ FetchMail
  /\ UNCHANGED <<graphVars, demandPending, threadVars, done, copy, handedOff, bindingVars,
                 present, reading, commands>>

\* The wrapper of a job that was claimed or suppressed gives its slot back.
EndWrapper(n) ==
  /\ n \in handedOff /\ life[n] # "handed"
  /\ handedOff' = handedOff \ {n}
  /\ UNCHANGED <<graphVars, flagVars, threadVars, jobVars, entry, ready, deferred, rebalance,
                 bindingVars, present, reading, commands>>

\* suppress promotes only if the job was counted runnable.
Suppress(n) ==
  /\ n \in Jobs /\ life[n] \in {"waiting", "ready", "deferred", "handed"}
  /\ LET k == [Class EXCEPT !.life[n] = "claimed"] IN
       CASE life[n] = "ready" -> SetClass(Promoted(OutOfReady(k, n))) /\ FetchMail
         [] life[n] = "handed" -> SetClass(Promoted(k)) /\ FetchMail
         [] life[n] = "deferred" ->
              /\ SetClass([k EXCEPT !.deferred = Without(@, n),
                   !.rebalance = @ \/ Resource(n) \/ HasResources(ready)
                                   \/ HasResources(Without(deferred, n))])
              /\ UNCHANGED <<mailbox, updatesPending>>
         [] OTHER -> SetClass(k) /\ UNCHANGED <<mailbox, updatesPending>>
  /\ UNCHANGED <<graphVars, demandPending, threadVars, done, copy, handedOff, bindingVars,
                 present, reading, commands>>

\* Completion, of a provider too, and the removal of the record from its class.
Publish(n) ==
  /\ n \notin done
  /\ life[n] = "claimed" \/ (n \in External /\ life[n] = "waiting")
  /\ done' = done \cup {n}
  /\ life' = [life EXCEPT ![n] = "claimed"]
  /\ UNCHANGED <<graphVars, flagVars, threadVars, copy, applied, queueVars, bindingVars,
                 present, reading, commands>>

Retire(n) ==
  /\ life[n] = "claimed" /\ n \in done
  /\ life' = [life EXCEPT ![n] = "removing"]
  /\ applied' = [applied EXCEPT ![n] = NoSelection]
  /\ UNCHANGED <<graphVars, flagVars, threadVars, done, copy, queueVars, bindingVars,
                 present, reading, commands>>

-----------------------------------------------------------------------------
(* The readings of Scheduler::quiescent, in a runtime that admits nothing more *)

Charged == {n \in Nodes : life[n] \notin {"none", "gone"}}

\* Fault: hooks being called are nobody's work.
SilentWithoutHooks == TRUE

NoCallbacks == providerCallbacks = 0

Read ==
  /\ reading # "quiescent" /\ Charged = {}
  /\ reading' = CASE reading \in {"open", "closed"} -> "records"
                  [] reading = "records" -> IF ~demandPending THEN "pending" ELSE "closed"
                  [] reading = "pending" -> IF ~updatesPending THEN "updates" ELSE "closed"
                  [] reading = "updates" -> IF NoCallbacks THEN "quiescent" ELSE "closed"
  /\ UNCHANGED <<graphVars, flagVars, threadVars, jobVars, queueVars, bindingVars, present,
                 commands>>

-----------------------------------------------------------------------------
Environment ==
  \/ \E n \in Nodes : Admit(n) \/ Suppress(n) \/ Claim(n) \/ Publish(n)
  \/ \E c \in Consumers : Consume(c) \/ Promote(c) \/ Defer(c) \/ DropHandle(c)
  \/ \E c \in Consumers, r \in Ranks : Refresh(c, r)
  \/ CancelSet

ThreadStep(t) == Service(t) \/ Transfer(t) \/ EndTransfer(t) \/ CallHook(t)

NodeStep(n) ==
  Register(n) \/ Attach(n) \/ Activate(n) \/ EndWrapper(n) \/ Retire(n) \/ RemoveNode(n)

BindingStep(c) ==
  \/ BindSet(c) \/ SetEnds(c) \/ CompletionEnds(c) \/ Subscribe(c) \/ StoreSubscription(c)
  \/ EndDetach(c)

Next ==
  \/ Environment \/ Dispatch \/ Read
  \/ \E t \in Threads : ThreadStep(t)
  \/ \E n \in Nodes : NodeStep(n)
  \/ \E c \in Consumers : BindingStep(c)

Spec == Init /\ [][Next]_vars

-----------------------------------------------------------------------------
(* Properties *)

\* A node nobody has marked dirty was published with exactly the demand its
\* leases and children have now, and with its present tie: no change of a lease,
\* a child or a tie can get past the graph (mark_dirty, service, aggregate).
CleanIsCurrent ==
  \A n \in nodes \ ToSet(dirty) :
    /\ shown[n] = selection[n].tie
    /\ Aggregate(n, selection) = [rank |-> selection[n].rank, active |-> selection[n].active]

\* Where a job's selection may still be: with its submitter, in the record, in the
\* mailbox or with the thread that is transferring it.
Known(n) ==
  {copy[n], applied[n], mailbox[n]}
    \cup UNION {{changes[t][i].selection : i \in {i \in DOMAIN changes[t] : changes[t][i].node = n}}
                : t \in Threads}

\* The newest selection of every job that has its record is in the record or on its
\* way there, whatever order the threads' transfers, the submitter's own write and
\* the dispatchers come in; a queued job is queued by it; and each stage that
\* holds something is announced by its flag (Put, Newer, apply_demand_updates,
\* service_demand_chunk, remove_demand).
NewestArrives ==
  /\ dirty # <<>> => demandPending
  /\ HasMail(mailbox) => updatesPending
  /\ \A n \in nodes :
       (Resource(n) /\ life[n] # "removing") =>
         \E s \in Known(n) :
           /\ \A o \in Known(n) : o.version <= s.version
           /\ [s EXCEPT !.tie = selection[n].tie] = selection[n]
  /\ \A n \in Nodes :
       /\ life[n] \in {"ready", "deferred"} => entry[n] = applied[n]
       /\ mailbox[n] # NoSelection => n \in nodes

\* No resource job waits behind the runnable window for one in it that its demand
\* comes before, unless the window is marked to be rebuilt: demand that changes
\* under the queue reaches across the window (update_resource, promote_locked).
WindowInOrder ==
  ~rebalance => \A n \in ready.resource, m \in deferred.resource : Before(entry[n], entry[m])

\* A provider that keeps the newest snapshot knows the demand of its node when
\* nothing is dirty and no hook is being called, whatever order the hooks came in;
\* and a runtime found quiescent calls no hook any more (service_demand_chunk,
\* quiescent).
ProvidersCatchUp ==
  /\ (dirty = <<>> /\ \A t \in Threads : hooks[t] = <<>>) =>
       \A n \in External \cap nodes : seen[n] = selection[n]
  /\ reading = "quiescent" =>
       nodes = {} /\ transfer = None /\ \A t \in Threads : hooks[t] = <<>> /\ changes[t] = <<>>

\* A consumer that was ended, by its set, by the completion or by its handle, and
\* while it was being bound or after, has left nothing behind: no lease in the
\* graph and no subscription kept (ConsumerBinding::end, bind_consumer).
EndedConsumersGone ==
  \A c \in Bound :
    (binding[c] = "bound" /\ c \notin bound \cup ending) =>
      interest[c] = "gone" /\ c \notin subscription
=============================================================================
