--------------------------- MODULE OwnerDelivery ---------------------------
(***************************************************************************)
(* An owner (src/owner.rs): callbacks that only its own thread may run or  *)
(* destroy, reserved, made ready, cancelled and closed from any thread.    *)
(* Bookkeeping crosses threads in the transport (src/owner/delivery.rs):   *)
(* one record per delivery and a bounded channel with room for one message *)
(* each.  Callbacks posted by other threads wait in the inbox              *)
(* (src/owner/sender.rs).                                                  *)
(***************************************************************************)
EXTENDS Naturals, Sequences, FiniteSets, SequencesExt

CONSTANTS
  Deliveries,  \* callbacks handed in, each once
  Kinds,       \* the ways it may be: "post", "send", "prepared", "on_ready"
  PhaseOf,     \* the phase a callback is addressed to
  Capacity,    \* ordinary records of the transport
  None         \* no delivery

Phases == {PhaseOf[r] : r \in Deliveries}

ASSUME OwnerAssumption ==
  /\ IsFiniteSet(Deliveries) /\ None \notin Deliveries
  /\ Kinds \in [Deliveries -> SUBSET {"post", "send", "prepared", "on_ready"}]
  /\ Capacity \in Nat \ {0}

VARIABLES
  records, tclosed,    \* TransportState
  status, cancelled, notified,  \* RecordState of each delivery
  channel,             \* the notification channel
  inbox, inboxClosed,  \* InboxState
  lock,                \* the delivery whose sender holds the inbox's mutex
  callbacks, pending,  \* SWOwner: local callbacks, notifications received
  closed, faulted, registered, phase,  \* its flags, registration and phase
  requested,           \* close_requested
  pc, next, after,     \* where its thread stands, and goes after a close request
                       \* or the cancellations it makes
  mode,                \* how the pump selects: "none" yet, "live", "phase" or "all"
  cur, verdict,        \* the notification being processed and how it ends
  cancelling,          \* records the owner's thread is about to cancel
  ticket,              \* where a delivery's promise stands
  done,                \* the completion promised deliveries wait for
  running, routes,     \* the runtime takes roots; records its abandonment cancels
  ran                  \* callbacks invoked

transportVars == <<records, tclosed>>
recordVars == <<status, cancelled, notified, channel>>
inboxVars == <<inbox, inboxClosed, lock>>
localVars == <<callbacks, pending>>
flagVars == <<closed, faulted, registered, phase>>
threadVars == <<pc, next, after, mode, cur, verdict, cancelling>>
outsideVars == <<done, running, routes, requested>>
vars == <<transportVars, recordVars, inboxVars, localVars, flagVars, threadVars, ticket,
          outsideVars, ran>>

-----------------------------------------------------------------------------
(* Records and their notification *)

Unclaimed(r) == status[r] \in {"Waiting", "Ready"}

\* Fault: a second cause sends a second message.
NotifyAgain(r) == notified' = notified \cup {r} /\ channel' = Append(channel, r)

\* Record::notify: one message per record, whatever it is for.
Notify(r) ==
  IF r \in notified
    THEN UNCHANGED <<notified, channel>>
    ELSE notified' = notified \cup {r} /\ channel' = Append(channel, r)

\* Record::ready.
Ready(r) ==
  IF status[r] = "Waiting" /\ r \notin cancelled
    THEN status' = [status EXCEPT ![r] = "Ready"] /\ Notify(r) /\ UNCHANGED cancelled
    ELSE UNCHANGED recordVars

\* Fault: the flag is set, but the owner is not told.
CancelQuietly(r) ==
  IF Unclaimed(r)
    THEN /\ cancelled' = cancelled \cup {r}
         /\ UNCHANGED <<status, notified, channel, ticket>>
    ELSE UNCHANGED <<recordVars, ticket>>

\* Record::cancel; a subscription the record holds is dropped, which detaches
\* the edge unless the publication already has it.
Cancel(r) ==
  IF Unclaimed(r)
    THEN /\ cancelled' = cancelled \cup {r}
         /\ Notify(r)
         /\ ticket' = [ticket EXCEPT ![r] = IF @ = "stored" THEN "used" ELSE @]
         /\ UNCHANGED status
    ELSE UNCHANGED <<recordVars, ticket>>

Reservable == ~tclosed /\ Cardinality(records) < Capacity

\* Transport::reserve.
Reserve(r) ==
  /\ status[r] = "none" /\ Reservable
  /\ records' = records \cup {r}
  /\ UNCHANGED tclosed

Init ==
  /\ records = {} /\ tclosed = FALSE
  /\ status = [r \in Deliveries |-> "none"] /\ cancelled = {} /\ notified = {}
  /\ channel = <<>> /\ inbox = {} /\ inboxClosed = FALSE /\ lock = None
  /\ callbacks = {} /\ pending = <<>>
  /\ closed = FALSE /\ faulted = FALSE /\ registered = TRUE /\ phase \in Phases
  /\ requested = FALSE
  /\ pc = "idle" /\ next = "idle" /\ after = "none" /\ mode = "none"
  /\ cur = None /\ verdict = "none" /\ cancelling = {}
  /\ ticket = [r \in Deliveries |-> "none"] /\ done = FALSE
  /\ running = TRUE /\ routes = {}
  /\ ran = {}

-----------------------------------------------------------------------------
(* Registration on the owner's thread *)

\* SWOwner::accept, for a root.
Accepts ==
  /\ pc = "idle"
  /\ ~closed /\ ~tclosed /\ ~requested /\ ~faulted /\ running

\* try_post.
Post(r) ==
  /\ "post" \in Kinds[r] /\ Accepts /\ Reserve(r)
  /\ callbacks' = callbacks \cup {r}
  /\ status' = [status EXCEPT ![r] = "Ready"]
  /\ Notify(r)
  /\ UNCHANGED <<cancelled, inboxVars, pending, flagVars, threadVars, ticket, outsideVars,
                 ran>>

\* prepare_delivery hands out the ticket.
Prepare(r) ==
  /\ "prepared" \in Kinds[r] /\ Accepts /\ Reserve(r)
  /\ callbacks' = callbacks \cup {r}
  /\ status' = [status EXCEPT ![r] = "Waiting"]
  /\ ticket' = [ticket EXCEPT ![r] = "held"]
  /\ UNCHANGED <<cancelled, notified, channel, inboxVars, pending, flagVars, threadVars,
                 outsideVars, ran>>

\* on_ready subscribes to the completion at once and keeps the subscription with
\* the callback.
OnReady(r) ==
  /\ "on_ready" \in Kinds[r] /\ Accepts /\ Reserve(r)
  /\ callbacks' = callbacks \cup {r}
  /\ IF done
       THEN /\ status' = [status EXCEPT ![r] = "Ready"]
            /\ Notify(r)
            /\ ticket' = [ticket EXCEPT ![r] = "used"]
       ELSE /\ status' = [status EXCEPT ![r] = "Waiting"]
            /\ ticket' = [ticket EXCEPT ![r] = "local"]
            /\ UNCHANGED <<notified, channel>>
  /\ UNCHANGED <<cancelled, inboxVars, pending, flagVars, threadVars, outsideVars, ran>>

SetPhase(p) ==
  /\ pc = "idle" /\ phase # p
  /\ phase' = p
  /\ UNCHANGED <<transportVars, recordVars, inboxVars, localVars, closed, faulted, registered,
                 threadVars, ticket, outsideVars, ran>>

\* recover, once nothing of before the fault is left.
Recover ==
  /\ pc = "idle" /\ lock = None /\ faulted /\ ~closed /\ ~tclosed
  /\ callbacks = {} /\ inbox = {} /\ records = {}
  /\ faulted' = FALSE
  /\ UNCHANGED <<transportVars, recordVars, inboxVars, localVars, closed, registered, phase,
                 threadVars, ticket, outsideVars, ran>>

-----------------------------------------------------------------------------
(* Other threads *)

\* Fault: the fault of the owner is not looked at.
SenderAcceptsFaulted == running /\ ~inboxClosed /\ ~tclosed

SenderAccepts == running /\ ~inboxClosed /\ ~tclosed /\ ~faulted

\* SWOwnerSender::try_post holds the inbox from its checks to the notification.
SendReserve(r) ==
  /\ "send" \in Kinds[r] /\ lock = None /\ SenderAccepts /\ Reserve(r)
  /\ lock' = r
  /\ status' = [status EXCEPT ![r] = "Waiting"]
  /\ UNCHANGED <<cancelled, notified, channel, inbox, inboxClosed, localVars, flagVars,
                 threadVars, ticket, outsideVars, ran>>

SendInsert(r) ==
  /\ lock = r /\ r \notin inbox
  /\ inbox' = inbox \cup {r}
  /\ UNCHANGED <<transportVars, recordVars, inboxClosed, lock, localVars, flagVars, threadVars,
                 ticket, outsideVars, ran>>

SendReady(r) ==
  /\ lock = r /\ r \in inbox
  /\ Ready(r)
  /\ lock' = None
  /\ UNCHANGED <<transportVars, inbox, inboxClosed, localVars, flagVars, threadVars, ticket,
                 outsideVars, ran>>

\* SWDeliveryControl::cancel, or the hook of the consumer's work set.
CancelCall(r) ==
  /\ lock # r /\ Unclaimed(r) /\ r \notin cancelled
  /\ Cancel(r)
  /\ UNCHANGED <<transportVars, inboxVars, localVars, flagVars, threadVars, outsideVars, ran>>

TicketStep(r, from, to) == ticket[r] = from /\ ticket' = [ticket EXCEPT ![r] = to]

\* SWDeliveryTicket::ready and suppress, drop included; the first one counts.
TicketReady(r) ==
  /\ TicketStep(r, "held", "used")
  /\ Ready(r)
  /\ UNCHANGED <<transportVars, inboxVars, localVars, flagVars, threadVars, outsideVars,
                 ran>>

TicketDrop(r) ==
  /\ ticket[r] = "held"
  /\ IF Unclaimed(r)
       THEN /\ cancelled' = cancelled \cup {r} /\ Notify(r)
            /\ UNCHANGED status
       ELSE UNCHANGED recordVars
  /\ ticket' = [ticket EXCEPT ![r] = "used"]
  /\ UNCHANGED <<transportVars, inboxVars, localVars, flagVars, threadVars, outsideVars,
                 ran>>

\* SWDeliveryTicket::try_commit, under the transport's and the record's lock.
Committable(r) == ~tclosed /\ r \notin cancelled /\ status[r] = "Waiting"

Commit(r) ==
  /\ Committable(r)
  /\ TicketStep(r, "held", "committed")
  /\ UNCHANGED <<transportVars, recordVars, inboxVars, localVars, flagVars, threadVars,
                 outsideVars, ran>>

\* bind subscribes, at which a completion already published fires ...
Bind(r) ==
  /\ TicketStep(r, "committed", IF done THEN "used" ELSE "bound")
  /\ IF done THEN Ready(r) ELSE UNCHANGED recordVars
  /\ UNCHANGED <<transportVars, inboxVars, localVars, flagVars, threadVars, outsideVars,
                 ran>>

\* ... and set_subscription stores it, unless the record has no use for it any
\* more.
StoreSubscription(r) ==
  /\ TicketStep(r, "bound",
       IF status[r] = "Waiting" /\ r \notin cancelled THEN "stored" ELSE "used")
  /\ UNCHANGED <<transportVars, recordVars, inboxVars, localVars, flagVars, threadVars,
                 outsideVars, ran>>

\* Signal::publish takes every subscriber, then calls each.
Publish ==
  /\ ~done /\ done' = TRUE
  /\ ticket' = [r \in Deliveries |->
       IF ticket[r] \in {"bound", "stored", "local"} THEN "delivering" ELSE ticket[r]]
  /\ UNCHANGED <<transportVars, recordVars, inboxVars, localVars, flagVars, threadVars,
                 running, routes, requested, ran>>

Deliver(r) ==
  /\ TicketStep(r, "delivering", "used")
  /\ Ready(r)
  /\ UNCHANGED <<transportVars, inboxVars, localVars, flagVars, threadVars, outsideVars,
                 ran>>

\* SWOwnerControl::request_close.
RequestClose ==
  /\ ~requested /\ registered
  /\ requested' = TRUE
  /\ UNCHANGED <<transportVars, recordVars, inboxVars, localVars, flagVars, threadVars, ticket,
                 done, running, routes, ran>>

\* The runtime is abandoned: it stops taking roots, and close_owner_routes closes
\* the transport from the abandoning thread.
AbandonRuntime ==
  /\ running
  /\ running' = FALSE
  /\ UNCHANGED <<transportVars, recordVars, inboxVars, localVars, flagVars, threadVars, ticket,
                 done, routes, requested, ran>>

CloseRoutes ==
  /\ ~running /\ registered /\ ~tclosed
  /\ tclosed' = TRUE /\ routes' = records
  /\ UNCHANGED <<records, recordVars, inboxVars, localVars, flagVars, threadVars, ticket, done,
                 running, requested, ran>>

CancelRoute(r) ==
  /\ r \in routes
  /\ routes' = routes \ {r}
  /\ Cancel(r)
  /\ UNCHANGED <<transportVars, inboxVars, localVars, flagVars, threadVars, done, running,
                 requested, ran>>

-----------------------------------------------------------------------------
(* The pump *)

Goto(to) == pc' = to

AllPhases == closed \/ faulted \/ tclosed

Drained == closed /\ callbacks = {} /\ inbox = {} /\ records = {}

CallPump ==
  /\ pc = "idle" /\ registered
  /\ Goto("request") /\ next' = "entry"
  /\ UNCHANGED <<transportVars, recordVars, inboxVars, localVars, flagVars, after, mode, cur,
                 verdict, cancelling, ticket, outsideVars, ran>>

\* finish_close_request: mark_closed closes the inbox and the transport under the
\* inbox's mutex and cancels the records after it.
FinishCloseRequest ==
  /\ pc = "request"
  /\ \/ /\ requested /\ lock = None
        /\ requested' = FALSE
        /\ closed' = TRUE /\ inboxClosed' = TRUE /\ tclosed' = TRUE
        /\ cancelling' = records
        /\ Goto("cancel") /\ after' = "unregister"
     \/ /\ ~requested
        /\ Goto("unregister")
        /\ UNCHANGED <<requested, closed, inboxClosed, tclosed, cancelling, after>>
  /\ UNCHANGED <<records, recordVars, inbox, lock, localVars, faulted, registered, phase, next,
                 mode, cur, verdict, ticket, done, running, routes, ran>>

CancelNext(r) ==
  /\ pc = "cancel" /\ r \in cancelling
  /\ cancelling' = cancelling \ {r}
  /\ Cancel(r)
  /\ UNCHANGED <<transportVars, inboxVars, localVars, flagVars, pc, next, after, mode, cur,
                 verdict, outsideVars, ran>>

EndCancels ==
  /\ pc = "cancel" /\ cancelling = {}
  /\ Goto(after) /\ after' = "none"
  /\ UNCHANGED <<transportVars, recordVars, inboxVars, localVars, flagVars, next, mode, cur,
                 verdict, cancelling, ticket, outsideVars, ran>>

\* Fault: callbacks no message has fetched are forgotten.
UnregisterEarly ==
  /\ pc = "unregister" /\ lock = None
  /\ registered' = (registered /\ ~(closed /\ callbacks = {}))
  /\ Goto(next)
  /\ UNCHANGED <<transportVars, recordVars, inboxVars, localVars, closed, faulted, phase, next,
                 after, mode, cur, verdict, cancelling, ticket, outsideVars, ran>>

\* unregister_if_drained.
Unregister ==
  /\ pc = "unregister" /\ lock = None
  /\ registered' = (registered /\ ~Drained)
  /\ Goto(next)
  /\ UNCHANGED <<transportVars, recordVars, inboxVars, localVars, closed, faulted, phase, next,
                 after, mode, cur, verdict, cancelling, ticket, outsideVars, ran>>

\* The pump takes over a closure of the transport it did not make itself.
Enter ==
  /\ pc = "entry"
  /\ closed' = (closed \/ tclosed)
  /\ Goto("receive") /\ next' = "loop"
  /\ UNCHANGED <<transportVars, recordVars, inboxVars, localVars, faulted, registered, phase,
                 after, mode, cur, verdict, cancelling, ticket, outsideVars, ran>>

Receiving == pc \in {"receive", "collect"} \/ (pc = "loop" /\ mode = "live")

\* receive: a message and the callback waiting for it in the inbox.
Receive ==
  /\ Receiving /\ channel # <<>> /\ lock = None
  /\ pending' = Append(pending, Head(channel))
  /\ channel' = Tail(channel)
  /\ callbacks' = callbacks \cup (inbox \cap {Head(channel)})
  /\ inbox' = inbox \ {Head(channel)}
  /\ UNCHANGED <<transportVars, status, cancelled, notified, inboxClosed, lock, flagVars,
                 threadVars, ticket, outsideVars, ran>>

\* A live pump looks again before every entry; a batch keeps to what it found
\* and to the predicate it found it by.
EndReceive ==
  /\ pc = "receive" /\ channel = <<>>
  /\ Goto("loop")
  /\ mode' \in {"live", IF AllPhases THEN "all" ELSE "phase"}
  /\ UNCHANGED <<transportVars, recordVars, inboxVars, localVars, flagVars, next, after, cur,
                 verdict, cancelling, ticket, outsideVars, ran>>

SelectsAll == mode = "all" \/ (mode = "live" /\ AllPhases)

Eligible(r) == SelectsAll \/ (r \in callbacks /\ PhaseOf[r] = phase)

\* Where next_for finds the first eligible notification.
FirstEligible(i) ==
  /\ i \in DOMAIN pending /\ Eligible(pending[i])
  /\ \A h \in 1 .. i - 1 : ~Eligible(pending[h])

Take(i) ==
  /\ cur' = pending[i]
  /\ pending' = RemoveAt(pending, i)
  /\ callbacks' = callbacks \ {pending[i]}
  /\ Goto("claim")
  /\ UNCHANGED <<transportVars, recordVars, inboxVars, flagVars, next, after, mode, verdict,
                 cancelling, ticket, outsideVars, ran>>

Select ==
  /\ pc = "loop" /\ (mode = "live" => channel = <<>>)
  /\ \E i \in DOMAIN pending : FirstEligible(i) /\ Take(i)

\* The budget is used up or nothing is eligible.
EndPump ==
  /\ pc = "loop"
  /\ Goto("unregister") /\ next' = "idle" /\ mode' = "none"
  /\ UNCHANGED <<transportVars, recordVars, inboxVars, localVars, flagVars, after, cur, verdict,
                 cancelling, ticket, outsideVars, ran>>

\* Fault: only the status is looked at.
RunnableReady(r) == status[r] = "Ready" /\ ~tclosed

\* Notification::claim, under the transport's and the record's lock.
Runnable(r) == status[r] = "Ready" /\ ~tclosed /\ r \notin cancelled

\* The claim decides; a subscription kept with the callback goes with it.
Claim ==
  /\ pc = "claim"
  /\ status' = [status EXCEPT ![cur] = "Claimed"]
  /\ ticket' = [ticket EXCEPT ![cur] = IF @ = "local" THEN "used" ELSE @]
  /\ Goto(IF Runnable(cur) THEN "run" ELSE "discard")
  /\ UNCHANGED <<transportVars, cancelled, notified, channel, inboxVars, localVars, flagVars,
                 next, after, mode, cur, verdict, cancelling, outsideVars, ran>>

\* The callback runs, and may unwind.
Run ==
  /\ pc = "run"
  /\ ran' = ran \cup {cur}
  /\ verdict' \in {"Published", "Panicked"}
  /\ Goto("settle")
  /\ UNCHANGED <<transportVars, recordVars, inboxVars, localVars, flagVars, next, after, mode,
                 cur, cancelling, ticket, outsideVars>>

\* discard_entry: the captures are destroyed, which may unwind and then faults
\* the owner before the record settles.
Discard ==
  /\ pc = "discard"
  /\ \/ verdict' = "Suppressed" /\ Goto("settle") /\ UNCHANGED after
     \/ verdict' = "Discarded" /\ Goto("fault") /\ after' = "settle"
  /\ UNCHANGED <<transportVars, recordVars, inboxVars, localVars, flagVars, next, mode, cur,
                 cancelling, ticket, outsideVars, ran>>

\* Notification::settle: the record's status and its subscription ...
Settle ==
  /\ pc = "settle"
  /\ status' = [status EXCEPT ![cur] = IF verdict = "Discarded" THEN "Panicked" ELSE verdict]
  /\ ticket' = [ticket EXCEPT ![cur] = IF @ = "stored" THEN "used" ELSE @]
  /\ Goto("remove")
  /\ UNCHANGED <<transportVars, cancelled, notified, channel, inboxVars, localVars, flagVars,
                 next, after, mode, cur, verdict, cancelling, outsideVars, ran>>

Resume == IF next = "sweep" THEN "sweep" ELSE "request"

\* ... then its place in the transport.  A callback that unwound faults the owner.
RemoveRecord ==
  /\ pc = "remove"
  /\ records' = records \ {cur}
  /\ cur' = None /\ verdict' = "none"
  /\ IF verdict = "Panicked"
       THEN Goto("fault") /\ after' = Resume
       ELSE Goto(Resume) /\ UNCHANGED after
  /\ UNCHANGED <<tclosed, recordVars, inboxVars, localVars, flagVars, next, mode, cancelling,
                 ticket, outsideVars, ran>>

\* fault: the inbox learns of it before the records are cancelled.
Fault ==
  /\ pc = "fault" /\ lock = None
  /\ faulted' = TRUE
  /\ cancelling' = records
  /\ Goto("cancel")
  /\ UNCHANGED <<transportVars, recordVars, inboxVars, localVars, closed, registered, phase,
                 next, after, mode, cur, verdict, ticket, outsideVars, ran>>

-----------------------------------------------------------------------------
(* SWOwner::close, which the drop of an owner calls *)

Close ==
  /\ pc = "idle" /\ lock = None
  /\ closed' = TRUE /\ inboxClosed' = TRUE
  /\ callbacks' = callbacks \cup inbox /\ inbox' = {}
  /\ Goto("closing")
  /\ UNCHANGED <<transportVars, recordVars, lock, pending, faulted, registered, phase, next,
                 after, mode, cur, verdict, cancelling, ticket, outsideVars, ran>>

CloseTransport ==
  /\ pc = "closing"
  /\ tclosed' = TRUE /\ cancelling' = records
  /\ Goto("cancel") /\ after' = "collect" /\ next' = "sweep"
  /\ UNCHANGED <<records, recordVars, inboxVars, localVars, flagVars, mode, cur, verdict,
                 ticket, outsideVars, ran>>

\* cleanup_all receives once and then goes through what is pending.
EndCollect ==
  /\ pc = "collect" /\ channel = <<>>
  /\ Goto("sweep")
  /\ UNCHANGED <<transportVars, recordVars, inboxVars, localVars, flagVars, next, after, mode,
                 cur, verdict, cancelling, ticket, outsideVars, ran>>

Sweep == pc = "sweep" /\ pending # <<>> /\ Take(1)

EndClose ==
  /\ pc = "sweep" /\ pending = <<>>
  /\ registered' = FALSE
  /\ Goto("gone")
  /\ UNCHANGED <<transportVars, recordVars, inboxVars, localVars, closed, faulted, phase, next,
                 after, mode, cur, verdict, cancelling, ticket, outsideVars, ran>>

-----------------------------------------------------------------------------
\* What the program, the host and foreign threads may do.
Environment ==
  \/ \E r \in Deliveries : \/ Post(r) \/ Prepare(r) \/ OnReady(r) \/ SendReserve(r)
                           \/ CancelCall(r) \/ TicketReady(r) \/ TicketDrop(r) \/ Commit(r)
  \/ \E p \in Phases : SetPhase(p)
  \/ Recover \/ Publish \/ RequestClose \/ Close \/ AbandonRuntime

\* What other threads go on to do.
ThreadStep(r) ==
  \/ SendInsert(r) \/ SendReady(r) \/ Bind(r) \/ StoreSubscription(r) \/ Deliver(r)
  \/ CancelRoute(r)

OwnerStep ==
  \/ CallPump \/ FinishCloseRequest \/ (\E r \in Deliveries : CancelNext(r)) \/ EndCancels
  \/ Unregister \/ Enter \/ Receive \/ EndReceive \/ EndPump
  \/ Claim \/ Run \/ Discard \/ Settle \/ RemoveRecord \/ Fault
  \/ CloseTransport \/ EndCollect \/ Sweep \/ EndClose

Next ==
  \/ Environment \/ OwnerStep \/ Select \/ CloseRoutes
  \/ \E r \in Deliveries : ThreadStep(r)

Spec == Init /\ [][Next]_vars

\* The host keeps pumping, now and then with a budget for an entry; threads in a
\* call finish it.  The inbox's mutex may be taken again and again by senders.
FairSpec ==
  /\ Spec
  /\ SF_vars(OwnerStep) /\ SF_vars(Select) /\ WF_vars(CloseRoutes)
  /\ \A r \in Deliveries : WF_vars(ThreadStep(r))

-----------------------------------------------------------------------------
(* Properties *)

\* Where the owner's thread and a promise stand, and how a record settles.
Locations == {"idle", "request", "unregister", "entry", "receive", "loop", "claim", "run",
              "discard", "settle", "remove", "fault", "cancel", "closing", "collect", "sweep",
              "gone"}
Tickets == {"none", "held", "local", "committed", "bound", "stored", "delivering", "used"}
Terminal == {"Published", "Panicked", "Suppressed"}

\* The type invariant.
TypeOK ==
  /\ records \subseteq Deliveries /\ cancelled \subseteq Deliveries
  /\ status \in [Deliveries -> {"none", "Waiting", "Ready", "Claimed"} \cup Terminal]
  /\ notified \subseteq Deliveries /\ channel \in Seq(Deliveries)
  /\ inbox \subseteq Deliveries /\ lock \in Deliveries \cup {None}
  /\ callbacks \subseteq Deliveries /\ pending \in Seq(Deliveries)
  /\ tclosed \in BOOLEAN /\ inboxClosed \in BOOLEAN /\ closed \in BOOLEAN
  /\ faulted \in BOOLEAN /\ registered \in BOOLEAN /\ requested \in BOOLEAN
  /\ done \in BOOLEAN /\ running \in BOOLEAN /\ phase \in Phases
  /\ pc \in Locations /\ next \in {"idle", "entry", "loop", "sweep"}
  /\ after \in {"none", "unregister", "collect", "request", "sweep", "settle"}
  /\ mode \in {"none", "live", "phase", "all"}
  /\ cur \in Deliveries \cup {None} /\ verdict \in {"none", "Discarded"} \cup Terminal
  /\ cancelling \subseteq Deliveries /\ routes \subseteq Deliveries
  /\ ticket \in [Deliveries -> Tickets] /\ ran \subseteq Deliveries

\* A cancellation that was answered "Requested" holds: the callback is not
\* invoked, whatever had been made ready before (Record::cancel, claim).
CancelHolds == cancelled \cap ran = {}

InChannel(r) == Cardinality({i \in DOMAIN channel : channel[i] = r})
InPending(r) == Cardinality({i \in DOMAIN pending : pending[i] = r})

\* Nothing is stranded and no send can find the channel full: a live record has
\* its callback with the inbox or the owner, and once notified exactly one
\* message on its way; a notification is never without its callback (notify,
\* receive, process).
NoneStranded ==
  /\ Len(channel) <= Capacity
  /\ \A r \in records :
       /\ r \in callbacks \/ r \in inbox \/ r = cur \/ r = lock
       /\ Unclaimed(r) => InChannel(r) + InPending(r) + (IF r = cur THEN 1 ELSE 0)
                            = IF r \in notified THEN 1 ELSE 0
  /\ \A r \in Deliveries \ records : InChannel(r) + InPending(r) = 0

\* After a fault nothing runs until the host has recovered the owner: every
\* callback that was accepted before has been cancelled by the time the owner
\* looks for the next one, and none is accepted (fault, SWOwnerSender::try_post).
FaultedRunsNothing ==
  (faulted /\ pc \in {"idle", "loop", "claim"}) =>
    \A r \in records : Unclaimed(r) => r \in cancelled

\* An owner that has given up its registration left nothing behind: no record, no
\* callback, no message, no edge at a completion (unregister_if_drained, close).
ReleasedIsEmpty ==
  ~registered =>
    /\ records = {} /\ callbacks = {} /\ inbox = {} /\ channel = <<>> /\ pending = <<>>
    /\ \A r \in Deliveries : ticket[r] \notin {"stored", "local"}

\* A close that was requested, or a transport closed by an abandonment, lets go of
\* the owner's registration as long as the host pumps (finish_close_request,
\* pump, unregister_if_drained).
ClosingDrains == (requested \/ tclosed) ~> ~registered
=============================================================================
