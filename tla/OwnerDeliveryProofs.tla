------------------------ MODULE OwnerDeliveryProofs ------------------------
(***************************************************************************)
(* Proofs about OwnerDelivery for any deliveries, kinds, phases and        *)
(* capacity of the transport.  A first invariant follows an entry through  *)
(* its claim, a second one, Routing, each message and each callback from   *)
(* the reservation to the release of the owner.                            *)
(***************************************************************************)
EXTENDS OwnerDelivery, SequenceTheorems, FiniteSetTheorems, TLAPS

\* The thread is at an entry, or will be once it has made its cancellations.
Entry ==
  /\ pc \in {"claim", "run", "discard", "settle", "remove"} \/ after = "settle" => cur # None
  /\ after = "settle" \/ pc \in {"settle", "remove"} => verdict # "none"
  /\ after # "none" <=> pc \in {"fault", "cancel"}
  /\ after = "settle" \/ pc = "settle" => status[cur] = "Claimed"
  /\ pc = "run" => cur \notin cancelled /\ status[cur] = "Claimed"
  /\ pc = "discard" => status[cur] = "Claimed"

\* What has run has been claimed, and no claim is undone.
RanWasClaimed ==
  /\ \A r \in ran : status[r] \in {"Claimed"} \cup Terminal
  /\ CancelHolds

\* A fault cancels everything before the thread goes on.
FaultCancels ==
  /\ cancelling # {} => pc = "cancel"
  /\ faulted => \A r \in records : Unclaimed(r) => r \in cancelled \cup cancelling

IInv == TypeOK /\ Entry /\ RanWasClaimed /\ FaultCancels

-----------------------------------------------------------------------------

LEMMA Initially == Init => IInv
<1> SUFFICES ASSUME Init PROVE IInv
  OBVIOUS
<1>1. TypeOK
  <2>1. /\ tclosed \in BOOLEAN /\ inboxClosed \in BOOLEAN /\ closed \in BOOLEAN
        /\ faulted \in BOOLEAN /\ registered \in BOOLEAN /\ requested \in BOOLEAN
        /\ done \in BOOLEAN /\ running \in BOOLEAN
    BY DEF Init
  <2>2. /\ status \in [Deliveries -> {"none", "Waiting", "Ready", "Claimed"} \cup Terminal]
        /\ ticket \in [Deliveries -> Tickets]
    BY DEF Init, Tickets
  <2>3. channel \in Seq(Deliveries) /\ pending \in Seq(Deliveries)
    BY DEF Init
  <2> QED
    BY <2>1, <2>2, <2>3 DEF Init, TypeOK, Locations
<1>2. Entry
  BY DEF Init, Entry
<1>3. RanWasClaimed /\ FaultCancels
  BY DEF Init, RanWasClaimed, CancelHolds, FaultCancels
<1> QED
  BY <1>1, <1>2, <1>3 DEF IInv

\* The pump takes a delivery out of those pending.
LEMMA TakeTakes ==
  ASSUME TypeOK, NEW i \in DOMAIN pending, Take(i)
  PROVE  pending[i] \in Deliveries /\ pending' \in Seq(Deliveries)
BY DEF TypeOK, Take, RemoveAt

\* What the operations on a record do to its fields.
RecordTypes ==
  /\ status \in [Deliveries -> {"none", "Waiting", "Ready", "Claimed"} \cup Terminal]
  /\ cancelled \subseteq Deliveries /\ notified \subseteq Deliveries
  /\ channel \in Seq(Deliveries)

LEMMA NotifyTypes ==
  ASSUME TypeOK, NEW r \in Deliveries, Notify(r)
  PROVE  notified' \subseteq Deliveries /\ channel' \in Seq(Deliveries)
<1>1. Append(channel, r) \in Seq(Deliveries)
  BY AppendProperties DEF TypeOK
<1>2. CASE r \in notified
  BY <1>2 DEF TypeOK, Notify
<1>3. CASE r \notin notified
  BY <1>1, <1>3 DEF TypeOK, Notify
<1> QED
  BY <1>2, <1>3

LEMMA ReadyTypes ==
  ASSUME TypeOK, NEW r \in Deliveries, Ready(r)
  PROVE  RecordTypes'
<1>1. CASE status' = [status EXCEPT ![r] = "Ready"] /\ Notify(r) /\ UNCHANGED cancelled
  BY <1>1, NotifyTypes DEF TypeOK, RecordTypes
<1>2. CASE UNCHANGED recordVars
  BY <1>2 DEF TypeOK, RecordTypes, recordVars
<1> QED
  BY <1>1, <1>2 DEF Ready

LEMMA CancelTypes ==
  ASSUME TypeOK, NEW r \in Deliveries, Cancel(r)
  PROVE  RecordTypes' /\ ticket' \in [Deliveries -> Tickets]
<1>1. CASE Unclaimed(r)
  <2>1. /\ cancelled' = cancelled \cup {r} /\ Notify(r) /\ status' = status
        /\ ticket' = [ticket EXCEPT ![r] = IF @ = "stored" THEN "used" ELSE @]
    BY <1>1 DEF Cancel
  <2>2. ticket' \in [Deliveries -> Tickets]
    BY <2>1 DEF TypeOK, Tickets
  <2> QED
    BY <2>1, <2>2, NotifyTypes DEF TypeOK, RecordTypes
<1>2. CASE UNCHANGED <<recordVars, ticket>>
  BY <1>2 DEF TypeOK, RecordTypes, recordVars
<1> QED
  BY <1>1, <1>2 DEF Cancel

LEMMA TicketTypes ==
  ASSUME TypeOK, NEW r \in Deliveries, NEW from, NEW to \in Tickets, TicketStep(r, from, to)
  PROVE  ticket' \in [Deliveries -> Tickets]
BY DEF TypeOK, TicketStep

LEMMA TypeStep == IInv /\ [Next]_vars => TypeOK'
<1> SUFFICES ASSUME TypeOK, Entry, [Next]_vars PROVE TypeOK'
  BY DEF IInv
<1> USE DEF transportVars, recordVars, inboxVars, localVars, flagVars, threadVars, outsideVars
<1>1. ASSUME NEW r \in Deliveries, Post(r) \/ Prepare(r) \/ OnReady(r) PROVE TypeOK'
  <2>1. CASE Post(r)
    <3>1. status' \in [Deliveries -> {"none", "Waiting", "Ready", "Claimed"} \cup Terminal]
      BY <2>1 DEF Post, TypeOK
    <3> QED
      BY <2>1, <3>1, NotifyTypes DEF Post, Reserve, TypeOK
  <2>2. CASE Prepare(r)
    <3>1. /\ status' \in [Deliveries -> {"none", "Waiting", "Ready", "Claimed"} \cup Terminal]
          /\ ticket' \in [Deliveries -> Tickets]
      BY <2>2 DEF Prepare, TypeOK, Tickets
    <3> QED
      BY <2>2, <3>1 DEF Prepare, Reserve, TypeOK
  <2>3. CASE OnReady(r)
    <3>1. /\ status' \in [Deliveries -> {"none", "Waiting", "Ready", "Claimed"} \cup Terminal]
          /\ ticket' \in [Deliveries -> Tickets]
      BY <2>3 DEF OnReady, TypeOK, Tickets
    <3>2. notified' \subseteq Deliveries /\ channel' \in Seq(Deliveries)
      BY <2>3, NotifyTypes DEF OnReady, TypeOK
    <3> QED
      BY <2>3, <3>1, <3>2 DEF OnReady, Reserve, TypeOK
  <2> QED
    BY <1>1, <2>1, <2>2, <2>3
<1>2. ASSUME NEW r \in Deliveries, SendReserve(r) \/ SendInsert(r) \/ SendReady(r)
      PROVE TypeOK'
  <2>1. CASE SendReserve(r)
    BY <2>1 DEF SendReserve, Reserve, TypeOK
  <2>2. CASE SendInsert(r)
    BY <2>2 DEF SendInsert, TypeOK
  <2>3. CASE SendReady(r)
    BY <2>3, ReadyTypes DEF SendReady, TypeOK, RecordTypes
  <2> QED
    BY <1>2, <2>1, <2>2, <2>3
<1>3. ASSUME NEW r \in Deliveries, CancelCall(r) \/ CancelRoute(r) \/ CancelNext(r)
      PROVE TypeOK'
  <2>1. RecordTypes' /\ ticket' \in [Deliveries -> Tickets]
    BY <1>3, CancelTypes DEF CancelCall, CancelRoute, CancelNext
  <2>2. CASE CancelCall(r)
    BY <2>1, <2>2 DEF CancelCall, TypeOK, RecordTypes
  <2>3. CASE CancelRoute(r)
    BY <2>1, <2>3 DEF CancelRoute, TypeOK, RecordTypes
  <2>4. CASE CancelNext(r)
    BY <2>1, <2>4 DEF CancelNext, TypeOK, RecordTypes
  <2> QED
    BY <1>3, <2>2, <2>3, <2>4
<1>4. ASSUME NEW r \in Deliveries,
             TicketReady(r) \/ TicketDrop(r) \/ Commit(r) \/ Bind(r) \/ StoreSubscription(r)
               \/ Deliver(r)
      PROVE TypeOK'
  <2>1. ticket' \in [Deliveries -> Tickets]
    <3>1. CASE TicketDrop(r)
      BY <3>1 DEF TicketDrop, TypeOK, Tickets
    <3> QED
      BY <1>4, <3>1, TicketTypes DEF TicketReady, Commit, Bind, StoreSubscription, Deliver,
        Tickets
  <2>2. RecordTypes'
    <3>1. CASE TicketDrop(r)
      <4>1. CASE Unclaimed(r)
        BY <3>1, <4>1, NotifyTypes DEF TicketDrop, TypeOK, RecordTypes
      <4>2. CASE ~Unclaimed(r)
        BY <3>1, <4>2 DEF TicketDrop, TypeOK, RecordTypes
      <4> QED
        BY <4>1, <4>2
    <3>2. CASE UNCHANGED recordVars
      BY <3>2 DEF TypeOK, RecordTypes
    <3> QED
      BY <1>4, <3>1, <3>2, ReadyTypes DEF TicketReady, Commit, Bind, StoreSubscription, Deliver
  <2>3. UNCHANGED <<transportVars, inboxVars, localVars, flagVars, threadVars, outsideVars, ran>>
    BY <1>4 DEF TicketReady, TicketDrop, Commit, Bind, StoreSubscription, Deliver
  <2> QED
    BY <2>1, <2>2, <2>3 DEF TypeOK, RecordTypes
<1>5. CASE Publish
  <2>1. ticket' \in [Deliveries -> Tickets]
    BY <1>5 DEF Publish, TypeOK, Tickets
  <2> QED
    BY <1>5, <2>1 DEF Publish, TypeOK
<1>6. CASE Recover \/ RequestClose \/ Close \/ AbandonRuntime \/ CloseRoutes
           \/ \E p \in Phases : SetPhase(p)
  <2>1. CASE Recover
    <3>1. faulted' \in BOOLEAN
      BY <2>1 DEF Recover, TypeOK
    <3> QED
      BY <2>1, <3>1 DEF Recover, Goto, TypeOK, Locations
  <2>2. CASE RequestClose
    BY <2>2 DEF RequestClose, Goto, TypeOK, Locations
  <2>3. CASE Close
    BY <2>3 DEF Close, Goto, TypeOK, Locations
  <2>4. CASE AbandonRuntime
    <3>1. running' \in BOOLEAN
      BY <2>4 DEF AbandonRuntime, TypeOK
    <3> QED
      BY <2>4, <3>1 DEF AbandonRuntime, Goto, TypeOK, Locations
  <2>5. CASE CloseRoutes
    BY <2>5 DEF CloseRoutes, Goto, TypeOK, Locations
  <2>6. ASSUME NEW p \in Phases, SetPhase(p) PROVE TypeOK'
    BY <2>6 DEF SetPhase, TypeOK
  <2> QED
    BY <1>6, <2>1, <2>2, <2>3, <2>4, <2>5, <2>6
<1>7. CASE CallPump \/ FinishCloseRequest \/ EndCancels \/ Unregister \/ Enter
  <2>1. CASE CallPump
    BY <2>1 DEF CallPump, Goto, TypeOK, Locations
  <2>2. CASE FinishCloseRequest
    <3>1. CASE requested /\ lock = None
      <4>1. requested' \in BOOLEAN /\ pc' = "cancel" /\ after' = "unregister"
        BY <2>2, <3>1 DEF FinishCloseRequest, Goto
      <4>2. closed' \in BOOLEAN /\ inboxClosed' \in BOOLEAN /\ tclosed' \in BOOLEAN
              /\ cancelling' \subseteq Deliveries
        BY <2>2, <3>1 DEF FinishCloseRequest, TypeOK
      <4> QED
        BY <2>2, <4>1, <4>2 DEF FinishCloseRequest, TypeOK, Locations
    <3>2. CASE UNCHANGED <<requested, closed, inboxClosed, tclosed, cancelling, after>>
      BY <2>2, <3>2 DEF FinishCloseRequest, Goto, TypeOK, Locations
    <3> QED
      BY <2>2, <3>1, <3>2 DEF FinishCloseRequest
  <2>3. CASE EndCancels
    BY <2>3 DEF EndCancels, Goto, TypeOK, Locations, Entry
  <2>4. CASE Unregister
    BY <2>4 DEF Unregister, Goto, TypeOK, Locations
  <2>5. CASE Enter
    BY <2>5 DEF Enter, Goto, TypeOK, Locations
  <2> QED
    BY <1>7, <2>1, <2>2, <2>3, <2>4, <2>5
<1>8. CASE Receive \/ EndReceive \/ EndPump \/ EndCollect
  <2>1. CASE Receive
    BY <2>1 DEF Receive, Goto, TypeOK, Locations
  <2>2. CASE EndReceive
    BY <2>2 DEF EndReceive, Goto, TypeOK, Locations
  <2>3. CASE EndPump
    BY <2>3 DEF EndPump, Goto, TypeOK, Locations
  <2>4. CASE EndCollect
    BY <2>4 DEF EndCollect, Goto, TypeOK, Locations
  <2> QED
    BY <1>8, <2>1, <2>2, <2>3, <2>4
<1>9. CASE Select \/ Sweep
  BY <1>9, TakeTakes DEF Select, Sweep, Take, Goto, TypeOK, Locations
<1>10. CASE Claim
  <2>1. /\ status' \in [Deliveries -> {"none", "Waiting", "Ready", "Claimed"} \cup Terminal]
        /\ ticket' \in [Deliveries -> Tickets]
    BY <1>10 DEF Claim, TypeOK, Tickets
  <2>2. pc' \in Locations
    BY <1>10 DEF Claim, Goto, Locations
  <2> QED
    BY <1>10, <2>1, <2>2 DEF Claim, TypeOK
<1>11. CASE Run
  BY <1>11 DEF Run, Goto, TypeOK, Locations, Terminal, Entry
<1>12. CASE Discard
  BY <1>12 DEF Discard, Goto, TypeOK, Locations, Terminal
<1>13. CASE Settle
  <2>1. /\ status' \in [Deliveries -> {"none", "Waiting", "Ready", "Claimed"} \cup Terminal]
        /\ ticket' \in [Deliveries -> Tickets]
    BY <1>13 DEF Settle, TypeOK, Tickets, Terminal
  <2> QED
    BY <1>13, <2>1 DEF Settle, Goto, TypeOK, Locations
<1>14. CASE RemoveRecord
  BY <1>14 DEF RemoveRecord, Resume, Goto, TypeOK, Locations
<1>15. CASE Fault
  BY <1>15 DEF Fault, Goto, TypeOK, Locations
<1>16. CASE CloseTransport \/ EndClose
  <2>1. CASE CloseTransport
    BY <2>1 DEF CloseTransport, Goto, TypeOK, Locations
  <2>2. CASE EndClose
    <3>1. registered' \in BOOLEAN
      BY <2>2 DEF EndClose, TypeOK
    <3> QED
      BY <2>2, <3>1 DEF EndClose, Goto, TypeOK, Locations
  <2> QED
    BY <1>16, <2>1, <2>2
<1>17. CASE UNCHANGED vars
  BY <1>17 DEF vars, TypeOK
<1> QED
  BY <1>1, <1>2, <1>3, <1>4, <1>5, <1>6, <1>7, <1>8, <1>9, <1>10, <1>11, <1>12, <1>13, <1>14,
    <1>15, <1>16, <1>17
  DEF Next, Environment, OwnerStep, ThreadStep

LEMMA EntryStep == IInv /\ [Next]_vars => Entry'
<1> SUFFICES ASSUME IInv, [Next]_vars PROVE Entry'
  OBVIOUS
<1> USE OwnerAssumption DEF IInv, TypeOK, Entry, Unclaimed,
      transportVars, recordVars, inboxVars, localVars, flagVars, threadVars, outsideVars
<1>1. ASSUME NEW r \in Deliveries, Post(r) \/ Prepare(r) \/ OnReady(r) PROVE Entry'
  BY <1>1 DEF Post, Prepare, OnReady, Accepts, Reserve, Notify
<1>2. ASSUME NEW r \in Deliveries, SendReserve(r) \/ SendInsert(r) \/ SendReady(r)
      PROVE Entry'
  BY <1>2 DEF SendReserve, SendInsert, SendReady, SenderAccepts, Reserve, Ready, Notify
<1>3. ASSUME NEW r \in Deliveries, CancelCall(r) \/ CancelRoute(r) PROVE Entry'
  BY <1>3 DEF CancelCall, CancelRoute, Cancel, Notify
<1>4. ASSUME NEW r \in Deliveries, TicketReady(r) \/ TicketDrop(r) PROVE Entry'
  BY <1>4 DEF TicketReady, TicketDrop, TicketStep, Ready, Notify
<1>5. ASSUME NEW r \in Deliveries, Commit(r) \/ Bind(r) \/ StoreSubscription(r) \/ Deliver(r)
      PROVE Entry'
  BY <1>5 DEF Commit, Bind, StoreSubscription, Deliver, TicketStep, Ready, Notify
<1>6. CASE Recover \/ Publish \/ RequestClose \/ Close \/ AbandonRuntime \/ CloseRoutes
           \/ \E p \in Phases : SetPhase(p)
  <2>1. pc' = pc \/ (pc = "idle" /\ pc' = "closing")
    BY <1>6 DEF Recover, Publish, RequestClose, Close, AbandonRuntime, CloseRoutes, SetPhase,
      Goto
  <2>2. UNCHANGED <<status, cancelled, cur, verdict, after>>
    BY <1>6 DEF Recover, Publish, RequestClose, Close, AbandonRuntime, CloseRoutes, SetPhase
  <2> QED
    BY <2>1, <2>2
<1>7. CASE CallPump \/ FinishCloseRequest \/ EndCancels \/ Unregister \/ Enter
  BY <1>7 DEF CallPump, FinishCloseRequest, EndCancels, Unregister, Enter, Goto
<1>8. ASSUME NEW r \in Deliveries, CancelNext(r) PROVE Entry'
  BY <1>8 DEF CancelNext, Cancel, Notify
<1>9. CASE Receive \/ EndReceive \/ EndPump \/ EndCollect
  BY <1>9 DEF Receive, EndReceive, EndPump, EndCollect, Goto
<1>10. CASE Select \/ Sweep
  BY <1>10, TakeTakes DEF Select, Sweep, Take, Goto
<1>11. CASE Claim
  BY <1>11 DEF Claim, Runnable, Goto
<1>12. CASE Run
  BY <1>12 DEF Run, Goto
<1>13. CASE Discard
  BY <1>13 DEF Discard, Goto
<1>14. CASE Settle
  BY <1>14 DEF Settle, Goto
<1>15. CASE RemoveRecord
  BY <1>15 DEF RemoveRecord, Resume, Goto
<1>16. CASE Fault
  BY <1>16 DEF Fault, Goto
<1>17. CASE CloseTransport \/ EndClose
  BY <1>17 DEF CloseTransport, EndClose, Goto
<1>18. CASE UNCHANGED vars
  BY <1>18 DEF vars
<1> QED
  BY <1>1, <1>2, <1>3, <1>4, <1>5, <1>6, <1>7, <1>8, <1>9, <1>10, <1>11, <1>12, <1>13, <1>14,
    <1>15, <1>16, <1>17, <1>18
  DEF Next, Environment, OwnerStep, ThreadStep

LEMMA RanWasClaimedStep == IInv /\ [Next]_vars => RanWasClaimed'
<1> SUFFICES ASSUME IInv, [Next]_vars PROVE RanWasClaimed'
  OBVIOUS
<1> USE OwnerAssumption DEF IInv, TypeOK, RanWasClaimed, CancelHolds, Entry, Unclaimed, Terminal,
      transportVars, recordVars, inboxVars, localVars, flagVars, threadVars, outsideVars
<1>1. ASSUME NEW r \in Deliveries, Post(r) \/ Prepare(r) \/ OnReady(r) PROVE RanWasClaimed'
  BY <1>1 DEF Post, Prepare, OnReady, Accepts, Reserve, Notify
<1>2. ASSUME NEW r \in Deliveries, SendReserve(r) \/ SendInsert(r) \/ SendReady(r)
      PROVE RanWasClaimed'
  BY <1>2 DEF SendReserve, SendInsert, SendReady, SenderAccepts, Reserve, Ready, Notify
<1>3. ASSUME NEW r \in Deliveries, CancelCall(r) \/ CancelRoute(r) PROVE RanWasClaimed'
  BY <1>3 DEF CancelCall, CancelRoute, Cancel, Notify
<1>4. ASSUME NEW r \in Deliveries, TicketReady(r) \/ TicketDrop(r) PROVE RanWasClaimed'
  BY <1>4 DEF TicketReady, TicketDrop, TicketStep, Ready, Notify
<1>5. ASSUME NEW r \in Deliveries, Commit(r) \/ Bind(r) \/ StoreSubscription(r) \/ Deliver(r)
      PROVE RanWasClaimed'
  BY <1>5 DEF Commit, Bind, StoreSubscription, Deliver, TicketStep, Ready, Notify
<1>6. CASE Recover \/ Publish \/ RequestClose \/ Close \/ AbandonRuntime \/ CloseRoutes
           \/ \E p \in Phases : SetPhase(p)
  BY <1>6 DEF Recover, Publish, RequestClose, Close, AbandonRuntime, CloseRoutes, SetPhase
<1>7. CASE CallPump \/ FinishCloseRequest \/ EndCancels \/ Unregister \/ Enter
  BY <1>7 DEF CallPump, FinishCloseRequest, EndCancels, Unregister, Enter, Goto
<1>8. ASSUME NEW r \in Deliveries, CancelNext(r) PROVE RanWasClaimed'
  BY <1>8 DEF CancelNext, Cancel, Notify
<1>9. CASE Receive \/ EndReceive \/ EndPump \/ EndCollect
  BY <1>9 DEF Receive, EndReceive, EndPump, EndCollect, Goto
<1>10. CASE Select \/ Sweep
  BY <1>10, TakeTakes DEF Select, Sweep, Take, Goto
<1>11. CASE Claim
  BY <1>11 DEF Claim, Runnable, Goto
<1>12. CASE Run
  BY <1>12 DEF Run, Goto
<1>13. CASE Discard
  BY <1>13 DEF Discard, Goto
<1>14. CASE Settle
  BY <1>14 DEF Settle, Goto
<1>15. CASE RemoveRecord
  BY <1>15 DEF RemoveRecord, Resume, Goto
<1>16. CASE Fault
  BY <1>16 DEF Fault, Goto
<1>17. CASE CloseTransport \/ EndClose
  BY <1>17 DEF CloseTransport, EndClose, Goto
<1>18. CASE UNCHANGED vars
  BY <1>18 DEF vars
<1> QED
  BY <1>1, <1>2, <1>3, <1>4, <1>5, <1>6, <1>7, <1>8, <1>9, <1>10, <1>11, <1>12, <1>13, <1>14,
    <1>15, <1>16, <1>17, <1>18
  DEF Next, Environment, OwnerStep, ThreadStep

LEMMA FaultCancelsStep == IInv /\ [Next]_vars => FaultCancels'
<1> SUFFICES ASSUME IInv, [Next]_vars PROVE FaultCancels'
  OBVIOUS
<1> USE OwnerAssumption DEF IInv, TypeOK, FaultCancels, Entry, Unclaimed, Terminal,
      transportVars, recordVars, inboxVars, localVars, flagVars, threadVars, outsideVars
<1>1. ASSUME NEW r \in Deliveries, Post(r) \/ Prepare(r) \/ OnReady(r) PROVE FaultCancels'
  BY <1>1 DEF Post, Prepare, OnReady, Accepts, Reserve, Notify
<1>2. ASSUME NEW r \in Deliveries, SendReserve(r) \/ SendInsert(r) \/ SendReady(r)
      PROVE FaultCancels'
  BY <1>2 DEF SendReserve, SendInsert, SendReady, SenderAccepts, Reserve, Ready, Notify
<1>3. ASSUME NEW r \in Deliveries, CancelCall(r) \/ CancelRoute(r) PROVE FaultCancels'
  BY <1>3 DEF CancelCall, CancelRoute, Cancel, Notify
<1>4. ASSUME NEW r \in Deliveries, TicketReady(r) \/ TicketDrop(r) PROVE FaultCancels'
  BY <1>4 DEF TicketReady, TicketDrop, TicketStep, Ready, Notify
<1>5. ASSUME NEW r \in Deliveries, Commit(r) \/ Bind(r) \/ StoreSubscription(r) \/ Deliver(r)
      PROVE FaultCancels'
  BY <1>5 DEF Commit, Bind, StoreSubscription, Deliver, TicketStep, Ready, Notify
<1>6. CASE Recover \/ Publish \/ RequestClose \/ Close \/ AbandonRuntime \/ CloseRoutes
           \/ \E p \in Phases : SetPhase(p)
  BY <1>6 DEF Recover, Publish, RequestClose, Close, AbandonRuntime, CloseRoutes, SetPhase
<1>7. CASE CallPump \/ FinishCloseRequest \/ EndCancels \/ Unregister \/ Enter
  BY <1>7 DEF CallPump, FinishCloseRequest, EndCancels, Unregister, Enter, Goto
<1>8. ASSUME NEW r \in Deliveries, CancelNext(r) PROVE FaultCancels'
  BY <1>8 DEF CancelNext, Cancel, Notify
<1>9. CASE Receive \/ EndReceive \/ EndPump \/ EndCollect
  BY <1>9 DEF Receive, EndReceive, EndPump, EndCollect, Goto
<1>10. CASE Select \/ Sweep
  BY <1>10, TakeTakes DEF Select, Sweep, Take, Goto
<1>11. CASE Claim
  BY <1>11 DEF Claim, Runnable, Goto
<1>12. CASE Run
  BY <1>12 DEF Run, Goto
<1>13. CASE Discard
  BY <1>13 DEF Discard, Goto
<1>14. CASE Settle
  BY <1>14 DEF Settle, Goto
<1>15. CASE RemoveRecord
  BY <1>15 DEF RemoveRecord, Resume, Goto
<1>16. CASE Fault
  BY <1>16 DEF Fault, Goto
<1>17. CASE CloseTransport \/ EndClose
  BY <1>17 DEF CloseTransport, EndClose, Goto
<1>18. CASE UNCHANGED vars
  BY <1>18 DEF vars
<1> QED
  BY <1>1, <1>2, <1>3, <1>4, <1>5, <1>6, <1>7, <1>8, <1>9, <1>10, <1>11, <1>12, <1>13, <1>14,
    <1>15, <1>16, <1>17, <1>18
  DEF Next, Environment, OwnerStep, ThreadStep

-----------------------------------------------------------------------------

LEMMA Invariance == Spec => []IInv
<1>1. IInv /\ [Next]_vars => IInv'
  BY TypeStep, EntryStep, RanWasClaimedStep, FaultCancelsStep DEF IInv
<1> QED
  BY <1>1, Initially, PTL DEF Spec

\* The type invariant (every operation of owner.rs, delivery.rs and sender.rs).
THEOREM TypeCorrect == Spec => []TypeOK
<1>1. IInv => TypeOK
  BY DEF IInv
<1> QED
  BY <1>1, Invariance, PTL

\* A callback whose cancellation was answered "Requested" is never invoked, whoever
\* else makes it ready, before or after (Record::cancel, Notification::claim).
THEOREM CancellationHolds == Spec => []CancelHolds
<1>1. IInv => CancelHolds
  BY DEF IInv, RanWasClaimed
<1> QED
  BY <1>1, Invariance, PTL

\* A faulted owner has cancelled whatever it had accepted before it looks for the
\* next entry, and accepts nothing until it has been recovered (fault, recover).
THEOREM FaultStopsCallbacks == Spec => []FaultedRunsNothing
<1>1. IInv => FaultedRunsNothing
  BY DEF IInv, FaultCancels, FaultedRunsNothing
<1> QED
  BY <1>1, Invariance, PTL

-----------------------------------------------------------------------------
(* Queues that hold each delivery once *)

LEMMA ByPlace ==
  ASSUME NEW q \in Seq(Deliveries)
  PROVE  /\ Len(q) \in Nat /\ DOMAIN q = 1 .. Len(q) /\ q \in [1 .. Len(q) -> Deliveries]
         /\ \A x : x \in Range(q) <=> \E i \in 1 .. Len(q) : q[i] = x
         /\ IsInjective(q) <=> \A i, k \in 1 .. Len(q) : q[i] = q[k] => i = k
BY LenProperties DEF Range, IsInjective

LEMMA AppendOnce ==
  ASSUME NEW q \in Seq(Deliveries), IsInjective(q), NEW r \in Deliveries, r \notin Range(q)
  PROVE  IsInjective(Append(q, r)) /\ Range(Append(q, r)) = Range(q) \cup {r}
<1> DEFINE a == Append(q, r)
           n == Len(q)
<1>1. a \in Seq(Deliveries) /\ Len(a) = n + 1 /\ (\A i \in 1 .. n : a[i] = q[i]) /\ a[n + 1] = r
  BY AppendProperties
<1>2. /\ n \in Nat /\ \A i, k \in 1 .. n : q[i] = q[k] => i = k
      /\ \A x : x \in Range(q) <=> \E i \in 1 .. n : q[i] = x
  BY ByPlace
<1> HIDE DEF a, n
<1>3. /\ \A x : x \in Range(a) <=> \E i \in 1 .. n + 1 : a[i] = x
      /\ IsInjective(a) <=> \A i, k \in 1 .. n + 1 : a[i] = a[k] => i = k
  BY <1>1, ByPlace
<1>4. \A i : i \in 1 .. n + 1 <=> i \in 1 .. n \/ i = n + 1
  BY <1>2
<1>5. IsInjective(a) /\ Range(a) = Range(q) \cup {r}
  BY <1>1, <1>2, <1>3, <1>4
<1> QED
  BY <1>5 DEF a

LEMMA TailOnce ==
  ASSUME NEW q \in Seq(Deliveries), IsInjective(q), q # << >>
  PROVE  /\ Head(q) \in Range(q) /\ Tail(q) \in Seq(Deliveries)
         /\ IsInjective(Tail(q)) /\ Range(Tail(q)) = Range(q) \ {Head(q)}
<1> DEFINE t == Tail(q)
           n == Len(q)
<1>1. /\ n \in Nat \ {0} /\ \A i, k \in 1 .. n : q[i] = q[k] => i = k
      /\ \A x : x \in Range(q) <=> \E i \in 1 .. n : q[i] = x
  BY ByPlace, EmptySeq
<1>2. /\ t \in Seq(Deliveries) /\ Len(t) = n - 1 /\ \A i \in 1 .. n - 1 : t[i] = q[i + 1]
      /\ Head(q) = q[1]
  BY HeadTailProperties
<1> HIDE DEF t, n
<1>3. /\ \A x : x \in Range(t) <=> \E i \in 1 .. n - 1 : t[i] = x
      /\ IsInjective(t) <=> \A i, k \in 1 .. n - 1 : t[i] = t[k] => i = k
  <2>1. t \in Seq(Deliveries)
    BY <1>2
  <2>2. /\ \A x : x \in Range(t) <=> \E i \in 1 .. Len(t) : t[i] = x
        /\ IsInjective(t) <=> \A i, k \in 1 .. Len(t) : t[i] = t[k] => i = k
    BY <2>1, ByPlace
  <2> QED
    BY <1>2, <2>2
<1>4. IsInjective(t)
  <2>1. \A i, k \in 1 .. n - 1 : t[i] = t[k] => i = k
    <3> SUFFICES ASSUME NEW i \in 1 .. n - 1, NEW k \in 1 .. n - 1, t[i] = t[k] PROVE i = k
      OBVIOUS
    <3>1. i + 1 \in 1 .. n /\ k + 1 \in 1 .. n /\ q[i + 1] = q[k + 1]
      BY <1>1, <1>2
    <3>2. i + 1 = k + 1
      BY <1>1, <3>1
    <3> QED
      BY <3>2
  <2> QED
    BY <1>3, <2>1
<1>5. ASSUME NEW x PROVE x \in Range(t) <=> x \in Range(q) /\ x # Head(q)
  <2>1. ASSUME NEW i \in 1 .. n - 1, t[i] = x PROVE x \in Range(q) /\ x # Head(q)
    <3>1. i + 1 \in 1 .. n /\ q[i + 1] = x /\ 1 \in 1 .. n /\ i + 1 # 1
      BY <1>1, <1>2, <2>1
    <3> QED
      BY <1>1, <1>2, <3>1
  <2>2. ASSUME NEW i \in 1 .. n, q[i] = x, x # Head(q) PROVE x \in Range(t)
    <3>1. i - 1 \in 1 .. n - 1 /\ i - 1 + 1 = i
      BY <1>1, <1>2, <2>2
    <3>2. t[i - 1] = x
      BY <1>2, <2>2, <3>1
    <3> QED
      BY <1>3, <3>1, <3>2
  <2> QED
    BY <1>1, <1>3, <2>1, <2>2
<1>6. Head(q) \in Range(q)
  BY <1>1, <1>2
<1> QED
  BY <1>2, <1>4, <1>5, <1>6 DEF t

LEMMA RemoveOnce ==
  ASSUME NEW q \in Seq(Deliveries), IsInjective(q), NEW i \in DOMAIN q
  PROVE  /\ RemoveAt(q, i) \in Seq(Deliveries) /\ IsInjective(RemoveAt(q, i))
         /\ Range(RemoveAt(q, i)) = Range(q) \ {q[i]} /\ q[i] \in Range(q)
<1> DEFINE n == Len(q)
           u == SubSeq(q, 1, i - 1)
           v == SubSeq(q, i + 1, n)
           w == u \o v
<1>1. /\ n \in Nat /\ i \in 1 .. n /\ \A h, k \in 1 .. n : q[h] = q[k] => h = k
      /\ \A x : x \in Range(q) <=> \E h \in 1 .. n : q[h] = x
      /\ \A h \in 1 .. n : q[h] \in Deliveries
  BY ByPlace
<1>2. u \in Seq(Deliveries) /\ Len(u) = i - 1 /\ \A k \in 1 .. i - 1 : u[k] = q[k]
  <2>1. 1 \in Int /\ i - 1 \in Int /\ \A k \in 1 .. i - 1 : q[k] \in Deliveries
    BY <1>1
  <2>2. /\ u \in Seq(Deliveries) /\ Len(u) = IF 1 <= i - 1 THEN i - 1 - 1 + 1 ELSE 0
        /\ \A k \in 1 .. i - 1 - 1 + 1 : u[k] = q[1 + k - 1]
    BY <2>1, SubSeqProperties
  <2> QED
    BY <1>1, <2>2
<1>3. v \in Seq(Deliveries) /\ Len(v) = n - i /\ \A k \in 1 .. n - i : v[k] = q[i + k]
  <2>1. i + 1 \in Int /\ n \in Int /\ \A k \in i + 1 .. n : q[k] \in Deliveries
    BY <1>1
  <2>2. /\ v \in Seq(Deliveries) /\ Len(v) = IF i + 1 <= n THEN n - (i + 1) + 1 ELSE 0
        /\ \A k \in 1 .. n - (i + 1) + 1 : v[k] = q[i + 1 + k - 1]
    BY <2>1, SubSeqProperties
  <2> QED
    BY <1>1, <2>2
<1> HIDE DEF u, v, n
<1>4. /\ w \in Seq(Deliveries) /\ Len(w) = i - 1 + (n - i)
      /\ \A k \in 1 .. i - 1 + (n - i) : w[k] = IF k <= i - 1 THEN u[k] ELSE v[k - (i - 1)]
  <2>1. /\ w \in Seq(Deliveries) /\ Len(w) = Len(u) + Len(v)
        /\ \A k \in 1 .. Len(u) + Len(v) : w[k] = IF k <= Len(u) THEN u[k] ELSE v[k - Len(u)]
    BY <1>2, <1>3, ConcatProperties
  <2> HIDE DEF w
  <2> QED
    BY <1>2, <1>3, <2>1
<1> HIDE DEF w
<1>5. \A k \in 1 .. n - 1 : w[k] = IF k < i THEN q[k] ELSE q[k + 1]
  <2> SUFFICES ASSUME NEW k \in 1 .. n - 1 PROVE w[k] = IF k < i THEN q[k] ELSE q[k + 1]
    OBVIOUS
  <2>1. CASE k < i
    BY <1>1, <1>2, <1>4, <2>1
  <2>2. CASE ~(k < i)
    <3>1. /\ k - (i - 1) \in 1 .. n - i /\ i + (k - (i - 1)) = k + 1
          /\ k \in 1 .. i - 1 + (n - i) /\ ~(k <= i - 1)
      BY <1>1, <2>2
    <3>2. w[k] = v[k - (i - 1)] /\ v[k - (i - 1)] = q[i + (k - (i - 1))]
      BY <1>3, <1>4, <3>1
    <3> QED
      BY <2>2, <3>1, <3>2
  <2> QED
    BY <2>1, <2>2
<1>6. w \in Seq(Deliveries) /\ Len(w) = n - 1
  BY <1>1, <1>4
<1>7. /\ \A x : x \in Range(w) <=> \E k \in 1 .. n - 1 : w[k] = x
      /\ IsInjective(w) <=> \A h, k \in 1 .. n - 1 : w[h] = w[k] => h = k
  BY <1>6, ByPlace
<1> DEFINE f(k) == IF k < i THEN k ELSE k + 1
<1>8. \A k \in 1 .. n - 1 : f(k) \in 1 .. n /\ f(k) # i /\ w[k] = q[f(k)]
  BY <1>1, <1>5
<1>9. \A h, k \in 1 .. n - 1 : f(h) = f(k) => h = k
  BY <1>1
<1>10. \A h \in 1 .. n : h # i => \E k \in 1 .. n - 1 : f(k) = h
  <2> SUFFICES ASSUME NEW h \in 1 .. n, h # i PROVE \E k \in 1 .. n - 1 : f(k) = h
    OBVIOUS
  <2>1. CASE h < i
    BY <1>1, <2>1
  <2>2. CASE h > i
    <3>1. h - 1 \in 1 .. n - 1 /\ f(h - 1) = h
      BY <1>1, <2>2
    <3> QED
      BY <3>1
  <2> QED
    BY <1>1, <2>1, <2>2
<1> HIDE DEF f
<1>11. IsInjective(w)
  BY <1>1, <1>7, <1>8, <1>9
<1>12. ASSUME NEW x PROVE x \in Range(w) <=> x \in Range(q) /\ x # q[i]
  <2>1. ASSUME NEW k \in 1 .. n - 1, w[k] = x PROVE x \in Range(q) /\ x # q[i]
    BY <1>1, <1>8, <2>1
  <2>2. ASSUME NEW h \in 1 .. n, q[h] = x, x # q[i] PROVE x \in Range(w)
    <3>1. PICK k \in 1 .. n - 1 : f(k) = h
      BY <1>10, <2>2
    <3> QED
      BY <1>7, <1>8, <2>2, <3>1
  <2> QED
    BY <1>1, <1>7, <2>1, <2>2
<1>13. w = RemoveAt(q, i)
  BY DEF RemoveAt, w, u, v, n
<1> QED
  BY <1>1, <1>6, <1>11, <1>12, <1>13

LEMMA LengthOnce ==
  ASSUME NEW q \in Seq(Deliveries), IsInjective(q)
  PROVE  IsFiniteSet(Range(q)) /\ Len(q) = Cardinality(Range(q)) /\ Len(q) \in Nat
<1> DEFINE S == Range(q)
           f == [i \in 1 .. Len(q) |-> q[i]]
<1>1. /\ Len(q) \in Nat /\ \A i, k \in 1 .. Len(q) : q[i] = q[k] => i = k
      /\ \A x : x \in S <=> \E i \in 1 .. Len(q) : q[i] = x
  BY ByPlace
<1> HIDE DEF S
<1>2. f \in Injection(1 .. Len(q), S)
  BY <1>1 DEF Injection, IsInjective
<1>3. f \in Surjection(1 .. Len(q), S)
  BY <1>1 DEF Surjection
<1>4. IsFiniteSet(1 .. Len(q)) /\ Cardinality(1 .. Len(q)) = Len(q)
  <2> DEFINE n == Len(q)
  <2>1. n \in Nat
    BY <1>1
  <2> HIDE DEF n
  <2>2. IsFiniteSet(1 .. n) /\ Cardinality(1 .. n) = IF 1 > n THEN 0 ELSE n - 1 + 1
    BY <2>1, FS_Interval
  <2>3. IsFiniteSet(1 .. n) /\ Cardinality(1 .. n) = n
    BY <2>1, <2>2
  <2> QED
    BY <2>3 DEF n
<1>5. ExistsBijection(1 .. Len(q), S)
  BY <1>2, <1>3 DEF ExistsBijection, Bijection
<1>6. IsFiniteSet(S) /\ Len(q) = Cardinality(S)
  BY <1>4, <1>5, FS_Bijection
<1> QED
  BY <1>1, <1>6 DEF S

LEMMA CountOnce ==
  ASSUME NEW q \in Seq(Deliveries), IsInjective(q), NEW r
  PROVE  Cardinality({i \in DOMAIN q : q[i] = r}) = IF r \in Range(q) THEN 1 ELSE 0
<1> DEFINE P == {i \in DOMAIN q : q[i] = r}
<1>1. /\ DOMAIN q = 1 .. Len(q) /\ \A i, k \in 1 .. Len(q) : q[i] = q[k] => i = k
      /\ r \in Range(q) <=> \E i \in 1 .. Len(q) : q[i] = r
  BY ByPlace
<1>2. CASE r \in Range(q)
  <2>1. PICK i \in 1 .. Len(q) : q[i] = r
    BY <1>1, <1>2
  <2>2. P = {i}
    BY <1>1, <2>1
  <2> HIDE DEF P
  <2>3. Cardinality(P) = 1
    BY <2>2, FS_Singleton
  <2> QED
    BY <1>2, <2>3 DEF P
<1>3. CASE r \notin Range(q)
  <2>1. P = {}
    BY <1>1, <1>3
  <2> HIDE DEF P
  <2>2. Cardinality(P) = 0
    BY <2>1, FS_EmptySet
  <2> QED
    BY <1>3, <2>2 DEF P
<1> QED
  BY <1>2, <1>3

LEMMA NoneListed ==
  ASSUME NEW q \in Seq(Deliveries), Range(q) = {}
  PROVE  q = << >>
<1>1. Len(q) \in Nat /\ \A i \in 1 .. Len(q) : FALSE
  BY ByPlace
<1>2. Len(q) = 0
  BY <1>1
<1> QED
  BY <1>2, EmptySeq
-----------------------------------------------------------------------------
(* Messages and the records they are for *)

Posted == Range(channel) \cup Range(pending)

\* A record that may still be claimed has, once notified, one message: in the
\* channel, with the owner, or in its thread's hand; nobody else has one.
Mail ==
  /\ IsInjective(channel) /\ IsInjective(pending)
  /\ Range(channel) \cap Range(pending) = {}
  /\ cur \notin Posted /\ Posted \cup ({cur} \ {None}) \subseteq notified \cap records
  /\ \A r \in records : Unclaimed(r) /\ r \in notified => r \in Posted \cup {cur}

\* The transport's records are those to be claimed and the one in hand, and each
\* of them has its callback where its message will find it.
Standing ==
  /\ IsFiniteSet(records) /\ Cardinality(records) <= Capacity
  /\ \A r \in Deliveries :
       /\ r \in records <=> Unclaimed(r) \/ r = cur
       /\ status[r] = "none" => r \notin notified
       /\ r \in cancelled => r \in notified
       /\ Unclaimed(r) => r \in callbacks \cup inbox \cup {cur, lock}
  /\ callbacks \cup inbox \subseteq records \ {cur}
  /\ lock # None => Unclaimed(lock)
  /\ (inbox \cup {lock}) \cap ((Range(pending) \cup {cur}) \ {None}) = {}
  /\ cur # None <=> pc \in {"claim", "run", "discard", "settle", "remove"} \/ after = "settle"
  /\ cur # None => (Unclaimed(cur) <=> pc = "claim")

\* Where the thread can be while it sweeps a closed owner.
Sweeping ==
  /\ pc \in {"collect", "sweep"} \/ after \in {"collect", "sweep"} => next = "sweep"
  /\ next = "sweep" =>
       /\ pc \in {"collect", "sweep", "claim", "run", "discard", "settle", "remove", "fault",
                  "cancel", "gone"}
       /\ after \in {"none", "collect", "sweep", "settle"}
       /\ channel = << >> \/ pc = "collect" \/ after = "collect"

\* What a closure has put an end to.
Closure ==
  /\ closed => tclosed \/ pc = "closing"
  /\ inboxClosed => lock = None
  /\ pc = "closing" \/ next = "sweep" => inboxClosed /\ inbox = {}
  /\ next = "sweep" =>
       /\ tclosed /\ records \subseteq notified \cup cancelling
       /\ after # "collect" => records \subseteq notified
  /\ ~registered => tclosed /\ records = {}

\* A subscription that is kept, by a record or with its callback.
Kept ==
  \A r \in Deliveries :
    /\ ticket[r] = "stored" => r \in records /\ (r = cur => pc # "remove")
    /\ ticket[r] = "local" => Unclaimed(r)


-----------------------------------------------------------------------------
(* What the operations on a record do to those two *)

\* Record::ready and cancel: at most one more message, of a record that may still
\* be claimed, and no record changes between being claimable and not.
Touched(r) ==
  /\ \/ UNCHANGED <<notified, channel>>
     \/ /\ Unclaimed(r) /\ r \notin notified /\ notified' = notified \cup {r}
        /\ IsInjective(channel') /\ Range(channel') = Range(channel) \cup {r}
  /\ \A x \in Deliveries :
       (Unclaimed(x)' <=> Unclaimed(x)) /\ (status'[x] = "none" <=> status[x] = "none")
  /\ cancelled' \subseteq cancelled \cup notified'

\* A step of any thread that does no more than that: a sender may let go of the
\* inbox, and a record on the list of those to cancel is cancelled.
TouchStep(r) ==
  /\ Touched(r)
  /\ \/ UNCHANGED lock
     \/ lock' = None /\ lock \in inbox
  /\ cancelling' = cancelling \/ cancelling' = cancelling \ {r}
  /\ cancelling' # cancelling /\ Unclaimed(r) => r \in notified'
  /\ UNCHANGED <<transportVars, inbox, inboxClosed, localVars, closed, registered, pc, next, after,
                 cur>>

LEMMA NotifySends ==
  ASSUME TypeOK, Mail, NEW r \in Deliveries, Notify(r)
  PROVE  /\ r \in notified'
         /\ \/ UNCHANGED <<notified, channel>>
            \/ /\ r \notin notified /\ notified' = notified \cup {r}
               /\ IsInjective(channel') /\ Range(channel') = Range(channel) \cup {r}
<1>1. CASE r \in notified
  BY <1>1 DEF Notify
<1>2. CASE r \notin notified
  <2>1. channel \in Seq(Deliveries) /\ IsInjective(channel) /\ r \notin Range(channel)
    BY <1>2 DEF TypeOK, Mail, Posted
  <2>2. IsInjective(Append(channel, r)) /\ Range(Append(channel, r)) = Range(channel) \cup {r}
    BY <2>1, AppendOnce
  <2> QED
    BY <1>2, <2>2 DEF Notify
<1> QED
  BY <1>1, <1>2

LEMMA ReadyTouches ==
  ASSUME TypeOK, Mail, NEW r \in Deliveries, Ready(r)
  PROVE  Touched(r)
<1>1. CASE status[r] = "Waiting" /\ r \notin cancelled
  <2>1. status' = [status EXCEPT ![r] = "Ready"] /\ Notify(r) /\ cancelled' = cancelled
    BY <1>1 DEF Ready
  <2>2. \A x \in Deliveries : status'[x] = IF x = r THEN "Ready" ELSE status[x]
    BY <2>1 DEF TypeOK
  <2> QED
    BY <1>1, <2>1, <2>2, NotifySends DEF Touched, Unclaimed
<1>2. CASE UNCHANGED recordVars
  BY <1>2 DEF recordVars, Touched, Unclaimed
<1> QED
  BY <1>1, <1>2 DEF Ready

LEMMA CancelTouches ==
  ASSUME TypeOK, Mail, NEW r \in Deliveries,
         \/ Unclaimed(r) /\ cancelled' = cancelled \cup {r} /\ Notify(r) /\ UNCHANGED status
         \/ ~Unclaimed(r) /\ UNCHANGED recordVars
  PROVE  Touched(r) /\ (Unclaimed(r) => r \in notified')
<1>1. CASE Unclaimed(r) /\ cancelled' = cancelled \cup {r} /\ Notify(r) /\ UNCHANGED status
  BY <1>1, NotifySends DEF Touched, Unclaimed
<1>2. CASE ~Unclaimed(r) /\ UNCHANGED recordVars
  BY <1>2 DEF recordVars, Touched, Unclaimed
<1> QED
  BY <1>1, <1>2

LEMMA TouchMail ==
  ASSUME TypeOK, Mail, Standing, NEW r \in Deliveries, TouchStep(r)
  PROVE  Mail'
<1> USE DEF TouchStep, Touched, transportVars, localVars
<1>1. records' = records /\ pending' = pending /\ cur' = cur
  OBVIOUS
<1>2. records \subseteq Deliveries
  BY DEF TypeOK
<1>3. CASE UNCHANGED <<notified, channel>>
  BY <1>1, <1>2, <1>3 DEF Mail, Posted
<1>4. CASE /\ Unclaimed(r) /\ r \notin notified /\ notified' = notified \cup {r}
           /\ IsInjective(channel') /\ Range(channel') = Range(channel) \cup {r}
  <2>1. r \in records /\ r \notin Posted /\ r # cur
    BY <1>4, OwnerAssumption DEF Mail, Standing
  <2>2. Posted' = Posted \cup {r}
    BY <1>1, <1>4 DEF Posted
  <2>3. IsInjective(pending)' /\ (Range(channel) \cap Range(pending) = {})'
    BY <1>1, <1>4, <2>1 DEF Mail, Posted
  <2>4. ASSUME NEW x \in records', Unclaimed(x)', x \in notified' PROVE x \in Posted' \cup {cur'}
    BY <1>1, <1>2, <1>4, <2>2, <2>4 DEF Mail
  <2>5. cur' \notin Posted' /\ Posted' \cup ({cur'} \ {None}) \subseteq notified' \cap records'
    BY <1>1, <1>4, <2>1, <2>2 DEF Mail
  <2> QED
    BY <1>4, <2>3, <2>4, <2>5 DEF Mail
<1> QED
  BY <1>3, <1>4

LEMMA TouchRest ==
  ASSUME TypeOK, Mail, Standing, Sweeping, Closure, NEW r \in Deliveries, TouchStep(r)
  PROVE  Standing' /\ Sweeping' /\ Closure'
<1> USE DEF TouchStep, Touched, transportVars, localVars
<1>1. /\ UNCHANGED <<records, tclosed, inbox, inboxClosed, callbacks, pending, closed, registered,
                     pc, next, after, cur>>
      /\ records \subseteq Deliveries /\ notified \subseteq notified'
      /\ \A x \in Deliveries : Unclaimed(x)' <=> Unclaimed(x)
  BY DEF TypeOK
<1>2. Standing'
  <2>1. ASSUME NEW x \in Deliveries
        PROVE  /\ x \in records' <=> Unclaimed(x)' \/ x = cur'
               /\ status'[x] = "none" => x \notin notified'
               /\ x \in cancelled' => x \in notified'
               /\ Unclaimed(x)' => x \in callbacks' \cup inbox' \cup {cur', lock'}
    BY <1>1, <2>1 DEF Standing, Unclaimed
  <2>2. (lock # None => Unclaimed(lock))'
    BY <1>1 DEF Standing, TypeOK, Unclaimed
  <2>3. (cur # None => (Unclaimed(cur) <=> pc = "claim"))'
    BY <1>1 DEF Standing, TypeOK, Unclaimed
  <2>4. (inbox' \cup {lock'}) \cap ((Range(pending') \cup {cur'}) \ {None}) = {}
    BY <1>1 DEF Standing
  <2> QED
    BY <1>1, <2>1, <2>2, <2>3, <2>4 DEF Standing
<1>3. Sweeping'
  <2>1. ASSUME next = "sweep", after # "collect" PROVE channel' = channel
    BY <2>1 DEF Closure, Standing
  <2> QED
    BY <1>1, <2>1 DEF Sweeping
<1>4. Closure'
  <2>1. inboxClosed => lock' = None
    BY DEF Closure
  <2>2. ASSUME next = "sweep"
        PROVE  /\ records \subseteq notified' \cup cancelling'
               /\ after # "collect" => records \subseteq notified'
    <3>1. CASE cancelling' = cancelling
      BY <1>1, <2>2, <3>1 DEF Closure
    <3>2. CASE cancelling' # cancelling /\ Unclaimed(r)
      BY <1>1, <2>2, <3>2 DEF Closure
    <3>3. CASE ~Unclaimed(r)
      <4>1. r \in records => r \in notified
        BY <3>3, OwnerAssumption DEF Standing, Mail
      <4>2. /\ records \subseteq notified \cup cancelling
            /\ after # "collect" => records \subseteq notified
        BY <2>2 DEF Closure
      <4>3. cancelling \subseteq cancelling' \cup {r}
        OBVIOUS
      <4> QED
        BY <1>1, <4>1, <4>2, <4>3
    <3> QED
      BY <3>1, <3>2, <3>3
  <2> QED
    BY <1>1, <2>1, <2>2 DEF Closure
<1> QED
  BY <1>2, <1>3, <1>4

LEMMA ThreadsTouch ==
  ASSUME TypeOK, Mail, NEW r \in Deliveries,
         \/ CancelCall(r) \/ CancelRoute(r) \/ CancelNext(r) \/ SendReady(r)
         \/ TicketReady(r) \/ TicketDrop(r) \/ Commit(r) \/ Bind(r) \/ StoreSubscription(r)
         \/ Deliver(r)
  PROVE  TouchStep(r)
<1> USE DEF transportVars, inboxVars, localVars, flagVars, threadVars
<1>1. UNCHANGED recordVars => Touched(r)
  BY DEF recordVars, Touched, Unclaimed
<1>2. CASE CancelCall(r) \/ CancelRoute(r) \/ CancelNext(r)
  <2>1. Touched(r) /\ (Unclaimed(r) => r \in notified')
    BY <1>2, CancelTouches DEF CancelCall, CancelRoute, CancelNext, Cancel
  <2> QED
    BY <1>2, <2>1 DEF CancelCall, CancelRoute, CancelNext, TouchStep
<1>3. CASE SendReady(r)
  <2>1. Touched(r)
    BY <1>3, ReadyTouches DEF SendReady
  <2> QED
    BY <1>3, <2>1 DEF SendReady, TouchStep
<1>4. CASE TicketDrop(r)
  <2>1. Touched(r)
    BY <1>4, CancelTouches DEF TicketDrop
  <2> QED
    BY <1>4, <2>1 DEF TicketDrop, TouchStep
<1>5. CASE TicketReady(r) \/ Commit(r) \/ Bind(r) \/ StoreSubscription(r) \/ Deliver(r)
  <2>1. Touched(r)
    BY <1>1, <1>5, ReadyTouches DEF TicketReady, Commit, Bind, StoreSubscription, Deliver
  <2> QED
    BY <1>5, <2>1 DEF TicketReady, Commit, Bind, StoreSubscription, Deliver, TouchStep
<1> QED
  BY <1>2, <1>3, <1>4, <1>5

-----------------------------------------------------------------------------
(* A record is reserved *)

\* The owner's thread keeps the callback, which may be ready at once; a sender
\* holds the inbox until it has put it there.
ReserveStep(r) ==
  /\ status[r] = "none" /\ Reservable
  /\ records' = records \cup {r}
  /\ \A x \in Deliveries \ {r} : status'[x] = status[x]
  /\ status'[r] \in {"Waiting", "Ready"}
  /\ \/ UNCHANGED <<notified, channel>>
     \/ /\ r \notin notified /\ notified' = notified \cup {r}
        /\ IsInjective(channel') /\ Range(channel') = Range(channel) \cup {r}
  /\ \/ callbacks' = callbacks \cup {r} /\ UNCHANGED lock
     \/ UNCHANGED callbacks /\ ~inboxClosed /\ lock = None /\ lock' = r
  /\ UNCHANGED <<tclosed, cancelled, inbox, inboxClosed, pending, closed, registered, pc, next,
                 after, cur, cancelling>>

LEMMA Reserves ==
  ASSUME TypeOK, Mail, NEW r \in Deliveries,
         Post(r) \/ Prepare(r) \/ OnReady(r) \/ SendReserve(r)
  PROVE  ReserveStep(r)
<1> USE DEF transportVars, inboxVars, flagVars, threadVars, Reserve
<1>1. \A s \in {"Waiting", "Ready"} :
        status' = [status EXCEPT ![r] = s] =>
          status'[r] = s /\ \A x \in Deliveries \ {r} : status'[x] = status[x]
  BY DEF TypeOK
<1>2. CASE Post(r)
  BY <1>1, <1>2, NotifySends DEF Post, ReserveStep
<1>3. CASE Prepare(r)
  BY <1>1, <1>3 DEF Prepare, ReserveStep
<1>4. CASE OnReady(r)
  BY <1>1, <1>4, NotifySends DEF OnReady, ReserveStep
<1>5. CASE SendReserve(r)
  BY <1>1, <1>5 DEF SendReserve, SenderAccepts, recordVars, localVars, ReserveStep
<1> QED
  BY <1>2, <1>3, <1>4, <1>5

LEMMA ReserveKeeps ==
  ASSUME TypeOK, Entry, Mail, Standing, Sweeping, Closure, NEW r \in Deliveries, ReserveStep(r)
  PROVE  Mail' /\ Standing' /\ Sweeping' /\ Closure'
<1> USE DEF ReserveStep
<1>1. /\ ~tclosed /\ next # "sweep" /\ registered
      /\ UNCHANGED <<tclosed, cancelled, inbox, inboxClosed, pending, closed, registered, pc,
                     next, after, cur, cancelling>>
  BY DEF Reservable, Closure
<1>2. /\ r \notin notified /\ r \notin cancelled /\ r \notin records /\ r # cur /\ r # None
      /\ r \notin Posted /\ r \notin callbacks \cup inbox /\ r # lock /\ ~Unclaimed(r)
  BY OwnerAssumption DEF Standing, Mail, Unclaimed
<1>3. \A x \in Deliveries : Unclaimed(x)' <=> Unclaimed(x) \/ x = r
  BY DEF Unclaimed
<1>4. Mail'
  <2>1. Posted' = Posted \/ (Posted' = Posted \cup {r} /\ r \in notified')
    BY <1>1 DEF Posted
  <2>2. IsInjective(channel)' /\ IsInjective(pending)' /\ (Range(channel) \cap Range(pending) = {})'
    BY <1>1, <1>2 DEF Mail, Posted
  <2>3. (cur \notin Posted)' /\ (Posted \cup ({cur} \ {None}) \subseteq notified \cap records)'
    BY <1>1, <1>2, <2>1 DEF Mail
  <2>4. ASSUME NEW x \in records', Unclaimed(x)', x \in notified' PROVE x \in Posted' \cup {cur'}
    <3>1. CASE x = r
      BY <1>2, <2>4, <3>1 DEF Posted
    <3>2. CASE x # r
      <4>1. x \in records /\ x \in Deliveries /\ x \in notified /\ Unclaimed(x)
        BY <1>3, <2>4, <3>2 DEF TypeOK
      <4> QED
        BY <1>1, <2>1, <4>1 DEF Mail
    <3> QED
      BY <3>1, <3>2
  <2> QED
    BY <2>2, <2>3, <2>4 DEF Mail
<1>5. Standing'
  <2>1. IsFiniteSet(records') /\ Cardinality(records') <= Capacity
    <3>1. Cardinality(records') = Cardinality(records) + 1 /\ Cardinality(records) \in Nat
            /\ IsFiniteSet(records')
      BY <1>2, FS_AddElement, FS_CardinalityType DEF Standing
    <3> QED
      BY <3>1, OwnerAssumption DEF Reservable
  <2>2. ASSUME NEW x \in Deliveries
        PROVE  /\ x \in records' <=> Unclaimed(x)' \/ x = cur'
               /\ status'[x] = "none" => x \notin notified'
               /\ x \in cancelled' => x \in notified'
               /\ Unclaimed(x)' => x \in callbacks' \cup inbox' \cup {cur', lock'}
    <3>1. CASE x = r
      BY <1>1, <1>2, <1>3, <3>1
    <3>2. CASE x # r
      <4>1. /\ status'[x] = status[x] /\ (Unclaimed(x)' <=> Unclaimed(x))
            /\ x \in records' <=> x \in records
            /\ x \in notified' <=> x \in notified
        BY <1>3, <3>2
      <4>2. callbacks \subseteq callbacks' /\ lock \in {lock', None}
        OBVIOUS
      <4> QED
        BY <1>1, <4>1, <4>2, OwnerAssumption DEF Standing
    <3> QED
      BY <3>1, <3>2
  <2>3. callbacks' \cup inbox' \subseteq records' \ {cur'}
    BY <1>1, <1>2 DEF Standing
  <2>4. (lock # None => Unclaimed(lock))'
    BY <1>3 DEF Standing, TypeOK, Unclaimed
  <2>5. (inbox' \cup {lock'}) \cap ((Range(pending') \cup {cur'}) \ {None}) = {}
    BY <1>1, <1>2 DEF Standing, Posted
  <2>6. (cur # None => (Unclaimed(cur) <=> pc = "claim"))'
    BY <1>1, <1>2, <1>3 DEF Standing, TypeOK, Unclaimed
  <2> QED
    BY <1>1, <2>1, <2>2, <2>3, <2>4, <2>5, <2>6 DEF Standing
<1>6. Sweeping' /\ Closure'
  BY <1>1 DEF Sweeping, Closure
<1> QED
  BY <1>4, <1>5, <1>6

-----------------------------------------------------------------------------
(* Steps that send and take no message *)

Still == UNCHANGED <<records, status, cancelled, notified, channel, pending, cur>>

InHand == pc \in {"claim", "run", "discard", "settle", "remove"} \/ after = "settle"

LEMMA StillMail ==
  ASSUME Mail, Still
  PROVE  Mail'
BY DEF Mail, Posted, Still, Unclaimed

LEMMA StillStanding ==
  ASSUME Standing, Still, UNCHANGED <<callbacks, inbox, lock>>,
         InHand' <=> InHand, cur # None => (pc' = "claim" <=> pc = "claim")
  PROVE  Standing'
BY DEF Standing, Still, InHand, Unclaimed

\* The program, the host and other threads.
Foreign ==
  \/ Recover \/ Publish \/ RequestClose \/ AbandonRuntime \/ CloseRoutes
  \/ \E p \in Phases : SetPhase(p)

\* The owner's thread goes on.
Onward ==
  \/ CallPump \/ FinishCloseRequest \/ EndCancels \/ Unregister \/ Enter \/ EndReceive \/ EndPump
  \/ Run \/ Discard \/ Fault \/ CloseTransport \/ EndCollect \/ EndClose

LEMMA ForeignKeeps ==
  ASSUME Mail, Standing, Sweeping, Closure, Foreign
  PROVE  Mail' /\ Standing' /\ Sweeping' /\ Closure'
<1>1. /\ Still
      /\ UNCHANGED <<callbacks, inbox, lock, inboxClosed, closed, registered, pc, next, after,
                     cancelling>>
      /\ tclosed => tclosed'
  BY DEF Foreign, Recover, Publish, RequestClose, AbandonRuntime, CloseRoutes, SetPhase, Still,
    transportVars, recordVars, inboxVars, localVars, flagVars, threadVars
<1>2. Mail'
  BY <1>1, StillMail
<1>3. Standing'
  BY <1>1, StillStanding DEF InHand
<1>4. Sweeping' /\ Closure'
  BY <1>1 DEF Still, Sweeping, Closure
<1> QED
  BY <1>2, <1>3, <1>4

LEMMA OnwardStands ==
  ASSUME IInv, Standing, Onward
  PROVE  /\ Still /\ Standing' /\ UNCHANGED <<callbacks, inbox, lock>>
<1> USE DEF transportVars, recordVars, inboxVars, localVars, flagVars, threadVars
<1>1. Still /\ UNCHANGED <<callbacks, inbox, lock>>
  BY DEF Onward, CallPump, FinishCloseRequest, EndCancels, Unregister, Enter, EndReceive, EndPump,
    Run, Discard, Fault, CloseTransport, EndCollect, EndClose, Still
<1>2. /\ InHand' <=> InHand
      /\ cur # None => (pc' = "claim" <=> pc = "claim")
  <2> USE DEF InHand, Goto, IInv, Entry, TypeOK
  <2>1. CASE CallPump \/ FinishCloseRequest \/ EndReceive \/ EndPump \/ Enter
    BY <2>1 DEF CallPump, FinishCloseRequest, EndReceive, EndPump, Enter
  <2>2. CASE EndCancels
    BY <2>2 DEF EndCancels
  <2>3. CASE Unregister
    BY <2>3 DEF Unregister
  <2>4. CASE Run \/ Discard \/ Fault
    BY <2>4 DEF Run, Discard, Fault
  <2>5. CASE CloseTransport \/ EndCollect \/ EndClose
    BY <2>5 DEF CloseTransport, EndCollect, EndClose
  <2> QED
    BY <2>1, <2>2, <2>3, <2>4, <2>5 DEF Onward
<1> QED
  BY <1>1, <1>2, StillStanding

LEMMA OnwardKeeps ==
  ASSUME IInv, Mail, Standing, Sweeping, Closure, Onward
  PROVE  Mail' /\ Standing' /\ Sweeping' /\ Closure'
<1> USE DEF transportVars, recordVars, inboxVars, localVars, flagVars, threadVars
<1>1. Still /\ Standing' /\ Mail' /\ UNCHANGED <<callbacks, inbox, lock>>
  BY OnwardStands, StillMail
<1>2. Sweeping' /\ Closure'
  <2> USE <1>1 DEF Goto, IInv, Entry, Still
  <2>1. CASE CallPump \/ EndReceive \/ EndPump
    BY <2>1 DEF CallPump, EndReceive, EndPump, Sweeping, Closure
  <2>2. CASE FinishCloseRequest
    BY <2>2 DEF FinishCloseRequest, Sweeping, Closure
  <2>3. CASE EndCancels
    <3>1. /\ pc = "cancel" /\ cancelling = {} /\ pc' = after /\ after' = "none"
          /\ after \in {"unregister", "collect", "request", "sweep", "settle"}
          /\ UNCHANGED <<next, tclosed, inboxClosed, closed, registered, cancelling>>
      BY <2>3 DEF EndCancels, TypeOK
    <3>2. Sweeping'
      BY <3>1 DEF Sweeping
    <3>3. Closure'
      BY <3>1 DEF Closure
    <3> QED
      BY <3>2, <3>3
  <2>4. CASE Unregister
    <3>1. /\ pc = "unregister" /\ pc' = next /\ next \in {"idle", "entry", "loop"}
          /\ UNCHANGED <<next, after, tclosed, inboxClosed, closed, cancelling>>
          /\ after = "none"
      BY <2>4 DEF Unregister, TypeOK, Sweeping
    <3>2. ~registered' => ~registered \/ Drained
      BY <2>4 DEF Unregister
    <3>3. ~registered' => tclosed /\ records = {}
      BY <3>1, <3>2 DEF Drained, Closure
    <3>4. Sweeping'
      BY <3>1 DEF Sweeping
    <3>5. Closure'
      BY <3>1, <3>3 DEF Closure
    <3> QED
      BY <3>4, <3>5
  <2>5. CASE Enter
    BY <2>5 DEF Enter, Sweeping, Closure
  <2>6. CASE Run \/ Discard
    BY <2>6 DEF Run, Discard, Sweeping, Closure
  <2>7. CASE Fault
    BY <2>7 DEF Fault, Sweeping, Closure
  <2>8. CASE CloseTransport
    BY <2>8 DEF CloseTransport, Sweeping, Closure
  <2>9. CASE EndCollect
    BY <2>9 DEF EndCollect, Sweeping, Closure
  <2>10. CASE EndClose
    <3>1. next = "sweep" /\ after = "none" /\ channel = << >> /\ pending = << >> /\ cancelling = {}
      BY <2>10 DEF EndClose, Sweeping, FaultCancels
    <3>2. Posted = {} /\ cur = None
      BY <2>10, <3>1 DEF EndClose, Posted, Range, Standing
    <3>3. records = {}
      <4>1. \A r \in records : r \in notified /\ r # None /\ r \in Deliveries
        BY <3>1, OwnerAssumption DEF Closure, TypeOK
      <4>2. \A r \in records : Unclaimed(r)
        BY <3>2, <4>1 DEF Standing
      <4> QED
        BY <3>2, <4>1, <4>2 DEF Mail
    <3> QED
      BY <2>10, <3>1, <3>3 DEF EndClose, Sweeping, Closure
  <2> QED
    BY <2>1, <2>2, <2>3, <2>4, <2>5, <2>6, <2>7, <2>8, <2>9, <2>10 DEF Onward
<1> QED
  BY <1>1, <1>2

LEMMA InsertKeeps ==
  ASSUME IInv, Mail, Standing, Sweeping, Closure, NEW r \in Deliveries, SendInsert(r)
  PROVE  Mail' /\ Standing' /\ Sweeping' /\ Closure'
<1> USE DEF transportVars, recordVars, localVars, flagVars, threadVars
<1>1. Still
  BY DEF SendInsert, Still
<1>2. Mail'
  BY <1>1, StillMail
<1>3. Standing'
  <2>1. lock = r /\ r # None /\ Unclaimed(r) /\ inbox' = inbox \cup {r}
          /\ UNCHANGED <<lock, callbacks, pc, after>>
    BY OwnerAssumption DEF SendInsert, Standing
  <2>2. r \in records /\ r # cur
    BY <2>1, OwnerAssumption DEF Standing
  <2> QED
    BY <1>1, <2>1, <2>2 DEF Standing, Still, Unclaimed
<1>4. Sweeping' /\ Closure'
  BY OwnerAssumption DEF SendInsert, Sweeping, Closure
<1> QED
  BY <1>2, <1>3, <1>4

LEMMA CloseKeeps ==
  ASSUME Mail, Standing, Sweeping, Closure, Close
  PROVE  Mail' /\ Standing' /\ Sweeping' /\ Closure'
<1> USE DEF transportVars, recordVars
<1>1. Still
  BY DEF Close, Still
<1>2. Mail'
  BY <1>1, StillMail
<1>3. Standing'
  <2>1. /\ lock = None /\ lock' = None /\ callbacks' = callbacks \cup inbox /\ inbox' = {}
        /\ pc = "idle" /\ pc' = "closing" /\ after' = after
    BY DEF Close, Goto
  <2> QED
    BY <1>1, <2>1 DEF Standing, Still, Unclaimed
<1>4. Sweeping' /\ Closure'
  BY DEF Close, Goto, Sweeping, Closure
<1> QED
  BY <1>2, <1>3, <1>4

-----------------------------------------------------------------------------
(* A message moves from the channel to the owner and into its thread's hand *)

LEMMA ReceiveKeeps ==
  ASSUME TypeOK, Mail, Standing, Sweeping, Closure, Receive
  PROVE  Mail' /\ Standing' /\ Sweeping' /\ Closure'
<1> DEFINE r == Head(channel)
<1> USE DEF transportVars, flagVars, threadVars
<1>1. /\ pending' = Append(pending, r) /\ channel' = Tail(channel)
      /\ callbacks' = callbacks \cup (inbox \cap {r}) /\ inbox' = inbox \ {r}
      /\ lock = None /\ channel # << >>
      /\ UNCHANGED <<records, tclosed, status, cancelled, notified, inboxClosed, lock, closed,
                     registered, pc, next, after, cur, cancelling>>
  BY DEF Receive
<1>2. /\ r \in Range(channel) /\ IsInjective(channel')
      /\ Range(channel') = Range(channel) \ {r}
  BY <1>1, TailOnce DEF TypeOK, Mail
<1>3. /\ r \in Deliveries /\ r \notin Range(pending) /\ r # cur /\ r \in records /\ r \in notified
  BY <1>2, OwnerAssumption DEF Mail, Posted, TypeOK
<1>4. IsInjective(pending') /\ Range(pending') = Range(pending) \cup {r}
  BY <1>1, <1>3, AppendOnce DEF TypeOK, Mail
<1> HIDE DEF r
<1>5. Posted' = Posted
  BY <1>2, <1>4 DEF Posted
<1>6. Mail'
  BY <1>1, <1>2, <1>3, <1>4, <1>5 DEF Mail, Unclaimed
<1>7. Standing'
  <2>1. callbacks' \cup inbox' = callbacks \cup inbox
    BY <1>1
  <2>2. (inbox' \cup {lock'}) \cap ((Range(pending') \cup {cur'}) \ {None}) = {}
    BY <1>1, <1>4 DEF Standing
  <2>3. ASSUME NEW x \in Deliveries
        PROVE  Unclaimed(x)' => x \in callbacks' \cup inbox' \cup {cur', lock'}
    BY <1>1, <2>1 DEF Standing, Unclaimed
  <2> QED
    BY <1>1, <2>1, <2>2, <2>3 DEF Standing, Unclaimed
<1>8. Sweeping' /\ Closure'
  <2>1. next = "sweep" /\ pc # "collect" => channel = << >> \/ after = "collect"
    BY DEF Sweeping
  <2>2. Sweeping'
    BY <1>1, <2>1 DEF Sweeping
  <2>3. inboxClosed /\ inbox = {} => inbox' = {}
    BY <1>1
  <2> QED
    BY <1>1, <2>2, <2>3 DEF Closure
<1> QED
  BY <1>6, <1>7, <1>8

LEMMA TakeKeeps ==
  ASSUME IInv, Mail, Standing, Sweeping, Closure, NEW i \in DOMAIN pending, Take(i),
         pc \in {"loop", "sweep"}
  PROVE  Mail' /\ Standing' /\ Sweeping' /\ Closure'
<1> DEFINE r == pending[i]
<1> USE DEF transportVars, recordVars, inboxVars, flagVars
<1>1. /\ cur' = r /\ pending' = RemoveAt(pending, i) /\ callbacks' = callbacks \ {r}
      /\ pc' = "claim"
      /\ UNCHANGED <<records, tclosed, status, cancelled, notified, channel, inbox, inboxClosed,
                     lock, closed, registered, next, after, cancelling>>
  BY DEF Take, Goto
<1>2. /\ r \in Range(pending) /\ IsInjective(pending')
      /\ Range(pending') = Range(pending) \ {r}
  BY <1>1, RemoveOnce DEF IInv, TypeOK, Mail
<1>3. after = "none" /\ cur = None
  BY DEF IInv, Entry, Standing
<1>4. /\ r \in records /\ r \in Deliveries /\ r \in notified /\ r # None /\ r \notin Range(channel)
      /\ Unclaimed(r)
  <2>1. r \in records /\ r \in notified /\ r \notin Range(channel)
    BY <1>2 DEF Mail, Posted
  <2>2. r \in Deliveries /\ r # None
    BY <2>1, OwnerAssumption DEF IInv, TypeOK
  <2> QED
    BY <1>3, <2>1, <2>2 DEF Standing
<1> HIDE DEF r
<1>5. Posted' = Posted \ {r} /\ r \in Posted
  BY <1>1, <1>2, <1>4 DEF Posted
<1>6. Mail'
  <2>1. IsInjective(channel)' /\ IsInjective(pending)' /\ (Range(channel) \cap Range(pending) = {})'
    BY <1>1, <1>2 DEF Mail
  <2>2. (cur \notin Posted)' /\ (Posted \cup ({cur} \ {None}) \subseteq notified \cap records)'
    BY <1>1, <1>4, <1>5 DEF Mail
  <2>3. ASSUME NEW x \in records', Unclaimed(x)', x \in notified' PROVE x \in Posted' \cup {cur'}
    <3>1. x \in Posted \cup {None} /\ x # None
      BY <1>1, <1>3, <2>3, OwnerAssumption DEF Mail, IInv, TypeOK, Unclaimed
    <3> QED
      BY <1>1, <1>5, <3>1
  <2> QED
    BY <2>1, <2>2, <2>3 DEF Mail
<1>7. Standing'
  <2>1. ASSUME NEW x \in Deliveries
        PROVE  /\ x \in records' <=> Unclaimed(x)' \/ x = cur'
               /\ Unclaimed(x)' => x \in callbacks' \cup inbox' \cup {cur', lock'}
    BY <1>1, <1>3, <1>4, OwnerAssumption DEF Standing, Unclaimed
  <2>2. callbacks' \cup inbox' \subseteq records' \ {cur'}
    BY <1>1, <1>2, <1>4 DEF Standing
  <2>3. (inbox' \cup {lock'}) \cap ((Range(pending') \cup {cur'}) \ {None}) = {}
    BY <1>1, <1>2 DEF Standing
  <2>4. (cur # None <=> InHand)' /\ (cur # None => (Unclaimed(cur) <=> pc = "claim"))'
    BY <1>1, <1>4 DEF InHand, Unclaimed
  <2> QED
    BY <1>1, <2>1, <2>2, <2>3, <2>4 DEF Standing, InHand, Unclaimed
<1>8. Sweeping' /\ Closure'
  BY <1>1, <1>3 DEF Sweeping, Closure
<1> QED
  BY <1>6, <1>7, <1>8

-----------------------------------------------------------------------------
(* The entry in hand is claimed, settled and removed *)

LEMMA SettleKeeps ==
  ASSUME IInv, Mail, Standing, Sweeping, Closure, Claim \/ Settle
  PROVE  Mail' /\ Standing' /\ Sweeping' /\ Closure'
<1> USE DEF transportVars, inboxVars, localVars, flagVars
<1>1. /\ UNCHANGED <<records, tclosed, cancelled, notified, channel, inbox, inboxClosed, lock,
                     callbacks, pending, closed, registered, next, after, cancelling, cur>>
      /\ pc' \in {"run", "discard", "remove"} /\ pc \in {"claim", "settle"}
  BY DEF Claim, Settle, Goto
<1>2. cur \in Deliveries /\ cur # None /\ cur \notin Posted /\ cur \in notified
  BY <1>1, OwnerAssumption DEF IInv, Entry, TypeOK, Mail, Standing
<1>3. after = "none"
  BY <1>1 DEF IInv, Entry
<1>4. /\ \A x \in Deliveries \ {cur} : status'[x] = status[x]
      /\ status'[cur] \in {"Claimed"} \cup Terminal
  <2>1. CASE Claim
    BY <1>2, <2>1 DEF Claim, IInv, TypeOK
  <2>2. CASE Settle
    <3>1. verdict # "none" /\ verdict \in {"none", "Discarded"} \cup Terminal
      BY <2>2 DEF Settle, IInv, Entry, TypeOK
    <3>2. status' = [status EXCEPT ![cur] = IF verdict = "Discarded" THEN "Panicked" ELSE verdict]
      BY <2>2 DEF Settle
    <3> QED
      BY <1>2, <3>1, <3>2 DEF IInv, TypeOK, Terminal
  <2> QED
    BY <2>1, <2>2
<1>5. ~Unclaimed(cur)' /\ status'[cur] # "none"
      /\ \A x \in Deliveries \ {cur} : Unclaimed(x)' <=> Unclaimed(x)
  BY <1>1, <1>4 DEF Unclaimed, Terminal
<1>6. Mail'
  <2>1. Posted' = Posted
    BY <1>1 DEF Posted
  <2>2. ASSUME NEW x \in records', Unclaimed(x)', x \in notified' PROVE x \in Posted' \cup {cur'}
    BY <1>1, <1>5, <2>1, <2>2 DEF Mail, IInv, TypeOK
  <2> QED
    BY <1>1, <2>1, <2>2 DEF Mail
<1>7. Standing'
  <2>1. ASSUME NEW x \in Deliveries
        PROVE  /\ x \in records' <=> Unclaimed(x)' \/ x = cur'
               /\ status'[x] = "none" => x \notin notified'
               /\ x \in cancelled' => x \in notified'
               /\ Unclaimed(x)' => x \in callbacks' \cup inbox' \cup {cur', lock'}
    BY <1>1, <1>4, <1>5 DEF Standing
  <2>2. (lock # None => Unclaimed(lock))'
    <3>1. lock # None => lock \in Deliveries \ {cur} /\ Unclaimed(lock)
      BY <1>2 DEF Standing, IInv, TypeOK
    <3> QED
      BY <1>1, <1>4, <3>1 DEF Unclaimed
  <2>3. (cur # None <=> InHand)' /\ (cur # None => (Unclaimed(cur) <=> pc = "claim"))'
    BY <1>1, <1>2, <1>4 DEF InHand, Unclaimed, Terminal
  <2> QED
    BY <1>1, <2>1, <2>2, <2>3 DEF Standing, InHand
<1>8. Sweeping' /\ Closure'
  BY <1>1, <1>3 DEF Sweeping, Closure
<1> QED
  BY <1>6, <1>7, <1>8

LEMMA RemoveKeeps ==
  ASSUME IInv, Mail, Standing, Sweeping, Closure, RemoveRecord
  PROVE  Mail' /\ Standing' /\ Sweeping' /\ Closure'
<1> USE DEF recordVars, inboxVars, localVars, flagVars
<1>1. /\ UNCHANGED <<tclosed, status, cancelled, notified, channel, inbox, inboxClosed, lock,
                     callbacks, pending, closed, registered, next, cancelling>>
      /\ records' = records \ {cur} /\ cur' = None /\ pc = "remove"
      /\ \/ pc' = "fault" /\ after' = Resume
         \/ pc' = Resume /\ after' = after
  BY DEF RemoveRecord, Goto
<1>2. cur \in Deliveries /\ cur # None /\ cur \notin Posted /\ ~Unclaimed(cur) /\ after = "none"
  BY <1>1, OwnerAssumption DEF IInv, Entry, TypeOK, Mail, Standing
<1>3. Mail'
  <2>1. Posted' = Posted /\ None \notin Posted
    BY <1>1, OwnerAssumption DEF Posted, Mail, IInv, TypeOK
  <2>2. ASSUME NEW x \in records', Unclaimed(x)', x \in notified' PROVE x \in Posted' \cup {cur'}
    BY <1>1, <1>2, <2>1, <2>2 DEF Mail, Unclaimed
  <2> QED
    BY <1>1, <1>2, <2>1, <2>2 DEF Mail
<1>4. Standing'
  <2>1. IsFiniteSet(records') /\ Cardinality(records') <= Capacity
    <3>1. /\ IsFiniteSet(records') /\ Cardinality(records') <= Cardinality(records)
          /\ Cardinality(records) \in Nat /\ Cardinality(records') \in Nat
      BY <1>1, FS_Subset, FS_CardinalityType DEF Standing
    <3> QED
      BY <3>1, OwnerAssumption DEF Standing
  <2>2. ASSUME NEW x \in Deliveries
        PROVE  /\ x \in records' <=> Unclaimed(x)' \/ x = cur'
               /\ Unclaimed(x)' => x \in callbacks' \cup inbox' \cup {cur', lock'}
    BY <1>1, <1>2, OwnerAssumption DEF Standing, Unclaimed
  <2>3. callbacks' \cup inbox' \subseteq records' \ {cur'}
    BY <1>1, OwnerAssumption DEF Standing, IInv, TypeOK
  <2>4. (inbox' \cup {lock'}) \cap ((Range(pending') \cup {cur'}) \ {None}) = {}
    BY <1>1 DEF Standing
  <2>5. ~InHand'
    BY <1>1, <1>2 DEF InHand, Resume
  <2> QED
    BY <1>1, <2>1, <2>2, <2>3, <2>4, <2>5 DEF Standing, InHand, Unclaimed
<1>5. Sweeping' /\ Closure'
  <2>1. Resume = IF next = "sweep" THEN "sweep" ELSE "request"
    BY DEF Resume
  <2> QED
    BY <1>1, <1>2, <2>1 DEF Sweeping, Closure
<1> QED
  BY <1>3, <1>4, <1>5

-----------------------------------------------------------------------------
(* Subscriptions *)

\* What every action but those that subscribe leaves of the subscriptions kept,
\* and of what keeps them.
Unsubscribing ==
  /\ \A r \in Deliveries : ticket'[r] \in {"stored", "local"} => ticket'[r] = ticket[r]
  /\ UNCHANGED <<records, cur>> /\ (pc' = "remove" => pc = "remove")
  /\ \A r \in Deliveries : Unclaimed(r) => Unclaimed(r)'

LEMMA UnsubscribingKeeps ==
  ASSUME Kept, Unsubscribing
  PROVE  Kept'
BY DEF Kept, Unsubscribing

LEMMA ReservedTickets ==
  ASSUME TypeOK, Kept, NEW r \in Deliveries, ReserveStep(r),
         ticket'[r] # "stored" \/ ticket'[r] = ticket[r],
         \A x \in Deliveries \ {r} : ticket'[x] = ticket[x]
  PROVE  Kept'
<1>1. /\ records' = records \cup {r} /\ UNCHANGED <<cur, pc>> /\ Unclaimed(r)'
      /\ \A x \in Deliveries : Unclaimed(x) => Unclaimed(x)'
  BY DEF ReserveStep, Unclaimed
<1> QED
  BY <1>1 DEF Kept

LEMMA KeptStep ==
  ASSUME IInv, Mail, Standing, Kept, [Next]_vars
  PROVE  Kept'
<1> USE DEF transportVars, recordVars, inboxVars, localVars, flagVars, threadVars, outsideVars
<1>1. ASSUME NEW r \in Deliveries, Post(r) \/ Prepare(r) \/ OnReady(r) \/ SendReserve(r)
      PROVE Kept'
  <2>1. ReserveStep(r)
    BY <1>1, Reserves DEF IInv
  <2>2. /\ ticket'[r] # "stored" \/ ticket'[r] = ticket[r]
        /\ \A x \in Deliveries \ {r} : ticket'[x] = ticket[x]
    BY <1>1 DEF Post, Prepare, OnReady, SendReserve, IInv, TypeOK
  <2> QED
    BY <2>1, <2>2, ReservedTickets DEF IInv
<1>2. ASSUME NEW r \in Deliveries,
             \/ CancelCall(r) \/ CancelRoute(r) \/ CancelNext(r) \/ SendReady(r)
             \/ TicketReady(r) \/ TicketDrop(r) \/ Commit(r) \/ Bind(r) \/ StoreSubscription(r)
             \/ Deliver(r)
      PROVE Kept'
  <2>1. TouchStep(r)
    BY <1>2, ThreadsTouch DEF IInv
  <2>2. /\ UNCHANGED <<records, cur, pc>>
        /\ \A x \in Deliveries : Unclaimed(x)' <=> Unclaimed(x)
    BY <2>1 DEF TouchStep, Touched
  <2>3. CASE StoreSubscription(r)
    <3>1. /\ ticket' = [ticket EXCEPT ![r] =
               IF status[r] = "Waiting" /\ r \notin cancelled THEN "stored" ELSE "used"]
      BY <2>3 DEF StoreSubscription, TicketStep
    <3>2. ticket'[r] = "stored" => Unclaimed(r)
      BY <3>1 DEF IInv, TypeOK, Unclaimed
    <3>3. Unclaimed(r) => r \in records /\ (r = cur => pc # "remove")
      BY OwnerAssumption DEF Standing
    <3>4. ticket'[r] # "local" /\ \A x \in Deliveries \ {r} : ticket'[x] = ticket[x]
      BY <3>1 DEF IInv, TypeOK
    <3> QED
      BY <2>2, <3>2, <3>3, <3>4 DEF Kept
  <2>4. CASE \/ CancelCall(r) \/ CancelRoute(r) \/ CancelNext(r) \/ SendReady(r)
             \/ TicketReady(r) \/ TicketDrop(r) \/ Commit(r) \/ Bind(r) \/ Deliver(r)
    <3>1. \A x \in Deliveries : ticket'[x] \in {"stored", "local"} => ticket'[x] = ticket[x]
      BY <2>4 DEF CancelCall, CancelRoute, CancelNext, SendReady, TicketReady, TicketDrop, Commit,
        Bind, Deliver, Cancel, TicketStep, IInv, TypeOK
    <3> QED
      BY <2>2, <3>1, UnsubscribingKeeps DEF Unsubscribing
  <2> QED
    BY <1>2, <2>3, <2>4
<1>3. CASE Foreign
  <2>1. \A x \in Deliveries : ticket'[x] \in {"stored", "local"} => ticket'[x] = ticket[x]
    BY <1>3 DEF Foreign, Recover, Publish, RequestClose, AbandonRuntime, CloseRoutes, SetPhase,
      IInv, TypeOK
  <2>2. UNCHANGED <<records, cur, pc, status>>
    BY <1>3 DEF Foreign, Recover, Publish, RequestClose, AbandonRuntime, CloseRoutes, SetPhase
  <2> QED
    BY <2>1, <2>2, UnsubscribingKeeps DEF Unsubscribing, Unclaimed
<1>4. CASE Onward
  <2>1. Still
    BY <1>4, OnwardStands
  <2>2. ticket' = ticket /\ pc' # "remove"
    BY <1>4 DEF Onward, CallPump, FinishCloseRequest, EndCancels, Unregister, Enter, EndReceive,
      EndPump, Run, Discard, Fault, CloseTransport, EndCollect, EndClose, Goto, IInv, TypeOK
  <2> QED
    BY <2>1, <2>2, UnsubscribingKeeps DEF Unsubscribing, Still, Unclaimed
<1>5. CASE Receive \/ Select \/ Sweep \/ Close \/ (\E r \in Deliveries : SendInsert(r))
  <2>1. /\ UNCHANGED <<ticket, records, status>>
        /\ cur' = cur \/ pc' = "claim"
        /\ pc' = "remove" => pc = "remove"
    BY <1>5 DEF Receive, Select, Sweep, Take, Close, SendInsert, Goto
  <2>2. \A r \in Deliveries : Unclaimed(r)' <=> Unclaimed(r)
    BY <2>1 DEF Unclaimed
  <2> QED
    BY <2>1, <2>2 DEF Kept
<1>6. CASE Claim \/ Settle
  <2>1. /\ UNCHANGED <<records, cur>> /\ cur \in Deliveries
        /\ \A x \in Deliveries \ {cur} : status'[x] = status[x] /\ ticket'[x] = ticket[x]
    BY <1>6 DEF Claim, Settle, IInv, Entry, TypeOK
  <2>2. ticket'[cur] # "local" /\ (ticket'[cur] = "stored" => ticket[cur] = "stored" /\ Claim)
    <3>1. CASE Claim
      BY <2>1, <3>1 DEF Claim, IInv, TypeOK
    <3>2. CASE Settle
      <4>1. ~Unclaimed(cur)
        BY <3>2 DEF Settle, IInv, Entry, Unclaimed
      <4>2. ticket[cur] # "local"
        BY <2>1, <4>1 DEF Kept
      <4> QED
        BY <2>1, <3>2, <4>2 DEF Settle, IInv, TypeOK
    <3> QED
      BY <1>6, <3>1, <3>2
  <2>3. Claim => pc' # "remove"
    BY DEF Claim, Goto
  <2> QED
    BY <2>1, <2>2, <2>3 DEF Kept, Unclaimed
<1>7. CASE RemoveRecord
  <2>1. /\ records' = records \ {cur} /\ UNCHANGED <<status, ticket>> /\ pc = "remove"
        /\ pc' # "remove"
    BY <1>7 DEF RemoveRecord, Resume, Goto
  <2>2. \A r \in Deliveries : Unclaimed(r)' <=> Unclaimed(r)
    BY <2>1 DEF Unclaimed
  <2> QED
    BY <2>1, <2>2 DEF Kept
<1>8. CASE UNCHANGED vars
  BY <1>8, UnsubscribingKeeps DEF vars, Unsubscribing, Unclaimed
<1> QED
  BY <1>1, <1>2, <1>3, <1>4, <1>5, <1>6, <1>7, <1>8
  DEF Next, Environment, OwnerStep, ThreadStep, Foreign, Onward

-----------------------------------------------------------------------------

Routing == Mail /\ Standing /\ Sweeping /\ Closure /\ Kept

LEMMA RoutingInitially == Init => Routing
<1> SUFFICES ASSUME Init PROVE Routing
  OBVIOUS
<1>1. Range(channel) = {} /\ Range(pending) = {}
  BY DEF Init, Range
<1>2. IsInjective(channel) /\ IsInjective(pending)
  BY DEF Init, IsInjective
<1>3. Mail
  BY <1>1, <1>2 DEF Init, Mail, Posted
<1>4. IsFiniteSet(records) /\ Cardinality(records) <= Capacity
  BY FS_EmptySet, OwnerAssumption DEF Init
<1>5. Standing
  BY <1>1, <1>4, OwnerAssumption DEF Init, Standing, Unclaimed
<1>6. Sweeping /\ Closure /\ Kept
  BY DEF Init, Sweeping, Closure, Kept
<1> QED
  BY <1>3, <1>5, <1>6 DEF Routing

LEMMA RoutingStep == IInv /\ Routing /\ [Next]_vars => Routing'
<1> SUFFICES ASSUME IInv, Routing, [Next]_vars PROVE Routing'
  OBVIOUS
<1> USE DEF Routing
<1>1. TypeOK /\ Entry
  BY DEF IInv
<1>2. Kept'
  BY KeptStep
<1>3. Mail' /\ Standing' /\ Sweeping' /\ Closure'
  <2>1. ASSUME NEW r \in Deliveries, Post(r) \/ Prepare(r) \/ OnReady(r) \/ SendReserve(r)
        PROVE  Mail' /\ Standing' /\ Sweeping' /\ Closure'
    BY <1>1, <2>1, Reserves, ReserveKeeps
  <2>2. ASSUME NEW r \in Deliveries,
               \/ CancelCall(r) \/ CancelRoute(r) \/ CancelNext(r) \/ SendReady(r)
               \/ TicketReady(r) \/ TicketDrop(r) \/ Commit(r) \/ Bind(r)
               \/ StoreSubscription(r) \/ Deliver(r)
        PROVE  Mail' /\ Standing' /\ Sweeping' /\ Closure'
    BY <1>1, <2>2, ThreadsTouch, TouchMail, TouchRest
  <2>3. CASE Foreign
    BY <2>3, ForeignKeeps
  <2>4. CASE Onward
    BY <2>4, OnwardKeeps
  <2>5. ASSUME NEW r \in Deliveries, SendInsert(r)
        PROVE  Mail' /\ Standing' /\ Sweeping' /\ Closure'
    BY <2>5, InsertKeeps
  <2>6. CASE Close
    BY <2>6, CloseKeeps
  <2>7. CASE Receive
    BY <1>1, <2>7, ReceiveKeeps
  <2>8. CASE Select \/ Sweep
    <3>1. CASE Select
      BY <3>1, TakeKeeps DEF Select
    <3>2. CASE Sweep
      <4>1. Take(1) /\ pc = "sweep" /\ 1 \in DOMAIN pending
        BY <1>1, <3>2, EmptySeq, LenProperties DEF Sweep, TypeOK
      <4> QED
        BY <4>1, TakeKeeps
    <3> QED
      BY <2>8, <3>1, <3>2
  <2>9. CASE Claim \/ Settle
    BY <2>9, SettleKeeps
  <2>10. CASE RemoveRecord
    BY <2>10, RemoveKeeps
  <2>11. CASE UNCHANGED vars
    BY <2>11 DEF vars, transportVars, recordVars, inboxVars, localVars, flagVars, threadVars,
      Mail, Posted, Standing, Unclaimed, Sweeping, Closure
  <2> QED
    BY <2>1, <2>2, <2>3, <2>4, <2>5, <2>6, <2>7, <2>8, <2>9, <2>10, <2>11
    DEF Next, Environment, OwnerStep, ThreadStep, Foreign, Onward
<1> QED
  BY <1>2, <1>3

LEMMA RoutingInvariance == Spec => []Routing
<1>1. Init => Routing
  BY RoutingInitially
<1> QED
  BY <1>1, RoutingStep, Invariance, PTL DEF Spec

LEMMA NothingStranded == IInv /\ Routing => NoneStranded
<1> SUFFICES ASSUME TypeOK, Mail, Standing PROVE NoneStranded
  BY DEF IInv, Routing
<1>1. /\ channel \in Seq(Deliveries) /\ IsInjective(channel)
      /\ pending \in Seq(Deliveries) /\ IsInjective(pending)
  BY DEF TypeOK, Mail
<1>2. Len(channel) <= Capacity
  <2>1. Range(channel) \subseteq records
    BY DEF Mail, Posted
  <2>2. /\ Len(channel) = Cardinality(Range(channel)) /\ Len(channel) \in Nat
        /\ Cardinality(Range(channel)) <= Cardinality(records) /\ Cardinality(records) \in Nat
    BY <1>1, <2>1, LengthOnce, FS_Subset, FS_CardinalityType DEF Standing
  <2> QED
    BY <2>2, OwnerAssumption DEF Standing
<1>3. ASSUME NEW r
      PROVE  /\ InChannel(r) = IF r \in Range(channel) THEN 1 ELSE 0
             /\ InPending(r) = IF r \in Range(pending) THEN 1 ELSE 0
  BY <1>1, CountOnce DEF InChannel, InPending
<1>4. ASSUME NEW r \in records
      PROVE  /\ r \in callbacks \/ r \in inbox \/ r = cur \/ r = lock
             /\ Unclaimed(r) => InChannel(r) + InPending(r) + (IF r = cur THEN 1 ELSE 0)
                                  = IF r \in notified THEN 1 ELSE 0
  <2>1. r \in Deliveries /\ r # None
    BY OwnerAssumption DEF TypeOK
  <2>2. r \in callbacks \/ r \in inbox \/ r = cur \/ r = lock
    BY <2>1 DEF Standing
  <2>3. ASSUME Unclaimed(r)
        PROVE  /\ r \in notified <=> r \in Range(channel) \/ r \in Range(pending) \/ r = cur
               /\ ~(r \in Range(channel) /\ r \in Range(pending))
               /\ r = cur => r \notin Range(channel) /\ r \notin Range(pending)
    BY <2>1, <2>3 DEF Mail, Posted
  <2> QED
    BY <1>3, <2>2, <2>3
<1>5. ASSUME NEW r \in Deliveries \ records PROVE InChannel(r) + InPending(r) = 0
  <2>1. r \notin Range(channel) /\ r \notin Range(pending)
    BY DEF Mail, Posted
  <2> QED
    BY <1>3, <2>1
<1> QED
  BY <1>2, <1>4, <1>5 DEF NoneStranded

LEMMA EmptyWhenReleased == IInv /\ Routing => ReleasedIsEmpty
<1> SUFFICES ASSUME TypeOK, Routing, ~registered
             PROVE  /\ records = {} /\ callbacks = {} /\ inbox = {} /\ channel = << >>
                    /\ pending = << >>
                    /\ \A r \in Deliveries : ticket[r] \notin {"stored", "local"}
  BY DEF IInv, ReleasedIsEmpty
<1> USE DEF Routing
<1>1. records = {}
  BY DEF Closure
<1>2. callbacks = {} /\ inbox = {}
  BY <1>1 DEF Standing
<1>3. Range(channel) = {} /\ Range(pending) = {}
  BY <1>1 DEF Mail, Posted
<1>4. channel = << >> /\ pending = << >>
  BY <1>3, NoneListed DEF TypeOK
<1>5. \A r \in Deliveries : ticket[r] \notin {"stored", "local"}
  <2>1. cur = None
    BY <1>1 DEF Mail
  <2>2. \A r \in Deliveries : ~Unclaimed(r)
    BY <1>1 DEF Standing
  <2> QED
    BY <1>1, <2>2 DEF Kept
<1> QED
  BY <1>1, <1>2, <1>4, <1>5

\* No callback is stranded and the notification channel never overflows: each
\* record has its callback with the inbox or the owner and at most one message on
\* its way, whatever the order of reservations, cancellations, publications and
\* pumps (notify, receive, process).
THEOREM NothingIsStranded == Spec => []NoneStranded
<1> QED
  BY Invariance, RoutingInvariance, NothingStranded, PTL

\* An owner that has given up its registration, drained or closed, has no record,
\* callback or message left, and no edge at a completion (unregister_if_drained,
\* close).
THEOREM ReleaseLeavesNothing == Spec => []ReleasedIsEmpty
<1> QED
  BY Invariance, RoutingInvariance, EmptyWhenReleased, PTL
=============================================================================
