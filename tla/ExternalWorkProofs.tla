------------------------- MODULE ExternalWorkProofs -------------------------
(***************************************************************************)
(* Proofs about ExternalWork for every number of producers, accesses and   *)
(* permits, in whatever way they are reached.                              *)
(***************************************************************************)
EXTENDS ExternalWork, FiniteSetTheorems, TLAPS

\* Whoever asks the set holds what it asks through.
GatedReachable == \A x \in Calls \cup Permits : at[x] = "gated" => Reachable(x)

\* A record exists from its insertion on and keeps the admission until it is
\* done.
Inserted(p) ==
  at[p] \in {"attaching", "settling", "registering", "hooking", "registered", "returned"}

RecordOrder ==
  \A p \in Producers :
    /\ record[p] # "absent" <=> Inserted(p)
    /\ at[p] = "attaching" => record[p] = "present"
    /\ at[p] = "admitted" \/ record[p] \notin {"absent", "done"} => p \in admitted
    /\ at[p] = "settling" \/ deferred[p] # None => abandoned

\* What an outcome has been decided on, and published.
Decided ==
  \A p \in Producers :
    /\ record[p] \in {"absent", "present"} => claims[p] = {} /\ result[p] = None
    /\ record[p] = "claimed" => \E r \in Results : claims[p] = {r} /\ result[p] = None
    /\ record[p] \in {"removed", "released", "done"} =>
         \E r \in Results : claims[p] = {r} /\ result[p] = r

\* Who holds a lease of the set, who an entry of the registry, whom a hook can
\* find.
Holders ==
  /\ \A x \in Calls :
       /\ at[x] \in {"rejected", "registering", "hooking", "registered"} => InSet(x)
       /\ InSet(x) /\ at[x] \in {"leased", "admitted", "rejected", "attaching", "settling",
                                 "registering", "hooking", "registered"} => x \in leases
       /\ at[x] \in {"prepared", "active", "orphaned", "retiring"} => x \in registry
       /\ x \in Accesses => ~Inserted(x) /\ at[x] # "admitted"
       /\ at[x] \notin {"live", "dropped"}
  /\ \A d \in Permits : at[d] \in {"idle", "gated", "refused", "live", "dropped"}
  /\ \A p \in hooks \cup firing : at[p] \in {"registered", "returned"}

\* The phase, as the owner of the runtime has set it.
Phases ==
  /\ host = "idle" => phase \in {"Running", "Closing"}
  /\ host \in {"scan", "scheduler", "rescan", "join"} => phase = "Closing"
  /\ phase = "Stopped" <=> host = "stopped"
  /\ abandoned => host \in {"settling", "abandoned"}
  /\ cut # {} => abandoned

\* What the first reading of the runtime has established for good.
Quiet ==
  host \in {"scheduler", "rescan", "join", "stopped"} =>
    /\ ~body /\ admitted = {} /\ registry = {}
    /\ leases = {} /\ LivePermits = {} /\ (handle => ~open)

IInv == TypeOK /\ GatedReachable /\ RecordOrder /\ Decided /\ Holders /\ Phases /\ Quiet

-----------------------------------------------------------------------------

LEMMA Initially == Init => IInv
<1> SUFFICES ASSUME Init PROVE IInv
  OBVIOUS
<1>1. TypeOK
  BY ExternalAssumption DEF Init, TypeOK, Places, Results, Calls
<1>2. GatedReachable /\ Phases /\ Quiet
  BY DEF Init, GatedReachable, Phases, Quiet
<1>3. RecordOrder /\ Decided
  BY ExternalAssumption DEF Init, RecordOrder, Inserted, Decided, Results, Calls
<1>4. Holders
  BY ExternalAssumption DEF Init, Holders, Inserted, Calls
<1> QED
  BY <1>1, <1>2, <1>3, <1>4 DEF IInv

\* Types, by the party that takes the step.
LEMMA TypeStep == TypeOK /\ [Next]_vars => TypeOK'
<1> SUFFICES ASSUME TypeOK, [Next]_vars PROVE TypeOK'
  OBVIOUS
<1> USE ExternalAssumption DEF TypeOK, Calls, Places, Results, setVars, recordVars, runtimeVars,
      Step, Leave, Settle, Claim, HostStep, HostRest, Refuse
<1>1. ASSUME NEW x \in Calls \cup Permits, CallStep(x) PROVE TypeOK'
  BY <1>1 DEF CallStep, AcquireWork, AcquirePermit, RefuseSet, Admit, Reserve, RefuseControl
<1>2. ASSUME NEW p \in Producers, ProducerStep(p) PROVE TypeOK'
  <2>1. CASE Insert(p) \/ Reject(p) \/ RejectLease(p)
    BY <2>1 DEF Insert, Reject, RejectLease
  <2>2. CASE EndAttachment(p)
    BY <2>2 DEF EndAttachment, Registration
  <2>3. CASE Register(p)
    BY <2>3 DEF Register
  <2>4. CASE SettledOwn(p) \/ Return(p)
    BY <2>4 DEF SettledOwn, Return, Registration
  <2>5. CASE Publish(p) \/ ReleaseLease(p) \/ ReleaseAdmission(p)
    BY <2>5 DEF Publish, ReleaseLease, ReleaseAdmission
  <2>6. CASE FireHook(p) \/ SettleCut(p)
    BY <2>6 DEF FireHook, SettleCut
  <2> QED
    BY <1>2, <2>1, <2>2, <2>3, <2>4, <2>5, <2>6 DEF ProducerStep
<1>3. ASSUME NEW a \in Accesses, Unregister(a) PROVE TypeOK'
  BY <1>3 DEF Unregister
<1>4. CASE HostProgress
  <2>1. CASE Scan \/ Rescan \/ ScanScheduler
    BY <2>1 DEF Scan, ScanScheduler, Rescan
  <2>2. CASE Stop
    BY <2>2 DEF Stop
  <2>3. CASE Cut
    BY <2>3 DEF Cut, Records
  <2>4. CASE CancelSets
    <3>1. CASE Alive
      <4>1. Cancellation /\ HostStep("settling", "abandoned")
        BY <2>4, <3>1 DEF CancelSets
      <4> QED
        BY <2>4, <4>1 DEF CancelSets, Cancellation
    <3>2. CASE ~Alive
      BY <2>4, <3>2 DEF CancelSets
    <3> QED
      BY <3>1, <3>2
  <2> QED
    BY <1>4, <2>1, <2>2, <2>3, <2>4 DEF HostProgress
<1>5. CASE Environment
  <2>1. ASSUME NEW x \in Calls \cup Permits,
               Gate(x) \/ (x \in Permits /\ DropPermit(x)) \/ (x \in Calls /\ CallBare(x))
        PROVE TypeOK'
    BY <2>1 DEF Gate, DropPermit, CallBare
  <2>2. ASSUME NEW p \in Producers, Reject(p) \/ (\E v \in Values : Complete(p, v))
                 \/ CancelOrDrop(p, "Cancelled") \/ CancelOrDrop(p, "Abandoned")
        PROVE TypeOK'
    BY <2>2 DEF Reject, Complete, CancelOrDrop
  <2>3. ASSUME NEW a \in Accesses, Activate(a) \/ Orphan(a) \/ Retire(a) PROVE TypeOK'
    BY <2>3 DEF Activate, Orphan, Retire
  <2>4. CASE DropHandle \/ Seal \/ EndBody \/ Abandon
    <3>1. CASE DropHandle
      BY <3>1 DEF DropHandle
    <3>2. CASE Seal
      BY <3>2 DEF Seal
    <3>3. CASE EndBody
      BY <3>3 DEF EndBody
    <3>4. CASE Abandon
      BY <3>4 DEF Abandon
    <3> QED
      BY <2>4, <3>1, <3>2, <3>3, <3>4
  <2>5. CASE CancelSet
    BY <2>5 DEF CancelSet, Cancellation
  <2>6. CASE BeginShutdown \/ TryShutdown
    <3>1. Closing
      BY <2>6 DEF BeginShutdown, TryShutdown
    <3>2. open' \in BOOLEAN /\ phase' \in {"Running", "Closing", "Stopped", "Abandoned"}
      BY <3>1 DEF Closing
    <3> QED
      BY <2>6, <3>2 DEF BeginShutdown, TryShutdown
  <2> QED
    BY <1>5, <2>1, <2>2, <2>3, <2>4, <2>5, <2>6 DEF Environment
<1>6. CASE UNCHANGED vars
  BY <1>6 DEF vars
<1> QED
  BY <1>1, <1>2, <1>3, <1>4, <1>5, <1>6 DEF Next

LEMMA GatedReachableStep == IInv /\ [Next]_vars => GatedReachable'
<1> SUFFICES ASSUME IInv, [Next]_vars PROVE GatedReachable'
  OBVIOUS
<1> USE ExternalAssumption DEF IInv, TypeOK, Calls, setVars, recordVars, runtimeVars, Step,
      GatedReachable, Reachable, InSet, Places
<1>1. ASSUME NEW x \in Calls \cup Permits, CallStep(x) PROVE GatedReachable'
  BY <1>1 DEF CallStep, AcquireWork, AcquirePermit, RefuseSet, Refuse, Admit, Reserve,
    RefuseControl, Leave
<1>2. ASSUME NEW p \in Producers, ProducerStep(p) PROVE GatedReachable'
  <2>1. CASE Insert(p) \/ Reject(p) \/ RejectLease(p)
    BY <2>1 DEF Insert, Reject, RejectLease, Leave
  <2>2. CASE EndAttachment(p)
    BY <2>2 DEF EndAttachment, Registration, Claim, Attaching
  <2>3. CASE Register(p)
    BY <2>3 DEF Register, Settle, Claim, Attaching
  <2>4. CASE SettledOwn(p) \/ Return(p)
    BY <2>4 DEF SettledOwn, Return, Registration, Leave
  <2>5. CASE Publish(p) \/ ReleaseLease(p) \/ ReleaseAdmission(p)
    BY <2>5 DEF Publish, ReleaseLease, ReleaseAdmission, Registering, Leave
  <2>6. CASE FireHook(p) \/ SettleCut(p)
    BY <2>6 DEF FireHook, SettleCut, Settle, Claim, Attaching
  <2> QED
    BY <1>2, <2>1, <2>2, <2>3, <2>4, <2>5, <2>6 DEF ProducerStep
<1>3. ASSUME NEW a \in Accesses, Unregister(a) PROVE GatedReachable'
  BY <1>3 DEF Unregister
<1>4. CASE HostProgress
  BY <1>4 DEF HostProgress, Scan, ScanScheduler, Rescan, Stop, Cut, CancelSets, HostStep,
    HostRest, Cancellation, Records
<1>5. CASE Environment
  <2>1. ASSUME NEW x \in Calls \cup Permits,
               Gate(x) \/ (x \in Permits /\ DropPermit(x)) \/ (x \in Calls /\ CallBare(x))
        PROVE GatedReachable'
    BY <2>1 DEF Gate, DropPermit, CallBare, Borrowed, InCall
  <2>2. ASSUME NEW p \in Producers, Reject(p) \/ (\E v \in Values : Complete(p, v))
                 \/ CancelOrDrop(p, "Cancelled") \/ CancelOrDrop(p, "Abandoned")
        PROVE GatedReachable'
    BY <2>2 DEF Reject, Complete, CancelOrDrop, Settle, Claim, Attaching
  <2>3. ASSUME NEW a \in Accesses, Activate(a) \/ Orphan(a) \/ Retire(a) PROVE GatedReachable'
    BY <2>3 DEF Activate, Orphan, Retire, Leave
  <2>4. CASE DropHandle
    BY <2>4 DEF DropHandle, Borrowed, InCall
  <2>5. CASE CancelSet \/ Seal \/ EndBody
    BY <2>5 DEF CancelSet, Seal, EndBody, Cancellation
  <2>6. CASE BeginShutdown \/ TryShutdown \/ Abandon
    BY <2>6 DEF BeginShutdown, TryShutdown, Abandon, Closing, HostStep
  <2> QED
    BY <1>5, <2>1, <2>2, <2>3, <2>4, <2>5, <2>6 DEF Environment
<1>6. CASE UNCHANGED vars
  BY <1>6 DEF vars
<1> QED
  BY <1>1, <1>2, <1>3, <1>4, <1>5, <1>6 DEF Next

LEMMA RecordOrderStep == IInv /\ [Next]_vars => RecordOrder'
<1> SUFFICES ASSUME IInv, [Next]_vars PROVE RecordOrder'
  OBVIOUS
<1> USE ExternalAssumption DEF IInv, TypeOK, Calls, setVars, recordVars, runtimeVars, Step,
      RecordOrder, Inserted, InSet, Places, Phases, Holders, Claimable, Results
<1>1. ASSUME NEW x \in Calls \cup Permits, CallStep(x) PROVE RecordOrder'
  BY <1>1 DEF CallStep, AcquireWork, AcquirePermit, RefuseSet, Refuse, Admit, Reserve,
    RefuseControl, Leave
<1>2. ASSUME NEW p \in Producers, ProducerStep(p) PROVE RecordOrder'
  <2>1. CASE Insert(p) \/ Reject(p) \/ RejectLease(p)
    BY <2>1 DEF Insert, Reject, RejectLease, Leave
  <2>2. CASE EndAttachment(p)
    BY <2>2 DEF EndAttachment, Registration, Claim, Attaching
  <2>3. CASE Register(p)
    BY <2>3 DEF Register, Settle, Claim, Attaching
  <2>4. CASE SettledOwn(p) \/ Return(p)
    BY <2>4 DEF SettledOwn, Return, Registration, Leave
  <2>5. CASE Publish(p) \/ ReleaseLease(p) \/ ReleaseAdmission(p)
    BY <2>5 DEF Publish, ReleaseLease, ReleaseAdmission, Registering, Leave
  <2>6. CASE FireHook(p) \/ SettleCut(p)
    <3>1. CASE FireHook(p)
      BY <3>1 DEF FireHook, Settle, Claim, Attaching
    <3>2. CASE SettleCut(p)
      BY <3>2 DEF SettleCut, Settle, Claim, Attaching
    <3> QED
      BY <2>6, <3>1, <3>2
  <2> QED
    BY <1>2, <2>1, <2>2, <2>3, <2>4, <2>5, <2>6 DEF ProducerStep
<1>3. ASSUME NEW a \in Accesses, Unregister(a) PROVE RecordOrder'
  BY <1>3 DEF Unregister
<1>4. CASE HostProgress
  BY <1>4 DEF HostProgress, Scan, ScanScheduler, Rescan, Stop, Cut, CancelSets, HostStep,
    HostRest, Cancellation, Records
<1>5. CASE Environment
  <2>1. ASSUME NEW x \in Calls \cup Permits,
               Gate(x) \/ (x \in Permits /\ DropPermit(x)) \/ (x \in Calls /\ CallBare(x))
        PROVE RecordOrder'
    BY <2>1 DEF Gate, DropPermit, CallBare, Borrowed, InCall
  <2>2. ASSUME NEW p \in Producers, Reject(p) \/ (\E v \in Values : Complete(p, v))
                 \/ CancelOrDrop(p, "Cancelled") \/ CancelOrDrop(p, "Abandoned")
        PROVE RecordOrder'
    BY <2>2 DEF Reject, Complete, CancelOrDrop, Settle, Claim, Attaching
  <2>3. ASSUME NEW a \in Accesses, Activate(a) \/ Orphan(a) \/ Retire(a) PROVE RecordOrder'
    BY <2>3 DEF Activate, Orphan, Retire, Leave
  <2>4. CASE DropHandle
    BY <2>4 DEF DropHandle, Borrowed, InCall
  <2>5. CASE CancelSet \/ Seal \/ EndBody
    BY <2>5 DEF CancelSet, Seal, EndBody, Cancellation
  <2>6. CASE BeginShutdown \/ TryShutdown \/ Abandon
    BY <2>6 DEF BeginShutdown, TryShutdown, Abandon, Closing, HostStep
  <2> QED
    BY <1>5, <2>1, <2>2, <2>3, <2>4, <2>5, <2>6 DEF Environment
<1>6. CASE UNCHANGED vars
  BY <1>6 DEF vars
<1> QED
  BY <1>1, <1>2, <1>3, <1>4, <1>5, <1>6 DEF Next

\* An outcome is decided once, and by one party.
LEMMA ClaimDecides ==
  ASSUME IInv, NEW p \in Producers, NEW r \in Results, record[p] = "present", Claim(p, r),
         result' = result
  PROVE  Decided'
BY DEF IInv, TypeOK, Decided, Claim

LEMMA SettleDecides ==
  ASSUME IInv, NEW p \in Producers, NEW r \in Results, Settle(p, r)
  PROVE  Decided'
<1>1. CASE Claim(p, r) /\ Claimable(p, r) /\ UNCHANGED <<deferred, result>>
  BY <1>1, ClaimDecides DEF Claimable
<1>2. CASE UNCHANGED <<record, claims, result>>
  BY <1>2 DEF IInv, Decided
<1> QED
  BY <1>1, <1>2 DEF Settle, recordVars

LEMMA SameDecides ==
  ASSUME IInv, UNCHANGED <<record, claims, result>>
  PROVE  Decided'
BY DEF IInv, Decided

LEMMA EndAttachmentDecides ==
  ASSUME IInv, NEW p \in Producers, EndAttachment(p)
  PROVE  Decided'
<1>0. Attaching(p) /\ result' = result
  BY DEF EndAttachment
<1>1. CASE deferred[p] = None /\ UNCHANGED <<record, claims>>
  BY <1>0, <1>1 DEF IInv, Decided
<1>2. CASE deferred[p] # None /\ Claim(p, deferred[p])
  <2>1. deferred[p] \in Results
    BY <1>2 DEF IInv, TypeOK
  <2>2. record[p] = "present"
    BY <1>0 DEF IInv, RecordOrder, Attaching
  <2> QED
    BY <1>0, <1>2, <2>1, <2>2, ClaimDecides
<1> QED
  BY <1>1, <1>2 DEF EndAttachment

LEMMA DecidedStep == IInv /\ [Next]_vars => Decided'
<1> SUFFICES ASSUME IInv, [Next]_vars PROVE Decided'
  OBVIOUS
<1> USE ExternalAssumption DEF IInv, TypeOK, Calls, setVars, recordVars, runtimeVars, Step,
      Decided, RecordOrder, Inserted, Claimable, Results
<1>1. ASSUME NEW x \in Calls \cup Permits, CallStep(x) PROVE Decided'
  <2>1. UNCHANGED <<record, claims, result>>
    BY <1>1 DEF CallStep, AcquireWork, AcquirePermit, RefuseSet, Refuse, Admit, Reserve, RefuseControl
  <2> QED
    BY <2>1, SameDecides
<1>2. ASSUME NEW p \in Producers, ProducerStep(p) PROVE Decided'
  <2>1. CASE Insert(p) \/ Reject(p) \/ RejectLease(p)
    BY <2>1 DEF Insert, Reject, RejectLease, Leave
  <2>2. CASE EndAttachment(p)
    BY <2>2, EndAttachmentDecides
  <2>3. CASE Register(p)
    <3>1. CASE Settle(p, "Cancelled")
      BY <3>1, SettleDecides
    <3>2. CASE UNCHANGED recordVars
      BY <3>2
    <3> QED
      BY <2>3, <3>1, <3>2 DEF Register
  <2>4. CASE SettledOwn(p) \/ Return(p)
    <3>1. UNCHANGED <<record, claims, result>>
      BY <2>4 DEF SettledOwn, Return
    <3> QED
      BY <3>1, SameDecides
  <2>5. CASE Publish(p) \/ ReleaseLease(p) \/ ReleaseAdmission(p)
    <3>1. CASE Publish(p)
      BY <3>1 DEF Publish
    <3>2. CASE ReleaseLease(p)
      BY <3>2 DEF ReleaseLease
    <3>3. CASE ReleaseAdmission(p)
      BY <3>3 DEF ReleaseAdmission
    <3> QED
      BY <2>5, <3>1, <3>2, <3>3
  <2>6. CASE FireHook(p) \/ SettleCut(p)
    BY <2>6, SettleDecides DEF FireHook, SettleCut
  <2> QED
    BY <1>2, <2>1, <2>2, <2>3, <2>4, <2>5, <2>6 DEF ProducerStep
<1>3. ASSUME NEW a \in Accesses, Unregister(a) PROVE Decided'
  BY <1>3 DEF Unregister
<1>4. CASE HostProgress
  BY <1>4 DEF HostProgress, Scan, ScanScheduler, Rescan, Stop, Cut, CancelSets, HostStep,
    HostRest, Cancellation, Records
<1>5. CASE Environment
  <2>1. ASSUME NEW x \in Calls \cup Permits,
               Gate(x) \/ (x \in Permits /\ DropPermit(x)) \/ (x \in Calls /\ CallBare(x))
        PROVE Decided'
    BY <2>1 DEF Gate, DropPermit, CallBare, Borrowed, InCall
  <2>2. ASSUME NEW p \in Producers, Reject(p) \/ (\E v \in Values : Complete(p, v))
                 \/ CancelOrDrop(p, "Cancelled") \/ CancelOrDrop(p, "Abandoned")
        PROVE Decided'
    <3>1. CASE Reject(p)
      BY <3>1 DEF Reject
    <3>2. ASSUME NEW v \in Values, Complete(p, v) PROVE Decided'
      BY <3>2, ClaimDecides DEF Complete
    <3>3. CASE CancelOrDrop(p, "Cancelled") \/ CancelOrDrop(p, "Abandoned")
      BY <3>3, SettleDecides DEF CancelOrDrop
    <3> QED
      BY <2>2, <3>1, <3>2, <3>3
  <2>3. ASSUME NEW a \in Accesses, Activate(a) \/ Orphan(a) \/ Retire(a) PROVE Decided'
    BY <2>3 DEF Activate, Orphan, Retire, Leave
  <2>4. CASE DropHandle
    BY <2>4 DEF DropHandle, Borrowed, InCall
  <2>5. CASE CancelSet \/ Seal \/ EndBody
    BY <2>5 DEF CancelSet, Seal, EndBody, Cancellation
  <2>6. CASE BeginShutdown \/ TryShutdown \/ Abandon
    BY <2>6 DEF BeginShutdown, TryShutdown, Abandon, Closing, HostStep
  <2> QED
    BY <1>5, <2>1, <2>2, <2>3, <2>4, <2>5, <2>6 DEF Environment
<1>6. CASE UNCHANGED vars
  BY <1>6 DEF vars
<1> QED
  BY <1>1, <1>2, <1>3, <1>4, <1>5, <1>6 DEF Next

LEMMA HoldersStep == IInv /\ [Next]_vars => Holders'
<1> SUFFICES ASSUME IInv, [Next]_vars PROVE Holders'
  OBVIOUS
<1> USE ExternalAssumption DEF IInv, TypeOK, Calls, setVars, recordVars, runtimeVars, Step,
      Holders, RecordOrder, Inserted, InSet, Places
<1>1. ASSUME NEW x \in Calls \cup Permits, CallStep(x) PROVE Holders'
  BY <1>1 DEF CallStep, AcquireWork, AcquirePermit, RefuseSet, Refuse, Admit, Reserve,
    RefuseControl, Leave
<1>2. ASSUME NEW p \in Producers, ProducerStep(p) PROVE Holders'
  <2>1. CASE Insert(p) \/ Reject(p) \/ RejectLease(p)
    <3>1. CASE Insert(p)
      BY <3>1 DEF Insert
    <3>2. CASE Reject(p)
      BY <3>2 DEF Reject
    <3>3. CASE RejectLease(p)
      BY <3>3 DEF RejectLease, Leave
    <3> QED
      BY <2>1, <3>1, <3>2, <3>3
  <2>2. CASE EndAttachment(p)
    <3>1. CASE at' = [at EXCEPT ![p] = Registration(p)]
      BY <2>2, <3>1 DEF EndAttachment, Registration, Attaching
    <3>2. CASE at' = [at EXCEPT ![p] = "settling"]
      BY <2>2, <3>2 DEF EndAttachment, Attaching
    <3> QED
      BY <2>2, <3>1, <3>2 DEF EndAttachment
  <2>3. CASE Register(p)
    BY <2>3 DEF Register, Settle, Claim, Attaching
  <2>4. CASE SettledOwn(p) \/ Return(p)
    <3>1. CASE SettledOwn(p)
      BY <3>1 DEF SettledOwn, Registration
    <3>2. CASE Return(p)
      BY <3>2 DEF Return, Leave
    <3> QED
      BY <2>4, <3>1, <3>2
  <2>5. CASE Publish(p) \/ ReleaseLease(p) \/ ReleaseAdmission(p)
    BY <2>5 DEF Publish, ReleaseLease, ReleaseAdmission, Registering, Leave
  <2>6. CASE FireHook(p) \/ SettleCut(p)
    BY <2>6 DEF FireHook, SettleCut, Settle, Claim, Attaching
  <2> QED
    BY <1>2, <2>1, <2>2, <2>3, <2>4, <2>5, <2>6 DEF ProducerStep
<1>3. ASSUME NEW a \in Accesses, Unregister(a) PROVE Holders'
  BY <1>3 DEF Unregister
<1>4. CASE HostProgress
  BY <1>4 DEF HostProgress, Scan, ScanScheduler, Rescan, Stop, Cut, CancelSets, HostStep,
    HostRest, Cancellation, Records
<1>5. CASE Environment
  <2>1. ASSUME NEW x \in Calls \cup Permits,
               Gate(x) \/ (x \in Permits /\ DropPermit(x)) \/ (x \in Calls /\ CallBare(x))
        PROVE Holders'
    BY <2>1 DEF Gate, DropPermit, CallBare, Borrowed, InCall
  <2>2. ASSUME NEW p \in Producers, Reject(p) \/ (\E v \in Values : Complete(p, v))
                 \/ CancelOrDrop(p, "Cancelled") \/ CancelOrDrop(p, "Abandoned")
        PROVE Holders'
    <3>1. CASE Reject(p)
      BY <3>1 DEF Reject
    <3>2. CASE UNCHANGED <<setVars, registry, at>>
      BY <3>2
    <3> QED
      BY <2>2, <3>1, <3>2 DEF Complete, CancelOrDrop
  <2>3. ASSUME NEW a \in Accesses, Activate(a) \/ Orphan(a) \/ Retire(a) PROVE Holders'
    BY <2>3 DEF Activate, Orphan, Retire, Leave
  <2>4. CASE DropHandle
    BY <2>4 DEF DropHandle, Borrowed, InCall
  <2>5. CASE CancelSet \/ Seal \/ EndBody
    BY <2>5 DEF CancelSet, Seal, EndBody, Cancellation
  <2>6. CASE BeginShutdown \/ TryShutdown \/ Abandon
    BY <2>6 DEF BeginShutdown, TryShutdown, Abandon, Closing, HostStep
  <2> QED
    BY <1>5, <2>1, <2>2, <2>3, <2>4, <2>5, <2>6 DEF Environment
<1>6. CASE UNCHANGED vars
  BY <1>6 DEF vars
<1> QED
  BY <1>1, <1>2, <1>3, <1>4, <1>5, <1>6 DEF Next

LEMMA PhasesStep == IInv /\ [Next]_vars => Phases'
<1> SUFFICES ASSUME IInv, [Next]_vars PROVE Phases'
  OBVIOUS
<1> USE ExternalAssumption DEF IInv, TypeOK, Calls, setVars, recordVars, runtimeVars, Step,
      Phases
<1>1. ASSUME NEW x \in Calls \cup Permits, CallStep(x) PROVE Phases'
  BY <1>1 DEF CallStep, AcquireWork, AcquirePermit, RefuseSet, Refuse, Admit, Reserve,
    RefuseControl, Leave
<1>2. ASSUME NEW p \in Producers, ProducerStep(p) PROVE Phases'
  <2>1. CASE Insert(p) \/ Reject(p) \/ RejectLease(p)
    BY <2>1 DEF Insert, Reject, RejectLease, Leave
  <2>2. CASE EndAttachment(p)
    BY <2>2 DEF EndAttachment, Registration, Claim, Attaching
  <2>3. CASE Register(p)
    BY <2>3 DEF Register, Settle, Claim, Attaching
  <2>4. CASE SettledOwn(p) \/ Return(p)
    BY <2>4 DEF SettledOwn, Return, Registration, Leave
  <2>5. CASE Publish(p) \/ ReleaseLease(p) \/ ReleaseAdmission(p)
    BY <2>5 DEF Publish, ReleaseLease, ReleaseAdmission, Registering, Leave
  <2>6. CASE FireHook(p) \/ SettleCut(p)
    BY <2>6 DEF FireHook, SettleCut, Settle, Claim, Attaching
  <2> QED
    BY <1>2, <2>1, <2>2, <2>3, <2>4, <2>5, <2>6 DEF ProducerStep
<1>3. ASSUME NEW a \in Accesses, Unregister(a) PROVE Phases'
  BY <1>3 DEF Unregister
<1>4. CASE HostProgress
  BY <1>4 DEF HostProgress, Scan, ScanScheduler, Rescan, Stop, Cut, CancelSets, HostStep,
    HostRest, Cancellation, Records
<1>5. CASE Environment
  <2>1. ASSUME NEW x \in Calls \cup Permits,
               Gate(x) \/ (x \in Permits /\ DropPermit(x)) \/ (x \in Calls /\ CallBare(x))
        PROVE Phases'
    BY <2>1 DEF Gate, DropPermit, CallBare, Borrowed, InCall
  <2>2. ASSUME NEW p \in Producers, Reject(p) \/ (\E v \in Values : Complete(p, v))
                 \/ CancelOrDrop(p, "Cancelled") \/ CancelOrDrop(p, "Abandoned")
        PROVE Phases'
    BY <2>2 DEF Reject, Complete, CancelOrDrop, Settle, Claim, Attaching
  <2>3. ASSUME NEW a \in Accesses, Activate(a) \/ Orphan(a) \/ Retire(a) PROVE Phases'
    BY <2>3 DEF Activate, Orphan, Retire, Leave
  <2>4. CASE DropHandle
    BY <2>4 DEF DropHandle, Borrowed, InCall
  <2>5. CASE CancelSet \/ Seal \/ EndBody
    BY <2>5 DEF CancelSet, Seal, EndBody, Cancellation
  <2>6. CASE BeginShutdown \/ TryShutdown \/ Abandon
    BY <2>6 DEF BeginShutdown, TryShutdown, Abandon, Closing, HostStep
  <2> QED
    BY <1>5, <2>1, <2>2, <2>3, <2>4, <2>5, <2>6 DEF Environment
<1>6. CASE UNCHANGED vars
  BY <1>6 DEF vars
<1> QED
  BY <1>1, <1>2, <1>3, <1>4, <1>5, <1>6 DEF Next

LEMMA QuietStep == IInv /\ [Next]_vars => Quiet'
<1> SUFFICES ASSUME IInv, [Next]_vars PROVE Quiet'
  OBVIOUS
<1> USE ExternalAssumption DEF IInv, TypeOK, Calls, setVars, recordVars, runtimeVars, Step,
      Quiet, GatedReachable, Reachable, Holders, Phases, LivePermits, InSet, SetAccepts,
       RuntimeAdmits, Quiescent, Alive, Drained, RecordOrder, Inserted
<1>1. ASSUME NEW x \in Calls \cup Permits, CallStep(x) PROVE Quiet'
  BY <1>1 DEF CallStep, AcquireWork, AcquirePermit, RefuseSet, Refuse, Admit, Reserve,
    RefuseControl, Leave
<1>2. ASSUME NEW p \in Producers, ProducerStep(p) PROVE Quiet'
  <2>1. CASE Insert(p) \/ Reject(p) \/ RejectLease(p)
    BY <2>1 DEF Insert, Reject, RejectLease, Leave
  <2>2. CASE EndAttachment(p)
    BY <2>2 DEF EndAttachment, Registration, Claim, Attaching
  <2>3. CASE Register(p)
    BY <2>3 DEF Register, Settle, Claim, Attaching
  <2>4. CASE SettledOwn(p) \/ Return(p)
    BY <2>4 DEF SettledOwn, Return, Registration, Leave
  <2>5. CASE Publish(p) \/ ReleaseLease(p) \/ ReleaseAdmission(p)
    BY <2>5 DEF Publish, ReleaseLease, ReleaseAdmission, Registering, Leave
  <2>6. CASE FireHook(p) \/ SettleCut(p)
    BY <2>6 DEF FireHook, SettleCut, Settle, Claim, Attaching
  <2> QED
    BY <1>2, <2>1, <2>2, <2>3, <2>4, <2>5, <2>6 DEF ProducerStep
<1>3. ASSUME NEW a \in Accesses, Unregister(a) PROVE Quiet'
  BY <1>3 DEF Unregister
<1>4. CASE HostProgress
  BY <1>4 DEF HostProgress, Scan, ScanScheduler, Rescan, Stop, Cut, CancelSets, HostStep,
    HostRest, Cancellation, Records
<1>5. CASE Environment
  <2>1. ASSUME NEW x \in Calls \cup Permits,
               Gate(x) \/ (x \in Permits /\ DropPermit(x)) \/ (x \in Calls /\ CallBare(x))
        PROVE Quiet'
    BY <2>1 DEF Gate, DropPermit, CallBare, Borrowed, InCall
  <2>2. ASSUME NEW p \in Producers, Reject(p) \/ (\E v \in Values : Complete(p, v))
                 \/ CancelOrDrop(p, "Cancelled") \/ CancelOrDrop(p, "Abandoned")
        PROVE Quiet'
    BY <2>2 DEF Reject, Complete, CancelOrDrop, Settle, Claim, Attaching
  <2>3. ASSUME NEW a \in Accesses, Activate(a) \/ Orphan(a) \/ Retire(a) PROVE Quiet'
    BY <2>3 DEF Activate, Orphan, Retire, Leave
  <2>4. CASE DropHandle
    BY <2>4 DEF DropHandle, Borrowed, InCall
  <2>5. CASE CancelSet \/ Seal \/ EndBody
    BY <2>5 DEF CancelSet, Seal, EndBody, Cancellation
  <2>6. CASE BeginShutdown \/ TryShutdown \/ Abandon
    BY <2>6 DEF BeginShutdown, TryShutdown, Abandon, Closing, HostStep
  <2> QED
    BY <1>5, <2>1, <2>2, <2>3, <2>4, <2>5, <2>6 DEF Environment
<1>6. CASE UNCHANGED vars
  BY <1>6 DEF vars
<1> QED
  BY <1>1, <1>2, <1>3, <1>4, <1>5, <1>6 DEF Next

-----------------------------------------------------------------------------

LEMMA Inductive == IInv /\ [Next]_vars => IInv'
<1> SUFFICES ASSUME IInv, [Next]_vars PROVE IInv'
  OBVIOUS
<1>1. TypeOK'
  BY TypeStep DEF IInv
<1> QED
  BY <1>1, GatedReachableStep, RecordOrderStep, DecidedStep, HoldersStep, PhasesStep, QuietStep
  DEF IInv

LEMMA Invariance == Spec => []IInv
BY Initially, Inductive, PTL DEF Spec

\* The type invariant (every operation of src/external and work_set.rs).
THEOREM TypeCorrect == Spec => []TypeOK
<1>1. IInv => TypeOK
  BY DEF IInv
<1> QED
  BY <1>1, Invariance, PTL

\* One outcome decides a producer's result, however completion, cancellation, the
\* producer's drop, the set's hook and an abandonment race (claim_external).
THEOREM ResultDecidedOnce == Spec => []OneResult
<1>1. IInv => OneResult
  <2> SUFFICES ASSUME IInv, NEW p \in Producers
               PROVE  /\ Cardinality(claims[p]) <= 1
                      /\ result[p] # None => claims[p] = {result[p]}
    BY DEF OneResult
  <2>1. record[p] \in {"absent", "present", "claimed", "removed", "released", "done"}
    BY DEF IInv, TypeOK
  <2>2. CASE claims[p] = {} /\ result[p] = None
    BY <2>2, FS_EmptySet
  <2>3. ASSUME NEW r \in Results, claims[p] = {r}, result[p] \in {None, r}
        PROVE  /\ Cardinality(claims[p]) <= 1
               /\ result[p] # None => claims[p] = {result[p]}
    BY <2>3, FS_Singleton
  <2> QED
    BY <2>1, <2>2, <2>3 DEF IInv, Decided
<1> QED
  BY <1>1, Invariance, PTL

\* Two readings of the runtime's counts with the scheduler's in between are enough
\* for a stopped runtime to have nothing left, whoever was on his way through an
\* admission meanwhile (try_shutdown, is_quiescent).
THEOREM StoppedLeavesNothing == Spec => []StoppedIsEmpty
<1>1. IInv => StoppedIsEmpty
  <2> SUFFICES ASSUME IInv, phase = "Stopped" PROVE StoppedIsEmpty
    BY DEF StoppedIsEmpty
  <2> USE DEF IInv, Calls
  <2>1. ~abandoned /\ admitted = {} /\ registry = {} /\ leases = {} /\ LivePermits = {}
    BY DEF Phases, Quiet
  <2>2. \A p \in Producers : record[p] \in {"absent", "done"} /\ p \notin admitted
    BY <2>1 DEF RecordOrder
  <2>3. ASSUME NEW x \in Calls \cup Permits
        PROVE  \/ at[x] \in {"idle", "gated", "refused", "dropped", "returned", "released"}
               \/ at[x] = "leased" /\ ~InSet(x)
    <3>1. at[x] \in Places
      BY DEF TypeOK
    <3>2. CASE x \in Permits
      BY <2>1, <3>2 DEF Holders, LivePermits
    <3>3. CASE x \in Accesses
      BY <2>1, <3>1, <3>3 DEF Holders, Inserted, Places
    <3>4. CASE x \in Producers
      <4>1. at[x] \notin {"attaching", "settling", "admitted"}
        BY <2>1, <2>2, <3>4 DEF RecordOrder
      <4> QED
        BY <2>1, <3>1, <3>4, <4>1 DEF Holders, Places
    <3> QED
      BY <3>2, <3>3, <3>4
  <2> QED
    BY <2>1, <2>2, <2>3 DEF StoppedIsEmpty
<1> QED
  BY <1>1, Invariance, PTL

\* A drained set stays drained: what could still be admitted holds a permit or finds
\* the set sealed (SWWorkSet::is_drained).
THEOREM DrainedStays == Spec => DrainedIsFinal
<1>1. IInv /\ [Next]_vars => (Drained => Drained')
  <2> SUFFICES ASSUME IInv, [Next]_vars, Drained PROVE Drained'
    OBVIOUS
  <2> USE ExternalAssumption DEF IInv, TypeOK, Calls, setVars, recordVars, runtimeVars, Step,
        Drained, LivePermits, HostStep, HostRest
  <2>1. ASSUME NEW x \in Calls \cup Permits, CallStep(x) PROVE Drained'
    BY <2>1 DEF CallStep, AcquireWork, AcquirePermit, RefuseSet, Refuse, Admit, Reserve,
      RefuseControl, Leave, SetAccepts, GatedReachable, Reachable
  <2>2. ASSUME NEW p \in Producers, ProducerStep(p) PROVE Drained'
    <3>1. open' = open /\ leases' \subseteq leases
      BY <2>2 DEF ProducerStep, Insert, Reject, RejectLease, EndAttachment, Register,
        SettledOwn, Return, Publish, ReleaseLease, ReleaseAdmission, FireHook, SettleCut,
        Leave
    <3>2. \A d \in Permits : at'[d] = "live" => at[d] = "live"
      BY <2>2 DEF ProducerStep, Insert, Reject, RejectLease, EndAttachment, Register,
        SettledOwn, Return, Publish, ReleaseLease, ReleaseAdmission, FireHook, SettleCut,
        Registration
    <3> QED
      BY <3>1, <3>2
  <2>3. ASSUME NEW a \in Accesses, Unregister(a) PROVE Drained'
    BY <2>3 DEF Unregister
  <2>4. CASE HostProgress
    BY <2>4 DEF HostProgress, Scan, ScanScheduler, Rescan, Stop, Cut, CancelSets, Cancellation
  <2>5. CASE Environment
    <3>1. (open' => open) /\ leases' \subseteq leases
      <4>1. CASE BeginShutdown \/ TryShutdown
        BY <4>1 DEF BeginShutdown, TryShutdown, Closing
      <4>2. CASE ~(BeginShutdown \/ TryShutdown)
        BY <2>5, <4>2 DEF Environment, Gate, DropPermit, CallBare, Reject, Complete,
          CancelOrDrop, Activate, Orphan, Retire, Leave, DropHandle, CancelSet, Cancellation,
          Seal, EndBody, Abandon
      <4> QED
        BY <4>1, <4>2
    <3>2. \A d \in Permits : at'[d] = "live" => at[d] = "live"
      BY <2>5 DEF Environment, Gate, DropPermit, CallBare, Reject, Complete, CancelOrDrop,
        Activate, Orphan, Retire, DropHandle, CancelSet, Seal, EndBody, BeginShutdown,
        TryShutdown, Abandon
    <3> QED
      BY <3>1, <3>2
  <2>6. CASE UNCHANGED vars
    BY <2>6 DEF vars
  <2> QED
    BY <2>1, <2>2, <2>3, <2>4, <2>5, <2>6 DEF Next
<1> QED
  BY <1>1, Invariance, PTL DEF Spec, DrainedIsFinal
=============================================================================
