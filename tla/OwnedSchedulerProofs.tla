------------------------ MODULE OwnedSchedulerProofs ------------------------
(***************************************************************************)
(* Proofs about OwnedScheduler for every set of jobs, dependency graph,    *)
(* class and limit.                                                        *)
(*                                                                         *)
(* The inductive invariant is stated in parts, each resting on those       *)
(* before it: Footing (types, queues and lives of the jobs), Links         *)
(* (registrations at prerequisites), Companies (groups and their members), *)
(* Reasons (claims that suppress), Ledger (what is charged), Tally and     *)
(* Limits (the runnable window), Hands (the handoff credits) and Owed (who *)
(* will dispatch).                                                         *)
(***************************************************************************)
EXTENDS SchedulerRefinement, SequenceTheorems, FiniteSetTheorems, TLAPS

-----------------------------------------------------------------------------
(* The ready queue *)

\* A part of a queue is a queue.
LEMMA PartType ==
  ASSUME NEW q \in Seq(Jobs), NEW m \in Int, NEW n \in Int, 1 <= m, n <= Len(q)
  PROVE  SubSeq(q, m, n) \in Seq(Jobs)
<1>1. \A k \in m .. n : q[k] \in Jobs
  BY ElementOfSeq, LenProperties
<1> QED
  BY <1>1, SubSeqProperties

\* A queue without one of its jobs.
LEMMA DequeueType ==
  ASSUME NEW q \in Seq(Jobs), NEW j
  PROVE  Dequeue(q, j) \in Seq(Jobs)
<1>1. CASE \E i \in DOMAIN q : q[i] = j
  <2> DEFINE i == CHOOSE k \in DOMAIN q : q[k] = j
  <2>1. i \in 1 .. Len(q) /\ Len(q) \in Nat
    BY <1>1, LenProperties
  <2> HIDE DEF i
  <2>2. SubSeq(q, 1, i - 1) \in Seq(Jobs)
    BY <2>1, PartType
  <2>3. SubSeq(q, i + 1, Len(q)) \in Seq(Jobs)
    BY <2>1, PartType
  <2>4. RemoveAt(q, i) \in Seq(Jobs)
    BY <2>2, <2>3, ConcatProperties DEF RemoveAt
  <2> QED
    BY <1>1, <2>4 DEF Dequeue, i
<1>2. CASE ~(\E i \in DOMAIN q : q[i] = j)
  BY <1>2 DEF Dequeue
<1> QED
  BY <1>1, <1>2

LEMMA Fields ==
  ASSUME NEW q \in ClassState
  PROVE  /\ q.ready \in Seq(Jobs) /\ Len(q.ready) \in Nat
         /\ q.deferred \in Seq(Jobs) /\ Len(q.deferred) \in Nat
         /\ q.runnable \in Int /\ q.handed \in Int /\ q.rebalance \in BOOLEAN
BY LenProperties DEF ClassState

LEMMA UpdateType ==
  ASSUME NEW q \in ClassState, NEW r \in Seq(Jobs), NEW d \in Seq(Jobs),
         NEW n \in Int, NEW h \in Int, NEW b \in BOOLEAN
  PROVE  /\ [q EXCEPT !.ready = r, !.deferred = d, !.runnable = n] \in ClassState
         /\ [q EXCEPT !.ready = r, !.deferred = d, !.runnable = n,
                      !.rebalance = b] \in ClassState
         /\ [q EXCEPT !.ready = r, !.runnable = n, !.rebalance = b] \in ClassState
         /\ [q EXCEPT !.ready = r, !.runnable = n] \in ClassState
         /\ [q EXCEPT !.ready = r, !.deferred = d] \in ClassState
         /\ [q EXCEPT !.ready = r, !.handed = h] \in ClassState
         /\ [q EXCEPT !.deferred = d] \in ClassState
         /\ [q EXCEPT !.runnable = n] \in ClassState
         /\ [q EXCEPT !.handed = h] \in ClassState
BY DEF ClassState

\* The prefix that fits is a prefix.
LEMMA FittingBound ==
  ASSUME NEW c \in Classes, NEW q \in ClassState
  PROVE  Fitting(c, q) \in 0 .. Len(q.deferred)
<1>1. RunnableLimit[c] \in Nat
  BY SchedulerAssumption
<1> QED
  BY <1>1, Fields DEF Fitting, Smaller, Room

LEMMA ReopenedType ==
  ASSUME NEW q \in ClassState
  PROVE  Reopened(q) \in ClassState
<1> DEFINE e == << >>
           d == q.ready \o q.deferred
           n == q.runnable - Len(q.ready)
<1>1. e \in Seq(Jobs) /\ d \in Seq(Jobs) /\ n \in Int
  BY EmptySeq, ConcatProperties, Fields
<1>2. \/ Reopened(q) = q
      \/ Reopened(q) = [q EXCEPT !.ready = e, !.deferred = d, !.runnable = n]
  BY DEF Reopened
<1> HIDE DEF e, d, n
<1>3. [q EXCEPT !.ready = e, !.deferred = d, !.runnable = n] \in ClassState
  BY <1>1, UpdateType
<1> QED
  BY <1>2, <1>3

LEMMA PromotionType ==
  ASSUME NEW c \in Classes, NEW q \in ClassState
  PROVE  Promotion(c, q) \in ClassState /\ Promoted(c, q) \in Seq(Jobs)
<1> DEFINE f == Fitting(c, q)
           p == Promoted(c, q)
           r == q.ready \o p
           d == SubSeq(q.deferred, f + 1, Len(q.deferred))
           n == q.runnable + f
<1>1. f \in 0 .. Len(q.deferred) /\ q.deferred \in Seq(Jobs) /\ Len(q.deferred) \in Nat
  BY FittingBound, Fields
<1>2. p \in Seq(Jobs)
  <2> HIDE DEF f
  <2>1. SubSeq(q.deferred, 1, f) \in Seq(Jobs)
    BY <1>1, PartType
  <2> QED
    BY <2>1 DEF Promoted, f
<1>3. d \in Seq(Jobs)
  <2> HIDE DEF f
  <2> QED
    BY <1>1, PartType
<1>4. r \in Seq(Jobs)
  <2> HIDE DEF p
  <2> QED
    BY <1>2, ConcatProperties, Fields
<1>5. n \in Int
  <2> HIDE DEF f
  <2> QED
    BY <1>1, Fields
<1>6. Promotion(c, q) = [q EXCEPT !.ready = r, !.deferred = d, !.runnable = n,
                                  !.rebalance = FALSE]
  BY DEF Promotion
<1> HIDE DEF r, d, n
<1>7. [q EXCEPT !.ready = r, !.deferred = d, !.runnable = n, !.rebalance = FALSE]
        \in ClassState
  BY <1>3, <1>4, <1>5, UpdateType
<1> QED
  BY <1>2, <1>6, <1>7

\* What promote_locked leaves behind is well typed.
LEMMA PromoteType ==
  ASSUME NEW c \in Classes, NEW q \in ClassState,
         NEW st \in [Jobs -> Stages], NEW ix \in SUBSET Jobs
  PROVE  /\ Promote(c, q, st, ix).queue \in ClassState
         /\ Promote(c, q, st, ix).stage \in [Jobs -> Stages]
         /\ Promote(c, q, st, ix).index \in SUBSET Jobs
<1>1. Promotion(c, Reopened(q)) \in ClassState
  BY ReopenedType, PromotionType
<1> QED
  BY <1>1 DEF Promote, Stages, Helpable

-----------------------------------------------------------------------------
(* Types *)

LEMMA Installed ==
  ASSUME TypeOK, NEW c \in Classes, NEW q \in ClassState,
         NEW st \in [Jobs -> Stages], NEW ix \in SUBSET Jobs,
         Install(c, Promote(c, q, st, ix))
  PROVE  class' \in [Classes -> ClassState] /\ stage' \in [Jobs -> Stages]
           /\ index' \subseteq Jobs
<1> DEFINE p == Promote(c, q, st, ix)
<1>1. p.queue \in ClassState /\ p.stage \in [Jobs -> Stages] /\ p.index \in SUBSET Jobs
  BY PromoteType
<1>2. class' = [class EXCEPT ![c] = p.queue] /\ stage' = p.stage /\ index' = p.index
  BY DEF Install
<1> HIDE DEF p
<1> QED
  BY <1>1, <1>2 DEF TypeOK

LEMMA FiniteEdges == \A j \in Jobs : Cardinality(Prereqs[j]) \in Nat
BY SchedulerAssumption, FS_CardinalityType

LEMMA TypeInit == Init => TypeOK
<1> SUFFICES ASSUME Init PROVE TypeOK
  OBVIOUS
<1>1. class \in [Classes -> ClassState]
  <2>1. << >> \in Seq(Jobs)
    BY EmptySeq
  <2> QED
    BY <2>1 DEF Init, ClassState
<1>2. calls \in [Classes -> Int] /\ offers \subseteq Portions
  BY DEF Init
<1>3. suppressing \subseteq Jobs \X Status
  BY DEF Init
<1>4. edge \in [Edges -> {"unattached", "stored", "late", "fired", "activating",
                         "settled", "detached"}]
  BY DEF Init
<1>5. /\ group \in [Groups -> GroupState]
      /\ status \in [Signals -> Status \cup {None}]
      /\ outcome \in [Jobs -> Status \cup {None}]
  BY DEF Init, GroupState
<1>6. /\ phase \in {"Running", "Closing", "Abandoned"}
      /\ abandoned \in BOOLEAN /\ cutting \in BOOLEAN
      /\ leased \subseteq Leases
  BY DEF Init
<1>9. records \in Int /\ edges \in Int
  BY DEF Init
<1>10. failed \subseteq Jobs /\ inline \subseteq Jobs /\ index \subseteq Jobs
  BY DEF Init
<1>8. pending \in [Jobs -> Int] /\ stage \in [Jobs -> Stages]
  BY DEF Init, Stages
<1>7. /\ sub \in [Jobs -> {"idle", "admitted", "recorded", "charged", "unjoining",
                          "refused", "rejected", "attaching", "activating",
                          "claiming", "returned"}]
      /\ exec \in [Jobs -> {"none", "body", "finish", "deferred", "finalize",
                           "leave", "groupPublish", "done"}]
      /\ wrapper \in [Jobs -> {"none", "offered", "queued", "running", "gone"}]
  BY DEF Init
<1> QED
  BY <1>1, <1>2, <1>3, <1>4, <1>5, <1>6, <1>7, <1>8, <1>9, <1>10 DEF TypeOK

LEMMA CallDispatchType ==
  ASSUME TypeOK, NEW c \in Classes, CallDispatch(c)
  PROVE  calls' \in [Classes -> Int]
BY DEF TypeOK, CallDispatch

LEMMA ActivateReadyType ==
  ASSUME TypeOK, NEW j \in Jobs, NEW inl \in BOOLEAN, ActivateReady(j, inl)
  PROVE  /\ class' \in [Classes -> ClassState] /\ stage' \in [Jobs -> Stages]
         /\ index' \subseteq Jobs /\ suppressing' \subseteq Jobs \X Status
<1> DEFINE c == ClassOf[j]
           q == class[c]
           r == Append(q.ready, j)
           d == Append(q.deferred, j)
           n == q.runnable + 1
<1>1. c \in Classes /\ q \in ClassState
  BY SchedulerAssumption DEF TypeOK
<1>2. r \in Seq(Jobs) /\ d \in Seq(Jobs) /\ n \in Int
  BY <1>1, Fields, AppendProperties
<1>3. CASE UNCHANGED queueVars /\ suppressing' = suppressing
  BY <1>3 DEF TypeOK, queueVars
<1>4. CASE /\ suppressing' = suppressing \cup
                {<<j, IF abandoned THEN "Abandoned" ELSE "PrerequisiteFailed">>}
           /\ UNCHANGED queueVars
  BY <1>4 DEF TypeOK, queueVars, Status
<1>5. CASE /\ class' = [class EXCEPT ![c] =
                [q EXCEPT !.ready = r, !.runnable = n, !.rebalance = TRUE]]
           /\ stage' = [stage EXCEPT ![j] = "Ready"]
           /\ index' = index \cup ({j} \cap Helpable)
           /\ UNCHANGED suppressing
  <2> HIDE DEF c, q, r, d, n
  <2>1. [q EXCEPT !.ready = r, !.runnable = n, !.rebalance = TRUE] \in ClassState
    BY <1>1, <1>2, UpdateType
  <2> QED
    BY <1>1, <1>5, <2>1 DEF TypeOK, Stages
<1>6. CASE /\ class' = [class EXCEPT ![c] = [q EXCEPT !.deferred = d]]
           /\ stage' = [stage EXCEPT ![j] = "DeferredReady"]
           /\ UNCHANGED <<index, suppressing>>
  <2> HIDE DEF c, q, r, d, n
  <2>1. [q EXCEPT !.deferred = d] \in ClassState
    BY <1>1, <1>2, UpdateType
  <2> QED
    BY <1>1, <1>6, <2>1 DEF TypeOK, Stages
<1> QED
  BY <1>3, <1>4, <1>5, <1>6 DEF ActivateReady

LEMMA SuppressType ==
  ASSUME TypeOK, NEW j \in Jobs, NEW s \in Status, Suppress(j, s)
  PROVE  /\ class' \in [Classes -> ClassState] /\ stage' \in [Jobs -> Stages]
         /\ index' \subseteq Jobs
         /\ exec' \in [Jobs -> {"none", "body", "finish", "deferred", "finalize",
                                "leave", "groupPublish", "done"}]
         /\ outcome' \in [Jobs -> Status \cup {None}]
<1> DEFINE c == ClassOf[j]
           r == Dequeue(class[c].ready, j)
           d == Dequeue(class[c].deferred, j)
           q == [class[c] EXCEPT !.ready = r, !.deferred = d]
           f == [stage EXCEPT ![j] = "Finalizing"]
           n == q.runnable - 1
           p == [q EXCEPT !.runnable = n]
<1>1. c \in Classes /\ class[c] \in ClassState /\ f \in [Jobs -> Stages]
        /\ index \ {j} \in SUBSET Jobs
  BY SchedulerAssumption DEF TypeOK, Stages
<1>2. r \in Seq(Jobs) /\ d \in Seq(Jobs)
  BY <1>1, Fields, DequeueType
<1>3. q \in ClassState
  <2> HIDE DEF r, d, c
  <2> QED
    BY <1>1, <1>2 DEF ClassState
<1>4. p \in ClassState
  <2> HIDE DEF q
  <2>1. n \in Int
    BY <1>3, Fields
  <2> HIDE DEF n
  <2> QED
    BY <1>3, <2>1 DEF ClassState
<1>5. CASE UNCHANGED <<queueVars, finishVars>>
  BY <1>5 DEF TypeOK, queueVars, finishVars
<1>6. CASE /\ outcome' = [outcome EXCEPT ![j] = IF abandoned THEN "Abandoned" ELSE s]
           /\ exec' = [exec EXCEPT ![j] = "finish"]
           /\ \/ Install(c, Promote(c, p, f, index \ {j}))
              \/ /\ class' = [class EXCEPT ![c] = q]
                 /\ stage' = f
                 /\ index' = index \ {j}
  <2> HIDE DEF q, p, f, c
  <2>1. outcome' \in [Jobs -> Status \cup {None}]
    BY <1>6 DEF TypeOK, Status
  <2>2. exec' \in [Jobs -> {"none", "body", "finish", "deferred", "finalize",
                            "leave", "groupPublish", "done"}]
    BY <1>6 DEF TypeOK
  <2>3. CASE Install(c, Promote(c, p, f, index \ {j}))
    BY <1>1, <1>4, <2>1, <2>2, <2>3, Installed
  <2>4. CASE class' = [class EXCEPT ![c] = q] /\ stage' = f /\ index' = index \ {j}
    BY <1>1, <1>3, <2>1, <2>2, <2>4 DEF TypeOK
  <2> QED
    BY <1>6, <2>3, <2>4
<1> QED
  BY <1>5, <1>6 DEF Suppress

LEMMA ClaimType ==
  ASSUME TypeOK, NEW who, NEW j \in Jobs, Claim(who, j)
  PROVE  /\ class' \in [Classes -> ClassState] /\ stage' \in [Jobs -> Stages]
         /\ index' \subseteq Jobs
         /\ exec' \in [Jobs -> {"none", "body", "finish", "deferred", "finalize",
                                "leave", "groupPublish", "done"}]
         /\ outcome' = outcome
<1> DEFINE c == ClassOf[j]
           r == Dequeue(class[c].ready, j)
           n == class[c].runnable - 1
           q == [class[c] EXCEPT !.ready = r, !.runnable = n]
           f == [stage EXCEPT ![j] = "Running"]
<1>1. c \in Classes /\ class[c] \in ClassState /\ f \in [Jobs -> Stages]
        /\ index \ {j} \in SUBSET Jobs
  BY SchedulerAssumption DEF TypeOK, Stages
<1>2. r \in Seq(Jobs) /\ n \in Int
  BY <1>1, Fields, DequeueType
<1>3. q \in ClassState
  <2> HIDE DEF r, n, c
  <2> QED
    BY <1>1, <1>2, UpdateType
<1>4. Install(c, Promote(c, q, f, index \ {j}))
  BY DEF Claim
<1> HIDE DEF q, f, c
<1>5. exec' \in [Jobs -> {"none", "body", "finish", "deferred", "finalize",
                          "leave", "groupPublish", "done"}]
  BY DEF Claim, TypeOK
<1> QED
  BY <1>1, <1>3, <1>4, <1>5, Installed DEF Claim

LEMMA GroupUpdate ==
  ASSUME NEW r \in GroupState, NEW b \in BOOLEAN
  PROVE  /\ [r EXCEPT !.sealed = TRUE] \in GroupState
         /\ [r EXCEPT !.pending = @ - 1, !.failed = @ \/ b] \in GroupState
<1> DEFINE n == r.pending - 1
           f == r.failed \/ b
<1>1. n \in Int /\ r.sealed \in BOOLEAN /\ r.failed \in BOOLEAN
  BY DEF GroupState
<1>2. f \in BOOLEAN
  OBVIOUS
<1> HIDE DEF n, f
<1>3. [r EXCEPT !.pending = n, !.failed = f] \in GroupState
  BY <1>1, <1>2 DEF GroupState
<1>4. [r EXCEPT !.sealed = TRUE] \in GroupState
  BY DEF GroupState
<1> QED
  BY <1>3, <1>4 DEF n, f

\* A section of a group ends by looking whether the group became terminal.
LEMMA GroupStep ==
  ASSUME group \in [Groups -> GroupState], NEW g, NEW st,
         g \in Groups => st \in GroupState,
         group' = [group EXCEPT ![g] = [st EXCEPT !.publishing = @ \/ Terminal(st)]]
  PROVE  group' \in [Groups -> GroupState]
<1> DEFINE new == [st EXCEPT !.publishing = @ \/ Terminal(st)]
<1>1. g \in Groups => new \in GroupState
  BY DEF GroupState, Terminal
<1>2. group' = [group EXCEPT ![g] = new]
  OBVIOUS
<1> HIDE DEF new
<1> QED
  BY <1>1, <1>2

LEMMA SubmissionTypes ==
  ASSUME TypeOK, NEW j \in Jobs,
         Submit(j) \/ ChargeRecord(j) \/ ChargeEdges(j) \/ Accept(j) \/ Unjoin(j) \/ Refuse(j)
           \/ CloseAttachment(j)
  PROVE  TypeOK'
<1> USE DEF TypeOK, submitVars, chargeVars, recordVars, queueVars, signalVars,
  finishVars, handVars, closeVars
<1>0. Cardinality(Prereqs[j]) \in Int
  BY FiniteEdges
<1>1. CASE Submit(j)
  BY <1>1 DEF Submit
<1>7. CASE ChargeRecord(j)
  BY <1>7 DEF ChargeRecord
<1>2. CASE ChargeEdges(j)
  BY <1>0, <1>2 DEF ChargeEdges
<1>3. CASE Accept(j)
  <2> DEFINE g == GroupOf[j]
  <2>1. g # None => g \in Groups
    BY SchedulerAssumption
  <2>2. group' = group \/ (g # None /\ group' = [group EXCEPT ![g].pending = @ + 1])
    BY <1>3 DEF Accept
  <2>3. group' \in [Groups -> GroupState]
    BY <2>1, <2>2 DEF GroupState
  <2> QED
    BY <1>0, <1>3, <2>3 DEF Accept, Stages
<1>4. CASE Unjoin(j)
  <2> DEFINE g == GroupOf[j]
             st == [group[g] EXCEPT !.pending = @ - 1]
  <2>0. group' = [group EXCEPT ![g] = [st EXCEPT !.publishing = @ \/ Terminal(st)]]
    BY <1>4 DEF Unjoin
  <2>2. g \in Groups => st \in GroupState
    BY DEF GroupState
  <2> HIDE DEF g, st
  <2>1. group' \in [Groups -> GroupState]
    BY <2>0, <2>2, GroupStep
  <2> QED
    BY <1>4, <2>1 DEF Unjoin
<1>5. CASE Refuse(j)
  BY <1>0, <1>5 DEF Refuse
<1>6. CASE CloseAttachment(j)
  BY <1>6 DEF CloseAttachment
<1> QED
  BY <1>1, <1>2, <1>3, <1>4, <1>5, <1>6, <1>7

LEMMA EdgeTypes ==
  ASSUME TypeOK, NEW e \in Edges, EdgeStep(e)
  PROVE  TypeOK'
<1> USE DEF TypeOK, submitVars, chargeVars, recordVars, queueVars, signalVars,
  finishVars, handVars, closeVars
<1>0. e[1] \in Jobs
  BY DEF Edges
<1>1. CASE Subscribe(e)
  BY <1>1 DEF Subscribe
<1>2. CASE DeliverEdge(e)
  BY <1>0, <1>2 DEF DeliverEdge
<1>3. CASE ActivateEdge(e)
  <2>1. ActivateReady(e[1], FALSE) /\ CallDispatch(ClassOf[e[1]])
    BY <1>3 DEF ActivateEdge
  <2>2. ClassOf[e[1]] \in Classes
    BY <1>0, SchedulerAssumption
  <2>3. /\ class' \in [Classes -> ClassState] /\ stage' \in [Jobs -> Stages]
        /\ index' \subseteq Jobs /\ suppressing' \subseteq Jobs \X Status
    BY <1>0, <2>1, ActivateReadyType
  <2>4. calls' \in [Classes -> Int]
    BY <2>1, <2>2, CallDispatchType
  <2> QED
    BY <1>3, <2>3, <2>4 DEF ActivateEdge
<1>4. CASE Detach(e)
  BY <1>4 DEF Detach
<1> QED
  BY <1>1, <1>2, <1>3, <1>4 DEF EdgeStep

LEMMA ClaimantTypes ==
  ASSUME TypeOK, NEW j \in Jobs,
         ActivateSubmitted(j) \/ Cancel(j) \/ ClaimInline(j) \/ Help(j)
           \/ EnterWrapper(j)
  PROVE  TypeOK'
<1> USE DEF TypeOK, submitVars, chargeVars, recordVars, queueVars, signalVars,
  finishVars, handVars, closeVars
<1>0. ClassOf[j] \in Classes
  BY SchedulerAssumption
<1>1. CASE ActivateSubmitted(j)
  <2>1. ActivateReady(j, j \in inline)
    BY <1>1 DEF ActivateSubmitted
  <2>2. /\ class' \in [Classes -> ClassState] /\ stage' \in [Jobs -> Stages]
        /\ index' \subseteq Jobs /\ suppressing' \subseteq Jobs \X Status
    <3>1. (j \in inline) \in BOOLEAN
      OBVIOUS
    <3> QED
      BY <2>1, <3>1, ActivateReadyType
  <2>3. calls' \in [Classes -> Int]
    BY <1>0, <1>1, CallDispatchType DEF ActivateSubmitted
  <2> QED
    BY <1>1, <2>2, <2>3 DEF ActivateSubmitted
<1>2. CASE Cancel(j)
  <2>1. Suppress(j, "Cancelled") /\ "Cancelled" \in Status
    BY <1>2 DEF Cancel, Status
  <2> QED
    BY <1>2, <2>1, SuppressType DEF Cancel
<1>3. CASE ClaimInline(j)
  <2>1. CASE Claim("caller", j)
    BY <1>3, <2>1, ClaimType DEF ClaimInline
  <2>2. CASE UNCHANGED <<queueVars, finishVars>>
    BY <1>3, <2>2 DEF ClaimInline
  <2> QED
    BY <1>3, <2>1, <2>2 DEF ClaimInline
<1>4. CASE Help(j)
  BY <1>4, ClaimType DEF Help
<1>5. CASE EnterWrapper(j)
  BY <1>5, ClaimType DEF EnterWrapper
<1> QED
  BY <1>1, <1>2, <1>3, <1>4, <1>5

LEMMA WrapperTypes ==
  ASSUME TypeOK, NEW j \in Jobs, LeaveWrapper(j) \/ DiscardWrapper(j)
  PROVE  TypeOK'
<1> USE DEF TypeOK, submitVars, chargeVars, recordVars, queueVars, signalVars,
  finishVars, handVars, closeVars
<1> DEFINE c == ClassOf[j]
           n == class[c].handed - 1
<1>0. c \in Classes /\ class[c] \in ClassState /\ n \in Int
  BY SchedulerAssumption, Fields
<1>1. [class[c] EXCEPT !.handed = n] \in ClassState
  <2> HIDE DEF n, c
  <2> QED
    BY <1>0 DEF ClassState
<1>2. class' = [class EXCEPT ![c] = [class[c] EXCEPT !.handed = n]]
  BY DEF LeaveWrapper, DiscardWrapper
<1>3. class' \in [Classes -> ClassState]
  <2> HIDE DEF n, c
  <2> QED
    BY <1>0, <1>1, <1>2
<1>4. CASE LeaveWrapper(j)
  <2>1. calls' \in [Classes -> Int]
    BY <1>0, <1>4, CallDispatchType DEF LeaveWrapper
  <2> QED
    BY <1>3, <1>4, <2>1 DEF LeaveWrapper
<1>5. CASE DiscardWrapper(j)
  BY <1>3, <1>5 DEF DiscardWrapper
<1> QED
  BY <1>4, <1>5

LEMMA SettlementTypes ==
  ASSUME TypeOK, NEW j \in Jobs, SettleStep(j)
  PROVE  TypeOK'
<1> USE DEF TypeOK, submitVars, chargeVars, recordVars, queueVars, signalVars,
  finishVars, handVars, closeVars
<1>0. ClassOf[j] \in Classes /\ Cardinality(Prereqs[j]) \in Int
  BY SchedulerAssumption, FiniteEdges
<1>1. ASSUME NEW o \in Outcomes, ReturnBody(j, o) PROVE TypeOK'
  <2>1. o \in Status
    BY SchedulerAssumption DEF Status
  <2> QED
    BY <1>1, <2>1 DEF ReturnBody, Stages
<1>2. CASE DeferFinish(j)
  BY <1>2 DEF DeferFinish
<1>3. CASE Publish(j)
  BY <1>3 DEF Publish, FireFrom
<1>4. CASE Finalize(j)
  BY <1>0, <1>4 DEF Finalize, Stages
<1>5. CASE Leave(j)
  <2> DEFINE g == GroupOf[j]
             st == [group[g] EXCEPT !.pending = @ - 1,
                                    !.failed = @ \/ status[j] # "Succeeded"]
  <2>1. \/ group' = group
        \/ group' = [group EXCEPT ![g] = [st EXCEPT !.publishing = @ \/ Terminal(st)]]
    BY <1>5 DEF Leave
  <2>2. g \in Groups => st \in GroupState
    <3>1. g \in Groups => group[g] \in GroupState
      OBVIOUS
    <3> DEFINE b == status[j] # "Succeeded"
    <3>2. b \in BOOLEAN
      OBVIOUS
    <3> HIDE DEF b
    <3> QED
      BY <3>1, <3>2, GroupUpdate
  <2>3. group' \in [Groups -> GroupState]
    <3> HIDE DEF g, st
    <3> QED
      BY <2>1, <2>2, GroupStep
  <2>4. /\ exec' \in [Jobs -> {"none", "body", "finish", "deferred", "finalize",
                               "leave", "groupPublish", "done"}]
        /\ calls' \in [Classes -> Int]
    <3>1. \/ exec' = [exec EXCEPT ![j] = "groupPublish"] /\ UNCHANGED calls
          \/ Retire(j)
      BY <1>5 DEF Leave
    <3> QED
      BY <1>0, <3>1, CallDispatchType DEF Retire
  <2> QED
    BY <1>5, <2>3, <2>4 DEF Leave
<1>6. CASE LeavePublished(j)
  <2>1. calls' \in [Classes -> Int]
    BY <1>0, <1>6, CallDispatchType DEF LeavePublished, Retire
  <2> QED
    BY <1>6, <2>1 DEF LeavePublished, Retire
<1> QED
  BY <1>1, <1>2, <1>3, <1>4, <1>5, <1>6 DEF SettleStep

LEMMA GroupTypes ==
  ASSUME TypeOK, NEW g \in Groups, Seal(g) \/ PublishGroup(g)
  PROVE  TypeOK'
<1> USE DEF TypeOK, submitVars, chargeVars, recordVars, queueVars, signalVars,
  finishVars, handVars, closeVars
<1>1. CASE Seal(g)
  <2> DEFINE st == [group[g] EXCEPT !.sealed = TRUE]
  <2>1. group' = [group EXCEPT ![g] = [st EXCEPT !.publishing = @ \/ Terminal(st)]]
    BY <1>1 DEF Seal
  <2>2. st \in GroupState
    BY GroupUpdate
  <2>3. group' \in [Groups -> GroupState]
    <3> HIDE DEF st
    <3> QED
      BY <2>1, <2>2, GroupStep
  <2> QED
    BY <1>1, <2>3 DEF Seal
<1>2. CASE PublishGroup(g)
  BY <1>2 DEF PublishGroup, FireFrom, Status
<1> QED
  BY <1>1, <1>2

LEMMA DispatchTypes ==
  ASSUME TypeOK, NEW c \in Classes, Dispatch(c)
  PROVE  TypeOK'
<1> USE DEF TypeOK, submitVars, chargeVars, recordVars, queueVars, signalVars,
  finishVars, handVars, closeVars
<1> DEFINE p == Promote(c, class[c], stage, index)
           q == p.queue
           n == Smaller(Smaller(Len(q.ready), Quantum), Room(HandoffLimit[c], q.handed))
           portion == Range(SubSeq(q.ready, 1, n))
           rest == SubSeq(q.ready, n + 1, Len(q.ready))
           h == q.handed + n
           popped == [q EXCEPT !.ready = rest, !.handed = h]
           handover == [j \in Jobs |-> IF j \in portion THEN "Handed" ELSE p.stage[j]]
<1>1. q \in ClassState /\ p.stage \in [Jobs -> Stages] /\ p.index \in SUBSET Jobs
  BY PromoteType
<1>2. n \in 0 .. Len(q.ready)
  <2> HIDE DEF p
  <2>1. Len(q.ready) \in Nat /\ q.handed \in Int /\ Quantum \in Nat /\ HandoffLimit[c] \in Nat
    BY <1>1, Fields, SchedulerAssumption
  <2> QED
    BY <2>1 DEF Smaller, Room
<1>3. SubSeq(q.ready, 1, n) \in Seq(Jobs) /\ rest \in Seq(Jobs) /\ h \in Int
  <2> HIDE DEF p, n
  <2>1. q.ready \in Seq(Jobs) /\ Len(q.ready) \in Nat /\ q.handed \in Int
    BY <1>1, Fields
  <2>2. rest \in Seq(Jobs)
    BY <1>2, <2>1, PartType
  <2>3. SubSeq(q.ready, 1, n) \in Seq(Jobs)
    BY <1>2, <2>1, PartType
  <2> QED
    BY <1>2, <2>1, <2>2, <2>3
<1>4. popped \in ClassState
  <2> HIDE DEF p, rest, h
  <2> QED
    BY <1>1, <1>3, UpdateType
<1>5. portion \subseteq Jobs
  <2> DEFINE t == SubSeq(q.ready, 1, n)
  <2> HIDE DEF t
  <2>1. t \in Seq(Jobs) => Range(t) \subseteq Jobs
    BY ElementOfSeq, LenProperties DEF Range
  <2> QED
    BY <1>3, <2>1 DEF t
<1>6. calls' = [calls EXCEPT ![c] = @ - 1]
  BY DEF Dispatch
<1>7. CASE UNCHANGED <<queueVars, wrapper, offers>>
  BY <1>6, <1>7 DEF Dispatch
<1>8. CASE /\ class' = [class EXCEPT ![c] = popped] /\ stage' = handover
           /\ index' = p.index
           /\ wrapper' = [j \in Jobs |-> IF j \in portion THEN "offered"
                                         ELSE wrapper[j]]
           /\ offers' = IF n = 0 THEN offers
                        ELSE offers \cup {[class |-> c, jobs |-> portion]}
  <2>1. handover \in [Jobs -> Stages]
    <3> HIDE DEF p, portion
    <3> QED
      BY <1>1 DEF Stages
  <2> HIDE DEF handover, popped, portion, n, p
  <2>2. class' \in [Classes -> ClassState] /\ stage' \in [Jobs -> Stages]
          /\ index' \subseteq Jobs
    BY <1>1, <1>4, <1>8, <2>1
  <2>3. wrapper' \in [Jobs -> {"none", "offered", "queued", "running", "gone"}]
    BY <1>8
  <2>4. offers' \subseteq Portions
    BY <1>5, <1>8 DEF Portions
  <2>5. UNCHANGED <<submitVars, chargeVars, recordVars, signalVars, finishVars,
                    closeVars, suppressing>>
    BY DEF Dispatch
  <2>6. calls' \in [Classes -> Int]
    BY <1>6
  <2> QED
    BY <2>2, <2>3, <2>4, <2>5, <2>6
<1> QED
  BY <1>7, <1>8 DEF Dispatch, Install

LEMMA OfferTypes ==
  ASSUME TypeOK, NEW o \in offers, OfferStep(o)
  PROVE  TypeOK'
<1> USE DEF TypeOK, submitVars, chargeVars, recordVars, queueVars, signalVars,
  finishVars, handVars, closeVars
<1>0. o.class \in Classes /\ o.jobs \subseteq Jobs
  BY DEF Portions
<1>1. CASE PublishOffer(o)
  <2>1. calls' \in [Classes -> Int]
    BY <1>0, <1>1, CallDispatchType DEF PublishOffer
  <2> QED
    BY <1>1, <2>1 DEF PublishOffer
<1>2. CASE RefuseOffer(o)
  <2> DEFINE c == o.class
             n == class[c].handed - Cardinality(o.jobs)
  <2>1. Cardinality(o.jobs) \in Int
    BY <1>0, SchedulerAssumption, FS_Subset, FS_CardinalityType
  <2>2. c \in Classes /\ class[c] \in ClassState /\ n \in Int
    BY <1>0, <2>1, Fields
  <2>3. class' = [class EXCEPT ![c] = [class[c] EXCEPT !.handed = n]]
    BY <1>2 DEF RefuseOffer
  <2>4. class' \in [Classes -> ClassState]
    <3> HIDE DEF c, n
    <3>1. [class[c] EXCEPT !.handed = n] \in ClassState
      BY <2>2 DEF ClassState
    <3> QED
      BY <2>2, <2>3, <3>1
  <2> QED
    BY <1>2, <2>4 DEF RefuseOffer
<1> QED
  BY <1>1, <1>2 DEF OfferStep

LEMMA ClosureTypes ==
  ASSUME TypeOK, BeginShutdown \/ AbandonRuntime \/ AbandonCut
                   \/ (\E d \in suppressing : SuppressDecided(d)) \/ UNCHANGED vars
  PROVE  TypeOK'
<1> USE DEF TypeOK, submitVars, chargeVars, recordVars, queueVars, signalVars,
  finishVars, handVars, closeVars
<1>1. CASE BeginShutdown
  BY <1>1 DEF BeginShutdown
<1>2. CASE AbandonRuntime
  BY <1>2 DEF AbandonRuntime, Leasable, Leases
<1>3. CASE AbandonCut
  BY <1>3 DEF AbandonCut, Swept, Status
<1>4. ASSUME NEW d \in suppressing, SuppressDecided(d) PROVE TypeOK'
  <2>1. d[1] \in Jobs /\ d[2] \in Status
    OBVIOUS
  <2>2. Suppress(d[1], d[2]) /\ suppressing' \subseteq Jobs \X Status
    BY <1>4 DEF SuppressDecided
  <2> QED
    BY <1>4, <2>1, <2>2, SuppressType DEF SuppressDecided
<1>5. CASE UNCHANGED vars
  BY <1>5 DEF vars
<1> QED
  BY <1>1, <1>2, <1>3, <1>4, <1>5

LEMMA TypeStep == TypeOK /\ [Next]_vars => TypeOK'
<1> SUFFICES ASSUME TypeOK, [Next]_vars PROVE TypeOK'
  OBVIOUS
<1>1. CASE Environment
  BY <1>1, SubmissionTypes, ClaimantTypes, GroupTypes, ClosureTypes DEF Environment
<1>2. CASE System
  <2>1. ASSUME NEW j \in Jobs, SubmitStep(j) PROVE TypeOK'
    BY <2>1, SubmissionTypes, ClaimantTypes DEF SubmitStep
  <2>2. ASSUME NEW j \in Jobs, WrapperStep(j) PROVE TypeOK'
    BY <2>2, ClaimantTypes, WrapperTypes DEF WrapperStep
  <2>3. ASSUME NEW j \in Jobs, SettleStep(j) PROVE TypeOK'
    BY <2>3, SettlementTypes
  <2> QED
    BY <1>2, <2>1, <2>2, <2>3, EdgeTypes, ClosureTypes, GroupTypes,
      DispatchTypes, OfferTypes DEF System
<1>3. CASE UNCHANGED vars
  BY <1>3, ClosureTypes
<1> QED
  BY <1>1, <1>2, <1>3 DEF Next

\* Every reachable state has the types the module declares: every queue holds
\* jobs, every status is one a signal may show.
THEOREM TypeCorrect == Spec => []TypeOK
BY TypeInit, TypeStep, PTL DEF Spec

-----------------------------------------------------------------------------
(* Queues that hold each job once *)

\* The queue q holds the members of S, each once.
Lists(q, S) == q \in Seq(Jobs) /\ IsInjective(q) /\ Range(q) = S

LEMMA ListsByPlace ==
  ASSUME NEW q \in Seq(Jobs), NEW S
  PROVE  Lists(q, S) <=>
           /\ \A a, b \in 1 .. Len(q) : q[a] = q[b] => a = b
           /\ \A x : x \in S <=> \E i \in 1 .. Len(q) : q[i] = x
BY LenProperties DEF Lists, IsInjective, Range

LEMMA ListsEmpty == Lists(<< >>, {})
BY EmptySeq, LenProperties DEF Lists, IsInjective, Range

LEMMA ListsConcat ==
  ASSUME NEW q, NEW r, NEW S, NEW T, Lists(q, S), Lists(r, T), S \cap T = {}
  PROVE  Lists(q \o r, S \cup T)
<1> DEFINE n == Len(q)
           m == Len(r)
           s == q \o r
<1>1. q \in Seq(Jobs) /\ r \in Seq(Jobs)
  BY DEF Lists
<1>2. n \in Nat /\ m \in Nat
  BY <1>1, LenProperties
<1>3. /\ s \in Seq(Jobs) /\ Len(s) = n + m
      /\ \A i \in 1 .. n + m : s[i] = IF i <= n THEN q[i] ELSE r[i - n]
  BY <1>1, ConcatProperties
<1>4. /\ \A a, b \in 1 .. n : q[a] = q[b] => a = b
      /\ \A x : x \in S <=> \E i \in 1 .. n : q[i] = x
      /\ \A a, b \in 1 .. m : r[a] = r[b] => a = b
      /\ \A x : x \in T <=> \E i \in 1 .. m : r[i] = x
  BY <1>1, ListsByPlace
<1> HIDE DEF n, m, s
<1>5. ASSUME NEW a \in 1 .. n + m, NEW b \in 1 .. n + m, s[a] = s[b] PROVE a = b
  <2>1. CASE a <= n /\ b <= n
    BY <1>2, <1>3, <1>4, <1>5, <2>1
  <2>2. CASE a > n /\ b > n
    <3>1. a - n \in 1 .. m /\ b - n \in 1 .. m
      BY <1>2, <2>2
    <3> QED
      BY <1>2, <1>3, <1>4, <1>5, <2>2, <3>1
  <2>3. CASE a <= n /\ b > n
    <3>1. a \in 1 .. n /\ b - n \in 1 .. m /\ s[a] = q[a] /\ s[b] = r[b - n]
      BY <1>2, <1>3, <2>3
    <3>2. q[a] \in S /\ r[b - n] \in T
      BY <1>4, <3>1
    <3> QED
      BY <1>5, <3>1, <3>2
  <2>4. CASE a > n /\ b <= n
    <3>1. b \in 1 .. n /\ a - n \in 1 .. m /\ s[b] = q[b] /\ s[a] = r[a - n]
      BY <1>2, <1>3, <2>4
    <3>2. q[b] \in S /\ r[a - n] \in T
      BY <1>4, <3>1
    <3> QED
      BY <1>5, <3>1, <3>2
  <2> QED
    BY <1>2, <2>1, <2>2, <2>3, <2>4
<1>6. ASSUME NEW x PROVE x \in S \cup T <=> \E i \in 1 .. n + m : s[i] = x
  <2>1. ASSUME NEW i \in 1 .. n + m PROVE s[i] \in S \cup T
    <3>1. CASE i <= n
      BY <1>2, <1>3, <1>4, <3>1
    <3>2. CASE i > n
      <4>1. i - n \in 1 .. m
        BY <1>2, <3>2
      <4> QED
        BY <1>2, <1>3, <1>4, <3>2, <4>1
    <3> QED
      BY <1>2, <3>1, <3>2
  <2>2. ASSUME NEW i \in 1 .. n PROVE i \in 1 .. n + m /\ s[i] = q[i]
    BY <1>2, <1>3
  <2>3. ASSUME NEW i \in 1 .. m PROVE n + i \in 1 .. n + m /\ s[n + i] = r[i]
    BY <1>2, <1>3
  <2> QED
    BY <1>4, <2>1, <2>2, <2>3
<1>7. Lists(s, S \cup T)
  <2>1. \A a, b \in 1 .. Len(s) : s[a] = s[b] => a = b
    BY <1>3, <1>5
  <2>2. \A x : x \in S \cup T <=> \E i \in 1 .. Len(s) : s[i] = x
    BY <1>3, <1>6
  <2> QED
    BY <1>3, <2>1, <2>2, ListsByPlace
<1> QED
  BY <1>7 DEF s

\* A queue is cut into a prefix and the rest.
LEMMA ListsSplit ==
  ASSUME NEW q, NEW S, Lists(q, S), NEW n \in 0 .. Len(q)
  PROVE  LET p == SubSeq(q, 1, n)
             r == SubSeq(q, n + 1, Len(q))
         IN  Lists(p, Range(p)) /\ Lists(r, S \ Range(p)) /\ Range(p) \subseteq S
<1> DEFINE m == Len(q)
           p == SubSeq(q, 1, n)
           r == SubSeq(q, n + 1, m)
<1>1. q \in Seq(Jobs) /\ m \in Nat /\ n \in 0 .. m /\ \A i \in 1 .. m : q[i] \in Jobs
  BY LenProperties, ElementOfSeq DEF Lists
<1>2. /\ \A a, b \in 1 .. m : q[a] = q[b] => a = b
      /\ \A x : x \in S <=> \E i \in 1 .. m : q[i] = x
  BY <1>1, ListsByPlace
<1> HIDE DEF m
<1>3. p \in Seq(Jobs) /\ Len(p) = n /\ \A i \in 1 .. n : p[i] = q[i]
  <2>1. \A i \in 1 .. n : q[i] \in Jobs
    BY <1>1
  <2> QED
    BY <1>1, <2>1, SubSeqProperties
<1>4. r \in Seq(Jobs) /\ Len(r) = m - n /\ \A i \in 1 .. m - n : r[i] = q[n + i]
  <2>1. \A i \in n + 1 .. m : q[i] \in Jobs
    BY <1>1
  <2>2. /\ r \in Seq(Jobs)
        /\ Len(r) = IF n + 1 <= m THEN m - (n + 1) + 1 ELSE 0
        /\ \A i \in 1 .. m - (n + 1) + 1 : r[i] = q[n + 1 + i - 1]
    BY <1>1, <2>1, SubSeqProperties
  <2> QED
    BY <1>1, <2>2
<1> HIDE DEF p, r
<1>5. \A x : x \in Range(p) <=> \E i \in 1 .. n : q[i] = x
  BY <1>3, LenProperties DEF Range
<1>6. Lists(p, Range(p))
  <2>1. \A a, b \in 1 .. n : p[a] = p[b] => a = b
    BY <1>1, <1>2, <1>3
  <2>2. \A x : x \in Range(p) <=> \E i \in 1 .. n : p[i] = x
    BY <1>3, <1>5
  <2> QED
    BY <1>3, <2>1, <2>2, ListsByPlace
<1>7. Lists(r, S \ Range(p))
  <2>1. \A a, b \in 1 .. m - n : r[a] = r[b] => a = b
    <3> SUFFICES ASSUME NEW a \in 1 .. m - n, NEW b \in 1 .. m - n, r[a] = r[b] PROVE a = b
      OBVIOUS
    <3>1. n + a \in 1 .. m /\ n + b \in 1 .. m /\ q[n + a] = q[n + b]
      BY <1>1, <1>4
    <3> QED
      BY <1>1, <1>2, <3>1
  <2>2. ASSUME NEW x PROVE x \in S \ Range(p) <=> \E i \in 1 .. m - n : r[i] = x
    <3>1. ASSUME NEW i \in 1 .. m - n, r[i] = x PROVE x \in S /\ x \notin Range(p)
      <4>1. n + i \in 1 .. m /\ q[n + i] = x
        BY <1>1, <1>4, <3>1
      <4>2. \A k \in 1 .. n : q[k] # x
        <5> SUFFICES ASSUME NEW k \in 1 .. n, q[k] = x PROVE FALSE
          OBVIOUS
        <5>1. k \in 1 .. m
          BY <1>1
        <5>2. k = n + i
          BY <1>2, <4>1, <5>1
        <5> QED
          BY <1>1, <5>2
      <4> QED
        BY <1>2, <1>5, <4>1, <4>2
    <3>2. ASSUME x \in S, x \notin Range(p) PROVE \E i \in 1 .. m - n : r[i] = x
      <4>1. PICK k \in 1 .. m : q[k] = x
        BY <1>2, <3>2
      <4>2. k > n
        BY <1>1, <1>5, <3>2, <4>1
      <4>3. k - n \in 1 .. m - n /\ n + (k - n) = k
        BY <1>1, <4>2
      <4> QED
        BY <1>4, <4>1, <4>3
    <3> QED
      BY <3>1, <3>2
  <2>3. \A x : x \in S \ Range(p) <=> \E i \in 1 .. m - n : r[i] = x
    BY <2>2
  <2>4. /\ \A a, b \in 1 .. Len(r) : r[a] = r[b] => a = b
        /\ \A x : x \in S \ Range(p) <=> \E i \in 1 .. Len(r) : r[i] = x
    BY <1>4, <2>1, <2>3
  <2> QED
    BY <1>4, <2>4, ListsByPlace
<1>8. Range(p) \subseteq S
  BY <1>1, <1>2, <1>5
<1> QED
  BY <1>6, <1>7, <1>8 DEF p, r, m

LEMMA ListsDequeue ==
  ASSUME NEW q, NEW S, Lists(q, S), NEW j
  PROVE  Lists(Dequeue(q, j), S \ {j})
<1>1. q \in Seq(Jobs) /\ Len(q) \in Nat /\ DOMAIN q = 1 .. Len(q)
  BY LenProperties DEF Lists
<1>2. CASE \A i \in DOMAIN q : q[i] # j
  <2>1. j \notin S /\ Dequeue(q, j) = q
    BY <1>2 DEF Lists, Range, Dequeue
  <2>2. S \ {j} = S
    BY <2>1
  <2> QED
    BY <2>1, <2>2
<1>3. CASE \E i \in DOMAIN q : q[i] = j
  <2> DEFINE i == CHOOSE k \in DOMAIN q : q[k] = j
             p == SubSeq(q, 1, i - 1)
             r == SubSeq(q, i + 1, Len(q))
             t == SubSeq(q, 1, i)
  <2>1. i \in 1 .. Len(q) /\ q[i] = j
    BY <1>1, <1>3
  <2>2. Dequeue(q, j) = p \o r
    BY <1>3 DEF Dequeue, RemoveAt
  <2> HIDE DEF i
  <2>3. i \in 0 .. Len(q) /\ i - 1 \in 0 .. Len(q) /\ i - 1 \in Int /\ i \in Int
    BY <1>1, <2>1
  <2>4. Lists(p, Range(p)) /\ Range(p) \subseteq S
    BY <2>3, ListsSplit
  <2>5. Lists(r, S \ Range(t))
    BY <2>3, ListsSplit
  <2>6. Range(t) = Range(p) \cup {j} /\ j \notin Range(p)
    <3>1. \A k \in 1 .. Len(q) : q[k] \in Jobs
      BY <1>1, ElementOfSeq
    <3>2. (\A k \in 1 .. i : q[k] \in Jobs) /\ \A k \in 1 .. i - 1 : q[k] \in Jobs
      BY <1>1, <2>3, <3>1
    <3>3. t \in Seq(Jobs) /\ Len(t) = i /\ \A k \in 1 .. i : t[k] = q[k]
      <4>1. /\ t \in Seq(Jobs) /\ Len(t) = IF 1 <= i THEN i - 1 + 1 ELSE 0
            /\ \A k \in 1 .. i - 1 + 1 : t[k] = q[1 + k - 1]
        BY <2>3, <3>2, SubSeqProperties
      <4> QED
        BY <1>1, <2>1, <4>1
    <3>4. p \in Seq(Jobs) /\ Len(p) = i - 1 /\ \A k \in 1 .. i - 1 : p[k] = q[k]
      <4>1. /\ p \in Seq(Jobs) /\ Len(p) = IF 1 <= i - 1 THEN i - 1 - 1 + 1 ELSE 0
            /\ \A k \in 1 .. i - 1 - 1 + 1 : p[k] = q[1 + k - 1]
        BY <2>3, <3>2, SubSeqProperties
      <4> QED
        BY <1>1, <2>1, <4>1
    <3>5. \A x : x \in Range(t) <=> \E k \in 1 .. i : q[k] = x
      BY <3>3, LenProperties DEF Range
    <3>6. \A x : x \in Range(p) <=> \E k \in 1 .. i - 1 : q[k] = x
      BY <3>4, LenProperties DEF Range
    <3>7. \A a, b \in 1 .. Len(q) : q[a] = q[b] => a = b
      BY <1>1, ListsByPlace
    <3>8. j \notin Range(p)
      <4> SUFFICES ASSUME NEW k \in 1 .. i - 1, q[k] = j PROVE FALSE
        BY <3>6
      <4>1. k \in 1 .. Len(q) /\ k # i
        BY <1>1, <2>1
      <4> QED
        BY <2>1, <3>7, <4>1
    <3>9. \A k : k \in 1 .. i <=> k \in 1 .. i - 1 \/ k = i
      BY <1>1, <2>1
    <3> QED
      BY <2>1, <3>5, <3>6, <3>8, <3>9
  <2> HIDE DEF p, r, t
  <2>7. Lists(p \o r, Range(p) \cup (S \ Range(t)))
    BY <2>4, <2>5, <2>6, ListsConcat
  <2>8. Range(p) \cup (S \ Range(t)) = S \ {j}
    BY <2>4, <2>6
  <2> QED
    BY <2>2, <2>7, <2>8
<1> QED
  BY <1>2, <1>3

LEMMA ListsAppend ==
  ASSUME NEW q, NEW S, Lists(q, S), NEW j \in Jobs, j \notin S
  PROVE  Lists(Append(q, j), S \cup {j})
<1> DEFINE a == Append(q, j)
           n == Len(q)
<1>1. q \in Seq(Jobs) /\ n \in Nat
  BY LenProperties DEF Lists
<1>2. a \in Seq(Jobs) /\ Len(a) = n + 1 /\ (\A i \in 1 .. n : a[i] = q[i]) /\ a[n + 1] = j
  BY <1>1, AppendProperties
<1>3. /\ \A x, y \in 1 .. n : q[x] = q[y] => x = y
      /\ \A x : x \in S <=> \E i \in 1 .. n : q[i] = x
  BY <1>1, ListsByPlace
<1> HIDE DEF a, n
<1>4. \A i : i \in 1 .. n + 1 <=> i \in 1 .. n \/ i = n + 1
  BY <1>1
<1>5. \A i \in 1 .. n : q[i] # j
  BY <1>3
<1>6. \A x, y \in 1 .. n + 1 : a[x] = a[y] => x = y
  BY <1>2, <1>3, <1>4, <1>5
<1>7. \A x : x \in S \cup {j} <=> \E i \in 1 .. n + 1 : a[i] = x
  BY <1>2, <1>3, <1>4
<1>8. Lists(a, S \cup {j})
  BY <1>2, <1>6, <1>7, ListsByPlace
<1> QED
  BY <1>8 DEF a

-----------------------------------------------------------------------------
(* Record, queue and ready list *)

\* The jobs of class c whose stage in st is x.
At(c, st, x) == {j \in Jobs : ClassOf[j] = c /\ st[j] = x}

\* The queues of a class hold its jobs by their stages.
Holds(c, q, st) ==
  Lists(q.ready, At(c, st, "Ready")) /\ Lists(q.deferred, At(c, st, "DeferredReady"))

\* The jobs the ready index lists, by their stages.
Listed(st) == {j \in Helpable : st[j] \in {"Ready", "Handed"}}

\* Where a record says its job is, there the queues and the index have it.
Places == index = Listed(stage) /\ \A c \in Classes : Holds(c, class[c], stage)

\* The stages of a job between its last prerequisite and its claim.
Pooled == {"DeferredReady", "Ready", "Handed"}

\* Jobs may change between the two queues and the backend.
Requeued(st, nt) ==
  \A j \in Jobs : nt[j] = st[j] \/ {st[j], nt[j]} \subseteq Pooled

LEMMA PromoteHolds ==
  ASSUME NEW c \in Classes, NEW q \in ClassState, NEW st \in [Jobs -> Stages], Holds(c, q, st)
  PROVE  LET p == Promote(c, q, st, Listed(st))
         IN  /\ Holds(c, p.queue, p.stage) /\ p.index = Listed(p.stage)
             /\ Requeued(st, p.stage)
             /\ \A j \in Jobs : ClassOf[j] # c => p.stage[j] = st[j]
<1> DEFINE pool == Reopened(q)
           f == Fitting(c, pool)
           rest == SubSeq(pool.deferred, f + 1, Len(pool.deferred))
           window == Range(q.ready) \ Range(pool.ready)
           entered == Range(Promoted(c, pool))
           R == At(c, st, "Ready")
           D == At(c, st, "DeferredReady")
           p == Promote(c, q, st, Listed(st))
<1>1. /\ pool \in ClassState /\ Lists(pool.ready, R \ window)
      /\ Lists(pool.deferred, D \cup window) /\ window \subseteq R
  <2>0. Lists(q.ready, R) /\ Lists(q.deferred, D) /\ R \cap D = {} /\ Range(q.ready) = R
    BY DEF Holds, At, Lists
  <2>1. CASE q.rebalance /\ q.deferred # << >>
    <3>1. pool.ready = << >> /\ pool.deferred = q.ready \o q.deferred
      BY <2>1 DEF Reopened, ClassState
    <3>2. Range(<< >>) = {}
      BY ListsEmpty DEF Lists
    <3>3. window = R
      BY <2>0, <3>1, <3>2
    <3>4. Lists(q.ready \o q.deferred, R \cup D)
      BY <2>0, ListsConcat
    <3>5. R \ window = {} /\ R \cup D = D \cup window
      BY <3>3
    <3> QED
      BY <3>1, <3>3, <3>4, <3>5, ListsEmpty, ReopenedType
  <2>2. CASE ~(q.rebalance /\ q.deferred # << >>)
    <3>1. pool = q
      BY <2>2 DEF Reopened
    <3>2. window = {}
      BY <3>1
    <3>3. R \ window = R /\ D \cup window = D
      BY <3>2
    <3> QED
      BY <2>0, <3>1, <3>2, <3>3
  <2> QED
    BY <2>1, <2>2
<1>2. f \in 0 .. Len(pool.deferred)
  BY <1>1, FittingBound
<1> HIDE DEF f, window
<1>3. LET t == SubSeq(pool.deferred, 1, f)
      IN  Lists(t, Range(t)) /\ Lists(rest, (D \cup window) \ Range(t))
            /\ Range(t) \subseteq D \cup window
  <2> DEFINE d == pool.deferred
             S == D \cup window
  <2>1. Lists(d, S) /\ f \in 0 .. Len(d)
    BY <1>1, <1>2
  <2> HIDE DEF d, S
  <2> QED
    BY <2>1, ListsSplit DEF d, S
<1>4. /\ Lists(Promoted(c, pool), entered) /\ Lists(rest, (D \cup window) \ entered)
      /\ entered \subseteq D \cup window
  <2>1. Promoted(c, pool) = SubSeq(pool.deferred, 1, f)
    BY DEF Promoted, f
  <2> HIDE DEF pool
  <2> QED
    BY <1>3, <2>1
<1>5. /\ p.queue.ready = pool.ready \o Promoted(c, pool) /\ p.queue.deferred = rest
      /\ p.index = (Listed(st) \ window) \cup (entered \cap Helpable)
      /\ p.stage = [j \in Jobs |-> IF j \in entered THEN "Ready"
                                   ELSE IF j \in window THEN "DeferredReady" ELSE st[j]]
  <2>1. p.queue = Promotion(c, pool)
    BY DEF Promote
  <2>2. p.queue.ready = pool.ready \o Promoted(c, pool) /\ p.queue.deferred = rest
    <3> HIDE DEF pool
    <3> QED
      BY <1>1, <2>1 DEF Promotion, ClassState, f
  <2> QED
    BY <2>2 DEF Promote, window
<1> HIDE DEF pool, rest, entered, p
<1>6. /\ window \subseteq Jobs /\ entered \subseteq Jobs /\ (R \ window) \cap entered = {}
      /\ \A j \in window : ClassOf[j] = c /\ st[j] = "Ready"
      /\ \A j \in entered : ClassOf[j] = c /\ st[j] \in {"Ready", "DeferredReady"}
  BY <1>1, <1>4 DEF At
<1>7. Lists(p.queue.ready, (R \ window) \cup entered)
  BY <1>1, <1>4, <1>5, <1>6, ListsConcat
<1>8. (R \ window) \cup entered = At(c, p.stage, "Ready")
  BY <1>5, <1>6 DEF At
<1>9. (D \cup window) \ entered = At(c, p.stage, "DeferredReady")
  BY <1>5, <1>6 DEF At
<1>10. Holds(c, p.queue, p.stage)
  BY <1>4, <1>5, <1>7, <1>8, <1>9 DEF Holds
<1>11. p.index = Listed(p.stage)
  BY <1>5, <1>6 DEF Listed, Helpable
<1>12. Requeued(st, p.stage) /\ \A j \in Jobs : ClassOf[j] # c => p.stage[j] = st[j]
  BY <1>5, <1>6 DEF Requeued, Pooled
<1> QED
  BY <1>10, <1>11, <1>12 DEF p

\* A class section that installs what promote_locked made of it.
LEMMA InstallPlaces ==
  ASSUME TypeOK, NEW c \in Classes, NEW q \in ClassState, NEW st \in [Jobs -> Stages],
         Holds(c, q, st), \A d \in Classes \ {c} : Holds(d, class[d], st),
         Install(c, Promote(c, q, st, Listed(st)))
  PROVE  Places' /\ Requeued(st, stage')
<1> DEFINE p == Promote(c, q, st, Listed(st))
<1>1. /\ Holds(c, p.queue, p.stage) /\ p.index = Listed(p.stage) /\ Requeued(st, p.stage)
      /\ \A j \in Jobs : ClassOf[j] # c => p.stage[j] = st[j]
  BY PromoteHolds
<1>2. class' = [class EXCEPT ![c] = p.queue] /\ stage' = p.stage /\ index' = p.index
  BY DEF Install
<1> HIDE DEF p
<1>3. ASSUME NEW d \in Classes PROVE Holds(d, class'[d], stage')
  <2>1. CASE d = c
    BY <1>1, <1>2, <2>1 DEF TypeOK
  <2>2. CASE d # c
    <3>1. At(d, stage', "Ready") = At(d, st, "Ready")
            /\ At(d, stage', "DeferredReady") = At(d, st, "DeferredReady")
      BY <1>1, <1>2, <2>2 DEF At
    <3>2. class'[d] = class[d]
      BY <1>2, <2>2 DEF TypeOK
    <3> QED
      BY <2>2, <3>1, <3>2 DEF Holds
  <2> QED
    BY <2>1, <2>2
<1> QED
  BY <1>1, <1>2, <1>3 DEF Places

\* A job that leaves the queues: what the other places look like.
LEMMA TakenOut ==
  ASSUME TypeOK, Places, NEW j \in Jobs, NEW x \in Stages \ Pooled
  PROVE  LET c == ClassOf[j]
             st == [stage EXCEPT ![j] = x]
         IN  /\ st \in [Jobs -> Stages] /\ index \ {j} = Listed(st)
             /\ \A d \in Classes \ {c} : Holds(d, class[d], st)
             /\ Lists(Dequeue(class[c].ready, j), At(c, st, "Ready"))
             /\ Lists(Dequeue(class[c].deferred, j), At(c, st, "DeferredReady"))
             /\ stage[j] # "DeferredReady" =>
                  Lists(class[c].deferred, At(c, st, "DeferredReady"))
             /\ stage[j] \notin {"Ready", "DeferredReady"} => Holds(c, class[c], st)
<1> DEFINE c == ClassOf[j]
           st == [stage EXCEPT ![j] = x]
<1>0. c \in Classes /\ Lists(class[c].ready, At(c, stage, "Ready"))
        /\ Lists(class[c].deferred, At(c, stage, "DeferredReady"))
  BY SchedulerAssumption DEF Places, Holds
<1>1. st \in [Jobs -> Stages] /\ st[j] = x /\ \A k \in Jobs \ {j} : st[k] = stage[k]
  BY DEF TypeOK
<1> HIDE DEF st
<1>2. index \ {j} = Listed(st)
  BY <1>1 DEF Places, Listed, Helpable, Pooled
<1>3. ASSUME NEW d \in Classes \ {c} PROVE Holds(d, class[d], st)
  <2>1. At(d, st, "Ready") = At(d, stage, "Ready")
          /\ At(d, st, "DeferredReady") = At(d, stage, "DeferredReady")
    BY <1>1 DEF At
  <2> QED
    BY <2>1 DEF Places, Holds
<1>4. /\ At(c, st, "Ready") = At(c, stage, "Ready") \ {j}
      /\ At(c, st, "DeferredReady") = At(c, stage, "DeferredReady") \ {j}
      /\ stage[j] # "DeferredReady" => At(c, st, "DeferredReady") = At(c, stage, "DeferredReady")
      /\ stage[j] # "Ready" => At(c, st, "Ready") = At(c, stage, "Ready")
  BY <1>1 DEF At, Pooled
<1>5. /\ Lists(Dequeue(class[c].ready, j), At(c, stage, "Ready") \ {j})
      /\ Lists(Dequeue(class[c].deferred, j), At(c, stage, "DeferredReady") \ {j})
  BY <1>0, ListsDequeue
<1> QED
  BY <1>0, <1>1, <1>2, <1>3, <1>4, <1>5 DEF st, Holds

LEMMA ClaimPlaces ==
  ASSUME TypeOK, Places, NEW who, NEW j \in Jobs, Claim(who, j)
  PROVE  /\ Places' /\ ~abandoned /\ stage[j] \in {"Ready", "Handed"}
         /\ Requeued([stage EXCEPT ![j] = "Running"], stage')
         /\ stage' \in [Jobs -> Stages]
<1> DEFINE c == ClassOf[j]
           r == Dequeue(class[c].ready, j)
           n == class[c].runnable - 1
           q == [class[c] EXCEPT !.ready = r, !.runnable = n]
           st == [stage EXCEPT ![j] = "Running"]
<1>1. c \in Classes /\ class[c] \in ClassState
  BY SchedulerAssumption DEF TypeOK
<1>2. ~abandoned /\ stage[j] \in {"Ready", "Handed"}
  BY DEF Claim, Claimable
<1>3. "Running" \in Stages \ Pooled
  BY DEF Stages, Pooled
<1>4. /\ st \in [Jobs -> Stages] /\ index \ {j} = Listed(st)
      /\ \A d \in Classes \ {c} : Holds(d, class[d], st)
      /\ Lists(r, At(c, st, "Ready"))
      /\ Lists(class[c].deferred, At(c, st, "DeferredReady"))
  BY <1>2, <1>3, TakenOut
<1>5. Install(c, Promote(c, q, st, Listed(st)))
  <2>1. Install(c, Promote(c, q, st, index \ {j}))
    BY DEF Claim
  <2> HIDE DEF c, q, st
  <2> QED
    BY <1>4, <2>1
<1>6. q \in ClassState /\ q.ready = r /\ q.deferred = class[c].deferred
  <2>1. r \in Seq(Jobs) /\ n \in Int
    BY <1>1, <1>4, Fields DEF Lists
  <2> HIDE DEF r, n, c
  <2> QED
    BY <1>1, <2>1 DEF ClassState
<1> HIDE DEF q, r
<1>7. Holds(c, q, st)
  BY <1>4, <1>6 DEF Holds
<1>8. Places' /\ Requeued(st, stage')
  <2> HIDE DEF c, st
  <2> QED
    BY <1>1, <1>4, <1>5, <1>6, <1>7, InstallPlaces
<1>9. stage' \in [Jobs -> Stages]
  BY <1>4, <1>5, <1>6, <1>1, PromoteType DEF Install, Listed, Helpable
<1> QED
  BY <1>2, <1>8, <1>9 DEF st

LEMMA SuppressPlaces ==
  ASSUME TypeOK, Places, NEW j \in Jobs, NEW s, Suppress(j, s)
  PROVE  /\ Places' /\ stage' \in [Jobs -> Stages]
         /\ \/ UNCHANGED <<stage, finishVars>>
            \/ /\ stage[j] \in {"Waiting", "DeferredReady", "Ready", "Handed"}
               /\ Requeued([stage EXCEPT ![j] = "Finalizing"], stage')
               /\ outcome' = [outcome EXCEPT ![j] = IF abandoned THEN "Abandoned" ELSE s]
               /\ exec' = [exec EXCEPT ![j] = "finish"]
<1> DEFINE c == ClassOf[j]
           r == Dequeue(class[c].ready, j)
           d == Dequeue(class[c].deferred, j)
           q == [class[c] EXCEPT !.ready = r, !.deferred = d]
           n == q.runnable - 1
           p == [q EXCEPT !.runnable = n]
           st == [stage EXCEPT ![j] = "Finalizing"]
<1>1. c \in Classes /\ class[c] \in ClassState
  BY SchedulerAssumption DEF TypeOK
<1>2. "Finalizing" \in Stages \ Pooled
  BY DEF Stages, Pooled
<1>3. /\ st \in [Jobs -> Stages] /\ index \ {j} = Listed(st)
      /\ \A k \in Classes \ {c} : Holds(k, class[k], st)
      /\ Lists(r, At(c, st, "Ready")) /\ Lists(d, At(c, st, "DeferredReady"))
  BY <1>2, TakenOut
<1>4. q \in ClassState /\ q.ready = r /\ q.deferred = d
  <2>1. r \in Seq(Jobs) /\ d \in Seq(Jobs)
    BY <1>3 DEF Lists
  <2> HIDE DEF r, d, c
  <2> QED
    BY <1>1, <2>1 DEF ClassState
<1>5. p \in ClassState /\ p.ready = r /\ p.deferred = d
  <2> HIDE DEF q, r, d
  <2>1. n \in Int
    BY <1>4, Fields
  <2> HIDE DEF n
  <2> QED
    BY <1>4, <2>1 DEF ClassState
<1>6. CASE UNCHANGED <<queueVars, finishVars>>
  BY <1>6 DEF Places, queueVars, finishVars, TypeOK
<1>7. CASE /\ stage[j] \in {"Waiting", "DeferredReady", "Ready", "Handed"}
           /\ outcome' = [outcome EXCEPT ![j] = IF abandoned THEN "Abandoned" ELSE s]
           /\ exec' = [exec EXCEPT ![j] = "finish"]
           /\ \/ Install(c, Promote(c, p, st, index \ {j}))
              \/ /\ class' = [class EXCEPT ![c] = q]
                 /\ stage' = st
                 /\ index' = index \ {j}
  <2> HIDE DEF p, q, c, r, d
  <2>1. Holds(c, p, st) /\ Holds(c, q, st)
    BY <1>3, <1>4, <1>5 DEF Holds
  <2>2. CASE Install(c, Promote(c, p, st, index \ {j}))
    <3>1. Install(c, Promote(c, p, st, Listed(st)))
      BY <1>3, <2>2
    <3> HIDE DEF st
    <3>2. Places' /\ Requeued(st, stage')
      BY <1>1, <1>3, <1>5, <2>1, <3>1, InstallPlaces
    <3>3. stage' \in [Jobs -> Stages]
      BY <1>1, <1>3, <1>5, <3>1, PromoteType DEF Install, Listed, Helpable
    <3> QED
      BY <1>7, <3>2, <3>3 DEF st
  <2>3. CASE class' = [class EXCEPT ![c] = q] /\ stage' = st /\ index' = index \ {j}
    <3>1. ASSUME NEW k \in Classes PROVE Holds(k, class'[k], stage')
      BY <1>1, <1>3, <2>1, <2>3 DEF TypeOK
    <3>2. Places'
      BY <1>3, <2>3, <3>1 DEF Places
    <3> QED
      BY <1>3, <1>7, <2>3, <3>2 DEF Requeued
  <2> QED
    BY <1>7, <2>2, <2>3
<1> QED
  BY <1>6, <1>7 DEF Suppress

\* A class section that disturbs the jobs of its own class only.
LEMMA OneClass ==
  ASSUME TypeOK, Places, NEW c \in Classes, NEW q, class' = [class EXCEPT ![c] = q],
         Holds(c, q, stage'), \A j \in Jobs : ClassOf[j] # c => stage'[j] = stage[j],
         index' = Listed(stage')
  PROVE  Places'
<1> SUFFICES ASSUME NEW k \in Classes PROVE Holds(k, class'[k], stage')
  BY DEF Places
<1>1. CASE k = c
  BY <1>1 DEF TypeOK
<1>2. CASE k # c
  <2>1. /\ At(k, stage', "Ready") = At(k, stage, "Ready")
        /\ At(k, stage', "DeferredReady") = At(k, stage, "DeferredReady")
    BY <1>2 DEF At
  <2>2. class'[k] = class[k]
    BY <1>2 DEF TypeOK
  <2> QED
    BY <2>1, <2>2 DEF Places, Holds
<1> QED
  BY <1>1, <1>2

LEMMA ActivatePlaces ==
  ASSUME TypeOK, Places, NEW j \in Jobs, NEW inl, ActivateReady(j, inl)
  PROVE  /\ Places'
         /\ \/ UNCHANGED <<stage, suppressing>>
            \/ /\ Activatable(j) /\ Doomed(j) /\ UNCHANGED stage
               /\ suppressing' = suppressing \cup
                    {<<j, IF abandoned THEN "Abandoned" ELSE "PrerequisiteFailed">>}
            \/ /\ Activatable(j) /\ ~Doomed(j) /\ UNCHANGED suppressing
               /\ \E x \in {"Ready", "DeferredReady"} : stage' = [stage EXCEPT ![j] = x]
<1> DEFINE c == ClassOf[j]
           q == class[c]
           r == Append(q.ready, j)
           d == Append(q.deferred, j)
           n == q.runnable + 1
<1>1. c \in Classes /\ q \in ClassState /\ Holds(c, q, stage)
  BY SchedulerAssumption DEF TypeOK, Places
<1>2. CASE UNCHANGED queueVars
  <2>1. Places'
    BY <1>2 DEF Places, queueVars
  <2> QED
    BY <1>2, <2>1 DEF ActivateReady, queueVars
<1>3. CASE /\ Activatable(j) /\ ~Doomed(j) /\ UNCHANGED suppressing
           /\ class' = [class EXCEPT ![c] =
                [q EXCEPT !.ready = r, !.runnable = n, !.rebalance = TRUE]]
           /\ stage' = [stage EXCEPT ![j] = "Ready"]
           /\ index' = index \cup ({j} \cap Helpable)
  <2> DEFINE p == [q EXCEPT !.ready = r, !.runnable = n, !.rebalance = TRUE]
  <2>0. stage[j] = "Waiting" /\ ClassOf[j] = c
    BY <1>3 DEF Activatable
  <2>1. p.ready = r /\ p.deferred = q.deferred
    <3> HIDE DEF q, r, n
    <3> QED
      BY <1>1 DEF ClassState
  <2>2. Lists(r, At(c, stage, "Ready") \cup {j})
    <3>1. j \notin At(c, stage, "Ready")
      BY <2>0 DEF At
    <3> QED
      BY <1>1, <3>1, ListsAppend DEF Holds
  <2> HIDE DEF p, q, r, n, c
  <2>3. /\ At(c, stage', "Ready") = At(c, stage, "Ready") \cup {j}
        /\ At(c, stage', "DeferredReady") = At(c, stage, "DeferredReady")
    BY <1>3, <2>0 DEF At, TypeOK
  <2>4. Holds(c, p, stage')
    BY <1>1, <2>1, <2>2, <2>3 DEF Holds
  <2>5. class' = [class EXCEPT ![c] = p] /\ \A k \in Jobs : ClassOf[k] # c => stage'[k] = stage[k]
    BY <1>3, <2>0 DEF p, TypeOK
  <2>6. index' = Listed(stage')
    BY <1>3 DEF Places, Listed, Helpable, TypeOK
  <2> QED
    BY <1>3, <1>1, <2>4, <2>5, <2>6, OneClass
<1>4. CASE /\ Activatable(j) /\ ~Doomed(j)
           /\ class' = [class EXCEPT ![c] = [q EXCEPT !.deferred = d]]
           /\ stage' = [stage EXCEPT ![j] = "DeferredReady"]
           /\ UNCHANGED <<index, suppressing>>
  <2> DEFINE p == [q EXCEPT !.deferred = d]
  <2>0. stage[j] = "Waiting" /\ ClassOf[j] = c
    BY <1>4 DEF Activatable
  <2>1. p.ready = q.ready /\ p.deferred = d
    <3> HIDE DEF q, d
    <3> QED
      BY <1>1 DEF ClassState
  <2>2. Lists(d, At(c, stage, "DeferredReady") \cup {j})
    <3>1. j \notin At(c, stage, "DeferredReady")
      BY <2>0 DEF At
    <3> QED
      BY <1>1, <3>1, ListsAppend DEF Holds
  <2> HIDE DEF p, q, d, c
  <2>3. /\ At(c, stage', "Ready") = At(c, stage, "Ready")
        /\ At(c, stage', "DeferredReady") = At(c, stage, "DeferredReady") \cup {j}
    BY <1>4, <2>0 DEF At, TypeOK
  <2>4. Holds(c, p, stage')
    BY <1>1, <2>1, <2>2, <2>3 DEF Holds
  <2>5. class' = [class EXCEPT ![c] = p] /\ \A k \in Jobs : ClassOf[k] # c => stage'[k] = stage[k]
    BY <1>4, <2>0 DEF p, TypeOK
  <2>6. index' = Listed(stage')
    BY <1>4, <2>0 DEF Places, Listed, Helpable, TypeOK
  <2> QED
    BY <1>4, <1>1, <2>4, <2>5, <2>6, OneClass
<1> QED
  BY <1>2, <1>3, <1>4 DEF ActivateReady
LEMMA DispatchPlaces ==
  ASSUME TypeOK, Places, NEW c \in Classes, Dispatch(c)
  PROVE  Places' /\ Requeued(stage, stage') /\ stage' \in [Jobs -> Stages]
<1> DEFINE p == Promote(c, class[c], stage, index)
           q == p.queue
           n == Smaller(Smaller(Len(q.ready), Quantum), Room(HandoffLimit[c], q.handed))
           portion == Range(SubSeq(q.ready, 1, n))
           rest == SubSeq(q.ready, n + 1, Len(q.ready))
           h == q.handed + n
           popped == [q EXCEPT !.ready = rest, !.handed = h]
           handover == [j \in Jobs |-> IF j \in portion THEN "Handed" ELSE p.stage[j]]
           R == At(c, p.stage, "Ready")
<1>1. /\ Holds(c, q, p.stage) /\ p.index = Listed(p.stage) /\ Requeued(stage, p.stage)
      /\ \A j \in Jobs : ClassOf[j] # c => p.stage[j] = stage[j]
      /\ q \in ClassState /\ p.stage \in [Jobs -> Stages]
  <2>1. index = Listed(stage) /\ Listed(stage) \in SUBSET Jobs /\ Holds(c, class[c], stage)
          /\ class[c] \in ClassState /\ stage \in [Jobs -> Stages]
    BY DEF Places, TypeOK, Listed, Helpable
  <2> QED
    BY <2>1, PromoteHolds, PromoteType
<1>2. CASE UNCHANGED queueVars
  BY <1>2 DEF Places, queueVars, Requeued, TypeOK
<1>3. CASE /\ class' = [class EXCEPT ![c] = popped] /\ stage' = handover
           /\ index' = p.index
  <2> HIDE DEF p
  <2>1. n \in 0 .. Len(q.ready) /\ Lists(q.ready, R)
    <3>1. Len(q.ready) \in Nat /\ q.handed \in Int /\ Quantum \in Nat /\ HandoffLimit[c] \in Nat
      BY <1>1, Fields, SchedulerAssumption
    <3> QED
      BY <1>1, <3>1 DEF Smaller, Room, Holds
  <2> HIDE DEF n
  <2>2. Lists(rest, R \ portion) /\ portion \subseteq R
    <3> DEFINE d == q.ready
    <3>1. n \in 0 .. Len(d) /\ Lists(d, R)
      BY <2>1
    <3> HIDE DEF d, R
    <3> QED
      BY <3>1, ListsSplit DEF d
  <2>3. popped.ready = rest /\ popped.deferred = q.deferred
    <3> HIDE DEF q, rest, h
    <3> QED
      BY <1>1 DEF ClassState
  <2> HIDE DEF popped, rest, portion, q
  <2>4. /\ At(c, stage', "Ready") = R \ portion
        /\ At(c, stage', "DeferredReady") = At(c, p.stage, "DeferredReady")
    BY <1>3, <2>2 DEF At
  <2>5. Holds(c, popped, stage')
    BY <1>1, <2>2, <2>3, <2>4 DEF Holds
  <2>6. /\ \A j \in Jobs : ClassOf[j] # c => stage'[j] = stage[j]
        /\ index' = Listed(stage') /\ Requeued(stage, stage')
    <3>1. \A j \in portion : j \in Jobs /\ ClassOf[j] = c /\ p.stage[j] = "Ready"
      BY <2>2 DEF At
    <3> QED
      BY <1>1, <1>3, <3>1 DEF Listed, Helpable, Requeued, Pooled
  <2>7. stage' \in [Jobs -> Stages]
    BY <1>1, <1>3 DEF Stages
  <2> QED
    BY <1>3, <2>5, <2>6, <2>7, OneClass
<1> QED
  BY <1>2, <1>3 DEF Dispatch, Install

-----------------------------------------------------------------------------
(* The life of a job *)

\* Stages of a record that nobody has claimed.
Accepted == {"Waiting", "DeferredReady", "Ready", "Handed"}

\* A settlement that has stored the job's signal.
Published == {"finalize", "leave", "groupPublish", "done"}

\* A submission past the acceptance of its record.
Returning == {"attaching", "activating", "claiming", "returned"}

\* Submission, record, settlement and signal of a job are in step.
Life(j) ==
  /\ stage[j] \in {"absent"} \cup Accepted <=> exec[j] = "none"
  /\ stage[j] = "Running" <=> exec[j] = "body"
  /\ stage[j] = "Finalizing" <=> exec[j] \in {"finish", "deferred", "finalize"}
  /\ stage[j] # "absent" <=> sub[j] \in Returning
  /\ exec[j] \in Published => ~Attaching(j)
  /\ exec[j] = "deferred" => Attaching(j)
  /\ outcome[j] # None <=> exec[j] \notin {"none", "body"}
  /\ status[j] # None <=> exec[j] \in Published
  /\ status[j] # None => status[j] = outcome[j]

Lives == \A j \in Jobs : Life(j)

\* What every later part stands on.
Footing == TypeOK /\ Places /\ Lives

LEMMA StageKept ==
  ASSUME Lives, Requeued(stage, stage'), UNCHANGED <<sub, exec, outcome, status>>
  PROVE  Lives'
BY DEF Lives, Life, Requeued, Pooled, Accepted, Attaching

LEMMA OthersLive ==
  ASSUME Lives, NEW j \in Jobs, NEW k \in Jobs \ {j}, NEW st,
         st[k] = stage[k], Requeued(st, stage'), sub'[k] = sub[k], exec'[k] = exec[k],
         outcome'[k] = outcome[k], status'[k] = status[k]
  PROVE  Life(k)'
BY DEF Lives, Life, Requeued, Pooled, Accepted, Attaching

LEMMA Untouched == Requeued(stage, stage)
BY DEF Requeued

\* A claim starts an accepted job.
LEMMA ClaimLives ==
  ASSUME Footing, NEW who, NEW j \in Jobs, Claim(who, j), UNCHANGED status,
         \/ UNCHANGED sub
         \/ sub[j] = "claiming" /\ sub' = [sub EXCEPT ![j] = "returned"]
  PROVE  Lives'
<1> DEFINE st == [stage EXCEPT ![j] = "Running"]
<1>1. /\ stage[j] \in {"Ready", "Handed"} /\ Requeued(st, stage')
      /\ exec' = [exec EXCEPT ![j] = "body"] /\ outcome' = outcome
  BY ClaimPlaces DEF Claim, Footing
<1>2. stage \in [Jobs -> Stages] /\ DOMAIN exec = Jobs /\ DOMAIN sub = Jobs
  BY DEF Footing, TypeOK
<1>3. st[j] = "Running" /\ \A k \in Jobs \ {j} : st[k] = stage[k]
  BY <1>2
<1> HIDE DEF st
<1>4. stage'[j] = "Running"
  BY <1>1, <1>3 DEF Requeued, Pooled
<1>5. Life(j)'
  BY <1>1, <1>2, <1>4 DEF Footing, Lives, Life, Accepted, Attaching, Published, Returning
<1>6. ASSUME NEW k \in Jobs \ {j} PROVE Life(k)'
  BY <1>1, <1>2, <1>3, OthersLive DEF Footing
<1> QED
  BY <1>5, <1>6 DEF Lives

LEMMA SuppressLives ==
  ASSUME Footing, NEW j \in Jobs, NEW s \in Status, Suppress(j, s), UNCHANGED <<status, sub>>
  PROVE  Lives'
<1> DEFINE st == [stage EXCEPT ![j] = "Finalizing"]
<1>1. CASE UNCHANGED <<stage, finishVars>>
  BY <1>1, Untouched, StageKept DEF Footing, finishVars
<1>2. CASE /\ stage[j] \in {"Waiting", "DeferredReady", "Ready", "Handed"}
           /\ Requeued(st, stage')
           /\ outcome' = [outcome EXCEPT ![j] = IF abandoned THEN "Abandoned" ELSE s]
           /\ exec' = [exec EXCEPT ![j] = "finish"]
  <2>2. /\ stage \in [Jobs -> Stages] /\ DOMAIN exec = Jobs /\ DOMAIN outcome = Jobs
        /\ s # None /\ None # "Abandoned"
    BY SchedulerAssumption DEF Footing, TypeOK, Status
  <2>3. st[j] = "Finalizing" /\ \A k \in Jobs \ {j} : st[k] = stage[k]
    BY <2>2
  <2> HIDE DEF st
  <2>4. stage'[j] = "Finalizing" /\ outcome'[j] # None /\ exec'[j] = "finish"
    BY <1>2, <2>2, <2>3 DEF Requeued, Pooled
  <2>5. Life(j)'
    BY <1>2, <2>4 DEF Footing, Lives, Life, Accepted, Attaching, Published, Returning
  <2>6. ASSUME NEW k \in Jobs \ {j} PROVE Life(k)'
    BY <1>2, <2>2, <2>3, OthersLive DEF Footing
  <2> QED
    BY <2>5, <2>6 DEF Lives
<1> QED
  BY <1>1, <1>2, SuppressPlaces DEF Footing

LEMMA ActivateLives ==
  ASSUME Footing, NEW j \in Jobs, NEW inl, ActivateReady(j, inl),
         UNCHANGED <<exec, outcome, status>>,
         \/ UNCHANGED sub
         \/ /\ sub[j] = "activating"
            /\ \E x \in {"claiming", "returned"} : sub' = [sub EXCEPT ![j] = x]
  PROVE  Lives'
<1>1. \/ UNCHANGED stage
      \/ /\ stage[j] = "Waiting"
         /\ \E x \in {"Ready", "DeferredReady"} : stage' = [stage EXCEPT ![j] = x]
  BY ActivatePlaces DEF Footing, Activatable
<1>2. stage \in [Jobs -> Stages] /\ DOMAIN sub = Jobs
  BY DEF Footing, TypeOK
<1> QED
  BY <1>1, <1>2 DEF Footing, Lives, Life, Accepted, Attaching, Published, Returning

\* Jobs that change their stage without entering or leaving a queue.
LEMMA OutsidePlaces ==
  ASSUME Places, UNCHANGED index,
         \A c \in Classes : /\ class'[c].ready = class[c].ready
                            /\ class'[c].deferred = class[c].deferred,
         \A j \in Jobs : stage'[j] = stage[j] \/ {stage[j], stage'[j]} \cap Pooled = {}
  PROVE  Places'
<1>1. Listed(stage') = Listed(stage)
  BY DEF Listed, Pooled, Helpable
<1>2. ASSUME NEW c \in Classes PROVE Holds(c, class'[c], stage')
  <2>1. /\ At(c, stage', "Ready") = At(c, stage, "Ready")
        /\ At(c, stage', "DeferredReady") = At(c, stage, "DeferredReady")
    BY DEF At, Pooled
  <2> QED
    BY <2>1 DEF Places, Holds
<1> QED
  BY <1>1, <1>2 DEF Places

LEMMA SubmissionFooting ==
  ASSUME Footing, NEW j \in Jobs,
         Submit(j) \/ ChargeRecord(j) \/ ChargeEdges(j) \/ Accept(j) \/ Unjoin(j) \/ Refuse(j)
           \/ CloseAttachment(j)
  PROVE  Places' /\ Lives'
<1> USE DEF submitVars, chargeVars, recordVars, queueVars, signalVars, finishVars,
  handVars, closeVars
<1>0. Places /\ Lives /\ DOMAIN sub = Jobs /\ stage \in [Jobs -> Stages] /\ DOMAIN exec = Jobs
  BY DEF Footing, TypeOK
<1>1. CASE Submit(j) \/ ChargeRecord(j) \/ ChargeEdges(j) \/ Unjoin(j) \/ Refuse(j)
  <2>1. /\ UNCHANGED <<stage, class, index, exec, outcome, status>>
        /\ sub[j] \notin Returning
        /\ \E x : x \notin Returning /\ sub' = [sub EXCEPT ![j] = x]
    <3>1. CASE Submit(j)
      BY <3>1 DEF Submit, MaySubmit, Returning
    <3>2. CASE ChargeRecord(j)
      BY <3>2 DEF ChargeRecord, Returning
    <3>3. CASE ChargeEdges(j)
      BY <3>3 DEF ChargeEdges, Returning
    <3>4. CASE Unjoin(j)
      BY <3>4 DEF Unjoin, Returning
    <3>5. CASE Refuse(j)
      BY <3>5 DEF Refuse, Returning
    <3> QED
      BY <1>1, <3>1, <3>2, <3>3, <3>4, <3>5
  <2> QED
    BY <1>0, <2>1 DEF Places, Lives, Life, Attaching, Returning
<1>2. CASE Accept(j)
  <2>1. /\ UNCHANGED <<class, index, exec, outcome, status>> /\ stage[j] = "absent"
        /\ \/ sub' = [sub EXCEPT ![j] = "attaching"] /\ stage' = [stage EXCEPT ![j] = "Waiting"]
           \/ /\ stage' = stage
              /\ sub' = [sub EXCEPT ![j] = "unjoining"] \/ sub' = [sub EXCEPT ![j] = "refused"]
    BY <1>0, <1>2 DEF Accept, Lives, Life, Returning
  <2>2. Places'
    BY <1>0, <2>1, OutsidePlaces DEF Pooled
  <2>3. Lives'
    BY <1>0, <2>1 DEF Lives, Life, Attaching, Returning, Accepted, Published
  <2> QED
    BY <2>2, <2>3
<1>3. CASE CloseAttachment(j)
  <2>1. /\ UNCHANGED <<stage, class, index, outcome, status>> /\ sub[j] = "attaching"
        /\ sub' = [sub EXCEPT ![j] = "activating"]
        /\ exec' = IF exec[j] = "deferred" THEN [exec EXCEPT ![j] = "finish"] ELSE exec
    BY <1>3 DEF CloseAttachment, Attaching
  <2> QED
    BY <1>0, <2>1 DEF Places, Lives, Life, Attaching, Returning, Accepted, Published
<1> QED
  BY <1>1, <1>2, <1>3

LEMMA SettlementFooting ==
  ASSUME Footing, NEW j \in Jobs, SettleStep(j)
  PROVE  Places' /\ Lives'
<1> USE DEF submitVars, chargeVars, recordVars, queueVars, signalVars, finishVars,
  handVars, closeVars
<1>0. /\ Places /\ Lives /\ stage \in [Jobs -> Stages] /\ DOMAIN exec = Jobs
      /\ DOMAIN outcome = Jobs /\ DOMAIN status = Signals
  BY DEF Footing, TypeOK
<1>1. ASSUME NEW o \in Outcomes, ReturnBody(j, o) PROVE Places' /\ Lives'
  <2>1. /\ UNCHANGED <<class, index, sub, status>>
        /\ exec[j] = "body" /\ stage[j] = "Running" /\ o # None
        /\ outcome' = [outcome EXCEPT ![j] = o]
        /\ stage' = [stage EXCEPT ![j] = "Finalizing"]
        /\ exec' = [exec EXCEPT ![j] = "finish"]
    BY <1>0, <1>1, SchedulerAssumption DEF ReturnBody, Lives, Life, Status
  <2>2. Places'
    BY <1>0, <2>1, OutsidePlaces DEF Pooled
  <2>3. Lives'
    BY <1>0, <2>1 DEF Lives, Life, Attaching, Returning, Accepted, Published
  <2> QED
    BY <2>2, <2>3
<1>2. CASE DeferFinish(j)
  <2>1. /\ UNCHANGED <<class, index, sub, status, stage, outcome>>
        /\ exec[j] = "finish" /\ Attaching(j) /\ exec' = [exec EXCEPT ![j] = "deferred"]
    BY <1>2 DEF DeferFinish
  <2> QED
    BY <1>0, <2>1 DEF Places, Lives, Life, Attaching, Returning, Accepted, Published
<1>3. CASE Publish(j)
  <2>1. /\ UNCHANGED <<class, index, sub, stage, outcome>>
        /\ exec[j] = "finish" /\ ~Attaching(j) /\ exec' = [exec EXCEPT ![j] = "finalize"]
        /\ status' = [status EXCEPT ![j] = outcome[j]] /\ outcome[j] # None
    BY <1>0, <1>3 DEF Publish, Lives, Life
  <2> QED
    BY <1>0, <2>1 DEF Places, Lives, Life, Attaching, Returning, Accepted, Published, Signals
<1>4. CASE Finalize(j)
  <2>1. /\ UNCHANGED <<class, index, sub, status, outcome>>
        /\ exec[j] = "finalize" /\ stage[j] = "Finalizing"
        /\ stage' = [stage EXCEPT ![j] = "gone"]
        /\ exec' = [exec EXCEPT ![j] = "leave"]
    BY <1>0, <1>4 DEF Finalize, Lives, Life
  <2>2. Places'
    BY <1>0, <2>1, OutsidePlaces DEF Pooled
  <2>3. Lives'
    BY <1>0, <2>1 DEF Lives, Life, Attaching, Returning, Accepted, Published
  <2> QED
    BY <2>2, <2>3
<1>5. CASE Leave(j) \/ LeavePublished(j)
  <2>1. /\ UNCHANGED <<class, index, sub, status, outcome, stage>>
        /\ exec[j] \in {"leave", "groupPublish"}
        /\ \E x \in {"groupPublish", "done"} : exec' = [exec EXCEPT ![j] = x]
    BY <1>5 DEF Leave, LeavePublished, Retire
  <2> QED
    BY <1>0, <2>1 DEF Places, Lives, Life, Attaching, Returning, Accepted, Published
<1> QED
  BY <1>1, <1>2, <1>3, <1>4, <1>5 DEF SettleStep

LEMMA EdgeFooting ==
  ASSUME Footing, NEW e \in Edges, EdgeStep(e)
  PROVE  Places' /\ Lives'
<1> USE DEF submitVars, chargeVars, recordVars, queueVars, signalVars, finishVars,
  handVars, closeVars
<1>0. e[1] \in Jobs /\ Places /\ Lives
  BY DEF Edges, Footing
<1>1. CASE Subscribe(e) \/ DeliverEdge(e) \/ Detach(e)
  <2>1. UNCHANGED <<class, index, sub, status, outcome, stage, exec>>
    BY <1>1 DEF Subscribe, DeliverEdge, Detach
  <2> QED
    BY <1>0, <2>1 DEF Places, Lives, Life, Attaching
<1>2. CASE ActivateEdge(e)
  <2>1. ActivateReady(e[1], FALSE) /\ UNCHANGED <<exec, outcome, status, sub>>
    BY <1>2 DEF ActivateEdge
  <2> QED
    BY <1>0, <2>1, ActivateLives, ActivatePlaces DEF Footing
<1> QED
  BY <1>1, <1>2 DEF EdgeStep

LEMMA ClaimantFooting ==
  ASSUME Footing, NEW j \in Jobs,
         ActivateSubmitted(j) \/ Cancel(j) \/ ClaimInline(j) \/ Help(j)
           \/ EnterWrapper(j)
  PROVE  Places' /\ Lives'
<1> USE DEF submitVars, chargeVars, recordVars, queueVars, signalVars, finishVars,
  handVars, closeVars
<1>1. CASE ActivateSubmitted(j)
  <2>1. /\ ActivateReady(j, j \in inline) /\ UNCHANGED <<exec, outcome, status>>
        /\ sub[j] = "activating"
        /\ \E x \in {"claiming", "returned"} : sub' = [sub EXCEPT ![j] = x]
    BY <1>1 DEF ActivateSubmitted
  <2> QED
    BY <2>1, ActivateLives, ActivatePlaces DEF Footing
<1>2. CASE Cancel(j)
  <2>1. Suppress(j, "Cancelled") /\ "Cancelled" \in Status /\ UNCHANGED <<status, sub>>
    BY <1>2 DEF Cancel, Status
  <2> QED
    BY <2>1, SuppressLives, SuppressPlaces DEF Footing
<1>3. CASE ClaimInline(j)
  <2>1. CASE Claim("caller", j)
    <3>1. sub[j] = "claiming" /\ sub' = [sub EXCEPT ![j] = "returned"] /\ UNCHANGED status
      BY <1>3 DEF ClaimInline
    <3> QED
      BY <2>1, <3>1, ClaimLives, ClaimPlaces DEF Footing
  <2>2. CASE UNCHANGED <<queueVars, finishVars>>
    <3>1. sub[j] = "claiming" /\ sub' = [sub EXCEPT ![j] = "returned"] /\ UNCHANGED status
      BY <1>3 DEF ClaimInline
    <3>2. DOMAIN sub = Jobs
      BY DEF Footing, TypeOK
    <3> QED
      BY <2>2, <3>1, <3>2 DEF Footing, Places, Lives, Life, Attaching, Returning
  <2> QED
    BY <1>3, <2>1, <2>2 DEF ClaimInline
<1>4. CASE Help(j)
  <2>1. Claim("caller", j) /\ UNCHANGED <<status, sub>>
    BY <1>4 DEF Help
  <2> QED
    BY <2>1, ClaimLives, ClaimPlaces DEF Footing
<1>5. CASE EnterWrapper(j)
  <2>1. Claim("worker", j) /\ UNCHANGED <<status, sub>>
    BY <1>5 DEF EnterWrapper
  <2> QED
    BY <2>1, ClaimLives, ClaimPlaces DEF Footing
<1> QED
  BY <1>1, <1>2, <1>3, <1>4, <1>5

\* Returned handoff credits leave the queues alone.
LEMMA CreditFooting ==
  ASSUME Footing, NEW c, NEW n, class' = [class EXCEPT ![c].handed = n],
         UNCHANGED <<stage, index, sub, exec, outcome, status>>
  PROVE  Places' /\ Lives'
<1>1. ASSUME NEW d \in Classes
      PROVE  class'[d].ready = class[d].ready /\ class'[d].deferred = class[d].deferred
  <2>1. class[d] \in ClassState /\ DOMAIN class = Classes
    BY DEF Footing, TypeOK
  <2> QED
    BY <2>1 DEF ClassState
<1> QED
  BY <1>1, OutsidePlaces, StageKept, Untouched DEF Footing

LEMMA RestFooting ==
  ASSUME Footing,
         \/ \E j \in Jobs : LeaveWrapper(j) \/ DiscardWrapper(j)
         \/ \E g \in Groups : Seal(g) \/ PublishGroup(g)
         \/ \E c \in Classes : Dispatch(c)
         \/ \E o \in offers : OfferStep(o)
         \/ \E d \in suppressing : SuppressDecided(d)
         \/ BeginShutdown \/ AbandonRuntime \/ AbandonCut \/ UNCHANGED vars
  PROVE  Places' /\ Lives'
<1> USE DEF submitVars, chargeVars, recordVars, queueVars, signalVars, finishVars,
  handVars, closeVars
<1>1. ASSUME NEW j \in Jobs, LeaveWrapper(j) \/ DiscardWrapper(j) PROVE Places' /\ Lives'
  BY <1>1, CreditFooting DEF LeaveWrapper, DiscardWrapper
<1>2. ASSUME NEW g \in Groups, Seal(g) \/ PublishGroup(g) PROVE Places' /\ Lives'
  <2>1. UNCHANGED <<stage, class, index, sub, exec, outcome>>
    BY <1>2 DEF Seal, PublishGroup
  <2>2. \A j \in Jobs : status'[j] = status[j]
    <3>1. CASE Seal(g)
      BY <3>1 DEF Seal
    <3>2. CASE PublishGroup(g)
      <4>1. g \notin Jobs /\ \E x : status' = [status EXCEPT ![g] = x]
        BY <3>2, SchedulerAssumption DEF PublishGroup
      <4>2. DOMAIN status = Signals
        BY DEF Footing, TypeOK
      <4> QED
        BY <4>1, <4>2 DEF Signals
    <3> QED
      BY <1>2, <3>1, <3>2
  <2> QED
    BY <2>1, <2>2 DEF Footing, Places, Lives, Life, Attaching
<1>3. ASSUME NEW c \in Classes, Dispatch(c) PROVE Places' /\ Lives'
  <2>1. UNCHANGED <<sub, exec, outcome, status>>
    BY <1>3 DEF Dispatch
  <2> QED
    BY <1>3, <2>1, DispatchPlaces, StageKept DEF Footing
<1>4. ASSUME NEW o \in offers, OfferStep(o) PROVE Places' /\ Lives'
  <2>1. CASE PublishOffer(o)
    <3>1. UNCHANGED <<stage, class, index, sub, exec, outcome, status>>
      BY <2>1 DEF PublishOffer
    <3> QED
      BY <3>1 DEF Footing, Places, Lives, Life, Attaching
  <2>2. CASE RefuseOffer(o)
    BY <2>2, CreditFooting DEF RefuseOffer
  <2> QED
    BY <1>4, <2>1, <2>2 DEF OfferStep
<1>5. ASSUME NEW d \in suppressing, SuppressDecided(d) PROVE Places' /\ Lives'
  <2>1. d[1] \in Jobs /\ d[2] \in Status
    BY DEF Footing, TypeOK
  <2>2. Suppress(d[1], d[2]) /\ UNCHANGED <<status, sub>>
    BY <1>5 DEF SuppressDecided
  <2> QED
    BY <2>1, <2>2, SuppressLives, SuppressPlaces DEF Footing
<1>6. CASE BeginShutdown \/ AbandonRuntime \/ AbandonCut \/ UNCHANGED vars
  <2>1. UNCHANGED <<stage, class, index, sub, exec, outcome, status>>
    BY <1>6 DEF BeginShutdown, AbandonRuntime, AbandonCut, vars
  <2> QED
    BY <2>1 DEF Footing, Places, Lives, Life, Attaching
<1> QED
  BY <1>1, <1>2, <1>3, <1>4, <1>5, <1>6

LEMMA FootingInit == Init => Footing
<1> SUFFICES ASSUME Init PROVE Footing
  OBVIOUS
<1>1. \A c \in Classes : class[c].ready = << >> /\ class[c].deferred = << >>
  BY DEF Init
<1>2. \A c \in Classes : At(c, stage, "Ready") = {} /\ At(c, stage, "DeferredReady") = {}
  BY DEF Init, At
<1>3. Places
  BY <1>1, <1>2, ListsEmpty DEF Init, Places, Holds, Listed, Helpable
<1>4. Lives
  BY DEF Init, Lives, Life, Attaching, Accepted, Published, Returning, Signals
<1> QED
  BY <1>3, <1>4, TypeInit DEF Footing

LEMMA FootingStep == Footing /\ [Next]_vars => Footing'
<1> SUFFICES ASSUME Footing, [Next]_vars PROVE Footing'
  OBVIOUS
<1>1. TypeOK'
  BY TypeStep DEF Footing
<1>2. CASE Environment
  BY <1>1, <1>2, SubmissionFooting, ClaimantFooting, RestFooting DEF Environment, Footing
<1>3. CASE System
  <2>1. ASSUME NEW j \in Jobs, SubmitStep(j) PROVE Places' /\ Lives'
    BY <2>1, SubmissionFooting, ClaimantFooting DEF SubmitStep
  <2>2. ASSUME NEW j \in Jobs, WrapperStep(j) PROVE Places' /\ Lives'
    BY <2>2, ClaimantFooting, RestFooting DEF WrapperStep
  <2> QED
    BY <1>1, <1>3, <2>1, <2>2, SettlementFooting, EdgeFooting, RestFooting DEF System, Footing
<1>4. CASE UNCHANGED vars
  BY <1>1, <1>4, RestFooting DEF Footing
<1> QED
  BY <1>2, <1>3, <1>4 DEF Next

-----------------------------------------------------------------------------
(* Prerequisites *)

\* A submission that has attached every registration.
Attached == {"activating", "claiming", "returned"}

\* A record past its prerequisites and before its settlement.
Started == {"DeferredReady", "Ready", "Handed", "Running"}

\* The registrations of j whose delivery has not reached its record.
Unsettled(j) == {e \in EdgesOf(j) : edge[e] \in {"unattached", "stored", "late", "fired"}}

\* A registration, its signal and its job.
Link(e) ==
  /\ edge[e] \in {"late", "fired", "activating", "settled"} => status[e[2]] # None
  /\ stage[e[1]] = "Waiting" /\ edge[e] \in {"activating", "settled"}
       /\ status[e[2]] # "Succeeded" => e[1] \in failed
  /\ stage[e[1]] = "absent" => edge[e] = "unattached"
  /\ edge[e] = "unattached" => sub[e[1]] \notin Attached
  /\ edge[e] = "detached" => stage[e[1]] \in {"Finalizing", "gone"}
  /\ exec[e[1]] \in Published => edge[e] # "stored"

\* What a job still waits for, and why it may fail.
Debt(j) ==
  /\ stage[j] = "Waiting" => pending[j] = Cardinality(Unsettled(j))
  /\ j \in failed => \E s \in Prereqs[j] : status[s] \notin {None, "Succeeded"}

\* The prerequisites of j are settled as its policy wants.
Met(j) ==
  \A s \in Prereqs[j] :
    /\ status[s] # None
    /\ j \in SuccessOnly => status[s] = "Succeeded"

\* Registrations, records and signals agree on what each job waits for.
Links ==
  /\ \A e \in Edges : Link(e)
  /\ \A j \in Jobs : Debt(j)
  /\ \A j \in Jobs : stage[j] \in Started => Met(j)

\* A job goes on without new registrations, charges or callbacks.
Onward(k) ==
  /\ stage'[k] = stage[k] \/ stage'[k] \notin {"absent", "Waiting"}
  /\ stage[k] \in {"Finalizing", "gone"} => stage'[k] \in {"Finalizing", "gone"}
  /\ stage'[k] \in Started => stage[k] \in Started
  /\ exec'[k] \in Published => exec[k] \in Published
  /\ sub'[k] \in Attached => sub[k] \in Attached

LEMMA EdgeEnds ==
  /\ \A e \in Edges : e[1] \in Jobs /\ e[2] \in Prereqs[e[1]] /\ e[2] \in Signals /\ e = <<e[1], e[2]>>
  /\ \A j \in Jobs : \A s \in Prereqs[j] : <<j, s>> \in Edges
BY SchedulerAssumption DEF Edges

LEMMA UnsettledFinite ==
  ASSUME NEW j \in Jobs
  PROVE  IsFiniteSet(Unsettled(j)) /\ IsFiniteSet(EdgesOf(j))
           /\ Cardinality(EdgesOf(j)) = Cardinality(Prereqs[j])
<1> DEFINE f == [s \in Prereqs[j] |-> <<j, s>>]
<1>1. f \in Bijection(Prereqs[j], EdgesOf(j))
  <2>1. \A s \in Prereqs[j] : <<j, s>> \in EdgesOf(j)
    BY EdgeEnds DEF EdgesOf
  <2>2. \A e \in EdgesOf(j) : \E s \in Prereqs[j] : e = <<j, s>>
    BY EdgeEnds DEF EdgesOf
  <2>3. \A s, t \in Prereqs[j] : <<j, s>> = <<j, t>> => s = t
    OBVIOUS
  <2>4. f \in Surjection(Prereqs[j], EdgesOf(j))
    BY <2>1, <2>2 DEF Surjection
  <2>5. f \in Injection(Prereqs[j], EdgesOf(j))
    BY <2>1, <2>3 DEF Injection, IsInjective
  <2> QED
    BY <2>4, <2>5 DEF Bijection
<1>2. IsFiniteSet(Prereqs[j])
  BY SchedulerAssumption
<1>3. IsFiniteSet(EdgesOf(j)) /\ Cardinality(EdgesOf(j)) = Cardinality(Prereqs[j])
  BY <1>1, <1>2, FS_Bijection DEF ExistsBijection
<1> QED
  BY <1>3, FS_Subset DEF Unsettled

LEMMA OnwardLinks ==
  ASSUME Links, UNCHANGED <<edge, pending, failed, status>>, \A k \in Jobs : Onward(k)
  PROVE  Links'
<1>1. ASSUME NEW e \in Edges PROVE Link(e)'
  BY EdgeEnds DEF Links, Link, Onward
<1>2. ASSUME NEW j \in Jobs PROVE Debt(j)'
  <2>1. Unsettled(j)' = Unsettled(j)
    BY DEF Unsettled
  <2> QED
    BY <2>1 DEF Links, Debt, Onward
<1>3. ASSUME NEW j \in Jobs, stage'[j] \in Started PROVE Met(j)'
  BY <1>3 DEF Links, Onward, Met
<1> QED
  BY <1>1, <1>2, <1>3 DEF Links

\* A job that is activated has nothing left to wait for.
LEMMA Activation ==
  ASSUME Footing, Links, NEW j \in Jobs, Activatable(j)
  PROVE  /\ \A s \in Prereqs[j] : status[s] # None
         /\ ~Doomed(j) => Met(j)
<1>1. Unsettled(j) = {}
  <2>1. stage[j] = "Waiting" /\ pending[j] = 0
    BY DEF Activatable
  <2>2. Cardinality(Unsettled(j)) = 0
    BY <2>1 DEF Links, Debt
  <2> QED
    BY <2>2, UnsettledFinite, FS_EmptySet
<1>2. ASSUME NEW s \in Prereqs[j]
      PROVE  status[s] # None /\ (status[s] # "Succeeded" => j \in failed)
  <2> DEFINE e == <<j, s>>
  <2>1. e \in Edges /\ e[1] = j /\ e[2] = s
    BY EdgeEnds
  <2> HIDE DEF e
  <2>2. edge[e] \notin {"unattached", "stored", "late", "fired"}
    BY <1>1, <2>1 DEF Unsettled, EdgesOf
  <2>3. edge[e] \in {"activating", "settled", "detached"}
    BY <2>1, <2>2 DEF Footing, TypeOK
  <2>4. stage[j] = "Waiting" /\ Link(e)
    BY <2>1 DEF Activatable, Links
  <2> QED
    BY <2>1, <2>3, <2>4 DEF Link
<1> QED
  BY <1>2 DEF Doomed, Met

\* activate_ready keeps the promise when the registration it came from is done.
LEMMA ActivateLinks ==
  ASSUME Footing, Links, NEW j \in Jobs, NEW inl, ActivateReady(j, inl),
         UNCHANGED <<pending, failed, status, exec>>,
         \A k \in Jobs : sub'[k] \in Attached => sub[k] \in Attached,
         \A e \in Edges : edge'[e] = edge[e] \/ (edge[e] = "activating" /\ edge'[e] = "settled")
  PROVE  Links'
<1>1. \/ UNCHANGED stage
      \/ /\ stage[j] = "Waiting" /\ Met(j)
         /\ \E x \in {"Ready", "DeferredReady"} : stage' = [stage EXCEPT ![j] = x]
  BY ActivatePlaces, Activation DEF Footing, Activatable
<1>2. DOMAIN stage = Jobs
  BY DEF Footing, TypeOK
<1>3. ASSUME NEW e \in Edges PROVE Link(e)'
  BY <1>1, <1>2, EdgeEnds DEF Links, Link
<1>4. ASSUME NEW k \in Jobs PROVE Debt(k)'
  <2>1. Unsettled(k)' = Unsettled(k)
    BY DEF Unsettled, EdgesOf
  <2>2. stage'[k] = "Waiting" => stage[k] = "Waiting"
    BY <1>1, <1>2
  <2> QED
    BY <2>1, <2>2 DEF Links, Debt
<1>5. ASSUME NEW k \in Jobs, stage'[k] \in Started PROVE Met(k)'
  BY <1>1, <1>2, <1>5 DEF Links, Met
<1> QED
  BY <1>3, <1>4, <1>5 DEF Links

\* A signal gets its status: stored callbacks are taken.
LEMMA PublishLinks ==
  ASSUME Footing, Links, NEW s \in Signals, NEW x, x # None,
         status[s] = None, status' = [status EXCEPT ![s] = x], edge' = FireFrom(s),
         UNCHANGED <<pending, failed, stage, sub>>,
         \A e \in Edges : exec'[e[1]] \in Published => edge[e] # "stored"
  PROVE  Links'
<1>1. /\ \A t \in Signals : status'[t] = IF t = s THEN x ELSE status[t]
      /\ \A e \in Edges : edge'[e] = IF e[2] = s /\ edge[e] = "stored" THEN "fired" ELSE edge[e]
  BY DEF FireFrom, Footing, TypeOK
<1>2. \A t \in Signals : status[t] # None => status'[t] = status[t] /\ status'[t] # None
  BY <1>1
<1>3. ASSUME NEW e \in Edges PROVE Link(e)'
  BY <1>1, <1>2, EdgeEnds DEF Links, Link
<1>4. ASSUME NEW j \in Jobs PROVE Debt(j)'
  <2>1. Unsettled(j)' = Unsettled(j)
    BY <1>1 DEF Unsettled, EdgesOf
  <2>2. \A t \in Prereqs[j] : status[t] # None => status'[t] = status[t]
    BY <1>2, SchedulerAssumption
  <2> QED
    BY <2>1, <2>2 DEF Links, Debt
<1>5. ASSUME NEW j \in Jobs, stage'[j] \in Started PROVE Met(j)'
  <2>1. \A t \in Prereqs[j] : status[t] # None => status'[t] = status[t]
    BY <1>2, SchedulerAssumption
  <2> QED
    BY <1>5, <2>1 DEF Links, Met
<1> QED
  BY <1>3, <1>4, <1>5 DEF Links

LEMMA AcceptLinks ==
  ASSUME Footing, Links, NEW j \in Jobs, Accept(j)
  PROVE  Links'
<1>0. /\ UNCHANGED <<edge, failed, status, exec>> /\ sub[j] = "charged"
      /\ DOMAIN sub = Jobs /\ DOMAIN stage = Jobs /\ DOMAIN pending = Jobs
  BY DEF Accept, finishVars, Footing, TypeOK
<1>1. CASE /\ sub' = [sub EXCEPT ![j] = "attaching"]
           /\ stage' = [stage EXCEPT ![j] = "Waiting"]
           /\ pending' = [pending EXCEPT ![j] = Cardinality(Prereqs[j])]
  <2>0. stage[j] = "absent"
    BY <1>0 DEF Footing, Lives, Life, Returning
  <2>1. ASSUME NEW e \in Edges PROVE Link(e)'
    BY <1>0, <1>1, <2>0, EdgeEnds DEF Links, Link, Attached
  <2>2. ASSUME NEW k \in Jobs PROVE Debt(k)'
    <3>1. Unsettled(k)' = Unsettled(k)
      BY <1>0 DEF Unsettled
    <3>2. CASE k = j
      <4>1. Unsettled(j) = EdgesOf(j)
        BY <2>0 DEF Unsettled, EdgesOf, Links, Link
      <4> QED
        BY <1>0, <1>1, <3>1, <3>2, <4>1, UnsettledFinite DEF Links, Debt
    <3>3. CASE k # j
      BY <1>0, <1>1, <3>1, <3>3 DEF Links, Debt
    <3> QED
      BY <3>2, <3>3
  <2>3. ASSUME NEW k \in Jobs, stage'[k] \in Started PROVE Met(k)'
    BY <1>0, <1>1, <2>3 DEF Links, Met, Started
  <2> QED
    BY <2>1, <2>2, <2>3 DEF Links
<1>2. CASE /\ UNCHANGED <<stage, pending>>
           /\ sub' = [sub EXCEPT ![j] = "unjoining"] \/ sub' = [sub EXCEPT ![j] = "refused"]
  BY <1>0, <1>2, OnwardLinks DEF Onward, Attached
<1> QED
  BY <1>1, <1>2 DEF Accept

LEMMA DeliverLinks ==
  ASSUME Footing, Links, NEW e \in Edges, DeliverEdge(e)
  PROVE  Links'
<1> DEFINE j == e[1]
<1>0. /\ UNCHANGED <<stage, status, exec, sub>> /\ edge[e] \in {"fired", "late"}
      /\ j \in Jobs /\ e[2] \in Prereqs[j] /\ status[e[2]] # None
      /\ DOMAIN edge = Edges /\ DOMAIN pending = Jobs
  BY EdgeEnds DEF DeliverEdge, submitVars, queueVars, signalVars, finishVars,
    Footing, TypeOK, Links, Link
<1>1. e \in Unsettled(j) /\ IsFiniteSet(Unsettled(j))
  BY <1>0, UnsettledFinite DEF Unsettled, EdgesOf
<1>2. ASSUME NEW k \in Jobs \ {j}, \A d \in Edges \ {e} : edge'[d] = edge[d]
      PROVE  Unsettled(k)' = Unsettled(k)
  BY <1>2 DEF Unsettled, EdgesOf
<1>3. CASE /\ stage[j] = "Waiting" /\ pending[j] # 0
           /\ pending' = [pending EXCEPT ![j] = @ - 1]
           /\ failed' = IF status[e[2]] = "Succeeded" THEN failed ELSE failed \cup {j}
           /\ \E x \in {"settled", "activating"} : edge' = [edge EXCEPT ![e] = x]
  <2>1. Unsettled(j)' = Unsettled(j) \ {e}
    BY <1>0, <1>3 DEF Unsettled, EdgesOf
  <2>2. Cardinality(Unsettled(j) \ {e}) = Cardinality(Unsettled(j)) - 1
    BY <1>1, FS_RemoveElement
  <2>3. ASSUME NEW d \in Edges PROVE Link(d)'
    BY <1>0, <1>3 DEF Links, Link
  <2>4. ASSUME NEW k \in Jobs PROVE Debt(k)'
    <3>1. CASE k = j
      <4>1. pending'[j] = Cardinality(Unsettled(j)')
        BY <1>0, <1>3, <2>1, <2>2 DEF Links, Debt
      <4> HIDE DEF j
      <4>2. j \in failed' => \E s \in Prereqs[j] : status[s] \notin {None, "Succeeded"}
        BY <1>0, <1>3 DEF Links, Debt
      <4> QED
        BY <1>0, <3>1, <4>1, <4>2 DEF Debt
    <3>2. CASE k # j
      <4>1. Unsettled(k)' = Unsettled(k)
        BY <1>0, <1>2, <1>3, <3>2
      <4> HIDE DEF j
      <4> QED
        BY <1>0, <1>3, <3>2, <4>1 DEF Links, Debt
    <3> QED
      BY <3>1, <3>2
  <2>5. ASSUME NEW k \in Jobs, stage'[k] \in Started PROVE Met(k)'
    BY <1>0, <2>5 DEF Links, Met
  <2> QED
    BY <2>3, <2>4, <2>5 DEF Links
<1>4. CASE /\ ~(stage[j] = "Waiting" /\ pending[j] # 0)
           /\ edge' = [edge EXCEPT ![e] = "settled"] /\ UNCHANGED <<pending, failed>>
  <2>1. stage[j] # "Waiting"
    <3> SUFFICES ASSUME stage[j] = "Waiting" PROVE FALSE
      OBVIOUS
    <3>1. Cardinality(Unsettled(j)) = 0
      BY <1>0, <1>4 DEF Links, Debt
    <3> QED
      BY <1>1, <3>1, FS_EmptySet
  <2>2. ASSUME NEW d \in Edges PROVE Link(d)'
    BY <1>0, <1>4, <2>1 DEF Links, Link
  <2>3. ASSUME NEW k \in Jobs PROVE Debt(k)'
    <3>1. k # j => Unsettled(k)' = Unsettled(k)
      BY <1>0, <1>2, <1>4
    <3> QED
      BY <1>0, <1>4, <2>1, <3>1 DEF Links, Debt
  <2>4. ASSUME NEW k \in Jobs, stage'[k] \in Started PROVE Met(k)'
    BY <1>0, <2>4 DEF Links, Met
  <2> QED
    BY <2>2, <2>3, <2>4 DEF Links
<1> QED
  BY <1>3, <1>4 DEF DeliverEdge

\* One registration is stored, called at once, or cleared.
LEMMA RegistrationLinks ==
  ASSUME Footing, Links, NEW e \in Edges, Subscribe(e) \/ Detach(e)
  PROVE  Links'
<1>0. /\ UNCHANGED <<stage, status, exec, sub, pending, failed>> /\ DOMAIN edge = Edges
      /\ e[1] \in Jobs /\ Life(e[1])
  BY EdgeEnds DEF Subscribe, Detach, submitVars, queueVars, signalVars, finishVars,
    Footing, TypeOK, Lives
<1>1. \A k \in Jobs : stage[k] \in Started => Met(k)'
  BY <1>0 DEF Links, Met
<1>2. CASE Subscribe(e)
  <2>1. /\ Attaching(e[1]) /\ edge[e] = "unattached"
        /\ edge' = [edge EXCEPT ![e] = IF status[e[2]] = None THEN "stored" ELSE "late"]
    BY <1>2 DEF Subscribe
  <2>2. ASSUME NEW d \in Edges PROVE Link(d)'
    BY <1>0, <2>1 DEF Links, Link, Life, Returning, Attaching
  <2>3. ASSUME NEW k \in Jobs PROVE Debt(k)'
    <3>1. Unsettled(k)' = Unsettled(k)
      BY <1>0, <2>1 DEF Unsettled, EdgesOf
    <3> QED
      BY <1>0, <3>1 DEF Links, Debt
  <2> QED
    BY <1>0, <1>1, <2>2, <2>3 DEF Links
<1>3. CASE Detach(e)
  <2>1. /\ edge[e] = "stored" /\ edge' = [edge EXCEPT ![e] = "detached"]
        /\ stage[e[1]] = "Finalizing"
    BY <1>0, <1>3 DEF Detach, Life
  <2>2. ASSUME NEW d \in Edges PROVE Link(d)'
    BY <1>0, <2>1 DEF Links, Link
  <2>3. ASSUME NEW k \in Jobs PROVE Debt(k)'
    <3>1. k # e[1] => Unsettled(k)' = Unsettled(k)
      BY <1>0, <2>1 DEF Unsettled, EdgesOf
    <3> QED
      BY <1>0, <2>1, <3>1 DEF Links, Debt
  <2> QED
    BY <1>0, <1>1, <2>2, <2>3 DEF Links
<1> QED
  BY <1>2, <1>3

LEMMA CloseLinks ==
  ASSUME Footing, Links, NEW j \in Jobs, CloseAttachment(j)
  PROVE  Links'
<1>0. /\ UNCHANGED <<edge, pending, failed, status, stage>>
      /\ \A e \in EdgesOf(j) : edge[e] # "unattached"
      /\ sub' = [sub EXCEPT ![j] = "activating"] /\ DOMAIN sub = Jobs /\ DOMAIN exec = Jobs
      /\ exec' = IF exec[j] = "deferred" THEN [exec EXCEPT ![j] = "finish"] ELSE exec
  BY DEF CloseAttachment, recordVars, queueVars, signalVars, Footing, TypeOK
<1>1. ASSUME NEW e \in Edges PROVE Link(e)'
  BY <1>0, EdgeEnds DEF Links, Link, EdgesOf, Published
<1>2. ASSUME NEW k \in Jobs PROVE Debt(k)'
  <2>1. Unsettled(k)' = Unsettled(k)
    BY <1>0 DEF Unsettled
  <2> QED
    BY <1>0, <2>1 DEF Links, Debt
<1>3. ASSUME NEW k \in Jobs, stage'[k] \in Started PROVE Met(k)'
  BY <1>0, <1>3 DEF Links, Met
<1> QED
  BY <1>1, <1>2, <1>3 DEF Links

\* A step that moves one job on, others only within the queues and the backend.
LEMMA MovedOn ==
  ASSUME Footing, NEW j \in Jobs, NEW x, Requeued([stage EXCEPT ![j] = x], stage'),
         x \notin {"absent", "Waiting"} \cup Pooled, x \in Started => stage[j] \in Started,
         stage[j] \in {"Finalizing", "gone"} => x \in {"Finalizing", "gone"},
         \A k \in Jobs : exec'[k] \in Published => exec[k] \in Published,
         \A k \in Jobs : sub'[k] \in Attached => sub[k] \in Attached
  PROVE  \A k \in Jobs : Onward(k)
<1> DEFINE st == [stage EXCEPT ![j] = x]
<1>1. st[j] = x /\ \A k \in Jobs \ {j} : st[k] = stage[k]
  BY DEF Footing, TypeOK
<1> HIDE DEF st
<1>2. Requeued(st, stage')
  BY DEF st
<1>3. stage'[j] = x
  BY <1>1, <1>2 DEF Requeued, Pooled
<1>4. \A k \in Jobs \ {j} : stage'[k] = stage[k] \/ {stage[k], stage'[k]} \subseteq Pooled
  BY <1>1, <1>2 DEF Requeued
<1>5. Onward(j)
  BY <1>3 DEF Onward
<1>6. ASSUME NEW k \in Jobs \ {j} PROVE Onward(k)
  BY <1>4 DEF Onward, Pooled, Started
<1> QED
  BY <1>5, <1>6

LEMMA ClaimOnward ==
  ASSUME Footing, NEW who, NEW j \in Jobs, Claim(who, j),
         \A k \in Jobs : sub'[k] \in Attached => sub[k] \in Attached
  PROVE  \A k \in Jobs : Onward(k)
<1>1. /\ stage[j] \in {"Ready", "Handed"}
      /\ Requeued([stage EXCEPT ![j] = "Running"], stage')
      /\ exec' = [exec EXCEPT ![j] = "body"] /\ DOMAIN exec = Jobs
  BY ClaimPlaces DEF Claim, Footing, TypeOK
<1>2. /\ "Running" \notin {"absent", "Waiting"} \cup Pooled /\ stage[j] \in Started
      /\ stage[j] \notin {"Finalizing", "gone"}
      /\ \A k \in Jobs : exec'[k] \in Published => exec[k] \in Published
  BY <1>1 DEF Pooled, Started, Published
<1> QED
  BY <1>1, <1>2, MovedOn

LEMMA SuppressOnward ==
  ASSUME Footing, NEW j \in Jobs, NEW s, Suppress(j, s), UNCHANGED sub
  PROVE  \A k \in Jobs : Onward(k)
<1>1. CASE UNCHANGED <<stage, finishVars>>
  BY <1>1 DEF Onward, finishVars
<1>2. CASE /\ stage[j] \in {"Waiting", "DeferredReady", "Ready", "Handed"}
           /\ Requeued([stage EXCEPT ![j] = "Finalizing"], stage')
           /\ exec' = [exec EXCEPT ![j] = "finish"]
  <2>1. DOMAIN exec = Jobs
    BY DEF Footing, TypeOK
  <2>2. /\ "Finalizing" \notin {"absent", "Waiting"} \cup Pooled \cup Started
        /\ \A k \in Jobs : exec'[k] \in Published => exec[k] \in Published
    BY <1>2, <2>1 DEF Pooled, Started, Published
  <2> QED
    BY <1>2, <2>2, MovedOn
<1> QED
  BY <1>1, <1>2, SuppressPlaces DEF Footing

LEMMA SubmissionLinks ==
  ASSUME Footing, Links, NEW j \in Jobs,
         Submit(j) \/ ChargeRecord(j) \/ ChargeEdges(j) \/ Accept(j) \/ Unjoin(j) \/ Refuse(j)
           \/ CloseAttachment(j)
  PROVE  Links'
<1> USE DEF submitVars, chargeVars, recordVars, queueVars, signalVars, finishVars,
  handVars, closeVars
<1>0. DOMAIN sub = Jobs
  BY DEF Footing, TypeOK
<1>1. CASE Submit(j)
  BY <1>0, <1>1, OnwardLinks DEF Submit, Onward, Attached
<1>2. CASE ChargeRecord(j)
  BY <1>0, <1>2, OnwardLinks DEF ChargeRecord, Onward, Attached
<1>3. CASE ChargeEdges(j)
  BY <1>0, <1>3, OnwardLinks DEF ChargeEdges, Onward, Attached
<1>4. CASE Unjoin(j)
  BY <1>0, <1>4, OnwardLinks DEF Unjoin, Onward, Attached
<1>5. CASE Refuse(j)
  BY <1>0, <1>5, OnwardLinks DEF Refuse, Onward, Attached
<1> QED
  BY <1>1, <1>2, <1>3, <1>4, <1>5, AcceptLinks, CloseLinks

LEMMA SettlementLinks ==
  ASSUME Footing, Links, NEW j \in Jobs, SettleStep(j)
  PROVE  Links'
<1> USE DEF submitVars, chargeVars, recordVars, queueVars, signalVars, finishVars,
  handVars, closeVars
<1>0. Life(j) /\ stage \in [Jobs -> Stages] /\ DOMAIN exec = Jobs
  BY DEF Footing, TypeOK, Lives
<1>1. ASSUME NEW o \in Outcomes, ReturnBody(j, o) PROVE Links'
  BY <1>0, <1>1, OnwardLinks DEF ReturnBody, Onward, Started, Published, Life
<1>2. CASE DeferFinish(j)
  BY <1>0, <1>2, OnwardLinks DEF DeferFinish, Onward, Published
<1>3. CASE Publish(j)
  <2>1. /\ j \in Signals /\ status[j] = None /\ outcome[j] # None
        /\ status' = [status EXCEPT ![j] = outcome[j]] /\ edge' = FireFrom(j)
        /\ UNCHANGED <<pending, failed, stage, sub>>
    BY <1>0, <1>3 DEF Publish, Life, Published, Signals
  <2>2. ASSUME NEW e \in Edges, exec'[e[1]] \in Published PROVE edge[e] # "stored"
    <3>1. CASE e[1] = j
      BY <1>3, <3>1 DEF Publish, EdgesOf
    <3>2. CASE e[1] # j
      BY <1>0, <1>3, <2>2, <3>2, EdgeEnds DEF Publish, Links, Link
    <3> QED
      BY <3>1, <3>2
  <2> QED
    BY <2>1, <2>2, PublishLinks
<1>4. CASE Finalize(j)
  BY <1>0, <1>4, OnwardLinks DEF Finalize, Onward, Started, Published, Life
<1>5. CASE Leave(j)
  BY <1>0, <1>5, OnwardLinks DEF Leave, Retire, Onward, Published
<1>6. CASE LeavePublished(j)
  BY <1>0, <1>6, OnwardLinks DEF LeavePublished, Retire, Onward, Published
<1> QED
  BY <1>1, <1>2, <1>3, <1>4, <1>5, <1>6 DEF SettleStep

LEMMA EdgeLinks ==
  ASSUME Footing, Links, NEW e \in Edges, EdgeStep(e)
  PROVE  Links'
<1>1. CASE ActivateEdge(e)
  <2>0. ActivateReady(e[1], FALSE)
    BY <1>1 DEF ActivateEdge
  <2>1. /\ UNCHANGED <<pending, failed, status, exec, sub>>
        /\ edge[e] = "activating" /\ edge' = [edge EXCEPT ![e] = "settled"]
        /\ DOMAIN edge = Edges /\ e[1] \in Jobs
    BY <1>1, EdgeEnds DEF ActivateEdge, submitVars, signalVars, finishVars, Footing, TypeOK
  <2>2. /\ \A k \in Jobs : sub'[k] \in Attached => sub[k] \in Attached
        /\ \A d \in Edges : edge'[d] = edge[d] \/ (edge[d] = "activating" /\ edge'[d] = "settled")
    BY <2>1
  <2> QED
    BY <2>0, <2>1, <2>2, ActivateLinks
<1> QED
  BY <1>1, RegistrationLinks, DeliverLinks DEF EdgeStep

LEMMA ClaimantLinks ==
  ASSUME Footing, Links, NEW j \in Jobs,
         ActivateSubmitted(j) \/ Cancel(j) \/ ClaimInline(j) \/ Help(j)
           \/ EnterWrapper(j)
  PROVE  Links'
<1> USE DEF submitVars, chargeVars, recordVars, queueVars, signalVars, finishVars,
  handVars, closeVars
<1>0. DOMAIN sub = Jobs
  BY DEF Footing, TypeOK
<1>1. CASE ActivateSubmitted(j)
  <2> DEFINE inl == j \in inline
  <2>0. ActivateReady(j, inl)
    BY <1>1 DEF ActivateSubmitted
  <2>1. /\ UNCHANGED <<edge, pending, failed, status, exec>>
        /\ \A k \in Jobs : sub'[k] \in Attached => sub[k] \in Attached
    BY <1>0, <1>1 DEF ActivateSubmitted, Attached
  <2>2. \A d \in Edges : edge'[d] = edge[d] \/ (edge[d] = "activating" /\ edge'[d] = "settled")
    BY <2>1
  <2> HIDE DEF inl
  <2> QED
    BY <2>0, <2>1, <2>2, ActivateLinks
<1>2. CASE Cancel(j)
  BY <1>2, SuppressOnward, OnwardLinks DEF Cancel
<1>3. CASE ClaimInline(j)
  <2>1. /\ UNCHANGED <<edge, pending, failed, status>>
        /\ \A k \in Jobs : sub'[k] \in Attached => sub[k] \in Attached
    BY <1>0, <1>3 DEF ClaimInline, Attached
  <2>2. CASE Claim("caller", j)
    BY <2>1, <2>2, ClaimOnward, OnwardLinks
  <2>3. CASE UNCHANGED <<queueVars, finishVars>>
    BY <2>1, <2>3, OnwardLinks DEF Onward
  <2> QED
    BY <1>3, <2>2, <2>3 DEF ClaimInline
<1>4. CASE Help(j)
  BY <1>4, ClaimOnward, OnwardLinks DEF Help
<1>5. CASE EnterWrapper(j)
  BY <1>5, ClaimOnward, OnwardLinks DEF EnterWrapper
<1> QED
  BY <1>1, <1>2, <1>3, <1>4, <1>5

LEMMA RestLinks ==
  ASSUME Footing, Links,
         \/ \E j \in Jobs : LeaveWrapper(j) \/ DiscardWrapper(j)
         \/ \E g \in Groups : Seal(g) \/ PublishGroup(g)
         \/ \E c \in Classes : Dispatch(c)
         \/ \E o \in offers : OfferStep(o)
         \/ \E d \in suppressing : SuppressDecided(d)
         \/ BeginShutdown \/ AbandonRuntime \/ AbandonCut \/ UNCHANGED vars
  PROVE  Links'
<1> USE DEF submitVars, chargeVars, recordVars, queueVars, signalVars, finishVars,
  handVars, closeVars
<1>0. UNCHANGED <<edge, pending, failed, status, stage, exec, sub>> => Links'
  BY OnwardLinks DEF Onward
<1>1. ASSUME NEW j \in Jobs, LeaveWrapper(j) \/ DiscardWrapper(j) PROVE Links'
  BY <1>0, <1>1 DEF LeaveWrapper, DiscardWrapper
<1>2. ASSUME NEW g \in Groups, Seal(g) PROVE Links'
  BY <1>0, <1>2 DEF Seal
<1>3. ASSUME NEW g \in Groups, PublishGroup(g) PROVE Links'
  <2> DEFINE x == IF group[g].failed THEN "PrerequisiteFailed" ELSE "Succeeded"
  <2>1. /\ status[g] = None /\ status' = [status EXCEPT ![g] = x] /\ edge' = FireFrom(g)
        /\ UNCHANGED <<pending, failed, stage, sub, exec>>
    BY <1>3 DEF PublishGroup
  <2>2. x # None /\ g \in Signals
    BY SchedulerAssumption DEF Status, Signals
  <2>3. \A e \in Edges : exec'[e[1]] \in Published => edge[e] # "stored"
    BY <2>1 DEF Links, Link
  <2> HIDE DEF x
  <2> QED
    BY <2>1, <2>2, <2>3, PublishLinks
<1>4. ASSUME NEW c \in Classes, Dispatch(c) PROVE Links'
  <2>1. UNCHANGED <<edge, pending, failed, status, exec, sub>> /\ Requeued(stage, stage')
    BY <1>4, DispatchPlaces DEF Dispatch, Footing
  <2>2. \A k \in Jobs : Onward(k)
    BY <2>1 DEF Requeued, Pooled, Onward, Started
  <2> QED
    BY <2>1, <2>2, OnwardLinks
<1>5. ASSUME NEW o \in offers, OfferStep(o) PROVE Links'
  BY <1>0, <1>5 DEF OfferStep, PublishOffer, RefuseOffer
<1>6. ASSUME NEW d \in suppressing, SuppressDecided(d) PROVE Links'
  <2>1. d[1] \in Jobs
    BY DEF Footing, TypeOK
  <2>2. /\ Suppress(d[1], d[2]) /\ UNCHANGED <<edge, pending, failed, status, sub>>
    BY <1>6 DEF SuppressDecided
  <2> QED
    BY <2>1, <2>2, SuppressOnward, OnwardLinks
<1>7. CASE BeginShutdown \/ AbandonRuntime \/ AbandonCut \/ UNCHANGED vars
  BY <1>0, <1>7 DEF BeginShutdown, AbandonRuntime, AbandonCut, vars
<1> QED
  BY <1>1, <1>2, <1>3, <1>4, <1>5, <1>6, <1>7

LEMMA LinksInit == Init => Links
<1> SUFFICES ASSUME Init PROVE Links
  OBVIOUS
<1>1. \A e \in Edges : Link(e)
  BY EdgeEnds DEF Init, Link, Attached, Published
<1>2. \A j \in Jobs : Debt(j) /\ (stage[j] \in Started => Met(j))
  BY DEF Init, Debt, Started
<1> QED
  BY <1>1, <1>2 DEF Links

LEMMA LinksStep == Footing /\ Links /\ [Next]_vars => Links'
<1> SUFFICES ASSUME Footing, Links, [Next]_vars PROVE Links'
  OBVIOUS
<1>1. CASE Environment
  BY <1>1, SubmissionLinks, ClaimantLinks, RestLinks DEF Environment
<1>2. CASE System
  <2>1. ASSUME NEW j \in Jobs, SubmitStep(j) PROVE Links'
    BY <2>1, SubmissionLinks, ClaimantLinks DEF SubmitStep
  <2>2. ASSUME NEW j \in Jobs, WrapperStep(j) PROVE Links'
    BY <2>2, ClaimantLinks, RestLinks DEF WrapperStep
  <2> QED
    BY <1>2, <2>1, <2>2, SettlementLinks, EdgeLinks, RestLinks DEF System
<1>3. CASE UNCHANGED vars
  BY <1>3, RestLinks
<1> QED
  BY <1>1, <1>2, <1>3 DEF Next

\* A job enters a queue, is handed out or runs only when every prerequisite has
\* settled, and has succeeded when its policy demands it, whichever of the
\* registration, the delivery and the publication came first
\* (submit_payload_accounted, activate_prerequisite and activate_ready,
\* scheduler.rs:1463-1691).
THEOREM RunAfterPrerequisites == Spec => []RunsAfterPrerequisites
<1>1. Footing /\ Links => RunsAfterPrerequisites
  BY DEF Links, Met, Started, RunsAfterPrerequisites
<1> QED
  BY <1>1, FootingInit, FootingStep, LinksInit, LinksStep, PTL DEF Spec

\* No registration outlives the record it was made for: a retired record is at no
\* prerequisite's signal (finish_record, scheduler.rs:1926-1973).
THEOREM ReleaseEdges == Spec => []EdgesReleased
<1>1. Footing /\ Links => EdgesReleased
  <2> SUFFICES ASSUME Footing, Links, NEW e \in Edges, stage[e[1]] = "gone"
               PROVE  edge[e] # "stored"
    BY DEF EdgesReleased
  <2>1. e[1] \in Jobs /\ Life(e[1]) /\ Link(e)
    BY EdgeEnds DEF Footing, Lives, Links
  <2>2. exec[e[1]] \in Published
    <3>1. exec[e[1]] \in {"none", "body", "finish", "deferred",
                        "finalize", "leave", "groupPublish", "done"}
      BY <2>1 DEF Footing, TypeOK
    <3> QED
      BY <2>1, <3>1 DEF Life, Published, Accepted
  <2> QED
    BY <2>1, <2>2 DEF Link
<1> QED
  BY <1>1, FootingInit, FootingStep, LinksInit, LinksStep, PTL DEF Spec

\* Record, class queue and ready index agree: each ready or deferred job is queued
\* once, in the queue of its own class, and the index holds exactly the helpable
\* ones (push_ready, push_deferred, remove_ready and promote_locked,
\* scheduler.rs:1504-1556 and 1806-1873).
THEOREM AgreePlaces == Spec => []PlacesAgree
<1>1. Footing => PlacesAgree
  <2> SUFFICES ASSUME Footing PROVE PlacesAgree
    OBVIOUS
  <2>1. IndexExact
    BY DEF Footing, Places, Listed, IndexExact
  <2>2. ASSUME NEW c \in Classes PROVE QueuesMatchStages(c)
    <3>1. /\ Lists(class[c].ready, At(c, stage, "Ready"))
          /\ Lists(class[c].deferred, At(c, stage, "DeferredReady"))
      BY DEF Footing, Places, Holds
    <3>2. At(c, stage, "Ready") \cap At(c, stage, "DeferredReady") = {}
      BY DEF At
    <3>3. IsInjective(Queued(c))
      BY <3>1, <3>2, ListsConcat DEF Lists, Queued
    <3>4. \A j \in Jobs : ClassOf[j] = c =>
            /\ j \in Range(class[c].ready) <=> stage[j] = "Ready"
            /\ j \in Range(class[c].deferred) <=> stage[j] = "DeferredReady"
      BY <3>1 DEF Lists, At
    <3> QED
      BY <3>3, <3>4 DEF QueuesMatchStages
  <2> QED
    BY <2>1, <2>2 DEF PlacesAgree
<1> QED
  BY <1>1, FootingInit, FootingStep, PTL DEF Spec

-----------------------------------------------------------------------------
(* Groups *)

\* A member whose group has counted it out.
Out == {"groupPublish", "done"}

\* Members the group's count stands for.
Present(g) ==
  {j \in Members(g) : sub[j] = "unjoining" \/ (stage[j] # "absent" /\ exec[j] \notin Out)}

\* Members the count has let go.
Gone(g) == {j \in Members(g) : exec[j] \in Out}

\* A group's record, its members and its signal.
Company(g) ==
  /\ group[g].pending = Cardinality(Present(g))
  /\ group[g].publishing => group[g].sealed /\ group[g].pending = 0
  /\ group[g].failed <=> \E j \in Gone(g) : status[j] # "Succeeded"
  /\ status[g] # None => group[g].publishing
  /\ status[g] # None =>
       status[g] = IF group[g].failed THEN "PrerequisiteFailed" ELSE "Succeeded"

\* Every group is in step with its members.
Companies ==
  /\ \A g \in Groups : Company(g)
  /\ \A j \in Jobs : sub[j] = "unjoining" => GroupOf[j] # None

\* A job keeps its place in its group.
Steady(k) ==
  /\ stage'[k] = "absent" <=> stage[k] = "absent"
  /\ exec'[k] \in Out <=> exec[k] \in Out
  /\ sub'[k] = "unjoining" <=> sub[k] = "unjoining"

LEMMA PresentFinite ==
  ASSUME NEW g PROVE IsFiniteSet(Present(g)) /\ IsFiniteSet(Present(g)')
BY SchedulerAssumption, FS_Subset DEF Present, Members

LEMMA GroupMember == \A j \in Jobs : GroupOf[j] # None => GroupOf[j] \in Groups
BY SchedulerAssumption

\* A member that left keeps its status.
LEMMA SteadyCompanies ==
  ASSUME Footing, Companies, UNCHANGED group, \A k \in Jobs : Steady(k),
         \A s \in Signals : status[s] # None => status'[s] = status[s],
         \A g \in Groups : status'[g] = status[g]
  PROVE  Companies'
<1>1. ASSUME NEW g \in Groups PROVE Company(g)'
  <2>1. Present(g)' = Present(g) /\ Gone(g)' = Gone(g)
    BY DEF Present, Gone, Members, Steady
  <2>2. \A j \in Gone(g) : status'[j] = status[j]
    BY DEF Gone, Members, Footing, Lives, Life, Out, Published, Signals
  <2> QED
    BY <2>1, <2>2 DEF Companies, Company
<1> QED
  BY <1>1 DEF Companies, Steady

\* One more or one member less.
LEMMA OneMember ==
  ASSUME Footing, NEW g, NEW j \in Jobs, GroupOf[j] = g, \A k \in Jobs \ {j} : Steady(k)
  PROVE  /\ j \in Present(g) /\ j \notin Present(g)' =>
              Cardinality(Present(g)') = Cardinality(Present(g)) - 1
         /\ j \notin Present(g) /\ j \in Present(g)' =>
              Cardinality(Present(g)') = Cardinality(Present(g)) + 1
         /\ \A h : h # g => Present(h)' = Present(h) /\ Gone(h)' = Gone(h)
<1>1. \A k \in Jobs \ {j} : k \in Present(g)' <=> k \in Present(g)
  BY DEF Present, Members, Steady
<1>2. Present(g) \subseteq Jobs /\ Present(g)' \subseteq Jobs
  BY DEF Present, Members
<1>3. ASSUME j \in Present(g), j \notin Present(g)'
      PROVE  Cardinality(Present(g)') = Cardinality(Present(g)) - 1
  <2>1. Present(g)' = Present(g) \ {j}
    BY <1>1, <1>2, <1>3
  <2>2. Cardinality(Present(g) \ {j}) = Cardinality(Present(g)) - 1
    BY <1>3, PresentFinite, FS_RemoveElement
  <2> QED
    BY <2>1, <2>2
<1>4. ASSUME j \notin Present(g), j \in Present(g)'
      PROVE  Cardinality(Present(g)') = Cardinality(Present(g)) + 1
  <2>1. Present(g)' = Present(g) \cup {j}
    BY <1>1, <1>2, <1>4
  <2>2. Cardinality(Present(g) \cup {j}) = Cardinality(Present(g)) + 1
    BY <1>4, PresentFinite, FS_AddElement
  <2> QED
    BY <2>1, <2>2
<1>5. \A h : h # g => Present(h)' = Present(h) /\ Gone(h)' = Gone(h)
  BY DEF Present, Gone, Members, Steady
<1> QED
  BY <1>3, <1>4, <1>5

LEMMA GroupFields ==
  ASSUME TypeOK, NEW g \in Groups
  PROVE  /\ group[g] \in GroupState /\ group[g].pending \in Int
         /\ group[g].sealed \in BOOLEAN /\ group[g].failed \in BOOLEAN
         /\ group[g].publishing \in BOOLEAN
BY DEF TypeOK, GroupState

\* The section of a group that ends by looking whether the group is terminal.
LEMMA GroupSection ==
  ASSUME TypeOK, NEW g \in Groups, NEW st \in GroupState,
         group' = [group EXCEPT ![g] = [st EXCEPT !.publishing = @ \/ Terminal(st)]]
  PROVE  /\ group'[g].pending = st.pending /\ group'[g].failed = st.failed
         /\ group'[g].sealed = st.sealed
         /\ group'[g].publishing = (st.publishing \/ Terminal(st))
         /\ \A h \in Groups : h # g => group'[h] = group[h]
BY DEF TypeOK, GroupState

LEMMA AcceptCompanies ==
  ASSUME Footing, Companies, NEW j \in Jobs, Accept(j)
  PROVE  Companies'
<1> DEFINE g == GroupOf[j]
           member == ~abandoned /\ JoinsGroup(j) /\ g # None
<1>0. /\ UNCHANGED <<status, exec>> /\ sub[j] = "charged" /\ stage[j] = "absent"
      /\ exec[j] = "none" /\ DOMAIN sub = Jobs /\ DOMAIN stage = Jobs
  BY DEF Accept, finishVars, Footing, TypeOK, Lives, Life, Returning
<1>1. /\ group' = IF member THEN [group EXCEPT ![g].pending = @ + 1] ELSE group
      /\ \/ sub' = [sub EXCEPT ![j] = "attaching"] /\ stage' = [stage EXCEPT ![j] = "Waiting"]
         \/ stage' = stage /\ sub' = [sub EXCEPT ![j] = IF member THEN "unjoining" ELSE "refused"]
      /\ sub' = [sub EXCEPT ![j] = "attaching"] => (g # None => member)
  BY <1>0 DEF Accept
<1>2. \A k \in Jobs \ {j} : Steady(k)
  BY <1>0, <1>1 DEF Steady
<1>3. CASE ~member
  <2>1. CASE g = None
    <3>1. ASSUME NEW h \in Groups PROVE Company(h)'
      <4>1. h # g
        BY <2>1, SchedulerAssumption DEF Signals
      <4>2. Present(h)' = Present(h) /\ Gone(h)' = Gone(h)
        BY <1>2, <4>1, OneMember
      <4> QED
        BY <1>0, <1>1, <1>3, <4>2 DEF Companies, Company
    <3> QED
      BY <1>0, <1>1, <1>3, <3>1 DEF Companies
  <2>2. CASE g # None
    <3>1. stage' = stage /\ sub' = [sub EXCEPT ![j] = "refused"] /\ group' = group
      BY <1>0, <1>1, <1>3, <2>2
    <3>2. \A k \in Jobs : Steady(k)
      BY <1>0, <3>1 DEF Steady
    <3> QED
      BY <1>0, <3>1, <3>2, SteadyCompanies
  <2> QED
    BY <2>1, <2>2
<1>4. CASE member
  <2>0. g \in Groups /\ ~group[g].sealed /\ group' = [group EXCEPT ![g].pending = @ + 1]
    BY <1>1, <1>4, GroupMember DEF JoinsGroup
  <2>1. j \notin Present(g) /\ j \in Present(g)' /\ Gone(g)' = Gone(g)
    BY <1>0, <1>1, <1>2, <1>4 DEF Present, Gone, Members, Out, Steady
  <2> HIDE DEF g, member
  <2>2. /\ Cardinality(Present(g)') = Cardinality(Present(g)) + 1
        /\ \A h : h # g => Present(h)' = Present(h) /\ Gone(h)' = Gone(h)
    BY <1>2, <2>1, OneMember DEF g
  <2>3. /\ group'[g].pending = group[g].pending + 1 /\ group'[g].sealed = group[g].sealed
        /\ group'[g].failed = group[g].failed /\ group'[g].publishing = group[g].publishing
        /\ \A h \in Groups : h # g => group'[h] = group[h]
    BY <2>0, GroupFields DEF Footing, TypeOK, GroupState
  <2>4. ASSUME NEW h \in Groups PROVE Company(h)'
    <3>1. CASE h = g
      BY <1>0, <2>0, <2>1, <2>2, <2>3, <3>1 DEF Companies, Company
    <3>2. CASE h # g
      BY <1>0, <2>2, <2>3, <3>2 DEF Companies, Company
    <3> QED
      BY <3>1, <3>2
  <2>5. \A k \in Jobs : sub'[k] = "unjoining" => GroupOf[k] # None
    BY <1>0, <1>1, <1>4 DEF Companies, g, member
  <2> QED
    BY <2>4, <2>5 DEF Companies
<1> QED
  BY <1>3, <1>4

\* A member leaves: what the group's section makes of its record.
LEMMA LeavingMember ==
  ASSUME Footing, Companies, NEW g \in Groups, NEW j \in Jobs, GroupOf[j] = g, NEW b \in BOOLEAN,
         LET st == [group[g] EXCEPT !.pending = @ - 1, !.failed = @ \/ b]
         IN  group' = [group EXCEPT ![g] = [st EXCEPT !.publishing = @ \/ Terminal(st)]],
         UNCHANGED status, \A k \in Jobs \ {j} : Steady(k),
         j \in Present(g), j \notin Present(g)',
         b <=> j \in Gone(g)' /\ status[j] # "Succeeded"
  PROVE  \A h \in Groups : Company(h)'
<1> DEFINE st == [group[g] EXCEPT !.pending = @ - 1, !.failed = @ \/ b]
<1>1. /\ Cardinality(Present(g)') = Cardinality(Present(g)) - 1
      /\ \A h : h # g => Present(h)' = Present(h) /\ Gone(h)' = Gone(h)
  BY OneMember
<1>2. /\ st.pending = group[g].pending - 1 /\ (st.failed <=> group[g].failed \/ b)
      /\ st.sealed = group[g].sealed /\ st.publishing = group[g].publishing
  <2>1. group[g] \in GroupState
    BY GroupFields DEF Footing
  <2> DEFINE f == group[g].failed \/ b
  <2>2. st.failed = f
    BY <2>1 DEF GroupState
  <2> QED
    BY <2>1, <2>2 DEF GroupState
<1>3. group' = [group EXCEPT ![g] = [st EXCEPT !.publishing = @ \/ Terminal(st)]]
  OBVIOUS
<1>9. st \in GroupState
  BY GroupFields, GroupUpdate DEF Footing
<1> HIDE DEF st
<1>4. /\ group'[g].pending = st.pending /\ group'[g].failed = st.failed
      /\ group'[g].sealed = st.sealed
      /\ group'[g].publishing = (st.publishing \/ Terminal(st))
      /\ \A h \in Groups : h # g => group'[h] = group[h]
  BY <1>3, <1>9, GroupSection DEF Footing
<1>5. ~group[g].publishing /\ status[g] = None
  <2>1. Cardinality(Present(g)) # 0
    BY PresentFinite, FS_EmptySet
  <2> QED
    BY <2>1 DEF Companies, Company
<1>6. group'[g].failed <=> \E k \in Gone(g)' : status'[k] # "Succeeded"
  <2>1. group[g].failed <=> \E k \in Gone(g) : status[k] # "Succeeded"
    BY DEF Companies, Company
  <2>2. \A k \in Jobs \ {j} : k \in Gone(g)' <=> k \in Gone(g)
    BY DEF Gone, Members, Steady
  <2>3. j \notin Gone(g)
    BY DEF Gone, Present, Footing, Lives, Life, Returning, Out, Accepted
  <2>4. Gone(g) \subseteq Jobs /\ Gone(g)' \subseteq Jobs
    BY DEF Gone, Members
  <2> QED
    BY <1>2, <1>4, <2>1, <2>2, <2>3, <2>4
<1>7. Company(g)'
  BY <1>1, <1>2, <1>4, <1>5, <1>6 DEF Companies, Company, Terminal
<1>8. ASSUME NEW h \in Groups, h # g PROVE Company(h)'
  BY <1>1, <1>4, <1>8 DEF Companies, Company
<1> QED
  BY <1>7, <1>8

LEMMA UnjoinCompanies ==
  ASSUME Footing, Companies, NEW j \in Jobs, Unjoin(j)
  PROVE  Companies'
<1> DEFINE g == GroupOf[j]
           st == [group[g] EXCEPT !.pending = @ - 1]
           rt == [group[g] EXCEPT !.pending = @ - 1, !.failed = @ \/ FALSE]
<1>0. /\ UNCHANGED <<status, exec, stage>> /\ sub[j] = "unjoining" /\ DOMAIN sub = Jobs
      /\ sub' = [sub EXCEPT ![j] = "refused"]
      /\ stage[j] = "absent" /\ exec[j] = "none" /\ g \in Groups
  BY GroupMember DEF Unjoin, queueVars, finishVars, Footing, TypeOK, Lives, Life, Returning,
    Companies
<1>1. group' = [group EXCEPT ![g] = [st EXCEPT !.publishing = @ \/ Terminal(st)]]
  BY DEF Unjoin
<1>2. st = rt
  <2>1. group[g] \in GroupState
    BY <1>0, GroupFields DEF Footing
  <2> HIDE DEF g
  <2> QED
    BY <2>1 DEF GroupState
<1>3. group' = [group EXCEPT ![g] = [rt EXCEPT !.publishing = @ \/ Terminal(rt)]]
  <2> HIDE DEF st, rt
  <2> QED
    BY <1>1, <1>2
<1>4. /\ \A k \in Jobs \ {j} : Steady(k)
      /\ j \in Present(g) /\ j \notin Present(g)' /\ j \notin Gone(g)'
  BY <1>0 DEF Steady, Present, Gone, Members, Out
<1> HIDE DEF g
<1>5. \A h \in Groups : Company(h)'
  BY <1>0, <1>3, <1>4, LeavingMember DEF g
<1> QED
  BY <1>0, <1>5 DEF Companies

LEMMA LeaveCompanies ==
  ASSUME Footing, Companies, NEW j \in Jobs, Leave(j)
  PROVE  Companies'
<1> DEFINE g == GroupOf[j]
           b == status[j] # "Succeeded"
           st == [group[g] EXCEPT !.pending = @ - 1, !.failed = @ \/ b]
<1>0. /\ UNCHANGED <<status, stage, sub>> /\ exec[j] = "leave" /\ DOMAIN exec = Jobs
      /\ \E x \in Out : exec' = [exec EXCEPT ![j] = x]
      /\ stage[j] # "absent" /\ sub[j] # "unjoining"
  BY DEF Leave, Retire, submitVars, queueVars, Footing, TypeOK, Lives, Life, Accepted, Out,
    Returning
<1>1. \A k \in Jobs \ {j} : Steady(k)
  BY <1>0 DEF Steady
<1>2. CASE g = None
  <2>1. group' = group
    BY <1>2 DEF Leave
  <2>2. ASSUME NEW h \in Groups PROVE Company(h)'
    <3>1. h # g
      BY <1>2, SchedulerAssumption DEF Signals
    <3>2. Present(h)' = Present(h) /\ Gone(h)' = Gone(h)
      BY <1>1, <3>1, OneMember
    <3> QED
      BY <1>0, <2>1, <3>2 DEF Companies, Company
  <2> QED
    BY <1>0, <2>2 DEF Companies
<1>3. CASE g # None
  <2>1. group' = [group EXCEPT ![g] = [st EXCEPT !.publishing = @ \/ Terminal(st)]]
    BY <1>3 DEF Leave
  <2>2. /\ j \in Present(g) /\ j \notin Present(g)' /\ j \in Gone(g)' /\ g \in Groups
    BY <1>0, <1>3, GroupMember DEF Present, Gone, Members, Out
  <2>3. b \in BOOLEAN /\ (b <=> status[j] # "Succeeded")
    OBVIOUS
  <2> HIDE DEF g, b
  <2>4. \A h \in Groups : Company(h)'
    BY <1>0, <1>1, <2>1, <2>2, <2>3, LeavingMember DEF g
  <2> QED
    BY <1>0, <2>4 DEF Companies
<1> QED
  BY <1>2, <1>3

LEMMA SealCompanies ==
  ASSUME Footing, Companies, NEW g \in Groups, Seal(g)
  PROVE  Companies'
<1> DEFINE st == [group[g] EXCEPT !.sealed = TRUE]
<1>0. UNCHANGED <<sub, stage, exec, status>> /\ ~group[g].sealed
  BY DEF Seal, submitVars, queueVars, finishVars
<1>1. group' = [group EXCEPT ![g] = [st EXCEPT !.publishing = @ \/ Terminal(st)]]
  BY DEF Seal
<1>2. /\ st.pending = group[g].pending /\ st.failed = group[g].failed /\ st.sealed
      /\ st.publishing = group[g].publishing /\ st \in GroupState
  <2>1. group[g] \in GroupState
    BY GroupFields DEF Footing
  <2> QED
    BY <2>1, GroupUpdate DEF GroupState
<1> HIDE DEF st
<1>3. /\ group'[g].pending = st.pending /\ group'[g].failed = st.failed
      /\ group'[g].sealed = st.sealed
      /\ group'[g].publishing = (st.publishing \/ Terminal(st))
      /\ \A h \in Groups : h # g => group'[h] = group[h]
  BY <1>1, <1>2, GroupSection DEF Footing
<1>4. ASSUME NEW h \in Groups PROVE Company(h)'
  <2>1. Present(h)' = Present(h) /\ Gone(h)' = Gone(h)
    BY <1>0 DEF Present, Gone
  <2>2. CASE h = g
    <3>1. Company(g)
      BY <1>0 DEF Companies
    <3>2. group'[g].pending = group[g].pending /\ group'[g].failed = group[g].failed
      BY <1>2, <1>3
    <3>3. group'[g].sealed /\ (group[g].publishing => group'[g].publishing)
      BY <1>2, <1>3
    <3>4. group'[g].publishing => group'[g].pending = 0
      BY <1>2, <1>3, <3>1 DEF Terminal, Company
    <3>5. UNCHANGED status
      BY <1>0
    <3> QED
      BY <2>1, <2>2, <3>1, <3>2, <3>3, <3>4, <3>5 DEF Company
  <2>3. CASE h # g
    BY <1>0, <1>3, <2>1, <2>3 DEF Companies, Company
  <2> QED
    BY <2>2, <2>3
<1> QED
  BY <1>0, <1>4 DEF Companies

LEMMA PublishCompanies ==
  ASSUME Footing, Companies, NEW g \in Groups, PublishGroup(g)
  PROVE  Companies'
<1>0. /\ UNCHANGED <<sub, stage, exec, group>> /\ group[g].publishing
      /\ status' = [status EXCEPT ![g] =
                      IF group[g].failed THEN "PrerequisiteFailed" ELSE "Succeeded"]
      /\ DOMAIN status = Signals /\ g \notin Jobs /\ g \in Signals
  BY SchedulerAssumption DEF PublishGroup, submitVars, queueVars, finishVars, Footing, TypeOK,
    Signals
<1>1. ASSUME NEW h \in Groups PROVE Company(h)'
  <2>1. Present(h)' = Present(h) /\ Gone(h)' = Gone(h) /\ Gone(h) \subseteq Jobs
    BY <1>0 DEF Present, Gone, Members
  <2>2. \A j \in Jobs : status'[j] = status[j]
    BY <1>0 DEF Signals
  <2>3. h = g => status'[h] = IF group[g].failed THEN "PrerequisiteFailed" ELSE "Succeeded"
    BY <1>0
  <2>4. h # g => status'[h] = status[h]
    BY <1>0 DEF Signals
  <2> QED
    BY <1>0, <2>1, <2>2, <2>3, <2>4 DEF Companies, Company
<1> QED
  BY <1>0, <1>1 DEF Companies

\* A submission that holds an admission and has no record yet.
Asking == {"admitted", "recorded", "charged", "unjoining", "refused"}

\* A job neither asks for nor gives back its admission unnoticed.
Lasting(k) ==
  /\ exec'[k] # "done" => exec[k] # "done"
  /\ sub'[k] \in Asking => sub[k] \in Asking

\* The job matters to its group and to the admissions as before.
Same(k) == Steady(k) /\ Lasting(k)

LEMMA ClaimSame ==
  ASSUME Footing, NEW who, NEW j \in Jobs, Claim(who, j),
         \A k \in Jobs : /\ sub'[k] = "unjoining" <=> sub[k] = "unjoining"
                         /\ sub'[k] \in Asking => sub[k] \in Asking
  PROVE  \A k \in Jobs : Same(k)
<1> DEFINE st == [stage EXCEPT ![j] = "Running"]
<1>1. /\ stage[j] \in {"Ready", "Handed"} /\ Requeued(st, stage')
      /\ exec' = [exec EXCEPT ![j] = "body"] /\ DOMAIN exec = Jobs
      /\ st[j] = "Running" /\ \A k \in Jobs \ {j} : st[k] = stage[k]
  BY ClaimPlaces DEF Claim, Footing, TypeOK
<1> HIDE DEF st
<1>2. stage'[j] = "Running" /\ exec[j] = "none"
  BY <1>1 DEF Requeued, Pooled, Footing, Lives, Life, Accepted
<1>3. Same(j)
  BY <1>1, <1>2 DEF Same, Steady, Lasting, Out
<1>4. ASSUME NEW k \in Jobs \ {j} PROVE Same(k)
  BY <1>1, <1>2 DEF Same, Steady, Lasting, Requeued, Pooled
<1> QED
  BY <1>3, <1>4

LEMMA SuppressSame ==
  ASSUME Footing, NEW j \in Jobs, NEW s, Suppress(j, s), UNCHANGED sub
  PROVE  \A k \in Jobs : Same(k)
<1> DEFINE st == [stage EXCEPT ![j] = "Finalizing"]
<1>1. CASE UNCHANGED <<stage, finishVars>>
  BY <1>1 DEF Same, Steady, Lasting, finishVars
<1>2. CASE /\ stage[j] \in {"Waiting", "DeferredReady", "Ready", "Handed"}
           /\ Requeued(st, stage')
           /\ exec' = [exec EXCEPT ![j] = "finish"]
  <2>1. /\ DOMAIN exec = Jobs /\ exec[j] = "none"
        /\ st[j] = "Finalizing" /\ \A k \in Jobs \ {j} : st[k] = stage[k]
    BY <1>2 DEF Footing, TypeOK, Lives, Life, Accepted
  <2> HIDE DEF st
  <2>2. stage'[j] = "Finalizing"
    BY <1>2, <2>1 DEF Requeued, Pooled
  <2>3. Same(j)
    BY <1>2, <2>1, <2>2 DEF Same, Steady, Lasting, Out
  <2>4. ASSUME NEW k \in Jobs \ {j} PROVE Same(k)
    BY <1>2, <2>1 DEF Same, Steady, Lasting, Requeued, Pooled
  <2> QED
    BY <2>3, <2>4
<1> QED
  BY <1>1, <1>2, SuppressPlaces DEF Footing

LEMMA ActivateSame ==
  ASSUME Footing, NEW j \in Jobs, NEW inl, ActivateReady(j, inl), UNCHANGED exec,
         \A k \in Jobs : /\ sub'[k] = "unjoining" <=> sub[k] = "unjoining"
                         /\ sub'[k] \in Asking => sub[k] \in Asking
  PROVE  \A k \in Jobs : Same(k)
<1>1. \/ UNCHANGED stage
      \/ /\ stage[j] = "Waiting"
         /\ \E x \in {"Ready", "DeferredReady"} : stage' = [stage EXCEPT ![j] = x]
  BY ActivatePlaces DEF Footing, Activatable
<1>2. DOMAIN stage = Jobs
  BY DEF Footing, TypeOK
<1> QED
  BY <1>1, <1>2 DEF Same, Steady, Lasting

LEMMA SubmissionSame ==
  ASSUME Footing, NEW j \in Jobs,
         ChargeRecord(j) \/ ChargeEdges(j) \/ Refuse(j) \/ CloseAttachment(j)
  PROVE  (\A k \in Jobs : Same(k)) /\ UNCHANGED <<group, status>>
<1> USE DEF submitVars, chargeVars, recordVars, queueVars, signalVars, finishVars,
  handVars, closeVars, Same, Steady, Lasting, Asking
<1>0. DOMAIN sub = Jobs /\ DOMAIN exec = Jobs
  BY DEF Footing, TypeOK
<1>1. CASE ChargeRecord(j)
  BY <1>0, <1>1 DEF ChargeRecord
<1>2. CASE ChargeEdges(j)
  BY <1>0, <1>2 DEF ChargeEdges
<1>3. CASE Refuse(j)
  BY <1>0, <1>3 DEF Refuse
<1>4. CASE CloseAttachment(j)
  BY <1>0, <1>4 DEF CloseAttachment, Attaching, Out
<1> QED
  BY <1>1, <1>2, <1>3, <1>4

LEMMA ClaimantSame ==
  ASSUME Footing, NEW j \in Jobs,
         ActivateSubmitted(j) \/ Cancel(j) \/ ClaimInline(j) \/ Help(j)
           \/ EnterWrapper(j)
  PROVE  (\A k \in Jobs : Same(k)) /\ UNCHANGED <<group, status>>
<1> USE DEF submitVars, chargeVars, recordVars, queueVars, signalVars, finishVars,
  handVars, closeVars
<1>0. DOMAIN sub = Jobs
  BY DEF Footing, TypeOK
<1>1. CASE ActivateSubmitted(j)
  <2> DEFINE inl == j \in inline
  <2>0. ActivateReady(j, inl)
    BY <1>1 DEF ActivateSubmitted
  <2>1. /\ UNCHANGED <<group, status, exec>>
        /\ \A k \in Jobs : /\ sub'[k] = "unjoining" <=> sub[k] = "unjoining"
                           /\ sub'[k] \in Asking => sub[k] \in Asking
    BY <1>0, <1>1 DEF ActivateSubmitted, Asking
  <2> HIDE DEF inl
  <2> QED
    BY <2>0, <2>1, ActivateSame
<1>2. CASE Cancel(j)
  BY <1>2, SuppressSame DEF Cancel
<1>3. CASE ClaimInline(j)
  <2>1. /\ UNCHANGED <<group, status>>
        /\ \A k \in Jobs : /\ sub'[k] = "unjoining" <=> sub[k] = "unjoining"
                           /\ sub'[k] \in Asking => sub[k] \in Asking
    BY <1>0, <1>3 DEF ClaimInline, Asking
  <2>2. CASE Claim("caller", j)
    BY <2>1, <2>2, ClaimSame
  <2>3. CASE UNCHANGED <<queueVars, finishVars>>
    BY <2>1, <2>3 DEF Same, Steady, Lasting
  <2> QED
    BY <1>3, <2>2, <2>3 DEF ClaimInline
<1>4. CASE Help(j)
  BY <1>4, ClaimSame DEF Help
<1>5. CASE EnterWrapper(j)
  BY <1>5, ClaimSame DEF EnterWrapper
<1> QED
  BY <1>1, <1>2, <1>3, <1>4, <1>5

LEMMA SettlementSame ==
  ASSUME Footing, NEW j \in Jobs,
         \/ \E o \in Outcomes : ReturnBody(j, o)
         \/ DeferFinish(j) \/ Publish(j) \/ Finalize(j) \/ LeavePublished(j)
  PROVE  /\ \A k \in Jobs : Same(k)
         /\ UNCHANGED group
         /\ \A s \in Signals : status[s] # None => status'[s] = status[s]
         /\ \A g \in Groups : status'[g] = status[g]
<1> USE DEF submitVars, chargeVars, recordVars, queueVars, signalVars, finishVars,
  handVars, closeVars, Same, Steady, Lasting
<1>0. Life(j) /\ DOMAIN stage = Jobs /\ DOMAIN exec = Jobs /\ DOMAIN status = Signals
  BY DEF Footing, TypeOK, Lives
<1>1. ASSUME NEW o \in Outcomes, ReturnBody(j, o)
      PROVE  (\A k \in Jobs : Same(k)) /\ UNCHANGED <<group, status>>
  BY <1>0, <1>1 DEF ReturnBody, Out, Life
<1>2. ASSUME DeferFinish(j) PROVE (\A k \in Jobs : Same(k)) /\ UNCHANGED <<group, status>>
  BY <1>0, <1>2 DEF DeferFinish, Out
<1>3. CASE Publish(j)
  <2>1. (\A k \in Jobs : Same(k)) /\ UNCHANGED group
    BY <1>0, <1>3 DEF Publish, Out
  <2>2. status[j] = None /\ status' = [status EXCEPT ![j] = outcome[j]] /\ j \notin Groups
    BY <1>0, <1>3, SchedulerAssumption DEF Publish, Life, Published
  <2> QED
    BY <1>0, <2>1, <2>2 DEF Signals
<1>4. ASSUME Finalize(j) PROVE (\A k \in Jobs : Same(k)) /\ UNCHANGED <<group, status>>
  BY <1>0, <1>4 DEF Finalize, Out, Life
<1>5. ASSUME LeavePublished(j) PROVE (\A k \in Jobs : Same(k)) /\ UNCHANGED <<group, status>>
  BY <1>0, <1>5 DEF LeavePublished, Retire, Out
<1> QED
  BY <1>1, <1>2, <1>3, <1>4, <1>5

LEMMA EdgeSame ==
  ASSUME Footing, NEW e \in Edges, EdgeStep(e)
  PROVE  (\A k \in Jobs : Same(k)) /\ UNCHANGED <<group, status>>
<1> USE DEF submitVars, chargeVars, recordVars, queueVars, signalVars, finishVars,
  handVars, closeVars
<1>1. CASE Subscribe(e) \/ DeliverEdge(e) \/ Detach(e)
  BY <1>1 DEF Subscribe, DeliverEdge, Detach, Same, Steady, Lasting
<1>2. CASE ActivateEdge(e)
  <2>1. ActivateReady(e[1], FALSE)
    BY <1>2 DEF ActivateEdge
  <2>2. UNCHANGED <<group, status, exec, sub>> /\ e[1] \in Jobs
    BY <1>2, EdgeEnds DEF ActivateEdge
  <2> QED
    BY <2>1, <2>2, ActivateSame
<1> QED
  BY <1>1, <1>2 DEF EdgeStep

LEMMA RestSame ==
  ASSUME Footing,
         \/ \E j \in Jobs : LeaveWrapper(j) \/ DiscardWrapper(j)
         \/ \E c \in Classes : Dispatch(c)
         \/ \E o \in offers : OfferStep(o)
         \/ \E d \in suppressing : SuppressDecided(d)
         \/ BeginShutdown \/ AbandonRuntime \/ AbandonCut \/ UNCHANGED vars
  PROVE  (\A k \in Jobs : Same(k)) /\ UNCHANGED <<group, status>>
<1> USE DEF submitVars, chargeVars, recordVars, queueVars, signalVars, finishVars,
  handVars, closeVars
<1>1. ASSUME NEW j \in Jobs, LeaveWrapper(j) \/ DiscardWrapper(j)
      PROVE  (\A k \in Jobs : Same(k)) /\ UNCHANGED <<group, status>>
  BY <1>1 DEF LeaveWrapper, DiscardWrapper, Same, Steady, Lasting
<1>2. ASSUME NEW c \in Classes, Dispatch(c)
      PROVE  (\A k \in Jobs : Same(k)) /\ UNCHANGED <<group, status>>
  <2>1. UNCHANGED <<group, status, sub, exec>> /\ Requeued(stage, stage')
    BY <1>2, DispatchPlaces DEF Dispatch, Footing
  <2> QED
    BY <2>1 DEF Requeued, Pooled, Same, Steady, Lasting
<1>3. ASSUME NEW o \in offers, OfferStep(o)
      PROVE  (\A k \in Jobs : Same(k)) /\ UNCHANGED <<group, status>>
  BY <1>3 DEF OfferStep, PublishOffer, RefuseOffer, Same, Steady, Lasting
<1>4. ASSUME NEW d \in suppressing, SuppressDecided(d)
      PROVE  (\A k \in Jobs : Same(k)) /\ UNCHANGED <<group, status>>
  <2>1. d[1] \in Jobs
    BY DEF Footing, TypeOK
  <2> QED
    BY <1>4, <2>1, SuppressSame DEF SuppressDecided
<1>5. CASE BeginShutdown \/ AbandonRuntime \/ AbandonCut \/ UNCHANGED vars
  BY <1>5 DEF BeginShutdown, AbandonRuntime, AbandonCut, vars, Same, Steady, Lasting
<1> QED
  BY <1>1, <1>2, <1>3, <1>4, <1>5

LEMMA GroupSame ==
  ASSUME NEW g \in Groups, Seal(g) \/ PublishGroup(g)
  PROVE  \A k \in Jobs : Same(k)
BY DEF Seal, PublishGroup, submitVars, queueVars, finishVars, Same, Steady, Lasting

\* Every step but four leaves the jobs in their groups and their admissions.
LEMMA SameStep ==
  ASSUME Footing, [Next]_vars
  PROVE  \/ \E j \in Jobs : Submit(j) \/ Accept(j) \/ Unjoin(j) \/ Leave(j)
         \/ \E g \in Groups : Seal(g) \/ PublishGroup(g)
         \/ /\ \A k \in Jobs : Same(k)
            /\ UNCHANGED group
            /\ \A s \in Signals : status[s] # None => status'[s] = status[s]
            /\ \A g \in Groups : status'[g] = status[g]
<1> DEFINE Rest == /\ \A k \in Jobs : Same(k)
                   /\ UNCHANGED group
                   /\ \A s \in Signals : status[s] # None => status'[s] = status[s]
                   /\ \A g \in Groups : status'[g] = status[g]
<1>0. (\A k \in Jobs : Same(k)) /\ UNCHANGED <<group, status>> => Rest
  OBVIOUS
<1> HIDE DEF Rest
<1>1. CASE Environment
  BY <1>0, <1>1, ClaimantSame, RestSame DEF Environment, Rest
<1>2. CASE System
  <2>1. ASSUME NEW j \in Jobs, SubmitStep(j) PROVE Accept(j) \/ Unjoin(j) \/ Rest
    BY <1>0, <2>1, SubmissionSame, ClaimantSame DEF SubmitStep
  <2>2. ASSUME NEW j \in Jobs, WrapperStep(j) PROVE Rest
    BY <1>0, <2>2, ClaimantSame, RestSame DEF WrapperStep
  <2>3. ASSUME NEW j \in Jobs, SettleStep(j) PROVE Leave(j) \/ Rest
    BY <2>3, SettlementSame DEF SettleStep, Rest
  <2>4. ASSUME NEW e \in Edges, EdgeStep(e) PROVE Rest
    BY <1>0, <2>4, EdgeSame
  <2> QED
    BY <1>0, <1>2, <2>1, <2>2, <2>3, <2>4, RestSame DEF System, Rest
<1>3. CASE UNCHANGED vars
  BY <1>0, <1>3, RestSame DEF Rest
<1> QED
  BY <1>1, <1>2, <1>3 DEF Next

LEMMA CompaniesInit == Init => Companies
<1> SUFFICES ASSUME Init PROVE Companies
  OBVIOUS
<1>1. \A g \in Groups : Present(g) = {} /\ Gone(g) = {}
  BY DEF Init, Present, Gone, Members, Out
<1>2. ASSUME NEW g \in Groups PROVE Company(g)
  BY <1>1, FS_EmptySet DEF Init, Company, Signals
<1> QED
  BY <1>2 DEF Init, Companies

LEMMA CompaniesStep == Footing /\ Companies /\ [Next]_vars => Companies'
<1> SUFFICES ASSUME Footing, Companies, [Next]_vars PROVE Companies'
  OBVIOUS
<1>1. ASSUME NEW j \in Jobs, Submit(j) PROVE Companies'
  <2>1. /\ UNCHANGED <<group, status, stage, exec>> /\ DOMAIN sub = Jobs /\ sub[j] = "idle"
        /\ sub' = [sub EXCEPT ![j] = IF Admitted(j) THEN "admitted" ELSE "rejected"]
    BY <1>1 DEF Submit, MaySubmit, queueVars, signalVars, finishVars, Footing, TypeOK
  <2>2. \A k \in Jobs : Steady(k)
    BY <2>1 DEF Steady
  <2> QED
    BY <2>1, <2>2, SteadyCompanies
<1> QED
  BY <1>1, SameStep, AcceptCompanies, UnjoinCompanies, LeaveCompanies, SealCompanies,
    PublishCompanies, SteadyCompanies DEF Same

\* A published group speaks for every member it ever accepted (GroupInner::finish
\* and seal, execution/group.rs).
THEOREM TruthOfGroups == Spec => []GroupTruth
<1>1. Footing /\ Companies => GroupTruth
  <2> SUFFICES ASSUME Footing, Companies, NEW g \in Groups, status[g] # None
               PROVE  /\ group[g].sealed
                      /\ \A j \in Members(g) : stage[j] # "absent" => exec[j] \in Out
                      /\ status[g] = "Succeeded" <=>
                           \A j \in Members(g) : stage[j] # "absent" => status[j] = "Succeeded"
    BY DEF GroupTruth, Out
  <2>1. group[g].sealed /\ Cardinality(Present(g)) = 0 /\ Company(g)
    BY DEF Companies, Company
  <2>2. Present(g) = {}
    BY <2>1, PresentFinite, FS_EmptySet
  <2>3. \A j \in Members(g) : stage[j] # "absent" => exec[j] \in Out
    BY <2>2 DEF Present
  <2>4. \A j \in Members(g) : exec[j] \in Out => stage[j] # "absent"
    BY DEF Footing, Lives, Life, Out, Accepted, Members
  <2>5. status[g] = "Succeeded" <=> ~group[g].failed
    BY <2>1 DEF Company
  <2>6. group[g].failed <=> \E j \in Gone(g) : status[j] # "Succeeded"
    BY <2>1 DEF Company
  <2> QED
    BY <2>1, <2>3, <2>4, <2>5, <2>6 DEF Gone
<1> QED
  BY <1>1, FootingInit, FootingStep, CompaniesInit, CompaniesStep, PTL DEF Spec

-----------------------------------------------------------------------------
(* Admissions *)

LEMMA ClosedStep ==
  ASSUME Footing, [Next]_vars, phase = "Closing", Admissions = {}
  PROVE  Admissions' = {}
<1>0. ASSUME NEW k \in Jobs
      PROVE  sub[k] \notin Asking /\ (stage[k] = "absent" \/ exec[k] = "done")
  BY DEF Admissions, Asking
<1>1. \A j \in Jobs : ~Accept(j) /\ ~Unjoin(j) /\ ~Leave(j)
  BY <1>0 DEF Accept, Unjoin, Leave, Asking, Footing, Lives, Life, Accepted
<1>2. ASSUME NEW j \in Jobs, Submit(j) PROVE Admissions' = {}
  <2>1. ~Admitted(j)
    <3> SUFFICES ASSUME Admitted(j) PROVE FALSE
      OBVIOUS
    <3>1. Parent[j] \in Jobs /\ exec[Parent[j]] = "body"
      BY <1>2, SchedulerAssumption DEF Admitted, Submit, MaySubmit
    <3> QED
      BY <1>0, <3>1 DEF Footing, Lives, Life, Accepted
  <2>2. /\ sub' = [sub EXCEPT ![j] = "rejected"] /\ UNCHANGED <<stage, exec>>
        /\ DOMAIN sub = Jobs
    BY <1>2, <2>1 DEF Submit, queueVars, finishVars, Footing, TypeOK
  <2> QED
    BY <1>0, <2>2 DEF Admissions, Asking
<1>3. ASSUME \A k \in Jobs : Same(k) PROVE Admissions' = {}
  BY <1>0, <1>3 DEF Same, Steady, Lasting, Admissions, Asking, Footing, Lives, Life, Accepted, Out
<1> QED
  BY <1>1, <1>2, <1>3, SameStep, GroupSame

\* A closed runtime without admissions stays without (runtime.rs:637-648).
THEOREM StayClosed == Spec => ClosedStaysEmpty
<1>1. Footing /\ [Next]_vars => [phase = "Closing" /\ Admissions = {} => Admissions' = {}]_vars
  BY ClosedStep
<1> QED
  BY <1>1, FootingInit, FootingStep, PTL DEF Spec, ClosedStaysEmpty

-----------------------------------------------------------------------------
(* Why a job is suppressed *)

\* The suppression d tells why its job must not run.
Reason(d) ==
  \/ d[2] = "Abandoned" /\ abandoned
  \/ d[2] = "PrerequisiteFailed" /\ d[1] \in SuccessOnly /\ d[1] \in failed

\* Every suppression under way has its reason.
Reasons == \A d \in suppressing : Reason(d)

LEMMA KeptReasons ==
  ASSUME Reasons, suppressing' \subseteq suppressing, failed \subseteq failed',
         abandoned => abandoned'
  PROVE  Reasons'
BY DEF Reasons, Reason

LEMMA ActivateReasons ==
  ASSUME Footing, Reasons, NEW j \in Jobs, NEW inl, ActivateReady(j, inl),
         UNCHANGED <<failed, abandoned>>
  PROVE  Reasons'
<1>1. \/ suppressing' = suppressing
      \/ /\ Doomed(j)
         /\ suppressing' = suppressing \cup
              {<<j, IF abandoned THEN "Abandoned" ELSE "PrerequisiteFailed">>}
  BY ActivatePlaces DEF Footing
<1> QED
  BY <1>1 DEF Reasons, Reason, Doomed

LEMMA ReasonsInit == Init => Reasons
BY DEF Init, Reasons

LEMMA ReasonsStep == Footing /\ Reasons /\ [Next]_vars => Reasons'
<1> SUFFICES ASSUME Footing, Reasons, [Next]_vars PROVE Reasons'
  OBVIOUS
<1> USE DEF submitVars, chargeVars, recordVars, queueVars, signalVars, finishVars,
  handVars, closeVars
<1>0. UNCHANGED <<suppressing, failed, abandoned>> => Reasons'
  BY KeptReasons
<1>1. ASSUME NEW j \in Jobs, ActivateSubmitted(j) PROVE Reasons'
  <2> DEFINE inl == j \in inline
  <2>1. ActivateReady(j, inl) /\ UNCHANGED <<failed, abandoned>>
    BY <1>1 DEF ActivateSubmitted
  <2> HIDE DEF inl
  <2> QED
    BY <2>1, ActivateReasons
<1>2. ASSUME NEW e \in Edges, EdgeStep(e) PROVE Reasons'
  <2>1. CASE ActivateEdge(e)
    <3>1. ActivateReady(e[1], FALSE)
      BY <2>1 DEF ActivateEdge
    <3>2. UNCHANGED <<failed, abandoned>> /\ e[1] \in Jobs
      BY <2>1, EdgeEnds DEF ActivateEdge
    <3> QED
      BY <3>1, <3>2, ActivateReasons
  <2>2. CASE DeliverEdge(e)
    BY <2>2, KeptReasons DEF DeliverEdge
  <2>3. CASE Subscribe(e) \/ Detach(e)
    BY <1>0, <2>3 DEF Subscribe, Detach
  <2> QED
    BY <1>2, <2>1, <2>2, <2>3 DEF EdgeStep
<1>3. ASSUME NEW j \in Jobs, SettleStep(j) PROVE Reasons'
  BY <1>0, <1>3 DEF SettleStep, ReturnBody, DeferFinish, Publish, Finalize, Leave,
    LeavePublished
<1>4. ASSUME NEW j \in Jobs, SubmitStep(j) PROVE Reasons'
  BY <1>0, <1>1, <1>4 DEF SubmitStep, ChargeRecord, ChargeEdges, Accept, Unjoin, Refuse,
    CloseAttachment, ClaimInline
<1>5. ASSUME NEW j \in Jobs, WrapperStep(j) PROVE Reasons'
  BY <1>0, <1>5 DEF WrapperStep, EnterWrapper, LeaveWrapper, DiscardWrapper
<1>6. CASE Environment
  BY <1>0, <1>6 DEF Environment, Submit, Cancel, Help, Seal, BeginShutdown, AbandonRuntime
<1>7. CASE AbandonCut
  BY <1>7 DEF AbandonCut, Reasons, Reason
<1>8. ASSUME NEW d \in suppressing, SuppressDecided(d) PROVE Reasons'
  BY <1>8, KeptReasons DEF SuppressDecided
<1>9. CASE UNCHANGED vars
  BY <1>0, <1>9 DEF vars
<1>10. CASE System
  <2>1. ASSUME NEW g \in Groups, PublishGroup(g) PROVE Reasons'
    BY <1>0, <2>1 DEF PublishGroup
  <2>2. ASSUME NEW c \in Classes, Dispatch(c) PROVE Reasons'
    BY <1>0, <2>2 DEF Dispatch
  <2>3. ASSUME NEW o \in offers, OfferStep(o) PROVE Reasons'
    BY <1>0, <2>3 DEF OfferStep, PublishOffer, RefuseOffer
  <2> QED
    BY <1>2, <1>3, <1>4, <1>5, <1>7, <1>8, <1>10, <2>1, <2>2, <2>3 DEF System
<1> QED
  BY <1>6, <1>9, <1>10 DEF Next

-----------------------------------------------------------------------------
(* Charges *)

\* Settlement steps after the charge has been returned.
Ended == {"leave", "groupPublish", "done"}

\* A submission or record that holds a charge.
Borrows(j) == sub[j] \notin {"idle", "admitted", "rejected"} /\ exec[j] \notin Ended

Borrowers == {j \in Jobs : Borrows(j)}

\* One that holds the edge charge too.
EdgeBorrowers == {j \in Jobs : Borrows(j) /\ sub[j] # "recorded"}

\* The dependency registrations charged for S.
Burden(S) == {e \in Edges : e[1] \in S}

\* The counters are what the borrowers hold.
Ledger ==
  /\ records = Cardinality(Borrowers) /\ records <= RecordLimit
  /\ edges = Cardinality(Burden(EdgeBorrowers)) /\ edges <= EdgeLimit

\* A job borrows as before.
Alike(k) ==
  /\ sub'[k] \in {"idle", "admitted", "rejected"} <=> sub[k] \in {"idle", "admitted", "rejected"}
  /\ sub'[k] = "recorded" <=> sub[k] = "recorded"
  /\ exec'[k] \in Ended <=> exec[k] \in Ended

LEMMA EdgesFinite == IsFiniteSet(Edges)
<1> DEFINE f == [j \in Jobs |-> EdgesOf(j)]
           T == {EdgesOf(j) : j \in Jobs}
<1>1. f \in Surjection(Jobs, T)
  BY DEF Surjection
<1>2. IsFiniteSet(T)
  BY <1>1, SchedulerAssumption, FS_Surjection
<1>3. \A S \in T : IsFiniteSet(S)
  BY UnsettledFinite
<1>4. UNION T = Edges
  BY EdgeEnds DEF EdgesOf
<1> HIDE DEF T
<1> QED
  BY <1>2, <1>3, <1>4, FS_UNION

\* One more borrower bears its own edges.
LEMMA Burdened ==
  ASSUME NEW S, NEW j \in Jobs, j \notin S
  PROVE  /\ IsFiniteSet(Burden(S)) /\ Cardinality(Burden(S)) \in Nat
         /\ Cardinality(Burden(S \cup {j})) = Cardinality(Burden(S)) + Cardinality(Prereqs[j])
<1>1. IsFiniteSet(Burden(S)) /\ Cardinality(Burden(S)) \in Nat
  BY EdgesFinite, FS_Subset, FS_CardinalityType DEF Burden
<1>2. Burden(S \cup {j}) = Burden(S) \cup EdgesOf(j) /\ Burden(S) \cap EdgesOf(j) = {}
  BY DEF Burden, EdgesOf
<1>3. IsFiniteSet(EdgesOf(j)) /\ Cardinality(EdgesOf(j)) = Cardinality(Prereqs[j])
  BY UnsettledFinite
<1>4. Cardinality(Burden(S) \cup EdgesOf(j)) =
        Cardinality(Burden(S)) + Cardinality(EdgesOf(j)) - Cardinality({})
  BY <1>1, <1>2, <1>3, FS_Union
<1>5. Cardinality({}) = 0 /\ Cardinality(EdgesOf(j)) \in Nat
  BY <1>3, FS_EmptySet, FS_CardinalityType
<1>6. Cardinality(Burden(S \cup {j})) = Cardinality(Burden(S)) + Cardinality(EdgesOf(j))
  BY <1>1, <1>2, <1>4, <1>5
<1> QED
  BY <1>1, <1>3, <1>6

LEMMA BorrowersFinite ==
  /\ IsFiniteSet(Borrowers) /\ Cardinality(Borrowers) \in Nat
  /\ Cardinality(Burden(EdgeBorrowers)) \in Nat
BY SchedulerAssumption, EdgesFinite, FS_Subset, FS_CardinalityType DEF Borrowers, Burden

LEMMA LedgerKept ==
  ASSUME Ledger, UNCHANGED <<records, edges>>, \A k \in Jobs : Alike(k)
  PROVE  Ledger'
<1>1. Borrowers' = Borrowers /\ EdgeBorrowers' = EdgeBorrowers
  BY DEF Borrowers, EdgeBorrowers, Borrows, Alike
<1>2. Burden(EdgeBorrowers)' = Burden(EdgeBorrowers)
  BY <1>1 DEF Burden
<1> QED
  BY <1>1, <1>2 DEF Ledger

\* A submission that is not returning has settled nothing.
LEMMA NothingEnded ==
  ASSUME Footing, NEW j \in Jobs, sub[j] \notin Returning
  PROVE  exec[j] = "none"
BY DEF Footing, Lives, Life, Returning

LEMMA ChargeLedger ==
  ASSUME Footing, Ledger, NEW j \in Jobs, ChargeRecord(j)
  PROVE  Ledger'
<1>0. /\ DOMAIN sub = Jobs /\ sub[j] = "admitted" /\ exec[j] = "none" /\ UNCHANGED <<edges, exec>>
      /\ records \in Int /\ RecordLimit \in Int
  BY NothingEnded, SchedulerAssumption DEF ChargeRecord, Footing, TypeOK, finishVars, Returning
<1>1. CASE UNCHANGED records /\ sub' = [sub EXCEPT ![j] = "rejected"]
  BY <1>0, <1>1, LedgerKept DEF Alike
<1>2. CASE /\ records < RecordLimit /\ records' = records + 1
           /\ sub' = [sub EXCEPT ![j] = IF Prereqs[j] = {} THEN "charged" ELSE "recorded"]
  <2>1. j \notin Borrowers /\ j \notin EdgeBorrowers /\ Borrowers' = Borrowers \cup {j}
    BY <1>0, <1>2 DEF Borrowers, EdgeBorrowers, Borrows, Ended
  <2>2. Cardinality(Borrowers') = Cardinality(Borrowers) + 1
    BY <2>1, BorrowersFinite, FS_AddElement
  <2>3. Cardinality(Burden(EdgeBorrowers)') = Cardinality(Burden(EdgeBorrowers))
    <3>1. CASE Prereqs[j] = {}
      <4>1. EdgeBorrowers' = EdgeBorrowers \cup {j}
        BY <1>0, <1>2, <3>1 DEF EdgeBorrowers, Borrows, Ended
      <4>2. Cardinality(Burden(EdgeBorrowers \cup {j})) = Cardinality(Burden(EdgeBorrowers)) + 0
        BY <2>1, <3>1, Burdened, FS_EmptySet
      <4> QED
        BY <4>1, <4>2, BorrowersFinite DEF Burden
    <3>2. CASE Prereqs[j] # {}
      <4>1. EdgeBorrowers' = EdgeBorrowers
        BY <1>0, <1>2, <3>2 DEF EdgeBorrowers, Borrows, Ended
      <4> QED
        BY <4>1 DEF Burden
    <3> QED
      BY <3>1, <3>2
  <2> QED
    BY <1>0, <1>2, <2>2, <2>3 DEF Ledger
<1> QED
  BY <1>1, <1>2 DEF ChargeRecord

LEMMA ChargeEdgesLedger ==
  ASSUME Footing, Ledger, NEW j \in Jobs, ChargeEdges(j)
  PROVE  Ledger'
<1> DEFINE n == Cardinality(Prereqs[j])
<1>0. /\ DOMAIN sub = Jobs /\ sub[j] = "recorded" /\ exec[j] = "none" /\ UNCHANGED exec
      /\ records \in Int /\ edges \in Int /\ RecordLimit \in Int /\ EdgeLimit \in Int /\ n \in Nat
  BY NothingEnded, SchedulerAssumption, FiniteEdges
    DEF ChargeEdges, Footing, TypeOK, finishVars, Returning
<1>1. j \in Borrowers /\ j \notin EdgeBorrowers
  BY <1>0 DEF Borrowers, EdgeBorrowers, Borrows, Ended
<1>2. CASE /\ edges + n <= EdgeLimit /\ edges' = edges + n /\ UNCHANGED records
           /\ sub' = [sub EXCEPT ![j] = "charged"]
  <2>1. Borrowers' = Borrowers /\ EdgeBorrowers' = EdgeBorrowers \cup {j}
    BY <1>0, <1>1, <1>2 DEF Borrowers, EdgeBorrowers, Borrows, Ended
  <2>2. Cardinality(Burden(EdgeBorrowers)') = Cardinality(Burden(EdgeBorrowers)) + n
    <3>1. Cardinality(Burden(EdgeBorrowers \cup {j})) = Cardinality(Burden(EdgeBorrowers)) + n
      BY <1>1, Burdened
    <3> QED
      BY <2>1, <3>1 DEF Burden
  <2> QED
    BY <1>2, <2>1, <2>2 DEF Ledger
<1>3. CASE records' = records - 1 /\ UNCHANGED edges /\ sub' = [sub EXCEPT ![j] = "rejected"]
  <2>1. Borrowers' = Borrowers \ {j} /\ EdgeBorrowers' = EdgeBorrowers
    BY <1>0, <1>1, <1>3 DEF Borrowers, EdgeBorrowers, Borrows, Ended
  <2>2. Cardinality(Borrowers') = Cardinality(Borrowers) - 1
    BY <1>1, <2>1, BorrowersFinite, FS_RemoveElement
  <2>3. Burden(EdgeBorrowers)' = Burden(EdgeBorrowers)
    BY <2>1 DEF Burden
  <2> QED
    BY <1>0, <1>3, <2>2, <2>3 DEF Ledger
<1> QED
  BY <1>2, <1>3 DEF ChargeEdges

\* A job that returns its whole charge.
LEMMA ReturnLedger ==
  ASSUME Footing, Ledger, NEW j \in EdgeBorrowers, ~Borrows(j)',
         \A k \in Jobs \ {j} : sub'[k] = sub[k] /\ exec'[k] = exec[k],
         records' = records - 1, edges' = edges - Cardinality(Prereqs[j])
  PROVE  Ledger'
<1>1. /\ j \in Jobs /\ j \in Borrowers
      /\ Borrowers' = Borrowers \ {j} /\ EdgeBorrowers' = EdgeBorrowers \ {j}
  BY DEF Borrowers, EdgeBorrowers, Borrows
<1>2. Cardinality(Borrowers') = Cardinality(Borrowers) - 1
  BY <1>1, BorrowersFinite, FS_RemoveElement
<1>3. Cardinality(Burden(EdgeBorrowers)) =
        Cardinality(Burden(EdgeBorrowers \ {j})) + Cardinality(Prereqs[j])
  <2>1. (EdgeBorrowers \ {j}) \cup {j} = EdgeBorrowers /\ j \notin EdgeBorrowers \ {j}
    OBVIOUS
  <2> QED
    BY <1>1, <2>1, Burdened
<1>4. Burden(EdgeBorrowers)' = Burden(EdgeBorrowers \ {j})
  BY <1>1 DEF Burden
<1>5. /\ Cardinality(Prereqs[j]) \in Nat /\ RecordLimit \in Int /\ EdgeLimit \in Int
      /\ records \in Int /\ edges \in Int
      /\ Cardinality(Burden(EdgeBorrowers \ {j})) \in Nat
  <2>1. j \notin EdgeBorrowers \ {j}
    OBVIOUS
  <2>2. Cardinality(Burden(EdgeBorrowers \ {j})) \in Nat
    BY <1>1, <2>1, Burdened
  <2>3. records \in Int /\ edges \in Int
    BY DEF Footing, TypeOK
  <2> QED
    BY <1>1, <2>2, <2>3, FiniteEdges, SchedulerAssumption
<1>6. records' = Cardinality(Borrowers') /\ records' <= RecordLimit
  BY <1>2, <1>5 DEF Ledger
<1>7. edges' = Cardinality(Burden(EdgeBorrowers)') /\ edges' <= EdgeLimit
  <2>1. edges = Cardinality(Burden(EdgeBorrowers \ {j})) + Cardinality(Prereqs[j])
    BY <1>3 DEF Ledger
  <2>2. edges' = Cardinality(Burden(EdgeBorrowers \ {j})) /\ edges' <= edges
    BY <2>1, <1>5
  <2> QED
    BY <1>4, <1>5, <2>2 DEF Ledger
<1> QED
  BY <1>6, <1>7 DEF Ledger

LEMMA LeavingLedger ==
  ASSUME Footing, Ledger, NEW j \in Jobs, Refuse(j) \/ Finalize(j)
  PROVE  Ledger'
<1>1. DOMAIN sub = Jobs /\ DOMAIN exec = Jobs /\ Life(j)
  BY DEF Footing, TypeOK, Lives
<1>2. CASE Refuse(j)
  <2>1. exec[j] = "none"
    BY <1>2, NothingEnded DEF Refuse, Returning
  <2>2. j \in EdgeBorrowers /\ ~Borrows(j)'
    BY <1>1, <1>2, <2>1 DEF Refuse, EdgeBorrowers, Borrows, Ended
  <2> QED
    BY <1>1, <1>2, <2>2, ReturnLedger DEF Refuse, finishVars
<1>3. CASE Finalize(j)
  <2>1. sub[j] \in Returning /\ exec[j] = "finalize"
    BY <1>1, <1>3 DEF Finalize, Life
  <2>2. j \in EdgeBorrowers /\ ~Borrows(j)'
    BY <1>1, <1>3, <2>1 DEF Finalize, EdgeBorrowers, Borrows, Ended, Returning, submitVars
  <2> QED
    BY <1>1, <1>3, <2>2, ReturnLedger DEF Finalize, submitVars
<1> QED
  BY <1>2, <1>3

LEMMA ClaimAlike ==
  ASSUME Footing, NEW who, NEW j \in Jobs, Claim(who, j),
         UNCHANGED sub \/ (sub[j] = "claiming" /\ sub' = [sub EXCEPT ![j] = "returned"])
  PROVE  \A k \in Jobs : Alike(k)
<1>1. exec' = [exec EXCEPT ![j] = "body"] /\ DOMAIN exec = Jobs /\ exec[j] = "none" /\ DOMAIN sub = Jobs
  BY DEF Claim, Claimable, Footing, Lives, Life, TypeOK, Accepted
<1> QED
  BY <1>1 DEF Alike, Ended

LEMMA SuppressAlike ==
  ASSUME Footing, NEW j \in Jobs, NEW s, Suppress(j, s), UNCHANGED sub
  PROVE  \A k \in Jobs : Alike(k)
<1>1. CASE UNCHANGED <<stage, finishVars>>
  BY <1>1 DEF Alike, finishVars
<1>2. CASE /\ stage[j] \in {"Waiting", "DeferredReady", "Ready", "Handed"}
           /\ exec' = [exec EXCEPT ![j] = "finish"]
  <2>1. DOMAIN exec = Jobs /\ exec[j] = "none"
    BY <1>2 DEF Footing, TypeOK, Lives, Life, Accepted
  <2> QED
    BY <1>2, <2>1 DEF Alike, Ended
<1> QED
  BY <1>1, <1>2, SuppressPlaces DEF Footing

\* What leaves the ledger alone.
LEMMA SubmissionAlike ==
  ASSUME Footing, NEW j \in Jobs, Submit(j) \/ Accept(j) \/ Unjoin(j) \/ CloseAttachment(j)
  PROVE  (\A k \in Jobs : Alike(k)) /\ UNCHANGED <<records, edges>>
<1> USE DEF chargeVars, finishVars, Alike
<1>0. DOMAIN sub = Jobs /\ DOMAIN exec = Jobs
  BY DEF Footing, TypeOK
<1>1. CASE Submit(j)
  BY <1>0, <1>1 DEF Submit, MaySubmit
<1>2. CASE Accept(j)
  <2>1. /\ \E x \in {"attaching", "unjoining", "refused"} : sub' = [sub EXCEPT ![j] = x]
        /\ sub[j] = "charged" /\ UNCHANGED <<exec, records, edges>>
    BY <1>2 DEF Accept
  <2> QED
    BY <1>0, <2>1
<1>3. CASE Unjoin(j)
  BY <1>0, <1>3 DEF Unjoin
<1>4. CASE CloseAttachment(j)
  BY <1>0, <1>4 DEF CloseAttachment, Attaching, Ended
<1> QED
  BY <1>1, <1>2, <1>3, <1>4

LEMMA ClaimantAlike ==
  ASSUME Footing, NEW j \in Jobs,
         ActivateSubmitted(j) \/ Cancel(j) \/ ClaimInline(j) \/ Help(j)
           \/ EnterWrapper(j)
  PROVE  (\A k \in Jobs : Alike(k)) /\ UNCHANGED <<records, edges>>
<1> USE DEF chargeVars, submitVars
<1>0. DOMAIN sub = Jobs
  BY DEF Footing, TypeOK
<1>1. CASE ActivateSubmitted(j)
  <2>1. /\ \E x \in {"claiming", "returned"} : sub' = [sub EXCEPT ![j] = x]
        /\ sub[j] = "activating" /\ UNCHANGED <<exec, records, edges>>
    BY <1>1 DEF ActivateSubmitted, finishVars
  <2> QED
    BY <1>0, <2>1 DEF Alike
<1>2. CASE Cancel(j)
  BY <1>2, SuppressAlike DEF Cancel
<1>3. CASE ClaimInline(j)
  <2>1. /\ sub[j] = "claiming" /\ sub' = [sub EXCEPT ![j] = "returned"]
        /\ UNCHANGED <<records, edges>>
    BY <1>3 DEF ClaimInline
  <2>2. CASE Claim("caller", j)
    BY <2>1, <2>2, ClaimAlike
  <2>3. CASE UNCHANGED <<queueVars, finishVars>>
    BY <1>0, <2>1, <2>3 DEF Alike, finishVars
  <2> QED
    BY <1>3, <2>2, <2>3 DEF ClaimInline
<1>4. CASE Help(j)
  BY <1>4, ClaimAlike DEF Help
<1>5. CASE EnterWrapper(j)
  BY <1>5, ClaimAlike DEF EnterWrapper
<1> QED
  BY <1>1, <1>2, <1>3, <1>4, <1>5

LEMMA SettlementAlike ==
  ASSUME Footing, NEW j \in Jobs,
         \/ \E o \in Outcomes : ReturnBody(j, o)
         \/ DeferFinish(j) \/ Publish(j) \/ Leave(j) \/ LeavePublished(j)
  PROVE  (\A k \in Jobs : Alike(k)) /\ UNCHANGED <<records, edges>>
<1> USE DEF chargeVars, submitVars, Alike, Ended
<1>0. DOMAIN exec = Jobs
  BY DEF Footing, TypeOK
<1>1. ASSUME NEW o \in Outcomes, ReturnBody(j, o)
      PROVE  (\A k \in Jobs : Alike(k)) /\ UNCHANGED <<records, edges>>
  BY <1>0, <1>1 DEF ReturnBody
<1>2. CASE DeferFinish(j) \/ Publish(j)
  BY <1>0, <1>2 DEF DeferFinish, Publish
<1>3. CASE Leave(j)
  <2>1. /\ \E x \in {"groupPublish", "done"} : exec' = [exec EXCEPT ![j] = x]
        /\ exec[j] = "leave" /\ UNCHANGED <<sub, records, edges>>
    BY <1>3 DEF Leave, Retire
  <2> QED
    BY <1>0, <2>1
<1>4. CASE LeavePublished(j)
  BY <1>0, <1>4 DEF LeavePublished, Retire
<1> QED
  BY <1>1, <1>2, <1>3, <1>4

LEMMA EdgeAlike ==
  ASSUME Footing, NEW e \in Edges, EdgeStep(e)
  PROVE  (\A k \in Jobs : Alike(k)) /\ UNCHANGED <<records, edges>>
BY DEF EdgeStep, Subscribe, DeliverEdge, ActivateEdge, Detach, chargeVars, submitVars,
  finishVars, Alike

LEMMA RestAlike ==
  ASSUME Footing,
         \/ \E j \in Jobs : LeaveWrapper(j) \/ DiscardWrapper(j)
         \/ \E g \in Groups : Seal(g) \/ PublishGroup(g)
         \/ \E c \in Classes : Dispatch(c)
         \/ \E o \in offers : OfferStep(o)
         \/ \E d \in suppressing : SuppressDecided(d)
         \/ BeginShutdown \/ AbandonRuntime \/ AbandonCut \/ UNCHANGED vars
  PROVE  (\A k \in Jobs : Alike(k)) /\ UNCHANGED <<records, edges>>
<1> USE DEF chargeVars, submitVars, finishVars
<1>0. UNCHANGED <<sub, exec, records, edges>> =>
        (\A k \in Jobs : Alike(k)) /\ UNCHANGED <<records, edges>>
  BY DEF Alike
<1>1. ASSUME NEW j \in Jobs, LeaveWrapper(j) \/ DiscardWrapper(j)
      PROVE  UNCHANGED <<sub, exec, records, edges>>
  BY <1>1 DEF LeaveWrapper, DiscardWrapper
<1>2. ASSUME NEW g \in Groups, Seal(g) \/ PublishGroup(g)
      PROVE  UNCHANGED <<sub, exec, records, edges>>
  BY <1>2 DEF Seal, PublishGroup
<1>3. ASSUME NEW c \in Classes, Dispatch(c)
      PROVE  UNCHANGED <<sub, exec, records, edges>>
  BY <1>3 DEF Dispatch
<1>4. ASSUME NEW o \in offers, OfferStep(o)
      PROVE  UNCHANGED <<sub, exec, records, edges>>
  BY <1>4 DEF OfferStep, PublishOffer, RefuseOffer
<1>5. ASSUME NEW d \in suppressing, SuppressDecided(d)
      PROVE  (\A k \in Jobs : Alike(k)) /\ UNCHANGED <<records, edges>>
  <2>1. d[1] \in Jobs
    BY DEF Footing, TypeOK
  <2> QED
    BY <1>5, <2>1, SuppressAlike DEF SuppressDecided
<1>6. CASE BeginShutdown \/ AbandonRuntime \/ AbandonCut \/ UNCHANGED vars
  BY <1>0, <1>6 DEF BeginShutdown, AbandonRuntime, AbandonCut, vars
<1> QED
  BY <1>0, <1>1, <1>2, <1>3, <1>4, <1>5, <1>6

LEMMA LedgerInit == Init => Ledger
<1> SUFFICES ASSUME Init PROVE Ledger
  OBVIOUS
<1>1. Borrowers = {} /\ Burden(EdgeBorrowers) = {}
  BY DEF Init, Borrowers, EdgeBorrowers, Borrows, Burden
<1> QED
  BY <1>1, FS_EmptySet, SchedulerAssumption DEF Init, Ledger

LEMMA LedgerStep == Footing /\ Ledger /\ [Next]_vars => Ledger'
<1> SUFFICES ASSUME Footing, Ledger, [Next]_vars PROVE Ledger'
  OBVIOUS
<1>1. CASE Environment
  BY <1>1, LedgerKept, SubmissionAlike, ClaimantAlike, RestAlike DEF Environment
<1>2. CASE System
  <2>1. ASSUME NEW j \in Jobs, SubmitStep(j) PROVE Ledger'
    BY <2>1, LedgerKept, SubmissionAlike, ClaimantAlike, ChargeLedger, ChargeEdgesLedger,
      LeavingLedger DEF SubmitStep
  <2>2. ASSUME NEW j \in Jobs, WrapperStep(j) PROVE Ledger'
    BY <2>2, LedgerKept, ClaimantAlike, RestAlike DEF WrapperStep
  <2>3. ASSUME NEW j \in Jobs, SettleStep(j) PROVE Ledger'
    BY <2>3, LedgerKept, SettlementAlike, LeavingLedger DEF SettleStep
  <2>4. ASSUME NEW e \in Edges, EdgeStep(e) PROVE Ledger'
    BY <2>4, LedgerKept, EdgeAlike
  <2> QED
    BY <1>2, <2>1, <2>2, <2>3, <2>4, LedgerKept, RestAlike DEF System
<1>3. CASE UNCHANGED vars
  BY <1>3, LedgerKept, RestAlike
<1> QED
  BY <1>1, <1>2, <1>3 DEF Next

\* Whatever way a job ends, and whatever its attachment races, its charge is
\* back once and its registrations are gone (Accounting::acquire and
\* AccountingLease::drop, scheduler.rs:301-360; finish_record, 1926-1973).
THEOREM NothingIsLeaked == Spec => []NothingLeaks
<1>1. Footing /\ Ledger => ChargesExact
  <2> SUFFICES ASSUME Footing, Ledger PROVE ChargesExact
    OBVIOUS
  <2>1. ASSUME NEW j \in Jobs
        PROVE  HoldsRecord(j) <=> Borrows(j)
    <3>1. Life(j) /\ sub[j] \in {"idle", "admitted", "recorded", "charged",
                       "unjoining", "refused", "rejected", "attaching",
                       "activating", "claiming", "returned"} /\ stage[j] \in Stages
      BY DEF Footing, Lives, TypeOK
    <3>2. stage[j] = "gone" <=> exec[j] \in Ended /\ stage[j] # "absent"
      <4>1. exec[j] \in {"none", "body", "finish", "deferred", "finalize", "leave",
                         "groupPublish", "done"}
        BY DEF Footing, TypeOK
      <4> QED
        BY <3>1, <4>1 DEF Life, Stages, Ended, Accepted
    <3>3. stage[j] = "absent" => exec[j] = "none"
      BY <3>1 DEF Life
    <3> QED
      BY <3>1, <3>2, <3>3 DEF HoldsRecord, Live, Borrows, Life, Ended, Returning
  <2>2. {j \in Jobs : HoldsRecord(j)} = Borrowers
    BY <2>1 DEF Borrowers
  <2>3. {e \in Edges : HoldsEdges(e[1])} = Burden(EdgeBorrowers)
    BY <2>1, EdgeEnds DEF HoldsEdges, Burden, EdgeBorrowers
  <2> QED
    BY <2>2, <2>3 DEF Ledger, ChargesExact
<1> QED
  BY <1>1, ReleaseEdges, FootingInit, FootingStep, LedgerInit, LedgerStep, PTL
    DEF Spec, NothingLeaks

-----------------------------------------------------------------------------
(* Lengths and orders of queues *)

\* A list is as long as its members are many.
LEMMA ListsLength ==
  ASSUME NEW q, NEW S, Lists(q, S)
  PROVE  IsFiniteSet(S) /\ Len(q) = Cardinality(S) /\ Len(q) \in Nat
<1>1. q \in Seq(Jobs) /\ Len(q) \in Nat /\ q \in [1 .. Len(q) -> Jobs]
  BY LenProperties DEF Lists
<1>2. /\ \A a, b \in 1 .. Len(q) : q[a] = q[b] => a = b
      /\ \A x : x \in S <=> \E i \in 1 .. Len(q) : q[i] = x
  BY <1>1, ListsByPlace
<1> DEFINE f == [i \in 1 .. Len(q) |-> q[i]]
<1>3. f \in Injection(1 .. Len(q), S)
  BY <1>1, <1>2 DEF Injection, IsInjective
<1>4. f \in Surjection(1 .. Len(q), S)
  BY <1>1, <1>2 DEF Surjection
<1>5. IsFiniteSet(1 .. Len(q)) /\ Cardinality(1 .. Len(q)) = Len(q)
  BY <1>1, FS_Interval
<1>6. ExistsBijection(1 .. Len(q), S)
  BY <1>3, <1>4 DEF ExistsBijection, Bijection
<1> QED
  BY <1>1, <1>5, <1>6, FS_Bijection

LEMMA RangeByPlace ==
  ASSUME NEW q \in Seq(Jobs)
  PROVE  \A x : x \in Range(q) <=> \E i \in 1 .. Len(q) : q[i] = x
BY LenProperties DEF Range

LEMMA AheadByPlace ==
  ASSUME NEW q \in Seq(Jobs), NEW j, NEW k
  PROVE  Ahead(q, j, k) <=> \E a, b \in 1 .. Len(q) : a < b /\ q[a] = j /\ q[b] = k
BY LenProperties DEF Ahead

\* A prefix of a queue holds some of its jobs.
LEMMA PrefixRange ==
  ASSUME NEW p \in Seq(Jobs), NEW r \in Seq(Jobs)
  PROVE  Range(p) \subseteq Range(p \o r)
<1> DEFINE s == p \o r
<1>1. /\ Len(p) \in Nat /\ Len(r) \in Nat /\ s \in Seq(Jobs) /\ Len(s) = Len(p) + Len(r)
      /\ \A i \in 1 .. Len(p) + Len(r) : s[i] = IF i <= Len(p) THEN p[i] ELSE r[i - Len(p)]
  BY ConcatProperties, LenProperties
<1> HIDE DEF s
<1>2. \A i \in 1 .. Len(p) : i \in 1 .. Len(s) /\ s[i] = p[i]
  BY <1>1
<1>3. \A x \in Range(p) : \E i \in 1 .. Len(p) : p[i] = x
  BY RangeByPlace
<1>4. \A x : x \in Range(s) <=> \E i \in 1 .. Len(s) : s[i] = x
  BY <1>1, RangeByPlace
<1>5. Range(p) \subseteq Range(s)
  BY <1>2, <1>3, <1>4
<1> QED
  BY <1>5 DEF s

LEMMA ConcatJobs ==
  ASSUME NEW p \in Seq(Jobs), NEW r \in Seq(Jobs), NEW t \in Seq(Jobs)
  PROVE  Len(p \o r) = Len(p) + Len(r) /\ (p \o r) \o t = p \o (r \o t)
BY ConcatProperties, ConcatAssociative

\* Order within a concatenation.
LEMMA AheadConcat ==
  ASSUME NEW q \in Seq(Jobs), NEW r \in Seq(Jobs), NEW j, NEW k
  PROVE  Ahead(q \o r, j, k) <=>
           Ahead(q, j, k) \/ Ahead(r, j, k) \/ (j \in Range(q) /\ k \in Range(r))
<1> DEFINE n == Len(q)
           m == Len(r)
           s == q \o r
<1>1. n \in Nat /\ m \in Nat
  BY LenProperties
<1>2. /\ s \in Seq(Jobs) /\ Len(s) = n + m
      /\ \A i \in 1 .. n + m : s[i] = IF i <= n THEN q[i] ELSE r[i - n]
  BY ConcatProperties
<1>3. Ahead(s, j, k) <=> \E a, b \in 1 .. n + m : a < b /\ s[a] = j /\ s[b] = k
  <2> HIDE DEF s
  <2>1. Ahead(s, j, k) <=> \E a, b \in 1 .. Len(s) : a < b /\ s[a] = j /\ s[b] = k
    <3> HIDE DEF n, m
    <3>1. s \in Seq(Jobs)
      BY <1>2
    <3> QED
      BY <3>1, AheadByPlace
  <2> QED
    BY <1>2, <2>1
<1>4. /\ Ahead(q, j, k) <=> \E a, b \in 1 .. n : a < b /\ q[a] = j /\ q[b] = k
      /\ Ahead(r, j, k) <=> \E a, b \in 1 .. m : a < b /\ r[a] = j /\ r[b] = k
  BY AheadByPlace
<1>5. /\ j \in Range(q) <=> \E i \in 1 .. n : q[i] = j
      /\ k \in Range(r) <=> \E i \in 1 .. m : r[i] = k
  BY RangeByPlace
<1> HIDE DEF n, m, s
<1>6. ASSUME NEW i \in 1 .. n PROVE i \in 1 .. n + m /\ s[i] = q[i]
  BY <1>1, <1>2
<1>7. ASSUME NEW i \in 1 .. m PROVE n + i \in 1 .. n + m /\ s[n + i] = r[i]
  BY <1>1, <1>2
<1>8. ASSUME Ahead(q, j, k) PROVE Ahead(s, j, k)
  BY <1>3, <1>4, <1>6, <1>8
<1>9. ASSUME Ahead(r, j, k) PROVE Ahead(s, j, k)
  <2>1. PICK a \in 1 .. m, b \in 1 .. m : a < b /\ r[a] = j /\ r[b] = k
    BY <1>4, <1>9
  <2>2. n + a < n + b
    BY <1>1, <2>1
  <2> QED
    BY <1>3, <1>7, <2>1, <2>2
<1>10. ASSUME j \in Range(q), k \in Range(r) PROVE Ahead(s, j, k)
  <2>1. PICK a \in 1 .. n, b \in 1 .. m : q[a] = j /\ r[b] = k
    BY <1>5, <1>10
  <2>2. a < n + b
    BY <1>1
  <2> QED
    BY <1>3, <1>6, <1>7, <2>1, <2>2
<1>11. ASSUME Ahead(s, j, k)
       PROVE  Ahead(q, j, k) \/ Ahead(r, j, k) \/ (j \in Range(q) /\ k \in Range(r))
  <2>1. PICK a \in 1 .. n + m, b \in 1 .. n + m : a < b /\ s[a] = j /\ s[b] = k
    BY <1>3, <1>11
  <2>2. CASE b <= n
    <3>1. a \in 1 .. n /\ b \in 1 .. n /\ q[a] = j /\ q[b] = k
      BY <1>1, <1>2, <2>1, <2>2
    <3> QED
      BY <1>4, <2>1, <3>1
  <2>3. CASE a <= n /\ b > n
    <3>1. a \in 1 .. n /\ b - n \in 1 .. m /\ q[a] = j /\ r[b - n] = k
      BY <1>1, <1>2, <2>1, <2>3
    <3> QED
      BY <1>5, <3>1
  <2>4. CASE a > n
    <3>1. a - n \in 1 .. m /\ b - n \in 1 .. m /\ r[a - n] = j /\ r[b - n] = k /\ a - n < b - n
      BY <1>1, <1>2, <2>1, <2>4
    <3> QED
      BY <1>4, <3>1
  <2> QED
    BY <1>1, <2>2, <2>3, <2>4
<1> QED
  BY <1>8, <1>9, <1>10, <1>11 DEF s

\* Two jobs of a list are in one order only, and both in the list.
LEMMA AheadOnce ==
  ASSUME NEW q, NEW S, Lists(q, S), NEW j, NEW k, Ahead(q, j, k)
  PROVE  ~Ahead(q, k, j) /\ j \in S /\ k \in S
<1>1. q \in Seq(Jobs) /\ Len(q) \in Nat
  BY LenProperties DEF Lists
<1>2. /\ \A a, b \in 1 .. Len(q) : q[a] = q[b] => a = b
      /\ \A x : x \in S <=> \E i \in 1 .. Len(q) : q[i] = x
  BY <1>1, ListsByPlace
<1>3. PICK a \in 1 .. Len(q), b \in 1 .. Len(q) : a < b /\ q[a] = j /\ q[b] = k
  BY <1>1, AheadByPlace
<1>4. ~Ahead(q, k, j)
  <2> SUFFICES ASSUME NEW x \in 1 .. Len(q), NEW y \in 1 .. Len(q), x < y, q[x] = k, q[y] = j
               PROVE  FALSE
    BY <1>1, AheadByPlace
  <2>1. x = b /\ y = a
    BY <1>2, <1>3
  <2> QED
    BY <1>1, <1>3, <2>1
<1> QED
  BY <1>2, <1>3, <1>4

\* A queue is its prefix and the rest.
LEMMA CutQueue ==
  ASSUME NEW q \in Seq(Jobs), NEW n \in 0 .. Len(q)
  PROVE  LET p == SubSeq(q, 1, n)
             r == SubSeq(q, n + 1, Len(q))
         IN  /\ p \in Seq(Jobs) /\ r \in Seq(Jobs) /\ p \o r = q
             /\ Len(p) = n /\ Len(r) = Len(q) - n
<1>1. Len(q) \in Nat /\ \A i \in 1 .. Len(q) : q[i] \in Jobs
  BY LenProperties, ElementOfSeq
<1>2. SubSeq(q, 1, n) \in Seq(Jobs) /\ Len(SubSeq(q, 1, n)) = n
  <2>1. \A i \in 1 .. n : q[i] \in Jobs
    BY <1>1
  <2> QED
    BY <1>1, <2>1, SubSeqProperties
<1>3. SubSeq(q, n + 1, Len(q)) \in Seq(Jobs) /\ Len(SubSeq(q, n + 1, Len(q))) = Len(q) - n
  <2>1. \A i \in n + 1 .. Len(q) : q[i] \in Jobs
    BY <1>1
  <2>2. /\ SubSeq(q, n + 1, Len(q)) \in Seq(Jobs)
        /\ Len(SubSeq(q, n + 1, Len(q))) = IF n + 1 <= Len(q) THEN Len(q) - (n + 1) + 1 ELSE 0
    BY <1>1, <2>1, SubSeqProperties
  <2> QED
    BY <1>1, <2>2
<1>4. SubSeq(q, 1, n) \o SubSeq(q, n + 1, Len(q)) = q
  <2>1. 1 \in 1 .. Len(q) + 1 /\ n \in 1 - 1 .. Len(q) /\ Len(q) \in n .. Len(q)
    BY <1>1
  <2>2. SubSeq(q, 1, n) \o SubSeq(q, n + 1, Len(q)) = SubSeq(q, 1, Len(q))
    BY <2>1, ConcatAdjacentSubSeq
  <2> QED
    BY <2>2, SubSeqFull
<1> QED
  BY <1>2, <1>3, <1>4

\* Without one job, the others keep their order.
LEMMA AheadDequeue ==
  ASSUME NEW q, NEW S, Lists(q, S), NEW x, NEW j, NEW k, Ahead(Dequeue(q, x), j, k)
  PROVE  Ahead(q, j, k)
<1>1. q \in Seq(Jobs) /\ Len(q) \in Nat /\ DOMAIN q = 1 .. Len(q)
  BY LenProperties DEF Lists
<1>2. CASE \A i \in DOMAIN q : q[i] # x
  BY <1>2 DEF Dequeue
<1>3. CASE \E i \in DOMAIN q : q[i] = x
  <2> DEFINE i == CHOOSE m \in DOMAIN q : q[m] = x
             p == SubSeq(q, 1, i - 1)
             r == SubSeq(q, i + 1, Len(q))
             t == SubSeq(q, 1, i)
  <2>1. i \in 1 .. Len(q)
    BY <1>1, <1>3
  <2>2. Dequeue(q, x) = p \o r
    BY <1>3 DEF Dequeue, RemoveAt
  <2> HIDE DEF i
  <2>3. i \in 0 .. Len(q) /\ i - 1 \in 0 .. Len(q)
    BY <1>1, <2>1
  <2>4. t \in Seq(Jobs) /\ r \in Seq(Jobs) /\ t \o r = q
    BY <1>1, <2>3, CutQueue
  <2>5. p \in Seq(Jobs) /\ t = p \o <<q[i]>> /\ <<q[i]>> \in Seq(Jobs)
    <3>1. 1 \in 1 .. Len(q) /\ i \in 1 .. Len(q) /\ q[i] \in Jobs
      BY <1>1, <2>1, ElementOfSeq
    <3>2. t = p \o <<q[i]>>
      BY <1>1, <3>1, SubSeqRecursiveSecond
    <3> QED
      BY <1>1, <2>3, <3>1, <3>2, CutQueue
  <2> HIDE DEF p, r, t
  <2>6. Ahead(p, j, k) \/ Ahead(r, j, k) \/ (j \in Range(p) /\ k \in Range(r))
    BY <2>2, <2>4, <2>5, AheadConcat
  <2>7. Range(p) \subseteq Range(t)
    <3> DEFINE u == <<q[i]>>
    <3> HIDE DEF u
    <3> QED
      BY <2>5, PrefixRange DEF u
  <2>8. Ahead(p, j, k) => Ahead(t, j, k)
    <3> DEFINE u == <<q[i]>>
    <3> HIDE DEF u
    <3> QED
      BY <2>5, AheadConcat DEF u
  <2> QED
    BY <2>4, <2>6, <2>7, <2>8, AheadConcat
<1> QED
  BY <1>2, <1>3

-----------------------------------------------------------------------------
(* The window of a class *)

\* runnable counts the ready queue and what was handed out of it.
Sized(c, q, st) == q.runnable = Len(q.ready) + Cardinality(At(c, st, "Handed"))

\* Nothing is deferred while the window has room.
Full(c, q) == q.deferred # << >> => q.runnable >= RunnableLimit[c]

\* The window passes its limit by jobs of S only.
Within(c, q, st, S) ==
  q.runnable <= RunnableLimit[c] +
    Cardinality((At(c, st, "Ready") \cup At(c, st, "Handed")) \cap S)

LEMMA AtFinite ==
  ASSUME NEW c, NEW st, NEW x
  PROVE  IsFiniteSet(At(c, st, x)) /\ Cardinality(At(c, st, x)) \in Nat
BY SchedulerAssumption, FS_Subset, FS_CardinalityType DEF At

LEMMA WindowFinite ==
  ASSUME NEW c, NEW st, NEW S
  PROVE  LET W == (At(c, st, "Ready") \cup At(c, st, "Handed")) \cap S
         IN  IsFiniteSet(W) /\ Cardinality(W) \in Nat
<1>1. (At(c, st, "Ready") \cup At(c, st, "Handed")) \cap S \in SUBSET Jobs
  BY DEF At
<1> QED
  BY <1>1, SchedulerAssumption, FS_Subset, FS_CardinalityType

\* What promote_locked makes p of a queue q with stages st.
Repaired(c, q, st, p) ==
  /\ Sized(c, p.queue, p.stage) /\ Full(c, p.queue)
  /\ p.queue.handed = q.handed
  /\ p.queue.ready \o p.queue.deferred = q.ready \o q.deferred
  /\ At(c, p.stage, "Handed") = At(c, st, "Handed")
  /\ \A S : Within(c, q, st, S) => Within(c, p.queue, p.stage, S)

\* promote_locked fills the window as far as it goes, and keeps the order.
LEMMA PromoteSized ==
  ASSUME NEW c \in Classes, NEW q \in ClassState, NEW st \in [Jobs -> Stages],
         Holds(c, q, st), Sized(c, q, st), NEW ix, NEW p, p = Promote(c, q, st, ix)
  PROVE  Repaired(c, q, st, p)
<1> DEFINE pool == Reopened(q)
           f == Fitting(c, pool)
           t == SubSeq(pool.deferred, 1, f)
           rest == SubSeq(pool.deferred, f + 1, Len(pool.deferred))
           window == Range(q.ready) \ Range(pool.ready)
           entered == Range(t)
           H == At(c, st, "Handed")
           back == q.rebalance /\ q.deferred # << >>
           L == RunnableLimit[c]
<1>0. /\ q.ready \in Seq(Jobs) /\ Len(q.ready) \in Nat /\ q.deferred \in Seq(Jobs)
      /\ q.runnable \in Int /\ L \in Nat /\ Cardinality(H) \in Nat
  BY Fields, SchedulerAssumption, AtFinite
<1>1. /\ pool \in ClassState /\ pool.handed = q.handed
      /\ back => /\ pool.ready = << >> /\ pool.deferred = q.ready \o q.deferred
                 /\ pool.runnable = q.runnable - Len(q.ready)
      /\ ~back => pool = q
  BY ReopenedType DEF Reopened, ClassState
<1> HIDE DEF pool
<1>2. /\ pool.ready \in Seq(Jobs) /\ pool.deferred \in Seq(Jobs) /\ pool.runnable \in Int
      /\ Len(pool.ready) \in Nat /\ Len(pool.deferred) \in Nat
  BY <1>1, Fields
<1>3. /\ f \in 0 .. Len(pool.deferred)
      /\ f = Len(pool.deferred) \/ f = Room(L, pool.runnable)
      /\ f > 0 => pool.runnable + f <= L
      /\ f # Len(pool.deferred) => pool.runnable + f >= L
  <2>1. f = Smaller(Len(pool.deferred), Room(L, pool.runnable))
    BY DEF Fitting
  <2> HIDE DEF f, L
  <2> QED
    BY <1>0, <1>2, <2>1 DEF Smaller, Room
<1> HIDE DEF f
<1>4. /\ t \in Seq(Jobs) /\ rest \in Seq(Jobs) /\ t \o rest = pool.deferred
      /\ Len(t) = f /\ Len(rest) = Len(pool.deferred) - f
  <2> DEFINE d == pool.deferred
  <2> HIDE DEF d
  <2>1. d \in Seq(Jobs) /\ f \in 0 .. Len(d)
    BY <1>2, <1>3 DEF d
  <2> QED
    BY <2>1, CutQueue DEF d
<1>5. /\ p.queue.ready = pool.ready \o t /\ p.queue.deferred = rest
      /\ p.queue.runnable = pool.runnable + f /\ p.queue.handed = pool.handed
      /\ p.stage = [j \in Jobs |-> IF j \in entered THEN "Ready"
                                   ELSE IF j \in window THEN "DeferredReady" ELSE st[j]]
  <2>1. p.queue = Promotion(c, pool) /\ Promoted(c, pool) = t
    BY DEF Promote, Promoted, f, pool
  <2>2. /\ p.queue.ready = pool.ready \o t /\ p.queue.deferred = rest
        /\ p.queue.runnable = pool.runnable + f /\ p.queue.handed = pool.handed
    BY <1>1, <2>1 DEF Promotion, ClassState, f
  <2>3. p.stage = [j \in Jobs |-> IF j \in Range(Promoted(c, pool)) THEN "Ready"
                                  ELSE IF j \in window THEN "DeferredReady" ELSE st[j]]
    BY DEF Promote, pool
  <2> QED
    BY <2>1, <2>2, <2>3
<1>6. /\ Range(q.ready) = At(c, st, "Ready") /\ Range(q.deferred) = At(c, st, "DeferredReady")
      /\ Range(pool.ready) \cup Range(pool.deferred) = Range(q.ready) \cup Range(q.deferred)
  <2>1. /\ Range(q.ready) = At(c, st, "Ready") /\ Range(q.deferred) = At(c, st, "DeferredReady")
        /\ Lists(q.ready, At(c, st, "Ready")) /\ Lists(q.deferred, At(c, st, "DeferredReady"))
    BY DEF Holds, Lists
  <2>2. At(c, st, "Ready") \cap At(c, st, "DeferredReady") = {}
    BY DEF At
  <2>3. Range(q.ready \o q.deferred) = Range(q.ready) \cup Range(q.deferred)
    BY <2>1, <2>2, ListsConcat DEF Lists
  <2>4. Range(<< >>) = {}
    BY ListsEmpty DEF Lists
  <2> QED
    BY <1>1, <2>1, <2>3, <2>4
<1> HIDE DEF t, rest
<1>7. entered \subseteq Range(pool.deferred)
  BY <1>4, PrefixRange
<1>8. \A j \in entered \cup window : j \in Jobs /\ ClassOf[j] = c /\ st[j] \in {"Ready", "DeferredReady"}
  BY <1>6, <1>7 DEF At
<1> HIDE DEF entered, window
<1>9. At(c, p.stage, "Handed") = H
  BY <1>5, <1>8 DEF At
<1>10. Sized(c, p.queue, p.stage)
  <2>1. Len(p.queue.ready) = Len(pool.ready) + f
    <3>1. pool.ready \in Seq(Jobs) /\ t \in Seq(Jobs) /\ Len(t) = f
      BY <1>2, <1>4
    <3>2. Len(pool.ready \o t) = Len(pool.ready) + Len(t)
      BY <3>1, ConcatJobs
    <3> QED
      BY <1>5, <3>1, <3>2
  <2>2. pool.runnable = Len(pool.ready) + Cardinality(H)
    <3>1. q.runnable = Len(q.ready) + Cardinality(H) /\ Len(<< >>) = 0
      BY EmptySeq DEF Sized
    <3> HIDE DEF H
    <3>2. CASE back
      <4>1. pool.runnable = q.runnable - Len(q.ready) /\ pool.ready = << >>
        BY <1>1, <3>2
      <4>2. Len(pool.ready) = 0
        BY <3>1, <4>1
      <4> QED
        BY <1>0, <3>1, <4>1, <4>2
    <3>3. CASE ~back
      BY <1>1, <3>1, <3>3
    <3> QED
      BY <3>2, <3>3
  <2>3. p.queue.runnable = pool.runnable + f /\ f \in Int
    BY <1>2, <1>3, <1>5
  <2> HIDE DEF H
  <2>4. p.queue.runnable = Len(p.queue.ready) + Cardinality(H)
    BY <1>0, <1>2, <2>1, <2>2, <2>3
  <2> QED
    BY <1>9, <2>4 DEF Sized
<1>11. Full(c, p.queue)
  <2>1. ASSUME rest # << >> PROVE f # Len(pool.deferred)
    <3>1. Len(rest) # 0
      BY <1>4, <2>1, EmptySeq
    <3> QED
      BY <1>2, <1>3, <1>4, <3>1
  <2> QED
    BY <1>3, <1>5, <2>1 DEF Full
<1>12. p.queue.ready \o p.queue.deferred = q.ready \o q.deferred
  <2>1. (pool.ready \o t) \o rest = pool.ready \o pool.deferred
    <3>1. pool.ready \in Seq(Jobs) /\ t \in Seq(Jobs) /\ rest \in Seq(Jobs)
      BY <1>2, <1>4
    <3>2. (pool.ready \o t) \o rest = pool.ready \o (t \o rest)
      BY <3>1, ConcatJobs
    <3> QED
      BY <1>4, <3>2
  <2>2. q.ready \o q.deferred \in Seq(Jobs)
    BY <1>0, ConcatProperties
  <2>3. back => << >> \o (q.ready \o q.deferred) = q.ready \o q.deferred
    BY <2>2, ConcatEmptySeq
  <2> QED
    BY <1>1, <1>5, <2>1, <2>3
<1>13. ASSUME NEW S, Within(c, q, st, S) PROVE Within(c, p.queue, p.stage, S)
  <2> DEFINE V == (At(c, p.stage, "Ready") \cup At(c, p.stage, "Handed")) \cap S
             W == (At(c, st, "Ready") \cup At(c, st, "Handed")) \cap S
  <2>1. Cardinality(V) \in Nat /\ IsFiniteSet(V)
    BY WindowFinite
  <2>2. CASE f > 0
    BY <1>0, <1>2, <1>3, <1>5, <2>1, <2>2 DEF Within
  <2>3. CASE f = 0
    <3>1. entered = {}
      <4>1. Len(t) = 0
        BY <1>4, <2>3
      <4>2. \A x : x \in Range(t) <=> \E i \in 1 .. Len(t) : t[i] = x
        BY <1>4, RangeByPlace
      <4>3. 1 .. 0 = {}
        OBVIOUS
      <4> QED
        BY <4>1, <4>2, <4>3 DEF entered
    <3>2. p.queue.runnable = pool.runnable
      BY <1>2, <1>5, <2>3
    <3>3. CASE ~back
      <4>1. window = {}
        BY <1>1, <3>3 DEF window
      <4>2. \A j \in Jobs : p.stage[j] = st[j]
        BY <1>5, <3>1, <4>1
      <4>3. V = W
        BY <4>2 DEF At
      <4> QED
        BY <1>1, <1>13, <3>2, <3>3, <4>3 DEF Within
    <3>4. CASE back
      <4>1. p.queue.runnable = q.runnable - Len(q.ready)
        BY <1>1, <3>2, <3>4
      <4>2. q.runnable <= L + Cardinality(W)
        BY <1>13 DEF Within
      <4>3. /\ Cardinality(W) <= Len(q.ready) + Cardinality(V) /\ Cardinality(W) \in Nat
        <5> DEFINE R == At(c, st, "Ready")
        <5>1. IsFiniteSet(R) /\ Cardinality(R) = Len(q.ready)
          BY ListsLength DEF Holds
        <5>2. IsFiniteSet(R \cup V) /\ Cardinality(R \cup V) = Cardinality(R) + Cardinality(V) - Cardinality(R \cap V)
          BY <2>1, <5>1, FS_Union
        <5>3. W \in SUBSET (R \cup V)
          BY <1>9
        <5>4. Cardinality(W) <= Cardinality(R \cup V)
          BY <5>2, <5>3, FS_Subset
        <5>5. Cardinality(R \cap V) \in Nat
          BY <5>1, FS_Intersection, FS_CardinalityType
        <5>6. Cardinality(W) \in Nat
          BY WindowFinite
        <5>7. Cardinality(R \cup V) \in Nat
          BY <5>2, FS_CardinalityType
        <5> HIDE DEF R, V, W
        <5> QED
          BY <1>0, <2>1, <5>1, <5>2, <5>4, <5>5, <5>6, <5>7
      <4> HIDE DEF V, W, L
      <4>4. p.queue.runnable <= L + Cardinality(V)
        BY <1>0, <2>1, <4>1, <4>2, <4>3
      <4> QED
        BY <4>4 DEF Within, V, L
    <3> QED
      BY <3>3, <3>4
  <2> QED
    BY <1>3, <2>2, <2>3
<1>15. p.queue.handed = q.handed
  BY <1>1, <1>5
<1> QED
  BY <1>9, <1>10, <1>11, <1>12, <1>13, <1>15 DEF H, Repaired

\* The runnable window of a class, by stages.
Window(c, st) == At(c, st, "Ready") \cup At(c, st, "Handed")

\* runnable counts the window.
Counted(c, q, st) == q.runnable = Cardinality(Window(c, st))

\* A class in order of activation.
Line(q) == q.ready \o q.deferred

\* What a class section of c made of its queue and its stages: the window is
\* counted and filled, passes its limit by those of S as before, where the jobs
\* of out have left and those of in have come, and only new jobs are in a new
\* order.
Turned(c, out, in) ==
  /\ Counted(c, class'[c], stage') /\ Full(c, class'[c])
  /\ \A S : Within(c, class[c], stage, S) =>
              Within(c, class'[c], stage', (S \cup in) \ out)
  /\ \A x, y \in Jobs : Ahead(Line(class'[c]), x, y) =>
       \/ Ahead(Line(class[c]), x, y)
       \/ ~{x, y} \subseteq Window(c, stage) \cup At(c, stage, "DeferredReady")

\* The windows are counted and filled.
Tally == \A c \in Classes : Counted(c, class[c], stage) /\ Full(c, class[c])

LEMMA WindowCount ==
  ASSUME NEW c, NEW st
  PROVE  IsFiniteSet(Window(c, st)) /\ Cardinality(Window(c, st)) \in Nat
BY SchedulerAssumption, FS_Subset, FS_CardinalityType DEF Window, At

LEMMA CountedSized ==
  ASSUME NEW c, NEW q, NEW st, Holds(c, q, st)
  PROVE  Sized(c, q, st) <=> Counted(c, q, st)
<1>1. Len(q.ready) = Cardinality(At(c, st, "Ready"))
  BY ListsLength DEF Holds
<1>2. At(c, st, "Ready") \cap At(c, st, "Handed") = {}
  BY DEF At
<1>3. Cardinality(Window(c, st)) =
        Cardinality(At(c, st, "Ready")) + Cardinality(At(c, st, "Handed")) - Cardinality({})
  BY <1>2, AtFinite, FS_Union DEF Window
<1>4. Cardinality(Window(c, st)) = Len(q.ready) + Cardinality(At(c, st, "Handed"))
  BY <1>1, <1>3, AtFinite, FS_EmptySet
<1> QED
  BY <1>4 DEF Sized, Counted

\* Fewer jobs of the window need the allowance.
LEMMA WithinFewer ==
  ASSUME NEW c \in Classes, NEW q \in ClassState, NEW st, NEW S, NEW T, Within(c, q, st, S),
         Window(c, st) \cap S \subseteq T
  PROVE  Within(c, q, st, T)
<1> DEFINE V == (At(c, st, "Ready") \cup At(c, st, "Handed")) \cap S
           W == (At(c, st, "Ready") \cup At(c, st, "Handed")) \cap T
           L == RunnableLimit[c]
<1>1. V \in SUBSET W
  BY DEF Window
<1>2. IsFiniteSet(W) /\ Cardinality(W) \in Nat /\ Cardinality(V) \in Nat
  BY WindowFinite
<1>3. Cardinality(V) <= Cardinality(W)
  BY <1>1, <1>2, FS_Subset
<1>4. q.runnable <= L + Cardinality(V) /\ q.runnable \in Int /\ L \in Nat
  BY SchedulerAssumption, Fields DEF Within
<1> HIDE DEF V, W, L
<1>5. q.runnable <= L + Cardinality(W)
  BY <1>2, <1>3, <1>4
<1> QED
  BY <1>5 DEF Within, W, L

\* What a section of c that left q and st to promote_locked installed.
Sectioned(c, q, st) ==
  /\ \A d \in Classes \ {c} : class'[d] = class[d]
  /\ \A k \in Jobs : ClassOf[k] # c => stage'[k] = st[k]
  /\ Counted(c, class'[c], stage') /\ Full(c, class'[c])
  /\ class'[c].handed = q.handed
  /\ Line(class'[c]) = Line(q)
  /\ \A S : Within(c, q, st, S) => Within(c, class'[c], stage', S)
  /\ At(c, stage', "Handed") = At(c, st, "Handed")

\* The part of Turned that does not look back.
LEMMA Section ==
  ASSUME TypeOK, NEW c \in Classes, NEW q \in ClassState, NEW st \in [Jobs -> Stages],
         Holds(c, q, st), Counted(c, q, st), Install(c, Promote(c, q, st, Listed(st)))
  PROVE  Sectioned(c, q, st)
<1> DEFINE p == Promote(c, q, st, Listed(st))
<1>1. class' = [class EXCEPT ![c] = p.queue] /\ stage' = p.stage
  BY DEF Install
<1>2. class'[c] = p.queue /\ \A d \in Classes \ {c} : class'[d] = class[d]
  <2> HIDE DEF p
  <2> QED
    BY <1>1 DEF TypeOK
<1>3. Holds(c, p.queue, p.stage) /\ \A k \in Jobs : ClassOf[k] # c => p.stage[k] = st[k]
  BY PromoteHolds
<1>4. Sized(c, q, st)
  BY CountedSized
<1>5. /\ Sized(c, p.queue, p.stage) /\ Full(c, p.queue) /\ p.queue.handed = q.handed
      /\ p.queue.ready \o p.queue.deferred = q.ready \o q.deferred
      /\ At(c, p.stage, "Handed") = At(c, st, "Handed")
      /\ \A S : Within(c, q, st, S) => Within(c, p.queue, p.stage, S)
  <2>1. p = Promote(c, q, st, Listed(st))
    OBVIOUS
  <2> HIDE DEF p
  <2>2. Repaired(c, q, st, p)
    BY <1>4, <2>1, PromoteSized
  <2> QED
    BY <2>2 DEF Repaired
<1> HIDE DEF p
<1>7. Counted(c, p.queue, p.stage)
  BY <1>3, <1>5, CountedSized
<1> QED
  BY <1>1, <1>2, <1>3, <1>5, <1>7 DEF Line, Sectioned

\* The order of what is left when a job leaves either queue.
LEMMA WithoutJob ==
  ASSUME NEW q \in ClassState, NEW c, NEW st, Holds(c, q, st), NEW j, NEW r, NEW d,
         r = Dequeue(q.ready, j), d \in {q.deferred, Dequeue(q.deferred, j)},
         NEW x, NEW y, Ahead(r \o d, x, y)
  PROVE  Ahead(Line(q), x, y)
<1> DEFINE u == q.ready
           v == q.deferred
           R == At(c, st, "Ready")
           D == At(c, st, "DeferredReady")
<1>1. u \in Seq(Jobs) /\ v \in Seq(Jobs) /\ Lists(u, R) /\ Lists(v, D)
  BY Fields DEF Holds
<1>2. r = Dequeue(u, j) /\ d \in {v, Dequeue(v, j)}
  OBVIOUS
<1> HIDE DEF u, v, R, D
<1>3. Lists(r, R \ {j}) /\ (Lists(d, D \ {j}) \/ d = v)
  BY <1>1, <1>2, ListsDequeue
<1>4. r \in Seq(Jobs) /\ d \in Seq(Jobs)
  BY <1>1, <1>3 DEF Lists
<1>5. Ahead(r, x, y) \/ Ahead(d, x, y) \/ (x \in Range(r) /\ y \in Range(d))
  BY <1>4, AheadConcat
<1>6. Ahead(r, x, y) => Ahead(u, x, y)
  BY <1>1, <1>2, AheadDequeue
<1>7. Ahead(d, x, y) => Ahead(v, x, y)
  BY <1>1, <1>2, AheadDequeue
<1>8. Range(r) \subseteq Range(u) /\ Range(d) \subseteq Range(v)
  BY <1>1, <1>3 DEF Lists
<1>9. Ahead(u \o v, x, y)
  BY <1>1, <1>5, <1>6, <1>7, <1>8, AheadConcat
<1> QED
  BY <1>9 DEF Line, u, v

-----------------------------------------------------------------------------
(* Class sections *)

\* Stages before a job is handed to the backend or claimed.
Early == {"absent", "Waiting", "DeferredReady", "Ready"}

\* Nothing happens outside class c.
Aside(c) ==
  /\ \A d \in Classes \ {c} : class'[d] = class[d]
  /\ \A k \in Jobs : ClassOf[k] # c => stage'[k] = stage[k]

\* No job goes back, and none is handed out.
Forward ==
  \A k \in Jobs : /\ stage'[k] \in Early => stage[k] \in Early
                  /\ stage'[k] = "Handed" => stage[k] = "Handed"

\* Every class turned.
Turns(out, in) == \A c \in Classes : Turned(c, out, in)

LEMMA SameWindow ==
  ASSUME NEW c, NEW st, NEW nt,
         \A k \in Jobs : ClassOf[k] = c =>
           nt[k] = st[k] \/ {st[k], nt[k]} \cap Pooled = {}
  PROVE  /\ Window(c, nt) = Window(c, st)
         /\ At(c, nt, "Ready") = At(c, st, "Ready") /\ At(c, nt, "Handed") = At(c, st, "Handed")
         /\ At(c, nt, "DeferredReady") = At(c, st, "DeferredReady")
BY DEF Window, At, Pooled

\* A class that keeps its queues and its window has turned.
LEMMA QuietClass ==
  ASSUME TypeOK, Tally, NEW c \in Classes, class'[c].ready = class[c].ready,
         class'[c].deferred = class[c].deferred, class'[c].runnable = class[c].runnable,
         \A k \in Jobs : ClassOf[k] = c =>
           stage'[k] = stage[k] \/ {stage[k], stage'[k]} \cap Pooled = {},
         NEW out, NEW in, \A k \in out : k \in Jobs /\ ClassOf[k] = c => k \notin Window(c, stage')
  PROVE  Turned(c, out, in)
<1>1. /\ Window(c, stage') = Window(c, stage)
      /\ At(c, stage', "Ready") = At(c, stage, "Ready")
      /\ At(c, stage', "Handed") = At(c, stage, "Handed")
  BY SameWindow
<1>2. Counted(c, class'[c], stage') /\ Full(c, class'[c])
  BY <1>1 DEF Tally, Counted, Full
<1>3. ASSUME NEW S, Within(c, class[c], stage, S)
      PROVE  Within(c, class'[c], stage', (S \cup in) \ out)
  <2>1. Window(c, stage) \cap S \subseteq (S \cup in) \ out
    BY <1>1 DEF Window, At
  <2>2. Within(c, class[c], stage, (S \cup in) \ out)
    BY <1>3, <2>1, WithinFewer DEF TypeOK
  <2> QED
    BY <1>1, <2>2 DEF Within
<1>4. Line(class'[c]) = Line(class[c])
  BY DEF Line
<1> QED
  BY <1>2, <1>3, <1>4 DEF Turned

LEMMA AsideTurns ==
  ASSUME TypeOK, Tally, NEW c \in Classes, Aside(c), NEW out, NEW in, Turned(c, out, in),
         \A k \in out : k \in Jobs => ClassOf[k] = c
  PROVE  Turns(out, in)
<1> SUFFICES ASSUME NEW d \in Classes \ {c} PROVE Turned(d, out, in)
  BY DEF Turns
<1>1. class'[d] = class[d] /\ \A k \in Jobs : ClassOf[k] = d => stage'[k] = stage[k]
  BY DEF Aside
<1> QED
  BY <1>1, QuietClass

LEMMA QuietTurns ==
  ASSUME TypeOK, Tally,
         \A c \in Classes : /\ class'[c].ready = class[c].ready
                            /\ class'[c].deferred = class[c].deferred
                            /\ class'[c].runnable = class[c].runnable,
         \A k \in Jobs : stage'[k] = stage[k] \/ {stage[k], stage'[k]} \cap Pooled = {}
  PROVE  Turns({}, {})
BY QuietClass DEF Turns

\* A claim, or the suppression of a runnable job, and the promotion after it.
LEMMA TakenTurn ==
  ASSUME TypeOK, Places, Tally, NEW j \in Jobs, NEW x \in Stages \ Pooled, x \notin Early,
         stage[j] \in {"Ready", "Handed"}, NEW c, c = ClassOf[j], NEW q \in ClassState,
         q.ready = Dequeue(class[c].ready, j),
         q.deferred \in {class[c].deferred, Dequeue(class[c].deferred, j)},
         q.runnable = class[c].runnable - 1, q.handed = class[c].handed,
         NEW st, st = [stage EXCEPT ![j] = x],
         Install(c, Promote(c, q, st, index \ {j}))
  PROVE  /\ Turns({j}, {}) /\ Forward /\ Aside(c)
         /\ \A d \in Classes : class'[d].handed = class[d].handed
<1>1. /\ c \in Classes /\ st \in [Jobs -> Stages] /\ index \ {j} = Listed(st)
      /\ \A d \in Classes \ {c} : Holds(d, class[d], st)
      /\ Holds(c, q, st)
  <2>1. c \in Classes
    BY SchedulerAssumption
  <2> QED
    BY <2>1, TakenOut DEF Holds
<1>2. /\ st[j] = x /\ \A k \in Jobs \ {j} : st[k] = stage[k]
      /\ class[c] \in ClassState /\ Holds(c, class[c], stage) /\ Counted(c, class[c], stage)
  BY <1>1 DEF TypeOK, Places, Tally
<1>3. /\ Window(c, st) = Window(c, stage) \ {j} /\ j \in Window(c, stage)
      /\ At(c, st, "DeferredReady") = At(c, stage, "DeferredReady")
  BY <1>2 DEF Window, At, Pooled
<1>4. Counted(c, q, st)
  <2>1. Cardinality(Window(c, st)) = Cardinality(Window(c, stage)) - 1
    <3> DEFINE W == Window(c, stage)
    <3>1. IsFiniteSet(W) /\ j \in W /\ Window(c, st) = W \ {j}
      BY <1>3, WindowCount
    <3> HIDE DEF W
    <3>2. Cardinality(W \ {j}) = Cardinality(W) - 1
      BY <3>1, FS_RemoveElement
    <3> QED
      BY <3>1, <3>2 DEF W
  <2> QED
    BY <1>2, <2>1 DEF Counted
<1>5. /\ \A d \in Classes \ {c} : class'[d] = class[d]
      /\ \A k \in Jobs : ClassOf[k] # c => stage'[k] = st[k]
      /\ Counted(c, class'[c], stage') /\ Full(c, class'[c])
      /\ class'[c].handed = q.handed
      /\ Line(class'[c]) = Line(q)
      /\ \A S : Within(c, q, st, S) => Within(c, class'[c], stage', S)
      /\ At(c, stage', "Handed") = At(c, st, "Handed")
  <2>1. Install(c, Promote(c, q, st, Listed(st)))
    BY <1>1
  <2>2. Sectioned(c, q, st)
    BY <1>1, <1>4, <2>1, Section
  <2> QED
    BY <2>2 DEF Sectioned
<1>6. Aside(c)
  BY <1>2, <1>5 DEF Aside
<1>7. Requeued(st, stage')
  BY <1>1, InstallPlaces
<1>8. Forward
  <2> SUFFICES ASSUME NEW k \in Jobs
               PROVE  /\ stage'[k] \in Early => stage[k] \in Early
                      /\ stage'[k] = "Handed" => stage[k] = "Handed"
    BY DEF Forward
  <2>1. stage'[k] = "Handed" <=> st[k] = "Handed"
    BY <1>5 DEF At
  <2>2. stage'[k] = st[k] \/ {st[k], stage'[k]} \subseteq Pooled
    BY <1>7 DEF Requeued
  <2> QED
    BY <1>2, <2>1, <2>2 DEF Pooled, Early
<1>9. ASSUME NEW S, Within(c, class[c], stage, S) PROVE Within(c, class'[c], stage', (S \cup {}) \ {j})
  <2> DEFINE V == (At(c, stage, "Ready") \cup At(c, stage, "Handed")) \cap S
             W == (At(c, st, "Ready") \cup At(c, st, "Handed")) \cap ((S \cup {}) \ {j})
             L == RunnableLimit[c]
  <2>1. W = V \ {j}
    BY <1>3 DEF Window
  <2>2. IsFiniteSet(V) /\ Cardinality(V) \in Nat /\ Cardinality(W) \in Nat
    BY WindowFinite
  <2>3. Cardinality(W) >= Cardinality(V) - 1
    <3> HIDE DEF V, W
    <3>1. Cardinality(V \ {j}) \in {Cardinality(V), Cardinality(V) - 1}
      BY <2>2, FS_RemoveElement
    <3> QED
      BY <2>1, <2>2, <3>1
  <2>4. class[c].runnable <= L + Cardinality(V) /\ class[c].runnable \in Int /\ L \in Nat
    BY <1>1, <1>2, <1>9, Fields, SchedulerAssumption DEF Within
  <2> HIDE DEF V, W, L
  <2>5. q.runnable <= L + Cardinality(W)
    BY <2>2, <2>3, <2>4
  <2>6. Within(c, q, st, (S \cup {}) \ {j})
    BY <2>5 DEF Within, W, L
  <2> QED
    BY <1>5, <2>6
<1>10. ASSUME NEW u \in Jobs, NEW v \in Jobs, Ahead(Line(class'[c]), u, v)
       PROVE  Ahead(Line(class[c]), u, v)
  <2>1. Ahead(q.ready \o q.deferred, u, v)
    BY <1>5, <1>10 DEF Line
  <2> QED
    BY <1>2, <2>1, WithoutJob
<1>11. Turned(c, {j}, {})
  BY <1>5, <1>9, <1>10 DEF Turned
<1>12. \A d \in Classes : class'[d].handed = class[d].handed
  BY <1>5
<1> QED
  BY <1>1, <1>6, <1>8, <1>11, <1>12, AsideTurns

\* The handoff counters stay.
SameHanded == \A d \in Classes : class'[d].handed = class[d].handed

LEMMA ClaimTurns ==
  ASSUME TypeOK, Places, Tally, NEW who, NEW j \in Jobs, Claim(who, j)
  PROVE  Turns({j}, {}) /\ Forward /\ SameHanded /\ Aside(ClassOf[j])
<1> DEFINE c == ClassOf[j]
           r == Dequeue(class[c].ready, j)
           n == class[c].runnable - 1
           q == [class[c] EXCEPT !.ready = r, !.runnable = n]
           st == [stage EXCEPT ![j] = "Running"]
<1>1. c \in Classes /\ class[c] \in ClassState /\ Holds(c, class[c], stage)
  BY SchedulerAssumption DEF TypeOK, Places
<1>2. stage[j] \in {"Ready", "Handed"} /\ Install(c, Promote(c, q, st, index \ {j}))
  BY DEF Claim, Claimable
<1>3. "Running" \in Stages \ Pooled /\ "Running" \notin Early
  BY DEF Stages, Pooled, Early
<1>4. /\ q \in ClassState /\ q.ready = r /\ q.deferred = class[c].deferred
      /\ q.runnable = n /\ q.handed = class[c].handed
  <2>1. r \in Seq(Jobs)
    <3> DEFINE u == class[c].ready
    <3>1. Lists(u, At(c, stage, "Ready"))
      BY <1>1 DEF Holds
    <3> HIDE DEF u
    <3>2. Lists(Dequeue(u, j), At(c, stage, "Ready") \ {j})
      BY <3>1, ListsDequeue
    <3> QED
      BY <3>2 DEF Lists, u
  <2>2. n \in Int
    BY <1>1, Fields
  <2> HIDE DEF r, n, c
  <2> QED
    BY <1>1, <2>1, <2>2 DEF ClassState
<1> HIDE DEF q, r, st
<1>5. /\ Turns({j}, {}) /\ Forward /\ Aside(c)
      /\ \A d \in Classes : class'[d].handed = class[d].handed
  BY <1>1, <1>2, <1>3, <1>4, TakenTurn DEF r, st
<1> QED
  BY <1>5 DEF SameHanded

LEMMA SuppressTurns ==
  ASSUME TypeOK, Places, Tally, NEW j \in Jobs, NEW s, Suppress(j, s)
  PROVE  Turns({j}, {}) /\ Forward /\ SameHanded /\ Aside(ClassOf[j])
<1> DEFINE c == ClassOf[j]
           r == Dequeue(class[c].ready, j)
           d == Dequeue(class[c].deferred, j)
           q == [class[c] EXCEPT !.ready = r, !.deferred = d]
           n == q.runnable - 1
           p == [q EXCEPT !.runnable = n]
           st == [stage EXCEPT ![j] = "Finalizing"]
<1>1. c \in Classes /\ class[c] \in ClassState /\ Holds(c, class[c], stage)
  BY SchedulerAssumption DEF TypeOK, Places
<1>2. "Finalizing" \in Stages \ Pooled /\ "Finalizing" \notin Early
  BY DEF Stages, Pooled, Early
<1>3. /\ q \in ClassState /\ q.ready = r /\ q.deferred = d
      /\ q.runnable = class[c].runnable /\ q.handed = class[c].handed
  <2>1. r \in Seq(Jobs) /\ d \in Seq(Jobs)
    BY <1>2, TakenOut DEF Lists
  <2> HIDE DEF r, d, c
  <2> QED
    BY <1>1, <2>1 DEF ClassState
<1>4. /\ p \in ClassState /\ p.ready = r /\ p.deferred = d
      /\ p.runnable = class[c].runnable - 1 /\ p.handed = class[c].handed
  <2>1. n \in Int /\ n = class[c].runnable - 1
    BY <1>1, <1>3, Fields
  <2> HIDE DEF r, d, c, q, n
  <2> QED
    BY <1>3, <2>1 DEF ClassState
<1>5. CASE /\ stage[j] \in {"absent", "Running", "Finalizing", "gone"}
           /\ UNCHANGED queueVars
  <2>1. class' = class /\ stage' = stage
    BY <1>5 DEF queueVars
  <2>2. \A e \in Classes : j \notin Window(e, stage')
    BY <1>5, <2>1 DEF Window, At
  <2> QED
    BY <2>1, <2>2, QuietClass DEF Turns, Forward, SameHanded, Aside
<1>6. CASE /\ stage[j] \in {"Ready", "Handed"}
           /\ Install(c, Promote(c, p, st, index \ {j}))
  <2> HIDE DEF p, q, st, d, r
  <2>1. /\ Turns({j}, {}) /\ Forward /\ Aside(c)
        /\ \A e \in Classes : class'[e].handed = class[e].handed
    BY <1>1, <1>2, <1>4, <1>6, TakenTurn DEF r, d, st
  <2> QED
    BY <2>1 DEF SameHanded
<1>7. CASE /\ stage[j] \in {"Waiting", "DeferredReady"}
           /\ class' = [class EXCEPT ![c] = q] /\ stage' = st
  <2> HIDE DEF q, n, p
  <2>1. class'[c] = q /\ \A e \in Classes \ {c} : class'[e] = class[e]
    BY <1>1, <1>7 DEF TypeOK
  <2>2. stage'[j] = "Finalizing" /\ \A k \in Jobs \ {j} : stage'[k] = stage[k]
    BY <1>7 DEF TypeOK
  <2>3. Aside(c) /\ Forward
    BY <2>1, <2>2 DEF Aside, Forward, Early
  <2>4. Window(c, stage') = Window(c, stage)
    BY <1>7, <2>2 DEF Window, At
  <2>5. j \notin Window(c, stage)
    BY <1>7 DEF Window, At
  <2>6. Counted(c, q, stage')
    BY <1>1, <1>3, <2>4 DEF Tally, Counted
  <2>7. Full(c, q)
    <3>1. class[c].deferred = << >> => d = << >>
      <4> DEFINE v == class[c].deferred
      <4>1. v = << >> => DOMAIN v = {}
        BY EmptySeq, LenProperties
      <4> HIDE DEF v
      <4>2. v = << >> => Dequeue(v, j) = v
        BY <4>1 DEF Dequeue
      <4> QED
        BY <4>2 DEF v
    <3> HIDE DEF d, c
    <3> QED
      BY <1>1, <1>3, <3>1 DEF Tally, Full
  <2>8. ASSUME NEW S, Within(c, class[c], stage, S) PROVE Within(c, q, stage', (S \cup {}) \ {j})
    <3>1. Within(c, class[c], stage, (S \cup {}) \ {j})
      BY <1>1, <2>5, <2>8, WithinFewer
    <3> QED
      BY <1>3, <2>4, <3>1 DEF Within, Window
  <2>9. ASSUME NEW x \in Jobs, NEW y \in Jobs, Ahead(Line(q), x, y)
        PROVE  Ahead(Line(class[c]), x, y)
    <3>1. Ahead(r \o d, x, y)
      BY <1>3, <2>9 DEF Line
    <3> QED
      BY <1>1, <3>1, WithoutJob
  <2>10. Turned(c, {j}, {})
    BY <2>1, <2>6, <2>7, <2>8, <2>9 DEF Turned
  <2>11. SameHanded
    BY <1>3, <2>1 DEF SameHanded
  <2> QED
    BY <1>1, <2>3, <2>10, <2>11, AsideTurns
<1> QED
  BY <1>5, <1>6, <1>7 DEF Suppress

\* Appending changes no order among the others.
LEMMA AheadAppend ==
  ASSUME NEW q \in Seq(Jobs), NEW j \in Jobs, NEW x, NEW y, x # j, y # j
  PROVE  /\ Append(q, j) \in Seq(Jobs)
         /\ Ahead(Append(q, j), x, y) => Ahead(q, x, y)
         /\ x \in Range(Append(q, j)) => x \in Range(q)
<1> DEFINE a == Append(q, j)
           n == Len(q)
<1>1. n \in Nat /\ a \in Seq(Jobs) /\ Len(a) = n + 1 /\ (\A i \in 1 .. n : a[i] = q[i]) /\ a[n + 1] = j
  BY AppendProperties, LenProperties
<1> HIDE DEF a
<1>2. /\ Ahead(a, x, y) <=> \E b, d \in 1 .. Len(a) : b < d /\ a[b] = x /\ a[d] = y
      /\ Ahead(q, x, y) <=> \E b, d \in 1 .. Len(q) : b < d /\ q[b] = x /\ q[d] = y
  BY <1>1, AheadByPlace
<1>3. /\ x \in Range(a) <=> \E i \in 1 .. Len(a) : a[i] = x
      /\ x \in Range(q) <=> \E i \in 1 .. Len(q) : q[i] = x
  BY <1>1, RangeByPlace
<1> HIDE DEF n
<1>4. \A i \in 1 .. n + 1 : i \in 1 .. n \/ i = n + 1
  BY <1>1
<1>5. Ahead(a, x, y) => Ahead(q, x, y)
  BY <1>1, <1>2, <1>4 DEF n
<1>6. x \in Range(a) => x \in Range(q)
  BY <1>1, <1>3, <1>4 DEF n
<1> QED
  BY <1>1, <1>5, <1>6 DEF a

LEMMA WithJob ==
  ASSUME NEW u \in Seq(Jobs), NEW v \in Seq(Jobs), NEW j \in Jobs, NEW x, NEW y, x # j, y # j,
         NEW r, NEW d, \/ r = Append(u, j) /\ d = v
                       \/ r = u /\ d = Append(v, j),
         Ahead(r \o d, x, y)
  PROVE  Ahead(u \o v, x, y)
<1>1. r \in Seq(Jobs) /\ d \in Seq(Jobs)
  BY AheadAppend
<1>2. Ahead(r, x, y) \/ Ahead(d, x, y) \/ (x \in Range(r) /\ y \in Range(d))
  BY <1>1, AheadConcat
<1>3. /\ Ahead(r, x, y) => Ahead(u, x, y)
      /\ Ahead(d, x, y) => Ahead(v, x, y)
  BY AheadAppend
<1>4. x \in Range(r) => x \in Range(u)
  BY AheadAppend
<1>5. y \in Range(d) => y \in Range(v)
  BY AheadAppend
<1> QED
  BY <1>2, <1>3, <1>4, <1>5, AheadConcat

LEMMA ActivateTurns ==
  ASSUME TypeOK, Places, Tally, NEW j \in Jobs, NEW inl, ActivateReady(j, inl),
         NEW in, in = IF inl THEN {j} ELSE {}
  PROVE  /\ Turns({}, in) /\ Forward /\ SameHanded /\ Aside(ClassOf[j])
         /\ UNCHANGED queueVars \/ (inl => stage'[j] = "Ready")
<1> DEFINE c == ClassOf[j]
           q == class[c]
           r == Append(q.ready, j)
           d == Append(q.deferred, j)
           n == q.runnable + 1
           L == RunnableLimit[c]
<1>1. /\ c \in Classes /\ q \in ClassState /\ Holds(c, q, stage) /\ L \in Nat
      /\ Counted(c, q, stage) /\ Full(c, q) /\ q.runnable \in Int
      /\ q.ready \in Seq(Jobs) /\ q.deferred \in Seq(Jobs)
      /\ r \in Seq(Jobs) /\ d \in Seq(Jobs) /\ n \in Int
  <2>1. c \in Classes /\ q \in ClassState /\ Holds(c, q, stage) /\ L \in Nat
        /\ Counted(c, q, stage) /\ Full(c, q)
    BY SchedulerAssumption DEF TypeOK, Places, Tally
  <2>2. q.runnable \in Int /\ q.ready \in Seq(Jobs) /\ q.deferred \in Seq(Jobs)
    BY <2>1, Fields
  <2> QED
    BY <2>1, <2>2, AppendProperties
<1>2. CASE UNCHANGED queueVars
  <2>1. class' = class /\ stage' = stage
    BY <1>2 DEF queueVars
  <2>2. \A e \in Classes : Turned(e, {}, in)
    BY <2>1, QuietClass
  <2> QED
    BY <1>2, <2>1, <2>2 DEF Turns, Forward, SameHanded, Aside
<1>3. CASE /\ Activatable(j) /\ ~Doomed(j) /\ (inl \/ q.runnable < L)
           /\ class' = [class EXCEPT ![c] =
                [q EXCEPT !.ready = r, !.runnable = n, !.rebalance = TRUE]]
           /\ stage' = [stage EXCEPT ![j] = "Ready"]
  <2> DEFINE p == [q EXCEPT !.ready = r, !.runnable = n, !.rebalance = TRUE]
  <2>1. p.ready = r /\ p.deferred = q.deferred /\ p.runnable = n /\ p.handed = q.handed
    <3> HIDE DEF q, r, n
    <3> QED
      BY <1>1 DEF ClassState
  <2> HIDE DEF p
  <2>2. class'[c] = p /\ \A e \in Classes \ {c} : class'[e] = class[e]
    BY <1>1, <1>3 DEF TypeOK, p
  <2>3. stage[j] = "Waiting" /\ stage'[j] = "Ready" /\ \A k \in Jobs \ {j} : stage'[k] = stage[k]
    BY <1>3 DEF TypeOK, Activatable
  <2>4. Aside(c) /\ Forward
    BY <2>2, <2>3 DEF Aside, Forward, Early
  <2>5. /\ Window(c, stage') = Window(c, stage) \cup {j}
        /\ j \notin Window(c, stage) \cup At(c, stage, "DeferredReady")
    BY <2>3 DEF Window, At
  <2>6. Counted(c, p, stage')
    <3> DEFINE W == Window(c, stage)
    <3>1. IsFiniteSet(W) /\ j \notin W /\ Window(c, stage') = W \cup {j}
      BY <2>5, WindowCount
    <3> HIDE DEF W
    <3>2. Cardinality(W \cup {j}) = Cardinality(W) + 1
      BY <3>1, FS_AddElement
    <3> QED
      BY <1>1, <2>1, <3>1, <3>2 DEF Counted, W
  <2>7. Full(c, p)
    <3> HIDE DEF q, L, c, r
    <3> QED
      BY <1>1, <2>1 DEF Full, L
  <2>8. ASSUME NEW S, Within(c, q, stage, S) PROVE Within(c, p, stage', (S \cup in) \ {})
    <3> DEFINE V == (At(c, stage, "Ready") \cup At(c, stage, "Handed")) \cap S
               W == (At(c, stage', "Ready") \cup At(c, stage', "Handed")) \cap ((S \cup in) \ {})
    <3>1. /\ IsFiniteSet(V) /\ Cardinality(V) \in Nat /\ IsFiniteSet(W) /\ Cardinality(W) \in Nat
      BY WindowFinite
    <3>2. q.runnable <= L + Cardinality(V)
      BY <2>8 DEF Within
    <3>3. CASE q.runnable < L
      <4>1. n <= L + Cardinality(W)
        <5> HIDE DEF W, q, L
        <5> QED
          BY <1>1, <3>1, <3>3
      <4> QED
        BY <2>1, <4>1 DEF Within
    <3>4. CASE inl
      <4>1. V \cup {j} \in SUBSET W /\ j \notin V
        BY <2>5, <3>4 DEF Window
      <4> HIDE DEF V, W
      <4>2. Cardinality(V \cup {j}) = Cardinality(V) + 1
        BY <3>1, <4>1, FS_AddElement
      <4>3. Cardinality(V \cup {j}) <= Cardinality(W)
        BY <3>1, <4>1, FS_Subset
      <4>4. n <= L + Cardinality(W)
        <5> HIDE DEF q, L
        <5> QED
          BY <1>1, <3>1, <3>2, <4>2, <4>3
      <4> QED
        BY <2>1, <4>4 DEF Within, W
    <3> QED
      BY <1>3, <3>3, <3>4
  <2>9. ASSUME NEW x \in Jobs, NEW y \in Jobs, Ahead(Line(p), x, y), x # j, y # j
        PROVE  Ahead(Line(q), x, y)
    <3> DEFINE u == q.ready
               v == q.deferred
    <3>1. u \in Seq(Jobs) /\ v \in Seq(Jobs) /\ Ahead(Append(u, j) \o v, x, y)
      BY <1>1, <2>1, <2>9 DEF Line
    <3> HIDE DEF u, v
    <3>2. Ahead(u \o v, x, y)
      BY <2>9, <3>1, WithJob
    <3> QED
      BY <3>2 DEF Line, u, v
  <2>10. Turned(c, {}, in)
    <3>1. \A x, y \in Jobs : {x, y} \subseteq Window(c, stage) \cup At(c, stage, "DeferredReady")
                               => x # j /\ y # j
      BY <2>5
    <3> HIDE DEF q
    <3> QED
      BY <2>2, <2>6, <2>7, <2>8, <2>9, <3>1 DEF Turned, q
  <2>11. SameHanded
    BY <2>1, <2>2 DEF SameHanded
  <2>12. Turns({}, in)
    BY <1>1, <2>4, <2>10, AsideTurns
  <2> QED
    BY <2>3, <2>4, <2>11, <2>12
<1>4. CASE /\ Activatable(j) /\ ~Doomed(j) /\ ~inl /\ q.runnable >= L
           /\ class' = [class EXCEPT ![c] = [q EXCEPT !.deferred = d]]
           /\ stage' = [stage EXCEPT ![j] = "DeferredReady"]
  <2> DEFINE p == [q EXCEPT !.deferred = d]
  <2>1. p.ready = q.ready /\ p.deferred = d /\ p.runnable = q.runnable /\ p.handed = q.handed
    <3> HIDE DEF q, d
    <3> QED
      BY <1>1 DEF ClassState
  <2> HIDE DEF p
  <2>2. class'[c] = p /\ \A e \in Classes \ {c} : class'[e] = class[e]
    BY <1>1, <1>4 DEF TypeOK, p
  <2>3. stage[j] = "Waiting" /\ stage'[j] = "DeferredReady" /\ \A k \in Jobs \ {j} : stage'[k] = stage[k]
    BY <1>4 DEF TypeOK, Activatable
  <2>4. Aside(c) /\ Forward
    BY <2>2, <2>3 DEF Aside, Forward, Early
  <2>5. /\ Window(c, stage') = Window(c, stage)
        /\ j \notin Window(c, stage) \cup At(c, stage, "DeferredReady")
    BY <2>3 DEF Window, At
  <2>6. Counted(c, p, stage')
    BY <1>1, <2>1, <2>5 DEF Counted
  <2>7. Full(c, p)
    BY <1>4, <2>1 DEF Full
  <2>8. ASSUME NEW S, Within(c, q, stage, S) PROVE Within(c, p, stage', (S \cup in) \ {})
    <3>1. (S \cup in) \ {} = S
      BY <1>4
    <3> QED
      BY <2>1, <2>5, <2>8, <3>1 DEF Within, Window
  <2>9. ASSUME NEW x \in Jobs, NEW y \in Jobs, Ahead(Line(p), x, y), x # j, y # j
        PROVE  Ahead(Line(q), x, y)
    <3> DEFINE u == q.ready
               v == q.deferred
    <3>1. u \in Seq(Jobs) /\ v \in Seq(Jobs) /\ Ahead(u \o Append(v, j), x, y)
      BY <1>1, <2>1, <2>9 DEF Line
    <3> HIDE DEF u, v
    <3>2. Ahead(u \o v, x, y)
      BY <2>9, <3>1, WithJob
    <3> QED
      BY <3>2 DEF Line, u, v
  <2>10. Turned(c, {}, in)
    <3>1. \A x, y \in Jobs : {x, y} \subseteq Window(c, stage) \cup At(c, stage, "DeferredReady")
                               => x # j /\ y # j
      BY <2>5
    <3> HIDE DEF q
    <3> QED
      BY <2>2, <2>6, <2>7, <2>8, <2>9, <3>1 DEF Turned, q
  <2>11. SameHanded
    BY <2>1, <2>2 DEF SameHanded
  <2>12. Turns({}, in)
    BY <1>1, <2>4, <2>10, AsideTurns
  <2> QED
    BY <1>4, <2>4, <2>11, <2>12
<1> QED
  BY <1>2, <1>3, <1>4 DEF ActivateReady, queueVars

\* A turn of dispatch_class hands the jobs of P out.
HandsOut(c, P) ==
  /\ \A j \in P : ClassOf[j] = c /\ stage[j] \in {"Ready", "DeferredReady"}
  /\ \A j \in Jobs : stage'[j] = "Handed" <=> (stage[j] = "Handed" \/ j \in P)
  /\ wrapper' = [j \in Jobs |-> IF j \in P THEN "offered" ELSE wrapper[j]]
  /\ offers' = IF P = {} THEN offers ELSE offers \cup {[class |-> c, jobs |-> P]}
  /\ class'[c].handed = class[c].handed + Cardinality(P)
  /\ P # {} => class'[c].handed <= HandoffLimit[c]
  /\ ~abandoned /\ P = {} /\ class'[c].ready # << >> => class'[c].handed >= HandoffLimit[c]
  /\ \A j \in Range(Line(class'[c])), k \in P : Ahead(Line(class[c]), k, j)

LEMMA DispatchTurns ==
  ASSUME TypeOK, Places, Tally, NEW c \in Classes, Dispatch(c)
  PROVE  /\ Turns({}, {}) /\ Aside(c)
         /\ \A k \in Jobs : stage'[k] \in Early => stage[k] \in Early
         /\ \E P \in SUBSET Jobs : HandsOut(c, P)
<1> DEFINE p == Promote(c, class[c], stage, index)
           q == p.queue
           H == HandoffLimit[c]
           n == Smaller(Smaller(Len(q.ready), Quantum), Room(H, q.handed))
           front == SubSeq(q.ready, 1, n)
           portion == Range(front)
           rest == SubSeq(q.ready, n + 1, Len(q.ready))
           h == q.handed + n
           popped == [q EXCEPT !.ready = rest, !.handed = h]
           handover == [j \in Jobs |-> IF j \in portion THEN "Handed" ELSE p.stage[j]]
           R == At(c, p.stage, "Ready")
<1>1. /\ class[c] \in ClassState /\ Holds(c, class[c], stage) /\ index = Listed(stage)
      /\ stage \in [Jobs -> Stages] /\ Listed(stage) \in SUBSET Jobs
      /\ Counted(c, class[c], stage)
  BY DEF Places, TypeOK, Listed, Helpable, Tally
<1>2. /\ Holds(c, q, p.stage) /\ Requeued(stage, p.stage)
      /\ \A j \in Jobs : ClassOf[j] # c => p.stage[j] = stage[j]
      /\ q \in ClassState /\ p.stage \in [Jobs -> Stages]
  BY <1>1, PromoteHolds, PromoteType
<1>3. /\ Sized(c, q, p.stage) /\ Full(c, q) /\ q.handed = class[c].handed
      /\ Line(q) = Line(class[c]) /\ At(c, p.stage, "Handed") = At(c, stage, "Handed")
      /\ \A S : Within(c, class[c], stage, S) => Within(c, q, p.stage, S)
  <2>1. Sized(c, class[c], stage) /\ p = Promote(c, class[c], stage, index)
    BY <1>1, CountedSized
  <2> HIDE DEF p
  <2>2. Repaired(c, class[c], stage, p)
    BY <1>1, <2>1, PromoteSized
  <2> QED
    BY <2>2 DEF Repaired, Line
<1>4. Counted(c, q, p.stage)
  <2> HIDE DEF p
  <2> QED
    BY <1>2, <1>3, CountedSized
<1>5. CASE abandoned /\ UNCHANGED <<class, stage, wrapper, offers>>
  <2>1. Turns({}, {})
    BY <1>5, QuietTurns
  <2>2. HandsOut(c, {})
    <3>1. wrapper = [j \in Jobs |-> IF j \in {} THEN "offered" ELSE wrapper[j]]
      BY DEF TypeOK
    <3>2. class[c].handed = class[c].handed + Cardinality({})
      BY <1>1, Fields, FS_EmptySet
    <3> QED
      BY <1>5, <3>1, <3>2 DEF HandsOut
  <2> QED
    BY <1>5, <2>1, <2>2 DEF Aside
<1>6. CASE /\ class' = [class EXCEPT ![c] = popped] /\ stage' = handover
           /\ wrapper' = [j \in Jobs |-> IF j \in portion THEN "offered" ELSE wrapper[j]]
           /\ offers' = IF n = 0 THEN offers
                        ELSE offers \cup {[class |-> c, jobs |-> portion]}
  <2> HIDE DEF p
  <2>0. /\ q.ready \in Seq(Jobs) /\ q.deferred \in Seq(Jobs) /\ Len(q.ready) \in Nat
        /\ q.handed \in Int /\ Quantum \in Nat \ {0} /\ H \in Nat \ {0}
    BY <1>2, Fields, SchedulerAssumption
  <2>1. /\ n \in 0 .. Len(q.ready) /\ (n > 0 => q.handed + n <= H)
        /\ (n = 0 => Len(q.ready) = 0 \/ q.handed >= H)
    <3> HIDE DEF q, H
    <3> QED
      BY <2>0 DEF Smaller, Room
  <2> HIDE DEF n
  <2>2. /\ front \in Seq(Jobs) /\ rest \in Seq(Jobs) /\ front \o rest = q.ready
        /\ Len(front) = n /\ Len(rest) = Len(q.ready) - n
    <3> DEFINE d == q.ready
    <3> HIDE DEF d
    <3>1. d \in Seq(Jobs) /\ n \in 0 .. Len(d)
      BY <2>0, <2>1 DEF d
    <3> QED
      BY <3>1, CutQueue DEF d
  <2>3. Lists(front, portion) /\ Lists(rest, R \ portion) /\ portion \subseteq R
    <3> DEFINE d == q.ready
    <3>1. n \in 0 .. Len(d) /\ Lists(d, R)
      BY <1>2, <2>1 DEF Holds
    <3> HIDE DEF d, R
    <3> QED
      BY <3>1, ListsSplit DEF d
  <2>4. /\ popped.ready = rest /\ popped.deferred = q.deferred
        /\ popped.runnable = q.runnable /\ popped.handed = h
    <3> HIDE DEF q, rest, h
    <3> QED
      BY <1>2 DEF ClassState
  <2> HIDE DEF popped, rest, front
  <2>5. Cardinality(portion) = n
    <3> HIDE DEF portion
    <3> QED
      BY <2>2, <2>3, ListsLength
  <2> HIDE DEF portion
  <2>6. class'[c] = popped /\ \A d \in Classes \ {c} : class'[d] = class[d]
    BY <1>6 DEF TypeOK
  <2>7. \A j \in portion : j \in Jobs /\ ClassOf[j] = c /\ p.stage[j] = "Ready"
    BY <2>3 DEF At
  <2>8. \A j \in Jobs : stage'[j] = IF j \in portion THEN "Handed" ELSE p.stage[j]
    BY <1>6
  <2>9. Aside(c)
    BY <1>2, <2>6, <2>7, <2>8 DEF Aside
  <2>10. Window(c, stage') = Window(c, p.stage)
    BY <2>7, <2>8 DEF Window, At
  <2>11. Counted(c, popped, stage') /\ Full(c, popped)
    BY <1>3, <1>4, <2>4, <2>10 DEF Counted, Full
  <2>12. ASSUME NEW S, Within(c, class[c], stage, S) PROVE Within(c, popped, stage', (S \cup {}) \ {})
    <3>1. Within(c, q, p.stage, S) /\ (S \cup {}) \ {} = S
      BY <1>3, <2>12
    <3> QED
      BY <2>4, <2>10, <3>1 DEF Within, Window
  <2>13. /\ front \o Line(popped) = Line(class[c]) /\ Line(popped) \in Seq(Jobs)
    <3>1. (front \o rest) \o q.deferred = front \o (rest \o q.deferred)
      <4> DEFINE d == q.deferred
      <4>1. d \in Seq(Jobs)
        BY <2>0
      <4> HIDE DEF d
      <4>2. (front \o rest) \o d = front \o (rest \o d)
        BY <2>2, <4>1, ConcatJobs
      <4> QED
        BY <4>2 DEF d
    <3>2. rest \o q.deferred \in Seq(Jobs)
      BY <2>0, <2>2, ConcatProperties
    <3> QED
      BY <1>3, <2>2, <2>4, <3>1, <3>2 DEF Line
  <2>14. ASSUME NEW x, NEW y, \/ Ahead(Line(popped), x, y)
                              \/ x \in portion /\ y \in Range(Line(popped))
         PROVE  Ahead(Line(class[c]), x, y)
    <3> DEFINE u == Line(popped)
    <3>1. u \in Seq(Jobs) /\ front \o u = Line(class[c]) /\ Range(front) = portion
      BY <2>3, <2>13 DEF Lists
    <3>2. Ahead(u, x, y) \/ (x \in portion /\ y \in Range(u))
      BY <2>14
    <3> HIDE DEF u
    <3>3. Ahead(front \o u, x, y)
      BY <2>2, <3>1, <3>2, AheadConcat
    <3> QED
      BY <3>1, <3>3
  <2>15. Turned(c, {}, {})
    BY <2>6, <2>11, <2>12, <2>14 DEF Turned
  <2>16. Turns({}, {})
    BY <2>9, <2>15, AsideTurns
  <2>17. ASSUME NEW j \in Jobs
         PROVE  /\ p.stage[j] = "Handed" <=> stage[j] = "Handed"
                /\ p.stage[j] = stage[j] \/ {stage[j], p.stage[j]} \subseteq Pooled
    BY <1>2, <1>3 DEF At, Requeued
  <2>18. \A k \in Jobs : stage'[k] \in Early => stage[k] \in Early
    BY <2>8, <2>17 DEF Early, Pooled
  <2>19. n = 0 <=> portion = {}
    <3>1. IsFiniteSet(portion)
      BY <2>3, ListsLength
    <3> QED
      BY <2>5, <3>1, FS_EmptySet
  <2>20. \A j \in portion : ClassOf[j] = c /\ stage[j] \in {"Ready", "DeferredReady"}
    <3> SUFFICES ASSUME NEW j \in portion
                 PROVE  ClassOf[j] = c /\ stage[j] \in {"Ready", "DeferredReady"}
      OBVIOUS
    <3>1. j \in Jobs /\ ClassOf[j] = c /\ p.stage[j] = "Ready"
      BY <2>7
    <3> QED
      BY <2>17, <3>1 DEF Pooled
  <2>21. popped.handed = class[c].handed + Cardinality(portion)
    BY <1>3, <2>4, <2>5
  <2>22. portion # {} => popped.handed <= H
    <3> HIDE DEF q, H
    <3> QED
      BY <2>0, <2>1, <2>4, <2>19
  <2>23. portion = {} /\ popped.ready # << >> => popped.handed >= H
    <3>1. popped.ready # << >> => Len(rest) # 0
      BY <2>2, <2>4, EmptySeq
    <3> HIDE DEF q, H
    <3> QED
      BY <2>0, <2>1, <2>2, <2>4, <2>19, <3>1
  <2>24. HandsOut(c, portion)
    <3>1. \A j \in Jobs : stage'[j] = "Handed" <=> (stage[j] = "Handed" \/ j \in portion)
      BY <2>8, <2>17
    <3>2. \A j \in Range(Line(popped)), k \in portion : Ahead(Line(class[c]), k, j)
      BY <2>14
    <3>3. offers' = IF portion = {} THEN offers ELSE offers \cup {[class |-> c, jobs |-> portion]}
      BY <1>6, <2>19
    <3> QED
      BY <1>6, <2>6, <2>20, <2>21, <2>22, <2>23, <3>1, <3>2, <3>3 DEF HandsOut
  <2>25. portion \in SUBSET Jobs
    BY <2>7
  <2> QED
    BY <2>9, <2>16, <2>18, <2>24, <2>25
<1>7. CASE abandoned
  BY <1>5, <1>7 DEF Dispatch, queueVars
<1>8. CASE ~abandoned
  BY <1>6, <1>8 DEF Dispatch, Install
<1> QED
  BY <1>7, <1>8

-----------------------------------------------------------------------------
(* The window through every step *)

\* Jobs their submitters are about to run themselves.
Claimers == {j \in inline : sub[j] = "claiming"}

\* Who was cut off serves no more.
CutOff == abandoned \/ cutting => ~Serving

\* The window passes its limit by the submitters' own jobs only.
Limits == Serving => \A c \in Classes : Within(c, class[c], stage, Claimers)

\* No job goes back to the queues.
NoReturn == \A k \in Jobs : stage'[k] \in Early => stage[k] \in Early

\* Nobody outside class sections touches the queues, or what excuses a window.
Quiet ==
  /\ \A c \in Classes : /\ class'[c].ready = class[c].ready
                        /\ class'[c].deferred = class[c].deferred
                        /\ class'[c].runnable = class[c].runnable
  /\ \A k \in Jobs : /\ stage'[k] = stage[k] \/ {stage[k], stage'[k]} \cap Pooled = {}
                     /\ stage'[k] \in Early => stage[k] \in Early
  /\ Claimers \subseteq Claimers'
  /\ Serving' => Serving

\* The claimers follow what the class sections did.
Allowed(out, in) ==
  Serving' => /\ Serving
              /\ \A c \in Classes : Window(c, stage') \cap ((Claimers \cup in) \ out) \subseteq Claimers'

LEMMA SubmissionQuiet ==
  ASSUME TypeOK, Lives, NEW j \in Jobs,
         \/ Submit(j) \/ ChargeRecord(j) \/ ChargeEdges(j) \/ Accept(j) \/ Unjoin(j)
         \/ Refuse(j) \/ CloseAttachment(j)
  PROVE  Quiet /\ UNCHANGED <<class, wrapper, calls, offers>>
<1>1. UNCHANGED <<class, wrapper, calls, offers, phase>>
  BY DEF Submit, ChargeRecord, ChargeEdges, Accept, Unjoin, Refuse, CloseAttachment,
    queueVars, handVars, closeVars
<1>2. \A k \in Jobs : stage'[k] = stage[k] \/ (stage[k] = "absent" /\ stage'[k] = "Waiting")
  <2>1. CASE Accept(j)
    <3>1. stage[j] = "absent"
      BY <2>1 DEF Accept, Lives, Life, Returning
    <3> QED
      BY <2>1, <3>1 DEF Accept, TypeOK
  <2>2. CASE ~Accept(j)
    BY <2>2 DEF Submit, ChargeRecord, ChargeEdges, Unjoin, Refuse, CloseAttachment, queueVars
  <2> QED
    BY <2>1, <2>2
<1>3. inline \subseteq inline'
  BY DEF Submit, ChargeRecord, ChargeEdges, Accept, Unjoin, Refuse, CloseAttachment
<1>4. \A k \in Jobs : sub[k] = "claiming" => sub'[k] = "claiming"
  BY DEF Submit, MaySubmit, ChargeRecord, ChargeEdges, Accept, Unjoin, Refuse, CloseAttachment,
    Attaching, TypeOK
<1>5. Claimers \subseteq Claimers'
  BY <1>3, <1>4 DEF Claimers, TypeOK
<1> QED
  BY <1>1, <1>2, <1>5 DEF Quiet, Pooled, Early, Serving

\* A credit that is returned.
LEMMA CreditMoved ==
  ASSUME TypeOK, NEW c \in Classes, NEW n, class' = [class EXCEPT ![c].handed = n],
         UNCHANGED <<stage, sub, inline, phase>>
  PROVE  /\ Quiet /\ class'[c].handed = n
         /\ \A d \in Classes \ {c} : class'[d].handed = class[d].handed
<1>1. class[c] \in ClassState /\ DOMAIN class = Classes
  BY DEF TypeOK
<1>2. class'[c] = [class[c] EXCEPT !.handed = n] /\ \A d \in Classes \ {c} : class'[d] = class[d]
  BY <1>1
<1>3. /\ class'[c].ready = class[c].ready /\ class'[c].deferred = class[c].deferred
      /\ class'[c].runnable = class[c].runnable /\ class'[c].handed = n
  BY <1>1, <1>2 DEF ClassState
<1>4. \A d \in Classes : /\ class'[d].ready = class[d].ready
                         /\ class'[d].deferred = class[d].deferred
                         /\ class'[d].runnable = class[d].runnable
  BY <1>2, <1>3
<1>5. Claimers' = Claimers /\ (Serving' => Serving)
  BY DEF Claimers, Serving
<1>6. \A k \in Jobs : stage'[k] = stage[k]
  OBVIOUS
<1> QED
  BY <1>2, <1>3, <1>4, <1>5, <1>6 DEF Quiet

LEMMA WrapperQuiet ==
  ASSUME TypeOK, NEW j \in Jobs, LeaveWrapper(j) \/ DiscardWrapper(j)
  PROVE  LET c == ClassOf[j]
         IN  /\ Quiet /\ UNCHANGED <<stage, exec, sub, offers>>
             /\ class'[c].handed = class[c].handed - 1
             /\ \A d \in Classes \ {c} : class'[d].handed = class[d].handed
<1> DEFINE n == class[ClassOf[j]].handed - 1
           c == ClassOf[j]
<1>1. /\ UNCHANGED <<stage, sub, inline, phase, exec, offers>>
      /\ class' = [class EXCEPT ![c].handed = n] /\ c \in Classes
  BY SchedulerAssumption DEF LeaveWrapper, DiscardWrapper, submitVars, closeVars, finishVars
<1> HIDE DEF n, c
<1>2. /\ Quiet /\ class'[c].handed = n
      /\ \A d \in Classes \ {c} : class'[d].handed = class[d].handed
  BY <1>1, CreditMoved
<1> QED
  BY <1>1, <1>2 DEF n, c

LEMMA OfferQuiet ==
  ASSUME TypeOK, NEW o \in offers
  PROVE  /\ PublishOffer(o) \/ RefuseOffer(o) => Quiet /\ UNCHANGED <<stage, exec, sub>>
         /\ PublishOffer(o) => SameHanded
         /\ RefuseOffer(o) =>
              /\ class'[o.class].handed = class[o.class].handed - Cardinality(o.jobs)
              /\ \A d \in Classes \ {o.class} : class'[d].handed = class[d].handed
<1> DEFINE n == class[o.class].handed - Cardinality(o.jobs)
           c == o.class
<1>1. c \in Classes
  BY DEF TypeOK, Portions
<1>2. ASSUME RefuseOffer(o)
      PROVE  /\ Quiet /\ UNCHANGED <<stage, exec, sub>> /\ class'[c].handed = n
             /\ \A d \in Classes \ {c} : class'[d].handed = class[d].handed
  <2>1. /\ UNCHANGED <<stage, sub, inline, phase, exec>>
        /\ class' = [class EXCEPT ![c].handed = n]
    BY <1>2 DEF RefuseOffer, submitVars, finishVars
  <2> HIDE DEF n, c
  <2>2. /\ Quiet /\ class'[c].handed = n
        /\ \A d \in Classes \ {c} : class'[d].handed = class[d].handed
    BY <1>1, <2>1, CreditMoved
  <2> QED
    BY <2>1, <2>2
<1>3. ASSUME PublishOffer(o)
      PROVE  Quiet /\ UNCHANGED <<stage, exec, sub>> /\ SameHanded
  <2>1. UNCHANGED <<class, stage, sub, inline, phase, exec>>
    BY <1>3 DEF PublishOffer, submitVars, queueVars, closeVars, finishVars
  <2> QED
    BY <1>3, <2>1 DEF Quiet, Claimers, Serving, SameHanded
<1> QED
  BY <1>2, <1>3

LEMMA SettlementQuiet ==
  ASSUME TypeOK, Lives, NEW j \in Jobs, SettleStep(j)
  PROVE  Quiet /\ UNCHANGED <<class, wrapper, offers, sub>>
<1>1. UNCHANGED <<class, wrapper, offers, phase, sub, inline>>
  BY DEF SettleStep, ReturnBody, DeferFinish, Publish, Finalize, Leave, LeavePublished,
    queueVars, handVars, closeVars, submitVars
<1>2. \A k \in Jobs : stage'[k] = stage[k] \/ (stage[k] \in {"Running", "Finalizing"}
                                             /\ stage'[k] \in {"Finalizing", "gone"})
  <2>1. ASSUME NEW o \in Outcomes, ReturnBody(j, o)
        PROVE  stage[j] = "Running" /\ stage' = [stage EXCEPT ![j] = "Finalizing"]
    BY <2>1 DEF ReturnBody, Lives, Life
  <2>2. CASE Finalize(j)
    <3>1. stage[j] = "Finalizing" /\ stage' = [stage EXCEPT ![j] = "gone"]
      BY <2>2 DEF Finalize, Lives, Life
    <3> QED
      BY <3>1 DEF TypeOK
  <2>3. CASE DeferFinish(j) \/ Publish(j) \/ Leave(j) \/ LeavePublished(j)
    BY <2>3 DEF DeferFinish, Publish, Leave, LeavePublished, queueVars
  <2> QED
    BY <2>1, <2>2, <2>3 DEF SettleStep, TypeOK
<1> QED
  BY <1>1, <1>2 DEF Quiet, Claimers, Pooled, Early, Serving

LEMMA EdgeQuiet ==
  ASSUME TypeOK, NEW e \in Edges, Subscribe(e) \/ DeliverEdge(e) \/ Detach(e)
  PROVE  Quiet /\ UNCHANGED <<class, stage, exec, sub, wrapper, calls, offers>>
BY DEF Subscribe, DeliverEdge, Detach, submitVars, queueVars, finishVars, handVars, closeVars,
  Quiet, Claimers, Serving

LEMMA RestQuiet ==
  ASSUME TypeOK,
         \/ \E g \in Groups : Seal(g) \/ PublishGroup(g)
         \/ BeginShutdown \/ AbandonRuntime \/ AbandonCut \/ UNCHANGED vars
  PROVE  Quiet /\ UNCHANGED <<class, stage, exec, sub, wrapper, calls, offers>>
<1>1. UNCHANGED <<class, stage, exec, sub, inline, wrapper, calls, offers>>
  BY DEF Seal, PublishGroup, BeginShutdown, AbandonRuntime, AbandonCut, vars, submitVars,
    queueVars, finishVars, handVars
<1>2. Serving' => Serving
  BY DEF Seal, PublishGroup, BeginShutdown, AbandonRuntime, AbandonCut, vars, closeVars, Serving
<1> QED
  BY <1>1, <1>2 DEF Quiet, Claimers

LEMMA QuietAllowed ==
  ASSUME TypeOK, Tally, Quiet
  PROVE  Turns({}, {}) /\ Allowed({}, {}) /\ NoReturn
<1>1. Turns({}, {})
  BY QuietTurns DEF Quiet
<1> QED
  BY <1>1 DEF Quiet, Allowed, NoReturn

\* A step turns the classes as the claimers allow, and does not send jobs back.
Orderly ==
  /\ NoReturn
  /\ \E out, in \in SUBSET Jobs : Turns(out, in) /\ Allowed(out, in)

\* A step that hands nothing out.
Withheld == \A k \in Jobs : stage'[k] = "Handed" => stage[k] = "Handed"

LEMMA QuietOrderly ==
  ASSUME TypeOK, Tally, Quiet
  PROVE  Orderly /\ Withheld
<1>1. Withheld
  BY DEF Quiet, Withheld, Pooled
<1> QED
  BY <1>1, QuietAllowed DEF Orderly

LEMMA RemovalOrderly ==
  ASSUME TypeOK, NEW j \in Jobs, Turns({j}, {}), Forward, UNCHANGED phase,
         Claimers \ {j} \subseteq Claimers'
  PROVE  Orderly /\ Withheld
<1>1. Allowed({j}, {})
  BY DEF Allowed, Serving
<1> QED
  BY <1>1 DEF Orderly, Withheld, NoReturn, Forward

LEMMA ActivationOrderly ==
  ASSUME TypeOK, Places, Tally, NEW j \in Jobs, NEW inl, ActivateReady(j, inl),
         UNCHANGED phase, Claimers \subseteq Claimers', inl => j \in Claimers'
  PROVE  Orderly /\ Withheld
<1> DEFINE in == IF inl THEN {j} ELSE {}
<1>1. Turns({}, in) /\ Forward
  <2>1. in = IF inl THEN {j} ELSE {}
    OBVIOUS
  <2> HIDE DEF in
  <2> QED
    BY <2>1, ActivateTurns
<1>2. Allowed({}, in)
  BY DEF Allowed, Serving
<1>3. in \in SUBSET Jobs
  OBVIOUS
<1> HIDE DEF in
<1> QED
  BY <1>1, <1>2, <1>3 DEF Orderly, Withheld, NoReturn, Forward

LEMMA ClaimInlineOrderly ==
  ASSUME TypeOK, Places, Tally, CutOff, NEW j \in Jobs, ClaimInline(j)
  PROVE  Orderly /\ Withheld
<1>1. sub' = [sub EXCEPT ![j] = "returned"] /\ UNCHANGED <<inline, phase>>
  BY DEF ClaimInline, closeVars
<1>2. Claimers \ {j} \subseteq Claimers'
  BY <1>1 DEF Claimers, TypeOK
<1>3. CASE Claim("caller", j)
  BY <1>1, <1>2, <1>3, ClaimTurns, RemovalOrderly
<1>4. CASE ~(Serving /\ Claimable("caller", j)) /\ UNCHANGED queueVars
  <2>1. class' = class /\ stage' = stage
    BY <1>4 DEF queueVars
  <2>2. Turns({}, {})
    BY <2>1, QuietTurns
  <2>3. Allowed({}, {})
    <3> SUFFICES ASSUME Serving, NEW c \in Classes, NEW k \in Window(c, stage') \cap Claimers
                 PROVE  k \in Claimers'
      BY <1>1 DEF Allowed, Serving
    <3>1. stage[k] \in {"Ready", "Handed"}
      BY <2>1 DEF Window, At
    <3>2. k # j
      BY <1>4, <3>1 DEF Claimable, CutOff
    <3> QED
      BY <1>2, <3>2
  <2> QED
    BY <2>1, <2>2, <2>3 DEF Orderly, Withheld, NoReturn
<1> QED
  BY <1>3, <1>4 DEF ClaimInline

LEMMA DispatchOrderly ==
  ASSUME TypeOK, Places, Tally, NEW c \in Classes, Dispatch(c)
  PROVE  Orderly
<1>1. Turns({}, {}) /\ NoReturn
  BY DispatchTurns DEF NoReturn
<1>2. UNCHANGED <<sub, inline, phase>>
  BY DEF Dispatch, submitVars, closeVars
<1>3. Allowed({}, {})
  BY <1>2 DEF Allowed, Serving, Claimers
<1> QED
  BY <1>1, <1>3 DEF Orderly

LEMMA StepOrderly ==
  ASSUME Footing, Tally, CutOff, [Next]_vars
  PROVE  Orderly /\ (Withheld \/ \E c \in Classes : Dispatch(c))
<1>0. TypeOK /\ Places /\ Lives
  BY DEF Footing
<1>1. ASSUME NEW j \in Jobs, SubmitStep(j) \/ Submit(j) PROVE Orderly /\ Withheld
  <2>1. CASE ActivateSubmitted(j)
    <3>1. /\ ActivateReady(j, j \in inline) /\ UNCHANGED <<phase, inline>>
          /\ sub[j] = "activating"
          /\ sub' = [sub EXCEPT ![j] = IF j \in inline THEN "claiming" ELSE "returned"]
      BY <2>1 DEF ActivateSubmitted, closeVars
    <3>2. Claimers \subseteq Claimers' /\ (j \in inline => j \in Claimers')
      BY <1>0, <3>1 DEF Claimers, TypeOK
    <3> DEFINE inl == j \in inline
    <3>3. ActivateReady(j, inl) /\ (inl => j \in Claimers')
      BY <3>1, <3>2
    <3> HIDE DEF inl
    <3> QED
      BY <1>0, <3>1, <3>2, <3>3, ActivationOrderly
  <2>2. CASE ClaimInline(j)
    BY <1>0, <2>2, ClaimInlineOrderly
  <2> QED
    BY <1>0, <1>1, <2>1, <2>2, SubmissionQuiet, QuietOrderly DEF SubmitStep
<1>2. ASSUME NEW j \in Jobs, NEW s, Suppress(j, s), UNCHANGED <<sub, inline, phase>>
      PROVE  Orderly /\ Withheld
  <2>1. Claimers \ {j} \subseteq Claimers'
    BY <1>2 DEF Claimers
  <2> QED
    BY <1>0, <1>2, <2>1, SuppressTurns, RemovalOrderly
<1>3. ASSUME NEW j \in Jobs, NEW who, Claim(who, j), UNCHANGED <<sub, inline, phase>>
      PROVE  Orderly /\ Withheld
  <2>1. Claimers \ {j} \subseteq Claimers'
    BY <1>3 DEF Claimers
  <2> QED
    BY <1>0, <1>3, <2>1, ClaimTurns, RemovalOrderly
<1>4. ASSUME NEW j \in Jobs, Cancel(j) \/ Help(j) PROVE Orderly /\ Withheld
  <2>1. UNCHANGED <<sub, inline, phase>>
    BY <1>4 DEF Cancel, Help, submitVars, closeVars
  <2> QED
    BY <1>2, <1>3, <1>4, <2>1 DEF Cancel, Help
<1>5. ASSUME NEW j \in Jobs, WrapperStep(j) PROVE Orderly /\ Withheld
  <2>1. CASE EnterWrapper(j)
    <3>1. UNCHANGED <<sub, inline, phase>>
      BY <2>1 DEF EnterWrapper, submitVars, closeVars
    <3> QED
      BY <1>3, <2>1, <3>1 DEF EnterWrapper
  <2> QED
    BY <1>0, <1>5, <2>1, WrapperQuiet, QuietOrderly DEF WrapperStep
<1>6. ASSUME NEW j \in Jobs, SettleStep(j) PROVE Orderly /\ Withheld
  BY <1>0, <1>6, SettlementQuiet, QuietOrderly
<1>7. ASSUME NEW e \in Edges, EdgeStep(e) PROVE Orderly /\ Withheld
  <2>1. CASE ActivateEdge(e)
    <3>1. e[1] \in Jobs /\ ActivateReady(e[1], FALSE) /\ UNCHANGED <<sub, inline, phase>>
      BY <2>1, EdgeEnds DEF ActivateEdge, submitVars, closeVars
    <3>2. Claimers \subseteq Claimers'
      BY <3>1 DEF Claimers
    <3> QED
      BY <1>0, <3>1, <3>2, ActivationOrderly
  <2> QED
    BY <1>0, <1>7, <2>1, EdgeQuiet, QuietOrderly DEF EdgeStep
<1>8. ASSUME NEW d \in suppressing, SuppressDecided(d) PROVE Orderly /\ Withheld
  <2>1. d[1] \in Jobs /\ UNCHANGED <<sub, inline, phase>>
    BY <1>0, <1>8 DEF TypeOK, SuppressDecided, submitVars, closeVars
  <2> QED
    BY <1>2, <1>8, <2>1 DEF SuppressDecided
<1>9. ASSUME NEW o \in offers, OfferStep(o) PROVE Orderly /\ Withheld
  BY <1>0, <1>9, OfferQuiet, QuietOrderly DEF OfferStep
<1>10. ASSUME NEW c \in Classes, Dispatch(c) PROVE Orderly
  BY <1>0, <1>10, DispatchOrderly
<1>11. CASE \/ \E g \in Groups : Seal(g) \/ PublishGroup(g)
            \/ BeginShutdown \/ AbandonRuntime \/ AbandonCut \/ UNCHANGED vars
  BY <1>0, <1>11, RestQuiet, QuietOrderly
<1>12. CASE Environment
  BY <1>1, <1>4, <1>11, <1>12 DEF Environment
<1>13. CASE System
  BY <1>1, <1>5, <1>6, <1>7, <1>8, <1>9, <1>10, <1>11, <1>13 DEF System
<1> QED
  BY <1>11, <1>12, <1>13 DEF Next

LEMMA CutOffStep == CutOff /\ TypeOK /\ [Next]_vars => CutOff'
<1> SUFFICES ASSUME CutOff, TypeOK, [Next]_vars PROVE CutOff'
  OBVIOUS
<1>1. CASE UNCHANGED <<phase, abandoned, cutting>>
  BY <1>1 DEF CutOff, Serving
<1>2. CASE BeginShutdown \/ AbandonRuntime \/ AbandonCut
  BY <1>2 DEF CutOff, Serving, BeginShutdown, AbandonRuntime, AbandonCut
<1>3. CASE \E o \in offers : RefuseOffer(o)
  BY <1>3 DEF CutOff, Serving, RefuseOffer
<1>4. \/ UNCHANGED <<phase, abandoned, cutting>>
      \/ BeginShutdown \/ AbandonRuntime \/ AbandonCut
      \/ \E o \in offers : RefuseOffer(o)
  <2> USE DEF closeVars
  <2>1. ASSUME NEW j \in Jobs, Submit(j) \/ Cancel(j) \/ Help(j) \/ SubmitStep(j)
        PROVE  UNCHANGED <<phase, abandoned, cutting>>
    BY <2>1 DEF Submit, Cancel, Help, SubmitStep, ChargeRecord, ChargeEdges, Accept, Unjoin,
      Refuse, CloseAttachment, ActivateSubmitted, ClaimInline
  <2>2. ASSUME NEW j \in Jobs, WrapperStep(j) \/ SettleStep(j)
        PROVE  UNCHANGED <<phase, abandoned, cutting>>
    BY <2>2 DEF WrapperStep, EnterWrapper, LeaveWrapper, DiscardWrapper, SettleStep, ReturnBody,
      DeferFinish, Publish, Finalize, Leave, LeavePublished
  <2>3. ASSUME NEW e \in Edges, EdgeStep(e) PROVE UNCHANGED <<phase, abandoned, cutting>>
    BY <2>3 DEF EdgeStep, Subscribe, DeliverEdge, ActivateEdge, Detach
  <2>4. ASSUME \/ \E d \in suppressing : SuppressDecided(d)
               \/ \E g \in Groups : PublishGroup(g) \/ Seal(g)
               \/ \E c \in Classes : Dispatch(c)
               \/ \E o \in offers : PublishOffer(o)
               \/ UNCHANGED vars
        PROVE  UNCHANGED <<phase, abandoned, cutting>>
    BY <2>4 DEF SuppressDecided, PublishGroup, Seal, Dispatch, PublishOffer, vars
  <2> QED
    BY <2>1, <2>2, <2>3, <2>4 DEF Next, Environment, System, OfferStep
<1> QED
  BY <1>1, <1>2, <1>3, <1>4

LEMMA WindowStep ==
  Footing /\ Tally /\ CutOff /\ Limits /\ [Next]_vars => Tally' /\ Limits'
<1> SUFFICES ASSUME Footing, Tally, CutOff, Limits, [Next]_vars PROVE Tally' /\ Limits'
  OBVIOUS
<1>1. PICK out \in SUBSET Jobs, in \in SUBSET Jobs : Turns(out, in) /\ Allowed(out, in)
  BY StepOrderly DEF Orderly
<1>2. Tally'
  BY <1>1 DEF Tally, Turns, Turned
<1>3. ASSUME Serving', NEW c \in Classes PROVE Within(c, class'[c], stage', Claimers')
  <2>1. Within(c, class[c], stage, Claimers)
    BY <1>1, <1>3 DEF Allowed, Limits
  <2>2. Within(c, class'[c], stage', (Claimers \cup in) \ out)
    BY <1>1, <2>1 DEF Turns, Turned
  <2>3. class'[c] \in ClassState
    <3>1. TypeOK'
      BY FootingStep DEF Footing
    <3> QED
      BY <3>1 DEF TypeOK
  <2>4. Window(c, stage') \cap ((Claimers \cup in) \ out) \subseteq Claimers'
    BY <1>1, <1>3 DEF Allowed
  <2> QED
    BY <2>2, <2>3, <2>4, WithinFewer
<1>4. Limits'
  BY <1>3 DEF Limits
<1> QED
  BY <1>2, <1>4

LEMMA WindowInit == Init => Tally /\ CutOff /\ Limits
<1> SUFFICES ASSUME Init PROVE Tally /\ CutOff /\ Limits
  OBVIOUS
<1>1. ASSUME NEW c \in Classes
      PROVE  /\ class[c].runnable = 0 /\ class[c].deferred = << >> /\ Window(c, stage) = {}
             /\ RunnableLimit[c] \in Nat
  BY <1>1, SchedulerAssumption DEF Init, Window, At
<1>2. Tally
  BY <1>1, FS_EmptySet DEF Tally, Counted, Full
<1>3. ASSUME NEW c \in Classes PROVE Within(c, class[c], stage, Claimers)
  <2> DEFINE V == (At(c, stage, "Ready") \cup At(c, stage, "Handed")) \cap Claimers
  <2>1. Cardinality(V) \in Nat
    BY WindowFinite
  <2> HIDE DEF V
  <2>2. class[c].runnable <= RunnableLimit[c] + Cardinality(V)
    BY <1>1, <2>1
  <2> QED
    BY <2>2 DEF Within, V
<1> QED
  BY <1>2, <1>3 DEF Limits, CutOff, Init

\* A class lists its queued jobs once.
LEMMA LineLists ==
  ASSUME Places, NEW c \in Classes
  PROVE  Lists(Line(class[c]), At(c, stage, "Ready") \cup At(c, stage, "DeferredReady"))
<1> DEFINE u == class[c].ready
           v == class[c].deferred
           R == At(c, stage, "Ready")
           D == At(c, stage, "DeferredReady")
<1>1. Lists(u, R) /\ Lists(v, D) /\ R \cap D = {}
  BY DEF Places, Holds, At
<1> HIDE DEF u, v, R, D
<1>2. Lists(u \o v, R \cup D)
  BY <1>1, ListsConcat
<1> QED
  BY <1>2 DEF Line, u, v, R, D

LEMMA OrderStep ==
  ASSUME Footing, Tally, CutOff, [Next]_vars, NEW c \in Classes, NEW j \in Jobs, NEW k \in Jobs,
         Ahead(Line(class[c]), j, k)
  PROVE  /\ ~Ahead(Line(class'[c]), k, j)
         /\ stage[k] # "Handed" /\ stage'[k] = "Handed" => j \notin Range(Line(class'[c]))
<1> DEFINE q == Line(class[c])
           r == Line(class'[c])
           S == At(c, stage, "Ready") \cup At(c, stage, "DeferredReady")
<1>1. Lists(q, S)
  BY LineLists DEF Footing
<1> HIDE DEF q
<1>2. ~Ahead(q, k, j) /\ j \in S /\ k \in S
  BY <1>1, AheadOnce DEF q
<1>3. ~Ahead(r, k, j)
  <2>1. PICK out \in SUBSET Jobs, in \in SUBSET Jobs : Turns(out, in)
    BY StepOrderly DEF Orderly
  <2>2. Ahead(r, k, j) => \/ Ahead(q, k, j)
                          \/ ~{k, j} \subseteq Window(c, stage) \cup At(c, stage, "DeferredReady")
    BY <2>1 DEF Turns, Turned, q
  <2> QED
    BY <1>2, <2>2 DEF Window
<1>4. ASSUME stage[k] # "Handed", stage'[k] = "Handed", j \in Range(r) PROVE FALSE
  <2>1. PICK d \in Classes : Dispatch(d)
    BY <1>4, StepOrderly DEF Withheld
  <2>2. PICK P \in SUBSET Jobs : HandsOut(d, P)
    BY <2>1, DispatchTurns DEF Footing
  <2>3. k \in P
    BY <1>4, <2>2 DEF HandsOut
  <2>4. d = c
    BY <1>2, <2>2, <2>3 DEF HandsOut, At
  <2>5. Ahead(q, k, j)
    BY <1>4, <2>2, <2>3, <2>4 DEF HandsOut, q
  <2> QED
    BY <1>2, <2>5
<1> QED
  BY <1>3, <1>4

-----------------------------------------------------------------------------
(* Handoffs *)

\* Live wrappers.
Held == {"offered", "queued", "running"}

Loaded(c) == {j \in Jobs : ClassOf[j] = c /\ wrapper[j] \in Held}

\* Every offer is a portion of live wrappers of its own class, nobody else's.
Offered(o) == o.jobs # {} /\ \A j \in o.jobs : wrapper[j] = "offered" /\ ClassOf[j] = o.class

\* The handoff counter of a class, its wrappers and its offers agree; who was
\* not handed out has no wrapper.
Hands ==
  /\ \A c \in Classes : /\ class[c].handed = Cardinality(Loaded(c))
                        /\ class[c].handed <= HandoffLimit[c]
                        /\ calls[c] >= 0
  /\ \A j \in Jobs : /\ stage[j] \in Early => wrapper[j] = "none"
                     /\ wrapper[j] = "offered" => \E o \in offers : j \in o.jobs
  /\ \A o \in offers : Offered(o)
  /\ \A o, p \in offers : o.jobs \cap p.jobs # {} => o = p

LEMMA LoadedFinite ==
  ASSUME NEW c
  PROVE  IsFiniteSet(Loaded(c)) /\ Cardinality(Loaded(c)) \in Nat
BY SchedulerAssumption, FS_Subset, FS_CardinalityType DEF Loaded

\* Wrappers and offers stay.
LEMMA HandsKept ==
  ASSUME TypeOK, Hands, NoReturn, SameHanded, UNCHANGED <<wrapper, offers>>,
         \A c \in Classes : calls'[c] >= 0
  PROVE  Hands'
<1>1. \A c : Loaded(c)' = Loaded(c)
  BY DEF Loaded
<1>2. \A o : Offered(o)' <=> Offered(o)
  BY DEF Offered
<1> QED
  BY <1>1, <1>2 DEF Hands, NoReturn, SameHanded

\* One wrapper goes on, or goes.
LEMMA WrapperHands ==
  ASSUME TypeOK, Hands, NoReturn, NEW j \in Jobs, wrapper[j] \in {"queued", "running"},
         NEW x \in {"running", "gone"}, wrapper' = [wrapper EXCEPT ![j] = x], UNCHANGED offers,
         class'[ClassOf[j]].handed =
           IF x = "gone" THEN class[ClassOf[j]].handed - 1 ELSE class[ClassOf[j]].handed,
         \A c \in Classes \ {ClassOf[j]} : class'[c].handed = class[c].handed,
         \A c \in Classes : calls'[c] >= 0
  PROVE  Hands'
<1>1. wrapper'[j] = x /\ \A k \in Jobs \ {j} : wrapper'[k] = wrapper[k]
  BY DEF TypeOK
<1>2. \A c \in Classes \ {ClassOf[j]} : Loaded(c)' = Loaded(c)
  BY <1>1 DEF Loaded
<1> DEFINE c == ClassOf[j]
           U == Loaded(c)
<1>3. c \in Classes /\ class[c].handed \in Int /\ HandoffLimit[c] \in Nat
  BY SchedulerAssumption, Fields DEF TypeOK
<1>4. j \in U /\ IsFiniteSet(U) /\ Cardinality(U) \in Nat
  BY LoadedFinite DEF Loaded, Held
<1>5. Loaded(c)' = IF x = "gone" THEN U \ {j} ELSE U
  BY <1>1 DEF Loaded, Held
<1>6. class'[c].handed = Cardinality(Loaded(c)') /\ class'[c].handed <= HandoffLimit[c]
  <2>1. class[c].handed = Cardinality(U) /\ class[c].handed <= HandoffLimit[c]
    BY <1>3 DEF Hands
  <2> HIDE DEF U, c
  <2>2. Cardinality(U \ {j}) = Cardinality(U) - 1
    BY <1>4, FS_RemoveElement
  <2> QED
    BY <1>3, <1>4, <1>5, <2>1, <2>2 DEF c
<1> HIDE DEF c
<1>7. \A d \in Classes : /\ class'[d].handed = Cardinality(Loaded(d)')
                         /\ class'[d].handed <= HandoffLimit[d]
                         /\ calls'[d] >= 0
  BY <1>2, <1>6 DEF Hands, c
<1>8. ASSUME NEW k \in Jobs
      PROVE  /\ stage'[k] \in Early => wrapper'[k] = "none"
             /\ wrapper'[k] = "offered" => \E o \in offers : k \in o.jobs
  BY <1>1 DEF Hands, NoReturn
<1>9. ASSUME NEW o \in offers PROVE Offered(o)'
  <2>1. Offered(o) /\ o.jobs \subseteq Jobs
    BY DEF Hands, TypeOK, Portions
  <2> QED
    BY <1>1, <2>1 DEF Offered
<1> QED
  BY <1>7, <1>8, <1>9 DEF Hands

LEMMA PublishHands ==
  ASSUME TypeOK, Hands, NoReturn, SameHanded, NEW o \in offers,
         offers' = offers \ {o}, \A c \in Classes : calls'[c] >= 0,
         wrapper' = [j \in Jobs |-> IF j \in o.jobs THEN "queued" ELSE wrapper[j]]
  PROVE  Hands'
<1>1. /\ o.jobs \subseteq Jobs /\ Offered(o)
      /\ \A j \in Jobs : wrapper'[j] = IF j \in o.jobs THEN "queued" ELSE wrapper[j]
  BY DEF Hands, TypeOK, Portions
<1>2. \A c \in Classes : Loaded(c)' = Loaded(c)
  BY <1>1 DEF Loaded, Held, Offered
<1>3. ASSUME NEW k \in Jobs
      PROVE  /\ stage'[k] \in Early => wrapper'[k] = "none"
             /\ wrapper'[k] = "offered" => \E p \in offers' : k \in p.jobs
  BY <1>1 DEF Hands, NoReturn, Offered
<1>4. ASSUME NEW p \in offers' PROVE Offered(p)'
  <2>1. Offered(p) /\ p.jobs \subseteq Jobs /\ p.jobs \cap o.jobs = {}
    BY DEF Hands, TypeOK, Portions
  <2> QED
    BY <1>1, <2>1 DEF Offered
<1> QED
  BY <1>2, <1>3, <1>4 DEF Hands, SameHanded

LEMMA RefuseHands ==
  ASSUME TypeOK, Hands, NoReturn, NEW o \in offers,
         offers' = offers \ {o}, \A c \in Classes : calls'[c] >= 0,
         wrapper' = [j \in Jobs |-> IF j \in o.jobs THEN "gone" ELSE wrapper[j]],
         class'[o.class].handed = class[o.class].handed - Cardinality(o.jobs),
         \A c \in Classes \ {o.class} : class'[c].handed = class[c].handed
  PROVE  Hands'
<1>1. /\ o.jobs \subseteq Jobs /\ Offered(o) /\ o.class \in Classes
      /\ \A j \in Jobs : wrapper'[j] = IF j \in o.jobs THEN "gone" ELSE wrapper[j]
  BY DEF Hands, TypeOK, Portions
<1> DEFINE c == o.class
           U == Loaded(c)
           P == o.jobs
<1>2. \A d \in Classes \ {c} : Loaded(d)' = Loaded(d)
  BY <1>1 DEF Loaded, Held, Offered
<1>3. Loaded(c)' = U \ P /\ P \subseteq U
  BY <1>1 DEF Loaded, Held, Offered
<1>4. /\ IsFiniteSet(U) /\ Cardinality(U) \in Nat /\ class[c].handed = Cardinality(U)
      /\ class[c].handed <= HandoffLimit[c] /\ HandoffLimit[c] \in Nat
  BY <1>1, LoadedFinite, SchedulerAssumption DEF Hands
<1> HIDE DEF U, P, c
<1>5. /\ Cardinality(U \ P) = Cardinality(U) - Cardinality(U \cap P) /\ U \cap P = P
      /\ Cardinality(P) \in Nat
  <2>1. IsFiniteSet(P)
    BY <1>3, <1>4, FS_Subset
  <2> QED
    BY <1>3, <1>4, <2>1, FS_Difference, FS_CardinalityType
<1>6. class'[c].handed = Cardinality(Loaded(c)') /\ class'[c].handed <= HandoffLimit[c]
  <2>1. class'[c].handed = class[c].handed - Cardinality(P)
    BY DEF c, P
  <2>2. Cardinality(Loaded(c)') = Cardinality(U) - Cardinality(P)
    BY <1>3, <1>5
  <2> QED
    BY <1>4, <1>5, <2>1, <2>2
<1>7. ASSUME NEW k \in Jobs
      PROVE  /\ stage'[k] \in Early => wrapper'[k] = "none"
             /\ wrapper'[k] = "offered" => \E p \in offers' : k \in p.jobs
  BY <1>1 DEF Hands, NoReturn, Offered
<1>8. ASSUME NEW p \in offers' PROVE Offered(p)'
  <2>1. Offered(p) /\ p.jobs \subseteq Jobs /\ p.jobs \cap o.jobs = {}
    BY DEF Hands, TypeOK, Portions
  <2> QED
    BY <1>1, <2>1 DEF Offered
<1>9. \A d \in Classes : /\ class'[d].handed = Cardinality(Loaded(d)')
                         /\ class'[d].handed <= HandoffLimit[d]
  BY <1>2, <1>6 DEF Hands, c
<1> QED
  BY <1>7, <1>8, <1>9 DEF Hands

LEMMA DispatchHands ==
  ASSUME TypeOK, Hands, NEW c \in Classes, NEW P \in SUBSET Jobs, HandsOut(c, P), Aside(c),
         NoReturn, \A d \in Classes : calls'[d] >= 0
  PROVE  Hands'
<1>1. /\ \A j \in P : ClassOf[j] = c /\ wrapper[j] = "none"
      /\ \A j \in Jobs : wrapper'[j] = IF j \in P THEN "offered" ELSE wrapper[j]
      /\ \A j \in P : stage'[j] = "Handed"
  BY DEF HandsOut, Hands, Early
<1>2. \A d \in Classes \ {c} : Loaded(d)' = Loaded(d) /\ class'[d].handed = class[d].handed
  BY <1>1 DEF Loaded, Held, Aside
<1> DEFINE U == Loaded(c)
<1>3. /\ Loaded(c)' = U \cup P /\ U \cap P = {}
  BY <1>1 DEF Loaded, Held
<1>4. /\ IsFiniteSet(U) /\ Cardinality(U) \in Nat /\ class[c].handed = Cardinality(U)
      /\ class[c].handed <= HandoffLimit[c] /\ IsFiniteSet(P)
  BY LoadedFinite, SchedulerAssumption, FS_Subset DEF Hands
<1> HIDE DEF U
<1>5. Cardinality(U \cup P) = Cardinality(U) + Cardinality(P) /\ Cardinality(P) \in Nat
      /\ (P = {} => Cardinality(P) = 0)
  <2>1. Cardinality(U \cup P) = Cardinality(U) + Cardinality(P) - Cardinality(U \cap P)
    BY <1>4, FS_Union
  <2>2. Cardinality(U \cap P) = 0 /\ Cardinality(P) \in Nat /\ (P = {} => Cardinality(P) = 0)
    BY <1>3, <1>4, FS_EmptySet, FS_CardinalityType
  <2> QED
    BY <1>4, <2>1, <2>2
<1>6. class'[c].handed = Cardinality(Loaded(c)') /\ class'[c].handed <= HandoffLimit[c]
  BY <1>3, <1>4, <1>5 DEF HandsOut
<1>7. \A d \in Classes : /\ class'[d].handed = Cardinality(Loaded(d)')
                         /\ class'[d].handed <= HandoffLimit[d]
  BY <1>2, <1>6 DEF Hands
<1> DEFINE n == [class |-> c, jobs |-> P]
<1>8. n.class = c /\ n.jobs = P /\ (P # {} => offers' = offers \cup {n})
      /\ (P = {} => offers' = offers)
  BY DEF HandsOut
<1> HIDE DEF n
<1>9. ASSUME NEW k \in Jobs
      PROVE  /\ stage'[k] \in Early => wrapper'[k] = "none"
             /\ wrapper'[k] = "offered" => \E p \in offers' : k \in p.jobs
  <2>1. CASE k \in P
    BY <1>1, <1>8, <2>1 DEF Early
  <2>2. CASE k \notin P
    BY <1>1, <1>8, <2>2 DEF Hands, NoReturn
  <2> QED
    BY <2>1, <2>2
<1>10. ASSUME NEW p \in offers
       PROVE  Offered(p)' /\ p.jobs \cap P = {}
  <2>1. Offered(p) /\ p.jobs \subseteq Jobs
    BY DEF Hands, TypeOK, Portions
  <2>2. p.jobs \cap P = {}
    BY <1>1, <2>1 DEF Offered
  <2> QED
    BY <1>1, <2>1, <2>2 DEF Offered
<1>11. P # {} => Offered(n)'
  BY <1>1, <1>8 DEF Offered
<1>12. \A o, p \in offers' : o.jobs \cap p.jobs # {} => o = p
  BY <1>8, <1>10 DEF Hands
<1> QED
  BY <1>7, <1>8, <1>9, <1>10, <1>11, <1>12 DEF Hands

\* Whoever turns, the dispatch_class calls in their loops are counted.
LEMMA CallsStep ==
  ASSUME TypeOK, Hands, [Next]_vars
  PROVE  \A c \in Classes : calls'[c] >= 0
<1>1. calls \in [Classes -> Int] /\ \A c \in Classes : calls[c] >= 0
  BY DEF TypeOK, Hands
<1>2. ASSUME NEW d, CallDispatch(d) PROVE \A c \in Classes : calls'[c] >= 0
  BY <1>1, <1>2 DEF CallDispatch
<1>3. ASSUME NEW d \in Classes, Dispatch(d) PROVE \A c \in Classes : calls'[c] >= 0
  <2>1. calls[d] > 0 /\ calls' = [calls EXCEPT ![d] = @ - 1]
    BY <1>3 DEF Dispatch
  <2> QED
    BY <1>1, <2>1
<1>4. CASE Environment
  BY <1>1, <1>4 DEF Environment, Submit, Cancel, Help, Seal, BeginShutdown, AbandonRuntime, handVars
<1>5. ASSUME NEW j \in Jobs, SubmitStep(j) PROVE \A c \in Classes : calls'[c] >= 0
  BY <1>1, <1>2, <1>5 DEF SubmitStep, ChargeRecord, ChargeEdges, Accept, Unjoin, Refuse,
    CloseAttachment, ActivateSubmitted, ClaimInline, handVars
<1>6. ASSUME NEW j \in Jobs, WrapperStep(j) PROVE \A c \in Classes : calls'[c] >= 0
  BY <1>1, <1>2, <1>6 DEF WrapperStep, EnterWrapper, LeaveWrapper, DiscardWrapper
<1>7. ASSUME NEW j \in Jobs, SettleStep(j) PROVE \A c \in Classes : calls'[c] >= 0
  BY <1>1, <1>2, <1>7 DEF SettleStep, ReturnBody, DeferFinish, Publish, Finalize, Leave,
    LeavePublished, Retire, handVars
<1>8. ASSUME NEW e \in Edges, EdgeStep(e) PROVE \A c \in Classes : calls'[c] >= 0
  BY <1>1, <1>2, <1>8 DEF EdgeStep, Subscribe, DeliverEdge, ActivateEdge, Detach, handVars
<1>9. ASSUME NEW o \in offers, OfferStep(o) PROVE \A c \in Classes : calls'[c] >= 0
  BY <1>1, <1>2, <1>9 DEF OfferStep, PublishOffer, RefuseOffer
<1>10. ASSUME \/ \E d \in suppressing : SuppressDecided(d)
              \/ \E g \in Groups : PublishGroup(g)
              \/ AbandonCut \/ UNCHANGED vars
       PROVE  \A c \in Classes : calls'[c] >= 0
  BY <1>1, <1>10 DEF SuppressDecided, PublishGroup, AbandonCut, vars, handVars
<1> QED
  BY <1>3, <1>4, <1>5, <1>6, <1>7, <1>8, <1>9, <1>10 DEF Next, System

LEMMA HandsInit == Init => Hands
<1> SUFFICES ASSUME Init PROVE Hands
  OBVIOUS
<1>1. ASSUME NEW c \in Classes
      PROVE  class[c].handed = 0 /\ calls[c] = 0 /\ Loaded(c) = {} /\ HandoffLimit[c] \in Nat
  BY <1>1, SchedulerAssumption DEF Init, Loaded, Held
<1>2. offers = {} /\ \A j \in Jobs : wrapper[j] = "none"
  BY DEF Init
<1>3. \A c \in Classes : /\ class[c].handed = Cardinality(Loaded(c))
                         /\ class[c].handed <= HandoffLimit[c] /\ calls[c] >= 0
  BY <1>1, FS_EmptySet
<1> QED
  BY <1>2, <1>3 DEF Hands

LEMMA HandsStep == Footing /\ Tally /\ CutOff /\ Hands /\ [Next]_vars => Hands'
<1> SUFFICES ASSUME Footing, Tally, CutOff, Hands, [Next]_vars PROVE Hands'
  OBVIOUS
<1>0. /\ TypeOK /\ Places /\ Lives /\ NoReturn
      /\ \A c \in Classes : calls'[c] >= 0
  BY StepOrderly, CallsStep DEF Footing, Orderly
<1>1. ASSUME UNCHANGED <<class, wrapper, offers>> PROVE Hands'
  BY <1>0, <1>1, HandsKept DEF SameHanded
<1>2. ASSUME NEW j \in Jobs, SubmitStep(j) PROVE Hands'
  <2>1. CASE ActivateSubmitted(j)
    <3> DEFINE inl == j \in inline
    <3>1. ActivateReady(j, inl) /\ UNCHANGED <<wrapper, offers>>
      BY <2>1 DEF ActivateSubmitted
    <3> HIDE DEF inl
    <3> QED
      BY <1>0, <3>1, ActivateTurns, HandsKept
  <2>2. CASE ClaimInline(j)
    <3>1. UNCHANGED <<wrapper, offers>> /\ (Claim("caller", j) \/ UNCHANGED class)
      BY <2>2 DEF ClaimInline, handVars, queueVars
    <3> QED
      BY <1>0, <1>1, <3>1, ClaimTurns, HandsKept
  <2> QED
    BY <1>0, <1>1, <1>2, <2>1, <2>2, SubmissionQuiet DEF SubmitStep
<1>3. ASSUME NEW j \in Jobs, Submit(j) \/ Cancel(j) \/ Help(j) PROVE Hands'
  <2>1. CASE Submit(j)
    BY <1>0, <1>1, <2>1, SubmissionQuiet
  <2>2. CASE Cancel(j)
    BY <1>0, <2>2, SuppressTurns, HandsKept DEF Cancel, handVars
  <2>3. CASE Help(j)
    BY <1>0, <2>3, ClaimTurns, HandsKept DEF Help, handVars
  <2> QED
    BY <1>3, <2>1, <2>2, <2>3
<1>4. ASSUME NEW j \in Jobs, WrapperStep(j) PROVE Hands'
  <2>0. ClassOf[j] \in Classes
    BY SchedulerAssumption
  <2>1. CASE EnterWrapper(j)
    <3>1. /\ wrapper[j] = "queued" /\ wrapper' = [wrapper EXCEPT ![j] = "running"]
          /\ UNCHANGED offers /\ Claim("worker", j)
      BY <2>1 DEF EnterWrapper
    <3>2. SameHanded
      BY <1>0, <3>1, ClaimTurns
    <3> DEFINE x == "running"
    <3>3. /\ wrapper[j] \in {"queued", "running"} /\ x \in {"running", "gone"}
          /\ wrapper' = [wrapper EXCEPT ![j] = x]
          /\ class'[ClassOf[j]].handed =
               IF x = "gone" THEN class[ClassOf[j]].handed - 1 ELSE class[ClassOf[j]].handed
          /\ \A c \in Classes \ {ClassOf[j]} : class'[c].handed = class[c].handed
      BY <2>0, <3>1, <3>2 DEF SameHanded
    <3> HIDE DEF x
    <3> QED
      BY <1>0, <3>1, <3>3, WrapperHands
  <2>2. CASE LeaveWrapper(j) \/ DiscardWrapper(j)
    <3>1. wrapper[j] \in {"queued", "running"} /\ wrapper' = [wrapper EXCEPT ![j] = "gone"]
      BY <2>2 DEF LeaveWrapper, DiscardWrapper
    <3>2. /\ UNCHANGED offers
          /\ class'[ClassOf[j]].handed = class[ClassOf[j]].handed - 1
          /\ \A c \in Classes \ {ClassOf[j]} : class'[c].handed = class[c].handed
      BY <1>0, <2>2, WrapperQuiet
    <3> DEFINE x == "gone"
    <3>3. /\ x \in {"running", "gone"} /\ wrapper' = [wrapper EXCEPT ![j] = x]
          /\ class'[ClassOf[j]].handed =
               IF x = "gone" THEN class[ClassOf[j]].handed - 1 ELSE class[ClassOf[j]].handed
      BY <3>1, <3>2
    <3> HIDE DEF x
    <3> QED
      BY <1>0, <3>1, <3>2, <3>3, WrapperHands
  <2> QED
    BY <1>4, <2>1, <2>2 DEF WrapperStep
<1>5. ASSUME NEW j \in Jobs, SettleStep(j) PROVE Hands'
  BY <1>0, <1>1, <1>5, SettlementQuiet
<1>6. ASSUME NEW e \in Edges, EdgeStep(e) PROVE Hands'
  <2>1. CASE ActivateEdge(e)
    <3>1. e[1] \in Jobs /\ ActivateReady(e[1], FALSE) /\ UNCHANGED <<wrapper, offers>>
      BY <2>1, EdgeEnds DEF ActivateEdge
    <3> QED
      BY <1>0, <3>1, ActivateTurns, HandsKept
  <2> QED
    BY <1>0, <1>1, <1>6, <2>1, EdgeQuiet DEF EdgeStep
<1>7. ASSUME NEW d \in suppressing, SuppressDecided(d) PROVE Hands'
  <2>1. d[1] \in Jobs /\ Suppress(d[1], d[2]) /\ UNCHANGED <<wrapper, offers>>
    BY <1>0, <1>7 DEF TypeOK, SuppressDecided, handVars
  <2> QED
    BY <1>0, <2>1, SuppressTurns, HandsKept
<1>8. ASSUME NEW o \in offers, OfferStep(o) PROVE Hands'
  <2>1. CASE PublishOffer(o)
    <3>1. /\ offers' = offers \ {o}
          /\ wrapper' = [j \in Jobs |-> IF j \in o.jobs THEN "queued" ELSE wrapper[j]]
      BY <2>1 DEF PublishOffer
    <3> QED
      BY <1>0, <2>1, <3>1, OfferQuiet, PublishHands
  <2>2. CASE RefuseOffer(o)
    <3>1. /\ offers' = offers \ {o}
          /\ wrapper' = [j \in Jobs |-> IF j \in o.jobs THEN "gone" ELSE wrapper[j]]
      BY <2>2 DEF RefuseOffer
    <3> QED
      BY <1>0, <2>2, <3>1, OfferQuiet, RefuseHands
  <2> QED
    BY <1>8, <2>1, <2>2 DEF OfferStep
<1>9. ASSUME NEW c \in Classes, Dispatch(c) PROVE Hands'
  <2>1. Aside(c) /\ \E P \in SUBSET Jobs : HandsOut(c, P)
    BY <1>0, <1>9, DispatchTurns
  <2> QED
    BY <1>0, <2>1, DispatchHands
<1>10. CASE \/ \E g \in Groups : Seal(g) \/ PublishGroup(g)
            \/ BeginShutdown \/ AbandonRuntime \/ AbandonCut \/ UNCHANGED vars
  BY <1>0, <1>1, <1>10, RestQuiet
<1> QED
  BY <1>2, <1>3, <1>4, <1>5, <1>6, <1>7, <1>8, <1>9, <1>10 DEF Next, Environment, System

-----------------------------------------------------------------------------
(* Somebody is always coming *)

\* A job that ends in a dispatch_class of its class: it is being run or
\* settled, its submitter is about to run it, or a wrapper of it is queued.
Engaged(j) ==
  \/ exec[j] \notin {"none", "done"}
  \/ sub[j] = "claiming" /\ stage[j] = "Ready"
  \/ wrapper[j] \in {"queued", "running"}

Coming(c) ==
  \/ calls[c] > 0
  \/ \E o \in offers : o.class = c
  \/ \E j \in Jobs : ClassOf[j] = c /\ Engaged(j)

Owed == Serving => \A c \in Classes : class[c].ready = << >> \/ Coming(c)

\* A step leaves class c nothing to do, somebody who will do it, or as it was.
Upkept(c) ==
  \/ class'[c].ready = << >>
  \/ Coming(c)'
  \/ class'[c].ready = class[c].ready /\ (Coming(c) => Coming(c)')

\* What a step about class c does to the others.
Elsewhere(c) ==
  /\ \A d \in Classes \ {c} : class'[d].ready = class[d].ready /\ calls'[d] = calls[d]
  /\ \A k \in Jobs : ClassOf[k] # c => (Engaged(k) => Engaged(k)')
  /\ \A o \in offers : o.class # c => o \in offers'

LEMMA ElsewhereUpkept ==
  ASSUME NEW c, Elsewhere(c), class'[c].ready = << >> \/ Coming(c)'
  PROVE  \A d \in Classes : Upkept(d)
<1> SUFFICES ASSUME NEW d \in Classes PROVE Upkept(d)
  OBVIOUS
<1>1. CASE d = c
  BY <1>1 DEF Upkept
<1>2. CASE d # c
  BY <1>2 DEF Elsewhere, Upkept, Coming
<1> QED
  BY <1>1, <1>2

LEMMA NowhereUpkept ==
  ASSUME \A d \in Classes : class'[d].ready = class[d].ready,
         UNCHANGED <<calls, offers>>, \A k \in Jobs : Engaged(k) => Engaged(k)'
  PROVE  \A d \in Classes : Upkept(d)
BY DEF Upkept, Coming

\* dispatch_class is called for class c.
LEMMA CalledUpkept ==
  ASSUME TypeOK, Hands, NEW c \in Classes, CallDispatch(c),
         \A d \in Classes \ {c} : class'[d].ready = class[d].ready,
         \A k \in Jobs : ClassOf[k] # c => (Engaged(k) => Engaged(k)'),
         \A o \in offers : o.class # c => o \in offers'
  PROVE  \A d \in Classes : Upkept(d)
<1>1. calls'[c] > 0 /\ \A d \in Classes \ {c} : calls'[d] = calls[d]
  BY DEF TypeOK, Hands, CallDispatch
<1>2. Elsewhere(c) /\ Coming(c)'
  BY <1>1 DEF Elsewhere, Coming
<1> QED
  BY <1>2, ElsewhereUpkept

\* A job of class c is claimed, or taken from it.
LEMMA TakenUpkept ==
  ASSUME TypeOK, NEW j \in Jobs, Aside(ClassOf[j]), NEW x \in {"body", "finish"},
         exec' = [exec EXCEPT ![j] = x],
         \A k \in Jobs \ {j} : sub'[k] = sub[k] /\ wrapper'[k] = wrapper[k],
         UNCHANGED <<calls, offers>>
  PROVE  \A d \in Classes : Upkept(d)
<1>1. exec'[j] = x /\ \A k \in Jobs \ {j} : exec'[k] = exec[k]
  BY DEF TypeOK
<1>2. Coming(ClassOf[j])'
  BY <1>1 DEF Coming, Engaged
<1>3. Elsewhere(ClassOf[j])
  BY <1>1 DEF Elsewhere, Engaged, Aside
<1> QED
  BY <1>2, <1>3, ElsewhereUpkept

LEMMA ClaimUpkept ==
  ASSUME TypeOK, Places, Tally, NEW who, NEW j \in Jobs, Claim(who, j),
         \A k \in Jobs \ {j} : sub'[k] = sub[k] /\ wrapper'[k] = wrapper[k],
         UNCHANGED <<calls, offers>>
  PROVE  \A d \in Classes : Upkept(d)
<1> DEFINE x == "body"
<1>1. exec' = [exec EXCEPT ![j] = x] /\ x \in {"body", "finish"}
  BY DEF Claim
<1> HIDE DEF x
<1> QED
  BY <1>1, ClaimTurns, TakenUpkept

LEMMA SuppressUpkept ==
  ASSUME TypeOK, Places, Tally, NEW j \in Jobs, NEW s, Suppress(j, s),
         UNCHANGED <<sub, wrapper, calls, offers>>
  PROVE  \A d \in Classes : Upkept(d)
<1>1. CASE UNCHANGED <<queueVars, finishVars>>
  BY <1>1, NowhereUpkept DEF queueVars, finishVars, Engaged
<1>2. CASE exec' = [exec EXCEPT ![j] = "finish"]
  <2> DEFINE x == "finish"
  <2>1. exec' = [exec EXCEPT ![j] = x] /\ x \in {"body", "finish"}
    BY <1>2
  <2> HIDE DEF x
  <2> QED
    BY <2>1, SuppressTurns, TakenUpkept
<1> QED
  BY <1>1, <1>2 DEF Suppress

LEMMA DispatchUpkept ==
  ASSUME Footing, Tally, CutOff, Hands, Hands', NEW c \in Classes, Dispatch(c), Serving'
  PROVE  \A d \in Classes : Upkept(d)
<1>1. PICK P \in SUBSET Jobs : HandsOut(c, P) /\ Aside(c)
  BY DispatchTurns DEF Footing
<1>2. /\ UNCHANGED <<sub, exec, phase, abandoned, cutting>>
      /\ calls' = [calls EXCEPT ![c] = @ - 1]
  BY DEF Dispatch, submitVars, finishVars, closeVars
<1>3. ~abandoned
  BY <1>2 DEF CutOff, Serving
<1>4. Elsewhere(c)
  <2>1. \A d \in Classes \ {c} : class'[d].ready = class[d].ready /\ calls'[d] = calls[d]
    BY <1>1, <1>2 DEF Aside, Footing, TypeOK
  <2>2. ASSUME NEW k \in Jobs, ClassOf[k] # c, Engaged(k) PROVE Engaged(k)'
    <3>1. wrapper'[k] = wrapper[k] /\ stage'[k] = stage[k]
      BY <1>1, <2>2 DEF HandsOut, Aside
    <3> QED
      BY <1>2, <2>2, <3>1 DEF Engaged
  <2>3. offers \subseteq offers'
    BY <1>1 DEF HandsOut
  <2> QED
    BY <2>1, <2>2, <2>3 DEF Elsewhere
<1>5. ASSUME class'[c].ready # << >> PROVE Coming(c)'
  <2>1. CASE P # {}
    <3> DEFINE o == [class |-> c, jobs |-> P]
    <3>1. o \in offers' /\ o.class = c
      BY <1>1, <2>1 DEF HandsOut
    <3> HIDE DEF o
    <3> QED
      BY <3>1 DEF Coming
  <2>2. CASE P = {}
    <3>1. class'[c].handed >= HandoffLimit[c] /\ HandoffLimit[c] \in Nat \ {0}
      BY <1>1, <1>3, <1>5, <2>2, SchedulerAssumption DEF HandsOut
    <3>2. class'[c].handed = Cardinality(Loaded(c)')
      BY DEF Hands
    <3>3. Loaded(c)' # {}
      <4>1. Cardinality(Loaded(c)') # 0
        BY <3>1, <3>2
      <4> QED
        BY <4>1, FS_EmptySet
    <3>4. PICK j \in Jobs : ClassOf[j] = c /\ wrapper'[j] \in Held
      BY <3>3 DEF Loaded
    <3>5. CASE wrapper'[j] = "offered"
      <4>1. PICK o \in offers' : j \in o.jobs
        BY <3>5 DEF Hands
      <4>2. o.class = c
        BY <3>4, <4>1 DEF Hands, Offered
      <4> QED
        BY <4>1, <4>2 DEF Coming
    <3>6. CASE wrapper'[j] # "offered"
      BY <3>4, <3>6 DEF Coming, Engaged, Held
    <3> QED
      BY <3>5, <3>6
  <2> QED
    BY <2>1, <2>2
<1> QED
  BY <1>4, <1>5, ElsewhereUpkept

LEMMA SubmissionUpkept ==
  ASSUME Footing, NEW j \in Jobs,
         \/ Submit(j) \/ ChargeRecord(j) \/ ChargeEdges(j) \/ Accept(j) \/ Unjoin(j)
         \/ Refuse(j) \/ CloseAttachment(j)
  PROVE  \A d \in Classes : Upkept(d)
<1>1. Quiet /\ UNCHANGED <<class, wrapper, calls, offers>>
  BY SubmissionQuiet DEF Footing
<1>2. \A k \in Jobs : sub[k] = "claiming" => sub'[k] = "claiming"
  BY DEF Submit, MaySubmit, ChargeRecord, ChargeEdges, Accept, Unjoin, Refuse, CloseAttachment,
    Attaching, Footing, TypeOK
<1>3. \A k \in Jobs : exec[k] \notin {"none", "done"} => exec'[k] \notin {"none", "done"}
  BY DEF Submit, ChargeRecord, ChargeEdges, Accept, Unjoin, Refuse, CloseAttachment, finishVars,
    Footing, TypeOK
<1>4. \A k \in Jobs : stage[k] = "Ready" => stage'[k] = "Ready"
  BY <1>1 DEF Quiet, Pooled
<1> QED
  BY <1>1, <1>2, <1>3, <1>4, NowhereUpkept DEF Engaged

LEMMA ActivationUpkept ==
  ASSUME Footing, Tally, Hands, NEW j \in Jobs, ActivateSubmitted(j)
  PROVE  \A d \in Classes : Upkept(d)
<1>0. TypeOK /\ Places /\ Lives /\ ClassOf[j] \in Classes
  BY SchedulerAssumption DEF Footing
<1>1. /\ ActivateReady(j, j \in inline) /\ sub[j] = "activating" /\ UNCHANGED <<exec, wrapper, offers>>
      /\ \A k \in Jobs \ {j} : sub'[k] = sub[k]
      /\ j \in inline => sub'[j] = "claiming" /\ UNCHANGED calls
      /\ j \notin inline => CallDispatch(ClassOf[j])
  BY <1>0 DEF ActivateSubmitted, finishVars, TypeOK
<1> DEFINE inl == j \in inline
<1>2. Aside(ClassOf[j]) /\ (UNCHANGED queueVars \/ (inl => stage'[j] = "Ready"))
  <2> DEFINE in == IF inl THEN {j} ELSE {}
  <2>1. ActivateReady(j, inl) /\ in = IF inl THEN {j} ELSE {}
    BY <1>1
  <2> HIDE DEF inl, in
  <2> QED
    BY <1>0, <2>1, ActivateTurns
<1>3. \A k \in Jobs : ClassOf[k] # ClassOf[j] => (Engaged(k) => Engaged(k)')
  BY <1>1, <1>2 DEF Aside, Engaged
<1>4. CASE j \notin inline
  BY <1>0, <1>1, <1>2, <1>3, <1>4, CalledUpkept DEF Aside
<1>5. CASE UNCHANGED queueVars /\ j \in inline
  <2>1. \A k \in Jobs : Engaged(k) => Engaged(k)'
    BY <1>1, <1>5 DEF Engaged, queueVars
  <2> QED
    BY <1>1, <1>5, <2>1, NowhereUpkept DEF queueVars
<1>6. CASE stage'[j] = "Ready" /\ j \in inline
  <2>1. Coming(ClassOf[j])'
    BY <1>1, <1>6 DEF Coming, Engaged
  <2>2. Elsewhere(ClassOf[j])
    BY <1>1, <1>2, <1>3, <1>6 DEF Elsewhere, Aside
  <2> QED
    BY <2>1, <2>2, ElsewhereUpkept
<1> QED
  BY <1>2, <1>4, <1>5, <1>6

LEMMA ClaimInlineUpkept ==
  ASSUME Footing, Tally, CutOff, NEW j \in Jobs, ClaimInline(j), Serving'
  PROVE  \A d \in Classes : Upkept(d)
<1>1. /\ UNCHANGED <<wrapper, calls, offers, phase>>
      /\ \A k \in Jobs \ {j} : sub'[k] = sub[k]
  BY DEF ClaimInline, handVars, closeVars, Footing, TypeOK
<1>2. CASE Claim("caller", j)
  BY <1>1, <1>2, ClaimUpkept DEF Footing
<1>3. CASE ~(Serving /\ Claimable("caller", j)) /\ UNCHANGED <<queueVars, finishVars>>
  <2>1. stage[j] # "Ready"
    BY <1>1, <1>3 DEF Claimable, CutOff, Serving
  <2>2. \A k \in Jobs : Engaged(k) => Engaged(k)'
    BY <1>1, <1>3, <2>1 DEF Engaged, queueVars, finishVars
  <2> QED
    BY <1>1, <1>3, <2>2, NowhereUpkept DEF queueVars
<1> QED
  BY <1>2, <1>3 DEF ClaimInline

LEMMA WrapperUpkept ==
  ASSUME Footing, Tally, CutOff, Hands, NEW j \in Jobs, WrapperStep(j), Serving'
  PROVE  \A d \in Classes : Upkept(d)
<1>0. TypeOK /\ Places /\ ClassOf[j] \in Classes
  BY SchedulerAssumption DEF Footing
<1>1. CASE EnterWrapper(j)
  <2>1. /\ Claim("worker", j) /\ UNCHANGED <<sub, calls, offers>>
        /\ \A k \in Jobs \ {j} : wrapper'[k] = wrapper[k]
    BY <1>0, <1>1 DEF EnterWrapper, submitVars, TypeOK
  <2> QED
    BY <1>0, <2>1, ClaimUpkept
<1>2. CASE LeaveWrapper(j)
  <2>1. /\ abandoned \/ CallDispatch(ClassOf[j])
        /\ UNCHANGED phase /\ \A k \in Jobs \ {j} : wrapper'[k] = wrapper[k]
    BY <1>0, <1>2 DEF LeaveWrapper, closeVars, TypeOK
  <2>2. CallDispatch(ClassOf[j])
    BY <2>1 DEF CutOff, Serving
  <2>3. Quiet /\ UNCHANGED <<stage, exec, sub, offers>>
    BY <1>0, <1>2, WrapperQuiet
  <2> QED
    BY <1>0, <2>1, <2>2, <2>3, CalledUpkept DEF Quiet, Engaged
<1>3. CASE DiscardWrapper(j)
  BY <1>3 DEF DiscardWrapper, Stopping, Serving, closeVars
<1> QED
  BY <1>1, <1>2, <1>3 DEF WrapperStep

LEMMA SettlementUpkept ==
  ASSUME Footing, Hands, NEW j \in Jobs, SettleStep(j)
  PROVE  \A d \in Classes : Upkept(d)
<1>0. TypeOK /\ Lives /\ ClassOf[j] \in Classes
  BY SchedulerAssumption DEF Footing
<1>1. Quiet /\ UNCHANGED <<class, wrapper, offers, sub>>
  BY <1>0, SettlementQuiet
<1>2. \A k \in Jobs : stage[k] = "Ready" => stage'[k] = "Ready"
  BY <1>1 DEF Quiet, Pooled
<1>3. \A k \in Jobs \ {j} : exec'[k] = exec[k]
  BY <1>0 DEF SettleStep, ReturnBody, DeferFinish, Publish, Finalize, Leave, LeavePublished, Retire,
    TypeOK
<1>4. \/ Retire(j)
      \/ UNCHANGED calls /\ exec'[j] \notin {"none", "done"}
  BY <1>0 DEF SettleStep, ReturnBody, DeferFinish, Publish, Finalize, Leave, LeavePublished,
    handVars, TypeOK
<1>5. CASE Retire(j)
  <2>1. \A k \in Jobs : ClassOf[k] # ClassOf[j] => (Engaged(k) => Engaged(k)')
    BY <1>1, <1>2, <1>3 DEF Engaged
  <2> QED
    BY <1>0, <1>1, <1>5, <2>1, CalledUpkept DEF Retire
<1>6. CASE UNCHANGED calls /\ exec'[j] \notin {"none", "done"}
  <2>1. \A k \in Jobs : Engaged(k) => Engaged(k)'
    BY <1>1, <1>2, <1>3, <1>6 DEF Engaged
  <2> QED
    BY <1>1, <1>6, <2>1, NowhereUpkept
<1> QED
  BY <1>4, <1>5, <1>6

LEMMA OfferUpkept ==
  ASSUME Footing, Hands, NEW o \in offers, OfferStep(o), Serving'
  PROVE  \A d \in Classes : Upkept(d)
<1>0. TypeOK /\ o.class \in Classes /\ Offered(o) /\ o.jobs \subseteq Jobs
  BY DEF Footing, TypeOK, Portions, Hands
<1>1. CASE PublishOffer(o)
  <2>1. /\ offers' = offers \ {o} /\ CallDispatch(o.class)
        /\ \A k \in Jobs : wrapper'[k] = IF k \in o.jobs THEN "queued" ELSE wrapper[k]
    BY <1>1 DEF PublishOffer
  <2>2. Quiet /\ UNCHANGED <<stage, exec, sub>>
    BY <1>0, <1>1, OfferQuiet
  <2>3. \A k \in Jobs : ClassOf[k] # o.class => (Engaged(k) => Engaged(k)')
    BY <1>0, <2>1, <2>2 DEF Engaged, Offered
  <2> QED
    BY <1>0, <2>1, <2>2, <2>3, CalledUpkept DEF Quiet
<1>2. CASE RefuseOffer(o)
  BY <1>2 DEF RefuseOffer, Serving
<1> QED
  BY <1>1, <1>2 DEF OfferStep

LEMMA OwedInit == Init => Owed
BY DEF Init, Owed

LEMMA OwedStep == Footing /\ Tally /\ CutOff /\ Hands /\ Owed /\ [Next]_vars => Owed'
<1> SUFFICES ASSUME Footing, Tally, CutOff, Hands, Owed, [Next]_vars, Serving'
             PROVE  Owed'
  BY DEF Owed
<1>0. TypeOK /\ Places /\ Lives /\ Hands'
  BY HandsStep DEF Footing
<1>1. ASSUME NEW j \in Jobs, SubmitStep(j) \/ Submit(j) PROVE \A d \in Classes : Upkept(d)
  BY <1>1, SubmissionUpkept, ActivationUpkept, ClaimInlineUpkept DEF SubmitStep
<1>2. ASSUME NEW j \in Jobs, Cancel(j) \/ Help(j) PROVE \A d \in Classes : Upkept(d)
  <2>1. UNCHANGED <<sub, wrapper, calls, offers>>
    BY <1>2 DEF Cancel, Help, submitVars, handVars
  <2> QED
    BY <1>0, <1>2, <2>1, SuppressUpkept, ClaimUpkept DEF Cancel, Help
<1>3. ASSUME NEW e \in Edges, EdgeStep(e) PROVE \A d \in Classes : Upkept(d)
  <2>1. CASE ActivateEdge(e)
    <3>1. /\ e[1] \in Jobs /\ ClassOf[e[1]] \in Classes /\ ActivateReady(e[1], FALSE)
          /\ CallDispatch(ClassOf[e[1]]) /\ UNCHANGED <<sub, exec, wrapper, offers>>
      BY <2>1, EdgeEnds, SchedulerAssumption DEF ActivateEdge, submitVars, finishVars
    <3>2. Aside(ClassOf[e[1]])
      BY <1>0, <3>1, ActivateTurns
    <3> QED
      BY <1>0, <3>1, <3>2, CalledUpkept DEF Aside, Engaged
  <2>2. CASE Subscribe(e) \/ DeliverEdge(e) \/ Detach(e)
    BY <1>0, <2>2, EdgeQuiet, NowhereUpkept DEF Engaged
  <2> QED
    BY <1>3, <2>1, <2>2 DEF EdgeStep
<1>4. ASSUME NEW d \in suppressing, SuppressDecided(d) PROVE \A c \in Classes : Upkept(c)
  <2>1. d[1] \in Jobs /\ Suppress(d[1], d[2]) /\ UNCHANGED <<sub, wrapper, calls, offers>>
    BY <1>0, <1>4 DEF TypeOK, SuppressDecided, submitVars, handVars
  <2> QED
    BY <1>0, <2>1, SuppressUpkept
<1>5. ASSUME \/ \E g \in Groups : Seal(g) \/ PublishGroup(g)
             \/ BeginShutdown \/ AbandonRuntime \/ AbandonCut \/ UNCHANGED vars
      PROVE  \A d \in Classes : Upkept(d)
  BY <1>0, <1>5, RestQuiet, NowhereUpkept DEF Engaged
<1>6. \A d \in Classes : Upkept(d)
  BY <1>0, <1>1, <1>2, <1>3, <1>4, <1>5, WrapperUpkept, SettlementUpkept, OfferUpkept,
    DispatchUpkept DEF Next, Environment, System
<1>7. Serving
  <2>1. PICK out \in SUBSET Jobs, in \in SUBSET Jobs : Allowed(out, in)
    BY StepOrderly DEF Orderly
  <2> QED
    BY <2>1 DEF Allowed
<1> QED
  BY <1>6, <1>7 DEF Upkept, Owed

-----------------------------------------------------------------------------
(* The classes *)

\* Everything the class sections are trusted with.
Books == Footing /\ Tally /\ CutOff /\ Limits /\ Hands /\ Owed

LEMMA BooksInit == Init => Books
BY FootingInit, WindowInit, HandsInit, OwedInit DEF Books

LEMMA BooksStep == Books /\ [Next]_vars => Books'
BY FootingStep, WindowStep, CutOffStep, HandsStep, OwedStep DEF Books, Footing

LEMMA BooksAlways == Spec => []Books
BY BooksInit, BooksStep, PTL DEF Spec

\* The counters of a class say what there is through every claim, suppression,
\* activation, turn and returned credit: runnable counts the Ready and Handed
\* jobs, passes its limit by the jobs of saturated submitters only, and
\* handed_off counts the live wrappers (promote_locked, scheduler.rs:1817-1873;
\* Handoff::drop, 206-218; ReservedHandoffs::drop, 220-232).
THEOREM ClassesAreExact == Spec => []ClassesExact
<1>1. Books => CountersExact
  <2> SUFFICES ASSUME Books, NEW c \in Classes
               PROVE  WindowCounted(c) /\ OvershootIsInline(c) /\ HandoffCounted(c)
    BY DEF CountersExact
  <2>1. InWindow(c) = Window(c, stage)
    BY DEF InWindow, Window, At
  <2>2. WindowCounted(c)
    BY <2>1 DEF Books, Tally, Counted, WindowCounted
  <2>3. {j \in InWindow(c) : j \in inline /\ sub[j] = "claiming"} =
          (At(c, stage, "Ready") \cup At(c, stage, "Handed")) \cap Claimers
    BY DEF InWindow, At, Claimers
  <2>4. OvershootIsInline(c)
    BY <2>3 DEF Books, Limits, Within, OvershootIsInline
  <2>5. HandoffCounted(c)
    BY DEF Books, Hands, Loaded, Held, HandoffCounted
  <2> QED
    BY <2>2, <2>4, <2>5
<1> QED
  BY <1>1, BooksAlways, AgreePlaces, PTL DEF ClassesExact

\* While the runtime serves, no Ready job is left without somebody on the way to
\* dispatch_class, though promote_locked makes jobs Ready in sections that do
\* not dispatch, and none is deferred behind a window with room
\* (suppress, scheduler.rs:1705-1749; claim_and_run, 1760-1794;
\* dispatch_class_ready, 2073-2118).
THEOREM NoWorkStranded == Spec => []NoStrandedWork
<1>1. Books => NoStrandedWork
  <2> SUFFICES ASSUME Books, NEW c \in Classes
               PROVE  /\ WindowFilled(c)
                      /\ Serving /\ ~abandoned /\ class[c].ready # << >> => DispatchOwed(c)
    BY DEF NoStrandedWork
  <2>1. WindowFilled(c)
    BY DEF Books, Tally, Full, WindowFilled
  <2>2. Serving /\ class[c].ready # << >> => DispatchOwed(c)
    BY DEF Books, Owed, Coming, Engaged, DispatchOwed
  <2> QED
    BY <2>1, <2>2
<1> QED
  BY <1>1, BooksAlways, PTL

\* Two queued jobs of a class are never reordered, by promotion, demotion of the
\* window or removals around them, and the one ahead is handed out first
\* (promote_locked, scheduler.rs:1817-1873; PendingQueue::insert and remove, ready.rs:57-114).
THEOREM OrderIsKept == Spec => QueueOrder
<1>1. ASSUME Books, [Next]_vars
      PROVE  \A c \in Classes : \A j, k \in Jobs : Ahead(Queued(c), j, k) =>
               /\ ~Ahead(Queued(c)', k, j)
               /\ stage[k] # "Handed" /\ stage'[k] = "Handed" => j \notin Range(Queued(c)')
  BY <1>1, OrderStep DEF Books, Queued, Line
<1> QED
  BY <1>1, BooksAlways, PTL DEF Spec, QueueOrder

-----------------------------------------------------------------------------
(* The scheduler implements the contract of its jobs: proof for every set of *)
(* jobs, dependency graph, class and limit.                                  *)

\* The three facts of a job its life is read from, as a life.
LEMMA LifeCases ==
  ASSUME NEW j \in Jobs
  PROVE  /\ stage[j] = "absent" => LifeOf(j) = "absent"
         /\ stage[j] \in Accepted => LifeOf(j) = "accepted"
         /\ stage[j] = "Running" => LifeOf(j) = "running"
         /\ stage[j] \in {"Finalizing", "gone"} =>
              LifeOf(j) = IF exec[j] \in Out THEN "retired"
                          ELSE IF status[j] = None THEN "ended" ELSE "published"
         /\ stage'[j] = "absent" => LifeOf(j)' = "absent"
         /\ stage'[j] \in Accepted => LifeOf(j)' = "accepted"
         /\ stage'[j] = "Running" => LifeOf(j)' = "running"
         /\ stage'[j] \in {"Finalizing", "gone"} =>
              LifeOf(j)' = IF exec'[j] \in Out THEN "retired"
                           ELSE IF status'[j] = None THEN "ended" ELSE "published"
<1>1. stage[j] = "absent" => LifeOf(j) = "absent"
  BY DEF LifeOf
<1>2. stage[j] \in Accepted => LifeOf(j) = "accepted"
  BY DEF LifeOf, Accepted
<1>3. stage[j] = "Running" => LifeOf(j) = "running"
  BY DEF LifeOf
<1>4. stage[j] \in {"Finalizing", "gone"} =>
        LifeOf(j) = IF exec[j] \in Out THEN "retired"
                    ELSE IF status[j] = None THEN "ended" ELSE "published"
  BY DEF LifeOf, Out
<1>5. stage'[j] = "absent" => LifeOf(j)' = "absent"
  BY DEF LifeOf
<1>6. stage'[j] \in Accepted => LifeOf(j)' = "accepted"
  BY DEF LifeOf, Accepted
<1>7. stage'[j] = "Running" => LifeOf(j)' = "running"
  BY DEF LifeOf
<1>8. stage'[j] \in {"Finalizing", "gone"} =>
        LifeOf(j)' = IF exec'[j] \in Out THEN "retired"
                     ELSE IF status'[j] = None THEN "ended" ELSE "published"
  BY DEF LifeOf, Out
<1> QED
  BY <1>1, <1>2, <1>3, <1>4, <1>5, <1>6, <1>7, <1>8

\* A job whose settlement did not change for the contract.
LEMMA LifeStays ==
  ASSUME TypeOK, NEW j \in Jobs, exec'[j] \in Out <=> exec[j] \in Out, status'[j] = status[j],
         \/ stage'[j] = stage[j]
         \/ {stage[j], stage'[j]} \subseteq Accepted
         \/ {stage[j], stage'[j]} \subseteq {"Finalizing", "gone"}
  PROVE  LifeOf(j)' = LifeOf(j)
<1>1. stage[j] \in {"absent", "Running", "Finalizing", "gone"} \cup Accepted
  BY DEF TypeOK, Stages, Accepted
<1> QED
  BY <1>1, LifeCases

LEMMA ContractStutters ==
  ASSUME \A k \in Jobs : LifeOf(k)' = LifeOf(k), UNCHANGED <<outcome, status, abandoned>>,
         \A h \in Groups : group'[h].sealed = group[h].sealed
  PROVE  UNCHANGED Contract!vars
BY DEF Contract!vars

LEMMA ContractBecomes ==
  ASSUME NEW j \in Jobs, NEW a, NEW b, LifeOf(j) = a, LifeOf(j)' = b,
         \A k \in Jobs \ {j} : LifeOf(k)' = LifeOf(k)
  PROVE  Contract!Become(j, a, b)
BY DEF Contract!Become

Keeps == [Contract!Next]_(Contract!vars)

LEMMA ClaimStarts ==
  ASSUME Footing, Links, NEW who, NEW j \in Jobs, Claim(who, j),
         UNCHANGED <<status, abandoned, group>>
  PROVE  Contract!Start(j)
<1> DEFINE st == [stage EXCEPT ![j] = "Running"]
<1>1. /\ stage[j] \in {"Ready", "Handed"} /\ Requeued(st, stage') /\ ~abandoned
      /\ exec' = [exec EXCEPT ![j] = "body"] /\ DOMAIN exec = Jobs /\ outcome' = outcome
      /\ st[j] = "Running" /\ \A k \in Jobs \ {j} : st[k] = stage[k]
  BY ClaimPlaces DEF Claim, Footing, TypeOK
<1> HIDE DEF st
<1>2. stage'[j] = "Running"
  BY <1>1 DEF Requeued, Pooled
<1>3. \A k \in Jobs \ {j} : LifeOf(k)' = LifeOf(k)
  BY <1>1, LifeStays DEF Requeued, Pooled, Accepted, Footing
<1>4. Contract!Become(j, "accepted", "running")
  BY <1>1, <1>2, <1>3, LifeCases, ContractBecomes DEF Accepted
<1>5. Met(j)
  BY <1>1 DEF Links, Started
<1> QED
  BY <1>1, <1>4, <1>5 DEF Contract!Start, Met

LEMMA SuppressEnds ==
  ASSUME Footing, Links, NEW j \in Jobs, NEW s \in {"Cancelled", "PrerequisiteFailed", "Abandoned"},
         Suppress(j, s), UNCHANGED <<status, abandoned, group>>,
         s = "Abandoned" => abandoned,
         s = "PrerequisiteFailed" => j \in SuccessOnly /\ j \in failed
  PROVE  Keeps
<1> DEFINE st == [stage EXCEPT ![j] = "Finalizing"]
           o == IF abandoned THEN "Abandoned" ELSE s
<1>1. CASE UNCHANGED <<stage, finishVars>>
  <2>1. \A k \in Jobs : LifeOf(k)' = LifeOf(k)
    BY <1>1, LifeStays DEF finishVars, Footing
  <2> QED
    BY <1>1, <2>1, ContractStutters DEF finishVars, Keeps
<1>2. CASE /\ stage[j] \in {"Waiting", "DeferredReady", "Ready", "Handed"}
           /\ Requeued(st, stage')
           /\ outcome' = [outcome EXCEPT ![j] = o]
           /\ exec' = [exec EXCEPT ![j] = "finish"]
  <2>1. /\ DOMAIN exec = Jobs /\ exec[j] = "none" /\ status[j] = None
        /\ st[j] = "Finalizing" /\ \A k \in Jobs \ {j} : st[k] = stage[k]
    BY <1>2 DEF Footing, TypeOK, Lives, Life, Accepted, Published
  <2> HIDE DEF st
  <2>2. stage'[j] = "Finalizing" /\ exec'[j] \notin Out
    BY <1>2, <2>1 DEF Requeued, Pooled, Out
  <2>3. \A k \in Jobs \ {j} : LifeOf(k)' = LifeOf(k)
    BY <1>2, <2>1, LifeStays DEF Requeued, Pooled, Accepted, Footing
  <2>4. Contract!Become(j, "accepted", "ended")
    BY <1>2, <2>1, <2>2, <2>3, LifeCases, ContractBecomes DEF Accepted
  <2>5. o = "PrerequisiteFailed" =>
          j \in SuccessOnly /\ \E t \in Prereqs[j] : status[t] \notin {None, "Succeeded"}
    BY DEF Links, Debt
  <2>6. (o = "Abandoned" <=> abandoned) /\ o \in {"Cancelled", "PrerequisiteFailed", "Abandoned"}
    OBVIOUS
  <2> HIDE DEF o
  <2>7. Contract!Suppress(j, o)
    BY <1>2, <2>4, <2>5, <2>6 DEF Contract!Suppress
  <2> QED
    BY <2>6, <2>7 DEF Keeps, Contract!Next
<1> QED
  BY <1>1, <1>2, SuppressPlaces DEF Footing

LEMMA ActivateStutters ==
  ASSUME Footing, NEW j \in Jobs, NEW inl, ActivateReady(j, inl),
         UNCHANGED <<exec, outcome, status, abandoned, group>>
  PROVE  Keeps
<1>1. \/ UNCHANGED stage
      \/ /\ stage[j] = "Waiting"
         /\ \E x \in {"Ready", "DeferredReady"} : stage' = [stage EXCEPT ![j] = x]
  BY ActivatePlaces DEF Footing, Activatable
<1>2. \A k \in Jobs : LifeOf(k)' = LifeOf(k)
  BY <1>1, LifeStays DEF Footing, TypeOK, Accepted
<1> QED
  BY <1>2, ContractStutters DEF Keeps
LEMMA SubmissionKeeps ==
  ASSUME Footing, NEW j \in Jobs,
         Submit(j) \/ ChargeRecord(j) \/ ChargeEdges(j) \/ Accept(j) \/ Unjoin(j) \/ Refuse(j)
           \/ CloseAttachment(j)
  PROVE  Keeps
<1> USE DEF submitVars, chargeVars, recordVars, queueVars, signalVars, finishVars,
  handVars, closeVars
<1>0. TypeOK /\ Life(j) /\ DOMAIN exec = Jobs /\ DOMAIN stage = Jobs /\ DOMAIN sub = Jobs
  BY DEF Footing, TypeOK, Lives
<1>1. ASSUME UNCHANGED <<stage, exec, status, outcome, abandoned>>,
             \A h \in Groups : group'[h].sealed = group[h].sealed
      PROVE  Keeps
  BY <1>0, <1>1, LifeStays, ContractStutters DEF Keeps
<1>2. CASE Submit(j) \/ ChargeRecord(j) \/ ChargeEdges(j) \/ Refuse(j)
  BY <1>1, <1>2 DEF Submit, ChargeRecord, ChargeEdges, Refuse
<1>3. CASE CloseAttachment(j)
  <2>1. /\ UNCHANGED <<stage, status, outcome, abandoned, group>>
        /\ exec' = IF exec[j] = "deferred" THEN [exec EXCEPT ![j] = "finish"] ELSE exec
    BY <1>3 DEF CloseAttachment
  <2>2. \A k \in Jobs : exec'[k] \in Out <=> exec[k] \in Out
    BY <1>0, <2>1 DEF Out
  <2> QED
    BY <1>0, <2>1, <2>2, LifeStays, ContractStutters DEF Keeps
<1>4. CASE Unjoin(j)
  <2>1. \A h \in Groups : group'[h].sealed = group[h].sealed
    <3> DEFINE g == GroupOf[j]
               st == [group[g] EXCEPT !.pending = @ - 1]
    <3>1. group' = [group EXCEPT ![g] = [st EXCEPT !.publishing = @ \/ Terminal(st)]]
      BY <1>4 DEF Unjoin
    <3>2. g \in Groups => st \in GroupState /\ st.sealed = group[g].sealed
      <4> HIDE DEF g
      <4> QED
        BY <1>0, GroupFields DEF GroupState
    <3> HIDE DEF st
    <3>3. CASE g \in Groups
      BY <1>0, <3>1, <3>2, <3>3, GroupSection
    <3>4. CASE g \notin Groups
      BY <1>0, <3>1, <3>4 DEF TypeOK
    <3> QED
      BY <3>3, <3>4
  <2> QED
    BY <1>1, <1>4, <2>1 DEF Unjoin
<1>5. CASE Accept(j)
  <2> DEFINE g == GroupOf[j]
             member == ~abandoned /\ JoinsGroup(j) /\ g # None
  <2>1. /\ UNCHANGED <<status, exec, outcome, abandoned>> /\ stage[j] = "absent"
        /\ group' = IF member THEN [group EXCEPT ![g].pending = @ + 1] ELSE group
        /\ \/ stage' = stage
           \/ stage' = [stage EXCEPT ![j] = "Waiting"] /\ ~abandoned /\ JoinsGroup(j)
    BY <1>0, <1>5 DEF Accept, Life, Returning
  <2>2. \A h \in Groups : group'[h].sealed = group[h].sealed
    BY <1>0, <2>1 DEF TypeOK, GroupState
  <2>3. CASE stage' = stage
    BY <1>1, <2>1, <2>2, <2>3
  <2>4. CASE stage' = [stage EXCEPT ![j] = "Waiting"] /\ ~abandoned /\ JoinsGroup(j)
    <3>1. \A k \in Jobs \ {j} : LifeOf(k)' = LifeOf(k)
      BY <1>0, <2>1, <2>4, LifeStays
    <3>2. Contract!Become(j, "absent", "accepted")
      BY <1>0, <2>1, <2>4, <3>1, LifeCases, ContractBecomes DEF Accepted
    <3>3. g \notin {h \in Groups : group[h].sealed}
      BY <2>4, SchedulerAssumption DEF JoinsGroup, Signals
    <3>4. {h \in Groups : group'[h].sealed} = {h \in Groups : group[h].sealed}
      BY <2>2
    <3>5. Contract!Accept(j)
      BY <2>1, <2>4, <3>2, <3>3, <3>4 DEF Contract!Accept
    <3> QED
      BY <3>5 DEF Keeps, Contract!Next
  <2> QED
    BY <2>1, <2>3, <2>4
<1> QED
  BY <1>2, <1>3, <1>4, <1>5

LEMMA ClaimantKeeps ==
  ASSUME Footing, Links, NEW j \in Jobs,
         ActivateSubmitted(j) \/ Cancel(j) \/ ClaimInline(j) \/ Help(j)
           \/ EnterWrapper(j)
  PROVE  Keeps
<1> USE DEF submitVars, chargeVars, recordVars, queueVars, signalVars, finishVars,
  handVars, closeVars
<1>0. ASSUME NEW who, Claim(who, j), UNCHANGED <<status, abandoned, group>> PROVE Keeps
  BY <1>0, ClaimStarts DEF Keeps, Contract!Next
<1>1. CASE ActivateSubmitted(j)
  <2> DEFINE inl == j \in inline
  <2>1. ActivateReady(j, inl) /\ UNCHANGED <<exec, outcome, status, abandoned, group>>
    BY <1>1 DEF ActivateSubmitted
  <2> HIDE DEF inl
  <2> QED
    BY <2>1, ActivateStutters
<1>2. CASE Cancel(j)
  BY <1>2, SuppressEnds DEF Cancel
<1>3. CASE ClaimInline(j)
  <2>1. UNCHANGED <<status, abandoned, group>>
    BY <1>3 DEF ClaimInline
  <2>2. CASE Claim("caller", j)
    BY <1>0, <2>1, <2>2
  <2>3. CASE UNCHANGED <<queueVars, finishVars>>
    BY <2>1, <2>3, LifeStays, ContractStutters DEF Footing, Keeps
  <2> QED
    BY <1>3, <2>2, <2>3 DEF ClaimInline
<1>4. CASE Help(j)
  BY <1>0, <1>4 DEF Help
<1>5. CASE EnterWrapper(j)
  BY <1>0, <1>5 DEF EnterWrapper
<1> QED
  BY <1>1, <1>2, <1>3, <1>4, <1>5

LEMMA SettlementKeeps ==
  ASSUME Footing, NEW j \in Jobs, SettleStep(j)
  PROVE  Keeps
<1> USE DEF submitVars, chargeVars, recordVars, queueVars, signalVars, finishVars,
  handVars, closeVars
<1>0. TypeOK /\ Life(j) /\ DOMAIN exec = Jobs /\ DOMAIN stage = Jobs
        /\ DOMAIN outcome = Jobs /\ DOMAIN status = Signals
  BY DEF Footing, TypeOK, Lives
<1>1. ASSUME NEW o \in Outcomes, ReturnBody(j, o) PROVE Keeps
  <2>1. /\ exec[j] = "body" /\ stage[j] = "Running" /\ status[j] = None
        /\ UNCHANGED <<status, abandoned, group>>
        /\ outcome' = [outcome EXCEPT ![j] = o]
        /\ stage' = [stage EXCEPT ![j] = "Finalizing"]
        /\ exec' = [exec EXCEPT ![j] = "finish"]
    BY <1>0, <1>1 DEF ReturnBody, Life, Published
  <2>2. \A k \in Jobs \ {j} : LifeOf(k)' = LifeOf(k)
    BY <1>0, <2>1, LifeStays
  <2>3. Contract!Become(j, "running", "ended")
    BY <1>0, <2>1, <2>2, LifeCases, ContractBecomes DEF Out
  <2>4. Contract!End(j, o)
    BY <2>1, <2>3 DEF Contract!End
  <2> QED
    BY <2>4 DEF Keeps, Contract!Next
<1>2. CASE DeferFinish(j)
  <2>1. /\ UNCHANGED <<stage, status, outcome, abandoned, group>>
        /\ \A k \in Jobs : exec'[k] \in Out <=> exec[k] \in Out
    BY <1>0, <1>2 DEF DeferFinish, Out
  <2> QED
    BY <1>0, <2>1, LifeStays, ContractStutters DEF Keeps
<1>3. CASE Publish(j)
  <2>1. /\ exec[j] = "finish" /\ stage[j] = "Finalizing" /\ status[j] = None
        /\ outcome[j] # None /\ j \in Signals
        /\ UNCHANGED <<stage, outcome, abandoned, group>>
        /\ status' = [status EXCEPT ![j] = outcome[j]]
        /\ exec' = [exec EXCEPT ![j] = "finalize"]
    BY <1>0, <1>3 DEF Publish, Life, Published, Signals
  <2>2. \A k \in Jobs \ {j} : LifeOf(k)' = LifeOf(k)
    BY <1>0, <2>1, LifeStays DEF Signals
  <2>3. Contract!Become(j, "ended", "published")
    BY <1>0, <2>1, <2>2, LifeCases, ContractBecomes DEF Out
  <2>4. Contract!Publish(j)
    BY <2>1, <2>3 DEF Contract!Publish
  <2> QED
    BY <2>4 DEF Keeps, Contract!Next
<1>4. CASE Finalize(j)
  <2>1. /\ UNCHANGED <<status, outcome, abandoned, group>> /\ stage[j] = "Finalizing"
        /\ stage' = [stage EXCEPT ![j] = "gone"]
        /\ \A k \in Jobs : exec'[k] \in Out <=> exec[k] \in Out
    BY <1>0, <1>4 DEF Finalize, Out, Life
  <2>2. \A k \in Jobs : LifeOf(k)' = LifeOf(k)
    BY <1>0, <2>1, LifeStays
  <2> QED
    BY <2>1, <2>2, ContractStutters DEF Keeps
<1>5. CASE Leave(j)
  <2>1. /\ UNCHANGED <<status, outcome, abandoned, stage>> /\ stage[j] = "gone"
        /\ status[j] # None /\ exec[j] = "leave"
        /\ \E x \in Out : exec' = [exec EXCEPT ![j] = x]
    <3>1. stage[j] \in {"absent", "Running", "Finalizing", "gone"} \cup Accepted
      BY <1>0 DEF TypeOK, Stages, Accepted
    <3> QED
      BY <1>0, <1>5, <3>1 DEF Leave, Retire, Out, Life, Published
  <2>2. \A h \in Groups : group'[h].sealed = group[h].sealed
    <3> DEFINE g == GroupOf[j]
               b == status[j] # "Succeeded"
               st == [group[g] EXCEPT !.pending = @ - 1, !.failed = @ \/ b]
    <3>1. \/ group' = group
          \/ group' = [group EXCEPT ![g] = [st EXCEPT !.publishing = @ \/ Terminal(st)]]
      BY <1>5 DEF Leave
    <3>2. b \in BOOLEAN
      OBVIOUS
    <3>3. g \in Groups => st \in GroupState
      <4> HIDE DEF g, b
      <4> QED
        BY <1>0, <3>2, GroupFields, GroupUpdate
    <3>4. g \in Groups => st.sealed = group[g].sealed
      <4> HIDE DEF g, b
      <4> QED
        BY <1>0, GroupFields DEF GroupState
    <3> HIDE DEF st
    <3>5. CASE group' = [group EXCEPT ![g] = [st EXCEPT !.publishing = @ \/ Terminal(st)]]
      <4>1. CASE g \in Groups
        BY <1>0, <3>3, <3>4, <3>5, <4>1, GroupSection
      <4>2. CASE g \notin Groups
        BY <1>0, <3>5, <4>2 DEF TypeOK
      <4> QED
        BY <4>1, <4>2
    <3> QED
      BY <3>1, <3>5
  <2>3. \A k \in Jobs \ {j} : LifeOf(k)' = LifeOf(k)
    BY <1>0, <2>1, LifeStays
  <2>4. Contract!Become(j, "published", "retired")
    BY <1>0, <2>1, <2>3, LifeCases, ContractBecomes DEF Out
  <2>5. {h \in Groups : group'[h].sealed} = {h \in Groups : group[h].sealed}
    BY <2>2
  <2>6. Contract!Retire(j)
    BY <2>1, <2>4, <2>5 DEF Contract!Retire
  <2> QED
    BY <2>6 DEF Keeps, Contract!Next
<1>6. CASE LeavePublished(j)
  <2>1. /\ UNCHANGED <<stage, status, outcome, abandoned, group>>
        /\ \A k \in Jobs : exec'[k] \in Out <=> exec[k] \in Out
    BY <1>0, <1>6 DEF LeavePublished, Retire, Out
  <2> QED
    BY <1>0, <2>1, LifeStays, ContractStutters DEF Keeps
<1> QED
  BY <1>1, <1>2, <1>3, <1>4, <1>5, <1>6 DEF SettleStep

LEMMA EdgeKeeps ==
  ASSUME Footing, NEW e \in Edges, EdgeStep(e)
  PROVE  Keeps
<1> USE DEF submitVars, chargeVars, recordVars, queueVars, signalVars, finishVars,
  handVars, closeVars
<1>1. CASE Subscribe(e) \/ DeliverEdge(e) \/ Detach(e)
  <2>1. UNCHANGED <<stage, exec, status, outcome, abandoned, group>>
    BY <1>1 DEF Subscribe, DeliverEdge, Detach
  <2> QED
    BY <2>1, LifeStays, ContractStutters DEF Footing, Keeps
<1>2. CASE ActivateEdge(e)
  <2>1. ActivateReady(e[1], FALSE)
    BY <1>2 DEF ActivateEdge
  <2>2. UNCHANGED <<exec, outcome, status, abandoned, group>> /\ e[1] \in Jobs
    BY <1>2, EdgeEnds DEF ActivateEdge
  <2> QED
    BY <2>1, <2>2, ActivateStutters
<1> QED
  BY <1>1, <1>2 DEF EdgeStep

LEMMA GroupKeeps ==
  ASSUME Footing, Companies, NEW g \in Groups, Seal(g) \/ PublishGroup(g)
  PROVE  Keeps
<1> USE DEF submitVars, chargeVars, recordVars, queueVars, signalVars, finishVars,
  handVars, closeVars
<1>0. TypeOK /\ UNCHANGED <<stage, exec, outcome, abandoned>>
  BY DEF Seal, PublishGroup, Footing
<1>1. CASE Seal(g)
  <2> DEFINE st == [group[g] EXCEPT !.sealed = TRUE]
  <2>1. group' = [group EXCEPT ![g] = [st EXCEPT !.publishing = @ \/ Terminal(st)]]
          /\ UNCHANGED status
    BY <1>1 DEF Seal
  <2>2. st \in GroupState /\ st.sealed
    BY <1>0, GroupFields, GroupUpdate DEF GroupState
  <2> HIDE DEF st
  <2>3. \A h \in Groups : group'[h].sealed <=> group[h].sealed \/ h = g
    <3>1. /\ group'[g].sealed = st.sealed
          /\ \A h \in Groups : h # g => group'[h] = group[h]
      BY <1>0, <2>1, <2>2, GroupSection
    <3> QED
      BY <2>2, <3>1
  <2>4. {h \in Groups : group'[h].sealed} = {h \in Groups : group[h].sealed} \cup {g}
    BY <2>3
  <2>5. \A k \in Jobs : LifeOf(k)' = LifeOf(k)
    BY <1>0, <2>1, LifeStays
  <2>6. Contract!Seal(g)
    BY <1>0, <2>1, <2>4, <2>5 DEF Contract!Seal
  <2> QED
    BY <2>6 DEF Keeps, Contract!Next
<1>2. CASE PublishGroup(g)
  <2> DEFINE members == {j \in Jobs : GroupOf[j] = g /\ LifeOf(j) # "absent"}
             x == IF group[g].failed THEN "PrerequisiteFailed" ELSE "Succeeded"
  <2>1. /\ group[g].publishing /\ status[g] = None /\ UNCHANGED group
        /\ status' = [status EXCEPT ![g] = x] /\ DOMAIN status = Signals
        /\ g \notin Jobs
    BY <1>0, <1>2, SchedulerAssumption DEF PublishGroup, TypeOK
  <2>2. \A k \in Jobs : LifeOf(k)' = LifeOf(k)
    BY <1>0, <2>1, LifeStays DEF Signals
  <2>3. group[g].sealed /\ Present(g) = {} /\ Company(g)
    BY <2>1, PresentFinite, FS_EmptySet DEF Companies, Company
  <2>4. ASSUME NEW j \in Jobs
        PROVE  /\ j \in members <=> j \in Gone(g)
               /\ j \in Gone(g) => LifeOf(j) = "retired"
    <3>1. stage[j] \in {"absent", "Running", "Finalizing", "gone"} \cup Accepted
      BY <1>0 DEF TypeOK, Stages, Accepted
    <3>2. exec[j] \in Out => stage[j] = "gone" /\ LifeOf(j) = "retired"
      BY <3>1, LifeCases DEF Footing, Lives, Life, Out
    <3>3. GroupOf[j] = g /\ stage[j] # "absent" => exec[j] \in Out
      BY <2>3 DEF Present, Members
    <3>4. stage[j] = "absent" => LifeOf(j) = "absent"
      BY LifeCases
    <3> QED
      BY <3>2, <3>3, <3>4 DEF Gone, Members
  <2>5. x = IF \A j \in members : status[j] = "Succeeded"
            THEN "Succeeded" ELSE "PrerequisiteFailed"
    <3>1. group[g].failed <=> \E j \in Gone(g) : status[j] # "Succeeded"
      BY <2>3 DEF Company
    <3>2. Gone(g) \subseteq Jobs /\ members \subseteq Jobs
      BY DEF Gone, Members
    <3> HIDE DEF members
    <3> QED
      BY <2>4, <3>1, <3>2
  <2>6. \A j \in members : LifeOf(j) = "retired"
    BY <2>4
  <2>7. [j \in Jobs |-> LifeOf(j)]' = [j \in Jobs |-> LifeOf(j)]
    BY <2>2
  <2> HIDE DEF x
  <2>8. Contract!Complete(g)
    BY <1>0, <2>1, <2>3, <2>5, <2>6, <2>7 DEF Contract!Complete
  <2> QED
    BY <2>8 DEF Keeps, Contract!Next
<1> QED
  BY <1>1, <1>2

LEMMA RestKeeps ==
  ASSUME Footing, Links, Reasons,
         \/ \E j \in Jobs : LeaveWrapper(j) \/ DiscardWrapper(j)
         \/ \E c \in Classes : Dispatch(c)
         \/ \E o \in offers : OfferStep(o)
         \/ \E d \in suppressing : SuppressDecided(d)
         \/ BeginShutdown \/ AbandonRuntime \/ AbandonCut \/ UNCHANGED vars
  PROVE  Keeps
<1> USE DEF submitVars, chargeVars, recordVars, queueVars, signalVars, finishVars,
  handVars, closeVars
<1>0. UNCHANGED <<stage, exec, status, outcome, abandoned, group>> => Keeps
  BY LifeStays, ContractStutters DEF Footing, Keeps
<1>1. ASSUME NEW j \in Jobs, LeaveWrapper(j) \/ DiscardWrapper(j) PROVE Keeps
  BY <1>0, <1>1 DEF LeaveWrapper, DiscardWrapper
<1>2. ASSUME NEW c \in Classes, Dispatch(c) PROVE Keeps
  <2>1. UNCHANGED <<exec, status, outcome, abandoned, group>> /\ Requeued(stage, stage')
    BY <1>2, DispatchPlaces DEF Dispatch, Footing
  <2>2. \A k \in Jobs : LifeOf(k)' = LifeOf(k)
    BY <2>1, LifeStays DEF Requeued, Pooled, Accepted, Footing
  <2> QED
    BY <2>1, <2>2, ContractStutters DEF Keeps
<1>3. ASSUME NEW o \in offers, OfferStep(o) PROVE Keeps
  BY <1>0, <1>3 DEF OfferStep, PublishOffer, RefuseOffer
<1>4. ASSUME NEW d \in suppressing, SuppressDecided(d) PROVE Keeps
  <2>1. /\ d[1] \in Jobs /\ Suppress(d[1], d[2]) /\ UNCHANGED <<status, abandoned, group>>
    BY <1>4 DEF SuppressDecided, Footing, TypeOK
  <2>2. /\ d[2] \in {"Cancelled", "PrerequisiteFailed", "Abandoned"}
        /\ d[2] = "Abandoned" => abandoned
        /\ d[2] = "PrerequisiteFailed" => d[1] \in SuccessOnly /\ d[1] \in failed
    BY DEF Reasons, Reason
  <2> QED
    BY <2>1, <2>2, SuppressEnds
<1>5. CASE AbandonCut
  <2>1. UNCHANGED <<stage, exec, status, outcome, group>> /\ abandoned' = TRUE
    BY <1>5 DEF AbandonCut
  <2>2. \A k \in Jobs : LifeOf(k)' = LifeOf(k)
    BY <2>1, LifeStays DEF Footing
  <2>3. Contract!Cut
    BY <2>1, <2>2 DEF Contract!Cut
  <2> QED
    BY <2>3 DEF Keeps, Contract!Next
<1>6. CASE BeginShutdown \/ AbandonRuntime \/ UNCHANGED vars
  BY <1>0, <1>6 DEF BeginShutdown, AbandonRuntime, vars
<1> QED
  BY <1>1, <1>2, <1>3, <1>4, <1>5, <1>6

LEMMA ContractInit == Init => Contract!Init
<1> SUFFICES ASSUME Init PROVE Contract!Init
  OBVIOUS
<1>1. \A j \in Jobs : LifeOf(j) = "absent"
  BY LifeCases DEF Init
<1>2. {h \in Groups : group[h].sealed} = {}
  BY DEF Init
<1> QED
  BY <1>1, <1>2 DEF Init, Contract!Init, Contract!Signals, Signals

LEMMA ContractStep == Footing /\ Links /\ Companies /\ Reasons /\ [Next]_vars => Keeps
<1> SUFFICES ASSUME Footing, Links, Companies, Reasons, [Next]_vars PROVE Keeps
  OBVIOUS
<1>1. CASE Environment
  BY <1>1, SubmissionKeeps, ClaimantKeeps, GroupKeeps, RestKeeps DEF Environment
<1>2. CASE System
  <2>1. ASSUME NEW j \in Jobs, SubmitStep(j) PROVE Keeps
    BY <2>1, SubmissionKeeps, ClaimantKeeps DEF SubmitStep
  <2>2. ASSUME NEW j \in Jobs, WrapperStep(j) PROVE Keeps
    BY <2>2, ClaimantKeeps, RestKeeps DEF WrapperStep
  <2> QED
    BY <1>2, <2>1, <2>2, SettlementKeeps, EdgeKeeps, GroupKeeps, RestKeeps DEF System
<1>3. CASE UNCHANGED vars
  BY <1>3, RestKeeps
<1> QED
  BY <1>1, <1>2, <1>3 DEF Next

\* The scheduler implements the contract of its jobs, whatever the jobs, groups,
\* classes, limits and dependencies.
THEOREM Implements == Spec => ImplementsContract
<1>1. Footing /\ Links /\ Companies /\ Reasons /\ [Next]_vars
        => [Contract!Next]_(Contract!vars)
  BY ContractStep DEF Keeps
<1> QED
  BY <1>1, ContractInit, FootingInit, FootingStep, LinksInit, LinksStep, CompaniesInit,
    CompaniesStep, ReasonsInit, ReasonsStep, PTL DEF Spec, ImplementsContract, Contract!Spec
=============================================================================
