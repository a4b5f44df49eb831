--------------------------- MODULE OwnedScheduler ---------------------------
(***************************************************************************)
(* The owned-job scheduler (src/scheduler.rs) with the pieces of           *)
(* task/completion.rs (signals and subscriptions), scheduler/ready.rs (the *)
(* ready queue) and execution/group.rs (group membership) that its         *)
(* critical sections drive.  One action is one critical section, or one    *)
(* step between two of them, of whichever thread runs it: a submitter, a   *)
(* backend worker, a helper, a canceller or the abandoning host.           *)
(*                                                                         *)
(* Ordinary route only: no demand priorities (resource routes), batches,   *)
(* prerequisite ranges, reservations or owner delivery.  Identifiers are   *)
(* model values, so a job is submitted at most once.                       *)
(***************************************************************************)
EXTENDS Integers, Sequences, FiniteSets, Functions, SequencesExt

CONSTANTS
  Jobs,          \* jobs the program may submit
  Groups,        \* retained groups
  Classes,       \* execution classes (Low, Mid, High in the code)
  None,          \* no status, no group
  Host,          \* a submitting thread outside any job
  ClassOf,       \* class of a job
  GroupOf,       \* the job's group, or None
  Prereqs,       \* signals (jobs or groups) a job waits for
  Parent,        \* the job whose body submits it, or Host
  SuccessOnly,   \* jobs with SWDependencyPolicy::SuccessOnly
  Eligible,      \* jobs with SWCallerEligibility::CallerEligible
  AllowInline,   \* jobs submitted with allow_inline
  Cancellable,   \* jobs whose SWProducerControl somebody may fire
  Outcomes,      \* statuses a body may produce
  RunnableLimit, \* SWOwnedLimits::runnable, per class
  HandoffLimit,  \* SWOwnedLimits::handoff, per class
  RecordLimit,   \* SWOwnedLimits::records
  EdgeLimit,     \* SWOwnedLimits::edges
  Quantum,       \* bulk::QUANTUM, the largest dispatch portion
  MayClose,      \* whether the host may begin shutdown
  MayAbandon     \* whether the host may abandon the runtime

Signals == Jobs \cup Groups

Status == {"Succeeded", "ApplicationFailed", "Cancelled",
           "PrerequisiteFailed", "Panicked", "Abandoned"}

ASSUME SchedulerAssumption ==
  /\ None \notin Signals \cup Status
  /\ Host \notin Jobs
  /\ Jobs \cap Groups = {}
  /\ ClassOf \in [Jobs -> Classes]
  /\ GroupOf \in [Jobs -> Groups \cup {None}]
  /\ Prereqs \in [Jobs -> SUBSET Signals]
  /\ IsFiniteSet(Jobs) /\ \A j \in Jobs : IsFiniteSet(Prereqs[j])
  /\ Parent \in [Jobs -> Jobs \cup {Host}]
  /\ Outcomes \subseteq {"Succeeded", "ApplicationFailed", "Panicked"}
  /\ RunnableLimit \in [Classes -> Nat \ {0}]
  /\ HandoffLimit \in [Classes -> Nat \ {0}]
  /\ RecordLimit \in Nat \ {0}
  /\ EdgeLimit \in Nat
  /\ Quantum \in Nat \ {0}
  /\ MayClose \in BOOLEAN /\ MayAbandon \in BOOLEAN

VARIABLES
  phase,       \* ControlState::phase
  abandoned,   \* OwnedScheduler::abandoned, the claim cut
  cutting,     \* an OwnedScheduler::abandon call has not reached its cut
  leased,      \* ExecutionLeases taken before the runtime was abandoned
  records,     \* Accounting::records
  edges,       \* Accounting::edges
  sub,         \* where submit_payload_accounted stands for a job
  inline,      \* jobs accepted for inline execution on the submitter
  stage,       \* Record::stage; "absent" before acceptance, "gone" after
  pending,     \* Record::pending
  failed,      \* Record::failed, as a set of jobs
  edge,        \* dependency registrations, one per prerequisite of a job
  class,       \* ClassState of each class
  index,       \* jobs linked into their group's ready list (Members::ready)
  group,       \* GroupState of each group
  status,      \* SignalState::status of jobs and groups
  exec,        \* where the settlement of a job stands
  outcome,     \* the outcome held by the job's Finish closure
  suppressing, \* decided suppress() calls that have not entered the class
  wrapper,     \* the job's backend wrapper (Handoff)
  calls,       \* dispatch_class calls of each class still in their loop
  offers       \* portions between selection and the backend queue

vars == <<phase, abandoned, cutting, leased, records, edges, sub, inline, stage,
          pending, failed, edge, class, index, group, status, exec, outcome,
          suppressing, wrapper, calls, offers>>

submitVars == <<sub, inline>>
chargeVars == <<records, edges>>
recordVars == <<pending, failed, edge>>
queueVars  == <<class, stage, index>>
signalVars == <<group, status>>
finishVars == <<exec, outcome>>
handVars   == <<wrapper, calls, offers>>
closeVars  == <<phase, abandoned, cutting, leased>>

-----------------------------------------------------------------------------
(* Vocabulary *)

Edges == UNION {{<<j, s>> : s \in Prereqs[j]} : j \in Jobs}

Portions == [class : Classes, jobs : SUBSET Jobs]

Members(g) == {j \in Jobs : GroupOf[j] = g}

\* Members an eligible caller may help: index_group's condition.
Helpable == {j \in Jobs : j \in Eligible /\ GroupOf[j] # None}

Attaching(j) == sub[j] = "attaching"

Live(j) == stage[j] \notin {"absent", "gone"}

\* acquire_owned and acquire_handoff succeed.
Serving == phase \in {"Running", "Closing"}

\* Who takes an ExecutionLease for a job: the dispatcher of its portion, the
\* worker in its wrapper, a helper or the saturated submitter.
Leases == {"dispatcher", "worker", "caller"} \X Jobs

EdgesOf(j) == {e \in Edges : e[1] = j}

EdgesFrom(s) == {e \in Edges : e[2] = s}

\* Publication takes the stored subscribers and calls each of them.
FireFrom(s) ==
  [e \in Edges |-> IF e[2] = s /\ edge[e] = "stored" THEN "fired" ELSE edge[e]]

\* The queue without j; every job is queued at most once.
Dequeue(q, j) ==
  IF \E i \in DOMAIN q : q[i] = j
  THEN RemoveAt(q, CHOOSE i \in DOMAIN q : q[i] = j)
  ELSE q

Smaller(a, b) == IF a <= b THEN a ELSE b

Room(limit, used) == IF used < limit THEN limit - used ELSE 0

-----------------------------------------------------------------------------
(* promote_locked: first the unhanded window goes back in front of the      *)
(* deferred jobs if an arrival asked for it, then the deferred prefix that  *)
(* fits under the runnable limit becomes Ready.                             *)

\* Fault: the demoted window stays counted.
ReopenedUncounted(q) ==
  IF q.rebalance /\ q.deferred # <<>>
  THEN [q EXCEPT !.ready = <<>>, !.deferred = q.ready \o q.deferred]
  ELSE q

\* Fault: the demoted window goes behind the deferred jobs.
ReopenedBehind(q) ==
  IF q.rebalance /\ q.deferred # <<>>
  THEN [q EXCEPT !.ready = <<>>, !.deferred = q.deferred \o q.ready,
                 !.runnable = q.runnable - Len(q.ready)]
  ELSE q

Reopened(q) ==
  IF q.rebalance /\ q.deferred # <<>>
  THEN [q EXCEPT !.ready = <<>>, !.deferred = q.ready \o q.deferred,
                 !.runnable = q.runnable - Len(q.ready)]
  ELSE q

Fitting(c, q) ==
  Smaller(Len(q.deferred), Room(RunnableLimit[c], q.runnable))

Promoted(c, q) == SubSeq(q.deferred, 1, Fitting(c, q))

Promotion(c, q) ==
  LET n == Fitting(c, q)
  IN  [q EXCEPT !.ready = q.ready \o Promoted(c, q),
                !.deferred = SubSeq(q.deferred, n + 1, Len(q.deferred)),
                !.runnable = q.runnable + n,
                !.rebalance = FALSE]

\* promote_locked on queue q of class c, with the stages st and the group index
\* ix as the rest of the class section left them.
Promote(c, q, st, ix) ==
  LET pool    == Reopened(q)
      window  == Range(q.ready) \ Range(pool.ready)
      entered == Range(Promoted(c, pool))
  IN  [queue |-> Promotion(c, pool),
       stage |-> [j \in Jobs |-> IF j \in entered THEN "Ready"
                                 ELSE IF j \in window THEN "DeferredReady"
                                 ELSE st[j]],
       index |-> (ix \ window) \cup (entered \cap Helpable)]

\* Entering dispatch_class; its turns are the Dispatch steps below.
CallDispatch(c) == calls' = [calls EXCEPT ![c] = @ + 1]

Install(c, p) ==
  /\ class' = [class EXCEPT ![c] = p.queue]
  /\ stage' = p.stage
  /\ index' = p.index

-----------------------------------------------------------------------------
Stages == {"absent", "Waiting", "DeferredReady", "Ready", "Handed", "Running",
           "Finalizing", "gone"}

ClassState == [ready : Seq(Jobs), deferred : Seq(Jobs), runnable : Int,
               handed : Int, rebalance : BOOLEAN]

GroupState == [sealed : BOOLEAN, pending : Int, failed : BOOLEAN,
               publishing : BOOLEAN]

TypeOK ==
  /\ phase \in {"Running", "Closing", "Abandoned"}
  /\ abandoned \in BOOLEAN /\ cutting \in BOOLEAN
  /\ leased \subseteq Leases
  /\ records \in Int /\ edges \in Int
  /\ sub \in [Jobs -> {"idle", "admitted", "recorded", "charged",
                       "unjoining", "refused", "rejected", "attaching",
                       "activating", "claiming", "returned"}]
  /\ inline \subseteq Jobs
  /\ stage \in [Jobs -> Stages]
  /\ pending \in [Jobs -> Int]
  /\ failed \subseteq Jobs
  /\ edge \in [Edges -> {"unattached", "stored", "late", "fired", "activating",
                         "settled", "detached"}]
  /\ class \in [Classes -> ClassState]
  /\ index \subseteq Jobs
  /\ group \in [Groups -> GroupState]
  /\ status \in [Signals -> Status \cup {None}]
  /\ exec \in [Jobs -> {"none", "body", "finish", "deferred",
                        "finalize", "leave", "groupPublish", "done"}]
  /\ outcome \in [Jobs -> Status \cup {None}]
  /\ suppressing \subseteq Jobs \X Status
  /\ wrapper \in [Jobs -> {"none", "offered", "queued", "running", "gone"}]
  /\ calls \in [Classes -> Int]
  /\ offers \subseteq Portions

Init ==
  /\ phase = "Running" /\ abandoned = FALSE /\ cutting = FALSE
  /\ leased = {}
  /\ records = 0 /\ edges = 0
  /\ sub = [j \in Jobs |-> "idle"] /\ inline = {}
  /\ stage = [j \in Jobs |-> "absent"]
  /\ pending = [j \in Jobs |-> 0] /\ failed = {}
  /\ edge = [e \in Edges |-> "unattached"]
  /\ class = [c \in Classes |-> [ready |-> <<>>, deferred |-> <<>>,
                                 runnable |-> 0, handed |-> 0,
                                 rebalance |-> FALSE]]
  /\ index = {}
  /\ group = [g \in Groups |-> [sealed |-> FALSE, pending |-> 0,
                                failed |-> FALSE, publishing |-> FALSE]]
  /\ status = [s \in Signals |-> None]
  /\ exec = [j \in Jobs |-> "none"] /\ outcome = [j \in Jobs |-> None]
  /\ suppressing = {}
  /\ wrapper = [j \in Jobs |-> "none"] /\ calls = [c \in Classes |-> 0]
  /\ offers = {}

-----------------------------------------------------------------------------
(* Submission *)

\* A root, or a descendant submitted by the running body of its parent, with
\* the completion tokens of jobs whose submission returned.
MaySubmit(j) ==
  /\ sub[j] = "idle"
  /\ Parent[j] # Host => exec[Parent[j]] = "body"
  /\ \A s \in Prereqs[j] \cap Jobs : sub[s] = "returned"

\* Fault: closing does not close roots.
AdmittedWhileClosing(j) == phase \in {"Running", "Closing"}

\* admit_owned lets a root in only while Running, a descendant while Closing.
Admitted(j) == phase = "Running" \/ (phase = "Closing" /\ Parent[j] # Host)

Submit(j) ==
  /\ MaySubmit(j)
  /\ sub' = [sub EXCEPT ![j] = IF Admitted(j) THEN "admitted" ELSE "rejected"]
  /\ UNCHANGED <<inline, chargeVars, recordVars, queueVars, signalVars,
                 finishVars, handVars, closeVars, suppressing>>

\* Accounting::acquire, first half: TooLarge, then one record or Full.  A
\* submission without prerequisites charges no edge.
ChargeRecord(j) ==
  /\ sub[j] = "admitted"
  /\ IF Cardinality(Prereqs[j]) <= EdgeLimit /\ records < RecordLimit
     THEN /\ records' = records + 1
          /\ sub' = [sub EXCEPT ![j] =
                       IF Prereqs[j] = {} THEN "charged" ELSE "recorded"]
     ELSE /\ sub' = [sub EXCEPT ![j] = "rejected"]
          /\ UNCHANGED records
  /\ UNCHANGED <<inline, edges, recordVars, queueVars, signalVars, finishVars,
                 handVars, closeVars, suppressing>>

\* Accounting::acquire, second half: all edges, or the record goes back.
ChargeEdges(j) ==
  /\ sub[j] = "recorded"
  /\ LET n == Cardinality(Prereqs[j])
     IN  IF edges + n <= EdgeLimit
         THEN /\ edges' = edges + n
              /\ sub' = [sub EXCEPT ![j] = "charged"]
              /\ UNCHANGED records
         ELSE /\ records' = records - 1
              /\ sub' = [sub EXCEPT ![j] = "rejected"]
              /\ UNCHANGED edges
  /\ UNCHANGED <<inline, recordVars, queueVars, signalVars, finishVars,
                 handVars, closeVars, suppressing>>

\* The runnable window is full for a job that would be ready at once.
Saturated(j) ==
  /\ Prereqs[j] = {}
  /\ class[ClassOf[j]].runnable >= RunnableLimit[ClassOf[j]]

\* A context of another class may not execute the job synchronously.
ForeignContext(j) == Parent[j] # Host /\ ClassOf[Parent[j]] # ClassOf[j]

RunsInline(j) == Saturated(j) /\ j \in AllowInline /\ j \in Eligible

\* GroupInner::add and the checks in front of it.
JoinsGroup(j) ==
  GroupOf[j] # None =>
    GroupOf[j] \notin Prereqs[j] /\ ~group[GroupOf[j]].sealed

\* The class section of submit_payload_accounted: the record is inserted (the
\* acceptance point), or the submission is refused, after having joined the
\* group when it is the runnable limit that refuses it.
Accept(j) ==
  /\ sub[j] = "charged"
  /\ LET g      == GroupOf[j]
         joins  == ~abandoned /\ JoinsGroup(j)
         fits   == \/ ~Saturated(j)
                   \/ RunsInline(j) /\ ~ForeignContext(j)
         member == joins /\ g # None
     IN  /\ group' = IF member THEN [group EXCEPT ![g].pending = @ + 1] ELSE group
         /\ IF joins /\ fits
            THEN /\ sub' = [sub EXCEPT ![j] = "attaching"]
                 /\ inline' = IF RunsInline(j) THEN inline \cup {j} ELSE inline
                 /\ stage' = [stage EXCEPT ![j] = "Waiting"]
                 /\ pending' = [pending EXCEPT ![j] = Cardinality(Prereqs[j])]
            ELSE /\ sub' = [sub EXCEPT ![j] =
                              IF member THEN "unjoining" ELSE "refused"]
                 /\ UNCHANGED <<inline, stage, pending>>
  /\ UNCHANGED <<chargeVars, failed, edge, class, index, status, finishVars,
                 handVars, closeVars, suppressing>>

\* Fault: the last member is not waited for.
TerminalEarly(st) == st.sealed /\ st.pending <= 1 /\ ~st.publishing

\* GroupInner::terminal, on the state the section leaves behind.
Terminal(st) == st.sealed /\ st.pending = 0 /\ ~st.publishing

\* Fault: a refused member never publishes the group.
UnjoinSilently(j) ==
  /\ sub[j] = "unjoining"
  /\ group' = [group EXCEPT ![GroupOf[j]].pending = @ - 1]
  /\ sub' = [sub EXCEPT ![j] = "refused"]
  /\ UNCHANGED <<inline, chargeVars, recordVars, queueVars, status, finishVars,
                 handVars, closeVars, suppressing>>

\* group.finish(None): a refused member leaves without failing its group, and
\* publishes it when the seal came in between.
Unjoin(j) ==
  /\ sub[j] = "unjoining"
  /\ LET g  == GroupOf[j]
         st == [group[g] EXCEPT !.pending = @ - 1]
     IN  group' = [group EXCEPT ![g] = [st EXCEPT !.publishing = @ \/ Terminal(st)]]
  /\ sub' = [sub EXCEPT ![j] = "refused"]
  /\ UNCHANGED <<inline, chargeVars, recordVars, queueVars, status, finishVars,
                 handVars, closeVars, suppressing>>

\* AccountingLease::drop of a refused submission.
Refuse(j) ==
  /\ sub[j] = "refused"
  /\ records' = records - 1
  /\ edges' = edges - Cardinality(Prereqs[j])
  /\ sub' = [sub EXCEPT ![j] = "rejected"]
  /\ UNCHANGED <<inline, recordVars, queueVars, signalVars, finishVars,
                 handVars, closeVars, suppressing>>

\* Fault: the callback is stored even if the signal is already published.
SubscribeBlindly(e) ==
  /\ Attaching(e[1]) /\ edge[e] = "unattached"
  /\ edge' = [edge EXCEPT ![e] = "stored"]
  /\ UNCHANGED <<submitVars, chargeVars, pending, failed, queueVars, signalVars,
                 finishVars, handVars, closeVars, suppressing>>

\* subscribe_cancelable: the callback is stored, or called here and now when
\* the signal is already published.
Subscribe(e) ==
  /\ Attaching(e[1]) /\ edge[e] = "unattached"
  /\ edge' = [edge EXCEPT ![e] = IF status[e[2]] = None THEN "stored" ELSE "late"]
  /\ UNCHANGED <<submitVars, chargeVars, pending, failed, queueVars, signalVars,
                 finishVars, handVars, closeVars, suppressing>>

\* Attachment ends: a finish deferred by it is run by the submitter, otherwise
\* the submitter goes on to activate the job.
CloseAttachment(j) ==
  /\ Attaching(j)
  /\ \A e \in EdgesOf(j) : edge[e] # "unattached"
  /\ sub' = [sub EXCEPT ![j] = "activating"]
  /\ exec' = IF exec[j] = "deferred" THEN [exec EXCEPT ![j] = "finish"] ELSE exec
  /\ UNCHANGED <<inline, chargeVars, recordVars, queueVars, signalVars, outcome,
                 handVars, closeVars, suppressing>>

-----------------------------------------------------------------------------
(* Activation *)

\* Fault: the count of unsettled prerequisites is not looked at.
ActivatableEarly(j) == stage[j] = "Waiting" /\ ~Attaching(j)

Activatable(j) == stage[j] = "Waiting" /\ pending[j] = 0 /\ ~Attaching(j)

Doomed(j) == abandoned \/ (j \in failed /\ j \in SuccessOnly)

\* activate_ready: into the window, behind it, or to a suppress() call.
ActivateReady(j, inl) ==
  LET c == ClassOf[j]
      q == class[c]
  IN  \/ /\ ~Activatable(j)
         /\ UNCHANGED <<queueVars, suppressing>>
      \/ /\ Activatable(j) /\ Doomed(j)
         /\ suppressing' = suppressing \cup
              {<<j, IF abandoned THEN "Abandoned" ELSE "PrerequisiteFailed">>}
         /\ UNCHANGED queueVars
      \/ /\ Activatable(j) /\ ~Doomed(j)
         /\ inl \/ q.runnable < RunnableLimit[c]
         /\ class' = [class EXCEPT ![c] =
              [q EXCEPT !.ready = Append(q.ready, j), !.runnable = @ + 1,
                        !.rebalance = TRUE]]
         /\ stage' = [stage EXCEPT ![j] = "Ready"]
         /\ index' = index \cup ({j} \cap Helpable)
         /\ UNCHANGED suppressing
      \/ /\ Activatable(j) /\ ~Doomed(j)
         /\ ~inl /\ q.runnable >= RunnableLimit[c]
         /\ class' = [class EXCEPT ![c] =
              [q EXCEPT !.deferred = Append(q.deferred, j)]]
         /\ stage' = [stage EXCEPT ![j] = "DeferredReady"]
         /\ UNCHANGED <<index, suppressing>>

\* The submitter activates, then claims the job itself or dispatches.
ActivateSubmitted(j) ==
  /\ sub[j] = "activating"
  /\ ActivateReady(j, j \in inline)
  /\ IF j \in inline
     THEN sub' = [sub EXCEPT ![j] = "claiming"] /\ UNCHANGED calls
     ELSE /\ sub' = [sub EXCEPT ![j] = "returned"]
          /\ CallDispatch(ClassOf[j])
  /\ UNCHANGED <<inline, chargeVars, recordVars, signalVars, finishVars,
                 wrapper, offers, closeVars>>

\* activate_prerequisite, the record section: one delivered edge.
DeliverEdge(e) ==
  LET j == e[1]
  IN  /\ edge[e] \in {"fired", "late"}
      /\ IF stage[j] = "Waiting" /\ pending[j] # 0
         THEN /\ pending' = [pending EXCEPT ![j] = @ - 1]
              /\ failed' = IF status[e[2]] = "Succeeded" THEN failed
                           ELSE failed \cup {j}
              /\ edge' = [edge EXCEPT ![e] =
                            IF Attaching(j) THEN "settled" ELSE "activating"]
         ELSE /\ edge' = [edge EXCEPT ![e] = "settled"]
              /\ UNCHANGED <<pending, failed>>
      /\ UNCHANGED <<submitVars, chargeVars, queueVars, signalVars, finishVars,
                     handVars, closeVars, suppressing>>

\* activate_prerequisite, the class section and the dispatch it owes.
ActivateEdge(e) ==
  /\ edge[e] = "activating"
  /\ ActivateReady(e[1], FALSE)
  /\ edge' = [edge EXCEPT ![e] = "settled"]
  /\ CallDispatch(ClassOf[e[1]])
  /\ UNCHANGED <<submitVars, chargeVars, pending, failed, signalVars,
                 finishVars, wrapper, offers, closeVars>>

-----------------------------------------------------------------------------
(* Suppression and claims compete under the class lock *)

\* suppress(): no effect once the job runs or settles.
Suppress(j, st) ==
  LET c == ClassOf[j]
      q == [class[c] EXCEPT !.ready = Dequeue(@, j),
                            !.deferred = Dequeue(@, j)]
      finalizing == [stage EXCEPT ![j] = "Finalizing"]
  IN  \/ /\ stage[j] \in {"absent", "Running", "Finalizing", "gone"}
         /\ UNCHANGED <<queueVars, finishVars>>
      \/ /\ stage[j] \in {"Waiting", "DeferredReady", "Ready", "Handed"}
         /\ outcome' = [outcome EXCEPT ![j] = IF abandoned THEN "Abandoned" ELSE st]
         /\ exec' = [exec EXCEPT ![j] = "finish"]
         /\ IF stage[j] \in {"Ready", "Handed"}
            THEN Install(c, Promote(c, [q EXCEPT !.runnable = @ - 1],
                                    finalizing, index \ {j}))
            ELSE /\ class' = [class EXCEPT ![c] = q]
                 /\ stage' = finalizing
                 /\ index' = index \ {j}

\* A producer control: reachable through the work set during attachment and
\* through the returned handle afterwards.
Cancel(j) ==
  /\ j \in Cancellable /\ Live(j)
  /\ Suppress(j, "Cancelled")
  /\ UNCHANGED <<submitVars, chargeVars, recordVars, signalVars, handVars,
                 closeVars, suppressing>>

\* A suppression decided earlier: a failed prerequisite or the abandon sweep.
SuppressDecided(d) ==
  /\ d \in suppressing
  /\ suppressing' = suppressing \ {d}
  /\ Suppress(d[1], d[2])
  /\ UNCHANGED <<submitVars, chargeVars, recordVars, signalVars, handVars,
                 closeVars>>

\* Fault: a lease is trusted past the cut.
ClaimableByLease(who, j) ==
  /\ Serving \/ <<who, j>> \in leased
  /\ stage[j] \in {"Ready", "Handed"}

\* claim_and_run finds a lease and a claimable record; else Unavailable or
\* Lost.  A lease taken before the runtime was abandoned serves until the cut.
Claimable(who, j) ==
  /\ Serving \/ <<who, j>> \in leased
  /\ ~abandoned /\ stage[j] \in {"Ready", "Handed"}

\* The class section of a successful claim; the body runs after it.
Claim(who, j) ==
  /\ Claimable(who, j)
  /\ LET c == ClassOf[j]
         q == [class[c] EXCEPT !.ready = Dequeue(@, j), !.runnable = @ - 1]
     IN  Install(c, Promote(c, q, [stage EXCEPT ![j] = "Running"], index \ {j}))
  /\ exec' = [exec EXCEPT ![j] = "body"]
  /\ UNCHANGED outcome

\* The saturated submitter tries to run its own job.
ClaimInline(j) ==
  /\ sub[j] = "claiming"
  /\ sub' = [sub EXCEPT ![j] = "returned"]
  /\ \/ Claim("caller", j)
     \/ ~(Serving /\ Claimable("caller", j)) /\ UNCHANGED <<queueVars, finishVars>>
  /\ UNCHANGED <<inline, chargeVars, recordVars, signalVars, handVars,
                 closeVars, suppressing>>

\* help_group runs a job from the group's ready list; a candidate that is no
\* longer claimable is Lost or Unavailable and changes nothing.
Help(j) ==
  /\ j \in index
  /\ Claim("caller", j)
  /\ UNCHANGED <<submitVars, chargeVars, recordVars, signalVars, handVars,
                 closeVars, suppressing>>

\* A worker enters the wrapper and wins the claim.
EnterWrapper(j) ==
  /\ wrapper[j] = "queued"
  /\ Claim("worker", j)
  /\ wrapper' = [wrapper EXCEPT ![j] = "running"]
  /\ UNCHANGED <<submitVars, chargeVars, recordVars, signalVars, calls, offers,
                 closeVars, suppressing>>

\* Fault: the returned credit is not used.
LeaveWrapperSilently(j) ==
  /\ \/ wrapper[j] = "queued" /\ ~Claimable("worker", j)
     \/ wrapper[j] = "running" /\ exec[j] = "done"
  /\ wrapper' = [wrapper EXCEPT ![j] = "gone"]
  /\ class' = [class EXCEPT ![ClassOf[j]].handed = @ - 1]
  /\ UNCHANGED <<submitVars, chargeVars, recordVars, stage, index, signalVars,
                 finishVars, calls, offers, closeVars, suppressing>>

\* Handoff::drop of a completed wrapper: its claim was lost or refused, or the
\* job it ran is finalized.  The credit returns, then the class is dispatched.
LeaveWrapper(j) ==
  /\ \/ wrapper[j] = "queued" /\ ~Claimable("worker", j)
     \/ wrapper[j] = "running" /\ exec[j] = "done"
  /\ wrapper' = [wrapper EXCEPT ![j] = "gone"]
  /\ class' = [class EXCEPT ![ClassOf[j]].handed = @ - 1]
  /\ IF abandoned THEN UNCHANGED calls ELSE CallDispatch(ClassOf[j])
  /\ UNCHANGED <<submitVars, chargeVars, recordVars, stage, index, signalVars,
                 finishVars, offers, closeVars, suppressing>>

\* begin_stop follows the abandon sweep of the runtime.
Stopping == phase = "Abandoned" /\ abandoned

\* The stopped backend drops a queued wrapper without running it.
DiscardWrapper(j) ==
  /\ Stopping /\ wrapper[j] = "queued"
  /\ wrapper' = [wrapper EXCEPT ![j] = "gone"]
  /\ class' = [class EXCEPT ![ClassOf[j]].handed = @ - 1]
  /\ UNCHANGED <<submitVars, chargeVars, recordVars, stage, index, signalVars,
                 finishVars, calls, offers, closeVars, suppressing>>

-----------------------------------------------------------------------------
(* Settlement *)

\* The body returns or unwinds, after the submissions it is making.
ReturnBody(j, o) ==
  /\ exec[j] = "body" /\ o \in Outcomes
  /\ \A k \in Jobs : Parent[k] = j => sub[k] \in {"idle", "returned", "rejected"}
  /\ outcome' = [outcome EXCEPT ![j] = o]
  /\ stage' = [stage EXCEPT ![j] = "Finalizing"]
  /\ exec' = [exec EXCEPT ![j] = "finish"]
  /\ UNCHANGED <<submitVars, chargeVars, recordVars, class, index, signalVars,
                 handVars, closeVars, suppressing>>

\* finish_record while the submitter is still attaching: it will come back.
DeferFinish(j) ==
  /\ exec[j] = "finish" /\ Attaching(j)
  /\ exec' = [exec EXCEPT ![j] = "deferred"]
  /\ UNCHANGED <<submitVars, chargeVars, recordVars, queueVars, signalVars,
                 outcome, handVars, closeVars, suppressing>>

\* finish_record otherwise clears the subscriptions one by one: an edge whose
\* callback has not been taken goes away.
Detach(e) ==
  /\ exec[e[1]] = "finish" /\ ~Attaching(e[1])
  /\ edge[e] = "stored"
  /\ edge' = [edge EXCEPT ![e] = "detached"]
  /\ UNCHANGED <<submitVars, chargeVars, pending, failed, queueVars, signalVars,
                 finishVars, handVars, closeVars, suppressing>>

\* Fault: the subscriptions are not cleared first.
PublishAttached(j) ==
  /\ exec[j] = "finish" /\ ~Attaching(j)
  /\ status' = [status EXCEPT ![j] = outcome[j]]
  /\ edge' = FireFrom(j)
  /\ exec' = [exec EXCEPT ![j] = "finalize"]
  /\ UNCHANGED <<submitVars, chargeVars, pending, failed, queueVars, group,
                 outcome, handVars, closeVars, suppressing>>

\* CompletionSink::finish: the status becomes visible, its subscribers leave.
Publish(j) ==
  /\ exec[j] = "finish" /\ ~Attaching(j)
  /\ \A e \in EdgesOf(j) : edge[e] # "stored"
  /\ status' = [status EXCEPT ![j] = outcome[j]]
  /\ edge' = FireFrom(j)
  /\ exec' = [exec EXCEPT ![j] = "finalize"]
  /\ UNCHANGED <<submitVars, chargeVars, pending, failed, queueVars, group,
                 outcome, handVars, closeVars, suppressing>>

\* finalize_record takes the record out, after the callbacks the publication
\* queued before it on the same thread, and drops its AccountingLease.
Finalize(j) ==
  /\ exec[j] = "finalize"
  /\ \A e \in EdgesFrom(j) : edge[e] # "fired"
  /\ stage' = [stage EXCEPT ![j] = "gone"]
  /\ records' = records - 1
  /\ edges' = edges - Cardinality(Prereqs[j])
  /\ exec' = [exec EXCEPT ![j] = "leave"]
  /\ UNCHANGED <<submitVars, recordVars, class, index, signalVars, outcome,
                 handVars, closeVars, suppressing>>

\* The end of finalize_record: the runtime admission drops, dispatch follows.
Retire(j) ==
  /\ exec' = [exec EXCEPT ![j] = "done"]
  /\ CallDispatch(ClassOf[j])

\* group.finish(Some(status)); the last member of a sealed group publishes.
Leave(j) ==
  /\ exec[j] = "leave"
  /\ LET g  == GroupOf[j]
         st == [group[g] EXCEPT !.pending = @ - 1,
                                !.failed = @ \/ status[j] # "Succeeded"]
     IN  IF g = None
         THEN Retire(j) /\ UNCHANGED group
         ELSE /\ group' = [group EXCEPT ![g] =
                             [st EXCEPT !.publishing = @ \/ Terminal(st)]]
              /\ IF Terminal(st)
                 THEN exec' = [exec EXCEPT ![j] = "groupPublish"] /\ UNCHANGED calls
                 ELSE Retire(j)
  /\ UNCHANGED <<submitVars, chargeVars, recordVars, queueVars, status, outcome,
                 wrapper, offers, closeVars, suppressing>>

\* The publishing member goes on once the group's callbacks have run.
LeavePublished(j) ==
  /\ exec[j] = "groupPublish"
  /\ status[GroupOf[j]] # None
  /\ \A e \in EdgesFrom(GroupOf[j]) : edge[e] # "fired"
  /\ Retire(j)
  /\ UNCHANGED <<submitVars, chargeVars, recordVars, queueVars, signalVars,
                 outcome, wrapper, offers, closeVars, suppressing>>

\* SWGroup::seal.
Seal(g) ==
  /\ ~group[g].sealed
  /\ LET st == [group[g] EXCEPT !.sealed = TRUE]
     IN  group' = [group EXCEPT ![g] = [st EXCEPT !.publishing = @ \/ Terminal(st)]]
  /\ UNCHANGED <<submitVars, chargeVars, recordVars, queueVars, status,
                 finishVars, handVars, closeVars, suppressing>>

\* GroupInner::publish, by the one thread that found the group terminal.
PublishGroup(g) ==
  /\ group[g].publishing /\ status[g] = None
  /\ status' = [status EXCEPT ![g] =
       IF group[g].failed THEN "PrerequisiteFailed" ELSE "Succeeded"]
  /\ edge' = FireFrom(g)
  /\ UNCHANGED <<submitVars, chargeVars, pending, failed, queueVars, group,
                 finishVars, handVars, closeVars, suppressing>>

-----------------------------------------------------------------------------
(* Dispatch *)

\* One turn of a dispatch_class call: repair the window, pop a portion for the
\* backend; a turn that pops nothing ends the call.
Dispatch(c) ==
  LET p == Promote(c, class[c], stage, index)
      n == Smaller(Smaller(Len(p.queue.ready), Quantum),
                   Room(HandoffLimit[c], p.queue.handed))
      portion == Range(SubSeq(p.queue.ready, 1, n))
      popped  == [p.queue EXCEPT !.ready = SubSeq(@, n + 1, Len(@)),
                                 !.handed = @ + n]
  IN  /\ calls[c] > 0
      /\ calls' = [calls EXCEPT ![c] = @ - 1]
      /\ IF abandoned
         THEN UNCHANGED <<queueVars, wrapper, offers>>
         ELSE /\ Install(c, [queue |-> popped, index |-> p.index,
                             stage |-> [j \in Jobs |-> IF j \in portion
                                        THEN "Handed" ELSE p.stage[j]]])
              /\ wrapper' = [j \in Jobs |-> IF j \in portion THEN "offered"
                                            ELSE wrapper[j]]
              /\ offers' = IF n = 0 THEN offers
                           ELSE offers \cup {[class |-> c, jobs |-> portion]}
      /\ UNCHANGED <<submitVars, chargeVars, recordVars, signalVars, finishVars,
                     closeVars, suppressing>>

\* The dispatcher of a portion took its lease before the runtime was abandoned.
Leased(o) == {"dispatcher"} \X o.jobs \subseteq leased

\* acquire_handoff succeeds and the backend takes the whole portion; the caller
\* takes another turn.
PublishOffer(o) ==
  /\ o \in offers /\ (Serving \/ Leased(o))
  /\ offers' = offers \ {o}
  /\ wrapper' = [j \in Jobs |-> IF j \in o.jobs THEN "queued" ELSE wrapper[j]]
  /\ CallDispatch(o.class)
  /\ UNCHANGED <<submitVars, chargeVars, recordVars, queueVars, signalVars,
                 finishVars, closeVars, suppressing>>

\* acquire_handoff fails, or the backend has stopped since: every credit
\* returns and the caller abandons the scheduler.
RefuseOffer(o) ==
  /\ o \in offers /\ ~Serving /\ (Leased(o) => Stopping)
  /\ offers' = offers \ {o}
  /\ wrapper' = [j \in Jobs |-> IF j \in o.jobs THEN "gone" ELSE wrapper[j]]
  /\ class' = [class EXCEPT ![o.class].handed = @ - Cardinality(o.jobs)]
  /\ cutting' = TRUE
  /\ UNCHANGED <<submitVars, chargeVars, recordVars, stage, index, signalVars,
                 finishVars, calls, phase, abandoned, leased, suppressing>>

-----------------------------------------------------------------------------
(* Closure *)

BeginShutdown ==
  /\ MayClose /\ phase = "Running"
  /\ phase' = "Closing"
  /\ UNCHANGED <<submitVars, chargeVars, recordVars, queueVars, signalVars,
                 finishVars, handVars, abandoned, cutting, leased, suppressing>>

\* Leases some thread may hold on its way to a class section or to the backend.
Leasable ==
  ({"dispatcher"} \X {j \in Jobs : wrapper[j] = "offered"}) \cup
  ({"worker"} \X {j \in Jobs : wrapper[j] = "queued"}) \cup
  ({"caller"} \X (index \cup {j \in Jobs : sub[j] = "claiming"}))

\* SWRuntime::abandon up to its call of OwnedScheduler::abandon.
AbandonRuntime ==
  /\ MayAbandon /\ Serving
  /\ phase' = "Abandoned" /\ cutting' = TRUE
  /\ \E held \in SUBSET Leasable : leased' = held
  /\ UNCHANGED <<submitVars, chargeVars, recordVars, queueVars, signalVars,
                 finishVars, handVars, abandoned, suppressing>>

\* Fault: jobs that wait for a prerequisite are overlooked.
SweptQueues == {j \in Jobs : stage[j] \in {"DeferredReady", "Ready", "Handed"}}

\* The records abandon() finds and will suppress.
Swept == {j \in Jobs : Live(j)}

\* The cut: under every class lock, no claim or acceptance after it, and a
\* snapshot of the records to suppress.
AbandonCut ==
  /\ cutting
  /\ cutting' = FALSE /\ abandoned' = TRUE
  /\ suppressing' = suppressing \cup (Swept \X {"Abandoned"})
  /\ UNCHANGED <<submitVars, chargeVars, recordVars, queueVars, signalVars,
                 finishVars, handVars, phase, leased>>

-----------------------------------------------------------------------------
\* What the program may or may not do.
Environment ==
  \/ \E j \in Jobs : Submit(j) \/ Cancel(j) \/ Help(j)
  \/ \E g \in Groups : Seal(g)
  \/ BeginShutdown \/ AbandonRuntime

\* What a thread that has begun goes on to do.
SubmitStep(j) ==
  \/ ChargeRecord(j) \/ ChargeEdges(j) \/ Accept(j) \/ Unjoin(j) \/ Refuse(j)
  \/ CloseAttachment(j) \/ ActivateSubmitted(j) \/ ClaimInline(j)

WrapperStep(j) == EnterWrapper(j) \/ LeaveWrapper(j) \/ DiscardWrapper(j)

SettleStep(j) ==
  \/ \E o \in Outcomes : ReturnBody(j, o)
  \/ DeferFinish(j) \/ Publish(j) \/ Finalize(j) \/ Leave(j)
  \/ LeavePublished(j)

EdgeStep(e) == Subscribe(e) \/ DeliverEdge(e) \/ ActivateEdge(e) \/ Detach(e)

OfferStep(o) == PublishOffer(o) \/ RefuseOffer(o)

System ==
  \/ \E j \in Jobs : SubmitStep(j) \/ WrapperStep(j) \/ SettleStep(j)
  \/ \E e \in Edges : EdgeStep(e)
  \/ \E d \in suppressing : SuppressDecided(d)
  \/ \E g \in Groups : PublishGroup(g)
  \/ \E c \in Classes : Dispatch(c)
  \/ \E o \in offers : OfferStep(o)
  \/ AbandonCut

Next == Environment \/ System

Spec == Init /\ [][Next]_vars

\* Some thread inside the library always moves on while one can: the weakest
\* scheduling under which no call is left half done.  The program owes nothing:
\* it may never submit, seal, help, cancel, close or abandon.
FairSpec == Spec /\ WF_vars(System)

(* Safety *)

Queued(c) == class[c].ready \o class[c].deferred

InWindow(c) ==
  {j \in Jobs : ClassOf[j] = c /\ stage[j] \in {"Ready", "Handed"}}

\* A job leaves Waiting for the queues only once every prerequisite is settled,
\* and under SuccessOnly only if every one of them succeeded (activate_ready,
\* activate_prerequisite; scheduler.rs:1557-1691).
RunsAfterPrerequisites ==
  \A j \in Jobs : stage[j] \in {"DeferredReady", "Ready", "Handed", "Running"} =>
    \A s \in Prereqs[j] :
      /\ status[s] # None
      /\ j \in SuccessOnly => status[s] = "Succeeded"

\* ReadyQueue::runnable counts exactly the Ready and Handed jobs of the class
\* ("Runnable accounting includes handed work", ready.rs), through every claim,
\* cancellation, demotion and promotion.
WindowCounted(c) == class[c].runnable = Cardinality(InWindow(c))

\* The window passes its limit only by jobs their saturated submitters are
\* about to execute themselves (SWOwnedLimits: "Saturated caller execution can
\* exceed only the runnable limit"), as long as the runtime serves: one that is
\* refused its lease by an abandonment leaves its job over the limit to the cut.
OvershootIsInline(c) ==
  Serving =>
    class[c].runnable <= RunnableLimit[c] +
      Cardinality({j \in InWindow(c) : j \in inline /\ sub[j] = "claiming"})

\* handed_off counts exactly the live backend wrappers and never passes its
\* limit: a wrapper holds its credit even after its job settled elsewhere.
HandoffCounted(c) ==
  /\ class[c].handed = Cardinality({j \in Jobs : ClassOf[j] = c /\
       wrapper[j] \in {"offered", "queued", "running"}})
  /\ class[c].handed <= HandoffLimit[c]

\* The counters that bound a class say what there is, on every path that moves
\* a job or a wrapper.
CountersExact ==
  \A c \in Classes : WindowCounted(c) /\ OvershootIsInline(c) /\ HandoffCounted(c)

\* The two queues hold each job once, and agree with the record's stage.
QueuesMatchStages(c) ==
  /\ IsInjective(Queued(c))
  /\ \A j \in Jobs : ClassOf[j] = c =>
       /\ j \in Range(class[c].ready) <=> stage[j] = "Ready"
       /\ j \in Range(class[c].deferred) <=> stage[j] = "DeferredReady"

\* A group's ready list offers helpers exactly its claimable members.
IndexExact == index = {j \in Helpable : stage[j] \in {"Ready", "Handed"}}

\* The three places that say where a job stands never disagree: its record, the
\* queues of its class and its group's ready list.
PlacesAgree == IndexExact /\ \A c \in Classes : QueuesMatchStages(c)

\* What bounds the work of a class, what orders it and what is offered of it to
\* helpers all describe the same jobs.
ClassesExact == CountersExact /\ PlacesAgree

\* No job waits behind the runnable limit while the window has room.
WindowFilled(c) ==
  class[c].deferred # <<>> => class[c].runnable >= RunnableLimit[c]

\* A step of class c that ends in a dispatch_class of it is still to come.
DispatchOwed(c) ==
  \/ calls[c] > 0
  \/ \E o \in offers : o.class = c
  \/ \E j \in Jobs : /\ ClassOf[j] = c
                     /\ \/ exec[j] \notin {"none", "done"}
                        \/ sub[j] = "claiming"
                        \/ wrapper[j] \in {"queued", "running"}

\* Work is never forgotten: deferred jobs wait behind a full window only, and
\* though promote_locked makes jobs Ready without dispatching them, somebody
\* who will is always under way.
NoStrandedWork ==
  \A c \in Classes :
    /\ WindowFilled(c)
    /\ Serving /\ ~abandoned /\ class[c].ready # <<>> => DispatchOwed(c)

\* A settled record holds no registration in anybody's signal.
EdgesReleased ==
  \A e \in Edges : stage[e[1]] = "gone" => edge[e] # "stored"

HoldsRecord(j) ==
  \/ sub[j] \in {"recorded", "charged", "unjoining", "refused"}
  \/ Live(j)

HoldsEdges(j) == HoldsRecord(j) /\ sub[j] # "recorded"

\* Accounting: the global counters equal what live submissions and records
\* hold and stay within their limits; every exit path returns its charge once.
ChargesExact ==
  /\ records = Cardinality({j \in Jobs : HoldsRecord(j)})
  /\ edges = Cardinality({e \in Edges : HoldsEdges(e[1])})
  /\ records <= RecordLimit /\ edges <= EdgeLimit

\* A job leaves nothing behind, however it ends and whatever its attachment
\* races: neither a charge nor a registration.
NothingLeaks == ChargesExact /\ EdgesReleased

\* A group's status appears only after the seal and after every accepted
\* member left with its charge returned, and tells whether all succeeded.
GroupTruth ==
  \A g \in Groups : status[g] # None =>
    /\ group[g].sealed
    /\ \A j \in Members(g) : stage[j] # "absent" =>
         exec[j] \in {"groupPublish", "done"}
    /\ status[g] = "Succeeded" <=>
         \A j \in Members(g) : stage[j] # "absent" => status[j] = "Succeeded"

-----------------------------------------------------------------------------
(* Action properties *)

Ahead(q, j, k) == \E a, b \in DOMAIN q : a < b /\ q[a] = j /\ q[b] = k

\* Activation order is kept: neither promotion nor the demotion of the window
\* reorders two queued jobs, and the backend receives the one ahead first.
QueueOrder ==
  [][\A c \in Classes : \A j, k \in Jobs : Ahead(Queued(c), j, k) =>
       /\ ~Ahead(Queued(c)', k, j)
       /\ stage[k] # "Handed" /\ stage'[k] = "Handed" => j \notin Range(Queued(c)')]_vars

\* Jobs whose OwnedAdmission is alive: from admission to a refusal, or to the
\* end of finalize_record.
Admissions ==
  {j \in Jobs : \/ sub[j] \in {"admitted", "recorded", "charged", "unjoining",
                               "refused"}
                \/ stage[j] # "absent" /\ exec[j] # "done"}

\* A closed runtime that has no admission never has one again: what try_shutdown
\* relies on between its readings (runtime.rs:637-648).  Only the body of an
\* admitted job may submit into it.
ClosedStaysEmpty ==
  [][phase = "Closing" /\ Admissions = {} => Admissions' = {}]_vars

-----------------------------------------------------------------------------
(* Liveness *)

\* An accepted job whose prerequisites are settled is finalized, whoever runs,
\* helps, cancels or abandons.
ReadyJobSettles ==
  \A j \in Jobs :
    (Live(j) /\ \A s \in Prereqs[j] : status[s] # None) ~> (stage[j] = "gone")

\* After the abandon cut no record survives, even behind an unsealed group.
AbandonSettles == \A j \in Jobs : (abandoned /\ Live(j)) ~> (stage[j] = "gone")

\* Once every group is sealed, every group is published.
SealedGroupsPublish ==
  \A g \in Groups : (\A h \in Groups : group[h].sealed) ~> (status[g] # None)
=============================================================================
