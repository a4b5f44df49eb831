---------------------------- MODULE BatchPortion ----------------------------
(***************************************************************************)
(* Batch admission (scheduler/bulk.rs) and the shared prerequisite range   *)
(* of a portion (scheduler/prerequisite_range.rs).  One thread submits N   *)
(* operations with common options.  It admits them in portions of at most  *)
(* Quantum: charges are taken for as many as fit, the controls are         *)
(* prepared, one commit under the class lock accepts a prefix, the rest is *)
(* put back at the head of the input, and the accepted members are         *)
(* attached: keys of the group's directory, then subscriptions, then the   *)
(* publication of the portion.  Prerequisites complete, the runtime closes *)
(* and is abandoned, the group is sealed and accepted jobs are cancelled   *)
(* meanwhile.                                                              *)
(*                                                                         *)
(* Three abstractions.  The capacity pool, which charges a portion like    *)
(* the accounting does, is in Reservations.  A job is claimed as soon as   *)
(* it is ready: the handoff and its limit are in OwnedScheduler.  Resource *)
(* demand is disabled (Demand has it).                                     *)
(***************************************************************************)
EXTENDS Integers, Sequences, FiniteSets, SequencesExt

CONSTANTS N,              \* the operations of the batch
          Signals,        \* completions a batch may wait for
          Quantum,        \* the members of a portion (bulk.rs QUANTUM)
          RecordLimit,    \* limits.records
          EdgeLimit,      \* limits.edges
          RunnableLimit,  \* limits.runnable of the class
          Submitter       \* the thread in submit_batch

ASSUME Sizes == /\ N >= 2
                /\ {N, Quantum, RecordLimit, RunnableLimit} \subseteq Nat \ {0}
                /\ EdgeLimit \in Nat
                /\ IsFiniteSet(Signals)
                /\ Submitter \notin Signals

VARIABLES
  options,     \* prerequisites and policy of the batch, fixed in Init
  phase,       \* the runtime: Running, or Closed by shutdown or abandonment
  abandoned,   \* the scheduler's cut
  sealed,      \* the group takes no more members
  signal,      \* the prerequisites: Pending, Succeeded or Failed
  batch,       \* submit_batch: pc, remaining, prepared, accepted, portion, failure
  ledger,      \* what is charged: records, edges, admissions, slots, members
  rec,         \* the records of the jobs
  window,      \* class state: deferred, runnable, attaching (attaching_runnable)
  range,       \* the shared registration, under its portion's first job; or NoRange
  stored,      \* subscribers in the signals' lists, <<job or range, signal>>
  owed,        \* subscribers a publication took out and still has to call
  act,         \* what each thread does in an activation
  doomed,      \* jobs whose suppression some thread has decided on
  settling     \* where the settlement of each job stands

vars == <<options, phase, abandoned, sealed, signal, batch, ledger, rec, window,
          range, stored, owed, act, doomed, settling>>

Jobs == 1 .. N
Threads == Signals \cup {Submitter}
Prereqs == options.prereqs
Fanin == Cardinality(Prereqs)
Lesser(m, n) == IF m < n THEN m ELSE n
Portion == ToSet(batch.portion)

NoRecord == [stage |-> "Out", pending |-> 0, failed |-> FALSE, attaching |-> FALSE,
             reserved |-> FALSE, deferred |-> FALSE, token |-> FALSE, member |-> FALSE,
             subs |-> {}]

\* Prepared: the record of a member before commit.
NewRecord == [NoRecord EXCEPT !.stage = "Waiting", !.pending = Fanin, !.attaching = TRUE,
                              !.reserved = (Prereqs = {})]

NoRange == [jobs |-> {}, members |-> {}, active |-> 0, delivered |-> FALSE,
            installing |-> FALSE, handle |-> FALSE]

Idle == [step |-> "idle"]

Init ==
  /\ options \in [prereqs : SUBSET Signals, successOnly : BOOLEAN]
  /\ phase = "Running"
  /\ abandoned = FALSE
  /\ sealed = FALSE
  /\ signal = [s \in Signals |-> "Pending"]
  /\ batch = [pc |-> "enter", remaining |-> [i \in Jobs |-> i], prepared |-> <<>>,
              accepted |-> <<>>, portion |-> <<>>, todo |-> {}, reserve |-> 0,
              failure |-> "None"]
  /\ ledger = [records |-> 0, edges |-> 0, admissions |-> 0, slots |-> 0, members |-> 0]
  /\ rec = [j \in Jobs |-> NoRecord]
  /\ window = [deferred |-> <<>>, runnable |-> 0, attaching |-> 0]
  /\ range = [j \in Jobs |-> NoRange]
  /\ stored = {}
  /\ owed = {}
  /\ act = [t \in Threads |-> Idle]
  /\ doomed = {}
  /\ settling = [j \in Jobs |-> "none"]

-----------------------------------------------------------------------------
(* The runnable window: records and class state change together.           *)

Class == [rec |-> rec, window |-> window, doomed |-> {}]

HasRoom(w) == w.runnable + w.attaching < RunnableLimit

\* A member whose prerequisites are all delivered is suppressed, made ready
\* or deferred.
Activated(k, j) ==
  IF abandoned \/ (k.rec[j].failed /\ options.successOnly)
    THEN [k EXCEPT !.doomed = @ \cup {j}]
  ELSE IF HasRoom(k.window)
    THEN [k EXCEPT !.rec[j].stage = "Ready", !.window.runnable = @ + 1]
  ELSE [k EXCEPT !.rec[j].stage = "Deferred", !.window.deferred = Append(@, j)]

\* promote_locked: the head of the backlog fills the room.
Promoted(k) ==
  LET room == RunnableLimit - k.window.runnable - k.window.attaching
      n == IF room <= 0 THEN 0 ELSE Lesser(room, Len(k.window.deferred))
      chosen == ToSet(SubSeq(k.window.deferred, 1, n))
  IN  [k EXCEPT !.rec = [j \in Jobs |-> IF j \in chosen THEN [k.rec[j] EXCEPT !.stage = "Ready"]
                                                        ELSE k.rec[j]],
                !.window.deferred = SubSeq(@, n + 1, Len(@)),
                !.window.runnable = @ + n]

\* The class state k is written, and whoever it dooms is to be suppressed.
SetClass(k) ==
  /\ rec' = k.rec
  /\ window' = k.window
  /\ doomed' = doomed \cup k.doomed

\* dispatch_class stops at the cut.
Dispatched == IF abandoned THEN Class ELSE Promoted(Class)

-----------------------------------------------------------------------------
(* submit_batch: admission of a portion.                                   *)

At(pc) == batch.pc = pc
Go(pc) == batch' = [batch EXCEPT !.pc = pc]
Refuse(reason) == batch' = [batch EXCEPT !.pc = "done", !.failure = reason]

Refund(n) == [ledger EXCEPT !.records = @ - n, !.edges = @ - n * Fanin, !.admissions = @ - n]

Maximum == Lesser(Quantum, Len(batch.remaining))

\* Structural errors admit no prefix; one operation takes another route.
Enter ==
  /\ At("enter")
  /\ IF Fanin > EdgeLimit THEN Refuse("TooLarge") ELSE Go("next")
  /\ UNCHANGED <<options, phase, abandoned, sealed, signal, ledger, rec, window, range, stored,
                 owed, act, doomed, settling>>

\* The loop ends, or admission is asked for a whole portion.
Admit ==
  /\ At("next")
  /\ IF batch.remaining = <<>> THEN Go("done") /\ UNCHANGED ledger
     ELSE IF phase # "Running" THEN Refuse("Closed") /\ UNCHANGED ledger
     ELSE Go("charge") /\ ledger' = [ledger EXCEPT !.admissions = @ + Maximum]
  /\ UNCHANGED <<options, phase, abandoned, sealed, signal, rec, window, range, stored, owed,
                 act, doomed, settling>>

\* acquire_many_into: the members both limits have room for.
Fitting ==
  LET reserved == Lesser(Maximum, RecordLimit - ledger.records)
  IN  IF Fanin = 0 THEN reserved ELSE Lesser(reserved, (EdgeLimit - ledger.edges) \div Fanin)

\* An open group, charges for a positive prefix, and its controls.
Charge ==
  /\ At("charge")
  /\ LET n == Fitting
         refused == [ledger EXCEPT !.admissions = @ - Maximum]
     IN  IF sealed THEN Refuse("InvalidGroup") /\ ledger' = refused /\ UNCHANGED rec
         ELSE IF n = 0 THEN Refuse("Full") /\ ledger' = refused /\ UNCHANGED rec
         ELSE
           /\ batch' = [batch EXCEPT !.pc = "commit", !.reserve = n,
                                     !.prepared = SubSeq(batch.remaining, 1, n),
                                     !.remaining = SubSeq(@, n + 1, Len(@))]
           /\ ledger' = [records |-> ledger.records + n, edges |-> ledger.edges + n * Fanin,
                         admissions |-> ledger.admissions - Maximum + n,
                         slots |-> ledger.slots + n, members |-> ledger.members]
           /\ rec' = [j \in Jobs |-> IF j \in ToSet(SubSeq(batch.remaining, 1, n))
                                       THEN [NewRecord EXCEPT !.stage = "Prepared"] ELSE rec[j]]
  /\ UNCHANGED <<options, phase, abandoned, sealed, signal, window, range, stored, owed, act,
                 doomed, settling>>

\* Under the class lock: a prefix is accepted, or nobody.
Selected ==
  IF Prereqs = {}
    THEN LET room == RunnableLimit - window.runnable - window.attaching
         IN  IF room <= 0 THEN 0 ELSE Lesser(Len(batch.prepared), room)
    ELSE Len(batch.prepared)

CommitFailure ==
  IF abandoned THEN "Closed" ELSE IF Selected = 0 THEN "Full"
  ELSE IF sealed THEN "InvalidGroup" ELSE "None"

Commit ==
  /\ At("commit")
  /\ LET n == IF CommitFailure = "None" THEN Selected ELSE 0
         taken == SubSeq(batch.prepared, 1, n)
     IN  /\ batch' = [batch EXCEPT !.pc = "recover", !.failure = CommitFailure,
                                   !.prepared = SubSeq(@, n + 1, Len(@)),
                                   !.portion = taken, !.accepted = @ \o taken]
         /\ rec' = [j \in Jobs |-> IF j \in ToSet(taken)
                                     THEN [rec[j] EXCEPT !.stage = "Waiting"] ELSE rec[j]]
         /\ ledger' = [ledger EXCEPT !.members = @ + n]
         /\ window' = [window EXCEPT !.attaching = IF Prereqs = {} THEN @ + n ELSE @]
  /\ UNCHANGED <<options, phase, abandoned, sealed, signal, range, stored, owed, act, doomed,
                 settling>>

\* What was prepared and not accepted goes back to the head of the input, in
\* order, and its charges are refunded; a failure returns the reserved slots.
Recover ==
  /\ At("recover")
  /\ LET left == batch.prepared
     IN  /\ batch' = [batch EXCEPT !.pc = IF batch.failure = "None" THEN "register" ELSE "done",
                                   !.prepared = <<>>, !.remaining = left \o @,
                                   !.reserve = IF batch.failure = "None" THEN @ ELSE 0]
         /\ rec' = [j \in Jobs |-> IF j \in ToSet(left) THEN NoRecord ELSE rec[j]]
         /\ ledger' = [Refund(Len(left)) EXCEPT
                         !.slots = IF batch.failure = "None" THEN @ ELSE @ - batch.reserve]
  /\ UNCHANGED <<options, phase, abandoned, sealed, signal, window, range, stored, owed, act,
                 doomed, settling>>

-----------------------------------------------------------------------------
(* submit_batch: attachment of the accepted portion.                       *)

Only == CHOOSE s \in Prereqs : TRUE
RangeOf(j) == CHOOSE r \in Jobs : j \in range[r].jobs
InRange(j) == \E r \in Jobs : j \in range[r].jobs
Least(S) == CHOOSE i \in S : \A k \in S : i <= k

\* The members get their keys and spare slots are returned; a portion of two
\* or more that waits for one prerequisite gets a range.
Register ==
  /\ At("register")
  /\ LET ranged == batch.reserve >= 2 /\ Fanin = 1
     IN  /\ batch' = [batch EXCEPT
                        !.pc = IF ranged THEN "tokens" ELSE "subscribe", !.reserve = 0,
                        !.todo = IF ranged THEN Portion ELSE Portion \X Prereqs]
         /\ ledger' = [ledger EXCEPT !.slots = @ - batch.reserve + Len(batch.portion)]
         /\ range' = IF ranged
                       THEN [range EXCEPT ![Head(batch.portion)] =
                              [jobs |-> Portion, members |-> Portion, active |-> Len(batch.portion),
                               delivered |-> FALSE, installing |-> TRUE, handle |-> FALSE]]
                       ELSE range
         /\ rec' = [j \in Jobs |->
                      IF j \in Portion THEN [rec[j] EXCEPT !.member = TRUE] ELSE rec[j]]
  /\ UNCHANGED <<options, phase, abandoned, sealed, signal, window, stored, owed, act, doomed,
                 settling>>

\* RangeMember::drop: one interested record less; the last one gives up the
\* installed registration, which leaves the signal's list if still there.
Detached(r, j) ==
  [range[r] EXCEPT !.active = @ - 1, !.members = @ \ {j}, !.handle = @ /\ range[r].active > 1]
Detach(r, j) ==
  /\ range' = [range EXCEPT ![r] = Detached(r, j)]
  /\ stored' = IF range[r].active = 1 /\ range[r].handle THEN stored \ {<<r, Only>>} ELSE stored

\* A member already being finalized has no use for its token.
Token ==
  /\ At("tokens")
  /\ batch.todo # {}
  /\ LET j == Least(batch.todo)
     IN  /\ batch' = [batch EXCEPT !.todo = @ \ {j},
                                   !.pc = IF batch.todo = {j} THEN "range" ELSE "tokens"]
         /\ IF rec[j].stage = "Finalizing"
              THEN Detach(RangeOf(j), j) /\ UNCHANGED rec
              ELSE rec' = [rec EXCEPT ![j].token = TRUE] /\ UNCHANGED <<range, stored>>
  /\ UNCHANGED <<options, phase, abandoned, sealed, signal, ledger, window, owed, act, doomed,
                 settling>>

\* subscribe_cancelable: the callback is stored, or called at once.
Subscribed(id, s, step) ==
  IF signal[s] = "Pending"
    THEN stored' = stored \cup {<<id, s>>} /\ UNCHANGED act
    ELSE act' = [act EXCEPT ![Submitter] = [step |-> step, id |-> id, status |-> signal[s],
                                           jobs |-> {}]]
         /\ UNCHANGED stored

SubscribeRange ==
  /\ At("range")
  /\ Subscribed(RangeOf(Head(batch.portion)), Only, "deliver")
  /\ Go("install")
  /\ UNCHANGED <<options, phase, abandoned, sealed, signal, ledger, rec, window, range, owed,
                 doomed, settling>>

\* Fault: installed unless delivered, whoever is still interested.
InstallUndelivered ==
  /\ At("install")
  /\ act[Submitter] = Idle
  /\ LET r == RangeOf(Head(batch.portion))
     IN  /\ range' = [range EXCEPT ![r].installing = FALSE, ![r].handle = ~range[r].delivered]
         /\ Go(IF range[r].delivered THEN "unused" ELSE "publish")
  /\ UNCHANGED <<options, phase, abandoned, sealed, signal, ledger, rec, window, stored, owed, act,
                 doomed, settling>>

\* The registration is kept while it is still of use to somebody; else it is
\* dropped, after the descriptor is unlocked.
Install ==
  /\ At("install")
  /\ act[Submitter] = Idle
  /\ LET r == RangeOf(Head(batch.portion))
         unused == range[r].delivered \/ range[r].active = 0
     IN  /\ range' = [range EXCEPT ![r].installing = FALSE, ![r].handle = ~unused]
         /\ Go(IF unused THEN "unused" ELSE "publish")
  /\ UNCHANGED <<options, phase, abandoned, sealed, signal, ledger, rec, window, stored, owed, act,
                 doomed, settling>>

DropUnused ==
  /\ At("unused")
  /\ stored' = stored \ {<<RangeOf(Head(batch.portion)), Only>>}
  /\ Go("publish")
  /\ UNCHANGED <<options, phase, abandoned, sealed, signal, ledger, rec, window, range, owed, act,
                 doomed, settling>>

\* Without a range each member subscribes to each prerequisite.  Nobody looks
\* at the handles of a record that is attaching, so keeping one is no step.
Subscribe ==
  /\ At("subscribe")
  /\ act[Submitter] = Idle
  /\ IF batch.todo = {} THEN Go("publish") /\ UNCHANGED <<stored, act, rec>>
     ELSE \E e \in batch.todo :
            /\ e[1] = Least({f[1] : f \in batch.todo})
            /\ batch' = [batch EXCEPT !.todo = @ \ {e}]
            /\ Subscribed(e[1], e[2], "single")
            /\ rec' = [rec EXCEPT ![e[1]].subs = @ \cup {e[2]}]
  /\ UNCHANGED <<options, phase, abandoned, sealed, signal, ledger, window, range, owed, doomed,
                 settling>>

\* Fault: a member settled meanwhile is skipped with its reservation.
PublishedFinished(k, j) ==
  LET r == k.rec[j]
      open == [k EXCEPT !.rec[j].attaching = FALSE, !.rec[j].deferred = FALSE]
      free == [open EXCEPT !.rec[j].reserved = FALSE,
                           !.window.attaching = IF r.reserved THEN @ - 1 ELSE @]
  IN  IF r.deferred THEN open
      ELSE IF r.stage # "Waiting" \/ r.pending # 0 THEN free ELSE Activated(free, j)

\* publish_portion: attachment ends for one member.
Published(k, j) ==
  LET r == k.rec[j]
      open == [k EXCEPT !.rec[j].attaching = FALSE, !.rec[j].reserved = FALSE,
                        !.rec[j].deferred = FALSE,
                        !.window.attaching = IF r.reserved THEN @ - 1 ELSE @]
  IN  IF r.deferred \/ r.stage # "Waiting" \/ r.pending # 0 THEN open ELSE Activated(open, j)

\* Under the class lock for the whole portion.  Results that attachment held
\* back are finished afterwards.
PublishPortion ==
  /\ At("publish")
  /\ SetClass(FoldLeft(Published, Class, batch.portion))
  /\ settling' = [j \in Jobs |-> IF j \in Portion /\ rec[j].deferred THEN "finish"
                                                                   ELSE settling[j]]
  /\ Go("dispatch")
  /\ UNCHANGED <<options, phase, abandoned, sealed, signal, ledger, range, stored, owed, act>>

DispatchPortion ==
  /\ At("dispatch")
  /\ SetClass(Dispatched)
  /\ batch' = [batch EXCEPT !.pc = "next", !.portion = <<>>]
  /\ UNCHANGED <<options, phase, abandoned, sealed, signal, ledger, range, stored, owed, act,
                 settling>>

-----------------------------------------------------------------------------
(* Prerequisites complete and their callbacks run.                         *)

\* The status is set and the subscribers are taken out in one step.
Complete(s, status) ==
  /\ signal[s] = "Pending"
  /\ signal' = [signal EXCEPT ![s] = status]
  /\ owed' = owed \cup {c \in stored : c[2] = s}
  /\ stored' = {c \in stored : c[2] # s}
  /\ UNCHANGED <<options, phase, abandoned, sealed, batch, ledger, rec, window, range, act, doomed,
                 settling>>

\* The publishing thread calls the subscribers one after the other.
Call(s) ==
  /\ act[s] = Idle
  /\ \E c \in owed :
       /\ c[2] = s
       /\ owed' = owed \ {c}
       /\ act' = [act EXCEPT ![s] = [step |-> IF range[c[1]] # NoRange THEN "deliver" ELSE "single",
                                     id |-> c[1], status |-> signal[s], jobs |-> {}]]
  /\ UNCHANGED <<options, phase, abandoned, sealed, signal, batch, ledger, rec, window, range,
                 stored, doomed, settling>>

Doing(t, step) == act[t].step = step
Then(t, step) == act' = [act EXCEPT ![t].step = step]

\* Descriptor::deliver: once, and its own registration is given up.
Deliver(t) ==
  /\ Doing(t, "deliver")
  /\ LET r == act[t].id
     IN  IF range[r].delivered THEN act' = [act EXCEPT ![t] = Idle] /\ UNCHANGED <<range, stored>>
         ELSE /\ Then(t, "take")
              /\ range' = [range EXCEPT ![r].delivered = TRUE, ![r].handle = FALSE]
              /\ stored' = IF range[r].handle THEN stored \ {<<r, Only>>} ELSE stored
  /\ UNCHANGED <<options, phase, abandoned, sealed, signal, batch, ledger, rec, window, owed,
                 doomed, settling>>

\* take_members: the snapshot of the members still interested.
TakeMembers(t) ==
  /\ Doing(t, "take")
  /\ LET r == act[t].id
     IN  /\ range' = [range EXCEPT ![r].members = {}]
         /\ act' = [act EXCEPT ![t].jobs = range[r].members,
                               ![t].step = IF range[r].members = {} THEN "stop" ELSE "activate"]
  /\ UNCHANGED <<options, phase, abandoned, sealed, signal, batch, ledger, rec, window, stored,
                 owed, doomed, settling>>

Reached(j) == rec[j].stage = "Waiting" /\ rec[j].pending > 0
Delivered(r, status) == [r EXCEPT !.pending = @ - 1, !.failed = @ \/ status = "Failed"]

\* activate_prerequisite_range: under the class lock each member of the
\* snapshot is reached unless it was suppressed meanwhile, its token is
\* taken, and it is activated unless the submitter still attaches it.
ActivateRange(t) ==
  /\ Doing(t, "activate")
  /\ LET reached == {j \in act[t].jobs : Reached(j)}
         One(k, j) ==
           LET next == [k EXCEPT !.rec[j] = [Delivered(@, act[t].status) EXCEPT !.token = FALSE]]
           IN  IF j \notin reached THEN k
               ELSE IF k.rec[j].attaching THEN next ELSE Activated(next, j)
     IN  /\ SetClass(FoldLeft(One, Class, [i \in Jobs |-> i]))
         /\ act' = [act EXCEPT ![t].step = "detach",
                               ![t].jobs = {j \in reached : rec[j].token}]
  /\ UNCHANGED <<options, phase, abandoned, sealed, signal, batch, ledger, range, stored, owed,
                 settling>>

DetachNext(t) ==
  /\ Doing(t, "detach")
  /\ IF act[t].jobs = {} THEN Then(t, "dispatch") /\ UNCHANGED <<range, stored>>
     ELSE LET j == Least(act[t].jobs)
          IN  Detach(act[t].id, j) /\ act' = [act EXCEPT ![t].jobs = @ \ {j}]
  /\ UNCHANGED <<options, phase, abandoned, sealed, signal, batch, ledger, rec, window, owed,
                 doomed, settling>>

\* Fault: a delivery during attachment is left to the attachment.
ActivateUnattached(t) ==
  /\ Doing(t, "single")
  /\ LET j == act[t].id
     IN  IF ~Reached(j) \/ rec[j].attaching THEN Then(t, "stop") /\ UNCHANGED rec
         ELSE /\ rec' = [rec EXCEPT ![j] = Delivered(@, act[t].status)]
              /\ Then(t, "ready")
  /\ UNCHANGED <<options, phase, abandoned, sealed, signal, batch, ledger, window, range, stored,
                 owed, doomed, settling>>

\* activate_prerequisite: one member, one prerequisite, under the record lock.
ActivateOne(t) ==
  /\ Doing(t, "single")
  /\ LET j == act[t].id
     IN  IF ~Reached(j) THEN Then(t, "stop") /\ UNCHANGED rec
         ELSE /\ rec' = [rec EXCEPT ![j] = Delivered(@, act[t].status)]
              /\ Then(t, IF rec[j].attaching THEN "stop" ELSE "ready")
  /\ UNCHANGED <<options, phase, abandoned, sealed, signal, batch, ledger, window, range, stored,
                 owed, doomed, settling>>

\* activate_ready: under the class lock, if that was the last prerequisite.
ActivateReady(t) ==
  /\ Doing(t, "ready")
  /\ LET j == act[t].id
         due == rec[j].stage = "Waiting" /\ rec[j].pending = 0 /\ ~rec[j].attaching
     IN  SetClass(IF due THEN Activated(Class, j) ELSE Class)
  /\ Then(t, "dispatch")
  /\ UNCHANGED <<options, phase, abandoned, sealed, signal, batch, ledger, range, stored, owed,
                 settling>>

DispatchActivation(t) ==
  /\ Doing(t, "dispatch")
  /\ SetClass(Dispatched)
  /\ Then(t, "stop")
  /\ UNCHANGED <<options, phase, abandoned, sealed, signal, batch, ledger, range, stored, owed,
                 settling>>

Return(t) ==
  /\ Doing(t, "stop")
  /\ act' = [act EXCEPT ![t] = Idle]
  /\ UNCHANGED <<options, phase, abandoned, sealed, signal, batch, ledger, rec, window, range,
                 stored, owed, doomed, settling>>

-----------------------------------------------------------------------------
(* Settlement.  One thread settles a job; the steps of several jobs are    *)
(* interleaved freely, whoever their threads are.                          *)

\* suppress: wins against a claim, or finds the job started or settled.
Suppress(j) ==
  /\ j \in doomed
  /\ LET stage == rec[j].stage
         gone == [Class EXCEPT !.rec[j].stage = "Finalizing", !.rec[j].token = FALSE,
                               !.window.deferred = RemoveFirst(@, j)]
         k == IF stage = "Ready" THEN Promoted([gone EXCEPT !.window.runnable = @ - 1]) ELSE gone
         wins == stage \in {"Waiting", "Deferred", "Ready"}
     IN  /\ rec' = IF wins THEN k.rec ELSE rec
         /\ window' = IF wins THEN k.window ELSE window
         /\ settling' = IF wins THEN [settling EXCEPT ![j] = IF rec[j].token THEN "token"
                                                                            ELSE "finish"]
                                ELSE settling
  /\ doomed' = doomed \ {j}
  /\ UNCHANGED <<options, phase, abandoned, sealed, signal, batch, ledger, range, stored,
                 owed, act>>

DropToken(j) ==
  /\ settling[j] = "token"
  /\ Detach(RangeOf(j), j)
  /\ settling' = [settling EXCEPT ![j] = "finish"]
  /\ UNCHANGED <<options, phase, abandoned, sealed, signal, batch, ledger, rec, window, owed, act,
                 doomed>>

\* finish_record: while the submitter attaches the job, its result is left to
\* the publication of the portion; else the registrations go.
FinishRecord(j) ==
  /\ settling[j] = "finish"
  /\ IF rec[j].attaching
       THEN /\ rec' = [rec EXCEPT ![j].deferred = TRUE]
            /\ settling' = [settling EXCEPT ![j] = "none"]
            /\ UNCHANGED stored
       ELSE /\ rec' = [rec EXCEPT ![j].subs = {}]
            /\ settling' = [settling EXCEPT ![j] = "finalize"]
            /\ stored' = stored \ ({j} \X rec[j].subs)
  /\ UNCHANGED <<options, phase, abandoned, sealed, signal, batch, ledger, window, range, owed, act,
                 doomed>>

\* finalize_record: the record goes and everything charged for it is returned.
FinalizeRecord(j) ==
  /\ settling[j] = "finalize"
  /\ rec' = [rec EXCEPT ![j] = [NoRecord EXCEPT !.stage = "Gone"]]
  /\ ledger' = [Refund(1) EXCEPT !.slots = @ - 1, !.members = @ - 1]
  /\ settling' = [settling EXCEPT ![j] = "dispatch"]
  /\ UNCHANGED <<options, phase, abandoned, sealed, signal, batch, window, range, stored, owed, act,
                 doomed>>

DispatchFinal(j) ==
  /\ settling[j] = "dispatch"
  /\ SetClass(Dispatched)
  /\ settling' = [settling EXCEPT ![j] = "none"]
  /\ UNCHANGED <<options, phase, abandoned, sealed, signal, batch, ledger, range, stored,
                 owed, act>>

\* claim_and_run.
Claim(j) ==
  /\ rec[j].stage = "Ready"
  /\ ~abandoned
  /\ SetClass(Promoted([Class EXCEPT !.rec[j].stage = "Running", !.window.runnable = @ - 1]))
  /\ UNCHANGED <<options, phase, abandoned, sealed, signal, batch, ledger, range, stored, owed, act,
                 settling>>

EndBody(j) ==
  /\ rec[j].stage = "Running"
  /\ rec' = [rec EXCEPT ![j].stage = "Finalizing"]
  /\ settling' = [settling EXCEPT ![j] = "finish"]
  /\ UNCHANGED <<options, phase, abandoned, sealed, signal, batch, ledger, window, range, stored,
                 owed, act, doomed>>

-----------------------------------------------------------------------------
(* The surroundings.                                                       *)

Live(j) == rec[j].stage \in {"Waiting", "Deferred", "Ready", "Running", "Finalizing"}

Seal ==
  /\ ~sealed
  /\ sealed' = TRUE
  /\ UNCHANGED <<options, phase, abandoned, signal, batch, ledger, rec, window, range, stored,
                 owed, act, doomed, settling>>

Close ==
  /\ phase = "Running"
  /\ phase' = "Closed"
  /\ UNCHANGED <<options, abandoned, sealed, signal, batch, ledger, rec, window, range, stored,
                 owed, act, doomed, settling>>

\* abandon: the cut and the snapshot of the records are one critical section.
Abandon ==
  /\ phase = "Closed"
  /\ ~abandoned
  /\ abandoned' = TRUE
  /\ doomed' = doomed \cup {j \in Jobs : Live(j)}
  /\ UNCHANGED <<options, phase, sealed, signal, batch, ledger, rec, window, range, stored, owed,
                 act, settling>>

\* The receipts, which can cancel, reach the caller when the call returns.
Cancel(j) ==
  /\ At("done")
  /\ rec[j].stage \in {"Waiting", "Deferred", "Ready"}
  /\ doomed' = doomed \cup {j}
  /\ UNCHANGED <<options, phase, abandoned, sealed, signal, batch, ledger, rec, window, range,
                 stored, owed, act, settling>>

-----------------------------------------------------------------------------
Submission ==
  \/ Enter \/ Admit \/ Charge \/ Commit \/ Recover \/ Register \/ Token \/ SubscribeRange
  \/ Install \/ DropUnused \/ Subscribe \/ PublishPortion \/ DispatchPortion

Activation(t) ==
  \/ Deliver(t) \/ TakeMembers(t) \/ ActivateRange(t) \/ DetachNext(t) \/ ActivateOne(t)
  \/ ActivateReady(t) \/ DispatchActivation(t) \/ Return(t)

Settlement(j) ==
  \/ Suppress(j) \/ DropToken(j) \/ FinishRecord(j) \/ FinalizeRecord(j) \/ DispatchFinal(j)

Next ==
  \/ Submission
  \/ \E s \in Signals : Call(s) \/ \E status \in {"Succeeded", "Failed"} : Complete(s, status)
  \/ \E t \in Threads : Activation(t)
  \/ \E j \in Jobs : Settlement(j) \/ Claim(j) \/ EndBody(j) \/ Cancel(j)
  \/ Seal \/ Close \/ Abandon

Spec == Init /\ [][Next]_vars

-----------------------------------------------------------------------------
(* Properties.                                                             *)

\* Every account is exact at every step: records, edges, admissions, slots and
\* group members are charged for exactly the jobs prepared or alive, places
\* held for members being attached and taken by ready ones never exceed the
\* limit, and no operation is lost, doubled or put out of order between the
\* input and the receipts (Recover, Published, FinalizeRecord).
Prepared == ToSet(batch.prepared)
Accepted == ToSet(batch.accepted)
Alive == {j \in Jobs : Live(j)}

BooksExact ==
  /\ ledger.records = Cardinality(Prepared \cup Alive)
  /\ ledger.edges = ledger.records * Fanin
  /\ ledger.admissions = ledger.records + (IF At("charge") THEN Maximum ELSE 0)
  /\ ledger.members = Cardinality(Alive)
  /\ ledger.slots = Cardinality({j \in Jobs : rec[j].member}) + batch.reserve
  /\ window.runnable = Cardinality({j \in Jobs : rec[j].stage = "Ready"})
  /\ window.attaching = Cardinality({j \in Alive : rec[j].reserved})
  /\ ToSet(window.deferred) = {j \in Jobs : rec[j].stage = "Deferred"}
  /\ window.runnable + window.attaching <= RunnableLimit
  /\ batch.accepted \o batch.prepared \o batch.remaining = [i \in Jobs |-> i]

\* A range counts exactly the tokens that somebody still holds, and a
\* registration stays in the signal's list only while its delivery is of use
\* to somebody: delivery, detachment and installation may come in any order.
TokenHolders(r) ==
  {j \in range[r].jobs : rec[j].token \/ settling[j] = "token"}
    \cup (IF At("tokens") THEN batch.todo \cap range[r].jobs ELSE {})
    \cup UNION {act[t].jobs : t \in {u \in Threads : Doing(u, "detach") /\ act[u].id = r}}

RangeExact ==
  \A r \in {i \in Jobs : range[i] # NoRange} :
    /\ range[r].active = Cardinality(TokenHolders(r))
    /\ range[r].handle => ~range[r].delivered /\ range[r].active > 0
    /\ <<r, Only>> \in stored => range[r].installing \/ range[r].handle \/ At("unused")

\* No member is forgotten: whoever waits is being attached, or every delivery
\* it still waits for is on its way exactly once, or somebody is about to
\* decide about it; a settlement held back has a publication coming, and the
\* record outlives the attachment, which the code asserts; and nobody is left
\* in the backlog when there is room.
Coming(j) ==
  IF InRange(j)
    THEN LET r == RangeOf(j)
         IN  {<<t>> : t \in {u \in Threads :
                               \/ Doing(u, "deliver") /\ act[u].id = r /\ ~range[r].delivered
                               \/ Doing(u, "take") /\ act[u].id = r /\ j \in range[r].members
                               \/ Doing(u, "activate") /\ j \in act[u].jobs}}
             \cup {c \in stored \cup owed : c[1] = r /\ j \in range[r].members}
    ELSE {<<t>> : t \in {u \in Threads : Doing(u, "single") /\ act[u].id = j}}
         \cup {c \in stored \cup owed : c[1] = j}

Dispatching ==
  \/ At("dispatch")
  \/ \E t \in Threads : act[t].step \in {"ready", "detach", "dispatch"}
  \/ \E j \in Jobs : settling[j] = "dispatch"

NoneForgotten ==
  /\ \A j \in Jobs :
       /\ rec[j].stage = "Waiting" /\ ~rec[j].attaching =>
            \/ j \in doomed
            \/ rec[j].pending > 0 /\ Cardinality(Coming(j)) = rec[j].pending
            \/ rec[j].pending = 0 /\ \E t \in Threads : Doing(t, "ready") /\ act[t].id = j
       /\ rec[j].stage \in {"Waiting", "Finalizing"} /\ rec[j].attaching => j \in Portion
       /\ rec[j].stage = "Finalizing" => rec[j].deferred \/ settling[j] # "none"
       /\ j \in Portion /\ ~At("dispatch") => Live(j)
  /\ window.deferred # <<>> /\ HasRoom(window) /\ ~abandoned => Dispatching

=============================================================================
