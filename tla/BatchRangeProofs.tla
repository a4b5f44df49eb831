-------------------------- MODULE BatchRangeProofs --------------------------
(***************************************************************************)
(* Proofs about the shared prerequisite ranges of BatchPortion, and about  *)
(* the deliveries its waiting members wait for, on top of the books of     *)
(* BatchPortionProofs, for any number of operations, any limits and any    *)
(* finite set of completions.                                              *)
(*                                                                         *)
(* RangeInv is the inductive invariant of the ranges.  Ranges do not       *)
(* overlap and the one of the portion in hand covers it (RangeShape); who  *)
(* is registered with a prerequisite, or is delivering one, may be         *)
(* (Registered); a token is held by one of a record, a settlement, the     *)
(* submitter that gives it out and the thread that delivered (Tokened);    *)
(* and the range counts those holders and keeps its registration while     *)
(* there are any (RangeCounted).                                           *)
(*                                                                         *)
(* ForgetInv is the inductive invariant of who waits.  A range is called   *)
(* once (Once), for members that still hold their token (Interested), and  *)
(* its delivery is on its way to each of them (Underway); a single member  *)
(* waits for as much as is due, listed or being delivered to it (Awaited); *)
(* who waits for nothing is being decided about (Decided), and room before *)
(* a backlog is about to be filled (Backlogged).                           *)
(*                                                                         *)
(* StartInv says what a start rests on: how each prerequisite ended is in  *)
(* the record of a member that waits, or on its way to it (Heard); who is  *)
(* about to reach a range was told the outcome (Told); so nobody starts    *)
(* before its prerequisites are over (StartsSettled).                      *)
(***************************************************************************)
EXTENDS BatchPortionProofs

-----------------------------------------------------------------------------
(* The invariant of the shared registrations *)

\* Places in which the members of the portion have no registration yet, in
\* which their range has not kept its own yet, and of the three steps of a delivery.
Fresh == Early \cup {"tokens", "range"}
Unkept == {"tokens", "range", "install"}
Carrying == {"take", "activate", "detach"}

\* A job that may be registered with a prerequisite.
Late(j) == j \in Accepted /\ (j \in Portion => batch.pc \notin Fresh)

\* Ranges do not share jobs.  The one of the portion in hand covers it, and is
\* being installed as long as the submitter does so.
RangeShape ==
  /\ \A r \in Jobs : range[r].jobs = {} => range[r] = NoRange
  /\ \A r \in Jobs : range[r].jobs # {} => r \in range[r].jobs /\ range[r].jobs \subseteq Accepted
  /\ \A r \in Jobs : range[r].members \subseteq range[r].jobs
  /\ \A r, q \in Jobs : range[r].jobs \cap range[q].jobs # {} => r = q
  /\ \A r \in Jobs : range[r].jobs \cap Portion # {} =>
       /\ range[r].jobs = Portion /\ r = Head(batch.portion)
       /\ batch.pc \notin Early \cup {"subscribe"}
  /\ \A r \in Jobs : range[r].installing <=> batch.pc \in Unkept /\ r = Head(batch.portion)

\* Registrations and deliveries are of jobs that may have them; a range is
\* delivered by one thread.
ThreadOK(t) ==
  /\ act[t].step # "idle" => Late(act[t].id)
  /\ act[t].step = "deliver" => range[act[t].id].jobs # {} /\ act[t].jobs = {}
  /\ act[t].step = "single" => ~InRange(act[t].id)
  /\ act[t].step \in Carrying =>
       range[act[t].id].delivered /\ act[t].jobs \subseteq range[act[t].id].jobs

Registered ==
  /\ \A c \in stored \cup owed : Late(c[1]) /\ (InRange(c[1]) => range[c[1]].jobs # {})
  /\ \A r \in Jobs : range[r].delivered => Late(r)
  /\ \A t \in Threads : ThreadOK(t)
  /\ \A t, u \in Threads :
       act[t].step \in Carrying /\ act[u].step \in Carrying /\ act[t].id = act[u].id => t = u

InDetach(j) == \E t \in Threads : act[t].step = "detach" /\ j \in act[t].jobs

\* Who holds a token: the record, a settlement, the submitter that is giving
\* them out, or the thread that delivered, and only one of them.
Tokened ==
  /\ \A j \in Jobs : rec[j].token => rec[j].stage = "Waiting" /\ rec[j].pending > 0 /\ InRange(j)
  /\ \A j \in Jobs : settling[j] = "token" => InRange(j)
  /\ At("tokens") => \A j \in batch.todo : ~rec[j].token /\ settling[j] # "token"
  /\ \A j \in Jobs : InDetach(j) => ~rec[j].token /\ settling[j] # "token"
  /\ \A j \in Jobs : ~Late(j) /\ rec[j].stage = "Waiting" => rec[j].pending = Fanin

Holding(j) ==
  rec[j].token \/ settling[j] = "token" \/ (At("tokens") /\ j \in batch.todo) \/ InDetach(j)
Held(r) == {j \in range[r].jobs : Holding(j)}

\* The count of a range, and what keeps its registration.
Retained(r) ==
  /\ range[r].handle => ~range[r].delivered /\ range[r].active > 0
  /\ range[r].jobs # {} /\ <<r, Only>> \in stored =>
       range[r].installing \/ range[r].handle \/ (At("unused") /\ r = Head(batch.portion))
RangeCounted ==
  \A r \in Jobs : range[r].active = Cardinality(Held(r)) /\ Retained(r)

RangeInv == RangeShape /\ Registered /\ Tokened /\ RangeCounted

-----------------------------------------------------------------------------
(* The places of the batch, step by step *)

\* From where to where the submitter's steps go.
LEMMA PcSteps ==
  ASSUME TypeOK
  PROVE  /\ Enter \/ Admit => batch.pc \in Before /\ batch'.pc \in Before
         /\ Charge => batch.pc = "charge" /\ batch'.pc \in Before \cup {"commit"}
         /\ Commit => batch.pc = "commit" /\ batch'.pc = "recover"
         /\ Recover => batch.pc = "recover" /\ batch'.pc \in {"register", "done"}
         /\ Register => batch.pc = "register" /\ batch'.pc \in {"tokens", "subscribe"}
         /\ Token => batch.pc = "tokens" /\ batch'.pc \in {"tokens", "range"}
         /\ SubscribeRange => batch.pc = "range" /\ batch'.pc = "install"
         /\ Install => batch.pc = "install" /\ batch'.pc \in {"unused", "publish"}
         /\ DropUnused => batch.pc = "unused" /\ batch'.pc = "publish"
         /\ Subscribe => batch.pc = "subscribe" /\ batch'.pc \in {"subscribe", "publish"}
         /\ PublishPortion => batch.pc = "publish" /\ batch'.pc = "dispatch"
         /\ DispatchPortion => batch.pc = "dispatch" /\ batch'.pc = "next"
<1>1. batch = [pc |-> batch.pc, remaining |-> batch.remaining, prepared |-> batch.prepared,
               accepted |-> batch.accepted, portion |-> batch.portion, todo |-> batch.todo,
               reserve |-> batch.reserve, failure |-> batch.failure]
  BY DEF TypeOK, Batch
<1>2. \A pc, f : (Go(pc) => batch'.pc = pc) /\ (Refuse(f) => batch'.pc = "done")
  BY <1>1 DEF Go, Refuse
<1>3. /\ Enter \/ Admit => batch.pc \in Before /\ batch'.pc \in Before
      /\ SubscribeRange => batch.pc = "range" /\ batch'.pc = "install"
      /\ Install => batch.pc = "install" /\ batch'.pc \in {"unused", "publish"}
      /\ DropUnused => batch.pc = "unused" /\ batch'.pc = "publish"
      /\ PublishPortion => batch.pc = "publish" /\ batch'.pc = "dispatch"
  BY <1>2 DEF Enter, Admit, SubscribeRange, Install, DropUnused, PublishPortion, At, Before
<1>4. Charge => batch.pc = "charge" /\ batch'.pc \in Before \cup {"commit"}
  BY <1>1, <1>2 DEF Charge, At, Before
<1>5. /\ Commit => batch.pc = "commit" /\ batch'.pc = "recover"
      /\ Recover => batch.pc = "recover" /\ batch'.pc \in {"register", "done"}
  BY <1>1 DEF Commit, Recover, At
<1>6. /\ Register => batch.pc = "register" /\ batch'.pc \in {"tokens", "subscribe"}
      /\ Token => batch.pc = "tokens" /\ batch'.pc \in {"tokens", "range"}
      /\ DispatchPortion => batch.pc = "dispatch" /\ batch'.pc = "next"
  BY <1>1 DEF Register, Token, DispatchPortion, At
<1>7. Subscribe => batch.pc = "subscribe" /\ batch'.pc \in {"subscribe", "publish"}
  BY <1>1, <1>2 DEF Subscribe, At
<1> QED
  BY <1>3, <1>4, <1>5, <1>6, <1>7

\* What a step that registers nobody leaves of the places of accepted jobs.
Onward ==
  /\ Accepted \subseteq Accepted'
  /\ \A j \in Accepted : j \in Portion' =>
       /\ j \in Portion /\ batch'.portion = batch.portion
       /\ batch'.pc \in Early \cup {"subscribe"} => batch.pc \in Early \cup {"subscribe"}
       /\ batch'.pc \in Fresh => batch.pc \in Fresh
  /\ batch'.pc \in Unkept => batch.pc \in Unkept /\ batch'.portion = batch.portion
  /\ ~Install /\ batch.pc \in Unkept => batch'.pc \in Unkept /\ batch'.portion = batch.portion

\* Every other step of the batch goes from such a place to such a place.
LEMMA OnwardStep ==
  ASSUME BookInv, [Next]_vars, ~Register
  PROVE  Onward
<1>0. TypeOK /\ Ordered /\ Phased
  BY DEF BookInv
<1>1. ASSUME batch'.portion = batch.portion, Accepted \subseteq Accepted',
             batch'.pc \in Early \cup {"subscribe"} => batch.pc \in Early \cup {"subscribe"} \/ Portion = {},
             batch'.pc \in Fresh => batch.pc \in Fresh \/ Portion = {},
             batch'.pc \in Unkept => batch.pc \in Unkept,
             Install \/ (batch.pc \in Unkept => batch'.pc \in Unkept)
      PROVE  Onward
  BY <1>1 DEF Onward, Portion
<1>2. ASSUME batch.pc \in Before PROVE Portion = {}
  <2>1. Len(batch.portion) = 0 /\ batch.portion \in Seq(Jobs)
    BY <1>0, <1>2, BatchFields DEF Phased
  <2> QED
    BY <2>1, Elements DEF Portion
<1>3. CASE Outside
  BY <1>1, <1>3, OutsideSteps DEF Accepted
<1>4. CASE Enter \/ Admit \/ Token \/ SubscribeRange \/ Install \/ DropUnused \/ Subscribe \/ PublishPortion
  <2>1. batch'.portion = batch.portion /\ Accepted' = Accepted
    BY <1>0, <1>4, SubmissionSteps DEF SameOrder, Accepted
  <2>2. Enter \/ Admit => batch.pc \in Before /\ batch'.pc \in Before
    BY <1>0, PcSteps
  <2>3. ~(Enter \/ Admit) => batch'.pc \notin Early \cup {"subscribe"} \/ batch.pc = "subscribe"
    BY <1>0, <1>4, PcSteps DEF Early
  <2>4. ~(Enter \/ Admit) => (batch'.pc \in Fresh => batch.pc \in Fresh)
    BY <1>0, <1>4, PcSteps DEF Early, Fresh
  <2>5. ~(Enter \/ Admit) => (batch'.pc \in Unkept => batch.pc \in Unkept)
                             /\ (Install \/ (batch.pc \in Unkept => batch'.pc \in Unkept))
    BY <1>0, <1>4, PcSteps DEF Unkept
  <2>6. batch'.pc \in Before => batch'.pc \notin Early \cup {"subscribe"} /\ batch'.pc \notin Fresh
                                /\ batch'.pc \notin Unkept
    BY DEF Before, Early, Fresh, Unkept
  <2>7. batch.pc \in Before => batch.pc \notin Unkept
    BY DEF Before, Unkept
  <2> QED
    BY <1>1, <2>1, <2>2, <2>3, <2>4, <2>5, <2>6, <2>7
<1>5. CASE Charge
  <2>1. batch.pc \in Before /\ batch.pc \notin Unkept /\ batch'.pc \notin Unkept \cup Fresh
        /\ batch'.pc \notin Early \cup {"subscribe"}
    BY <1>0, <1>5, PcSteps DEF Before, Early, Fresh, Unkept
  <2>2. batch'.portion = batch.portion /\ batch'.accepted = batch.accepted
    BY <1>0, <1>5 DEF Charge, Refuse, TypeOK, Batch
  <2> QED
    BY <1>1, <2>1, <2>2 DEF Accepted
<1>6. CASE Commit
  <2> DEFINE a == Len(batch.accepted)
             n == IF CommitFailure = "None" THEN Selected ELSE 0
  <2>1. /\ a \in Nat /\ n \in Nat
        /\ batch' = [batch EXCEPT !.pc = "recover", !.failure = CommitFailure,
                                  !.prepared = From(a + n, Len(batch.prepared) - n), !.portion = From(a, n),
                                  !.accepted = From(0, a + n)]
    BY <1>6, CommitEffect
  <2> HIDE DEF a, n
  <2>2. batch'.portion = From(a, n) /\ batch'.accepted = From(0, a + n)
    BY <1>0, <2>1 DEF TypeOK, Batch
  <2>3. Portion' = a + 1 .. a + n
    BY <2>1, <2>2, FromElements DEF Portion
  <2>4. Accepted' = 0 + 1 .. 0 + (a + n)
    <3>1. 0 \in Nat /\ a + n \in Nat
      BY <2>1
    <3>2. ToSet(From(0, a + n)) = 0 + 1 .. 0 + (a + n)
      BY <3>1, FromElements
    <3> QED
      BY <2>2, <3>2 DEF Accepted
  <2>5. Accepted = 1 .. a
    BY <1>0, Stretches DEF a
  <2>6. Accepted \subseteq Accepted' /\ \A j \in Accepted : j \notin Portion'
    BY <2>1, <2>3, <2>4, <2>5
  <2>7. batch.pc \notin Unkept /\ batch'.pc \notin Unkept
    BY <1>0, <1>6, PcSteps DEF Unkept
  <2> QED
    BY <2>6, <2>7 DEF Onward
<1>7. CASE Recover
  <2>1. /\ batch'.portion = batch.portion /\ batch'.accepted = batch.accepted
        /\ batch.pc \in Early /\ batch.pc \in Fresh /\ batch.pc \notin Unkept /\ batch'.pc \notin Unkept
    BY <1>0, <1>7, PcSteps DEF Recover, TypeOK, Batch, Early, Fresh, Unkept
  <2> QED
    BY <1>1, <2>1 DEF Accepted
<1>8. CASE DispatchPortion
  <2>1. /\ batch'.portion = <<>> /\ batch'.accepted = batch.accepted
        /\ batch.pc \notin Unkept /\ batch'.pc \notin Unkept
    BY <1>0, <1>8, PcSteps DEF DispatchPortion, TypeOK, Batch, Unkept
  <2>2. Portion' = {}
    BY <2>1, EmptyElements DEF Portion
  <2> QED
    BY <2>1, <2>2 DEF Onward, Accepted
<1> QED
  BY <1>3, <1>4, <1>5, <1>6, <1>7, <1>8, OutsideSteps DEF Submission

\* Who may be registered still may.
LEMMA LateStep ==
  ASSUME BookInv, [Next]_vars
  PROVE  \A j : Late(j) => Late(j)'
<1>1. CASE ~Register
  BY <1>1, OnwardStep DEF Onward, Late
<1>2. CASE Register
  <2>1. TypeOK
    BY DEF BookInv
  <2>2. batch.pc \in Fresh /\ Accepted' = Accepted /\ Portion' = Portion
    BY <1>2, <2>1, SubmissionSteps, PcSteps DEF SameOrder, Fresh, Early, Accepted, Portion
  <2> QED
    BY <2>2 DEF Late
<1> QED
  BY <1>1, <1>2

-----------------------------------------------------------------------------
(* The shape of the ranges *)

\* The range of a job that is in one.
LEMMA RangeOfIs ==
  /\ \A j : InRange(j) => RangeOf(j) \in Jobs /\ j \in range[RangeOf(j)].jobs
  /\ RangeShape => \A j : \A r \in Jobs : j \in range[r].jobs => InRange(j) /\ RangeOf(j) = r
<1>1. ASSUME NEW j, InRange(j) PROVE RangeOf(j) \in Jobs /\ j \in range[RangeOf(j)].jobs
  <2> DEFINE P(r) == r \in Jobs /\ j \in range[r].jobs
  <2>1. \E r : P(r)
    BY <1>1 DEF InRange
  <2>2. RangeOf(j) = CHOOSE r : P(r)
    BY DEF RangeOf
  <2> HIDE DEF P
  <2>3. P(RangeOf(j))
    BY <2>1, <2>2
  <2> QED
    BY <2>3 DEF P
<1>2. ASSUME RangeShape, NEW j, NEW r \in Jobs, j \in range[r].jobs PROVE InRange(j) /\ RangeOf(j) = r
  <2>1. InRange(j)
    BY <1>2 DEF InRange
  <2> QED
    BY <1>1, <1>2, <2>1 DEF RangeShape
<1> QED
  BY <1>1, <1>2

\* What is written of one range: all others stay, and it keeps its jobs.
OneRange(r) ==
  /\ range[r].jobs # {} /\ range'[r].jobs = range[r].jobs
  /\ \A q \in Jobs \ {r} : range'[q] = range[q]

\* A token dropped, the last one with the registration.
LEMMA DetachForm ==
  ASSUME TypeOK, NEW r \in Jobs, NEW j, Detach(r, j), range[r].jobs # {}
  PROVE  /\ OneRange(r)
         /\ range'[r].installing = range[r].installing /\ range'[r].delivered = range[r].delivered
         /\ range'[r].active = range[r].active - 1 /\ range'[r].members = range[r].members \ {j}
         /\ range'[r].handle <=> range[r].handle /\ range[r].active > 1
         /\ stored' \subseteq stored
         /\ range[r].handle /\ range[r].active = 1 => stored' = stored \ {<<r, Only>>}
         /\ ~(range[r].handle /\ range[r].active = 1) => stored' = stored
<1> DEFINE x == Detached(r, j)
<1>1. range \in [Jobs -> Registration] /\ range[r] \in Registration
  BY DEF TypeOK
<1>2. range' = [range EXCEPT ![r] = x]
  BY DEF Detach
<1>3. /\ x.jobs = range[r].jobs /\ x.installing = range[r].installing
      /\ x.delivered = range[r].delivered /\ x.active = range[r].active - 1
      /\ x.members = range[r].members \ {j} /\ (x.handle <=> range[r].handle /\ range[r].active > 1)
  BY <1>1 DEF Detached, Registration
<1> HIDE DEF x
<1>4. range'[r] = x /\ \A q \in Jobs \ {r} : range'[q] = range[q]
  BY <1>1, <1>2
<1>5. /\ stored' \subseteq stored
      /\ range[r].handle /\ range[r].active = 1 => stored' = stored \ {<<r, Only>>}
      /\ ~(range[r].handle /\ range[r].active = 1) => stored' = stored
  BY DEF Detach
<1> QED
  BY <1>3, <1>4, <1>5 DEF OneRange

\* The first delivery.
LEMMA DeliverForm ==
  ASSUME TypeOK, NEW t \in Threads, Deliver(t), range[act[t].id].jobs # {}, ~range[act[t].id].delivered
  PROVE  LET r == act[t].id
         IN  /\ r \in Jobs /\ OneRange(r) /\ range'[r].installing = range[r].installing
             /\ range'[r].delivered = TRUE /\ range'[r].handle = FALSE
             /\ range'[r].active = range[r].active /\ range'[r].members = range[r].members
             /\ stored' \subseteq stored /\ (~range[r].handle => stored' = stored)
             /\ range[r].handle => stored' = stored \ {<<r, Only>>}
<1> DEFINE r == act[t].id
           x == [[range[r] EXCEPT !.delivered = TRUE] EXCEPT !.handle = FALSE]
<1>1. range \in [Jobs -> Registration] /\ r \in Jobs
  BY ActFields DEF TypeOK, Deliver, Doing
<1>2. /\ range' = [range EXCEPT ![r].delivered = TRUE, ![r].handle = FALSE]
      /\ stored' = IF range[r].handle THEN stored \ {<<r, Only>>} ELSE stored
  BY DEF Deliver
<1> HIDE DEF r
<1>3. range' = [range EXCEPT ![r] = x] /\ range[r] \in Registration
  BY <1>1, <1>2
<1>4. /\ x.jobs = range[r].jobs /\ x.installing = range[r].installing /\ x.delivered = TRUE
      /\ x.handle = FALSE /\ x.active = range[r].active /\ x.members = range[r].members
  BY <1>3 DEF Registration
<1> HIDE DEF x
<1>5. range'[r] = x /\ \A q \in Jobs \ {r} : range'[q] = range[q]
  BY <1>1, <1>3
<1> QED
  BY <1>1, <1>2, <1>4, <1>5 DEF OneRange, r

\* The snapshot of the members.
LEMMA TakeForm ==
  ASSUME TypeOK, NEW t \in Threads, TakeMembers(t), range[act[t].id].jobs # {}
  PROVE  LET r == act[t].id
         IN  /\ r \in Jobs /\ OneRange(r) /\ range'[r].installing = range[r].installing
             /\ range'[r].delivered = range[r].delivered /\ range'[r].handle = range[r].handle
             /\ range'[r].active = range[r].active /\ range'[r].members = {}
<1> DEFINE r == act[t].id
           x == [range[r] EXCEPT !.members = {}]
<1>1. range \in [Jobs -> Registration] /\ r \in Jobs
  BY ActFields DEF TypeOK, TakeMembers, Doing
<1>2. range' = [range EXCEPT ![r].members = {}]
  BY DEF TakeMembers
<1> HIDE DEF r
<1>3. range' = [range EXCEPT ![r] = x] /\ range[r] \in Registration
  BY <1>1, <1>2
<1>4. /\ x.jobs = range[r].jobs /\ x.installing = range[r].installing
      /\ x.delivered = range[r].delivered /\ x.handle = range[r].handle
      /\ x.active = range[r].active /\ x.members = {}
  BY <1>3 DEF Registration
<1> HIDE DEF x
<1>5. range'[r] = x /\ \A q \in Jobs \ {r} : range'[q] = range[q]
  BY <1>1, <1>3
<1> QED
  BY <1>1, <1>4, <1>5 DEF OneRange, r

\* The range of the portion in hand is filed under its first member.
LEMMA CurrentRange ==
  ASSUME TypeOK, Ordered, Phased, Ranged, RangeShape, batch.pc \in Ranging
  PROVE  LET r == Head(batch.portion)
         IN  r \in Jobs /\ RangeOf(r) = r /\ range[r].jobs = Portion /\ Portion # {} /\ r \in Portion
<1> DEFINE r == Head(batch.portion)
<1>1. batch.pc \in Attaching \cup {"register"}
  BY DEF Ranging, Attaching
<1>2. r \in Jobs /\ r \in Portion /\ Portion # {}
  BY <1>1, HeadIn
<1>3. range[r].jobs = Portion
  BY DEF Ranged
<1> HIDE DEF r
<1>4. RangeOf(r) = r
  BY <1>2, <1>3, RangeOfIs
<1> QED
  BY <1>2, <1>3, <1>4 DEF r

\* The registration is kept or not.
LEMMA InstallForm ==
  ASSUME BookInv, RangeShape, Install
  PROVE  LET r == Head(batch.portion)
             unused == range[r].delivered \/ range[r].active = 0
         IN  /\ r \in Jobs /\ OneRange(r) /\ range[r].jobs = Portion /\ range'[r].installing = FALSE
             /\ range'[r].handle = ~unused /\ range'[r].delivered = range[r].delivered
             /\ range'[r].active = range[r].active /\ range'[r].members = range[r].members
             /\ batch'.pc = IF unused THEN "unused" ELSE "publish"
             /\ UNCHANGED <<stored, owed, act, rec, settling>>
<1> DEFINE r == Head(batch.portion)
           unused == range[r].delivered \/ range[r].active = 0
           x == [[range[r] EXCEPT !.installing = FALSE] EXCEPT !.handle = ~unused]
<1>0. TypeOK /\ Ordered /\ Phased /\ Ranged /\ batch.pc \in Ranging /\ batch \in Batch
  BY DEF BookInv, TypeOK, Install, At, Ranging
<1>1. range \in [Jobs -> Registration] /\ r \in Jobs /\ RangeOf(r) = r /\ range[r].jobs = Portion
      /\ Portion # {}
  BY <1>0, CurrentRange DEF TypeOK
<1>2. /\ range' = [range EXCEPT ![r].installing = FALSE, ![r].handle = ~unused]
      /\ Go(IF unused THEN "unused" ELSE "publish") /\ UNCHANGED <<stored, owed, act, rec, settling>>
  BY <1>1 DEF Install
<1>6. batch'.pc = IF unused THEN "unused" ELSE "publish"
  BY <1>0, <1>2 DEF Go, Batch
<1> HIDE DEF r
<1>3. range' = [range EXCEPT ![r] = x] /\ range[r] \in Registration
  BY <1>1, <1>2
<1>4. /\ x.jobs = range[r].jobs /\ x.installing = FALSE
      /\ x.delivered = range[r].delivered /\ x.handle = ~unused
      /\ x.active = range[r].active /\ x.members = range[r].members
  BY <1>3 DEF Registration
<1> HIDE DEF x
<1>5. range'[r] = x /\ \A q \in Jobs \ {r} : range'[q] = range[q]
  BY <1>1, <1>3
<1> QED
  BY <1>1, <1>2, <1>4, <1>5, <1>6 DEF OneRange, r

\* A token of a range there is, dropped.
Detaching(r, j) == r \in Jobs /\ range[r].jobs # {} /\ Detach(r, j)

\* The submitter gives a member its token, or drops it.
LEMMA TokenForm ==
  ASSUME BookInv, RangeShape, Token
  PROVE  LET j == Least(batch.todo)
             r == Head(batch.portion)
         IN  /\ j \in batch.todo /\ j \in Portion /\ j \in Jobs /\ r \in Jobs /\ range[r].jobs = Portion
             /\ batch'.todo = batch.todo \ {j}
             /\ batch'.pc = IF batch.todo = {j} THEN "range" ELSE "tokens"
             /\ rec[j].stage = "Finalizing" => Detaching(r, j) /\ UNCHANGED rec
             /\ rec[j].stage # "Finalizing" =>
                  rec' = [rec EXCEPT ![j].token = TRUE] /\ UNCHANGED <<range, stored>>
             /\ UNCHANGED <<owed, act, settling>>
<1> DEFINE j == Least(batch.todo)
           r == Head(batch.portion)
<1>0. TypeOK /\ Ordered /\ Phased /\ Ranged /\ batch.pc \in Ranging /\ batch \in Batch
  BY DEF BookInv, TypeOK, Token, At, Ranging
<1>1. r \in Jobs /\ range[r].jobs = Portion /\ Portion # {}
  BY <1>0, CurrentRange
<1>2. batch.todo \subseteq Portion /\ batch.todo # {} /\ Portion \subseteq Jobs
  BY <1>0, Disjoint DEF Ranged, Token
<1>3. j \in batch.todo /\ j \in Portion /\ j \in Jobs
  BY <1>2, LeastIn
<1>4. /\ batch' = [batch EXCEPT !.todo = @ \ {j}, !.pc = IF batch.todo = {j} THEN "range" ELSE "tokens"]
      /\ rec[j].stage = "Finalizing" => Detach(RangeOf(j), j) /\ UNCHANGED rec
      /\ rec[j].stage # "Finalizing" =>
           rec' = [rec EXCEPT ![j].token = TRUE] /\ UNCHANGED <<range, stored>>
      /\ UNCHANGED <<owed, act, settling>>
  BY DEF Token
<1> HIDE DEF j, r
<1>5. RangeOf(j) = r
  BY <1>1, <1>3, RangeOfIs
<1>6. batch'.todo = batch.todo \ {j} /\ batch'.pc = IF batch.todo = {j} THEN "range" ELSE "tokens"
  BY <1>0, <1>4 DEF Batch
<1> QED
  BY <1>1, <1>3, <1>4, <1>5, <1>6 DEF Detaching, j, r

\* A new range, or none.
LEMMA RegisterForm ==
  ASSUME BookInv, RangeShape, Register
  PROVE  LET r == Head(batch.portion)
         IN  /\ r \in Jobs /\ r \in Portion /\ Portion \subseteq Jobs /\ range[r] = NoRange
             /\ Portion \subseteq Accepted /\ batch.pc = "register"
             /\ SameOrder /\ Accepted' = Accepted /\ Portion' = Portion
             /\ UNCHANGED <<stored, owed, act, settling>>
             /\ \/ /\ batch'.pc = "tokens" /\ batch'.todo = Portion
                   /\ range'[r].jobs = Portion /\ range'[r].members = Portion
                   /\ range'[r].active = Len(batch.portion)
                   /\ range'[r].delivered = FALSE /\ range'[r].installing = TRUE
                   /\ range'[r].handle = FALSE
                   /\ \A q \in Jobs \ {r} : range'[q] = range[q]
                \/ batch'.pc = "subscribe" /\ range' = range
<1> DEFINE r == Head(batch.portion)
           x == [jobs |-> Portion, members |-> Portion, active |-> Len(batch.portion),
                 delivered |-> FALSE, installing |-> TRUE, handle |-> FALSE]
           ranged == batch.reserve >= 2 /\ Fanin = 1
<1>0. TypeOK /\ Ordered /\ Phased /\ Ranged /\ batch.pc \in Attaching \cup {"register"} /\ batch \in Batch
      /\ batch.pc = "register" /\ range \in [Jobs -> Registration]
  BY DEF BookInv, TypeOK, Register, At
<1>1. r \in Jobs /\ r \in Portion /\ Portion \subseteq Accepted /\ Portion \subseteq Jobs
  BY <1>0, HeadIn, Disjoint
<1>2. SameOrder /\ Accepted' = Accepted /\ Portion' = Portion
  BY <1>0, SubmissionSteps DEF SameOrder, Accepted, Portion
<1>3. /\ batch' = [batch EXCEPT !.pc = IF ranged THEN "tokens" ELSE "subscribe", !.reserve = 0,
                                !.todo = IF ranged THEN Portion ELSE Portion \X Prereqs]
      /\ range' = IF ranged THEN [range EXCEPT ![r] = x] ELSE range
      /\ UNCHANGED <<stored, owed, act, settling>>
  BY DEF Register
<1>4. range[r] = NoRange
  <2>1. range[r].jobs # {} => r \in range[r].jobs
    BY <1>1 DEF RangeShape
  <2>2. range[r].jobs \cap Portion = {}
    BY <1>0, <1>1 DEF RangeShape, Early
  <2> QED
    BY <1>1, <2>1, <2>2 DEF RangeShape
<1> HIDE DEF r, ranged
<1>5. ranged => batch'.pc = "tokens" /\ batch'.todo = Portion
  BY <1>0, <1>3 DEF Batch
<1>6. ~ranged => batch'.pc = "subscribe" /\ range' = range
  BY <1>0, <1>3 DEF Batch
<1>7. /\ x.jobs = Portion /\ x.members = Portion /\ x.active = Len(batch.portion)
      /\ x.delivered = FALSE /\ x.installing = TRUE /\ x.handle = FALSE
  OBVIOUS
<1> HIDE DEF x
<1>8. ranged => range'[r] = x /\ \A q \in Jobs \ {r} : range'[q] = range[q]
  BY <1>0, <1>1, <1>3
<1> QED
  BY <1>0, <1>1, <1>2, <1>3, <1>4, <1>5, <1>6, <1>7, <1>8 DEF r

\* The ranges keep their jobs, and no range appears or is installed.
SameShape ==
  \A q \in Jobs : /\ range'[q].jobs = range[q].jobs /\ range'[q].installing = range[q].installing
                  /\ range'[q].members \subseteq range[q].members
                  /\ range[q].jobs = {} => range'[q] = range[q]

\* Who detaches, detaches from a range.
LEMMA DropForm ==
  ASSUME BookInv, RangeShape, Tokened, NEW j \in Jobs, DropToken(j)
  PROVE  /\ Detaching(RangeOf(j), j) /\ j \in range[RangeOf(j)].jobs
         /\ settling[j] = "token" /\ settling' = [settling EXCEPT ![j] = "finish"]
         /\ UNCHANGED <<batch, rec, owed, act>>
<1>1. InRange(j)
  BY DEF DropToken, Tokened
<1> QED
  BY <1>1, RangeOfIs DEF DropToken, Detaching

\* A thread that delivered drops the next of the tokens it took.
LEMMA DetachNextForm ==
  ASSUME BookInv, RangeShape, Registered, NEW t \in Threads, DetachNext(t), act[t].jobs # {}
  PROVE  LET j == Least(act[t].jobs)
         IN  /\ j \in act[t].jobs /\ j \in range[act[t].id].jobs /\ j \in Jobs /\ act[t].step = "detach"
             /\ Detaching(act[t].id, j)
             /\ act'[t].step = "detach" /\ act'[t].id = act[t].id /\ act'[t].jobs = act[t].jobs \ {j}
             /\ \A u \in Threads \ {t} : act'[u] = act[u]
             /\ UNCHANGED <<batch, rec, owed, settling>>
<1> DEFINE j == Least(act[t].jobs)
           x == [act[t] EXCEPT !.jobs = @ \ {j}]
<1>0. TypeOK /\ act[t].step = "detach" /\ act[t].step \in Carrying
      /\ act \in [Threads -> {Idle} \cup Activity]
  BY DEF BookInv, TypeOK, DetachNext, Doing, Carrying
<1>1. act[t] \in Activity /\ act[t].id \in Jobs /\ act[t].jobs \in SUBSET Jobs
  BY <1>0, ActFields
<1>2. j \in act[t].jobs
  BY <1>1, LeastIn
<1>3. act[t].jobs \subseteq range[act[t].id].jobs
  BY <1>0 DEF Registered, ThreadOK
<1>4. Detach(act[t].id, j) /\ act' = [act EXCEPT ![t].jobs = @ \ {j}]
      /\ UNCHANGED <<batch, rec, owed, settling>>
  BY DEF DetachNext
<1> HIDE DEF j
<1>5. act' = [act EXCEPT ![t] = x]
  BY <1>4
<1>6. x.step = act[t].step /\ x.id = act[t].id /\ x.jobs = act[t].jobs \ {j}
  BY <1>1 DEF Activity
<1> HIDE DEF x
<1>7. act'[t] = x /\ \A u \in Threads \ {t} : act'[u] = act[u]
  BY <1>0, <1>5
<1> QED
  BY <1>0, <1>1, <1>2, <1>3, <1>4, <1>6, <1>7 DEF Detaching, j

\* All but two kinds of steps leave the shape of the ranges alone.
LEMMA ShapeKept ==
  ASSUME BookInv, RangeShape, Registered, Tokened, [Next]_vars, ~Register, ~Install
  PROVE  SameShape
<1>0. TypeOK /\ range \in [Jobs -> Registration]
  BY DEF BookInv, TypeOK
<1>1. ASSUME range' = range PROVE SameShape
  BY <1>1 DEF SameShape
<1>2. ASSUME NEW r \in Jobs, OneRange(r), range'[r].installing = range[r].installing,
             range'[r].members \subseteq range[r].members
      PROVE  SameShape
  BY <1>2 DEF OneRange, SameShape
<1>3. ASSUME NEW r, NEW j, Detaching(r, j) PROVE SameShape
  BY <1>0, <1>2, <1>3, DetachForm DEF Detaching
<1>4. CASE Enter \/ Admit \/ Charge \/ Commit \/ Recover \/ SubscribeRange \/ DropUnused \/ Subscribe
             \/ PublishPortion \/ DispatchPortion
  <2>1. range' = range
    BY <1>4 DEF Enter, Admit, Charge, Commit, Recover, SubscribeRange, DropUnused, Subscribe,
       PublishPortion, DispatchPortion
  <2> QED
    BY <1>1, <2>1
<1>5. CASE Token
  BY <1>1, <1>3, <1>5, TokenForm
<1>6. ASSUME NEW t \in Threads, Deliver(t) PROVE SameShape
  <2>1. CASE range[act[t].id].delivered
    BY <1>1, <1>6, <2>1 DEF Deliver
  <2>2. CASE ~range[act[t].id].delivered
    <3>1. range[act[t].id].jobs # {}
      BY <1>6 DEF Registered, ThreadOK, Deliver, Doing
    <3> DEFINE r == act[t].id
    <3>2. r \in Jobs /\ OneRange(r) /\ range'[r].installing = range[r].installing
          /\ range'[r].members \subseteq range[r].members
      BY <1>0, <1>6, <2>2, <3>1, DeliverForm
    <3> HIDE DEF r
    <3> QED
      BY <1>2, <3>2
  <2> QED
    BY <2>1, <2>2
<1>7. ASSUME NEW t \in Threads, TakeMembers(t) PROVE SameShape
  <2> DEFINE r == act[t].id
  <2>1. range[r].delivered /\ r \in Jobs
    BY <1>0, <1>7, ActFields DEF Registered, ThreadOK, TakeMembers, Doing, Carrying
  <2>2. range[r].jobs # {}
    BY <2>1 DEF RangeShape, NoRange
  <2>3. OneRange(r) /\ range'[r].installing = range[r].installing
        /\ range'[r].members \subseteq range[r].members
    BY <1>0, <1>7, <2>2, TakeForm
  <2> HIDE DEF r
  <2> QED
    BY <1>2, <2>1, <2>3
<1>8. ASSUME NEW t \in Threads, DetachNext(t) PROVE SameShape
  <2>1. CASE act[t].jobs = {}
    BY <1>1, <1>8, <2>1 DEF DetachNext
  <2>2. CASE act[t].jobs # {}
    BY <1>3, <1>8, <2>2, DetachNextForm
  <2> QED
    BY <2>1, <2>2
<1>9. ASSUME NEW j \in Jobs, DropToken(j) PROVE SameShape
  BY <1>3, <1>9, DropForm
<1>10. ASSUME NEW t \in Threads, ActivateRange(t) \/ ActivateOne(t) \/ ActivateReady(t)
                                 \/ DispatchActivation(t) \/ Return(t)
       PROVE  SameShape
  <2>1. range' = range
    BY <1>10 DEF ActivateRange, ActivateOne, ActivateReady, DispatchActivation, Return
  <2> QED
    BY <1>1, <2>1
<1>11. ASSUME NEW j \in Jobs, Suppress(j) \/ FinishRecord(j) \/ FinalizeRecord(j) \/ DispatchFinal(j)
                              \/ Claim(j) \/ EndBody(j) \/ Cancel(j)
       PROVE  SameShape
  <2>1. range' = range
    BY <1>11 DEF Suppress, FinishRecord, FinalizeRecord, DispatchFinal, Claim, EndBody, Cancel
  <2> QED
    BY <1>1, <2>1
<1>12. ASSUME NEW s \in Signals, Call(s) \/ \E status \in {"Succeeded", "Failed"} : Complete(s, status)
       PROVE  SameShape
  <2>1. range' = range
    BY <1>12 DEF Call, Complete
  <2> QED
    BY <1>1, <2>1
<1>13. CASE Seal \/ Close \/ Abandon \/ UNCHANGED vars
  <2>1. range' = range
    BY <1>13 DEF Seal, Close, Abandon, vars
  <2> QED
    BY <1>1, <2>1
<1> QED
  BY <1>4, <1>5, <1>6, <1>7, <1>8, <1>9, <1>10, <1>11, <1>12, <1>13
     DEF Next, Submission, Activation, Settlement

\* Every step keeps the shape of the ranges.
LEMMA RangeShapeStep ==
  ASSUME BookInv, RangeShape, Registered, Tokened, [Next]_vars
  PROVE  RangeShape'
<1>1. CASE Register
  <2> DEFINE r == Head(batch.portion)
  <2>1. /\ r \in Jobs /\ r \in Portion /\ range[r] = NoRange /\ Portion \subseteq Accepted
        /\ Accepted' = Accepted /\ Portion' = Portion /\ Head(batch'.portion) = r
        /\ batch.pc = "register"
    BY <1>1, RegisterForm DEF SameOrder
  <2>2. NoRange.jobs = {} /\ NoRange.installing = FALSE /\ NoRange.members = {}
    BY DEF NoRange
  <2>3. \A q \in Jobs : range[q].jobs \cap Portion = {} /\ ~range[q].installing
    BY <2>1 DEF RangeShape, Early, Unkept
  <2>4. \/ /\ batch'.pc = "tokens"
           /\ range'[r].jobs = Portion /\ range'[r].installing = TRUE /\ range'[r].members = Portion
           /\ \A q \in Jobs \ {r} : range'[q] = range[q]
        \/ batch'.pc = "subscribe" /\ range' = range
    BY <1>1, RegisterForm
  <2> HIDE DEF r
  <2>5. CASE batch'.pc = "subscribe" /\ range' = range
    <3>1. \A q \in Jobs : range'[q] = range[q]
      BY <2>5
    <3>2. batch'.pc \notin Unkept
      BY <2>5 DEF Unkept
    <3> QED
      BY <2>1, <2>3, <3>1, <3>2 DEF RangeShape
  <2>6. CASE /\ batch'.pc = "tokens"
             /\ range'[r].jobs = Portion /\ range'[r].installing = TRUE /\ range'[r].members = Portion
             /\ \A q \in Jobs \ {r} : range'[q] = range[q]
    <3>1. batch'.pc \in Unkept /\ batch'.pc \notin Early \cup {"subscribe"}
      BY <2>6 DEF Unkept, Early
    <3>2. /\ \A q \in Jobs : range'[q].jobs = {} => range'[q] = NoRange
          /\ \A q \in Jobs : range'[q].jobs # {} => q \in range'[q].jobs /\ range'[q].jobs \subseteq Accepted'
          /\ \A q \in Jobs : range'[q].members \subseteq range'[q].jobs
      BY <2>1, <2>6 DEF RangeShape
    <3>3. \A p, q \in Jobs : range'[p].jobs \cap range'[q].jobs # {} => p = q
      BY <2>1, <2>3, <2>6 DEF RangeShape
    <3>4. \A q \in Jobs : range'[q].jobs \cap Portion' # {} =>
            range'[q].jobs = Portion' /\ q = Head(batch'.portion)
      BY <2>1, <2>3, <2>6
    <3>5. \A q \in Jobs : range'[q].installing <=> q = Head(batch'.portion)
      BY <2>1, <2>3, <2>6
    <3> QED
      BY <3>1, <3>2, <3>3, <3>4, <3>5 DEF RangeShape
  <2> QED
    BY <2>4, <2>5, <2>6
<1>2. CASE Install
  <2> DEFINE r == Head(batch.portion)
  <2>1. /\ r \in Jobs /\ OneRange(r) /\ range'[r].installing = FALSE
        /\ range'[r].members = range[r].members /\ batch'.pc \notin Unkept /\ batch.pc \in Unkept
    BY <1>2, InstallForm DEF Install, At, Unkept
  <2>2. Onward
    BY <1>2, OnwardStep DEF Install, Register, At
  <2>3. \A q \in Jobs : range'[q].jobs = range[q].jobs /\ ~range'[q].installing
                        /\ (range[q].jobs = {} => range'[q] = range[q])
                        /\ range'[q].members \subseteq range[q].members
    BY <2>1 DEF OneRange, RangeShape
  <2> HIDE DEF r
  <2> QED
    BY <2>1, <2>2, <2>3 DEF RangeShape, Onward, Portion
<1>3. CASE ~Register /\ ~Install
  <2>1. SameShape /\ Onward
    BY <1>3, ShapeKept, OnwardStep
  <2>2. \A q \in Jobs : range'[q].installing <=> batch'.pc \in Unkept /\ q = Head(batch'.portion)
    BY <1>3, <2>1 DEF SameShape, Onward, RangeShape
  <2> QED
    BY <2>1, <2>2 DEF RangeShape, SameShape, Onward, Portion
<1> QED
  BY <1>1, <1>2, <1>3

-----------------------------------------------------------------------------
(* Registrations and deliveries *)

\* What a step leaves of the ranges for those who are registered.
SameListed ==
  /\ \A q \in Jobs : range'[q].jobs = range[q].jobs
  /\ \A q \in Jobs : range[q].delivered => range'[q].delivered

\* A step that changes what one thread does, and adds no registration but of
\* jobs that may have it.
LEMMA RegisteredOf ==
  ASSUME BookInv, Registered, [Next]_vars, SameListed,
         \A c \in stored' \cup owed' :
           c \in stored \cup owed \/ (Late(c[1])' /\ (InRange(c[1]) => range[c[1]].jobs # {})),
         \A q \in Jobs : range'[q].delivered => range[q].delivered \/ Late(q)',
         NEW t \in Threads, \A u \in Threads \ {t} : act'[u] = act[u],
         ThreadOK(t)',
         act'[t].step \in Carrying =>
           \/ act[t].step \in Carrying /\ act'[t].id = act[t].id
           \/ \A u \in Threads \ {t} : ~(act[u].step \in Carrying /\ act[u].id = act'[t].id)
  PROVE  Registered'
<1>0. \A j : Late(j) => Late(j)'
  BY LateStep
<1>1. \A j : InRange(j)' <=> InRange(j)
  BY DEF SameListed, InRange
<1>2. /\ stored \cup owed \subseteq Jobs \X Signals /\ stored' \cup owed' \subseteq Jobs \X Signals
      /\ \A u \in Threads : act[u].step # "idle" => act[u].id \in Jobs
  <2>1. TypeOK
    BY DEF BookInv
  <2>2. RangeTypes'
    BY RangeTypesStep
  <2> QED
    BY <2>1, <2>2, ActFields DEF TypeOK, RangeTypes
<1>3. ASSUME NEW c \in stored' \cup owed'
      PROVE  Late(c[1])' /\ (InRange(c[1])' => range'[c[1]].jobs # {})
  <2>1. c[1] \in Jobs
    BY <1>2, <1>3
  <2>2. range'[c[1]].jobs = range[c[1]].jobs
    BY <2>1 DEF SameListed
  <2>3. Late(c[1])' /\ (InRange(c[1]) => range[c[1]].jobs # {})
    BY <1>0, <1>3 DEF Registered
  <2> QED
    BY <1>1, <2>2, <2>3
<1>4. ASSUME NEW q \in Jobs, range'[q].delivered PROVE Late(q)'
  BY <1>0, <1>4 DEF Registered
<1>5. ASSUME NEW u \in Threads \ {t} PROVE ThreadOK(u)'
  <2>0. PICK x : x = act[u]
    OBVIOUS
  <2>1. act'[u] = x
    BY <2>0
  <2>2. /\ x.step # "idle" => Late(x.id)
        /\ x.step = "deliver" => range[x.id].jobs # {} /\ x.jobs = {}
        /\ x.step = "single" => ~InRange(x.id)
        /\ x.step \in Carrying => range[x.id].delivered /\ x.jobs \subseteq range[x.id].jobs
    BY <2>0 DEF Registered, ThreadOK
  <2>3. x.step # "idle" => x.id \in Jobs
    BY <1>2, <2>0
  <2>4. x.step = "deliver" \/ x.step \in Carrying => x.step # "idle"
    BY DEF Carrying
  <2>5. x.step = "deliver" \/ x.step \in Carrying =>
          range'[x.id].jobs = range[x.id].jobs /\ (range[x.id].delivered => range'[x.id].delivered)
    BY <2>3, <2>4 DEF SameListed
  <2>6. /\ x.step # "idle" => Late(x.id)'
        /\ x.step = "deliver" => range'[x.id].jobs # {} /\ x.jobs = {}
        /\ x.step \in Carrying => range'[x.id].delivered /\ x.jobs \subseteq range'[x.id].jobs
    BY <1>0, <2>2, <2>5
  <2>7. x.step = "single" => ~InRange(x.id)'
    BY <1>1, <2>2
  <2> QED
    BY <2>1, <2>6, <2>7 DEF ThreadOK
<1>6. ASSUME NEW u \in Threads, NEW v \in Threads, act'[u].step \in Carrying, act'[v].step \in Carrying,
             act'[u].id = act'[v].id
      PROVE  u = v
  <2>1. CASE u = t /\ v # t
    BY <1>6, <2>1 DEF Registered
  <2>2. CASE v = t /\ u # t
    BY <1>6, <2>2 DEF Registered
  <2>3. CASE u # t /\ v # t
    BY <1>6, <2>3 DEF Registered
  <2> QED
    BY <2>1, <2>2, <2>3
<1> QED
  BY <1>3, <1>4, <1>5, <1>6 DEF Registered

\* A step that changes no activity.
LEMMA RegisteredSame ==
  ASSUME BookInv, Registered, [Next]_vars, SameListed, act' = act,
         stored' \cup owed' \subseteq stored \cup owed,
         \A q \in Jobs : range'[q].delivered => range[q].delivered
  PROVE  Registered'
<1> DEFINE t == Submitter
<1>1. t \in Threads
  BY DEF Threads
<1>2. ThreadOK(t) /\ (\A j : Late(j) => Late(j)')
  BY <1>1, LateStep DEF Registered
<1>3. \A j : InRange(j)' <=> InRange(j)
  BY DEF SameListed, InRange
<1>4. act[t].step # "idle" => act[t].id \in Jobs
  BY <1>1, ActFields DEF BookInv
<1>5. act[t].step = "deliver" \/ act[t].step \in Carrying => act[t].step # "idle"
  BY DEF Carrying
<1> HIDE DEF t
<1>6. ThreadOK(t)'
  BY <1>2, <1>3, <1>4, <1>5 DEF ThreadOK, SameListed
<1>7. \A u \in Threads \ {t} : act'[u] = act[u]
  OBVIOUS
<1>8. \A c \in stored' \cup owed' : c \in stored \cup owed
  OBVIOUS
<1>9. act'[t].step \in Carrying => act[t].step \in Carrying /\ act'[t].id = act[t].id
  OBVIOUS
<1> QED
  BY <1>1, <1>6, <1>7, <1>8, <1>9, RegisteredOf

\* The same without a look at what the ranges are.
LEMMA RegisteredQuiet ==
  ASSUME BookInv, Registered, [Next]_vars, range' = range, act' = act,
         stored' \cup owed' \subseteq stored \cup owed
  PROVE  Registered'
<1>1. SameListed
  BY DEF SameListed
<1> QED
  BY <1>1, RegisteredSame

\* A thread goes on to another step.
LEMMA ThenForm ==
  ASSUME TypeOK, NEW t \in Threads, NEW st, Then(t, st), act[t].step # "idle"
  PROVE  /\ act'[t].step = st /\ act'[t].id = act[t].id /\ act'[t].jobs = act[t].jobs
         /\ act'[t].status = act[t].status
         /\ \A u \in Threads \ {t} : act'[u] = act[u]
<1> DEFINE x == [act[t] EXCEPT !.step = st]
<1>1. act[t] \in Activity /\ act' = [act EXCEPT ![t] = x] /\ act \in [Threads -> {Idle} \cup Activity]
  BY ActFields DEF TypeOK, Then
<1>2. x.step = st /\ x.id = act[t].id /\ x.jobs = act[t].jobs /\ x.status = act[t].status
  BY <1>1 DEF Activity
<1> HIDE DEF x
<1> QED
  BY <1>1, <1>2

\* What a subscription adds: the registration, or the delivery to the submitter.
LEMMA SubscribedForm ==
  ASSUME TypeOK, NEW id \in Jobs, NEW s \in Signals, NEW step, Subscribed(id, s, step)
  PROVE  \/ stored' = stored \cup {<<id, s>>} /\ UNCHANGED act
         \/ /\ stored' = stored
            /\ act'[Submitter].step = step /\ act'[Submitter].id = id /\ act'[Submitter].jobs = {}
            /\ \A u \in Threads \ {Submitter} : act'[u] = act[u]
<1> DEFINE x == [step |-> step, id |-> id, status |-> signal[s], jobs |-> {}]
<1>1. Submitter \in Threads /\ act \in [Threads -> {Idle} \cup Activity]
  BY DEF Threads, TypeOK
<1>2. x.step = step /\ x.id = id /\ x.jobs = {}
  OBVIOUS
<1>3. \/ stored' = stored \cup {<<id, s>>} /\ UNCHANGED act
      \/ stored' = stored /\ act' = [act EXCEPT ![Submitter] = x]
  BY DEF Subscribed
<1> HIDE DEF x
<1> QED
  BY <1>1, <1>2, <1>3

\* A new range has no registration and no delivery yet.
LEMMA RegisteredRegister ==
  ASSUME BookInv, RangeShape, Registered, [Next]_vars, Register
  PROVE  Registered'
<1> DEFINE r == Head(batch.portion)
<1>1. PICK h \in Jobs : h = r
  BY RegisterForm
<1>2. /\ h \in Portion /\ range[h] = NoRange /\ batch.pc = "register"
      /\ UNCHANGED <<stored, owed, act>>
      /\ \A q \in Jobs \ {h} : range'[q] = range[q]
      /\ range'[h] = range[h] \/ (range'[h].jobs = Portion /\ range'[h].delivered = FALSE)
  BY <1>1, RegisterForm
<1>3. /\ \A j : Late(j) => Late(j)' /\ j \notin Portion
      /\ \A j : InRange(j)' => InRange(j) \/ j \in Portion
  <2>1. \A j : Late(j) => j \notin Portion
    BY <1>2 DEF Late, Fresh, Early
  <2>2. \A j : InRange(j)' => InRange(j) \/ j \in Portion
    BY <1>2 DEF InRange
  <2> QED
    BY <2>1, <2>2, LateStep
<1>4. NoRange.jobs = {} /\ NoRange.delivered = FALSE
  BY DEF NoRange
<1>5. ASSUME NEW c \in stored' \cup owed'
      PROVE  Late(c[1])' /\ (InRange(c[1])' => range'[c[1]].jobs # {})
  <2>1. Late(c[1]) /\ (InRange(c[1]) => range[c[1]].jobs # {}) /\ c[1] \in Jobs
    BY <1>2, <1>5 DEF Registered, BookInv, TypeOK
  <2>2. c[1] \in Jobs \ {h}
    BY <1>2, <1>3, <2>1
  <2> QED
    BY <1>2, <1>3, <2>1, <2>2
<1>6. ASSUME NEW q \in Jobs, range'[q].delivered PROVE Late(q)'
  <2>1. range[q].delivered
    BY <1>2, <1>4, <1>6
  <2> QED
    BY <1>3, <2>1 DEF Registered
<1>7. ASSUME NEW u \in Threads PROVE ThreadOK(u)'
  <2>0. PICK x : x = act[u]
    OBVIOUS
  <2>1. act'[u] = x
    BY <1>2, <2>0
  <2>2. /\ x.step # "idle" => Late(x.id)
        /\ x.step = "deliver" => range[x.id].jobs # {} /\ x.jobs = {}
        /\ x.step = "single" => ~InRange(x.id)
        /\ x.step \in Carrying => range[x.id].delivered /\ x.jobs \subseteq range[x.id].jobs
    BY <2>0 DEF Registered, ThreadOK
  <2>3. x.step # "idle" => x.id \in Jobs
    BY <2>0, ActFields DEF BookInv
  <2>4. x.step = "deliver" \/ x.step \in Carrying => x.step # "idle"
    BY DEF Carrying
  <2>5. x.step # "idle" => x.id \in Jobs \ {h}
    BY <1>2, <1>3, <2>2, <2>3
  <2>6. /\ x.step # "idle" => Late(x.id)'
        /\ x.step = "deliver" => range'[x.id].jobs # {} /\ x.jobs = {}
        /\ x.step \in Carrying => range'[x.id].delivered /\ x.jobs \subseteq range'[x.id].jobs
    BY <1>2, <1>3, <2>2, <2>4, <2>5
  <2>7. x.step = "single" => ~InRange(x.id)'
    BY <1>3, <2>2
  <2> QED
    BY <2>1, <2>6, <2>7 DEF ThreadOK
<1>8. \A u, v \in Threads :
        act'[u].step \in Carrying /\ act'[v].step \in Carrying /\ act'[u].id = act'[v].id => u = v
  BY <1>2 DEF Registered
<1> QED
  BY <1>5, <1>6, <1>7, <1>8 DEF Registered

\* The submitter subscribes a range, or a member to one prerequisite.
LEMMA RegisteredSubscribe ==
  ASSUME BookInv, Registered, [Next]_vars, range' = range, UNCHANGED owed,
         NEW id \in Jobs, NEW s \in Signals, NEW step \in {"deliver", "single"},
         Subscribed(id, s, step), Late(id)', InRange(id) <=> range[id].jobs # {},
         step = "deliver" <=> InRange(id)
  PROVE  Registered'
<1>0. TypeOK /\ SameListed /\ Submitter \in Threads
  BY DEF BookInv, SameListed, Threads
<1>1. CASE stored' = stored \cup {<<id, s>>} /\ UNCHANGED act
  <2>1. \A c \in stored' \cup owed' :
           c \in stored \cup owed \/ (Late(c[1])' /\ (InRange(c[1]) => range[c[1]].jobs # {}))
    BY <1>1
  <2>2. ThreadOK(Submitter)'
    <3>1. PICK x : x = act[Submitter]
      OBVIOUS
    <3>2. /\ x.step # "idle" => Late(x.id)
          /\ x.step = "deliver" => range[x.id].jobs # {} /\ x.jobs = {}
          /\ x.step = "single" => ~InRange(x.id)
          /\ x.step \in Carrying => range[x.id].delivered /\ x.jobs \subseteq range[x.id].jobs
      BY <1>0, <3>1 DEF Registered, ThreadOK
    <3>3. (x.step # "idle" => Late(x.id)') /\ (InRange(x.id)' <=> InRange(x.id))
      BY <3>2, LateStep DEF InRange
    <3>4. act'[Submitter] = x
      BY <1>1, <3>1
    <3> QED
      BY <3>2, <3>3, <3>4 DEF ThreadOK
  <2>3. \A u \in Threads \ {Submitter} : act'[u] = act[u]
    BY <1>1
  <2>4. \A q \in Jobs : range'[q].delivered => range[q].delivered
    OBVIOUS
  <2>5. act'[Submitter].step \in Carrying => act[Submitter].step \in Carrying /\ act'[Submitter].id = act[Submitter].id
    BY <1>1
  <2> QED
    BY <1>0, <2>1, <2>2, <2>3, <2>4, <2>5, RegisteredOf
<1>2. CASE /\ stored' = stored
           /\ act'[Submitter].step = step /\ act'[Submitter].id = id /\ act'[Submitter].jobs = {}
           /\ \A u \in Threads \ {Submitter} : act'[u] = act[u]
  <2>1. step # "idle" /\ step \notin Carrying
    BY DEF Carrying
  <2>2. InRange(id)' <=> InRange(id)
    BY DEF InRange
  <2>3. ThreadOK(Submitter)'
    BY <1>2, <2>1, <2>2 DEF ThreadOK
  <2>4. \A c \in stored' \cup owed' : c \in stored \cup owed
    BY <1>2
  <2>5. \A q \in Jobs : range'[q].delivered => range[q].delivered
    OBVIOUS
  <2> QED
    BY <1>0, <1>2, <2>1, <2>3, <2>4, <2>5, RegisteredOf
<1> QED
  BY <1>0, <1>1, <1>2, SubscribedForm

\* A thread goes on, to no delivery.
LEMMA RegisteredThen ==
  ASSUME BookInv, Registered, [Next]_vars, UNCHANGED <<range, stored, owed>>, NEW t \in Threads,
         act'[t].step \in {"idle", "ready", "dispatch", "stop"},
         act'[t].step = "idle" \/ (act[t].step # "idle" /\ act'[t].id = act[t].id),
         \A u \in Threads \ {t} : act'[u] = act[u]
  PROVE  Registered'
<1>1. SameListed /\ act'[t].step \notin Carrying /\ act'[t].step \notin {"deliver", "single"}
  BY DEF SameListed, Carrying
<1>2. act[t].step # "idle" => Late(act[t].id)
  BY DEF Registered, ThreadOK
<1>3. PICK i : i = act'[t].id
  OBVIOUS
<1>4. act'[t].step # "idle" => Late(i)'
  BY <1>2, <1>3, LateStep
<1>5. ThreadOK(t)'
  BY <1>1, <1>3, <1>4 DEF ThreadOK
<1>6. (\A c \in stored' \cup owed' : c \in stored \cup owed)
      /\ (\A q \in Jobs : range'[q].delivered => range[q].delivered)
  OBVIOUS
<1> QED
  BY <1>1, <1>5, <1>6, RegisteredOf

\* A publishing thread takes up a registration.
LEMMA RegisteredCall ==
  ASSUME BookInv, RangeShape, Registered, [Next]_vars, NEW s \in Signals, Call(s)
  PROVE  Registered'
<1>0. TypeOK /\ s \in Threads /\ act \in [Threads -> {Idle} \cup Activity]
  BY DEF BookInv, TypeOK, Threads
<1>1. PICK c \in owed : /\ owed' = owed \ {c} /\ UNCHANGED <<range, stored>>
                        /\ act' = [act EXCEPT ![s] = [step |-> IF range[c[1]] # NoRange THEN "deliver" ELSE "single",
                                      id |-> c[1], status |-> signal[s], jobs |-> {}]]
  BY DEF Call
<1>2. PICK id \in Jobs : id = c[1]
  BY <1>0, <1>1 DEF TypeOK
<1>3. /\ act'[s].step = IF range[id] # NoRange THEN "deliver" ELSE "single"
      /\ act'[s].id = id /\ act'[s].jobs = {} /\ \A u \in Threads \ {s} : act'[u] = act[u]
  BY <1>0, <1>1, <1>2
<1>4. Late(id)' /\ (InRange(id) => range[id].jobs # {})
  BY <1>1, <1>2, LateStep DEF Registered
<1>5. /\ range[id] # NoRange => range[id].jobs # {}
      /\ range[id] = NoRange => range[id].jobs = {}
      /\ InRange(id)' <=> InRange(id)
  BY <1>1 DEF RangeShape, NoRange, InRange
<1>6. act'[s].step \notin Carrying
  BY <1>3 DEF Carrying
<1>7. ThreadOK(s)'
  BY <1>1, <1>3, <1>4, <1>5, <1>6 DEF ThreadOK
<1>8. SameListed
  BY <1>1 DEF SameListed
<1>9. (\A d \in stored' \cup owed' : d \in stored \cup owed)
      /\ (\A q \in Jobs : range'[q].delivered => range[q].delivered)
  BY <1>1
<1> QED
  BY <1>0, <1>3, <1>6, <1>7, <1>8, <1>9, RegisteredOf

\* A thread delivers a range, if nobody did.
LEMMA RegisteredDeliver ==
  ASSUME BookInv, RangeShape, Registered, [Next]_vars, NEW t \in Threads, Deliver(t)
  PROVE  Registered'
<1>0. TypeOK /\ act[t].step = "deliver" /\ act \in [Threads -> {Idle} \cup Activity]
      /\ Idle.step = "idle" /\ UNCHANGED owed
  BY DEF BookInv, TypeOK, Deliver, Doing, Idle
<1>1. PICK r \in Jobs : r = act[t].id
  BY <1>0, ActFields
<1>2. range[r].jobs # {} /\ act[t].jobs = {} /\ Late(r)'
  <2>1. Late(r)
    BY <1>0, <1>1 DEF Registered, ThreadOK
  <2> QED
    BY <1>0, <1>1, <2>1, LateStep DEF Registered, ThreadOK
<1>3. CASE range[r].delivered
  <2>1. act' = [act EXCEPT ![t] = Idle] /\ UNCHANGED <<range, stored>>
    BY <1>1, <1>3 DEF Deliver
  <2>2. act'[t].step = "idle" /\ \A u \in Threads \ {t} : act'[u] = act[u]
    BY <1>0, <2>1
  <2> QED
    BY <1>0, <2>1, <2>2, RegisteredThen
<1>4. CASE ~range[r].delivered
  <2>1. /\ OneRange(r) /\ range'[r].delivered = TRUE /\ stored' \subseteq stored
    BY <1>0, <1>1, <1>2, <1>4, DeliverForm
  <2>2. /\ act'[t].step = "take" /\ act'[t].id = r /\ act'[t].jobs = {}
        /\ \A u \in Threads \ {t} : act'[u] = act[u]
    BY <1>0, <1>1, <1>2, <1>4, ThenForm DEF Deliver
  <2>3. SameListed /\ range'[r].jobs = range[r].jobs
    BY <2>1 DEF SameListed, OneRange
  <2>4. ThreadOK(t)'
    BY <1>2, <2>1, <2>2 DEF ThreadOK
  <2>5. \A u \in Threads \ {t} : ~(act[u].step \in Carrying /\ act[u].id = act'[t].id)
    BY <1>4, <2>2 DEF Registered, ThreadOK
  <2>6. \A c \in stored' \cup owed' : c \in stored \cup owed
    BY <1>0, <2>1
  <2>7. \A q \in Jobs : range'[q].delivered => range[q].delivered \/ Late(q)'
    <3>1. ASSUME NEW q \in Jobs, q # r PROVE range'[q] = range[q]
      BY <2>1, <3>1 DEF OneRange
    <3> QED
      BY <1>2, <3>1
  <2> QED
    BY <2>2, <2>3, <2>4, <2>5, <2>6, <2>7, RegisteredOf
<1> QED
  BY <1>3, <1>4

\* The deliverer goes on with the members of its range.
LEMMA RegisteredCarry ==
  ASSUME BookInv, Registered, [Next]_vars, SameListed, stored' \subseteq stored, UNCHANGED owed,
         \A q \in Jobs : range'[q].delivered => range[q].delivered,
         NEW t \in Threads, act[t].step \in Carrying, act'[t].id = act[t].id,
         act'[t].step \in Carrying \cup {"stop"}, act'[t].jobs \subseteq range[act[t].id].jobs,
         \A u \in Threads \ {t} : act'[u] = act[u]
  PROVE  Registered'
<1>1. act[t].step # "idle"
  BY DEF Carrying
<1>2. PICK r \in Jobs : r = act[t].id
  BY <1>1, ActFields DEF BookInv
<1>3. Late(r)' /\ range'[r].delivered /\ range'[r].jobs = range[r].jobs
  <2>1. Late(r) /\ range[r].delivered
    BY <1>1, <1>2 DEF Registered, ThreadOK
  <2> QED
    BY <2>1, LateStep DEF SameListed
<1>4. act'[t].step \notin {"deliver", "single"} /\ act'[t].id = r /\ act'[t].jobs \subseteq range[r].jobs
  BY <1>2 DEF Carrying
<1>5. ThreadOK(t)'
  BY <1>3, <1>4 DEF ThreadOK
<1>6. \A c \in stored' \cup owed' : c \in stored \cup owed
  OBVIOUS
<1> QED
  BY <1>5, <1>6, RegisteredOf

\* The deliverer takes the snapshot of the members.
LEMMA RegisteredTake ==
  ASSUME BookInv, RangeShape, Registered, [Next]_vars, NEW t \in Threads, TakeMembers(t)
  PROVE  Registered'
<1>0. TypeOK /\ act[t].step = "take" /\ act[t].step \in Carrying
      /\ act \in [Threads -> {Idle} \cup Activity] /\ act[t].step # "idle" /\ UNCHANGED <<stored, owed>>
  BY DEF BookInv, TypeOK, TakeMembers, Doing, Carrying
<1>1. PICK r \in Jobs : r = act[t].id
  BY <1>0, ActFields
<1>2. range[r].delivered /\ range[r].jobs # {}
  BY <1>0, <1>1 DEF Registered, ThreadOK, RangeShape, NoRange
<1>3. OneRange(r) /\ range'[r].delivered = range[r].delivered
  BY <1>0, <1>1, <1>2, TakeForm
<1>4. SameListed /\ \A q \in Jobs : range'[q].delivered => range[q].delivered
  BY <1>3 DEF SameListed, OneRange
<1> DEFINE st == IF range[r].members = {} THEN "stop" ELSE "activate"
           x == [[act[t] EXCEPT !.jobs = range[r].members] EXCEPT !.step = st]
<1>5. act' = [act EXCEPT ![t] = x]
  BY <1>1 DEF TakeMembers
<1>6. x.id = act[t].id /\ x.step \in Carrying \cup {"stop"} /\ x.jobs = range[r].members
  BY <1>0, ActFields DEF Activity, Carrying
<1> HIDE DEF x
<1>7. act'[t] = x /\ \A u \in Threads \ {t} : act'[u] = act[u]
  BY <1>0, <1>5
<1>8. range[r].members \subseteq range[act[t].id].jobs
  BY <1>1 DEF RangeShape
<1> QED
  BY <1>0, <1>4, <1>6, <1>7, <1>8, RegisteredCarry

\* The deliverer keeps the members whose tokens it took.
LEMMA RegisteredActivate ==
  ASSUME BookInv, RangeShape, Registered, [Next]_vars, NEW t \in Threads, ActivateRange(t)
  PROVE  Registered'
<1>0. TypeOK /\ act[t].step = "activate" /\ act[t].step \in Carrying
      /\ act \in [Threads -> {Idle} \cup Activity] /\ act[t].step # "idle" /\ UNCHANGED <<range, stored, owed>>
  BY DEF BookInv, TypeOK, ActivateRange, Doing, Carrying
<1> DEFINE S == {j \in {i \in act[t].jobs : Reached(i)} : rec[j].token}
           x == [[act[t] EXCEPT !.step = "detach"] EXCEPT !.jobs = S]
<1>1. S \subseteq range[act[t].id].jobs
  BY <1>0 DEF Registered, ThreadOK
<1>2. act' = [act EXCEPT ![t] = x]
  BY DEF ActivateRange
<1> HIDE DEF S
<1>3. x.id = act[t].id /\ x.step \in Carrying /\ x.jobs = S
  BY <1>0, ActFields DEF Activity, Carrying
<1> HIDE DEF x
<1>4. act'[t] = x /\ \A u \in Threads \ {t} : act'[u] = act[u]
  BY <1>0, <1>2
<1>5. SameListed
  BY <1>0 DEF SameListed
<1> QED
  BY <1>0, <1>1, <1>3, <1>4, <1>5, RegisteredCarry

\* The deliverer drops a token, or has none left and goes on.
LEMMA RegisteredDetach ==
  ASSUME BookInv, RangeShape, Registered, [Next]_vars, NEW t \in Threads, DetachNext(t)
  PROVE  Registered'
<1>0. TypeOK /\ act[t].step = "detach" /\ act[t].step \in Carrying /\ act[t].step # "idle" /\ UNCHANGED owed
  BY DEF BookInv, DetachNext, Doing, Carrying
<1>1. CASE act[t].jobs = {}
  <2>1. Then(t, "dispatch") /\ UNCHANGED <<range, stored>>
    BY <1>1 DEF DetachNext
  <2> QED
    BY <1>0, <2>1, ThenForm, RegisteredThen
<1>2. CASE act[t].jobs # {}
  <2> DEFINE j == Least(act[t].jobs)
  <2>1. PICK r : r = act[t].id
    OBVIOUS
  <2>2. Detaching(r, j) /\ act'[t].step = "detach" /\ act'[t].id = act[t].id
        /\ act'[t].jobs = act[t].jobs \ {j} /\ \A u \in Threads \ {t} : act'[u] = act[u]
    BY <1>2, <2>1, DetachNextForm
  <2> HIDE DEF j
  <2>3. r \in Jobs /\ OneRange(r) /\ range'[r].delivered = range[r].delivered /\ stored' \subseteq stored
    BY <1>0, <2>2, DetachForm DEF Detaching
  <2>4. SameListed /\ \A q \in Jobs : range'[q].delivered => range[q].delivered
    BY <2>3 DEF SameListed, OneRange
  <2>5. act[t].jobs \subseteq range[act[t].id].jobs
    BY <1>0 DEF Registered, ThreadOK
  <2>6. act'[t].step \in Carrying \cup {"stop"}
    BY <2>2 DEF Carrying
  <2>7. act'[t].jobs \subseteq range[act[t].id].jobs
    BY <2>2, <2>5
  <2> QED
    BY <1>0, <2>2, <2>3, <2>4, <2>6, <2>7, RegisteredCarry
<1> QED
  BY <1>1, <1>2

\* A token dropped by whom it was given to.
LEMMA RegisteredDrop ==
  ASSUME BookInv, Registered, [Next]_vars, NEW r, NEW j, Detaching(r, j), UNCHANGED <<act, owed>>
  PROVE  Registered'
<1>1. r \in Jobs /\ OneRange(r) /\ range'[r].delivered = range[r].delivered /\ stored' \subseteq stored
  BY DetachForm DEF Detaching, BookInv
<1>2. SameListed /\ \A q \in Jobs : range'[q].delivered => range[q].delivered
  BY <1>1 DEF SameListed, OneRange
<1> QED
  BY <1>1, <1>2, RegisteredSame

\* The submitter's registrations.
LEMMA RegisteredSubmission ==
  ASSUME BookInv, RangeShape, Registered, [Next]_vars, SubscribeRange \/ Subscribe
  PROVE  Registered'
<1>0. TypeOK /\ Ordered /\ Phased /\ Ranged
  BY DEF BookInv
<1>1. CASE SubscribeRange
  <2>1. batch.pc \in Ranging /\ batch.pc \in Attaching \cup {"register"}
    BY <1>1 DEF SubscribeRange, At, Ranging, Attaching
  <2>2. PICK h \in Jobs : h = Head(batch.portion)
    BY <1>0, <2>1, CurrentRange
  <2>3. RangeOf(h) = h /\ range[h].jobs = Portion /\ Portion # {} /\ h \in Portion /\ Only \in Signals
    BY <1>0, <2>1, <2>2, CurrentRange, HeadIn
  <2>4. Subscribed(h, Only, "deliver") /\ range' = range /\ UNCHANGED owed /\ batch'.pc = "install"
    BY <1>0, <1>1, <2>2, <2>3, PcSteps DEF SubscribeRange
  <2>5. InRange(h)
    BY <2>3 DEF InRange
  <2>6. Late(h)'
    <3>1. Accepted' = Accepted
      BY <1>0, <1>1, SubmissionSteps DEF SameOrder, Accepted
    <3>2. h \in Accepted
      BY <1>0, <2>3, Disjoint
    <3>3. batch'.pc \notin Fresh
      BY <2>4 DEF Fresh, Early
    <3> QED
      BY <3>1, <3>2, <3>3 DEF Late
  <2> QED
    BY <2>2, <2>3, <2>4, <2>5, <2>6, RegisteredSubscribe
<1>2. CASE Subscribe /\ batch.todo = {}
  <2>1. UNCHANGED <<stored, act, range, owed>>
    BY <1>2 DEF Subscribe
  <2> QED
    BY <2>1, RegisteredQuiet
<1>3. CASE Subscribe /\ batch.todo # {}
  <2>1. PICK e \in batch.todo : Subscribed(e[1], e[2], "single") /\ range' = range /\ UNCHANGED owed
    BY <1>3 DEF Subscribe
  <2>2. batch.pc = "subscribe" /\ batch.todo \subseteq Portion \X Prereqs
    BY <1>0, <1>3 DEF Ranged, Subscribe, At
  <2>3. Portion \subseteq Accepted /\ Accepted \subseteq Jobs /\ Prereqs \subseteq Signals
    BY <1>0, Disjoint, FaninIn
  <2>4. PICK h \in Portion, s \in Prereqs : h = e[1] /\ s = e[2]
    BY <2>1, <2>2
  <2>5. h \in Jobs /\ s \in Signals /\ h \in Accepted
    BY <2>3, <2>4
  <2>6. ~InRange(h)
    <3>1. ASSUME NEW r \in Jobs, h \in range[r].jobs PROVE FALSE
      BY <2>2, <2>4, <3>1 DEF RangeShape
    <3> QED
      BY <3>1 DEF InRange
  <2>7. range[h].jobs = {}
    BY <2>5, <2>6 DEF RangeShape, InRange
  <2>8. Late(h)'
    <3>1. Late(h)
      BY <2>2, <2>5 DEF Late, Fresh, Early
    <3> QED
      BY <3>1, LateStep
  <2> QED
    BY <2>1, <2>4, <2>5, <2>6, <2>7, <2>8, RegisteredSubscribe
<1> QED
  BY <1>2, <1>3, <1>1

\* The submitter's other steps.
LEMMA RegisteredInstall ==
  ASSUME BookInv, RangeShape, Registered, [Next]_vars, Install \/ Token
  PROVE  Registered'
<1>1. CASE Install
  <2>1. PICK h \in Jobs : h = Head(batch.portion)
    BY <1>1, InstallForm
  <2>2. OneRange(h) /\ range'[h].delivered = range[h].delivered /\ UNCHANGED <<stored, owed, act>>
    BY <1>1, <2>1, InstallForm
  <2>3. SameListed /\ \A q \in Jobs : range'[q].delivered => range[q].delivered
    BY <2>2 DEF SameListed, OneRange
  <2> QED
    BY <2>2, <2>3, RegisteredSame
<1>2. CASE Token
  <2> DEFINE j == Least(batch.todo)
             r == Head(batch.portion)
  <2>1. /\ rec[j].stage = "Finalizing" => Detaching(r, j)
        /\ rec[j].stage # "Finalizing" => UNCHANGED <<range, stored>>
        /\ UNCHANGED <<owed, act>>
    BY <1>2, TokenForm
  <2> HIDE DEF j, r
  <2>2. CASE rec[j].stage = "Finalizing"
    BY <2>1, <2>2, RegisteredDrop
  <2>3. CASE rec[j].stage # "Finalizing"
    BY <2>1, <2>3, RegisteredQuiet
  <2> QED
    BY <2>2, <2>3
<1> QED
  BY <1>1, <1>2

\* A thread goes on with a single member, or returns.
LEMMA RegisteredGo ==
  ASSUME BookInv, Registered, [Next]_vars, NEW t \in Threads,
         ActivateOne(t) \/ ActivateReady(t) \/ DispatchActivation(t) \/ Return(t)
  PROVE  Registered'
<1>0. TypeOK /\ act \in [Threads -> {Idle} \cup Activity] /\ Idle.step = "idle"
  BY DEF BookInv, TypeOK, Idle
<1>1. act[t].step # "idle" /\ UNCHANGED <<range, stored, owed>>
  BY DEF ActivateOne, ActivateReady, DispatchActivation, Return, Doing
<1>2. ASSUME NEW st \in {"ready", "dispatch", "stop"}, Then(t, st) PROVE Registered'
  BY <1>0, <1>1, <1>2, ThenForm, RegisteredThen
<1>3. CASE Return(t)
  <2>1. act'[t].step = "idle" /\ \A u \in Threads \ {t} : act'[u] = act[u]
    BY <1>0, <1>3 DEF Return
  <2> QED
    BY <1>1, <2>1, RegisteredThen
<1>4. CASE ActivateOne(t)
  BY <1>2, <1>4 DEF ActivateOne
<1>5. CASE ActivateReady(t) \/ DispatchActivation(t)
  BY <1>2, <1>5 DEF ActivateReady, DispatchActivation
<1> QED
  BY <1>3, <1>4, <1>5

\* Every step keeps the registrations and the deliveries in order.
LEMMA RegisteredStep ==
  ASSUME BookInv, RangeShape, Registered, Tokened, [Next]_vars
  PROVE  Registered'
<1>1. ASSUME range' = range, act' = act, stored' \cup owed' \subseteq stored \cup owed
      PROVE  Registered'
  BY <1>1, RegisteredQuiet
<1>2. CASE Enter \/ Admit \/ Charge \/ Commit \/ Recover \/ DropUnused \/ PublishPortion \/ DispatchPortion
  <2>1. range' = range /\ act' = act /\ stored' \cup owed' \subseteq stored \cup owed
    BY <1>2 DEF Enter, Admit, Charge, Commit, Recover, DropUnused, PublishPortion, DispatchPortion
  <2> QED
    BY <1>1, <2>1
<1>3. CASE Register \/ Token \/ Install \/ SubscribeRange \/ Subscribe
  BY <1>3, RegisteredRegister, RegisteredInstall, RegisteredSubmission
<1>4. ASSUME NEW s \in Signals, NEW status, Complete(s, status) PROVE Registered'
  <2>1. range' = range /\ act' = act /\ stored' \cup owed' \subseteq stored \cup owed
    BY <1>4 DEF Complete
  <2> QED
    BY <1>1, <2>1
<1>5. ASSUME NEW s \in Signals, Call(s) PROVE Registered'
  BY <1>5, RegisteredCall
<1>6. ASSUME NEW t \in Threads, Activation(t) PROVE Registered'
  BY <1>6, RegisteredDeliver, RegisteredTake, RegisteredActivate, RegisteredDetach, RegisteredGo
     DEF Activation
<1>7. ASSUME NEW j \in Jobs, Suppress(j) \/ FinishRecord(j) \/ FinalizeRecord(j) \/ DispatchFinal(j)
                             \/ Claim(j) \/ EndBody(j) \/ Cancel(j)
      PROVE  Registered'
  <2>1. range' = range /\ act' = act /\ stored' \cup owed' \subseteq stored \cup owed
    BY <1>7 DEF Suppress, FinishRecord, FinalizeRecord, DispatchFinal, Claim, EndBody, Cancel
  <2> QED
    BY <1>1, <2>1
<1>8. ASSUME NEW j \in Jobs, DropToken(j) PROVE Registered'
  BY <1>8, DropForm, RegisteredDrop
<1>9. CASE Seal \/ Close \/ Abandon \/ UNCHANGED vars
  <2>1. range' = range /\ act' = act /\ stored' \cup owed' \subseteq stored \cup owed
    BY <1>9 DEF Seal, Close, Abandon, vars
  <2> QED
    BY <1>1, <2>1
<1> QED
  BY <1>2, <1>3, <1>4, <1>5, <1>6, <1>7, <1>8, <1>9 DEF Next, Submission, Settlement

-----------------------------------------------------------------------------
(* The tokens *)

\* The submitter runs a delivery only where it waits for it.
Busy == act[Submitter].step # "idle" => batch.pc \in {"install", "subscribe"}

\* No step gives the submitter a delivery elsewhere, or moves it on before its return.
LEMMA BusyStep ==
  ASSUME BookInv, Busy, [Next]_vars
  PROVE  Busy'
<1>0. TypeOK /\ Idle.step = "idle" /\ Submitter \in Threads /\ act \in [Threads -> {Idle} \cup Activity]
  BY DEF BookInv, TypeOK, Idle, Threads
<1>1. ASSUME act'[Submitter].step = act[Submitter].step, UNCHANGED batch PROVE Busy'
  BY <1>1 DEF Busy
<1>2. CASE Enter \/ Admit \/ Charge \/ Commit \/ Recover \/ Register \/ Token \/ Install \/ DropUnused
             \/ PublishPortion \/ DispatchPortion
  <2>1. act' = act
    BY <1>2 DEF Enter, Admit, Charge, Commit, Recover, Register, Token, Install, DropUnused,
       PublishPortion, DispatchPortion
  <2>2. act[Submitter].step = "idle"
    BY <1>0, <1>2 DEF Busy, Enter, Admit, Charge, Commit, Recover, Register, Token, Install, DropUnused,
       PublishPortion, DispatchPortion, At
  <2> QED
    BY <2>1, <2>2 DEF Busy
<1>3. CASE SubscribeRange
  BY <1>0, <1>3, PcSteps DEF Busy
<1>4. CASE Subscribe
  <2>1. act[Submitter].step = "idle"
    BY <1>0, <1>4 DEF Subscribe
  <2>2. batch.todo = {} => act' = act
    BY <1>4 DEF Subscribe
  <2>3. batch.todo # {} => batch'.pc = "subscribe"
    <3>1. batch = [pc |-> batch.pc, remaining |-> batch.remaining, prepared |-> batch.prepared,
               accepted |-> batch.accepted, portion |-> batch.portion, todo |-> batch.todo,
               reserve |-> batch.reserve, failure |-> batch.failure]
      BY <1>0 DEF TypeOK, Batch
    <3> QED
      BY <1>4, <3>1 DEF Subscribe, At
  <2> QED
    BY <2>1, <2>2, <2>3 DEF Busy
<1>5. ASSUME NEW t \in Threads, Activation(t) PROVE Busy'
  <2>1. act[t].step # "idle" /\ UNCHANGED batch /\ \A u \in Threads \ {t} : act'[u] = act[u]
    <3>1. /\ act[t].step # "idle" /\ UNCHANGED batch
          /\ \/ \E x : act' = [act EXCEPT ![t] = x]
             \/ act' = act
      <4>1. CASE Deliver(t)
        BY <4>1 DEF Deliver, Doing, Then
      <4>2. CASE TakeMembers(t) \/ ActivateRange(t) \/ DetachNext(t)
        BY <4>2 DEF TakeMembers, ActivateRange, DetachNext, Doing, Then
      <4>3. CASE ActivateOne(t) \/ ActivateReady(t) \/ DispatchActivation(t) \/ Return(t)
        BY <4>3 DEF ActivateOne, ActivateReady, DispatchActivation, Return, Doing, Then
      <4> QED
        BY <1>5, <4>1, <4>2, <4>3 DEF Activation
    <3> QED
      BY <1>0, <3>1
  <2>2. CASE t = Submitter
    BY <2>1, <2>2 DEF Busy
  <2>3. CASE t # Submitter
    BY <1>0, <1>1, <2>1, <2>3
  <2> QED
    BY <2>2, <2>3
<1>6. ASSUME NEW s \in Signals, Call(s) PROVE Busy'
  <2>1. s # Submitter /\ s \in Threads
    BY Constants DEF Threads
  <2>2. UNCHANGED batch
    BY <1>6 DEF Call
  <2>3. \E x : act' = [act EXCEPT ![s] = x]
    BY <1>6 DEF Call
  <2>4. act'[Submitter] = act[Submitter]
    BY <1>0, <2>1, <2>3
  <2> QED
    BY <1>1, <2>2, <2>4
<1>7. ASSUME \/ \E s \in Signals : \E status \in {"Succeeded", "Failed"} : Complete(s, status)
             \/ \E j \in Jobs : Settlement(j) \/ Claim(j) \/ EndBody(j) \/ Cancel(j)
             \/ Seal \/ Close \/ Abandon \/ UNCHANGED vars
      PROVE  Busy'
  <2> SUFFICES act' = act /\ UNCHANGED batch
    BY <1>1
  <2>1. CASE \E s \in Signals : \E status \in {"Succeeded", "Failed"} : Complete(s, status)
    BY <2>1 DEF Complete
  <2>2. ASSUME NEW j \in Jobs, Settlement(j) PROVE act' = act /\ UNCHANGED batch
    BY <2>2 DEF Settlement, Suppress, DropToken, FinishRecord, FinalizeRecord, DispatchFinal
  <2>3. ASSUME NEW j \in Jobs, Claim(j) \/ EndBody(j) \/ Cancel(j) PROVE act' = act /\ UNCHANGED batch
    BY <2>3 DEF Claim, EndBody, Cancel
  <2>4. CASE Seal \/ Close \/ Abandon \/ UNCHANGED vars
    BY <2>4 DEF Seal, Close, Abandon, vars
  <2> QED
    BY <1>7, <2>1, <2>2, <2>3, <2>4
<1> QED
  BY <1>2, <1>3, <1>4, <1>5, <1>6, <1>7 DEF Next, Submission

\* The members of a range that may be registered may be registered.
LEMMA LateTogether ==
  ASSUME RangeShape, NEW r \in Jobs, Late(r), NEW j \in range[r].jobs
  PROVE  Late(j)
<1>1. j \in Accepted
  BY DEF RangeShape
<1>2. ASSUME j \in Portion PROVE r \in Portion
  <2>1. range[r].jobs \cap Portion # {} /\ range[r].jobs # {}
    BY <1>2
  <2> QED
    BY <2>1 DEF RangeShape
<1> QED
  BY <1>1, <1>2 DEF Late

\* What most steps do to a record, as to its token.
TokenSame(x, y) ==
  /\ y.token <=> x.token
  /\ x.token => y.stage = x.stage /\ y.pending = x.pending

\* Nothing is delivered to a member that still waits.
PendingSame(x, y) ==
  y.stage = "Waiting" => (x.stage = "Waiting" /\ y.pending = x.pending) \/ y.pending = Fanin

Calmly(j) == TokenSame(rec[j], rec'[j]) /\ PendingSame(rec[j], rec'[j])

\* A record promoted, one without a token, and one of which another field is written.
LEMMA CalmMoved ==
  ASSUME NEW j, Moved(rec[j], rec'[j]), rec[j].token => rec[j].stage = "Waiting"
  PROVE  Calmly(j)
BY DEF Moved, Kept, TokenSame, PendingSame, Calmly

\* The same for a record that waits for nothing, or for everything still.
LEMMA CalmLeft ==
  ASSUME NEW j, rec[j].token = FALSE, rec'[j].token = FALSE,
         rec'[j].stage # "Waiting" \/ rec'[j].pending = Fanin
  PROVE  Calmly(j)
BY DEF TokenSame, PendingSame, Calmly

\* The same for one of which no field but these is written.
LEMMA CalmField ==
  ASSUME NEW j, rec[j] \in Record, NEW v,
         \/ rec'[j] = [rec[j] EXCEPT !.subs = v] \/ rec'[j] = [rec[j] EXCEPT !.deferred = v]
         \/ rec'[j] = [rec[j] EXCEPT !.member = v] \/ rec'[j] = rec[j]
  PROVE  Calmly(j)
<1>1. rec'[j].token = rec[j].token /\ rec'[j].stage = rec[j].stage /\ rec'[j].pending = rec[j].pending
  BY DEF Record
<1> QED
  BY <1>1 DEF TokenSame, PendingSame, Calmly

\* The steps that move no token and deliver nothing.
CalmStep ==
  \/ Enter \/ Admit \/ Charge \/ Commit \/ Recover \/ Register \/ SubscribeRange \/ Install
  \/ DropUnused \/ Subscribe \/ PublishPortion \/ DispatchPortion
  \/ \E s \in Signals : Call(s) \/ \E status \in {"Succeeded", "Failed"} : Complete(s, status)
  \/ \E t \in Threads : \/ Deliver(t) \/ TakeMembers(t) \/ DetachNext(t) \/ ActivateReady(t)
                        \/ DispatchActivation(t) \/ Return(t)
  \/ \E j \in Jobs : \/ DropToken(j) \/ FinishRecord(j) \/ FinalizeRecord(j) \/ DispatchFinal(j)
                     \/ Claim(j) \/ EndBody(j) \/ Cancel(j)
  \/ Seal \/ Close \/ Abandon \/ UNCHANGED vars

\* These steps leave every token of a record where it is.
LEMMA RecordsCalm ==
  ASSUME BookInv, Tokened, [Next]_vars, CalmStep
  PROVE  \A j \in Jobs : Calmly(j)
<1>0. TypeOK /\ ClassOK(Class) /\ rec \in [Jobs -> Record]
  BY DEF BookInv, TypeOK
<1>1. \A j \in Jobs : rec[j].token \in BOOLEAN /\ rec[j] \in Record
  BY <1>0 DEF Record
<1>2. \A j \in Jobs : rec[j].stage # "Waiting" \/ rec[j].pending = 0 => rec[j].token = FALSE
  BY <1>1 DEF Tokened
<1>3. \A j \in Jobs : Moved(rec[j], rec'[j]) => Calmly(j)
  BY CalmMoved DEF Tokened
<1>4. \A j \in Jobs : rec'[j] = rec[j] => Calmly(j)
  BY <1>1, CalmField
<1>5. NoRecord.token = FALSE /\ NoRecord.stage = "Out" /\ NewRecord.token = FALSE /\ NewRecord.pending = Fanin
  BY DEF NoRecord, NewRecord
<1>6. CASE rec' = rec
  BY <1>4, <1>6
<1>7. CASE SetClass(Dispatched)
  BY <1>0, <1>3, <1>7, DispatchEffect
<1>8. ASSUME NEW j \in Jobs, Claim(j) PROVE \A i \in Jobs : Calmly(i)
  <2>1. /\ rec[j].stage = "Ready" /\ rec'[j].stage = "Running" /\ Kept(rec[j], rec'[j])
        /\ \A i \in Jobs \ {j} : Moved(rec[i], rec'[i])
    BY <1>0, <1>8, ClaimEffect
  <2>2. Calmly(j)
    <3>1. rec[j].token = FALSE /\ rec'[j].token = FALSE
      BY <1>2, <2>1 DEF Kept
    <3> QED
      BY <2>1, <3>1, CalmLeft
  <2> QED
    BY <1>3, <2>1, <2>2
<1>9. ASSUME NEW t \in Threads, ActivateReady(t) PROVE \A i \in Jobs : Calmly(i)
  <2>1. PICK j \in Jobs : j = act[t].id
    BY <1>0, <1>9, ActFields DEF ActivateReady, Doing
  <2> DEFINE due == rec[j].stage = "Waiting" /\ rec[j].pending = 0 /\ ~rec[j].attaching
  <2>2. /\ \A i \in Jobs \ {j} : rec'[i] = rec[i]
        /\ Kept(rec[j], rec'[j]) /\ (~due => rec' = rec)
    BY <1>0, <1>9, <2>1, ReadyEffect
  <2>3. CASE ~due
    BY <1>4, <2>2, <2>3
  <2>4. CASE due
    <3>1. rec[j].token = FALSE /\ rec'[j].token = FALSE /\ rec[j].stage = "Waiting"
          /\ rec'[j].pending = rec[j].pending
      BY <1>2, <2>2, <2>4 DEF Kept
    <3>2. Calmly(j)
      BY <3>1 DEF Calmly, TokenSame, PendingSame
    <3> QED
      BY <1>4, <2>2, <3>2
  <2> QED
    BY <2>3, <2>4
<1>10. CASE PublishPortion
  <2>1. PICK b \in Nat, m \in Nat : b + m <= N /\ batch.portion = From(b, m)
    BY PortionFrom
  <2>2. /\ \A j \in Jobs \ Portion : rec'[j] = rec[j]
        /\ \A j \in Portion : PublishedAs(rec[j], rec'[j], j \in doomed')
    BY <1>0, <1>10, <2>1, PublishEffect, PortionFrom
  <2>3. ASSUME NEW j \in Jobs, j \in Portion PROVE Calmly(j)
    <3>1. PublishedAs(rec[j], rec'[j], j \in doomed')
      BY <2>2, <2>3
    <3>2. rec'[j].token = rec[j].token /\ rec'[j].pending = rec[j].pending
          /\ (rec'[j].stage = "Waiting" => rec[j].stage = "Waiting")
          /\ (rec[j].pending # 0 => rec'[j].stage = rec[j].stage)
      BY <3>1 DEF PublishedAs, OpenedAs, Completed
    <3>3. rec[j].token => rec[j].pending # 0
      BY <1>2
    <3> QED
      BY <3>2, <3>3 DEF Calmly, TokenSame, PendingSame
  <2> QED
    BY <1>4, <2>2, <2>3
<1>11. CASE Charge
  <2>1. CASE ~sealed /\ Fitting # 0
    <3>1. ASSUME NEW j \in Jobs, j \in Prepared' PROVE Calmly(j)
      <4>1. rec[j] = NoRecord /\ rec'[j] = [NewRecord EXCEPT !.stage = "Prepared"]
        BY <1>11, <2>1, <3>1, ChargeStaged
      <4>2. rec'[j].token = FALSE /\ rec'[j].stage # "Waiting"
        BY <4>1 DEF NewRecord, NoRecord
      <4> QED
        BY <1>5, <4>1, <4>2, CalmLeft
    <3> QED
      BY <1>4, <1>11, <2>1, <3>1, ChargeStaged
  <2>2. CASE sealed \/ Fitting = 0
    BY <1>4, <1>11, <2>2, ChargeStaged
  <2> QED
    BY <2>1, <2>2
<1>12. CASE Commit
  <2> DEFINE n == IF CommitFailure = "None" THEN Selected ELSE 0
             a == Len(batch.accepted)
             taken == a + 1 .. a + n
             prepared == [NewRecord EXCEPT !.stage = "Prepared"]
  <2>1. /\ \A j \in taken : rec[j] = prepared /\ rec'[j] = [prepared EXCEPT !.stage = "Waiting"]
        /\ \A j \in Jobs \ taken : rec'[j] = rec[j]
    BY <1>12, CommitStaged
  <2> HIDE DEF taken
  <2>2. ASSUME NEW j \in Jobs, j \in taken PROVE Calmly(j)
    <3>1. rec[j] = prepared /\ rec'[j] = [prepared EXCEPT !.stage = "Waiting"]
      BY <2>1, <2>2
    <3>2. rec[j].token = FALSE /\ rec'[j].token = FALSE /\ rec'[j].pending = Fanin
      BY <3>1 DEF NewRecord, NoRecord
    <3> QED
      BY <3>2, CalmLeft
  <2> QED
    BY <1>4, <2>1, <2>2
<1>13. CASE Recover
  <2>1. /\ \A j \in Prepared : rec[j] = [NewRecord EXCEPT !.stage = "Prepared"] /\ rec'[j] = NoRecord
        /\ \A j \in Jobs \ Prepared : rec'[j] = rec[j]
    BY <1>13, RecoverStaged
  <2>2. ASSUME NEW j \in Jobs, j \in Prepared PROVE Calmly(j)
    <3>1. rec[j] = [NewRecord EXCEPT !.stage = "Prepared"] /\ rec'[j] = NoRecord
      BY <2>1, <2>2
    <3>2. rec[j].token = FALSE
      BY <3>1 DEF NewRecord, NoRecord
    <3> QED
      BY <1>5, <3>1, <3>2, CalmLeft
  <2> QED
    BY <1>4, <2>1, <2>2
<1>14. CASE Register
  BY <1>1, <1>14, RegisterStaged, CalmField
<1>15. CASE Subscribe
  <2>1. CASE batch.todo = {}
    BY <1>4, <1>15, <2>1 DEF Subscribe
  <2>2. CASE batch.todo # {}
    <3>1. PICK e \in batch.todo : rec' = [rec EXCEPT ![e[1]].subs = @ \cup {e[2]}]
      BY <1>15, <2>2 DEF Subscribe
    <3>2. \A j \in Jobs : rec'[j] = rec[j] \/ rec'[j] = [rec[j] EXCEPT !.subs = rec[j].subs \cup {e[2]}]
      BY <1>0, <3>1
    <3> QED
      BY <1>1, <3>2, CalmField
  <2> QED
    BY <2>1, <2>2
<1>16. ASSUME NEW j \in Jobs, FinishRecord(j) PROVE \A i \in Jobs : Calmly(i)
  <2>1. \A i \in Jobs : rec'[i] = rec[i] \/ rec'[i] = [rec[i] EXCEPT !.deferred = TRUE]
                        \/ rec'[i] = [rec[i] EXCEPT !.subs = {}]
    BY <1>0, <1>16 DEF FinishRecord
  <2> QED
    BY <1>1, <2>1, CalmField
<1>17. ASSUME NEW j \in Jobs, EndBody(j) PROVE \A i \in Jobs : Calmly(i)
  <2>1. rec[j].stage = "Running" /\ rec' = [rec EXCEPT ![j].stage = "Finalizing"]
    BY <1>17 DEF EndBody
  <2>2. rec'[j] = [rec[j] EXCEPT !.stage = "Finalizing"] /\ \A i \in Jobs \ {j} : rec'[i] = rec[i]
    BY <1>0, <2>1
  <2>3. rec'[j].token = rec[j].token /\ rec'[j].stage = "Finalizing" /\ rec[j].token = FALSE
    BY <1>1, <1>2, <2>1, <2>2 DEF Record
  <2> QED
    BY <1>4, <2>2, <2>3, CalmLeft
<1>18. ASSUME NEW j \in Jobs, FinalizeRecord(j) PROVE \A i \in Jobs : Calmly(i)
  <2>1. /\ rec[j].stage = "Finalizing" /\ rec'[j] = [NoRecord EXCEPT !.stage = "Gone"]
        /\ \A i \in Jobs \ {j} : rec'[i] = rec[i]
    BY <1>18, FinalizeStaged
  <2>2. rec'[j].token = FALSE /\ rec'[j].stage = "Gone" /\ rec[j].token = FALSE
    BY <1>2, <2>1 DEF NoRecord
  <2> QED
    BY <1>4, <2>1, <2>2, CalmLeft
<1>19. CASE Enter \/ Admit \/ SubscribeRange \/ Install \/ DropUnused
  BY <1>6, <1>19 DEF Enter, Admit, SubscribeRange, Install, DropUnused
<1>20. ASSUME NEW s \in Signals, Call(s) \/ \E status \in {"Succeeded", "Failed"} : Complete(s, status)
       PROVE  rec' = rec
  BY <1>20 DEF Call, Complete
<1>21. ASSUME NEW t \in Threads, Deliver(t) \/ TakeMembers(t) \/ DetachNext(t) \/ Return(t)
       PROVE  rec' = rec
  BY <1>21 DEF Deliver, TakeMembers, DetachNext, Return
<1>22. ASSUME NEW j \in Jobs, DropToken(j) \/ Cancel(j) PROVE rec' = rec
  BY <1>22 DEF DropToken, Cancel
<1>23. CASE Seal \/ Close \/ Abandon \/ UNCHANGED vars
  BY <1>6, <1>23 DEF Seal, Close, Abandon, vars
<1>24. CASE DispatchPortion
  BY <1>7, <1>24 DEF DispatchPortion
<1>25. ASSUME NEW t \in Threads, DispatchActivation(t) PROVE \A i \in Jobs : Calmly(i)
  BY <1>7, <1>25 DEF DispatchActivation
<1>26. ASSUME NEW j \in Jobs, DispatchFinal(j) PROVE \A i \in Jobs : Calmly(i)
  BY <1>7, <1>26 DEF DispatchFinal
<1> QED
  <2>1. CASE \E s \in Signals : Call(s) \/ \E status \in {"Succeeded", "Failed"} : Complete(s, status)
    BY <1>6, <1>20, <2>1
  <2>2. CASE \E t \in Threads : \/ Deliver(t) \/ TakeMembers(t) \/ DetachNext(t) \/ ActivateReady(t)
                        \/ DispatchActivation(t) \/ Return(t)
    BY <1>6, <1>9, <1>21, <1>25, <2>2
  <2>3. CASE \E j \in Jobs : \/ DropToken(j) \/ FinishRecord(j) \/ FinalizeRecord(j) \/ DispatchFinal(j)
                     \/ Claim(j) \/ EndBody(j) \/ Cancel(j)
    BY <1>6, <1>8, <1>16, <1>17, <1>18, <1>22, <1>26, <2>3
  <2> QED
    BY <1>10, <1>11, <1>12, <1>13, <1>14, <1>15, <1>19, <1>23, <1>24, <2>1, <2>2, <2>3 DEF CalmStep

\* Who still has to drop a token when settling, step by step.
LEMMA SettlingCalm ==
  ASSUME BookInv, [Next]_vars, NEW j \in Jobs, ~DropToken(j), \A i \in Jobs : ~Suppress(i)
  PROVE  settling'[j] = "token" <=> settling[j] = "token"
<1>0. Staged /\ settling \in [Jobs -> Marks]
  BY DEF BookInv, TypeOK, Marks
<1>1. ASSUME settling' = settling PROVE settling'[j] = "token" <=> settling[j] = "token"
  BY <1>1
<1>2. ASSUME NEW i \in Jobs, NEW m \in Marks, settling' = [settling EXCEPT ![i] = m],
             i = j => m # "token" /\ settling[j] # "token"
      PROVE  settling'[j] = "token" <=> settling[j] = "token"
  BY <1>0, <1>2
<1>3. CASE PublishPortion
  <2>1. settling'[j] = IF j \in Portion /\ rec[j].deferred THEN "finish" ELSE settling[j]
    BY <1>3 DEF PublishPortion
  <2>2. rec[j].deferred => settling[j] = "none"
    BY <1>0 DEF Staged, JobStaged
  <2> QED
    BY <2>1, <2>2
<1>4. ASSUME NEW i \in Jobs, DropToken(i) PROVE settling'[j] = "token" <=> settling[j] = "token"
  <2>1. settling' = [settling EXCEPT ![i] = "finish"] /\ i # j
    BY <1>4 DEF DropToken
  <2> QED
    BY <1>2, <2>1 DEF Marks
<1>5. ASSUME NEW i \in Jobs, FinishRecord(i) \/ FinalizeRecord(i) \/ DispatchFinal(i)
      PROVE settling'[j] = "token" <=> settling[j] = "token"
  <2>1. settling[i] # "token" /\ \E m \in {"none", "finalize", "dispatch"} : settling' = [settling EXCEPT ![i] = m]
    BY <1>5 DEF FinishRecord, FinalizeRecord, DispatchFinal
  <2> QED
    BY <1>2, <2>1 DEF Marks
<1>6. ASSUME NEW i \in Jobs, EndBody(i) PROVE settling'[j] = "token" <=> settling[j] = "token"
  <2>1. settling' = [settling EXCEPT ![i] = "finish"] /\ rec[i].stage = "Running"
    BY <1>6 DEF EndBody
  <2>2. settling[i] # "token"
    BY <1>0, <2>1 DEF Staged, JobStaged
  <2> QED
    BY <1>2, <2>1, <2>2 DEF Marks
<1>7. ASSUME NEW i \in Jobs, Claim(i) \/ Cancel(i) PROVE settling' = settling
  BY <1>7 DEF Claim, Cancel
<1>8. CASE Enter \/ Admit \/ Charge \/ Commit \/ Recover \/ Register \/ Token \/ SubscribeRange
           \/ Install \/ DropUnused \/ Subscribe \/ DispatchPortion
  <2>1. settling' = settling
    BY <1>8 DEF Enter, Admit, Charge, Commit, Recover, Register, Token, SubscribeRange,
       Install, DropUnused, Subscribe, DispatchPortion
  <2> QED
    BY <1>1, <2>1
<1>9. ASSUME NEW s \in Signals, Call(s) \/ \E status \in {"Succeeded", "Failed"} : Complete(s, status)
      PROVE  settling' = settling
  BY <1>9 DEF Call, Complete
<1>10. ASSUME NEW t \in Threads, Activation(t) PROVE settling' = settling
  BY <1>10 DEF Activation, Deliver, TakeMembers, ActivateRange, DetachNext, ActivateOne, ActivateReady,
     DispatchActivation, Return
<1>11. CASE Seal \/ Close \/ Abandon \/ UNCHANGED vars
  BY <1>1, <1>11 DEF Seal, Close, Abandon, vars
<1> QED
  BY <1>1, <1>3, <1>4, <1>5, <1>6, <1>7, <1>8, <1>9, <1>10, <1>11 DEF Next, Submission, Settlement

\* Who still has to be detached by a delivery, step by step.
LEMMA DetachCalm ==
  ASSUME BookInv, Busy, [Next]_vars, NEW j,
         \A t \in Threads : ~ActivateRange(t) /\ (DetachNext(t) => act[t].jobs = {})
  PROVE  InDetach(j)' <=> InDetach(j)
<1>0. TypeOK /\ Idle.step = "idle" /\ act \in [Threads -> {Idle} \cup Activity] /\ Submitter \in Threads
      /\ Ordered /\ Phased /\ Ranged
  BY DEF BookInv, TypeOK, Idle, Threads
<1>1. ASSUME act' = act PROVE InDetach(j)' <=> InDetach(j)
  BY <1>1 DEF InDetach
<1>2. ASSUME NEW t \in Threads, \A u \in Threads \ {t} : act'[u] = act[u], act'[t].step # "detach",
             act[t].step # "detach" \/ act[t].jobs = {}
      PROVE  InDetach(j)' <=> InDetach(j)
  <2>1. ASSUME InDetach(j) PROVE InDetach(j)'
    BY <1>2, <2>1 DEF InDetach
  <2>2. ASSUME InDetach(j)' PROVE InDetach(j)
    BY <1>2, <2>2 DEF InDetach
  <2> QED
    BY <2>1, <2>2
<1>3. ASSUME NEW id \in Jobs, NEW s \in Signals, NEW step \in {"deliver", "single"},
             Subscribed(id, s, step), act[Submitter].step = "idle"
      PROVE  InDetach(j)' <=> InDetach(j)
  <2>1. CASE act' = act
    BY <1>1, <2>1
  <2>2. CASE act'[Submitter].step = step /\ \A u \in Threads \ {Submitter} : act'[u] = act[u]
    BY <1>0, <1>2, <1>3, <2>2
  <2> QED
    BY <1>0, <1>3, <2>1, <2>2, SubscribedForm
<1>4. CASE SubscribeRange
  <2>1. act[Submitter].step = "idle" /\ batch.pc \in Ranging /\ batch.pc \in Attaching \cup {"register"}
    BY <1>4 DEF Busy, SubscribeRange, At, Ranging, Attaching
  <2>2. RangeOf(Head(batch.portion)) \in Jobs /\ Only \in Signals
    BY <1>0, <2>1, HeadIn
  <2> QED
    BY <1>3, <1>4, <2>1, <2>2 DEF SubscribeRange
<1>5. CASE Subscribe
  <2>1. CASE batch.todo = {}
    BY <1>1, <1>5, <2>1 DEF Subscribe
  <2>2. CASE batch.todo # {}
    <3>1. PICK e \in batch.todo : Subscribed(e[1], e[2], "single")
      BY <1>5, <2>2 DEF Subscribe
    <3>2. batch.todo \subseteq Portion \X Prereqs /\ Portion \subseteq Jobs /\ Prereqs \subseteq Signals
      BY <1>0, <1>5, Disjoint, FaninIn DEF Ranged, Subscribe
    <3>3. e[1] \in Jobs /\ e[2] \in Signals
      BY <3>2
    <3>4. act[Submitter].step = "idle"
      BY <1>0, <1>5 DEF Subscribe
    <3> QED
      BY <1>3, <3>1, <3>3, <3>4
  <2> QED
    BY <2>1, <2>2
<1>6. ASSUME NEW s \in Signals, Call(s) PROVE InDetach(j)' <=> InDetach(j)
  <2>0. PICK c \in owed :
          act' = [act EXCEPT ![s] = [step |-> IF range[c[1]] # NoRange THEN "deliver" ELSE "single",
                                     id |-> c[1], status |-> signal[s], jobs |-> {}]]
    BY <1>6 DEF Call
  <2> DEFINE x == [step |-> IF range[c[1]] # NoRange THEN "deliver" ELSE "single",
                   id |-> c[1], status |-> signal[s], jobs |-> {}]
  <2>1. act' = [act EXCEPT ![s] = x] /\ x.step \in {"deliver", "single"}
    BY <2>0
  <2> HIDE DEF x
  <2>2. s \in Threads /\ act[s].step = "idle"
    BY <1>0, <1>6 DEF Threads, Call
  <2>3. act'[s] = x /\ \A u \in Threads \ {s} : act'[u] = act[u]
    BY <1>0, <2>1, <2>2
  <2> QED
    BY <1>2, <2>1, <2>2, <2>3
<1>7. ASSUME NEW t \in Threads, Activation(t) PROVE InDetach(j)' <=> InDetach(j)
  <2>1. ASSUME NEW st, Then(t, st), st # "detach", act[t].step # "idle",
               act[t].step # "detach" \/ act[t].jobs = {}
        PROVE  InDetach(j)' <=> InDetach(j)
    BY <1>0, <1>2, <2>1, ThenForm
  <2>2. ASSUME act' = [act EXCEPT ![t] = Idle], act[t].step # "detach"
        PROVE  InDetach(j)' <=> InDetach(j)
    <3>1. act'[t].step = "idle" /\ \A u \in Threads \ {t} : act'[u] = act[u]
      BY <1>0, <2>2
    <3> QED
      BY <1>2, <2>2, <3>1
  <2>3. CASE Deliver(t)
    BY <2>1, <2>2, <2>3 DEF Deliver, Doing
  <2>4. CASE TakeMembers(t)
    <3> DEFINE st == IF range[act[t].id].members = {} THEN "stop" ELSE "activate"
               x == [[act[t] EXCEPT !.jobs = range[act[t].id].members] EXCEPT !.step = st]
    <3>1. act' = [act EXCEPT ![t] = x] /\ act[t].step = "take"
      BY <2>4 DEF TakeMembers, Doing
    <3>2. x.step # "detach"
      BY <1>0, <3>1, ActFields DEF Activity
    <3> HIDE DEF x
    <3>3. act'[t] = x /\ \A u \in Threads \ {t} : act'[u] = act[u]
      BY <1>0, <3>1
    <3> QED
      BY <1>2, <3>1, <3>2, <3>3
  <2>5. CASE DetachNext(t)
    BY <2>1, <2>5 DEF DetachNext, Doing
  <2>6. CASE ActivateOne(t)
    BY <2>1, <2>6 DEF ActivateOne, Doing
  <2>7. CASE ActivateReady(t) \/ DispatchActivation(t)
    BY <2>1, <2>7 DEF ActivateReady, DispatchActivation, Doing
  <2>8. CASE Return(t)
    BY <2>2, <2>8 DEF Return, Doing
  <2> QED
    BY <1>7, <2>3, <2>4, <2>5, <2>6, <2>7, <2>8 DEF Activation
<1>8. CASE Enter \/ Admit \/ Charge \/ Commit \/ Recover \/ Register \/ Token \/ Install \/ DropUnused
             \/ PublishPortion \/ DispatchPortion
  <2>1. act' = act
    BY <1>8 DEF Enter, Admit, Charge, Commit, Recover, Register, Token, Install, DropUnused,
       PublishPortion, DispatchPortion
  <2> QED
    BY <1>1, <2>1
<1>9. ASSUME \/ \E s \in Signals : \E status \in {"Succeeded", "Failed"} : Complete(s, status)
             \/ \E i \in Jobs : Settlement(i) \/ Claim(i) \/ EndBody(i) \/ Cancel(i)
             \/ Seal \/ Close \/ Abandon \/ UNCHANGED vars
      PROVE  act' = act
  <2>1. CASE \E s \in Signals : \E status \in {"Succeeded", "Failed"} : Complete(s, status)
    BY <2>1 DEF Complete
  <2>2. ASSUME NEW i \in Jobs, Settlement(i) PROVE act' = act
    BY <2>2 DEF Settlement, Suppress, DropToken, FinishRecord, FinalizeRecord, DispatchFinal
  <2>3. ASSUME NEW i \in Jobs, Claim(i) \/ EndBody(i) \/ Cancel(i) PROVE act' = act
    BY <2>3 DEF Claim, EndBody, Cancel
  <2>4. CASE Seal \/ Close \/ Abandon \/ UNCHANGED vars
    BY <2>4 DEF Seal, Close, Abandon, vars
  <2> QED
    BY <1>9, <2>1, <2>2, <2>3, <2>4
<1> QED
  BY <1>1, <1>4, <1>5, <1>6, <1>7, <1>8, <1>9 DEF Next, Submission

\* Who still has to be given a token, step by step.
LEMMA TodoCalm ==
  ASSUME BookInv, [Next]_vars, ~Register, ~Token, NEW j
  PROVE  batch'.pc = "tokens" /\ j \in batch'.todo <=> batch.pc = "tokens" /\ j \in batch.todo
<1>0. TypeOK
  BY DEF BookInv
<1>1. CASE Outside
  BY <1>1, OutsideSteps
<1>2. CASE Submission
  <2>1. batch.pc # "tokens" /\ batch'.pc # "tokens"
    BY <1>0, <1>2, PcSteps DEF Submission, Before
  <2> QED
    BY <2>1
<1> QED
  BY <1>1, <1>2, OutsideSteps

\* Tokened, for one job.
JobToken(j) ==
  /\ rec[j].token => rec[j].stage = "Waiting" /\ rec[j].pending > 0 /\ InRange(j)
  /\ settling[j] = "token" => InRange(j)
  /\ batch.pc = "tokens" /\ j \in batch.todo => ~rec[j].token /\ settling[j] # "token"
  /\ InDetach(j) => ~rec[j].token /\ settling[j] # "token"
  /\ ~Late(j) /\ rec[j].stage = "Waiting" => rec[j].pending = Fanin

\* The tokens are where they should be when those of each job are.
LEMMA JobTokens ==
  ASSUME BookInv, [Next]_vars, \A j \in Jobs : JobToken(j)'
  PROVE  Tokened'
<1>1. TypeOK' /\ Ranged'
  BY TypeStep, RangedStep
<1>2. Portion' \subseteq Jobs
  <2>1. batch'.portion \in Seq(Jobs)
    BY <1>1 DEF TypeOK, Batch
  <2> QED
    BY <2>1, Elements DEF Portion
<1>3. batch'.pc = "tokens" => batch'.todo \subseteq Jobs
  BY <1>1, <1>2 DEF Ranged, At
<1> QED
  BY <1>3 DEF Tokened, JobToken, At

\* Who is in a range stays in one.
LEMMA InRangeKept ==
  ASSUME BookInv, RangeShape, [Next]_vars, NEW j, InRange(j)
  PROVE  InRange(j)'
<1>1. CASE ~Register
  BY <1>1, RangeTypesStep DEF InRange
<1>2. CASE Register
  <2>1. PICK r \in Jobs : r = Head(batch.portion)
    BY <1>2, RegisterForm
  <2>2. range[r] = NoRange /\ \A q \in Jobs \ {r} : range'[q] = range[q]
    BY <1>2, <2>1, RegisterForm
  <2> QED
    BY <2>2 DEF InRange, NoRange
<1> QED
  BY <1>1, <1>2

\* What a step may do to a job whose token is where it should be.
LEMMA JobTokenOf ==
  ASSUME BookInv, RangeShape, Tokened, [Next]_vars, NEW j \in Jobs,
         rec'[j].token => rec[j].token /\ rec'[j].stage = rec[j].stage /\ rec'[j].pending = rec[j].pending,
         settling'[j] = "token" => settling[j] = "token" \/ (rec[j].token /\ ~rec'[j].token),
         batch'.pc = "tokens" /\ j \in batch'.todo =>
           (At("tokens") /\ j \in batch.todo) \/ (~rec'[j].token /\ settling'[j] # "token"),
         InDetach(j)' => InDetach(j) \/ (~rec'[j].token /\ settling'[j] # "token"),
         PendingSame(rec[j], rec'[j]) \/ Late(j)
  PROVE  JobToken(j)'
<1>1. InRange(j) => InRange(j)'
  BY InRangeKept
<1>2. Late(j) => Late(j)'
  BY LateStep
<1>3. Fanin' = Fanin
  BY OptionsStep
<1>4. JobToken(j)
  BY DEF Tokened, JobToken, At
<1>5. rec'[j].token => rec'[j].stage = "Waiting" /\ rec'[j].pending > 0 /\ InRange(j)'
  BY <1>1, <1>4 DEF JobToken
<1>6. settling'[j] = "token" => InRange(j)'
  BY <1>1, <1>4 DEF JobToken
<1>7. batch'.pc = "tokens" /\ j \in batch'.todo => ~rec'[j].token /\ settling'[j] # "token"
  BY <1>4 DEF JobToken, At
<1>8. InDetach(j)' => ~rec'[j].token /\ settling'[j] # "token"
  BY <1>4 DEF JobToken
<1>9. ~Late(j)' /\ rec'[j].stage = "Waiting" => rec'[j].pending = Fanin'
  BY <1>2, <1>3, <1>4 DEF JobToken, PendingSame
<1> QED
  BY <1>5, <1>6, <1>7, <1>8, <1>9 DEF JobToken

\* The thread that activates a range keeps the tokens it took.
LEMMA ActivateForm ==
  ASSUME BookInv, RangeShape, Registered, NEW t \in Threads, ActivateRange(t)
  PROVE  LET reached == {j \in act[t].jobs : Reached(j)}
         IN  /\ act[t].step = "activate" /\ act[t].id \in Jobs /\ act[t].jobs \in SUBSET Jobs
             /\ act[t].jobs \subseteq range[act[t].id].jobs
             /\ act'[t].step = "detach" /\ act'[t].id = act[t].id
             /\ act'[t].jobs = {j \in reached : rec[j].token}
             /\ \A u \in Threads \ {t} : act'[u] = act[u]
             /\ UNCHANGED <<batch, settling, range, stored>>
             /\ \A j \in Jobs \ reached : rec'[j] = rec[j]
             /\ \A j \in reached : rec'[j].token = FALSE /\ Late(j)
<1>0. TypeOK /\ ClassOK(Class) /\ act[t].step = "activate" /\ act[t].step \in Carrying
      /\ act \in [Threads -> {Idle} \cup Activity] /\ act[t].step # "idle"
  BY DEF BookInv, TypeOK, ActivateRange, Doing, Carrying
<1> DEFINE reached == {j \in act[t].jobs : Reached(j)}
           S == {j \in reached : rec[j].token}
           x == [[act[t] EXCEPT !.step = "detach"] EXCEPT !.jobs = S]
<1>1. act[t].id \in Jobs /\ act[t].jobs \in SUBSET Jobs /\ act[t].jobs \subseteq range[act[t].id].jobs
      /\ Late(act[t].id)
  BY <1>0, ActFields DEF Registered, ThreadOK
<1>2. act' = [act EXCEPT ![t] = x] /\ UNCHANGED <<batch, settling, range, stored>>
  BY DEF ActivateRange
<1>3. /\ \A i \in Jobs \ reached : rec'[i] = rec[i]
      /\ \A i \in reached : ReachedAs(rec[i], rec'[i], act[t].status, i \in doomed')
  BY <1>0, <1>1, RangeEffect
<1>4. \A i \in reached : rec'[i].token = FALSE /\ Late(i)
  <2>1. ASSUME NEW i \in reached PROVE rec'[i].token = FALSE
    BY <1>3, <2>1 DEF ReachedAs, DeliveredAs
  <2>2. ASSUME NEW i \in reached PROVE Late(i)
    <3>1. i \in range[act[t].id].jobs
      BY <1>1
    <3> QED
      BY <1>1, <3>1, LateTogether
  <2> QED
    BY <2>1, <2>2
<1> HIDE DEF S, reached
<1>5. x.id = act[t].id /\ x.step = "detach" /\ x.jobs = S
  BY <1>0, ActFields DEF Activity
<1> HIDE DEF x
<1>6. act'[t] = x /\ \A u \in Threads \ {t} : act'[u] = act[u]
  BY <1>0, <1>2
<1> QED
  BY <1>0, <1>1, <1>2, <1>3, <1>4, <1>5, <1>6 DEF S, reached

\* A member the submitter still gives a token to is in no delivery.
LEMMA TodoFree ==
  ASSUME BookInv, RangeShape, Registered, At("tokens"), NEW j \in batch.todo
  PROVE  ~InDetach(j)
<1>0. TypeOK /\ Ordered /\ Phased /\ Ranged /\ batch.pc \in Fresh
  BY DEF BookInv, At, Fresh
<1>1. j \in Portion
  BY <1>0 DEF Ranged
<1>2. SUFFICES ASSUME NEW t \in Threads, act[t].step = "detach", j \in act[t].jobs PROVE FALSE
  BY DEF InDetach
<1>3. act[t].id \in Jobs /\ act[t].step \in Carrying /\ act[t].step # "idle"
  BY <1>0, <1>2, ActFields DEF Carrying
<1>4. PICK r \in Jobs : r = act[t].id
  BY <1>3
<1>5. Late(r) /\ j \in range[r].jobs
  BY <1>2, <1>3, <1>4 DEF Registered, ThreadOK
<1>6. Late(j)
  BY <1>5, LateTogether
<1> QED
  BY <1>0, <1>1, <1>6 DEF Late

\* A job whose token a suppression takes, if it has one.
LEMMA TokenedSuppress ==
  ASSUME BookInv, RangeShape, Tokened, [Next]_vars, NEW i \in Jobs, Suppress(i)
  PROVE  Tokened'
<1>0. TypeOK /\ ClassOK(Class) /\ settling \in [Jobs -> Marks] /\ rec \in [Jobs -> Record]
  BY DEF BookInv, TypeOK, Marks
<1>1. UNCHANGED <<batch, act>>
  BY DEF Suppress
<1>2. ASSUME NEW j \in Jobs PROVE JobToken(j)'
  <2>1. InDetach(j)' <=> InDetach(j)
    BY <1>1 DEF InDetach
  <2>2. batch'.pc = "tokens" /\ j \in batch'.todo => At("tokens") /\ j \in batch.todo
    BY <1>1 DEF At
  <2>3. ASSUME Calmly(j), settling'[j] = settling[j] PROVE JobToken(j)'
    BY <2>1, <2>2, <2>3, JobTokenOf DEF Calmly, TokenSame
  <2>4. CASE ~Wins(i)
    <3>1. rec' = rec /\ settling' = settling
      BY <1>0, <2>4, SuppressEffect
    <3>2. rec'[j] = rec[j] /\ rec[j] \in Record
      BY <1>0, <3>1
    <3>3. Calmly(j)
      BY <3>2, CalmField
    <3> QED
      BY <2>3, <3>1, <3>3
  <2>5. CASE Wins(i) /\ i # j
    <3>1. Moved(rec[j], rec'[j]) /\ settling'[j] = settling[j]
      BY <1>0, <2>5, SuppressEffect
    <3>2. Calmly(j)
      BY <3>1, CalmMoved DEF Tokened
    <3> QED
      BY <2>3, <3>1, <3>2
  <2>6. CASE Wins(i) /\ i = j
    <3>1. /\ rec'[j].token = FALSE /\ rec'[j].stage = "Finalizing"
          /\ settling'[j] = "token" => rec[j].token
      BY <1>0, <2>6, SuppressEffect DEF SuppressedAs
    <3>2. PendingSame(rec[j], rec'[j])
      BY <3>1 DEF PendingSame
    <3> QED
      BY <2>1, <2>2, <3>1, <3>2, JobTokenOf
  <2> QED
    BY <2>4, <2>5, <2>6
<1> QED
  BY <1>2, JobTokens

\* The tokens of the members that a delivery reaches.
LEMMA TokenedActivate ==
  ASSUME BookInv, RangeShape, Registered, Tokened, [Next]_vars, NEW t \in Threads, ActivateRange(t)
  PROVE  Tokened'
<1> DEFINE reached == {j \in act[t].jobs : Reached(j)}
<1>1. /\ act'[t].jobs = {j \in reached : rec[j].token}
      /\ \A u \in Threads \ {t} : act'[u] = act[u]
      /\ UNCHANGED <<batch, settling>>
      /\ \A j \in Jobs \ reached : rec'[j] = rec[j]
      /\ \A j \in reached : rec'[j].token = FALSE /\ Late(j)
  BY ActivateForm
<1>2. rec \in [Jobs -> Record] /\ Staged
  BY DEF BookInv, TypeOK
<1>3. \A j \in reached : rec[j].stage = "Waiting"
  BY DEF Reached
<1> HIDE DEF reached
<1>4. ASSUME NEW j \in Jobs PROVE JobToken(j)'
  <2>1. batch'.pc = "tokens" /\ j \in batch'.todo => At("tokens") /\ j \in batch.todo
    BY <1>1 DEF At
  <2>2. InDetach(j)' => InDetach(j) \/ j \in act'[t].jobs
    BY <1>1 DEF InDetach
  <2>3. CASE j \in reached
    <3>1. rec'[j].token = FALSE /\ Late(j) /\ settling'[j] = settling[j]
      BY <1>1, <2>3
    <3>2. settling[j] # "token"
      BY <1>2, <1>3, <2>3 DEF Staged, JobStaged
    <3> QED
      BY <2>1, <2>2, <3>1, <3>2, JobTokenOf
  <2>4. CASE j \notin reached
    <3>1. rec'[j] = rec[j] /\ settling'[j] = settling[j] /\ rec[j] \in Record /\ (InDetach(j)' => InDetach(j))
      BY <1>1, <1>2, <2>2, <2>4
    <3>2. Calmly(j)
      BY <3>1, CalmField
    <3> QED
      BY <2>1, <3>1, <3>2, JobTokenOf DEF Calmly, TokenSame
  <2> QED
    BY <2>3, <2>4
<1> QED
  BY <1>4, JobTokens

\* The token that the submitter gives, or drops for a member that is finalizing.
LEMMA TokenGiven ==
  ASSUME BookInv, RangeShape, Registered, Tokened, Token
  PROVE  LET j == Least(batch.todo)
         IN  rec[j].stage # "Finalizing" =>
               /\ rec[j].stage = "Waiting" /\ rec[j].pending = Fanin /\ Fanin = 1 /\ InRange(j)
               /\ ~InDetach(j)
<1>1. PICK j : j = Least(batch.todo)
  OBVIOUS
<1>2. j \in batch.todo /\ j \in Portion /\ j \in Jobs /\ Head(batch.portion) \in Jobs
      /\ range[Head(batch.portion)].jobs = Portion
  BY <1>1, TokenForm
<1>3. TypeOK /\ Ordered /\ Ranged /\ Staged /\ At("tokens") /\ batch.pc = "tokens"
  BY DEF BookInv, Token, At
<1>4. j \in Accepted /\ ~Late(j)
  BY <1>2, <1>3, Disjoint DEF Late, Fresh
<1>5. rec[j].stage \in {"Waiting", "Finalizing"}
  <2>1. JobStaged(j)
    BY <1>2, <1>3 DEF Staged
  <2>2. rec[j].attaching
    BY <1>2, <1>3, <2>1 DEF JobStaged, At
  <2>3. rec[j].stage # "Prepared"
    BY <1>4, <2>1 DEF JobStaged, Live
  <2> QED
    BY <2>1, <2>2, <2>3 DEF JobStaged
<1>6. InRange(j) /\ ~InDetach(j) /\ Fanin = 1
  BY <1>2, <1>3, TodoFree DEF InRange, Ranged, Ranging
<1>7. rec[j].stage = "Waiting" => rec[j].pending = Fanin
  BY <1>2, <1>4 DEF Tokened
<1> QED
  BY <1>1, <1>5, <1>6, <1>7

\* The token just given or dropped leaves nothing to give.
LEMMA TokenedToken ==
  ASSUME BookInv, RangeShape, Registered, Tokened, [Next]_vars, Token
  PROVE  Tokened'
<1>1. PICK k : k = Least(batch.todo)
  OBVIOUS
<1>2. /\ k \in batch.todo /\ k \in Jobs /\ batch'.todo = batch.todo \ {k}
      /\ rec[k].stage = "Finalizing" => UNCHANGED rec
      /\ rec[k].stage # "Finalizing" => rec' = [rec EXCEPT ![k].token = TRUE]
      /\ UNCHANGED <<act, settling>>
  BY <1>1, TokenForm
<1>3. At("tokens") /\ rec \in [Jobs -> Record]
  BY DEF Token, BookInv, TypeOK
<1>4. ASSUME NEW j \in Jobs PROVE JobToken(j)'
  <2>1. InDetach(j)' <=> InDetach(j)
    BY <1>2 DEF InDetach
  <2>2. batch'.pc = "tokens" /\ j \in batch'.todo => At("tokens") /\ j \in batch.todo
    BY <1>2, <1>3
  <2>3. CASE rec'[j] = rec[j]
    <3>1. Calmly(j)
      BY <1>3, <2>3, CalmField
    <3> QED
      BY <1>2, <2>1, <2>2, <2>3, <3>1, JobTokenOf DEF Calmly, TokenSame
  <2>4. CASE rec'[j] # rec[j]
    <3>1. j = k /\ rec[j].stage # "Finalizing" /\ rec'[j] = [rec[j] EXCEPT !.token = TRUE]
      BY <1>2, <1>3, <2>4
    <3>2. rec[j].stage = "Waiting" /\ rec[j].pending = Fanin /\ Fanin = 1 /\ InRange(j) /\ ~InDetach(j)
      BY <1>1, <3>1, TokenGiven
    <3>3. rec'[j].stage = "Waiting" /\ rec'[j].pending = Fanin
      BY <1>3, <3>1, <3>2 DEF Record
    <3>4. InRange(j)' /\ Fanin' = Fanin
      BY <3>2, InRangeKept, OptionsStep
    <3>5. j \notin batch'.todo /\ ~InDetach(j)'
      BY <1>2, <2>1, <3>1, <3>2
    <3> QED
      BY <3>2, <3>3, <3>4, <3>5 DEF JobToken
  <2> QED
    BY <2>3, <2>4
<1> QED
  BY <1>4, JobTokens

\* Who gets into a new range has no token yet.
LEMMA TokenedRegister ==
  ASSUME BookInv, RangeShape, Registered, Tokened, [Next]_vars, Register
  PROVE  Tokened'
<1>0. CalmStep
  BY DEF CalmStep
<1>1. /\ UNCHANGED <<act, settling>> /\ batch.pc = "register"
      /\ batch'.pc = "tokens" => batch'.todo = Portion
  BY RegisterForm
<1>2. ASSUME NEW j \in Portion PROVE ~InRange(j)
  BY <1>1, <1>2 DEF RangeShape, InRange, Early
<1>3. ASSUME NEW j \in Jobs PROVE JobToken(j)'
  <2>1. Calmly(j)
    BY <1>0, RecordsCalm
  <2>2. InDetach(j)' <=> InDetach(j)
    BY <1>1 DEF InDetach
  <2>3. j \in Portion => ~rec[j].token /\ settling[j] # "token"
    BY <1>2 DEF Tokened
  <2> QED
    BY <1>1, <2>1, <2>2, <2>3, JobTokenOf DEF Calmly, TokenSame
<1> QED
  BY <1>3, JobTokens

\* A single member reached.
LEMMA OneForm ==
  ASSUME BookInv, Registered, Tokened, NEW t \in Threads, ActivateOne(t), NEW j \in Jobs
  PROVE  /\ TokenSame(rec[j], rec'[j]) /\ (PendingSame(rec[j], rec'[j]) \/ Late(j))
         /\ UNCHANGED <<batch, settling, range, stored>>
<1>0. TypeOK /\ rec \in [Jobs -> Record] /\ act[t].step = "single"
      /\ UNCHANGED <<batch, settling, range, stored>>
  BY DEF BookInv, TypeOK, ActivateOne, Doing
<1>1. PICK i \in Jobs : i = act[t].id
  BY <1>0, ActFields
<1>2. ~InRange(i) /\ Late(i)
  BY <1>0, <1>1 DEF Registered, ThreadOK
<1>3. rec[i].token = FALSE /\ rec[i] \in Record /\ rec[j] \in Record
  BY <1>0, <1>2 DEF Tokened, Record
<1> DEFINE y == Delivered(rec[i], act[t].status)
<1>4. y.token = rec[i].token /\ y.stage = rec[i].stage
  BY <1>3, DeliveredForm
<1>5. rec' = rec \/ rec' = [rec EXCEPT ![i] = y]
  BY <1>1 DEF ActivateOne
<1> HIDE DEF y
<1>6. CASE rec'[j] = rec[j]
  BY <1>0, <1>3, <1>6, CalmField DEF Calmly
<1>7. CASE rec'[j] # rec[j]
  <2>1. j = i /\ rec'[j] = y
    BY <1>0, <1>5, <1>7
  <2> QED
    BY <1>0, <1>2, <1>3, <1>4, <2>1 DEF TokenSame
<1> QED
  BY <1>6, <1>7

\* The steps that give and take no token do nothing else to the tokens of the records.
LEMMA RecordsOther ==
  ASSUME BookInv, Registered, Tokened, [Next]_vars, ~Token,
         \A i \in Jobs : ~Suppress(i), \A t \in Threads : ~ActivateRange(t), NEW j \in Jobs
  PROVE  TokenSame(rec[j], rec'[j]) /\ (PendingSame(rec[j], rec'[j]) \/ Late(j))
<1>1. CASE CalmStep
  BY <1>1, RecordsCalm DEF Calmly
<1>2. ASSUME NEW t \in Threads, ActivateOne(t)
      PROVE TokenSame(rec[j], rec'[j]) /\ (PendingSame(rec[j], rec'[j]) \/ Late(j))
  BY <1>2, OneForm
<1>3. CalmStep \/ \E t \in Threads : ActivateOne(t)
  <2>1. CASE Submission
    BY <2>1 DEF Submission, CalmStep
  <2>2. ASSUME NEW t \in Threads, Activation(t) PROVE CalmStep \/ ActivateOne(t)
    BY <2>2 DEF Activation, CalmStep
  <2>3. ASSUME NEW i \in Jobs, Settlement(i) \/ Claim(i) \/ EndBody(i) \/ Cancel(i) PROVE CalmStep
    BY <2>3 DEF Settlement, CalmStep
  <2>4. ASSUME NEW s \in Signals, Call(s) \/ \E status \in {"Succeeded", "Failed"} : Complete(s, status)
        PROVE  CalmStep
    BY <2>4 DEF CalmStep
  <2>5. CASE Seal \/ Close \/ Abandon \/ UNCHANGED vars
    BY <2>5 DEF CalmStep
  <2> QED
    BY <2>1, <2>2, <2>3, <2>4, <2>5 DEF Next
<1> QED
  BY <1>1, <1>2, <1>3

\* Dropping a token leaves the others alone.
LEMMA TokenedOther ==
  ASSUME BookInv, RangeShape, Registered, Tokened, Busy, [Next]_vars, ~Token, ~Register,
         \A i \in Jobs : ~Suppress(i), \A t \in Threads : ~ActivateRange(t)
  PROVE  Tokened'
<1>1. ASSUME NEW j \in Jobs PROVE settling'[j] = "token" => settling[j] = "token"
  <2>1. CASE DropToken(j)
    <3>1. settling' = [settling EXCEPT ![j] = "finish"] /\ settling \in [Jobs -> Marks]
      BY <2>1 DEF DropToken, BookInv, TypeOK, Marks
    <3> QED
      BY <3>1
  <2>2. CASE ~DropToken(j)
    BY <2>2, SettlingCalm
  <2> QED
    BY <2>1, <2>2
<1>2. ASSUME NEW j \in Jobs PROVE InDetach(j)' => InDetach(j)
  <2>1. CASE \E t \in Threads : DetachNext(t) /\ act[t].jobs # {}
    <3>1. PICK t \in Threads : DetachNext(t) /\ act[t].jobs # {}
      BY <2>1
    <3>2. act[t].step = "detach" /\ act'[t].jobs \subseteq act[t].jobs
          /\ \A u \in Threads \ {t} : act'[u] = act[u]
      BY <3>1, DetachNextForm
    <3> QED
      BY <3>2 DEF InDetach
  <2>2. CASE ~\E t \in Threads : DetachNext(t) /\ act[t].jobs # {}
    BY <2>2, DetachCalm
  <2> QED
    BY <2>1, <2>2
<1>3. ASSUME NEW j \in Jobs PROVE TokenSame(rec[j], rec'[j]) /\ (PendingSame(rec[j], rec'[j]) \/ Late(j))
  BY RecordsOther
<1>4. ASSUME NEW j \in Jobs PROVE JobToken(j)'
  <2>1. batch'.pc = "tokens" /\ j \in batch'.todo => At("tokens") /\ j \in batch.todo
    BY TodoCalm DEF At
  <2>2. rec'[j].token => rec[j].token /\ rec'[j].stage = rec[j].stage /\ rec'[j].pending = rec[j].pending
    BY <1>3 DEF TokenSame
  <2> QED
    BY <1>1, <1>2, <1>3, <2>1, <2>2, JobTokenOf
<1> QED
  BY <1>4, JobTokens

\* Every step keeps the tokens where they should be.
LEMMA TokenedStep ==
  ASSUME BookInv, RangeShape, Registered, Tokened, Busy, [Next]_vars
  PROVE  Tokened'
<1>1. CASE Token
  BY <1>1, TokenedToken
<1>2. CASE Register
  BY <1>2, TokenedRegister
<1>3. ASSUME NEW i \in Jobs, Suppress(i) PROVE Tokened'
  BY <1>3, TokenedSuppress
<1>4. ASSUME NEW t \in Threads, ActivateRange(t) PROVE Tokened'
  BY <1>4, TokenedActivate
<1>5. CASE /\ ~Token /\ ~Register
           /\ \A i \in Jobs : ~Suppress(i)
           /\ \A t \in Threads : ~ActivateRange(t)
  BY <1>5, TokenedOther
<1> QED
  BY <1>1, <1>2, <1>3, <1>4, <1>5

-----------------------------------------------------------------------------
(* The count of a range *)

\* The step in which the holder of a token of range r drops it for job j.
Dropping(r, j) ==
  \/ Token /\ j = Least(batch.todo) /\ r = Head(batch.portion) /\ rec[j].stage = "Finalizing"
  \/ j \in Jobs /\ DropToken(j) /\ r = RangeOf(j)
  \/ \E t \in Threads : DetachNext(t) /\ act[t].jobs # {} /\ j = Least(act[t].jobs) /\ r = act[t].id

\* What a step can do to the holders of tokens, as they are told apart.
LEMMA HoldingOf ==
  ASSUME NEW j, rec'[j].token <=> rec[j].token, settling'[j] = "token" <=> settling[j] = "token",
         batch'.pc = "tokens" /\ j \in batch'.todo <=> batch.pc = "tokens" /\ j \in batch.todo,
         InDetach(j)' <=> InDetach(j)
  PROVE  Holding(j)' <=> Holding(j)
BY DEF Holding, At

\* A suppression hands the token to the settlement, an activation to its thread.
LEMMA HoldingSuppress ==
  ASSUME BookInv, Tokened, [Next]_vars, NEW i \in Jobs, Suppress(i), NEW j \in Jobs
  PROVE  Holding(j)' <=> Holding(j)
<1>0. TypeOK /\ ClassOK(Class) /\ settling \in [Jobs -> Marks] /\ rec \in [Jobs -> Record]
  BY DEF BookInv, TypeOK, Marks
<1>1. UNCHANGED <<batch, act>> /\ (InDetach(j)' <=> InDetach(j))
  BY DEF Suppress, InDetach
<1>2. CASE ~Wins(i)
  <2>1. rec' = rec /\ settling' = settling
    BY <1>0, <1>2, SuppressEffect
  <2> QED
    BY <1>1, <2>1, HoldingOf
<1>3. CASE Wins(i) /\ i # j
  <2>1. Moved(rec[j], rec'[j]) /\ settling'[j] = settling[j]
    BY <1>0, <1>3, SuppressEffect
  <2> QED
    BY <1>1, <2>1, HoldingOf DEF Moved, Kept
<1>4. CASE Wins(i) /\ i = j
  <2>1. rec'[j].token = FALSE /\ (settling'[j] = "token" <=> rec[j].token)
    BY <1>0, <1>4, SuppressEffect DEF SuppressedAs
  <2>2. settling[j] # "token"
    BY <1>4 DEF BookInv, Staged, JobStaged, Wins
  <2> QED
    BY <1>1, <2>1, <2>2 DEF Holding, At
<1> QED
  BY <1>2, <1>3, <1>4

\* The thread that activates a range holds what it takes from the records.
LEMMA HoldingActivate ==
  ASSUME BookInv, RangeShape, Registered, NEW t \in Threads, ActivateRange(t), NEW j \in Jobs
  PROVE  Holding(j)' <=> Holding(j)
<1> DEFINE reached == {i \in act[t].jobs : Reached(i)}
<1>1. /\ act[t].step = "activate" /\ act'[t].step = "detach" /\ act'[t].jobs = {i \in reached : rec[i].token}
      /\ \A u \in Threads \ {t} : act'[u] = act[u]
      /\ UNCHANGED <<batch, settling>>
      /\ \A i \in Jobs \ reached : rec'[i] = rec[i]
      /\ \A i \in reached : rec'[i].token = FALSE
  BY ActivateForm
<1> HIDE DEF reached
<1>2. InDetach(j)' <=> InDetach(j) \/ (j \in reached /\ rec[j].token)
  <2>1. ASSUME InDetach(j) PROVE InDetach(j)'
    BY <1>1, <2>1 DEF InDetach
  <2>2. ASSUME j \in reached, rec[j].token PROVE InDetach(j)'
    BY <1>1, <2>2 DEF InDetach
  <2>3. ASSUME InDetach(j)' PROVE InDetach(j) \/ (j \in reached /\ rec[j].token)
    BY <1>1, <2>3 DEF InDetach
  <2> QED
    BY <2>1, <2>2, <2>3
<1>3. CASE j \in reached
  BY <1>1, <1>2, <1>3 DEF Holding, At
<1>4. CASE j \notin reached
  BY <1>1, <1>2, <1>4 DEF Holding, At
<1> QED
  BY <1>3, <1>4

\* The submitter gives a token to a record.
LEMMA HoldingToken ==
  ASSUME BookInv, RangeShape, Token, rec[Least(batch.todo)].stage # "Finalizing", NEW j \in Jobs
  PROVE  Holding(j)' <=> Holding(j)
<1>1. PICK k : k = Least(batch.todo)
  OBVIOUS
<1>2. /\ k \in batch.todo /\ k \in Jobs /\ batch'.todo = batch.todo \ {k}
      /\ batch'.pc = IF batch.todo = {k} THEN "range" ELSE "tokens"
      /\ rec' = [rec EXCEPT ![k].token = TRUE]
      /\ UNCHANGED <<act, settling>>
  BY <1>1, TokenForm
<1>3. batch.pc = "tokens" /\ rec \in [Jobs -> Record] /\ (InDetach(j)' <=> InDetach(j))
  BY <1>2 DEF Token, At, BookInv, TypeOK, InDetach
<1>4. CASE j = k
  <2>1. rec'[j] = [rec[j] EXCEPT !.token = TRUE] /\ rec[j] \in Record
    BY <1>2, <1>3, <1>4
  <2>2. rec'[j].token = TRUE
    BY <2>1 DEF Record
  <2> QED
    BY <1>2, <1>3, <1>4, <2>2 DEF Holding, At
<1>5. CASE j # k
  <2>1. rec'[j] = rec[j]
    BY <1>2, <1>3, <1>5
  <2>2. batch'.pc = "tokens" /\ j \in batch'.todo <=> batch.pc = "tokens" /\ j \in batch.todo
    BY <1>2, <1>3, <1>5
  <2> QED
    BY <1>2, <1>3, <2>1, <2>2, HoldingOf
<1> QED
  BY <1>4, <1>5

\* A step that drops no token leaves the tokens with somebody.
LEMMA HoldingSame ==
  ASSUME BookInv, RangeShape, Registered, Tokened, Busy, [Next]_vars, ~Register,
         \A r, i : ~Dropping(r, i), NEW j \in Jobs
  PROVE  Holding(j)' <=> Holding(j)
<1>1. ASSUME NEW i \in Jobs, Suppress(i) PROVE Holding(j)' <=> Holding(j)
  BY <1>1, HoldingSuppress
<1>2. ASSUME NEW t \in Threads, ActivateRange(t) PROVE Holding(j)' <=> Holding(j)
  BY <1>2, HoldingActivate
<1>3. CASE Token
  BY <1>3, HoldingToken DEF Dropping
<1>4. CASE ~Token /\ (\A i \in Jobs : ~Suppress(i)) /\ (\A t \in Threads : ~ActivateRange(t))
  <2>1. rec'[j].token <=> rec[j].token
    BY <1>4, RecordsOther DEF TokenSame
  <2>2. settling'[j] = "token" <=> settling[j] = "token"
    BY <1>4, SettlingCalm DEF Dropping
  <2>3. InDetach(j)' <=> InDetach(j)
    BY <1>4, DetachCalm DEF Dropping
  <2>4. batch'.pc = "tokens" /\ j \in batch'.todo <=> batch.pc = "tokens" /\ j \in batch.todo
    BY <1>4, TodoCalm
  <2> QED
    BY <2>1, <2>2, <2>3, <2>4, HoldingOf
<1> QED
  BY <1>1, <1>2, <1>3, <1>4

\* A token is dropped by the one who holds it.
LEMMA HoldingDrop ==
  ASSUME BookInv, RangeShape, Registered, Tokened, NEW r, NEW j, Dropping(r, j)
  PROVE  /\ Detaching(r, j) /\ j \in Jobs /\ j \in range[r].jobs /\ Holding(j) /\ ~(Holding(j)')
         /\ \A i \in Jobs \ {j} : Holding(i)' <=> Holding(i)
<1>0. settling \in [Jobs -> Marks] /\ TypeOK /\ Staged
  BY DEF BookInv, TypeOK, Marks
<1>1. CASE Token /\ j = Least(batch.todo) /\ r = Head(batch.portion) /\ rec[j].stage = "Finalizing"
  <2>1. /\ j \in batch.todo /\ j \in Jobs /\ j \in range[r].jobs /\ Detaching(r, j)
        /\ batch'.todo = batch.todo \ {j}
        /\ batch'.pc = IF batch.todo = {j} THEN "range" ELSE "tokens"
        /\ UNCHANGED <<rec, act, settling>>
    BY <1>1, TokenForm
  <2>2. batch.pc = "tokens" /\ At("tokens")
    BY <1>1 DEF Token, At
  <2>3. \A i : InDetach(i)' <=> InDetach(i)
    BY <2>1 DEF InDetach
  <2>4. Holding(j)
    BY <2>1, <2>2 DEF Holding
  <2>5. ~(Holding(j)')
    <3>1. ~rec[j].token /\ settling[j] # "token" /\ ~InDetach(j)
      BY <2>1, <2>2, TodoFree DEF Tokened
    <3> QED
      BY <2>1, <2>3, <3>1 DEF Holding, At
  <2>6. ASSUME NEW i \in Jobs \ {j} PROVE Holding(i)' <=> Holding(i)
    <3>1. batch'.pc = "tokens" /\ i \in batch'.todo <=> batch.pc = "tokens" /\ i \in batch.todo
      BY <2>1, <2>2
    <3> QED
      BY <2>1, <2>3, <3>1, HoldingOf
  <2> QED
    BY <2>1, <2>4, <2>5, <2>6
<1>2. CASE j \in Jobs /\ DropToken(j) /\ r = RangeOf(j)
  <2>1. /\ Detaching(r, j) /\ j \in range[r].jobs
        /\ settling[j] = "token" /\ settling' = [settling EXCEPT ![j] = "finish"]
        /\ UNCHANGED <<batch, rec, act>>
    BY <1>2, DropForm
  <2>2. \A i : InDetach(i)' <=> InDetach(i)
    BY <2>1 DEF InDetach
  <2>3. ~rec[j].token
    BY <1>0, <1>2, <2>1 DEF Staged, JobStaged, Tokened
  <2>4. ~(At("tokens") /\ j \in batch.todo) /\ ~InDetach(j)
    BY <1>2, <2>1 DEF Tokened
  <2>5. settling'[j] = "finish" /\ \A i \in Jobs \ {j} : settling'[i] = settling[i]
    BY <1>0, <1>2, <2>1
  <2>6. ~(Holding(j)') /\ Holding(j)
    BY <2>1, <2>2, <2>3, <2>4, <2>5 DEF Holding, At
  <2>7. \A i \in Jobs \ {j} : Holding(i)' <=> Holding(i)
    BY <2>1, <2>2, <2>5, HoldingOf
  <2> QED
    BY <1>2, <2>1, <2>6, <2>7
<1>3. ASSUME NEW t \in Threads, DetachNext(t), act[t].jobs # {}, j = Least(act[t].jobs), r = act[t].id
      PROVE  /\ Detaching(r, j) /\ j \in Jobs /\ j \in range[r].jobs /\ Holding(j) /\ ~(Holding(j)')
             /\ \A i \in Jobs \ {j} : Holding(i)' <=> Holding(i)
  <2>1. /\ j \in act[t].jobs /\ j \in range[r].jobs /\ j \in Jobs /\ act[t].step = "detach"
        /\ Detaching(r, j) /\ r \in Jobs
        /\ act'[t].step = "detach" /\ act'[t].jobs = act[t].jobs \ {j}
        /\ \A u \in Threads \ {t} : act'[u] = act[u]
        /\ UNCHANGED <<batch, rec, settling>>
    BY <1>3, DetachNextForm DEF Detaching
  <2>2. InDetach(j)
    BY <2>1 DEF InDetach
  <2>3. ~(InDetach(j)')
    <3>1. ASSUME NEW u \in Threads \ {t}, act[u].step = "detach", j \in act[u].jobs PROVE FALSE
      <4>1. act[u].step \in Carrying /\ act[t].step \in Carrying /\ act[u].step # "idle"
        BY <2>1, <3>1 DEF Carrying
      <4>2. act[u].id \in Jobs
        BY <1>0, <4>1, ActFields
      <4>3. j \in range[act[u].id].jobs
        BY <3>1, <4>1 DEF Registered, ThreadOK
      <4>4. act[u].id = r
        BY <2>1, <4>2, <4>3 DEF RangeShape
      <4> QED
        BY <1>3, <3>1, <4>1, <4>4 DEF Registered
    <3> QED
      BY <2>1, <3>1 DEF InDetach
  <2>4. ~rec[j].token /\ settling[j] # "token"
    BY <2>1, <2>2 DEF Tokened
  <2>5. ~(At("tokens") /\ j \in batch.todo)
    BY <2>2, TodoFree
  <2>6. Holding(j) /\ ~(Holding(j)')
    BY <2>1, <2>2, <2>3, <2>4, <2>5 DEF Holding, At
  <2>7. ASSUME NEW i \in Jobs \ {j} PROVE Holding(i)' <=> Holding(i)
    <3>1. ASSUME InDetach(i) PROVE InDetach(i)'
      BY <2>1, <3>1 DEF InDetach
    <3>2. ASSUME InDetach(i)' PROVE InDetach(i)
      BY <2>1, <3>2 DEF InDetach
    <3> QED
      BY <2>1, <3>1, <3>2, HoldingOf
  <2> QED
    BY <2>1, <2>6, <2>7
<1> QED
  BY <1>1, <1>2, <1>3 DEF Dropping

\* The registration of a range that a step leaves alone.
LEMMA RetainedQuiet ==
  ASSUME RangeCounted, [Next]_vars, NEW q \in Jobs, range'[q].jobs = range[q].jobs,
         range'[q].active = range[q].active, range'[q].delivered = range[q].delivered,
         range'[q].handle = range[q].handle, range'[q].installing = range[q].installing,
         range[q].jobs # {} /\ <<q, Only>> \in stored' => <<q, Only>> \in stored \/ range[q].installing,
         At("unused") /\ q = Head(batch.portion) =>
           <<q, Only>> \notin stored' \/ (batch'.pc = "unused" /\ batch'.portion = batch.portion)
  PROVE  Retained(q)'
<1>1. Retained(q)
  BY DEF RangeCounted
<1>2. Only' = Only
  BY OptionsStep DEF Only
<1> QED
  BY <1>1, <1>2 DEF Retained, At

\* Nobody leaves the place but by dropping the registration.
LEMMA UnusedKept ==
  ASSUME BookInv, [Next]_vars, ~DropUnused, At("unused")
  PROVE  batch'.pc = "unused" /\ batch'.portion = batch.portion
<1>1. TypeOK /\ batch.pc = "unused"
  BY DEF BookInv, At
<1>2. CASE Outside
  BY <1>1, <1>2, OutsideSteps
<1>3. CASE Submission
  BY <1>1, <1>3, PcSteps DEF Submission, Before
<1> QED
  BY <1>2, <1>3, OutsideSteps

\* A token dropped leaves a registration that somebody has use for.
LEMMA RetainedDrop ==
  ASSUME BookInv, RangeCounted, [Next]_vars, NEW r, NEW j, Detaching(r, j), ~DropUnused
  PROVE  \A q \in Jobs : Retained(q)'
<1>1. /\ r \in Jobs /\ OneRange(r)
      /\ range'[r].installing = range[r].installing /\ range'[r].delivered = range[r].delivered
      /\ range'[r].active = range[r].active - 1
      /\ range'[r].handle <=> range[r].handle /\ range[r].active > 1
      /\ stored' \subseteq stored
      /\ range[r].handle /\ range[r].active = 1 => stored' = stored \ {<<r, Only>>}
  BY DetachForm DEF Detaching, BookInv
<1>2. At("unused") => batch'.pc = "unused" /\ batch'.portion = batch.portion
  BY UnusedKept
<1>3. ASSUME NEW q \in Jobs, q # r PROVE Retained(q)'
  <2>1. range'[q] = range[q]
    BY <1>1, <1>3 DEF OneRange
  <2> QED
    BY <1>1, <1>2, <2>1, RetainedQuiet
<1>4. Retained(r)'
  <2>1. Retained(r) /\ Only' = Only /\ range[r].active \in Int
    BY <1>1, OptionsStep DEF RangeCounted, Only, BookInv, TypeOK, Registration
  <2>2. range'[r].handle => ~range'[r].delivered /\ range'[r].active > 0
    BY <1>1, <2>1 DEF Retained
  <2>3. ASSUME <<r, Only>> \in stored'
        PROVE  range'[r].installing \/ range'[r].handle \/ (batch'.pc = "unused" /\ r = Head(batch'.portion))
    <3>1. range[r].installing \/ range[r].handle \/ (At("unused") /\ r = Head(batch.portion))
      BY <1>1, <2>1, <2>3 DEF Retained, Detaching
    <3>2. range[r].handle => range[r].active > 1
      BY <1>1, <2>1, <2>3 DEF Retained
    <3> QED
      BY <1>1, <1>2, <3>1, <3>2
  <2> QED
    BY <2>1, <2>2, <2>3 DEF Retained, At
<1> QED
  BY <1>3, <1>4

\* The steps that write a range.
LEMMA RangeKinds ==
  ASSUME BookInv, RangeShape, [Next]_vars
  PROVE  \/ Register \/ Install \/ \E r, j : Dropping(r, j)
         \/ \E t \in Threads : TakeMembers(t) \/ (Deliver(t) /\ ~range[act[t].id].delivered)
         \/ range' = range
<1>1. CASE Enter \/ Admit \/ Charge \/ Commit \/ Recover \/ SubscribeRange \/ DropUnused \/ Subscribe
             \/ PublishPortion \/ DispatchPortion
  BY <1>1 DEF Enter, Admit, Charge, Commit, Recover, SubscribeRange, DropUnused, Subscribe,
     PublishPortion, DispatchPortion
<1>2. CASE Token
  BY <1>2, TokenForm DEF Dropping
<1>3. ASSUME NEW t \in Threads, Activation(t)
      PROVE  \/ TakeMembers(t) \/ (Deliver(t) /\ ~range[act[t].id].delivered)
             \/ (DetachNext(t) /\ act[t].jobs # {}) \/ range' = range
  BY <1>3 DEF Activation, Deliver, DetachNext, ActivateRange, ActivateOne, ActivateReady,
     DispatchActivation, Return
<1>4. ASSUME NEW j \in Jobs, Settlement(j) \/ Claim(j) \/ EndBody(j) \/ Cancel(j)
      PROVE  DropToken(j) \/ range' = range
  BY <1>4 DEF Settlement, Suppress, FinishRecord, FinalizeRecord, DispatchFinal, Claim, EndBody, Cancel
<1>5. ASSUME NEW s \in Signals, Call(s) \/ \E status \in {"Succeeded", "Failed"} : Complete(s, status)
      PROVE  range' = range
  BY <1>5 DEF Call, Complete
<1>6. CASE Seal \/ Close \/ Abandon \/ UNCHANGED vars
  BY <1>6 DEF Seal, Close, Abandon, vars
<1>7. /\ \A t \in Threads : DetachNext(t) /\ act[t].jobs # {} => \E r, j : Dropping(r, j)
      /\ \A j \in Jobs : DropToken(j) => \E r : Dropping(r, j)
  BY DEF Dropping
<1> QED
  BY <1>1, <1>2, <1>3, <1>4, <1>5, <1>6, <1>7 DEF Next, Submission

\* A registration of a range in a signal's list is there already, or the range is being installed.
LEMMA StoredGrows ==
  ASSUME BookInv, RangeShape, [Next]_vars, NEW q \in Jobs, range[q].jobs # {}, <<q, Only>> \in stored'
  PROVE  <<q, Only>> \in stored \/ range[q].installing
<1>0. TypeOK /\ Ordered /\ Phased /\ Ranged
  BY DEF BookInv
<1>1. CASE SubscribeRange
  <2>1. batch.pc \in Ranging /\ batch.pc \in Attaching \cup {"register"} /\ batch.pc \in Unkept
    BY <1>1 DEF SubscribeRange, At, Ranging, Attaching, Unkept
  <2>2. PICK h \in Jobs : h = Head(batch.portion)
    BY <1>0, <2>1, CurrentRange
  <2>3. RangeOf(h) = h /\ Only \in Signals /\ range[h].installing
    BY <1>0, <2>1, <2>2, CurrentRange, HeadIn DEF RangeShape
  <2>4. Subscribed(h, Only, "deliver")
    BY <1>1, <2>2, <2>3 DEF SubscribeRange
  <2>5. stored' = stored \cup {<<h, Only>>} \/ stored' = stored
    BY <2>4 DEF Subscribed
  <2> QED
    BY <2>3, <2>5
<1>2. CASE Subscribe
  <2>1. CASE batch.todo = {}
    BY <1>2, <2>1 DEF Subscribe
  <2>2. CASE batch.todo # {}
    <3>1. PICK e \in batch.todo : Subscribed(e[1], e[2], "single")
      BY <1>2, <2>2 DEF Subscribe
    <3>2. stored' = stored \cup {<<e[1], e[2]>>} \/ stored' = stored
      BY <3>1 DEF Subscribed
    <3>3. e[1] \in Portion /\ batch.pc = "subscribe"
      BY <1>0, <1>2 DEF Ranged, Subscribe, At
    <3>4. q # e[1]
      BY <3>3 DEF RangeShape
    <3> QED
      BY <3>2, <3>4
  <2> QED
    BY <2>1, <2>2
<1>3. ASSUME stored' \subseteq stored PROVE <<q, Only>> \in stored \/ range[q].installing
  BY <1>3
<1>4. CASE Enter \/ Admit \/ Charge \/ Commit \/ Recover \/ Register \/ Install \/ DropUnused
             \/ PublishPortion \/ DispatchPortion
  <2>1. stored' \subseteq stored
    BY <1>4 DEF Enter, Admit, Charge, Commit, Recover, Register, Install, DropUnused,
       PublishPortion, DispatchPortion
  <2> QED
    BY <1>3, <2>1
<1>5. CASE Token
  <2>1. stored' \subseteq stored
    BY <1>0, <1>5, TokenForm, DetachForm DEF Detaching
  <2> QED
    BY <1>3, <2>1
<1>6. ASSUME NEW t \in Threads, Activation(t) PROVE stored' \subseteq stored
  <2>1. CASE DetachNext(t)
    BY <1>0, <2>1, DetachType DEF DetachNext
  <2>2. CASE Deliver(t)
    BY <2>2 DEF Deliver
  <2>3. CASE TakeMembers(t) \/ ActivateRange(t) \/ ActivateOne(t) \/ ActivateReady(t)
             \/ DispatchActivation(t) \/ Return(t)
    BY <2>3 DEF TakeMembers, ActivateRange, ActivateOne, ActivateReady, DispatchActivation, Return
  <2> QED
    BY <1>6, <2>1, <2>2, <2>3 DEF Activation
<1>7. ASSUME NEW j \in Jobs, Settlement(j) \/ Claim(j) \/ EndBody(j) \/ Cancel(j)
      PROVE  stored' \subseteq stored
  <2>1. CASE DropToken(j)
    BY <1>0, <2>1, DetachType DEF DropToken
  <2>2. CASE FinishRecord(j)
    BY <2>2 DEF FinishRecord
  <2>3. CASE Suppress(j) \/ FinalizeRecord(j) \/ DispatchFinal(j) \/ Claim(j) \/ EndBody(j) \/ Cancel(j)
    BY <2>3 DEF Suppress, FinalizeRecord, DispatchFinal, Claim, EndBody, Cancel
  <2> QED
    BY <1>7, <2>1, <2>2, <2>3 DEF Settlement
<1>8. ASSUME NEW s \in Signals, Call(s) \/ \E status \in {"Succeeded", "Failed"} : Complete(s, status)
      PROVE  stored' \subseteq stored
  BY <1>8 DEF Call, Complete
<1>9. CASE Seal \/ Close \/ Abandon \/ UNCHANGED vars
  BY <1>3, <1>9 DEF Seal, Close, Abandon, vars
<1> QED
  BY <1>1, <1>2, <1>3, <1>4, <1>5, <1>6, <1>7, <1>8, <1>9 DEF Next, Submission

\* The holders of a range are of its jobs.
LEMMA HeldIn ==
  ASSUME TypeOK, NEW q \in Jobs
  PROVE  Held(q) \subseteq range[q].jobs /\ range[q].jobs \subseteq Jobs /\ Held(q) \in SUBSET Jobs
<1>1. range[q].jobs \subseteq Jobs
  BY DEF TypeOK, Registration
<1>2. Held(q) \subseteq range[q].jobs
  BY DEF Held
<1> QED
  BY <1>1, <1>2

\* Installing keeps the registration exactly while it is of use.
LEMMA RetainedInstall ==
  ASSUME BookInv, RangeShape, RangeCounted, [Next]_vars, Install
  PROVE  \A q \in Jobs : Retained(q)' /\ range'[q].active = range[q].active
<1>1. PICK h \in Jobs : h = Head(batch.portion)
  BY InstallForm
<1> DEFINE unused == range[h].delivered \/ range[h].active = 0
<1>2. /\ OneRange(h) /\ range'[h].installing = FALSE
      /\ range'[h].handle = ~unused /\ range'[h].delivered = range[h].delivered
      /\ range'[h].active = range[h].active
      /\ batch'.pc = IF unused THEN "unused" ELSE "publish"
      /\ UNCHANGED stored
  BY <1>1, InstallForm
<1>3. batch'.portion = batch.portion /\ Only' = Only /\ batch.pc = "install" /\ ~At("unused")
  BY OptionsStep, SubmissionSteps DEF BookInv, SameOrder, Install, At, Only
<1>4. ASSUME NEW q \in Jobs, q # h PROVE Retained(q)' /\ range'[q].active = range[q].active
  <2>1. range'[q] = range[q]
    BY <1>2, <1>4 DEF OneRange
  <2> QED
    BY <1>2, <1>3, <2>1, RetainedQuiet
<1>5. Retained(h)'
  <2>1. range[h].active \in Nat
    <3>1. range[h].active = Cardinality(Held(h))
      <4>1. \A q \in Jobs : range[q].active = Cardinality(Held(q))
        BY DEF RangeCounted
      <4> QED
        BY <1>1, <4>1
    <3>2. TypeOK
      BY DEF BookInv
    <3>3. Held(h) \in SUBSET Jobs
      BY <1>1, <3>2, HeldIn
    <3> QED
      BY <3>1, <3>3, FewJobs
  <2>2. range'[h].handle => ~range'[h].delivered /\ range'[h].active > 0
    <3>1. CASE unused
      <4>1. ~range'[h].handle
        BY <1>2, <3>1
      <4> QED
        BY <4>1
    <3>2. CASE ~unused
      <4>1. ~range'[h].delivered
        BY <1>2, <3>2
      <4>2. range'[h].active > 0
        BY <1>2, <2>1, <3>2
      <4> QED
        BY <4>1, <4>2
    <3> QED
      BY <3>1, <3>2
  <2>3. range'[h].handle \/ batch'.pc = "unused"
    BY <1>2
  <2> QED
    BY <1>1, <1>3, <2>2, <2>3 DEF Retained, At
<1> QED
  BY <1>2, <1>4, <1>5

\* A delivery gives the registration up.
LEMMA RetainedDeliver ==
  ASSUME BookInv, RangeShape, Registered, RangeCounted, [Next]_vars, NEW t \in Threads,
         TakeMembers(t) \/ (Deliver(t) /\ ~range[act[t].id].delivered)
  PROVE  \A q \in Jobs : Retained(q)' /\ range'[q].active = range[q].active
<1>0. TypeOK /\ act[t].step # "idle"
  BY DEF BookInv, TakeMembers, Deliver, Doing
<1>1. PICK r \in Jobs : r = act[t].id
  BY <1>0, ActFields
<1>2. UNCHANGED batch
  BY DEF TakeMembers, Deliver
<1>3. Only' = Only
  BY OptionsStep DEF Only
<1>4. ASSUME NEW q \in Jobs, range'[q] = range[q] \/
               /\ range'[q].jobs = range[q].jobs
               /\ range'[q].active = range[q].active /\ range'[q].delivered = range[q].delivered
               /\ range'[q].handle = range[q].handle /\ range'[q].installing = range[q].installing
      PROVE  Retained(q)' /\ range'[q].active = range[q].active
  BY <1>2, <1>4, RetainedQuiet, StoredGrows DEF At
<1>5. CASE TakeMembers(t)
  <2>1. range[r].jobs # {}
    BY <1>1, <1>5 DEF Registered, ThreadOK, RangeShape, NoRange, TakeMembers, Doing, Carrying
  <2>2. OneRange(r) /\ range'[r].installing = range[r].installing
        /\ range'[r].delivered = range[r].delivered /\ range'[r].handle = range[r].handle
        /\ range'[r].active = range[r].active
    BY <1>0, <1>1, <1>5, <2>1, TakeForm
  <2> QED
    BY <1>4, <2>2 DEF OneRange
<1>6. CASE Deliver(t) /\ ~range[act[t].id].delivered
  <2>1. range[r].jobs # {}
    BY <1>1, <1>6 DEF Registered, ThreadOK, Deliver, Doing
  <2>2. /\ OneRange(r) /\ range'[r].installing = range[r].installing
        /\ range'[r].delivered = TRUE /\ range'[r].handle = FALSE
        /\ range'[r].active = range[r].active
        /\ stored' \subseteq stored
        /\ range[r].handle => stored' = stored \ {<<r, Only>>}
    BY <1>0, <1>1, <1>6, <2>1, DeliverForm
  <2>3. Retained(r)'
    <3>1. Retained(r)
      BY DEF RangeCounted
    <3>2. <<r, Only>> \in stored' => range'[r].installing \/ (At("unused") /\ r = Head(batch.portion))
      BY <2>1, <2>2, <3>1 DEF Retained
    <3> QED
      BY <1>2, <1>3, <2>2, <3>2 DEF Retained, At
  <2> QED
    BY <1>4, <2>2, <2>3 DEF OneRange
<1> QED
  BY <1>5, <1>6

\* A step that writes no range.
LEMMA RetainedSame ==
  ASSUME BookInv, RangeShape, RangeCounted, [Next]_vars, range' = range, NEW q \in Jobs
  PROVE  Retained(q)'
<1>1. range[q].jobs # {} /\ <<q, Only>> \in stored' => <<q, Only>> \in stored \/ range[q].installing
  BY StoredGrows
<1>2. ASSUME DropUnused, q = Head(batch.portion) PROVE <<q, Only>> \notin stored'
  <2>1. batch.pc \in Ranging
    BY <1>2 DEF DropUnused, At, Ranging
  <2>2. RangeOf(q) = q
    BY <1>2, <2>1, CurrentRange DEF BookInv
  <2>3. stored' = stored \ {<<RangeOf(q), Only>>}
    BY <1>2 DEF DropUnused
  <2> QED
    BY <2>2, <2>3
<1>3. At("unused") /\ q = Head(batch.portion) =>
        <<q, Only>> \notin stored' \/ (batch'.pc = "unused" /\ batch'.portion = batch.portion)
  BY <1>2, UnusedKept
<1> QED
  BY <1>1, <1>3, RetainedQuiet

\* A range keeps its holders, or loses one.
LEMMA HeldKept ==
  ASSUME TypeOK, NEW q \in Jobs, range'[q].jobs = range[q].jobs,
         \A j \in range[q].jobs : Holding(j)' <=> Holding(j)
  PROVE  Held(q)' = Held(q)
BY DEF Held

\* The one that gives up a token is counted no more.
LEMMA HeldLess ==
  ASSUME TypeOK, NEW q \in Jobs, range'[q].jobs = range[q].jobs, NEW j \in range[q].jobs,
         Holding(j), ~(Holding(j)'), \A i \in Jobs \ {j} : Holding(i)' <=> Holding(i)
  PROVE  Cardinality(Held(q)') = Cardinality(Held(q)) - 1
<1>1. range[q].jobs \subseteq Jobs /\ IsFiniteSet(Held(q))
  BY HeldIn, FewJobs
<1>2. Held(q)' = Held(q) \ {j} /\ j \in Held(q)
  BY <1>1 DEF Held
<1> QED
  BY <1>1, <1>2, FS_RemoveElement

\* The drop of a token.
LEMMA CountedDrop ==
  ASSUME BookInv, RangeInv, Busy, [Next]_vars, NEW r, NEW j, Dropping(r, j)
  PROVE  RangeCounted'
<1>0. TypeOK /\ RangeShape /\ Registered /\ Tokened /\ RangeCounted
  BY DEF BookInv, RangeInv
<1>1. /\ Detaching(r, j) /\ j \in Jobs /\ j \in range[r].jobs /\ Holding(j) /\ ~(Holding(j)')
      /\ \A i \in Jobs \ {j} : Holding(i)' <=> Holding(i)
  BY <1>0, HoldingDrop
<1>2. r \in Jobs /\ OneRange(r) /\ range'[r].active = range[r].active - 1
  BY <1>0, <1>1, DetachForm DEF Detaching
<1>3. CASE DropUnused
  \* No step of the submitter drops both.
  <2>1. range' = range
    BY <1>3 DEF DropUnused
  <2>2. range[r].active \in Int
    BY <1>0, <1>2 DEF TypeOK, Registration
  <2> QED
    BY <1>2, <2>1, <2>2
<1>4. CASE ~DropUnused
  <2>1. \A q \in Jobs : Retained(q)'
    BY <1>0, <1>1, <1>4, RetainedDrop
  <2>2. range'[r].active = Cardinality(Held(r)')
    <3>1. Cardinality(Held(r)') = Cardinality(Held(r)) - 1
      BY <1>0, <1>1, <1>2, HeldLess DEF OneRange
    <3> QED
      BY <1>0, <1>2, <3>1 DEF RangeCounted
  <2>3. ASSUME NEW q \in Jobs, q # r PROVE range'[q].active = Cardinality(Held(q)')
    <3>1. range'[q] = range[q] /\ j \notin range[q].jobs /\ range[q].jobs \subseteq Jobs
      BY <1>0, <1>1, <1>2, <2>3, HeldIn DEF OneRange, RangeShape
    <3>2. Held(q)' = Held(q)
      BY <1>0, <1>1, <3>1, HeldKept
    <3> QED
      BY <1>0, <3>1, <3>2 DEF RangeCounted
  <2> QED
    BY <2>1, <2>2, <2>3 DEF RangeCounted
<1> QED
  BY <1>3, <1>4

\* A new range: everybody's token is still to be given.
LEMMA CountedRegister ==
  ASSUME BookInv, RangeInv, Busy, [Next]_vars, Register
  PROVE  RangeCounted'
<1>0. TypeOK /\ Ordered /\ RangeShape /\ Registered /\ Tokened /\ RangeCounted /\ CalmStep
  BY DEF BookInv, RangeInv, CalmStep
<1>1. PICK h \in Jobs : h = Head(batch.portion)
  BY <1>0, RegisterForm
<1>2. /\ h \in Portion /\ range[h] = NoRange /\ batch.pc = "register" /\ Portion \subseteq Jobs
      /\ UNCHANGED <<stored, act, settling>>
      /\ \/ /\ batch'.pc = "tokens" /\ batch'.todo = Portion
            /\ range'[h].jobs = Portion
            /\ range'[h].active = Len(batch.portion)
            /\ range'[h].installing = TRUE /\ range'[h].handle = FALSE
            /\ \A q \in Jobs \ {h} : range'[q] = range[q]
         \/ batch'.pc = "subscribe" /\ range' = range
  BY <1>0, <1>1, RegisterForm
<1>3. Only' = Only /\ ~At("unused")
  BY <1>2, OptionsStep DEF Only, At
<1>4. ASSUME NEW q \in Jobs, range'[q] = range[q], batch'.pc = "tokens" => q # h
      PROVE  range'[q].active = Cardinality(Held(q)') /\ Retained(q)'
  <2>1. Retained(q)'
    BY <1>0, <1>2, <1>3, <1>4, RetainedQuiet
  <2>2. ASSUME NEW j \in range[q].jobs PROVE Holding(j)' <=> Holding(j)
    <3>1. j \in Jobs
      BY <1>0, HeldIn
    <3>2. j \notin Portion
      BY <1>2, <2>2 DEF RangeInv, RangeShape, Early
    <3>3. rec'[j].token <=> rec[j].token
      BY <1>0, <3>1, RecordsCalm DEF Calmly, TokenSame
    <3>4. InDetach(j)' <=> InDetach(j)
      BY <1>2 DEF InDetach
    <3>5. batch'.pc = "tokens" /\ j \in batch'.todo <=> batch.pc = "tokens" /\ j \in batch.todo
      BY <1>2, <3>2
    <3> QED
      BY <1>2, <3>3, <3>4, <3>5, HoldingOf
  <2>3. Held(q)' = Held(q)
    BY <1>0, <1>4, <2>2, HeldKept
  <2> QED
    BY <1>0, <1>4, <2>1, <2>3 DEF RangeCounted
<1>5. CASE batch'.pc = "subscribe" /\ range' = range
  BY <1>4, <1>5 DEF RangeCounted
<1>6. CASE /\ batch'.pc = "tokens" /\ batch'.todo = Portion
           /\ range'[h].jobs = Portion
           /\ range'[h].active = Len(batch.portion)
           /\ range'[h].installing = TRUE /\ range'[h].handle = FALSE
           /\ \A q \in Jobs \ {h} : range'[q] = range[q]
  <2>1. \A q \in Jobs \ {h} : range'[q].active = Cardinality(Held(q)') /\ Retained(q)'
    BY <1>4, <1>6
  <2>2. Held(h)' = Portion
    BY <1>6 DEF Held, Holding, At
  <2>3. Cardinality(Portion) = Len(batch.portion)
    BY <1>0, Disjoint
  <2>4. Retained(h)'
    BY <1>6 DEF Retained
  <2> QED
    BY <1>6, <2>1, <2>2, <2>3, <2>4 DEF RangeCounted
<1> QED
  BY <1>2, <1>5, <1>6

\* Every step keeps the counts of the ranges.
LEMMA RangeCountedStep ==
  ASSUME BookInv, RangeInv, Busy, [Next]_vars
  PROVE  RangeCounted'
<1>0. TypeOK /\ RangeShape /\ Registered /\ Tokened /\ RangeCounted
  BY DEF BookInv, RangeInv
<1>1. CASE Register
  BY <1>1, CountedRegister
<1>2. CASE \E r, j : Dropping(r, j)
  BY <1>2, CountedDrop
<1>3. CASE ~Register /\ \A r, j : ~Dropping(r, j)
  <2>1. \A q \in Jobs : range'[q].jobs = range[q].jobs
    BY <1>3, RangeTypesStep
  <2>2. \A q \in Jobs : Retained(q)' /\ range'[q].active = range[q].active
    <3>1. CASE Install
      BY <1>0, <3>1, RetainedInstall
    <3>2. ASSUME NEW t \in Threads, TakeMembers(t) \/ (Deliver(t) /\ ~range[act[t].id].delivered)
          PROVE  \A q \in Jobs : Retained(q)' /\ range'[q].active = range[q].active
      BY <1>0, <3>2, RetainedDeliver
    <3>3. CASE range' = range
      BY <1>0, <3>3, RetainedSame
    <3> QED
      BY <1>0, <1>3, <3>1, <3>2, <3>3, RangeKinds
  <2>3. ASSUME NEW q \in Jobs PROVE range'[q].active = Cardinality(Held(q)')
    <3>1. \A j \in range[q].jobs : Holding(j)' <=> Holding(j)
      BY <1>0, <1>3, HeldIn, HoldingSame
    <3>2. Held(q)' = Held(q)
      BY <1>0, <2>1, <3>1, HeldKept
    <3> QED
      BY <1>0, <2>2, <3>2 DEF RangeCounted
  <2> QED
    BY <2>2, <2>3 DEF RangeCounted
<1> QED
  BY <1>1, <1>2, <1>3

-----------------------------------------------------------------------------
(* The ranges are exact *)

\* There is no range yet.
LEMMA RangeInit ==
  ASSUME Init
  PROVE  RangeInv /\ Busy
<1>1. /\ batch.pc = "enter" /\ batch.portion = <<>> /\ batch.accepted = <<>>
      /\ \A j \in Jobs : rec[j] = NoRecord /\ range[j] = NoRange /\ settling[j] = "none"
      /\ stored = {} /\ owed = {} /\ \A t \in Threads : act[t] = Idle
  BY DEF Init
<1>2. /\ NoRecord.stage = "Out" /\ NoRecord.token = FALSE /\ Idle.step = "idle"
      /\ NoRange.jobs = {} /\ NoRange.members = {} /\ NoRange.active = 0
      /\ NoRange.delivered = FALSE /\ NoRange.installing = FALSE /\ NoRange.handle = FALSE
  BY DEF NoRecord, NoRange, Idle
<1>3. RangeShape
  BY <1>1, <1>2 DEF RangeShape, Unkept
<1>4. Registered
  BY <1>1, <1>2 DEF Registered, ThreadOK, Carrying
<1>5. \A j : ~InDetach(j)
  BY <1>1, <1>2 DEF InDetach
<1>6. Tokened
  BY <1>1, <1>2, <1>5 DEF Tokened, At
<1>7. ASSUME NEW r \in Jobs PROVE range[r].active = Cardinality(Held(r)) /\ Retained(r)
  <2>1. Held(r) = {}
    BY <1>1, <1>2 DEF Held
  <2>2. Cardinality({}) = 0
    BY FS_EmptySet
  <2> QED
    BY <1>1, <1>2, <2>1, <2>2 DEF Retained
<1>8. Busy
  BY <1>1, <1>2 DEF Busy, Threads
<1> QED
  BY <1>3, <1>4, <1>6, <1>7, <1>8 DEF RangeInv, RangeCounted

\* Every step keeps what is said of the ranges.
LEMMA RangeStep ==
  ASSUME BookInv, RangeInv, Busy, [Next]_vars
  PROVE  RangeInv' /\ Busy'
<1>1. RangeShape /\ Registered /\ Tokened /\ RangeCounted
  BY DEF RangeInv
<1>2. RangeShape' /\ Registered' /\ Tokened' /\ RangeCounted' /\ Busy'
  BY <1>1, RangeShapeStep, RegisteredStep, TokenedStep, RangeCountedStep, BusyStep
<1> QED
  BY <1>2 DEF RangeInv

\* Whoever the property names as a holder is one of the invariant's, and the other way round.
LEMMA HoldersAre ==
  ASSUME BookInv, RangeInv, NEW r \in Jobs
  PROVE  TokenHolders(r) = Held(r)
<1>0. TypeOK /\ RangeShape /\ Registered /\ Tokened
  BY DEF BookInv, RangeInv
<1> DEFINE U == UNION {act[t].jobs : t \in {u \in Threads : Doing(u, "detach") /\ act[u].id = r}}
<1>1. \A j : j \in U <=> \E t \in Threads : act[t].step = "detach" /\ act[t].id = r /\ j \in act[t].jobs
  BY DEF Doing
<1>2. ASSUME NEW j \in U PROVE j \in range[r].jobs /\ InDetach(j)
  <2>1. PICK t \in Threads : act[t].step = "detach" /\ act[t].id = r /\ j \in act[t].jobs
    BY <1>1, <1>2
  <2> QED
    BY <1>0, <2>1 DEF Registered, ThreadOK, InDetach, Carrying
<1>3. ASSUME NEW j \in range[r].jobs, InDetach(j) PROVE j \in U
  <2>1. PICK t \in Threads : act[t].step = "detach" /\ j \in act[t].jobs
    BY <1>3 DEF InDetach
  <2>2. act[t].step \in Carrying /\ act[t].step # "idle"
    BY <2>1 DEF Carrying
  <2>3. j \in range[act[t].id].jobs /\ act[t].id \in Jobs
    BY <1>0, <2>1, <2>2, ActFields DEF Registered, ThreadOK
  <2>4. act[t].id = r
    BY <1>0, <1>3, <2>3 DEF RangeShape
  <2> QED
    BY <1>1, <2>1, <2>4
<1>4. TokenHolders(r) = {j \in range[r].jobs : rec[j].token \/ settling[j] = "token"}
                          \cup (IF At("tokens") THEN batch.todo \cap range[r].jobs ELSE {}) \cup U
  BY DEF TokenHolders
<1> HIDE DEF U
<1>5. ASSUME NEW j PROVE j \in TokenHolders(r) <=> j \in Held(r)
  <2>1. j \in TokenHolders(r) <=>
          \/ j \in range[r].jobs /\ (rec[j].token \/ settling[j] = "token")
          \/ At("tokens") /\ j \in batch.todo /\ j \in range[r].jobs
          \/ j \in U
    BY <1>4
  <2>2. j \in Held(r) <=> j \in range[r].jobs /\ Holding(j)
    BY DEF Held
  <2> QED
    BY <1>2, <1>3, <2>1, <2>2 DEF Holding
<1> QED
  BY <1>5

\* That they are exact follows.
LEMMA RangesFollow ==
  ASSUME BookInv, RangeInv
  PROVE  RangeExact
<1>1. ASSUME NEW r \in Jobs, range[r] # NoRange
      PROVE  /\ range[r].active = Cardinality(TokenHolders(r))
             /\ range[r].handle => ~range[r].delivered /\ range[r].active > 0
             /\ <<r, Only>> \in stored => range[r].installing \/ range[r].handle \/ At("unused")
  <2>1. range[r].jobs # {}
    BY <1>1 DEF RangeInv, RangeShape
  <2>2. range[r].active = Cardinality(Held(r)) /\ Retained(r)
    BY DEF RangeInv, RangeCounted
  <2> QED
    BY <2>1, <2>2, HoldersAre DEF Retained
<1> QED
  BY <1>1 DEF RangeExact

\* The shape of the ranges, the registrations, the tokens and the counts are an invariant.
THEOREM RangesKept == Spec => [](RangeInv /\ Busy)
<1>1. Init => RangeInv /\ Busy
  BY RangeInit
<1>2. BookInv /\ RangeInv /\ Busy /\ [Next]_vars => RangeInv' /\ Busy'
  BY RangeStep
<1> QED
  BY <1>1, <1>2, BooksKept, PTL DEF Spec

\* RangeExact: a range (scheduler/prerequisite_range.rs) counts exactly the
\* members for which somebody still holds the token, and a registration stays
\* in the signal's list only while its delivery is of use to somebody, in
\* whatever order delivery, detachment and installation come.
THEOREM ExactRanges == Spec => []RangeExact
<1>1. BookInv /\ RangeInv => RangeExact
  BY RangesFollow
<1> QED
  BY <1>1, BooksKept, RangesKept, PTL

-----------------------------------------------------------------------------
(* What a step does to a job that waits *)

\* A record that waits after the step waited before, for as much.
SameWait(x, y) ==
  y.stage = "Waiting" =>
    /\ x.stage = "Waiting" /\ y.pending = x.pending /\ (y.attaching <=> x.attaching)
    /\ y.failed = x.failed

\* A job that waits after the step did so before, or is accepted, published or
\* reached by a delivery in it.
PublishedNow(j) == PublishPortion /\ j \in Portion /\ PublishedAs(rec[j], rec'[j], j \in doomed')
Taken(j) == Commit /\ j \in Prepared /\ rec'[j] = [NewRecord EXCEPT !.stage = "Waiting"]
ReachedOne(t, j) ==
  ActivateOne(t) /\ act[t].id = j /\ Reached(j) /\ rec'[j] = Delivered(rec[j], act[t].status)
ReachedIn(t, j) ==
  /\ ActivateRange(t) /\ j \in act[t].jobs /\ Reached(j)
  /\ ReachedAs(rec[j], rec'[j], act[t].status, j \in doomed')
WaitsAs(j) ==
  \/ SameWait(rec[j], rec'[j]) \/ PublishedNow(j) \/ Taken(j)
  \/ \E t \in Threads : ReachedOne(t, j) \/ ReachedIn(t, j)

\* A record promoted, and one of which another field is written.
LEMMA WaitMoved ==
  ASSUME NEW j, Moved(rec[j], rec'[j]) \/ rec'[j] = rec[j] \/ rec'[j].stage # "Waiting"
  PROVE  SameWait(rec[j], rec'[j])
BY DEF Moved, Kept, SameWait

\* The same for a record of which no field but these is written.
LEMMA WaitField ==
  ASSUME NEW j, rec[j] \in Record, NEW v,
         \/ rec'[j] = [rec[j] EXCEPT !.subs = v] \/ rec'[j] = [rec[j] EXCEPT !.deferred = v]
         \/ rec'[j] = [rec[j] EXCEPT !.member = v] \/ rec'[j] = [rec[j] EXCEPT !.token = v]
  PROVE  SameWait(rec[j], rec'[j])
<1>1. /\ rec'[j].attaching = rec[j].attaching /\ rec'[j].stage = rec[j].stage
      /\ rec'[j].pending = rec[j].pending /\ rec'[j].failed = rec[j].failed
  BY DEF Record
<1> QED
  BY <1>1 DEF SameWait

\* The submitter's steps.
LEMMA WaitsSubmission ==
  ASSUME BookInv, [Next]_vars, Submission, NEW j \in Jobs
  PROVE  WaitsAs(j)
<1>0. TypeOK /\ ClassOK(Class) /\ rec \in [Jobs -> Record] /\ rec[j] \in Record
  BY DEF BookInv, TypeOK
<1>1. ASSUME Moved(rec[j], rec'[j]) \/ rec'[j] = rec[j] \/ rec'[j].stage # "Waiting" PROVE WaitsAs(j)
  BY <1>1, WaitMoved DEF WaitsAs
<1>2. CASE Enter \/ Admit \/ SubscribeRange \/ Install \/ DropUnused
  <2>1. rec' = rec
    BY <1>2 DEF Enter, Admit, SubscribeRange, Install, DropUnused
  <2> QED
    BY <1>1, <2>1
<1>3. CASE Charge
  <2>1. CASE ~sealed /\ Fitting # 0
    <3>1. CASE j \in Prepared'
      <4>1. rec'[j] = [NewRecord EXCEPT !.stage = "Prepared"]
        BY <1>3, <2>1, <3>1, ChargeStaged
      <4>2. rec'[j].stage # "Waiting"
        BY <4>1 DEF NewRecord, NoRecord
      <4> QED
        BY <1>1, <4>2
    <3> QED
      BY <1>1, <1>3, <2>1, <3>1, ChargeStaged
  <2>2. CASE sealed \/ Fitting = 0
    BY <1>1, <1>3, <2>2, ChargeStaged
  <2> QED
    BY <2>1, <2>2
<1>4. CASE Commit
  <2> DEFINE n == IF CommitFailure = "None" THEN Selected ELSE 0
             a == Len(batch.accepted)
             taken == a + 1 .. a + n
             prepared == [NewRecord EXCEPT !.stage = "Prepared"]
  <2>1. /\ \A i \in taken : rec[i] = prepared /\ rec'[i] = [prepared EXCEPT !.stage = "Waiting"]
        /\ \A i \in Jobs \ taken : rec'[i] = rec[i]
        /\ taken \subseteq Prepared
    BY <1>4, CommitStaged
  <2> HIDE DEF taken
  <2>2. CASE j \in taken
    <3>1. rec'[j] = [prepared EXCEPT !.stage = "Waiting"]
      BY <2>1, <2>2
    <3>2. rec'[j] = [NewRecord EXCEPT !.stage = "Waiting"]
      BY <3>1 DEF NewRecord, NoRecord
    <3> QED
      BY <1>4, <2>1, <2>2, <3>2 DEF WaitsAs, Taken
  <2> QED
    BY <1>1, <2>1, <2>2
<1>5. CASE Recover
  <2>1. /\ \A i \in Prepared : rec'[i] = NoRecord
        /\ \A i \in Jobs \ Prepared : rec'[i] = rec[i]
    BY <1>5, RecoverStaged
  <2>2. NoRecord.stage = "Out"
    BY DEF NoRecord
  <2> QED
    BY <1>1, <2>1, <2>2
<1>6. CASE Register
  BY <1>0, <1>1, <1>6, RegisterStaged, WaitField DEF WaitsAs
<1>7. CASE Token
  <2>1. rec' = rec \/ \E i : rec' = [rec EXCEPT ![i].token = TRUE]
    BY <1>7 DEF Token
  <2>2. rec'[j] = rec[j] \/ rec'[j] = [rec[j] EXCEPT !.token = TRUE]
    BY <1>0, <2>1
  <2> QED
    BY <1>0, <1>1, <2>2, WaitField DEF WaitsAs
<1>8. CASE Subscribe
  <2>1. CASE batch.todo = {}
    BY <1>1, <1>8, <2>1 DEF Subscribe
  <2>2. CASE batch.todo # {}
    <3>1. PICK e \in batch.todo : rec' = [rec EXCEPT ![e[1]].subs = @ \cup {e[2]}]
      BY <1>8, <2>2 DEF Subscribe
    <3>2. rec'[j] = rec[j] \/ rec'[j] = [rec[j] EXCEPT !.subs = rec[j].subs \cup {e[2]}]
      BY <1>0, <3>1
    <3> QED
      BY <1>0, <1>1, <3>2, WaitField DEF WaitsAs
  <2> QED
    BY <2>1, <2>2
<1>9. CASE PublishPortion
  <2>1. PICK b \in Nat, m \in Nat : b + m <= N /\ batch.portion = From(b, m)
    BY PortionFrom
  <2>2. /\ \A i \in Jobs \ Portion : rec'[i] = rec[i]
        /\ \A i \in Portion : PublishedAs(rec[i], rec'[i], i \in doomed')
    BY <1>0, <1>9, <2>1, PublishEffect, PortionFrom
  <2>3. CASE j \in Portion
    BY <1>9, <2>2, <2>3 DEF WaitsAs, PublishedNow
  <2> QED
    BY <1>1, <2>2, <2>3
<1>10. CASE DispatchPortion
  BY <1>0, <1>1, <1>10, DispatchEffect DEF DispatchPortion
<1> QED
  BY <1>2, <1>3, <1>4, <1>5, <1>6, <1>7, <1>8, <1>9, <1>10 DEF Submission

\* The deliveries.
LEMMA WaitsActivation ==
  ASSUME BookInv, [Next]_vars, NEW t \in Threads, Activation(t), NEW j \in Jobs
  PROVE  WaitsAs(j)
<1>0. TypeOK /\ ClassOK(Class) /\ rec \in [Jobs -> Record] /\ rec[j] \in Record
  BY DEF BookInv, TypeOK
<1>1. ASSUME Moved(rec[j], rec'[j]) \/ rec'[j] = rec[j] \/ rec'[j].stage # "Waiting" PROVE WaitsAs(j)
  BY <1>1, WaitMoved DEF WaitsAs
<1>2. CASE Deliver(t) \/ TakeMembers(t) \/ DetachNext(t) \/ Return(t)
  <2>1. rec' = rec
    BY <1>2 DEF Deliver, TakeMembers, DetachNext, Return
  <2> QED
    BY <1>1, <2>1
<1>3. CASE DispatchActivation(t)
  BY <1>0, <1>1, <1>3, DispatchEffect DEF DispatchActivation
<1>4. CASE ActivateReady(t)
  <2>1. PICK i \in Jobs : i = act[t].id
    BY <1>0, <1>4, ActFields DEF ActivateReady, Doing
  <2> DEFINE due == rec[i].stage = "Waiting" /\ rec[i].pending = 0 /\ ~rec[i].attaching
  <2>2. /\ \A k \in Jobs \ {i} : rec'[k] = rec[k]
        /\ Kept(rec[i], rec'[i]) /\ (~due => rec' = rec)
    BY <1>0, <1>4, <2>1, ReadyEffect
  <2>3. CASE i = j /\ due
    <3>1. SameWait(rec[j], rec'[j])
      BY <2>2, <2>3 DEF SameWait, Kept
    <3> QED
      BY <3>1 DEF WaitsAs
  <2> QED
    BY <1>1, <2>2, <2>3
<1>5. CASE ActivateOne(t)
  <2>1. PICK i \in Jobs : i = act[t].id
    BY <1>0, <1>5, ActFields DEF ActivateOne, Doing
  <2>2. rec' = rec \/ (Reached(i) /\ rec' = [rec EXCEPT ![i] = Delivered(rec[i], act[t].status)])
    BY <1>5, <2>1 DEF ActivateOne
  <2>3. CASE rec'[j] = rec[j]
    BY <1>1, <2>3
  <2>4. CASE rec'[j] # rec[j]
    <3>1. i = j /\ Reached(j) /\ rec'[j] = Delivered(rec[j], act[t].status)
      BY <1>0, <2>2, <2>4
    <3> QED
      BY <1>5, <2>1, <3>1 DEF WaitsAs, ReachedOne
  <2> QED
    BY <2>3, <2>4
<1>6. CASE ActivateRange(t)
  <2> DEFINE reached == {i \in act[t].jobs : Reached(i)}
  <2>1. act[t].jobs \in SUBSET Jobs
    BY <1>0, <1>6, ActFields DEF ActivateRange, Doing
  <2>2. /\ \A i \in Jobs \ reached : rec'[i] = rec[i]
        /\ \A i \in reached : ReachedAs(rec[i], rec'[i], act[t].status, i \in doomed')
    BY <1>0, <1>6, <2>1, RangeEffect
  <2>3. CASE j \in reached
    <3>1. ReachedIn(t, j)
      BY <1>6, <2>2, <2>3 DEF ReachedIn
    <3> QED
      BY <3>1 DEF WaitsAs
  <2> QED
    BY <1>1, <2>2, <2>3
<1> QED
  BY <1>2, <1>3, <1>4, <1>5, <1>6 DEF Activation

\* Every step.
LEMMA WaitsStep ==
  ASSUME BookInv, [Next]_vars, NEW j \in Jobs
  PROVE  WaitsAs(j)
<1>0. TypeOK /\ ClassOK(Class) /\ rec \in [Jobs -> Record] /\ rec[j] \in Record
  BY DEF BookInv, TypeOK
<1>1. ASSUME Moved(rec[j], rec'[j]) \/ rec'[j] = rec[j] \/ rec'[j].stage # "Waiting" PROVE WaitsAs(j)
  BY <1>1, WaitMoved DEF WaitsAs
<1>2. ASSUME NEW i \in Jobs, Settlement(i) \/ Claim(i) \/ EndBody(i) \/ Cancel(i) PROVE WaitsAs(j)
  <2>1. CASE Suppress(i)
    <3>1. /\ Wins(i) => /\ SuppressedAs(rec[i], rec'[i])
                        /\ \A k \in Jobs \ {i} : Moved(rec[k], rec'[k])
          /\ ~Wins(i) => rec' = rec
      BY <1>0, <2>1, SuppressEffect
    <3> QED
      BY <1>1, <3>1 DEF SuppressedAs
  <2>2. CASE Claim(i)
    BY <1>0, <1>1, <2>2, ClaimEffect
  <2>3. CASE DispatchFinal(i)
    BY <1>0, <1>1, <2>3, DispatchEffect DEF DispatchFinal
  <2>4. CASE FinishRecord(i)
    <3>1. rec'[j] = rec[j] \/ rec'[j] = [rec[j] EXCEPT !.deferred = TRUE]
                          \/ rec'[j] = [rec[j] EXCEPT !.subs = {}]
      BY <1>0, <2>4 DEF FinishRecord
    <3> QED
      BY <1>0, <1>1, <3>1, WaitField DEF WaitsAs
  <2>5. CASE EndBody(i)
    <3>1. rec'[j] = rec[j] \/ rec'[j] = [rec[j] EXCEPT !.stage = "Finalizing"]
      BY <1>0, <2>5 DEF EndBody
    <3>2. rec'[j] = rec[j] \/ rec'[j].stage = "Finalizing"
      BY <1>0, <3>1 DEF Record
    <3> QED
      BY <1>1, <3>2
  <2>6. CASE FinalizeRecord(i)
    <3>1. rec'[i] = [NoRecord EXCEPT !.stage = "Gone"] /\ \A k \in Jobs \ {i} : rec'[k] = rec[k]
      BY <2>6, FinalizeStaged
    <3>2. rec'[i].stage = "Gone"
      BY <3>1 DEF NoRecord
    <3> QED
      BY <1>1, <3>1, <3>2
  <2>7. CASE DropToken(i) \/ Cancel(i)
    <3>1. rec' = rec
      BY <2>7 DEF DropToken, Cancel
    <3> QED
      BY <1>1, <3>1
  <2> QED
    BY <1>2, <2>1, <2>2, <2>3, <2>4, <2>5, <2>6, <2>7 DEF Settlement
<1>3. ASSUME NEW s \in Signals, Call(s) \/ \E status \in {"Succeeded", "Failed"} : Complete(s, status)
      PROVE  WaitsAs(j)
  <2>1. rec' = rec
    BY <1>3 DEF Call, Complete
  <2> QED
    BY <1>1, <2>1
<1>4. CASE Seal \/ Close \/ Abandon \/ UNCHANGED vars
  <2>1. rec' = rec
    BY <1>4 DEF Seal, Close, Abandon, vars
  <2> QED
    BY <1>1, <2>1
<1>5. CASE Submission
  BY <1>5, WaitsSubmission
<1>6. ASSUME NEW t \in Threads, Activation(t) PROVE WaitsAs(j)
  BY <1>6, WaitsActivation
<1> QED
  BY <1>2, <1>3, <1>4, <1>5, <1>6 DEF Next

-----------------------------------------------------------------------------
(* What a step does to the deliveries *)

\* The steps that send, take out and make no call.
Quiet ==
  \/ Enter \/ Admit \/ Charge \/ Commit \/ Recover \/ Register \/ Token \/ Install \/ DropUnused
  \/ PublishPortion \/ DispatchPortion
  \/ \E t \in Threads : DetachNext(t) \/ ActivateReady(t) \/ DispatchActivation(t) \/ Return(t)
  \/ \E j \in Jobs : Settlement(j) \/ Claim(j) \/ EndBody(j) \/ Cancel(j)
  \/ Seal \/ Close \/ Abandon \/ UNCHANGED vars

\* Every other step makes, sends or takes up a call.
LEMMA QuietOrNot ==
  ASSUME [Next]_vars
  PROVE  \/ Quiet \/ SubscribeRange \/ Subscribe
         \/ \E s \in Signals : Call(s) \/ \E status \in {"Succeeded", "Failed"} : Complete(s, status)
         \/ \E t \in Threads : Deliver(t) \/ TakeMembers(t) \/ ActivateRange(t) \/ ActivateOne(t)
<1>1. CASE Submission
  BY <1>1 DEF Submission, Quiet
<1>2. ASSUME NEW t \in Threads, Activation(t)
      PROVE  Quiet \/ Deliver(t) \/ TakeMembers(t) \/ ActivateRange(t) \/ ActivateOne(t)
  BY <1>2 DEF Activation, Quiet
<1>3. ASSUME NEW j \in Jobs, Settlement(j) \/ Claim(j) \/ EndBody(j) \/ Cancel(j) PROVE Quiet
  BY <1>3 DEF Quiet
<1>4. CASE Seal \/ Close \/ Abandon \/ UNCHANGED vars
  BY <1>4 DEF Quiet
<1> QED
  BY <1>1, <1>2, <1>3, <1>4 DEF Next

\* Threads on their way to a job.
Underways == {"deliver", "take", "activate", "single"}
SameDelivering ==
  \A u \in Threads : act[u].step \in Underways \/ act'[u].step \in Underways => act'[u] = act[u]

\* What they leave of the calls.
LEMMA QuietEffect ==
  ASSUME BookInv, RangeShape, Registered, Quiet
  PROVE  /\ owed' = owed /\ signal' = signal /\ SameDelivering
         /\ \/ stored' = stored \/ DropUnused \/ (\E r, j : Dropping(r, j))
            \/ \E j \in Jobs : FinishRecord(j)
<1>0. TypeOK
  BY DEF BookInv
<1> DEFINE Same == owed' = owed /\ signal' = signal
           Listed == \/ stored' = stored \/ DropUnused \/ (\E r, j : Dropping(r, j))
                     \/ \E j \in Jobs : FinishRecord(j)
<1> SUFFICES Same /\ SameDelivering /\ Listed
  OBVIOUS
<1>1. ASSUME act' = act PROVE SameDelivering
  BY <1>1 DEF SameDelivering
<1>2. CASE Enter \/ Admit \/ Charge \/ Commit \/ Recover \/ Register \/ Install \/ DropUnused
           \/ PublishPortion \/ DispatchPortion
  <2>1. act' = act /\ Same /\ (stored' = stored \/ DropUnused)
    BY <1>2 DEF Enter, Admit, Charge, Commit, Recover, Register, Install, DropUnused, PublishPortion,
       DispatchPortion
  <2> QED
    BY <1>1, <2>1
<1>3. CASE Token
  <2>1. act' = act /\ Same
    BY <1>3 DEF Token
  <2>2. stored' = stored \/ Dropping(Head(batch.portion), Least(batch.todo))
    BY <1>3, TokenForm DEF Dropping
  <2> QED
    BY <1>1, <2>1, <2>2
<1>4. ASSUME NEW t \in Threads, DetachNext(t) PROVE Same /\ SameDelivering /\ Listed
  <2>1. Same
    BY <1>4 DEF DetachNext
  <2>2. act[t].step = "detach"
    BY <1>4 DEF DetachNext, Doing
  <2>3. CASE act[t].jobs = {}
    <3>1. Then(t, "dispatch") /\ stored' = stored
      BY <1>4, <2>3 DEF DetachNext
    <3>2. act'[t].step = "dispatch" /\ \A u \in Threads \ {t} : act'[u] = act[u]
      BY <1>0, <2>2, <3>1, ThenForm
    <3> QED
      BY <2>1, <2>2, <3>1, <3>2 DEF SameDelivering, Underways
  <2>4. CASE act[t].jobs # {}
    <3>1. act'[t].step = "detach" /\ \A u \in Threads \ {t} : act'[u] = act[u]
      BY <1>4, <2>4, DetachNextForm
    <3>2. Dropping(act[t].id, Least(act[t].jobs))
      BY <1>4, <2>4 DEF Dropping
    <3> QED
      BY <2>1, <2>2, <3>1, <3>2 DEF SameDelivering, Underways
  <2> QED
    BY <2>3, <2>4
<1>5. ASSUME NEW t \in Threads, ActivateReady(t) \/ DispatchActivation(t)
      PROVE  Same /\ SameDelivering /\ Listed
  <2>1. PICK st \in {"dispatch", "stop"} : Then(t, st)
    BY <1>5 DEF ActivateReady, DispatchActivation
  <2>2. Same /\ stored' = stored /\ act[t].step \in {"ready", "dispatch"}
    BY <1>5 DEF ActivateReady, DispatchActivation, Doing
  <2>3. act'[t].step = st /\ \A u \in Threads \ {t} : act'[u] = act[u]
    BY <1>0, <2>1, <2>2, ThenForm
  <2> QED
    BY <2>2, <2>3 DEF SameDelivering, Underways
<1>6. ASSUME NEW t \in Threads, Return(t) PROVE Same /\ SameDelivering /\ Listed
  <2>1. Same /\ stored' = stored /\ act[t].step = "stop" /\ act' = [act EXCEPT ![t] = Idle]
    BY <1>6 DEF Return, Doing
  <2>2. Idle.step = "idle" /\ act \in [Threads -> {Idle} \cup Activity]
    BY <1>0 DEF Idle, TypeOK
  <2>3. act'[t].step = "idle" /\ \A u \in Threads \ {t} : act'[u] = act[u]
    BY <2>1, <2>2
  <2> QED
    BY <2>1, <2>3 DEF SameDelivering, Underways
<1>7. ASSUME NEW j \in Jobs, Settlement(j) \/ Claim(j) \/ EndBody(j) \/ Cancel(j)
      PROVE  Same /\ SameDelivering /\ Listed
  <2>1. act' = act /\ Same
    BY <1>7 DEF Settlement, Suppress, DropToken, FinishRecord, FinalizeRecord, DispatchFinal, Claim,
       EndBody, Cancel
  <2>2. stored' = stored \/ DropToken(j) \/ FinishRecord(j)
    BY <1>7 DEF Settlement, Suppress, FinalizeRecord, DispatchFinal, Claim, EndBody, Cancel
  <2>3. DropToken(j) => Dropping(RangeOf(j), j)
    BY DEF Dropping
  <2> QED
    BY <1>1, <2>1, <2>2, <2>3
<1>8. CASE Seal \/ Close \/ Abandon \/ UNCHANGED vars
  <2>1. act' = act /\ Same /\ stored' = stored
    BY <1>8 DEF Seal, Close, Abandon, vars
  <2> QED
    BY <1>1, <2>1
<1> HIDE DEF Same, Listed
<1> QED
  BY <1>2, <1>3, <1>4, <1>5, <1>6, <1>7, <1>8 DEF Quiet

-----------------------------------------------------------------------------
(* Records and calls are of what the batch waits for *)

\* A range is shared by what waits for one prerequisite; nobody waits for more
\* than all of them; a member of a range, or one that has not subscribed yet,
\* has no handles; a call is stored as long as its signal is pending.
SharedOne == \A r \in Jobs : range[r].jobs # {} => Fanin = 1
PendingIn == \A j \in Jobs : rec[j].stage = "Waiting" => rec[j].pending \in 0 .. Fanin
Handles == \A j \in Jobs : ~Late(j) \/ InRange(j) => rec[j].subs = {}
Signalled ==
  /\ \A c \in stored : c[2] \in Prereqs /\ signal[c[2]] = "Pending"
  /\ \A c \in owed : c[2] \in Prereqs /\ signal[c[2]] # "Pending"

\* A range is made only for what waits for one prerequisite.
LEMMA SharedOneStep ==
  ASSUME BookInv, RangeInv, SharedOne, [Next]_vars
  PROVE  SharedOne'
<1>1. Fanin' = Fanin
  BY OptionsStep
<1>2. CASE Register
  <2>1. batch'.pc = "tokens" => Fanin' = 1
    <3>1. Ranged'
      BY RangedStep
    <3> QED
      BY <3>1 DEF Ranged, Ranging, At
  <2>2. batch'.pc = "tokens" \/ range' = range
    BY <1>2, RegisterForm DEF RangeInv
  <2> QED
    BY <1>1, <2>1, <2>2 DEF SharedOne
<1>3. CASE ~Register
  <2>1. \A q \in Jobs : range'[q].jobs = range[q].jobs
    BY <1>3, RangeTypesStep
  <2> QED
    BY <1>1, <2>1 DEF SharedOne
<1> QED
  BY <1>2, <1>3

\* Deliveries count down from all the prerequisites.
LEMMA PendingInStep ==
  ASSUME BookInv, PendingIn, [Next]_vars
  PROVE  PendingIn'
<1> SUFFICES ASSUME NEW j \in Jobs, rec'[j].stage = "Waiting" PROVE rec'[j].pending \in 0 .. Fanin
  BY OptionsStep DEF PendingIn
<1>0. Fanin \in Nat /\ rec[j] \in Record /\ rec[j].pending \in Int
  BY FaninIn DEF BookInv, TypeOK, Record
<1>1. WaitsAs(j)
  BY WaitsStep
<1>2. CASE SameWait(rec[j], rec'[j])
  BY <1>2 DEF SameWait, PendingIn
<1>3. CASE PublishedNow(j)
  <2>1. rec'[j].pending = rec[j].pending /\ rec[j].stage = "Waiting"
    BY <1>3 DEF PublishedNow, PublishedAs, OpenedAs, Completed
  <2> QED
    BY <2>1 DEF PendingIn
<1>4. CASE Taken(j)
  <2>1. rec'[j].pending = Fanin
    BY <1>4 DEF Taken, NewRecord, NoRecord
  <2> QED
    BY <1>0, <2>1
<1>5. ASSUME NEW t \in Threads, ReachedOne(t, j) \/ ReachedIn(t, j)
      PROVE  rec'[j].pending \in 0 .. Fanin
  <2>1. Reached(j) /\ rec'[j].pending = rec[j].pending - 1
    BY <1>0, <1>5, DeliveredForm DEF ReachedOne, ReachedIn, ReachedAs, DeliveredAs, CountedAs
  <2>2. rec[j].pending \in 0 .. Fanin /\ rec[j].pending > 0
    BY <2>1 DEF Reached, PendingIn
  <2> QED
    BY <1>0, <2>1, <2>2
<1> QED
  BY <1>1, <1>2, <1>3, <1>4, <1>5 DEF WaitsAs

\* A record gets a handle by a subscription only.
LEMMA SubsKept ==
  ASSUME BookInv, [Next]_vars, ~Subscribe, NEW j \in Jobs
  PROVE  rec'[j].subs = rec[j].subs \/ rec'[j].subs = {}
<1> DEFINE Goal == rec'[j].subs = rec[j].subs \/ rec'[j].subs = {}
<1>0. TypeOK /\ ClassOK(Class) /\ rec \in [Jobs -> Record] /\ rec[j] \in Record
  BY DEF BookInv, TypeOK
<1>1. ASSUME Moved(rec[j], rec'[j]) \/ rec'[j] = rec[j] PROVE Goal
  BY <1>1 DEF Moved, Kept
<1>2. CASE Enter \/ Admit \/ SubscribeRange \/ Install \/ DropUnused
  <2>1. rec' = rec
    BY <1>2 DEF Enter, Admit, SubscribeRange, Install, DropUnused
  <2> QED
    BY <2>1
<1>3. CASE Charge
  <2>1. CASE ~sealed /\ Fitting # 0
    <3>1. CASE j \in Prepared'
      <4>1. rec'[j] = [NewRecord EXCEPT !.stage = "Prepared"]
        BY <1>3, <2>1, <3>1, ChargeStaged
      <4> QED
        BY <4>1 DEF NewRecord, NoRecord
    <3> QED
      BY <1>1, <1>3, <2>1, <3>1, ChargeStaged
  <2>2. CASE sealed \/ Fitting = 0
    BY <1>1, <1>3, <2>2, ChargeStaged
  <2> QED
    BY <2>1, <2>2
<1>4. CASE Commit
  <2> DEFINE n == IF CommitFailure = "None" THEN Selected ELSE 0
             a == Len(batch.accepted)
             taken == a + 1 .. a + n
             prepared == [NewRecord EXCEPT !.stage = "Prepared"]
  <2>1. /\ \A i \in taken : rec[i] = prepared /\ rec'[i] = [prepared EXCEPT !.stage = "Waiting"]
        /\ \A i \in Jobs \ taken : rec'[i] = rec[i]
    BY <1>4, CommitStaged
  <2> HIDE DEF taken
  <2>2. CASE j \in taken
    BY <2>1, <2>2 DEF NewRecord, NoRecord
  <2> QED
    BY <1>1, <2>1, <2>2
<1>5. CASE Recover
  <2>1. /\ \A i \in Prepared : rec'[i] = NoRecord
        /\ \A i \in Jobs \ Prepared : rec'[i] = rec[i]
    BY <1>5, RecoverStaged
  <2>2. NoRecord.subs = {}
    BY DEF NoRecord
  <2> QED
    BY <1>1, <2>1, <2>2
<1>6. CASE Register
  <2>1. rec'[j] = [rec[j] EXCEPT !.member = TRUE] \/ rec'[j] = rec[j]
    BY <1>6, RegisterStaged
  <2> QED
    BY <1>0, <2>1 DEF Record
<1>7. CASE Token
  <2>1. rec' = rec \/ \E i : rec' = [rec EXCEPT ![i].token = TRUE]
    BY <1>7 DEF Token
  <2>2. rec'[j] = rec[j] \/ rec'[j] = [rec[j] EXCEPT !.token = TRUE]
    BY <1>0, <2>1
  <2> QED
    BY <1>0, <2>2 DEF Record
<1>8. CASE PublishPortion
  <2>1. PICK b \in Nat, m \in Nat : b + m <= N /\ batch.portion = From(b, m)
    BY PortionFrom
  <2>2. /\ \A i \in Jobs \ Portion : rec'[i] = rec[i]
        /\ \A i \in Portion : PublishedAs(rec[i], rec'[i], i \in doomed')
    BY <1>0, <1>8, <2>1, PublishEffect, PortionFrom
  <2>3. CASE j \in Portion
    BY <2>2, <2>3 DEF PublishedAs, OpenedAs
  <2> QED
    BY <1>1, <2>2, <2>3
<1>9. CASE DispatchPortion
  BY <1>0, <1>1, <1>9, DispatchEffect DEF DispatchPortion
<1>10. ASSUME NEW t \in Threads, Activation(t) PROVE Goal
  <2>1. CASE Deliver(t) \/ TakeMembers(t) \/ DetachNext(t) \/ Return(t)
    <3>1. rec' = rec
      BY <2>1 DEF Deliver, TakeMembers, DetachNext, Return
    <3> QED
      BY <3>1
  <2>2. CASE DispatchActivation(t)
    BY <1>0, <1>1, <2>2, DispatchEffect DEF DispatchActivation
  <2>3. CASE ActivateReady(t)
    <3>1. PICK i \in Jobs : i = act[t].id
      BY <1>0, <2>3, ActFields DEF ActivateReady, Doing
    <3>2. \A k \in Jobs \ {i} : rec'[k] = rec[k]
      BY <1>0, <2>3, <3>1, ReadyEffect
    <3>3. Kept(rec[i], rec'[i])
      BY <1>0, <2>3, <3>1, ReadyEffect
    <3> QED
      BY <3>2, <3>3 DEF Kept
  <2>4. CASE ActivateOne(t)
    <3>1. PICK i \in Jobs : i = act[t].id
      BY <1>0, <2>4, ActFields DEF ActivateOne, Doing
    <3>2. rec' = rec \/ rec' = [rec EXCEPT ![i] = Delivered(rec[i], act[t].status)]
      BY <2>4, <3>1 DEF ActivateOne
    <3>3. rec'[j] = rec[j] \/ rec'[j] = Delivered(rec[j], act[t].status)
      BY <1>0, <3>2
    <3>4. CountedAs(rec[j], Delivered(rec[j], act[t].status), act[t].status)
      BY <1>0, DeliveredForm
    <3> QED
      BY <3>3, <3>4 DEF CountedAs
  <2>5. CASE ActivateRange(t)
    <3> DEFINE reached == {i \in act[t].jobs : Reached(i)}
    <3>1. act[t].jobs \in SUBSET Jobs
      BY <1>0, <2>5, ActFields DEF ActivateRange, Doing
    <3>2. /\ \A i \in Jobs \ reached : rec'[i] = rec[i]
          /\ \A i \in reached : ReachedAs(rec[i], rec'[i], act[t].status, i \in doomed')
      BY <1>0, <2>5, <3>1, RangeEffect
    <3>3. CASE j \in reached
      BY <3>2, <3>3 DEF ReachedAs, DeliveredAs, CountedAs
    <3> QED
      BY <3>2, <3>3
  <2> QED
    BY <1>10, <2>1, <2>2, <2>3, <2>4, <2>5 DEF Activation
<1>11. ASSUME NEW i \in Jobs, Settlement(i) \/ Claim(i) \/ EndBody(i) \/ Cancel(i) PROVE Goal
  <2>1. CASE Suppress(i)
    <3>1. /\ Wins(i) => /\ SuppressedAs(rec[i], rec'[i])
                        /\ \A k \in Jobs \ {i} : Moved(rec[k], rec'[k])
          /\ ~Wins(i) => rec' = rec
      BY <1>0, <2>1, SuppressEffect
    <3> QED
      BY <1>1, <3>1 DEF SuppressedAs
  <2>2. CASE Claim(i)
    <3>1. Kept(rec[i], rec'[i]) /\ \A k \in Jobs \ {i} : Moved(rec[k], rec'[k])
      BY <1>0, <2>2, ClaimEffect
    <3> QED
      BY <1>1, <3>1 DEF Kept
  <2>3. CASE DispatchFinal(i)
    BY <1>0, <1>1, <2>3, DispatchEffect DEF DispatchFinal
  <2>4. CASE FinishRecord(i)
    <3>1. rec'[j] = rec[j] \/ rec'[j] = [rec[j] EXCEPT !.deferred = TRUE]
                          \/ rec'[j] = [rec[j] EXCEPT !.subs = {}]
      BY <1>0, <2>4 DEF FinishRecord
    <3> QED
      BY <1>0, <3>1 DEF Record
  <2>5. CASE EndBody(i)
    <3>1. rec'[j] = rec[j] \/ rec'[j] = [rec[j] EXCEPT !.stage = "Finalizing"]
      BY <1>0, <2>5 DEF EndBody
    <3> QED
      BY <1>0, <3>1 DEF Record
  <2>6. CASE FinalizeRecord(i)
    <3>1. rec'[i] = [NoRecord EXCEPT !.stage = "Gone"] /\ \A k \in Jobs \ {i} : rec'[k] = rec[k]
      BY <2>6, FinalizeStaged
    <3> QED
      BY <3>1 DEF NoRecord
  <2>7. CASE DropToken(i) \/ Cancel(i)
    <3>1. rec' = rec
      BY <2>7 DEF DropToken, Cancel
    <3> QED
      BY <3>1
  <2> QED
    BY <1>11, <2>1, <2>2, <2>3, <2>4, <2>5, <2>6, <2>7 DEF Settlement
<1>12. ASSUME NEW s \in Signals, Call(s) \/ \E status \in {"Succeeded", "Failed"} : Complete(s, status)
      PROVE  Goal
  <2>1. rec' = rec
    BY <1>12 DEF Call, Complete
  <2> QED
    BY <2>1
<1>13. CASE Seal \/ Close \/ Abandon \/ UNCHANGED vars
  <2>1. rec' = rec
    BY <1>13 DEF Seal, Close, Abandon, vars
  <2> QED
    BY <2>1
<1> QED
  BY <1>2, <1>3, <1>4, <1>5, <1>6, <1>7, <1>8, <1>9, <1>10, <1>11, <1>12, <1>13 DEF Next, Submission

\* A subscription at the head of the list: which, and what it leaves.
LEMMA SubscribeForm ==
  ASSUME BookInv, RangeShape, Subscribe
  PROVE  /\ batch.pc = "subscribe" /\ act[Submitter] = Idle /\ SameOrder
         /\ UNCHANGED <<signal, range, owed, doomed, settling, window>>
         /\ \/ /\ batch.todo = {} /\ batch'.pc = "publish" /\ UNCHANGED <<stored, act, rec>>
            \/ \E j \in Jobs, s \in Prereqs :
                 /\ <<j, s>> \in batch.todo /\ j \in Portion /\ s \in Signals
                 /\ Late(j) /\ ~InRange(j)
                 /\ batch'.pc = "subscribe" /\ batch'.todo = batch.todo \ {<<j, s>>}
                 /\ Subscribed(j, s, "single")
                 /\ rec' = [rec EXCEPT ![j].subs = @ \cup {s}]
<1>0. TypeOK /\ Ordered /\ batch.pc = "subscribe" /\ act[Submitter] = Idle /\ SameOrder
      /\ UNCHANGED <<signal, range, owed, doomed, settling, window>>
  <2>1. TypeOK /\ Ordered
    BY DEF BookInv
  <2>2. SameOrder
    BY <2>1, SubmissionSteps
  <2> QED
    BY <2>1, <2>2 DEF Subscribe, At
<1>1. CASE batch.todo = {}
  <2>1. Go("publish") /\ UNCHANGED <<stored, act, rec>>
    BY <1>1 DEF Subscribe
  <2>2. batch'.pc = "publish"
    BY <1>0, <2>1, BatchFields DEF Go, TypeOK, Batch
  <2> QED
    BY <1>0, <1>1, <2>1, <2>2
<1>2. CASE batch.todo # {}
  <2>1. PICK e \in batch.todo : /\ batch' = [batch EXCEPT !.todo = @ \ {e}]
                                /\ Subscribed(e[1], e[2], "single")
                                /\ rec' = [rec EXCEPT ![e[1]].subs = @ \cup {e[2]}]
    BY <1>2 DEF Subscribe
  <2>2. batch.todo \subseteq Portion \X Prereqs
    BY <1>0 DEF BookInv, Ranged, At
  <2>3. PICK j \in Portion, s \in Prereqs : e = <<j, s>>
    BY <2>1, <2>2
  <2>4. j \in Jobs /\ j \in Accepted /\ s \in Signals
    BY <1>0, SpotsIn, FaninIn
  <2>5. Late(j) /\ ~InRange(j)
    BY <1>0, <2>3, <2>4 DEF Late, Fresh, Early, InRange, RangeShape
  <2>6. batch'.pc = "subscribe" /\ batch'.todo = batch.todo \ {<<j, s>>}
    BY <1>0, <2>1, <2>3 DEF TypeOK, Batch
  <2>7. Subscribed(j, s, "single") /\ rec' = [rec EXCEPT ![j].subs = @ \cup {s}]
    BY <2>1, <2>3
  <2> QED
    BY <1>0, <2>1, <2>3, <2>4, <2>5, <2>6, <2>7
<1> QED
  BY <1>1, <1>2

\* Handles come of the subscriptions of single members.
LEMMA HandlesStep ==
  ASSUME BookInv, RangeInv, Handles, [Next]_vars
  PROVE  Handles'
<1>0. TypeOK /\ rec \in [Jobs -> Record] /\ RangeShape
  BY DEF BookInv, TypeOK, RangeInv
<1> SUFFICES ASSUME NEW j \in Jobs, ~Late(j)' \/ InRange(j)' PROVE rec'[j].subs = {}
  BY DEF Handles
<1>1. Late(j) => Late(j)'
  BY LateStep
<1>2. CASE Subscribe
  <2>1. InRange(j)' <=> InRange(j)
    BY <1>2 DEF Subscribe, InRange
  <2>2. rec[j].subs = {}
    BY <1>1, <2>1 DEF Handles
  <2>3. CASE rec' = rec
    BY <2>2, <2>3
  <2>4. CASE rec' # rec
    <3>1. PICK i \in Jobs, s \in Prereqs : /\ Late(i) /\ ~InRange(i)
                                           /\ rec' = [rec EXCEPT ![i].subs = @ \cup {s}]
      BY <1>0, <1>2, <2>4, SubscribeForm
    <3>2. i # j
      BY <1>1, <2>1, <3>1
    <3> QED
      BY <1>0, <2>2, <3>1, <3>2
  <2> QED
    BY <2>3, <2>4
<1>3. CASE ~Subscribe
  <2>1. rec'[j].subs = rec[j].subs \/ rec'[j].subs = {}
    BY <1>3, SubsKept
  <2>2. ~Late(j) \/ InRange(j)
    <3>1. CASE Register
      <4>1. /\ \/ range' = range
               \/ /\ range'[Head(batch.portion)].jobs = Portion
                  /\ \A q \in Jobs \ {Head(batch.portion)} : range'[q] = range[q]
            /\ batch.pc = "register"
        BY <1>0, <3>1, RegisterForm
      <4>2. InRange(j)' => InRange(j) \/ j \in Portion
        BY <4>1 DEF InRange
      <4>3. j \in Portion => ~Late(j)
        BY <4>1 DEF Late, Fresh, Early
      <4> QED
        BY <1>1, <4>2, <4>3
    <3>2. CASE ~Register
      <4>1. \A q \in Jobs : range'[q].jobs = range[q].jobs
        BY <3>2, RangeTypesStep
      <4> QED
        BY <1>1, <4>1 DEF InRange
    <3> QED
      BY <3>1, <3>2
  <2> QED
    BY <2>1, <2>2 DEF Handles
<1> QED
  BY <1>2, <1>3

\* The subscription of the range of the portion in hand.
LEMMA SubscribeRangeForm ==
  ASSUME BookInv, RangeShape, SubscribeRange
  PROVE  LET r == Head(batch.portion)
         IN  /\ r \in Jobs /\ r \in Portion /\ range[r].jobs = Portion /\ ~Late(r)
             /\ Only \in Prereqs /\ Only \in Signals
             /\ batch.pc = "range" /\ batch'.pc = "install" /\ SameOrder
             /\ Subscribed(r, Only, "deliver")
             /\ UNCHANGED <<signal, range, rec, owed, doomed, settling, window>>
<1>0. TypeOK /\ Ordered /\ Phased /\ Ranged /\ batch.pc = "range" /\ SubscribeRange
  BY DEF BookInv, SubscribeRange, At
<1>1. batch.pc \in Ranging /\ batch.pc \in Attaching \cup {"register"}
  BY <1>0 DEF Ranging, Attaching
<1>2. PICK h \in Jobs : h = Head(batch.portion)
  BY <1>0, <1>1, CurrentRange
<1>3. RangeOf(h) = h /\ Only \in Signals /\ Only \in Prereqs /\ range[h].jobs = Portion /\ h \in Portion
  BY <1>0, <1>1, <1>2, CurrentRange, HeadIn
<1>4. Subscribed(h, Only, "deliver")
  BY <1>0, <1>2, <1>3 DEF SubscribeRange
<1>5. SameOrder /\ batch'.pc = "install"
  BY <1>0, SubmissionSteps, PcSteps
<1>6. ~Late(h)
  BY <1>0, <1>3 DEF Late, Fresh
<1>7. UNCHANGED <<signal, range, rec, owed, doomed, settling, window>>
  BY <1>0 DEF SubscribeRange
<1> QED
  BY <1>0, <1>2, <1>3, <1>4, <1>5, <1>6, <1>7

\* The quiet steps and the deliveries only take calls out of the lists.
LEMMA FewerCalls ==
  ASSUME BookInv, RangeInv,
         Quiet \/ \E t \in Threads : Deliver(t) \/ TakeMembers(t) \/ ActivateRange(t) \/ ActivateOne(t)
  PROVE  stored' \subseteq stored /\ owed' = owed /\ signal' = signal
<1>0. TypeOK /\ RangeShape /\ Registered /\ Tokened
  BY DEF BookInv, RangeInv
<1>1. CASE Quiet
  <2>1. ASSUME NEW r, NEW j, Dropping(r, j) PROVE stored' \subseteq stored
    BY <1>0, <2>1, HoldingDrop, DetachForm DEF Detaching
  <2>2. DropUnused => stored' \subseteq stored
    BY DEF DropUnused
  <2>3. \A j \in Jobs : FinishRecord(j) => stored' \subseteq stored
    BY DEF FinishRecord
  <2> QED
    BY <1>0, <1>1, <2>1, <2>2, <2>3, QuietEffect
<1>2. ASSUME NEW t \in Threads, Deliver(t) \/ TakeMembers(t) \/ ActivateRange(t) \/ ActivateOne(t)
      PROVE  stored' \subseteq stored /\ owed' = owed /\ signal' = signal
  BY <1>2 DEF Deliver, TakeMembers, ActivateRange, ActivateOne
<1> QED
  BY <1>1, <1>2

\* A completion moves its calls from the one list to the other.
LEMMA SignalledStep ==
  ASSUME BookInv, RangeInv, Signalled, [Next]_vars
  PROVE  Signalled'
<1>0. Prereqs' = Prereqs /\ TypeOK /\ RangeShape
  BY OptionsStep DEF BookInv, RangeInv
<1>1. ASSUME stored' \subseteq stored, owed' = owed, signal' = signal PROVE Signalled'
  BY <1>0, <1>1 DEF Signalled
<1>2. ASSUME NEW id, NEW s \in Prereqs, NEW step, Subscribed(id, s, step), owed' = owed, signal' = signal
      PROVE  Signalled'
  <2>1. stored' = stored \/ (stored' = stored \cup {<<id, s>>} /\ signal[s] = "Pending")
    BY <1>2 DEF Subscribed
  <2> QED
    BY <1>0, <1>2, <2>1 DEF Signalled
<1>3. CASE SubscribeRange
  BY <1>0, <1>2, <1>3, SubscribeRangeForm
<1>4. CASE Subscribe
  BY <1>0, <1>1, <1>2, <1>4, SubscribeForm
<1>5. ASSUME NEW s \in Signals, Call(s) PROVE Signalled'
  <2>1. stored' = stored /\ owed' \subseteq owed /\ signal' = signal
    BY <1>5 DEF Call
  <2> QED
    BY <1>0, <2>1 DEF Signalled
<1>6. ASSUME NEW s \in Signals, NEW status \in {"Succeeded", "Failed"}, Complete(s, status)
      PROVE  Signalled'
  <2>1. /\ signal[s] = "Pending" /\ signal'[s] = status
        /\ \A x \in Signals \ {s} : signal'[x] = signal[x]
        /\ owed' = owed \cup {c \in stored : c[2] = s} /\ stored' = {c \in stored : c[2] # s}
    BY <1>0, <1>6 DEF Complete, TypeOK
  <2>2. stored \subseteq Jobs \X Signals /\ owed \subseteq Jobs \X Signals
    BY <1>0 DEF TypeOK
  <2>3. \A c \in stored' : c[2] \in Prereqs' /\ signal'[c[2]] = "Pending"
    BY <1>0, <2>1, <2>2 DEF Signalled
  <2>4. \A c \in owed' : c[2] \in Prereqs' /\ signal'[c[2]] # "Pending"
    BY <1>0, <1>6, <2>1, <2>2 DEF Signalled
  <2> QED
    BY <2>3, <2>4 DEF Signalled
<1>7. CASE Quiet \/ \E t \in Threads : Deliver(t) \/ TakeMembers(t) \/ ActivateRange(t) \/ ActivateOne(t)
  BY <1>1, <1>7, FewerCalls
<1> QED
  BY <1>3, <1>4, <1>5, <1>6, <1>7, QuietOrNot

-----------------------------------------------------------------------------
(* A range is called once *)

Calls(r) == {c \in stored \cup owed : c[1] = r}
Called(u, r) == act[u].step = "deliver" /\ act[u].id = r

\* While its call is in a list, or while a thread makes it, nobody delivered
\* the range or makes the call.
CalledOnce(r) ==
  /\ Calls(r) # {} => ~range[r].delivered /\ \A u \in Threads : ~Called(u, r)
  /\ \A u \in Threads : Called(u, r) => ~range[r].delivered
  /\ \A u, z \in Threads : Called(u, r) /\ Called(z, r) => u = z
Once == \A r \in Jobs : range[r].jobs # {} => CalledOnce(r)

\* The call of a range is for the one prerequisite there is.
LEMMA RangeCall ==
  ASSUME SharedOne, Signalled, TypeOK, NEW r \in Jobs, range[r].jobs # {}, NEW c \in Calls(r)
  PROVE  c = <<r, Only>>
<1>1. Cardinality(Prereqs) = 1 /\ c[2] \in Prereqs /\ c[1] = r
  BY DEF SharedOne, Signalled, Calls, Fanin
<1>2. PICK x : Prereqs = {x}
  <2>1. IsFiniteSet(Prereqs)
    BY FaninIn
  <2> QED
    BY <1>1, <2>1, FS_Singleton
<1>3. Only = c[2]
  BY <1>1, <1>2 DEF Only
<1>4. c \in Jobs \X Signals
  BY DEF Calls, TypeOK
<1> QED
  BY <1>1, <1>3, <1>4

\* A job that may not be registered is in no list and no delivery.
LEMMA NotYet ==
  ASSUME RangeInv, NEW j \in Jobs, ~Late(j)
  PROVE  /\ Calls(j) = {} /\ ~range[j].delivered
         /\ \A u \in Threads : act[u].step # "idle" => act[u].id # j
BY DEF RangeInv, Registered, ThreadOK, Calls

\* What leaves a range alone.
LEMMA OnceKept ==
  ASSUME NEW r \in Jobs, CalledOnce(r), Calls(r)' \subseteq Calls(r), range'[r].delivered = range[r].delivered,
         \A u \in Threads : Called(u, r)' => Called(u, r)
  PROVE  CalledOnce(r)'
BY DEF CalledOnce

\* Nobody has called a new range yet.
LEMMA OnceRegister ==
  ASSUME BookInv, RangeInv, Once, [Next]_vars, Register
  PROVE  Once'
<1>0. RangeShape
  BY DEF RangeInv
<1>h. PICK h \in Jobs : h = Head(batch.portion)
  BY <1>0, RegisterForm
<1>1. /\ h \in Jobs /\ h \in Portion /\ batch.pc = "register" /\ UNCHANGED <<stored, owed, act>>
      /\ \/ /\ range'[h].delivered = FALSE /\ \A q \in Jobs \ {h} : range'[q] = range[q]
         \/ range' = range
  BY <1>0, <1>h, RegisterForm
<1>2. ~Late(h)
  BY <1>1 DEF Late, Fresh, Early
<1>3. Calls(h) = {} /\ ~range[h].delivered /\ \A u \in Threads : ~Called(u, h)
  BY <1>1, <1>2, NotYet DEF Called
<1>4. \A r : Calls(r)' = Calls(r) /\ \A u : Called(u, r)' <=> Called(u, r)
  BY <1>1 DEF Calls, Called
<1>5. CalledOnce(h)'
  <2>1. ~range'[h].delivered
    BY <1>1, <1>3
  <2>2. Calls(h)' = {}
    BY <1>3, <1>4
  <2>3. \A u \in Threads : ~(Called(u, h)')
    BY <1>3, <1>4
  <2> QED
    BY <2>1, <2>2, <2>3 DEF CalledOnce
<1>6. ASSUME NEW r \in Jobs, r # h, range'[r].jobs # {} PROVE CalledOnce(r)'
  <2>1. range'[r] = range[r]
    BY <1>1, <1>6
  <2>2. CalledOnce(r)
    BY <1>6, <2>1 DEF Once
  <2> QED
    BY <1>4, <2>1, <2>2, OnceKept
<1>7. \A r \in Jobs : range'[r].jobs # {} => CalledOnce(r)'
  BY <1>5, <1>6
<1> QED
  BY <1>7 DEF Once

\* They deliver and take nothing.
LEMMA NoTake ==
  ASSUME TypeOK, SameDelivering, NEW t \in Threads
  PROVE  ~TakeMembers(t) /\ ~(Deliver(t) /\ ~range[act[t].id].delivered)
<1>1. act[t].step \in Underways => act'[t] = act[t]
  BY DEF SameDelivering
<1>2. CASE TakeMembers(t)
  <2>1. PICK st \in {"stop", "activate"} : \E x : act' = [act EXCEPT ![t].jobs = x, ![t].step = st]
    BY <1>2 DEF TakeMembers
  <2>2. act[t].step = "take" /\ act[t] \in Activity
    BY <1>2, ActFields DEF TakeMembers, Doing
  <2>3. act'[t].step \in {"stop", "activate"}
    BY <2>1, <2>2 DEF TypeOK, Activity
  <2> QED
    BY <1>1, <2>2, <2>3 DEF Underways
<1>3. CASE Deliver(t) /\ ~range[act[t].id].delivered
  <2>1. Then(t, "take") /\ act[t].step = "deliver"
    BY <1>3 DEF Deliver, Doing
  <2>2. act'[t].step = "take"
    BY <2>1, ThenForm
  <2> QED
    BY <1>1, <2>1, <2>2 DEF Underways
<1> QED
  BY <1>2, <1>3

\* The quiet steps make no call.
LEMMA OnceQuiet ==
  ASSUME BookInv, RangeInv, Once, [Next]_vars, Quiet, ~Register
  PROVE  Once'
<1>0. TypeOK /\ RangeShape /\ Registered /\ Tokened
  BY DEF BookInv, RangeInv
<1>1. stored' \subseteq stored /\ owed' = owed /\ SameDelivering
  BY <1>0, FewerCalls, QuietEffect
<1>2. \A r \in Jobs : range'[r].delivered = range[r].delivered
  <2>1. CASE Install
    BY <1>0, <2>1, InstallForm DEF OneRange
  <2>2. ASSUME NEW r, NEW j, Dropping(r, j) PROVE \A q \in Jobs : range'[q].delivered = range[q].delivered
    BY <1>0, <2>2, HoldingDrop, DetachForm DEF Detaching, OneRange
  <2>3. ASSUME NEW t \in Threads, TakeMembers(t) \/ (Deliver(t) /\ ~range[act[t].id].delivered)
        PROVE  FALSE
    BY <1>0, <1>1, <2>3, NoTake
  <2> QED
    BY <1>0, <2>1, <2>2, <2>3, RangeKinds
<1>3. \A q \in Jobs : range'[q].jobs = range[q].jobs
  BY RangeTypesStep
<1>4. ASSUME NEW r \in Jobs, range'[r].jobs # {} PROVE CalledOnce(r)'
  <2>1. CalledOnce(r)
    BY <1>3, <1>4 DEF Once
  <2>2. Calls(r)' \subseteq Calls(r)
    BY <1>1 DEF Calls
  <2>3. \A u \in Threads : Called(u, r)' => Called(u, r)
    BY <1>1 DEF SameDelivering, Called, Underways
  <2> QED
    BY <1>2, <2>1, <2>2, <2>3, OnceKept
<1> QED
  BY <1>4 DEF Once
\* The submitter subscribes the range once, or calls it itself.
LEMMA OnceSubscribeRange ==
  ASSUME BookInv, RangeInv, Busy, Once, [Next]_vars, SubscribeRange
  PROVE  Once'
<1>0. TypeOK /\ RangeShape
  BY DEF BookInv, RangeInv
<1>h. PICK h \in Jobs : h = Head(batch.portion)
  BY <1>0, SubscribeRangeForm
<1>1. /\ h \in Jobs /\ ~Late(h) /\ Only \in Signals /\ Subscribed(h, Only, "deliver")
      /\ batch.pc = "range" /\ owed' = owed /\ range' = range
  BY <1>0, <1>h, SubscribeRangeForm
<1>2. Calls(h) = {} /\ ~range[h].delivered /\ \A u \in Threads : ~Called(u, h)
  BY <1>1, NotYet DEF Called
<1>3. Submitter \in Threads /\ act[Submitter].step = "idle"
  BY <1>1 DEF Busy, Threads
<1>4. \/ /\ stored' = stored \cup {<<h, Only>>} /\ act' = act
      \/ /\ stored' = stored /\ act'[Submitter].step = "deliver" /\ act'[Submitter].id = h
         /\ \A u \in Threads \ {Submitter} : act'[u] = act[u]
  BY <1>0, <1>1, SubscribedForm
<1>5. CalledOnce(h)'
  <2>1. CASE stored' = stored \cup {<<h, Only>>} /\ act' = act
    <3>1. \A u \in Threads : ~(Called(u, h)')
      BY <1>2, <2>1 DEF Called
    <3> QED
      BY <1>1, <1>2, <3>1 DEF CalledOnce
  <2>2. CASE stored' = stored /\ \A u \in Threads \ {Submitter} : act'[u] = act[u]
    <3>1. Calls(h)' = {}
      BY <1>1, <1>2, <2>2 DEF Calls
    <3>2. \A u \in Threads \ {Submitter} : ~(Called(u, h)')
      BY <1>2, <2>2 DEF Called
    <3> QED
      BY <1>1, <1>2, <3>1, <3>2 DEF CalledOnce
  <2> QED
    BY <1>4, <2>1, <2>2
<1>6. ASSUME NEW r \in Jobs, r # h, range'[r].jobs # {} PROVE CalledOnce(r)'
  <2>1. CalledOnce(r)
    BY <1>1, <1>6 DEF Once
  <2>2. Calls(r)' \subseteq Calls(r)
    BY <1>1, <1>4, <1>6 DEF Calls
  <2>3. \A u \in Threads : Called(u, r)' => Called(u, r)
    BY <1>4, <1>6 DEF Called
  <2> QED
    BY <1>1, <2>1, <2>2, <2>3, OnceKept
<1>7. \A r \in Jobs : range'[r].jobs # {} => CalledOnce(r)'
  BY <1>5, <1>6
<1> QED
  BY <1>7 DEF Once

\* The subscriptions of single members are no calls of a range.
LEMMA OnceSubscribe ==
  ASSUME BookInv, RangeInv, Once, [Next]_vars, Subscribe
  PROVE  Once'
<1>0. TypeOK /\ RangeShape /\ range' = range /\ owed' = owed
  BY SubscribeForm DEF BookInv, RangeInv
<1>1. ASSUME NEW r \in Jobs, range'[r].jobs # {} PROVE CalledOnce(r)'
  <2>1. CalledOnce(r) /\ InRange(r)
    BY <1>0, <1>1 DEF Once, InRange, RangeShape
  <2>2. CASE stored' = stored /\ act' = act
    BY <1>0, <2>1, <2>2, OnceKept DEF Calls, Called
  <2>3. ASSUME NEW j \in Jobs, NEW s \in Signals, ~InRange(j), Subscribed(j, s, "single")
        PROVE  CalledOnce(r)'
    <3>1. \/ stored' = stored \cup {<<j, s>>} /\ act' = act
          \/ /\ stored' = stored /\ act'[Submitter].step = "single"
             /\ \A u \in Threads \ {Submitter} : act'[u] = act[u]
      BY <1>0, <2>3, SubscribedForm
    <3>2. j # r
      BY <2>1, <2>3
    <3>3. Calls(r)' \subseteq Calls(r)
      BY <1>0, <3>1, <3>2 DEF Calls
    <3>4. \A u \in Threads : Called(u, r)' => Called(u, r)
      BY <3>1 DEF Called
    <3> QED
      BY <1>0, <2>1, <3>3, <3>4, OnceKept
  <2> QED
    BY <1>0, <2>2, <2>3, SubscribeForm
<1> QED
  BY <1>1 DEF Once

\* A publishing thread takes up a call.
LEMMA CallForm ==
  ASSUME BookInv, RangeInv, NEW s \in Signals, Call(s)
  PROVE  \E c \in owed :
           /\ c[1] \in Jobs /\ c[2] = s /\ c = <<c[1], s>> /\ owed' = owed \ {c} /\ stored' = stored
           /\ s \in Threads /\ act[s].step = "idle" /\ act'[s].id = c[1] /\ act'[s].jobs = {}
           /\ act'[s].step = IF range[c[1]].jobs # {} THEN "deliver" ELSE "single"
           /\ InRange(c[1]) <=> range[c[1]].jobs # {}
           /\ \A u \in Threads \ {s} : act'[u] = act[u]
           /\ UNCHANGED <<batch, rec, range, signal, doomed, settling, window>>
<1>0. TypeOK /\ RangeShape /\ Registered /\ s \in Threads
  BY DEF BookInv, RangeInv, Threads
<1>1. PICK c \in owed :
        /\ c[2] = s /\ owed' = owed \ {c}
        /\ act' = [act EXCEPT ![s] = [step |-> IF range[c[1]] # NoRange THEN "deliver" ELSE "single",
                                      id |-> c[1], status |-> signal[s], jobs |-> {}]]
  BY DEF Call
<1>2. c[1] \in Jobs /\ c = <<c[1], s>>
  BY <1>0, <1>1 DEF TypeOK
<1>3. range[c[1]] # NoRange <=> range[c[1]].jobs # {}
  BY <1>0, <1>2 DEF RangeShape, NoRange
<1>4. InRange(c[1]) <=> range[c[1]].jobs # {}
  <2>1. range[c[1]].jobs # {} => c[1] \in range[c[1]].jobs
    BY <1>0, <1>2 DEF RangeShape
  <2>2. range[c[1]].jobs # {} => InRange(c[1])
    BY <1>2, <2>1 DEF InRange
  <2> QED
    BY <1>0, <1>1, <2>2 DEF Registered
<1>5. act[s].step = "idle" /\ stored' = stored
      /\ UNCHANGED <<batch, rec, range, signal, doomed, settling, window>>
  BY DEF Call, Idle
<1>6. /\ act'[s].id = c[1] /\ act'[s].jobs = {}
      /\ act'[s].step = IF range[c[1]].jobs # {} THEN "deliver" ELSE "single"
      /\ \A u \in Threads \ {s} : act'[u] = act[u]
  BY <1>0, <1>1, <1>3 DEF TypeOK
<1> QED
  BY <1>0, <1>1, <1>2, <1>4, <1>5, <1>6

\* A publishing thread takes the call of a range out of the list and makes it.
LEMMA OnceCall ==
  ASSUME BookInv, RangeInv, SharedOne, Signalled, Once, [Next]_vars, NEW s \in Signals, Call(s)
  PROVE  Once'
<1>0. TypeOK
  BY DEF BookInv
<1>1. PICK c \in owed :
        /\ c[1] \in Jobs /\ c[2] = s /\ c = <<c[1], s>> /\ owed' = owed \ {c} /\ stored' = stored
        /\ s \in Threads /\ act[s].step = "idle" /\ act'[s].id = c[1] /\ act'[s].jobs = {}
        /\ act'[s].step = IF range[c[1]].jobs # {} THEN "deliver" ELSE "single"
        /\ InRange(c[1]) <=> range[c[1]].jobs # {}
        /\ \A u \in Threads \ {s} : act'[u] = act[u]
        /\ UNCHANGED <<batch, rec, range, signal, doomed, settling, window>>
  BY CallForm
<1>2. range' = range
  BY DEF Call
<1>3. ASSUME NEW r \in Jobs, range'[r].jobs # {} PROVE CalledOnce(r)'
  <2>1. CalledOnce(r)
    BY <1>2, <1>3 DEF Once
  <2>2. CASE r # c[1]
    <3>1. \A u \in Threads : Called(u, r)' => Called(u, r)
      BY <1>1, <2>2 DEF Called
    <3>2. Calls(r)' \subseteq Calls(r)
      BY <1>1 DEF Calls
    <3> QED
      BY <1>2, <2>1, <3>1, <3>2, OnceKept
  <2>3. CASE r = c[1]
    <3>1. c \in Calls(r) /\ c \notin stored
      BY <1>1, <2>3 DEF Calls, Signalled
    <3>2. \A d \in Calls(r) : d = c
      BY <1>0, <1>2, <1>3, <3>1, RangeCall
    <3>3. Calls(r)' = {}
      BY <1>1, <3>1, <3>2 DEF Calls
    <3>4. ~range[r].delivered /\ \A u \in Threads : ~Called(u, r)
      BY <2>1, <3>1 DEF CalledOnce
    <3>5. \A u \in Threads \ {s} : ~(Called(u, r)')
      BY <1>1, <3>4 DEF Called
    <3> QED
      BY <1>2, <3>3, <3>4, <3>5 DEF CalledOnce
  <2> QED
    BY <2>2, <2>3
<1> QED
  BY <1>3 DEF Once

\* A delivery: once, for the range that was called.
LEMMA OnceDeliver ==
  ASSUME BookInv, RangeInv, Once, [Next]_vars, NEW t \in Threads, Deliver(t)
  PROVE  /\ Once' /\ range[act[t].id].jobs # {} /\ ~range[act[t].id].delivered
         /\ act'[t].step = "take" /\ act'[t].id = act[t].id
         /\ \A u \in Threads \ {t} : act'[u] = act[u]
<1>0. TypeOK /\ Registered /\ act[t].step = "deliver"
  BY DEF BookInv, RangeInv, Deliver, Doing
<1>1. PICK h \in Jobs : h = act[t].id
  BY <1>0, ActFields
<1>2. range[h].jobs # {} /\ Called(t, h)
  BY <1>0, <1>1 DEF Registered, ThreadOK, Called
<1>3. CalledOnce(h)
  BY <1>2 DEF Once
<1>4. ~range[h].delivered
  BY <1>2, <1>3 DEF CalledOnce
<1>5. Then(t, "take")
  BY <1>1, <1>4 DEF Deliver
<1>6. act'[t].step = "take" /\ act'[t].id = h /\ \A u \in Threads \ {t} : act'[u] = act[u]
  BY <1>0, <1>1, <1>5, ThenForm
<1>7. range'[h].jobs = range[h].jobs /\ \A q \in Jobs \ {h} : range'[q] = range[q]
  BY <1>0, <1>1, <1>2, <1>4, DeliverForm DEF OneRange
<1>8. stored' \subseteq stored /\ owed' = owed
  BY FewerCalls
<1>9. \A q \in Jobs : range'[q].jobs = range[q].jobs
  BY <1>7
<1>10. ASSUME NEW r \in Jobs, range'[r].jobs # {} PROVE CalledOnce(r)'
  <2>1. CalledOnce(r)
    BY <1>9, <1>10 DEF Once
  <2>2. Calls(r)' \subseteq Calls(r)
    BY <1>8 DEF Calls
  <2>3. \A u \in Threads : Called(u, r)' => Called(u, r)
    BY <1>6 DEF Called
  <2>4. CASE r = h
    <3>1. \A u \in Threads : Called(u, r) => u = t
      BY <1>2, <2>1, <2>4 DEF CalledOnce
    <3>2. \A u \in Threads : ~(Called(u, r)')
      BY <1>6, <2>3, <3>1 DEF Called
    <3>3. Calls(r)' = {}
      BY <1>2, <2>1, <2>2, <2>4 DEF CalledOnce
    <3> QED
      BY <3>2, <3>3 DEF CalledOnce
  <2>5. CASE r # h
    BY <1>7, <2>1, <2>2, <2>3, <2>5, OnceKept
  <2> QED
    BY <2>4, <2>5
<1>11. Once'
  BY <1>10 DEF Once
<1> QED
  BY <1>1, <1>2, <1>4, <1>6, <1>11

\* The snapshot of the members, and the thread that takes it.
LEMMA TakeThread ==
  ASSUME TypeOK, NEW t \in Threads, TakeMembers(t)
  PROVE  /\ act[t].step = "take" /\ act[t].id \in Jobs /\ act'[t].id = act[t].id
         /\ act'[t].jobs = range[act[t].id].members
         /\ act'[t].step = IF range[act[t].id].members = {} THEN "stop" ELSE "activate"
         /\ \A u \in Threads \ {t} : act'[u] = act[u]
         /\ UNCHANGED <<batch, rec, stored, owed, signal, doomed, settling, window>>
<1>1. act[t].step = "take" /\ act[t].id \in Jobs /\ act[t] \in Activity
      /\ act \in [Threads -> {Idle} \cup Activity]
  BY ActFields DEF TakeMembers, Doing, TypeOK
<1>2. act' = [act EXCEPT ![t].jobs = range[act[t].id].members,
                         ![t].step = IF range[act[t].id].members = {} THEN "stop" ELSE "activate"]
      /\ UNCHANGED <<batch, rec, stored, owed, signal, doomed, settling, window>>
  BY DEF TakeMembers
<1> QED
  BY <1>1, <1>2 DEF Activity

\* A single member, and the thread that reaches it or finds it suppressed.
LEMMA OneThread ==
  ASSUME TypeOK, NEW t \in Threads, ActivateOne(t)
  PROVE  /\ act[t].step = "single" /\ act[t].id \in Jobs /\ act'[t].id = act[t].id
         /\ ~Reached(act[t].id) => rec' = rec /\ act'[t].step = "stop"
         /\ Reached(act[t].id) =>
              /\ rec' = [rec EXCEPT ![act[t].id] = Delivered(@, act[t].status)]
              /\ act'[t].step = IF rec[act[t].id].attaching THEN "stop" ELSE "ready"
         /\ \A u \in Threads \ {t} : act'[u] = act[u]
         /\ UNCHANGED <<batch, range, stored, owed, signal, doomed, settling, window>>
<1>1. act[t].step = "single" /\ act[t].id \in Jobs
  BY ActFields DEF ActivateOne, Doing
<1>2. UNCHANGED <<batch, range, stored, owed, signal, doomed, settling, window>>
  BY DEF ActivateOne
<1>3. CASE ~Reached(act[t].id)
  <2>1. Then(t, "stop") /\ rec' = rec
    BY <1>3 DEF ActivateOne
  <2> QED
    BY <1>1, <1>2, <1>3, <2>1, ThenForm
<1>4. CASE Reached(act[t].id)
  <2>1. PICK st : st = IF rec[act[t].id].attaching THEN "stop" ELSE "ready"
    OBVIOUS
  <2>2. Then(t, st) /\ rec' = [rec EXCEPT ![act[t].id] = Delivered(@, act[t].status)]
    BY <1>4, <2>1 DEF ActivateOne
  <2> QED
    BY <1>1, <1>2, <1>4, <2>1, <2>2, ThenForm
<1> QED
  BY <1>3, <1>4

\* What follows the call makes no other.
LEMMA OnceCarry ==
  ASSUME BookInv, RangeInv, Once, [Next]_vars, NEW t \in Threads,
         TakeMembers(t) \/ ActivateRange(t) \/ ActivateOne(t)
  PROVE  Once'
<1>0. TypeOK /\ RangeShape /\ Registered
  BY DEF BookInv, RangeInv
<1>1. act'[t].step # "deliver" /\ (\A u \in Threads \ {t} : act'[u] = act[u])
      /\ stored' = stored /\ owed' = owed
  <2>1. CASE TakeMembers(t)
    BY <1>0, <2>1, TakeThread
  <2>2. CASE ActivateRange(t)
    <3>1. owed' = owed
      BY <2>2 DEF ActivateRange
    <3> QED
      BY <1>0, <2>2, <3>1, ActivateForm
  <2>3. CASE ActivateOne(t)
    <3>1. act'[t].step \in {"stop", "ready"}
      BY <1>0, <2>3, OneThread
    <3> QED
      BY <1>0, <2>3, <3>1, OneThread
  <2> QED
    BY <2>1, <2>2, <2>3
<1>2. \A q \in Jobs : range'[q].jobs = range[q].jobs /\ range'[q].delivered = range[q].delivered
  <2>1. CASE TakeMembers(t)
    <3>1. PICK h \in Jobs : h = act[t].id
      BY <1>0, <2>1, TakeThread
    <3>2. range' = [range EXCEPT ![h].members = {}]
      BY <2>1, <3>1 DEF TakeMembers
    <3>3. range \in [Jobs -> Registration]
      BY <1>0 DEF TypeOK
    <3>4. ASSUME NEW q \in Jobs
          PROVE range'[q].jobs = range[q].jobs /\ range'[q].delivered = range[q].delivered
      BY <3>2, <3>3 DEF Registration
    <3> QED
      BY <3>4
  <2>2. CASE ActivateRange(t) \/ ActivateOne(t)
    BY <2>2 DEF ActivateRange, ActivateOne
  <2> QED
    BY <2>1, <2>2
<1>3. ASSUME NEW r \in Jobs, range'[r].jobs # {} PROVE CalledOnce(r)'
  <2>1. CalledOnce(r)
    BY <1>2, <1>3 DEF Once
  <2>2. Calls(r)' \subseteq Calls(r)
    BY <1>1 DEF Calls
  <2>3. \A u \in Threads : Called(u, r)' => Called(u, r)
    BY <1>1 DEF Called
  <2> QED
    BY <1>2, <2>1, <2>2, <2>3, OnceKept
<1> QED
  BY <1>3 DEF Once

\* Every step keeps it to one call of a range.
LEMMA OnceStep ==
  ASSUME BookInv, RangeInv, Busy, SharedOne, Signalled, Once, [Next]_vars
  PROVE  Once'
<1>0. TypeOK
  BY DEF BookInv
<1>1. CASE Quiet
  BY <1>1, OnceQuiet, OnceRegister
<1>2. ASSUME NEW s \in Signals, NEW status \in {"Succeeded", "Failed"}, Complete(s, status)
      PROVE  Once'
  <2>1. act' = act /\ range' = range /\ owed' = owed \cup {c \in stored : c[2] = s}
        /\ stored' = {c \in stored : c[2] # s}
    BY <1>2 DEF Complete
  <2>2. \A r : Calls(r)' = Calls(r) /\ \A u : Called(u, r)' => Called(u, r)
    BY <2>1 DEF Calls, Called
  <2>3. ASSUME NEW r \in Jobs, range'[r].jobs # {} PROVE CalledOnce(r)'
    <3>1. CalledOnce(r)
      BY <2>1, <2>3 DEF Once
    <3> QED
      BY <2>1, <2>2, <3>1, OnceKept
  <2> QED
    BY <2>3 DEF Once
<1>3. ASSUME NEW t \in Threads, Deliver(t) \/ TakeMembers(t) \/ ActivateRange(t) \/ ActivateOne(t)
      PROVE  Once'
  BY <1>3, OnceDeliver, OnceCarry
<1> QED
  BY <1>1, <1>2, <1>3, OnceSubscribeRange, OnceSubscribe, OnceCall, QuietOrNot

-----------------------------------------------------------------------------
(* A member that waits has use for the delivery *)

\* A member of a range that waits for its delivery holds its token, or is to get
\* it; a registration is dropped when nobody has use for it.
Interest(j) == rec[j].token \/ (At("tokens") /\ j \in batch.todo)
Interested ==
  /\ \A j \in Jobs : Reached(j) /\ InRange(j) => Interest(j)
  /\ At("unused") => \E r \in Jobs : r = Head(batch.portion) /\ (range[r].delivered \/ range[r].active = 0)

\* What reaches a member of a range is the last it waits for.
LEMMA ReachedLast ==
  ASSUME BookInv, RangeInv, SharedOne, PendingIn, [Next]_vars, NEW j \in Jobs, InRange(j), Reached(j)'
  PROVE  SameWait(rec[j], rec'[j]) \/ PublishedNow(j)
<1>0. TypeOK /\ Registered /\ rec[j] \in Record /\ rec[j].pending \in Int /\ rec'[j].stage = "Waiting"
      /\ rec'[j].pending > 0
  BY DEF BookInv, RangeInv, TypeOK, Record, Reached
<1>1. WaitsAs(j)
  BY WaitsStep
<1>2. PICK r \in Jobs : j \in range[r].jobs
  BY DEF InRange
<1>3. ~Taken(j)
  <2>1. j \in Accepted
    BY <1>2 DEF RangeInv, RangeShape
  <2> QED
    BY <2>1, SpotsIn DEF Taken
<1>4. ASSUME NEW t \in Threads, ReachedOne(t, j) \/ ReachedIn(t, j) PROVE FALSE
  <2>1. rec[j].pending \in 0 .. 1 /\ rec[j].pending > 0
    BY <1>2, <1>4 DEF ReachedOne, ReachedIn, Reached, PendingIn, SharedOne
  <2>2. rec'[j].pending = rec[j].pending - 1
    BY <1>0, <1>4, DeliveredForm DEF ReachedOne, ReachedIn, ReachedAs, DeliveredAs, CountedAs
  <2> QED
    BY <1>0, <2>1, <2>2
<1> QED
  BY <1>1, <1>3, <1>4 DEF WaitsAs

\* It was waiting for it before.
LEMMA ReachedBefore ==
  ASSUME BookInv, RangeInv, SharedOne, PendingIn, [Next]_vars, NEW j \in Jobs, InRange(j), Reached(j)'
  PROVE  Reached(j) /\ rec'[j].pending = rec[j].pending
<1>1. SameWait(rec[j], rec'[j]) \/ PublishedNow(j)
  BY ReachedLast
<1>2. rec'[j].stage = "Waiting" /\ rec'[j].pending > 0
  BY DEF Reached
<1>3. PublishedNow(j) => rec[j].stage = "Waiting" /\ rec'[j].pending = rec[j].pending
  BY <1>2 DEF PublishedNow, PublishedAs, OpenedAs, Completed
<1> QED
  BY <1>1, <1>2, <1>3 DEF SameWait, Reached

\* The token of a member that still waits.
LEMMA InterestKept ==
  ASSUME BookInv, RangeInv, SharedOne, PendingIn, Interested, [Next]_vars, ~Register,
         NEW j \in Jobs, InRange(j), Reached(j)'
  PROVE  Interest(j)'
<1>0. TypeOK /\ RangeShape /\ Registered /\ Tokened /\ rec \in [Jobs -> Record]
  BY DEF BookInv, RangeInv, TypeOK
<1>1. Reached(j) /\ Interest(j) /\ rec'[j].stage = "Waiting" /\ rec'[j].pending = rec[j].pending
  BY ReachedBefore DEF Interested, Reached
<1>2. CASE Token
  <2>1. PICK i \in Jobs : i = Least(batch.todo)
    BY <1>0, <1>2, TokenForm
  <2>2. batch.pc = "tokens" /\ batch'.todo = batch.todo \ {i} /\ i \in batch.todo
        /\ batch'.pc = IF batch.todo = {i} THEN "range" ELSE "tokens"
    BY <1>0, <1>2, <2>1, TokenForm DEF Token, At
  <2>3. CASE i # j
    <3>1. rec'[j] = rec[j]
      BY <1>0, <1>2, <2>1, <2>3, TokenForm
    <3>2. j \in batch.todo => batch'.pc = "tokens" /\ j \in batch'.todo
      BY <2>2, <2>3
    <3> QED
      BY <1>1, <3>1, <3>2 DEF Interest, At
  <2>4. CASE i = j
    <3>1. rec[j].stage # "Finalizing"
      BY <1>1 DEF Reached
    <3>2. rec' = [rec EXCEPT ![j].token = TRUE]
      BY <1>0, <1>2, <2>1, <2>4, <3>1, TokenForm
    <3>3. rec'[j].token
      BY <1>0, <3>2 DEF Record
    <3> QED
      BY <3>3 DEF Interest
  <2> QED
    BY <2>3, <2>4
<1>3. CASE ~Token
  <2>1. batch'.pc = "tokens" /\ j \in batch'.todo <=> batch.pc = "tokens" /\ j \in batch.todo
    BY <1>3, TodoCalm
  <2>2. rec'[j].token <=> rec[j].token
    <3>1. ASSUME NEW i \in Jobs, Suppress(i) PROVE rec'[j].token <=> rec[j].token
      <4>1. /\ Wins(i) => /\ SuppressedAs(rec[i], rec'[i])
                          /\ \A k \in Jobs \ {i} : Moved(rec[k], rec'[k])
            /\ ~Wins(i) => rec' = rec
        BY <1>0, <3>1, SuppressEffect DEF BookInv
      <4> QED
        BY <1>1, <4>1 DEF SuppressedAs, Moved, Kept
    <3>2. ASSUME NEW t \in Threads, ActivateRange(t) PROVE rec'[j].token <=> rec[j].token
      <4>1. ~ReachedIn(t, j)
        <5>1. rec[j].pending \in Int
          BY <1>0 DEF Record
        <5> QED
          BY <1>1, <5>1 DEF ReachedIn, ReachedAs, DeliveredAs, CountedAs
      <4> DEFINE reached == {i \in act[t].jobs : Reached(i)}
      <4>2. act[t].jobs \in SUBSET Jobs
        BY <1>0, <3>2, ActFields DEF ActivateRange, Doing
      <4>3. /\ \A i \in Jobs \ reached : rec'[i] = rec[i]
            /\ \A i \in reached : ReachedAs(rec[i], rec'[i], act[t].status, i \in doomed')
        BY <1>0, <3>2, <4>2, RangeEffect DEF BookInv
      <4>4. j \notin reached
        BY <3>2, <4>1, <4>3 DEF ReachedIn
      <4> QED
        BY <4>3, <4>4
    <3>3. CASE (\A i \in Jobs : ~Suppress(i)) /\ \A t \in Threads : ~ActivateRange(t)
      BY <1>0, <1>3, <3>3, RecordsOther DEF TokenSame
    <3> QED
      BY <3>1, <3>2, <3>3
  <2> QED
    BY <1>1, <2>1, <2>2 DEF Interest, At
<1> QED
  BY <1>2, <1>3

\* A range nobody has use for stays so.
LEMMA UnusedStays ==
  ASSUME BookInv, RangeInv, Busy, Interested, [Next]_vars, batch'.pc = "unused"
  PROVE  \E r \in Jobs : r = Head(batch'.portion) /\ (range'[r].delivered \/ range'[r].active = 0)
<1>0. TypeOK /\ Ordered /\ RangeShape /\ Registered /\ Tokened
  BY DEF BookInv, RangeInv
<1>1. CASE Install
  <2>1. PICK r \in Jobs : r = Head(batch.portion)
    BY <1>0, <1>1, InstallForm
  <2>2. /\ range'[r].delivered = range[r].delivered /\ range'[r].active = range[r].active
        /\ batch'.pc = IF range[r].delivered \/ range[r].active = 0 THEN "unused" ELSE "publish"
    BY <1>0, <1>1, <2>1, InstallForm
  <2>3. batch'.portion = batch.portion
    BY <1>0, <1>1, SubmissionSteps DEF SameOrder
  <2> QED
    BY <2>1, <2>2, <2>3
<1>2. CASE ~Install
  <2>1. batch.pc = "unused" /\ batch'.portion = batch.portion
    <3>1. batch'.pc \in Unkept \cup {"unused"}
      BY DEF Unkept
    <3>2. CASE Submission
      BY <1>0, <1>2, <3>2, PcSteps DEF Submission, Before
    <3>3. CASE Outside
      BY <3>3, OutsideSteps
    <3> QED
      BY <3>2, <3>3, OutsideSteps
  <2>2. PICK r \in Jobs : r = Head(batch.portion) /\ (range[r].delivered \/ range[r].active = 0)
    BY <2>1 DEF Interested, At
  <2>3. range[r].delivered => range'[r].delivered
    <3>1. CASE Register
      BY <2>1, <3>1, PcSteps, <1>0
    <3>2. ASSUME NEW x, NEW j, Dropping(x, j) PROVE range[r].delivered => range'[r].delivered
      BY <1>0, <3>2, HoldingDrop, DetachForm DEF Detaching, OneRange
    <3>3. ASSUME NEW t \in Threads, TakeMembers(t) \/ (Deliver(t) /\ ~range[act[t].id].delivered)
          PROVE  range[r].delivered => range'[r].delivered
      <4>1. range[act[t].id].jobs # {}
        <5>1. act[t].step \in {"take", "deliver"} /\ act[t].id \in Jobs
          BY <1>0, <3>3, ActFields DEF TakeMembers, Deliver, Doing
        <5>2. act[t].step = "take" => range[act[t].id].delivered
          BY <1>0 DEF Registered, ThreadOK, Carrying
        <5> QED
          BY <1>0, <5>1, <5>2 DEF Registered, ThreadOK, RangeShape, NoRange
      <4> QED
        BY <1>0, <3>3, <4>1, DeliverForm, TakeForm DEF OneRange
    <3> QED
      BY <1>0, <1>2, <3>1, <3>2, <3>3, RangeKinds
  <2>4. range[r].active = 0 => range'[r].active = 0
    <3>1. CASE Register
      BY <1>0, <2>1, <3>1, PcSteps
    <3>2. ASSUME NEW x, NEW j, Dropping(x, j), range[r].active = 0 PROVE range'[r].active = 0
      <4>1. Detaching(x, j) /\ j \in Jobs /\ j \in range[x].jobs /\ Holding(j)
        BY <1>0, <3>2, HoldingDrop
      <4>2. x \in Jobs /\ j \in Held(x)
        BY <4>1 DEF Held, Detaching
      <4>3. CASE x = r
        <5>1. Cardinality(Held(r)) = 0 /\ Held(r) \in SUBSET Jobs
          BY <1>0, <3>2, HeldIn DEF RangeInv, RangeCounted
        <5>2. IsFiniteSet(Held(r))
          BY <5>1, FewJobs
        <5> QED
          BY <4>2, <4>3, <5>1, <5>2, FS_EmptySet
      <4>4. CASE x # r
        BY <1>0, <3>2, <4>1, <4>4, DetachForm DEF Detaching, OneRange
      <4> QED
        BY <4>3, <4>4
    <3>3. ASSUME NEW t \in Threads, TakeMembers(t) \/ (Deliver(t) /\ ~range[act[t].id].delivered)
          PROVE  range'[r].active = range[r].active
      BY <1>0, <3>3, RetainedDeliver DEF RangeInv
    <3> QED
      BY <1>0, <1>2, <3>1, <3>2, <3>3, RangeKinds
  <2> QED
    BY <2>1, <2>2, <2>3, <2>4
<1> QED
  BY <1>1, <1>2

\* Every step leaves the token with the members that wait.
LEMMA InterestedStep ==
  ASSUME BookInv, RangeInv, Busy, SharedOne, PendingIn, Interested, [Next]_vars
  PROVE  Interested'
<1>0. TypeOK /\ RangeShape
  BY DEF BookInv, RangeInv
<1>1. ASSUME NEW j \in Jobs, Reached(j)', InRange(j)' PROVE Interest(j)'
  <2>1. CASE InRange(j) /\ ~Register
    BY <1>1, <2>1, InterestKept
  <2>2. CASE ~InRange(j) /\ ~Register
    <3>1. \A q \in Jobs : range'[q].jobs = range[q].jobs
      BY <2>2, RangeTypesStep
    <3> QED
      BY <1>1, <2>2, <3>1 DEF InRange
  <2>3. CASE Register
    <3>1. PICK h \in Jobs : h = Head(batch.portion)
      BY <1>0, <2>3, RegisterForm
    <3>2. /\ batch.pc = "register" /\ UNCHANGED <<stored, owed, act, settling>>
          /\ \/ /\ batch'.pc = "tokens" /\ batch'.todo = Portion
                /\ range'[h].jobs = Portion
                /\ \A q \in Jobs \ {h} : range'[q] = range[q]
             \/ batch'.pc = "subscribe" /\ range' = range
      BY <1>0, <2>3, <3>1, RegisterForm
    <3>3. CASE batch'.pc = "tokens" /\ j \in batch'.todo
      BY <3>3 DEF Interest, At
    <3>4. CASE ~(batch'.pc = "tokens" /\ j \in batch'.todo)
      <4>1. InRange(j)
        BY <1>1, <3>2, <3>4 DEF InRange
      <4>2. Reached(j) /\ ~At("tokens")
        BY <1>1, <3>2, <4>1, ReachedBefore DEF At
      <4>3. rec[j].token
        BY <4>1, <4>2 DEF Interested, Interest
      <4>4. rec'[j].token <=> rec[j].token
        <5>1. CalmStep
          BY <2>3 DEF CalmStep
        <5> QED
          BY <1>0, <5>1, RecordsCalm DEF Calmly, TokenSame, RangeInv
      <4> QED
        BY <4>3, <4>4 DEF Interest
    <3> QED
      BY <3>3, <3>4
  <2> QED
    BY <2>1, <2>2, <2>3
<1>2. batch'.pc = "unused" => \E r \in Jobs : r = Head(batch'.portion) /\ (range'[r].delivered \/ range'[r].active = 0)
  BY UnusedStays
<1> QED
  BY <1>1, <1>2 DEF Interested, At

\* A thread that activates a range reaches everybody of it who waits.
LEMMA ActivateMisses ==
  ASSUME BookInv, NEW t \in Threads, ActivateRange(t), NEW j \in Jobs, Reached(j),
         rec'[j].pending = rec[j].pending
  PROVE  j \notin act[t].jobs
<1>0. TypeOK /\ ClassOK(Class) /\ rec[j].pending \in Int
  BY DEF BookInv, TypeOK, Record
<1>1. act[t].jobs \in SUBSET Jobs
  BY <1>0, ActFields DEF ActivateRange, Doing
<1> DEFINE reached == {i \in act[t].jobs : Reached(i)}
<1>2. \A i \in reached : ReachedAs(rec[i], rec'[i], act[t].status, i \in doomed')
  BY <1>0, <1>1, RangeEffect
<1>3. j \notin reached
  BY <1>0, <1>2 DEF ReachedAs, DeliveredAs, CountedAs
<1> QED
  BY <1>3

\* Who drops a token has no use for a delivery.
LEMMA DropUseless ==
  ASSUME BookInv, RangeInv, Interested, NEW r, NEW j, Dropping(r, j)
  PROVE  ~Reached(j)
<1>0. TypeOK /\ RangeShape /\ Registered /\ Tokened
  BY DEF BookInv, RangeInv
<1>1. j \in Jobs /\ j \in range[r].jobs /\ r \in Jobs
  BY <1>0, HoldingDrop DEF Detaching
<1>2. InRange(j)
  BY <1>1 DEF InRange
<1>3. CASE Token /\ rec[j].stage = "Finalizing"
  BY <1>3 DEF Reached
<1>4. CASE DropToken(j)
  <2>1. settling[j] = "token"
    BY <1>4 DEF DropToken
  <2>2. JobStaged(j)
    BY <1>1 DEF BookInv, Staged
  <2>3. rec[j].stage = "Finalizing"
    BY <2>1, <2>2 DEF JobStaged
  <2> QED
    BY <2>3 DEF Reached
<1>5. ASSUME NEW t \in Threads, DetachNext(t), act[t].jobs # {}, j = Least(act[t].jobs) PROVE ~Reached(j)
  <2>1. InDetach(j)
    BY <1>0, <1>5, DetachNextForm DEF InDetach
  <2>2. ~rec[j].token
    BY <1>0, <1>1, <2>1 DEF Tokened
  <2>3. ~(At("tokens") /\ j \in batch.todo)
    BY <1>0, <2>1, TodoFree
  <2> QED
    BY <1>1, <1>2, <2>2, <2>3 DEF Interested, Interest
<1> QED
  BY <1>3, <1>4, <1>5 DEF Dropping

-----------------------------------------------------------------------------
(* The delivery of a range is on its way *)

\* The submitter has not subscribed the range of the portion in hand yet, its
\* call is in a list, or a thread is between the call and the snapshot.
Unsubscribed(r) == batch.pc \in {"tokens", "range"} /\ r = Head(batch.portion)
Bound(r) ==
  \/ Unsubscribed(r) \/ Calls(r) # {}
  \/ \E u \in Threads : act[u].step \in {"deliver", "take"} /\ act[u].id = r
Snapped(r, j) == \E u \in Threads : act[u].step = "activate" /\ act[u].id = r /\ j \in act[u].jobs
OnItsWay(r, j) == (j \in range[r].members /\ Bound(r)) \/ Snapped(r, j)
Underway == \A r \in Jobs : \A j \in range[r].jobs : Reached(j) => OnItsWay(r, j)

\* The call of a range somebody waits for is not dropped.
LEMMA CallsStay ==
  ASSUME BookInv, RangeInv, SharedOne, Signalled, Once, Interested, Handles, [Next]_vars, Quiet,
         NEW r \in Jobs, NEW j \in range[r].jobs, Reached(j), Calls(r) # {}
  PROVE  Calls(r)' # {}
<1>0. TypeOK /\ Ordered /\ Phased /\ Ranged /\ RangeShape /\ Registered /\ Tokened /\ RangeCounted
  BY DEF BookInv, RangeInv
<1>1. j \in Jobs /\ InRange(j) /\ Interest(j)
  BY <1>0 DEF TypeOK, Registration, InRange, Interested
<1>2. Holding(j) /\ j \in Held(r)
  BY <1>1 DEF Interest, Holding, Held
<1>3. owed' = owed
  BY <1>0, QuietEffect
<1>4. ASSUME stored' = stored PROVE Calls(r)' # {}
  BY <1>3, <1>4 DEF Calls
<1>5. ASSUME NEW x \in Jobs, x # r, stored' = stored \ {<<x, Only>>} PROVE Calls(r)' # {}
  BY <1>3, <1>5 DEF Calls
<1>6. CASE DropUnused
  <2>1. PICK h \in Jobs : h = Head(batch.portion) /\ (range[h].delivered \/ range[h].active = 0)
    BY <1>6 DEF Interested, DropUnused
  <2>2. batch.pc = "unused" /\ batch.pc \in Ranging
    BY <1>6 DEF DropUnused, At, Ranging
  <2>3. RangeOf(h) = h
    BY <1>0, <2>1, <2>2, CurrentRange
  <2>4. stored' = stored \ {<<h, Only>>}
    BY <1>6, <2>1, <2>3 DEF DropUnused
  <2>5. CASE h = r
    <3>1. ~range[r].delivered
      BY <1>0 DEF Once, CalledOnce
    <3>2. Cardinality(Held(r)) = 0 /\ IsFiniteSet(Held(r))
      BY <1>0, <2>1, <2>5, <3>1, HeldIn, FewJobs DEF RangeCounted
    <3> QED
      BY <1>2, <3>2, FS_EmptySet
  <2> QED
    BY <1>5, <2>4, <2>5
<1>7. ASSUME NEW x, NEW i, Dropping(x, i) PROVE Calls(r)' # {}
  <2>1. Detaching(x, i) /\ i \in Jobs /\ i \in range[x].jobs /\ Holding(i) /\ x \in Jobs
    BY <1>0, <1>7, HoldingDrop DEF Detaching
  <2>2. i # j
    BY <1>7, DropUseless
  <2>3. \/ stored' = stored
        \/ stored' = stored \ {<<x, Only>>} /\ range[x].active = 1
    BY <1>0, <2>1, DetachForm DEF Detaching
  <2>4. CASE x = r /\ range[x].active = 1
    <3>1. Cardinality(Held(r)) = 1 /\ IsFiniteSet(Held(r))
      BY <1>0, <2>4, HeldIn, FewJobs DEF RangeCounted
    <3>2. i \in Held(r)
      BY <2>1, <2>4 DEF Held
    <3>3. \E y : Held(r) = {y}
      BY <3>1, FS_Singleton
    <3> QED
      BY <1>2, <2>2, <3>2, <3>3
  <2> QED
    BY <1>4, <1>5, <2>1, <2>3, <2>4
<1>8. ASSUME NEW i \in Jobs, FinishRecord(i) PROVE Calls(r)' # {}
  <2>1. InRange(r)
    BY <1>0 DEF InRange, RangeShape
  <2>2. rec[r].subs = {}
    BY <2>1 DEF Handles
  <2>3. stored' = stored \/ stored' = stored \ ({i} \X rec[i].subs)
    BY <1>8 DEF FinishRecord
  <2>4. CASE i = r
    <3>1. stored' = stored
      BY <2>2, <2>3, <2>4
    <3> QED
      BY <1>4, <3>1
  <2>5. CASE i # r
    BY <1>3, <2>3, <2>5 DEF Calls
  <2> QED
    BY <2>4, <2>5
<1> QED
  BY <1>0, <1>4, <1>6, <1>7, <1>8, QuietEffect

\* The submitter subscribes the range it made.
LEMMA UnsubscribedStays ==
  ASSUME BookInv, [Next]_vars, Quiet \/ UNCHANGED batch, NEW r, Unsubscribed(r)
  PROVE  Unsubscribed(r)'
<1>0. TypeOK /\ batch.pc \in {"tokens", "range"}
  BY DEF BookInv, Unsubscribed
<1>1. CASE UNCHANGED batch
  BY <1>1 DEF Unsubscribed
<1>2. CASE Enter \/ Admit \/ Charge \/ Commit \/ Recover \/ Register \/ Token \/ Install \/ DropUnused
           \/ PublishPortion \/ DispatchPortion
  <2>1. Token
    BY <1>0, <1>2, PcSteps DEF Before
  <2>2. batch'.pc \in {"tokens", "range"} /\ batch'.portion = batch.portion
    BY <1>0, <2>1, PcSteps, SubmissionSteps DEF SameOrder
  <2> QED
    BY <2>2 DEF Unsubscribed
<1>3. CASE Outside
  BY <1>1, <1>3, OutsideSteps
<1>4. Quiet => \/ Enter \/ Admit \/ Charge \/ Commit \/ Recover \/ Register \/ Token \/ Install
               \/ DropUnused \/ PublishPortion \/ DispatchPortion \/ Outside
  BY DEF Quiet, Outside, Activation
<1> QED
  BY <1>1, <1>2, <1>3, <1>4

\* What most steps leave of the delivery of a range.
LEMMA WayKept ==
  ASSUME NEW r, NEW j, OnItsWay(r, j), j \in range[r].members => j \in range'[r].members,
         Unsubscribed(r) => Unsubscribed(r)', Calls(r) # {} => Calls(r)' # {},
         \A u \in Threads : /\ act[u].step \in {"deliver", "take"} /\ act[u].id = r => act'[u] = act[u]
                            /\ act[u].step = "activate" /\ act[u].id = r /\ j \in act[u].jobs => act'[u] = act[u]
  PROVE  OnItsWay(r, j)'
<1>1. Bound(r) => Bound(r)'
  BY DEF Bound
<1>2. Snapped(r, j) => Snapped(r, j)'
  BY DEF Snapped
<1> QED
  BY <1>1, <1>2 DEF OnItsWay

\* The quiet steps leave the delivery of a range on its way.
LEMMA WayQuiet ==
  ASSUME BookInv, RangeInv, SharedOne, Signalled, Once, Interested, Handles, [Next]_vars, Quiet, ~Register,
         NEW r \in Jobs, NEW j \in range[r].jobs, Reached(j), OnItsWay(r, j)
  PROVE  OnItsWay(r, j)'
<1>0. TypeOK /\ RangeShape /\ Registered /\ Tokened /\ SameDelivering
  BY QuietEffect DEF BookInv, RangeInv
<1>1. j \in range[r].members => j \in range'[r].members
  <2>1. CASE Install
    BY <1>0, <2>1, InstallForm DEF OneRange
  <2>2. ASSUME NEW x, NEW i, Dropping(x, i) PROVE j \in range[r].members => j \in range'[r].members
    <3>1. Detaching(x, i) /\ i # j
      BY <1>0, <2>2, HoldingDrop, DropUseless
    <3>2. x \in Jobs /\ (\A q \in Jobs \ {x} : range'[q] = range[q]) /\ range'[x].members = range[x].members \ {i}
      BY <1>0, <3>1, DetachForm DEF Detaching, OneRange
    <3> QED
      BY <3>1, <3>2
  <2> QED
    BY <1>0, <2>1, <2>2, NoTake, RangeKinds
<1> QED
  BY <1>0, <1>1, CallsStay, UnsubscribedStays, WayKept DEF SameDelivering, Underways
\* A new range has its submitter yet to subscribe it.
LEMMA UnderwayRegister ==
  ASSUME BookInv, RangeInv, SharedOne, PendingIn, Underway, [Next]_vars, Register
  PROVE  Underway'
<1>0. TypeOK /\ RangeShape
  BY DEF BookInv, RangeInv
<1>h. PICK h \in Jobs : h = Head(batch.portion)
  BY <1>0, RegisterForm
<1>1. /\ batch.pc = "register" /\ UNCHANGED <<stored, owed, act>> /\ batch'.portion = batch.portion
      /\ \/ /\ batch'.pc = "tokens" /\ range'[h].members = range'[h].jobs
            /\ \A q \in Jobs \ {h} : range'[q] = range[q]
         \/ range' = range
  BY <1>0, <1>h, RegisterForm DEF SameOrder
<1>2. ASSUME NEW r \in Jobs, NEW j \in range'[r].jobs, Reached(j)' PROVE OnItsWay(r, j)'
  <2>1. CASE r = h /\ batch'.pc = "tokens" /\ range'[h].members = range'[h].jobs
    <3>1. Unsubscribed(r)'
      BY <1>h, <1>1, <2>1 DEF Unsubscribed
    <3> QED
      BY <1>2, <2>1, <3>1 DEF OnItsWay, Bound
  <2>2. CASE range'[r] = range[r]
    <3>1. j \in Jobs /\ InRange(j)
      BY <1>0, <1>2, <2>2 DEF InRange, TypeOK, Registration
    <3>2. Reached(j)
      BY <1>2, <3>1, ReachedBefore
    <3>3. OnItsWay(r, j)
      BY <1>2, <2>2, <3>2 DEF Underway
    <3>4. Calls(r)' = Calls(r) /\ ~Unsubscribed(r)
      BY <1>1 DEF Calls, Unsubscribed
    <3> QED
      BY <1>1, <2>2, <3>3, <3>4, WayKept
  <2> QED
    BY <1>1, <2>1, <2>2
<1> QED
  BY <1>2 DEF Underway

\* The submitter calls the range, or leaves its call in the list.
LEMMA WaySubscribe ==
  ASSUME BookInv, RangeInv, Busy, [Next]_vars, SubscribeRange \/ Subscribe,
         NEW r \in Jobs, NEW j \in range[r].jobs, OnItsWay(r, j)
  PROVE  OnItsWay(r, j)'
<1>0. TypeOK /\ RangeShape /\ Submitter \in Threads /\ range' = range /\ owed' = owed
  BY DEF BookInv, RangeInv, Threads, Subscribe, SubscribeRange
<1>1. ASSUME NEW id \in Jobs, NEW s \in Signals, NEW step, Subscribed(id, s, step), act[Submitter].step = "idle"
      PROVE  Calls(r) \subseteq Calls(r)' /\ \A u \in Threads : act[u].step # "idle" => act'[u] = act[u]
  BY <1>0, <1>1, SubscribedForm DEF Calls
<1>2. CASE SubscribeRange
  <2>h. PICK h \in Jobs : h = Head(batch.portion)
    BY <1>0, <1>2, SubscribeRangeForm
  <2>1. Only \in Signals /\ Subscribed(h, Only, "deliver") /\ batch.pc = "range"
    BY <1>0, <1>2, <2>h, SubscribeRangeForm
  <2>2. Calls(r) \subseteq Calls(r)' /\ \A u \in Threads : act[u].step # "idle" => act'[u] = act[u]
    BY <1>1, <2>1 DEF Busy
  <2>3. CASE r = h
    <3>1. Snapped(r, j) => Snapped(r, j)'
      BY <2>2 DEF Snapped
    <3>2. Bound(r)'
      <4>1. \/ stored' = stored \cup {<<h, Only>>}
            \/ act'[Submitter].step = "deliver" /\ act'[Submitter].id = h
        BY <1>0, <2>1, SubscribedForm
      <4>2. CASE stored' = stored \cup {<<h, Only>>}
        <5>1. <<h, Only>> \in Calls(r)'
          BY <2>3, <4>2 DEF Calls
        <5> QED
          BY <5>1 DEF Bound
      <4>3. CASE act'[Submitter].step = "deliver" /\ act'[Submitter].id = h
        BY <1>0, <2>3, <4>3 DEF Bound
      <4> QED
        BY <4>1, <4>2, <4>3
    <3> QED
      BY <1>0, <3>1, <3>2 DEF OnItsWay
  <2>4. CASE r # h
    <3>1. ~Unsubscribed(r)
      BY <2>h, <2>4 DEF Unsubscribed
    <3> QED
      BY <1>0, <2>2, <3>1, WayKept
  <2> QED
    BY <2>3, <2>4
<1>3. CASE Subscribe
  <2>1. ~Unsubscribed(r) /\ act[Submitter].step = "idle"
    BY <1>3 DEF Unsubscribed, Subscribe, At, Idle
  <2>2. Calls(r) \subseteq Calls(r)' /\ \A u \in Threads : act[u].step # "idle" => act'[u] = act[u]
    <3>1. CASE stored' = stored /\ act' = act
      BY <1>0, <3>1 DEF Calls
    <3>2. ASSUME NEW i \in Jobs, NEW s \in Signals, Subscribed(i, s, "single")
          PROVE  Calls(r) \subseteq Calls(r)' /\ \A u \in Threads : act[u].step # "idle" => act'[u] = act[u]
      BY <1>1, <2>1, <3>2
    <3> QED
      BY <1>0, <1>3, <3>1, <3>2, SubscribeForm
  <2> QED
    BY <1>0, <2>1, <2>2, WayKept
<1> QED
  BY <1>2, <1>3

\* A publishing thread goes to call the range.
LEMMA WayCall ==
  ASSUME BookInv, RangeInv, [Next]_vars, NEW s \in Signals, Call(s),
         NEW r \in Jobs, NEW j \in range[r].jobs, OnItsWay(r, j)
  PROVE  OnItsWay(r, j)'
<1>1. PICK c \in owed :
        /\ c[1] \in Jobs /\ c[2] = s /\ c = <<c[1], s>> /\ owed' = owed \ {c} /\ stored' = stored
        /\ s \in Threads /\ act[s].step = "idle" /\ act'[s].id = c[1] /\ act'[s].jobs = {}
        /\ act'[s].step = IF range[c[1]].jobs # {} THEN "deliver" ELSE "single"
        /\ InRange(c[1]) <=> range[c[1]].jobs # {}
        /\ \A u \in Threads \ {s} : act'[u] = act[u]
        /\ UNCHANGED <<batch, rec, range, signal, doomed, settling, window>>
  BY CallForm
<1>2. CASE r = c[1]
  <2>1. act'[s].step = "deliver" /\ act'[s].id = r
    BY <1>1, <1>2
  <2>2. Bound(r)' /\ (Snapped(r, j) => Snapped(r, j)')
    BY <1>1, <2>1 DEF Bound, Snapped
  <2> QED
    BY <1>1, <2>2 DEF OnItsWay
<1>3. CASE r # c[1]
  <2>1. Calls(r)' = Calls(r) /\ (Unsubscribed(r) => Unsubscribed(r)')
    BY <1>1, <1>3 DEF Calls, Unsubscribed
  <2> QED
    BY <1>1, <2>1, WayKept
<1> QED
  BY <1>2, <1>3

\* The delivery of the range in which the step is made, and of another.
LEMMA WayDeliver ==
  ASSUME BookInv, RangeInv, Once, [Next]_vars, NEW t \in Threads, Deliver(t),
         NEW r \in Jobs, NEW j \in range[r].jobs, OnItsWay(r, j)
  PROVE  OnItsWay(r, j)'
<1>0. TypeOK /\ act[t].step = "deliver" /\ batch' = batch /\ owed' = owed
  BY DEF BookInv, Deliver, Doing
<1>h. PICK h \in Jobs : h = act[t].id
  BY <1>0, ActFields
<1>1. /\ range[h].jobs # {} /\ ~range[h].delivered /\ act'[t].step = "take" /\ act'[t].id = h
      /\ \A u \in Threads \ {t} : act'[u] = act[u]
  BY <1>h, OnceDeliver
<1>2. /\ range'[h].members = range[h].members /\ \A q \in Jobs \ {h} : range'[q] = range[q]
      /\ stored' = stored \/ stored' = stored \ {<<h, Only>>}
  BY <1>0, <1>h, <1>1, DeliverForm DEF OneRange
<1>3. CASE r = h
  <2>1. Bound(r)' /\ (Snapped(r, j) => Snapped(r, j)')
    BY <1>0, <1>1, <1>3 DEF Bound, Snapped
  <2> QED
    BY <1>2, <1>3, <2>1 DEF OnItsWay
<1>4. CASE r # h
  <2>1. Calls(r)' = Calls(r) /\ (Unsubscribed(r) => Unsubscribed(r)')
    BY <1>0, <1>2, <1>4 DEF Calls, Unsubscribed
  <2> QED
    BY <1>h, <1>1, <1>2, <1>4, <2>1, WayKept
<1> QED
  BY <1>3, <1>4

\* The snapshot has everybody who is still interested.
LEMMA WayTake ==
  ASSUME BookInv, RangeInv, [Next]_vars, NEW t \in Threads, TakeMembers(t),
         NEW r \in Jobs, NEW j \in range[r].jobs, OnItsWay(r, j)
  PROVE  OnItsWay(r, j)'
<1>0. TypeOK /\ range \in [Jobs -> Registration]
  BY DEF BookInv, TypeOK
<1>h. PICK h \in Jobs : h = act[t].id
  BY <1>0, TakeThread
<1>1. /\ act[t].step = "take" /\ act'[t].id = h /\ act'[t].jobs = range[h].members
      /\ act'[t].step = IF range[h].members = {} THEN "stop" ELSE "activate"
      /\ \A u \in Threads \ {t} : act'[u] = act[u]
      /\ UNCHANGED <<batch, stored, owed>>
  BY <1>0, <1>h, TakeThread
<1>2. \A q \in Jobs \ {h} : range'[q] = range[q]
  BY <1>0, <1>h DEF TakeMembers
<1>3. CASE r = h
  <2>1. Snapped(r, j) => Snapped(r, j)'
    BY <1>1 DEF Snapped
  <2>2. j \in range[r].members => Snapped(r, j)'
    BY <1>1, <1>3 DEF Snapped
  <2> QED
    BY <2>1, <2>2 DEF OnItsWay
<1>4. CASE r # h
  <2>1. Calls(r)' = Calls(r) /\ (Unsubscribed(r) => Unsubscribed(r)')
    BY <1>1 DEF Calls, Unsubscribed
  <2> QED
    BY <1>h, <1>1, <1>2, <1>4, <2>1, WayKept
<1> QED
  BY <1>3, <1>4

\* Who is still on the way is not in the activation that is made.
LEMMA WayActivate ==
  ASSUME BookInv, RangeInv, [Next]_vars, NEW t \in Threads, ActivateRange(t) \/ ActivateOne(t),
         NEW r \in Jobs, NEW j \in range[r].jobs, OnItsWay(r, j), Reached(j),
         rec'[j].pending = rec[j].pending
  PROVE  OnItsWay(r, j)'
<1>0. TypeOK /\ RangeShape /\ Registered /\ j \in Jobs
  BY DEF BookInv, RangeInv, TypeOK, Registration
<1>1. /\ act[t].step \in {"activate", "single"} /\ (act[t].step = "activate" => j \notin act[t].jobs)
      /\ \A u \in Threads \ {t} : act'[u] = act[u]
      /\ UNCHANGED <<batch, stored, range>> /\ owed' = owed
  <2>1. CASE ActivateRange(t)
    <3>1. owed' = owed
      BY <2>1 DEF ActivateRange
    <3> QED
      BY <1>0, <2>1, <3>1, ActivateForm, ActivateMisses
  <2>2. CASE ActivateOne(t)
    BY <1>0, <2>2, OneThread
  <2> QED
    BY <2>1, <2>2
<1>2. Calls(r)' = Calls(r) /\ (Unsubscribed(r) => Unsubscribed(r)')
  BY <1>1 DEF Calls, Unsubscribed
<1> QED
  BY <1>1, <1>2, WayKept

\* Every step leaves the deliveries that are waited for on their way.
LEMMA UnderwayStep ==
  ASSUME BookInv, RangeInv, Busy, SharedOne, PendingIn, Signalled, Once, Interested, Handles, Underway,
         [Next]_vars
  PROVE  Underway'
<1>0. TypeOK
  BY DEF BookInv
<1>1. CASE Register
  BY <1>1, UnderwayRegister
<1>2. CASE ~Register
  <2>1. ASSUME NEW r \in Jobs, NEW j \in range'[r].jobs, Reached(j)' PROVE OnItsWay(r, j)'
    <3>1. j \in range[r].jobs /\ j \in Jobs
      BY <1>0, <1>2, <2>1, RangeTypesStep DEF TypeOK, Registration
    <3>2. InRange(j)
      BY <3>1 DEF InRange
    <3>3. Reached(j) /\ rec'[j].pending = rec[j].pending
      BY <2>1, <3>1, <3>2, ReachedBefore
    <3>4. OnItsWay(r, j)
      BY <3>1, <3>3 DEF Underway
    <3>5. ASSUME NEW s \in Signals, NEW status \in {"Succeeded", "Failed"}, Complete(s, status)
          PROVE  OnItsWay(r, j)'
      <4>1. act' = act /\ range' = range /\ batch' = batch /\ stored' = {c \in stored : c[2] # s}
            /\ owed' = owed \cup {c \in stored : c[2] = s}
        BY <3>5 DEF Complete
      <4>2. Calls(r)' = Calls(r) /\ (Unsubscribed(r) => Unsubscribed(r)')
        BY <4>1 DEF Calls, Unsubscribed
      <4> QED
        BY <3>4, <4>1, <4>2, WayKept
    <3>6. CASE Quiet
      BY <1>2, <3>1, <3>3, <3>4, <3>6, WayQuiet
    <3>7. CASE SubscribeRange \/ Subscribe
      BY <3>1, <3>4, <3>7, WaySubscribe
    <3>8. ASSUME NEW s \in Signals, Call(s) PROVE OnItsWay(r, j)'
      BY <3>1, <3>4, <3>8, WayCall
    <3>9. ASSUME NEW t \in Threads, Deliver(t) \/ TakeMembers(t) \/ ActivateRange(t) \/ ActivateOne(t)
          PROVE  OnItsWay(r, j)'
      BY <3>1, <3>3, <3>4, <3>9, WayDeliver, WayTake, WayActivate
    <3> QED
      BY <3>5, <3>6, <3>7, <3>8, <3>9, QuietOrNot
  <2> QED
    BY <2>1 DEF Underway
<1> QED
  BY <1>1, <1>2

-----------------------------------------------------------------------------
(* What a single member waits for is under way, piece by piece *)

\* The prerequisites the submitter has yet to subscribe a member to, and the
\* threads that are about to reach it.
Due(j) ==
  IF j \in Portion /\ batch.pc \in Early THEN Prereqs
  ELSE IF At("subscribe") THEN {x \in Prereqs : <<j, x>> \in batch.todo} ELSE {}
Singles(j) == {u \in Threads : act[u].step = "single" /\ act[u].id = j}
Toll(j) == Cardinality(Singles(j)) + Cardinality(Calls(j)) + Cardinality(Due(j))
Awaited == \A j \in Jobs : rec[j].stage = "Waiting" /\ ~InRange(j) => rec[j].pending = Toll(j)
Unlisted == At("subscribe") => batch.todo \cap (stored \cup owed) = {}

\* The sets that are counted are finite.
LEMMA FewThreads ==
  /\ \A T : T \subseteq Threads => IsFiniteSet(T) /\ Cardinality(T) \in Nat
  /\ \A T : T \subseteq Signals => IsFiniteSet(T) /\ Cardinality(T) \in Nat
  /\ \A T : T \subseteq Jobs \X Signals => IsFiniteSet(T) /\ Cardinality(T) \in Nat
<1>1. IsFiniteSet(Signals) /\ IsFiniteSet(Jobs)
  BY Constants
<1>2. IsFiniteSet(Jobs \X Signals)
  BY <1>1, FS_Product
<1>3. IsFiniteSet(Threads)
  <2>1. IsFiniteSet({Submitter})
    BY FS_Singleton
  <2> QED
    BY <1>1, <2>1, FS_Union DEF Threads
<1>4. ASSUME NEW T, NEW U, IsFiniteSet(U), T \subseteq U PROVE IsFiniteSet(T) /\ Cardinality(T) \in Nat
  BY <1>4, FS_Subset, FS_CardinalityType
<1> QED
  BY <1>1, <1>2, <1>3, <1>4

\* What is counted for a single member is finite.
LEMMA TollIn ==
  ASSUME TypeOK, NEW j
  PROVE  /\ IsFiniteSet(Singles(j)) /\ IsFiniteSet(Calls(j)) /\ IsFiniteSet(Due(j))
         /\ Cardinality(Singles(j)) \in Nat /\ Cardinality(Calls(j)) \in Nat /\ Cardinality(Due(j)) \in Nat
<1>1. Singles(j) \subseteq Threads
  BY DEF Singles
<1>2. Calls(j) \subseteq Jobs \X Signals
  BY DEF Calls, TypeOK
<1>3. Due(j) \subseteq Signals
  BY FaninIn DEF Due
<1> QED
  BY <1>1, <1>2, <1>3, FewThreads

\* One more, and one less.
LEMMA OneMore ==
  ASSUME NEW S, IsFiniteSet(S), NEW x
  PROVE  /\ x \notin S => Cardinality(S \cup {x}) = Cardinality(S) + 1
         /\ x \in S => Cardinality(S \ {x}) = Cardinality(S) - 1
BY FS_AddElement, FS_RemoveElement

\* What the submitter has yet to subscribe a member to, in the steps that
\* make no call.
LEMMA DueQuiet ==
  ASSUME BookInv, RangeInv, [Next]_vars, Quiet, NEW j \in Jobs, ~(InRange(j)'), rec[j].stage = "Waiting"
  PROVE  Due(j)' = Due(j)
<1>0. TypeOK /\ Ordered /\ Phased /\ RangeShape /\ batch.pc \in Places
  BY BatchFields DEF BookInv, RangeInv
<1>p. Prereqs' = Prereqs
  BY OptionsStep
<1>1. CASE batch' = batch
  BY <1>1, <1>p DEF Due, At, Portion
<1>2. CASE Enter \/ Admit \/ Charge \/ Token \/ Install \/ DropUnused \/ PublishPortion \/ DispatchPortion
  <2>1. batch.pc \notin Early \cup {"subscribe"} /\ batch'.pc \notin Early \cup {"subscribe"}
    BY <1>0, <1>2, PcSteps DEF Before, Early
  <2>2. Due(j) = {}
    BY <2>1 DEF Due, At
  <2>3. Due(j)' = {}
    BY <2>1 DEF Due, At, Early
  <2> QED
    BY <2>2, <2>3
<1>3. CASE Commit
  <2>1. batch.pc = "commit" /\ batch'.pc = "recover"
    BY <1>0, <1>3, PcSteps
  <2>2. JobStaged(j)'
    BY BookStep DEF BookInv, Staged
  <2>3. j \notin Portion'
    <3> DEFINE a == Len(batch.accepted)
               p == Len(batch.prepared)
               n == IF CommitFailure = "None" THEN Selected ELSE 0
    <3>1. batch'.portion = From(Len(batch.accepted), n) /\ n \in Nat
      <4>1. n \in Nat
            /\ batch' = [batch EXCEPT !.pc = "recover", !.failure = CommitFailure,
                                      !.prepared = From(a + n, p - n), !.portion = From(a, n),
                                      !.accepted = From(0, a + n)]
        BY <1>3, CommitEffect
      <4>2. batch'.portion = From(a, n)
        BY <1>0, <4>1 DEF TypeOK, Batch
      <4> QED
        BY <4>1, <4>2
    <3>2. Portion' = Len(batch.accepted) + 1 .. Len(batch.accepted) + n
      <4>1. ToSet(From(Len(batch.accepted), n)) = Len(batch.accepted) + 1 .. Len(batch.accepted) + n
        BY <1>0, <3>1, FromElements, Stretches
      <4>2. Portion' = ToSet(batch'.portion)
        BY DEF Portion
      <4> QED
        BY <3>1, <4>1, <4>2
    <3>3. Portion' \subseteq Prepared
      BY <1>3, <3>1, <3>2, CommitStaged
    <3>4. JobStaged(j)
      BY DEF BookInv, Staged
    <3>5. j \in Prepared => rec[j].stage = "Prepared"
      BY <3>4 DEF JobStaged, NewRecord, NoRecord
    <3> QED
      BY <3>3, <3>5
  <2> QED
    BY <2>1, <2>3 DEF Due, At, Early
<1>4. CASE Recover
  <2>1. /\ batch.pc = "recover" /\ batch'.portion = batch.portion
        /\ batch'.pc = IF batch.failure = "None" THEN "register" ELSE "done"
    BY <1>0, <1>4, RecoverEffect, PcSteps DEF TypeOK, Batch
  <2>2. batch.failure # "None" => Portion = {}
    <3>1. batch.failure # "None" => Len(batch.portion) = 0
      BY <1>4, RecoverEffect
    <3>2. Len(batch.portion) = 0 => batch.portion = <<>>
      BY <1>0, BatchFields
    <3> QED
      BY <3>1, <3>2, EmptyElements DEF Portion
  <2> QED
    BY <1>p, <2>1, <2>2 DEF Due, At, Early, Portion
<1>5. CASE Register
  <2>h. PICK h \in Jobs : h = Head(batch.portion)
    BY <1>0, <1>5, RegisterForm
  <2>1. batch.pc = "register" /\ Portion' = Portion /\ Portion \subseteq Jobs
    BY <1>0, <1>5, RegisterForm
  <2>2. CASE batch'.pc = "tokens"
    <3>1. range'[h].jobs = Portion
      BY <1>0, <1>5, <2>h, <2>2, RegisterForm
    <3>2. j \notin Portion
      BY <2>h, <3>1 DEF InRange
    <3> QED
      BY <2>1, <2>2, <3>2 DEF Due, At, Early
  <2>3. CASE batch'.pc = "subscribe"
    <3>1. batch'.todo = Portion \X Prereqs
      BY <1>0, <1>5, <2>3 DEF Register, TypeOK, Batch
    <3>2. Due(j)' = {x \in Prereqs : <<j, x>> \in Portion \X Prereqs}
      BY <1>p, <2>3, <3>1 DEF Due, At, Early
    <3>3. Due(j) = IF j \in Portion THEN Prereqs ELSE {}
      BY <2>1 DEF Due, At, Early
    <3> QED
      BY <3>2, <3>3
  <2> QED
    BY <1>0, <1>5, <2>2, <2>3, PcSteps
<1>6. Quiet => \/ Enter \/ Admit \/ Charge \/ Commit \/ Recover \/ Register \/ Token \/ Install
               \/ DropUnused \/ PublishPortion \/ DispatchPortion \/ Outside
  BY DEF Quiet, Outside, Activation
<1> QED
  BY <1>1, <1>2, <1>3, <1>4, <1>5, <1>6, OutsideSteps

\* A call of a range is not one of a single member.
LEMMA OtherCalls ==
  ASSUME NEW j, NEW x, x # j, stored' = stored \ {<<x, Only>>}, owed' = owed
  PROVE  Calls(j)' = Calls(j)
BY DEF Calls

\* The calls for a single member stay in the quiet steps.
LEMMA CallsQuiet ==
  ASSUME BookInv, RangeInv, [Next]_vars, Quiet, NEW j \in Jobs, ~InRange(j), rec[j].stage = "Waiting"
  PROVE  Calls(j)' = Calls(j)
<1>0. TypeOK /\ Ordered /\ Phased /\ Ranged /\ RangeShape /\ Registered /\ Tokened
  BY DEF BookInv, RangeInv
<1>3. owed' = owed
  BY <1>0, QuietEffect
<1>4. ASSUME stored' = stored PROVE Calls(j)' = Calls(j)
  BY <1>3, <1>4 DEF Calls
<1>5. ASSUME NEW x \in Jobs, range[x].jobs # {} PROVE x # j
  BY <1>0, <1>5 DEF RangeShape, InRange
<1>6. CASE DropUnused
  <2>1. batch.pc = "unused" /\ batch.pc \in Ranging
    BY <1>6 DEF DropUnused, At, Ranging
  <2>2. PICK h \in Jobs : h = Head(batch.portion) /\ RangeOf(h) = h /\ range[h].jobs # {}
    BY <1>0, <2>1, CurrentRange
  <2>3. stored' = stored \ {<<h, Only>>}
    BY <1>6, <2>2 DEF DropUnused
  <2> QED
    BY <1>3, <1>5, <2>2, <2>3, OtherCalls
<1>7. ASSUME NEW x, NEW i, Dropping(x, i) PROVE Calls(j)' = Calls(j)
  <2>1. Detaching(x, i) /\ i \in range[x].jobs /\ x \in Jobs
    BY <1>0, <1>7, HoldingDrop DEF Detaching
  <2>2. stored' = stored \/ stored' = stored \ {<<x, Only>>}
    BY <1>0, <2>1, DetachForm DEF Detaching
  <2> QED
    BY <1>3, <1>4, <1>5, <2>1, <2>2, OtherCalls
<1>8. ASSUME NEW i \in Jobs, FinishRecord(i) PROVE Calls(j)' = Calls(j)
  <2>1. settling[i] = "finish"
    BY <1>8 DEF FinishRecord
  <2>2. rec[i].stage = "Finalizing"
    BY <2>1 DEF BookInv, Staged, JobStaged
  <2>3. i # j
    BY <2>2
  <2>4. stored' = stored \/ stored' = stored \ ({i} \X rec[i].subs)
    BY <1>8 DEF FinishRecord
  <2> QED
    BY <1>3, <1>4, <2>3, <2>4 DEF Calls
<1> QED
  BY <1>0, <1>4, <1>6, <1>7, <1>8, QuietEffect

\* What leaves the three sets alone.
LEMMA TollSame ==
  ASSUME NEW j, Singles(j)' = Singles(j), Calls(j)' = Calls(j), Due(j)' = Due(j)
  PROVE  Toll(j)' = Toll(j)
BY DEF Toll

\* A subscription turns one that is due into a call, or the submitter makes it.
LEMMA TollSubscribe ==
  ASSUME BookInv, RangeInv, Unlisted, [Next]_vars, Subscribe, NEW j \in Jobs
  PROVE  Toll(j)' = Toll(j)
<1>0. TypeOK /\ RangeShape /\ Submitter \in Threads /\ owed' = owed /\ batch.pc = "subscribe"
      /\ act[Submitter].step = "idle" /\ Prereqs' = Prereqs
  BY OptionsStep DEF BookInv, RangeInv, Threads, Subscribe, At, Idle
<1>1. Due(j) = {x \in Prereqs : <<j, x>> \in batch.todo}
  BY <1>0 DEF Due, At, Early
<1>2. CASE batch.todo = {}
  <2>1. batch'.pc = "publish" /\ stored' = stored /\ act' = act
    BY <1>0, <1>2, SubscribeForm
  <2>2. Due(j) = {} /\ Due(j)' = {}
    BY <1>1, <1>2, <2>1 DEF Due, At, Early
  <2>3. Singles(j)' = Singles(j) /\ Calls(j)' = Calls(j)
    BY <1>0, <2>1 DEF Singles, Calls
  <2> QED
    BY <2>2, <2>3, TollSame
<1>3. CASE batch.todo # {}
  <2>1. PICK i \in Jobs, s \in Prereqs :
          /\ <<i, s>> \in batch.todo /\ s \in Signals
          /\ batch'.pc = "subscribe" /\ batch'.todo = batch.todo \ {<<i, s>>}
          /\ Subscribed(i, s, "single")
    BY <1>0, <1>3, SubscribeForm
  <2>2. Due(j)' = {x \in Prereqs : <<j, x>> \in batch.todo \ {<<i, s>>}}
    BY <1>0, <2>1 DEF Due, At, Early
  <2>3. \/ stored' = stored \cup {<<i, s>>} /\ act' = act
        \/ /\ stored' = stored
           /\ act'[Submitter].step = "single" /\ act'[Submitter].id = i
           /\ \A u \in Threads \ {Submitter} : act'[u] = act[u]
    BY <1>0, <2>1, SubscribedForm
  <2>4. CASE i # j
    <3>1. Due(j)' = Due(j)
      BY <1>1, <2>2, <2>4
    <3>2. Calls(j)' = Calls(j)
      BY <1>0, <2>3, <2>4 DEF Calls
    <3>3. Singles(j)' = Singles(j)
      BY <1>0, <2>3, <2>4 DEF Singles
    <3> QED
      BY <3>1, <3>2, <3>3, TollSame
  <2>5. CASE i = j
    <3>1. Due(j)' = Due(j) \ {s} /\ s \in Due(j)
      BY <1>1, <2>1, <2>2, <2>5
    <3>2. Cardinality(Due(j)') = Cardinality(Due(j)) - 1
      BY <1>0, <3>1, TollIn, OneMore
    <3>3. CASE stored' = stored \cup {<<i, s>>} /\ act' = act
      <4>1. Singles(j)' = Singles(j)
        BY <3>3 DEF Singles
      <4>2. Calls(j)' = Calls(j) \cup {<<i, s>>}
        BY <1>0, <2>5, <3>3 DEF Calls
      <4>3. <<i, s>> \notin Calls(j)
        BY <1>0, <2>1 DEF Calls, Unlisted, At
      <4>4. Cardinality(Calls(j)') = Cardinality(Calls(j)) + 1
        BY <1>0, <4>2, <4>3, TollIn, OneMore
      <4> QED
        BY <1>0, <3>2, <4>1, <4>4, TollIn DEF Toll
    <3>4. CASE /\ stored' = stored
               /\ act'[Submitter].step = "single" /\ act'[Submitter].id = i
               /\ \A u \in Threads \ {Submitter} : act'[u] = act[u]
      <4>1. Calls(j)' = Calls(j)
        BY <1>0, <3>4 DEF Calls
      <4>2. Singles(j)' = Singles(j) \cup {Submitter} /\ Submitter \notin Singles(j)
        BY <1>0, <2>5, <3>4 DEF Singles
      <4>3. Cardinality(Singles(j)') = Cardinality(Singles(j)) + 1
        BY <1>0, <4>2, TollIn, OneMore
      <4> QED
        BY <1>0, <3>2, <4>1, <4>3, TollIn DEF Toll
    <3> QED
      BY <2>3, <3>3, <3>4
  <2> QED
    BY <2>4, <2>5
<1> QED
  BY <1>2, <1>3

\* A publishing thread takes a call out of the list to make it.
LEMMA TollCall ==
  ASSUME BookInv, RangeInv, Signalled, [Next]_vars, NEW s \in Signals, Call(s),
         NEW j \in Jobs, ~InRange(j)
  PROVE  Toll(j)' = Toll(j)
<1>0. TypeOK /\ Prereqs' = Prereqs
  BY OptionsStep DEF BookInv
<1>1. PICK c \in owed :
        /\ c[1] \in Jobs /\ c[2] = s /\ c = <<c[1], s>> /\ owed' = owed \ {c} /\ stored' = stored
        /\ s \in Threads /\ act[s].step = "idle" /\ act'[s].id = c[1] /\ act'[s].jobs = {}
        /\ act'[s].step = IF range[c[1]].jobs # {} THEN "deliver" ELSE "single"
        /\ InRange(c[1]) <=> range[c[1]].jobs # {}
        /\ \A u \in Threads \ {s} : act'[u] = act[u]
        /\ UNCHANGED <<batch, rec, range, signal, doomed, settling, window>>
  BY CallForm
<1>2. Due(j)' = Due(j)
  BY <1>0, <1>1 DEF Due, At, Portion
<1>3. CASE c[1] # j
  <2>1. Calls(j)' = Calls(j)
    BY <1>1, <1>3 DEF Calls
  <2>2. Singles(j)' = Singles(j)
    BY <1>1, <1>3 DEF Singles
  <2> QED
    BY <1>2, <2>1, <2>2, TollSame
<1>4. CASE c[1] = j
  <2>1. c \notin stored
    BY <1>1 DEF Signalled
  <2>2. Calls(j)' = Calls(j) \ {c} /\ c \in Calls(j)
    BY <1>1, <1>4, <2>1 DEF Calls
  <2>3. Singles(j)' = Singles(j) \cup {s} /\ s \notin Singles(j)
    BY <1>1, <1>4 DEF Singles
  <2>4. Cardinality(Calls(j)') = Cardinality(Calls(j)) - 1
    BY <1>0, <2>2, TollIn, OneMore
  <2>5. Cardinality(Singles(j)') = Cardinality(Singles(j)) + 1
    BY <1>0, <2>3, TollIn, OneMore
  <2> QED
    BY <1>0, <1>2, <2>4, <2>5, TollIn DEF Toll
<1> QED
  BY <1>3, <1>4

\* The steps of a delivery that are not those of a single member.
LEMMA TollDeliver ==
  ASSUME BookInv, RangeInv, Once, [Next]_vars, NEW t \in Threads,
         Deliver(t) \/ TakeMembers(t) \/ ActivateRange(t), NEW j \in Jobs, ~InRange(j)
  PROVE  Due(j)' = Due(j) /\ Calls(j)' = Calls(j) /\ Singles(j)' = Singles(j)
<1>0. TypeOK /\ RangeShape /\ Registered /\ Prereqs' = Prereqs
  BY OptionsStep DEF BookInv, RangeInv
<1>1. batch' = batch /\ owed' = owed
  BY DEF Deliver, TakeMembers, ActivateRange
<1>2. Due(j)' = Due(j)
  BY <1>0, <1>1 DEF Due, At, Portion
<1>3. /\ act[t].step # "single" /\ act'[t].step # "single"
      /\ \A u \in Threads \ {t} : act'[u] = act[u]
      /\ Calls(j)' = Calls(j)
  <2>1. CASE Deliver(t)
    <3>1. act[t].step = "deliver" /\ act[t].id \in Jobs
      BY <1>0, <2>1, ActFields DEF Deliver, Doing
    <3>2. /\ range[act[t].id].jobs # {} /\ ~range[act[t].id].delivered /\ act'[t].step = "take"
          /\ \A u \in Threads \ {t} : act'[u] = act[u]
      BY <2>1, OnceDeliver
    <3>3. stored' = stored \/ stored' = stored \ {<<act[t].id, Only>>}
      BY <1>0, <2>1, <3>2, DeliverForm
    <3>4. act[t].id # j
      BY <1>0, <3>1, <3>2 DEF RangeShape, InRange
    <3>5. Calls(j)' = Calls(j)
      <4>1. CASE stored' = stored
        BY <1>1, <4>1 DEF Calls
      <4>2. CASE stored' = stored \ {<<act[t].id, Only>>}
        BY <1>1, <3>4, <4>2 DEF Calls
      <4> QED
        BY <3>3, <4>1, <4>2
    <3> QED
      BY <3>1, <3>2, <3>5
  <2>2. CASE TakeMembers(t)
    <3>1. act[t].step = "take" /\ act'[t].step \in {"stop", "activate"} /\ stored' = stored
          /\ \A u \in Threads \ {t} : act'[u] = act[u]
      BY <1>0, <2>2, TakeThread
    <3> QED
      BY <1>1, <3>1 DEF Calls
  <2>3. CASE ActivateRange(t)
    <3>1. act[t].step = "activate" /\ act'[t].step = "detach" /\ stored' = stored
          /\ \A u \in Threads \ {t} : act'[u] = act[u]
      BY <1>0, <2>3, ActivateForm
    <3> QED
      BY <1>1, <3>1 DEF Calls
  <2> QED
    BY <2>1, <2>2, <2>3
<1>4. Singles(j)' = Singles(j)
  BY <1>3 DEF Singles
<1> QED
  BY <1>2, <1>3, <1>4

\* A single member reached is one less that it waits for.
LEMMA TollOne ==
  ASSUME BookInv, [Next]_vars, NEW t \in Threads, ActivateOne(t), NEW j \in Jobs
  PROVE  /\ act[t].id # j => Toll(j)' = Toll(j)
         /\ act[t].id = j => Toll(j) \in Nat /\ Toll(j) > 0 /\ Toll(j)' = Toll(j) - 1
<1>0. TypeOK /\ Prereqs' = Prereqs
  BY OptionsStep DEF BookInv
<1>1. /\ act[t].step = "single" /\ act'[t].step \in {"stop", "ready"}
      /\ \A u \in Threads \ {t} : act'[u] = act[u]
      /\ UNCHANGED <<batch, stored, owed>>
  BY <1>0, OneThread
<1>2. Due(j)' = Due(j) /\ Calls(j)' = Calls(j)
  BY <1>0, <1>1 DEF Due, At, Portion, Calls
<1>3. CASE act[t].id # j
  <2>1. Singles(j)' = Singles(j)
    BY <1>1, <1>3 DEF Singles
  <2> QED
    BY <1>2, <1>3, <2>1, TollSame
<1>4. CASE act[t].id = j
  <2>1. Singles(j)' = Singles(j) \ {t} /\ t \in Singles(j)
    BY <1>1, <1>4 DEF Singles
  <2>2. Cardinality(Singles(j)') = Cardinality(Singles(j)) - 1 /\ Cardinality(Singles(j)) # 0
    BY <1>0, <2>1, TollIn, OneMore, FS_EmptySet
  <2> QED
    BY <1>0, <1>2, <1>4, <2>2, TollIn DEF Toll
<1> QED
  BY <1>3, <1>4

\* The submitter subscribes a range.
LEMMA TollSubscribeRange ==
  ASSUME BookInv, RangeInv, Busy, [Next]_vars, SubscribeRange, NEW j \in Jobs, ~InRange(j)
  PROVE  Due(j)' = Due(j) /\ Calls(j)' = Calls(j) /\ Singles(j)' = Singles(j)
<1>0. TypeOK /\ RangeShape /\ Submitter \in Threads
  BY DEF BookInv, RangeInv, Threads
<1>h. PICK h \in Jobs : h = Head(batch.portion)
  BY <1>0, SubscribeRangeForm
<1>1. /\ h \in Portion /\ range[h].jobs = Portion /\ Only \in Signals
      /\ batch.pc = "range" /\ batch'.pc = "install"
      /\ Subscribed(h, Only, "deliver") /\ owed' = owed
  BY <1>0, <1>h, SubscribeRangeForm
<1>2. h # j
  BY <1>1 DEF InRange
<1>3. Due(j)' = Due(j)
  BY <1>1 DEF Due, At, Early
<1>4. act[Submitter].step = "idle"
  BY <1>1 DEF Busy
<1>5. \/ stored' = stored \cup {<<h, Only>>} /\ act' = act
      \/ /\ stored' = stored /\ act'[Submitter].step = "deliver"
         /\ \A u \in Threads \ {Submitter} : act'[u] = act[u]
  BY <1>0, <1>1, SubscribedForm
<1>6. Calls(j)' = Calls(j)
  <2>1. CASE stored' = stored
    BY <1>1, <2>1 DEF Calls
  <2>2. CASE stored' = stored \cup {<<h, Only>>}
    BY <1>1, <1>2, <2>2 DEF Calls
  <2> QED
    BY <1>5, <2>1, <2>2
<1>7. Singles(j)' = Singles(j)
  BY <1>4, <1>5 DEF Singles
<1> QED
  BY <1>3, <1>6, <1>7

\* A single member that waits for as much after a delivery was not its aim.
LEMMA SinglesSpent ==
  ASSUME BookInv, Awaited, [Next]_vars, NEW t \in Threads, ActivateOne(t),
         NEW j \in Jobs, ~InRange(j), rec[j].stage = "Waiting", rec'[j].pending = rec[j].pending
  PROVE  act[t].id # j
<1> SUFFICES ASSUME act[t].id = j PROVE FALSE
  OBVIOUS
<1>0. TypeOK /\ rec \in [Jobs -> Record] /\ rec[j] \in Record /\ rec[j].pending \in Int
  BY DEF BookInv, TypeOK, Record
<1>1. Toll(j) > 0 /\ rec[j].pending = Toll(j)
  BY TollOne DEF Awaited
<1>2. Reached(j)
  BY <1>1 DEF Reached
<1>3. rec' = [rec EXCEPT ![j] = Delivered(@, act[t].status)]
  BY <1>0, <1>2, OneThread
<1>4. rec'[j] = Delivered(rec[j], act[t].status)
  BY <1>0, <1>3
<1>5. rec'[j].pending = rec[j].pending - 1
  BY <1>0, <1>4, DeliveredForm DEF CountedAs
<1> QED
  BY <1>0, <1>5

\* As long as a single member waits for as much, as much is under way.
LEMMA TollStays ==
  ASSUME BookInv, RangeInv, Busy, Signalled, Once, Awaited, Unlisted, [Next]_vars,
         NEW j \in Jobs, ~InRange(j), ~(InRange(j)'), rec[j].stage = "Waiting",
         rec'[j].pending = rec[j].pending
  PROVE  Toll(j)' = Toll(j)
<1>0. TypeOK /\ RangeShape /\ Registered /\ Prereqs' = Prereqs
      /\ rec \in [Jobs -> Record] /\ rec[j].pending \in Int
  BY OptionsStep DEF BookInv, RangeInv, TypeOK, Record
<1>1. CASE Quiet
  <2>1. SameDelivering
    BY <1>0, <1>1, QuietEffect
  <2>2. Singles(j)' = Singles(j)
    BY <2>1 DEF SameDelivering, Underways, Singles
  <2> QED
    BY <1>1, <2>2, DueQuiet, CallsQuiet, TollSame
<1>2. ASSUME NEW s \in Signals, NEW status \in {"Succeeded", "Failed"}, Complete(s, status)
      PROVE  Toll(j)' = Toll(j)
  <2>1. act' = act /\ batch' = batch /\ owed' = owed \cup {c \in stored : c[2] = s}
        /\ stored' = {c \in stored : c[2] # s}
    BY <1>2 DEF Complete
  <2>2. Calls(j)' = Calls(j) /\ Singles(j)' = Singles(j)
    BY <2>1 DEF Calls, Singles
  <2>3. Due(j)' = Due(j)
    BY <1>0, <2>1 DEF Due, At, Portion
  <2> QED
    BY <2>2, <2>3, TollSame
<1>3. ASSUME NEW t \in Threads, ActivateOne(t) PROVE Toll(j)' = Toll(j)
  BY <1>3, SinglesSpent, TollOne
<1>4. ASSUME NEW t \in Threads, Deliver(t) \/ TakeMembers(t) \/ ActivateRange(t)
      PROVE  Toll(j)' = Toll(j)
  BY <1>4, TollDeliver, TollSame
<1>5. ASSUME NEW s \in Signals, Call(s) PROVE Toll(j)' = Toll(j)
  BY <1>5, TollCall
<1>6. CASE SubscribeRange
  BY <1>6, TollSubscribeRange, TollSame
<1> QED
  BY <1>1, <1>2, <1>3, <1>4, <1>5, <1>6, TollSubscribe, QuietOrNot

\* All that a member just accepted waits for is due.
LEMMA DueTaken ==
  ASSUME BookInv, [Next]_vars, NEW j \in Jobs, Taken(j)
  PROVE  Due(j)' = Prereqs /\ j \notin Accepted
<1>0. TypeOK /\ Ordered /\ Prereqs' = Prereqs /\ Commit /\ j \in Prepared
  BY OptionsStep DEF BookInv, Taken
<1>1. batch'.pc = "recover"
  BY <1>0, PcSteps
<1>2. rec'[j].stage = "Waiting" /\ rec'[j].attaching
  BY DEF Taken, NewRecord, NoRecord
<1>3. j \notin Accepted
  BY <1>0, Disjoint
<1>4. JobStaged(j)'
  BY BookStep DEF BookInv, Staged
<1>5. j \in Portion'
  <2>1. j \in Prepared' => rec'[j].stage = "Prepared"
    BY <1>4 DEF JobStaged, NewRecord, NoRecord
  <2> QED
    BY <1>2, <1>4, <2>1 DEF JobStaged
<1> QED
  BY <1>0, <1>1, <1>3, <1>5 DEF Due, Early

\* A member just accepted waits for everything, and all of it is due.
LEMMA TollTaken ==
  ASSUME BookInv, RangeInv, [Next]_vars, NEW j \in Jobs, Taken(j)
  PROVE  rec'[j].pending = Toll(j)'
<1>0. TypeOK /\ Ordered /\ Prereqs' = Prereqs /\ Commit /\ j \in Prepared
  BY OptionsStep DEF BookInv, Taken
<1>1. batch'.pc = "recover" /\ UNCHANGED <<stored, owed, act>>
  BY <1>0, PcSteps DEF Commit
<1>2. rec'[j].pending = Fanin
  BY DEF Taken, NewRecord, NoRecord
<1>3. Due(j)' = Prereqs /\ j \notin Accepted
  BY DueTaken
<1>4. Calls(j) = {} /\ \A u \in Threads : act[u].step # "idle" => act[u].id # j
  BY <1>3, NotYet DEF Late
<1>5. Calls(j)' = {} /\ Singles(j)' = {}
  BY <1>1, <1>4 DEF Calls, Singles
<1>6. Cardinality({}) = 0 /\ Fanin \in Nat
  BY <1>0, FS_EmptySet, FaninIn
<1> QED
  BY <1>2, <1>3, <1>5, <1>6 DEF Toll, Fanin

\* Every step keeps what single members wait for equal to what is under way.
LEMMA AwaitedStep ==
  ASSUME BookInv, RangeInv, Busy, Signalled, Once, Awaited, Unlisted, [Next]_vars
  PROVE  Awaited'
<1> SUFFICES ASSUME NEW j \in Jobs, rec'[j].stage = "Waiting", ~(InRange(j)')
             PROVE  rec'[j].pending = Toll(j)'
  BY DEF Awaited
<1>0. TypeOK /\ RangeShape /\ Registered /\ rec \in [Jobs -> Record] /\ rec[j] \in Record
  BY DEF BookInv, RangeInv, TypeOK
<1>1. ~InRange(j)
  BY <1>0, InRangeKept
<1>2. WaitsAs(j)
  BY WaitsStep
<1>3. ASSUME rec[j].stage = "Waiting", rec'[j].pending = rec[j].pending
      PROVE  rec'[j].pending = Toll(j)'
  BY <1>1, <1>3, TollStays DEF Awaited
<1>4. CASE SameWait(rec[j], rec'[j])
  BY <1>3, <1>4 DEF SameWait
<1>5. CASE PublishedNow(j)
  <2>1. rec'[j].pending = rec[j].pending /\ rec[j].stage = "Waiting"
    BY <1>5 DEF PublishedNow, PublishedAs, OpenedAs, Completed
  <2> QED
    BY <1>3, <2>1
<1>6. CASE Taken(j)
  BY <1>6, TollTaken
<1>7. ASSUME NEW t \in Threads, ReachedOne(t, j) PROVE rec'[j].pending = Toll(j)'
  <2>1. ActivateOne(t) /\ act[t].id = j /\ rec[j].stage = "Waiting"
        /\ rec'[j] = Delivered(rec[j], act[t].status)
    BY <1>7 DEF ReachedOne, Reached
  <2>2. rec'[j].pending = rec[j].pending - 1
    BY <1>0, <2>1, DeliveredForm DEF CountedAs
  <2>3. Toll(j)' = Toll(j) - 1 /\ rec[j].pending = Toll(j)
    BY <1>1, <2>1, TollOne DEF Awaited
  <2> QED
    BY <2>2, <2>3
<1>8. ASSUME NEW t \in Threads, ReachedIn(t, j) PROVE FALSE
  <2>1. ActivateRange(t) /\ j \in act[t].jobs
    BY <1>8 DEF ReachedIn
  <2>2. j \in range[act[t].id].jobs /\ act[t].id \in Jobs
    BY <1>0, <2>1, ActivateForm
  <2> QED
    BY <1>1, <2>2 DEF InRange
<1> QED
  BY <1>2, <1>4, <1>5, <1>6, <1>7, <1>8 DEF WaitsAs

\* What is still to be subscribed is in no list.
LEMMA UnlistedStep ==
  ASSUME BookInv, RangeInv, Unlisted, [Next]_vars
  PROVE  Unlisted'
<1>0. TypeOK /\ RangeShape /\ Prereqs' = Prereqs
  BY OptionsStep DEF BookInv, RangeInv
<1> SUFFICES ASSUME batch'.pc = "subscribe" PROVE batch'.todo \cap (stored' \cup owed') = {}
  BY DEF Unlisted, At
<1>1. CASE Register
  <2>1. batch.pc = "register" /\ UNCHANGED <<stored, owed>> /\ Portion \subseteq Jobs
    BY <1>0, <1>1, RegisterForm
  <2>2. batch'.todo = Portion \X Prereqs
    BY <1>0, <1>1 DEF Register, TypeOK, Batch
  <2>3. ASSUME NEW c \in stored \cup owed, c \in Portion \X Prereqs PROVE FALSE
    <3>1. c[1] \in Portion /\ c[1] \in Jobs /\ c \in Calls(c[1])
      BY <2>1, <2>3 DEF Calls
    <3>2. ~Late(c[1])
      BY <2>1, <3>1 DEF Late, Fresh, Early
    <3> QED
      BY <3>1, <3>2, NotYet
  <2> QED
    BY <2>1, <2>2, <2>3
<1>2. CASE Subscribe
  <2>1. batch.pc = "subscribe" /\ owed' = owed
    BY <1>0, <1>2, SubscribeForm
  <2>2. PICK i \in Jobs, s \in Prereqs :
          s \in Signals /\ batch'.todo = batch.todo \ {<<i, s>>} /\ Subscribed(i, s, "single")
    BY <1>0, <1>2, SubscribeForm
  <2>3. stored' \subseteq stored \cup {<<i, s>>}
    BY <1>0, <2>2, SubscribedForm
  <2> QED
    BY <2>1, <2>2, <2>3 DEF Unlisted, At
<1>3. CASE ~Register /\ ~Subscribe
  <2>1. batch' = batch
    <3>1. CASE Submission
      BY <1>0, <1>3, <3>1, PcSteps DEF Submission, Before
    <3> QED
      BY <3>1, OutsideSteps
  <2>2. stored' \cup owed' \subseteq stored \cup owed
    <3>1. ASSUME NEW s \in Signals, NEW status \in {"Succeeded", "Failed"}, Complete(s, status)
          PROVE  stored' \cup owed' \subseteq stored \cup owed
      BY <3>1 DEF Complete
    <3>2. ASSUME NEW s \in Signals, Call(s) PROVE stored' \cup owed' \subseteq stored \cup owed
      BY <3>2 DEF Call
    <3>3. ~SubscribeRange
      BY <1>0, PcSteps
    <3> QED
      BY <1>3, <3>1, <3>2, <3>3, FewerCalls, QuietOrNot
  <2> QED
    BY <2>1, <2>2 DEF Unlisted, At
<1> QED
  BY <1>1, <1>2, <1>3

-----------------------------------------------------------------------------
(* A decision that is due is being made *)

\* Everybody who waits for nothing is to be suppressed or made ready; a backlog
\* with room before it has a dispatch coming.
Decided ==
  \A j \in Jobs : rec[j].stage = "Waiting" /\ ~rec[j].attaching /\ rec[j].pending = 0 =>
    j \in doomed \/ \E u \in Threads : act[u].step = "ready" /\ act[u].id = j
Backlogged == window.deferred # <<>> /\ HasRoom(window) /\ ~abandoned => Dispatching

\* A thread in the last steps of an activation goes on with them.
LEMMA ThreadKept ==
  ASSUME BookInv, Busy, [Next]_vars, NEW u \in Threads, act[u].step \in {"ready", "detach", "dispatch"}
  PROVE  act'[u] = act[u] \/ ActivateReady(u) \/ DetachNext(u) \/ DispatchActivation(u)
<1>0. TypeOK /\ Idle.step = "idle" /\ act \in [Threads -> {Idle} \cup Activity]
  BY DEF BookInv, TypeOK, Idle
<1> DEFINE Goal == act'[u] = act[u] \/ ActivateReady(u) \/ DetachNext(u) \/ DispatchActivation(u)
<1> SUFFICES Goal
  OBVIOUS
<1>1. CASE SubscribeRange \/ Subscribe
  <2>1. act[Submitter].step = "idle"
    BY <1>0, <1>1, PcSteps DEF Busy, Subscribe
  <2>2. act' = act \/ \E x : act' = [act EXCEPT ![Submitter] = x]
    BY <1>1 DEF SubscribeRange, Subscribe, Subscribed
  <2>3. u # Submitter
    BY <2>1
  <2> QED
    BY <1>0, <2>2, <2>3
<1>2. CASE Submission
  <2>1. act' = act \/ SubscribeRange \/ Subscribe
    BY <1>2 DEF Submission, Enter, Admit, Charge, Commit, Recover, Register, Token, Install, DropUnused,
       PublishPortion, DispatchPortion
  <2> QED
    BY <1>1, <2>1
<1>3. ASSUME NEW t \in Threads, Activation(t), t # u PROVE Goal
  <2>1. act' = act \/ \E x : act' = [act EXCEPT ![t] = x]
    <3>1. CASE Deliver(t)
      BY <3>1 DEF Deliver, Then
    <3>2. CASE TakeMembers(t) \/ ActivateRange(t) \/ DetachNext(t)
      BY <3>2 DEF TakeMembers, ActivateRange, DetachNext, Then
    <3>3. CASE ActivateOne(t) \/ ActivateReady(t) \/ DispatchActivation(t) \/ Return(t)
      BY <3>3 DEF ActivateOne, ActivateReady, DispatchActivation, Return, Then
    <3> QED
      BY <1>3, <3>1, <3>2, <3>3 DEF Activation
  <2> QED
    BY <1>0, <1>3, <2>1
<1>4. CASE Activation(u)
  BY <1>4 DEF Activation, Deliver, TakeMembers, ActivateRange, ActivateOne, Return, Doing
<1>5. ASSUME NEW s \in Signals, Call(s) PROVE Goal
  <2>1. act[s].step = "idle"
    BY <1>0, <1>5 DEF Call
  <2>2. \E x : act' = [act EXCEPT ![s] = x]
    BY <1>5 DEF Call
  <2> QED
    BY <1>0, <2>1, <2>2
<1>6. ASSUME \/ \E s \in Signals : \E status \in {"Succeeded", "Failed"} : Complete(s, status)
             \/ \E j \in Jobs : Settlement(j) \/ Claim(j) \/ EndBody(j) \/ Cancel(j)
             \/ Seal \/ Close \/ Abandon \/ UNCHANGED vars
      PROVE  Goal
  <2> SUFFICES act' = act
    OBVIOUS
  <2>1. CASE \E s \in Signals : \E status \in {"Succeeded", "Failed"} : Complete(s, status)
    BY <2>1 DEF Complete
  <2>2. ASSUME NEW j \in Jobs, Settlement(j) PROVE act' = act
    BY <2>2 DEF Settlement, Suppress, DropToken, FinishRecord, FinalizeRecord, DispatchFinal
  <2>3. ASSUME NEW j \in Jobs, Claim(j) \/ EndBody(j) \/ Cancel(j) PROVE act' = act
    BY <2>3 DEF Claim, EndBody, Cancel
  <2>4. CASE Seal \/ Close \/ Abandon \/ UNCHANGED vars
    BY <2>4 DEF Seal, Close, Abandon, vars
  <2> QED
    BY <1>6, <2>1, <2>2, <2>3, <2>4
<1> QED
  BY <1>2, <1>3, <1>4, <1>5, <1>6 DEF Next

\* A decision to suppress stays until the suppression.
LEMMA DoomedKept ==
  ASSUME BookInv, [Next]_vars
  PROVE  doomed \subseteq doomed' \/ \E i \in Jobs : Suppress(i) /\ doomed' = doomed \ {i}
<1> DEFINE Goal == doomed \subseteq doomed' \/ \E i \in Jobs : Suppress(i) /\ doomed' = doomed \ {i}
<1> SUFFICES Goal
  OBVIOUS
<1>1. CASE Submission
  BY <1>1 DEF Submission, Enter, Admit, Charge, Commit, Recover, Register, Token, SubscribeRange, Install,
     DropUnused, Subscribe, PublishPortion, DispatchPortion, SetClass
<1>2. ASSUME NEW t \in Threads, Activation(t) PROVE Goal
  BY <1>2 DEF Activation, Deliver, TakeMembers, ActivateRange, DetachNext, ActivateOne, ActivateReady,
     DispatchActivation, Return, SetClass
<1>3. ASSUME NEW j \in Jobs, Settlement(j) \/ Claim(j) \/ EndBody(j) \/ Cancel(j) PROVE Goal
  <2>1. CASE Suppress(j)
    BY <2>1 DEF Suppress
  <2> QED
    BY <1>3, <2>1 DEF Settlement, DropToken, FinishRecord, FinalizeRecord, DispatchFinal, Claim, EndBody,
       Cancel, SetClass
<1>4. ASSUME NEW s \in Signals, Call(s) \/ \E status \in {"Succeeded", "Failed"} : Complete(s, status)
      PROVE  Goal
  BY <1>4 DEF Call, Complete
<1>5. CASE Seal \/ Close \/ Abandon \/ UNCHANGED vars
  BY <1>5 DEF Seal, Close, Abandon, vars
<1> QED
  BY <1>1, <1>2, <1>3, <1>4, <1>5 DEF Next

\* A job that has waited for nothing since before the step.
LEMMA DecidedSame ==
  ASSUME BookInv, Busy, Decided, [Next]_vars, NEW j \in Jobs, SameWait(rec[j], rec'[j]),
         rec'[j].stage = "Waiting", ~rec'[j].attaching, rec'[j].pending = 0
  PROVE  j \in doomed' \/ \E u \in Threads : act'[u].step = "ready" /\ act'[u].id = j
<1>0. TypeOK /\ ClassOK(Class)
  BY DEF BookInv
<1>1. rec[j].stage = "Waiting" /\ ~rec[j].attaching /\ rec[j].pending = 0
  BY DEF SameWait
<1>2. CASE j \in doomed
  <2>1. ASSUME NEW i \in Jobs, Suppress(i), doomed' = doomed \ {i} PROVE j \in doomed'
    <3>1. CASE i = j
      <4>1. SuppressedAs(rec[j], rec'[j])
        BY <1>0, <1>1, <2>1, <3>1, SuppressEffect DEF Wins
      <4> QED
        BY <4>1 DEF SuppressedAs
    <3> QED
      BY <1>2, <2>1, <3>1
  <2> QED
    BY <1>2, <2>1, DoomedKept
<1>3. ASSUME NEW u \in Threads, act[u].step = "ready", act[u].id = j
      PROVE  j \in doomed' \/ \E t \in Threads : act'[t].step = "ready" /\ act'[t].id = j
  <2>1. CASE act'[u] = act[u]
    BY <1>3, <2>1
  <2>2. CASE ActivateReady(u)
    BY <1>0, <1>1, <1>3, <2>2, ReadyEffect
  <2>3. ~DetachNext(u) /\ ~DispatchActivation(u)
    BY <1>3 DEF DetachNext, DispatchActivation, Doing
  <2> QED
    BY <1>3, <2>1, <2>2, <2>3, ThreadKept
<1> QED
  BY <1>1, <1>2, <1>3 DEF Decided

\* Every step that brings the last delivery brings the decision.
LEMMA DecidedStep ==
  ASSUME BookInv, Busy, Decided, [Next]_vars
  PROVE  Decided'
<1>0. TypeOK /\ ClassOK(Class) /\ rec \in [Jobs -> Record]
  BY DEF BookInv, TypeOK
<1>1. ASSUME NEW j \in Jobs, rec'[j].stage = "Waiting", ~rec'[j].attaching, rec'[j].pending = 0
      PROVE  j \in doomed' \/ \E u \in Threads : act'[u].step = "ready" /\ act'[u].id = j
  <2> DEFINE Goal == j \in doomed' \/ \E u \in Threads : act'[u].step = "ready" /\ act'[u].id = j
  <2> SUFFICES Goal
    OBVIOUS
  <2>1. CASE SameWait(rec[j], rec'[j])
    BY <1>1, <2>1, DecidedSame
  <2>2. CASE PublishedNow(j)
    <3>1. PublishedAs(rec[j], rec'[j], j \in doomed')
      BY <2>2 DEF PublishedNow
    <3>2. rec[j].stage = "Waiting" /\ rec[j].pending = 0
      BY <1>1, <3>1 DEF PublishedAs, OpenedAs, Completed
    <3>3. ~rec[j].deferred
      <4>1. JobStaged(j)
        BY DEF BookInv, Staged
      <4> QED
        BY <3>2, <4>1 DEF JobStaged
    <3> QED
      BY <1>1, <3>1, <3>2, <3>3 DEF PublishedAs, Completed
  <2>3. CASE Taken(j)
    <3>1. rec'[j] = [NewRecord EXCEPT !.stage = "Waiting"]
      BY <2>3 DEF Taken
    <3>2. rec'[j].attaching = TRUE
      BY <3>1 DEF NewRecord, NoRecord
    <3> QED
      BY <1>1, <3>2
  <2>4. ASSUME NEW t \in Threads, ReachedOne(t, j) PROVE Goal
    <3>1. ActivateOne(t) /\ act[t].id = j /\ Reached(j) /\ rec'[j] = Delivered(rec[j], act[t].status)
      BY <2>4 DEF ReachedOne
    <3>2. rec'[j].attaching = rec[j].attaching
      BY <1>0, <3>1, DeliveredForm DEF CountedAs
    <3>3. act'[t].id = j /\ act'[t].step = "ready"
      BY <1>0, <1>1, <3>1, <3>2, OneThread
    <3> QED
      BY <3>3
  <2>5. ASSUME NEW t \in Threads, ReachedIn(t, j) PROVE Goal
    <3>1. ReachedAs(rec[j], rec'[j], act[t].status, j \in doomed')
      BY <2>5 DEF ReachedIn
    <3>2. rec'[j].attaching = rec[j].attaching
      BY <3>1 DEF ReachedAs, DeliveredAs, CountedAs
    <3> QED
      BY <1>1, <3>1, <3>2 DEF ReachedAs
  <2> QED
    BY <2>1, <2>2, <2>3, <2>4, <2>5, WaitsStep DEF WaitsAs
<1> QED
  BY <1>1 DEF Decided

\* A settlement that is to dispatch does so.
LEMMA SettlingKept ==
  ASSUME BookInv, [Next]_vars, NEW j \in Jobs, settling[j] = "dispatch"
  PROVE  settling'[j] = "dispatch" \/ DispatchFinal(j)
<1>0. TypeOK /\ ClassOK(Class) /\ settling \in [Jobs -> {"none", "token", "finish", "finalize", "dispatch"}]
  BY DEF BookInv, TypeOK
<1>1. rec[j].stage = "Gone" /\ ~rec[j].deferred
  <2>1. JobStaged(j)
    BY DEF BookInv, Staged
  <2> QED
    BY <2>1 DEF JobStaged
<1> DEFINE Goal == settling'[j] = "dispatch" \/ DispatchFinal(j)
<1> SUFFICES Goal
  OBVIOUS
<1>2. CASE PublishPortion
  BY <1>1, <1>2 DEF PublishPortion
<1>3. CASE Submission /\ ~PublishPortion
  <2>1. settling' = settling
    BY <1>3 DEF Submission, Enter, Admit, Charge, Commit, Recover, Register, Token, SubscribeRange, Install,
       DropUnused, Subscribe, DispatchPortion
  <2> QED
    BY <2>1
<1>4. ASSUME NEW i \in Jobs, Suppress(i) PROVE Goal
  <2>1. settling' = settling \/ (Wins(i) /\ \E x : settling' = [settling EXCEPT ![i] = x])
    BY <1>0, <1>4, SuppressEffect
  <2> QED
    BY <1>0, <1>1, <2>1 DEF Wins
<1>5. ASSUME NEW i \in Jobs, DropToken(i) \/ FinishRecord(i) \/ FinalizeRecord(i) \/ EndBody(i) PROVE Goal
  <2>1. settling[i] # "dispatch" \/ rec[i].stage = "Running"
    BY <1>5 DEF DropToken, FinishRecord, FinalizeRecord, EndBody
  <2>2. \E x : settling' = [settling EXCEPT ![i] = x]
    BY <1>5 DEF DropToken, FinishRecord, FinalizeRecord, EndBody
  <2> QED
    BY <1>0, <1>1, <2>1, <2>2
<1>6. ASSUME NEW i \in Jobs, DispatchFinal(i) PROVE Goal
  BY <1>0, <1>6 DEF DispatchFinal
<1>7. ASSUME NEW i \in Jobs, Claim(i) \/ Cancel(i) PROVE Goal
  BY <1>7 DEF Claim, Cancel
<1>8. ASSUME NEW t \in Threads, Activation(t) PROVE Goal
  <2>1. settling' = settling
    BY <1>8 DEF Activation, Deliver, TakeMembers, ActivateRange, DetachNext, ActivateOne, ActivateReady,
       DispatchActivation, Return
  <2> QED
    BY <2>1
<1>9. ASSUME \/ \E s \in Signals : Call(s) \/ \E status \in {"Succeeded", "Failed"} : Complete(s, status)
             \/ Seal \/ Close \/ Abandon \/ UNCHANGED vars
      PROVE  Goal
  <2>1. settling' = settling
    BY <1>9 DEF Call, Complete, Seal, Close, Abandon, vars
  <2> QED
    BY <2>1
<1> QED
  BY <1>2, <1>3, <1>4, <1>5, <1>6, <1>7, <1>8, <1>9 DEF Next, Settlement

\* Whoever is about to dispatch does so in the end.
LEMMA DispatchingKept ==
  ASSUME BookInv, RangeInv, Busy, [Next]_vars, Dispatching
  PROVE  \/ Dispatching' \/ DispatchPortion
         \/ \E t \in Threads : DispatchActivation(t)
         \/ \E j \in Jobs : DispatchFinal(j)
<1>0. TypeOK
  BY DEF BookInv
<1> DEFINE Goal == \/ Dispatching' \/ DispatchPortion
                   \/ \E t \in Threads : DispatchActivation(t)
                   \/ \E j \in Jobs : DispatchFinal(j)
<1> SUFFICES Goal
  OBVIOUS
<1>1. CASE At("dispatch")
  <2>1. CASE Outside
    <3>1. batch' = batch
      BY <2>1, OutsideSteps
    <3> QED
      BY <1>1, <3>1 DEF Dispatching, At
  <2>2. CASE Submission
    BY <1>0, <1>1, <2>2, PcSteps DEF Submission, At, Before
  <2> QED
    BY <2>1, <2>2, OutsideSteps
<1>2. ASSUME NEW u \in Threads, act[u].step \in {"ready", "detach", "dispatch"} PROVE Goal
  <2>1. CASE act'[u] = act[u]
    BY <1>2, <2>1 DEF Dispatching
  <2>2. CASE ActivateReady(u)
    <3>1. act'[u].step = "dispatch"
      BY <1>0, <1>2, <2>2, ThenForm DEF ActivateReady
    <3> QED
      BY <3>1 DEF Dispatching
  <2>3. CASE DetachNext(u)
    <3>1. act'[u].step \in {"dispatch", "detach"}
      BY <1>0, <1>2, <2>3, ThenForm, DetachNextForm DEF DetachNext, RangeInv
    <3> QED
      BY <3>1 DEF Dispatching
  <2> QED
    BY <1>2, <2>1, <2>2, <2>3, ThreadKept
<1>3. ASSUME NEW j \in Jobs, settling[j] = "dispatch" PROVE Goal
  BY <1>3, SettlingKept DEF Dispatching
<1> QED
  BY <1>1, <1>2, <1>3 DEF Dispatching

\* A dispatch leaves no room before a backlog, unless it stops at the cut.
LEMMA BackloggedDispatch ==
  ASSUME BookInv,
         DispatchPortion \/ (\E t \in Threads : DispatchActivation(t)) \/ \E j \in Jobs : DispatchFinal(j)
  PROVE  Backlogged'
<1>1. SetClass(Dispatched) /\ abandoned' = abandoned
  BY DEF DispatchPortion, DispatchActivation, DispatchFinal
<1>2. abandoned \/ Filled(window')
  BY <1>1, DispatchEffect DEF BookInv
<1>3. HasRoom(window)' <=> HasRoom(window')
  BY DEF HasRoom
<1> QED
  BY <1>1, <1>2, <1>3 DEF Backlogged, Filled

\* Room before a backlog that was there, or a step that dispatches.
LEMMA BackloggedSame ==
  ASSUME BookInv, RangeInv, Busy, Backlogged, [Next]_vars,
         window'.deferred # <<>> /\ HasRoom(window') => window.deferred # <<>> /\ HasRoom(window),
         abandoned => abandoned'
  PROVE  Backlogged'
<1>1. ASSUME window'.deferred # <<>>, HasRoom(window'), ~abandoned', Dispatching' \/ Backlogged'
      PROVE  Dispatching'
  <2>1. HasRoom(window)'
    BY <1>1 DEF HasRoom
  <2> QED
    BY <1>1, <2>1 DEF Backlogged
<1>2. ASSUME window'.deferred # <<>>, HasRoom(window'), ~abandoned' PROVE Dispatching'
  <2>1. Dispatching
    BY <1>2 DEF Backlogged
  <2> QED
    BY <1>1, <1>2, <2>1, DispatchingKept, BackloggedDispatch
<1>3. HasRoom(window)' <=> HasRoom(window')
  BY DEF HasRoom
<1> QED
  BY <1>2, <1>3 DEF Backlogged

\* Commit takes places and writes nothing else of the window.
LEMMA CommitWindow ==
  ASSUME BookInv, Commit
  PROVE  window'.deferred = window.deferred /\ (HasRoom(window') => HasRoom(window))
<1> DEFINE n == IF CommitFailure = "None" THEN Selected ELSE 0
<1>1. n \in Nat
  BY SelectedIn DEF BookInv
<1>2. window' = [window EXCEPT !.attaching = IF Prereqs = {} THEN @ + n ELSE @]
  BY DEF Commit
<1>3. window \in Window
  BY DEF BookInv, TypeOK
<1> HIDE DEF n
<1>4. /\ window'.deferred = window.deferred /\ window'.runnable = window.runnable
      /\ window'.attaching = window.attaching + n \/ window'.attaching = window.attaching
      /\ window.attaching \in Int /\ window.runnable \in Int
  BY <1>2, <1>3 DEF Window
<1> QED
  BY <1>1, <1>4, Constants DEF HasRoom

\* Every step that makes room before a backlog fills it, or brings a dispatch.
LEMMA BackloggedStep ==
  ASSUME BookInv, RangeInv, Busy, Backlogged, [Next]_vars
  PROVE  Backlogged'
<1>0. TypeOK /\ ClassOK(Class)
  BY DEF BookInv
<1>1. ASSUME window' = window, abandoned => abandoned' PROVE Backlogged'
  BY <1>1, BackloggedSame
<1>2. ASSUME Dispatching' PROVE Backlogged'
  BY <1>2 DEF Backlogged
<1>3. CASE PublishPortion
  <2>1. batch'.pc = "dispatch"
    BY <1>0, <1>3, PcSteps
  <2> QED
    BY <1>2, <2>1 DEF Dispatching, At
<1>4. CASE Commit
  <2>1. abandoned' = abandoned
    BY <1>4 DEF Commit
  <2> QED
    BY <1>4, <2>1, CommitWindow, BackloggedSame
<1>5. CASE Submission
  <2>1. CASE ~PublishPortion /\ ~Commit /\ ~DispatchPortion
    <3>1. window' = window /\ abandoned' = abandoned
      BY <1>5, <2>1 DEF Submission, Enter, Admit, Charge, Recover, Register, Token, SubscribeRange, Install,
         DropUnused, Subscribe
    <3> QED
      BY <1>1, <3>1
  <2> QED
    BY <1>3, <1>4, <2>1, BackloggedDispatch
<1>6. ASSUME NEW t \in Threads, Activation(t) PROVE Backlogged'
  <2>1. CASE Deliver(t) \/ TakeMembers(t) \/ DetachNext(t) \/ ActivateOne(t) \/ Return(t)
    <3>1. window' = window /\ abandoned' = abandoned
      BY <2>1 DEF Deliver, TakeMembers, DetachNext, ActivateOne, Return
    <3> QED
      BY <1>1, <3>1
  <2>2. CASE ActivateRange(t)
    <3>1. act'[t].step = "detach"
      BY <2>2, ActivateForm DEF RangeInv
    <3> QED
      BY <1>2, <3>1 DEF Dispatching
  <2>3. CASE ActivateReady(t)
    <3>1. act[t].step = "ready" /\ Then(t, "dispatch")
      BY <2>3 DEF ActivateReady, Doing
    <3>2. act'[t].step = "dispatch"
      BY <1>0, <3>1, ThenForm
    <3> QED
      BY <1>2, <3>2 DEF Dispatching
  <2> QED
    BY <1>6, <2>1, <2>2, <2>3, BackloggedDispatch DEF Activation
<1>7. ASSUME NEW j \in Jobs, Settlement(j) \/ Claim(j) \/ EndBody(j) \/ Cancel(j) PROVE Backlogged'
  <2>1. CASE Suppress(j)
    <3>1. abandoned' = abandoned
      BY <2>1 DEF Suppress
    <3> QED
      BY <1>0, <2>1, <3>1, SuppressEffect, BackloggedSame
  <2>2. CASE Claim(j)
    <3>1. HasRoom(window)' <=> HasRoom(window')
      BY DEF HasRoom
    <3> QED
      BY <1>0, <2>2, <3>1, ClaimEffect DEF Backlogged, Filled
  <2>3. CASE DropToken(j) \/ FinishRecord(j) \/ FinalizeRecord(j) \/ EndBody(j) \/ Cancel(j)
    <3>1. window' = window /\ abandoned' = abandoned
      BY <2>3 DEF DropToken, FinishRecord, FinalizeRecord, EndBody, Cancel
    <3> QED
      BY <1>1, <3>1
  <2> QED
    BY <1>7, <2>1, <2>2, <2>3, BackloggedDispatch DEF Settlement
<1>8. ASSUME NEW s \in Signals, Call(s) \/ \E status \in {"Succeeded", "Failed"} : Complete(s, status)
      PROVE  Backlogged'
  <2>1. window' = window /\ abandoned' = abandoned
    BY <1>8 DEF Call, Complete
  <2> QED
    BY <1>1, <2>1
<1>9. CASE Seal \/ Close \/ Abandon \/ UNCHANGED vars
  <2>1. window' = window /\ (abandoned => abandoned')
    BY <1>9 DEF Seal, Close, Abandon, vars
  <2> QED
    BY <1>1, <2>1
<1> QED
  BY <1>5, <1>6, <1>7, <1>8, <1>9 DEF Next

-----------------------------------------------------------------------------
(* Nobody is forgotten *)

ForgetInv ==
  /\ SharedOne /\ PendingIn /\ Handles /\ Signalled /\ Once /\ Interested /\ Underway /\ Awaited
  /\ Unlisted /\ Decided /\ Backlogged

\* Nobody waits yet.
LEMMA ForgetInit ==
  ASSUME Init
  PROVE  ForgetInv
<1>1. /\ batch.pc = "enter" /\ batch.portion = <<>> /\ batch.accepted = <<>>
      /\ \A j \in Jobs : rec[j] = NoRecord /\ range[j] = NoRange /\ settling[j] = "none"
      /\ stored = {} /\ owed = {} /\ (\A t \in Threads : act[t] = Idle) /\ window.deferred = <<>>
  BY DEF Init
<1>2. /\ NoRecord.stage = "Out" /\ NoRecord.pending = 0 /\ NoRecord.subs = {} /\ Idle.step = "idle"
      /\ NoRange.jobs = {} /\ NoRange.members = {}
  BY DEF NoRecord, NoRange, Idle
<1>3. SharedOne /\ PendingIn /\ Handles /\ Signalled /\ Once
  BY <1>1, <1>2 DEF SharedOne, PendingIn, Handles, Signalled, Once
<1>4. Interested /\ Underway /\ Awaited /\ Unlisted
  BY <1>1, <1>2 DEF Interested, Underway, Awaited, Unlisted, Reached, At
<1>5. Decided /\ Backlogged
  BY <1>1, <1>2 DEF Decided, Backlogged
<1> QED
  BY <1>3, <1>4, <1>5 DEF ForgetInv

\* Every step keeps all of it.
LEMMA ForgetStep ==
  ASSUME BookInv, RangeInv, Busy, ForgetInv, [Next]_vars
  PROVE  ForgetInv'
<1>1. SharedOne' /\ PendingIn' /\ Handles' /\ Signalled'
  BY SharedOneStep, PendingInStep, HandlesStep, SignalledStep DEF ForgetInv
<1>2. Once' /\ Interested'
  BY OnceStep, InterestedStep DEF ForgetInv
<1>3. Underway' /\ Awaited' /\ Unlisted'
  BY UnderwayStep, AwaitedStep, UnlistedStep DEF ForgetInv
<1>4. Decided' /\ Backlogged'
  BY DecidedStep, BackloggedStep DEF ForgetInv
<1> QED
  BY <1>1, <1>2, <1>3, <1>4 DEF ForgetInv

\* The delivery a member of a range waits for, as the property counts it.
Bearing(r, j) ==
  {u \in Threads : \/ Doing(u, "deliver") /\ act[u].id = r /\ ~range[r].delivered
                   \/ Doing(u, "take") /\ act[u].id = r /\ j \in range[r].members
                   \/ Doing(u, "activate") /\ j \in act[u].jobs}
Listed(r, j) == {c \in stored \cup owed : c[1] = r /\ j \in range[r].members}

\* It is in a list, and then only there, or with one thread.
LEMMA BearsOnce ==
  ASSUME BookInv, RangeInv, SharedOne, Signalled, Once, NEW r \in Jobs, NEW j \in range[r].jobs,
         OnItsWay(r, j), ~Unsubscribed(r)
  PROVE  \/ Bearing(r, j) = {} /\ \E c : Listed(r, j) = {c}
         \/ Listed(r, j) = {} /\ \E t \in Threads : Bearing(r, j) = {t}
<1>0. TypeOK /\ RangeShape /\ Registered
  BY DEF BookInv, RangeInv
<1>1. CalledOnce(r)
  BY DEF Once
<1>2. ASSUME NEW u \in Threads, act[u].step = "activate", j \in act[u].jobs
      PROVE  act[u].id = r
  <2>1. act[u].id \in Jobs /\ act[u].jobs \subseteq range[act[u].id].jobs
    BY <1>0, <1>2, ActFields DEF Registered, ThreadOK, Carrying
  <2> QED
    BY <1>0, <1>2, <2>1 DEF RangeShape
<1>3. ASSUME NEW u \in Threads, act[u].step \in {"take", "activate"}, act[u].id = r
      PROVE  range[r].delivered /\ \A z \in Threads : act[z].step \in {"take", "activate"} /\ act[z].id = r => z = u
  BY <1>0, <1>3 DEF Registered, ThreadOK, Carrying
<1>4. \A u \in Bearing(r, j) : /\ u \in Threads /\ act[u].id = r
                               /\ act[u].step \in {"deliver", "take", "activate"}
                               /\ act[u].step = "deliver" => ~range[r].delivered
  BY <1>2 DEF Bearing, Doing
<1>5. \A u, z \in Bearing(r, j) : u = z
  BY <1>1, <1>3, <1>4 DEF CalledOnce, Called
<1>6. ASSUME Calls(r) # {}, j \in range[r].members
      PROVE  Bearing(r, j) = {} /\ \E c : Listed(r, j) = {c}
  <2>1. Bearing(r, j) = {}
    BY <1>1, <1>3, <1>4, <1>6 DEF CalledOnce, Called
  <2>2. Calls(r) = {<<r, Only>>}
    BY <1>0, <1>6, RangeCall
  <2>3. Listed(r, j) = Calls(r)
    BY <1>6 DEF Listed, Calls
  <2> QED
    BY <2>1, <2>2, <2>3
<1>7. ASSUME NEW u \in Threads, act[u].id = r, act[u].step \in {"deliver", "take", "activate"},
             act[u].step \in {"deliver", "take"} => j \in range[r].members,
             act[u].step = "activate" => j \in act[u].jobs
      PROVE  Listed(r, j) = {} /\ \E t \in Threads : Bearing(r, j) = {t}
  <2>1. Calls(r) = {}
    BY <1>1, <1>3, <1>7 DEF CalledOnce, Called
  <2>2. Listed(r, j) = {}
    BY <2>1 DEF Listed, Calls
  <2>3. act[u].step = "deliver" => ~range[r].delivered
    BY <1>1, <1>7 DEF CalledOnce, Called
  <2>4. u \in Bearing(r, j)
    BY <1>7, <2>3 DEF Bearing, Doing
  <2> QED
    BY <1>5, <1>7, <2>2, <2>4
<1>8. CASE Snapped(r, j)
  BY <1>7, <1>8 DEF Snapped
<1>9. CASE j \in range[r].members /\ Bound(r)
  <2>1. CASE Calls(r) # {}
    BY <1>6, <1>9, <2>1
  <2>2. ASSUME NEW u \in Threads, act[u].step \in {"deliver", "take"}, act[u].id = r
        PROVE  Listed(r, j) = {} /\ \E t \in Threads : Bearing(r, j) = {t}
    BY <1>7, <1>9, <2>2
  <2> QED
    BY <1>9, <2>1, <2>2 DEF Bound
<1> QED
  BY <1>8, <1>9 DEF OnItsWay

\* As many one-tuples as elements.
LEMMA Tuples ==
  ASSUME NEW T, IsFiniteSet(T)
  PROVE  IsFiniteSet({<<t>> : t \in T}) /\ Cardinality({<<t>> : t \in T}) = Cardinality(T)
<1> DEFINE f == [t \in T |-> <<t>>]
           U == {<<t>> : t \in T}
<1>1. f \in [T -> U] /\ \A a, b \in T : f[a] = f[b] => a = b
  OBVIOUS
<1>2. \A x \in U : \E a \in T : f[a] = x
  OBVIOUS
<1> HIDE DEF f
<1>3. ExistsBijection(T, U)
  BY <1>1, <1>2 DEF ExistsBijection, Bijection, Injection, Surjection, IsInjective
<1> QED
  BY <1>3, FS_Bijection

\* A member of a range that waits has one delivery coming.
LEMMA ComingRanged ==
  ASSUME BookInv, RangeInv, ForgetInv, NEW j \in Jobs, InRange(j), Reached(j), ~rec[j].attaching
  PROVE  Cardinality(Coming(j)) = rec[j].pending
<1>0. TypeOK /\ RangeShape
  BY DEF BookInv, RangeInv
<1>1. PICK r \in Jobs : r = RangeOf(j) /\ j \in range[r].jobs
  BY <1>0, RangeOfIs
<1>2. rec[j].pending = 1
  <2>1. Fanin = 1
    BY <1>1 DEF ForgetInv, SharedOne
  <2>2. rec[j].pending \in 0 .. Fanin
    BY DEF ForgetInv, PendingIn, Reached
  <2> QED
    BY <2>1, <2>2 DEF Reached
<1>3. ~Unsubscribed(r)
  <2> SUFFICES ASSUME Unsubscribed(r) PROVE FALSE
    OBVIOUS
  <2>1. batch.pc \in Ranging /\ r = Head(batch.portion) /\ ~At("dispatch")
    BY DEF Unsubscribed, Ranging, At
  <2>2. j \in Portion
    BY <1>0, <1>1, <2>1, CurrentRange DEF BookInv
  <2>3. JobStaged(j)
    BY DEF BookInv, Staged
  <2> QED
    BY <2>1, <2>2, <2>3 DEF JobStaged
<1>4. OnItsWay(r, j)
  BY <1>1 DEF ForgetInv, Underway
<1>5. \/ Bearing(r, j) = {} /\ \E c : Listed(r, j) = {c}
      \/ Listed(r, j) = {} /\ \E t \in Threads : Bearing(r, j) = {t}
  BY <1>1, <1>3, <1>4, BearsOnce DEF ForgetInv
<1>6. Coming(j) = {<<t>> : t \in Bearing(r, j)} \cup Listed(r, j)
  BY <1>1 DEF Coming, Bearing, Listed
<1>7. \E c : Coming(j) = {c}
  <2>1. CASE Bearing(r, j) = {}
    BY <1>5, <1>6, <2>1
  <2>2. ASSUME Listed(r, j) = {}, NEW t \in Threads, Bearing(r, j) = {t} PROVE \E c : Coming(j) = {c}
    <3>1. Coming(j) = {<<t>>}
      BY <1>6, <2>2
    <3> QED
      BY <3>1
  <2> QED
    BY <1>5, <2>1, <2>2
<1> QED
  BY <1>2, <1>7, FS_Singleton

\* A single member that waits has as many coming as it waits for.
LEMMA ComingSingle ==
  ASSUME BookInv, RangeInv, ForgetInv, NEW j \in Jobs, ~InRange(j), Reached(j), ~rec[j].attaching
  PROVE  Cardinality(Coming(j)) = rec[j].pending
<1>0. TypeOK
  BY DEF BookInv
<1> DEFINE A == {<<t>> : t \in Singles(j)}
<1>1. ~(j \in Portion /\ ~At("dispatch"))
  <2>1. JobStaged(j)
    BY DEF BookInv, Staged
  <2> QED
    BY <2>1 DEF JobStaged
<1>2. Due(j) = {}
  <2>1. ~(j \in Portion /\ batch.pc \in Early)
    BY <1>1 DEF At, Early
  <2>2. At("subscribe") => {x \in Prereqs : <<j, x>> \in batch.todo} = {}
    <3> SUFFICES ASSUME At("subscribe"), NEW x \in Prereqs, <<j, x>> \in batch.todo PROVE FALSE
      OBVIOUS
    <3>1. j \in Portion
      BY DEF BookInv, Ranged
    <3> QED
      BY <1>1, <3>1 DEF At
  <2> QED
    BY <2>1, <2>2 DEF Due
<1>3. rec[j].pending = Cardinality(Singles(j)) + Cardinality(Calls(j))
  <2>1. rec[j].pending = Toll(j)
    BY DEF ForgetInv, Awaited, Reached
  <2>2. Cardinality(Due(j)) = 0
    BY <1>2, FS_EmptySet
  <2> QED
    BY <1>0, <2>1, <2>2, TollIn DEF Toll
<1>4. Coming(j) = A \cup Calls(j)
  BY DEF Coming, Singles, Calls, Doing
<1>5. A \cap Calls(j) = {}
  <2> SUFFICES ASSUME NEW c \in A, c \in Calls(j) PROVE FALSE
    OBVIOUS
  <2>1. c \in Jobs \X Signals
    BY <1>0 DEF TypeOK, Calls
  <2>2. PICK t \in Singles(j) : c = <<t>>
    OBVIOUS
  <2>3. PICK i \in Jobs, s \in Signals : c = <<i, s>>
    BY <2>1
  <2> QED
    BY <2>2, <2>3
<1>6. IsFiniteSet(A) /\ Cardinality(A) = Cardinality(Singles(j))
  BY <1>0, TollIn, Tuples
<1>7. Cardinality(A \cup Calls(j)) = Cardinality(A) + Cardinality(Calls(j))
  <2>1. IsFiniteSet(Calls(j)) /\ Cardinality(Calls(j)) \in Nat /\ Cardinality(Singles(j)) \in Nat
    BY <1>0, TollIn
  <2> HIDE DEF A
  <2>2. Cardinality(A \cup Calls(j)) = Cardinality(A) + Cardinality(Calls(j)) - Cardinality(A \cap Calls(j))
    BY <1>6, <2>1, FS_Union
  <2>3. Cardinality(A \cap Calls(j)) = 0
    BY <1>5, FS_EmptySet
  <2>4. Cardinality(A) \in Nat
    BY <1>6, <2>1
  <2> QED
    BY <2>1, <2>2, <2>3, <2>4
<1> QED
  BY <1>3, <1>4, <1>6, <1>7

\* That nobody is forgotten follows.
LEMMA NoneForgottenFollows ==
  ASSUME BookInv, RangeInv, ForgetInv
  PROVE  NoneForgotten
<1>0. TypeOK /\ Portion \subseteq Accepted /\ Accepted \cap Prepared = {}
  BY Disjoint DEF BookInv
<1>1. ASSUME NEW j \in Jobs, rec[j].stage = "Waiting", ~rec[j].attaching
      PROVE  \/ j \in doomed
             \/ rec[j].pending > 0 /\ Cardinality(Coming(j)) = rec[j].pending
             \/ rec[j].pending = 0 /\ \E t \in Threads : Doing(t, "ready") /\ act[t].id = j
  <2>1. CASE rec[j].pending = 0
    BY <1>1, <2>1 DEF ForgetInv, Decided, Doing
  <2>2. CASE rec[j].pending # 0
    <3>1. rec[j].pending \in 0 .. Fanin /\ Fanin \in Nat
      BY <1>0, <1>1, FaninIn DEF ForgetInv, PendingIn
    <3>2. rec[j].pending > 0
      BY <2>2, <3>1
    <3>3. Reached(j)
      BY <1>1, <3>2 DEF Reached
    <3> QED
      BY <1>1, <3>2, <3>3, ComingRanged, ComingSingle
  <2> QED
    BY <2>1, <2>2
<1>2. ASSUME NEW j \in Jobs
      PROVE  /\ rec[j].stage \in {"Waiting", "Finalizing"} /\ rec[j].attaching => j \in Portion
             /\ rec[j].stage = "Finalizing" => rec[j].deferred \/ settling[j] # "none"
             /\ j \in Portion /\ ~At("dispatch") => Live(j)
  <2>1. JobStaged(j)
    BY DEF BookInv, Staged
  <2>2. j \in Prepared => rec[j].stage = "Prepared"
    BY <2>1 DEF JobStaged, NewRecord, NoRecord
  <2>3. j \in Portion /\ ~At("dispatch") => Live(j)
    BY <1>0, <2>1 DEF JobStaged, Live
  <2> QED
    BY <2>1, <2>2, <2>3 DEF JobStaged
<1> QED
  BY <1>1, <1>2 DEF NoneForgotten, ForgetInv, Backlogged

\* What a waiting job waits for is accounted for in every state: the calls, the
\* deliveries and the decisions about it are an invariant.
THEOREM DeliveriesKept == Spec => []ForgetInv
<1>1. Init => ForgetInv
  BY ForgetInit
<1>2. BookInv /\ RangeInv /\ Busy /\ ForgetInv /\ [Next]_vars => ForgetInv'
  BY ForgetStep
<1> QED
  BY <1>1, <1>2, BooksKept, RangesKept, PTL DEF Spec

\* NoneForgotten: a member of a batch (scheduler/bulk.rs) that waits for its
\* prerequisites, and is no longer being attached, has every delivery it still
\* waits for on its way exactly once, or is about to be decided; a settlement
\* that attachment held back has its publication coming; and a deferred job is
\* not left behind room in the window without a dispatch to come.
THEOREM NobodyForgotten == Spec => []NoneForgotten
<1>1. BookInv /\ RangeInv /\ ForgetInv => NoneForgotten
  BY NoneForgottenFollows
<1> QED
  BY <1>1, BooksKept, RangesKept, DeliveriesKept, PTL

-----------------------------------------------------------------------------
(* Nobody starts before what it waits for is over *)

Started == {"Deferred", "Ready", "Running"}

\* A job that is on its way to run after the step was so before, or waited for
\* nothing more, or is reached by the last delivery in it; nobody is let through
\* against the policy of the batch.
EntersAs(j) ==
  \/ rec'[j].stage \in Started => rec[j].stage \in Started
  \/ rec[j].stage = "Waiting" /\ rec[j].pending = 0 /\ ~Barred(rec[j])
  \/ \E t \in Threads : ReachedIn(t, j) /\ ~Barred(rec'[j])

\* A record promoted, and one that is not on its way afterwards.
LEMMA EntersMoved ==
  ASSUME NEW j, Moved(rec[j], rec'[j]) \/ rec'[j] = rec[j] \/ rec'[j].stage \notin Started
  PROVE  EntersAs(j)
BY DEF Moved, EntersAs, Started

\* A record of which no field but these is written.
LEMMA EntersField ==
  ASSUME NEW j, rec[j] \in Record, NEW v,
         \/ rec'[j] = [rec[j] EXCEPT !.subs = v] \/ rec'[j] = [rec[j] EXCEPT !.deferred = v]
         \/ rec'[j] = [rec[j] EXCEPT !.member = v] \/ rec'[j] = [rec[j] EXCEPT !.token = v]
  PROVE  EntersAs(j)
<1>1. rec'[j].stage = rec[j].stage
  BY DEF Record
<1> QED
  BY <1>1 DEF EntersAs

\* The submitter's steps.
LEMMA EntersSubmission ==
  ASSUME BookInv, [Next]_vars, Submission, NEW j \in Jobs
  PROVE  EntersAs(j)
<1>0. TypeOK /\ ClassOK(Class) /\ rec \in [Jobs -> Record] /\ rec[j] \in Record
  BY DEF BookInv, TypeOK
<1>1. ASSUME Moved(rec[j], rec'[j]) \/ rec'[j] = rec[j] \/ rec'[j].stage \notin Started PROVE EntersAs(j)
  BY <1>1, EntersMoved
<1>2. CASE Enter \/ Admit \/ SubscribeRange \/ Install \/ DropUnused
  <2>1. rec' = rec
    BY <1>2 DEF Enter, Admit, SubscribeRange, Install, DropUnused
  <2> QED
    BY <1>1, <2>1
<1>3. CASE Charge
  <2>1. CASE ~sealed /\ Fitting # 0
    <3>1. CASE j \in Prepared'
      <4>1. rec'[j] = [NewRecord EXCEPT !.stage = "Prepared"]
        BY <1>3, <2>1, <3>1, ChargeStaged
      <4>2. rec'[j].stage \notin Started
        BY <4>1 DEF NewRecord, NoRecord, Started
      <4> QED
        BY <1>1, <4>2
    <3> QED
      BY <1>1, <1>3, <2>1, <3>1, ChargeStaged
  <2>2. CASE sealed \/ Fitting = 0
    BY <1>1, <1>3, <2>2, ChargeStaged
  <2> QED
    BY <2>1, <2>2
<1>4. CASE Commit
  <2> DEFINE n == IF CommitFailure = "None" THEN Selected ELSE 0
             a == Len(batch.accepted)
             taken == a + 1 .. a + n
             prepared == [NewRecord EXCEPT !.stage = "Prepared"]
  <2>1. /\ \A i \in taken : rec[i] = prepared /\ rec'[i] = [prepared EXCEPT !.stage = "Waiting"]
        /\ \A i \in Jobs \ taken : rec'[i] = rec[i]
    BY <1>4, CommitStaged
  <2> HIDE DEF taken
  <2>2. CASE j \in taken
    <3>1. rec'[j] = [prepared EXCEPT !.stage = "Waiting"]
      BY <2>1, <2>2
    <3>2. rec'[j].stage \notin Started
      BY <3>1 DEF NewRecord, NoRecord, Started
    <3> QED
      BY <1>1, <3>2
  <2> QED
    BY <1>1, <2>1, <2>2
<1>5. CASE Recover
  <2>1. /\ \A i \in Prepared : rec'[i] = NoRecord
        /\ \A i \in Jobs \ Prepared : rec'[i] = rec[i]
    BY <1>5, RecoverStaged
  <2>2. NoRecord.stage \notin Started
    BY DEF NoRecord, Started
  <2> QED
    BY <1>1, <2>1, <2>2
<1>6. CASE Register
  BY <1>0, <1>1, <1>6, RegisterStaged, EntersField
<1>7. CASE Token
  <2>1. rec' = rec \/ \E i : rec' = [rec EXCEPT ![i].token = TRUE]
    BY <1>7 DEF Token
  <2>2. rec'[j] = rec[j] \/ rec'[j] = [rec[j] EXCEPT !.token = TRUE]
    BY <1>0, <2>1
  <2> QED
    BY <1>0, <1>1, <2>2, EntersField
<1>8. CASE Subscribe
  <2>1. CASE batch.todo = {}
    BY <1>1, <1>8, <2>1 DEF Subscribe
  <2>2. CASE batch.todo # {}
    <3>1. PICK e \in batch.todo : rec' = [rec EXCEPT ![e[1]].subs = @ \cup {e[2]}]
      BY <1>8, <2>2 DEF Subscribe
    <3>2. rec'[j] = rec[j] \/ rec'[j] = [rec[j] EXCEPT !.subs = rec[j].subs \cup {e[2]}]
      BY <1>0, <3>1
    <3> QED
      BY <1>0, <1>1, <3>2, EntersField
  <2> QED
    BY <2>1, <2>2
<1>9. CASE PublishPortion
  <2>1. PICK b \in Nat, m \in Nat : b + m <= N /\ batch.portion = From(b, m)
    BY PortionFrom
  <2>2. /\ \A i \in Jobs \ Portion : rec'[i] = rec[i]
        /\ \A i \in Portion : PublishedAs(rec[i], rec'[i], i \in doomed')
    BY <1>0, <1>9, <2>1, PublishEffect, PortionFrom
  <2>3. CASE j \in Portion
    <3>1. rec'[j].stage = rec[j].stage \/ (Completed(rec[j]) /\ ~Barred(rec[j]))
      BY <2>2, <2>3 DEF PublishedAs
    <3> QED
      BY <3>1 DEF EntersAs, Completed
  <2> QED
    BY <1>1, <2>2, <2>3
<1>10. CASE DispatchPortion
  BY <1>0, <1>1, <1>10, DispatchEffect DEF DispatchPortion
<1> QED
  BY <1>2, <1>3, <1>4, <1>5, <1>6, <1>7, <1>8, <1>9, <1>10 DEF Submission

\* The deliveries.
LEMMA EntersActivation ==
  ASSUME BookInv, [Next]_vars, NEW t \in Threads, Activation(t), NEW j \in Jobs
  PROVE  EntersAs(j)
<1>0. TypeOK /\ ClassOK(Class) /\ rec \in [Jobs -> Record] /\ rec[j] \in Record
  BY DEF BookInv, TypeOK
<1>1. ASSUME Moved(rec[j], rec'[j]) \/ rec'[j] = rec[j] \/ rec'[j].stage \notin Started PROVE EntersAs(j)
  BY <1>1, EntersMoved
<1>2. CASE Deliver(t) \/ TakeMembers(t) \/ DetachNext(t) \/ Return(t)
  <2>1. rec' = rec
    BY <1>2 DEF Deliver, TakeMembers, DetachNext, Return
  <2> QED
    BY <1>1, <2>1
<1>3. CASE DispatchActivation(t)
  BY <1>0, <1>1, <1>3, DispatchEffect DEF DispatchActivation
<1>4. CASE ActivateReady(t)
  <2>1. PICK i \in Jobs : i = act[t].id
    BY <1>0, <1>4, ActFields DEF ActivateReady, Doing
  <2> DEFINE due == rec[i].stage = "Waiting" /\ rec[i].pending = 0 /\ ~rec[i].attaching
  <2>2. /\ \A k \in Jobs \ {i} : rec'[k] = rec[k]
        /\ (~due => rec' = rec)
        /\ due /\ rec'[i].stage # "Waiting" => ~Barred(rec[i])
    BY <1>0, <1>4, <2>1, ReadyEffect
  <2>3. CASE i = j /\ due
    <3>1. CASE rec'[j].stage = "Waiting"
      BY <1>1, <3>1 DEF Started
    <3>2. CASE rec'[j].stage # "Waiting"
      BY <2>2, <2>3, <3>2 DEF EntersAs
    <3> QED
      BY <3>1, <3>2
  <2> QED
    BY <1>1, <2>2, <2>3
<1>5. CASE ActivateOne(t)
  <2>1. PICK i \in Jobs : i = act[t].id
    BY <1>0, <1>5, ActFields DEF ActivateOne, Doing
  <2>2. rec' = rec \/ (Reached(i) /\ rec' = [rec EXCEPT ![i] = Delivered(rec[i], act[t].status)])
    BY <1>5, <2>1 DEF ActivateOne
  <2>3. CASE rec'[j] = rec[j]
    BY <1>1, <2>3
  <2>4. CASE rec'[j] # rec[j]
    <3>1. rec'[j] = Delivered(rec[j], act[t].status)
      BY <1>0, <2>2, <2>4
    <3>2. rec'[j].stage = rec[j].stage
      BY <1>0, <3>1, DeliveredForm
    <3> QED
      BY <3>2 DEF EntersAs
  <2> QED
    BY <2>3, <2>4
<1>6. CASE ActivateRange(t)
  <2> DEFINE reached == {i \in act[t].jobs : Reached(i)}
  <2>1. act[t].jobs \in SUBSET Jobs
    BY <1>0, <1>6, ActFields DEF ActivateRange, Doing
  <2>2. /\ \A i \in Jobs \ reached : rec'[i] = rec[i]
        /\ \A i \in reached : ReachedAs(rec[i], rec'[i], act[t].status, i \in doomed')
    BY <1>0, <1>6, <2>1, RangeEffect
  <2>3. CASE j \in reached
    <3>1. ReachedIn(t, j)
      BY <1>6, <2>2, <2>3 DEF ReachedIn
    <3>2. CASE rec'[j].stage = "Waiting"
      BY <1>1, <3>2 DEF Started
    <3>3. CASE rec'[j].stage # "Waiting"
      <4>1. ~Barred(rec'[j])
        BY <3>1, <3>3 DEF ReachedIn, ReachedAs
      <4> QED
        BY <3>1, <4>1 DEF EntersAs
    <3> QED
      BY <3>2, <3>3
  <2> QED
    BY <1>1, <2>2, <2>3
<1> QED
  BY <1>2, <1>3, <1>4, <1>5, <1>6 DEF Activation

\* Every step.
LEMMA EntersStep ==
  ASSUME BookInv, [Next]_vars, NEW j \in Jobs
  PROVE  EntersAs(j)
<1>0. TypeOK /\ ClassOK(Class) /\ rec \in [Jobs -> Record] /\ rec[j] \in Record
  BY DEF BookInv, TypeOK
<1>1. ASSUME Moved(rec[j], rec'[j]) \/ rec'[j] = rec[j] \/ rec'[j].stage \notin Started PROVE EntersAs(j)
  BY <1>1, EntersMoved
<1>2. ASSUME NEW i \in Jobs, Settlement(i) \/ Claim(i) \/ EndBody(i) \/ Cancel(i) PROVE EntersAs(j)
  <2>1. CASE Suppress(i)
    <3>1. /\ Wins(i) => /\ SuppressedAs(rec[i], rec'[i])
                        /\ \A k \in Jobs \ {i} : Moved(rec[k], rec'[k])
          /\ ~Wins(i) => rec' = rec
      BY <1>0, <2>1, SuppressEffect
    <3> QED
      BY <1>1, <3>1 DEF SuppressedAs, Started
  <2>2. CASE Claim(i)
    <3>1. rec[i].stage = "Ready" /\ \A k \in Jobs \ {i} : Moved(rec[k], rec'[k])
      BY <1>0, <2>2, ClaimEffect
    <3> QED
      BY <1>1, <3>1 DEF EntersAs, Started
  <2>3. CASE DispatchFinal(i)
    BY <1>0, <1>1, <2>3, DispatchEffect DEF DispatchFinal
  <2>4. CASE FinishRecord(i)
    <3>1. rec'[j] = rec[j] \/ rec'[j] = [rec[j] EXCEPT !.deferred = TRUE]
                          \/ rec'[j] = [rec[j] EXCEPT !.subs = {}]
      BY <1>0, <2>4 DEF FinishRecord
    <3> QED
      BY <1>0, <1>1, <3>1, EntersField
  <2>5. CASE EndBody(i)
    <3>1. rec'[j] = rec[j] \/ rec'[j] = [rec[j] EXCEPT !.stage = "Finalizing"]
      BY <1>0, <2>5 DEF EndBody
    <3>2. rec'[j] = rec[j] \/ rec'[j].stage = "Finalizing"
      BY <1>0, <3>1 DEF Record
    <3> QED
      BY <1>1, <3>2 DEF Started
  <2>6. CASE FinalizeRecord(i)
    <3>1. rec'[i] = [NoRecord EXCEPT !.stage = "Gone"] /\ \A k \in Jobs \ {i} : rec'[k] = rec[k]
      BY <2>6, FinalizeStaged
    <3>2. rec'[i].stage \notin Started
      BY <3>1 DEF NoRecord, Started
    <3> QED
      BY <1>1, <3>1, <3>2
  <2>7. CASE DropToken(i) \/ Cancel(i)
    <3>1. rec' = rec
      BY <2>7 DEF DropToken, Cancel
    <3> QED
      BY <1>1, <3>1
  <2> QED
    BY <1>2, <2>1, <2>2, <2>3, <2>4, <2>5, <2>6, <2>7 DEF Settlement
<1>3. ASSUME NEW s \in Signals, Call(s) \/ \E status \in {"Succeeded", "Failed"} : Complete(s, status)
      PROVE  EntersAs(j)
  <2>1. rec' = rec
    BY <1>3 DEF Call, Complete
  <2> QED
    BY <1>1, <2>1
<1>4. CASE Seal \/ Close \/ Abandon \/ UNCHANGED vars
  <2>1. rec' = rec
    BY <1>4 DEF Seal, Close, Abandon, vars
  <2> QED
    BY <1>1, <2>1
<1>5. CASE Submission
  BY <1>5, EntersSubmission
<1>6. ASSUME NEW t \in Threads, Activation(t) PROVE EntersAs(j)
  BY <1>6, EntersActivation
<1> QED
  BY <1>2, <1>3, <1>4, <1>5, <1>6 DEF Next

\* Every prerequisite is over, and succeeded if the batch insists on it.
Settled ==
  \A s \in Prereqs : signal[s] # "Pending" /\ (options.successOnly => signal[s] = "Succeeded")
StartsSettled == \A j \in Jobs : rec[j].stage \in Started => Settled

\* The record of a job has taken in how a prerequisite ended; for a single
\* member that is still to come in the subscription, in the call or with the
\* thread that makes it, which carries the outcome.
Known(j, s) == signal[s] # "Pending" /\ (signal[s] = "Failed" => rec[j].failed)
Carried(j, s) == signal[s] # "Pending" /\ \E u \in Singles(j) : act[u].status = signal[s]
Sought(j, s) == s \in Due(j) \/ <<j, s>> \in Calls(j) \/ Carried(j, s) \/ Known(j, s)
HeardOf(j, s) == IF InRange(j) THEN rec[j].pending > 0 \/ Known(j, s) ELSE Sought(j, s)
Heard == \A j \in Jobs : rec[j].stage = "Waiting" => \A s \in Prereqs : HeardOf(j, s)

\* A thread on its way to a range carries the outcome of all there is.
Reaches == {"deliver", "take", "activate"}
ToldOf(u) == \A s \in Prereqs : signal[s] # "Pending" /\ act[u].status = signal[s]
Told == \A u \in Threads : act[u].step \in Reaches => ToldOf(u)

\* What a signal has published stays.
LEMMA SignalKept ==
  ASSUME BookInv, RangeInv, [Next]_vars, NEW s \in Prereqs, signal[s] # "Pending"
  PROVE  signal'[s] = signal[s] /\ s \in Signals
<1>0. TypeOK /\ RangeShape /\ s \in Signals
  BY FaninIn DEF BookInv, RangeInv
<1>1. CASE SubscribeRange \/ Subscribe
  BY <1>0, <1>1 DEF SubscribeRange, Subscribe
<1>2. ASSUME NEW x \in Signals, Call(x) PROVE signal' = signal
  BY <1>2 DEF Call
<1>3. ASSUME NEW x \in Signals, NEW status \in {"Succeeded", "Failed"}, Complete(x, status)
      PROVE  signal'[s] = signal[s]
  BY <1>0, <1>3 DEF Complete, TypeOK
<1>4. CASE Quiet \/ \E t \in Threads : Deliver(t) \/ TakeMembers(t) \/ ActivateRange(t) \/ ActivateOne(t)
  BY <1>0, <1>4, FewerCalls
<1> QED
  BY <1>0, <1>1, <1>2, <1>3, <1>4, QuietOrNot

\* What is over for the whole batch stays so.
LEMMA SettledKept ==
  ASSUME BookInv, RangeInv, [Next]_vars, Settled
  PROVE  Settled'
BY SignalKept, OptionsStep DEF Settled

\* A record that has taken in an outcome keeps it.
LEMMA KnownKept ==
  ASSUME BookInv, RangeInv, [Next]_vars, NEW j \in Jobs, NEW s \in Prereqs, Known(j, s),
         rec[j].failed => rec'[j].failed
  PROVE  Known(j, s)'
BY SignalKept DEF Known

\* Where a range is, there is one prerequisite.
LEMMA OnlyOne ==
  ASSUME TypeOK, Fanin = 1, NEW s \in Prereqs
  PROVE  s = Only
<1>1. IsFiniteSet(Prereqs) /\ Cardinality(Prereqs) = 1
  BY FaninIn DEF Fanin
<1>2. PICK x : Prereqs = {x}
  BY <1>1, FS_Singleton
<1> QED
  BY <1>2 DEF Only

\* A publishing thread carries the outcome it publishes.
LEMMA CallStatus ==
  ASSUME TypeOK, Signalled, NEW s \in Signals, Call(s)
  PROVE  act'[s].status = signal[s] /\ signal[s] # "Pending" /\ s \in Prereqs
<1>0. s \in Threads /\ act \in [Threads -> {Idle} \cup Activity]
  BY DEF Threads, TypeOK
<1>1. PICK c \in owed, st \in {"deliver", "single"} :
        c[2] = s /\ act' = [act EXCEPT ![s] = [step |-> st, id |-> c[1], status |-> signal[s], jobs |-> {}]]
  BY DEF Call
<1> QED
  BY <1>0, <1>1 DEF Signalled

\* The submitter, when it is called at once, is told the outcome.
LEMMA SubscribedStatus ==
  ASSUME TypeOK, NEW id \in Jobs, NEW s \in Signals, NEW step, Subscribed(id, s, step)
  PROVE  \/ act' = act
         \/ act'[Submitter].status = signal[s] /\ signal[s] # "Pending"
<1>1. Submitter \in Threads /\ act \in [Threads -> {Idle} \cup Activity]
  BY DEF Threads, TypeOK
<1>2. \/ act' = act
      \/ /\ signal[s] # "Pending"
         /\ act' = [act EXCEPT ![Submitter] = [step |-> step, id |-> id, status |-> signal[s], jobs |-> {}]]
  BY DEF Subscribed
<1> QED
  BY <1>1, <1>2

\* The steps of a delivery keep the outcome that is carried.
LEMMA StatusKept ==
  ASSUME TypeOK, NEW t \in Threads, Deliver(t) \/ TakeMembers(t) \/ ActivateRange(t) \/ ActivateOne(t)
  PROVE  /\ act[t].step \in {"deliver", "take", "activate", "single"}
         /\ \A u \in Threads \ {t} : act'[u] = act[u]
         /\ act'[t].step \in Reaches => act[t].step \in Reaches /\ act'[t].status = act[t].status
<1>0. act \in [Threads -> {Idle} \cup Activity]
  BY DEF TypeOK
<1>1. CASE Deliver(t)
  <2>1. act[t].step = "deliver" /\ (act' = [act EXCEPT ![t] = Idle] \/ Then(t, "take"))
    BY <1>1 DEF Deliver, Doing
  <2>2. act[t] \in Activity
    BY <2>1, ActFields
  <2>3. Idle.step = "idle"
    BY DEF Idle
  <2> QED
    BY <1>0, <2>1, <2>2, <2>3 DEF Then, Reaches, Activity
<1>2. CASE TakeMembers(t)
  <2>1. PICK S, st : act[t].step = "take" /\ act' = [act EXCEPT ![t].jobs = S, ![t].step = st]
    BY <1>2 DEF TakeMembers, Doing
  <2>2. act[t] \in Activity
    BY <2>1, ActFields
  <2> QED
    BY <1>0, <2>1, <2>2 DEF Reaches, Activity
<1>3. CASE ActivateRange(t)
  <2>1. PICK S : act[t].step = "activate" /\ act' = [act EXCEPT ![t].step = "detach", ![t].jobs = S]
    BY <1>3 DEF ActivateRange, Doing
  <2>2. act[t] \in Activity
    BY <2>1, ActFields
  <2> QED
    BY <1>0, <2>1, <2>2 DEF Reaches, Activity
<1>4. CASE ActivateOne(t)
  <2>1. act[t].step = "single" /\ act'[t].step \in {"stop", "ready"}
        /\ \A u \in Threads \ {t} : act'[u] = act[u]
    BY <1>4, OneThread
  <2> QED
    BY <2>1 DEF Reaches
<1> QED
  BY <1>1, <1>2, <1>3, <1>4

\* Whoever reaches a range was told how its prerequisite ended.
LEMMA ToldStep ==
  ASSUME BookInv, RangeInv, SharedOne, Signalled, Told, [Next]_vars
  PROVE  Told'
<1>0. TypeOK /\ RangeShape /\ Registered /\ Prereqs' = Prereqs /\ Submitter \in Threads
  BY OptionsStep DEF BookInv, RangeInv, Threads
<1> SUFFICES ASSUME NEW u \in Threads, act'[u].step \in Reaches PROVE ToldOf(u)'
  BY DEF Told
<1>1. ASSUME act[u].step \in Reaches, act'[u].status = act[u].status PROVE ToldOf(u)'
  <2>1. ToldOf(u)
    BY <1>1 DEF Told
  <2> QED
    BY <1>0, <1>1, <2>1, SignalKept DEF ToldOf
<1>2. ASSUME act'[u] = act[u] PROVE ToldOf(u)'
  BY <1>1, <1>2
<1>3. ASSUME NEW s \in Prereqs, Fanin = 1, act'[u].status = signal[s], signal[s] # "Pending"
      PROVE  ToldOf(u)'
  <2>1. signal'[s] = signal[s]
    BY <1>3, SignalKept
  <2>2. \A x \in Prereqs : x = s
    BY <1>0, <1>3, OnlyOne
  <2> QED
    BY <1>0, <1>3, <2>1, <2>2 DEF ToldOf
<1>4. CASE Quiet
  <2>1. SameDelivering
    BY <1>0, <1>4, QuietEffect
  <2> QED
    BY <1>2, <2>1 DEF SameDelivering, Underways, Reaches
<1>5. CASE SubscribeRange
  <2>1. PICK h \in Jobs : h \in Portion /\ range[h].jobs = Portion /\ Subscribed(h, Only, "deliver")
                          /\ Only \in Prereqs /\ Only \in Signals
    BY <1>0, <1>5, SubscribeRangeForm
  <2>2. Fanin = 1
    BY <2>1 DEF SharedOne
  <2>3. act' = act \/ \A z \in Threads \ {Submitter} : act'[z] = act[z]
    BY <1>0, <2>1, SubscribedForm
  <2>4. act' = act \/ (act'[Submitter].status = signal[Only] /\ signal[Only] # "Pending")
    BY <1>0, <2>1, SubscribedStatus
  <2> QED
    BY <1>2, <1>3, <2>1, <2>2, <2>3, <2>4
<1>6. CASE Subscribe
  <2>1. \/ act' = act
        \/ \E j \in Jobs, s \in Signals : Subscribed(j, s, "single")
    BY <1>0, <1>6, SubscribeForm
  <2>2. ASSUME NEW j \in Jobs, NEW s \in Signals, Subscribed(j, s, "single") PROVE act'[u] = act[u]
    BY <1>0, <2>2, SubscribedForm DEF Reaches
  <2> QED
    BY <1>2, <2>1, <2>2
<1>7. ASSUME NEW s \in Signals, Call(s) PROVE ToldOf(u)'
  <2>1. PICK c \in owed :
          /\ c[1] \in Jobs /\ c[2] = s /\ c = <<c[1], s>> /\ owed' = owed \ {c} /\ stored' = stored
          /\ s \in Threads /\ act[s].step = "idle" /\ act'[s].id = c[1] /\ act'[s].jobs = {}
          /\ act'[s].step = IF range[c[1]].jobs # {} THEN "deliver" ELSE "single"
          /\ InRange(c[1]) <=> range[c[1]].jobs # {}
          /\ \A z \in Threads \ {s} : act'[z] = act[z]
          /\ UNCHANGED <<batch, rec, range, signal, doomed, settling, window>>
    BY <1>7, CallForm
  <2>2. CASE u # s
    BY <1>2, <2>1, <2>2
  <2>3. CASE u = s
    <3>1. range[c[1]].jobs # {}
      BY <2>1, <2>3 DEF Reaches
    <3>2. Fanin = 1
      BY <2>1, <3>1 DEF SharedOne
    <3>3. act'[s].status = signal[s] /\ signal[s] # "Pending" /\ s \in Prereqs
      BY <1>0, <1>7, CallStatus
    <3> QED
      BY <1>3, <2>3, <3>2, <3>3
  <2> QED
    BY <2>2, <2>3
<1>8. ASSUME NEW s \in Signals, NEW status \in {"Succeeded", "Failed"}, Complete(s, status)
      PROVE  ToldOf(u)'
  <2>1. act' = act
    BY <1>8 DEF Complete
  <2> QED
    BY <1>2, <2>1
<1>9. ASSUME NEW t \in Threads, Deliver(t) \/ TakeMembers(t) \/ ActivateRange(t) \/ ActivateOne(t)
      PROVE  ToldOf(u)'
  <2>1. CASE u = t
    BY <1>0, <1>1, <1>9, <2>1, StatusKept
  <2>2. CASE u # t
    BY <1>0, <1>2, <1>9, <2>2, StatusKept
  <2> QED
    BY <2>1, <2>2
<1> QED
  BY <1>4, <1>5, <1>6, <1>7, <1>8, <1>9, QuietOrNot

\* As long as a single member waits for as much, nothing it has to hear is lost.
LEMMA SoughtStays ==
  ASSUME BookInv, RangeInv, Busy, Signalled, Once, Awaited, [Next]_vars,
         NEW j \in Jobs, ~InRange(j), ~(InRange(j)'), rec[j].stage = "Waiting",
         rec'[j].pending = rec[j].pending, rec'[j].failed = rec[j].failed,
         NEW s \in Prereqs, Sought(j, s)
  PROVE  Sought(j, s)'
<1>0. TypeOK /\ RangeShape /\ Registered /\ Prereqs' = Prereqs /\ Submitter \in Threads
  BY OptionsStep DEF BookInv, RangeInv, Threads
<1>1. CASE Known(j, s)
  BY <1>1, KnownKept DEF Sought
<1>2. ASSUME NEW u \in Singles(j), act[u].status = signal[s], signal[s] # "Pending", act'[u] = act[u]
      PROVE  Sought(j, s)'
  <2>1. u \in Singles(j)'
    BY <1>2 DEF Singles
  <2>2. signal'[s] = signal[s]
    BY <1>2, SignalKept
  <2> QED
    BY <1>2, <2>1, <2>2 DEF Sought, Carried
<1>3. ASSUME Due(j)' = Due(j), Calls(j)' = Calls(j), \A u \in Singles(j) : act'[u] = act[u]
      PROVE  Sought(j, s)'
  <2>1. CASE s \in Due(j) \/ <<j, s>> \in Calls(j)
    BY <1>3, <2>1 DEF Sought
  <2>2. CASE Carried(j, s)
    BY <1>2, <1>3, <2>2 DEF Carried
  <2> QED
    BY <1>1, <2>1, <2>2 DEF Sought
<1>4. CASE Quiet
  <2>1. SameDelivering
    BY <1>0, <1>4, QuietEffect
  <2>2. \A u \in Singles(j) : act'[u] = act[u]
    BY <2>1 DEF SameDelivering, Underways, Singles
  <2> QED
    BY <1>3, <1>4, <2>2, DueQuiet, CallsQuiet
<1>5. CASE SubscribeRange
  <2>1. PICK h \in Jobs : batch.pc = "range" /\ Subscribed(h, Only, "deliver") /\ Only \in Signals
    BY <1>0, <1>5, SubscribeRangeForm
  <2>2. act' = act \/ \A u \in Threads \ {Submitter} : act'[u] = act[u]
    BY <1>0, <2>1, SubscribedForm
  <2>3. act[Submitter].step = "idle"
    BY <2>1 DEF Busy
  <2>4. \A u \in Singles(j) : act'[u] = act[u]
    BY <2>2, <2>3 DEF Singles
  <2> QED
    BY <1>3, <1>5, <2>4, TollSubscribeRange
<1>6. ASSUME NEW t \in Threads, Deliver(t) \/ TakeMembers(t) \/ ActivateRange(t) PROVE Sought(j, s)'
  <2>1. act[t].step # "single"
    BY <1>6 DEF Deliver, TakeMembers, ActivateRange, Doing
  <2>2. \A u \in Threads \ {t} : act'[u] = act[u]
    BY <1>0, <1>6, StatusKept
  <2>3. \A u \in Singles(j) : act'[u] = act[u]
    BY <2>1, <2>2 DEF Singles
  <2>4. Due(j)' = Due(j) /\ Calls(j)' = Calls(j)
    BY <1>6, TollDeliver
  <2> QED
    BY <1>3, <2>3, <2>4
<1>7. ASSUME NEW t \in Threads, ActivateOne(t) PROVE Sought(j, s)'
  <2>1. act[t].id # j
    BY <1>7, SinglesSpent
  <2>2. /\ \A u \in Threads \ {t} : act'[u] = act[u]
        /\ UNCHANGED <<batch, stored, owed>>
    BY <1>0, <1>7, OneThread
  <2>3. Due(j)' = Due(j) /\ Calls(j)' = Calls(j)
    BY <1>0, <2>2 DEF Due, At, Portion, Calls
  <2>4. \A u \in Singles(j) : act'[u] = act[u]
    BY <2>1, <2>2 DEF Singles
  <2> QED
    BY <1>3, <2>3, <2>4
<1>8. ASSUME NEW x \in Signals, NEW status \in {"Succeeded", "Failed"}, Complete(x, status)
      PROVE  Sought(j, s)'
  <2>1. act' = act /\ batch' = batch /\ owed' = owed \cup {c \in stored : c[2] = x}
        /\ stored' = {c \in stored : c[2] # x}
    BY <1>8 DEF Complete
  <2>2. Calls(j)' = Calls(j)
    BY <2>1 DEF Calls
  <2>3. Due(j)' = Due(j)
    BY <1>0, <2>1 DEF Due, At, Portion
  <2> QED
    BY <1>3, <2>1, <2>2, <2>3
<1>9. ASSUME NEW x \in Signals, Call(x) PROVE Sought(j, s)'
  <2>1. PICK c \in owed :
          /\ c[1] \in Jobs /\ c[2] = x /\ c = <<c[1], x>> /\ owed' = owed \ {c} /\ stored' = stored
          /\ x \in Threads /\ act[x].step = "idle" /\ act'[x].id = c[1] /\ act'[x].jobs = {}
          /\ act'[x].step = IF range[c[1]].jobs # {} THEN "deliver" ELSE "single"
          /\ InRange(c[1]) <=> range[c[1]].jobs # {}
          /\ \A z \in Threads \ {x} : act'[z] = act[z]
          /\ UNCHANGED <<batch, rec, range, signal, doomed, settling, window>>
    BY <1>9, CallForm
  <2>2. Due(j)' = Due(j)
    BY <1>0, <2>1 DEF Due, At, Portion
  <2>3. \A u \in Singles(j) : act'[u] = act[u]
    BY <2>1 DEF Singles
  <2>4. CASE c # <<j, s>>
    <3>1. <<j, s>> \in Calls(j) => <<j, s>> \in Calls(j)'
      BY <2>1, <2>4 DEF Calls
    <3>2. CASE s \in Due(j) \/ <<j, s>> \in Calls(j)
      BY <2>2, <3>1, <3>2 DEF Sought
    <3>3. CASE Carried(j, s)
      BY <1>2, <2>3, <3>3 DEF Carried
    <3> QED
      BY <1>1, <3>2, <3>3 DEF Sought
  <2>5. CASE c = <<j, s>>
    <3>1. c[1] = j /\ x = s
      BY <2>1, <2>5
    <3>2. act'[s].step = "single" /\ act'[s].id = j /\ s \in Threads /\ signal' = signal
      BY <2>1, <3>1
    <3>3. act'[s].status = signal[s] /\ signal[s] # "Pending"
      BY <1>0, <1>9, <3>1, CallStatus
    <3>4. Carried(j, s)'
      BY <3>2, <3>3 DEF Carried, Singles
    <3> QED
      BY <3>4 DEF Sought
  <2> QED
    BY <2>4, <2>5
<1>10. CASE Subscribe
  <2>0. batch.pc = "subscribe" /\ act[Submitter] = Idle /\ signal' = signal /\ owed' = owed
    BY <1>0, <1>10, SubscribeForm
  <2>1. act[Submitter].step = "idle"
    BY <2>0 DEF Idle
  <2>2. Due(j) = {x \in Prereqs : <<j, x>> \in batch.todo}
    BY <2>0 DEF Due, At, Early
  <2>3. CASE batch.todo = {} /\ UNCHANGED <<stored, act>>
    <3>1. s \notin Due(j)
      BY <2>2, <2>3
    <3>2. Calls(j)' = Calls(j)
      BY <2>0, <2>3 DEF Calls
    <3>3. CASE <<j, s>> \in Calls(j)
      BY <3>2, <3>3 DEF Sought
    <3>4. CASE Carried(j, s)
      BY <1>2, <2>3, <3>4 DEF Carried
    <3> QED
      BY <1>1, <3>1, <3>3, <3>4 DEF Sought
  <2>4. ASSUME NEW i \in Jobs, NEW x \in Prereqs, x \in Signals,
               batch'.pc = "subscribe" /\ batch'.todo = batch.todo \ {<<i, x>>},
               Subscribed(i, x, "single")
        PROVE  Sought(j, s)'
    <3>1. \/ stored' = stored \cup {<<i, x>>} /\ act' = act
          \/ /\ stored' = stored
             /\ act'[Submitter].step = "single" /\ act'[Submitter].id = i
             /\ \A u \in Threads \ {Submitter} : act'[u] = act[u]
      BY <1>0, <2>4, SubscribedForm
    <3>2. CASE <<j, s>> \in Calls(j)
      <4>1. <<j, s>> \in Calls(j)'
        BY <2>0, <3>1, <3>2 DEF Calls
      <4> QED
        BY <4>1 DEF Sought
    <3>3. CASE Carried(j, s)
      <4>1. \A u \in Singles(j) : act'[u] = act[u]
        BY <2>1, <3>1 DEF Singles
      <4> QED
        BY <1>2, <3>3, <4>1 DEF Carried
    <3>4. CASE s \in Due(j) /\ <<i, x>> # <<j, s>>
      <4>1. <<j, s>> \in batch'.todo
        BY <2>2, <2>4, <3>4
      <4>2. s \in Due(j)'
        BY <1>0, <2>4, <4>1 DEF Due, At, Early
      <4> QED
        BY <4>2 DEF Sought
    <3>5. CASE i = j /\ x = s
      <4>1. CASE stored' = stored \cup {<<i, x>>}
        <5>1. <<j, s>> \in Calls(j)'
          BY <3>5, <4>1 DEF Calls
        <5> QED
          BY <5>1 DEF Sought
      <4>2. CASE stored' # stored \cup {<<i, x>>}
        <5>1. /\ act'[Submitter].step = "single" /\ act'[Submitter].id = j /\ act' # act
          BY <2>1, <3>1, <3>5, <4>2
        <5>2. act'[Submitter].status = signal[s] /\ signal[s] # "Pending"
          BY <1>0, <2>4, <3>5, <5>1, SubscribedStatus
        <5>3. Carried(j, s)'
          BY <1>0, <2>0, <5>1, <5>2 DEF Carried, Singles
        <5> QED
          BY <5>3 DEF Sought
      <4> QED
        BY <4>1, <4>2
    <3> QED
      BY <1>1, <3>2, <3>3, <3>4, <3>5 DEF Sought
  <2> QED
    BY <1>0, <1>10, <2>3, <2>4, SubscribeForm
<1> QED
  BY <1>4, <1>5, <1>6, <1>7, <1>8, <1>9, <1>10, QuietOrNot

\* The thread that reaches a single member leaves what it carried in the record.
LEMMA SoughtOne ==
  ASSUME BookInv, RangeInv, [Next]_vars, NEW t \in Threads, NEW j \in Jobs, ReachedOne(t, j),
         NEW s \in Prereqs, Sought(j, s)
  PROVE  Sought(j, s)'
<1>0. TypeOK /\ RangeShape /\ Prereqs' = Prereqs /\ rec[j] \in Record
  BY OptionsStep DEF BookInv, RangeInv, TypeOK
<1>1. ActivateOne(t) /\ act[t].id = j /\ rec'[j] = Delivered(rec[j], act[t].status)
  BY DEF ReachedOne
<1>2. /\ \A u \in Threads \ {t} : act'[u] = act[u]
      /\ UNCHANGED <<batch, stored, owed, signal>>
  BY <1>0, <1>1, OneThread
<1>3. rec'[j].failed = (rec[j].failed \/ act[t].status = "Failed")
  BY <1>0, <1>1, DeliveredForm DEF CountedAs
<1>4. CASE s \in Due(j) \/ <<j, s>> \in Calls(j)
  <2>1. Due(j)' = Due(j) /\ Calls(j)' = Calls(j)
    BY <1>0, <1>2 DEF Due, At, Portion, Calls
  <2> QED
    BY <1>4, <2>1 DEF Sought
<1>5. CASE Known(j, s)
  <2>1. Known(j, s)'
    BY <1>2, <1>3, <1>5 DEF Known
  <2> QED
    BY <2>1 DEF Sought
<1>6. CASE Carried(j, s)
  <2>1. PICK u \in Singles(j) : act[u].status = signal[s]
    BY <1>6 DEF Carried
  <2>2. CASE u = t
    <3>1. Known(j, s)'
      BY <1>2, <1>3, <1>6, <2>1, <2>2 DEF Known, Carried
    <3> QED
      BY <3>1 DEF Sought
  <2>3. CASE u # t
    <3>1. u \in Singles(j)' /\ act'[u] = act[u]
      BY <1>2, <2>1, <2>3 DEF Singles
    <3>2. Carried(j, s)'
      BY <1>2, <1>6, <2>1, <3>1 DEF Carried
    <3> QED
      BY <3>2 DEF Sought
  <2> QED
    BY <2>2, <2>3
<1> QED
  BY <1>4, <1>5, <1>6 DEF Sought

\* A member that waits as before has heard of as much, or is to.
LEMMA HeardSame ==
  ASSUME BookInv, RangeInv, Busy, Signalled, Once, Awaited, Heard, [Next]_vars,
         NEW j \in Jobs, rec[j].stage = "Waiting", rec'[j].stage = "Waiting",
         rec'[j].pending = rec[j].pending, rec'[j].failed = rec[j].failed, NEW s \in Prereqs
  PROVE  HeardOf(j, s)'
<1>0. TypeOK /\ RangeShape /\ Tokened /\ Prereqs' = Prereqs /\ HeardOf(j, s)
  BY OptionsStep DEF BookInv, RangeInv, Heard
<1>1. CASE InRange(j)
  <2>1. InRange(j)'
    BY <1>0, <1>1, InRangeKept
  <2>2. rec[j].pending > 0 \/ Known(j, s)
    BY <1>0, <1>1 DEF HeardOf
  <2>3. Known(j, s) => Known(j, s)'
    BY KnownKept
  <2>4. rec'[j].pending > 0 \/ Known(j, s)'
    BY <2>2, <2>3
  <2> QED
    BY <2>1, <2>4 DEF HeardOf
<1>2. CASE ~InRange(j) /\ ~(InRange(j)')
  <2>1. Sought(j, s)
    BY <1>0, <1>2 DEF HeardOf
  <2>2. Sought(j, s)'
    BY <1>2, <2>1, SoughtStays
  <2> QED
    BY <1>2, <2>2 DEF HeardOf
<1>3. CASE ~InRange(j) /\ InRange(j)'
  <2>1. PICK r \in Jobs : j \in range'[r].jobs /\ j \notin range[r].jobs
    BY <1>3 DEF InRange
  <2>2. Register
    BY <2>1, RangeTypesStep
  <2>3. batch.pc = "register" /\ j \in Portion
    BY <1>0, <2>1, <2>2, RegisterForm
  <2>4. ~Late(j)
    BY <2>3 DEF Late, Fresh, Early
  <2>5. rec[j].pending = Fanin
    BY <1>0, <2>4 DEF Tokened
  <2>6. Fanin \in Nat /\ Fanin # 0
    BY <1>0, FaninIn
  <2>7. rec'[j].pending > 0
    BY <2>5, <2>6
  <2> QED
    BY <1>3, <2>7 DEF HeardOf
<1> QED
  BY <1>1, <1>2, <1>3

\* A delivery through a range leaves in the record what it carries.
LEMMA HeardIn ==
  ASSUME BookInv, RangeInv, Told, [Next]_vars, NEW t \in Threads, NEW j \in Jobs, ReachedIn(t, j),
         NEW s \in Prereqs
  PROVE  HeardOf(j, s)' /\ ToldOf(t) /\ rec'[j].failed = (rec[j].failed \/ act[t].status = "Failed")
<1>0. ActivateRange(t) /\ ReachedAs(rec[j], rec'[j], act[t].status, j \in doomed')
  BY DEF ReachedIn
<1>1. act[t].step = "activate"
  BY <1>0 DEF ActivateRange, Doing
<1>2. ToldOf(t)
  BY <1>1 DEF Told, Reaches
<1>3. rec'[j].failed = (rec[j].failed \/ act[t].status = "Failed")
  BY <1>0 DEF ReachedAs, DeliveredAs, CountedAs
<1>4. signal[s] # "Pending" /\ act[t].status = signal[s]
  BY <1>2 DEF ToldOf
<1>5. signal'[s] = signal[s]
  BY <1>4, SignalKept
<1>6. Known(j, s)'
  BY <1>3, <1>4, <1>5 DEF Known
<1>7. HeardOf(j, s)'
  BY <1>6 DEF HeardOf, Sought
<1> QED
  BY <1>2, <1>3, <1>7

\* Every step leaves a waiting member with all it has to hear of.
LEMMA HeardStep ==
  ASSUME BookInv, RangeInv, Busy, Signalled, Once, Awaited, Heard, Told, [Next]_vars
  PROVE  Heard'
<1>0. TypeOK /\ RangeShape /\ Registered /\ Prereqs' = Prereqs
  BY OptionsStep DEF BookInv, RangeInv
<1> SUFFICES ASSUME NEW j \in Jobs, rec'[j].stage = "Waiting", NEW s \in Prereqs
             PROVE  HeardOf(j, s)'
  BY <1>0 DEF Heard
<1>1. WaitsAs(j)
  BY WaitsStep
<1>2. CASE SameWait(rec[j], rec'[j])
  BY <1>2, HeardSame DEF SameWait
<1>3. CASE PublishedNow(j)
  <2>1. rec'[j].pending = rec[j].pending /\ rec'[j].failed = rec[j].failed /\ rec[j].stage = "Waiting"
    BY <1>3 DEF PublishedNow, PublishedAs, OpenedAs, Completed
  <2> QED
    BY <2>1, HeardSame
<1>4. CASE Taken(j)
  <2>1. Due(j)' = Prereqs /\ j \notin Accepted
    BY <1>4, DueTaken
  <2>2. ~InRange(j)
    BY <1>0, <2>1 DEF RangeShape, InRange
  <2>3. ~Register
    BY <1>4 DEF Taken, Commit, Register, At
  <2>4. ~(InRange(j)')
    BY <2>2, <2>3, RangeTypesStep DEF InRange
  <2>5. Sought(j, s)'
    BY <2>1 DEF Sought
  <2> QED
    BY <2>4, <2>5 DEF HeardOf
<1>5. ASSUME NEW t \in Threads, ReachedOne(t, j) PROVE HeardOf(j, s)'
  <2>1. ActivateOne(t) /\ act[t].id = j /\ rec[j].stage = "Waiting" /\ act[t].step = "single"
    BY <1>5 DEF ReachedOne, Reached, ActivateOne, Doing
  <2>2. ~InRange(j)
    BY <1>0, <2>1 DEF Registered, ThreadOK
  <2>3. ~Register
    BY <1>0, <2>1, RegisterForm, OneThread
  <2>4. ~(InRange(j)')
    BY <2>2, <2>3, RangeTypesStep DEF InRange
  <2>5. Sought(j, s)
    BY <2>1, <2>2 DEF Heard, HeardOf
  <2>6. Sought(j, s)'
    BY <1>5, <2>5, SoughtOne
  <2> QED
    BY <2>4, <2>6 DEF HeardOf
<1>6. ASSUME NEW t \in Threads, ReachedIn(t, j) PROVE HeardOf(j, s)'
  BY <1>6, HeardIn
<1> QED
  BY <1>1, <1>2, <1>3, <1>4, <1>5, <1>6 DEF WaitsAs

\* Who waits for nothing more has heard of everything.
LEMMA HeardAll ==
  ASSUME BookInv, RangeInv, Awaited, Heard, NEW j \in Jobs, rec[j].stage = "Waiting",
         rec[j].pending = 0, NEW s \in Prereqs
  PROVE  Known(j, s)
<1>0. TypeOK /\ HeardOf(j, s)
  BY DEF BookInv, Heard
<1>1. CASE InRange(j)
  BY <1>0, <1>1 DEF HeardOf
<1>2. CASE ~InRange(j)
  <2>1. Toll(j) = 0
    BY <1>2 DEF Awaited
  <2>2. /\ IsFiniteSet(Singles(j)) /\ IsFiniteSet(Calls(j)) /\ IsFiniteSet(Due(j))
        /\ Cardinality(Singles(j)) \in Nat /\ Cardinality(Calls(j)) \in Nat
        /\ Cardinality(Due(j)) \in Nat
    BY <1>0, TollIn
  <2>3. Cardinality(Singles(j)) = 0 /\ Cardinality(Calls(j)) = 0 /\ Cardinality(Due(j)) = 0
    BY <2>1, <2>2 DEF Toll
  <2>4. Singles(j) = {} /\ Calls(j) = {} /\ Due(j) = {}
    BY <2>2, <2>3, FS_EmptySet
  <2>5. Sought(j, s)
    BY <1>0, <1>2 DEF HeardOf
  <2> QED
    BY <2>4, <2>5 DEF Sought, Carried
<1> QED
  BY <1>1, <1>2

\* A signal that is over and has not failed has succeeded.
LEMMA Outcome ==
  ASSUME TypeOK, NEW s \in Prereqs, signal[s] # "Pending", signal[s] # "Failed"
  PROVE  signal[s] = "Succeeded"
<1>1. s \in Signals
  BY FaninIn
<1> QED
  BY <1>1 DEF TypeOK, Statuses

\* Every step lets through only those whose prerequisites are over.
LEMMA StartsStep ==
  ASSUME BookInv, RangeInv, Awaited, Heard, Told, StartsSettled, [Next]_vars
  PROVE  StartsSettled'
<1>0. TypeOK
  BY DEF BookInv
<1> SUFFICES ASSUME NEW j \in Jobs, rec'[j].stage \in Started PROVE Settled'
  BY DEF StartsSettled
<1> SUFFICES Settled
  BY SettledKept
<1>1. EntersAs(j)
  BY EntersStep
<1>2. CASE rec[j].stage \in Started
  BY <1>2 DEF StartsSettled
<1>3. CASE rec[j].stage = "Waiting" /\ rec[j].pending = 0 /\ ~Barred(rec[j])
  <2>1. ASSUME NEW s \in Prereqs
        PROVE  signal[s] # "Pending" /\ (options.successOnly => signal[s] # "Failed")
    <3>1. Known(j, s)
      BY <1>3, <2>1, HeardAll
    <3> QED
      BY <1>3, <3>1 DEF Known, Barred
  <2> QED
    BY <1>0, <2>1, Outcome DEF Settled
<1>4. ASSUME NEW t \in Threads, ReachedIn(t, j), ~Barred(rec'[j]) PROVE Settled
  <2>1. ASSUME NEW s \in Prereqs
        PROVE  signal[s] # "Pending" /\ (options.successOnly => signal[s] # "Failed")
    <3>1. ToldOf(t) /\ rec'[j].failed = (rec[j].failed \/ act[t].status = "Failed")
      BY <1>4, <2>1, HeardIn
    <3>2. signal[s] # "Pending" /\ act[t].status = signal[s]
      BY <3>1 DEF ToldOf
    <3> QED
      BY <1>4, <3>1, <3>2 DEF Barred
  <2> QED
    BY <1>0, <2>1, Outcome DEF Settled
<1> QED
  BY <1>1, <1>2, <1>3, <1>4 DEF EntersAs

StartInv == StartsSettled /\ Heard /\ Told

\* Nobody has started, waits or is told anything yet.
LEMMA StartInit ==
  ASSUME Init
  PROVE  StartInv
<1>1. (\A j \in Jobs : rec[j] = NoRecord) /\ (\A t \in Threads : act[t] = Idle)
  BY DEF Init
<1>2. NoRecord.stage = "Out" /\ Idle.step = "idle"
  BY DEF NoRecord, Idle
<1> QED
  BY <1>1, <1>2 DEF StartInv, StartsSettled, Heard, Told, Started, Reaches

\* StartsSettled: a member of a batch (scheduler/bulk.rs) is made ready, deferred
\* or run only when every prerequisite is over, and under the policy that asks
\* for success only when each has succeeded, whichever of publication, a shared
\* registration (prerequisite_range.rs) or single deliveries
\* (activate_prerequisite) brought the news, and in whatever order.
THEOREM BatchStartsSettled == Spec => []StartsSettled
<1>1. Init => StartInv
  BY StartInit
<1>2. BookInv /\ RangeInv /\ Busy /\ ForgetInv /\ StartInv /\ [Next]_vars => StartInv'
  <2> SUFFICES ASSUME BookInv, RangeInv, Busy, ForgetInv, StartInv, [Next]_vars PROVE StartInv'
    OBVIOUS
  <2>1. SharedOne /\ Signalled /\ Once /\ Awaited
    BY DEF ForgetInv
  <2>2. StartsSettled /\ Heard /\ Told
    BY DEF StartInv
  <2>3. Told'
    BY <2>1, <2>2, ToldStep
  <2>4. Heard'
    BY <2>1, <2>2, HeardStep
  <2>5. StartsSettled'
    BY <2>1, <2>2, StartsStep
  <2> QED
    BY <2>3, <2>4, <2>5 DEF StartInv
<1>3. StartInv => StartsSettled
  BY DEF StartInv
<1> QED
  BY <1>1, <1>2, <1>3, BooksKept, RangesKept, DeliveriesKept, PTL DEF Spec

=============================================================================
