----------------------------- MODULE GroupWait -----------------------------
(***************************************************************************)
(* SWGroup::wait_helping (src/execution/group.rs): threads outside the     *)
(* group's jobs help its caller-eligible members and otherwise park on the *)
(* group's condition variable, trusting a generation counter never to miss *)
(* work or the end of the group.  The counter, the list of ready members   *)
(* and the completion signal live under three different mutexes.           *)
(*                                                                         *)
(* The scheduler around the group (OwnedScheduler) is reduced to what it   *)
(* does to a member: count it, make it ready, take it back behind the      *)
(* window, claim it, settle it.  (Init, Next and the like carry the        *)
(* group's name here, so that WakeupProofs can be about both waits.)       *)
(***************************************************************************)
EXTENDS Integers, FiniteSets

CONSTANTS
  Jobs,      \* jobs that may become members
  Eligible,  \* members a caller may execute
  Waiters,   \* threads that call wait_helping
  None       \* no job

ASSUME GroupAssumption ==
  Eligible \subseteq Jobs /\ IsFiniteSet(Jobs) /\ None \notin Jobs

VARIABLES
  sealed,      \* GroupState::sealed
  pending,     \* GroupState::pending
  publishing,  \* GroupState::publishing
  complete,    \* the group's signal has a status
  announced,   \* the publication's own notify_ready is done
  member,      \* where a job stands
  demoted,     \* jobs taken back behind the window, at most once each
  owed,        \* jobs made ready whose notify_ready is still to come
  cut,         \* the runtime is abandoned: no claim gets through
  waiting,     \* where a thread stands in wait_helping
  fresh,       \* threads whose sampled generation is still the group's
  helping      \* the job it executes

allVars == <<sealed, pending, publishing, complete, announced, member, demoted, owed,
             cut, waiting, fresh, helping>>

groupVars == <<sealed, pending, publishing>>
signalVars == <<complete, announced>>
jobVars == <<member, demoted, owed>>
waitVars == <<waiting, fresh, helping>>

-----------------------------------------------------------------------------
(* Vocabulary *)

\* Members::ready, the list help_group takes its candidates from.
Ready == {j \in Eligible : member[j] = "ready"}

\* A thread inside wait_change holds the group's mutex until it parks.
Unlocked == \A w \in Waiters : waiting[w] # "parking"

\* notify_all: every parked thread returns from the condition variable.
Woken == [w \in Waiters |-> IF waiting[w] = "parked" THEN "check" ELSE waiting[w]]

\* Fault: the change is not counted.
ChangedUncounted ==
  /\ Unlocked
  /\ waiting' = Woken
  /\ UNCHANGED <<fresh, helping>>

\* The tail of every section of the group that changes it.  The generation is
\* only ever compared for equality and never returns to an earlier value, so
\* what counts is which samples are still the current one.
Changed ==
  /\ Unlocked
  /\ fresh' = {}
  /\ waiting' = Woken
  /\ UNCHANGED helping

GroupTypeOK ==
  /\ pending \in Int
  /\ sealed \in BOOLEAN /\ publishing \in BOOLEAN
  /\ complete \in BOOLEAN /\ announced \in BOOLEAN /\ cut \in BOOLEAN
  /\ member \in [Jobs -> {"absent", "waiting", "ready", "running", "ending", "left"}]
  /\ demoted \subseteq Jobs /\ owed \subseteq Jobs
  /\ waiting \in [Waiters -> {"idle", "check", "generation", "help", "helping",
                             "park", "parking", "parked", "returned"}]
  /\ fresh \subseteq Waiters
  /\ helping \in [Waiters -> Jobs \cup {None}]

GroupInit ==
  /\ pending = 0 /\ sealed = FALSE /\ publishing = FALSE
  /\ complete = FALSE /\ announced = FALSE /\ cut = FALSE
  /\ member = [j \in Jobs |-> "absent"] /\ demoted = {} /\ owed = {}
  /\ waiting = [w \in Waiters |-> "idle"] /\ fresh = {}
  /\ helping = [w \in Waiters |-> None]

-----------------------------------------------------------------------------
(* Members *)

Become(j, from, to) ==
  member[j] \in from /\ member' = [member EXCEPT ![j] = to]

\* GroupInner::add.
Add(j) ==
  /\ ~sealed /\ ~cut
  /\ Become(j, {"absent"}, "waiting")
  /\ pending' = pending + 1
  /\ Changed
  /\ UNCHANGED <<sealed, publishing, signalVars, demoted, owed, cut>>

\* activate_ready or promote_locked links the member under the class lock; the
\* notification follows after the unlock.
Activate(j) ==
  /\ Become(j, {"waiting"}, "ready")
  /\ owed' = owed \cup {j}
  /\ UNCHANGED <<groupVars, signalVars, demoted, cut, waitVars>>

NotifyReady(j) ==
  /\ j \in owed
  /\ owed' = owed \ {j}
  /\ Changed
  /\ UNCHANGED <<sealed, pending, publishing, signalVars, member, demoted, cut>>

\* promote_locked returns the unhanded window behind the deferred jobs; nobody
\* is told.
Demote(j) ==
  /\ j \notin demoted
  /\ Become(j, {"ready"}, "waiting")
  /\ demoted' = demoted \cup {j}
  /\ UNCHANGED <<groupVars, signalVars, owed, cut, waitVars>>

\* A worker's claim.
WorkerClaim(j) ==
  /\ ~cut
  /\ Become(j, {"ready"}, "running")
  /\ UNCHANGED <<groupVars, signalVars, demoted, owed, cut, waitVars>>

\* A cancellation, or the sweep of an abandoned runtime.
Suppress(j) ==
  /\ Become(j, {"waiting", "ready"}, "ending")
  /\ UNCHANGED <<groupVars, signalVars, demoted, owed, cut, waitVars>>

BodyEnds(j) ==
  /\ Become(j, {"running"}, "ending")
  /\ UNCHANGED <<groupVars, signalVars, demoted, owed, cut, waitVars>>

\* Fault: members are not waited for.
TerminalBySeal(closed, n) == closed /\ ~publishing

\* GroupInner::terminal, on the counts the section leaves behind.
Terminal(closed, n) == closed /\ n = 0 /\ ~publishing

\* GroupInner::finish.
Finish(j) ==
  /\ Become(j, {"ending"}, "left")
  /\ pending' = pending - 1
  /\ publishing' = (publishing \/ Terminal(sealed, pending - 1))
  /\ Changed
  /\ UNCHANGED <<sealed, signalVars, demoted, owed, cut>>

\* SWGroup::seal.
Seal ==
  /\ ~sealed
  /\ sealed' = TRUE
  /\ publishing' = (publishing \/ Terminal(TRUE, pending))
  /\ Changed
  /\ UNCHANGED <<pending, signalVars, jobVars, cut>>

\* publish_notifying: the status under the signal's lock, which a parking
\* thread does not hold; then notify_ready.
PublishStatus ==
  /\ publishing /\ ~complete
  /\ complete' = TRUE
  /\ UNCHANGED <<groupVars, announced, jobVars, cut, waitVars>>

PublishNotify ==
  /\ complete /\ ~announced
  /\ announced' = TRUE
  /\ Changed
  /\ UNCHANGED <<sealed, pending, publishing, complete, jobVars, cut>>

Abandon ==
  /\ ~cut
  /\ cut' = TRUE
  /\ UNCHANGED <<groupVars, signalVars, jobVars, waitVars>>

-----------------------------------------------------------------------------
(* wait_helping *)

Move(w, from, to) == waiting[w] = from /\ waiting' = [waiting EXCEPT ![w] = to]

Call(w) ==
  /\ Move(w, "idle", "check")
  /\ UNCHANGED <<groupVars, signalVars, jobVars, cut, fresh, helping>>

\* The head of the loop returns when the group is complete.
CheckComplete(w) ==
  /\ Move(w, "check", IF complete THEN "returned" ELSE "generation")
  /\ UNCHANGED <<groupVars, signalVars, jobVars, cut, fresh, helping>>

ReadGeneration(w) ==
  /\ Unlocked
  /\ Move(w, "generation", "help")
  /\ fresh' = fresh \cup {w}
  /\ UNCHANGED <<groupVars, signalVars, jobVars, cut, helping>>

\* help_ready wins the claim of a ready member.
Help(w, j) ==
  /\ ~cut /\ j \in Ready
  /\ Move(w, "help", "helping")
  /\ Become(j, {"ready"}, "running")
  /\ helping' = [helping EXCEPT ![w] = j]
  /\ fresh' = fresh \ {w}
  /\ UNCHANGED <<groupVars, signalVars, demoted, owed, cut>>

\* help_ready finds nothing, or cannot claim in an abandoned runtime.
MissHelp(w) ==
  /\ cut \/ Ready = {}
  /\ Move(w, "help", "park")
  /\ UNCHANGED <<groupVars, signalVars, jobVars, cut, fresh, helping>>

\* The claim returns once the job has left the group.
ReturnFromHelp(w) ==
  /\ waiting[w] = "helping" /\ member[helping[w]] = "left"
  /\ Move(w, "helping", "check")
  /\ helping' = [helping EXCEPT ![w] = None]
  /\ UNCHANGED <<groupVars, signalVars, jobVars, cut, fresh>>

\* Fault: the generation is not compared.
WaitBlindly(w) ==
  /\ Unlocked
  /\ Move(w, "park", IF complete THEN "check" ELSE "parking")
  /\ UNCHANGED <<groupVars, signalVars, jobVars, cut, fresh, helping>>

\* wait_change compares under the group's mutex and keeps it.
WaitChange(w) ==
  /\ Unlocked
  /\ Move(w, "park",
          IF w \in fresh /\ ~complete THEN "parking" ELSE "check")
  /\ fresh' = fresh \ {w}
  /\ UNCHANGED <<groupVars, signalVars, jobVars, cut, helping>>

\* Condvar::wait releases it.
ParkWaiter(w) ==
  /\ Move(w, "parking", "parked")
  /\ UNCHANGED <<groupVars, signalVars, jobVars, cut, fresh, helping>>

\* A condition variable may wake for no reason.
WakeSpuriously(w) ==
  /\ Move(w, "parked", "check")
  /\ UNCHANGED <<groupVars, signalVars, jobVars, cut, fresh, helping>>

-----------------------------------------------------------------------------
\* What the program, idle workers or the operating system may do.
GroupEnvironment ==
  \/ \E j \in Jobs : Add(j) \/ Demote(j) \/ (~cut /\ Suppress(j))
  \/ \E j \in Eligible : WorkerClaim(j)
  \/ Seal \/ Abandon
  \/ \E w \in Waiters : Call(w) \/ WakeSpuriously(w)

\* What somebody goes on to do: only workers execute worker-only members, and
\* no worker need ever be free for the others.
MemberStep ==
  \/ \E j \in Jobs : \/ Activate(j) \/ NotifyReady(j) \/ BodyEnds(j) \/ Finish(j)
                     \/ cut /\ Suppress(j)
  \/ \E j \in Jobs \ Eligible : WorkerClaim(j)
  \/ PublishStatus \/ PublishNotify

WaitStep(w) ==
  \/ CheckComplete(w) \/ ReadGeneration(w) \/ (\E j \in Eligible : Help(w, j))
  \/ MissHelp(w) \/ ReturnFromHelp(w) \/ WaitChange(w) \/ ParkWaiter(w)

GroupNext == GroupEnvironment \/ MemberStep \/ \E w \in Waiters : WaitStep(w)

GroupSpec == GroupInit /\ [][GroupNext]_allVars

\* A waiter's step is only ever held up by the mutex of another one's parking,
\* which ends by itself.  Whoever owes the group a step may find the mutex taken
\* again and again, but not every time.
GroupFairSpec == GroupSpec /\ SF_allVars(MemberStep) /\ \A w \in Waiters : WF_allVars(WaitStep(w))

-----------------------------------------------------------------------------
(* Properties *)

\* No wakeup is lost: while a thread is parked, or past the comparison that
\* lets it park, a complete group or a member it could execute always has the
\* notification for it still to come (wait_helping, wait_change).
NoLostWakeup ==
  \A w \in Waiters : waiting[w] \in {"parking", "parked"} =>
    /\ complete => ~announced
    /\ ~cut => Ready \subseteq owed

\* The group completes with its pending count, which is exactly its members
\* that have not left; so nothing of it is running or to be run.
CompleteIsSettled ==
  /\ pending = Cardinality({j \in Jobs : member[j] \notin {"absent", "left"}})
  /\ complete => sealed /\ \A j \in Jobs : member[j] \in {"absent", "left"}

\* Completion is final: a completed group accepts nobody and stays complete.
CompletionIsFinal == [][complete => complete' /\ member' = member]_allVars

\* Every thread that waits on a sealed group returns, whether or not a worker
\* is ever free for the members it may execute itself.
WaitersReturn ==
  \A w \in Waiters : (sealed /\ waiting[w] # "idle") ~> (waiting[w] = "returned")
=============================================================================
