------------------------- MODULE SchedulerRefinement -------------------------
(***************************************************************************)
(* The scheduler implements the contract of its jobs.                      *)
(***************************************************************************)
EXTENDS OwnedScheduler

\* A record's stage and the progress of its settlement, as a job's life.
LifeOf(j) ==
  CASE stage[j] = "absent" -> "absent"
    [] stage[j] \in {"Waiting", "DeferredReady", "Ready", "Handed"} -> "accepted"
    [] stage[j] = "Running" -> "running"
    [] stage[j] \in {"Finalizing", "gone"} ->
         IF exec[j] \in {"groupPublish", "done"} THEN "retired"
         ELSE IF status[j] = None THEN "ended" ELSE "published"

Contract == INSTANCE JobContract WITH
  life <- [j \in Jobs |-> LifeOf(j)],
  fate <- outcome,
  result <- status,
  sealed <- {h \in Groups : group[h].sealed},
  cut <- abandoned

\* Every behaviour of the scheduler is one the contract allows: suppression
\* tells the right reason, nothing starts on an unsettled prerequisite or after
\* the cut, and a group speaks only for members that have retired.
ImplementsContract == Contract!Spec
=============================================================================
