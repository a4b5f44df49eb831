----------------------------- MODULE JobContract -----------------------------
(***************************************************************************)
(* What the scheduler promises about owned jobs, without queues, locks or  *)
(* limits: the life of a job from acceptance to retirement, the status its *)
(* signal shows, and when a group's signal may show one.                   *)
(***************************************************************************)
EXTENDS FiniteSets

CONSTANTS Jobs, Groups, None, GroupOf, Prereqs, SuccessOnly, Outcomes

VARIABLES
  life,    \* absent, accepted, running, ended, published or retired
  fate,    \* the outcome a job ended with
  result,  \* the status shown by the signal of a job or a group
  sealed,  \* groups closed to new members
  cut      \* the runtime is abandoned: nothing is accepted or started

vars == <<life, fate, result, sealed, cut>>

Signals == Jobs \cup Groups

Init ==
  /\ life = [j \in Jobs |-> "absent"]
  /\ fate = [j \in Jobs |-> None]
  /\ result = [s \in Signals |-> None]
  /\ sealed = {}
  /\ cut = FALSE

Become(j, from, to) == life[j] = from /\ life' = [life EXCEPT ![j] = to]

\* The scheduler takes responsibility for the job.
Accept(j) ==
  /\ ~cut /\ GroupOf[j] \notin sealed
  /\ Become(j, "absent", "accepted")
  /\ UNCHANGED <<fate, result, sealed, cut>>

\* The body starts, on settled prerequisites its policy accepts.
Start(j) ==
  /\ ~cut
  /\ \A s \in Prereqs[j] : result[s] # None
  /\ j \in SuccessOnly => \A s \in Prereqs[j] : result[s] = "Succeeded"
  /\ Become(j, "accepted", "running")
  /\ UNCHANGED <<fate, result, sealed, cut>>

End(j, o) ==
  /\ Become(j, "running", "ended")
  /\ fate' = [fate EXCEPT ![j] = o]
  /\ UNCHANGED <<result, sealed, cut>>

\* An unstarted job ends without running, for the reason the world shows.
Suppress(j, o) ==
  /\ o = "Abandoned" <=> cut
  /\ o = "PrerequisiteFailed" =>
       /\ j \in SuccessOnly
       /\ \E s \in Prereqs[j] : result[s] \notin {None, "Succeeded"}
  /\ Become(j, "accepted", "ended")
  /\ fate' = [fate EXCEPT ![j] = o]
  /\ UNCHANGED <<result, sealed, cut>>

Publish(j) ==
  /\ Become(j, "ended", "published")
  /\ result' = [result EXCEPT ![j] = fate[j]]
  /\ UNCHANGED <<fate, sealed, cut>>

\* The job has returned everything it held.
Retire(j) ==
  /\ Become(j, "published", "retired")
  /\ UNCHANGED <<fate, result, sealed, cut>>

Seal(g) ==
  /\ sealed' = sealed \cup {g}
  /\ UNCHANGED <<life, fate, result, cut>>

\* The group's signal speaks for every member it ever accepted.
Complete(g) ==
  LET members == {j \in Jobs : GroupOf[j] = g /\ life[j] # "absent"}
  IN  /\ g \in sealed /\ result[g] = None
      /\ \A j \in members : life[j] = "retired"
      /\ result' = [result EXCEPT ![g] =
           IF \A j \in members : result[j] = "Succeeded"
           THEN "Succeeded" ELSE "PrerequisiteFailed"]
      /\ UNCHANGED <<life, fate, sealed, cut>>

Cut ==
  /\ cut' = TRUE
  /\ UNCHANGED <<life, fate, result, sealed>>

Next ==
  \/ \E j \in Jobs : \/ Accept(j) \/ Start(j) \/ Publish(j) \/ Retire(j)
                     \/ \E o \in Outcomes : End(j, o)
                     \/ \E o \in {"Cancelled", "PrerequisiteFailed", "Abandoned"} :
                          Suppress(j, o)
  \/ \E g \in Groups : Seal(g) \/ Complete(g)
  \/ Cut

Spec == Init /\ [][Next]_vars
=============================================================================
