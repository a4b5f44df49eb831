----------------------------- MODULE MCDemand -----------------------------
(* Model values for the run of Demand: a provider whose node a job needs, a  *)
(* job with a bound consumer, and two resource jobs besides an ordinary one. *)
EXTENDS Demand
CONSTANTS a, b, c
Ranked == <<NoRank, 2, NoRank, 2, 1, NoRank>>
Chain == <<{}, {1}, {}, {}, {}, {}>>
Targets == [x \in Consumers |-> CASE x = a -> 2 [] x = b -> 4 [] x = c -> 4]
Asked == [x \in Consumers |-> 1]
Scenarios == {{1, 2, a}, {4, b}, {3, 4, 5, c}, {4, 6, c}}
=============================================================================
