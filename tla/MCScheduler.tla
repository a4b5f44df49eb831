---------------------------- MODULE MCScheduler ----------------------------
(***************************************************************************)
(* The topologies of two or three jobs the runs of OwnedScheduler choose   *)
(* from.                                                                   *)
(***************************************************************************)
EXTENDS SchedulerRefinement
CONSTANTS j1, j2, j3, g1, g2, Low, High

ThirdAfterSecondAndGroup == [j \in Jobs |-> IF j = j3 THEN {j2, g1} ELSE {}]
ThirdAfterEmptyGroup == [j \in Jobs |-> IF j = j3 THEN {g2} ELSE {}]
SecondAfterGroup == [j \in Jobs |-> IF j = j2 THEN {g1} ELSE {}]

AllRoots == [j \in Jobs |-> Host]
SecondInFirst == [j \in Jobs |-> IF j = j2 THEN j1 ELSE Host]

FirstGrouped == [j \in Jobs |-> IF j = j1 THEN g1 ELSE None]
SecondGrouped == [j \in Jobs |-> IF j = j2 THEN g1 ELSE None]
FirstTwoGrouped == [j \in Jobs |-> IF j = j3 THEN None ELSE g1]

AllLow == [j \in Jobs |-> Low]
FirstLow == [j \in Jobs |-> IF j = j1 THEN Low ELSE High]

One == [k \in Classes |-> 1]
=============================================================================
