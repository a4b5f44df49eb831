----------------------------- MODULE MCShutdown -----------------------------
(* Small job trees for the runs of RuntimeShutdown. *)
EXTENDS RuntimeShutdown
CONSTANTS a, b, h, Low, High

\* a is a root, b is submitted by a from the other class.
ChildOfFirst == [j \in Jobs |-> IF j = b THEN a ELSE Host]
SecondHigh == [j \in Jobs |-> IF j = b THEN High ELSE Low]
=============================================================================
