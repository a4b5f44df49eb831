------------------------- MODULE MCRuntimeStartup -------------------------
(* Two pools, one with two workers, and a small job tree.                    *)
EXTENDS RuntimeStartup
CONSTANTS a, b, h, Low, High

\* a is a root, b is submitted by a from the other class.
ChildOfFirst == [j \in Jobs |-> IF j = b THEN a ELSE Host]
SecondHigh == [j \in Jobs |-> IF j = b THEN High ELSE Low]
Pools == [w \in Workers |-> IF w = 3 THEN 2 ELSE 1]
=============================================================================
