---------------------------- MODULE MCHostWakeup ----------------------------
(* One thread that makes progress and one that completes a task. *)
EXTENDS HostWakeup
CONSTANTS p, q

OneEach == [x \in Publishers |-> IF x = p THEN "progress" ELSE "completion"]
=============================================================================
