---------------------------- MODULE MCGroupWait ----------------------------
(* Model values for the runs of GroupWait. *)
EXTENDS GroupWait
CONSTANTS a, b, c, u, v
=============================================================================
