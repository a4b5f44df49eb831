--------------------------- MODULE MCBatchPortion ---------------------------
(* A batch of N operations with any prerequisites among Signals, which no  *)
(* definition tells apart.                                                 *)
EXTENDS BatchPortion
CONSTANTS s, t

Symmetry == Permutations(Signals)
=============================================================================
