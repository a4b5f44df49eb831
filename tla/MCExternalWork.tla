--------------------------- MODULE MCExternalWork ---------------------------
(* Model values for the run of ExternalWork: a root producer, an access       *)
(* through a permit forked in its set, and an access without one.           *)
EXTENDS ExternalWork, TLC
CONSTANTS p, x, y, d, e, v
Origins == p :> TheSet @@ x :> e @@ y :> Nothing @@ d :> TheSet @@ e :> d
=============================================================================
