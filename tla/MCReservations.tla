--------------------------- MODULE MCReservations ---------------------------
(* Limits of a unit or two per dimension for the run of Reservations. *)
EXTENDS Reservations, TLC
CONSTANTS a, b, c, l, m

TwoAndOne == [meta |-> 2, bytes |-> 1]
SomeCosts == {[meta |-> 1, bytes |-> 1], [meta |-> 0, bytes |-> 1]}

\* Handles and leases carry no identity.
Symmetry == Permutations(Handles) \cup Permutations(Leases)
=============================================================================
