-------------------------- MODULE MCOwnerDelivery --------------------------
(* Model values for the run of OwnerDelivery.                                *)
EXTENDS OwnerDelivery
CONSTANTS a, b
AllKinds == [r \in Deliveries |->
  IF r = a THEN {"post", "send"} ELSE {"prepared", "on_ready"}]
PhasesOf == [r \in Deliveries |-> IF r = a THEN 1 ELSE 2]
=============================================================================
