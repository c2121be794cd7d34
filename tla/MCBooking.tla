------------------------------ MODULE MCBooking ------------------------------
(* Booking on small instances: a flat fee on cheap fills, one more on dear *)
(* ones, so that no two fills of an instance cost the same in total.       *)
EXTENDS Booking

MCFeeOf == [g \in Fills |-> IF g > 3 THEN 2 ELSE 1]
==============================================================================
