----------------------------- MODULE MCDrivers -----------------------------
(* A small instance of every driver. *)
EXTENDS Drivers

MCPowers == {-3, -2, 13, 14, 17, 18, 21}
MCInterval == [g \in Generators |-> IF g = "slow" THEN 3 ELSE 2]

=============================================================================
