----------------------------- MODULE MCDelivery -----------------------------
(* Delivery for TLC: its bounds are given values by the configurations.      *)
EXTENDS Delivery
=============================================================================
