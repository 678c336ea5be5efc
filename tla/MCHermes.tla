------------------------------- MODULE MCHermes -------------------------------
(* Hermes for TLC: its bounds are given values by the configuration.          *)
EXTENDS Hermes
=============================================================================
