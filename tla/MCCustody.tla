----------------------------- MODULE MCCustody -----------------------------
(* Custody for TLC: three Controller processes, one of which may leave a dead *)
(* lease that the two others find, and one operator command.                 *)
EXTENDS Custody, TLC

CONSTANTS c1, c2, c3, o1

\* Controllers are interchangeable: no definition tells one from another.
Interchangeable == Permutations(Controller)
=============================================================================
