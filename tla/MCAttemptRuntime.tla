-------------------------- MODULE MCAttemptRuntime --------------------------
(* Runner processes are interchangeable.                                    *)
EXTENDS AttemptRuntime, TLC

Symmetry == Permutations(Runner)
=============================================================================
