------------------------- MODULE MCAttemptLifecycle -------------------------
(* Small instances of AttemptLifecycle for TLC. *)
EXTENDS AttemptLifecycle

\* What the Worker does not bring about: retries an operator granted, and dirt.
Disturbances == decisions + (IF tree.dirty THEN 1 ELSE 0)

\* A bound: two commits, or one and one disturbance, or two disturbances at a time.
TwoChanges == tree.head + Disturbances =< 2

\* A bound: one disturbance at a time, and only in the first review round.
DisturbedInFirstRound == Disturbances =< (IF job.round = 0 THEN 1 ELSE 0)
=============================================================================
