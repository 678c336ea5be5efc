------------------------ MODULE MCFleetSupervisor ------------------------
EXTENDS FleetSupervisor, TLC

\* The Supervisors are alike, and so are the Controllers.
Symmetry == Permutations(Controller) \union Permutations(Supervisor)

=============================================================================
