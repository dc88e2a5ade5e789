-------------------------- MODULE MCMissionGateway --------------------------
EXTENDS MissionGateway, TLC

CONSTANTS w1, w2, i1, r1, r2

\* Gateways and calls only differ in their names.
Symmetry == Permutations({w1, w2}) \union Permutations({r1, r2})

=============================================================================
