------------------------- MODULE MCMissionPlanning -------------------------
EXTENDS MissionPlanning

Three == 1..3
Four  == 1..4
Five  == 1..5

=============================================================================
