------------------------ MODULE MCMissionRepository ------------------------
EXTENDS MissionRepository

CONSTANTS x, y

MCEdit      == {x, y}
MCUntracked == {y}
MCAuthority == Authorities

=============================================================================
