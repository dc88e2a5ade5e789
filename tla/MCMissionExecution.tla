------------------------- MODULE MCMissionExecution -------------------------
EXTENDS MissionInvariant, TLC

CONSTANTS e1, e2

\* e2 depends on e1, e1 on the start latch.
Chain == e1 :> {} @@ e2 :> {e1}
Single == e1 :> {}

=============================================================================
