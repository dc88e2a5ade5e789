--------------------------- MODULE MCEvidenceLog ---------------------------
EXTENDS EvidenceLog, TLC

CONSTANTS short, long, u, v

\* The long content takes the whole budget, the short one half of it.
Bytes == (short :> 1) @@ (long :> 2)

Symmetry == Permutations(Writer)

=============================================================================
