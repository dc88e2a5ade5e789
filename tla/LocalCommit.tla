---------------------------- MODULE LocalCommit ----------------------------
(***************************************************************************)
(* What Project Autopilot promises about the change it leaves in a         *)
(* repository.  A tree is accepted when the verifier passed it and sealed  *)
(* it, and cleared when whoever has the authority to commit said so.  The  *)
(* controller moves the branch to the tree that is accepted and cleared,   *)
(* back to the base, or back to what the commit attempt found there, and   *)
(* to nothing else, whatever others do.  It certifies the tree that is     *)
(* accepted and cleared; only where somebody else interfered it may be     *)
(* what the attempt found.  The certificate is withdrawn by a rollback and *)
(* never exchanged.                                                        *)
(***************************************************************************)
EXTENDS Naturals

CONSTANTS Tree, Base, Elsewhere, None

VARIABLES
  accepted,   \* the tree that was passed and sealed last
  cleared,    \* the accepted tree, once the authority let it through
  branch,     \* what the branch of the mission carries
  found,      \* what the last attempt to publish it found there, if the base had been left
  certified,  \* the tree that the mission reports as its result
  disturbed   \* how often somebody else interfered

Init ==
  /\ accepted = None /\ cleared = None /\ found = None /\ certified = None
  /\ branch = Base
  /\ disturbed = 0

\* A tree that replaces an accepted one has to be cleared again.
Accept(t) ==
  /\ certified = None
  /\ accepted' = t /\ cleared' = None /\ found' = None
  /\ UNCHANGED <<branch, certified, disturbed>>

Clear ==
  /\ accepted # None
  /\ cleared' = accepted
  /\ UNCHANGED <<accepted, branch, found, certified, disturbed>>

\* A commit attempt starts where the branch is.
Find ==
  /\ certified = None /\ accepted # None /\ cleared = accepted
  /\ found' \in {None, branch}
  /\ UNCHANGED <<accepted, cleared, branch, certified, disturbed>>

Publish ==
  /\ accepted # None /\ cleared = accepted /\ found = None
  /\ branch' = accepted
  /\ UNCHANGED <<accepted, cleared, found, certified, disturbed>>

\* An adopted commit stays, also when the branch moves in the meantime.
Reinstate ==
  /\ accepted # None /\ cleared = accepted /\ found # None
  /\ branch' = found
  /\ UNCHANGED <<accepted, cleared, found, certified, disturbed>>

Certify ==
  /\ certified = None /\ accepted # None /\ cleared = accepted
  /\ \/ certified' = accepted
     \/ disturbed > 0 /\ found # None /\ certified' = found
  /\ UNCHANGED <<accepted, cleared, branch, found, disturbed>>

Restore == branch' = Base /\ UNCHANGED <<accepted, cleared, found, certified, disturbed>>

Withdraw == certified' = None /\ UNCHANGED <<accepted, cleared, branch, found, disturbed>>

\* Somebody else; no step of the controller counts as one of theirs.
Interfere ==
  /\ disturbed' = disturbed + 1
  /\ branch' \in Tree \union {Base, Elsewhere}
  /\ UNCHANGED <<accepted, cleared, found, certified>>

vars == <<accepted, cleared, branch, found, certified, disturbed>>

Next ==
  \/ \E t \in Tree : Accept(t)
  \/ Clear \/ Find \/ Publish \/ Reinstate \/ Certify \/ Restore \/ Withdraw \/ Interfere

Spec == Init /\ [][Next]_vars

=============================================================================
