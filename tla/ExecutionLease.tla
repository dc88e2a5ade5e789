--------------------------- MODULE ExecutionLease ---------------------------
(***************************************************************************)
(* What the mission controller promises about mutation, without saying how *)
(* locks, ticks, commands or recovery achieve it.  A lease is one attempt  *)
(* at one card.  Leases are granted fresh while the mission is open, a     *)
(* mission closes by dropping all of them at once, an attempt is journaled *)
(* before it acts and its journal entry outlives its lease, and the        *)
(* mission opens only when nothing is held and nothing is unresolved.      *)
(***************************************************************************)
EXTENDS Integers

CONSTANTS
  Task,     \* the executor cards
  Attempt   \* the attempts of a card, numbered

VARIABLES
  open,       \* the mission grants and honours leases
  held,       \* the leases honoured now
  spent,      \* the leases granted so far
  unresolved  \* the attempts whose journal entry is open

leaseVars == <<open, held, spent, unresolved>>

Lease == Task \X Attempt

Of(task, leases) == {l \in leases : l[1] = task}

LeaseInit == open = FALSE /\ held = {} /\ spent = {} /\ unresolved = {}

Open ==
  /\ ~open /\ held = {} /\ unresolved = {}
  /\ open' = TRUE
  /\ UNCHANGED <<held, spent, unresolved>>

Close ==
  /\ open
  /\ open' = FALSE /\ held' = {}
  /\ UNCHANGED <<spent, unresolved>>

Grant(l) ==
  /\ open /\ l \notin spent
  /\ Of(l[1], held) = {} /\ Of(l[1], unresolved) = {}
  /\ held' = held \union {l} /\ spent' = spent \union {l}
  /\ UNCHANGED <<open, unresolved>>

Journal(l) ==
  /\ l \in spent /\ Of(l[1], unresolved) \subseteq {l}
  /\ unresolved' = unresolved \union {l}
  /\ UNCHANGED <<open, held, spent>>

\* Leases end and entries are resolved, an entry never before its lease.
Release ==
  /\ held' \subseteq held
  /\ unresolved' \subseteq unresolved
  /\ (unresolved \ unresolved') \intersect held' = {}
  /\ UNCHANGED <<open, spent>>

LeaseNext == Open \/ Close \/ Release \/ \E l \in Lease : Grant(l) \/ Journal(l)

LeaseSpec == LeaseInit /\ [][LeaseNext]_leaseVars

=============================================================================
