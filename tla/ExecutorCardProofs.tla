------------------------- MODULE ExecutorCardProofs -------------------------
(***************************************************************************)
(* Lemmas about the transactions on one card: each maps cards to cards,    *)
(* keeps the card's run consistent with its status, and does not undo a    *)
(* finished or a quiet card.                                               *)
(***************************************************************************)
EXTENDS ExecutorCard, TLAPS

\* A card points at a run exactly while it is running under a claim.
Consistent(t) ==
  /\ t.status = "running" <=> t.run # NoRun
  /\ t.status = "running" <=> t.claimed

\* A transaction that grants nothing: it leaves the card consistent, hands out no
\* run, gives a card that does not run none, resolves no less than before and keeps
\* a done card.
Safe(t, u) ==
  /\ u \in Card
  /\ Consistent(t) => Consistent(u)
  /\ u.status = "running" => u = t
  /\ u.open \subseteq t.open
  /\ t.status = "done" => u.status = "done"
  /\ u.pid \in {t.pid, NoRun}
  /\ u.runs = t.runs

\* The values the transactions write are inside the ranges of their columns.
LEMMA Ranges ==
  /\ 0 \in 0 .. MaxRun /\ NoRun \in Run \union {NoRun} /\ NoRun \notin Run
  /\ 0 \in 0 .. FailureLimit
  /\ 0 \in 0 .. BlockLimit /\ BlockLimit \in 0 .. BlockLimit
  /\ {"todo", "ready", "running", "blocked", "triage", "done"} \subseteq CardStatus
  /\ {"none", "dependency", "needs_input"} \subseteq BlockKind
BY CardAssumption DEF CardStatus, BlockKind, Run, NoRun

\* A saturating counter stays inside its range.
LEMMA SaturateType ==
  ASSUME NEW limit \in Nat, NEW n \in 0 .. limit
  PROVE  Saturate(n + 1, limit) \in 0 .. limit
BY DEF Saturate

\* The record that every card starts as is a consistent card.
LEMMA NewCardType == NewCard \in Card /\ Consistent(NewCard)
BY Ranges DEF NewCard, Card, Consistent

\* claim_task hands out a fresh run.
LEMMA ClaimedType ==
  ASSUME NEW t \in Card, t.runs < MaxRun
  PROVE  /\ Claimed(t) \in Card
         /\ Consistent(Claimed(t))
         /\ Claimed(t).run = t.runs + 1 /\ Claimed(t).run \in Run
         /\ Claimed(t).open = t.open
<1>1. t.runs + 1 \in Run /\ t.runs + 1 \in 0 .. MaxRun
  BY CardAssumption DEF Card, Run
<1>2. Claimed(t) \in Card
  BY <1>1, Ranges DEF Claimed, Card
<1> QED
  BY <1>1, <1>2, Ranges DEF Claimed, Card, Consistent

\* Ending the run of a card and resolving its intent keep it a card.
LEMMA ReleasedType ==
  ASSUME NEW t \in Card
  PROVE  Released(t) \in Card /\ IntentClosed(t) \in Card
BY Ranges DEF Released, IntentClosed, Card

\* complete_task ends the run and resolves its intent.
LEMMA CompletedSafe == ASSUME NEW t \in Card PROVE Safe(t, Completed(t))
<1>1. Released(IntentClosed(t)) \in Card
  BY ReleasedType
<1>2. Completed(t) \in Card
  BY <1>1, Ranges DEF Completed, Card
<1> QED
  BY <1>2, Ranges DEF Safe, Completed, Released, IntentClosed, Card, Consistent

\* block_task ends the run in each of its three branches.
LEMMA BlockedSafe ==
  ASSUME NEW t \in Card, NEW kind \in BlockKind, t.status # "done"
  PROVE  Safe(t, Blocked(t, kind))
<1>1. Recurrence(t, kind) \in Nat
  BY CardAssumption DEF Recurrence, Card
<1>2. Released(t) \in Card /\ Released(IntentClosed(t)) \in Card
  BY ReleasedType
<1>3. Blocked(t, kind) \in Card
  <2>1. CASE kind = "dependency"
    BY <1>2, <2>1, Ranges DEF Blocked, Card
  <2>2. CASE kind # "dependency" /\ Recurrence(t, kind) >= BlockLimit
    BY <1>2, <2>2, Ranges DEF Blocked, Card
  <2>3. CASE kind # "dependency" /\ ~(Recurrence(t, kind) >= BlockLimit)
    <3>1. Recurrence(t, kind) \in 0 .. BlockLimit
      BY <1>1, <2>3, CardAssumption
    <3> QED
      BY <1>2, <2>3, <3>1, Ranges DEF Blocked, Card
  <2> QED
    BY <2>1, <2>2, <2>3
<1> QED
  BY <1>3, Ranges DEF Safe, Blocked, Released, IntentClosed, Card, Consistent

\* _pause_running_executor ends the run and resolves its intent.
LEMMA PausedSafe ==
  ASSUME NEW t \in Card, t.status # "done" PROVE Safe(t, PausedByController(t))
<1>1. Released(IntentClosed(t)) \in Card
  BY ReleasedType
<1>2. PausedByController(t) \in Card
  BY <1>1, Ranges DEF PausedByController, Card
<1> QED
  BY <1>2, Ranges DEF Safe, PausedByController, Released, IntentClosed, Card, Consistent

\* unblock_task gives no run to the card it releases.
LEMMA UnblockedSafe ==
  ASSUME NEW t \in Card, NEW gate \in BOOLEAN, t.status = "blocked"
  PROVE  Safe(t, Unblocked(t, gate))
<1>1. Unblocked(t, gate) \in Card
  BY Ranges DEF Unblocked, Card
<1> QED
  BY <1>1, Ranges DEF Safe, Unblocked, Card, Consistent

\* A resume only answers the marker of a card that is back in the pool.
LEMMA ResumedSafe ==
  ASSUME NEW t \in Card, t.status \in {"ready", "todo"} PROVE Safe(t, ResumedByController(t))
<1>1. ResumedByController(t) \in Card
  BY Ranges DEF ResumedByController, Card
<1> QED
  BY <1>1 DEF Safe, ResumedByController, Card, Consistent

\* A reclaim ends the run and leaves its intent.
LEMMA ReclaimedSafe ==
  ASSUME NEW t \in Card, t.status = "running"
  PROVE  Safe(t, Reclaimed(t)) /\ Reclaimed(t).status = "ready"
<1>1. Released(t) \in Card
  BY ReleasedType
<1>2. Reclaimed(t) \in Card
  BY <1>1, Ranges DEF Reclaimed, Card
<1> QED
  BY <1>2, Ranges DEF Safe, Reclaimed, Released, Card, Consistent

\* The circuit breaker counts a failure of a card that is already released.
LEMMA FailureCountedSafe ==
  ASSUME NEW t \in Card, NEW limit, t.status = "ready"
  PROVE  Safe(t, FailureCounted(t, limit))
<1>1. Saturate(t.fails + 1, FailureLimit) \in 0 .. FailureLimit
  BY CardAssumption, SaturateType DEF Card
<1>2. FailureCounted(t, limit) \in Card
  BY <1>1, Ranges DEF FailureCounted, Card
<1> QED
  BY <1>2, Ranges DEF Safe, FailureCounted, Card, Consistent

\* A failed spawn closes the run it was for.
LEMMA SpawnFailedSafe == ASSUME NEW t \in Card PROVE Safe(t, SpawnFailed(t))
<1> DEFINE tripped == t.fails + 1 >= FailureLimit
           held    == t.status = "running" \/ (tripped /\ t.status = "ready")
           closed  == IF t.claimed THEN IntentClosed(t) ELSE t
           freed   == IF held THEN Released(closed) ELSE [closed EXCEPT !.run = NoRun]
           failed  == [freed EXCEPT
                         !.fails  = Saturate(t.fails + 1, FailureLimit),
                         !.status = IF held THEN IF tripped THEN "blocked" ELSE "ready" ELSE @]
<1>1. Saturate(t.fails + 1, FailureLimit) \in 0 .. FailureLimit
  BY CardAssumption, SaturateType DEF Card
<1>2. closed \in Card /\ Released(closed) \in Card
  BY ReleasedType
<1>3. freed \in Card
  BY <1>2, Ranges DEF Card
<1>4. SpawnFailed(t) \in Card
  <2>1. SpawnFailed(t) = failed
    BY DEF SpawnFailed
  <2> HIDE DEF freed, held, tripped
  <2>2. failed \in Card
    BY <1>1, <1>3, Ranges DEF Card
  <2> QED
    BY <2>1, <2>2
<1> QED
  BY <1>4, Ranges DEF Safe, SpawnFailed, Released, IntentClosed, Card, Consistent

\* recompute_ready promotes waiting cards only.
LEMMA PromotedSafe ==
  ASSUME NEW t \in Card, Promotable(t) PROVE Safe(t, Promoted(t))
BY DEF Safe, Promotable, Promoted, Card, Consistent, CardStatus

\* Two transactions in a row are as safe as one.
LEMMA SafeTransitive ==
  ASSUME NEW t, NEW u, NEW v, Safe(t, u), Safe(u, v) PROVE Safe(t, v)
BY DEF Safe

\* Doing nothing is safe, and so is resolving everything.
LEMMA SafeResolve ==
  ASSUME NEW t \in Card
  PROVE  Safe(t, t) /\ (t.status # "running" => Safe(t, [t EXCEPT !.open = {}]))
BY DEF Safe, Card, Consistent

=============================================================================
