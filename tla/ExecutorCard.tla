---------------------------- MODULE ExecutorCard ----------------------------
(***************************************************************************)
(* One mission task card of hermes_cli/kanban_db.py and the transactions   *)
(* that rewrite it.  A card is the row of the tasks table together with    *)
(* the mission_intents rows of its runs: complete_task, block_task and     *)
(* _record_task_failure close an intent in the transaction that closes     *)
(* the run, so the two belong to one atomic value.  Each operator is the   *)
(* effect of one write transaction; the conditions under which the callers *)
(* issue it are in MissionExecution.                                       *)
(*                                                                         *)
(* Abstractions.  A run id is the ordinal of the card's attempt, 0 for     *)
(* NULL.  The process a run spawned carries the run's number, so the       *)
(* worker_pid column holds a run number and no pid is reused (the boot id  *)
(* and the claim lock exist to rule pid reuse out).  Every claim is made   *)
(* on this host, so claim_lock is a flag.  consecutive_failures saturates  *)
(* at the limit it is compared with.                                       *)
(***************************************************************************)
EXTENDS Integers

CONSTANTS
  MaxRun,        \* bound on the attempts of one card
  FailureLimit,  \* DEFAULT_FAILURE_LIMIT, the circuit breaker's threshold
  BlockLimit     \* BLOCK_RECURRENCE_LIMIT, the unblock-loop threshold

ASSUME CardAssumption ==
  /\ MaxRun \in Nat \ {0}
  /\ FailureLimit \in Nat \ {0}
  /\ BlockLimit \in Nat \ {0}

NoRun == 0
Run   == 1 .. MaxRun

CardStatus == {"todo", "ready", "running", "blocked", "triage", "done"}
BlockKind  == {"none", "dependency", "needs_input", "transient"}

Card ==
  [status  : CardStatus,
   claimed : BOOLEAN,             \* claim_lock IS NOT NULL
   pid     : Run \union {NoRun},  \* worker_pid: the run whose process it names
   run     : Run \union {NoRun},  \* current_run_id
   runs    : 0 .. MaxRun,         \* the newest run id handed out
   open    : SUBSET Run,          \* runs whose mission intent is still 'open'
   fails   : 0 .. FailureLimit,   \* consecutive_failures
   kind    : BlockKind,           \* block_kind
   recur   : 0 .. BlockLimit,     \* block_recurrences
   sticky  : BOOLEAN,             \* the newest blocked/unblocked event is 'blocked'
   paused  : BOOLEAN]             \* a mission_paused event without mission_resumed

NewCard ==
  [status |-> "todo", claimed |-> FALSE, pid |-> NoRun, run |-> NoRun, runs |-> 0,
   open |-> {}, fails |-> 0, kind |-> "none", recur |-> 0, sticky |-> FALSE,
   paused |-> FALSE]

\* claim_lock, claim_expires and worker_pid go back to NULL, and _end_run
\* clears current_run_id.
Released(t) == [t EXCEPT !.claimed = FALSE, !.pid = NoRun, !.run = NoRun]

\* The mission_intents update of the run that the same transaction ended.
IntentClosed(t) == [t EXCEPT !.open = @ \ {t.run}]

Saturate(n, limit) == IF n < limit THEN n ELSE limit

-----------------------------------------------------------------------------

\* claim_task: ready -> running under a fresh run.
Claimed(t) ==
  [t EXCEPT !.status = "running", !.claimed = TRUE,
            !.run = t.runs + 1, !.runs = t.runs + 1]

\* complete_task, with _clear_failure_counter.
Completed(t) ==
  [Released(IntentClosed(t)) EXCEPT
     !.status = "done", !.kind = "none", !.recur = 0, !.fails = 0]

\* block_task: a dependency wait returns to todo, a repeated cause goes to
\* triage once it reached the limit, anything else is a sticky block.  The
\* triage branch is the one that leaves the run's intent open.
Recurrence(t, kind) == IF t.kind = kind THEN t.recur + 1 ELSE 1

Blocked(t, kind) ==
  IF kind = "dependency"
  THEN [Released(IntentClosed(t)) EXCEPT !.status = "todo", !.kind = kind]
  ELSE IF Recurrence(t, kind) >= BlockLimit
  THEN [Released(t) EXCEPT !.status = "triage", !.kind = kind, !.recur = BlockLimit]
  ELSE [Released(IntentClosed(t)) EXCEPT
          !.status = "blocked", !.kind = kind, !.recur = Recurrence(t, kind),
          !.sticky = TRUE]

\* Mutant: the run is not ended.
PausedWithRun(t) ==
  [IntentClosed(t) EXCEPT
     !.claimed = FALSE, !.pid = NoRun, !.status = "blocked", !.kind = "none",
     !.recur = 0, !.paused = TRUE]

\* _pause_running_executor: blocked by the controller, without the 'blocked'
\* event that would make it sticky.
PausedByController(t) ==
  [Released(IntentClosed(t)) EXCEPT
     !.status = "blocked", !.kind = "none", !.recur = 0, !.paused = TRUE]

\* unblock_task: back to the pool, with the dispatcher's failure budget reset
\* and the recurrence counter kept.
Unblocked(t, parentsDone) ==
  [t EXCEPT !.status = IF parentsDone THEN "ready" ELSE "todo",
            !.run = NoRun, !.fails = 0, !.sticky = FALSE]

\* The second transaction of _resume_controller_paused_executors.
ResumedByController(t) ==
  [t EXCEPT !.kind  = IF t.status \in {"ready", "todo"} THEN "none" ELSE @,
            !.recur = IF t.status \in {"ready", "todo"} THEN 0 ELSE @,
            !.paused = FALSE]

\* Mutant: the outcome of the run becomes the status of the card.
ReclaimedStatus(t) == [Released(t) EXCEPT !.status = "reclaimed"]

\* release_stale_claims, detect_stale_running, detect_crashed_workers and
\* enforce_max_runtime give a running card back to the pool: the run ends, its
\* intent stays open for reconciliation to judge.
Reclaimed(t) == [Released(t) EXCEPT !.status = "ready"]

\* _record_task_failure after a crash or a timeout: the card is ready already.
\* limit: FailureLimit, or 1 when the caller trips the breaker at once (a streak
\* of protocol violations, several workers that crashed of the same error).
FailureCounted(t, limit) ==
  [t EXCEPT !.fails = Saturate(t.fails + 1, FailureLimit),
            !.status = IF t.fails + 1 >= limit /\ @ \in {"ready", "running"}
                       THEN "blocked" ELSE @]

\* _record_task_failure after a failed spawn: it closes the run and exactly that
\* run's intent, and releases the claim of a card that still has one.
SpawnFailed(t) ==
  LET tripped == t.fails + 1 >= FailureLimit
      held    == t.status = "running" \/ (tripped /\ t.status = "ready")
      closed  == IF t.claimed THEN IntentClosed(t) ELSE t
      freed   == IF held THEN Released(closed) ELSE [closed EXCEPT !.run = NoRun]
  IN  [freed EXCEPT !.fails  = Saturate(t.fails + 1, FailureLimit),
                    !.status = IF held
                               THEN IF tripped THEN "blocked" ELSE "ready"
                               ELSE @]

\* recompute_ready's row filter: a todo card, or a blocked one that nobody blocked
\* on purpose and whose failure budget is not spent.
Promotable(t) ==
  \/ t.status = "todo"
  \/ t.status = "blocked" /\ ~t.sticky /\ t.fails < FailureLimit

Promoted(t) == [t EXCEPT !.status = "ready"]

\* _set_worker_pid: the column is written whatever the card's state is by then.
PidRecorded(t, r) == [t EXCEPT !.pid = r]

\* begin_intent: one open row per run, however often the spawn is retried.
IntentOpened(t, r) == [t EXCEPT !.open = @ \union {r}]

=============================================================================
