-------------------------- MODULE MissionExecution --------------------------
(***************************************************************************)
(* Execution of one planned mission of Hermes Project Autopilot, from the  *)
(* start gate to a terminal status.                                        *)
(*                                                                         *)
(*   actor["board"]  holds the board lock: a dispatcher tick               *)
(*                   (kanban_db._dispatch_once_locked), or an operator     *)
(*                   command that also holds the mission lock              *)
(*   actor["ctl"]    holds the mission lock alone: controller_tick, the    *)
(*                   verify, approve, deny and commit commands             *)
(*   actor["free"]   reconcile_mission as clients call it, with no lock    *)
(*                   (only in SpecUnlocked)                                *)
(*   workers         processes that hold a lease on one run of one card    *)
(*                                                                         *)
(* Each action is one database transaction or one group of system calls;   *)
(* an actor's position between two of them is its label.  Any actor can    *)
(* die at any label (Interrupted), the host can reboot.                    *)
(***************************************************************************)
EXTENDS ExecutorCard, MissionLifecycle, FiniteSets

CONSTANTS
  Executor,            \* the executor cards of the accepted manifest
  NoCard,              \* no card claimed
  Parents,             \* their dependencies; a card without any waits for the root
  Level,               \* autonomy level
  AllowLocalCommit,    \* the contract's explicit local-commit authority
  MaxVerifierRetries,  \* budget max_verifier_retries
  MaxCommitRetries,    \* budget max_commit_retries
  MaxFaults            \* bound on interruptions, reboots and unkillable workers

ASSUME ExecutionAssumption ==
  /\ NoCard \notin Executor
  /\ Parents \in [Executor -> SUBSET Executor]
  /\ Level \in {3, 4}
  /\ AllowLocalCommit \in BOOLEAN
  /\ MaxVerifierRetries \in Nat
  /\ MaxCommitRetries \in Nat
  /\ MaxFaults \in Nat

VARIABLES
  mission,   \* the mission's row
  root,      \* status of the controller card, the start latch
  task,      \* the executor cards
  verifier,  \* the verifier card, settled by the controller and never claimed
  alive,     \* per card, the runs whose worker process exists
  writing,   \* per card, the runs with a tool call past its lease check
  actor,     \* where each actor is
  overdue,   \* the mission's deadline has passed
  errors,    \* controller_error evidence counted per phase
  faults     \* interruptions so far

vars == <<mission, root, task, verifier, alive, writing, actor, overdue, errors, faults>>

-----------------------------------------------------------------------------

Phase == {"execution", "pausing", "paused", "cancelling", "cancelled", "recovery",
          "budget", "verification", "commit", "complete"}

\* blocked_reason mentions recovery_ambiguous exactly when the phase is recovery.
\* proven: a quiescence record whose binding is the row as it is now.
Mission == [status : MissionStatus, phase : Phase, proven : BOOLEAN]

ActorId == {"board", "ctl", "free"}

Label == {"idle", "reconcile", "kill", "close", "final",
          "reclaim", "limits", "scan", "claimed", "journaled", "spawned",
          "latched", "requeue", "requeueing", "release", "releasing",
          "model", "settle", "escalate", "error"}

Goal == {"none", "pause", "cancel", "block", "verify", "submit", "commit", "rollback"}

\* Where an actor goes once its reconciliation or quiescence succeeded.
Return == {"idle", "reclaim", "scan", "requeue", "release", "settle"}

Actor ==
  [at   : Label,
   goal : Goal,                            \* what the quiescence is for
   next : Return,
   rows : [Executor -> Run \union {NoRun}], \* current_run_id as last read
   left : SUBSET Executor,                 \* rows of the loop not yet handled
   card : Executor \union {NoCard}]        \* the claimed task of the spawn loop

Idle ==
  [at |-> "idle", goal |-> "none", next |-> "idle",
   rows |-> [c \in Executor |-> NoRun], left |-> {}, card |-> NoCard]

\* An interrupted tick leaves nothing behind in memory, so its labels are
\* records built from Idle.
InTick(label) == [Idle EXCEPT !.at = label, !.next = "scan"]

Dispatching(s) == s.next \in {"reclaim", "scan"}

Continue(s) ==
  CASE s.next = "reclaim"               -> InTick("reclaim")
    [] s.next = "scan"                  -> [InTick("scan") EXCEPT !.left = Executor]
    [] s.next \in {"requeue", "release"} -> [Idle EXCEPT !.at = s.next, !.next = s.next]
    [] OTHER                            -> Idle

\* A raise ends a command; reconcile_active_missions swallows it and the tick
\* goes on; controller_tick counts it.
Raised(s) ==
  CASE Dispatching(s)    -> Continue(s)
    [] s.next = "settle" -> [Idle EXCEPT !.at = "error", !.goal = s.goal,
                                         !.next = "settle"]
    [] OTHER             -> Idle

At(a, label)     == actor[a].at = label
GoTo(a, label)   == actor' = [actor EXCEPT ![a].at = label]
Proceed(a)       == actor' = [actor EXCEPT ![a] = Continue(@)]
Raise(a)         == actor' = [actor EXCEPT ![a] = Raised(@)]
Stop(a)          == actor' = [actor EXCEPT ![a] = Idle]
Quiesce(a, goal) == actor' = [actor EXCEPT ![a].at = "kill", ![a].goal = goal]

\* The board lock, and the mission lock, which a dispatcher tick does not take.
BoardFree       == At("board", "idle")
MissionLockFree == At("ctl", "idle") /\ (BoardFree \/ Dispatching(actor["board"]))
CommandsFree    == BoardFree /\ At("ctl", "idle")

Fault == faults < MaxFaults /\ faults' = faults + 1

\* transition_mission, called where Allowed holds; it outdates every proof.
Transition(status, phase) ==
  mission' = [status |-> status, phase |-> phase, proven |-> FALSE]

\* The last transaction of an operation: refused from a status it is illegal from,
\* and the operation is over either way.
Conclude(a, status, phase) ==
  /\ Stop(a)
  /\ IF Allowed(mission.status, status) THEN Transition(status, phase)
                                        ELSE UNCHANGED mission

-----------------------------------------------------------------------------

AllDone     == \A c \in Executor : task[c].status = "done"
OpenIntents == {c \in Executor : task[c].open # {}}

\* agent/mission_scope._require_live_executor_lease: what a run needs to mutate.
LeaseValid(c, r) ==
  /\ mission.status = "running"
  /\ task[c].status = "running" /\ task[c].run = r /\ task[c].claimed

\* _ambiguous_open_intents: the owner of an open intent is provably there.  A
\* live worker whose heartbeat went stale fails the test too.
Healthy(c, r) ==
  /\ task[c].status = "running" /\ task[c].claimed /\ task[c].run = r
  /\ task[c].pid # NoRun /\ task[c].pid \in alive[c]

Orphaned(c) == \E r \in task[c].open : ~Healthy(c, r)

Occupied(t) == t.status = "running" \/ t.claimed \/ t.pid # NoRun

\* _mission_needs_quiescence.
NeedsQuiescence ==
  OpenIntents # {} \/ \E c \in Executor : Occupied(task[c]) \/ task[c].run # NoRun

ParentsDone(ts, r, c) ==
  IF Parents[c] = {} THEN r = "done" ELSE \A p \in Parents[c] : ts[p].status = "done"

\* Mutant: a parent that left todo counts as finished.
RecomputeEarly(ts, r, v) ==
  /\ root' = IF r = "blocked" THEN "ready" ELSE r
  /\ task' = [c \in Executor |->
                IF Promotable(ts[c]) /\ \A p \in Parents[c] : ts[p].status # "todo"
                THEN Promoted(ts[c]) ELSE ts[c]]
  /\ verifier' = v

\* recompute_ready over the root, the executors and the verifier.
RecomputeReady(ts, r, v) ==
  /\ root' = IF r = "blocked" THEN "ready" ELSE r
  /\ task' = [c \in Executor |->
                IF Promotable(ts[c]) /\ ParentsDone(ts, r, c) THEN Promoted(ts[c]) ELSE ts[c]]
  /\ verifier' = IF Promotable(v) /\ \A c \in Executor : ts[c].status = "done"
                 THEN Promoted(v) ELSE v

Init ==
  /\ mission = [status |-> "ready", phase |-> "execution", proven |-> FALSE]
  /\ root = "blocked"
  /\ task = [c \in Executor |-> NewCard]
  /\ verifier = NewCard
  /\ alive = [c \in Executor |-> {}]
  /\ writing = [c \in Executor |-> {}]
  /\ actor = [a \in ActorId |-> Idle]
  /\ overdue = FALSE
  /\ errors = [verification |-> 0, commit |-> 0]
  /\ faults = 0

-----------------------------------------------------------------------------
(***************************************************************************)
(* Reconciliation, shared by the tick, retry_mission and reconcile_mission *)
(***************************************************************************)

\* Mutant: an unresolved intent is not looked at.
ReconcileBlind(a) ==
  /\ At(a, "reconcile")
  /\ IF mission.status = "blocked" /\ ~mission.proven THEN Quiesce(a, "block") ELSE Proceed(a)
  /\ UNCHANGED <<mission, root, task, verifier, alive, writing, overdue, errors, faults>>

\* One pass over the mission.  A pausing or cancelling mission is quiesced, and so
\* is a blocked one until that is proven.  Any other active mission with an
\* ambiguous intent is blocked first.
Reconcile(a) ==
  /\ At(a, "reconcile")
  /\ \/ /\ mission.status = "waiting_for_user" /\ mission.phase = "pausing"
        /\ Quiesce(a, "pause") /\ UNCHANGED mission
     \/ /\ mission.status = "waiting_for_user" /\ mission.phase = "cancelling"
        /\ Quiesce(a, "cancel") /\ UNCHANGED mission
     \/ /\ mission.status = "blocked" /\ (NeedsQuiescence \/ ~mission.proven)
        /\ Quiesce(a, "block") /\ UNCHANGED mission
     \/ /\ mission.status = "blocked" /\ ~NeedsQuiescence /\ mission.proven
        /\ Proceed(a) /\ UNCHANGED mission
     \/ /\ OpenIntents # {}
        /\ mission.phase \notin {"pausing", "cancelling"}
        /\ mission.status \in {"running", "waiting_for_user", "verifying",
                              "awaiting_approval", "committing"}
        /\ Transition("blocked", "recovery")
        /\ Quiesce(a, "block")
     \/ /\ mission.status # "blocked"
        /\ mission.phase \notin {"pausing", "cancelling"}
        /\ \/ mission.status \in TerminalMissionStatus \union {"ready"}
           \/ \A c \in Executor : ~Orphaned(c)
        /\ Proceed(a) /\ UNCHANGED mission
  /\ UNCHANGED <<root, task, verifier, alive, writing, overdue, errors, faults>>

-----------------------------------------------------------------------------
(***************************************************************************)
(* _quiesce_mission_executors                                              *)
(***************************************************************************)

\* Mutant: the containers are left to their workers.
KillProcessesOnly(a) ==
  LET doomed(c) == IF task[c].claimed THEN {task[c].pid} ELSE {}
  IN  /\ At(a, "kill")
      /\ alive' = [c \in Executor |-> alive[c] \ doomed(c)]
      /\ actor' = [actor EXCEPT ![a].at = "close",
                               ![a].rows = [c \in Executor |-> task[c].run],
                               ![a].left = Executor]
      /\ UNCHANGED <<mission, root, task, verifier, writing, overdue, errors, faults>>

\* Read the rows, kill every worker that a claimed row names, then remove the
\* containers of every card that ran: a container outlives the worker, so a call
\* goes on until it is removed or, if its process lives, until it ends.
KillWorkers(a) ==
  LET doomed(c) == IF task[c].claimed THEN {task[c].pid} ELSE {}
  IN  /\ At(a, "kill")
      /\ alive' = [c \in Executor |-> alive[c] \ doomed(c)]
      /\ writing' = [c \in Executor |-> writing[c] \intersect alive'[c]]
      /\ actor' = [actor EXCEPT ![a].at = "close",
                               ![a].rows = [c \in Executor |-> task[c].run],
                               ![a].left = Executor]
      /\ UNCHANGED <<mission, root, task, verifier, overdue, errors, faults>>

\* A worker outlives SIGKILL: quiescence is not proven.
WorkerSurvives(a) ==
  /\ At(a, "kill") /\ Fault
  /\ \E c \in Executor : task[c].claimed /\ task[c].pid \in alive[c]
  /\ Raise(a)
  /\ UNCHANGED <<mission, root, task, verifier, alive, writing, overdue, errors>>

\* One card still running is paused or blocked, if it still runs the run that
\* was read; a row read without a run is not compared.
CloseRun(a) ==
  /\ At(a, "close")
  /\ \E c \in actor[a].left :
       /\ task[c].status = "running"
       /\ IF actor[a].rows[c] \in {NoRun, task[c].run}
          THEN /\ task' = [task EXCEPT ![c] = IF actor[a].goal = "pause"
                                             THEN PausedByController(@)
                                             ELSE Blocked(@, "needs_input")]
               /\ actor' = [actor EXCEPT ![a].left = @ \ {c}]
          ELSE Raise(a) /\ UNCHANGED task
  /\ UNCHANGED <<mission, root, verifier, alive, writing, overdue, errors, faults>>

\* Mutant: leftover claims and pids are not looked for.
ProveNothing(a) ==
  /\ At(a, "close")
  /\ \A c \in actor[a].left : task[c].status # "running"
  /\ GoTo(a, "final")
  /\ task' = IF actor[a].goal \in {"pause", "cancel", "block"}
             THEN [c \in Executor |-> [task[c] EXCEPT !.open = {}]]
             ELSE task
  /\ UNCHANGED <<mission, root, verifier, alive, writing, overdue, errors, faults>>

\* No row of the loop runs any more.  A leftover claim or pid raises; otherwise
\* the goals with a resolve_outcome close every intent still open.
ProveQuiescence(a) ==
  /\ At(a, "close")
  /\ \A c \in actor[a].left : task[c].status # "running"
  /\ IF \E c \in Executor : Occupied(task[c])
     THEN Raise(a) /\ UNCHANGED task
     ELSE /\ GoTo(a, "final")
          /\ task' = IF actor[a].goal \in {"pause", "cancel", "block"}
                     THEN [c \in Executor |-> [task[c] EXCEPT !.open = {}]]
                     ELSE task
  /\ UNCHANGED <<mission, root, verifier, alive, writing, overdue, errors, faults>>

\* What follows the quiescence, by its goal; each is refused if the mission left
\* the state it was quiesced for.
FinishPause(a) ==
  /\ At(a, "final") /\ actor[a].goal = "pause"
  /\ IF mission.status = "waiting_for_user" /\ mission.phase \in {"pausing", "paused"}
     THEN mission' = [mission EXCEPT !.phase = "paused"] /\ Proceed(a)
     ELSE Raise(a) /\ UNCHANGED mission
  /\ UNCHANGED <<root, task, verifier, alive, writing, overdue, errors, faults>>

FinishCancel(a) ==
  /\ At(a, "final") /\ actor[a].goal = "cancel"
  /\ IF Allowed(mission.status, "cancelled")
     THEN Transition("cancelled", "cancelled") /\ Proceed(a)
     ELSE Raise(a) /\ UNCHANGED mission
  /\ UNCHANGED <<root, task, verifier, alive, writing, overdue, errors, faults>>

FinishBlock(a) ==
  /\ At(a, "final") /\ actor[a].goal = "block"
  /\ IF mission.status = "blocked"
     THEN mission' = [mission EXCEPT !.proven = TRUE] /\ Proceed(a)
     ELSE Raise(a) /\ UNCHANGED mission
  /\ UNCHANGED <<root, task, verifier, alive, writing, overdue, errors, faults>>

\* Mutant: the intents are left open.
FinishRollbackOnly(a) ==
  /\ At(a, "final") /\ actor[a].goal = "rollback"
  /\ Conclude(a, "rolled_back", "complete")
  /\ UNCHANGED <<root, task, verifier, alive, writing, overdue, errors, faults>>

\* _rollback_mission_unlocked after the reset of the worktree.
FinishRollback(a) ==
  /\ At(a, "final") /\ actor[a].goal = "rollback"
  /\ task' = [c \in Executor |-> [task[c] EXCEPT !.open = {}]]
  /\ Conclude(a, "rolled_back", "complete")
  /\ UNCHANGED <<root, verifier, alive, writing, overdue, errors, faults>>

Quiescence(a) ==
  \/ KillWorkers(a) \/ WorkerSurvives(a) \/ CloseRun(a) \/ ProveQuiescence(a)
  \/ FinishPause(a) \/ FinishCancel(a) \/ FinishBlock(a) \/ FinishRollback(a)

-----------------------------------------------------------------------------
(***************************************************************************)
(* The dispatcher tick, _dispatch_once_locked                              *)
(***************************************************************************)

StartTick ==
  /\ BoardFree
  /\ actor' = [actor EXCEPT !["board"] = [Idle EXCEPT !.at = "reconcile", !.next = "reclaim"]]
  /\ UNCHANGED <<mission, root, task, verifier, alive, writing, overdue, errors, faults>>

\* release_stale_claims on an expired claim whose worker is dead, or stopped
\* heartbeating and is killed.  A claim whose worker survives is only extended.
ReleaseStaleClaim(c) ==
  /\ At("board", "reclaim")
  /\ task[c].status = "running"
  /\ alive' = [alive EXCEPT ![c] = @ \ {task[c].pid}]
  /\ task' = [task EXCEPT ![c] = Reclaimed(@)]
  /\ UNCHANGED <<mission, root, verifier, writing, actor, overdue, errors, faults>>

\* detect_crashed_workers: some of the dead (the others are inside the launch
\* grace) go back to ready.  A quota exit or a protocol violation below its
\* bound is not counted as a failure; at the bound it trips the breaker.
DetectCrashedWorkers ==
  LET dead == {c \in Executor : /\ task[c].status = "running" /\ task[c].claimed
                                /\ task[c].pid # NoRun /\ task[c].pid \notin alive[c]}
  IN  /\ At("board", "reclaim")
      /\ \E crashed \in SUBSET dead : \E counted \in SUBSET crashed :
         \E limit \in [counted -> {1, FailureLimit}] :
           task' = [c \in Executor |->
                      CASE c \in counted -> FailureCounted(Reclaimed(task[c]), limit[c])
                        [] c \in crashed \ counted -> Reclaimed(task[c])
                        [] OTHER -> task[c]]
      /\ GoTo("board", "limits")
      /\ UNCHANGED <<mission, root, verifier, alive, writing, overdue, errors, faults>>

\* enforce_max_runtime releases the card whether or not the kill worked.
EnforceMaxRuntime(c) ==
  /\ At("board", "limits")
  /\ task[c].status = "running" /\ task[c].claimed /\ task[c].pid # NoRun
  /\ \/ alive' = [alive EXCEPT ![c] = @ \ {task[c].pid}] /\ UNCHANGED faults
     \/ task[c].pid \in alive[c] /\ Fault /\ UNCHANGED alive
  /\ task' = [task EXCEPT ![c] = FailureCounted(Reclaimed(@), FailureLimit)]
  /\ UNCHANGED <<mission, root, verifier, writing, actor, overdue, errors>>

\* recompute_ready, then the second reconciliation.
PromoteReady ==
  /\ At("board", "limits")
  /\ RecomputeReady(task, root, verifier)
  /\ GoTo("board", "reconcile")
  /\ UNCHANGED <<mission, alive, writing, overdue, errors, faults>>

\* Mutant: the claim trusts the scan for the status of the mission.
ClaimScanned(c) ==
  /\ At("board", "scan") /\ c \in actor["board"].left
  /\ task[c].status = "ready" /\ ~task[c].claimed /\ task[c].open = {}
  /\ ParentsDone(task, root, c)
  /\ task[c].runs < MaxRun
  /\ task' = [task EXCEPT ![c] = Claimed(@)]
  /\ actor' = [actor EXCEPT !["board"] =
                 [actor["board"] EXCEPT !.at = "claimed", !.card = c, !.left = @ \ {c},
                                        !.rows[c] = task[c].runs + 1]]
  /\ UNCHANGED <<mission, root, verifier, alive, writing, overdue, errors, faults>>

\* claim_task on one of the ready rows: the claim re-evaluates what the scan
\* selected, in its own transaction.
ClaimTask(c) ==
  /\ At("board", "scan") /\ c \in actor["board"].left
  /\ mission.status = "running"
  /\ task[c].status = "ready" /\ ~task[c].claimed /\ task[c].open = {}
  /\ ParentsDone(task, root, c)
  /\ task[c].runs < MaxRun
  /\ task' = [task EXCEPT ![c] = Claimed(@)]
  /\ actor' = [actor EXCEPT !["board"] =
                 [actor["board"] EXCEPT !.at = "claimed", !.card = c, !.left = @ \ {c},
                                        !.rows[c] = task[c].runs + 1]]
  /\ UNCHANGED <<mission, root, verifier, alive, writing, overdue, errors, faults>>

\* The claimed task object that the spawn works with.
SpawnCard == actor["board"].card
SpawnRun  == actor["board"].rows[SpawnCard]

\* begin_task_intent: journal the mutation of the claim as it was handed out.
BeginTaskIntent ==
  /\ At("board", "claimed")
  /\ task[SpawnCard].status = "running" /\ task[SpawnCard].claimed
  /\ task[SpawnCard].run = SpawnRun
  /\ task' = [task EXCEPT ![SpawnCard] = IntentOpened(@, SpawnRun)]
  /\ GoTo("board", "journaled")
  /\ UNCHANGED <<mission, root, verifier, alive, writing, overdue, errors, faults>>

\* Mutant: the worker starts before its mutation is journaled.
SpawnFirst ==
  /\ At("board", "claimed")
  /\ alive' = [alive EXCEPT ![SpawnCard] = @ \union {SpawnRun}]
  /\ GoTo("board", "spawned")
  /\ UNCHANGED <<mission, root, task, verifier, writing, overdue, errors, faults>>

\* Popen.
SpawnWorker ==
  /\ At("board", "journaled")
  /\ alive' = [alive EXCEPT ![SpawnCard] = @ \union {SpawnRun}]
  /\ GoTo("board", "spawned")
  /\ UNCHANGED <<mission, root, task, verifier, writing, overdue, errors, faults>>

NextRow == [InTick("scan") EXCEPT !.left = actor["board"].left]

SetWorkerPid ==
  /\ At("board", "spawned")
  /\ task' = [task EXCEPT ![SpawnCard] = PidRecorded(@, SpawnRun)]
  /\ actor' = [actor EXCEPT !["board"] = NextRow]
  /\ UNCHANGED <<mission, root, verifier, alive, writing, overdue, errors, faults>>

\* Any exception between the claim and the recorded pid.  The last one, a failed
\* _set_worker_pid, is a fault: a process is left without a pid.
RecordSpawnFailure ==
  /\ \/ (At("board", "claimed") \/ At("board", "journaled")) /\ UNCHANGED faults
     \/ At("board", "spawned") /\ Fault
  /\ task' = [task EXCEPT ![SpawnCard] = SpawnFailed(@)]
  /\ actor' = [actor EXCEPT !["board"] = NextRow]
  /\ UNCHANGED <<mission, root, verifier, alive, writing, overdue, errors>>

EndTick ==
  /\ At("board", "scan")
  /\ Stop("board")
  /\ UNCHANGED <<mission, root, task, verifier, alive, writing, overdue, errors, faults>>

DispatcherTick ==
  \/ StartTick
  \/ \E c \in Executor : ReleaseStaleClaim(c) \/ EnforceMaxRuntime(c) \/ ClaimTask(c)
  \/ DetectCrashedWorkers \/ PromoteReady
  \/ BeginTaskIntent \/ SpawnWorker \/ SetWorkerPid \/ RecordSpawnFailure
  \/ EndTick

-----------------------------------------------------------------------------
(***************************************************************************)
(* Operator commands under both locks                                      *)
(***************************************************************************)

\* validate_mission_task_graph at the start boundary: no card may have advanced.
StartGate ==
  /\ root \in {"blocked", "ready"}
  /\ \A c \in Executor : task[c].status \in {"todo", "ready"}
  /\ verifier.status \in {"todo", "ready"}

\* start_mission up to the release of the start latch ...
StartMission ==
  /\ CommandsFree
  /\ mission.status \in {"ready", "blocked"}
  /\ OpenIntents = {}
  /\ StartGate
  /\ RecomputeReady(task, "done", verifier)
  /\ GoTo("board", "latched")
  /\ UNCHANGED <<mission, alive, writing, overdue, errors, faults>>

\* ... and the transition that follows it.
BeginExecution ==
  /\ At("board", "latched")
  /\ Conclude("board", "running", "execution")
  /\ UNCHANGED <<root, task, verifier, alive, writing, overdue, errors, faults>>

\* pause_mission revokes the lease, then quiesces.
PauseMission ==
  /\ CommandsFree
  /\ \/ mission.status = "running" /\ Transition("waiting_for_user", "pausing")
     \/ /\ mission.status = "waiting_for_user" /\ mission.phase = "pausing"
        /\ UNCHANGED mission
  /\ Quiesce("board", "pause")
  /\ UNCHANGED <<root, task, verifier, alive, writing, overdue, errors, faults>>

\* Mutant: back to work as soon as it is asked for.
ResumeAtOnce ==
  /\ CommandsFree
  /\ mission.status = "waiting_for_user" /\ mission.phase \in {"pausing", "paused"}
  /\ actor' = [actor EXCEPT !["board"] = [Idle EXCEPT !.at = "releasing"]]
  /\ UNCHANGED <<mission, root, task, verifier, alive, writing, overdue, errors, faults>>

\* resume_mission, finishing an interrupted pause first.
ResumeMission ==
  /\ CommandsFree
  /\ mission.status = "waiting_for_user" /\ mission.phase \in {"pausing", "paused"}
  /\ actor' = [actor EXCEPT !["board"] =
                 IF mission.phase = "pausing"
                 THEN [Idle EXCEPT !.at = "kill", !.goal = "pause", !.next = "release"]
                 ELSE [Idle EXCEPT !.at = "release", !.next = "release"]]
  /\ UNCHANGED <<mission, root, task, verifier, alive, writing, overdue, errors, faults>>

\* Mutant: only the cards that are still blocked are looked at.
CollectBlockedPaused ==
  /\ At("board", "release")
  /\ OpenIntents = {}
  /\ actor' = [actor EXCEPT
       !["board"].at = "releasing",
       !["board"].left = {c \in Executor : task[c].paused /\ task[c].status = "blocked"}]
  /\ UNCHANGED <<mission, root, task, verifier, alive, writing, overdue, errors, faults>>

\* Mutant: every blocked card is released.
CollectEveryBlocked ==
  /\ At("board", "release")
  /\ OpenIntents = {}
  /\ actor' = [actor EXCEPT
       !["board"].at = "releasing",
       !["board"].left = {c \in Executor : task[c].paused \/ task[c].status = "blocked"}]
  /\ UNCHANGED <<mission, root, task, verifier, alive, writing, overdue, errors, faults>>

\* The cards with a pause marker that no resume answered yet.
CollectPaused ==
  /\ At("board", "release")
  /\ OpenIntents = {}
  /\ actor' = [actor EXCEPT !["board"].at = "releasing",
                            !["board"].left = {c \in Executor : task[c].paused}]
  /\ UNCHANGED <<mission, root, task, verifier, alive, writing, overdue, errors, faults>>

\* Per card: unblock_task, then the transaction that answers the marker.  A card
\* already in ready or todo skips the first (recovery of an interrupted resume).
ResumeCard(c) ==
  /\ At("board", "releasing") /\ c \in actor["board"].left
  /\ \/ /\ task[c].status = "blocked"
        /\ task' = [task EXCEPT ![c] = Unblocked(@, ParentsDone(task, root, c))]
        /\ UNCHANGED actor
     \/ /\ task[c].status \in {"ready", "todo"}
        /\ task' = [task EXCEPT ![c] = ResumedByController(@)]
        /\ actor' = [actor EXCEPT !["board"].left = @ \ {c}]
  /\ UNCHANGED <<mission, root, verifier, alive, writing, overdue, errors, faults>>

FinishResume ==
  /\ At("board", "releasing") /\ actor["board"].left = {}
  /\ Conclude("board", "running", "execution")
  /\ UNCHANGED <<root, task, verifier, alive, writing, overdue, errors, faults>>

\* Mutant: the mission is cancelled without stopping its workers.
CancelOnly ==
  /\ CommandsFree
  /\ mission.status \notin TerminalMissionStatus
  /\ actor' = [actor EXCEPT !["board"] = [Idle EXCEPT !.at = "final", !.goal = "cancel"]]
  /\ UNCHANGED <<mission, root, task, verifier, alive, writing, overdue, errors, faults>>

\* cancel_mission: only a running mission has a lease to revoke first.
CancelMission ==
  /\ CommandsFree
  /\ mission.status \notin TerminalMissionStatus
  /\ IF mission.status = "running"
     THEN Transition("waiting_for_user", "cancelling")
     ELSE UNCHANGED mission
  /\ Quiesce("board", "cancel")
  /\ UNCHANGED <<root, task, verifier, alive, writing, overdue, errors, faults>>

\* Mutant: no reconciliation and no gates.
RetryAtOnce ==
  /\ CommandsFree
  /\ mission.status = "blocked"
  /\ actor' = [actor EXCEPT !["board"] = [Idle EXCEPT !.at = "requeueing"]]
  /\ UNCHANGED <<mission, root, task, verifier, alive, writing, overdue, errors, faults>>

\* retry_mission starts with reconcile_mission.
RetryMission ==
  /\ CommandsFree
  /\ mission.status \notin TerminalMissionStatus
  /\ actor' = [actor EXCEPT !["board"] =
                 [Idle EXCEPT !.at = "reconcile", !.next = "requeue"]]
  /\ UNCHANGED <<mission, root, task, verifier, alive, writing, overdue, errors, faults>>

\* Its gates; only the execution phase requeues the blocked executors, and a card
\* in triage refuses that.
CollectBlocked ==
  LET inState(status) == {c \in Executor : task[c].status = status}
      requeues        == mission.phase = "execution"
  IN  /\ At("board", "requeue")
      /\ IF /\ mission.status = "blocked" /\ mission.phase # "recovery"
            /\ ~overdue /\ OpenIntents = {}
            /\ requeues => inState("triage") = {}
         THEN actor' = [actor EXCEPT !["board"].at = "requeueing",
                                     !["board"].left = IF requeues THEN inState("blocked")
                                                       ELSE {}]
         ELSE Raise("board")
      /\ UNCHANGED <<mission, root, task, verifier, alive, writing, overdue, errors, faults>>

RequeueCard(c) ==
  /\ At("board", "requeueing") /\ c \in actor["board"].left
  /\ IF task[c].status = "blocked"
     THEN /\ task' = [task EXCEPT ![c] = Unblocked(@, ParentsDone(task, root, c))]
          /\ actor' = [actor EXCEPT !["board"].left = @ \ {c}]
     ELSE Raise("board") /\ UNCHANGED task
  /\ UNCHANGED <<mission, root, verifier, alive, writing, overdue, errors, faults>>

FinishRetry ==
  /\ At("board", "requeueing") /\ actor["board"].left = {}
  /\ Conclude("board", "running", "execution")
  /\ UNCHANGED <<root, task, verifier, alive, writing, overdue, errors, faults>>

RollbackMission ==
  /\ CommandsFree
  /\ mission.status \in {"succeeded", "failed", "cancelled", "blocked"}
  /\ Quiesce("board", "rollback")
  /\ UNCHANGED <<mission, root, task, verifier, alive, writing, overdue, errors, faults>>

Command ==
  \/ StartMission \/ BeginExecution
  \/ PauseMission
  \/ ResumeMission \/ CollectPaused \/ FinishResume
  \/ CancelMission
  \/ RetryMission \/ CollectBlocked \/ FinishRetry
  \/ \E c \in Executor : ResumeCard(c) \/ RequeueCard(c)
  \/ RollbackMission

-----------------------------------------------------------------------------
(***************************************************************************)
(* The control plane under the mission lock: controller_tick, and the      *)
(* verify, approve, deny and commit commands                               *)
(***************************************************************************)

\* Mutant: a mission without a stuck card counts as finished.
ControllerTickEager ==
  LET stuck == {c \in Executor : task[c].status \in {"blocked", "triage"}}
      tick(label, goal) == actor' = [actor EXCEPT !["ctl"] =
                             [Idle EXCEPT !.at = label, !.goal = goal, !.next = "settle"]]
  IN  /\ MissionLockFree
      /\ mission.status = "running" /\ stuck = {}
      /\ tick("kill", "verify")
      /\ UNCHANGED <<mission, root, task, verifier, alive, writing, overdue, errors, faults>>

\* controller_tick on a candidate, up to its first transaction or long call.
ControllerTick ==
  LET stuck == {c \in Executor : task[c].status \in {"blocked", "triage"}}
      tick(label, goal) == actor' = [actor EXCEPT !["ctl"] =
                             [Idle EXCEPT !.at = label, !.goal = goal, !.next = "settle"]]
  IN  /\ MissionLockFree
      /\ \/ /\ mission.status \in {"running", "verifying", "committing"} /\ overdue
           /\ Transition("blocked", "budget")
           /\ UNCHANGED actor
        \/ /\ mission.status = "running" /\ ~overdue /\ stuck # {}
           /\ tick("escalate", "none") /\ UNCHANGED mission
        \/ /\ \/ mission.status = "running" /\ AllDone
              \/ mission.status = "verifying"
           /\ ~overdue
           /\ tick("kill", "verify") /\ UNCHANGED mission
        \/ /\ mission.status = "committing" /\ ~overdue /\ Level = 4
           /\ tick("settle", "none") /\ UNCHANGED mission
      /\ UNCHANGED <<root, task, verifier, alive, writing, overdue, errors, faults>>

\* The rows it read hold a blocked executor: the mission follows.
EscalateBlockedExecutor ==
  /\ At("ctl", "escalate")
  /\ Conclude("ctl", "blocked", "execution")
  /\ UNCHANGED <<root, task, verifier, alive, writing, overdue, errors, faults>>

\* verify_with_model as a command: the status is only looked at when the answer
\* is submitted.
VerifyMission ==
  /\ MissionLockFree
  /\ AllDone
  /\ Quiesce("ctl", "verify")
  /\ UNCHANGED <<mission, root, task, verifier, alive, writing, overdue, errors, faults>>

\* _verify_with_model_unlocked up to the model call.
EnterVerification ==
  /\ At("ctl", "final") /\ actor["ctl"].goal = "verify"
  /\ IF OpenIntents # {}
     THEN Raise("ctl") /\ UNCHANGED mission
     ELSE /\ GoTo("ctl", "model")
          /\ IF mission.status = "running" THEN Transition("verifying", "verification")
                                           ELSE UNCHANGED mission
  /\ UNCHANGED <<root, task, verifier, alive, writing, overdue, errors, faults>>

\* The answer arrives and _submit_verifier_verdict_unlocked quiesces again, or the
\* call fails, or the answer is malformed, or the mission left verification.
VerifierAnswers ==
  /\ At("ctl", "model")
  /\ \/ mission.status \in {"running", "verifying"} /\ Quiesce("ctl", "submit")
     \/ Raise("ctl")
  /\ UNCHANGED <<mission, root, task, verifier, alive, writing, overdue, errors, faults>>

\* The verdict and the deterministic checks decide the next status.
Verdict(passed) ==
  IF ~passed \/ (Level = 4 /\ ~AllowLocalCommit) THEN "blocked"
  ELSE IF Level = 3 THEN "awaiting_approval" ELSE "committing"

\* submit_verifier_verdict as a command: the operator brings the verdict.
SubmitVerifierVerdict ==
  /\ MissionLockFree
  /\ AllDone
  /\ mission.status \in {"running", "verifying"}
  /\ Quiesce("ctl", "submit")
  /\ UNCHANGED <<mission, root, task, verifier, alive, writing, overdue, errors, faults>>

\* A mission that is still running enters verification first.
BeginVerdict ==
  /\ At("ctl", "final") /\ actor["ctl"].goal = "submit" /\ mission.status = "running"
  /\ IF OpenIntents # {}
     THEN Raise("ctl") /\ UNCHANGED mission
     ELSE Transition("verifying", "verification") /\ UNCHANGED actor
  /\ UNCHANGED <<root, task, verifier, alive, writing, overdue, errors, faults>>

\* Any step of it may raise: an open intent, a Git or evidence step, an illegal
\* transition.
SubmitVerdict ==
  /\ At("ctl", "final") /\ actor["ctl"].goal = "submit" /\ mission.status # "running"
  /\ \/ Raise("ctl") /\ UNCHANGED mission
     \/ \E passed \in BOOLEAN :
          /\ OpenIntents = {} /\ Allowed(mission.status, Verdict(passed))
          /\ Transition(Verdict(passed), IF passed THEN "commit" ELSE "verification")
          /\ actor' = [actor EXCEPT !["ctl"] =
                         IF @.next = "settle"
                         THEN [Idle EXCEPT !.at = "settle", !.next = "settle"]
                         ELSE Idle]
  /\ UNCHANGED <<root, task, verifier, alive, writing, overdue, errors, faults>>

\* _settle_verifier_task: promoted if need be, then completed or blocked; a card
\* that is done, or in triage, stays.
Settled(v, passed) ==
  IF v.status \in {"done", "triage"} THEN v
  ELSE IF passed THEN Completed(Promoted(v))
  ELSE Blocked(Promoted(v), "needs_input")

\* After the verdict (and first thing on a committing mission) the tick settles
\* the verifier card; a committing level 4 mission then goes on to its commit.
SettleVerifier ==
  LET passed == mission.status \in {"awaiting_approval", "committing", "succeeded"}
  IN  /\ At("ctl", "settle")
      /\ IF passed /\ verifier.status \notin {"done", "triage"}
         THEN RecomputeReady(task, root, Settled(verifier, TRUE))
         ELSE verifier' = Settled(verifier, passed) /\ UNCHANGED <<root, task>>
      /\ actor' = [actor EXCEPT !["ctl"] =
                     IF mission.status = "committing" /\ Level = 4
                     THEN [Idle EXCEPT !.at = "kill", !.goal = "commit", !.next = "settle"]
                     ELSE Idle]
      /\ UNCHANGED <<mission, alive, writing, overdue, errors, faults>>

ApproveCommit ==
  /\ MissionLockFree
  /\ mission.status = "awaiting_approval" /\ Level = 3 /\ OpenIntents = {}
  /\ Transition("committing", "commit")
  /\ UNCHANGED <<root, task, verifier, alive, writing, actor, overdue, errors, faults>>

DenyMission ==
  /\ MissionLockFree
  /\ mission.status = "awaiting_approval" /\ OpenIntents = {}
  /\ Transition("blocked", "commit")
  /\ UNCHANGED <<root, task, verifier, alive, writing, actor, overdue, errors, faults>>

CommitMission ==
  /\ MissionLockFree
  /\ mission.status = "committing"
  /\ Quiesce("ctl", "commit")
  /\ UNCHANGED <<mission, root, task, verifier, alive, writing, overdue, errors, faults>>

\* _commit_mission_unlocked after its quiescence: the sealed tree is committed,
\* the seal does not match, or a Git or evidence step raises.
FinishCommit ==
  /\ At("ctl", "final") /\ actor["ctl"].goal = "commit"
  /\ \/ OpenIntents = {} /\ Conclude("ctl", "succeeded", "complete")
     \/ OpenIntents = {} /\ Conclude("ctl", "blocked", "commit")
     \/ Raise("ctl") /\ UNCHANGED mission
  /\ UNCHANGED <<root, task, verifier, alive, writing, overdue, errors, faults>>

\* The except clauses of controller_tick: the error is evidence, and the phase is
\* given up once its errors exceed the budget, if the mission is still in it.
CountError ==
  LET verification == actor["ctl"].goal # "commit"
      phase   == IF verification THEN "verification" ELSE "commit"
      limit   == IF verification THEN MaxVerifierRetries ELSE MaxCommitRetries
      current == mission.status = IF verification THEN "verifying" ELSE "committing"
      gaveUp  == current /\ errors[phase] + 1 > limit
  IN  /\ At("ctl", "error")
      /\ errors' = [errors EXCEPT ![phase] = Saturate(@ + 1, limit + 1)]
      /\ IF gaveUp THEN Transition("blocked", phase) ELSE UNCHANGED mission
      /\ actor' = [actor EXCEPT !["ctl"] =
                     IF gaveUp /\ verification
                     THEN [Idle EXCEPT !.at = "settle", !.next = "settle"] ELSE Idle]
      /\ UNCHANGED <<root, task, verifier, alive, writing, overdue, faults>>

Control ==
  \/ ControllerTick \/ EscalateBlockedExecutor
  \/ VerifyMission \/ EnterVerification \/ VerifierAnswers
  \/ SubmitVerifierVerdict \/ BeginVerdict \/ SubmitVerdict
  \/ SettleVerifier \/ ApproveCommit \/ DenyMission
  \/ CommitMission \/ FinishCommit \/ CountError

-----------------------------------------------------------------------------
(***************************************************************************)
(* Workers: the run number travels in HERMES_KANBAN_RUN_ID                 *)
(***************************************************************************)

\* A mutating tool checks the lease, then acts; the act outlives the check.
BeginWrite(c, r) ==
  /\ r \in alive[c] \ writing[c]
  /\ LeaseValid(c, r)
  /\ writing' = [writing EXCEPT ![c] = @ \union {r}]
  /\ UNCHANGED <<mission, root, task, verifier, alive, actor, overdue, errors, faults>>

EndWrite(c, r) ==
  /\ r \in writing[c]
  /\ writing' = [writing EXCEPT ![c] = @ \ {r}]
  /\ UNCHANGED <<mission, root, task, verifier, alive, actor, overdue, errors, faults>>

\* kanban_complete with the expected run id, between two tool calls.
Complete(c, r) ==
  /\ r \in alive[c] \ writing[c]
  /\ task[c].run = r
  /\ task[c].status \in {"running", "ready", "blocked"}
  /\ RecomputeReady([task EXCEPT ![c] = Completed(@)], root, verifier)
  /\ UNCHANGED <<mission, alive, writing, actor, overdue, errors, faults>>

\* kanban_block with the expected run id.
Block(c, r) ==
  /\ r \in alive[c] \ writing[c]
  /\ task[c].run = r
  /\ task[c].status \in {"running", "ready"}
  /\ \E kind \in BlockKind \ {"none"} : task' = [task EXCEPT ![c] = Blocked(@, kind)]
  /\ UNCHANGED <<mission, root, verifier, alive, writing, actor, overdue, errors, faults>>

\* The process ends or is killed from outside; its container goes on.
Exit(c, r) ==
  /\ r \in alive[c]
  /\ alive' = [alive EXCEPT ![c] = @ \ {r}]
  /\ UNCHANGED <<mission, root, task, verifier, writing, actor, overdue, errors, faults>>

Worker ==
  \E c \in Executor, r \in Run :
     BeginWrite(c, r) \/ EndWrite(c, r) \/ Complete(c, r) \/ Block(c, r) \/ Exit(c, r)

-----------------------------------------------------------------------------
(***************************************************************************)
(* The environment                                                         *)
(***************************************************************************)

\* Any operation on another card of the board ends in recompute_ready.
BoardActivity ==
  /\ RecomputeReady(task, root, verifier)
  /\ UNCHANGED <<mission, alive, writing, actor, overdue, errors, faults>>

DeadlinePasses ==
  /\ overdue' = TRUE
  /\ UNCHANGED <<mission, root, task, verifier, alive, writing, actor, errors, faults>>

\* The process of an actor dies, or an exception no step catches ends it.
Interrupted(a) ==
  /\ ~At(a, "idle") /\ Fault
  /\ Stop(a)
  /\ UNCHANGED <<mission, root, task, verifier, alive, writing, overdue, errors>>

Reboot ==
  /\ Fault
  /\ alive' = [c \in Executor |-> {}]
  /\ writing' = [c \in Executor |-> {}]
  /\ actor' = [a \in ActorId |-> Idle]
  /\ UNCHANGED <<mission, root, task, verifier, overdue, errors>>

Environment == BoardActivity \/ DeadlinePasses \/ Reboot \/ \E a \in ActorId : Interrupted(a)

-----------------------------------------------------------------------------

Next ==
  \/ \E a \in ActorId : Reconcile(a) \/ Quiescence(a)
  \/ DispatcherTick \/ Command \/ Control \/ Worker \/ Environment

Spec == Init /\ [][Next]_vars

\* reconcile_mission as missions.py, mission_gateway.py, the TUI server and the
\* dashboard plugin call it: under no lock.
ReconcileMission ==
  /\ At("free", "idle")
  /\ mission.status \notin TerminalMissionStatus
  /\ actor' = [actor EXCEPT !["free"] = [Idle EXCEPT !.at = "reconcile"]]
  /\ UNCHANGED <<mission, root, task, verifier, alive, writing, overdue, errors, faults>>

SpecUnlocked == Init /\ [][Next \/ ReconcileMission]_vars

-----------------------------------------------------------------------------
(***************************************************************************)
(* Properties                                                              *)
(***************************************************************************)

TypeOK ==
  /\ mission \in Mission
  /\ root \in {"blocked", "ready", "done"}
  /\ task \in [Executor -> Card]
  /\ verifier \in Card
  /\ alive \in [Executor -> SUBSET Run]
  /\ writing \in [Executor -> SUBSET Run]
  /\ actor \in [ActorId -> Actor]
  /\ overdue \in BOOLEAN
  /\ errors \in [verification : 0 .. MaxVerifierRetries + 1,
                 commit : 0 .. MaxCommitRetries + 1]
  /\ faults \in 0 .. MaxFaults

\* The runs invariant that unblock_task defends: a card points at a run exactly
\* while it is running under a claim, whatever mix of ticks, workers, commands and
\* interrupted steps rewrote it.
RunsInvariant ==
  \A c \in Executor :
    /\ (task[c].status = "running") <=> (task[c].run # NoRun)
    /\ (task[c].status = "running") <=> task[c].claimed

\* A worker that could mutate the worktree always has its mutation journaled: no
\* reconciliation, quiescence or failed spawn closes the intent of a live lease.
LeaseIsJournaled ==
  \A c \in Executor, r \in Run :
    LeaseValid(c, r) /\ r \in alive[c] => r \in task[c].open

NoneRunning == \A c \in Executor : task[c].status # "running"

\* Nothing of the mission executes and nothing is unresolved.
Quiet == OpenIntents = {} /\ \A c \in Executor : ~Occupied(task[c])

Paused == mission.status = "waiting_for_user" /\ mission.phase = "paused"

\* A pause is only reported once nothing of the mission executes any more, and
\* nothing starts to while it lasts.
PausedIsQuiet == Paused => Quiet

\* A finished mission has no running executor and no unresolved intent left.
TerminalIsSettled ==
  mission.status \in TerminalMissionStatus => NoneRunning /\ OpenIntents = {}

\* From the moment verification starts, no executor has work left to do.
VerifiedIsSettled ==
  mission.status \in {"verifying", "awaiting_approval", "committing", "succeeded"} =>
    AllDone /\ OpenIntents = {}

\* As long as no step is interrupted, the tree that is verified, approved,
\* committed or left by a finished or paused mission is one nobody writes to.
NoLateWrite ==
  /\ faults = 0
  /\ \/ mission.status \in {"verifying", "awaiting_approval", "committing"}
     \/ mission.status \in TerminalMissionStatus
     \/ Paused
  => \A c \in Executor : writing[c] = {}

\* Every writer of the ready status (recompute_ready, unblock_task, the reclaims,
\* a failed spawn) respects the parent gate that claim_task enforces last.
ParentGate ==
  \A c \in Executor :
    task[c].status \in {"ready", "running", "done"} => ParentsDone(task, root, c)

\* An unanswered pause marker never reaches a running mission, so a later resume
\* cannot requeue a card for a pause that is over.
PauseMarkerIsCurrent ==
  mission.status = "running" => \A c \in Executor : ~task[c].paused

\* Once a run lost its lease (pause, cancel, block, reclaim, completion), no later
\* command gives it back: only a new claim makes a lease valid.
LeaseNeverRevived ==
  [][\A c \in Executor, r \in Run :
       ~LeaseValid(c, r) /\ LeaseValid(c, r)' => task[c].runs < r]_vars

\* A resume requeues the cards that the pause stopped and never a card that its
\* worker blocked.
WorkerBlockSurvivesResume ==
  [][At("board", "releasing") =>
       \A c \in Executor :
         task[c].status = "blocked" /\ task[c].sticky => task'[c].status = "blocked"]_vars

\* The controller implements the abstract leases: every transaction of every actor
\* grants, journals or releases leases as ExecutionLease allows, or leaves them.
Leases ==
  INSTANCE ExecutionLease WITH
    Task       <- Executor,
    Attempt    <- Run,
    open       <- mission.status = "running",
    held       <- {l \in Executor \X Run : LeaseValid(l[1], l[2])},
    spent      <- {l \in Executor \X Run : l[2] <= task[l[1]].runs},
    unresolved <- {l \in Executor \X Run : l[2] \in task[l[1]].open}

ImplementsLeases == Leases!LeaseSpec

-----------------------------------------------------------------------------
(***************************************************************************)
(* Statements of the repository that the code does not keep                *)
(***************************************************************************)

\* "A restart-safe, evidence-gated autonomous repository mission system"
\* (README.md:6): a mission that is ready can be started, also after a command
\* was cut short.
StartIsRestartSafe ==
  mission.status = "ready" /\ CommandsFree => StartGate

\* "Complete a durable, restart-safe pause after lease revocation."
\* (mission_service.py:1263): no pause step ends the run of a running mission.
PauseRevokesFirst ==
  [][\A c \in Executor :
       ~task[c].paused /\ task'[c].paused => mission.status # "running"]_vars

-----------------------------------------------------------------------------

\* The dispatcher is a loop: whoever holds the board lock takes its next step, and
\* an idle board is ticked.
BoardStep ==
  \/ Reconcile("board") \/ Quiescence("board") \/ DispatcherTick
  \/ BeginExecution \/ CollectPaused \/ FinishResume \/ CollectBlocked \/ FinishRetry
  \/ \E c \in Executor : ResumeCard(c) \/ RequeueCard(c)

FairSpec == Spec /\ WF_vars(BoardStep)

\* Operators leave the board to the dispatcher from some point on.
OperatorsRest == <>[](BoardFree \/ Dispatching(actor["board"]))

\* An intent without a provable owner is never left on a running mission: the tick
\* blocks the mission or the intent is closed.
OrphanIsReconciled ==
  OperatorsRest =>
    \A c \in Executor :
      (mission.status = "running" /\ Orphaned(c)) ~>
      (mission.status # "running" \/ ~Orphaned(c))

\* "Cancellation already revoked the durable lease. Preserve the phase so cleanup
\* and the terminal transition retry." (mission_service.py:2600)
CancellationCompletes ==
  OperatorsRest =>
    (mission.phase = "cancelling" ~> mission.status = "cancelled")

=============================================================================
