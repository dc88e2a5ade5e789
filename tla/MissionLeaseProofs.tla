------------------------- MODULE MissionLeaseProofs -------------------------
(***************************************************************************)
(* What the leases of a mission guarantee beyond Spec => []IInv: they are  *)
(* journaled and implement ExecutionLease, pause markers are answered, no  *)
(* call outlives a quiescence; and the parent gate holds and no lease is   *)
(* revived also beside an unlocked reconciliation.                         *)
(***************************************************************************)
EXTENDS MissionExecutionProofs

-----------------------------------------------------------------------------
(***************************************************************************)
(* Every living worker of a run is journaled                               *)
(***************************************************************************)

\* Only Popen adds a worker.
LEMMA AliveSteps ==
  ASSUME TypeOK, [Next]_vars, ~SpawnWorker, NEW c \in Executor
  PROVE  alive'[c] \subseteq alive[c]
<1>a. alive \in [Executor -> SUBSET Run]
  BY DEF TypeOK
<1>1. CASE UNCHANGED vars
  BY <1>1 DEF vars
<1>2. ASSUME NEW a \in ActorId, Reconcile(a) \/ Quiescence(a) PROVE alive'[c] \subseteq alive[c]
  BY <1>2, <1>a DEF Reconcile, Quiescence, KillWorkers, WorkerSurvives, CloseRun, ProveQuiescence,
                    FinishPause, FinishCancel, FinishBlock, FinishRollback
<1>3. CASE DispatcherTick
  BY <1>3, <1>a DEF DispatcherTick, StartTick, ReleaseStaleClaim, EnforceMaxRuntime, ClaimTask,
                    DetectCrashedWorkers, PromoteReady, BeginTaskIntent, SetWorkerPid,
                    RecordSpawnFailure, EndTick
<1>4. CASE Command
  BY <1>4 DEF Command, StartMission, BeginExecution, PauseMission, ResumeMission, CollectPaused,
              FinishResume, CancelMission, RetryMission, CollectBlocked, FinishRetry, ResumeCard,
              RequeueCard, RollbackMission
<1>5. CASE Control
  BY <1>5 DEF Control, ControllerTick, EscalateBlockedExecutor, VerifyMission, EnterVerification,
              VerifierAnswers, SubmitVerifierVerdict, BeginVerdict, SubmitVerdict, SettleVerifier,
              ApproveCommit, DenyMission, CommitMission, FinishCommit, CountError
<1>6. CASE Worker \/ Environment
  BY <1>6, <1>a DEF Worker, BeginWrite, EndWrite, Complete, Block, Exit, Environment,
                    BoardActivity, DeadlinePasses, Reboot, Interrupted
<1> QED
  BY <1>1, <1>2, <1>3, <1>4, <1>5, <1>6 DEF Next

\* The control plane moves itself only.
LEMMA ControlActor == ASSUME TypeOK, Control PROVE actor'["board"] = actor["board"]
<1>b. actor \in [ActorId -> Actor] /\ "board" \in ActorId /\ "ctl" \in ActorId
  BY Actors DEF TypeOK
<1>a. \A s : actor' = [actor EXCEPT !["ctl"] = s] => actor'["board"] = actor["board"]
  BY <1>b
<1>m. /\ Raise("ctl") \/ Stop("ctl") => actor'["board"] = actor["board"]
      /\ \A label : GoTo("ctl", label) => actor'["board"] = actor["board"]
      /\ \A goal : Quiesce("ctl", goal) => actor'["board"] = actor["board"]
  BY <1>b DEF Raise, Stop, GoTo, Quiesce
<1>1. CASE ControllerTick
  BY <1>1, <1>b DEF ControllerTick
<1>2. CASE EscalateBlockedExecutor \/ FinishCommit
  BY <1>2, <1>m DEF EscalateBlockedExecutor, FinishCommit, Conclude
<1>3. CASE VerifyMission \/ SubmitVerifierVerdict \/ CommitMission
  BY <1>3, <1>m DEF VerifyMission, SubmitVerifierVerdict, CommitMission
<1>4. CASE EnterVerification \/ VerifierAnswers \/ BeginVerdict
  BY <1>4, <1>m DEF EnterVerification, VerifierAnswers, BeginVerdict
<1>5. CASE SubmitVerdict
  BY <1>5, <1>a, <1>m DEF SubmitVerdict
<1>6. CASE SettleVerifier
  BY <1>6, <1>a DEF SettleVerifier
<1>7. CASE ApproveCommit \/ DenyMission
  BY <1>7 DEF ApproveCommit, DenyMission
<1>8. CASE CountError
  BY <1>8, <1>a DEF CountError
<1> QED
  BY <1>1, <1>2, <1>3, <1>4, <1>5, <1>6, <1>7, <1>8 DEF Control

\* The step by which a resume answers the pause marker of a card.
Answers(c) ==
  /\ At("board", "releasing") /\ c \in actor["board"].left
  /\ task[c].status \in {"ready", "todo"}
  /\ task' = [task EXCEPT ![c] = ResumedByController(@)]
  /\ actor' = [actor EXCEPT !["board"].left = @ \ {c}]

\* The board does not move inside its spawn loop or its resume loop, nor into them.
Elsewhere ==
  actor'["board"] = actor["board"] \/ actor'["board"].at \notin Spawning \union {"releasing"}

\* Nobody but the tick and the resume themselves take a step of those loops.
LEMMA Loops ==
  ASSUME TypeOK, [Next \/ ReconcileMission]_vars, ~Spawn, ~SpawnWorker
  PROVE  \/ Elsewhere
         \/ /\ actor'["board"].at = "releasing"
            /\ CollectPaused \/ \E c \in Executor : Answers(c)
<1> USE DEF Spawning, Elsewhere
<1>b. actor \in [ActorId -> Actor] /\ "board" \in ActorId /\ "ctl" \in ActorId
  BY Actors DEF TypeOK
<1>r. ASSUME NEW a \in ActorId,
             Proceeds(a) \/ Raises(a) \/ Halts(a) \/ \E goal : Moves(a, "kill", goal, actor[a].next)
      PROVE  Elsewhere
  BY <1>r, Actors DEF Proceeds, Raises, Halts, Moves
<1>1. CASE UNCHANGED vars
  BY <1>1 DEF vars
<1>2. ASSUME NEW a \in ActorId, Reconcile(a)
      PROVE  Elsewhere
  BY <1>2, <1>r, ActorMoves DEF Reconcile
<1>3. ASSUME NEW a \in ActorId, Quiescence(a)
      PROVE  Elsewhere
  <2>1. CASE KillWorkers(a) \/ CloseRun(a) \/ ProveQuiescence(a)
    <3>1. \/ actor'["board"] = actor["board"]
          \/ actor'["board"].at \in {"close", "final"}
          \/ Raise(a)
      <4>1. CASE KillWorkers(a)
        BY <4>1, <1>b, Actors DEF KillWorkers, Actor
      <4>2. CASE CloseRun(a)
        BY <4>2, <1>b, Actors DEF CloseRun, Actor, At
      <4>3. CASE ProveQuiescence(a)
        BY <4>3, <1>b, Actors, ActorMoves DEF ProveQuiescence, Moves
      <4> QED
        BY <2>1, <4>1, <4>2, <4>3
    <3> QED
      BY <3>1, <1>r, ActorMoves
  <2>2. CASE WorkerSurvives(a) \/ FinishPause(a) \/ FinishCancel(a) \/ FinishBlock(a)
             \/ FinishRollback(a)
    BY <2>2, <1>r, ActorMoves
       DEF WorkerSurvives, FinishPause, FinishCancel, FinishBlock, FinishRollback, Conclude
  <2> QED
    BY <1>3, <2>1, <2>2 DEF Quiescence
<1>4. CASE DispatcherTick
  <2>1. \/ StartTick \/ DetectCrashedWorkers \/ PromoteReady \/ RecordSpawnFailure \/ EndTick
        \/ \E c \in Executor : ReleaseStaleClaim(c) \/ EnforceMaxRuntime(c)
    BY <1>4 DEF DispatcherTick, Spawn
  <2>2. CASE StartTick
    BY <2>2, <1>b DEF StartTick, Idle
  <2>3. CASE DetectCrashedWorkers \/ PromoteReady
    BY <2>3, <1>b, ActorMoves DEF DetectCrashedWorkers, PromoteReady, Moves
  <2>4. CASE RecordSpawnFailure
    BY <2>4, <1>b DEF RecordSpawnFailure, NextRow, InTick, Idle
  <2>5. CASE EndTick
    BY <2>5, <1>b, <1>r, ActorMoves DEF EndTick
  <2>6. CASE \E c \in Executor : ReleaseStaleClaim(c) \/ EnforceMaxRuntime(c)
    BY <2>6 DEF ReleaseStaleClaim, EnforceMaxRuntime
  <2> QED
    BY <2>1, <2>2, <2>3, <2>4, <2>5, <2>6
<1>5. CASE Command
  <2>1. CASE StartMission
    BY <2>1, <1>b, ActorMoves DEF StartMission, Moves
  <2>2. CASE BeginExecution \/ FinishResume \/ FinishRetry
    BY <2>2, <1>b, <1>r, ActorMoves DEF BeginExecution, FinishResume, FinishRetry, Conclude
  <2>3. CASE PauseMission \/ CancelMission \/ RollbackMission
    BY <2>3, <1>b, <1>r, ActorMoves DEF PauseMission, CancelMission, RollbackMission
  <2>4. CASE ResumeMission \/ RetryMission
    BY <2>4, <1>b DEF ResumeMission, RetryMission, Idle
  <2>5. CASE CollectPaused
    BY <2>5, <1>b DEF CollectPaused, Actor
  <2>6. CASE CollectBlocked
    <3>1. actor'["board"].at = "requeueing" \/ Raise("board")
      BY <2>6, <1>b DEF CollectBlocked, Actor
    <3> QED
      BY <3>1, <1>b, <1>r, ActorMoves
  <2>7. CASE \E c \in Executor : RequeueCard(c)
    <3>1. actor'["board"].at = "requeueing" \/ Raise("board")
      BY <2>7, <1>b DEF RequeueCard, Actor, At
    <3> QED
      BY <3>1, <1>b, <1>r, ActorMoves
  <2>8. ASSUME NEW c \in Executor, ResumeCard(c)
        PROVE  UNCHANGED actor \/ (actor'["board"].at = "releasing" /\ Answers(c))
    BY <2>8, <1>b DEF ResumeCard, Answers, Actor, At
  <2> QED
    BY <1>5, <2>1, <2>2, <2>3, <2>4, <2>5, <2>6, <2>7, <2>8 DEF Command
<1>6. CASE Control
  BY <1>6, ControlActor
<1>7. CASE Worker \/ Environment
  <2>1. UNCHANGED actor \/ Reboot \/ \E a \in ActorId : Stop(a)
    BY <1>7 DEF Worker, BeginWrite, EndWrite, Complete, Block, Exit, Environment, BoardActivity,
                DeadlinePasses, Interrupted
  <2>2. CASE Reboot
    BY <2>2, <1>b DEF Reboot, Idle
  <2> QED
    BY <2>1, <2>2, <1>r, ActorMoves
<1>8. CASE ReconcileMission
  BY <1>8, <1>b, Actors DEF ReconcileMission
<1> QED
  BY <1>1, <1>2, <1>3, <1>4, <1>5, <1>6, <1>7, <1>8 DEF Next

\* The states a mission starts from.
LEMMA InitJournal == Init => JInv
BY DEF Init, NewCard, NoRun, JInv, HandedOut, RunIsJournaled, SpawnPosition, Spawning, Idle, ActorId

\* A step that neither claims, journals nor spawns keeps the journal's invariant:
\* it hands out no run, starts no worker, and leaves a card that runs as it was.
LEMMA JournalRests ==
  ASSUME IInv, JInv, IInv', TaskSafe, [Next]_vars, ~Spawn, ~SpawnWorker PROVE JInv'
<1>t. /\ \A c \in Executor : task[c] \in Card /\ task'[c] \in Card /\ Safe(task[c], task'[c])
      /\ TypeOK
  BY DEF IInv, TypeOK, TaskSafe
<1>a. \A c \in Executor : alive'[c] \subseteq alive[c]
  BY <1>t, AliveSteps
<1>r. \A c \in Executor : task'[c].status # "running" => task'[c].run = NoRun
  BY DEF IInv, RunsInvariant
<1>1. HandedOut'
  <2> SUFFICES ASSUME NEW c \in Executor
               PROVE  /\ task'[c].run <= task'[c].runs
                      /\ alive'[c] \union task'[c].open \subseteq 1 .. task'[c].runs
    BY DEF HandedOut
  <2>1. task'[c].runs = task[c].runs /\ task'[c].open \subseteq task[c].open
    BY <1>t DEF Safe
  <2>2. task'[c].run <= task'[c].runs
    BY <1>t, <1>r, <2>1 DEF JInv, HandedOut, Safe, NoRun, Card
  <2> QED
    BY <1>a, <2>1, <2>2 DEF JInv, HandedOut
<1>2. RunIsJournaled'
  BY <1>t, <1>a DEF JInv, RunIsJournaled, Safe
<1>3. SpawnPosition'
  <2>1. CASE actor'["board"].at \notin Spawning
    BY <2>1 DEF SpawnPosition
  <2>2. CASE actor'["board"] = actor["board"] /\ actor'["board"].at \in Spawning
    <3>1. SpawnCard' = SpawnCard /\ SpawnRun' = SpawnRun /\ SpawnCard \in Executor
      BY <2>2 DEF SpawnCard, SpawnRun, IInv, Exclusion, SpawnTyped
    <3> QED
      BY <1>t, <1>a, <2>2, <3>1 DEF JInv, SpawnPosition, Safe
  <2> QED
    BY <1>t, <2>1, <2>2, Loops DEF Elsewhere, Spawning
<1> QED
  BY <1>1, <1>2, <1>3 DEF JInv

\* The four steps of a spawn, in their order.
LEMMA JournalSpawns ==
  ASSUME IInv, JInv, IInv', Spawn \/ SpawnWorker PROVE JInv'
<1> USE DEF Spawning, At
<1>t. task \in [Executor -> Card] /\ alive \in [Executor -> SUBSET Run]
  BY DEF IInv, TypeOK
<1>b. actor \in [ActorId -> Actor] /\ "board" \in ActorId /\ actor["board"] \in Actor
  BY Actors DEF IInv, TypeOK
<1>s. actor["board"].at \in Spawning => SpawnCard \in Executor /\ SpawnRun \in Run
  BY DEF IInv, Exclusion, SpawnTyped
<1>r. Run = 1 .. MaxRun /\ NoRun = 0
  BY DEF Run, NoRun
<1>1. ASSUME NEW c \in Executor, ClaimTask(c) PROVE JInv'
  <2>1. /\ task[c] \in Card /\ task[c].runs < MaxRun /\ task[c].open = {}
        /\ task' = [task EXCEPT ![c] = Claimed(task[c])] /\ alive' = alive
    BY <1>1, <1>t DEF ClaimTask
  <2>2. /\ Claimed(task[c]).run = task[c].runs + 1 /\ Claimed(task[c]).runs = task[c].runs + 1
        /\ Claimed(task[c]).open = {} /\ Claimed(task[c]).status = "running"
    BY <2>1, ClaimedType DEF Claimed, Card
  <2>3. task[c].runs \in Nat /\ task[c].runs + 1 \notin alive[c]
    BY <2>1, CardAssumption DEF JInv, HandedOut, Card
  <2>4. /\ actor'["board"].at = "claimed" /\ SpawnCard' = c /\ SpawnRun' = task[c].runs + 1
    BY <1>1, <1>b DEF ClaimTask, SpawnCard, SpawnRun, Actor
  <2>5. HandedOut'
    <3> SUFFICES ASSUME NEW d \in Executor
                 PROVE  /\ task'[d].run <= task'[d].runs
                        /\ alive'[d] \union task'[d].open \subseteq 1 .. task'[d].runs
      BY DEF HandedOut
    <3>1. CASE d = c
      BY <1>t, <2>1, <2>2, <2>3, <3>1 DEF JInv, HandedOut
    <3>2. CASE d # c
      BY <1>t, <2>1, <3>2 DEF JInv, HandedOut
    <3> QED
      BY <3>1, <3>2
  <2>6. RunIsJournaled'
    BY <1>t, <2>1, <2>2, <2>3 DEF JInv, RunIsJournaled
  <2>7. SpawnPosition'
    BY <1>t, <2>1, <2>2, <2>3, <2>4 DEF SpawnPosition
  <2> QED
    BY <2>5, <2>6, <2>7 DEF JInv
<1>2. CASE BeginTaskIntent
  <2>1. /\ SpawnCard \in Executor /\ SpawnRun \in Run /\ SpawnRun = task[SpawnCard].runs
        /\ SpawnRun \notin alive[SpawnCard] /\ alive' = alive
        /\ task' = [task EXCEPT ![SpawnCard] = IntentOpened(task[SpawnCard], SpawnRun)]
    BY <1>2, <1>s DEF BeginTaskIntent, JInv, SpawnPosition
  <2>2. \A c \in Executor :
          /\ task'[c].status = task[c].status /\ task'[c].run = task[c].run
          /\ task'[c].runs = task[c].runs
          /\ task'[c].open = IF c = SpawnCard THEN task[c].open \union {SpawnRun} ELSE task[c].open
    BY <1>t, <2>1 DEF IntentOpened, Card
  <2>3. actor'["board"].at = "journaled" /\ SpawnCard' = SpawnCard /\ SpawnRun' = SpawnRun
    BY <1>2, <1>b, ActorMoves DEF BeginTaskIntent, SpawnCard, SpawnRun, Moves, IInv
  <2>a. /\ SpawnCard \in Executor /\ SpawnRun = task[SpawnCard].runs
        /\ SpawnRun \in 1 .. task[SpawnCard].runs
        /\ SpawnRun \notin alive[SpawnCard] /\ alive' = alive
    <3>1. /\ SpawnCard \in Executor /\ SpawnRun = task[SpawnCard].runs
          /\ SpawnRun \in 1 .. MaxRun /\ SpawnRun \notin alive[SpawnCard] /\ alive' = alive
      BY <2>1, <1>r
    <3> QED
      BY <3>1, CardAssumption
  <2>4. HandedOut'
    <3> SUFFICES ASSUME NEW d \in Executor
                 PROVE  /\ task'[d].run <= task'[d].runs
                        /\ alive'[d] \union task'[d].open \subseteq 1 .. task'[d].runs
      BY DEF HandedOut
    <3>1. CASE d = SpawnCard
      <4>1. /\ task'[d].run = task[d].run /\ task'[d].runs = task[d].runs
            /\ task'[d].open = task[d].open \union {SpawnRun}
            /\ SpawnRun \in 1 .. task[d].runs /\ alive' = alive
        BY <2>a, <2>2, <3>1
      <4> QED
        BY <4>1 DEF JInv, HandedOut
    <3>2. CASE d # SpawnCard
      BY <2>a, <2>2, <3>2 DEF JInv, HandedOut
    <3> QED
      BY <3>1, <3>2
  <2>5. RunIsJournaled'
    BY <2>a, <2>2 DEF JInv, RunIsJournaled
  <2>6. SpawnPosition'
    BY <1>2, <2>1, <2>2, <2>3 DEF JInv, SpawnPosition, BeginTaskIntent
  <2> QED
    BY <2>4, <2>5, <2>6 DEF JInv
<1>3. CASE SpawnWorker
  <2>1. /\ SpawnCard \in Executor /\ SpawnRun \in Run /\ SpawnRun = task[SpawnCard].runs
        /\ task[SpawnCard].status = "running" =>
             task[SpawnCard].run = SpawnRun /\ SpawnRun \in task[SpawnCard].open
        /\ task' = task /\ alive' = [alive EXCEPT ![SpawnCard] = @ \union {SpawnRun}]
    BY <1>3, <1>s DEF SpawnWorker, JInv, SpawnPosition
  <2>2. actor'["board"].at = "spawned" /\ SpawnCard' = SpawnCard /\ SpawnRun' = SpawnRun
    BY <1>3, <1>b, ActorMoves DEF SpawnWorker, SpawnCard, SpawnRun, Moves, IInv
  <2>3. HandedOut'
    <3> SUFFICES ASSUME NEW d \in Executor
                 PROVE  /\ task'[d].run <= task'[d].runs
                        /\ alive'[d] \union task'[d].open \subseteq 1 .. task'[d].runs
      BY DEF HandedOut
    <3>1. SpawnRun \in 1 .. task[SpawnCard].runs
      BY <1>r, <2>1, CardAssumption
    <3> QED
      BY <1>t, <2>1, <3>1 DEF JInv, HandedOut
  <2>4. RunIsJournaled'
    BY <1>t, <2>1 DEF JInv, RunIsJournaled
  <2>5. SpawnPosition'
    BY <2>1, <2>2 DEF SpawnPosition
  <2> QED
    BY <2>3, <2>4, <2>5 DEF JInv
<1>4. CASE SetWorkerPid
  <2>1. SpawnCard \in Executor /\ alive' = alive
    BY <1>4, <1>s DEF SetWorkerPid
  <2>2. \A c \in Executor :
          /\ task'[c].status = task[c].status /\ task'[c].run = task[c].run
          /\ task'[c].runs = task[c].runs /\ task'[c].open = task[c].open
    BY <1>4, <1>t, <2>1 DEF SetWorkerPid, PidRecorded, Card
  <2>3. actor'["board"].at = "scan"
    BY <1>4, <1>b DEF SetWorkerPid, NextRow, InTick, Idle
  <2> QED
    BY <2>1, <2>2, <2>3 DEF JInv, HandedOut, RunIsJournaled, SpawnPosition
<1> QED
  BY <1>1, <1>2, <1>3, <1>4 DEF Spawn

\* Every step keeps the journal's invariant.
LEMMA NextJournal == IInv /\ JInv /\ [Next]_vars => JInv'
<1> SUFFICES ASSUME IInv, JInv, [Next]_vars PROVE JInv'
  OBVIOUS
<1>1. IInv'
  BY NextInvariant
<1>2. CASE Spawn \/ SpawnWorker
  BY <1>1, <1>2, JournalSpawns
<1>3. CASE ~Spawn /\ ~SpawnWorker
  <2>1. TaskSafe
    BY <1>3, NextSafe, UnchangedSafe DEF vars, IInv
  <2> QED
    BY <1>1, <1>3, <2>1, JournalRests
<1> QED
  BY <1>2, <1>3

\* Who could mutate the worktree has its mutation on record: no reconciliation,
\* quiescence, reclaim or failed spawn closes the intent of a live lease.
THEOREM LeasesAreJournaled == Spec => []LeaseIsJournaled
<1>1. Init => JInv
  BY InitJournal
<1>2. IInv /\ JInv /\ [Next]_vars => JInv'
  BY NextJournal
<1>3. JInv => LeaseIsJournaled
  BY DEF JInv, RunIsJournaled, LeaseIsJournaled, LeaseValid
<1> QED
  BY <1>1, <1>2, <1>3, Invariance, PTL DEF Spec

-----------------------------------------------------------------------------
(***************************************************************************)
(* What a step makes of the markers and of the status of one card          *)
(***************************************************************************)

\* The statuses behind the parent gate.
Past == {"ready", "running", "done"}

\* A transaction that leaves the pause marker alone, does not mix it with a worker's
\* block, opens no gate and moves no card at rest.
Settles(t, u) ==
  /\ Marked(t) => Marked(u)
  /\ u.paused = t.paused
  /\ t.status \notin {"running", "ready"} => u.status = t.status
  /\ u.status \in Past => t.status \in Past

\* The transactions that end the run of a running card.
LEMMA EndSettles ==
  ASSUME NEW t \in Card, t.status = "running"
  PROVE  /\ Settles(t, Completed(t)) /\ Settles(t, Reclaimed(t))
         /\ \A kind \in BlockKind : Settles(t, Blocked(t, kind))
         /\ \A limit : Settles(t, FailureCounted(Reclaimed(t), limit))
<1> USE DEF Settles, Marked, Past
<1>1. Settles(t, Completed(t))
  BY DEF Completed, Released, IntentClosed, Card
<1>2. Settles(t, Reclaimed(t))
  BY DEF Reclaimed, Released, Card
<1>3. ASSUME NEW kind \in BlockKind PROVE Settles(t, Blocked(t, kind))
  BY DEF Blocked, Released, IntentClosed, Card
<1>4. ASSUME NEW limit PROVE Settles(t, FailureCounted(Reclaimed(t), limit))
  BY DEF FailureCounted, Reclaimed, Released, Card
<1> QED
  BY <1>1, <1>2, <1>3, <1>4

\* The others that do.
LEMMA OtherSettles ==
  ASSUME NEW t \in Card
  PROVE  /\ Settles(t, t) /\ Settles(t, [t EXCEPT !.open = {}]) /\ Settles(t, SpawnFailed(t))
         /\ \A r : Settles(t, IntentOpened(t, r)) /\ Settles(t, PidRecorded(t, r))
<1> USE DEF Settles, Marked, Past
<1>1. Settles(t, SpawnFailed(t))
  BY DEF SpawnFailed, Released, IntentClosed, Card
<1>2. Settles(t, t) /\ Settles(t, [t EXCEPT !.open = {}])
  BY DEF Card
<1>3. ASSUME NEW r PROVE Settles(t, IntentOpened(t, r)) /\ Settles(t, PidRecorded(t, r))
  BY DEF IntentOpened, PidRecorded, Card
<1> QED
  BY <1>1, <1>2, <1>3

\* recompute_ready promotes through the gate: what is done stays done under it.
LEMMA RecomputeGate ==
  ASSUME NEW ts \in [Executor -> Card], NEW r, NEW v, RecomputeReady(ts, r, v), NEW c \in Executor
  PROVE  \/ task'[c] = ts[c]
         \/ Promotable(ts[c]) /\ task'[c] = Promoted(ts[c]) /\ ParentsDone(task', root', c)
<1>1. \A p \in Executor : ts[p].status = "done" => task'[p].status = "done"
  BY DEF RecomputeReady, Promotable
<1>2. r = "done" => root' = "done"
  BY DEF RecomputeReady
<1>3. Parents[c] \subseteq Executor
  BY ExecutionAssumption
<1>4. ParentsDone(ts, r, c) => ParentsDone(task', root', c)
  BY <1>1, <1>2, <1>3 DEF ParentsDone
<1> QED
  BY <1>4 DEF RecomputeReady

\* The step by which a quiescence marks a card as paused.
Pauses(c) ==
  \E a \in ActorId :
    /\ At(a, "close") /\ actor[a].goal = "pause"
    /\ task[c].status = "running" /\ task'[c] = PausedByController(task[c])
    /\ UNCHANGED mission

\* The step by which a resume or a retry takes a blocked card back.
Unblocks(c) ==
  /\ At("board", "releasing") \/ At("board", "requeueing")
  /\ c \in actor["board"].left
  /\ task[c].status = "blocked" /\ task'[c] = Unblocked(task[c], ParentsDone(task, root, c))

\* Everything else either settles a card, claims it, or takes it through the gate.
CardStep(c) ==
  \/ Settles(task[c], task'[c])
  \/ ClaimTask(c)
  \/ Pauses(c)
  \/ Answers(c)
  \/ Promotable(task[c]) /\ task'[c] = Promoted(task[c]) /\ ParentsDone(task', root', c)
  \/ Unblocks(c)

\* A recomputation is such a step on every card.
LEMMA RecomputeSteps ==
  ASSUME TypeOK, NEW r, NEW v, RecomputeReady(task, r, v), NEW c \in Executor PROVE CardStep(c)
<1>1. task \in [Executor -> Card]
  BY DEF TypeOK
<1> QED
  BY <1>1, RecomputeGate, OtherSettles DEF CardStep

\* A step of a quiescence is.
LEMMA QuiescenceCardSteps ==
  ASSUME TypeOK, NEW a \in ActorId, Quiescence(a), NEW c \in Executor PROVE CardStep(c)
<1>t. task \in [Executor -> Card] /\ task[c] \in Card
  BY DEF TypeOK
<1>u. CASE task' = task
  BY <1>u, <1>t, OtherSettles DEF CardStep
<1>o. CASE task' = [d \in Executor |-> [task[d] EXCEPT !.open = {}]]
  BY <1>o, <1>t, OtherSettles DEF CardStep
<1>1. CASE CloseRun(a)
  <2>1. PICK d \in actor[a].left :
          /\ task[d].status = "running"
          /\ \/ task' = [task EXCEPT ![d] = PausedByController(@)] /\ actor[a].goal = "pause"
             \/ task' = [task EXCEPT ![d] = Blocked(@, "needs_input")]
             \/ task' = task
    BY <1>1 DEF CloseRun
  <2>2. d \in Executor
    BY <2>1, ActorSteps DEF Actor
  <2>3. CASE d # c
    <3>1. task'[c] = task[c]
      BY <1>t, <2>1, <2>2, <2>3
    <3> QED
      BY <1>t, <3>1, OtherSettles DEF CardStep
  <2>4. CASE d = c /\ task' = [task EXCEPT ![d] = PausedByController(@)] /\ actor[a].goal = "pause"
    <3>1. task'[c] = PausedByController(task[c])
      BY <1>t, <2>4
    <3>2. At(a, "close") /\ UNCHANGED mission
      BY <1>1 DEF CloseRun
    <3> QED
      BY <2>1, <2>4, <3>1, <3>2 DEF CardStep, Pauses
  <2>5. CASE d = c /\ task' = [task EXCEPT ![d] = Blocked(@, "needs_input")]
    <3>1. task'[c] = Blocked(task[c], "needs_input")
      BY <1>t, <2>5
    <3> QED
      BY <1>t, <2>1, <2>5, <3>1, EndSettles, Ranges DEF CardStep
  <2> QED
    BY <2>1, <2>3, <2>4, <2>5, <1>u
<1> QED
  BY <1>1, <1>u, <1>o DEF Quiescence, KillWorkers, WorkerSurvives, ProveQuiescence, FinishPause,
                          FinishCancel, FinishBlock, FinishRollback

\* A step of a tick is.
LEMMA TickCardSteps ==
  ASSUME TypeOK, SpawnTyped, DispatcherTick, NEW c \in Executor PROVE CardStep(c)
<1> USE DEF At
<1>t. task \in [Executor -> Card] /\ task[c] \in Card
  BY DEF TypeOK
<1>u. CASE task'[c] = task[c]
  BY <1>u, <1>t, OtherSettles DEF CardStep
<1>e. ASSUME NEW d \in Executor, NEW u, task' = [task EXCEPT ![d] = u], Settles(task[d], u)
      PROVE  CardStep(c)
  BY <1>e, <1>t, <1>u DEF CardStep
<1>1. ASSUME NEW d \in Executor, ReleaseStaleClaim(d) \/ EnforceMaxRuntime(d) PROVE CardStep(c)
  BY <1>1, <1>t, <1>e, EndSettles DEF ReleaseStaleClaim, EnforceMaxRuntime
<1>2. ASSUME NEW d \in Executor, ClaimTask(d) PROVE CardStep(c)
  <2>1. d # c => task'[c] = task[c]
    BY <1>2, <1>t DEF ClaimTask
  <2> QED
    BY <1>2, <1>u, <2>1 DEF CardStep
<1>3. CASE DetectCrashedWorkers
  <2>1. \/ task'[c] = task[c]
        \/ /\ task[c].status = "running"
           /\ \/ task'[c] = Reclaimed(task[c])
              \/ \E limit : task'[c] = FailureCounted(Reclaimed(task[c]), limit)
    <3> DEFINE dead == {d \in Executor : /\ task[d].status = "running" /\ task[d].claimed
                                        /\ task[d].pid # NoRun /\ task[d].pid \notin alive[d]}
               after(crashed, counted, limit) ==
                 [d \in Executor |->
                    CASE d \in counted -> FailureCounted(Reclaimed(task[d]), limit[d])
                      [] d \in crashed \ counted -> Reclaimed(task[d])
                      [] OTHER -> task[d]]
    <3>1. PICK crashed \in SUBSET dead : \E counted \in SUBSET crashed :
                 \E limit \in [counted -> {1, FailureLimit}] : task' = after(crashed, counted, limit)
      BY <1>3 DEF DetectCrashedWorkers
    <3>2. PICK counted \in SUBSET crashed : \E limit \in [counted -> {1, FailureLimit}] :
                 task' = after(crashed, counted, limit)
      BY <3>1
    <3>3. PICK limit \in [counted -> {1, FailureLimit}] : task' = after(crashed, counted, limit)
      BY <3>2
    <3>4. CASE c \in counted
      <4>1. task'[c] = FailureCounted(Reclaimed(task[c]), limit[c])
        BY <3>3, <3>4
      <4> QED
        BY <3>4, <4>1
    <3>5. CASE c \in crashed \ counted
      <4>1. task'[c] = Reclaimed(task[c])
        BY <3>3, <3>5
      <4> QED
        BY <3>5, <4>1
    <3>6. CASE c \notin crashed
      BY <3>3, <3>6
    <3> QED
      BY <3>4, <3>5, <3>6
  <2> QED
    BY <1>t, <1>u, <2>1, EndSettles DEF CardStep
<1>4. CASE PromoteReady
  BY <1>4, RecomputeSteps DEF PromoteReady
<1>5. CASE BeginTaskIntent \/ SetWorkerPid \/ RecordSpawnFailure
  <2>1. SpawnCard \in Executor /\ task[SpawnCard] \in Card
    BY <1>5, <1>t DEF BeginTaskIntent, SetWorkerPid, RecordSpawnFailure, SpawnTyped, Spawning
  <2>2. \/ task' = [task EXCEPT ![SpawnCard] = IntentOpened(task[SpawnCard], SpawnRun)]
        \/ task' = [task EXCEPT ![SpawnCard] = PidRecorded(task[SpawnCard], SpawnRun)]
        \/ task' = [task EXCEPT ![SpawnCard] = SpawnFailed(task[SpawnCard])]
    BY <1>5 DEF BeginTaskIntent, SetWorkerPid, RecordSpawnFailure
  <2> QED
    BY <1>e, <2>1, <2>2, OtherSettles
<1>6. CASE StartTick \/ SpawnWorker \/ EndTick
  BY <1>6, <1>u DEF StartTick, SpawnWorker, EndTick
<1> QED
  BY <1>1, <1>2, <1>3, <1>4, <1>5, <1>6 DEF DispatcherTick

\* A step of a command is.
LEMMA CommandCardSteps ==
  ASSUME TypeOK, Command, NEW c \in Executor PROVE CardStep(c)
<1>t. task \in [Executor -> Card] /\ task[c] \in Card
  BY DEF TypeOK
<1>u. CASE task'[c] = task[c]
  BY <1>u, <1>t, OtherSettles DEF CardStep
<1>1. CASE StartMission
  BY <1>1, RecomputeSteps DEF StartMission
<1>2. ASSUME NEW d \in Executor, ResumeCard(d) PROVE CardStep(c)
  <2>1. d # c => task'[c] = task[c]
    BY <1>2, <1>t DEF ResumeCard
  <2>2. CASE d = c /\ task[d].status = "blocked"
             /\ task' = [task EXCEPT ![d] = Unblocked(@, ParentsDone(task, root, d))]
    BY <1>2, <2>2, <1>t DEF CardStep, Unblocks, ResumeCard, RequeueCard
  <2>3. CASE d = c /\ Answers(d)
    BY <2>3 DEF CardStep
  <2> QED
    BY <1>2, <1>u, <2>1, <2>2, <2>3 DEF ResumeCard, Answers
<1>3. ASSUME NEW d \in Executor, RequeueCard(d) PROVE CardStep(c)
  <2>1. d # c => task'[c] = task[c]
    BY <1>3, <1>t DEF RequeueCard
  <2>2. CASE d = c /\ task[d].status = "blocked"
             /\ task' = [task EXCEPT ![d] = Unblocked(@, ParentsDone(task, root, d))]
    BY <1>3, <2>2, <1>t DEF CardStep, Unblocks, ResumeCard, RequeueCard
  <2> QED
    BY <1>3, <1>u, <2>1, <2>2 DEF RequeueCard
<1>4. CASE BeginExecution \/ PauseMission \/ ResumeMission \/ CollectPaused \/ FinishResume
           \/ CancelMission \/ RetryMission \/ CollectBlocked \/ FinishRetry \/ RollbackMission
  BY <1>4, <1>u DEF BeginExecution, PauseMission, ResumeMission, CollectPaused, FinishResume,
                    CancelMission, RetryMission, CollectBlocked, FinishRetry, RollbackMission
<1> QED
  BY <1>1, <1>2, <1>3, <1>4 DEF Command

\* A step of the control plane is.
LEMMA ControlCardSteps ==
  ASSUME TypeOK, Control, NEW c \in Executor PROVE CardStep(c)
<1>t. task \in [Executor -> Card] /\ task[c] \in Card
  BY DEF TypeOK
<1>1. CASE SettleVerifier
  <2>1. UNCHANGED task \/ RecomputeReady(task, root, Settled(verifier, TRUE))
    BY <1>1 DEF SettleVerifier
  <2> QED
    BY <1>t, <2>1, RecomputeSteps, OtherSettles DEF CardStep
<1>2. CASE UNCHANGED task
  BY <1>2, <1>t, OtherSettles DEF CardStep
<1> QED
  BY <1>1, <1>2 DEF Control, ControllerTick, EscalateBlockedExecutor, VerifyMission,
         EnterVerification, VerifierAnswers, SubmitVerifierVerdict, BeginVerdict, SubmitVerdict,
         ApproveCommit, DenyMission, CommitMission, FinishCommit, CountError

\* A step of a worker or of the environment is: a worker that ends its run is the one
\* of a running card.
LEMMA WorkerCardSteps ==
  ASSUME TypeOK, RunsInvariant, Worker \/ Environment, NEW c \in Executor PROVE CardStep(c)
<1>t. task \in [Executor -> Card] /\ task[c] \in Card
  BY DEF TypeOK
<1>u. CASE task'[c] = task[c]
  BY <1>u, <1>t, OtherSettles DEF CardStep
<1>r. ASSUME NEW d \in Executor, NEW r \in Run, task[d].run = r PROVE task[d].status = "running"
  BY <1>r, Ranges DEF RunsInvariant
<1>1. ASSUME NEW d \in Executor, NEW r \in Run, Complete(d, r) PROVE CardStep(c)
  <2> DEFINE ts == [task EXCEPT ![d] = Completed(task[d])]
  <2>1. task[d].status = "running" /\ task[d] \in Card
    BY <1>1, <1>r, <1>t DEF Complete
  <2>2. ts \in [Executor -> Card]
    BY <1>t, <2>1, CompletedSafe DEF Safe
  <2>3. ts[c] = IF c = d THEN Completed(task[c]) ELSE task[c]
    BY <1>t
  <2> HIDE DEF ts
  <2>4. RecomputeReady(ts, root, verifier)
    BY <1>1 DEF Complete, ts
  <2>5. \/ task'[c] = ts[c]
        \/ Promotable(ts[c]) /\ task'[c] = Promoted(ts[c]) /\ ParentsDone(task', root', c)
    BY <2>2, <2>4, RecomputeGate
  <2>6. CASE c = d
    <3>1. ~Promotable(ts[c])
      BY <2>1, <2>3, <2>6 DEF Completed, Released, IntentClosed, Promotable, Card
    <3> QED
      BY <2>1, <2>3, <2>5, <2>6, <3>1, EndSettles DEF CardStep
  <2>7. CASE c # d
    BY <1>u, <2>3, <2>5, <2>7 DEF CardStep
  <2> QED
    BY <2>6, <2>7
<1>2. ASSUME NEW d \in Executor, NEW r \in Run, Block(d, r) PROVE CardStep(c)
  <2>1. task[d].status = "running"
    BY <1>2, <1>r DEF Block
  <2>2. PICK kind \in BlockKind : task' = [task EXCEPT ![d] = Blocked(task[d], kind)]
    BY <1>2 DEF Block
  <2>3. d # c => task'[c] = task[c]
    BY <2>2, <1>t
  <2>4. d = c => task'[c] = Blocked(task[c], kind)
    BY <2>2, <1>t
  <2> QED
    BY <1>t, <1>u, <2>1, <2>3, <2>4, EndSettles DEF CardStep
<1>3. CASE BoardActivity
  BY <1>3, RecomputeSteps DEF BoardActivity
<1>4. CASE UNCHANGED task
  BY <1>4, <1>u
<1> QED
  BY <1>1, <1>2, <1>3, <1>4 DEF Worker, BeginWrite, EndWrite, Exit, Environment, DeadlinePasses,
                                Reboot, Interrupted

\* Every step is, also an unlocked reconciliation.
LEMMA CardSteps ==
  ASSUME TypeOK, RunsInvariant, SpawnTyped, [Next \/ ReconcileMission]_vars, NEW c \in Executor
  PROVE  CardStep(c)
<1>t. task \in [Executor -> Card] /\ task[c] \in Card
  BY DEF TypeOK
<1>1. CASE UNCHANGED task
  BY <1>1, <1>t, OtherSettles DEF CardStep
<1>2. CASE Next
  <2>1. ASSUME NEW a \in ActorId, Reconcile(a) PROVE UNCHANGED task
    BY <2>1 DEF Reconcile
  <2> QED
    BY <1>1, <1>2, <2>1, QuiescenceCardSteps, TickCardSteps, CommandCardSteps, ControlCardSteps,
       WorkerCardSteps DEF Next
<1> QED
  BY <1>1, <1>2 DEF ReconcileMission, vars

-----------------------------------------------------------------------------
(***************************************************************************)
(* The parent gate and the verified tree, also beside a reconciliation     *)
(* that holds no lock                                                      *)
(***************************************************************************)

\* A card that is done stays done.
LEMMA DoneStays ==
  ASSUME NEW c \in Executor, task[c] \in Card, task[c].status = "done", TypeOK, CardStep(c)
  PROVE  task'[c].status = "done"
BY DEF CardStep, Settles, ClaimTask, Pauses, Answers, Unblocks, Promotable

\* So does the start latch.
LEMMA LatchStays ==
  ASSUME [Next \/ ReconcileMission]_vars, root = "done" PROVE root' = "done"
<1>r. ASSUME NEW ts, NEW r \in {root, "done"}, NEW v, RecomputeReady(ts, r, v) PROVE root' = "done"
  BY <1>r DEF RecomputeReady
<1>1. ASSUME NEW a \in ActorId, Reconcile(a) \/ Quiescence(a) PROVE root' = "done"
  BY <1>1 DEF Reconcile, Quiescence, KillWorkers, WorkerSurvives, CloseRun, ProveQuiescence,
              FinishPause, FinishCancel, FinishBlock, FinishRollback
<1>2. CASE DispatcherTick
  BY <1>2, <1>r DEF DispatcherTick, StartTick, ReleaseStaleClaim, EnforceMaxRuntime, ClaimTask,
                    DetectCrashedWorkers, PromoteReady, BeginTaskIntent, SpawnWorker, SetWorkerPid,
                    RecordSpawnFailure, EndTick
<1>3. CASE Command
  BY <1>3, <1>r DEF Command, StartMission, BeginExecution, PauseMission, ResumeMission,
                    CollectPaused, FinishResume, CancelMission, RetryMission, CollectBlocked,
                    FinishRetry, ResumeCard, RequeueCard, RollbackMission
<1>4. CASE Control
  BY <1>4, <1>r DEF Control, ControllerTick, EscalateBlockedExecutor, VerifyMission,
                    EnterVerification, VerifierAnswers, SubmitVerifierVerdict, BeginVerdict,
                    SubmitVerdict, SettleVerifier, ApproveCommit, DenyMission, CommitMission,
                    FinishCommit, CountError
<1>5. CASE Worker \/ Environment
  BY <1>5, <1>r DEF Worker, BeginWrite, EndWrite, Complete, Block, Exit, Environment, BoardActivity,
                    DeadlinePasses, Reboot, Interrupted
<1> QED
  BY <1>1, <1>2, <1>3, <1>4, <1>5 DEF Next, ReconcileMission, vars

\* Every step keeps the parent gate.
LEMMA NextGate ==
  ASSUME TypeOK, RunsInvariant, SpawnTyped, ParentGate, [Next \/ ReconcileMission]_vars
  PROVE  ParentGate'
<1>t. task \in [Executor -> Card]
  BY DEF TypeOK
<1>s. \A c \in Executor : CardStep(c)
  BY CardSteps
<1>1. ASSUME NEW c \in Executor, ParentsDone(task, root, c) PROVE ParentsDone(task', root', c)
  <2>1. Parents[c] \subseteq Executor
    BY ExecutionAssumption
  <2>2. root = "done" => root' = "done"
    BY LatchStays
  <2>3. \A p \in Executor : task[p].status = "done" => task'[p].status = "done"
    BY <1>t, <1>s, DoneStays
  <2> QED
    BY <1>1, <2>1, <2>2, <2>3 DEF ParentsDone
<1> SUFFICES ASSUME NEW c \in Executor, task'[c].status \in Past PROVE ParentsDone(task', root', c)
  BY DEF ParentGate, Past
<1>p. task[c] \in Card /\ (task[c].status \in Past => ParentsDone(task, root, c))
  BY <1>t DEF ParentGate, Past
<1>2. CASE Settles(task[c], task'[c])
  BY <1>1, <1>2, <1>p DEF Settles
<1>3. CASE ClaimTask(c)
  BY <1>1, <1>3 DEF ClaimTask
<1>4. CASE Pauses(c)
  BY <1>4, <1>p DEF Pauses, PausedByController, Past, Released, IntentClosed, Card
<1>5. CASE Answers(c)
  <2>1. task'[c].status = task[c].status
    BY <1>5, <1>t DEF Answers, ResumedByController, Card
  <2> QED
    BY <1>1, <1>p, <2>1
<1>6. CASE Unblocks(c)
  BY <1>1, <1>6, <1>p DEF Unblocks, Unblocked, Past, Card
<1> QED
  BY <1>s, <1>2, <1>3, <1>4, <1>5, <1>6 DEF CardStep

\* Every step keeps the types and the runs invariant, and one that is not part of a
\* spawn opens no intent.
LEMMA NextTypes ==
  ASSUME TypeOK, RunsInvariant, SpawnTyped, [Next \/ ReconcileMission]_vars
  PROVE  /\ TypeOK' /\ RunsInvariant'
         /\ ~Spawn => \A c \in Executor : task'[c].open \subseteq task[c].open
<1>t. task \in [Executor -> Card]
  BY DEF TypeOK
<1>s. ASSUME TaskSafe
      PROVE  RunsInvariant' /\ \A c \in Executor : task'[c].open \subseteq task[c].open
  BY <1>s, SafeFrame DEF TaskSafe, Safe
<1>1. ASSUME NEW a \in ActorId, Quiescence(a)
      PROVE  TypeOK' /\ RunsInvariant' /\ \A c \in Executor : task'[c].open \subseteq task[c].open
  <2>1. TypeOK' /\ (TaskSafe \/ FinishRollback(a))
    BY <1>1, QuiescenceTypes
  <2>2. ASSUME FinishRollback(a)
        PROVE  RunsInvariant' /\ \A c \in Executor : task'[c].open \subseteq task[c].open
    BY <2>2, <1>t DEF FinishRollback, RunsInvariant, Card
  <2> QED
    BY <2>1, <2>2, <1>s
<1>2. CASE DispatcherTick
  <2>1. TypeOK' /\ (TaskSafe \/ Spawn)
    BY <1>2, TickTypes
  <2> QED
    BY <2>1, <1>s, SpawnRuns
<1>3. CASE ReconcileMission
  <2>1. "reconcile" \in Label /\ "free" \in ActorId
    BY DEF Label, ActorId
  <2>2. [Idle EXCEPT !.at = "reconcile"] \in Actor
    BY <2>1, IdleType DEF Actor
  <2>3. actor' \in [ActorId -> Actor]
    BY <1>3, <2>1, <2>2, ActorSet DEF ReconcileMission
  <2>4. TypeOK'
    BY <1>3, <2>3 DEF ReconcileMission, TypeOK
  <2> QED
    BY <1>3, <2>4, <1>s, UnchangedSafe DEF ReconcileMission
<1>4. CASE UNCHANGED vars
  <2>1. TypeOK'
    BY <1>4 DEF vars, TypeOK
  <2> QED
    BY <1>4, <2>1, <1>s, UnchangedSafe DEF vars
<1> QED
  BY <1>1, <1>2, <1>3, <1>4, <1>s, ReconcileTypes, CommandTypes, ControlTypes, WorkerTypes DEF Next

\* Every step keeps the spawn loop on one of the mission's cards.
LEMMA NextSpawnTyped ==
  ASSUME TypeOK, SpawnTyped, [Next \/ ReconcileMission]_vars PROVE SpawnTyped'
<1> USE DEF Spawning, At
<1>b. actor \in [ActorId -> Actor] /\ "board" \in ActorId /\ actor["board"] \in Actor
  BY Actors DEF TypeOK
<1>1. ASSUME NEW c \in Executor, ClaimTask(c) PROVE SpawnTyped'
  <2>1. task[c].runs + 1 \in Run
    BY <1>1, ClaimedType DEF ClaimTask, TypeOK
  <2>2. SpawnCard' = c /\ SpawnRun' = task[c].runs + 1
    BY <1>1, <1>b DEF ClaimTask, SpawnCard, SpawnRun, Actor
  <2> QED
    BY <2>1, <2>2 DEF SpawnTyped
<1>2. CASE BeginTaskIntent \/ SpawnWorker
  <2>1. SpawnCard' = SpawnCard /\ SpawnRun' = SpawnRun
    BY <1>2, <1>b, ActorMoves DEF BeginTaskIntent, SpawnWorker, SpawnCard, SpawnRun
  <2> QED
    BY <1>2, <2>1 DEF SpawnTyped, BeginTaskIntent, SpawnWorker
<1>3. CASE SetWorkerPid
  <2>1. actor'["board"].at = "scan"
    BY <1>3, <1>b DEF SetWorkerPid, NextRow, InTick, Idle
  <2> QED
    BY <2>1 DEF SpawnTyped
<1>4. CASE ~Spawn /\ ~SpawnWorker
  BY <1>4, Loops DEF SpawnTyped, SpawnCard, SpawnRun, Elsewhere
<1> QED
  BY <1>1, <1>2, <1>3, <1>4 DEF Spawn

\* Finished executors without open intents stay so.
LEMMA SettledStays ==
  ASSUME TypeOK, RunsInvariant, SpawnTyped, [Next \/ ReconcileMission]_vars, AllDone
  PROVE  AllDone' /\ (OpenIntents = {} => OpenIntents' = {})
<1>t. task \in [Executor -> Card]
  BY DEF TypeOK
<1>1. AllDone'
  BY <1>t, CardSteps, DoneStays DEF AllDone
<1>2. CASE ~Spawn
  BY <1>1, <1>2, NextTypes DEF OpenIntents
<1>3. CASE Spawn
  <2>1. ~\E c \in Executor : ClaimTask(c)
    BY DEF AllDone, ClaimTask
  <2>2. SpawnCard \in Executor
    BY <1>3, <2>1 DEF Spawn, BeginTaskIntent, SetWorkerPid, At, SpawnTyped, Spawning
  <2>3. ~BeginTaskIntent
    BY <2>2 DEF AllDone, BeginTaskIntent
  <2>4. SetWorkerPid
    BY <1>3, <2>1, <2>3 DEF Spawn
  <2>5. \A c \in Executor : task'[c].open = task[c].open
    BY <2>2, <2>4, <1>t DEF SetWorkerPid, PidRecorded, Card
  <2> QED
    BY <1>1, <2>5 DEF OpenIntents
<1> QED
  BY <1>2, <1>3

\* A step of anybody but the control plane: it stays where it is, unless the host goes
\* down, and the mission neither moves on towards its commit nor, behind the control
\* plane's back, starts to wait.
Beside ==
  /\ actor'["ctl"] \in {actor["ctl"], Idle}
  /\ \/ mission'.status = mission.status
     \/ mission'.status \notin {"verifying", "awaiting_approval", "committing", "succeeded"}
  /\ \/ mission.status = "waiting_for_user" \/ mission'.status # "waiting_for_user"
     \/ At("ctl", "idle")

\* Every step is one or the other.
LEMMA NextCtl ==
  ASSUME UInv, [Next \/ ReconcileMission]_vars PROVE CtlStep \/ Beside
<1>b. actor \in [ActorId -> Actor] /\ "ctl" \in ActorId /\ mission \in Mission
  BY Actors DEF UInv, TypeOK
<1>m. ASSUME NEW a \in ActorId \ {"ctl"},
             \/ Proceeds(a) \/ Raises(a) \/ Halts(a)
             \/ \E at, goal, next : Moves(a, at, goal, next)
      PROVE  actor'["ctl"] = actor["ctl"]
  BY <1>m, Actors DEF Proceeds, Raises, Halts, Moves
<1>1. ASSUME NEW a \in ActorId, Reconcile(a) PROVE Beside
  <2>1. a # "ctl"
    BY <1>1 DEF UInv, CtlDomain, Reconcile, At, Quiescing
  <2>2. actor'["ctl"] = actor["ctl"]
    BY <1>1, <2>1, <1>m, ActorMoves DEF Reconcile, UInv
  <2> QED
    BY <1>1, <2>2 DEF Beside, Reconcile, Transition
<1>2. ASSUME NEW a \in ActorId \ {"ctl"}, Quiescence(a) PROVE Beside
  <2>1. actor'["ctl"] = actor["ctl"]
    <3>1. CASE KillWorkers(a) \/ CloseRun(a)
      <4>1. Raise(a) \/ actor'["ctl"] = actor["ctl"]
        BY <3>1, <1>b DEF KillWorkers, CloseRun
      <4> QED
        BY <4>1, <1>m, ActorMoves DEF UInv
    <3>2. CASE ProveQuiescence(a)
      BY <3>2, <1>m, ActorMoves DEF ProveQuiescence, UInv
    <3>3. CASE WorkerSurvives(a) \/ FinishPause(a) \/ FinishCancel(a) \/ FinishBlock(a)
               \/ FinishRollback(a)
      BY <3>3, <1>m, ActorMoves
         DEF WorkerSurvives, FinishPause, FinishCancel, FinishBlock, FinishRollback, Conclude, UInv
    <3> QED
      BY <1>2, <3>1, <3>2, <3>3 DEF Quiescence
  <2>2. \/ mission'.status = mission.status
        \/ mission'.status \in {"cancelled", "rolled_back"}
    <3>1. CASE FinishPause(a)
      BY <3>1, <1>b DEF FinishPause, Mission
    <3>2. CASE FinishBlock(a)
      BY <3>2, <1>b DEF FinishBlock, Mission
    <3>3. CASE FinishCancel(a) \/ FinishRollback(a)
      BY <3>3 DEF FinishCancel, FinishRollback, Conclude, Transition
    <3>4. CASE KillWorkers(a) \/ WorkerSurvives(a) \/ CloseRun(a) \/ ProveQuiescence(a)
      BY <3>4 DEF KillWorkers, WorkerSurvives, CloseRun, ProveQuiescence
    <3> QED
      BY <1>2, <3>1, <3>2, <3>3, <3>4 DEF Quiescence
  <2> QED
    BY <2>1, <2>2 DEF Beside
<1>3. CASE Quiescence("ctl")
  BY <1>3, CtlQuiescenceSteps DEF UInv
<1>4. CASE DispatcherTick
  <2>1. actor'["ctl"] = actor["ctl"] /\ mission' = mission
    BY <1>4, <1>b DEF DispatcherTick, StartTick, ReleaseStaleClaim, EnforceMaxRuntime, ClaimTask,
            DetectCrashedWorkers, PromoteReady, BeginTaskIntent, SpawnWorker, SetWorkerPid,
            RecordSpawnFailure, EndTick, GoTo, Stop
  <2> QED
    BY <2>1 DEF Beside
<1>5. CASE Command
  <2>1. actor'["ctl"] = actor["ctl"]
    BY <1>5, <1>b DEF Command, StartMission, BeginExecution, PauseMission, ResumeMission,
            CollectPaused, FinishResume, CancelMission, RetryMission, CollectBlocked, FinishRetry,
            ResumeCard, RequeueCard, RollbackMission, GoTo, Stop, Quiesce, Raise, Conclude
  <2>2. \/ mission' = mission
        \/ mission'.status = "running"
        \/ mission'.status = "waiting_for_user" /\ At("ctl", "idle")
    BY <1>5 DEF Command, StartMission, BeginExecution, PauseMission, ResumeMission, CollectPaused,
            FinishResume, CancelMission, RetryMission, CollectBlocked, FinishRetry, ResumeCard,
            RequeueCard, RollbackMission, Conclude, Transition, CommandsFree
  <2> QED
    BY <2>1, <2>2 DEF Beside
<1>6. CASE Control
  BY <1>6, ControlSteps DEF UInv
<1>7. ASSUME NEW a \in ActorId, Interrupted(a) PROVE CtlStep \/ Beside
  <2>1. CASE a = "ctl"
    BY <1>7, <2>1, CtlEnds DEF Interrupted, At, UInv
  <2>2. CASE a # "ctl"
    BY <1>7, <2>2, <1>b DEF Interrupted, Stop, Beside
  <2> QED
    BY <2>1, <2>2
<1>8. CASE Reboot
  BY <1>8, <1>b DEF Reboot, Beside
<1>9. CASE UNCHANGED <<mission, actor>> \/ ReconcileMission
  BY <1>9, <1>b DEF Beside, ReconcileMission
<1> QED
  BY <1>1, <1>2, <1>3, <1>4, <1>5, <1>6, <1>7, <1>8, <1>9
     DEF Next, Worker, BeginWrite, EndWrite, Complete, Block, Exit, Environment, BoardActivity,
         DeadlinePasses, vars

\* Every step keeps what the control plane knows, and the verified tree.
LEMMA NextVerified ==
  ASSUME UInv, [Next \/ ReconcileMission]_vars
  PROVE  CtlDomain' /\ CtlPosition' /\ VerifiedIsSettled'
<1> USE DEF Quiescing, At
<1>s. AllDone => AllDone' /\ (OpenIntents = {} => OpenIntents' = {})
  BY SettledStays DEF UInv
<1>1. CASE CtlStep
  <2>1. CtlDomain' /\ CtlPosition'
    BY <1>1, <1>s DEF CtlStep, CtlPosition
  <2>2. VerifiedIsSettled'
    BY <1>1, <1>s DEF CtlStep, UInv, VerifiedIsSettled
  <2> QED
    BY <2>1, <2>2
<1>2. CASE Beside
  <2>1. CtlDomain'
    BY <1>2 DEF Beside, UInv, CtlDomain, Idle
  <2>2. CtlPosition'
    BY <1>2, <1>s DEF Beside, UInv, CtlPosition, Idle
  <2>3. VerifiedIsSettled'
    BY <1>2, <1>s DEF Beside, UInv, VerifiedIsSettled
  <2> QED
    BY <2>1, <2>2, <2>3
<1> QED
  BY <1>1, <1>2, NextCtl

\* UInv is inductive.
LEMMA NextUnlocked == UInv /\ [Next \/ ReconcileMission]_vars => UInv'
BY NextTypes, NextSpawnTyped, NextGate, NextVerified DEF UInv

\* The states a mission is started from satisfy it.
LEMMA InitUnlocked == Init => UInv
<1> SUFFICES ASSUME Init PROVE UInv
  OBVIOUS
<1>1. ParentGate
  BY DEF Init, NewCard, ParentGate
<1> QED
  BY <1>1, InitInvariant DEF UInv, IInv, ActorDomains, Exclusion

\* UInv holds whatever a client's reconcile_mission interleaves with.
THEOREM UnlockedInvariance == SpecUnlocked => []UInv
BY InitUnlocked, NextUnlocked, PTL DEF SpecUnlocked

\* A card is behind its parents whoever wrote its status, and no reconciliation without
\* a lock lets one through.
THEOREM ParentGateUnlocked == SpecUnlocked => []ParentGate
<1>1. UInv => ParentGate
  BY DEF UInv
<1> QED
  BY <1>1, UnlockedInvariance, PTL

\* Nor does it open work or an intent on a mission that is being verified or committed.
THEOREM VerificationUnlocked == SpecUnlocked => []VerifiedIsSettled
<1>1. UInv => VerifiedIsSettled
  BY DEF UInv
<1> QED
  BY <1>1, UnlockedInvariance, PTL

\* Nor does it leave a run without a claim, or a claim without a run.
THEOREM RunsUnlocked == SpecUnlocked => []RunsInvariant
<1>1. UInv => RunsInvariant
  BY DEF UInv
<1> QED
  BY <1>1, UnlockedInvariance, PTL

\* The same gate, of the system whose actors take their locks.
THEOREM ParentGateKept == Spec => []ParentGate
<1>1. [Next]_vars => [Next \/ ReconcileMission]_vars
  OBVIOUS
<1>2. UInv => ParentGate
  BY DEF UInv
<1> QED
  BY <1>1, <1>2, InitUnlocked, NextUnlocked, PTL DEF Spec

-----------------------------------------------------------------------------
(***************************************************************************)
(* No lease is revived, also beside a reconciliation that holds no lock,   *)
(* as long as no step is interrupted                                       *)
(***************************************************************************)

\* Where a step leaves the board, unless one of the steps that open its way does: it
\* does not leave a claim behind, nor gets past the gates.
Stands ==
  \/ actor'["board"] = actor["board"]
  \/ /\ actor["board"].at # "claimed"
     /\ actor'["board"].at \in Opening => actor["board"].at \in Opening

\* The steps that take the board past the gates.
PassesGate == StartMission \/ CollectPaused \/ CollectBlocked \/ ProveQuiescence("board")

\* Without interruptions a claim goes on to its intent or fails, and only the gates
\* let the board past them; only the board is asked for a rollback.
LEMMA BoardTurns ==
  ASSUME MaxFaults = 0, TypeOK, [Next \/ ReconcileMission]_vars, actor["free"].goal # "rollback"
  PROVE  /\ Stands \/ PassesGate \/ BeginTaskIntent \/ RecordSpawnFailure
         /\ actor'["free"].goal # "rollback"
<1> USE DEF Stands, Opening, At
<1> DEFINE Free == actor'["free"].goal # "rollback"
<1>f. ~Fault
  BY DEF TypeOK, Fault
<1>b. /\ actor \in [ActorId -> Actor] /\ actor["board"] \in Actor
      /\ "board" \in ActorId /\ "ctl" \in ActorId /\ "free" \in ActorId
  BY Actors DEF TypeOK
<1>o. ASSUME actor'["board"] = actor["board"], actor'["free"] = actor["free"] PROVE Stands /\ Free
  BY <1>o
<1>r. ASSUME NEW a \in ActorId, a = "board" => actor["board"].at # "claimed",
             \/ Proceeds(a) \/ Raises(a) \/ Halts(a)
             \/ \E goal \in {"pause", "cancel", "block"} : Moves(a, "kill", goal, actor[a].next)
             \/ \E label \in {"kill", "close"} : Moves(a, label, actor[a].goal, actor[a].next)
      PROVE  Stands /\ Free
  BY <1>r, Actors DEF Proceeds, Raises, Halts, Moves
<1>1. ASSUME NEW a \in ActorId, Reconcile(a) PROVE Stands /\ Free
  BY <1>1, <1>r, ActorMoves DEF Reconcile
<1>2. ASSUME NEW a \in ActorId, Quiescence(a), ~(a = "board" /\ ProveQuiescence(a))
      PROVE  Stands /\ Free
  <2>1. CASE KillWorkers(a)
    <3>1. Moves(a, "close", actor[a].goal, actor[a].next)
      BY <2>1, <1>b DEF KillWorkers, Moves, Actor
    <3> QED
      BY <2>1, <3>1, <1>r DEF KillWorkers
  <2>2. CASE CloseRun(a)
    <3>1. Moves(a, "close", actor[a].goal, actor[a].next) \/ Raise(a)
      BY <2>2, <1>b DEF CloseRun, Moves, Actor
    <3> QED
      BY <2>2, <3>1, <1>r, ActorMoves DEF CloseRun
  <2>3. CASE ProveQuiescence(a)
    <3>1. Raises(a) \/ Moves(a, "final", actor[a].goal, actor[a].next)
      BY <2>3, ActorMoves DEF ProveQuiescence
    <3> QED
      BY <1>2, <2>3, <3>1, <1>r, Actors DEF ProveQuiescence, Moves
  <2>4. CASE WorkerSurvives(a) \/ FinishPause(a) \/ FinishCancel(a) \/ FinishBlock(a)
             \/ FinishRollback(a)
    BY <2>4, <1>r, ActorMoves
       DEF WorkerSurvives, FinishPause, FinishCancel, FinishBlock, FinishRollback, Conclude
  <2> QED
    BY <1>2, <2>1, <2>2, <2>3, <2>4 DEF Quiescence
<1>3. CASE DispatcherTick
  <2>1. actor'["free"] = actor["free"]
    BY <1>3, <1>b DEF DispatcherTick, StartTick, ReleaseStaleClaim, EnforceMaxRuntime, ClaimTask,
            DetectCrashedWorkers, PromoteReady, BeginTaskIntent, SpawnWorker, SetWorkerPid,
            RecordSpawnFailure, EndTick, GoTo, Stop
  <2>2. \/ actor'["board"] = actor["board"]
        \/ actor["board"].at # "claimed" /\ actor'["board"].at \notin Opening
        \/ BeginTaskIntent \/ RecordSpawnFailure
    <3>1. CASE StartTick
      BY <3>1, <1>b DEF StartTick, Idle, BoardFree
    <3>2. CASE SetWorkerPid
      BY <3>2, <1>b DEF SetWorkerPid, NextRow, InTick, Idle
    <3>3. CASE EndTick
      BY <3>3, <1>b DEF EndTick, Idle, Stop
    <3>4. CASE DetectCrashedWorkers \/ PromoteReady \/ SpawnWorker
      BY <3>4, <1>b, ActorMoves DEF DetectCrashedWorkers, PromoteReady, SpawnWorker, Moves
    <3>5. ASSUME NEW c \in Executor, ReleaseStaleClaim(c) \/ EnforceMaxRuntime(c)
          PROVE  actor'["board"] = actor["board"]
      BY <3>5 DEF ReleaseStaleClaim, EnforceMaxRuntime
    <3>6. ASSUME NEW c \in Executor, ClaimTask(c)
          PROVE  actor["board"].at # "claimed" /\ actor'["board"].at \notin Opening
      BY <3>6, <1>b DEF ClaimTask, Actor
    <3> QED
      BY <1>3, <3>1, <3>2, <3>3, <3>4, <3>5, <3>6 DEF DispatcherTick
  <2> QED
    BY <2>1, <2>2
<1>4. CASE Command
  <2>1. actor'["free"] = actor["free"]
    BY <1>4, <1>b DEF Command, StartMission, BeginExecution, PauseMission, ResumeMission,
            CollectPaused, FinishResume, CancelMission, RetryMission, CollectBlocked, FinishRetry,
            ResumeCard, RequeueCard, RollbackMission, GoTo, Stop, Quiesce, Raise, Conclude
  <2>2. Stands \/ PassesGate
    <3>1. CASE BeginExecution \/ FinishResume \/ FinishRetry
      BY <3>1, <1>b, <1>r, ActorMoves DEF BeginExecution, FinishResume, FinishRetry, Conclude
    <3>2. CASE PauseMission \/ CancelMission \/ RollbackMission
      BY <3>2, <1>b, ActorMoves
         DEF PauseMission, CancelMission, RollbackMission, Moves, CommandsFree, BoardFree
    <3>3. CASE ResumeMission \/ RetryMission
      BY <3>3, <1>b DEF ResumeMission, RetryMission, Idle, CommandsFree, BoardFree
    <3>4. ASSUME NEW c \in Executor, ResumeCard(c) \/ RequeueCard(c) PROVE Stands
      BY <3>4 DEF ResumeCard, RequeueCard
    <3> QED
      BY <1>4, <3>1, <3>2, <3>3, <3>4 DEF Command, PassesGate
  <2> QED
    BY <2>1, <2>2
<1>5. CASE Control
  <2>1. actor'["board"] = actor["board"]
    BY <1>5, ControlActor
  <2>2. actor'["free"] = actor["free"]
    BY <1>5, <1>b DEF Control, ControllerTick, EscalateBlockedExecutor, VerifyMission,
            EnterVerification, VerifierAnswers, SubmitVerifierVerdict, BeginVerdict, SubmitVerdict,
            SettleVerifier, ApproveCommit, DenyMission, CommitMission, FinishCommit, CountError,
            GoTo, Stop, Quiesce, Raise, Conclude
  <2> QED
    BY <2>1, <2>2, <1>o
<1>6. CASE Worker \/ Environment \/ UNCHANGED vars
  <2>1. UNCHANGED actor
    BY <1>6, <1>f DEF Worker, BeginWrite, EndWrite, Complete, Block, Exit, Environment,
                      BoardActivity, DeadlinePasses, Reboot, Interrupted, vars
  <2> QED
    BY <2>1, <1>o
<1>7. CASE ReconcileMission
  <2>1. actor'["board"] = actor["board"] /\ actor'["free"] = [Idle EXCEPT !.at = "reconcile"]
    BY <1>7, <1>b DEF ReconcileMission
  <2> QED
    BY <2>1 DEF Idle
<1>8. ProveQuiescence("board") => Free
  <2>1. ProveQuiescence("board") => Raise("board") \/ GoTo("board", "final")
    BY DEF ProveQuiescence
  <2> QED
    BY <2>1, <1>b DEF Raise, GoTo
<1> QED
  BY <1>1, <1>2, <1>3, <1>4, <1>5, <1>6, <1>7, <1>8 DEF Next, PassesGate

\* Under UInv and VInv, too, a step that is not part of a spawn grants nothing.
LEMMA UnlockedSafe ==
  ASSUME UInv, VInv, [Next \/ ReconcileMission]_vars, ~Spawn PROVE TaskSafe
<1>i. TypeOK /\ SpawnTyped
  BY DEF UInv
<1>1. ASSUME NEW a \in ActorId, Quiescence(a) PROVE TaskSafe
  <2>1. FinishRollback(a) => NoneRunning
    BY Actors DEF FinishRollback, At, UInv, CtlDomain, VInv, Opening
  <2> QED
    BY <1>i, <1>1, <2>1, QuiescenceTypes
<1>2. CASE ReconcileMission \/ UNCHANGED vars
  BY <1>2, <1>i, UnchangedSafe DEF ReconcileMission, vars
<1> QED
  BY <1>i, <1>1, <1>2, ReconcileTypes, TickTypes, CommandTypes, ControlTypes, WorkerTypes DEF Next

\* A card that runs after a step has its intent open, or was just claimed.
LEMMA NextRunsOpen ==
  ASSUME MaxFaults = 0, UInv, VInv, [Next \/ ReconcileMission]_vars PROVE RunsAreOpen'
<1> USE DEF At
<1>t. /\ task \in [Executor -> Card] /\ actor \in [ActorId -> Actor] /\ "board" \in ActorId
      /\ TypeOK /\ SpawnTyped /\ RunsAreOpen
  BY Actors DEF UInv, VInv, TypeOK
<1> SUFFICES ASSUME NEW c \in Executor, task'[c].status = "running"
             PROVE  task'[c].open # {} \/ (actor'["board"].at = "claimed" /\ SpawnCard' = c)
  BY DEF RunsAreOpen
<1>1. ASSUME NEW d \in Executor, ClaimTask(d)
      PROVE  task'[c].open # {} \/ (actor'["board"].at = "claimed" /\ SpawnCard' = c)
  <2>1. CASE c = d
    BY <1>1, <2>1, <1>t DEF ClaimTask, SpawnCard, Actor
  <2>2. CASE c # d
    <3>1. task'[c] = task[c] /\ actor["board"].at = "scan"
      BY <1>1, <2>2, <1>t DEF ClaimTask
    <3> QED
      BY <3>1, <1>t DEF RunsAreOpen
  <2> QED
    BY <2>1, <2>2
<1>2. CASE BeginTaskIntent
  <2>1. CASE c = SpawnCard
    <3>1. task'[c] = IntentOpened(task[c], SpawnRun)
      BY <1>2, <2>1, <1>t DEF BeginTaskIntent
    <3>2. SpawnRun \in task'[c].open
      BY <3>1, <1>t DEF IntentOpened, Card
    <3> QED
      BY <3>2
  <2>2. CASE c # SpawnCard
    <3>1. task'[c] = task[c]
      BY <1>2, <2>2, <1>t DEF BeginTaskIntent
    <3> QED
      BY <2>2, <3>1, <1>t DEF RunsAreOpen
  <2> QED
    BY <2>1, <2>2
<1>3. CASE SetWorkerPid
  <2>1. task'[c].status = task[c].status /\ task'[c].open = task[c].open
    BY <1>3, <1>t DEF SetWorkerPid, PidRecorded, Card
  <2> QED
    BY <1>3, <2>1, <1>t DEF SetWorkerPid, RunsAreOpen
<1>4. CASE ~Spawn
  <2>1. task'[c] = task[c]
    BY <1>4, UnlockedSafe DEF TaskSafe, Safe
  <2>2. CASE actor["board"].at = "claimed" /\ SpawnCard = c
    <3>1. ~RecordSpawnFailure
      <4>1. ASSUME RecordSpawnFailure PROVE task'[c] = SpawnFailed(task[c])
        BY <4>1, <2>2, <1>t DEF RecordSpawnFailure
      <4>2. SpawnFailed(task[c]).status # "running"
        BY <1>t, <2>1 DEF SpawnFailed, Released, IntentClosed, Card
      <4> QED
        BY <4>1, <4>2
    <3>2. ~PassesGate
      BY <2>2 DEF PassesGate, StartMission, CommandsFree, BoardFree, CollectPaused, CollectBlocked,
                  ProveQuiescence
    <3>3. actor'["board"] = actor["board"]
      BY <1>4, <2>2, <3>1, <3>2, <1>t, BoardTurns DEF Spawn, Stands, VInv
    <3> QED
      BY <2>2, <3>3 DEF SpawnCard
  <2>3. CASE ~(actor["board"].at = "claimed" /\ SpawnCard = c)
    BY <2>1, <2>3, <1>t DEF RunsAreOpen
  <2> QED
    BY <2>2, <2>3
<1> QED
  BY <1>1, <1>2, <1>3, <1>4 DEF Spawn

\* The board that a step leaves past a gate is there with nothing running.
LEMMA NextOpening ==
  ASSUME MaxFaults = 0, UInv, VInv, [Next \/ ReconcileMission]_vars
  PROVE  actor'["board"].at \in Opening => NoneRunning'
<1> USE DEF At
<1>t. /\ task \in [Executor -> Card] /\ actor \in [ActorId -> Actor] /\ "board" \in ActorId
      /\ TypeOK /\ RunsAreOpen
  BY Actors DEF UInv, VInv, TypeOK
<1>s. ASSUME NoneRunning, ~Spawn PROVE NoneRunning'
  BY <1>s, UnlockedSafe DEF NoneRunning, TaskSafe, Safe
<1>1. CASE Spawn \/ RecordSpawnFailure
  <2>1. ASSUME NEW c \in Executor, ClaimTask(c) PROVE actor'["board"].at \notin Opening
    BY <2>1, <1>t DEF ClaimTask, Actor, Opening
  <2>2. CASE BeginTaskIntent
    BY <2>2, <1>t, ActorMoves DEF BeginTaskIntent, Moves, Opening
  <2>3. CASE SetWorkerPid \/ RecordSpawnFailure
    BY <2>3, <1>t DEF SetWorkerPid, RecordSpawnFailure, NextRow, InTick, Idle, Opening
  <2> QED
    BY <1>1, <2>1, <2>2, <2>3 DEF Spawn
<1>2. CASE PassesGate
  <2>1. CASE StartMission
    BY <2>1, <1>t, CommandTypes DEF StartMission, StartGate, Command, TaskSafe, Safe, NoneRunning
  <2>2. CASE CollectPaused
    BY <2>2, <1>t DEF CollectPaused, OpenIntents, RunsAreOpen, NoneRunning
  <2>3. CASE CollectBlocked
    <3>1. CASE Raise("board")
      BY <3>1, <1>t, ActorMoves DEF Raises, Moves, Halts, Opening
    <3>2. CASE OpenIntents = {}
      BY <2>3, <3>2, <1>t DEF CollectBlocked, OpenIntents, RunsAreOpen, NoneRunning
    <3> QED
      BY <2>3, <3>1, <3>2 DEF CollectBlocked
  <2>4. CASE ProveQuiescence("board")
    <3>1. CASE Raise("board")
      BY <3>1, <1>t, ActorMoves DEF Raises, Moves, Halts, Opening
    <3>2. CASE ~\E c \in Executor : Occupied(task[c])
      BY <2>4, <3>2, <1>t DEF ProveQuiescence, Occupied, NoneRunning, Card
    <3> QED
      BY <2>4, <3>1, <3>2 DEF ProveQuiescence
  <2> QED
    BY <1>2, <2>1, <2>2, <2>3, <2>4 DEF PassesGate
<1>3. CASE Stands /\ ~Spawn
  BY <1>3, <1>s DEF Stands, VInv
<1> QED
  BY <1>1, <1>2, <1>3, <1>t, BoardTurns DEF Spawn, VInv

\* VInv is inductive beside UInv where no step is interrupted.
LEMMA NextUninterrupted ==
  ASSUME MaxFaults = 0, UInv, VInv, [Next \/ ReconcileMission]_vars PROVE VInv'
<1>1. actor'["free"].goal # "rollback"
  BY BoardTurns DEF UInv, VInv
<1> QED
  BY <1>1, NextRunsOpen, NextOpening DEF VInv

\* Also where a client reconciles without a lock, no lease comes back: the actor that
\* took none can close runs and block the mission, but only the board opens it again,
\* and it finds no run there.
THEOREM LeasesNeverRevivedUnlocked ==
  ASSUME MaxFaults = 0 PROVE SpecUnlocked => LeaseNeverRevived
<1>1. Init => VInv
  BY Actors DEF Init, VInv, RunsAreOpen, Opening, NoneRunning, NewCard, Idle
<1>2. UInv /\ VInv /\ [Next \/ ReconcileMission]_vars => VInv'
  BY NextUninterrupted
<1>3. ASSUME UInv, VInv, [Next \/ ReconcileMission]_vars, NEW c \in Executor, NEW r \in Run,
             ~LeaseValid(c, r), LeaseValid(c, r)'
      PROVE  task[c].runs < r
  <2>1. Next
    BY <1>3 DEF ReconcileMission, vars, LeaseValid
  <2>2. ~Spawn => TaskSafe
    BY <1>3, UnlockedSafe
  <2>3. mission.status # "running" /\ mission'.status = "running" => NoneRunning
    BY <1>3, <2>1, OpensByCommand
       DEF UInv, VInv, BeginExecution, FinishResume, FinishRetry, At, Opening
  <2> QED
    BY <1>3, <2>1, <2>2, <2>3, ClaimsGrant DEF UInv
<1>4. UInv /\ VInv /\ [Next \/ ReconcileMission]_vars =>
        [\A c \in Executor, r \in Run :
           ~LeaseValid(c, r) /\ LeaseValid(c, r)' => task[c].runs < r]_vars
  BY <1>3
<1> QED
  BY <1>1, <1>2, <1>4, UnlockedInvariance, PTL DEF SpecUnlocked, LeaseNeverRevived

-----------------------------------------------------------------------------
(***************************************************************************)
(* A pause marker is answered before the mission runs again                *)
(***************************************************************************)

\* The statuses in which a card may carry one.
Given == {"waiting_for_user", "cancelled", "rolled_back"}

\* Only the end of a resume takes a mission out of them, and a mission that waits is
\* being paused, paused or being cancelled.
LEMMA MissionSteps ==
  ASSUME IInv, WaitingPhases, [Next]_vars
  PROVE  /\ WaitingPhases'
         /\ mission.status \in Given => mission'.status \in Given \/ FinishResume
<1> USE DEF Given, WaitingPhases, At
<1>i. TypeOK /\ mission \in Mission
  BY DEF IInv, TypeOK
<1> DEFINE Kept == /\ WaitingPhases'
                   /\ mission.status \in Given => mission'.status \in Given \/ FinishResume
<1>0. ASSUME UNCHANGED mission PROVE Kept
  BY <1>0
<1>1. ASSUME NEW a \in ActorId, Reconcile(a) PROVE Kept
  <2>1. UNCHANGED mission \/ (mission'.status = "blocked" /\ mission.status \notin Given)
    BY <1>1 DEF Reconcile, Transition, IInv, PausedIsQuiet, Paused, Quiet
  <2> QED
    BY <2>1
<1>2. ASSUME NEW a \in ActorId, Quiescence(a) PROVE Kept
  <2>1. CASE FinishPause(a)
    BY <2>1, <1>i DEF FinishPause, Mission
  <2>2. CASE FinishBlock(a)
    BY <2>2, <1>i DEF FinishBlock, Mission
  <2>3. CASE FinishCancel(a) \/ FinishRollback(a)
    BY <2>3 DEF FinishCancel, FinishRollback, Conclude, Transition
  <2>4. CASE KillWorkers(a) \/ WorkerSurvives(a) \/ CloseRun(a) \/ ProveQuiescence(a)
    BY <2>4 DEF KillWorkers, WorkerSurvives, CloseRun, ProveQuiescence
  <2> QED
    BY <1>2, <2>1, <2>2, <2>3, <2>4 DEF Quiescence
<1>3. CASE DispatcherTick
  BY <1>3 DEF DispatcherTick, StartTick, ReleaseStaleClaim, EnforceMaxRuntime, ClaimTask,
              DetectCrashedWorkers, PromoteReady, BeginTaskIntent, SpawnWorker, SetWorkerPid,
              RecordSpawnFailure, EndTick
<1>4. CASE Command
  <2>1. CASE BeginExecution \/ FinishRetry
    <3>1. mission.status \notin Given
      BY <2>1 DEF BeginExecution, FinishRetry, IInv, BoardPosition
    <3> QED
      BY <2>1, <3>1 DEF BeginExecution, FinishRetry, Conclude, Transition
  <2>2. CASE FinishResume
    BY <2>2 DEF FinishResume, Conclude, Transition
  <2>3. CASE PauseMission \/ CancelMission
    BY <2>3 DEF PauseMission, CancelMission, Transition
  <2>4. CASE UNCHANGED mission
    BY <2>4
  <2> QED
    BY <1>4, <2>1, <2>2, <2>3, <2>4
       DEF Command, StartMission, ResumeMission, CollectPaused, RetryMission, CollectBlocked,
           ResumeCard, RequeueCard, RollbackMission
<1>5. CASE Control
  <2>1. CtlStep
    BY <1>5, ControlSteps DEF IInv, ActorDomains
  <2> QED
    BY <2>1 DEF CtlStep
<1>6. CASE Worker \/ Environment
  BY <1>6 DEF Worker, BeginWrite, EndWrite, Complete, Block, Exit, Environment, BoardActivity,
              DeadlinePasses, Reboot, Interrupted
<1> QED
  BY <1>0, <1>1, <1>2, <1>3, <1>4, <1>5, <1>6 DEF Next, vars

\* A marker is set and cleared by its two steps only.
LEMMA MarkerSteps ==
  ASSUME IInv, MInv, [Next]_vars, NEW c \in Executor
  PROVE  /\ Marked(task'[c])
         /\ \/ task'[c].paused = task[c].paused
            \/ ~task'[c].paused /\ Answers(c)
            \/ /\ task'[c].paused /\ actor["board"].at = "close"
               /\ mission.status = "waiting_for_user" /\ UNCHANGED mission
<1>t. task \in [Executor -> Card] /\ task[c] \in Card /\ Marked(task[c])
  BY DEF IInv, TypeOK, MInv, Markers
<1>1. CASE Settles(task[c], task'[c])
  BY <1>1, <1>t DEF Settles
<1>2. CASE ClaimTask(c)
  <2>1. task'[c] = Claimed(task[c]) /\ task[c].status = "ready" /\ ~task[c].paused
    BY <1>2, <1>t DEF ClaimTask, MInv, Markers
  <2> QED
    BY <2>1, <1>t DEF Claimed, Marked, Card
<1>3. CASE Pauses(c)
  <2>1. /\ task'[c].paused /\ task'[c].status = "blocked" /\ task'[c].sticky = task[c].sticky
        /\ task[c].status = "running" /\ UNCHANGED mission
    BY <1>3, <1>t DEF Pauses, PausedByController, Released, IntentClosed, Card
  <2>2. actor["board"].at = "close" /\ mission.status = "waiting_for_user"
    BY <1>3, Actors DEF Pauses, At, IInv, ActorDomains, CtlDomain, BoardPosition, Quiescing
  <2> QED
    BY <2>1, <2>2, <1>t DEF Marked
<1>4. CASE Answers(c)
  <2>1. /\ ~task'[c].paused /\ task'[c].status = task[c].status
        /\ task'[c].sticky = task[c].sticky
    BY <1>4, <1>t DEF Answers, ResumedByController, Card
  <2> QED
    BY <1>4, <2>1, <1>t DEF Marked
<1>5. CASE Promotable(task[c]) /\ task'[c] = Promoted(task[c])
  BY <1>5, <1>t DEF Promotable, Promoted, Marked, Card
<1>6. CASE Unblocks(c)
  BY <1>6, <1>t DEF Unblocks, Unblocked, Marked, Card
<1>7. CardStep(c)
  BY CardSteps DEF IInv, Exclusion
<1> QED
  BY <1>1, <1>2, <1>3, <1>4, <1>5, <1>6, <1>7 DEF CardStep

\* Every step keeps the markers.
LEMMA NextMarkers == IInv /\ MInv /\ [Next]_vars => MInv'
<1> SUFFICES ASSUME IInv, MInv, [Next]_vars PROVE MInv'
  OBVIOUS
<1>t. task \in [Executor -> Card] /\ actor \in [ActorId -> Actor] /\ "board" \in ActorId
  BY Actors DEF IInv, TypeOK
<1>m. /\ WaitingPhases'
      /\ mission.status \in Given => mission'.status \in Given \/ FinishResume
  BY MissionSteps DEF MInv
<1>1. Markers'
  <2> SUFFICES ASSUME NEW c \in Executor, task'[c].paused PROVE mission'.status \in Given
    BY MarkerSteps DEF Markers, Given
  <2>1. CASE task[c].paused
    <3>1. mission.status \in Given
      BY <2>1 DEF MInv, Markers, Given
    <3>2. ~FinishResume
      BY <2>1 DEF FinishResume, MInv, ResumeIsComplete, At
    <3> QED
      BY <3>1, <3>2, <1>m
  <2>2. CASE ~task[c].paused
    BY <2>2, MarkerSteps DEF Given
  <2> QED
    BY <2>1, <2>2
<1>2. ResumeIsComplete'
  <2> SUFFICES ASSUME actor'["board"].at = "releasing"
               PROVE  actor'["board"].left = {c \in Executor : task'[c].paused}
    BY DEF ResumeIsComplete, At
  <2>1. CASE CollectPaused
    BY <2>1, <1>t DEF CollectPaused, Actor
  <2>2. ASSUME NEW c \in Executor, Answers(c)
        PROVE  actor'["board"].left = {d \in Executor : task'[d].paused}
    <3>1. actor["board"].left = {d \in Executor : task[d].paused}
      BY <2>2 DEF Answers, MInv, ResumeIsComplete
    <3>2. actor'["board"].left = actor["board"].left \ {c}
      BY <2>2, <1>t DEF Answers, Actor
    <3>3. \A d \in Executor : task'[d].paused <=> (task[d].paused /\ d # c)
      BY <2>2, <1>t DEF Answers, ResumedByController, Card
    <3> QED
      BY <3>1, <3>2, <3>3
  <2>3. CASE actor'["board"] = actor["board"] /\ ~\E c \in Executor : Answers(c)
    <3>1. actor["board"].left = {d \in Executor : task[d].paused} /\ actor["board"].at # "close"
      BY <2>3 DEF MInv, ResumeIsComplete, At
    <3>2. \A d \in Executor : task'[d].paused = task[d].paused
      BY <2>3, <3>1, MarkerSteps
    <3> QED
      BY <2>3, <3>1, <3>2
  <2>4. CASE Spawn \/ SpawnWorker
    <3>1. ASSUME NEW c \in Executor, ClaimTask(c) PROVE actor'["board"].at = "claimed"
      BY <3>1, <1>t DEF ClaimTask, Actor
    <3>2. BeginTaskIntent \/ SpawnWorker => actor'["board"].at \in {"journaled", "spawned"}
      BY <1>t, ActorMoves DEF BeginTaskIntent, SpawnWorker, Moves, IInv
    <3>3. SetWorkerPid => actor'["board"].at = "scan"
      BY <1>t DEF SetWorkerPid, NextRow, InTick, Idle
    <3> QED
      BY <2>4, <3>1, <3>2, <3>3 DEF Spawn
  <2>5. CASE ~Spawn /\ ~SpawnWorker
    BY <2>1, <2>2, <2>3, <2>5, Loops DEF Elsewhere, IInv
  <2> QED
    BY <2>4, <2>5
<1> QED
  BY <1>m, <1>1, <1>2 DEF MInv

\* The states a mission is started from carry no marker.
LEMMA InitMarkers == Init => MInv
BY DEF Init, NewCard, Idle, ActorId, At, MInv, WaitingPhases, Markers, Marked, ResumeIsComplete

\* Both invariants hold together in every state.
LEMMA MarkersInvariance == Spec => [](IInv /\ MInv)
BY InitInvariant, NextInvariant, InitMarkers, NextMarkers, PTL DEF Spec

\* A mission never runs with a pause marker that no resume answered.
THEOREM PauseMarkersAreCurrent == Spec => []PauseMarkerIsCurrent
<1>1. MInv => PauseMarkerIsCurrent
  BY DEF MInv, Markers, PauseMarkerIsCurrent
<1> QED
  BY <1>1, MarkersInvariance, PTL

\* No step of a resume, nor anything beside it, takes back a card that its worker
\* blocked.
THEOREM WorkerBlocksSurvive == Spec => WorkerBlockSurvivesResume
<1>1. ASSUME IInv, MInv, [Next]_vars, At("board", "releasing"), NEW c \in Executor,
             task[c].status = "blocked", task[c].sticky
      PROVE  task'[c].status = "blocked"
  <2>1. CardStep(c)
    BY <1>1, CardSteps DEF IInv, Exclusion
  <2>2. ~Unblocks(c)
    BY <1>1 DEF Unblocks, MInv, ResumeIsComplete, Markers, Marked
  <2> QED
    BY <1>1, <2>1, <2>2 DEF CardStep, Settles, ClaimTask, Pauses, Answers, Promotable
<1>2. IInv /\ MInv /\ [Next]_vars =>
        [At("board", "releasing") =>
           \A c \in Executor :
             task[c].status = "blocked" /\ task[c].sticky => task'[c].status = "blocked"]_vars
  BY <1>1
<1> QED
  BY <1>2, MarkersInvariance, PTL DEF Spec, WorkerBlockSurvivesResume

-----------------------------------------------------------------------------
(***************************************************************************)
(* The refinement: each transaction is a step of ExecutionLease            *)
(***************************************************************************)

\* The leases that Leases substitutes for held, spent and unresolved.
Held       == {l \in Executor \X Run : LeaseValid(l[1], l[2])}
Spent      == {l \in Executor \X Run : l[2] <= task[l[1]].runs}
Unresolved == {l \in Executor \X Run : l[2] \in task[l[1]].open}

\* A transaction moves the mission or the cards, except the rollback, which does both.
LEMMA MissionMoves ==
  ASSUME Next PROVE mission' = mission \/ task' = task \/ \E a \in ActorId : FinishRollback(a)
<1>1. ASSUME NEW a \in ActorId, Reconcile(a) \/ Quiescence(a)
      PROVE  mission' = mission \/ task' = task \/ FinishRollback(a)
  BY <1>1 DEF Reconcile, Quiescence, KillWorkers, WorkerSurvives, CloseRun, ProveQuiescence,
              FinishPause, FinishCancel, FinishBlock
<1>2. DispatcherTick => mission' = mission
  BY DEF DispatcherTick, StartTick, ReleaseStaleClaim, EnforceMaxRuntime, ClaimTask,
         DetectCrashedWorkers, PromoteReady, BeginTaskIntent, SpawnWorker, SetWorkerPid,
         RecordSpawnFailure, EndTick
<1>3. Command => mission' = mission \/ task' = task
  BY DEF Command, StartMission, BeginExecution, PauseMission, ResumeMission, CollectPaused,
         FinishResume, CancelMission, RetryMission, CollectBlocked, FinishRetry, ResumeCard,
         RequeueCard, RollbackMission
<1>4. Control => mission' = mission \/ task' = task
  BY DEF Control, ControllerTick, EscalateBlockedExecutor, VerifyMission, EnterVerification,
         VerifierAnswers, SubmitVerifierVerdict, BeginVerdict, SubmitVerdict, SettleVerifier,
         ApproveCommit, DenyMission, CommitMission, FinishCommit, CountError
<1>5. Worker \/ Environment => mission' = mission
  BY DEF Worker, BeginWrite, EndWrite, Complete, Block, Exit, Environment, BoardActivity,
         DeadlinePasses, Reboot, Interrupted
<1> QED
  BY <1>1, <1>2, <1>3, <1>4, <1>5 DEF Next

\* A step that grants nothing opens the mission, closes it, or releases leases.
LEMMA SafeImplements ==
  ASSUME IInv, IInv', Next, ~Spawn PROVE Leases!Open \/ Leases!Close \/ Leases!Release
<1>s. TaskSafe
  BY NextSafe
<1>1. Spent' = Spent
  BY <1>s DEF Spent, TaskSafe, Safe
<1>2. Unresolved' \subseteq Unresolved
  BY <1>s DEF Unresolved, TaskSafe, Safe
<1>3. ASSUME NEW c \in Executor, NEW r \in Run, LeaseValid(c, r)' PROVE task'[c] = task[c]
  BY <1>3, <1>s DEF LeaseValid, TaskSafe, Safe
<1>4. CASE mission.status = "running" /\ mission'.status = "running"
  <2>1. Held' \subseteq Held
    BY <1>3, <1>4 DEF Held, LeaseValid
  <2>2. (Unresolved \ Unresolved') \intersect Held' = {}
    BY <1>3 DEF Held, Unresolved
  <2> QED
    BY <1>1, <1>2, <1>4, <2>1, <2>2 DEF Leases!Release, Held, Spent, Unresolved
<1>5. CASE mission.status # "running" /\ mission'.status # "running"
  <2>1. Held = {} /\ Held' = {}
    BY <1>5 DEF Held, LeaseValid
  <2> QED
    BY <1>1, <1>2, <1>5, <2>1 DEF Leases!Release, Held, Spent, Unresolved
<1>6. CASE mission.status = "running" /\ mission'.status # "running"
  <2>1. Held' = {}
    BY <1>6 DEF Held, LeaseValid
  <2>2. \A a \in ActorId : ~FinishRollback(a)
    BY <1>6, Actors
       DEF FinishRollback, At, IInv, ActorDomains, CtlDomain, BoardPosition, Quiescing
  <2>3. task' = task
    BY <1>6, <2>2, MissionMoves
  <2>4. Unresolved' = Unresolved
    BY <2>3 DEF Unresolved
  <2> QED
    BY <1>1, <1>6, <2>1, <2>4 DEF Leases!Close, Held, Spent, Unresolved
<1>7. CASE mission.status # "running" /\ mission'.status = "running"
  <2>1. NoneRunning /\ OpenIntents = {}
    BY <1>7, OpensQuietly
  <2>2. NoneRunning' /\ OpenIntents' = {}
    BY <2>1, <1>s, SafeFrame DEF IInv, Frame
  <2>3. Held = {} /\ Held' = {}
    BY <2>1, <2>2 DEF Held, LeaseValid, NoneRunning
  <2>4. Unresolved = {} /\ Unresolved' = {}
    BY <2>1, <2>2 DEF Unresolved, OpenIntents
  <2> QED
    BY <1>1, <1>7, <2>3, <2>4 DEF Leases!Open, Held, Spent, Unresolved
<1> QED
  BY <1>4, <1>5, <1>6, <1>7

\* A spawn grants a fresh lease, then journals it.
LEMMA SpawnImplements ==
  ASSUME IInv, JInv, Spawn
  PROVE  Leases!Release \/ \E l \in Leases!Lease : Leases!Grant(l) \/ Leases!Journal(l)
<1>t. task \in [Executor -> Card]
  BY DEF IInv, TypeOK
<1>s. actor["board"].at \in Spawning => SpawnCard \in Executor /\ SpawnRun \in Run
  BY DEF IInv, Exclusion, SpawnTyped
<1>1. ASSUME NEW c \in Executor, ClaimTask(c) PROVE \E l \in Leases!Lease : Leases!Grant(l)
  <2> DEFINE l == <<c, task[c].runs + 1>>
  <2>1. /\ task[c] \in Card /\ task[c].runs < MaxRun /\ task[c].open = {}
        /\ task[c].status = "ready" /\ task' = [task EXCEPT ![c] = Claimed(task[c])]
        /\ mission' = mission /\ mission.status = "running"
    BY <1>1, <1>t DEF ClaimTask
  <2>2. /\ Claimed(task[c]).run = task[c].runs + 1 /\ Claimed(task[c]).runs = task[c].runs + 1
        /\ Claimed(task[c]).open = {} /\ Claimed(task[c]).status = "running"
        /\ Claimed(task[c]).claimed /\ task[c].runs + 1 \in Run /\ task[c].runs \in Nat
    <3>1. /\ Claimed(task[c]).runs = task[c].runs + 1 /\ Claimed(task[c]).status = "running"
          /\ Claimed(task[c]).claimed
      BY <2>1 DEF Claimed, Card
    <3>2. task[c].runs \in Nat
      BY <2>1 DEF Card
    <3> QED
      BY <2>1, <3>1, <3>2, ClaimedType
  <2>3. \A d \in Executor : task'[d] = IF d = c THEN Claimed(task[c]) ELSE task[d]
    BY <1>t, <2>1
  <2>4. \A d \in Executor, r \in Run :
          /\ LeaseValid(d, r)' <=> (LeaseValid(d, r) \/ (d = c /\ r = task[c].runs + 1))
          /\ r <= task'[d].runs <=> (r <= task[d].runs \/ (d = c /\ r = task[c].runs + 1))
          /\ r \in task'[d].open <=> r \in task[d].open
    <3> SUFFICES ASSUME NEW d \in Executor, NEW r \in Run
                 PROVE  /\ LeaseValid(d, r)' <=> (LeaseValid(d, r) \/ (d = c /\ r = task[c].runs + 1))
                        /\ r <= task'[d].runs <=> (r <= task[d].runs \/ (d = c /\ r = task[c].runs + 1))
                        /\ r \in task'[d].open <=> r \in task[d].open
      OBVIOUS
    <3>1. CASE d = c
      <4>1. r \in Nat
        BY CardAssumption DEF Run
      <4> QED
        BY <2>1, <2>2, <2>3, <3>1, <4>1 DEF LeaseValid
    <3>2. CASE d # c
      BY <2>1, <2>3, <3>2 DEF LeaseValid
    <3> QED
      BY <3>1, <3>2
  <2>5. l \in Executor \X Run
    BY <2>2
  <2>6. Held' = Held \union {l} /\ Spent' = Spent \union {l} /\ Unresolved' = Unresolved
    BY <2>4, <2>5 DEF Held, Spent, Unresolved
  <2>7. l \notin Spent
    BY <2>2, <2>5 DEF Spent
  <2>8. \A k \in Held \union Unresolved : k[1] # c
    BY <2>1 DEF Held, Unresolved, LeaseValid
  <2>9. PICK k \in Leases!Lease : k = l
    BY <2>5 DEF Leases!Lease
  <2>10. Leases!Grant(k)
    BY <2>1, <2>6, <2>7, <2>8, <2>9 DEF Leases!Grant, Leases!Of, Held, Spent, Unresolved
  <2> QED
    BY <2>9, <2>10
<1>2. CASE BeginTaskIntent
  <2> DEFINE l == <<SpawnCard, SpawnRun>>
  <2>1. /\ SpawnCard \in Executor /\ SpawnRun \in Run /\ SpawnRun = task[SpawnCard].runs
        /\ task[SpawnCard].open = {} /\ mission' = mission
        /\ task' = [task EXCEPT ![SpawnCard] = IntentOpened(task[SpawnCard], SpawnRun)]
    BY <1>2, <1>s DEF BeginTaskIntent, JInv, SpawnPosition, At, Spawning
  <2>2. \A d \in Executor :
          /\ task'[d].status = task[d].status /\ task'[d].run = task[d].run
          /\ task'[d].runs = task[d].runs /\ task'[d].claimed = task[d].claimed
          /\ task'[d].open = IF d = SpawnCard THEN task[d].open \union {SpawnRun} ELSE task[d].open
    BY <1>t, <2>1 DEF IntentOpened, Card
  <2>3. l \in Executor \X Run
    BY <2>1
  <2>4. Held' = Held /\ Spent' = Spent
    <3>1. \A d \in Executor, r \in Run : LeaseValid(d, r)' <=> LeaseValid(d, r)
      BY <2>1, <2>2 DEF LeaseValid
    <3>2. Held' = Held
      BY <3>1 DEF Held
    <3>3. Spent' = Spent
      BY <2>2 DEF Spent
    <3> QED
      BY <3>2, <3>3
  <2>5. Unresolved' = Unresolved \union {l}
    <3>1. \A d \in Executor, r \in Run :
            r \in task'[d].open <=> (r \in task[d].open \/ (d = SpawnCard /\ r = SpawnRun))
      BY <2>2
    <3> QED
      BY <2>3, <3>1 DEF Unresolved
  <2>6. l \in Spent
    <3>1. SpawnRun <= SpawnRun
      BY <2>1, CardAssumption DEF Run
    <3> QED
      BY <2>1, <2>3, <3>1 DEF Spent
  <2>7. \A k \in Unresolved : k[1] # SpawnCard
    BY <2>1 DEF Unresolved
  <2>8. PICK k \in Leases!Lease : k = l
    BY <2>3 DEF Leases!Lease
  <2>9. Leases!Journal(k)
    BY <2>1, <2>4, <2>5, <2>6, <2>7, <2>8 DEF Leases!Journal, Leases!Of, Held, Spent, Unresolved
  <2> QED
    BY <2>8, <2>9
<1>3. CASE SetWorkerPid
  <2>1. SpawnCard \in Executor /\ mission' = mission
    BY <1>3, <1>s DEF SetWorkerPid, At, Spawning
  <2>2. \A d \in Executor :
          /\ task'[d].status = task[d].status /\ task'[d].run = task[d].run
          /\ task'[d].runs = task[d].runs /\ task'[d].claimed = task[d].claimed
          /\ task'[d].open = task[d].open
    BY <1>3, <1>t, <2>1 DEF SetWorkerPid, PidRecorded, Card
  <2>3. Held' = Held /\ Spent' = Spent /\ Unresolved' = Unresolved
    BY <2>1, <2>2 DEF Held, Spent, Unresolved, LeaseValid
  <2> QED
    BY <2>1, <2>3 DEF Leases!Release, Held, Spent, Unresolved
<1> QED
  BY <1>1, <1>2, <1>3 DEF Spawn

\* The mission controller implements the abstract leases: grants are fresh, a mission
\* closes by dropping all leases at once, and reopens with none held or unresolved.
THEOREM LeasesImplemented == Spec => ImplementsLeases
<1>1. Init => Leases!LeaseInit
  BY CardAssumption DEF Init, NewCard, NoRun, Run, LeaseValid, Leases!LeaseInit
<1>2. IInv /\ JInv /\ [Next]_vars => [Leases!LeaseNext]_(Leases!leaseVars)
  <2> SUFFICES ASSUME IInv, JInv, [Next]_vars
               PROVE  [Leases!LeaseNext]_(Leases!leaseVars)
    OBVIOUS
  <2>1. IInv'
    BY NextInvariant
  <2>2. CASE UNCHANGED vars
    BY <2>2 DEF vars, LeaseValid, Leases!leaseVars
  <2>3. CASE Next /\ ~Spawn
    BY <2>1, <2>3, SafeImplements DEF Leases!LeaseNext
  <2>4. CASE Spawn
    BY <2>4, SpawnImplements DEF Leases!LeaseNext
  <2> QED
    BY <2>2, <2>3, <2>4
<1> QED
  BY <1>1, <1>2, InitJournal, NextJournal, Invariance, PTL
     DEF Spec, ImplementsLeases, Leases!LeaseSpec

-----------------------------------------------------------------------------
(***************************************************************************)
(* No call outlives a quiescence                                           *)
(***************************************************************************)

\* Interruptions are counted and never taken back.
LEMMA FaultSteps == ASSUME TypeOK, [Next]_vars, faults' = 0 PROVE faults = 0 /\ ~Fault
<1>n. faults \in Nat
  BY ExecutionAssumption DEF TypeOK
<1>f. ~Fault
  BY <1>n DEF Fault
<1>1. ASSUME NEW a \in ActorId, Reconcile(a) \/ Quiescence(a) PROVE UNCHANGED faults
  BY <1>1, <1>f DEF Reconcile, Quiescence, KillWorkers, WorkerSurvives, CloseRun, ProveQuiescence,
                    FinishPause, FinishCancel, FinishBlock, FinishRollback
<1>2. DispatcherTick => UNCHANGED faults
  BY <1>f DEF DispatcherTick, StartTick, ReleaseStaleClaim, EnforceMaxRuntime, ClaimTask,
              DetectCrashedWorkers, PromoteReady, BeginTaskIntent, SpawnWorker, SetWorkerPid,
              RecordSpawnFailure, EndTick
<1>3. Command => UNCHANGED faults
  BY DEF Command, StartMission, BeginExecution, PauseMission, ResumeMission, CollectPaused,
         FinishResume, CancelMission, RetryMission, CollectBlocked, FinishRetry, ResumeCard,
         RequeueCard, RollbackMission
<1>4. Control => UNCHANGED faults
  BY DEF Control, ControllerTick, EscalateBlockedExecutor, VerifyMission, EnterVerification,
         VerifierAnswers, SubmitVerifierVerdict, BeginVerdict, SubmitVerdict, SettleVerifier,
         ApproveCommit, DenyMission, CommitMission, FinishCommit, CountError
<1>5. Worker \/ Environment => UNCHANGED faults
  BY <1>f DEF Worker, BeginWrite, EndWrite, Complete, Block, Exit, Environment, BoardActivity,
              DeadlinePasses, Reboot, Interrupted
<1> QED
  BY <1>1, <1>2, <1>3, <1>4, <1>5, <1>f DEF Next, vars

\* A call begins under a lease and in no other way.
LEMMA WritingSteps ==
  ASSUME TypeOK, [Next]_vars, NEW c \in Executor
  PROVE  writing'[c] \subseteq writing[c] \/ \E d \in Executor, r \in Run : BeginWrite(d, r)
<1>w. writing \in [Executor -> SUBSET Run]
  BY DEF TypeOK
<1>1. ASSUME NEW a \in ActorId, Reconcile(a) \/ Quiescence(a) PROVE writing'[c] \subseteq writing[c]
  BY <1>1, <1>w DEF Reconcile, Quiescence, KillWorkers, WorkerSurvives, CloseRun, ProveQuiescence,
                    FinishPause, FinishCancel, FinishBlock, FinishRollback
<1>2. DispatcherTick => UNCHANGED writing
  BY DEF DispatcherTick, StartTick, ReleaseStaleClaim, EnforceMaxRuntime, ClaimTask,
         DetectCrashedWorkers, PromoteReady, BeginTaskIntent, SpawnWorker, SetWorkerPid,
         RecordSpawnFailure, EndTick
<1>3. Command => UNCHANGED writing
  BY DEF Command, StartMission, BeginExecution, PauseMission, ResumeMission, CollectPaused,
         FinishResume, CancelMission, RetryMission, CollectBlocked, FinishRetry, ResumeCard,
         RequeueCard, RollbackMission
<1>4. Control => UNCHANGED writing
  BY DEF Control, ControllerTick, EscalateBlockedExecutor, VerifyMission, EnterVerification,
         VerifierAnswers, SubmitVerifierVerdict, BeginVerdict, SubmitVerdict, SettleVerifier,
         ApproveCommit, DenyMission, CommitMission, FinishCommit, CountError
<1>5. ASSUME NEW d \in Executor, NEW r \in Run, EndWrite(d, r) PROVE writing'[c] \subseteq writing[c]
  BY <1>5, <1>w DEF EndWrite
<1>6. ASSUME NEW d \in Executor, NEW r \in Run, Complete(d, r) \/ Block(d, r) \/ Exit(d, r)
      PROVE  UNCHANGED writing
  BY <1>6 DEF Complete, Block, Exit
<1>7. Environment => writing'[c] \subseteq writing[c]
  BY <1>w DEF Environment, BoardActivity, DeadlinePasses, Reboot, Interrupted
<1> QED
  BY <1>1, <1>2, <1>3, <1>4, <1>5, <1>6, <1>7 DEF Next, Worker, vars

\* The labels of a quiescence past its kill.
Killed == {"close", "final"}

\* An actor that is past a kill was so before, or has just killed.
LEMMA KillSteps ==
  ASSUME IInv, [Next]_vars, NEW a \in ActorId, actor'[a].at \in Killed
  PROVE  actor[a].at \in Killed \/ KillWorkers(a)
<1> USE DEF Killed, At
<1> DEFINE Kept == actor[a].at \in Killed \/ KillWorkers(a)
<1>b. /\ actor \in [ActorId -> Actor] /\ "board" \in ActorId /\ "ctl" \in ActorId
      /\ actor[a] \in Actor /\ TypeOK
  BY Actors DEF IInv, TypeOK
<1>0. UNCHANGED actor => Kept
  OBVIOUS
<1>r. ASSUME NEW b \in ActorId, Proceeds(b) \/ Raises(b) \/ Halts(b)
                                \/ \E goal : Moves(b, "kill", goal, actor[b].next)
      PROVE  Kept
  BY <1>r DEF Proceeds, Raises, Halts, Moves
<1>l. /\ Idle.at = "idle"
      /\ [Idle EXCEPT !.at = "settle", !.next = "settle"].at = "settle"
      /\ [Idle EXCEPT !.at = "kill", !.goal = "commit", !.next = "settle"].at = "kill"
  BY DEF Idle
<1> DEFINE Leads(b, labels) == /\ actor'[b].at \in labels
                               /\ \A d \in ActorId \ {b} : actor'[d] = actor[d]
<1>s. ASSUME NEW b \in ActorId, NEW labels, Leads(b, labels), labels \intersect Killed = {}
      PROVE  Kept
  BY <1>s, <1>b
<1>m. ASSUME NEW b \in ActorId, NEW label, GoTo(b, label), label \notin Killed
      PROVE  Kept
  <2>1. Moves(b, label, actor[b].goal, actor[b].next)
    BY <1>m, <1>b, ActorMoves
  <2> QED
    BY <1>m, <2>1 DEF Moves
<1>1. ASSUME NEW b \in ActorId, Reconcile(b) PROVE Kept
  BY <1>1, <1>b, <1>r, ActorMoves DEF Reconcile
<1>2. ASSUME NEW b \in ActorId, Quiescence(b) PROVE Kept
  <2>1. CASE WorkerSurvives(b) \/ FinishPause(b) \/ FinishCancel(b) \/ FinishBlock(b)
             \/ FinishRollback(b)
    BY <2>1, <1>b, <1>r, ActorMoves
       DEF WorkerSurvives, FinishPause, FinishCancel, FinishBlock, FinishRollback, Conclude
  <2>2. CASE KillWorkers(b)
    BY <2>2, <1>b DEF KillWorkers
  <2>3. CASE CloseRun(b)
    <3>1. Raise(b) \/ \A d \in ActorId \ {b} : actor'[d] = actor[d]
      BY <2>3, <1>b DEF CloseRun
    <3> QED
      BY <2>3, <3>1, <1>b, <1>r, ActorMoves DEF CloseRun
  <2>4. CASE ProveQuiescence(b)
    <3>1. Raise(b) \/ \A d \in ActorId \ {b} : actor'[d] = actor[d]
      BY <2>4, <1>b, ActorMoves DEF ProveQuiescence, Moves
    <3> QED
      BY <2>4, <3>1, <1>b, <1>r, ActorMoves DEF ProveQuiescence
  <2> QED
    BY <1>2, <2>1, <2>2, <2>3, <2>4 DEF Quiescence
<1>3. CASE DispatcherTick
  <2>1. CASE StartTick \/ EndTick \/ SetWorkerPid \/ RecordSpawnFailure
    <3>1. StartTick \/ SetWorkerPid \/ RecordSpawnFailure => Leads("board", {"scan", "reconcile"})
      BY <1>b DEF StartTick, SetWorkerPid, RecordSpawnFailure, NextRow, InTick, Idle
    <3> QED
      BY <2>1, <3>1, <1>b, <1>r, <1>s, ActorMoves DEF EndTick
  <2>2. CASE DetectCrashedWorkers \/ PromoteReady \/ BeginTaskIntent \/ SpawnWorker
    BY <2>2, <1>b, <1>m DEF DetectCrashedWorkers, PromoteReady, BeginTaskIntent, SpawnWorker
  <2>3. ASSUME NEW c \in Executor, ClaimTask(c) PROVE Kept
    <3>1. Leads("board", {"claimed"})
      BY <2>3, <1>b DEF ClaimTask, Actor
    <3> QED
      BY <3>1, <1>b, <1>s
  <2>4. CASE \E c \in Executor : ReleaseStaleClaim(c) \/ EnforceMaxRuntime(c)
    BY <2>4, <1>0 DEF ReleaseStaleClaim, EnforceMaxRuntime
  <2> QED
    BY <1>3, <2>1, <2>2, <2>3, <2>4 DEF DispatcherTick
<1>4. CASE Command
  <2>1. CASE StartMission
    BY <2>1, <1>b, <1>m DEF StartMission
  <2>2. CASE BeginExecution \/ FinishResume \/ FinishRetry
    BY <2>2, <1>b, <1>r, ActorMoves DEF BeginExecution, FinishResume, FinishRetry, Conclude
  <2>3. CASE PauseMission \/ CancelMission \/ RollbackMission
    BY <2>3, <1>b, <1>r, ActorMoves DEF PauseMission, CancelMission, RollbackMission
  <2>4. CASE ResumeMission
    <3>1. Leads("board", {"kill", "release"})
      BY <2>4, <1>b DEF ResumeMission, Idle
    <3> QED
      BY <3>1, <1>b, <1>s
  <2>5. CASE RetryMission
    <3>1. Leads("board", {"reconcile"})
      BY <2>5, <1>b DEF RetryMission, Idle
    <3> QED
      BY <3>1, <1>b, <1>s
  <2>6. CASE CollectPaused
    <3>1. Leads("board", {"releasing"})
      BY <2>6, <1>b DEF CollectPaused, Actor
    <3> QED
      BY <3>1, <1>b, <1>s
  <2>7. CASE CollectBlocked
    <3>1. Raise("board") \/ Leads("board", {"requeueing"})
      BY <2>7, <1>b DEF CollectBlocked, Actor
    <3> QED
      BY <3>1, <1>b, <1>r, <1>s, ActorMoves
  <2>8. ASSUME NEW c \in Executor, RequeueCard(c) PROVE Kept
    <3>1. Raise("board") \/ Leads("board", {"requeueing"})
      BY <2>8, <1>b DEF RequeueCard, Actor
    <3> QED
      BY <3>1, <1>b, <1>r, <1>s, ActorMoves
  <2>9. ASSUME NEW c \in Executor, ResumeCard(c) PROVE Kept
    <3>1. UNCHANGED actor \/ Leads("board", {"releasing"})
      BY <2>9, <1>b DEF ResumeCard, Actor
    <3> QED
      BY <3>1, <1>b, <1>0, <1>s
  <2> QED
    BY <1>4, <2>1, <2>2, <2>3, <2>4, <2>5, <2>6, <2>7, <2>8, <2>9 DEF Command
<1>5. CASE Control
  <2>1. CASE ControllerTick
    <3>1. UNCHANGED actor \/ Leads("ctl", {"escalate", "kill", "settle"})
      BY <2>1, <1>b DEF ControllerTick, Idle
    <3> QED
      BY <3>1, <1>b, <1>0, <1>s
  <2>2. CASE EscalateBlockedExecutor \/ FinishCommit
    BY <2>2, <1>b, <1>r, ActorMoves DEF EscalateBlockedExecutor, FinishCommit, Conclude
  <2>3. CASE VerifyMission \/ SubmitVerifierVerdict \/ CommitMission \/ VerifierAnswers
    BY <2>3, <1>b, <1>r, ActorMoves
       DEF VerifyMission, SubmitVerifierVerdict, CommitMission, VerifierAnswers
  <2>4. CASE EnterVerification \/ BeginVerdict
    BY <2>4, <1>b, <1>0, <1>r, <1>m, ActorMoves DEF EnterVerification, BeginVerdict
  <2>5. CASE SubmitVerdict
    <3>1. \/ Raise("ctl")
          \/ actor' = [actor EXCEPT !["ctl"] =
                          IF @.next = "settle"
                          THEN [Idle EXCEPT !.at = "settle", !.next = "settle"]
                          ELSE Idle]
      BY <2>5 DEF SubmitVerdict
    <3>2. Raise("ctl") \/ Leads("ctl", {"idle", "settle"})
      BY <3>1, <1>b, <1>l
    <3> QED
      BY <3>2, <1>b, <1>r, <1>s, ActorMoves
  <2>6. CASE SettleVerifier \/ CountError
    <3>1. \E s \in {Idle, [Idle EXCEPT !.at = "settle", !.next = "settle"],
                   [Idle EXCEPT !.at = "kill", !.goal = "commit", !.next = "settle"]} :
            actor' = [actor EXCEPT !["ctl"] = s]
      <4>1. CASE SettleVerifier
        BY <4>1 DEF SettleVerifier
      <4>2. CASE CountError
        BY <4>2 DEF CountError
      <4> QED
        BY <2>6, <4>1, <4>2
    <3>2. Leads("ctl", {"idle", "settle", "kill"})
      BY <3>1, <1>b, <1>l
    <3> QED
      BY <3>2, <1>b, <1>s
  <2>7. CASE ApproveCommit \/ DenyMission
    BY <2>7, <1>0 DEF ApproveCommit, DenyMission
  <2> QED
    BY <1>5, <2>1, <2>2, <2>3, <2>4, <2>5, <2>6, <2>7 DEF Control
<1>6. CASE Worker \/ Environment
  <2>1. UNCHANGED actor \/ Reboot \/ \E b \in ActorId : Stop(b)
    BY <1>6 DEF Worker, BeginWrite, EndWrite, Complete, Block, Exit, Environment, BoardActivity,
                DeadlinePasses, Interrupted
  <2>2. ~Reboot
    BY DEF Reboot, Idle
  <2> QED
    BY <2>1, <2>2, <1>0, <1>b, <1>r, ActorMoves
<1> QED
  BY <1>0, <1>1, <1>2, <1>3, <1>4, <1>5, <1>6 DEF Next, vars

\* What the mission looks like when its tree is to stay as it is.
Ended(m) ==
  \/ m.status \in {"verifying", "awaiting_approval", "committing"}
  \/ m.status \in TerminalMissionStatus
  \/ m.status = "waiting_for_user" /\ m.phase = "paused"

\* A mission ends at the end of a quiescence.
LEMMA EndsAfterKill ==
  ASSUME IInv, [Next]_vars, Ended(mission'), ~Ended(mission)
  PROVE  At("board", "final") \/ At("ctl", "final")
<1> USE DEF Ended, TerminalMissionStatus, Transition
<1>0. ~UNCHANGED mission
  OBVIOUS
<1>1. ASSUME NEW a \in ActorId PROVE ~Reconcile(a)
  BY <1>0 DEF Reconcile
<1>2. ASSUME NEW a \in ActorId, Quiescence(a) PROVE At("board", "final") \/ At("ctl", "final")
  <2>1. At(a, "final")
    BY <1>0, <1>2 DEF Quiescence, KillWorkers, WorkerSurvives, CloseRun, ProveQuiescence,
                      FinishPause, FinishCancel, FinishBlock, FinishRollback
  <2> QED
    BY <2>1, Actors DEF At, IInv, ActorDomains
<1>3. ~DispatcherTick
  BY <1>0 DEF DispatcherTick, StartTick, ReleaseStaleClaim, EnforceMaxRuntime, ClaimTask,
              DetectCrashedWorkers, PromoteReady, BeginTaskIntent, SpawnWorker, SetWorkerPid,
              RecordSpawnFailure, EndTick
<1>4. ~Command
  BY <1>0 DEF Command, StartMission, BeginExecution, PauseMission, ResumeMission, CollectPaused,
              FinishResume, CancelMission, RetryMission, CollectBlocked, FinishRetry, ResumeCard,
              RequeueCard, RollbackMission, Conclude
<1>5. Control => At("ctl", "final")
  <2>1. ~(ControllerTick \/ EscalateBlockedExecutor)
    BY <1>0 DEF ControllerTick, EscalateBlockedExecutor, Conclude
  <2>2. ~(VerifyMission \/ VerifierAnswers \/ SubmitVerifierVerdict \/ SettleVerifier)
    BY <1>0 DEF VerifyMission, VerifierAnswers, SubmitVerifierVerdict, SettleVerifier
  <2>3. ~(ApproveCommit \/ DenyMission \/ CommitMission)
    BY <1>0 DEF ApproveCommit, DenyMission, CommitMission
  <2>4. ~CountError
    BY <1>0 DEF CountError
  <2> QED
    BY <2>1, <2>2, <2>3, <2>4 DEF Control, EnterVerification, BeginVerdict, SubmitVerdict, FinishCommit
<1>6. ~(Worker \/ Environment)
  BY <1>0 DEF Worker, BeginWrite, EndWrite, Complete, Block, Exit, Environment, BoardActivity,
              DeadlinePasses, Reboot, Interrupted
<1> QED
  BY <1>0, <1>1, <1>2, <1>3, <1>4, <1>5, <1>6 DEF Next, vars

\* While an actor is past its kill no call begins: the board quiesces a mission that
\* does not run, the control plane one whose executors are done.
LEMMA NoCallBegins ==
  ASSUME IInv, [Next]_vars, NEW c \in Executor, writing[c] = {},
         \/ actor["board"].at \in Killed
         \/ actor["ctl"].at \in Killed
         \/ Ended(mission)
  PROVE  writing'[c] = {}
<1>1. ASSUME NEW d \in Executor, NEW r \in Run PROVE ~LeaseValid(d, r)
  <2>1. actor["board"].at \in Killed => mission.status # "running"
    BY DEF IInv, BoardPosition, Quiescing, Killed
  <2>2. actor["ctl"].at \in Killed => task[d].status # "running"
    BY DEF IInv, CtlPosition, Quiescing, Killed, AllDone
  <2>3. Ended(mission) => mission.status # "running"
    BY DEF Ended, TerminalMissionStatus
  <2> QED
    BY <2>1, <2>2, <2>3 DEF LeaseValid
<1> QED
  BY <1>1, WritingSteps DEF BeginWrite, IInv

\* The kill of a quiescence finds every call: one of a living worker is held by the
\* run of a card, which names that worker.
LEMMA KillFinds ==
  ASSUME IInv, CallsAreHeld, WorkersAreFound, NEW a \in {"board", "ctl"}, KillWorkers(a),
         NEW c \in Executor
  PROVE  writing'[c] = {}
<1>w. writing \in [Executor -> SUBSET Run] /\ alive \in [Executor -> SUBSET Run]
  BY DEF IInv, TypeOK
<1>1. SUFFICES ASSUME NEW r \in writing[c], r \in alive[c],
                      ~(task[c].claimed /\ r = task[c].pid)
               PROVE  FALSE
  BY <1>w DEF KillWorkers
<1>2. task[c].status = "running" /\ task[c].run = r
  BY <1>1 DEF CallsAreHeld
<1>3. task[c].claimed
  BY <1>2 DEF IInv, RunsInvariant
<1>4. a = "board"
  BY <1>2 DEF KillWorkers, At, IInv, CtlPosition, Quiescing, AllDone
<1>5. task[c].pid = r
  BY <1>1, <1>2, <1>4 DEF WorkersAreFound, KillWorkers, At
<1> QED
  BY <1>1, <1>3, <1>5

\* A recomputation leaves a running card as it is.
LEMMA RecomputeKeeps ==
  ASSUME NEW ts, NEW r, NEW v, RecomputeReady(ts, r, v), NEW c \in Executor,
         ts[c].status = "running"
  PROVE  task'[c] = ts[c]
BY DEF RecomputeReady, Promotable

\* As long as nothing is interrupted, a call whose worker lives keeps its run: whoever
\* ends a run has killed its worker first, or is that worker between two calls.
LEMMA RunStays ==
  ASSUME IInv, JInv, WInv, [Next]_vars, faults' = 0, NEW c \in Executor,
         task[c].status = "running",
         task[c].run \in writing[c], task[c].run \in alive[c], task[c].run \in alive'[c]
  PROVE  task'[c].status = "running" /\ task'[c].run = task[c].run
<1> USE DEF At
<1> DEFINE Kept == task'[c].status = "running" /\ task'[c].run = task[c].run
<1>t. /\ task \in [Executor -> Card] /\ alive \in [Executor -> SUBSET Run]
      /\ task[c] \in Card /\ TypeOK
  BY DEF IInv, TypeOK
<1>f. /\ faults = 0 /\ ~Fault
      /\ CallsAreHeld /\ WorkersAreFound /\ KillIsComplete
  BY <1>t, FaultSteps DEF WInv
<1>p. actor["board"].at # "spawned" => task[c].pid = task[c].run
  BY <1>f DEF WorkersAreFound
<1>0. task'[c] = task[c] => Kept
  OBVIOUS
<1>r. ASSUME NEW r, NEW v, RecomputeReady(task, r, v) PROVE Kept
  BY <1>0, <1>r, RecomputeKeeps
<1>1. ASSUME NEW a \in ActorId, Reconcile(a) PROVE Kept
  BY <1>0, <1>1 DEF Reconcile
<1>2. ASSUME NEW a \in ActorId, Quiescence(a) PROVE Kept
  <2>1. ~CloseRun(a)
    <3>1. ASSUME CloseRun(a) PROVE a = "board" \/ a = "ctl"
      BY <3>1, Actors DEF CloseRun, IInv, ActorDomains
    <3> QED
      BY <3>1, <1>f DEF CloseRun, KillIsComplete
  <2>2. CASE ProveQuiescence(a) \/ FinishRollback(a)
    <3>1. task' = task \/ task' = [d \in Executor |-> [task[d] EXCEPT !.open = {}]]
      BY <2>2 DEF ProveQuiescence, FinishRollback
    <3> QED
      BY <3>1, <1>t DEF Card
  <2>3. CASE UNCHANGED task
    BY <2>3
  <2> QED
    BY <1>2, <2>1, <2>2, <2>3
       DEF Quiescence, KillWorkers, WorkerSurvives, FinishPause, FinishCancel, FinishBlock
<1>3. CASE DispatcherTick
  <2>1. ASSUME NEW d \in Executor, ReleaseStaleClaim(d) \/ EnforceMaxRuntime(d) PROVE Kept
    <3>1. d # c
      <4>1. /\ actor["board"].at # "spawned"
            /\ alive' = [alive EXCEPT ![d] = alive[d] \ {task[d].pid}]
        BY <2>1, <1>f DEF ReleaseStaleClaim, EnforceMaxRuntime
      <4> QED
        BY <4>1, <1>t, <1>p
    <3> QED
      BY <2>1, <3>1, <1>t DEF ReleaseStaleClaim, EnforceMaxRuntime
  <2>2. ASSUME NEW d \in Executor, ClaimTask(d) PROVE Kept
    <3>1. d # c
      BY <2>2 DEF ClaimTask
    <3> QED
      BY <2>2, <3>1, <1>t DEF ClaimTask
  <2>3. CASE DetectCrashedWorkers
    <3>1. task[c].pid = task[c].run
      BY <2>3, <1>p DEF DetectCrashedWorkers
    <3>2. task'[c] = task[c]
      BY <2>3, <3>1 DEF DetectCrashedWorkers
    <3> QED
      BY <3>2
  <2>4. CASE PromoteReady
    BY <2>4, <1>r DEF PromoteReady
  <2>5. CASE BeginTaskIntent \/ SetWorkerPid
    BY <2>5, <1>t DEF BeginTaskIntent, SetWorkerPid, IntentOpened, PidRecorded, Card
  <2>6. CASE RecordSpawnFailure
    <3>1. actor["board"].at \in {"claimed", "journaled"}
      BY <2>6, <1>f DEF RecordSpawnFailure
    <3>2. SpawnCard # c
      BY <3>1 DEF JInv, SpawnPosition, Spawning
    <3> QED
      BY <2>6, <3>2, <1>t DEF RecordSpawnFailure
  <2>7. CASE StartTick \/ SpawnWorker \/ EndTick
    BY <2>7 DEF StartTick, SpawnWorker, EndTick
  <2> QED
    BY <1>3, <2>1, <2>2, <2>3, <2>4, <2>5, <2>6, <2>7 DEF DispatcherTick
<1>4. CASE Command
  <2>1. CASE StartMission
    BY <2>1, <1>r DEF StartMission
  <2>2. ASSUME NEW d \in Executor, ResumeCard(d) \/ RequeueCard(d) PROVE Kept
    <3>1. task' = task \/ d # c
      BY <2>2 DEF ResumeCard, RequeueCard
    <3>2. d # c => task'[c] = task[c]
      BY <2>2, <1>t DEF ResumeCard, RequeueCard
    <3> QED
      BY <3>1, <3>2
  <2>3. CASE UNCHANGED task
    BY <2>3
  <2> QED
    BY <1>4, <2>1, <2>2, <2>3
       DEF Command, BeginExecution, PauseMission, ResumeMission, CollectPaused, FinishResume,
           CancelMission, RetryMission, CollectBlocked, FinishRetry, RollbackMission
<1>5. CASE Control
  <2>1. SettleVerifier => UNCHANGED task \/ RecomputeReady(task, root, Settled(verifier, TRUE))
    BY DEF SettleVerifier
  <2>2. UNCHANGED task \/ SettleVerifier
    BY <1>5 DEF Control, ControllerTick, EscalateBlockedExecutor, VerifyMission, EnterVerification,
         VerifierAnswers, SubmitVerifierVerdict, BeginVerdict, SubmitVerdict, ApproveCommit,
         DenyMission, CommitMission, FinishCommit, CountError
  <2> QED
    BY <2>1, <2>2, <1>r
<1>6. CASE Worker \/ Environment
  <2>1. ASSUME NEW d \in Executor, NEW r \in Run, Complete(d, r) PROVE Kept
    <3> DEFINE ts == [task EXCEPT ![d] = Completed(task[d])]
    <3>1. d # c
      BY <2>1 DEF Complete
    <3>2. ts[c] = task[c]
      BY <3>1, <1>t
    <3>3. RecomputeReady(ts, root, verifier)
      BY <2>1 DEF Complete
    <3> HIDE DEF ts
    <3>4. task'[c] = task[c]
      BY <3>2, <3>3, RecomputeKeeps
    <3> QED
      BY <3>4, <1>0
  <2>2. ASSUME NEW d \in Executor, NEW r \in Run, Block(d, r) PROVE Kept
    <3>1. d # c
      BY <2>2 DEF Block
    <3> QED
      BY <2>2, <3>1, <1>t DEF Block
  <2>3. CASE BoardActivity
    BY <2>3, <1>r DEF BoardActivity
  <2>4. CASE UNCHANGED task
    BY <2>4
  <2> QED
    BY <1>6, <2>1, <2>2, <2>3, <2>4
       DEF Worker, BeginWrite, EndWrite, Exit, Environment, DeadlinePasses, Reboot, Interrupted
<1> QED
  BY <1>0, <1>1, <1>2, <1>3, <1>4, <1>5, <1>6 DEF Next, vars

\* The board that spawned a worker records its pid next, unless it is interrupted.
LEMMA SpawnEnds ==
  ASSUME IInv, [Next]_vars, ~Spawn, At("board", "spawned"), faults' = 0
  PROVE  actor'["board"] = actor["board"]
<1> USE DEF At
<1>f. ~Fault
  BY FaultSteps DEF IInv
<1>b. actor \in [ActorId -> Actor] /\ "board" \in ActorId /\ "ctl" \in ActorId /\ TypeOK
  BY Actors DEF IInv, TypeOK
<1>1. ASSUME NEW a \in ActorId PROVE ~Reconcile(a)
  BY Actors DEF Reconcile, IInv, ActorDomains, CtlDomain, Quiescing
<1>2. ASSUME NEW a \in ActorId, Quiescence(a) PROVE actor'["board"] = actor["board"]
  <2>1. a = "ctl"
    BY <1>2, Actors DEF Quiescence, KillWorkers, WorkerSurvives, CloseRun, ProveQuiescence,
                        FinishPause, FinishCancel, FinishBlock, FinishRollback, IInv, ActorDomains
  <2>2. CtlStep
    BY <1>2, <2>1, CtlQuiescenceSteps DEF IInv, ActorDomains
  <2> QED
    BY <2>2, Actors DEF CtlStep
<1>3. ~DispatcherTick
  BY <1>f DEF DispatcherTick, Spawn, StartTick, ReleaseStaleClaim, EnforceMaxRuntime,
              DetectCrashedWorkers, PromoteReady, SpawnWorker, RecordSpawnFailure, EndTick, BoardFree
<1>4. ~Command
  BY DEF Command, StartMission, BeginExecution, PauseMission, ResumeMission, CollectPaused,
         FinishResume, CancelMission, RetryMission, CollectBlocked, FinishRetry, ResumeCard,
         RequeueCard, RollbackMission, CommandsFree, BoardFree
<1>5. Control => actor'["board"] = actor["board"]
  BY <1>b, ControlActor
<1>6. Worker \/ Environment => UNCHANGED actor
  BY <1>f DEF Worker, BeginWrite, EndWrite, Complete, Block, Exit, Environment, BoardActivity,
              DeadlinePasses, Reboot, Interrupted
<1> QED
  BY <1>1, <1>2, <1>3, <1>4, <1>5, <1>6 DEF Next, vars

\* Calls are made by runs that were handed out and spawned.
LEMMA NextHandedOut ==
  ASSUME IInv, IInv', JInv, JInv', CallsAreHandedOut, [Next]_vars PROVE CallsAreHandedOut'
<1>t. /\ task \in [Executor -> Card] /\ actor \in [ActorId -> Actor] /\ "board" \in ActorId
      /\ TypeOK
  BY Actors DEF IInv, TypeOK
<1>r. ASSUME NEW c \in Executor
      PROVE  task[c].runs \in Nat /\ task'[c].runs \in Nat /\ task[c].runs <= task'[c].runs
  <2>n. task[c].runs \in Nat
    BY <1>t, CardAssumption DEF Card
  <2>1. ASSUME NEW d \in Executor, ClaimTask(d) PROVE task'[c].runs \in {task[c].runs, task[c].runs + 1}
    BY <2>1, <1>t DEF ClaimTask, Claimed, Card
  <2>2. BeginTaskIntent \/ SetWorkerPid => task'[c].runs = task[c].runs
    BY <1>t DEF BeginTaskIntent, SetWorkerPid, IntentOpened, PidRecorded, Card
  <2>3. Next /\ ~Spawn => task'[c].runs = task[c].runs
    BY NextSafe DEF TaskSafe, Safe
  <2> QED
    BY <2>n, <2>1, <2>2, <2>3 DEF Spawn, vars
<1>h. \A c \in Executor : writing[c] \subseteq 1 .. task[c].runs /\ alive[c] \subseteq 1 .. task[c].runs
  BY DEF CallsAreHandedOut, JInv, HandedOut
<1>w. writing \in [Executor -> SUBSET Run]
  BY DEF IInv, TypeOK
<1>1. ASSUME NEW c \in Executor PROVE writing'[c] \subseteq 1 .. task'[c].runs
  <2>1. writing'[c] \subseteq 1 .. task[c].runs
    <3>1. CASE writing'[c] \subseteq writing[c]
      BY <3>1, <1>h
    <3>2. ASSUME NEW d \in Executor, NEW r \in Run, BeginWrite(d, r)
          PROVE  writing'[c] \subseteq 1 .. task[c].runs
      BY <3>2, <1>h, <1>w DEF BeginWrite
    <3> QED
      BY <1>t, <3>1, <3>2, WritingSteps
  <2> QED
    BY <2>1, <1>r
<1>2. ASSUME actor'["board"].at \in {"claimed", "journaled"} PROVE (SpawnRun \notin writing[SpawnCard])'
  <2>s. SpawnCard' \in Executor
    BY <1>2 DEF IInv, Exclusion, SpawnTyped, Spawning
  <2>1. ASSUME NEW c \in Executor, ClaimTask(c) PROVE (SpawnRun \notin writing[SpawnCard])'
    <3>1. SpawnCard' = c /\ SpawnRun' = task[c].runs + 1 /\ writing' = writing
      BY <2>1, <1>t DEF ClaimTask, SpawnCard, SpawnRun, Actor
    <3>2. task[c].runs \in Nat
      BY <1>t, CardAssumption DEF Card
    <3> QED
      BY <3>1, <3>2, <1>h
  <2>2. CASE actor'["board"].card = actor["board"].card /\ actor'["board"].rows = actor["board"].rows
             /\ actor["board"].at \in {"claimed", "journaled"}
    <3>1. SpawnCard' = SpawnCard /\ SpawnRun' = SpawnRun
      BY <2>2 DEF SpawnCard, SpawnRun
    <3>2. SpawnRun \notin writing[SpawnCard] /\ SpawnRun \notin alive[SpawnCard]
      BY <2>2 DEF CallsAreHandedOut, JInv, SpawnPosition, Spawning
    <3>3. SpawnRun \notin writing'[SpawnCard]
      <4>1. ASSUME NEW d \in Executor, NEW r \in Run, BeginWrite(d, r)
            PROVE  SpawnRun \notin writing'[SpawnCard]
        BY <4>1, <2>s, <3>1, <3>2, <1>w DEF BeginWrite
      <4> QED
        BY <2>s, <3>1, <3>2, <4>1, <1>t, WritingSteps
    <3> QED
      BY <3>1, <3>3
  <2>3. CASE BeginTaskIntent
    BY <2>2, <2>3, <1>t, ActorMoves DEF BeginTaskIntent, At
  <2>4. CASE SpawnWorker
    <3>1. actor'["board"].at = "spawned"
      BY <2>4, <1>t, ActorMoves DEF SpawnWorker, Moves
    <3> QED
      BY <1>2, <3>1
  <2>5. CASE SetWorkerPid
    <3>1. actor'["board"].at = "scan"
      BY <2>5, <1>t DEF SetWorkerPid, NextRow, InTick, Idle
    <3> QED
      BY <1>2, <3>1
  <2>6. CASE ~Spawn /\ ~SpawnWorker
    BY <1>2, <2>2, <2>6, <1>t, Loops DEF Elsewhere, Spawning
  <2> QED
    BY <2>1, <2>3, <2>4, <2>5, <2>6 DEF Spawn
<1> QED
  BY <1>1, <1>2 DEF CallsAreHandedOut

\* Calls of living workers stay held by their runs.
LEMMA NextHeld ==
  ASSUME IInv, JInv, WInv, [Next]_vars, faults' = 0 PROVE CallsAreHeld'
<1>t. TypeOK /\ writing \in [Executor -> SUBSET Run] /\ alive \in [Executor -> SUBSET Run]
  BY DEF IInv, TypeOK
<1>f. CallsAreHeld /\ CallsAreHandedOut
  BY <1>t, FaultSteps DEF WInv
<1> SUFFICES ASSUME NEW c \in Executor, NEW r \in writing'[c], r \in alive'[c]
             PROVE  task'[c].status = "running" /\ task'[c].run = r
  BY DEF CallsAreHeld
<1>1. CASE r \in writing[c] /\ r \in alive[c]
  BY <1>1, <1>f, RunStays DEF CallsAreHeld
<1>2. CASE r \in writing[c] /\ r \notin alive[c]
  <2>1. SpawnWorker
    BY <1>2, <1>t, AliveSteps
  <2>2. /\ SpawnCard \in Executor /\ SpawnRun \notin writing[SpawnCard]
        /\ alive' = [alive EXCEPT ![SpawnCard] = @ \union {SpawnRun}]
    BY <2>1, <1>f DEF SpawnWorker, At, CallsAreHandedOut, IInv, Exclusion, SpawnTyped, Spawning
  <2> QED
    BY <1>2, <1>t, <2>2
<1>3. CASE r \notin writing[c]
  <2>1. PICK d \in Executor, q \in Run : BeginWrite(d, q)
    BY <1>3, <1>t, WritingSteps
  <2>2. c = d /\ r = q
    BY <1>3, <2>1, <1>t DEF BeginWrite
  <2> QED
    BY <2>1, <2>2 DEF BeginWrite, LeaseValid
<1> QED
  BY <1>1, <1>2, <1>3

\* A running card keeps naming its worker.
LEMMA NextFound ==
  ASSUME IInv, JInv, WInv, [Next]_vars, faults' = 0 PROVE WorkersAreFound'
<1>t. /\ TypeOK /\ task \in [Executor -> Card] /\ alive \in [Executor -> SUBSET Run]
      /\ actor \in [ActorId -> Actor] /\ "board" \in ActorId
  BY Actors DEF IInv, TypeOK
<1>f. WorkersAreFound
  BY <1>t, FaultSteps DEF WInv
<1>s. actor["board"].at \in Spawning => SpawnCard \in Executor
  BY DEF IInv, Exclusion, SpawnTyped
<1> SUFFICES ASSUME NEW c \in Executor, task'[c].status = "running", task'[c].run \in alive'[c]
             PROVE  task'[c].pid = task'[c].run \/ (actor'["board"].at = "spawned" /\ SpawnCard' = c)
  BY DEF WorkersAreFound, At
<1>1. ASSUME NEW d \in Executor, ClaimTask(d)
      PROVE  task'[c].pid = task'[c].run
  <2>1. c # d
    <3>1. task[d].runs \in Nat /\ alive[d] \subseteq 1 .. task[d].runs
      BY <1>t, CardAssumption DEF JInv, HandedOut, Card
    <3>2. task'[d].run = task[d].runs + 1 /\ alive' = alive
      BY <1>1, <1>t DEF ClaimTask, Claimed, Card
    <3> QED
      BY <3>1, <3>2
  <2>2. task'[c] = task[c] /\ alive' = alive
    BY <1>1, <2>1, <1>t DEF ClaimTask
  <2> QED
    BY <1>1, <2>2, <1>f DEF WorkersAreFound, ClaimTask, At
<1>2. CASE BeginTaskIntent
  <2>1. /\ task'[c].status = task[c].status /\ task'[c].run = task[c].run
        /\ task'[c].pid = task[c].pid /\ alive' = alive /\ actor["board"].at = "claimed"
    BY <1>2, <1>t DEF BeginTaskIntent, IntentOpened, Card, At
  <2> QED
    BY <2>1, <1>f DEF WorkersAreFound, At
<1>3. CASE SpawnWorker
  <2>1. /\ task' = task /\ alive' = [alive EXCEPT ![SpawnCard] = @ \union {SpawnRun}]
        /\ actor["board"].at = "journaled" /\ SpawnCard \in Executor
    BY <1>3, <1>s DEF SpawnWorker, At, Spawning
  <2>2. actor'["board"].at = "spawned" /\ SpawnCard' = SpawnCard
    BY <1>3, <1>t, ActorMoves DEF SpawnWorker, SpawnCard, Moves
  <2>3. CASE c = SpawnCard
    BY <2>2, <2>3
  <2>4. CASE c # SpawnCard
    BY <2>1, <2>4, <1>t, <1>f DEF WorkersAreFound, At
  <2> QED
    BY <2>3, <2>4
<1>4. CASE SetWorkerPid
  <2>1. /\ SpawnCard \in Executor /\ alive' = alive /\ actor["board"].at = "spawned"
        /\ task' = [task EXCEPT ![SpawnCard] = PidRecorded(task[SpawnCard], SpawnRun)]
    BY <1>4, <1>s DEF SetWorkerPid, At, Spawning
  <2>2. CASE c = SpawnCard
    <3>1. task'[c].pid = SpawnRun /\ task'[c].run = task[c].run /\ task'[c].status = task[c].status
      BY <2>1, <2>2, <1>t DEF PidRecorded, Card
    <3> QED
      BY <2>1, <2>2, <3>1 DEF JInv, SpawnPosition, Spawning
  <2>3. CASE c # SpawnCard
    BY <2>1, <2>3, <1>t, <1>f DEF WorkersAreFound, At
  <2> QED
    BY <2>2, <2>3
<1>5. CASE ~Spawn /\ ~SpawnWorker
  <2>1. TaskSafe
    BY <1>5, NextSafe, UnchangedSafe, <1>t DEF vars
  <2>2. task'[c] = task[c] /\ alive'[c] \subseteq alive[c]
    BY <1>5, <1>t, <2>1, AliveSteps DEF TaskSafe, Safe
  <2>3. CASE task[c].pid = task[c].run
    BY <2>2, <2>3
  <2>4. CASE actor["board"].at = "spawned" /\ SpawnCard = c
    <3>1. actor'["board"] = actor["board"]
      BY <1>5, <2>4, SpawnEnds DEF At
    <3> QED
      BY <2>4, <3>1 DEF SpawnCard
  <2> QED
    BY <2>2, <2>3, <2>4, <1>f DEF WorkersAreFound, At
<1> QED
  BY <1>1, <1>2, <1>3, <1>4, <1>5 DEF Spawn

\* After a kill nothing writes any more.
LEMMA NextKilled ==
  ASSUME IInv, JInv, WInv, [Next]_vars, faults' = 0 PROVE KillIsComplete'
<1>f. CallsAreHeld /\ WorkersAreFound /\ KillIsComplete
  BY FaultSteps DEF WInv, IInv
<1> SUFFICES ASSUME NEW a \in {"board", "ctl"}, actor'[a].at \in Killed, NEW c \in Executor
             PROVE  writing'[c] = {}
  BY DEF KillIsComplete, Killed
<1>1. CASE KillWorkers(a)
  BY <1>1, <1>f, KillFinds
<1>2. CASE actor[a].at \in Killed
  <2>1. writing[c] = {}
    BY <1>2, <1>f DEF KillIsComplete, Killed
  <2> QED
    BY <1>2, <2>1, NoCallBegins
<1> QED
  BY <1>1, <1>2, KillSteps, Actors

\* Nothing writes on a mission that ends, and nothing begins to on one that ended.
LEMMA NextLateWrite ==
  ASSUME IInv, JInv, WInv, [Next]_vars PROVE NoLateWrite'
<1> SUFFICES ASSUME faults' = 0, Ended(mission'), NEW c \in Executor PROVE writing'[c] = {}
  BY DEF NoLateWrite, Ended, Paused
<1>f. faults = 0 /\ KillIsComplete /\ NoLateWrite
  BY FaultSteps DEF WInv, IInv
<1>1. CASE Ended(mission)
  <2>1. writing[c] = {}
    BY <1>1, <1>f DEF NoLateWrite, Ended, Paused
  <2> QED
    BY <1>1, <2>1, NoCallBegins
<1>2. CASE ~Ended(mission)
  <2>1. actor["board"].at \in Killed \/ actor["ctl"].at \in Killed
    BY <1>2, EndsAfterKill DEF At, Killed
  <2>2. writing[c] = {}
    BY <2>1, <1>f DEF KillIsComplete, Killed
  <2> QED
    BY <2>1, <2>2, NoCallBegins
<1> QED
  BY <1>1, <1>2

\* The writers' invariant holds from the start, where nobody is alive, ...
LEMMA InitWriters == Init => WInv
BY DEF Init, NewCard, Idle, ActorId, At, WInv, NoLateWrite, CallsAreHandedOut, CallsAreHeld,
       WorkersAreFound, KillIsComplete

\* ... and every step keeps it.
LEMMA NextWriters == IInv /\ JInv /\ WInv /\ [Next]_vars => WInv'
<1> SUFFICES ASSUME IInv, JInv, WInv, [Next]_vars PROVE WInv'
  OBVIOUS
<1>1. CallsAreHandedOut'
  BY NextInvariant, NextJournal, NextHandedOut DEF WInv
<1> QED
  BY <1>1, NextHeld, NextFound, NextKilled, NextLateWrite DEF WInv

\* Verified, approved, committed, paused or finished: as long as no step was
\* interrupted, nobody writes to the tree any more.
THEOREM NobodyWritesLate == Spec => []NoLateWrite
<1>1. WInv => NoLateWrite
  BY DEF WInv
<1> QED
  BY <1>1, InitWriters, NextWriters, InitJournal, NextJournal, Invariance, PTL DEF Spec

=============================================================================
