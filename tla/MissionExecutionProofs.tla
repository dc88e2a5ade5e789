----------------------- MODULE MissionExecutionProofs -----------------------
(***************************************************************************)
(* Spec => []IInv, and the safety properties that follow from it.          *)
(***************************************************************************)
EXTENDS MissionInvariant, ExecutorCardProofs

\* A step that grants nothing on any card.
TaskSafe ==
  /\ task' \in [Executor -> Card]
  /\ \A c \in Executor : Safe(task[c], task'[c])

-----------------------------------------------------------------------------
(***************************************************************************)
(* Types of the actors' states                                             *)
(***************************************************************************)

\* The idle actor, and a tick at a label, are actors.
LEMMA IdleType == Idle \in Actor /\ \A label \in Label : InTick(label) \in Actor
BY DEF Idle, InTick, Actor, Label, Goal, Return

\* Succeeding and raising lead from actors to actors.
LEMMA ContinueType ==
  ASSUME NEW s \in Actor PROVE Continue(s) \in Actor /\ Raised(s) \in Actor
<1>1. {"reclaim", "scan", "requeue", "release", "idle", "error"} \subseteq Label
  BY DEF Label
<1>2. InTick("reclaim") \in Actor /\ [InTick("scan") EXCEPT !.left = Executor] \in Actor
  BY <1>1, IdleType DEF Actor
<1>3. CASE s.next \in {"requeue", "release"}
  BY <1>1, <1>3, IdleType DEF Actor, Continue, Raised, Dispatching, Return, Goal
<1>4. CASE s.next \in {"reclaim", "scan"}
  BY <1>2, <1>4, IdleType DEF Continue, Raised, Dispatching
<1>5. CASE s.next \notin {"requeue", "release", "reclaim", "scan"}
  BY <1>1, <1>5, IdleType DEF Actor, Continue, Raised, Dispatching, Return
<1> QED
  BY <1>3, <1>4, <1>5

\* recompute_ready grants nothing.
LEMMA RecomputeSafe ==
  ASSUME NEW ts \in [Executor -> Card], NEW r \in {"blocked", "ready", "done"}, NEW v \in Card,
         RecomputeReady(ts, r, v)
  PROVE  /\ root' \in {"blocked", "ready", "done"} /\ verifier' \in Card
         /\ task' \in [Executor -> Card]
         /\ \A c \in Executor : Safe(ts[c], task'[c])
<1>1. \A t \in Card : Safe(t, t) /\ (Promotable(t) => Safe(t, Promoted(t)))
  BY SafeResolve, PromotedSafe
<1>2. \A t \in Card : Promotable(t) => Promoted(t) \in Card
  BY <1>1 DEF Safe
<1> QED
  BY <1>1, <1>2 DEF RecomputeReady

\* What an actor's step does to its state keeps the actors' type.
LEMMA ActorSteps ==
  ASSUME TypeOK, NEW a \in ActorId
  PROVE  /\ actor[a] \in Actor
         /\ Proceed(a) => actor' \in [ActorId -> Actor]
         /\ Raise(a) => actor' \in [ActorId -> Actor]
         /\ Stop(a) => actor' \in [ActorId -> Actor]
         /\ \A label \in Label : GoTo(a, label) => actor' \in [ActorId -> Actor]
         /\ \A goal \in Goal : Quiesce(a, goal) => actor' \in [ActorId -> Actor]
<1>1. actor \in [ActorId -> Actor] /\ actor[a] \in Actor /\ Idle \in Actor
  BY IdleType DEF TypeOK
<1>2. Continue(actor[a]) \in Actor /\ Raised(actor[a]) \in Actor
  BY <1>1, ContinueType
<1>3. \A label \in Label : [actor[a] EXCEPT !.at = label] \in Actor
  BY <1>1 DEF Actor
<1>4. \A goal \in Goal : [actor[a] EXCEPT !.at = "kill", !.goal = goal] \in Actor
  BY <1>1 DEF Actor, Label
<1>5. \A s \in Actor : [actor EXCEPT ![a] = s] \in [ActorId -> Actor]
  BY <1>1
<1>6. ASSUME NEW label \in Label, GoTo(a, label) PROVE actor' \in [ActorId -> Actor]
  BY <1>1, <1>3, <1>6 DEF GoTo
<1>7. ASSUME NEW goal \in Goal, Quiesce(a, goal) PROVE actor' \in [ActorId -> Actor]
  BY <1>1, <1>4, <1>7 DEF Quiesce
<1> QED
  BY <1>1, <1>2, <1>5, <1>6, <1>7 DEF Proceed, Raise, Stop

\* The bookkeeping of a loop over the cards keeps it too.
LEMMA ActorLoops ==
  ASSUME TypeOK, NEW a \in ActorId, NEW left \in SUBSET Executor
  PROVE  /\ actor' = [actor EXCEPT ![a].left = left] => actor' \in [ActorId -> Actor]
         /\ \A label \in Label :
              actor' = [actor EXCEPT ![a].at = label, ![a].left = left]
                => actor' \in [ActorId -> Actor]
         /\ \A rows \in [Executor -> Run \union {NoRun}] :
              actor' = [actor EXCEPT ![a].at = "close", ![a].rows = rows, ![a].left = left]
                => actor' \in [ActorId -> Actor]
<1>1. actor \in [ActorId -> Actor] /\ actor[a] \in Actor
  BY DEF TypeOK
<1>2. [actor[a] EXCEPT !.left = left] \in Actor
  BY <1>1 DEF Actor
<1>3. \A label \in Label : [actor[a] EXCEPT !.at = label, !.left = left] \in Actor
  BY <1>1 DEF Actor
<1>4. \A rows \in [Executor -> Run \union {NoRun}] :
        [actor[a] EXCEPT !.at = "close", !.rows = rows, !.left = left] \in Actor
  BY <1>1 DEF Actor, Label
<1> QED
  BY <1>1, <1>2, <1>3, <1>4

\* An actor may be given any actor's state.
LEMMA ActorSet ==
  ASSUME TypeOK, NEW a \in ActorId, NEW s \in Actor, actor' = [actor EXCEPT ![a] = s]
  PROVE  actor' \in [ActorId -> Actor]
BY DEF TypeOK

\* A fault stays inside its bound.
LEMMA FaultType == ASSUME TypeOK, Fault PROVE faults' \in 0 .. MaxFaults
BY ExecutionAssumption DEF TypeOK, Fault

\* A transition ends in a mission.
LEMMA TransitionType ==
  ASSUME NEW status \in MissionStatus, NEW phase \in Phase, Transition(status, phase)
  PROVE  mission' \in Mission
BY DEF Transition, Mission

-----------------------------------------------------------------------------
(***************************************************************************)
(* Every action keeps the types, and grants nothing unless it is one of    *)
(* the three steps of a spawn                                              *)
(***************************************************************************)

\* A step that leaves the cards alone grants nothing.
LEMMA UnchangedSafe == ASSUME TypeOK, UNCHANGED task PROVE TaskSafe
BY SafeResolve DEF TaskSafe, TypeOK

\* A step of one card that is safe for it is safe.
LEMMA OneCardSafe ==
  ASSUME TypeOK, NEW c \in Executor, NEW u, Safe(task[c], u), task' = [task EXCEPT ![c] = u]
  PROVE  TaskSafe
<1>1. u \in Card /\ \A d \in Executor : task[d] \in Card /\ Safe(task[d], task[d])
  BY SafeResolve DEF Safe, TypeOK
<1> QED
  BY <1>1 DEF TaskSafe, TypeOK

\* Resolving the intents of cards that do not run is safe.
LEMMA ResolveSafe ==
  ASSUME TypeOK, NoneRunning, task' = [c \in Executor |-> [task[c] EXCEPT !.open = {}]]
  PROVE  TaskSafe
<1>1. \A c \in Executor : Safe(task[c], [task[c] EXCEPT !.open = {}])
  BY SafeResolve DEF TypeOK, NoneRunning
<1> QED
  BY <1>1 DEF TaskSafe, Safe

\* One pass of reconciliation.
LEMMA ReconcileTypes ==
  ASSUME TypeOK, NEW a \in ActorId, Reconcile(a) PROVE TypeOK' /\ TaskSafe
<1>1. TaskSafe
  BY UnchangedSafe DEF Reconcile
<1>2. actor' \in [ActorId -> Actor]
  BY ActorSteps DEF Reconcile, Goal
<1>3. mission' = mission \/ Transition("blocked", "recovery")
  BY DEF Reconcile
<1>4. mission' \in Mission
  BY <1>3, TransitionType DEF TypeOK, MissionStatus, Phase
<1> QED
  BY <1>1, <1>2, <1>4 DEF Reconcile, TypeOK

\* Resolving the intents of all cards keeps them cards.
LEMMA ResolveTypes ==
  ASSUME TypeOK, task' = [c \in Executor |-> [task[c] EXCEPT !.open = {}]]
  PROVE  task' \in [Executor -> Card]
<1>1. \A c \in Executor : [task[c] EXCEPT !.open = {}] \in Card
  BY DEF TypeOK, Card
<1> QED
  BY <1>1

\* The steps of a quiescence.
LEMMA QuiescenceTypes ==
  ASSUME TypeOK, NEW a \in ActorId, Quiescence(a)
  PROVE  TypeOK' /\ (TaskSafe \/ (FinishRollback(a) /\ ~NoneRunning))
<1>1. CASE KillWorkers(a)
  <2>1. TaskSafe
    BY <1>1, UnchangedSafe DEF KillWorkers
  <2>2. [c \in Executor |-> task[c].run] \in [Executor -> Run \union {NoRun}]
    BY DEF TypeOK, Card
  <2>3. actor' \in [ActorId -> Actor]
    BY <1>1, <2>2, ActorLoops DEF KillWorkers
  <2> QED
    BY <1>1, <2>1, <2>3 DEF KillWorkers, TypeOK
<1>2. CASE WorkerSurvives(a)
  <2>1. TaskSafe
    BY <1>2, UnchangedSafe DEF WorkerSurvives
  <2> QED
    BY <1>2, <2>1, ActorSteps, FaultType DEF WorkerSurvives, TypeOK
<1>3. CASE CloseRun(a)
  <2>1. PICK c \in actor[a].left :
          /\ task[c].status = "running"
          /\ \/ task' = [task EXCEPT ![c] = PausedByController(@)]
             \/ task' = [task EXCEPT ![c] = Blocked(@, "needs_input")]
             \/ task' = task
          /\ actor' = [actor EXCEPT ![a].left = @ \ {c}] \/ Raise(a)
    BY <1>3 DEF CloseRun
  <2>2. c \in Executor
    BY <2>1, ActorSteps DEF Actor
  <2>3. task[c] \in Card /\ actor[a].left \ {c} \in SUBSET Executor
    BY <2>2, ActorSteps DEF Actor, TypeOK
  <2>4. Safe(task[c], PausedByController(task[c])) /\ Safe(task[c], Blocked(task[c], "needs_input"))
    BY <2>1, <2>3, PausedSafe, BlockedSafe, Ranges
  <2>5. TaskSafe
    BY <2>1, <2>2, <2>4, OneCardSafe, UnchangedSafe
  <2>6. actor' \in [ActorId -> Actor]
    BY <2>1, <2>3, ActorSteps, ActorLoops
  <2> QED
    BY <1>3, <2>5, <2>6 DEF CloseRun, TaskSafe, TypeOK
<1>4. CASE ProveQuiescence(a)
  <2>1. task' = task \/ (NoneRunning /\ task' = [c \in Executor |-> [task[c] EXCEPT !.open = {}]])
    BY <1>4 DEF ProveQuiescence, NoneRunning, Occupied
  <2>2. TaskSafe
    BY <2>1, ResolveSafe, UnchangedSafe
  <2>3. actor' \in [ActorId -> Actor]
    BY <1>4, ActorSteps DEF ProveQuiescence, Label
  <2> QED
    BY <1>4, <2>2, <2>3 DEF ProveQuiescence, TaskSafe, TypeOK
<1>5. CASE FinishPause(a)
  <2>1. TaskSafe
    BY <1>5, UnchangedSafe DEF FinishPause
  <2>2. mission' \in Mission
    BY <1>5 DEF FinishPause, TypeOK, Mission, Phase
  <2> QED
    BY <1>5, <2>1, <2>2, ActorSteps DEF FinishPause, TypeOK
<1>6. CASE FinishCancel(a)
  <2>1. TaskSafe
    BY <1>6, UnchangedSafe DEF FinishCancel
  <2>2. mission' \in Mission
    BY <1>6, TransitionType DEF FinishCancel, TypeOK, MissionStatus, Phase
  <2> QED
    BY <1>6, <2>1, <2>2, ActorSteps DEF FinishCancel, TypeOK
<1>7. CASE FinishBlock(a)
  <2>1. TaskSafe
    BY <1>7, UnchangedSafe DEF FinishBlock
  <2>2. mission' \in Mission
    BY <1>7 DEF FinishBlock, TypeOK, Mission
  <2> QED
    BY <1>7, <2>1, <2>2, ActorSteps DEF FinishBlock, TypeOK
<1>8. CASE FinishRollback(a)
  <2>1. task' \in [Executor -> Card] /\ (NoneRunning => TaskSafe)
    BY <1>8, ResolveSafe, ResolveTypes DEF FinishRollback
  <2>2. mission' \in Mission
    BY <1>8, TransitionType DEF FinishRollback, Conclude, TypeOK, MissionStatus, Phase
  <2> QED
    BY <1>8, <2>1, <2>2, ActorSteps DEF FinishRollback, Conclude, TypeOK
<1> QED
  BY <1>1, <1>2, <1>3, <1>4, <1>5, <1>6, <1>7, <1>8 DEF Quiescence

\* The three steps of a spawn that grant, journal and record.
Spawn == (\E c \in Executor : ClaimTask(c)) \/ BeginTaskIntent \/ SetWorkerPid

\* The state in which the spawn loop goes on.
LEMMA NextRowType == ASSUME TypeOK PROVE NextRow \in Actor
<1>1. actor["board"] \in Actor /\ InTick("scan") \in Actor
  BY IdleType DEF TypeOK, ActorId, Label
<1> QED
  BY <1>1 DEF NextRow, Actor

\* The steps of a dispatcher tick.
LEMMA TickTypes ==
  ASSUME TypeOK, SpawnTyped, DispatcherTick
  PROVE  TypeOK' /\ (TaskSafe \/ Spawn)
<1> USE DEF At
<1>b. "board" \in ActorId /\ actor["board"] \in Actor
  BY DEF ActorId, TypeOK
<1>s. actor["board"].at \in Spawning => SpawnCard \in Executor /\ SpawnRun \in Run
  BY DEF SpawnTyped
<1>1. CASE StartTick
  <2>1. [Idle EXCEPT !.at = "reconcile", !.next = "reclaim"] \in Actor
    <3>1. Idle \in Actor /\ "reconcile" \in Label /\ "reclaim" \in Return
      BY IdleType DEF Label, Return
    <3> QED
      BY <3>1 DEF Actor
  <2>2. actor' \in [ActorId -> Actor]
    BY <1>1, <1>b, <2>1, ActorSet DEF StartTick
  <2> QED
    BY <1>1, <2>2, UnchangedSafe DEF StartTick, TypeOK
<1>2. ASSUME NEW c \in Executor, ReleaseStaleClaim(c) PROVE TypeOK' /\ TaskSafe
  <2>1. Safe(task[c], Reclaimed(task[c]))
    BY <1>2, ReclaimedSafe DEF ReleaseStaleClaim, TypeOK
  <2>2. TaskSafe
    BY <1>2, <2>1, OneCardSafe DEF ReleaseStaleClaim
  <2> QED
    BY <1>2, <2>2 DEF ReleaseStaleClaim, TaskSafe, TypeOK
<1>3. CASE DetectCrashedWorkers
  <2> DEFINE after(crashed, counted, limit) ==
        [c \in Executor |-> CASE c \in counted ->
                                   FailureCounted(Reclaimed(task[c]), limit[c])
                              [] c \in crashed \ counted -> Reclaimed(task[c])
                              [] OTHER -> task[c]]
  <2> DEFINE dead == {c \in Executor : /\ task[c].status = "running" /\ task[c].claimed
                                      /\ task[c].pid # NoRun /\ task[c].pid \notin alive[c]}
  <2>1. PICK crashed \in SUBSET dead : \E counted \in SUBSET crashed :
               \E limit \in [counted -> {1, FailureLimit}] : task' = after(crashed, counted, limit)
    BY <1>3 DEF DetectCrashedWorkers
  <2>a. PICK counted \in SUBSET crashed : \E limit \in [counted -> {1, FailureLimit}] :
               task' = after(crashed, counted, limit)
    BY <2>1
  <2>b. PICK limit \in [counted -> {1, FailureLimit}] : task' = after(crashed, counted, limit)
    BY <2>a
  <2>2. ASSUME NEW c \in Executor PROVE Safe(task[c], after(crashed, counted, limit)[c])
    <3>1. task[c] \in Card
      BY DEF TypeOK
    <3>2. CASE task[c].status = "running"
      <4>1. Safe(task[c], Reclaimed(task[c])) /\ Reclaimed(task[c]).status = "ready"
        BY <3>1, <3>2, ReclaimedSafe
      <4>2. Safe(task[c], FailureCounted(Reclaimed(task[c]), limit[c]))
        BY <4>1, FailureCountedSafe, SafeTransitive DEF Safe
      <4> QED
        BY <3>1, <4>1, <4>2, SafeResolve
    <3>3. CASE task[c].status # "running"
      BY <3>1, <3>3, <2>1, <2>a, SafeResolve
    <3> QED
      BY <3>2, <3>3
  <2>3. \A c \in Executor : after(crashed, counted, limit)[c] \in Card
    BY <2>2 DEF Safe
  <2>4. after(crashed, counted, limit) \in [Executor -> Card]
    BY <2>3
  <2> HIDE DEF after
  <2>5. TaskSafe
    BY <2>b, <2>2, <2>4 DEF TaskSafe
  <2>6. actor' \in [ActorId -> Actor]
    BY <1>3, <1>b, ActorSteps DEF DetectCrashedWorkers, Label
  <2> QED
    BY <1>3, <2>5, <2>6 DEF DetectCrashedWorkers, TaskSafe, TypeOK
<1>4. ASSUME NEW c \in Executor, EnforceMaxRuntime(c) PROVE TypeOK' /\ TaskSafe
  <2>1. Safe(task[c], Reclaimed(task[c])) /\ Reclaimed(task[c]).status = "ready"
    BY <1>4, ReclaimedSafe DEF EnforceMaxRuntime, TypeOK
  <2>2. Safe(task[c], FailureCounted(Reclaimed(task[c]), FailureLimit))
    BY <2>1, FailureCountedSafe, SafeTransitive DEF Safe
  <2>3. TaskSafe
    BY <1>4, <2>2, OneCardSafe DEF EnforceMaxRuntime
  <2>4. alive' \in [Executor -> SUBSET Run] /\ faults' \in 0 .. MaxFaults
    BY <1>4, FaultType DEF EnforceMaxRuntime, TypeOK
  <2> QED
    BY <1>4, <2>3, <2>4 DEF EnforceMaxRuntime, TaskSafe, TypeOK
<1>5. CASE PromoteReady
  <2>1. TaskSafe /\ root' \in {"blocked", "ready", "done"} /\ verifier' \in Card
    BY <1>5, RecomputeSafe DEF PromoteReady, TaskSafe, TypeOK
  <2>2. actor' \in [ActorId -> Actor]
    BY <1>5, <1>b, ActorSteps DEF PromoteReady, Label
  <2> QED
    BY <1>5, <2>1, <2>2 DEF PromoteReady, TaskSafe, TypeOK
<1>6. ASSUME NEW c \in Executor, ClaimTask(c) PROVE TypeOK'
  <2>1. task[c] \in Card /\ task[c].runs < MaxRun
    BY <1>6 DEF ClaimTask, TypeOK
  <2>2. Claimed(task[c]) \in Card /\ task[c].runs + 1 \in Run
    BY <2>1, ClaimedType
  <2>3. [actor["board"] EXCEPT !.at = "claimed", !.card = c, !.left = @ \ {c},
                               !.rows[c] = task[c].runs + 1] \in Actor
    BY <1>b, <2>2 DEF Actor, Label
  <2>4. actor' \in [ActorId -> Actor]
    BY <1>6, <1>b, <2>3, ActorSet DEF ClaimTask
  <2> QED
    BY <1>6, <2>2, <2>4 DEF ClaimTask, TypeOK
<1>7. CASE BeginTaskIntent
  <2>1. SpawnCard \in Executor /\ SpawnRun \in Run
    BY <1>7, <1>s DEF BeginTaskIntent, Spawning
  <2>2. IntentOpened(task[SpawnCard], SpawnRun) \in Card
    BY <2>1 DEF IntentOpened, Card, TypeOK
  <2>3. actor' \in [ActorId -> Actor]
    BY <1>7, <1>b, ActorSteps DEF BeginTaskIntent, Label
  <2> QED
    BY <1>7, <2>1, <2>2, <2>3 DEF BeginTaskIntent, TypeOK, Spawn
<1>8. CASE SpawnWorker
  <2>1. SpawnCard \in Executor /\ SpawnRun \in Run
    BY <1>8, <1>s DEF SpawnWorker, Spawning
  <2>2. alive' \in [Executor -> SUBSET Run]
    BY <1>8, <2>1 DEF SpawnWorker, TypeOK
  <2>3. actor' \in [ActorId -> Actor]
    BY <1>8, <1>b, ActorSteps DEF SpawnWorker, Label
  <2> QED
    BY <1>8, <2>2, <2>3, UnchangedSafe DEF SpawnWorker, TypeOK
<1>9. CASE SetWorkerPid
  <2>1. SpawnCard \in Executor /\ SpawnRun \in Run
    BY <1>9, <1>s DEF SetWorkerPid, Spawning
  <2>2. PidRecorded(task[SpawnCard], SpawnRun) \in Card
    BY <2>1 DEF PidRecorded, Card, TypeOK
  <2>3. actor' \in [ActorId -> Actor]
    BY <1>9, <1>b, NextRowType, ActorSet DEF SetWorkerPid
  <2> QED
    BY <1>9, <2>1, <2>2, <2>3 DEF SetWorkerPid, TypeOK, Spawn
<1>10. CASE RecordSpawnFailure
  <2>1. SpawnCard \in Executor
    BY <1>10, <1>s DEF RecordSpawnFailure, Spawning
  <2>2. Safe(task[SpawnCard], SpawnFailed(task[SpawnCard]))
    BY <2>1, SpawnFailedSafe DEF TypeOK
  <2>3. TaskSafe
    BY <1>10, <2>1, <2>2, OneCardSafe DEF RecordSpawnFailure
  <2>4. actor' \in [ActorId -> Actor]
    BY <1>10, <1>b, NextRowType, ActorSet DEF RecordSpawnFailure
  <2>5. faults' \in 0 .. MaxFaults
    BY <1>10, FaultType DEF RecordSpawnFailure, TypeOK
  <2> QED
    BY <1>10, <2>3, <2>4, <2>5 DEF RecordSpawnFailure, TaskSafe, TypeOK
<1>11. CASE EndTick
  <2>1. actor' \in [ActorId -> Actor]
    BY <1>11, <1>b, ActorSteps DEF EndTick
  <2> QED
    BY <1>11, <2>1, UnchangedSafe DEF EndTick, TypeOK
<1> QED
  BY <1>1, <1>2, <1>3, <1>4, <1>5, <1>6, <1>7, <1>8, <1>9, <1>10, <1>11
     DEF DispatcherTick, Spawn

\* The last transaction of an operation keeps the types.
LEMMA ConcludeTypes ==
  ASSUME TypeOK, NEW a \in ActorId, NEW status \in MissionStatus, NEW phase \in Phase,
         Conclude(a, status, phase)
  PROVE  mission' \in Mission /\ actor' \in [ActorId -> Actor]
BY ActorSteps, TransitionType DEF Conclude, TypeOK

\* The steps of the operator's commands.
LEMMA CommandTypes == ASSUME TypeOK, Command PROVE TypeOK' /\ TaskSafe
<1>b. "board" \in ActorId /\ actor["board"] \in Actor
  BY DEF ActorId, TypeOK
<1>s. {"running", "waiting_for_user"} \subseteq MissionStatus
  BY DEF MissionStatus
<1>p. {"execution", "pausing", "cancelling"} \subseteq Phase
  BY DEF Phase
<1>1. CASE StartMission
  <2>1. TaskSafe /\ root' \in {"blocked", "ready", "done"} /\ verifier' \in Card
    BY <1>1, RecomputeSafe DEF StartMission, TaskSafe, TypeOK
  <2>2. actor' \in [ActorId -> Actor]
    BY <1>1, <1>b, ActorSteps DEF StartMission, Label
  <2> QED
    BY <1>1, <2>1, <2>2 DEF StartMission, TaskSafe, TypeOK
<1>2. CASE BeginExecution
  <2>1. mission' \in Mission /\ actor' \in [ActorId -> Actor]
    BY <1>2, <1>b, <1>s, <1>p, ConcludeTypes DEF BeginExecution
  <2> QED
    BY <1>2, <2>1, UnchangedSafe DEF BeginExecution, TypeOK
<1>3. CASE PauseMission
  <2>1. mission' \in Mission
    BY <1>3, <1>s, <1>p, TransitionType DEF PauseMission, TypeOK
  <2>2. actor' \in [ActorId -> Actor]
    BY <1>3, <1>b, ActorSteps DEF PauseMission, Goal
  <2> QED
    BY <1>3, <2>1, <2>2, UnchangedSafe DEF PauseMission, TypeOK
<1>4. CASE ResumeMission
  <2>1. "kill" \in Label /\ "release" \in Label /\ "pause" \in Goal /\ "release" \in Return
    BY DEF Label, Goal, Return
  <2>2. /\ [Idle EXCEPT !.at = "kill", !.goal = "pause", !.next = "release"] \in Actor
        /\ [Idle EXCEPT !.at = "release", !.next = "release"] \in Actor
    BY <2>1, IdleType DEF Actor
  <2>3. actor' \in [ActorId -> Actor]
    BY <1>4, <1>b, <2>2, ActorSet DEF ResumeMission
  <2> QED
    BY <1>4, <2>3, UnchangedSafe DEF ResumeMission, TypeOK
<1>5. CASE CollectPaused
  <2>1. {c \in Executor : task[c].paused} \in SUBSET Executor /\ "releasing" \in Label
    BY DEF Label
  <2>2. actor' \in [ActorId -> Actor]
    BY <1>5, <1>b, <2>1, ActorLoops DEF CollectPaused
  <2> QED
    BY <1>5, <2>2, UnchangedSafe DEF CollectPaused, TypeOK
<1>6. CASE FinishResume
  <2>1. mission' \in Mission /\ actor' \in [ActorId -> Actor]
    BY <1>6, <1>b, <1>s, <1>p, ConcludeTypes DEF FinishResume
  <2> QED
    BY <1>6, <2>1, UnchangedSafe DEF FinishResume, TypeOK
<1>7. CASE CancelMission
  <2>1. mission' \in Mission
    BY <1>7, <1>s, <1>p, TransitionType DEF CancelMission, TypeOK
  <2>2. actor' \in [ActorId -> Actor]
    BY <1>7, <1>b, ActorSteps DEF CancelMission, Goal
  <2> QED
    BY <1>7, <2>1, <2>2, UnchangedSafe DEF CancelMission, TypeOK
<1>8. CASE RetryMission
  <2>1. "reconcile" \in Label /\ "requeue" \in Return
    BY DEF Label, Return
  <2>2. [Idle EXCEPT !.at = "reconcile", !.next = "requeue"] \in Actor
    BY <2>1, IdleType DEF Actor
  <2>3. actor' \in [ActorId -> Actor]
    BY <1>8, <1>b, <2>2, ActorSet DEF RetryMission
  <2> QED
    BY <1>8, <2>3, UnchangedSafe DEF RetryMission, TypeOK
<1>9. CASE CollectBlocked
  <2>1. PICK left \in SUBSET Executor :
          \/ actor' = [actor EXCEPT !["board"].at = "requeueing", !["board"].left = left]
          \/ Raise("board")
    <3>1. {c \in Executor : task[c].status = "blocked"} \in SUBSET Executor
          /\ {} \in SUBSET Executor
      OBVIOUS
    <3> QED
      BY <1>9, <3>1 DEF CollectBlocked
  <2>2. actor' \in [ActorId -> Actor]
    BY <1>b, <2>1, ActorSteps, ActorLoops DEF Label
  <2> QED
    BY <1>9, <2>2, UnchangedSafe DEF CollectBlocked, TypeOK
<1>10. CASE FinishRetry
  <2>1. mission' \in Mission /\ actor' \in [ActorId -> Actor]
    BY <1>10, <1>b, <1>s, <1>p, ConcludeTypes DEF FinishRetry
  <2> QED
    BY <1>10, <2>1, UnchangedSafe DEF FinishRetry, TypeOK
<1>11. ASSUME NEW c \in Executor, ResumeCard(c) PROVE TypeOK' /\ TaskSafe
  <2>1. task[c] \in Card /\ actor["board"].left \ {c} \in SUBSET Executor
    BY <1>b DEF Actor, TypeOK
  <2>2. ParentsDone(task, root, c) \in BOOLEAN
    BY DEF ParentsDone
  <2>3. \/ Safe(task[c], Unblocked(task[c], ParentsDone(task, root, c)))
           /\ task' = [task EXCEPT ![c] = Unblocked(task[c], ParentsDone(task, root, c))]
        \/ Safe(task[c], ResumedByController(task[c]))
           /\ task' = [task EXCEPT ![c] = ResumedByController(task[c])]
    BY <1>11, <2>1, <2>2, UnblockedSafe, ResumedSafe DEF ResumeCard
  <2>4. TaskSafe
    BY <2>3, OneCardSafe
  <2>5. actor' \in [ActorId -> Actor]
    BY <1>11, <1>b, <2>1, ActorLoops DEF ResumeCard, TypeOK
  <2> QED
    BY <1>11, <2>4, <2>5 DEF ResumeCard, TaskSafe, TypeOK
<1>12. ASSUME NEW c \in Executor, RequeueCard(c) PROVE TypeOK' /\ TaskSafe
  <2>1. task[c] \in Card /\ actor["board"].left \ {c} \in SUBSET Executor
    BY <1>b DEF Actor, TypeOK
  <2>2. ParentsDone(task, root, c) \in BOOLEAN
    BY DEF ParentsDone
  <2>3. \/ UNCHANGED task
        \/ Safe(task[c], Unblocked(task[c], ParentsDone(task, root, c)))
           /\ task' = [task EXCEPT ![c] = Unblocked(task[c], ParentsDone(task, root, c))]
    BY <1>12, <2>1, <2>2, UnblockedSafe DEF RequeueCard
  <2>4. TaskSafe
    BY <2>3, OneCardSafe, UnchangedSafe
  <2>5. actor' \in [ActorId -> Actor]
    BY <1>12, <1>b, <2>1, ActorLoops, ActorSteps DEF RequeueCard
  <2> QED
    BY <1>12, <2>4, <2>5 DEF RequeueCard, TaskSafe, TypeOK
<1>13. CASE RollbackMission
  <2>1. actor' \in [ActorId -> Actor]
    BY <1>13, <1>b, ActorSteps DEF RollbackMission, Goal
  <2> QED
    BY <1>13, <2>1, UnchangedSafe DEF RollbackMission, TypeOK
<1> QED
  BY <1>1, <1>2, <1>3, <1>4, <1>5, <1>6, <1>7, <1>8, <1>9, <1>10, <1>11, <1>12, <1>13
     DEF Command

\* The steps of the control plane.
LEMMA ControlTypes == ASSUME TypeOK, Control PROVE TypeOK' /\ TaskSafe
<1>c. "ctl" \in ActorId /\ actor["ctl"] \in Actor
  BY DEF ActorId, TypeOK
<1>s. {"blocked", "verifying", "awaiting_approval", "committing", "succeeded"}
        \subseteq MissionStatus
  BY DEF MissionStatus
<1>p. {"execution", "budget", "verification", "commit", "complete"} \subseteq Phase
  BY DEF Phase
<1>t. \A label \in {"escalate", "kill", "settle", "error"},
         goal \in {"none", "verify", "submit", "commit"} :
        [Idle EXCEPT !.at = label, !.goal = goal, !.next = "settle"] \in Actor
  <2>1. /\ {"escalate", "kill", "settle", "error"} \subseteq Label
        /\ {"none", "verify", "submit", "commit"} \subseteq Goal
        /\ "settle" \in Return
    BY DEF Label, Goal, Return
  <2> QED
    BY <2>1, IdleType DEF Actor
<1>u. [Idle EXCEPT !.at = "settle", !.next = "settle"] \in Actor
  <2>1. "settle" \in Label /\ "settle" \in Return
    BY DEF Label, Return
  <2> QED
    BY <2>1, IdleType DEF Actor
<1>1. CASE ControllerTick
  <2>1. mission' \in Mission
    BY <1>1, <1>s, <1>p, TransitionType DEF ControllerTick, TypeOK
  <2>2. actor' \in [ActorId -> Actor]
    BY <1>1, <1>c, <1>t, ActorSet DEF ControllerTick, TypeOK
  <2> QED
    BY <1>1, <2>1, <2>2, UnchangedSafe DEF ControllerTick, TypeOK
<1>2. CASE EscalateBlockedExecutor
  <2>1. mission' \in Mission /\ actor' \in [ActorId -> Actor]
    BY <1>2, <1>c, <1>s, <1>p, ConcludeTypes DEF EscalateBlockedExecutor
  <2> QED
    BY <1>2, <2>1, UnchangedSafe DEF EscalateBlockedExecutor, TypeOK
<1>3. CASE VerifyMission
  <2>1. actor' \in [ActorId -> Actor]
    BY <1>3, <1>c, ActorSteps DEF VerifyMission, Goal
  <2> QED
    BY <1>3, <2>1, UnchangedSafe DEF VerifyMission, TypeOK
<1>4. CASE EnterVerification
  <2>1. mission' \in Mission
    BY <1>4, <1>s, <1>p, TransitionType DEF EnterVerification, TypeOK
  <2>2. actor' \in [ActorId -> Actor]
    BY <1>4, <1>c, ActorSteps DEF EnterVerification, Label
  <2> QED
    BY <1>4, <2>1, <2>2, UnchangedSafe DEF EnterVerification, TypeOK
<1>5. CASE VerifierAnswers
  <2>1. actor' \in [ActorId -> Actor]
    BY <1>5, <1>c, ActorSteps DEF VerifierAnswers, Goal
  <2> QED
    BY <1>5, <2>1, UnchangedSafe DEF VerifierAnswers, TypeOK
<1>13. CASE SubmitVerifierVerdict
  <2>1. actor' \in [ActorId -> Actor]
    BY <1>13, <1>c, ActorSteps DEF SubmitVerifierVerdict, Goal
  <2> QED
    BY <1>13, <2>1, UnchangedSafe DEF SubmitVerifierVerdict, TypeOK
<1>14. CASE BeginVerdict
  <2>1. mission' \in Mission
    BY <1>14, <1>s, <1>p, TransitionType DEF BeginVerdict, TypeOK
  <2>2. actor' \in [ActorId -> Actor]
    BY <1>14, <1>c, ActorSteps DEF BeginVerdict, TypeOK
  <2> QED
    BY <1>14, <2>1, <2>2, UnchangedSafe DEF BeginVerdict, TypeOK
<1>6. CASE SubmitVerdict
  <2>1. \A passed \in BOOLEAN : Verdict(passed) \in MissionStatus
    BY <1>s DEF Verdict
  <2>2. mission' \in Mission
    BY <1>6, <1>p, <2>1, TransitionType DEF SubmitVerdict, TypeOK
  <2>3. actor' \in [ActorId -> Actor]
    <3>1. \/ Raise("ctl")
          \/ actor' = [actor EXCEPT !["ctl"] = Idle]
          \/ actor' = [actor EXCEPT !["ctl"] = [Idle EXCEPT !.at = "settle", !.next = "settle"]]
      BY <1>6 DEF SubmitVerdict
    <3> QED
      BY <3>1, <1>c, <1>u, IdleType, ActorSet, ActorSteps
  <2> QED
    BY <1>6, <2>2, <2>3, UnchangedSafe DEF SubmitVerdict, TypeOK
<1>7. CASE SettleVerifier
  <2> DEFINE passed == mission.status \in {"awaiting_approval", "committing", "succeeded"}
  <2>1. Settled(verifier, TRUE) \in Card /\ Settled(verifier, passed) \in Card
    <3>1. verifier \in Card /\ Promoted(verifier) \in Card
      BY Ranges DEF TypeOK, Promoted, Card
    <3>2. verifier.status \notin {"done", "triage"} => Promoted(verifier).status = "ready"
      BY <3>1 DEF Promoted, Card
    <3>3. Completed(Promoted(verifier)) \in Card
      BY <3>1, CompletedSafe DEF Safe
    <3>4. verifier.status \notin {"done", "triage"}
            => Blocked(Promoted(verifier), "needs_input") \in Card
      BY <3>1, <3>2, BlockedSafe, Ranges DEF Safe
    <3> QED
      BY <3>1, <3>3, <3>4 DEF Settled
  <2>2. \/ RecomputeReady(task, root, Settled(verifier, TRUE))
        \/ UNCHANGED <<root, task>> /\ verifier' = Settled(verifier, passed)
    BY <1>7 DEF SettleVerifier
  <2>3. TaskSafe /\ root' \in {"blocked", "ready", "done"} /\ verifier' \in Card
    <3>1. CASE RecomputeReady(task, root, Settled(verifier, TRUE))
      BY <3>1, <2>1, RecomputeSafe DEF TaskSafe, TypeOK
    <3>2. CASE UNCHANGED <<root, task>> /\ verifier' = Settled(verifier, passed)
      BY <3>2, <2>1, UnchangedSafe DEF TypeOK
    <3> QED
      BY <2>2, <3>1, <3>2
  <2>4. actor' \in [ActorId -> Actor]
    BY <1>7, <1>c, <1>t, IdleType, ActorSet DEF SettleVerifier
  <2> QED
    BY <1>7, <2>3, <2>4 DEF SettleVerifier, TaskSafe, TypeOK
<1>8. CASE ApproveCommit
  <2>1. mission' \in Mission
    BY <1>8, <1>s, <1>p, TransitionType DEF ApproveCommit
  <2> QED
    BY <1>8, <2>1, UnchangedSafe DEF ApproveCommit, TypeOK
<1>9. CASE DenyMission
  <2>1. mission' \in Mission
    BY <1>9, <1>s, <1>p, TransitionType DEF DenyMission
  <2> QED
    BY <1>9, <2>1, UnchangedSafe DEF DenyMission, TypeOK
<1>10. CASE CommitMission
  <2>1. actor' \in [ActorId -> Actor]
    BY <1>10, <1>c, ActorSteps DEF CommitMission, Goal
  <2> QED
    BY <1>10, <2>1, UnchangedSafe DEF CommitMission, TypeOK
<1>11. CASE FinishCommit
  <2>1. mission' \in Mission /\ actor' \in [ActorId -> Actor]
    BY <1>11, <1>c, <1>s, <1>p, ConcludeTypes, ActorSteps DEF FinishCommit, TypeOK
  <2> QED
    BY <1>11, <2>1, UnchangedSafe DEF FinishCommit, TypeOK
<1>12. CASE CountError
  <2>1. mission' \in Mission
    BY <1>12, <1>s, <1>p, TransitionType DEF CountError, TypeOK
  <2>2. actor' \in [ActorId -> Actor]
    BY <1>12, <1>c, <1>u, IdleType, ActorSet DEF CountError
  <2>3. errors' \in [verification : 0 .. MaxVerifierRetries + 1, commit : 0 .. MaxCommitRetries + 1]
    <3>1. /\ Saturate(errors.verification + 1, MaxVerifierRetries + 1) \in 0 .. MaxVerifierRetries + 1
          /\ Saturate(errors.commit + 1, MaxCommitRetries + 1) \in 0 .. MaxCommitRetries + 1
      BY SaturateType, ExecutionAssumption DEF TypeOK
    <3>2. \/ errors' = [errors EXCEPT !["verification"] =
                          Saturate(errors.verification + 1, MaxVerifierRetries + 1)]
          \/ errors' = [errors EXCEPT !["commit"] =
                          Saturate(errors.commit + 1, MaxCommitRetries + 1)]
      BY <1>12 DEF CountError
    <3> QED
      BY <3>1, <3>2 DEF TypeOK
  <2> QED
    BY <1>12, <2>1, <2>2, <2>3, UnchangedSafe DEF CountError, TypeOK
<1> QED
  BY <1>1, <1>2, <1>3, <1>4, <1>5, <1>6, <1>7, <1>8, <1>9, <1>10, <1>11, <1>12,
     <1>13, <1>14 DEF Control

\* The steps of the workers and of the environment.
LEMMA WorkerTypes ==
  ASSUME TypeOK, Worker \/ Environment PROVE TypeOK' /\ TaskSafe
<1>1. ASSUME NEW c \in Executor, NEW r \in Run, BeginWrite(c, r) \/ EndWrite(c, r) \/ Exit(c, r)
      PROVE  TypeOK' /\ TaskSafe
  BY <1>1, UnchangedSafe DEF BeginWrite, EndWrite, Exit, TypeOK
<1>2. ASSUME NEW c \in Executor, NEW r \in Run, Complete(c, r) PROVE TypeOK' /\ TaskSafe
  <2> DEFINE ts == [task EXCEPT ![c] = Completed(task[c])]
  <2>1. Safe(task[c], Completed(task[c])) /\ \A d \in Executor : Safe(task[d], task[d])
    BY CompletedSafe, SafeResolve DEF TypeOK
  <2>2. ts \in [Executor -> Card] /\ \A d \in Executor : Safe(task[d], ts[d])
    BY <2>1 DEF Safe, TypeOK
  <2> HIDE DEF ts
  <2>3. RecomputeReady(ts, root, verifier)
    BY <1>2 DEF Complete, ts
  <2>4. /\ root' \in {"blocked", "ready", "done"} /\ verifier' \in Card
        /\ task' \in [Executor -> Card]
        /\ \A d \in Executor : Safe(ts[d], task'[d])
    BY <2>2, <2>3, RecomputeSafe DEF TypeOK
  <2>5. TaskSafe
    BY <2>2, <2>4, SafeTransitive DEF TaskSafe
  <2> QED
    BY <1>2, <2>4, <2>5 DEF Complete, TypeOK
<1>3. ASSUME NEW c \in Executor, NEW r \in Run, Block(c, r) PROVE TypeOK' /\ TaskSafe
  <2>1. PICK kind \in BlockKind : task' = [task EXCEPT ![c] = Blocked(task[c], kind)]
    BY <1>3 DEF Block
  <2>2. Safe(task[c], Blocked(task[c], kind))
    BY <1>3, BlockedSafe DEF Block, TypeOK
  <2>3. TaskSafe
    BY <2>1, <2>2, OneCardSafe
  <2> QED
    BY <1>3, <2>3 DEF Block, TaskSafe, TypeOK
<1>4. CASE BoardActivity
  <2>1. TaskSafe /\ root' \in {"blocked", "ready", "done"} /\ verifier' \in Card
    BY <1>4, RecomputeSafe DEF BoardActivity, TaskSafe, TypeOK
  <2> QED
    BY <1>4, <2>1 DEF BoardActivity, TaskSafe, TypeOK
<1>5. CASE DeadlinePasses
  BY <1>5, UnchangedSafe DEF DeadlinePasses, TypeOK
<1>6. ASSUME NEW a \in ActorId, Interrupted(a) PROVE TypeOK' /\ TaskSafe
  BY <1>6, UnchangedSafe, ActorSteps, FaultType DEF Interrupted, TypeOK
<1>7. CASE Reboot
  <2>1. actor' \in [ActorId -> Actor]
    BY <1>7, IdleType DEF Reboot
  <2> QED
    BY <1>7, <2>1, UnchangedSafe, FaultType DEF Reboot, TypeOK
<1> QED
  BY <1>1, <1>2, <1>3, <1>4, <1>5, <1>6, <1>7 DEF Worker, Environment

-----------------------------------------------------------------------------
(***************************************************************************)
(* Every action keeps the positions                                        *)
(***************************************************************************)

Positions ==
  /\ ActorDomains /\ Exclusion /\ BoardPosition /\ CtlPosition
  /\ PausedIsQuiet /\ VerifiedIsSettled /\ TerminalIsSettled

\* What a step that grants nothing cannot undo.
Frame ==
  /\ Quiet => Quiet'
  /\ NoneRunning => NoneRunning'
  /\ AllDone => AllDone'
  /\ OpenIntents = {} => OpenIntents' = {}
  /\ Quiet' => NoneRunning' /\ OpenIntents' = {}

\* A step that grants nothing keeps the runs invariant and undoes nothing.
LEMMA SafeFrame ==
  ASSUME TypeOK, RunsInvariant, TaskSafe PROVE RunsInvariant' /\ Frame
<1>1. \A c \in Executor : Consistent(task[c]) /\ Consistent(task'[c])
  BY DEF RunsInvariant, Consistent, TaskSafe, Safe
<1>2. RunsInvariant'
  BY <1>1 DEF RunsInvariant, Consistent
<1>3. NoneRunning => NoneRunning'
  BY DEF NoneRunning, TaskSafe, Safe
<1>4. AllDone => AllDone'
  BY DEF AllDone, TaskSafe, Safe
<1>5. OpenIntents = {} => OpenIntents' = {}
  BY DEF OpenIntents, TaskSafe, Safe
<1>6. (\A c \in Executor : ~Occupied(task[c])) => \A c \in Executor : ~Occupied(task'[c])
  BY <1>1 DEF Occupied, TaskSafe, Safe, Consistent
<1>7. Quiet' => NoneRunning' /\ OpenIntents' = {}
  BY DEF Quiet, NoneRunning, Occupied
<1> QED
  BY <1>2, <1>3, <1>4, <1>5, <1>6, <1>7 DEF Frame, Quiet

\* The step moves one actor, to this label, goal and continuation.
Moves(a, at, goal, next) ==
  /\ actor'[a].at = at /\ actor'[a].goal = goal /\ actor'[a].next = next
  /\ \A b \in ActorId \ {a} : actor'[b] = actor[b]

Halts(a) == Moves(a, "idle", "none", "idle")

\* Where a step that proceeds moves its actor.
Proceeds(a) ==
  \/ actor[a].next = "reclaim" /\ Moves(a, "reclaim", "none", "scan")
  \/ actor[a].next = "scan"    /\ Moves(a, "scan", "none", "scan")
  \/ actor[a].next = "requeue" /\ Moves(a, "requeue", "none", "requeue")
  \/ actor[a].next = "release" /\ Moves(a, "release", "none", "release")
  \/ actor[a].next \in {"idle", "settle"} /\ Halts(a)

\* Where a step that raises does.
Raises(a) ==
  \/ actor[a].next = "reclaim" /\ Moves(a, "reclaim", "none", "scan")
  \/ actor[a].next = "scan"    /\ Moves(a, "scan", "none", "scan")
  \/ actor[a].next = "settle"  /\ Moves(a, "error", actor[a].goal, "settle")
  \/ actor[a].next \in {"requeue", "release", "idle"} /\ Halts(a)

\* The actors' steps, by the fields they set.
LEMMA ActorMoves ==
  ASSUME TypeOK, NEW a \in ActorId
  PROVE  /\ Proceed(a) => Proceeds(a)
         /\ Raise(a) => Raises(a)
         /\ Stop(a) => Halts(a)
         /\ \A goal : Quiesce(a, goal) => Moves(a, "kill", goal, actor[a].next)
         /\ \A label : GoTo(a, label) =>
              /\ Moves(a, label, actor[a].goal, actor[a].next)
              /\ actor'[a].card = actor[a].card /\ actor'[a].rows = actor[a].rows
<1>1. actor \in [ActorId -> Actor] /\ actor[a] \in Actor
  BY DEF TypeOK
<1>2. Proceed(a) => Proceeds(a)
  BY <1>1 DEF Proceed, Proceeds, Continue, InTick, Idle, Moves, Halts, Actor, Return
<1>3. Raise(a) => Raises(a)
  BY <1>1 DEF Raise, Raises, Raised, Dispatching, Continue, InTick, Idle, Moves, Halts, Actor, Return
<1>4. Stop(a) => Halts(a)
  BY <1>1 DEF Stop, Halts, Idle, Moves
<1>5. ASSUME NEW goal, Quiesce(a, goal) PROVE Moves(a, "kill", goal, actor[a].next)
  BY <1>1, <1>5 DEF Quiesce, Moves, Actor
<1>6. ASSUME NEW label, GoTo(a, label)
      PROVE  /\ Moves(a, label, actor[a].goal, actor[a].next)
             /\ actor'[a].card = actor[a].card /\ actor'[a].rows = actor[a].rows
  BY <1>1, <1>6 DEF GoTo, Moves, Actor
<1> QED
  BY <1>2, <1>3, <1>4, <1>5, <1>6

\* The positions of the board and of the others do not mix.
LEMMA Actors ==
  /\ ActorId = {"board", "ctl", "free"}
  /\ \A a \in ActorId : a = "board" \/ a = "ctl" \/ a = "free"
BY DEF ActorId

\* A step that leaves the mission's status and phase keeps what they promise.
LEMMA MissionRests ==
  ASSUME Positions, Frame, mission'.status = mission.status, mission'.phase = mission.phase
  PROVE  PausedIsQuiet' /\ VerifiedIsSettled' /\ TerminalIsSettled'
BY DEF Positions, Frame, PausedIsQuiet, VerifiedIsSettled, TerminalIsSettled, Paused

\* A step of another actor keeps the board's position, if it touches the mission only
\* beside an idle board or a tick and never makes it run or wait.
LEMMA BoardRests ==
  ASSUME Positions, Frame, actor'["board"] = actor["board"],
         \/ mission'.status = mission.status
         \/ /\ BoardFree \/ Dispatching(actor["board"])
            /\ mission'.status \notin {"running", "ready", "waiting_for_user"}
            /\ mission.status # "waiting_for_user"
  PROVE  BoardPosition'
BY DEF Positions, ActorDomains, CtlDomain, BoardPosition, Frame, BoardFree, At, Dispatching, Quiescing

\* A step of the board that leaves it able to exclude the control plane keeps the
\* control plane's position.
LEMMA CtlRests ==
  ASSUME CtlPosition, AllDone => AllDone', actor'["ctl"] = actor["ctl"],
         \/ mission.status = "waiting_for_user" \/ mission'.status # "waiting_for_user"
         \/ At("ctl", "idle")
  PROVE  CtlPosition'
BY DEF CtlPosition, At, Quiescing

\* One pass of reconciliation.
LEMMA ReconcilePositions ==
  ASSUME TypeOK, Positions, NEW a \in ActorId, Reconcile(a), Frame PROVE Positions'
<1> USE DEF Quiescing, Revoking, Spawning
<1>1. a = "board" /\ actor["board"].at = "reconcile"
  BY DEF Positions, ActorDomains, CtlDomain, Reconcile, At, ActorId
<1>2. PICK goal \in {"pause", "cancel", "block"} :
        \/ /\ Moves("board", "kill", goal, actor["board"].next) /\ mission'.status # "running"
           /\ goal = "pause" => mission'.status = "waiting_for_user"
        \/ Proceeds("board") /\ mission' = mission /\ (mission.status # "blocked" \/ Quiet)
  BY <1>1, ActorMoves DEF Reconcile, Transition, NeedsQuiescence, Quiet
<1>3. ActorDomains'
  BY <1>1, <1>2, Actors DEF Positions, ActorDomains, CtlDomain, Proceeds, Moves, Halts, Dispatching
<1>4. Exclusion'
  BY <1>1, <1>2, Actors
     DEF Positions, ActorDomains, CtlDomain, Exclusion, SpawnTyped, Proceeds, Moves, Halts, Dispatching, At, BoardFree
<1>5. BoardPosition'
  BY <1>1, <1>2, Actors DEF Positions, ActorDomains, CtlDomain, BoardPosition, Proceeds, Moves, Halts, Frame
<1>6. CtlPosition'
  <2>1. actor'["ctl"] = actor["ctl"]
    BY <1>2, Actors DEF Proceeds, Moves, Halts
  <2>2. mission.status = "waiting_for_user" \/ mission'.status # "waiting_for_user"
    BY DEF Reconcile, Transition
  <2>3. CtlPosition /\ (AllDone => AllDone')
    BY DEF Positions, Frame
  <2> QED
    BY <2>1, <2>2, <2>3, CtlRests
<1>7. PausedIsQuiet' /\ VerifiedIsSettled' /\ TerminalIsSettled'
  BY DEF Positions, PausedIsQuiet, VerifiedIsSettled, TerminalIsSettled, Paused, Reconcile,
         Transition, Frame, TerminalMissionStatus
<1> QED
  BY <1>3, <1>4, <1>5, <1>6, <1>7 DEF Positions

\* The steps of a quiescence of the board.
LEMMA BoardQuiescencePositions ==
  ASSUME TypeOK, Positions, Quiescence("board"), Frame PROVE Positions'
<1> USE DEF Quiescing, Revoking, Spawning, At
<1>b. "board" \in ActorId
  BY Actors
<1>1. ASSUME mission'.status = mission.status, mission'.phase = mission.phase,
             actor["board"].at \in Quiescing,
             \/ Moves("board", "close", actor["board"].goal, actor["board"].next)
             \/ /\ Moves("board", "final", actor["board"].goal, actor["board"].next)
                /\ NoneRunning' /\ (actor["board"].goal \in Revoking => Quiet')
             \/ Raises("board")
             \/ Proceeds("board") /\ actor["board"].at = "final" /\ actor["board"].goal = "block"
      PROVE  Positions'
  <2>1. ActorDomains'
    BY <1>1, Actors DEF Positions, ActorDomains, CtlDomain, Proceeds, Raises, Moves, Halts, Dispatching
  <2>2. Exclusion'
    BY <1>1, Actors
       DEF Positions, ActorDomains, CtlDomain, Exclusion, SpawnTyped, Proceeds, Raises, Moves, Halts, Dispatching, BoardFree
  <2>3. BoardPosition'
    BY <1>1, Actors DEF Positions, ActorDomains, CtlDomain, BoardPosition, Proceeds, Raises, Moves, Halts, Frame
  <2>4. CtlPosition'
    BY <1>1, Actors, CtlRests DEF Positions, Frame, Proceeds, Raises, Moves, Halts
  <2> QED
    BY <1>1, <2>1, <2>2, <2>3, <2>4, MissionRests DEF Positions
<1>2. ASSUME Proceeds("board"), actor["board"].at = "final", Quiet, mission'.status # "running",
             mission'.status \in {"waiting_for_user", "cancelled"},
             mission'.status \in {mission.status, "cancelled"}
      PROVE  Positions'
  <2>1. ActorDomains'
    BY <1>2, Actors DEF Positions, ActorDomains, CtlDomain, Proceeds, Moves, Halts, Dispatching
  <2>2. Exclusion'
    BY <1>2, Actors
       DEF Positions, ActorDomains, CtlDomain, Exclusion, SpawnTyped, Proceeds, Moves, Halts, Dispatching, BoardFree
  <2>3. BoardPosition'
    BY <1>2, Actors DEF Positions, ActorDomains, CtlDomain, BoardPosition, Proceeds, Moves, Halts, Frame
  <2>4. CtlPosition'
    BY <1>2, Actors, CtlRests DEF Positions, Frame, Proceeds, Moves, Halts
  <2>5. PausedIsQuiet' /\ VerifiedIsSettled' /\ TerminalIsSettled'
    BY <1>2 DEF Frame, PausedIsQuiet, VerifiedIsSettled, TerminalIsSettled
  <2> QED
    BY <2>1, <2>2, <2>3, <2>4, <2>5 DEF Positions
<1>3. CASE KillWorkers("board")
  <2>1. Moves("board", "close", actor["board"].goal, actor["board"].next)
    BY <1>3, <1>b DEF KillWorkers, Moves, TypeOK, Actor
  <2> QED
    BY <1>1, <1>3, <2>1 DEF KillWorkers
<1>4. CASE WorkerSurvives("board")
  BY <1>1, <1>4, <1>b, ActorMoves DEF WorkerSurvives
<1>5. CASE CloseRun("board")
  <2>1. Moves("board", "close", actor["board"].goal, actor["board"].next) \/ Raise("board")
    BY <1>5, <1>b DEF CloseRun, Moves, TypeOK, Actor
  <2> QED
    BY <1>1, <1>5, <1>b, <2>1, ActorMoves DEF CloseRun
<1>6. CASE ProveQuiescence("board")
  <2>1. \/ Raise("board")
        \/ /\ GoTo("board", "final") /\ \A c \in Executor : ~Occupied(task[c])
           /\ actor["board"].goal \in Revoking =>
                task' = [c \in Executor |-> [task[c] EXCEPT !.open = {}]]
    BY <1>6 DEF ProveQuiescence
  <2>2. ASSUME \A c \in Executor : ~Occupied(task[c])
        PROVE  /\ NoneRunning'
               /\ task' = [c \in Executor |-> [task[c] EXCEPT !.open = {}]] => Quiet'
    <3>1. NoneRunning'
      BY <2>2 DEF NoneRunning, Occupied, Frame
    <3>2. ASSUME task' = [c \in Executor |-> [task[c] EXCEPT !.open = {}]] PROVE Quiet'
      BY <2>2, <3>2 DEF Quiet, OpenIntents, Occupied, TypeOK, Card
    <3> QED
      BY <3>1, <3>2
  <2> QED
    BY <1>1, <1>6, <1>b, <2>1, <2>2, ActorMoves DEF ProveQuiescence
<1>7. CASE FinishPause("board")
  <2>1. Quiet
    BY <1>7 DEF FinishPause, Positions, BoardPosition
  <2>2. \/ Raise("board") /\ UNCHANGED mission
        \/ Proceed("board") /\ mission'.status = "waiting_for_user" /\ mission'.status = mission.status
    BY <1>7 DEF FinishPause, TypeOK, Mission
  <2> QED
    BY <1>1, <1>2, <1>7, <1>b, <2>1, <2>2, ActorMoves DEF FinishPause
<1>8. CASE FinishCancel("board")
  <2>1. Quiet
    BY <1>8 DEF FinishCancel, Positions, BoardPosition
  <2>2. \/ Raise("board") /\ UNCHANGED mission
        \/ Proceed("board") /\ mission'.status = "cancelled"
    BY <1>8 DEF FinishCancel, Transition
  <2> QED
    BY <1>1, <1>2, <1>8, <1>b, <2>1, <2>2, ActorMoves DEF FinishCancel
<1>9. CASE FinishBlock("board")
  <2>1. mission'.status = mission.status /\ mission'.phase = mission.phase
    BY <1>9 DEF FinishBlock, TypeOK, Mission
  <2> QED
    BY <1>1, <1>9, <1>b, <2>1, ActorMoves DEF FinishBlock
<1>10. CASE FinishRollback("board")
  <2>1. Halts("board")
    BY <1>10, <1>b, ActorMoves DEF FinishRollback, Conclude
  <2>2. ActorDomains' /\ Exclusion' /\ BoardPosition'
    BY <2>1, Actors
       DEF Halts, Moves, Positions, ActorDomains, CtlDomain, Exclusion, SpawnTyped, BoardPosition, BoardFree, Dispatching
  <2>3. CtlPosition'
    <3>1. mission.status = "waiting_for_user" \/ mission'.status # "waiting_for_user"
      BY <1>10 DEF FinishRollback, Conclude, Transition
    <3> QED
      BY <2>1, <3>1, Actors, CtlRests DEF Positions, Frame, Halts, Moves
  <2>4. NoneRunning' /\ OpenIntents' = {}
    <3>1. NoneRunning'
      BY <1>10 DEF FinishRollback, Positions, BoardPosition, Frame
    <3>2. OpenIntents' = {}
      BY <1>10 DEF FinishRollback, OpenIntents, TypeOK, Card
    <3> QED
      BY <3>1, <3>2
  <2>5. PausedIsQuiet' /\ VerifiedIsSettled' /\ TerminalIsSettled'
    <3>1. CASE UNCHANGED mission
      BY <3>1, MissionRests
    <3>2. CASE mission'.status = "rolled_back"
      BY <3>2, <2>4 DEF PausedIsQuiet, VerifiedIsSettled, TerminalIsSettled, Paused
    <3> QED
      BY <1>10, <3>1, <3>2 DEF FinishRollback, Conclude, Transition
  <2> QED
    BY <2>2, <2>3, <2>5 DEF Positions
<1> QED
  BY <1>3, <1>4, <1>5, <1>6, <1>7, <1>8, <1>9, <1>10 DEF Quiescence

\* A step of the control plane moves only itself, to a label, goal and continuation of
\* its own.  It only works on finished executors, never decides on a mission that
\* waits or was given up, and otherwise blocks the mission or takes it on.
CtlStep ==
  LET s == actor'["ctl"] IN
    /\ \A a \in ActorId \ {"ctl"} : actor'[a] = actor[a]
    /\ At("ctl", "idle") => MissionLockFree
    /\ CtlDomain'
    /\ s.at \in {"model"} \union Quiescing => AllDone
    /\ s.at = "escalate" \/ (s.at \in Quiescing /\ s.goal \in {"submit", "commit"}) =>
         mission'.status # "waiting_for_user"
    /\ \/ UNCHANGED mission
       \/ /\ mission.status \notin {"waiting_for_user", "cancelled", "rolled_back"}
          /\ \/ mission'.status = "blocked"
             \/ /\ mission'.status \in {"verifying", "awaiting_approval", "committing", "succeeded"}
                /\ AllDone /\ OpenIntents = {}

\* Such a step keeps all positions.
LEMMA CtlStepPositions ==
  ASSUME TypeOK, Positions, Frame, CtlStep PROVE Positions'
<1> USE DEF Quiescing, Revoking, Spawning, At
<1>1. actor'["board"] = actor["board"] /\ actor'["free"] = actor["free"]
  BY Actors DEF CtlStep
<1>2. BoardFree \/ Dispatching(actor["board"])
  BY DEF CtlStep, Positions, Exclusion, SpawnTyped, MissionLockFree
<1>3. ActorDomains'
  BY <1>1 DEF CtlStep, Positions, ActorDomains, Dispatching
<1>4. Exclusion'
  BY <1>1, <1>2 DEF CtlStep, Positions, Exclusion, SpawnTyped, Dispatching, BoardFree, SpawnCard,
                    SpawnRun
<1>5. BoardPosition'
  BY <1>1, <1>2, BoardRests DEF CtlStep
<1>6. CtlPosition'
  BY DEF CtlStep, CtlPosition, Frame
<1>7. PausedIsQuiet' /\ VerifiedIsSettled' /\ TerminalIsSettled'
  <2>1. CASE UNCHANGED mission
    BY <2>1, MissionRests
  <2>2. CASE mission'.status = "blocked"
    BY <2>2 DEF PausedIsQuiet, VerifiedIsSettled, TerminalIsSettled, Paused, TerminalMissionStatus
  <2>3. CASE /\ mission'.status \in {"verifying", "awaiting_approval", "committing", "succeeded"}
             /\ AllDone /\ OpenIntents = {}
    <3>1. AllDone' /\ OpenIntents' = {} /\ NoneRunning'
      BY <2>3 DEF AllDone, NoneRunning, Frame
    <3> QED
      BY <2>3, <3>1 DEF PausedIsQuiet, VerifiedIsSettled, TerminalIsSettled, Paused
  <2> QED
    BY <2>1, <2>2, <2>3 DEF CtlStep
<1> QED
  BY <1>3, <1>4, <1>5, <1>6, <1>7 DEF Positions

\* A step of the control plane, by where it moves and what it makes of the mission.
LEMMA CtlMoves ==
  ASSUME NEW at, NEW goal, NEW next, Moves("ctl", at, goal, next),
         at \in Quiescing \union {"idle", "model", "settle", "escalate", "error"},
         goal \in {"none", "verify", "submit", "commit"},
         next \in {"idle", "settle"},
         actor["ctl"].at # "idle" \/ MissionLockFree,
         at \in {"model"} \union Quiescing => AllDone,
         at = "escalate" \/ (at \in Quiescing /\ goal \in {"submit", "commit"}) =>
           mission'.status # "waiting_for_user",
         \/ UNCHANGED mission
         \/ /\ mission.status \notin {"waiting_for_user", "cancelled", "rolled_back"}
            /\ \/ mission'.status = "blocked"
               \/ /\ mission'.status \in {"verifying", "awaiting_approval", "committing", "succeeded"}
                  /\ AllDone /\ OpenIntents = {}
  PROVE  CtlStep
BY DEF CtlStep, Moves, CtlDomain, At, Quiescing

\* What a raise or a stop of the control plane does.
LEMMA CtlEnds ==
  ASSUME TypeOK, CtlDomain, UNCHANGED mission, Raise("ctl") \/ Stop("ctl"),
         actor["ctl"].at # "idle"
  PROVE  CtlStep
<1>1. Raises("ctl") \/ Halts("ctl")
  BY ActorMoves, Actors
<1>2. /\ actor["ctl"].next \in {"idle", "settle"}
      /\ actor["ctl"].goal \in {"none", "verify", "submit", "commit"}
  BY DEF CtlDomain
<1>3. \/ Moves("ctl", "error", actor["ctl"].goal, "settle")
      \/ Moves("ctl", "idle", "none", "idle")
  BY <1>1, <1>2 DEF Raises, Halts
<1> QED
  BY <1>2, <1>3, CtlMoves DEF Quiescing

\* The steps of a quiescence of the control plane.
LEMMA CtlQuiescenceSteps ==
  ASSUME TypeOK, CtlDomain, CtlPosition, Quiescence("ctl") PROVE CtlStep
<1> USE DEF Quiescing, At
<1>c. "ctl" \in ActorId
  BY Actors
<1>d. /\ actor["ctl"].next \in {"idle", "settle"}
      /\ actor["ctl"].goal \in {"none", "verify", "submit", "commit"}
  BY DEF CtlDomain
<1>p. actor["ctl"].at \in Quiescing =>
        AllDone /\ (actor["ctl"].goal \in {"submit", "commit"} => mission.status # "waiting_for_user")
  BY DEF CtlPosition
<1>1. ASSUME NEW label \in {"close", "final"}, actor["ctl"].at \in Quiescing, UNCHANGED mission,
             Moves("ctl", label, actor["ctl"].goal, actor["ctl"].next)
      PROVE  CtlStep
  BY <1>1, <1>d, <1>p, CtlMoves
<1>2. CASE KillWorkers("ctl")
  <2>1. Moves("ctl", "close", actor["ctl"].goal, actor["ctl"].next)
    BY <1>2, <1>c DEF KillWorkers, Moves, TypeOK, Actor
  <2> QED
    BY <1>1, <1>2, <2>1 DEF KillWorkers
<1>3. CASE WorkerSurvives("ctl")
  BY <1>3, CtlEnds DEF WorkerSurvives
<1>4. CASE CloseRun("ctl")
  <2>1. Moves("ctl", "close", actor["ctl"].goal, actor["ctl"].next) \/ Raise("ctl")
    BY <1>4, <1>c DEF CloseRun, Moves, TypeOK, Actor
  <2> QED
    BY <1>1, <1>4, <2>1, CtlEnds DEF CloseRun
<1>5. CASE ProveQuiescence("ctl")
  <2>1. GoTo("ctl", "final") \/ Raise("ctl")
    BY <1>5 DEF ProveQuiescence
  <2> QED
    BY <1>1, <1>5, <1>c, <2>1, ActorMoves, CtlEnds DEF ProveQuiescence
<1> QED
  BY <1>2, <1>3, <1>4, <1>5, <1>d
     DEF Quiescence, FinishPause, FinishCancel, FinishBlock, FinishRollback

\* The steps of the control plane.
LEMMA ControlSteps ==
  ASSUME TypeOK, CtlDomain, CtlPosition, VerifiedIsSettled, Control PROVE CtlStep
<1> USE DEF Quiescing, At
<1>c. "ctl" \in ActorId /\ actor \in [ActorId -> Actor]
  BY Actors DEF TypeOK
<1>d. /\ actor["ctl"].next \in {"idle", "settle"}
      /\ actor["ctl"].goal \in {"none", "verify", "submit", "commit"}
  BY DEF CtlDomain
<1>h. ASSUME Halts("ctl"), actor["ctl"].at # "idle",
             \/ UNCHANGED mission
             \/ /\ mission.status \notin {"waiting_for_user", "cancelled", "rolled_back"}
                /\ mission'.status = "blocked"
      PROVE  CtlStep
  BY <1>h, CtlMoves DEF Halts
<1>a. Allowed(mission.status, "blocked") /\ mission.status # "waiting_for_user" =>
        mission.status \notin {"waiting_for_user", "cancelled", "rolled_back"}
  BY DEF Allowed, AllowedTransitions, MissionStatus
<1>e. mission.status \in MissionStatus
  BY DEF TypeOK, Mission
<1>v. mission.status \in {"verifying", "awaiting_approval", "committing", "succeeded"} =>
        AllDone /\ OpenIntents = {}
  BY DEF VerifiedIsSettled
<1>m. \A label, goal : actor' = [actor EXCEPT !["ctl"] =
                          [Idle EXCEPT !.at = label, !.goal = goal, !.next = "settle"]]
                         => Moves("ctl", label, goal, "settle")
  BY <1>c DEF Moves, Idle
<1>n. actor' = [actor EXCEPT !["ctl"] = [Idle EXCEPT !.at = "settle", !.next = "settle"]]
        => Moves("ctl", "settle", "none", "settle")
  BY <1>c DEF Moves, Idle
<1>o. actor' = [actor EXCEPT !["ctl"] = Idle] => Moves("ctl", "idle", "none", "idle")
  BY <1>c DEF Moves, Idle
<1>s. ASSUME UNCHANGED actor, MissionLockFree,
             mission.status \notin {"waiting_for_user", "cancelled", "rolled_back"},
             \/ mission'.status = "blocked"
             \/ mission'.status = "committing" /\ AllDone /\ OpenIntents = {}
      PROVE  CtlStep
  <2>1. Moves("ctl", "idle", actor["ctl"].goal, actor["ctl"].next)
    BY <1>s DEF Moves, MissionLockFree
  <2> QED
    BY <1>s, <2>1, <1>d, CtlMoves
<1>1. CASE ControllerTick
  <2>1. CASE UNCHANGED actor /\ mission'.status = "blocked"
    BY <1>1, <2>1, <1>s DEF ControllerTick
  <2>2. CASE UNCHANGED mission /\ Moves("ctl", "escalate", "none", "settle")
    BY <1>1, <2>2, CtlMoves DEF ControllerTick
  <2>3. CASE UNCHANGED mission /\ AllDone /\ Moves("ctl", "kill", "verify", "settle")
    BY <1>1, <2>3, CtlMoves DEF ControllerTick
  <2>4. CASE UNCHANGED mission /\ Moves("ctl", "settle", "none", "settle")
    BY <1>1, <2>4, CtlMoves DEF ControllerTick
  <2>5. \/ UNCHANGED actor /\ Transition("blocked", "budget")
        \/ /\ UNCHANGED mission
           /\ actor' = [actor EXCEPT !["ctl"] =
                          [Idle EXCEPT !.at = "escalate", !.goal = "none", !.next = "settle"]]
        \/ /\ UNCHANGED mission /\ (AllDone \/ mission.status = "verifying")
           /\ actor' = [actor EXCEPT !["ctl"] =
                          [Idle EXCEPT !.at = "kill", !.goal = "verify", !.next = "settle"]]
        \/ /\ UNCHANGED mission
           /\ actor' = [actor EXCEPT !["ctl"] =
                          [Idle EXCEPT !.at = "settle", !.goal = "none", !.next = "settle"]]
    BY <1>1 DEF ControllerTick
  <2>6. CASE UNCHANGED actor /\ Transition("blocked", "budget")
    BY <2>1, <2>6 DEF Transition
  <2> QED
    BY <2>2, <2>3, <2>4, <2>5, <2>6, <1>m, <1>v
<1>2. CASE EscalateBlockedExecutor
  <2>1. Halts("ctl")
    BY <1>2, <1>c, ActorMoves DEF EscalateBlockedExecutor, Conclude
  <2>2. mission.status # "waiting_for_user"
    BY <1>2 DEF EscalateBlockedExecutor, CtlPosition
  <2> QED
    BY <1>2, <1>a, <2>1, <2>2, <1>h DEF EscalateBlockedExecutor, Conclude, Transition
<1>3. CASE VerifyMission
  <2>1. Moves("ctl", "kill", "verify", actor["ctl"].next)
    BY <1>3, <1>c, ActorMoves DEF VerifyMission
  <2> QED
    BY <1>3, <2>1, <1>d, CtlMoves DEF VerifyMission
<1>4. CASE EnterVerification
  <2>1. AllDone
    BY <1>4 DEF EnterVerification, CtlPosition
  <2>2. CASE Raise("ctl") /\ UNCHANGED mission
    BY <1>4, <2>2, CtlEnds DEF EnterVerification
  <2>3. CASE OpenIntents = {} /\ GoTo("ctl", "model")
    <3>1. Moves("ctl", "model", "verify", actor["ctl"].next)
      BY <1>4, <2>3, <1>c, ActorMoves DEF EnterVerification
    <3>2. UNCHANGED mission \/ mission'.status = "verifying"
      BY <1>4 DEF EnterVerification, Transition
    <3> QED
      BY <1>4, <2>1, <2>3, <3>1, <3>2, <1>d, CtlMoves DEF EnterVerification
  <2> QED
    BY <1>4, <2>2, <2>3 DEF EnterVerification
<1>5. CASE VerifierAnswers
  <2>1. CASE Raise("ctl")
    BY <1>5, <2>1, CtlEnds DEF VerifierAnswers
  <2>2. CASE mission.status \in {"running", "verifying"} /\ Quiesce("ctl", "submit")
    <3>1. Moves("ctl", "kill", "submit", actor["ctl"].next)
      BY <2>2, <1>c, ActorMoves
    <3>2. AllDone
      BY <1>5 DEF VerifierAnswers, CtlPosition
    <3> QED
      BY <1>5, <2>2, <3>1, <3>2, <1>d, CtlMoves DEF VerifierAnswers
  <2> QED
    BY <1>5, <2>1, <2>2 DEF VerifierAnswers
<1>13. CASE SubmitVerifierVerdict
  <2>1. Moves("ctl", "kill", "submit", actor["ctl"].next)
    BY <1>13, <1>c, ActorMoves DEF SubmitVerifierVerdict
  <2> QED
    BY <1>13, <2>1, <1>d, CtlMoves DEF SubmitVerifierVerdict
<1>14. CASE BeginVerdict
  <2>1. AllDone
    BY <1>14 DEF BeginVerdict, CtlPosition
  <2>2. CASE Raise("ctl") /\ UNCHANGED mission
    BY <1>14, <2>2, CtlEnds DEF BeginVerdict
  <2>3. CASE OpenIntents = {} /\ mission'.status = "verifying" /\ UNCHANGED actor
    <3>1. Moves("ctl", "final", actor["ctl"].goal, actor["ctl"].next)
      BY <1>14, <2>3 DEF BeginVerdict, Moves
    <3> QED
      BY <1>14, <2>1, <2>3, <3>1, <1>d, CtlMoves DEF BeginVerdict
  <2> QED
    BY <1>14, <2>2, <2>3 DEF BeginVerdict, Transition
<1>6. CASE SubmitVerdict
  <2>1. CASE Raise("ctl") /\ UNCHANGED mission
    BY <1>6, <2>1, CtlEnds DEF SubmitVerdict
  <2>2. CASE /\ OpenIntents = {}
             /\ \E passed \in BOOLEAN : /\ mission'.status = Verdict(passed)
                                       /\ Allowed(mission.status, Verdict(passed))
             /\ \/ Moves("ctl", "settle", "none", "settle")
                \/ Moves("ctl", "idle", "none", "idle")
    <3>1. AllDone
      BY <1>6 DEF SubmitVerdict, CtlPosition
    <3>2. mission'.status \in {"blocked", "awaiting_approval", "committing"}
      BY <2>2 DEF Verdict
    <3>3. mission.status # "waiting_for_user"
      BY <1>6 DEF SubmitVerdict, CtlPosition
    <3>4. mission.status \notin {"waiting_for_user", "cancelled", "rolled_back"}
      BY <2>2, <3>2, <3>3, <1>e DEF Allowed, AllowedTransitions, MissionStatus
    <3> QED
      BY <1>6, <2>2, <3>1, <3>2, <3>4, CtlMoves DEF SubmitVerdict
  <2> QED
    BY <1>6, <2>1, <2>2, <1>n, <1>o DEF SubmitVerdict, Transition
<1>7. CASE SettleVerifier
  <2>1. \/ Moves("ctl", "kill", "commit", "settle") /\ mission.status = "committing"
        \/ Moves("ctl", "idle", "none", "idle")
    BY <1>7, <1>m, <1>o DEF SettleVerifier
  <2> QED
    BY <1>7, <1>v, <2>1, CtlMoves DEF SettleVerifier
<1>8. CASE ApproveCommit
  <2>1. mission.status = "awaiting_approval" /\ mission'.status = "committing"
    BY <1>8 DEF ApproveCommit, Transition
  <2> QED
    BY <1>8, <2>1, <1>s, <1>v DEF ApproveCommit
<1>9. CASE DenyMission
  <2>1. mission'.status = "blocked"
    BY <1>9 DEF DenyMission, Transition
  <2> QED
    BY <1>9, <2>1, <1>s DEF DenyMission
<1>10. CASE CommitMission
  <2>1. Moves("ctl", "kill", "commit", actor["ctl"].next)
    BY <1>10, <1>c, ActorMoves DEF CommitMission
  <2> QED
    BY <1>10, <1>v, <2>1, <1>d, CtlMoves DEF CommitMission
<1>11. CASE FinishCommit
  <2>1. CASE Raise("ctl") /\ UNCHANGED mission
    BY <1>11, <2>1, CtlEnds DEF FinishCommit
  <2>2. CASE Conclude("ctl", "succeeded", "complete") \/ Conclude("ctl", "blocked", "commit")
    <3>1. Halts("ctl")
      BY <2>2, <1>c, ActorMoves DEF Conclude
    <3>2. CASE UNCHANGED mission \/ (Allowed(mission.status, "blocked") /\ mission'.status = "blocked")
      <4>1. mission.status # "waiting_for_user"
        BY <1>11 DEF FinishCommit, CtlPosition
      <4> QED
        BY <1>11, <1>a, <4>1, <3>1, <3>2, <1>h DEF FinishCommit
    <3>3. CASE Allowed(mission.status, "succeeded") /\ mission'.status = "succeeded"
      <4>1. mission.status = "committing"
        BY <3>3 DEF Allowed, AllowedTransitions, MissionStatus, TypeOK, Mission
      <4> QED
        BY <1>11, <4>1, <3>1, <3>3, <1>v, CtlMoves DEF FinishCommit, Halts
    <3> QED
      BY <2>2, <3>2, <3>3 DEF Conclude, Transition
  <2> QED
    BY <1>11, <2>1, <2>2 DEF FinishCommit
<1>12. CASE CountError
  <2>1. \/ Moves("ctl", "settle", "none", "settle")
        \/ Moves("ctl", "idle", "none", "idle")
    BY <1>12, <1>n, <1>o DEF CountError
  <2>2. UNCHANGED mission \/ mission'.status = "blocked"
    BY <1>12 DEF CountError, Transition
  <2> QED
    BY <1>12, <2>1, <2>2, CtlMoves DEF CountError
<1> QED
  BY <1>1, <1>2, <1>3, <1>4, <1>5, <1>6, <1>7, <1>8, <1>9, <1>10, <1>11, <1>12,
     <1>13, <1>14 DEF Control

\* A step that moves nobody.
LEMMA NobodyMoves ==
  ASSUME TypeOK, Positions, Frame, UNCHANGED mission, UNCHANGED actor PROVE Positions'
<1>1. ActorDomains' /\ Exclusion'
  BY DEF Positions, ActorDomains, CtlDomain, Exclusion, SpawnTyped, BoardFree, At, Dispatching, SpawnCard, SpawnRun
<1>2. BoardPosition' /\ CtlPosition'
  BY BoardRests, CtlRests DEF Positions, Frame
<1> QED
  BY <1>1, <1>2, MissionRests DEF Positions

\* A step of the board, by where it moves and what it makes of the mission.
LEMMA BoardMoves ==
  ASSUME TypeOK, Positions, AllDone => AllDone',
         NEW at \in Label \ {"model", "settle", "escalate", "error", "final"},
         NEW goal \in {"none", "pause", "cancel", "block", "rollback"},
         NEW next \in Return \ {"settle"},
         Moves("board", at, goal, next),
         at \in {"reclaim", "limits", "scan"} \union Spawning => next \in {"reclaim", "scan"},
         at \in {"idle", "latched", "requeue", "requeueing", "release", "releasing"}
           => next \notin {"reclaim", "scan"},
         at = "reconcile" => next # "release",
         at = "idle" \/ next \in {"reclaim", "scan"} \/ At("ctl", "idle"),
         at \in Spawning => /\ SpawnCard' \in Executor /\ SpawnRun' \in Run
                            /\ mission'.status \notin {"ready", "waiting_for_user"},
         at \in Quiescing => mission'.status # "running",
         at \in Quiescing /\ goal = "pause" => mission'.status = "waiting_for_user",
         at = "latched" =>
           NoneRunning' /\ OpenIntents' = {} /\ mission'.status \in {"ready", "blocked"},
         at \in {"release", "releasing"} => Quiet' /\ mission'.status # "running",
         at = "requeue" => Quiet' \/ mission'.status # "blocked",
         at = "requeueing" => Quiet' /\ mission'.status = "blocked",
         \/ mission.status = "waiting_for_user" \/ mission'.status # "waiting_for_user"
         \/ At("ctl", "idle"),
         PausedIsQuiet', VerifiedIsSettled', TerminalIsSettled'
  PROVE  Positions'
<1> USE DEF Quiescing, Revoking, Spawning, At
<1>1. actor'["ctl"] = actor["ctl"] /\ actor'["free"] = actor["free"]
  BY Actors DEF Moves
<1>2. ActorDomains'
  BY <1>1 DEF Positions, ActorDomains, CtlDomain, Moves, Dispatching
<1>3. Exclusion'
  BY <1>1 DEF Positions, Exclusion, SpawnTyped, Moves, Dispatching, BoardFree
<1>4. BoardPosition'
  BY DEF BoardPosition, Moves
<1>5. CtlPosition'
  BY <1>1 DEF Positions, CtlPosition
<1> QED
  BY <1>2, <1>3, <1>4, <1>5 DEF Positions

\* The steps of a tick that grant nothing.
LEMMA TickPositions ==
  ASSUME TypeOK, Positions, DispatcherTick, Frame, ~Spawn PROVE Positions'
<1> USE DEF Quiescing, Revoking, Spawning, At
<1>b. "board" \in ActorId /\ actor \in [ActorId -> Actor] /\ actor["board"] \in Actor
  BY Actors DEF TypeOK
<1>d. /\ actor["board"].at \in {"reclaim", "limits", "scan"} \union Spawning =>
           actor["board"].next \in {"reclaim", "scan"}
      /\ actor["board"].goal \in {"none", "pause", "cancel", "block", "rollback"}
      /\ actor["board"].at \in Spawning =>
           /\ SpawnCard \in Executor /\ SpawnRun \in Run
           /\ mission.status \notin {"ready", "waiting_for_user"}
  BY <1>b DEF Positions, ActorDomains, CtlDomain, Exclusion, SpawnTyped, Dispatching, Actor, Goal
<1>f. AllDone => AllDone'
  BY DEF Frame
<1>r. {"reclaim", "scan"} \subseteq Return /\ "idle" \in Return
      /\ {"reconcile", "limits", "scan", "spawned", "idle"} \subseteq Label
  BY DEF Return, Label
<1>1. CASE StartTick
  <2>1. Moves("board", "reconcile", "none", "reclaim")
    BY <1>1, <1>b DEF StartTick, Moves, Idle
  <2> QED
    BY <1>1, <2>1, <1>f, <1>r, BoardMoves, MissionRests DEF StartTick
<1>2. ASSUME NEW c \in Executor, ReleaseStaleClaim(c) \/ EnforceMaxRuntime(c) PROVE Positions'
  BY <1>2, NobodyMoves DEF ReleaseStaleClaim, EnforceMaxRuntime
<1>3. CASE DetectCrashedWorkers
  <2>1. Moves("board", "limits", actor["board"].goal, actor["board"].next)
    BY <1>3, <1>b, ActorMoves DEF DetectCrashedWorkers
  <2> QED
    BY <1>3, <2>1, <1>d, <1>f, <1>r, BoardMoves, MissionRests DEF DetectCrashedWorkers
<1>4. CASE PromoteReady
  <2>1. Moves("board", "reconcile", actor["board"].goal, actor["board"].next)
    BY <1>4, <1>b, ActorMoves DEF PromoteReady
  <2> QED
    BY <1>4, <2>1, <1>d, <1>f, <1>r, BoardMoves, MissionRests DEF PromoteReady
<1>5. CASE SpawnWorker
  <2>1. /\ Moves("board", "spawned", actor["board"].goal, actor["board"].next)
        /\ SpawnCard' = SpawnCard /\ SpawnRun' = SpawnRun
    BY <1>5, <1>b, ActorMoves DEF SpawnWorker, SpawnCard, SpawnRun
  <2> QED
    BY <1>5, <2>1, <1>d, <1>f, <1>r, BoardMoves, MissionRests DEF SpawnWorker
<1>6. CASE RecordSpawnFailure
  <2>1. Moves("board", "scan", "none", "scan")
    BY <1>6, <1>b DEF RecordSpawnFailure, NextRow, InTick, Idle, Moves
  <2> QED
    BY <1>6, <2>1, <1>f, <1>r, BoardMoves, MissionRests DEF RecordSpawnFailure
<1>7. CASE EndTick
  <2>1. Moves("board", "idle", "none", "idle")
    BY <1>7, <1>b, ActorMoves DEF EndTick, Halts
  <2> QED
    BY <1>7, <2>1, <1>f, <1>r, BoardMoves, MissionRests DEF EndTick
<1> QED
  BY <1>1, <1>2, <1>3, <1>4, <1>5, <1>6, <1>7 DEF DispatcherTick, Spawn

\* The steps of a spawn keep the runs invariant.
LEMMA SpawnRuns ==
  ASSUME TypeOK, RunsInvariant, SpawnTyped, Spawn PROVE RunsInvariant'
<1>t. task \in [Executor -> Card]
  BY DEF TypeOK
<1>1. ASSUME NEW c \in Executor, ClaimTask(c) PROVE RunsInvariant'
  <2>1. task[c] \in Card /\ task[c].runs < MaxRun
    BY <1>1 DEF ClaimTask, TypeOK
  <2>2. Consistent(Claimed(task[c]))
    BY <2>1, ClaimedType
  <2> QED
    BY <1>1, <1>t, <2>2 DEF ClaimTask, RunsInvariant, Consistent
<1>2. CASE BeginTaskIntent
  <2>1. SpawnCard \in Executor
    BY <1>2 DEF BeginTaskIntent, At, SpawnTyped, Spawning
  <2> QED
    BY <1>2, <1>t, <2>1 DEF BeginTaskIntent, IntentOpened, RunsInvariant, Card
<1>3. CASE SetWorkerPid
  <2>1. SpawnCard \in Executor
    BY <1>3 DEF SetWorkerPid, At, SpawnTyped, Spawning
  <2> QED
    BY <1>3, <1>t, <2>1 DEF SetWorkerPid, PidRecorded, RunsInvariant, Card
<1> QED
  BY <1>1, <1>2, <1>3 DEF Spawn

\* The steps of a tick that make a lease: the claim, its journal entry and its pid.
LEMMA SpawnPositions ==
  ASSUME TypeOK, Positions, Spawn PROVE Positions'
<1> USE DEF Quiescing, Revoking, Spawning, At
<1>b. "board" \in ActorId /\ actor \in [ActorId -> Actor] /\ actor["board"] \in Actor
  BY Actors DEF TypeOK
<1>d. /\ actor["board"].at \in {"scan"} \union Spawning => actor["board"].next \in {"reclaim", "scan"}
      /\ actor["board"].goal \in {"none", "pause", "cancel", "block", "rollback"}
      /\ actor["board"].at \in Spawning =>
           /\ SpawnCard \in Executor /\ SpawnRun \in Run
           /\ mission.status \notin {"ready", "waiting_for_user"}
  BY <1>b DEF Positions, ActorDomains, CtlDomain, Exclusion, SpawnTyped, Dispatching, Actor, Goal
<1>r. /\ {"reclaim", "scan"} \subseteq Return
      /\ {"claimed", "journaled", "scan"} \subseteq Label
  BY DEF Return, Label
<1>t. task \in [Executor -> Card]
  BY DEF TypeOK
<1>1. ASSUME NEW c \in Executor, ClaimTask(c) PROVE Positions'
  <2>1. task[c] \in Card /\ task[c].runs < MaxRun /\ task[c].status = "ready"
    BY <1>1 DEF ClaimTask, TypeOK
  <2>2. task[c].runs + 1 \in Run
    BY <2>1, ClaimedType
  <2>4. /\ Moves("board", "claimed", actor["board"].goal, actor["board"].next)
        /\ SpawnCard' = c /\ SpawnRun' = task[c].runs + 1
    BY <1>1, <1>b DEF ClaimTask, Moves, Actor, SpawnCard, SpawnRun
  <2>5. PausedIsQuiet' /\ VerifiedIsSettled' /\ TerminalIsSettled'
    BY <1>1 DEF ClaimTask, PausedIsQuiet, Paused, VerifiedIsSettled, TerminalIsSettled,
                TerminalMissionStatus
  <2>6. AllDone => AllDone'
    BY <2>1 DEF AllDone
  <2> QED
    BY <1>1, <1>d, <1>r, <2>2, <2>4, <2>5, <2>6, BoardMoves DEF ClaimTask
<1>2. CASE BeginTaskIntent
  <2>1. SpawnCard \in Executor /\ task[SpawnCard].status = "running"
    BY <1>2, <1>d DEF BeginTaskIntent
  <2>3. /\ Moves("board", "journaled", actor["board"].goal, actor["board"].next)
        /\ SpawnCard' = SpawnCard /\ SpawnRun' = SpawnRun
    BY <1>2, <1>b, ActorMoves DEF BeginTaskIntent, SpawnCard, SpawnRun
  <2>4. ~AllDone /\ ~NoneRunning
    BY <2>1 DEF AllDone, NoneRunning
  <2>5. mission' = mission /\ mission.status \notin {"ready", "waiting_for_user"}
    BY <1>2, <1>d DEF BeginTaskIntent
  <2>6. PausedIsQuiet' /\ VerifiedIsSettled' /\ TerminalIsSettled'
    BY <2>4, <2>5 DEF Positions, PausedIsQuiet, Paused, VerifiedIsSettled, TerminalIsSettled
  <2> QED
    BY <1>2, <1>d, <1>r, <2>3, <2>4, <2>5, <2>6, BoardMoves DEF BeginTaskIntent
<1>3. CASE SetWorkerPid
  <2>1. SpawnCard \in Executor
    BY <1>3, <1>d DEF SetWorkerPid
  <2>2. \A c \in Executor : /\ task'[c].status = task[c].status /\ task'[c].run = task[c].run
                            /\ task'[c].claimed = task[c].claimed /\ task'[c].open = task[c].open
    BY <1>3, <1>t, <2>1 DEF SetWorkerPid, PidRecorded, Card
  <2>4. Moves("board", "scan", "none", "scan")
    BY <1>3, <1>b DEF SetWorkerPid, NextRow, InTick, Idle, Moves
  <2>5. (AllDone => AllDone') /\ (NoneRunning => NoneRunning') /\ OpenIntents' = OpenIntents
    BY <2>2 DEF AllDone, NoneRunning, OpenIntents
  <2>6. mission' = mission /\ mission.status \notin {"ready", "waiting_for_user"}
    BY <1>3, <1>d DEF SetWorkerPid
  <2>7. PausedIsQuiet' /\ VerifiedIsSettled' /\ TerminalIsSettled'
    BY <2>5, <2>6 DEF Positions, PausedIsQuiet, Paused, VerifiedIsSettled, TerminalIsSettled
  <2> QED
    BY <1>r, <2>4, <2>5, <2>6, <2>7, BoardMoves
<1> QED
  BY <1>1, <1>2, <1>3 DEF Spawn

\* The steps of the operator's commands.
LEMMA CommandPositions ==
  ASSUME TypeOK, Positions, Command, Frame PROVE Positions'
<1> USE DEF Quiescing, Revoking, Spawning, At
<1>b. "board" \in ActorId /\ actor \in [ActorId -> Actor] /\ actor["board"] \in Actor
  BY Actors DEF TypeOK
<1>d. /\ actor["board"].goal \in {"none", "pause", "cancel", "block", "rollback"}
      /\ actor["board"].next \in Return \ {"settle"}
      /\ actor["board"].at \in {"idle", "latched", "requeue", "requeueing", "release", "releasing"} =>
           actor["board"].next \notin {"reclaim", "scan"}
      /\ actor["board"].at \in {"latched", "requeue", "requeueing", "release", "releasing"} =>
           actor["ctl"].at = "idle"
  BY <1>b DEF Positions, ActorDomains, CtlDomain, Exclusion, SpawnTyped, BoardFree, Dispatching, Actor, Goal
<1>p. /\ actor["board"].at \in {"release", "releasing", "requeueing"} =>
           Quiet' /\ mission.status # "running"
      /\ actor["board"].at = "requeueing" => mission.status = "blocked"
  BY DEF Positions, BoardPosition, Frame
<1>f. AllDone => AllDone'
  BY DEF Frame
<1>r. /\ {"idle", "requeue", "release"} \subseteq Return
      /\ {"idle", "kill", "reconcile", "latched", "release", "releasing", "requeue", "requeueing"}
           \subseteq Label
  BY DEF Return, Label
<1>k. ASSUME NEW goal \in {"pause", "cancel", "rollback"}, CommandsFree, Quiesce("board", goal),
             mission'.status # "running", goal = "pause" => mission'.status = "waiting_for_user",
             \/ UNCHANGED mission
             \/ mission'.status = "waiting_for_user" /\ mission'.phase \in {"pausing", "cancelling"}
      PROVE  Positions'
  <2>1. Moves("board", "kill", goal, actor["board"].next)
    BY <1>k, <1>b, ActorMoves
  <2>2. PausedIsQuiet' /\ VerifiedIsSettled' /\ TerminalIsSettled'
    <3>1. CASE UNCHANGED mission
      BY <3>1, MissionRests
    <3>2. CASE mission'.status = "waiting_for_user" /\ mission'.phase \in {"pausing", "cancelling"}
      BY <3>2 DEF PausedIsQuiet, Paused, VerifiedIsSettled, TerminalIsSettled, TerminalMissionStatus
    <3> QED
      BY <1>k, <3>1, <3>2
  <2> QED
    BY <1>k, <2>1, <2>2, <1>d, <1>f, <1>r, BoardMoves DEF CommandsFree, BoardFree
<1>x. ASSUME Conclude("board", "running", "execution") PROVE Positions'
  <2>1. Moves("board", "idle", "none", "idle")
    BY <1>x, <1>b, ActorMoves DEF Conclude, Halts
  <2>2. UNCHANGED mission \/ mission'.status = "running"
    BY <1>x DEF Conclude, Transition
  <2>3. PausedIsQuiet' /\ VerifiedIsSettled' /\ TerminalIsSettled'
    BY <2>2, MissionRests
       DEF PausedIsQuiet, Paused, VerifiedIsSettled, TerminalIsSettled, TerminalMissionStatus
  <2>4. mission.status = "waiting_for_user" \/ mission'.status # "waiting_for_user"
    BY <2>2
  <2> QED
    BY <2>1, <2>3, <2>4, <1>f, <1>r, BoardMoves
<1>s. ASSUME actor["board"].next \notin {"reclaim", "scan"}, Raise("board"), UNCHANGED mission
      PROVE  Positions'
  <2>1. Moves("board", "idle", "none", "idle")
    BY <1>s, <1>b, <1>d, ActorMoves DEF Raises, Halts
  <2> QED
    BY <1>s, <2>1, <1>f, <1>r, BoardMoves, MissionRests
<1>1. CASE StartMission
  <2>1. Moves("board", "latched", actor["board"].goal, actor["board"].next)
    BY <1>1, <1>b, ActorMoves DEF StartMission
  <2>2. NoneRunning' /\ OpenIntents' = {} /\ mission'.status \in {"ready", "blocked"}
    BY <1>1 DEF StartMission, StartGate, NoneRunning, Frame
  <2>3. actor["board"].at = "idle" /\ actor["ctl"].at = "idle" /\ UNCHANGED mission
    BY <1>1 DEF StartMission, CommandsFree, BoardFree
  <2> QED
    BY <2>1, <2>2, <2>3, <1>d, <1>f, <1>r, BoardMoves, MissionRests
<1>2. CASE BeginExecution
  BY <1>2, <1>x DEF BeginExecution
<1>3. CASE PauseMission
  BY <1>3, <1>k DEF PauseMission, Transition
<1>4. CASE ResumeMission
  <2>1. \/ Moves("board", "kill", "pause", "release")
        \/ Moves("board", "release", "none", "release") /\ Paused
    BY <1>4, <1>b DEF ResumeMission, Moves, Idle, Paused
  <2>2. Paused => Quiet'
    BY DEF Positions, PausedIsQuiet, Frame
  <2>3. mission' = mission /\ mission.status = "waiting_for_user" /\ actor["ctl"].at = "idle"
    BY <1>4 DEF ResumeMission, CommandsFree
  <2> QED
    BY <2>1, <2>2, <2>3, <1>f, <1>r, BoardMoves, MissionRests
<1>5. CASE CollectPaused
  <2>1. Moves("board", "releasing", actor["board"].goal, actor["board"].next)
    BY <1>5, <1>b DEF CollectPaused, Moves, Actor
  <2> QED
    BY <1>5, <2>1, <1>d, <1>p, <1>f, <1>r, BoardMoves, MissionRests DEF CollectPaused
<1>6. ASSUME NEW c \in Executor, ResumeCard(c) PROVE Positions'
  <2>1. UNCHANGED actor \/ Moves("board", "releasing", actor["board"].goal, actor["board"].next)
    BY <1>6, <1>b DEF ResumeCard, Moves, Actor
  <2> QED
    BY <1>6, <2>1, <1>d, <1>p, <1>f, <1>r, BoardMoves, MissionRests, NobodyMoves DEF ResumeCard
<1>7. CASE FinishResume
  BY <1>7, <1>x DEF FinishResume
<1>8. CASE CancelMission
  BY <1>8, <1>k DEF CancelMission, Transition
<1>9. CASE RetryMission
  <2>1. Moves("board", "reconcile", "none", "requeue")
    BY <1>9, <1>b DEF RetryMission, Moves, Idle
  <2> QED
    BY <1>9, <2>1, <1>f, <1>r, BoardMoves, MissionRests DEF RetryMission, CommandsFree
<1>10. CASE CollectBlocked
  <2>1. CASE mission.status = "blocked"
             /\ Moves("board", "requeueing", actor["board"].goal, actor["board"].next)
    <3>1. Quiet'
      BY <1>10, <2>1 DEF CollectBlocked, Positions, BoardPosition, Frame
    <3> QED
      BY <1>10, <2>1, <3>1, <1>d, <1>f, <1>r, BoardMoves, MissionRests DEF CollectBlocked
  <2>2. CASE Raise("board")
    BY <1>10, <2>2, <1>d, <1>s DEF CollectBlocked
  <2>3. \/ mission.status = "blocked"
           /\ Moves("board", "requeueing", actor["board"].goal, actor["board"].next)
        \/ Raise("board")
    BY <1>10, <1>b DEF CollectBlocked, Moves, Actor
  <2> QED
    BY <2>1, <2>2, <2>3
<1>11. ASSUME NEW c \in Executor, RequeueCard(c) PROVE Positions'
  <2>1. \/ Moves("board", "requeueing", actor["board"].goal, actor["board"].next)
        \/ Raise("board")
    BY <1>11, <1>b DEF RequeueCard, Moves, Actor
  <2> QED
    BY <1>11, <2>1, <1>d, <1>p, <1>f, <1>r, <1>s, BoardMoves, MissionRests DEF RequeueCard
<1>12. CASE FinishRetry
  BY <1>12, <1>x DEF FinishRetry
<1>13. CASE RollbackMission
  BY <1>13, <1>k DEF RollbackMission
<1> QED
  BY <1>1, <1>2, <1>3, <1>4, <1>5, <1>6, <1>7, <1>8, <1>9, <1>10, <1>11, <1>12, <1>13 DEF Command

\* The steps of the workers and of the environment.
LEMMA WorkerPositions ==
  ASSUME TypeOK, Positions, Worker \/ Environment, Frame PROVE Positions'
<1> USE DEF Quiescing, Revoking, Spawning, At
<1>f. AllDone => AllDone'
  BY DEF Frame
<1>1. CASE UNCHANGED mission /\ UNCHANGED actor
  BY <1>1, NobodyMoves
<1>2. ASSUME NEW a \in ActorId, Interrupted(a) PROVE Positions'
  <2>1. Halts(a) /\ UNCHANGED mission /\ actor[a].at # "idle"
    BY <1>2, ActorMoves DEF Interrupted
  <2>2. CASE a = "board"
    BY <2>1, <2>2, <1>f, BoardMoves, MissionRests DEF Halts, Label, Return
  <2>3. CASE a = "ctl"
    BY <1>2, <2>1, <2>3, CtlEnds, CtlStepPositions DEF Interrupted, Positions, ActorDomains
  <2>4. a # "free"
    BY <2>1 DEF Positions, ActorDomains, CtlDomain
  <2> QED
    BY <2>2, <2>3, <2>4, Actors
<1>3. CASE Reboot
  <2>1. \A a \in ActorId :
          actor'[a].at = "idle" /\ actor'[a].goal = "none" /\ actor'[a].next = "idle"
    BY <1>3 DEF Reboot, Idle
  <2>2. ActorDomains' /\ Exclusion' /\ BoardPosition' /\ CtlPosition'
    BY <2>1, Actors DEF ActorDomains, CtlDomain, Exclusion, SpawnTyped, BoardPosition, CtlPosition, BoardFree, Dispatching
  <2> QED
    BY <1>3, <2>2, MissionRests DEF Reboot, Positions
<1>4. \/ UNCHANGED mission /\ UNCHANGED actor
      \/ Reboot
      \/ \E a \in ActorId : Interrupted(a)
  BY DEF Worker, Environment, BeginWrite, EndWrite, Complete, Block, Exit, BoardActivity,
         DeadlinePasses
<1> QED
  BY <1>1, <1>2, <1>3, <1>4

-----------------------------------------------------------------------------
(***************************************************************************)
(* The inductive invariant and what follows from it                        *)
(***************************************************************************)

\* The states a mission is started from satisfy the invariant.
LEMMA InitInvariant == Init => IInv
<1> SUFFICES ASSUME Init PROVE IInv
  OBVIOUS
<1>1. TypeOK
  <2>1. mission \in Mission
    BY DEF Init, Mission, MissionStatus, Phase
  <2>2. task \in [Executor -> Card] /\ verifier \in Card
    BY NewCardType DEF Init
  <2>3. actor \in [ActorId -> Actor]
    BY IdleType DEF Init
  <2>4. errors \in [verification : 0 .. MaxVerifierRetries + 1, commit : 0 .. MaxCommitRetries + 1]
    BY ExecutionAssumption DEF Init
  <2>5. alive \in [Executor -> SUBSET Run] /\ writing \in [Executor -> SUBSET Run]
    BY DEF Init
  <2>6. faults \in 0 .. MaxFaults /\ root \in {"blocked", "ready", "done"}
    BY ExecutionAssumption DEF Init
  <2>7. overdue \in BOOLEAN
    BY DEF Init
  <2> QED
    BY <2>1, <2>2, <2>3, <2>4, <2>5, <2>6, <2>7 DEF TypeOK
<1>2. RunsInvariant
  BY NewCardType DEF Init, RunsInvariant, Consistent
<1>3. ActorDomains /\ Exclusion /\ BoardPosition /\ CtlPosition
  BY DEF Init, Idle, ActorId, ActorDomains, CtlDomain, Exclusion, SpawnTyped, BoardPosition, CtlPosition, Quiescing,
         Spawning, BoardFree, At, Dispatching
<1>4. PausedIsQuiet /\ VerifiedIsSettled /\ TerminalIsSettled
  BY DEF Init, PausedIsQuiet, Paused, VerifiedIsSettled, TerminalIsSettled, TerminalMissionStatus
<1> QED
  BY <1>1, <1>2, <1>3, <1>4 DEF IInv

\* Every step keeps it.
LEMMA NextInvariant == IInv /\ [Next]_vars => IInv'
<1> SUFFICES ASSUME IInv, [Next]_vars PROVE IInv'
  OBVIOUS
<1>i. TypeOK /\ RunsInvariant /\ Positions
  BY DEF IInv, Positions
<1>p. ASSUME TypeOK', RunsInvariant', Positions' PROVE IInv'
  BY <1>p DEF IInv, Positions
<1>1. ASSUME NEW a \in ActorId, Reconcile(a) PROVE IInv'
  <2>1. TypeOK' /\ TaskSafe
    BY <1>i, <1>1, ReconcileTypes
  <2>2. RunsInvariant' /\ Frame
    BY <1>i, <2>1, SafeFrame
  <2> QED
    BY <1>i, <1>p, <1>1, <2>1, <2>2, ReconcilePositions
<1>2. ASSUME NEW a \in ActorId, Quiescence(a) PROVE IInv'
  <2>1. a = "board" \/ a = "ctl"
    <3>1. a = "free" => actor[a].at = "idle"
      BY <1>i DEF Positions, ActorDomains, CtlDomain
    <3>2. actor[a].at \in {"kill", "close", "final"}
      BY <1>2 DEF Quiescence, KillWorkers, WorkerSurvives, CloseRun, ProveQuiescence, FinishPause,
                  FinishCancel, FinishBlock, FinishRollback, At
    <3> QED
      BY <3>1, <3>2, Actors
  <2>2. TypeOK' /\ TaskSafe
    <3>1. FinishRollback(a) => NoneRunning
      BY <1>i, <2>1 DEF FinishRollback, Positions, ActorDomains, CtlDomain, BoardPosition, At
    <3> QED
      BY <1>i, <1>2, <3>1, QuiescenceTypes
  <2>3. RunsInvariant' /\ Frame
    BY <1>i, <2>2, SafeFrame
  <2> QED
    BY <1>i, <1>p, <1>2, <2>1, <2>2, <2>3, BoardQuiescencePositions, CtlQuiescenceSteps,
       CtlStepPositions DEF Positions, ActorDomains
<1>3. CASE DispatcherTick
  <2>1. TypeOK' /\ (TaskSafe \/ Spawn)
    BY <1>i, <1>3, TickTypes DEF Positions, Exclusion, SpawnTyped
  <2>2. CASE Spawn
    BY <1>i, <1>p, <2>1, <2>2, SpawnPositions, SpawnRuns DEF Positions, Exclusion
  <2>3. CASE TaskSafe /\ ~Spawn
    <3>1. RunsInvariant' /\ Frame
      BY <1>i, <2>3, SafeFrame
    <3> QED
      BY <1>i, <1>p, <1>3, <2>1, <2>3, <3>1, TickPositions
  <2> QED
    BY <2>1, <2>2, <2>3
<1>4. CASE Command
  <2>1. TypeOK' /\ TaskSafe
    BY <1>i, <1>4, CommandTypes
  <2>2. RunsInvariant' /\ Frame
    BY <1>i, <2>1, SafeFrame
  <2> QED
    BY <1>i, <1>p, <1>4, <2>1, <2>2, CommandPositions
<1>5. CASE Control
  <2>1. TypeOK' /\ TaskSafe
    BY <1>i, <1>5, ControlTypes
  <2>2. RunsInvariant' /\ Frame
    BY <1>i, <2>1, SafeFrame
  <2> QED
    BY <1>i, <1>p, <1>5, <2>1, <2>2, ControlSteps, CtlStepPositions DEF Positions, ActorDomains
<1>6. CASE Worker \/ Environment
  <2>1. TypeOK' /\ TaskSafe
    BY <1>i, <1>6, WorkerTypes
  <2>2. RunsInvariant' /\ Frame
    BY <1>i, <2>1, SafeFrame
  <2> QED
    BY <1>i, <1>p, <1>6, <2>1, <2>2, WorkerPositions
<1>7. CASE UNCHANGED vars
  <2>1. TypeOK' /\ RunsInvariant'
    BY <1>i, <1>7 DEF vars, TypeOK, RunsInvariant
  <2>2. Frame
    BY <1>i, <1>7, UnchangedSafe, SafeFrame DEF vars
  <2> QED
    BY <1>i, <1>p, <1>7, <2>1, <2>2, NobodyMoves DEF vars
<1> QED
  BY <1>1, <1>2, <1>3, <1>4, <1>5, <1>6, <1>7 DEF Next

\* IInv holds in every state, whatever the cards, budgets and bounds are.
THEOREM Invariance == Spec => []IInv
BY InitInvariant, NextInvariant, PTL DEF Spec

\* Every variable keeps its type.
THEOREM TypeCorrect == Spec => []TypeOK
<1>1. IInv => TypeOK
  BY DEF IInv
<1> QED
  BY <1>1, Invariance, PTL

\* A card points at a run exactly while it runs under a claim, whichever of the
\* transactions of kanban_db rewrote it last.
THEOREM RunsCorrect == Spec => []RunsInvariant
<1>1. IInv => RunsInvariant
  BY DEF IInv
<1> QED
  BY <1>1, Invariance, PTL

\* A mission reported as paused has no claim, no recorded worker and no open intent,
\* and gets none until a resume reopens it.
THEOREM PauseCorrect == Spec => []PausedIsQuiet
<1>1. IInv => PausedIsQuiet
  BY DEF IInv
<1> QED
  BY <1>1, Invariance, PTL

\* Verification, approval and commit only ever see finished executors whose
\* mutations are all resolved.
THEOREM VerificationCorrect == Spec => []VerifiedIsSettled
<1>1. IInv => VerifiedIsSettled
  BY DEF IInv
<1> QED
  BY <1>1, Invariance, PTL

\* No mission reaches a terminal status with an executor running or an intent open.
THEOREM TerminationCorrect == Spec => []TerminalIsSettled
<1>1. IInv => TerminalIsSettled
  BY DEF IInv
<1> QED
  BY <1>1, Invariance, PTL

\* Only the last transaction of a start, a resume or a retry makes a mission run.
LEMMA OpensByCommand ==
  ASSUME TypeOK, Next, mission.status # "running", mission'.status = "running"
  PROVE  BeginExecution \/ FinishResume \/ FinishRetry
<1> USE DEF At
<1>1. ASSUME NEW a \in ActorId PROVE ~Reconcile(a) /\ ~Quiescence(a)
  <2>1. ~Reconcile(a)
    BY DEF Reconcile, Transition
  <2>2. ~(KillWorkers(a) \/ WorkerSurvives(a) \/ CloseRun(a) \/ ProveQuiescence(a))
    BY DEF KillWorkers, WorkerSurvives, CloseRun, ProveQuiescence
  <2>3. ~FinishPause(a)
    BY DEF FinishPause, TypeOK, Mission
  <2>4. ~(FinishCancel(a) \/ FinishRollback(a))
    BY DEF FinishCancel, FinishRollback, Conclude, Transition
  <2>5. ~FinishBlock(a)
    BY DEF FinishBlock, TypeOK, Mission
  <2> QED
    BY <2>1, <2>2, <2>3, <2>4, <2>5 DEF Quiescence
<1>2. ~DispatcherTick
  BY DEF DispatcherTick, StartTick, ReleaseStaleClaim, EnforceMaxRuntime, ClaimTask,
         DetectCrashedWorkers, PromoteReady, BeginTaskIntent, SpawnWorker, SetWorkerPid,
         RecordSpawnFailure, EndTick
<1>3. ~Control
  <2>1. \A passed \in BOOLEAN : mission'.status # Verdict(passed)
    BY DEF Verdict
  <2>2. ~(ControllerTick \/ EscalateBlockedExecutor \/ VerifyMission \/ EnterVerification
          \/ VerifierAnswers \/ SubmitVerifierVerdict \/ BeginVerdict)
    BY DEF ControllerTick, EscalateBlockedExecutor, VerifyMission, EnterVerification,
           VerifierAnswers, SubmitVerifierVerdict, BeginVerdict, Conclude, Transition
  <2>3. ~SubmitVerdict /\ ~SettleVerifier
    <3>1. SubmitVerdict => UNCHANGED mission \/ \E passed \in BOOLEAN : mission'.status = Verdict(passed)
      BY DEF SubmitVerdict, Transition
    <3>2. SettleVerifier => UNCHANGED mission
      BY DEF SettleVerifier
    <3> QED
      BY <2>1, <3>1, <3>2
  <2>4. ~(ApproveCommit \/ DenyMission)
    BY DEF ApproveCommit, DenyMission, Transition
  <2>5. ~(CommitMission \/ FinishCommit \/ CountError)
    BY DEF CommitMission, FinishCommit, CountError, Conclude, Transition
  <2> QED
    BY <2>2, <2>3, <2>4, <2>5 DEF Control
<1>4. ~Worker /\ ~Environment
  BY DEF Worker, BeginWrite, EndWrite, Complete, Block, Exit, Environment, BoardActivity,
         DeadlinePasses, Reboot, Interrupted
<1>5. Command => BeginExecution \/ FinishResume \/ FinishRetry
  BY DEF Command, StartMission, PauseMission, ResumeMission, CollectPaused, CancelMission,
         RetryMission, CollectBlocked, ResumeCard, RequeueCard, RollbackMission, Transition
<1> QED
  BY <1>1, <1>2, <1>3, <1>4, <1>5 DEF Next

\* A mission starts to run only when no executor does and no intent is open: the three
\* transitions into running come after a proven quiescence or the start gate.
LEMMA OpensQuietly ==
  ASSUME IInv, Next, mission.status # "running", mission'.status = "running"
  PROVE  NoneRunning /\ OpenIntents = {}
<1>1. actor["board"].at \in {"latched", "releasing", "requeueing"} => NoneRunning /\ OpenIntents = {}
  BY DEF IInv, BoardPosition, Quiet, NoneRunning, Occupied
<1>2. BeginExecution \/ FinishResume \/ FinishRetry
  BY OpensByCommand DEF IInv
<1> QED
  BY <1>1, <1>2 DEF BeginExecution, FinishResume, FinishRetry, At

\* A step that is not part of a spawn grants nothing.
LEMMA NextSafe == ASSUME IInv, Next, ~Spawn PROVE TaskSafe
<1>i. TypeOK /\ SpawnTyped
  BY DEF IInv, Exclusion, SpawnTyped
<1>1. ASSUME NEW a \in ActorId, Quiescence(a) PROVE TaskSafe
  <2>1. FinishRollback(a) => NoneRunning
    BY Actors DEF FinishRollback, At, IInv, ActorDomains, CtlDomain, BoardPosition
  <2> QED
    BY <1>i, <1>1, <2>1, QuiescenceTypes
<1> QED
  BY <1>i, <1>1, ReconcileTypes, TickTypes, CommandTypes, ControlTypes, WorkerTypes DEF Next

\* A lease becomes valid in a claim only, where a mission starts to run when no executor
\* does and what is not part of a spawn grants nothing.
LEMMA ClaimsGrant ==
  ASSUME TypeOK, Next, ~Spawn => TaskSafe,
         mission.status # "running" /\ mission'.status = "running" => NoneRunning,
         NEW c \in Executor, NEW r \in Run, ~LeaseValid(c, r), LeaseValid(c, r)'
  PROVE  task[c].runs < r
<1>t. task \in [Executor -> Card]
  BY DEF TypeOK
<1>2. ASSUME NEW d \in Executor, ClaimTask(d) PROVE task[c].runs < r
  <2>1. mission' = mission /\ task' = [task EXCEPT ![d] = Claimed(task[d])]
    BY <1>2 DEF ClaimTask
  <2>2. c = d
    BY <1>t, <2>1 DEF LeaseValid
  <2>3. task[c] \in Card /\ task[c].runs < MaxRun
    BY <1>2, <1>t, <2>2 DEF ClaimTask
  <2>4. Claimed(task[c]).run = task[c].runs + 1
    BY <2>3, ClaimedType
  <2>5. r = task[c].runs + 1
    BY <1>t, <2>1, <2>2, <2>4 DEF LeaseValid
  <2> QED
    BY <2>3, <2>5 DEF Card
<1>3. CASE BeginTaskIntent \/ SetWorkerPid
  <2>1. /\ task'[c].status = task[c].status /\ task'[c].run = task[c].run
        /\ task'[c].claimed = task[c].claimed /\ mission' = mission
    BY <1>3, <1>t DEF BeginTaskIntent, SetWorkerPid, IntentOpened, PidRecorded, Card
  <2> QED
    BY <2>1 DEF LeaseValid
<1>4. CASE ~Spawn
  <2>1. task'[c] = task[c]
    BY <1>4 DEF LeaseValid, TaskSafe, Safe
  <2>2. mission.status # "running" /\ mission'.status = "running" /\ task[c].status = "running"
    BY <2>1 DEF LeaseValid
  <2> QED
    BY <2>2 DEF NoneRunning
<1> QED
  BY <1>2, <1>3, <1>4 DEF Spawn

\* A lease becomes valid in a claim and nowhere else, for a run that no one had.
THEOREM LeasesNeverRevived == Spec => LeaseNeverRevived
<1>1. ASSUME IInv, [Next]_vars, NEW c \in Executor, NEW r \in Run,
             ~LeaseValid(c, r), LeaseValid(c, r)'
      PROVE  task[c].runs < r
  <2>1. CASE UNCHANGED vars
    BY <1>1, <2>1 DEF vars, LeaseValid
  <2>2. CASE Next
    <3>1. ~Spawn => TaskSafe
      BY <1>1, <2>2, NextSafe
    <3>2. mission.status # "running" /\ mission'.status = "running" => NoneRunning
      BY <1>1, <2>2, OpensQuietly
    <3> QED
      BY <1>1, <2>2, <3>1, <3>2, ClaimsGrant DEF IInv
  <2> QED
    BY <1>1, <2>1, <2>2
<1>2. IInv /\ [Next]_vars =>
        [\A c \in Executor, r \in Run :
           ~LeaseValid(c, r) /\ LeaseValid(c, r)' => task[c].runs < r]_vars
  BY <1>1
<1> QED
  BY <1>2, Invariance, PTL DEF Spec, LeaseNeverRevived

=============================================================================
