# Hermes Project Autopilot in TLA+

A verification development of the mission system of Hermes Project Autopilot:
TLA+ models of the code in `src/hermes_integration`, the TLC runs that check
them on small instances, and TLAPS proofs of the properties that matter most.
Every definition is translated from the source; `PROJECT.json` maps each to its
lines, lists the runs, the mutants that show each property can fail, the hazards
the properties are aimed at and the theorems.

## 1. The system

Project Autopilot turns a repository objective into a *mission*: a contract, an
isolated Git worktree and a graph of task cards on the Hermes kanban board. A
dispatcher spawns one worker process per ready executor card; a controller
verifies the result and commits it. All durable state is in one SQLite database,
plus Git and the process table.

### Components

| component | source | state | operations |
|---|---|---|---|
| lifecycle automaton | `missions_db.py` | `missions.status`, `phase`, `blocked_reason` | `transition_mission` |
| mutation intents | `missions_db.py`, `mission_service.py` | `mission_intents` | `begin_task_intent`, `resolve_task_intents`, `open_intents` |
| task cards | `kanban_db.py` | `tasks`, `task_runs`, `task_events` | claim, complete, block, unblock, reclaim, fail, promote |
| dispatcher tick | `kanban_db.py` `_dispatch_once_locked` | the board lock; rows in memory | reconcile, reclaim, promote, claim, journal, spawn |
| execution control | `mission_service.py` | the board and mission locks | start, pause, resume, cancel, retry, rollback, reconcile |
| verification and commit | `mission_service.py` `controller_tick` | the mission lock; the seal | verify, verdict, approve, deny, commit |
| worker | `mission_scope.py`, `kanban_tools.py` | process, container, run id | lease check, mutate, complete, block |
| preparation | `mission_service.py`, `missions_db.py` | `missions.base_commit`, rollback ref, mission branch, worktree | create, begin_preparation, prepare |
| planning | `mission_service.py`, `missions_db.py` | `mission_plans`, `mission_task_manifests`, loose and linked cards | plan, add task, finish_plan, start gate |
| evidence log | `missions_db.py`, `mission_service.py` | `mission_evidence`, blob files | record, store, verify chain |
| gateway approvals | `mission_gateway.py` | subscriptions, prompts, action tokens | claim, complete, release, issue, resolve |
| board notifications | `kanban_watchers.py`, `kanban_db.py`, `tui_gateway/server.py` | `kanban_notify_subs`, `task_events`; claims in memory | subscribe, claim, deliver, rewind, unsubscribe, poll |
| CLI, slash command, TUI, dashboard, desktop | `missions.py`, `tui_gateway`, `plugins/kanban`, `apps` | none | call the operations above |
| container sandbox | `tools/` | containers | start, run, remove |

### How they interact

Workers, the dispatcher, the controller and operator commands are separate
processes that share the database. Each database transaction is atomic
(`write_txn` is `BEGIN IMMEDIATE`); an operation is a *sequence* of transactions
and system calls. Two file locks order operations:

* the **board lock**: a dispatcher tick, and every start, pause, resume, cancel,
  retry and rollback, which take the mission lock as well;
* the **mission lock**: verify, verdict, approve, deny, commit and
  `controller_tick`. A dispatcher tick does not take it, so the two run at the
  same time.

A worker takes no lock, and `reconcile_mission`, as its clients call it, none
either.

### What is hard

* *Interleaving.* The tick and the controller step on the same mission and cards;
  workers complete, block, die or keep writing between any two steps.
* *Crashes.* Every multi-transaction operation can be cut off anywhere; a reboot
  loses all processes and keeps the database.
* *Unowned mutations.* A worker is journaled (an open intent) before it exists, so
  that a restart finds an intent without a living owner and blocks the mission.
* *Half-done Git work.* Refs, worktree, index and database rows are written one
  after the other; a retry finds any prefix of them, and other people use the same
  repository.
* *At least once and at most once.* An approval must run once; a notification must
  not get lost and should not come twice; both cross a network that fails.
* *Revocation.* Pause, cancel, block and rollback end the lease in the database
  first and only then kill processes and remove containers, which may fail.

### What makes each component correct

* lifecycle: no status is reached but along the table.
* cards: a card has a run exactly while it runs under a claim; no card becomes
  ready before its parents are done; a lost lease never comes back.
* dispatcher: a lease is granted only to a running mission, on a card with no
  unresolved intent; its mutation is journaled before the worker exists.
* control: a paused mission is quiet; a finished one has nothing running or
  unresolved; a resume requeues only what the pause stopped.
* verification: the tree that is verified, approved and committed is one nobody
  writes to, with all executors done.
* recovery: an intent without an owner never stays on a running mission.
* preparation: a crash neither moves the base nor leaves what the next attempt refuses.
* commit: a commit of the controller holds the tree that was tested, sealed and cleared;
  a crash loses no commit and records none twice; retries are counted and end; a rollback
  leaves the base and nothing else.
* planning: an interrupted plan is adopted, never duplicated; the mission is released
  with the graph that was accepted and nothing else.
* evidence: concurrent writers make one chain; a verification fails only on damage and
  passes only on what was recorded.
* gateway: a token runs its operation at most once, and only while it was good; an
  operator has one prompt to answer; a mission that waits gets its prompt out.
* notifications: an event that a cursor passed was told or died with its owner, and is
  told again, by the same teller, only after a failed send; every event is told, unless
  it died with its claim or was dropped with the subscription.

## 2. Modules

| module | what it is |
|---|---|
| `MissionLifecycle` | the transition table and `Allowed` |
| `ExecutorCard` | one card with its intents, one operator per write transaction |
| `ExecutionLease` | the abstract specification: what a lease is and when it is granted, journaled, released |
| `MissionExecution` | the execution of one planned mission: state, actions, properties |
| `MissionInvariant` | the inductive invariants: `IInv`; on top of it `JInv`, `MInv`, `WInv`; `UInv`, which needs no locks, and on top of it `VInv` |
| `MCMissionExecution` | the instances TLC checks |
| `ExecutorCardProofs` | lemmas on the card operators |
| `MissionExecutionProofs` | `IInv` and the theorems that follow from it |
| `MissionLeaseProofs` | the other four invariants: journal, pause markers, late writes, what no lock protects; the refinement of `ExecutionLease` |
| `ActionCapability` | the abstract specification of a control: used at most once, while it is good |
| `MissionGateway` | subscriptions, prompt claims, delivery and action tokens of one mission |
| `MCMissionGateway` | the instances TLC checks |
| `MissionGatewayProofs` | lemmas and theorems about the gateway |
| `LocalCommit` | the abstract specification of the change a mission leaves in a repository |
| `MissionRepository` | preparation, verification, commit and rollback of one mission against Git |
| `MCMissionRepository`, `MissionRepositoryProofs` | its instances, lemmas and theorems |
| `MissionPlanning` | how a prepared mission gets its cards and its manifest |
| `MCMissionPlanning`, `MissionPlanningProofs` | its instances, lemmas and theorems |
| `EvidenceLog` | the evidence table and its files, with writers and a reader |
| `MCEvidenceLog`, `EvidenceLogProofs` | its instances, lemmas and theorems |
| `KanbanNotifier` | the news of a task: subscriptions, the notifiers of gateways that may share chats, terminal sessions |
| `MCKanbanNotifier`, `KanbanNotifierProofs` | its instances, lemmas and theorems |

The mission's modules divide its life between them along the lifecycle table that
they share: `MissionRepository` from draft to planning and from verifying to the end,
`MissionPlanning` from planning to running, `MissionExecution` from ready to the end.
They overlap where a status can be reached from either side; there each keeps the part
of the state its properties tell apart. `MissionRepository` refines `LocalCommit`.

`MissionGateway` takes statuses and transitions from `MissionLifecycle` and refines
`ActionCapability`. It does not share a state with `MissionExecution`: of the mission
it only sees what its tables compare, the version.

`MissionExecution` composes `ExecutorCard` and `MissionLifecycle`, and refines
`ExecutionLease` (`Leases == INSTANCE ExecutionLease WITH ...`).

### State of `MissionExecution`

| variable | code |
|---|---|
| `mission` | the `missions` row: status, phase; `proven` stands for a stored quiescence record whose binding equals the row (`_blocked_quiescence_proven`). Every transition outdates it. `blocked_reason` is not kept: it says `recovery_ambiguous` exactly in phase `recovery` |
| `root` | status of the controller card, the start latch |
| `task` | per executor card its `tasks` row, sticky-block and pause markers (`task_events`), and the runs whose intent is open |
| `verifier` | the verifier card |
| `alive`, `writing` | per card, runs whose process exists; runs with a tool call past its lease check |
| `actor` | where the lock holders are: `board`, `ctl`, and `free` for a call without a lock |
| `overdue`, `errors`, `faults` | the deadline, `controller_error` evidence per phase, interruptions so far |

An actor's `at` is its position between two transactions, `goal` what a
quiescence is for, `next` the code that follows a reconciliation or quiescence,
`rows`, `left` and `card` the rows it read and still works on. Each action is
one write transaction or one group of system calls, with every guard and early
return of the code.

### State of `MissionGateway`

| variable | code |
|---|---|
| `mission` | `status` and `updated_at` of the `missions` row, the version of a prompt |
| `sub` | per identity the `mission_gateway_subscriptions` row: claim owner, whether the claim is older than `PROMPT_CLAIM_STALE_SECONDS`, version last prompted |
| `token`, `batch`, `issued` | `mission_gateway_actions`: the status of each token; what the tokens of one `issue_action_tokens` call share, with those past their `expires_at` |
| `watcher` | per gateway process the candidates it collected, the one it serves and the position in the delivery; lost when it ends |
| `resolver` | the calls of `resolve_action_token` between their transactions |
| `runs`, `reached` | history: how often the operation of a token was started; the batches whose message arrived |

A watcher collects (`ClaimPrompt`, one transaction per candidate), then serves the
candidates in any order: adapter, version check, issue, native send, text fallback,
and either completion or revocation and release. An exception in between ends its
round like a crash (`WatcherStops`): the claims stay behind until they age. Either
send may fail by report or by exception, and may have arrived all the same.

### State of `MissionRepository`

| variable | code |
|---|---|
| `mission`, `authority` | the `missions` row with base and verified commit; level 3, level 4 with and without `allow_local_commit` |
| `card` | whether the controller card exists, is linked, and is named by the mission; whether a manifest was accepted and the start latch released |
| `source`, `rollbackRef`, `branch` | HEAD of the source checkout, `refs/hermes/rollback/<id>`, `refs/heads/hermes/mission-<id>` |
| `worktree`, `content`, `index` | whether the worktree is there in full, what its files and its index hold |
| `checked`, `seal`, `commits`, `errors` | evidence: passed commands, the last verification seal, commits, controller errors |
| `op` | the operation under the mission lock and its position |
| `cleared`, `found` | history: the sealed tree that the authority let through; the commit that the last attempt to commit the seal found on the branch |
| `meddled` | history: how often somebody else touched the worktree or the refs |

### State of `MissionPlanning`

| variable | code |
|---|---|
| `status` | `missions.status`, with the phase of a block that planning can cause |
| `card` | the task cards but for the controller: key, role once linked, parents, whether a client edited or archived it |
| `plan`, `manifest`, `recorded` | `mission_plans`, `mission_task_manifests`, the plan evidence |
| `op` | the planner under the mission lock: the step, the key in hand, the executors it has found |
| `client` | a card that `assert_task_mutation_allowed` let a client write, in a later transaction |

### State of `EvidenceLog`

| variable | code |
|---|---|
| `rows`, `file` | `mission_evidence` of one mission; the files under `mission-evidence` |
| `writer` | the calls of `store_evidence_blob` between budget, look, file and row |
| `reader` | a call of `verify_evidence_chain`: the rows it listed, the next one, the hash it expects |
| `appended`, `damaged` | history: what the table was after each record; whether anything was damaged |

### State of `KanbanNotifier`

| variable | code |
|---|---|
| `channel`, `serves` | how each chat is reached; which gateways list its subscription as theirs to serve |
| `event`, `final` | `task_events` of the task; whether its status is done or archived |
| `sub` | per chat its `kanban_notify_subs` row, with the newest event at its creation as history |
| `gateway`, `fails` | the notifier loop: chats to visit, claims in hand, the one it serves; `sub_fail_counts` |
| `session` | the poller of a terminal session |
| `told`, `failed`, `forgone` | history: how often an event was told, failed sends, events whose claim died |
| `dropped` | history: events that happened without a subscription, and those that a removed subscription or a rewind that came too late left untold |

### Abstractions of `MissionExecution`

* A run id is the ordinal of the card's attempt and `worker_pid` holds the run
  whose process it names. Pid reuse is left out: the boot id and the claim lock
  exist to exclude it. All claims are made on this host.
* `block_kind` has the values none, dependency, needs_input, transient;
  `capability` takes the same branches as needs_input.
* The reclaim passes `release_stale_claims` and `detect_stale_running` have the
  same effect on a card and are one action; times are nondeterminism.
* `claim_task` demotes a ready card whose parents are not done. `ParentGate`
  shows that no writer produces such a card in a mission, so the branch is not
  an action.
* The concurrency caps, the respawn guard and nonspawnable assignees only skip a
  row of the scan: `EndTick` can end the scan at any row.
* `_reconcile` reads a mission and transitions it in two transactions; they are
  one step. The control plane could move the mission in between, and the
  transition is then judged by the newer status, as in the model's step.
* A quiescence record binds to `updated_at`, which has second granularity; two
  transitions within one second with equal status, phase and reason are told
  apart in the model and not in the code.
* Path, command and content policies, evidence text and the Git tree are left
  out. `FinishCommit` keeps only which status the commit ends in; the commit itself is
  in `MissionRepository`.

### Abstractions of `MissionGateway`

* One mission; an identity is a model value for platform, chat, thread and
  principal. Chat type and scope, which `matches_row` also compares, and the
  decoding and hashing of tokens are left out.
* The mission moves along `AllowedTransitions`, or its row is stamped without a
  transition; `MissionMoves` is any other actor. The operation of a token moves it
  to a status of `Targets`, leaves it, or raises. That an operation is itself many
  transactions is the business of `MissionExecution`; here other moves can come
  before and after it.
* `SharedSeconds` says whether two versions may carry the same second.
* Time is nondeterminism: a claim ages (`LostClaimAges`, or `SlowDelivery` under a
  watcher that still works), a token expires. A call reads its clock before its
  transaction, so two calls can disagree about tokens of one batch; tokens
  therefore expire one by one.
* A watcher name stands for the claim string of one round, which is unique: a
  watcher cannot claim a row it still holds, so an owner never takes an older
  claim of the same name for its own.
* The evidence a resolution records is not modelled. A crash before it leaves the
  token as `FinishAction` wrote it.

### Abstractions of `MissionRepository`

* A tree is the base's, or one of a few edits, some of which only add files. Paths,
  modes, links and the scope rules that refuse a tree are left out.
* A commit is the source commit it stands on, who made it and its tree: two commits of
  one tree on one base are one. That is what adoption compares, and the model cannot
  tell a commit from its repetition.
* Level 4's tick verifies and commits under one hold of the lock; the model releases
  it between the two, which lets more happen.
* Executors are `working` or not; who they are is the business of `MissionExecution`.
* Every snapshot, report and identity check is a step of its own, with the others'
  edits between them. An adoption reads the branch at the gate (`CommitGate`), compares
  a first snapshot with the seal (`AdoptCommit`) and the tree with it (`MatchTree`), and
  takes a second one for the report (`RetestCommit`).
* Executors write the files only: their container mounts the worktree, and the Git
  directory with the index stays outside.
* What the source checkout does before a base is frozen is left out, since nothing reads
  it: where it is then is where it starts.
* `meddled` counts how often somebody outside the mission wrote to its worktree or its
  refs. Properties that cannot survive this are about the states before. Of success it
  limits only what an adopted commit holds.

### Abstractions of `MissionPlanning`

* Title, body, assignee and the other compared fields of a card are *canonical* or
  edited; the hash of a manifest is the graph itself.
* The model's proposal is how many tasks it has. Its validation is a pure function of
  the answer and is left out.
* A start is one step: the gate and the transition. It takes a ready mission and one
  that a failed preparation, or an earlier start without a manifest, has blocked.
* A card id is random in the code. The model's handles are given in order, and of the
  cards of one second any may be the last (`Latest`).

### Abstractions of `EvidenceLog`

* A hash stands for the entries it was computed over, which is what a hash without
  collisions gives. Damage from outside exchanges rows and files, and does not compute
  hashes of its own. Kind, actor and payload of a row are one entry.
* One mission; the directory is shared with others only through files of the same
  content, which `PutBlob` of another writer covers.

### Abstractions of `KanbanNotifier`

* One task on one board. Loops over boards and tasks repeat what is modelled, with
  nothing shared but the tick, which an exception of a delivery ends for all of them.
* A chat keeps its channel: an adapter that sends, one that can only wake the agent
  (the API server), or a terminal session. A task of the second kind has a session to
  wake; without one the wake is skipped and its events are passed over.
* Who serves a chat is fixed during a behaviour: the `notifier_profile` of a row is set
  when it is added, or once when it was empty, and a gateway keeps its adapters. A
  subscription without an owner is served by every gateway, so several may serve one
  chat. A tick that finds nothing to visit changes nothing and is left out.
* An event's id is its position among those of the task. The four kinds that are told
  like `blocked` are one.
* Left out: a chat whose adapter is missing at collection is not visited and nothing
  changes; the wake beside a push and the upload of artifacts, which are best effort
  and ignored when they fail; the agent turn that a terminal session chains to a
  notification.

## 3. Properties and runs

A run checks what could be wrong beyond a type; the type invariants are part of every
inductive invariant and proved (section 4).

The runs of the execution use `MCMissionExecution`. Bounds: `MaxRun` attempts per card,
`MaxFaults` interruptions, reboots, unkillable workers or lost pids; one card
(`Single`) or two with a dependency (`Chain`).

| run | instance | shows |
|---|---|---|
| `faults` | Single, level 4, 2 attempts, 1 verifier retry, 1 fault, fair dispatcher (894,403 states) | `RunsInvariant`; `LeaseIsJournaled`; `PausedIsQuiet`; `TerminalIsSettled`; `VerifiedIsSettled`; `PauseMarkerIsCurrent`; `NoLateWrite`; `LeaseNeverRevived`; `WorkerBlockSurvivesResume`; `OrphanIsReconciled`; the refinement `ImplementsLeases` |
| `unlocked` | Chain, level 3, no fault, `reconcile_mission` without locks (1,298,554 states) | `ParentGate`; `VerifiedIsSettled`; `LeaseNeverRevived` |

Why the bounds are enough: the hazards are about one card and one other actor
(a stale row, a late worker, a crash between two steps), or about one dependency.
Two attempts are what it takes to have an old run beside a new one; one fault is
one crash at each of all positions; two cards are what a loop over rows and a
parent gate need. The proofs do not depend on the bounds.

`NoLateWrite` says that nobody writes to a tree under verification or after the end as
long as no fault has hit: a worker whose pid could not be recorded lives on unknown to
every quiescence, and a rollback resets files under it. `PausedIsQuiet`, `NoLateWrite`,
`PauseMarkerIsCurrent` and `WorkerBlockSurvivesResume` do not hold under `SpecUnlocked`,
for the reason that `unlocked_pause` shows, and are not in the run `unlocked`.
`LeaseNeverRevived` is there, and needs that the instance has no fault: with one card,
two attempts and two faults TLC finds an unlocked reconciliation that holds its proof of
quiescence over a resume and a claim that died before its intent, and then calls the
mission paused; the next resume revives the lease. `LeasesNeverRevivedUnlocked` is
therefore stated for `MaxFaults = 0`; `ParentGateUnlocked` and `VerificationUnlocked`
are proved for any number of faults.

The runs of the gateway use `MCMissionGateway`. Bounds: `MaxBatch` issues of tokens,
`MaxMoves` moves of the mission and watch commands, `MaxFaults` ends of a process,
failed sends and slow deliveries.

| run | instance | shows |
|---|---|---|
| `controls` | two gateways, one identity, two resolvers; 2 batches, 3 moves, 1 fault; symmetric in gateways and in resolvers | types; the refinement `ImplementsPromise`; `OnePromptPending`; `PromptedWasIssued` |
| `prompts` | one fair gateway, one identity, no resolver, versions within one second; 4 batches, 3 moves, 2 faults | `PromptStands`, `EventuallyPrompted` |

Two resolvers are a duplicate click or a second chat; two gateways are a takeover;
two batches are an old prompt beside a new one. Three moves are a watch command, the
move that needs the operator and one more during the delivery. In `prompts` two
faults are both sends failing, or a crash and a failed send. Two of its moves pass
before the first issue, and each further move or fault causes at most one more: four
batches suffice, and the bound never withholds a prompt. Resolvers only add moves of
the mission to the liveness question, and are left out there.

`PromptStands` holds for one gateway only. With two, an old sender that has passed
its version check can issue tokens after the new one and supersede what the new one
then marks as prompted. The tokens stay safe, but the newest message has dead buttons.
It also makes one exception for time: when the mission leaves a status, is prompted for
the next and comes back within a second, the version is the one that counts as prompted,
but its buttons gave way to the prompt in between. Five moves make that case. The run has
three, so that its liveness can be checked with two faults; the theorem has no bound,
and the instance with five moves, five batches and one fault (too large to be kept as a
run) satisfies `PromptInvariant`.

The other components have one run each.

| run | instance | shows |
|---|---|---|
| `repository` | two edits, of which one only adds a file; all three authorities; the source moves once; one retry of a verification, two of a commit as in the code; 1 fault or interference (898,062 states) | `EnvironmentAdoptable`, `BaseIsFrozen`, `SucceededIsSealed`, `CommitRecordedOnce`, `AdoptionSucceeds`, `RollbackRestores`, the refinement `ImplementsPromise`; `PhasesEnd` |
| `planning` | four cards, plans of one or two tasks, two manual tasks, two seconds, 2 faults (454,067 states) | `OneCardPerKey`, `PlanAdoptable`, `AcceptedGraph`, `NothingElseReleased`, `ManifestIsFinal`, `StoredPlanCompletes` |
| `evidence` | two writers, a short and a long content, three rows, 2 deaths or damages (2,617,623 states) | `LogIsSound`, `NoFalseAlarm`, `PassedIsGenuine`, `BudgetIsKept` |
| `notifications` | one gateway that serves a chat that is woken, whose owner unsubscribes and subscribes, and one with messages; two gateways that serve one such chat with messages; such a terminal session; two events, two commands of the owner, two faults, two failures in a row allowed (1,166,969 states) | `NothingIsLost`, `RepeatedOnlyAfterFailure`, `EventuallyTold` |

Two edits are what tells the accepted tree from another; an edit that only adds a file
is what `reset --hard` leaves and `clean` removes. One fault is a crash, a cut Git
command or a foreign commit at each of all positions. Four cards hold a plan of two
tasks, its verifier and one more, which is a duplicate or a stray. Two planners that
die, or one that dies beside a client that writes, are what an adoption of an adopted
plan takes. Two writers and three rows make a fork or a damaged middle visible; the
second content is what makes a budget go over. The retries of a commit have the code's
default (`max_commit_retries`, 2), those of a verification one instead of two, which is
one counted error that is tried again and one that blocks. `PhasesEnd` says that the tick
does not stay in the phases it pushes by itself, verifying and, at level 4, committing,
however their passes fail: it leads from `Pushed` to `~Pushed`, and the errors counted
before a death count after it. Two events are a range that fails in
the middle; two commands are an unsubscription and a new subscription during a
delivery; two failures in a row end a subscription.

`SucceededIsSealed` and `LocalCommit` tell two commits apart. One that the controller made
in its last attempt holds the tested, sealed and cleared tree whoever wrote to the
worktree on the way: the tree comes from the snapshot that the report and the seal were
compared with, and `update-ref` asks for the base. One that the attempt found on the branch
(`found`) does so only where nobody interfered; see *Repository* below. In `LocalCommit`
only `Interfere`, which has to count up `disturbed`, may put anything else on the branch:
the steps of the controller leave `meddled` alone, and so must publish the accepted and
cleared tree, reinstate what was found, or restore the base.

`AcceptedGraph` asks for a recorded plan of a ready mission only. A planner can die
between the manifest (`mission_service.py:1013`) and the plan's evidence (1014); when the
next preparation then fails, the mission is blocked, and a start takes it from there (1190)
and runs a plan that no evidence tells of.

`EventuallyTold` accounts for each event of a chat with a teller: it is told in the end,
or its claim died (`forgone`), or it found no subscription or was left untold by the
removal of one (`dropped`). What `dropped` hides is named under *Notifications* below.

Each property of a passing run has a mutant: a change a plausible bug would
make, defined next to the original with a comment that starts with "Mutant",
under which TLC finds the property violated.

### Fairness

`FairSpec` adds `WF_vars(BoardStep)`: the dispatcher is a loop in the gateway
process, it takes its next step as long as it holds the board lock, and ticks
an idle board. Nothing is assumed of workers, operators or the controller. An
operator who issues commands forever can starve the dispatcher of the board lock,
so the liveness properties of the execution assume `OperatorsRest`.

The gateway's `FairSpec` has weak fairness of each watcher's loop, which runs as long
as its gateway process does, and of `LostClaimAges`, which is the passing of 90
seconds. Nobody has to watch, redeem or move anything. Crashes are bounded, which
is what the property needs: a gateway that ends for ever at the same point
delivers nothing.

In `MissionRepository` the controller's tick samples the mission lock without waiting
for it, again and again: `SF_vars(Tick)` says that it finds the lock free once in a
while, `WF_vars(Holder)` that an operation that holds it goes on. `MissionPlanning`
has weak fairness of the planner alone; that somebody repeats the command is a premise
of `StoredPlanCompletes`, not fairness. `EvidenceLog` states none. `KanbanNotifier` has
weak fairness of each gateway's loop and each session's poller, which sleep a few
seconds and go on as long as their process lives; its faults are bounded, and nobody
has to move the task or subscribe.

### Statements the code does not keep

Four runs expect a violation, each of a statement quoted from the repository.

* `start_restart`: a start interrupted after the controller card was completed
  leaves a ready mission that the start gate refuses for good.
* `cancellation`: `_set_worker_pid` writes the pid to a card that is no longer
  running; the leftover check then fails on every retry of the cancellation.
* `unlocked_pause`: `reconcile_mission` without a lock finishes a pause that a
  resume already ended.
* `delivery`: a text fallback that raises leaves `sent` at `None`, which the watcher
  takes for a success. It marks the version as prompted although nothing arrived;
  nobody prompts it again until the mission moves or the operator says
  `/mission watch`.

### Smaller observations

Met while modelling and not run as properties.

*Execution.* The triage branch of `block_task` ends a run and leaves its intent open;
the next reconciliation blocks the mission as ambiguous. If recording the pid fails, the
worker lives on unknown and a rollback resets files under it. A card in triage is a dead
end for its mission, since retry refuses and no mission operation leaves triage. A retry
from phase `budget` does not requeue blocked cards, so the controller blocks the mission
again. The verifier card can stay done from an earlier round while a later verification
fails. A breaker tripped early (protocol violations, a systemic crash) leaves the
failure count below its limit, so the next `recompute_ready` undoes it. `docs` draw a
transition from recovery to running, and `retry_mission` refuses that phase, leaving
rollback and cancel.

*Repository.* The seal is a snapshot read again after the verdict, not the one the
verifier saw. `git diff base --` omits untracked files. After a crash, a mission that is
then blocked or overdue with its branch ahead of the base can only be rolled back.
`reset --mixed` drops a foreign commit made between `update-ref` and it. An adoption
reads the head, the snapshot for seal and tree, and the snapshot of the report one after
the other (`mission_service.py:2240`, 2249, 1900): with four outside writes, a commit
that looks like the controller's and edits that come and go between the reads, a tree
that was never tested is certified, although the comment at 2244 allows adoption "only
when the independently sealed base state is exactly the tree carried by one
controller-shaped child commit". The run has one interference; `SucceededIsSealed`
excludes the case by name. A checkout that was cut short is never adopted and has to be
removed by hand. The environment evidence may be missing after a crash, since the retry
sees the status only. Errors of earlier rounds count after a retry of the mission.
`prepare_mission` has no deadline check, so an overdue mission can be prepared again. A
rollback interrupted after `reset --hard` leaves a blocked mission that may be retried,
and `verified_commit` is then overwritten. `retry_mission` does not clear the phase
`planning`.

*Planning.* A task added after the verifier of a manual graph was created wedges the
planning: the verifier cannot get a new parent, and only cancellation is left. The card
of an `add_execution_task` that died before its link makes the manifest raise until
somebody deletes it. An archived planned card wedges its plan. `plan_with_model` on a
stored plan creates the cards also of a mission cancelled meanwhile; nobody dispatches
them. Legacy missions without a manifest are blocked at their start. Tasks added within
one second are ordered by their random ids, so that a third one may get the parent the
second one has: two executors of one worktree then become ready together, although
`mission_service.py:481` speaks of "one serialized executor task".

*Evidence.* Every concurrent writer can go over the budget by one blob. An end of the
table that was cut off is not noticed, also when rows are then recorded behind the cut.
A referenced file that is bad is replaced by a writer that looked before the row
existed, and one that is missing is silently written again. A writer that dies leaves
its temporary file.

*Notifications.* A chat that two gateways serve can lose an event whose send failed: the
rewind of one gives up when the other has claimed in between. It can also be told an
event twice without a failed send, since `advance_notify_cursor`, which asks for
nothing, moves the cursor back behind the other's claim, although `kanban_db.py:10053`
says that "only the first process sees and claims a given event range". Hence
`NothingIsLost` speaks of chats with one teller, and `RepeatedOnlyAfterFailure` grants
each teller one telling; more the cursors cannot do to each other. With one gateway the
same unconditional advance moves the cursor of a new subscription back when its owner
unsubscribed and subscribed again during a delivery. Events claimed by a process that
ends, or by a tick that an exception ends, are lost, also when the exception was another
chat's. A send that fails in the middle of a range repeats its beginning, and the
success of the beginning resets the failure counter: an event that always fails repeats
its predecessors for ever and never ends the subscription. A task that completes between
the claim of an earlier event and the look at it (`kanban_watchers.py:509`, 519) is
found done and unsubscribed after that event was told (960): its completion, which
nobody claimed, is never told, without any fault, although the comment at 367-372 keeps
a subscription until the task is done so that its events reach the user. A terminal
session does the same. A task reopened after the look is unsubscribed all the same. The
kinds of a terminal session lack `block_loop_detected` although `server.py:8468` calls
them a mirror, so that a session never hears of triage.

*Gateway.* The watcher compares the version and issues the tokens in two
transactions, so the mission can move in between and live tokens go out for a
version that has passed. Most are then refused by the operation they run; `cancel`
and `reconcile` accept other statuses too. Tokens expire after 15 minutes and are not
issued again for the same version, so a prompt that nobody answers in time needs
`/mission watch`; a crash between claiming a token and recording its outcome leaves it
claimed for good, which errs on the safe side; `updated_at` has second granularity, and
a mission that comes back to a status within a second is not prompted again: when it was
prompted for the status in between, the operator is left with buttons that were
superseded.

## 4. Proofs

`MissionExecutionProofs` proves, for every finite or infinite set of cards, every
dependency relation and every value of the bounds that satisfies
`ExecutionAssumption` and `CardAssumption`:

| theorem | states |
|---|---|
| `Invariance` | `Spec => []IInv` |
| `TypeCorrect` | `Spec => []TypeOK` |
| `RunsCorrect` | `Spec => []RunsInvariant` |
| `PauseCorrect` | `Spec => []PausedIsQuiet` |
| `VerificationCorrect` | `Spec => []VerifiedIsSettled` |
| `TerminationCorrect` | `Spec => []TerminalIsSettled` |
| `LeasesNeverRevived` | `Spec => LeaseNeverRevived` |

`MissionLeaseProofs` proves, for the same parameters:

| theorem | states |
|---|---|
| `LeasesAreJournaled` | `Spec => []LeaseIsJournaled` |
| `LeasesImplemented` | `Spec => ImplementsLeases` |
| `PauseMarkersAreCurrent` | `Spec => []PauseMarkerIsCurrent` |
| `WorkerBlocksSurvive` | `Spec => WorkerBlockSurvivesResume` |
| `NobodyWritesLate` | `Spec => []NoLateWrite` |
| `ParentGateKept` | `Spec => []ParentGate` |
| `UnlockedInvariance` | `SpecUnlocked => []UInv` |
| `ParentGateUnlocked` | `SpecUnlocked => []ParentGate` |
| `VerificationUnlocked` | `SpecUnlocked => []VerifiedIsSettled` |
| `RunsUnlocked` | `SpecUnlocked => []RunsInvariant` |
| `LeasesNeverRevivedUnlocked` | `SpecUnlocked => LeaseNeverRevived`, where `MaxFaults = 0` |

`MissionGatewayProofs` proves, for every set of gateways, identities and resolvers and
every bound that satisfies `GatewayAssumption`:

| theorem | states |
|---|---|
| `GatewayTypes` | `Spec => []TypeOK` |
| `TokensKeepPromise` | `Spec => ImplementsPromise` |
| `OnePrompt` | `Spec => []OnePromptPending` |
| `PromptedIssued` | `Spec => []PromptedWasIssued` |
| `PromptRemains` | `Spec => []PromptStands`, for one gateway (`OneGateway`) |
| `PromptIsNotWithdrawn` | the same without its exception, for one gateway and versions that share no second |

`MissionRepositoryProofs` proves, for every set of edits and authorities and every bound
that satisfies `RepositoryAssumption` and `NoneAssumption`:

| theorem | states |
|---|---|
| `InvariantHolds` | `Spec => []RepositoryInvariant` |
| `RepositoryTypes` | `Spec => []TypeOK` |
| `SuccessIsSealed` | `Spec => []SucceededIsSealed` |
| `CommitIsRecordedOnce` | `Spec => []CommitRecordedOnce` |
| `CommitIsAdopted` | `Spec => []AdoptionSucceeds` |
| `EnvironmentIsAdoptable` | `Spec => []EnvironmentAdoptable` |
| `RollbackIsComplete` | `Spec => []RollbackRestores` |
| `BaseStaysFrozen` | `Spec => BaseIsFrozen` |
| `KeepsPromise` | `Spec => ImplementsPromise` |

`MissionPlanningProofs` proves, for every set of cards, plan length and bound that
satisfies `PlanningAssumption` and `NoneAssumption`:

| theorem | states |
|---|---|
| `PlanningInvariance` | `Spec => []PlanningInvariant` |
| `PlanningTypeCorrect` | `Spec => []TypeOK` |
| `PlannedCardsAreUnique` | `Spec => []OneCardPerKey` |
| `PlansAreAdopted` | `Spec => []PlanAdoptable` |
| `GraphIsAccepted` | `Spec => []AcceptedGraph` |
| `OnlyTheMissionIsReleased` | `Spec => []NothingElseReleased` |
| `ManifestStays` | `Spec => ManifestIsFinal` |

`EvidenceLogProofs` proves, for every set of writers and contents, every size and bound
that satisfies `EvidenceAssumption`:

| theorem | states |
|---|---|
| `EvidenceInvariance` | `Spec => []EvidenceInvariant` |
| `EvidenceTypes` | `Spec => []TypeOK` |
| `ChainStands` | `Spec => []LogIsSound` |
| `VerificationIsFair` | `Spec => []NoFalseAlarm` |
| `PassedWasRecorded` | `Spec => []PassedIsGenuine` |
| `BudgetHolds` | `Spec => []BudgetIsKept` |

`KanbanNotifierProofs` proves, for every set of chats, every finite set of gateways, every
choice of channels and of who serves whom, and every bound that satisfies
`NotifierAssumption`:

| theorem | states |
|---|---|
| `NotifierIsInvariant` | `Spec => []NotifierInvariant` |
| `NotifierTypes` | `Spec => []TypeOK` |
| `NothingIsEverLost` | `Spec => []NothingIsLost` |
| `RepeatsAreForFailures` | `Spec => []RepeatedOnlyAfterFailure` |

**The inductive invariant of the execution.** None of the properties is inductive: that
a paused mission is quiet depends on what the quiescence established before the phase
was written, while the mission was still `pausing`. `IInv` therefore adds what each
position of an actor knows: `ActorDomains` (which labels, goals and continuations an
actor can have), `Exclusion` (what the locks exclude), `BoardPosition` (while a
revocation is carried out the mission is not running; once proven nothing is open,
claimed or running) and `CtlPosition` (verification is entered with all executors done
and stays so).

**The argument for the execution.** `ExecutorCardProofs` shows of each card operator that it is
*safe*: it keeps the type and the runs invariant, never makes a card that does not
run occupied except through a recorded pid, never undoes done and never gives a
lease back. `MissionExecutionProofs` shows that every action but the two of the
spawn (a claim, a recorded pid or journaled intent) changes each card safely
(`TaskSafe`), so that actions can be judged by how they move actors and the
mission: `Frame` says what a safe step preserves, and `Moves`, `Halts` and
`Raises` what it does to one actor. One lemma per group of actions then
re-establishes the positions, one case per action. `LeasesNeverRevived` follows
from the invariant and `OpensQuietly`: a mission only starts to run in a state in
which no card runs.

**Journal, markers and writes.** Three more invariants rest on `IInv`. `JInv`: runs are
handed out in order (`HandedOut`), and what the spawn loop has in hand is the newest run
of its card, whose process does not exist before its intent does (`SpawnPosition`); hence
a living worker of the run a card points at has its intent open. `MInv`: a marker only
exists while the mission waits or after it was given up, and a resume that has started
has every marked card still before it (`ResumeIsComplete`), so that it cannot leave one
behind. `WInv`: a call is held by the run of its card, the worker of that run is found by
its pid but for the moment between spawn and record (`WorkersAreFound`), and after a kill
nothing writes (`KillIsComplete`). The last three need `faults = 0`, the condition of
`NoLateWrite`: one lost pid is enough to break them. The proofs share a classification of
the steps (`CardStep`, `CtlStep`, `Beside`): what a step may do to one card, whoever
takes it.

**Without locks.** `UInv` keeps of `IInv` what does not depend on who holds a lock: the
types, the runs, where the control plane stands, and `ParentGate`. It is inductive for
`SpecUnlocked`, whose additional actor reconciles beside the others, and therefore for
`Spec`. It is why a reconciliation without a lock never opens work under a verification,
whatever else it disturbs. That no lease is revived does not follow from it: without locks
a mission may be called paused while a card runs. `VInv` says what still holds as long as
no step is interrupted. A running card has an open intent but for the moment between its
claim and its intent (`RunsAreOpen`), which the board spends in its tick; so the gates of a
resume and of a retry, which look for open intents, find no running card either, and the
board gets past them, past the start gate or to the end of a quiescence only when nothing
runs. Both lease theorems then have the same last step (`ClaimsGrant`).

**The refinement of the leases.** Each step maps to a step of `ExecutionLease` or a
stutter. A step that claims nothing and records no intent is judged by what it does to
the mission and the cards (`SafeImplements`): it closes the mission, which drops all
leases at once, or opens it, when `IInv` says that none is held or unresolved, or
releases some. That leaves the spawn, whose claim is a `Grant` of a run that was never
handed out, by `JInv`, and whose intent is a `Journal`.

**The gateway.** `GatewayInvariant` adds to the types that a token beyond the last
batch is in no row (`RowsIssued`), that a call has its claimed token to itself and
has not run it yet (`ResolverOwnsToken`), that an operation that started leaves a
token nobody can claim again (`RunIsRecorded`), and that a delivery works with
tokens issued for the version it claimed (`DeliveryMatchesBatch`). Without the second
and third the promise is not inductive: nothing else keeps two calls off one token,
or a token that ran from being pending. The refinement maps each token to how far it
got (`Capability`); `PromiseStep` has one case per action that touches a token, and
shows that an issue is the only step that changes several. `OnePrompt` and
`PromptedIssued` are inductive on top of the invariant. `PromptStands` is not: it speaks
of the version the mission has now, and may come to have again. `PromptInvariant` says of
every version that counts as prompted that its tokens only give way to a later prompt of
another version (`PromptIsKept`), since a claim is always of another and no older version
(`ClaimsAreNews`), no version is ahead of the mission (`VersionsPass`), and nobody
withdraws the tokens of a delivery under way (`DeliveryIsCurrent`). All but `VersionsPass`
break with a second gateway.

**The repository.** `RepositoryInvariant` adds to the types what the base is
(`BaseKnown`), what status the position of the lock holder implies (`Position`), what
the seal, the snapshot in hand and the published commit have to do with each other
(`SealKnown`), and, as long as nobody meddled, where branch, files and index stand at
each position (`OwnWorld`). What `SealKnown` says of a commit that the
controller makes (`found = None`) does not depend on meddling: that is why its success is
sealed whoever interfered. Of a commit in adoption it says, whoever interfered, only that
it is the one found at the gate, and where nobody did, that it is the sealed one. The
proof that the promise of `LocalCommit` is kept maps each action to one of its steps or a
stutter, and rests on the same two facts: the snapshot in hand at `PublishCommit` is the
seal's, and `AlignIndex` puts back a commit that was published or found.

**Planning.** `PlanningInvariant` has three parts that survive foreign writes (one card
per key, a plan whose cards can be adopted, a planner that knows what it works on) and
four that hold until the first one (`Untouched`, `ManualCards`, `Position`, `Standing`).
`PlanAdoptable` alone is not inductive: that the verifier waits for every executor
follows from what the planner has found so far, which is `Position`. The graph can be lost
while a failed preparation has the mission blocked, to a card that a dead planner leaves
loose. What a manifest says stays (`Accepted`: it names a graph that a mission must have),
and the start asks for the manifest to be the graph again (`SealedAccepted`,
`StartIsSealed`), so that `Standing` holds of a start from blocked as well.

**Evidence.** `EvidenceInvariant` adds that a writer about to append has its file in
place (`FilesInPlace`), that every hash in the table was computed by a writer, damaged or
not (`HashesAppended`), and what the reader knows of the rows behind it
(`ReaderPosition`). A recomputed chain of hashes equals the entries up to its row, so
what passes is a sequence that was appended. Lemmas on prefixes carry the argument; one
lemma per group of steps re-establishes the invariant.

`BudgetIsKept` is not inductive either: a writer has measured the table long before it
adds its row. `BudgetAhead` counts the calls under way. Each of them can
still add one longest blob, and either the table with all of these is within the bound,
or one of the calls has measured: its blob fitted when it looked, and only those of the
others come on top. `Used` is a recursive function over the rows, and what
such a function computes needs an induction; `SetInduction` states it for a set of
numbers instead of a predicate, and from it follow that the sum exists, how it unfolds,
and that it depends on nothing but its terms (`SumsExist`, `TotalUnfolds`,
`TotalDepends`).

**Notifications.** Neither property is inductive. `NotifierInvariant` adds three things.
`Standing` says where a loop and a session can stand and what they have in hand: one
claim of a chat at most, of events the chat is told, and all of them until a send took
some (`LoopKnown`, `SessionKnown`). `RepeatsCounted` bounds the tellings of an event,
however the gateways interleave: a gateway may tell it (`MayTell`) if its claim has it,
will set the cursor back behind it, or ends before it, so that the advance could; the
event can be claimed if the cursor is behind it; and how often it was told, how many
gateways may tell it, and the cursor, counted as one, never exceed the servers of the
chat and its failed sends (`Counted`). A claim turns the cursor's chance into the
gateway's, a send the gateway's chance into a telling, an advance or a rewind the
gateway's chance back into the cursor's, and a failed send pays for keeping its own. An
event that was never told and that no claim has is outside the count: it enters with its
first claim, when at most every server may tell it and the cursor is past it.
`CursorStays` says that the cursor of a chat with one teller is where the claim in hand
left it unless the chat subscribed anew since, which is why a rewind finds its own claim
and no event is lost; a second server breaks it.

Every action of a gateway is a step of one loop (`Becomes`). `GatewayMoves` says what
such a step has to show: the types, its own loop, that no count goes up (`CountsOn`), and
that what a cursor passed is held or resolved (`StillHeld`, `Resolved`); one lemma per
action shows it. `DifferInOne` compares the sets of gateways that may tell before and
after a step. `SessionMoves` does the same for sessions.

**Only model-checked.** Liveness (`OrphanIsReconciled`, `EventuallyPrompted`, `PhasesEnd`,
`StoredPlanCompletes`, `EventuallyTold`), which is out of the prover's reach under
fairness.

## 5. Plan

1. `MissionExecution` with its cards, leases and proofs: done.
2. `MissionGateway` with its abstract specification and proofs: done. Left: a
   composition with `MissionExecution`, in which `RunAction` is the real operation
   and versions within one second are told apart by a history.
3. `MissionRepository` with `LocalCommit` and proofs: done.
4. `MissionPlanning` with proofs: done.
5. `EvidenceLog` with proofs: done.
6. `KanbanNotifier` with proofs: done.
7. `KanbanTasks`: cards without a mission, `recompute_ready` and the failure counter
   over dependency graphs.
8. Proofs: every safety property and refinement of a passing run is a theorem: done.
   `KanbanNotifier` is proved for any number of gateways.
   Left: what of `PromptStands` survives a second gateway.

## 6. Not modelled

* Most of `src/hermes_integration` is the host, the vendored Hermes agent: its gateway
  loop and platform adapters, its CLI, the TUI and dashboard servers, tools and
  terminals. The mission system touches it in the watchers, the worker's tools and the
  calls of `reconcile_mission`, and these are modelled; the rest, by far the larger part
  of the lines, is not part of what this project is about.
* Argument parsing and output of `/mission` and `hermes mission`: each command is one
  operation of `mission_service`.
* Container start-up and removal, which is one system call of `KillWorkers`.
* The general board: decomposition, profiles, attachments, cards without a mission.
  Operations that `assert_task_mutation_allowed` denies on mission cards are in
  `MissionPlanning`, as writes to cards that are not linked yet.
* Release and replay scripts, documentation and provenance data: they run once and keep
  no state.
* Path, command, content and network policies: pure functions of one call.
