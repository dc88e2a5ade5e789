-------------------------- MODULE MissionPlanning --------------------------
(***************************************************************************)
(* How a prepared mission gets its cards, mission_service.py: manual tasks *)
(* (add_execution_task, finish_plan), an automatic plan (plan_with_model), *)
(* the manifest that accepts the graph, and the start gate.                *)
(*                                                                         *)
(* One planner at a time holds the mission lock (op); it creates and links *)
(* each card in transactions of their own and can die between any two.     *)
(* Clients of the board may rewrite a card that belongs to no mission; they *)
(* look first and write in a later transaction, and the planner may have   *)
(* linked the card in between.                                             *)
(***************************************************************************)
EXTENDS MissionLifecycle, Naturals, FiniteSets

CONSTANTS
  CardId,     \* handles for the random task ids, given in order
  Root,       \* the controller card, the start latch
  None,       \* no row, no key, no plan, no manifest, no card
  MaxTasks,   \* how many tasks a plan can have
  MaxManual,  \* bound: cards that add_execution_task creates
  MaxSecond,  \* bound: seconds that pass
  MaxFaults   \* bound: deaths of a planner, cards that a client rewrites

ASSUME PlanningAssumption ==
  /\ CardId \subseteq Nat /\ Root \notin CardId /\ None \notin CardId
  /\ MaxTasks \in Nat \ {0} /\ None \notin 1..MaxTasks
  /\ MaxManual \in Nat /\ MaxSecond \in Nat /\ MaxFaults \in Nat

VARIABLES
  status,    \* missions.status, and "environment" or "migration" for blocked in
             \* that phase
  card,      \* the task cards but for the controller
  plan,      \* mission_plans: how many tasks the stored plan has
  manifest,  \* mission_task_manifests
  recorded,  \* how often the plan evidence is recorded
  second,    \* the clock, as created_at shows it
  op,        \* the planner under the mission lock
  client,    \* the card that a client found free to rewrite
  meddled,   \* some client rewrote a card
  faults

vars == <<status, card, plan, manifest, recorded, second, op, client, meddled, faults>>

-----------------------------------------------------------------------------

Role == {"executor", "verifier"}

\* The idempotency key says which card this is: role and ordinal of a plan, or the
\* verifier of manual executors, which have no keys themselves.
ExecutorKey(n) == <<"executor", n>>
VerifierKey == <<"verifier", 1>>
ManualKey   == <<"verifier", 0>>
PlanKey == {ExecutorKey(n) : n \in 1..MaxTasks} \union {VerifierKey, ManualKey}

\* A card is canonical until somebody edits it (edited), archives it, or makes it
\* wait for a card outside the mission (outside).  asked: the caller gave its parents.
Card == [second : 0..MaxSecond, key : PlanKey \union {None}, role : Role \union {"none"},
         parents : SUBSET (CardId \union {Root}), status : {"todo", "archived"},
         edited : BOOLEAN, outside : BOOLEAN, asked : BOOLEAN]

ASSUME NoneAssumption == None \notin Card /\ None \notin PlanKey

PlanningStatus == MissionStatus \union {"environment", "migration"}

Exists(c) == card[c] # None
Linked(role) == {c \in CardId : Exists(c) /\ card[c].role = role}
Members == Linked("executor") \union Linked("verifier")

\* What the manifest holds of each card: every immutable field and its edges.
Graph == [c \in Members |-> [role |-> card[c].role, key |-> card[c].key,
                             parents |-> card[c].parents, edited |-> card[c].edited,
                             outside |-> card[c].outside]]

\* Cards of no mission that hang on one of the mission.
Strangers == {c \in CardId : Exists(c) /\ card[c].role = "none"
                                /\ card[c].parents \intersect (Members \union {Root}) # {}}

\* at: the next step; auto: the cards of a stored plan; next: the key of the card
\* in hand; made: the executors found so far.
Op == [at : {"idle", "add", "model", "find", "link", "confirm", "accept", "record", "ready"},
       auto : BOOLEAN, next : PlanKey \union {None},
       made : SUBSET CardId, last : CardId \union {Root}, card : CardId \union {None}]

Idle == [at |-> "idle", auto |-> FALSE, next |-> None, made |-> {}, last |-> Root, card |-> None]

At(label)   == op.at = label
LockFree    == At("idle")
Goto(label) == op' = [op EXCEPT !.at = label]
Finish      == op' = Idle

Fault == faults < MaxFaults /\ faults' = faults + 1

\* A prepared mission, or one of an older version whose cards have no manifest.
Init ==
  /\ status \in {"planning", "ready"}
  /\ card = [c \in CardId |-> None]
  /\ plan = None /\ manifest = None /\ recorded = 0
  /\ second = 0
  /\ op = Idle
  /\ client = None /\ meddled = FALSE /\ faults = 0

-----------------------------------------------------------------------------
(***************************************************************************)
(* Cards                                                                   *)
(***************************************************************************)

Created(key, parents, asked) ==
  [second |-> second, key |-> key, role |-> "none", parents |-> parents, status |-> "todo",
   edited |-> FALSE, outside |-> FALSE, asked |-> asked]

\* The last of ORDER BY created_at, id: within one second, whichever id is largest.
Latest(cards) == {c \in cards : \A d \in cards : card[d].second <= card[c].second}

\* Nothing but the last executor, or the start latch for the first one.
DefaultParents ==
  IF Linked("executor") = {} THEN {{Root}} ELSE {{c} : c \in Latest(Linked("executor"))}

\* The cards with an idempotency key.
Carrying(key) == {c \in CardId : Exists(c) /\ card[c].key = key}

\* create_task, in a transaction of its own.
CreateCard(c, key, parents, asked) ==
  /\ ~Exists(c) /\ \A d \in CardId : d < c => Exists(d)
  /\ card' = [card EXCEPT ![c] = Created(key, parents, asked)]

\* link_task binds a card once.
Bound(c, role) == [card EXCEPT ![c].role = role]
Bindable(c, role) == Exists(c) /\ card[c].role \in {"none", role}

\* Mutant: a stored plan does not keep manual tasks out.
AddTaskAnyway(c, parents, asked) ==
  /\ LockFree /\ status = "planning"
  /\ Cardinality(Carrying(None)) < MaxManual
  /\ IF asked THEN parents # {} /\ parents \subseteq Members \union {Root}
     ELSE parents \in DefaultParents
  /\ CreateCard(c, None, parents, asked)
  /\ op' = [Idle EXCEPT !.at = "add", !.card = c]
  /\ UNCHANGED <<status, plan, manifest, recorded, second, client, meddled, faults>>

\* add_execution_task creates the card; the link comes after it.
AddExecutionTask(c, parents, asked) ==
  /\ LockFree /\ status = "planning" /\ plan = None
  /\ Cardinality(Carrying(None)) < MaxManual
  /\ IF asked THEN parents # {} /\ parents \subseteq Members \union {Root}
     ELSE parents \in DefaultParents
  /\ CreateCard(c, None, parents, asked)
  /\ op' = [Idle EXCEPT !.at = "add", !.card = c]
  /\ UNCHANGED <<status, plan, manifest, recorded, second, client, meddled, faults>>

LinkExecutionTask ==
  /\ At("add")
  /\ card' = IF Bindable(op.card, "executor") THEN Bound(op.card, "executor") ELSE card
  /\ Finish
  /\ UNCHANGED <<status, plan, manifest, recorded, second, client, meddled, faults>>

-----------------------------------------------------------------------------
(***************************************************************************)
(* Plans                                                                   *)
(***************************************************************************)

Materialize == [Idle EXCEPT !.at = "find", !.auto = TRUE, !.next = ExecutorKey(1)]

\* plan_with_model: a stored plan is resumed whatever the status of the mission.
PlanWithModel ==
  /\ LockFree
  /\ \/ plan # None /\ op' = Materialize
     \/ /\ plan = None /\ status = "planning" /\ Members = {}
        /\ op' = [Idle EXCEPT !.at = "model"]
  /\ UNCHANGED <<status, card, plan, manifest, recorded, second, client, meddled, faults>>

\* The proposal is canonical and stored before the first card.
StorePlan(n) ==
  /\ At("model") /\ Members = {}
  /\ plan' = n
  /\ op' = Materialize
  /\ UNCHANGED <<status, card, manifest, recorded, second, client, meddled, faults>>

\* The model fails, or its answer is malformed.
ModelFails == At("model") /\ Finish
  /\ UNCHANGED <<status, card, plan, manifest, recorded, second, client, meddled, faults>>

\* _validate_planned_card
Canonical(c, key, parents) ==
  /\ card[c].key = key /\ ~card[c].edited /\ ~card[c].outside
  /\ card[c].parents = parents
  /\ card[c].status # "archived"

\* Mutant: the verifier that is there is taken as it is.
FinishWithVerifier ==
  /\ LockFree
  /\ \/ plan # None /\ op' = Materialize
     \/ /\ plan = None /\ Linked("executor") # {} /\ Linked("verifier") = {}
        /\ status = "planning"
        /\ op' = [Idle EXCEPT !.at = "find", !.next = ManualKey, !.made = Linked("executor")]
     \/ /\ plan = None /\ Linked("executor") # {}
        /\ \E c \in Linked("verifier") :
             op' = [Idle EXCEPT !.at = "accept", !.made = Linked("executor"), !.card = c]
  /\ UNCHANGED <<status, card, plan, manifest, recorded, second, client, meddled, faults>>

\* finish_plan: a stored plan is materialized; manual executors get their verifier.
FinishPlan ==
  /\ LockFree
  /\ \/ plan # None /\ op' = Materialize
     \/ /\ plan = None /\ Linked("executor") # {} /\ Linked("verifier") = {}
        /\ status = "planning"
        /\ op' = [Idle EXCEPT !.at = "find", !.next = ManualKey,
                              !.made = Linked("executor")]
     \/ /\ plan = None /\ Linked("executor") # {}
        /\ \E c \in Linked("verifier") :
             /\ Linked("verifier") = {c}
             /\ Canonical(c, ManualKey, Linked("executor"))
             /\ op' = [Idle EXCEPT !.at = "accept", !.made = Linked("executor"), !.card = c]
  /\ UNCHANGED <<status, card, plan, manifest, recorded, second, client, meddled, faults>>

NextRole    == op.next[1]
NextParents == IF NextRole = "verifier" THEN op.made ELSE {op.last}

\* Mutant: only the cards of the mission are looked up.
FindMember(c) ==
  /\ At("find")
  /\ LET found == Carrying(op.next) \intersect Members
     IN  IF found = {} THEN CreateCard(c, op.next, NextParents, FALSE)
         ELSE found = {c} /\ UNCHANGED card
  /\ op' = [op EXCEPT !.at = "link", !.card = c]
  /\ UNCHANGED <<status, plan, manifest, recorded, second, client, meddled, faults>>

\* Mutant: a card that nobody linked yet is refused.
FindLinked(c) ==
  /\ At("find")
  /\ IF Carrying(op.next) = {} THEN CreateCard(c, op.next, NextParents, FALSE)
     ELSE Carrying(op.next) = {c} /\ UNCHANGED card
  /\ op' = IF Carrying(op.next) \subseteq Members THEN [op EXCEPT !.at = "link", !.card = c]
           ELSE Idle
  /\ UNCHANGED <<status, plan, manifest, recorded, second, client, meddled, faults>>

\* _create_or_adopt_planned_card: the key finds a card that an interrupted planner
\* left, linked or not.
FindCard(c) ==
  /\ At("find")
  /\ IF Carrying(op.next) = {} THEN CreateCard(c, op.next, NextParents, FALSE)
     ELSE Carrying(op.next) = {c} /\ UNCHANGED card
  /\ op' = [op EXCEPT !.at = "link", !.card = c]
  /\ UNCHANGED <<status, plan, manifest, recorded, second, client, meddled, faults>>

\* Mutant: the link takes the key for the role.
LinkByKey ==
  /\ At("link")
  /\ Bindable(op.card, NextRole) /\ Canonical(op.card, op.next, NextParents)
  /\ card' = Bound(op.card, op.next)
  /\ Goto("confirm")
  /\ UNCHANGED <<status, plan, manifest, recorded, second, client, meddled, faults>>

LinkCard ==
  /\ At("link")
  /\ Bindable(op.card, NextRole) /\ Canonical(op.card, op.next, NextParents)
  /\ card' = Bound(op.card, NextRole)
  /\ Goto("confirm")
  /\ UNCHANGED <<status, plan, manifest, recorded, second, client, meddled, faults>>

Confirmed ==
  /\ Exists(op.card) /\ card[op.card].role = NextRole
  /\ Canonical(op.card, op.next, NextParents)

\* The card is checked again, and the next one is due.
ConfirmCard ==
  /\ At("confirm") /\ Confirmed
  /\ op' = IF NextRole = "verifier" THEN [op EXCEPT !.at = "accept"]
           ELSE [op EXCEPT !.at = "find", !.made = @ \union {op.card}, !.last = op.card,
                           !.card = None,
                           !.next = IF @ = ExecutorKey(plan) THEN VerifierKey ELSE ExecutorKey(@[2] + 1)]
  /\ UNCHANGED <<status, card, plan, manifest, recorded, second, client, meddled, faults>>

-----------------------------------------------------------------------------
(***************************************************************************)
(* The manifest                                                            *)
(***************************************************************************)

\* Mutant: edges to other cards are not looked at.
CompleteInside ==
  /\ Linked("executor") # {} /\ \E c \in CardId : Linked("verifier") = {c}

\* _task_manifest_payload: one verifier, some executor, no edge that leaves the
\* mission.
Complete ==
  /\ Linked("executor") # {} /\ \E c \in CardId : Linked("verifier") = {c}
  /\ Strangers = {} /\ \A c \in Members : ~card[c].outside

\* A stored plan also wants its own cards and no others.
Acceptable ==
  /\ op.auto => Linked("executor") = op.made /\ Linked("verifier") = {op.card}
  /\ Complete
  /\ IF manifest = None THEN status = "planning" ELSE manifest = Graph

\* Mutant: the manifest is written over.
AcceptLatest ==
  /\ At("accept")
  /\ op.auto => Linked("executor") = op.made /\ Linked("verifier") = {op.card}
  /\ Complete
  /\ manifest' = Graph
  /\ Goto(IF op.auto THEN "record" ELSE "ready")
  /\ UNCHANGED <<status, card, plan, recorded, second, client, meddled, faults>>

\* _accept_or_validate_task_manifest: stored once, compared ever after.
AcceptManifest ==
  /\ At("accept") /\ Acceptable
  /\ manifest' = Graph
  /\ Goto(IF op.auto THEN "record" ELSE "ready")
  /\ UNCHANGED <<status, card, plan, recorded, second, client, meddled, faults>>

\* The plan evidence, once.
RecordPlan ==
  /\ At("record")
  /\ recorded' = IF recorded = 0 THEN 1 ELSE recorded
  /\ Goto("ready")
  /\ UNCHANGED <<status, card, plan, manifest, second, client, meddled, faults>>

FinishPlanning ==
  /\ At("ready")
  /\ status' = IF status = "planning" THEN "ready" ELSE status
  /\ Finish
  /\ UNCHANGED <<card, plan, manifest, recorded, second, client, meddled, faults>>

CheckPasses ==
  /\ At("find") => Cardinality(Carrying(op.next)) <= 1
  /\ At("link") => Bindable(op.card, NextRole) /\ Canonical(op.card, op.next, NextParents)
  /\ At("confirm") => Confirmed
  /\ At("accept") => Acceptable

\* A check fails: the operation raises and leaves what it has done.
PlannerRaises ==
  /\ op.at \in {"find", "link", "confirm", "accept"} /\ ~CheckPasses
  /\ Finish
  /\ UNCHANGED <<status, card, plan, manifest, recorded, second, client, meddled, faults>>

-----------------------------------------------------------------------------
(***************************************************************************)
(* The mission and its surroundings                                        *)
(***************************************************************************)

\* validate_mission_task_graph at the start gate, which also takes a blocked mission:
\* one whose graph was accepted before a preparation failed.  Without a manifest
\* that one is refused, and a ready one is blocked.
StartMission ==
  /\ LockFree
  /\ \/ status = "ready" /\ manifest = None /\ status' = "migration"
     \/ /\ status \in {"ready", "environment", "migration"} /\ manifest # None
        /\ Complete /\ manifest = Graph
        /\ \A c \in Members : card[c].status = "todo"
        /\ status' = "running"
  /\ UNCHANGED <<card, plan, manifest, recorded, second, op, client, meddled, faults>>

\* prepare_mission is run again and fails, or the retry of it succeeds.
PrepareAgain ==
  /\ LockFree
  /\ \/ status = "planning" /\ status' = "environment"
     \/ status = "environment" /\ status' = "planning"
  /\ UNCHANGED <<card, plan, manifest, recorded, second, op, client, meddled, faults>>

CancelMission ==
  /\ LockFree /\ status \notin TerminalMissionStatus
  /\ status' = "cancelled"
  /\ UNCHANGED <<card, plan, manifest, recorded, second, op, client, meddled, faults>>

\* The planner dies, or its database does not answer.
Interrupted ==
  /\ ~LockFree /\ Fault
  /\ Finish
  /\ UNCHANGED <<status, card, plan, manifest, recorded, second, client, meddled>>

SecondPasses ==
  /\ second < MaxSecond
  /\ second' = second + 1
  /\ UNCHANGED <<status, card, plan, manifest, recorded, op, client, meddled, faults>>

\* assert_task_mutation_allowed is asked before the transaction.
ClientLooks(c) ==
  /\ client = None /\ faults < MaxFaults
  /\ Exists(c) /\ card[c].role = "none"
  /\ client' = c
  /\ UNCHANGED <<status, card, plan, manifest, recorded, second, op, meddled, faults>>

\* delete_task takes the edges along.
Without(c) == [d \in CardId |-> IF d = c \/ ~Exists(d) THEN None
                               ELSE [card[d] EXCEPT !.parents = @ \ {c}]]

\* archive_task, edit, link_tasks with a foreign card, delete_task.
ClientWrites ==
  /\ client # None /\ Fault
  /\ meddled' = TRUE /\ client' = None
  /\ \/ Exists(client) /\ \/ card' = [card EXCEPT ![client].status = "archived"]
                          \/ card' = [card EXCEPT ![client].edited = TRUE]
                          \/ card' = [card EXCEPT ![client].outside = TRUE]
     \/ card' = Without(client)
  /\ UNCHANGED <<status, plan, manifest, recorded, second, op>>

Planner ==
  \/ LinkExecutionTask \/ \E n \in 1..MaxTasks : StorePlan(n)
  \/ ModelFails \/ LinkCard \/ ConfirmCard
  \/ \E c \in CardId : FindCard(c)
  \/ AcceptManifest \/ RecordPlan \/ FinishPlanning \/ PlannerRaises

Next ==
  \/ Planner \/ PlanWithModel \/ FinishPlan
  \/ \E c \in CardId, asked \in BOOLEAN, parents \in SUBSET (CardId \union {Root}) :
       AddExecutionTask(c, parents, asked)
  \/ StartMission \/ PrepareAgain \/ CancelMission \/ Interrupted \/ SecondPasses
  \/ ClientWrites \/ \E c \in CardId : ClientLooks(c)

Spec == Init /\ [][Next]_vars

\* A planner that does not die goes on.
FairSpec == Spec /\ WF_vars(Planner)

-----------------------------------------------------------------------------
(***************************************************************************)
(* Properties                                                              *)
(***************************************************************************)

TypeOK ==
  /\ status \in PlanningStatus
  /\ card \in [CardId -> Card \union {None}]
  /\ plan \in {None} \union (1..MaxTasks)
  /\ manifest = None \/ /\ DOMAIN manifest \subseteq CardId
                        /\ \A c \in DOMAIN manifest : manifest[c].role \in Role
  /\ recorded \in Nat
  /\ second \in 0..MaxSecond
  /\ op \in Op
  /\ client \in CardId \union {None}
  /\ meddled \in BOOLEAN /\ faults \in Nat

\* However often planners die and start again, and whatever clients do to loose
\* cards, no card of a plan exists twice.
OneCardPerKey ==
  \A c, d \in CardId :
    Exists(c) /\ Exists(d) /\ card[c].key = card[d].key /\ card[c].key # None => c = d

Planned(n) == Carrying(ExecutorKey(n))
PlannedUpTo(n) == UNION {Planned(m) : m \in 1..n}

\* What a planner leaves of a stored plan is what the next one adopts: every card
\* it made, linked or not, is the one the plan asks for, and none of the mission
\* is foreign to the plan.
PlanAdoptable ==
  (~meddled /\ plan # None) =>
    /\ \A c \in Members : card[c].key \in {ExecutorKey(n) : n \in 1..plan} \union {VerifierKey}
    /\ \A n \in 1..plan : \A c \in Planned(n) :
         /\ Canonical(c, ExecutorKey(n), IF n = 1 THEN {Root} ELSE Planned(n - 1))
         /\ card[c].role \in {"none", "executor"} /\ (n > 1 => Planned(n - 1) # {})
    /\ \A c \in Carrying(VerifierKey) :
         /\ Canonical(c, VerifierKey, PlannedUpTo(plan))
         /\ card[c].role \in {"none", "verifier"} /\ \A n \in 1..plan : Planned(n) # {}

\* The mission has left planning with a graph that was accepted.
Released == status \in {"ready", "running"} /\ manifest # None

\* The manifest holds the graph, and the graph is the one a mission must have.
Sealed ==
  /\ manifest = Graph
  /\ \A c \in Linked("executor") :
       card[c].parents # {} /\ card[c].parents \subseteq Linked("executor") \union {Root}
  /\ \E c \in CardId :
       Linked("verifier") = {c} /\ card[c].parents = Linked("executor")
  /\ plan # None =>
       /\ \A n \in 1..plan : Planned(n) # {}
       /\ Members = PlannedUpTo(plan) \union Carrying(VerifierKey)

\* A mission is ready, and runs, only with the graph it was accepted with: every
\* executor is behind the start latch, the one verifier is behind every executor,
\* also when tasks were added between two attempts to finish; a stored plan is there
\* in full and never recorded twice.  That it is recorded is only sure of a ready
\* mission: one whose planner died between the manifest (1013) and the evidence
\* (1014), whose repeated preparation then failed, starts from blocked (1190) with a
\* plan that no evidence tells of.
AcceptedGraph ==
  (~meddled /\ Released) =>
    Sealed /\ recorded <= 1 /\ (status = "ready" /\ plan # None => recorded = 1)

\* The start releases what hangs on the latch, and that is the mission's: a card
\* that a dead planner left loose is never dispatched as an ordinary one.
NothingElseReleased ==
  (~meddled /\ Released) => Strangers = {}

\* The manifest is stored once and never redefined, also between its storage and
\* the end of planning, when tasks can still be added.
ManifestIsFinal == [][manifest # None => manifest' = manifest]_vars

\* An operator who repeats the command gets a stored plan through.
StoredPlanCompletes ==
  []<><<PlanWithModel>>_vars =>
    (plan # None /\ status = "planning" /\ Strangers \intersect Carrying(None) = {}
     ~> status # "planning" \/ meddled)

-----------------------------------------------------------------------------
(***************************************************************************)
(* What the properties rest on                                             *)
(***************************************************************************)

\* The planner knows what it works on.
OpKnown ==
  /\ op.at \in {"add", "link", "confirm", "accept"} => op.card \in CardId
  /\ op.at \in {"find", "link", "confirm"} =>
       /\ op.auto => op.next \in {ExecutorKey(n) : n \in 1..plan} \union {VerifierKey}
       /\ ~op.auto => op.next = ManualKey /\ status = "planning"
  /\ op.at \in {"find", "link", "confirm", "accept", "record", "ready"} =>
       (op.auto <=> plan # None)
  /\ op.at = "record" => op.auto
  /\ op.at \in {"add", "model"} => plan = None /\ status = "planning"

Untouched ==
  \A c \in CardId : Exists(c) => card[c].status = "todo" /\ ~card[c].edited /\ ~card[c].outside

\* A manual task hangs on cards that were the mission's before it, so it is not
\* among the parents of a verifier that it waits for.
ManualCards ==
  /\ \A c \in Carrying(None) :
       /\ card[c].role \in {"none", "executor"} /\ card[c].parents # {}
       /\ card[c].parents \subseteq Members \union {Root}
       /\ \A v \in Linked("verifier") : v \in card[c].parents => c \notin card[v].parents
  /\ \A c \in Carrying(ManualKey) :
       card[c].role \in {"none", "verifier"} /\ card[c].parents \subseteq Linked("executor")
  /\ plan = None => \A c \in CardId : Exists(c) => card[c].key \in {None, ManualKey}

\* The first n executors of the plan are there, and the planner has them.
Made(n) ==
  /\ op.made = PlannedUpTo(n)
  /\ \A m \in 1..n : Planned(m) # {}

\* Where the planner is in its plan.
Position ==
  /\ op.at = "add" => op.card \in Carrying(None)
  /\ op.at \in {"find", "link", "confirm"} /\ op.auto =>
       /\ \A n \in 1..plan : op.next = ExecutorKey(n) =>
            Made(n - 1) /\ {op.last} = (IF n = 1 THEN {Root} ELSE Planned(n - 1))
       /\ op.next = VerifierKey => Made(plan)
  /\ op.at \in {"find", "link", "confirm", "accept"} /\ ~op.auto => op.made = Linked("executor")
  /\ op.at = "accept" =>
       /\ op.card \in Linked("verifier") /\ card[op.card].parents = op.made
       /\ op.auto => card[op.card].key = VerifierKey /\ Made(plan)

\* What a manifest says by itself, whatever became of the cards: it names the graph
\* that a mission must have, with an executor for every step of a stored plan.
Manifested(role) == {c \in DOMAIN manifest : manifest[c].role = role}
Accepted ==
  manifest # None =>
    /\ DOMAIN manifest \subseteq Members
    /\ \A c \in Manifested("executor") :
         /\ manifest[c].parents # {}
         /\ manifest[c].parents \subseteq Manifested("executor") \union {Root}
    /\ \E c \in DOMAIN manifest :
         Manifested("verifier") = {c} /\ manifest[c].parents = Manifested("executor")
    /\ plan # None =>
         \A n \in 1..plan : \E c \in DOMAIN manifest : manifest[c].key = ExecutorKey(n)

\* From the acceptance on, the graph stands; a mission that a failed preparation
\* blocked may lose it to a stranger and then does not start.
Standing ==
  /\ Accepted
  /\ op.at \in {"record", "ready"} \/ Released => Sealed /\ Strangers = {}
  /\ op.at = "ready" \/ (status = "ready" /\ manifest # None) => (plan # None => recorded = 1)
  /\ recorded \in {0, 1}

PlanningInvariant ==
  /\ TypeOK /\ OneCardPerKey /\ PlanAdoptable /\ OpKnown
  /\ ~meddled => Untouched /\ ManualCards /\ Position /\ Standing

=============================================================================
