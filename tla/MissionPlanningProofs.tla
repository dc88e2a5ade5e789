------------------------ MODULE MissionPlanningProofs ------------------------
(***************************************************************************)
(* Theorems about MissionPlanning for every set of cards, every size of    *)
(* plan and any number of deaths and foreign writes: an interrupted plan   *)
(* can be adopted and is never duplicated, and what the start releases is  *)
(* the graph that was accepted.                                            *)
(*                                                                         *)
(* One inductive invariant carries them, PlanningInvariant: the types, what *)
(* the planner works on, and, as long as no client rewrote a card, the     *)
(* shape of the cards and where the planner is in its plan.                *)
(***************************************************************************)
EXTENDS MissionPlanning, TLAPS

USE PlanningAssumption

-----------------------------------------------------------------------------
(***************************************************************************)
(* Keys and cards                                                          *)
(***************************************************************************)

\* The keys of a plan differ from each other and from none.
LEMMA KeysDiffer ==
  /\ VerifierKey \in PlanKey /\ ManualKey \in PlanKey
  /\ VerifierKey # ManualKey /\ VerifierKey # None /\ ManualKey # None
  /\ \A n \in 1..MaxTasks :
       /\ ExecutorKey(n) \in PlanKey /\ ExecutorKey(n) # None
       /\ ExecutorKey(n) # VerifierKey /\ ExecutorKey(n) # ManualKey
  /\ \A m, n \in Nat : ExecutorKey(m) = ExecutorKey(n) => m = n
BY NoneAssumption DEF PlanKey, ExecutorKey, VerifierKey, ManualKey

\* The role is part of the key.
LEMMA RoleOfKey ==
  /\ VerifierKey[1] = "verifier" /\ ManualKey[1] = "verifier"
  /\ \A n \in Nat : ExecutorKey(n)[1] = "executor" /\ ExecutorKey(n)[2] = n
  /\ \A k \in PlanKey : k[1] \in Role
BY DEF PlanKey, ExecutorKey, VerifierKey, ManualKey, Role

\* A new card has the key and the parents it was asked for, and nothing else yet.
LEMMA CreatedCard ==
  ASSUME TypeOK, NEW key \in PlanKey \union {None}, NEW parents \in SUBSET (CardId \union {Root}),
         NEW asked \in BOOLEAN
  PROVE  /\ Created(key, parents, asked) \in Card /\ Created(key, parents, asked) # None
         /\ Created(key, parents, asked).key = key
         /\ Created(key, parents, asked).role = "none"
         /\ Created(key, parents, asked).parents = parents
         /\ Created(key, parents, asked).status = "todo"
         /\ Created(key, parents, asked).edited = FALSE
         /\ Created(key, parents, asked).outside = FALSE
<1>1. Created(key, parents, asked) \in Card
  BY DEF TypeOK, Created, Card
<1> QED
  BY <1>1, NoneAssumption DEF Created

\* The fields of a card that exists.
LEMMA CardFields ==
  ASSUME TypeOK, NEW c \in CardId, Exists(c)
  PROVE  /\ card[c] \in Card /\ card[c] # None
         /\ card[c].key \in PlanKey \union {None} /\ card[c].role \in Role \union {"none"}
         /\ card[c].parents \in SUBSET (CardId \union {Root})
BY DEF TypeOK, Exists, Card

\* The binding of a card changes its role and nothing else.
LEMMA BoundCard ==
  ASSUME TypeOK, NEW c \in CardId, Exists(c), NEW role \in Role, NEW d \in CardId
  PROVE  /\ Bound(c, role) \in [CardId -> Card \union {None}]
         /\ d # c => Bound(c, role)[d] = card[d]
         /\ Bound(c, role)[c] # None
         /\ Bound(c, role)[c].role = role
         /\ Bound(c, role)[c].key = card[c].key
         /\ Bound(c, role)[c].parents = card[c].parents
         /\ Bound(c, role)[c].status = card[c].status
         /\ Bound(c, role)[c].edited = card[c].edited
         /\ Bound(c, role)[c].outside = card[c].outside
<1>1. card \in [CardId -> Card \union {None}] /\ card[c] \in Card
  BY CardFields DEF TypeOK
<1>2. [card[c] EXCEPT !.role = role] \in Card
  BY <1>1 DEF Card
<1>3. Bound(c, role) = [card EXCEPT ![c] = [card[c] EXCEPT !.role = role]]
  BY <1>1 DEF Bound
<1>4. Bound(c, role)[c] = [card[c] EXCEPT !.role = role]
  BY <1>1, <1>3
<1>5. Bound(c, role)[c] # None
  BY <1>2, <1>4, NoneAssumption
<1> QED
  BY <1>1, <1>2, <1>3, <1>4, <1>5 DEF Card

-----------------------------------------------------------------------------
(***************************************************************************)
(* Types, and what the planner works on                                    *)
(***************************************************************************)

\* In every state, a mission of one of its statuses, and cards as the table keeps
\* them.
PlanningTypes == TypeOK /\ OpKnown

\* At first there is no card, no plan and no planner.
LEMMA InitTypes == Init => PlanningTypes
<1> SUFFICES ASSUME Init PROVE PlanningTypes
  OBVIOUS
<1>1. status \in PlanningStatus
  BY DEF Init, PlanningStatus, MissionStatus
<1>a. op = Idle
  BY DEF Init
<1>b. Idle \in Op /\ Idle.at = "idle"
  BY DEF Idle, Op
<1>2. op \in Op /\ op.at = "idle"
  BY <1>a, <1>b
<1>c. /\ card = [c \in CardId |-> None] /\ plan = None /\ manifest = None /\ recorded = 0
      /\ second = 0 /\ client = None /\ meddled = FALSE /\ faults = 0
  BY DEF Init
<1>d. card \in [CardId -> Card \union {None}] /\ second \in 0..MaxSecond
  BY <1>c
<1>3. TypeOK
  BY <1>1, <1>2, <1>c, <1>d DEF TypeOK
<1>4. OpKnown
  BY <1>2 DEF OpKnown
<1> QED
  BY <1>3, <1>4 DEF PlanningTypes

\* The planner that rests or ends knows nothing.
LEMMA IdleKnown ==
  ASSUME op' = Idle
  PROVE  op' \in Op /\ OpKnown'
BY DEF Idle, Op, OpKnown

\* The fields of the planner.
LEMMA OpFields ==
  ASSUME TypeOK
  PROVE  /\ op \in Op
         /\ op.auto \in BOOLEAN /\ op.next \in PlanKey \union {None}
         /\ op.made \in SUBSET CardId /\ op.last \in CardId \union {Root}
         /\ op.card \in CardId \union {None}
BY DEF TypeOK, Op

\* The planner that finds, links or checks a card has its key.
LEMMA NextKey ==
  ASSUME TypeOK, OpKnown, op.at \in {"find", "link", "confirm"}
  PROVE  /\ op.next \in PlanKey /\ NextRole \in Role
         /\ NextParents \in SUBSET (CardId \union {Root})
         /\ op.auto => plan \in 1..MaxTasks
<1>1. op.auto => plan \in 1..MaxTasks
  BY DEF OpKnown, TypeOK
<1>2. op.auto \/ ~op.auto
  OBVIOUS
<1>3. op.next \in PlanKey
  <2>1. CASE op.auto
    <3>1. \A n \in 1..plan : n \in 1..MaxTasks
      BY <1>1, <2>1
    <3> QED
      BY <2>1, <3>1, KeysDiffer DEF OpKnown
  <2>2. CASE ~op.auto
    BY <2>2, KeysDiffer DEF OpKnown
  <2> QED
    BY <2>1, <2>2
<1>4. NextRole \in Role
  BY <1>3, RoleOfKey DEF NextRole
<1> QED
  BY <1>1, <1>3, <1>4, OpFields DEF NextParents

\* What is linked to the mission are cards with a role.
LEMMA MembersAreCards ==
  /\ Members \subseteq CardId /\ Linked("executor") \subseteq CardId
  /\ Linked("verifier") \subseteq CardId
  /\ \A c \in Members : card[c].role \in Role
  /\ \A c \in CardId : c \in Members <=> Exists(c) /\ card[c].role \in Role
BY DEF Members, Linked, Role

\* A new card keeps the types.
LEMMA CreateTypes ==
  ASSUME TypeOK, NEW c \in CardId, NEW key \in PlanKey \union {None}, NEW asked \in BOOLEAN,
         NEW parents \in SUBSET (CardId \union {Root}), CreateCard(c, key, parents, asked)
  PROVE  card' \in [CardId -> Card \union {None}]
BY CreatedCard DEF TypeOK, CreateCard

\* Every step keeps the types and what the planner is known to work on.
LEMMA TypesStep == PlanningTypes /\ [Next]_vars => PlanningTypes'
<1> SUFFICES ASSUME TypeOK, OpKnown, [Next]_vars PROVE TypeOK' /\ OpKnown'
  BY DEF PlanningTypes
<1>a. op \in Op /\ card \in [CardId -> Card \union {None}]
  BY DEF TypeOK
<1>b. "executor" \in Role /\ "verifier" \in Role
  BY DEF Role
<1>1. CASE LinkExecutionTask
  <2>1. card' \in [CardId -> Card \union {None}]
    BY <1>1, <1>a, <1>b, BoundCard DEF LinkExecutionTask, OpKnown, At, Bindable
  <2> QED
    BY <1>1, <2>1, IdleKnown DEF LinkExecutionTask, Finish, TypeOK
<1>2. ASSUME NEW n \in 1..MaxTasks, StorePlan(n) PROVE TypeOK' /\ OpKnown'
  <2>1. op' = Materialize /\ plan' = n
    BY <1>2 DEF StorePlan
  <2>2. ExecutorKey(1) \in {ExecutorKey(m) : m \in 1..n} /\ ExecutorKey(1) \in PlanKey
    BY KeysDiffer
  <2>3. op' \in Op /\ OpKnown'
    BY <2>1, <2>2 DEF Materialize, Idle, Op, OpKnown
  <2> QED
    BY <1>2, <2>1, <2>3 DEF StorePlan, TypeOK
<1>3. CASE ModelFails
  BY <1>3, IdleKnown DEF ModelFails, Finish, TypeOK
<1>4. CASE LinkCard
  <2>1. op.card \in CardId /\ Exists(op.card) /\ NextRole \in Role
    BY <1>4, NextKey DEF LinkCard, At, OpKnown, Bindable
  <2>2. card' \in [CardId -> Card \union {None}]
    BY <1>4, <2>1, BoundCard DEF LinkCard
  <2>3. op' \in Op /\ OpKnown'
    BY <1>4, <1>a DEF LinkCard, Goto, At, Op, OpKnown
  <2> QED
    BY <1>4, <2>2, <2>3 DEF LinkCard, TypeOK
<1>5. CASE ConfirmCard
  <2>1. op.at = "confirm" /\ op.card \in CardId
    BY <1>5 DEF ConfirmCard, At, OpKnown
  <2>2. CASE NextRole = "verifier"
    <3>1. op' = [op EXCEPT !.at = "accept"]
      BY <1>5, <2>2 DEF ConfirmCard
    <3>2. op' \in Op /\ OpKnown'
      BY <1>5, <1>a, <2>1, <3>1 DEF ConfirmCard, Op, OpKnown
    <3> QED
      BY <1>5, <3>2 DEF ConfirmCard, TypeOK
  <2>3. CASE NextRole # "verifier"
    <3>1. PICK n \in 1..plan : op.next = ExecutorKey(n) /\ op.auto
      BY <2>1, <2>3, RoleOfKey DEF OpKnown, NextRole
    <3>2. plan \in 1..MaxTasks /\ plan # None
      BY <2>1, <3>1, NextKey DEF OpKnown
    <3> DEFINE next == IF op.next = ExecutorKey(plan) THEN VerifierKey
                       ELSE ExecutorKey(op.next[2] + 1)
    <3>3. next \in {ExecutorKey(m) : m \in 1..plan} \union {VerifierKey} /\ next \in PlanKey
      BY <3>1, <3>2, RoleOfKey, KeysDiffer
    <3>4. op' = [at |-> "find", auto |-> op.auto, next |-> next,
                 made |-> op.made \union {op.card}, last |-> op.card, card |-> None]
      BY <1>5, <1>a, <2>3 DEF ConfirmCard, Op
    <3>5. op' \in Op /\ OpKnown'
      <4> HIDE DEF next
      <4>a. op.auto \in BOOLEAN /\ op.made \union {op.card} \in SUBSET CardId
        BY <2>1, OpFields
      <4>1. op' \in Op
        BY <2>1, <3>3, <3>4, <4>a DEF Op
      <4>2. plan' = plan /\ op'.at = "find" /\ op'.auto /\ op'.next = next
        <5>1. plan' = plan
          BY <1>5 DEF ConfirmCard
        <5> QED
          BY <3>1, <3>4, <5>1
      <4>3. OpKnown'
        BY <3>2, <3>3, <4>2 DEF OpKnown
      <4> QED
        BY <4>1, <4>3
    <3> QED
      BY <1>5, <3>5 DEF ConfirmCard, TypeOK
  <2> QED
    BY <2>2, <2>3
<1>6. ASSUME NEW c \in CardId, FindCard(c) PROVE TypeOK' /\ OpKnown'
  <2>1. op.at = "find" /\ op' = [op EXCEPT !.at = "link", !.card = c]
    BY <1>6 DEF FindCard, At
  <2>2. card' \in [CardId -> Card \union {None}]
    BY <1>6, <1>a, <2>1, NextKey, CreateTypes DEF FindCard
  <2>3. op' \in Op /\ OpKnown'
    BY <1>6, <1>a, <2>1 DEF FindCard, Op, OpKnown
  <2> QED
    BY <1>6, <2>2, <2>3 DEF FindCard, TypeOK
<1>7. CASE AcceptManifest
  <2>1. op' \in Op /\ OpKnown'
    BY <1>7, <1>a DEF AcceptManifest, Goto, At, Op, OpKnown
  <2>2. DOMAIN Graph = Members /\ \A c \in Members : Graph[c].role \in Role
    BY MembersAreCards DEF Graph
  <2>3. DOMAIN manifest' \subseteq CardId /\ \A c \in DOMAIN manifest' : manifest'[c].role \in Role
    BY <1>7, <2>2, MembersAreCards DEF AcceptManifest
  <2> QED
    BY <1>7, <2>1, <2>3 DEF AcceptManifest, TypeOK
<1>8. CASE RecordPlan
  <2>1. op' \in Op /\ OpKnown'
    BY <1>8, <1>a DEF RecordPlan, Goto, At, Op, OpKnown
  <2> QED
    BY <1>8, <2>1 DEF RecordPlan, TypeOK
<1>9. CASE FinishPlanning
  <2>1. status' \in PlanningStatus
    BY <1>9 DEF FinishPlanning, TypeOK, PlanningStatus, MissionStatus
  <2> QED
    BY <1>9, <2>1, IdleKnown DEF FinishPlanning, Finish, TypeOK
<1>10. CASE PlannerRaises
  BY <1>10, IdleKnown DEF PlannerRaises, Finish, TypeOK
<1>11. plan # None => ExecutorKey(1) \in {ExecutorKey(m) : m \in 1..plan} /\ ExecutorKey(1) \in PlanKey
  BY KeysDiffer DEF TypeOK
<1>b2. ASSUME plan # None, op' = Materialize, plan' = plan PROVE op' \in Op /\ OpKnown'
  <2>1. /\ op'.at = "find" /\ op'.auto = TRUE /\ op'.next = ExecutorKey(1)
        /\ op'.made = {} /\ op'.last = Root /\ op'.card = None
    BY <1>b2 DEF Materialize, Idle
  <2>2. op' \in Op
    BY <1>11, <1>b2 DEF Materialize, Idle, Op
  <2>3. OpKnown'
    BY <1>11, <1>b2, <2>1 DEF OpKnown
  <2> QED
    BY <2>2, <2>3
<1>12. CASE PlanWithModel
  <2>1. CASE plan = None
    <3>1. op' = [Idle EXCEPT !.at = "model"] /\ plan' = plan /\ status' = status
      BY <1>12, <2>1 DEF PlanWithModel
    <3>2. op' \in Op
      BY <3>1 DEF Idle, Op
    <3>3. OpKnown'
      BY <1>12, <2>1, <3>1 DEF PlanWithModel, Idle, OpKnown
    <3> QED
      BY <1>12, <3>2, <3>3 DEF PlanWithModel, TypeOK
  <2>2. CASE plan # None
    <3>1. op' = Materialize /\ plan' = plan
      BY <1>12, <2>2 DEF PlanWithModel
    <3> QED
      BY <1>12, <1>b2, <2>2, <3>1 DEF PlanWithModel, TypeOK
  <2> QED
    BY <2>1, <2>2
<1>13. CASE FinishPlan
  <2>1. CASE plan = None /\ Linked("verifier") = {}
    <3>1. /\ op' = [Idle EXCEPT !.at = "find", !.next = ManualKey, !.made = Linked("executor")]
          /\ plan' = plan /\ status' = "planning"
      BY <1>13, <2>1 DEF FinishPlan
    <3>2. op' \in Op
      BY <3>1, KeysDiffer, MembersAreCards DEF Idle, Op
    <3>3. OpKnown'
      BY <2>1, <3>1 DEF Idle, OpKnown
    <3> QED
      BY <1>13, <3>2, <3>3 DEF FinishPlan, TypeOK
  <2>2. CASE plan = None /\ Linked("verifier") # {}
    <3>1. PICK c \in Linked("verifier") :
            op' = [Idle EXCEPT !.at = "accept", !.made = Linked("executor"), !.card = c]
      BY <1>13, <2>2 DEF FinishPlan
    <3>2. op' \in Op /\ plan' = plan
      BY <1>13, <3>1, MembersAreCards DEF FinishPlan, Idle, Op
    <3>3. OpKnown'
      BY <2>2, <3>1, <3>2, MembersAreCards DEF Idle, OpKnown
    <3> QED
      BY <1>13, <3>2, <3>3 DEF FinishPlan, TypeOK
  <2>3. CASE plan # None
    <3>1. op' = Materialize /\ plan' = plan
      BY <1>13, <2>3 DEF FinishPlan
    <3> QED
      BY <1>13, <1>b2, <2>3, <3>1 DEF FinishPlan, TypeOK
  <2> QED
    BY <2>1, <2>2, <2>3
<1>14. ASSUME NEW c \in CardId, NEW asked \in BOOLEAN, NEW parents \in SUBSET (CardId \union {Root}),
              AddExecutionTask(c, parents, asked)
       PROVE TypeOK' /\ OpKnown'
  <2>1. card' \in [CardId -> Card \union {None}]
    BY <1>14, CreateTypes DEF AddExecutionTask
  <2>2. op' \in Op /\ OpKnown'
    BY <1>14 DEF AddExecutionTask, Idle, Op, OpKnown
  <2> QED
    BY <1>14, <2>1, <2>2 DEF AddExecutionTask, TypeOK
<1>15. CASE StartMission
  <2>1. status' \in PlanningStatus
    BY <1>15 DEF StartMission, PlanningStatus, MissionStatus
  <2> QED
    BY <1>15, <2>1 DEF StartMission, TypeOK, OpKnown, LockFree, At
<1>16. CASE PrepareAgain
  <2>1. status' \in PlanningStatus
    BY <1>16 DEF PrepareAgain, PlanningStatus, MissionStatus
  <2> QED
    BY <1>16, <2>1 DEF PrepareAgain, TypeOK, OpKnown, LockFree, At
<1>17. CASE CancelMission
  <2>1. status' \in PlanningStatus
    BY <1>17 DEF CancelMission, PlanningStatus, MissionStatus
  <2> QED
    BY <1>17, <2>1 DEF CancelMission, TypeOK, OpKnown, LockFree, At
<1>18. CASE Interrupted
  BY <1>18, IdleKnown DEF Interrupted, Fault, Finish, TypeOK
<1>19. CASE SecondPasses
  BY <1>19 DEF SecondPasses, TypeOK, OpKnown
<1>20. CASE ClientWrites
  <2>1. card' \in [CardId -> Card \union {None}]
    <3>1. CASE Exists(client) /\ client \in CardId
      <4>1. card[client] \in Card
        BY <3>1, CardFields
      <4>2. /\ [card[client] EXCEPT !.status = "archived"] \in Card
            /\ [card[client] EXCEPT !.edited = TRUE] \in Card
            /\ [card[client] EXCEPT !.outside = TRUE] \in Card
        BY <4>1 DEF Card
      <4>3. Without(client) \in [CardId -> Card \union {None}]
        <5>1. \A d \in CardId : Exists(d) => [card[d] EXCEPT !.parents = @ \ {client}] \in Card
          BY CardFields DEF Card
        <5> QED
          BY <5>1 DEF Without
      <4> QED
        BY <1>20, <1>a, <4>2, <4>3 DEF ClientWrites
    <3>2. CASE ~Exists(client) /\ client \in CardId
      <4>1. \A d \in CardId : Exists(d) => [card[d] EXCEPT !.parents = @ \ {client}] \in Card
        BY CardFields DEF Card
      <4>2. Without(client) \in [CardId -> Card \union {None}]
        BY <4>1 DEF Without
      <4> QED
        BY <1>20, <3>2, <4>2 DEF ClientWrites
    <3> QED
      BY <1>20, <3>1, <3>2 DEF ClientWrites, TypeOK
  <2> QED
    BY <1>20, <2>1 DEF ClientWrites, Fault, TypeOK, OpKnown
<1>21. ASSUME NEW c \in CardId, ClientLooks(c) PROVE TypeOK' /\ OpKnown'
  BY <1>21 DEF ClientLooks, TypeOK, OpKnown
<1>22. CASE UNCHANGED vars
  BY <1>22 DEF vars, TypeOK, OpKnown
<1> QED
  BY <1>1, <1>2, <1>3, <1>4, <1>5, <1>6, <1>7, <1>8, <1>9, <1>10, <1>12, <1>13, <1>14, <1>15,
     <1>16, <1>17, <1>18, <1>19, <1>20, <1>21, <1>22 DEF Next, Planner

-----------------------------------------------------------------------------
(***************************************************************************)
(* What a step does to the cards                                           *)
(***************************************************************************)

\* A new card belongs to no mission and carries its key; the others stay.
LEMMA CreateEffects ==
  ASSUME TypeOK, NEW c \in CardId, NEW key \in PlanKey \union {None}, NEW asked \in BOOLEAN,
         NEW parents \in SUBSET (CardId \union {Root}), CreateCard(c, key, parents, asked)
  PROVE  /\ ~Exists(c) /\ Exists(c)' /\ \A d \in CardId \ {c} : card'[d] = card[d]
         /\ card'[c].key = key /\ card'[c].role = "none" /\ card'[c].parents = parents
         /\ card'[c].status = "todo" /\ ~card'[c].edited /\ ~card'[c].outside
         /\ \A role \in Role : Linked(role)' = Linked(role)
         /\ Members' = Members
         /\ Carrying(key)' = Carrying(key) \union {c}
         /\ \A k : k # key => Carrying(k)' = Carrying(k)
<1>1. /\ ~Exists(c) /\ card' = [card EXCEPT ![c] = Created(key, parents, asked)]
      /\ card \in [CardId -> Card \union {None}]
  BY DEF CreateCard, TypeOK
<1>2. card'[c] = Created(key, parents, asked) /\ \A d \in CardId \ {c} : card'[d] = card[d]
  BY <1>1
<1>3. /\ Exists(c)' /\ card'[c].key = key /\ card'[c].role = "none" /\ card'[c].parents = parents
      /\ card'[c].status = "todo" /\ ~card'[c].edited /\ ~card'[c].outside
  <2> DEFINE new == Created(key, parents, asked)
  <2>1. /\ new.key = key /\ new.role = "none" /\ new.parents = parents
        /\ new.status = "todo" /\ new.edited = FALSE /\ new.outside = FALSE
    BY DEF Created
  <2>3. new # None
    <3>1. new \in Card
      BY DEF TypeOK, Created, Card
    <3> QED
      BY <3>1, NoneAssumption
  <2> HIDE DEF new
  <2>2. card'[c] = new
    BY <1>2 DEF new
  <2> QED
    BY <2>1, <2>2, <2>3 DEF Exists
<1>4. \A role \in Role : Linked(role)' = Linked(role)
  BY <1>1, <1>2, <1>3 DEF Linked, Exists, Role
<1>5. Members' = Members
  BY <1>4 DEF Members, Role
<1>6. Carrying(key)' = Carrying(key) \union {c} /\ \A k : k # key => Carrying(k)' = Carrying(k)
  BY <1>1, <1>2, <1>3 DEF Carrying, Exists
<1> QED
  BY <1>1, <1>2, <1>3, <1>4, <1>5, <1>6

\* A bound card belongs to the mission; nothing else about the cards changes.
LEMMA BindEffects ==
  ASSUME TypeOK, NEW c \in CardId, NEW role \in Role, Bindable(c, role), card' = Bound(c, role)
  PROVE  /\ \A d \in CardId : Exists(d)' <=> Exists(d)
         /\ \A d \in CardId \ {c} : card'[d] = card[d]
         /\ \A d \in CardId : Exists(d) =>
              /\ card'[d].key = card[d].key /\ card'[d].parents = card[d].parents
              /\ card'[d].status = card[d].status /\ card'[d].edited = card[d].edited
              /\ card'[d].outside = card[d].outside
         /\ card'[c].role = role
         /\ Linked(role)' = Linked(role) \union {c}
         /\ \A r \in Role : r # role => Linked(r)' = Linked(r)
         /\ Members' = Members \union {c}
         /\ \A k : Carrying(k)' = Carrying(k)
<1>1. Exists(c) /\ card[c].role \in {"none", role}
  BY DEF Bindable
<1>2. \A d \in CardId \ {c} : card'[d] = card[d]
  BY <1>1, BoundCard
<1>3. /\ card'[c] # None /\ card'[c].role = role
      /\ card'[c].key = card[c].key /\ card'[c].parents = card[c].parents
      /\ card'[c].status = card[c].status /\ card'[c].edited = card[c].edited
      /\ card'[c].outside = card[c].outside
  BY <1>1, BoundCard
<1>4. \A d \in CardId : Exists(d)' <=> Exists(d)
  BY <1>1, <1>2, <1>3 DEF Exists
<1>5. Linked(role)' = Linked(role) \union {c}
  <2>1. \A d \in CardId : d \in Linked(role)' <=> d \in Linked(role) \union {c}
    BY <1>1, <1>2, <1>3, <1>4 DEF Linked
  <2> QED
    BY <2>1 DEF Linked
<1>5r. \A r \in Role : r # role => Linked(r)' = Linked(r)
  <2> SUFFICES ASSUME NEW r \in Role, r # role PROVE Linked(r)' = Linked(r)
    OBVIOUS
  <2>1. r # "none"
    BY DEF Role
  <2>2. \A d \in CardId : d \in Linked(r)' <=> d \in Linked(r)
    BY <1>1, <1>2, <1>3, <1>4, <2>1 DEF Linked
  <2> QED
    BY <2>2 DEF Linked
<1>6. Members' = Members \union {c}
  BY <1>5, <1>5r DEF Members, Role
<1>7. \A k : Carrying(k)' = Carrying(k)
  BY <1>2, <1>3, <1>4 DEF Carrying
<1> QED
  BY <1>1, <1>2, <1>3, <1>4, <1>5, <1>5r, <1>6, <1>7

\* Binding a card to the role it has changes nothing.
LEMMA BoundAgain ==
  ASSUME TypeOK, NEW c \in CardId, NEW role, Exists(c), card[c].role = role
  PROVE  Bound(c, role) = card
<1>1. card \in [CardId -> Card \union {None}] /\ card[c] \in Card
  BY CardFields DEF TypeOK
<1>2. [card[c] EXCEPT !.role = role] = card[c]
  BY <1>1 DEF Card
<1> QED
  BY <1>1, <1>2 DEF Bound

\* The steps that leave the cards alone.
LEMMA CardsStay ==
  ASSUME Next,
         ~LinkExecutionTask, ~LinkCard, ~ClientWrites,
         \A c \in CardId : ~FindCard(c),
         \A c \in CardId, asked \in BOOLEAN, parents \in SUBSET (CardId \union {Root}) :
            ~AddExecutionTask(c, parents, asked)
  PROVE  UNCHANGED <<card, meddled>>
BY DEF Next, Planner, StorePlan, ModelFails, ConfirmCard, AcceptManifest, RecordPlan, FinishPlanning,
       PlannerRaises, PlanWithModel, FinishPlan, StartMission, PrepareAgain, CancelMission,
       Interrupted, SecondPasses, ClientLooks

-----------------------------------------------------------------------------
(***************************************************************************)
(* One card per key                                                        *)
(***************************************************************************)

\* Every step keeps the keys apart: a card is created only for a key no card carries.
LEMMA OneCardStep == PlanningTypes /\ OneCardPerKey /\ [Next]_vars => OneCardPerKey'
<1> SUFFICES ASSUME TypeOK, OpKnown, OneCardPerKey, [Next]_vars PROVE OneCardPerKey'
  BY DEF PlanningTypes
<1>1. CASE LinkExecutionTask
  <2>1. CASE Bindable(op.card, "executor")
    <3>1. op.card \in CardId /\ card' = Bound(op.card, "executor") /\ "executor" \in Role
      BY <1>1, <2>1 DEF LinkExecutionTask, OpKnown, At, Role
    <3> QED
      BY <2>1, <3>1, BindEffects DEF OneCardPerKey
  <2>2. CASE ~Bindable(op.card, "executor")
    BY <1>1, <2>2 DEF LinkExecutionTask, OneCardPerKey, Exists
  <2> QED
    BY <2>1, <2>2
<1>2. CASE LinkCard
  <2>1. /\ op.card \in CardId /\ Bindable(op.card, NextRole) /\ NextRole \in Role
        /\ card' = Bound(op.card, NextRole)
    BY <1>2, NextKey DEF LinkCard, At, OpKnown
  <2> QED
    BY <2>1, BindEffects DEF OneCardPerKey
<1>3. ASSUME NEW c \in CardId, FindCard(c) PROVE OneCardPerKey'
  <2>1. op.next \in PlanKey /\ NextParents \in SUBSET (CardId \union {Root})
    BY <1>3, NextKey DEF FindCard, At
  <2>2. CASE Carrying(op.next) = {}
    <3>1. CreateCard(c, op.next, NextParents, FALSE)
      BY <1>3, <2>2 DEF FindCard
    <3>2. /\ ~Exists(c) /\ \A d \in CardId \ {c} : card'[d] = card[d]
          /\ card'[c].key = op.next
      BY <2>1, <3>1, CreateEffects
    <3>3. \A d \in CardId : Exists(d) => card[d].key # op.next
      BY <2>2 DEF Carrying
    <3> QED
      BY <3>2, <3>3 DEF OneCardPerKey, Exists
  <2>3. CASE Carrying(op.next) # {}
    BY <1>3, <2>3 DEF FindCard, OneCardPerKey, Exists
  <2> QED
    BY <2>2, <2>3
<1>4. ASSUME NEW c \in CardId, NEW asked \in BOOLEAN, NEW parents \in SUBSET (CardId \union {Root}),
             AddExecutionTask(c, parents, asked)
      PROVE OneCardPerKey'
  <2>1. CreateCard(c, None, parents, asked)
    BY <1>4 DEF AddExecutionTask
  <2>0. None \in PlanKey \union {None}
    OBVIOUS
  <2>2. (\A d \in CardId \ {c} : card'[d] = card[d]) /\ card'[c].key = None
    <3>1. CASE asked = TRUE
      BY <2>0, <2>1, <3>1, CreateEffects
    <3>2. CASE asked = FALSE
      BY <2>0, <2>1, <3>2, CreateEffects
    <3> QED
      BY <3>1, <3>2
  <2> QED
    BY <2>2 DEF OneCardPerKey, Exists
<1>5. CASE ClientWrites
  <2>1. \A d \in CardId : card'[d] # None => card[d] # None /\ card'[d].key = card[d].key
    <3>1. client \in CardId /\ card \in [CardId -> Card \union {None}]
      BY <1>5 DEF ClientWrites, TypeOK
    <3>2. CASE Exists(client) /\ card' = [card EXCEPT ![client].status = "archived"]
      BY <3>1, <3>2, CardFields DEF Exists, Card
    <3>3. CASE Exists(client) /\ card' = [card EXCEPT ![client].edited = TRUE]
      BY <3>1, <3>3, CardFields DEF Exists, Card
    <3>4. CASE Exists(client) /\ card' = [card EXCEPT ![client].outside = TRUE]
      BY <3>1, <3>4, CardFields DEF Exists, Card
    <3>5. CASE card' = Without(client)
      BY <3>1, <3>5, CardFields DEF Without, Exists, Card
    <3> QED
      BY <1>5, <3>2, <3>3, <3>4, <3>5 DEF ClientWrites
  <2> QED
    BY <2>1 DEF OneCardPerKey, Exists
<1>6. CASE UNCHANGED vars
  BY <1>6 DEF vars, OneCardPerKey, Exists
<1>7. CASE UNCHANGED <<card, meddled>>
  BY <1>7 DEF OneCardPerKey, Exists
<1> QED
  BY <1>1, <1>2, <1>3, <1>4, <1>5, <1>6, <1>7, CardsStay

-----------------------------------------------------------------------------
(***************************************************************************)
(* The shape of the cards                                                  *)
(***************************************************************************)

\* Manual cards, as long as cards stay or only grow into the mission.
LEMMA CreateManual ==
  ASSUME TypeOK, ManualCards, NEW c \in CardId, NEW key \in PlanKey, NEW asked \in BOOLEAN,
         NEW parents \in SUBSET (CardId \union {Root}), CreateCard(c, key, parents, asked),
         key = ManualKey => parents \subseteq Linked("executor"),
         plan' = plan, plan = None => key = ManualKey
  PROVE  ManualCards'
<1>1. /\ ~Exists(c) /\ Exists(c)' /\ \A d \in CardId \ {c} : card'[d] = card[d]
      /\ card'[c].key = key /\ card'[c].role = "none" /\ card'[c].parents = parents
      /\ \A role \in Role : Linked(role)' = Linked(role)
      /\ Members' = Members
      /\ Carrying(key)' = Carrying(key) \union {c}
      /\ \A k : k # key => Carrying(k)' = Carrying(k)
  BY CreateEffects
<1>2. "executor" \in Role /\ "verifier" \in Role /\ key # None
  BY NoneAssumption DEF Role
<1>3. Carrying(None)' = Carrying(None)
  BY <1>1, <1>2
<1>4. \A d \in CardId : Exists(d) => card'[d] = card[d]
  BY <1>1
<1>5. \A d \in Carrying(None) : card'[d] = card[d] /\ d \in CardId
  BY <1>4 DEF Carrying
<1>6. \A d \in Linked("verifier") : card'[d] = card[d]
  BY <1>4 DEF Linked
<1>7. \A d \in Carrying(None)' :
        /\ card'[d].role \in {"none", "executor"} /\ card'[d].parents # {}
        /\ card'[d].parents \subseteq Members' \union {Root}
        /\ \A v \in Linked("verifier")' : v \in card'[d].parents => d \notin card'[v].parents
  <2>1. Linked("verifier")' = Linked("verifier")
    BY <1>1, <1>2
  <2> QED
    BY <1>1, <1>3, <1>5, <1>6, <2>1 DEF ManualCards
<1>8. \A d \in Carrying(ManualKey)' :
        card'[d].role \in {"none", "verifier"} /\ card'[d].parents \subseteq Linked("executor")'
  <2>1. Linked("executor")' = Linked("executor")
    BY <1>1, <1>2
  <2>2. \A d \in Carrying(ManualKey) : card'[d] = card[d]
    BY <1>4 DEF Carrying
  <2>3. CASE key = ManualKey
    <3>1. Carrying(ManualKey)' = Carrying(ManualKey) \union {c}
      BY <1>1, <2>3
    <3>2. card'[c].role = "none" /\ card'[c].parents \subseteq Linked("executor")
      BY <1>1, <2>3
    <3>3. \A d \in Carrying(ManualKey) :
            card[d].role \in {"none", "verifier"} /\ card[d].parents \subseteq Linked("executor")
      BY DEF ManualCards
    <3> QED
      BY <2>1, <2>2, <3>1, <3>2, <3>3
  <2>4. CASE key # ManualKey
    <3>1. Carrying(ManualKey)' = Carrying(ManualKey)
      BY <1>1, <2>4
    <3> QED
      BY <2>1, <2>2, <3>1 DEF ManualCards
  <2> QED
    BY <2>3, <2>4
<1>9. plan' = None => \A d \in CardId : Exists(d)' => card'[d].key \in {None, ManualKey}
  BY <1>1, <1>4 DEF ManualCards, Exists
<1> QED
  BY <1>7, <1>8, <1>9 DEF ManualCards

\* A manual task stays one when it is linked.
LEMMA BindManual ==
  ASSUME TypeOK, ManualCards, NEW c \in CardId, NEW role \in Role, Bindable(c, role),
         card' = Bound(c, role), plan' = plan,
         card[c].key = None => role = "executor",
         card[c].key = ManualKey => role = "verifier"
  PROVE  ManualCards'
<1>1. /\ \A d \in CardId : Exists(d)' <=> Exists(d)
      /\ \A d \in CardId \ {c} : card'[d] = card[d]
      /\ \A d \in CardId : Exists(d) =>
           card'[d].key = card[d].key /\ card'[d].parents = card[d].parents
      /\ card'[c].role = role
      /\ Linked(role)' = Linked(role) \union {c}
      /\ \A r \in Role : r # role => Linked(r)' = Linked(r)
      /\ Members' = Members \union {c}
      /\ \A k : Carrying(k)' = Carrying(k)
  BY BindEffects
<1>2. "executor" \in Role /\ "verifier" \in Role
  BY DEF Role
<1>3. \A k : \A d \in Carrying(k) : d \in CardId /\ Exists(d) /\ card[d].key = k
  BY DEF Carrying
<1>4. Linked("executor") \subseteq Linked("executor")'
  <2>1. CASE role = "executor"
    BY <1>1, <2>1
  <2>2. CASE role # "executor"
    BY <1>1, <1>2, <2>2
  <2> QED
    BY <2>1, <2>2
<1>5. \A v \in Linked("verifier")' : v \in Linked("verifier") \/ v = c
  <2>1. CASE role = "verifier"
    BY <1>1, <2>1
  <2>2. CASE role # "verifier"
    BY <1>1, <1>2, <2>2
  <2> QED
    BY <2>1, <2>2
<1>6. \A d \in Carrying(None)' :
        /\ card'[d].role \in {"none", "executor"} /\ card'[d].parents # {}
        /\ card'[d].parents \subseteq Members' \union {Root}
        /\ \A v \in Linked("verifier")' : v \in card'[d].parents => d \notin card'[v].parents
  <2> SUFFICES ASSUME NEW d \in Carrying(None)
               PROVE  /\ card'[d].role \in {"none", "executor"} /\ card'[d].parents # {}
                      /\ card'[d].parents \subseteq Members' \union {Root}
                      /\ \A v \in Linked("verifier")' :
                           v \in card'[d].parents => d \notin card'[v].parents
    BY <1>1
  <2>1. /\ d \in CardId /\ Exists(d) /\ card[d].key = None
        /\ card'[d].parents = card[d].parents
    BY <1>1, <1>3
  <2>2. card'[d].role \in {"none", "executor"}
    BY <1>1, <2>1 DEF ManualCards
  <2>3. \A v \in Linked("verifier") : v \in card'[d].parents => d \notin card'[v].parents
    <3>1. \A v \in Linked("verifier") : v \in CardId /\ Exists(v)
      BY DEF Linked
    <3> QED
      BY <1>1, <2>1, <3>1 DEF ManualCards
  <2>4. CASE c \in Members
    <3>1. c \in Linked("verifier") \/ role # "verifier"
      BY <2>4 DEF Bindable, Members, Linked
    <3>2. Linked("verifier")' \subseteq Linked("verifier")
      BY <1>1, <1>2, <3>1
    <3> QED
      BY <1>1, <2>1, <2>2, <2>3, <3>2 DEF ManualCards
  <2>5. CASE c \notin Members
    <3>1. c \notin card'[d].parents
      BY <2>1, <2>5 DEF ManualCards
    <3> QED
      BY <1>1, <1>5, <2>1, <2>2, <2>3, <3>1 DEF ManualCards
  <2> QED
    BY <2>4, <2>5
<1>7. \A d \in Carrying(ManualKey)' :
        card'[d].role \in {"none", "verifier"} /\ card'[d].parents \subseteq Linked("executor")'
  BY <1>1, <1>3, <1>4 DEF ManualCards
<1>8. plan' = None => \A d \in CardId : Exists(d)' => card'[d].key \in {None, ManualKey}
  BY <1>1 DEF ManualCards
<1> QED
  BY <1>6, <1>7, <1>8 DEF ManualCards

\* A manual task hangs on cards of the mission, and its own id is new to them.
LEMMA AddManual ==
  ASSUME TypeOK, ManualCards, plan = None, NEW c \in CardId, NEW asked \in BOOLEAN,
         NEW parents \in SUBSET (CardId \union {Root}), AddExecutionTask(c, parents, asked)
  PROVE  ManualCards'
<1>1. CreateCard(c, None, parents, asked) /\ None \in PlanKey \union {None} /\ plan' = plan
  BY DEF AddExecutionTask
<1>2. /\ ~Exists(c) /\ Exists(c)' /\ \A d \in CardId \ {c} : card'[d] = card[d]
      /\ card'[c].key = None /\ card'[c].role = "none" /\ card'[c].parents = parents
      /\ \A role \in Role : Linked(role)' = Linked(role)
      /\ Members' = Members
      /\ Carrying(None)' = Carrying(None) \union {c}
      /\ \A k : k # None => Carrying(k)' = Carrying(k)
  <2>1. CASE asked = TRUE
    <3>1. CreateCard(c, None, parents, TRUE)
      BY <1>1, <2>1
    <3> QED
      BY <1>1, <3>1, CreateEffects
  <2>2. CASE asked = FALSE
    <3>1. CreateCard(c, None, parents, FALSE)
      BY <1>1, <2>2
    <3> QED
      BY <1>1, <3>1, CreateEffects
  <2> QED
    BY <2>1, <2>2
<1>3. "executor" \in Role /\ "verifier" \in Role /\ ManualKey # None
  BY KeysDiffer DEF Role
<1>4. parents # {} /\ parents \subseteq Members \union {Root}
  <2>1. CASE asked
    BY <2>1 DEF AddExecutionTask
  <2>2. CASE ~asked
    <3>1. parents \in DefaultParents
      BY <2>2 DEF AddExecutionTask
    <3> QED
      BY <3>1 DEF DefaultParents, Latest, Members
  <2> QED
    BY <2>1, <2>2
<1>5. \A d \in CardId : Exists(d) => card'[d] = card[d]
  BY <1>2
<1>6. /\ Linked("verifier")' = Linked("verifier") /\ Linked("executor")' = Linked("executor")
      /\ Carrying(ManualKey)' = Carrying(ManualKey)
  BY <1>2, <1>3
<1>7. \A v \in Linked("verifier") : /\ v \in CardId /\ Exists(v) /\ card'[v] = card[v]
                                   /\ c \notin card[v].parents
  <2> SUFFICES ASSUME NEW v \in Linked("verifier")
               PROVE /\ v \in CardId /\ Exists(v) /\ card'[v] = card[v]
                     /\ c \notin card[v].parents
    OBVIOUS
  <2>1. v \in CardId /\ Exists(v) /\ card[v].role = "verifier"
    BY DEF Linked
  <2>2. v \in Carrying(ManualKey)
    <3>1. card[v].key \in {None, ManualKey}
      BY <2>1 DEF ManualCards
    <3>2. card[v].key # None
      BY <2>1 DEF ManualCards, Carrying
    <3> QED
      BY <2>1, <3>1, <3>2 DEF Carrying
  <2>3. c \notin Linked("executor")
    BY <1>2 DEF Linked
  <2> QED
    BY <1>5, <2>1, <2>2, <2>3 DEF ManualCards
<1>8. \A d \in Carrying(None)' :
        /\ card'[d].role \in {"none", "executor"} /\ card'[d].parents # {}
        /\ card'[d].parents \subseteq Members' \union {Root}
        /\ \A v \in Linked("verifier")' : v \in card'[d].parents => d \notin card'[v].parents
  <2>1. \A d \in Carrying(None) : card'[d] = card[d]
    BY <1>5 DEF Carrying
  <2>2. \A d \in Carrying(None) :
        /\ card[d].role \in {"none", "executor"} /\ card[d].parents # {}
        /\ card[d].parents \subseteq Members \union {Root}
        /\ \A v \in Linked("verifier") : v \in card[d].parents => d \notin card[v].parents
    BY DEF ManualCards
  <2>3. ASSUME NEW d \in Carrying(None)'
        PROVE  /\ card'[d].role \in {"none", "executor"} /\ card'[d].parents # {}
               /\ card'[d].parents \subseteq Members \union {Root}
               /\ \A v \in Linked("verifier") : v \in card'[d].parents => d \notin card'[v].parents
    <3>1. CASE d = c
      BY <1>2, <1>4, <1>7, <3>1
    <3>2. CASE d # c
      <4>1. d \in Carrying(None)
        BY <1>2, <3>2
      <4> QED
        BY <1>7, <2>1, <2>2, <4>1
    <3> QED
      BY <3>1, <3>2
  <2> QED
    BY <1>2, <1>6, <2>3
<1>9. \A d \in Carrying(ManualKey)' :
        card'[d].role \in {"none", "verifier"} /\ card'[d].parents \subseteq Linked("executor")'
  <2>1. \A d \in Carrying(ManualKey) : card'[d] = card[d]
    BY <1>5 DEF Carrying
  <2> QED
    BY <1>6, <2>1 DEF ManualCards
<1>10. plan' = None => \A d \in CardId : Exists(d)' => card'[d].key \in {None, ManualKey}
  BY <1>2, <1>5 DEF ManualCards, Exists
<1> QED
  BY <1>8, <1>9, <1>10 DEF ManualCards

\* The cards of a plan when one more of them is made.
LEMMA CreatePlanned ==
  ASSUME TypeOK, PlanAdoptable, Position, ~meddled, meddled' = meddled, plan # None, plan' = plan,
         op.at = "find", op.auto, NEW key \in {ExecutorKey(n) : n \in 1..plan} \union {VerifierKey},
         op.next = key, NEW parents, parents = NextParents,
         NEW c \in CardId, CreateCard(c, key, parents, FALSE), Carrying(key) = {}
  PROVE  PlanAdoptable'
<1>1. plan \in 1..MaxTasks /\ \A n \in 1..plan : n \in 1..MaxTasks /\ n \in Nat
  BY DEF TypeOK
<1>2. key \in PlanKey /\ parents \in SUBSET (CardId \union {Root})
  BY <1>1, KeysDiffer, OpFields DEF NextParents
<1>3. /\ ~Exists(c) /\ Exists(c)' /\ \A d \in CardId \ {c} : card'[d] = card[d]
      /\ card'[c].key = key /\ card'[c].role = "none" /\ card'[c].parents = parents
      /\ card'[c].status = "todo" /\ ~card'[c].edited /\ ~card'[c].outside
      /\ Members' = Members
      /\ Carrying(key)' = {c}
      /\ \A k : k # key => Carrying(k)' = Carrying(k)
  <2>1. /\ ~Exists(c) /\ Exists(c)' /\ \A d \in CardId \ {c} : card'[d] = card[d]
        /\ card'[c].key = key /\ card'[c].role = "none" /\ card'[c].parents = parents
        /\ card'[c].status = "todo" /\ ~card'[c].edited /\ ~card'[c].outside
        /\ Members' = Members
        /\ Carrying(key)' = Carrying(key) \union {c}
        /\ \A k : k # key => Carrying(k)' = Carrying(k)
    <3>1. PICK asked \in BOOLEAN : asked = FALSE
      OBVIOUS
    <3>2. CreateCard(c, key, parents, asked) /\ key \in PlanKey \union {None}
      BY <3>1, <1>2
    <3> QED
      BY <3>2, <1>2, CreateEffects
  <2> QED
    BY <2>1
<1>4. \A d \in CardId : Exists(d) => card'[d] = card[d]
  BY <1>3
<1>5. \A k : \A d \in Carrying(k) : d \in CardId /\ Exists(d) /\ card'[d] = card[d]
  BY <1>4 DEF Carrying
<1>6. \A d \in Members' :
        card'[d].key \in {ExecutorKey(n) : n \in 1..plan'} \union {VerifierKey}
  <2>1. \A d \in Members : card'[d] = card[d]
    BY <1>4, MembersAreCards
  <2> QED
    BY <1>3, <2>1 DEF PlanAdoptable
<1>7. \A n \in 1..plan : \A d \in Planned(n) :
        /\ Canonical(d, ExecutorKey(n), IF n = 1 THEN {Root} ELSE Planned(n - 1))
        /\ card[d].role \in {"none", "executor"} /\ (n > 1 => Planned(n - 1) # {})
  BY DEF PlanAdoptable
<1>8. \A d \in Carrying(VerifierKey) :
        /\ Canonical(d, VerifierKey, PlannedUpTo(plan))
        /\ card[d].role \in {"none", "verifier"} /\ \A n \in 1..plan : Planned(n) # {}
  BY DEF PlanAdoptable
<1>9. CASE key = VerifierKey
  <2>1. \A n \in 1..plan : Planned(n)' = Planned(n)
    BY <1>1, <1>3, <1>9, KeysDiffer DEF Planned
  <2>2. Made(plan) /\ parents = op.made
    BY <1>9, RoleOfKey DEF Position, NextParents, NextRole
  <2>3. ASSUME NEW n \in 1..plan, NEW d \in Planned(n)'
        PROVE  /\ Canonical(d, ExecutorKey(n), IF n = 1 THEN {Root} ELSE Planned(n - 1))'
               /\ card'[d].role \in {"none", "executor"} /\ (n > 1 => Planned(n - 1)' # {})
    <3>1. n > 1 => Planned(n - 1)' = Planned(n - 1)
      BY <1>1, <2>1
    <3>2. d \in Planned(n) /\ card'[d] = card[d]
      BY <1>5, <2>1, <2>3 DEF Planned
    <3>3. n # 1 => n > 1
      BY <1>1
    <3>4. /\ Canonical(d, ExecutorKey(n), IF n = 1 THEN {Root} ELSE Planned(n - 1))
          /\ card[d].role \in {"none", "executor"} /\ (n > 1 => Planned(n - 1) # {})
      BY <1>7, <3>2
    <3> QED
      BY <3>1, <3>2, <3>3, <3>4 DEF Canonical
  <2>4. PlannedUpTo(plan)' = op.made
    <3>1. PlannedUpTo(plan)' = PlannedUpTo(plan)
      BY <2>1 DEF PlannedUpTo
    <3> QED
      BY <2>2, <3>1 DEF Made
  <2>5. ASSUME NEW d \in Carrying(VerifierKey)'
        PROVE  /\ Canonical(d, VerifierKey, PlannedUpTo(plan))'
               /\ card'[d].role \in {"none", "verifier"} /\ \A n \in 1..plan : Planned(n)' # {}
    <3>1. d = c
      BY <1>3, <1>9
    <3>2. \A n \in 1..plan : Planned(n)' # {}
      BY <2>1, <2>2 DEF Made
    <3> QED
      BY <1>3, <1>9, <2>2, <2>4, <3>1, <3>2 DEF Canonical
  <2> QED
    BY <1>6, <2>3, <2>5 DEF PlanAdoptable
<1>10. ASSUME NEW k \in 1..plan, key = ExecutorKey(k) PROVE PlanAdoptable'
  <2>1. parents = (IF k = 1 THEN {Root} ELSE Planned(k - 1)) /\ Made(k - 1)
    BY <1>1, <1>10, RoleOfKey DEF Position, NextParents, NextRole
  <2>2. \A n \in 1..plan : n # k => Planned(n)' = Planned(n)
    <3> SUFFICES ASSUME NEW n \in 1..plan, n # k PROVE Planned(n)' = Planned(n)
      OBVIOUS
    <3>1. ExecutorKey(n) # key
      BY <1>1, <1>10, KeysDiffer
    <3> QED
      BY <1>3, <3>1 DEF Planned
  <2>3. Planned(k) = {} /\ Planned(k)' = {c}
    BY <1>3, <1>10 DEF Planned
  <2>4. Carrying(VerifierKey)' = {}
    <3>1. VerifierKey # key
      BY <1>1, <1>10, KeysDiffer
    <3> QED
      BY <1>3, <1>8, <2>3, <3>1
  <2>5. ASSUME NEW n \in 1..plan, NEW d \in Planned(n)'
        PROVE  /\ Canonical(d, ExecutorKey(n), IF n = 1 THEN {Root} ELSE Planned(n - 1))'
               /\ card'[d].role \in {"none", "executor"} /\ (n > 1 => Planned(n - 1)' # {})
    <3>1. CASE n = k
      <4>1. d = c
        BY <2>3, <2>5, <3>1
      <4>2. k > 1 => Planned(k - 1)' = Planned(k - 1) /\ Planned(k - 1) # {}
        <5>1. k > 1 => k - 1 \in 1..plan /\ k - 1 # k /\ k - 1 \in 1..(k - 1)
          BY <1>1
        <5> QED
          BY <2>1, <2>2, <5>1 DEF Made
      <4>3. k # 1 => k > 1
        BY <1>1
      <4> QED
        BY <1>3, <1>10, <2>1, <3>1, <4>1, <4>2, <4>3 DEF Canonical
    <3>2. CASE n # k
      <4>1. d \in Planned(n) /\ card'[d] = card[d]
        BY <1>5, <2>2, <2>5, <3>2 DEF Planned
      <4>2. n > 1 => n - 1 \in 1..plan /\ n - 1 # k
        <5>1. n > 1 => Planned(n - 1) # {}
          BY <1>7, <4>1
        <5> QED
          BY <1>1, <2>3, <5>1
      <4>3. n > 1 => Planned(n - 1)' = Planned(n - 1)
        BY <2>2, <4>2
      <4>4. n # 1 => n > 1
        BY <1>1
      <4>5. /\ Canonical(d, ExecutorKey(n), IF n = 1 THEN {Root} ELSE Planned(n - 1))
            /\ card[d].role \in {"none", "executor"} /\ (n > 1 => Planned(n - 1) # {})
        BY <1>7, <4>1
      <4> QED
        BY <4>1, <4>3, <4>4, <4>5 DEF Canonical
    <3> QED
      BY <3>1, <3>2
  <2> QED
    BY <1>6, <2>4, <2>5 DEF PlanAdoptable
<1> QED
  BY <1>9, <1>10

\* The cards of a plan when one of them is bound to the mission.
LEMMA BindPlanned ==
  ASSUME TypeOK, PlanAdoptable, ~meddled, plan # None, plan' = plan, meddled' = meddled,
         NEW key \in {ExecutorKey(n) : n \in 1..plan} \union {VerifierKey},
         NEW c \in CardId, card[c].key = key, NEW role \in Role, role = key[1],
         Bindable(c, role), card' = Bound(c, role)
  PROVE  PlanAdoptable'
<1>1. plan \in 1..MaxTasks /\ \A n \in 1..plan : n \in 1..MaxTasks /\ n \in Nat
  BY DEF TypeOK
<1>2. /\ \A d \in CardId \ {c} : card'[d] = card[d]
      /\ \A d \in CardId : Exists(d) =>
           /\ card'[d].key = card[d].key /\ card'[d].parents = card[d].parents
           /\ card'[d].status = card[d].status /\ card'[d].edited = card[d].edited
           /\ card'[d].outside = card[d].outside
      /\ card'[c].role = role
      /\ Members' = Members \union {c}
      /\ \A k : Carrying(k)' = Carrying(k)
  BY BindEffects
<1>3. (\A n : Planned(n)' = Planned(n)) /\ PlannedUpTo(plan)' = PlannedUpTo(plan)
  BY <1>2 DEF Planned, PlannedUpTo
<1>4. \A k : \A d \in Carrying(k) : d \in CardId /\ Exists(d) /\ card[d].key = k
  BY DEF Carrying
<1>5. Exists(c)
  BY DEF Bindable
<1>6. \A d \in Members' :
        card'[d].key \in {ExecutorKey(n) : n \in 1..plan'} \union {VerifierKey}
  <2>1. \A d \in Members : card'[d].key = card[d].key
    BY <1>2, MembersAreCards
  <2>2. card'[c].key = key
    BY <1>2, <1>5
  <2> QED
    BY <1>2, <2>1, <2>2 DEF PlanAdoptable
<1>7. ASSUME NEW n \in 1..plan, NEW d \in Planned(n)'
      PROVE  /\ Canonical(d, ExecutorKey(n), IF n = 1 THEN {Root} ELSE Planned(n - 1))'
             /\ card'[d].role \in {"none", "executor"} /\ (n > 1 => Planned(n - 1)' # {})
  <2>1. d \in Planned(n) /\ d \in CardId /\ Exists(d) /\ card[d].key = ExecutorKey(n)
    BY <1>3, <1>4, <1>7 DEF Planned
  <2>2. /\ Canonical(d, ExecutorKey(n), IF n = 1 THEN {Root} ELSE Planned(n - 1))
        /\ card[d].role \in {"none", "executor"} /\ (n > 1 => Planned(n - 1) # {})
    BY <2>1 DEF PlanAdoptable
  <2>3. card'[d].role \in {"none", "executor"}
    <3>1. CASE d = c
      BY <1>1, <1>2, <2>1, <3>1, RoleOfKey
    <3>2. CASE d # c
      BY <1>2, <2>1, <2>2, <3>2
    <3> QED
      BY <3>1, <3>2
  <2>4. Canonical(d, ExecutorKey(n), IF n = 1 THEN {Root} ELSE Planned(n - 1))'
    BY <1>2, <1>3, <2>1, <2>2 DEF Canonical
  <2> QED
    BY <1>3, <2>2, <2>3, <2>4
<1>8. ASSUME NEW d \in Carrying(VerifierKey)'
      PROVE  /\ Canonical(d, VerifierKey, PlannedUpTo(plan))'
             /\ card'[d].role \in {"none", "verifier"} /\ \A n \in 1..plan : Planned(n)' # {}
  <2>1. d \in Carrying(VerifierKey) /\ d \in CardId /\ Exists(d) /\ card[d].key = VerifierKey
    BY <1>2, <1>4, <1>8
  <2>2. /\ Canonical(d, VerifierKey, PlannedUpTo(plan))
        /\ card[d].role \in {"none", "verifier"} /\ \A n \in 1..plan : Planned(n) # {}
    BY <2>1 DEF PlanAdoptable
  <2>3. card'[d].role \in {"none", "verifier"}
    <3>1. CASE d = c
      BY <1>2, <2>1, <3>1, RoleOfKey
    <3>2. CASE d # c
      BY <1>2, <2>1, <2>2, <3>2
    <3> QED
      BY <3>1, <3>2
  <2>4. Canonical(d, VerifierKey, PlannedUpTo(plan))'
    BY <1>2, <1>3, <2>1, <2>2 DEF Canonical
  <2> QED
    BY <1>3, <2>2, <2>3, <2>4
<1> QED
  BY <1>6, <1>7, <1>8 DEF PlanAdoptable

\* Only a stored proposal makes a plan.
LEMMA PlanStays ==
  ASSUME Next, \A n \in 1..MaxTasks : ~StorePlan(n)
  PROVE  plan' = plan
BY DEF Next, Planner, LinkExecutionTask, LinkCard, FindCard, AddExecutionTask, ClientWrites,
       ModelFails, ConfirmCard, AcceptManifest, RecordPlan, FinishPlanning, PlannerRaises,
       PlanWithModel, FinishPlan, StartMission, PrepareAgain, CancelMission, Interrupted,
       SecondPasses, ClientLooks

\* A client that writes is the only one that meddles.
LEMMA Unmeddled ==
  ASSUME TypeOK, Next, ~meddled'
  PROVE  ~meddled /\ ~ClientWrites /\ meddled' = meddled
<1>1. ~ClientWrites
  BY DEF ClientWrites
<1>2. meddled' = meddled
  BY <1>1 DEF Next, Planner, LinkExecutionTask, LinkCard, FindCard, AddExecutionTask, StorePlan,
       ModelFails, ConfirmCard, AcceptManifest, RecordPlan, FinishPlanning, PlannerRaises,
       PlanWithModel, FinishPlan, StartMission, PrepareAgain, CancelMission, Interrupted,
       SecondPasses, ClientLooks
<1> QED
  BY <1>1, <1>2

\* What is known of the cards depends on cards, plan and meddling alone.
LEMMA ShapeStays ==
  ASSUME UNCHANGED <<card, plan, meddled>>, Untouched, ManualCards, PlanAdoptable
  PROVE  Untouched' /\ ManualCards' /\ PlanAdoptable'
<1>1. \A d : Exists(d)' <=> Exists(d)
  BY DEF Exists
<1>2. \A k : Carrying(k)' = Carrying(k) /\ Linked(k)' = Linked(k)
  BY DEF Carrying, Linked, Exists
<1>3. Members' = Members
  BY <1>2 DEF Members
<1>4. (\A n : Planned(n)' = Planned(n)) /\ PlannedUpTo(plan)' = PlannedUpTo(plan)
  BY <1>2 DEF Planned, PlannedUpTo
<1>5. Untouched'
  BY <1>1 DEF Untouched
<1>6. ManualCards'
  BY <1>1, <1>2, <1>3 DEF ManualCards
<1>7. PlanAdoptable'
  BY <1>2, <1>3, <1>4 DEF PlanAdoptable, Canonical
<1> QED
  BY <1>5, <1>6, <1>7

\* Without foreign writes the cards stay canonical, manual cards stay behind the
\* mission's, and what is there of a plan is what it asks for.
LEMMA ShapeStep ==
  ASSUME PlanningInvariant, Next, ~meddled'
  PROVE  Untouched' /\ ManualCards' /\ PlanAdoptable'
<1>a. TypeOK /\ OneCardPerKey /\ PlanAdoptable /\ OpKnown
  BY DEF PlanningInvariant
<1>b. ~meddled /\ ~ClientWrites /\ meddled' = meddled
  BY <1>a, Unmeddled
<1>c. Untouched /\ ManualCards /\ Position
  BY <1>b DEF PlanningInvariant
<1>d. "executor" \in Role /\ "verifier" \in Role
  BY DEF Role
<1>1. CASE LinkExecutionTask
  <2>1. plan = None /\ plan' = plan /\ op.card \in CardId /\ op.card \in Carrying(None)
    BY <1>1, <1>a, <1>c DEF LinkExecutionTask, At, OpKnown, Position
  <2>2. PlanAdoptable'
    BY <2>1 DEF PlanAdoptable
  <2>3. CASE Bindable(op.card, "executor")
    <3>1. card' = Bound(op.card, "executor") /\ card[op.card].key = None
      BY <1>1, <2>1, <2>3 DEF LinkExecutionTask, Carrying
    <3>2. Untouched'
      BY <1>a, <1>c, <1>d, <2>1, <2>3, <3>1, BindEffects DEF Untouched
    <3>3. ManualCards'
      BY <1>a, <1>c, <1>d, <2>1, <2>3, <3>1, BindManual, KeysDiffer
    <3> QED
      BY <2>2, <3>2, <3>3
  <2>4. CASE ~Bindable(op.card, "executor")
    <3>1. card' = card
      BY <1>1, <2>4 DEF LinkExecutionTask
    <3> QED
      BY <1>c, <2>1, <2>2, <3>1 DEF Untouched, ManualCards, Carrying, Members, Linked, Exists
  <2> QED
    BY <2>3, <2>4
<1>2. CASE LinkCard
  <2>1. /\ op.at = "link" /\ op.card \in CardId /\ plan' = plan /\ card' = Bound(op.card, NextRole)
        /\ Bindable(op.card, NextRole) /\ card[op.card].key = op.next
    BY <1>2, <1>a DEF LinkCard, At, OpKnown, Canonical
  <2>2. op.next \in PlanKey /\ NextRole \in Role /\ (op.auto <=> plan # None)
    BY <1>a, <2>1, NextKey DEF OpKnown
  <2>3. Untouched'
    BY <1>a, <1>c, <2>1, <2>2, BindEffects DEF Untouched
  <2>4. ManualCards'
    <3>1. card[op.card].key # None
      BY <2>1, <2>2, NoneAssumption
    <3>2. card[op.card].key = ManualKey => NextRole = "verifier"
      BY <2>1, RoleOfKey DEF NextRole
    <3> QED
      BY <1>a, <1>c, <2>1, <2>2, <3>1, <3>2, BindManual
  <2>5. PlanAdoptable'
    <3>1. CASE plan = None
      BY <2>1, <3>1 DEF PlanAdoptable
    <3>2. CASE plan # None
      <4>1. op.next \in {ExecutorKey(n) : n \in 1..plan} \union {VerifierKey}
        BY <1>a, <2>1, <2>2, <3>2 DEF OpKnown
      <4> QED
        BY <1>a, <1>b, <2>1, <2>2, <3>2, <4>1, BindPlanned DEF NextRole
    <3> QED
      BY <3>1, <3>2
  <2> QED
    BY <2>3, <2>4, <2>5
<1>3. ASSUME NEW c \in CardId, FindCard(c) PROVE Untouched' /\ ManualCards' /\ PlanAdoptable'
  <2>1. op.at = "find" /\ plan' = plan
    BY <1>3 DEF FindCard, At
  <2>2. /\ op.next \in PlanKey /\ NextParents \in SUBSET (CardId \union {Root})
        /\ op.auto <=> plan # None
    BY <1>a, <2>1, NextKey DEF OpKnown
  <2>3. CASE Carrying(op.next) # {}
    <3>1. card' = card
      BY <1>3, <2>3 DEF FindCard
    <3> QED
      BY <1>a, <1>b, <1>c, <2>1, <3>1, ShapeStays
  <2>4. CASE Carrying(op.next) = {}
    <3>1. CreateCard(c, op.next, NextParents, FALSE)
      BY <1>3, <2>4 DEF FindCard
    <3>2. Untouched'
      <4>1. /\ \A d \in CardId \ {c} : card'[d] = card[d]
            /\ card'[c].status = "todo" /\ ~card'[c].edited /\ ~card'[c].outside
        BY <1>a, <2>2, <3>1, CreateEffects
      <4> QED
        BY <1>c, <4>1 DEF Untouched, Exists
    <3>3. ManualCards'
      <4>1. op.next = ManualKey => NextParents \subseteq Linked("executor")
        <5>1. CASE op.next = ManualKey
          <6>1. ~op.auto /\ NextRole = "verifier"
            <7>1. op.auto => op.next # ManualKey
              <8>1. \A n \in 1..plan : op.auto => n \in 1..MaxTasks
                BY <1>a, <2>1, NextKey
              <8> QED
                BY <1>a, <2>1, <8>1, KeysDiffer DEF OpKnown
            <7> QED
              BY <5>1, <7>1, RoleOfKey DEF NextRole
          <6> QED
            BY <1>c, <2>1, <6>1 DEF Position, NextParents
        <5> QED
          BY <5>1
      <4>2. plan = None => op.next = ManualKey
        BY <1>a, <2>1, <2>2 DEF OpKnown
      <4> QED
        BY <1>a, <1>c, <2>1, <2>2, <3>1, <4>1, <4>2, CreateManual
    <3>4. PlanAdoptable'
      <4>1. CASE plan = None
        BY <2>1, <4>1 DEF PlanAdoptable
      <4>2. CASE plan # None
        <5>1. op.next \in {ExecutorKey(n) : n \in 1..plan} \union {VerifierKey}
          BY <1>a, <2>1, <2>2, <4>2 DEF OpKnown
        <5> QED
          BY <1>a, <1>b, <1>c, <2>1, <2>2, <2>4, <3>1, <4>2, <5>1, CreatePlanned
      <4> QED
        BY <4>1, <4>2
    <3> QED
      BY <3>2, <3>3, <3>4
  <2> QED
    BY <2>3, <2>4
<1>4. ASSUME NEW c \in CardId, NEW asked \in BOOLEAN, NEW parents \in SUBSET (CardId \union {Root}),
             AddExecutionTask(c, parents, asked)
      PROVE Untouched' /\ ManualCards' /\ PlanAdoptable'
  <2>1. plan = None /\ plan' = plan /\ CreateCard(c, None, parents, asked)
    BY <1>4 DEF AddExecutionTask
  <2>2. ManualCards'
    BY <1>4, <1>a, <1>c, <2>1, AddManual
  <2>3. Untouched'
    <3>1. card' = [card EXCEPT ![c] = Created(None, parents, asked)]
      BY <2>1 DEF CreateCard
    <3> QED
      BY <1>a, <1>c, <3>1 DEF Untouched, Exists, Created, TypeOK
  <2> QED
    BY <2>1, <2>2, <2>3 DEF PlanAdoptable
<1>5. ASSUME NEW n \in 1..MaxTasks, StorePlan(n) PROVE Untouched' /\ ManualCards' /\ PlanAdoptable'
  <2>1. op.at = "model" /\ Members = {} /\ plan = None /\ plan' = n /\ card' = card
    BY <1>5, <1>a DEF StorePlan, At, OpKnown
  <2>2. \A c \in CardId : Exists(c) => card[c].key \in {None, ManualKey}
    BY <1>c, <2>1 DEF ManualCards
  <2>3. Untouched' /\ ManualCards'
    <3>1. plan' # None
      BY <2>1
    <3> QED
      BY <1>c, <2>1, <3>1 DEF Untouched, ManualCards, Carrying, Members, Linked, Exists
  <2>4. \A m \in 1..n : Planned(m)' = {}
    <3> SUFFICES ASSUME NEW m \in 1..n PROVE Planned(m)' = {}
      OBVIOUS
    <3>1. m \in 1..MaxTasks
      BY PlanningAssumption
    <3>2. ExecutorKey(m) # None /\ ExecutorKey(m) # ManualKey
      BY <3>1, KeysDiffer
    <3> QED
      BY <2>1, <2>2, <3>2 DEF Planned, Carrying, Exists
  <2>5. Carrying(VerifierKey)' = {}
    BY <2>1, <2>2, KeysDiffer DEF Carrying, Exists
  <2>6. Members' = {}
    BY <2>1 DEF Members, Linked, Exists
  <2> QED
    <3>1. \A m \in 1..plan' : Planned(m)' = {}
      BY <2>1, <2>4
    <3>2. PlanAdoptable'
      BY <2>5, <2>6, <3>1 DEF PlanAdoptable
    <3> QED
      BY <2>3, <3>2
<1>6. CASE card' = card /\ plan' = plan
  BY <1>6, <1>a, <1>b, <1>c, ShapeStays
<1> QED
  BY <1>1, <1>2, <1>3, <1>4, <1>5, <1>6, <1>b, CardsStay, PlanStays

-----------------------------------------------------------------------------
(***************************************************************************)
(* The planner in its plan                                                 *)
(***************************************************************************)

\* What the planner has found depends on itself, the cards and the plan alone.
LEMMA PositionStays ==
  ASSUME UNCHANGED <<op, card, plan>>, Position
  PROVE  Position'
<1>1. \A k : Carrying(k)' = Carrying(k) /\ Linked(k)' = Linked(k)
  BY DEF Carrying, Linked, Exists
<1>2. \A n : Planned(n)' = Planned(n) /\ PlannedUpTo(n)' = PlannedUpTo(n)
  BY <1>1 DEF Planned, PlannedUpTo
<1>3. \A n : Made(n)' <=> Made(n)
  BY <1>2 DEF Made
<1> QED
  BY <1>1, <1>2, <1>3 DEF Position

\* A planner that starts on its plan has found nothing.
LEMMA MaterializePosition ==
  ASSUME op' = Materialize, plan' \in 1..MaxTasks
  PROVE  Position'
<1>1. /\ op'.at = "find" /\ op'.auto = TRUE /\ op'.next = ExecutorKey(1)
      /\ op'.made = {} /\ op'.last = Root /\ op'.card = None
  BY DEF Materialize, Idle
<1>2. Made(0)'
  BY <1>1 DEF Made, PlannedUpTo
<1>3. \A n \in 1..plan' : op'.next = ExecutorKey(n) => n = 1
  BY <1>1, KeysDiffer
<1>4. op'.next # VerifierKey
  <2>1. 1 \in 1..MaxTasks
    OBVIOUS
  <2> QED
    BY <1>1, <2>1, KeysDiffer
<1>5. \A n \in 1..plan' : op'.next = ExecutorKey(n) =>
        Made(n - 1)' /\ {op'.last} = (IF n = 1 THEN {Root} ELSE Planned(n - 1)')
  BY <1>1, <1>2, <1>3
<1> QED
  BY <1>1, <1>4, <1>5 DEF Position

\* What the planner has of the plan, when the cards with these keys stay.
LEMMA MadeStays ==
  ASSUME NEW n \in Nat, op'.made = op.made, \A m \in 1..n : Planned(m)' = Planned(m), Made(n)
  PROVE  Made(n)'
<1>1. PlannedUpTo(n)' = PlannedUpTo(n)
  BY DEF PlannedUpTo
<1> QED
  BY <1>1 DEF Made

\* The planner has found or created the card of its key, and has yet to link it.
LEMMA FindPosition ==
  ASSUME PlanningInvariant, ~meddled, NEW c \in CardId, FindCard(c)
  PROVE  Position'
<1>a. TypeOK /\ OpKnown /\ Position /\ Untouched
  BY DEF PlanningInvariant
<1>b. op.at = "find" /\ op' = [op EXCEPT !.at = "link", !.card = c] /\ plan' = plan
  BY DEF FindCard, At
<1>c. /\ op'.at = "link" /\ op'.auto = op.auto /\ op'.next = op.next /\ op'.made = op.made
      /\ op'.last = op.last /\ op'.card = c
  BY <1>a, <1>b DEF TypeOK, Op
<1>d. /\ op.next \in PlanKey /\ NextParents \in SUBSET (CardId \union {Root})
      /\ (op.auto => plan \in 1..MaxTasks)
  BY <1>a, <1>b, NextKey
<1>e. "executor" \in Role
  BY DEF Role
<1>1. Linked("executor")' = Linked("executor") /\ \A k : k # op.next => Carrying(k)' = Carrying(k)
  <2>1. CASE Carrying(op.next) = {}
    <3>1. CreateCard(c, op.next, NextParents, FALSE)
      BY <2>1 DEF FindCard
    <3> QED
      BY <1>a, <1>d, <1>e, <3>1, CreateEffects
  <2>2. CASE Carrying(op.next) # {}
    <3>1. card' = card
      BY <2>2 DEF FindCard
    <3> QED
      BY <3>1 DEF Linked, Carrying, Exists
  <2> QED
    BY <2>1, <2>2
<1>2. CASE op.auto
  <2>1. ASSUME NEW n \in 1..plan, op.next = ExecutorKey(n)
        PROVE Made(n - 1)' /\ {op.last} = (IF n = 1 THEN {Root} ELSE Planned(n - 1)')
    <3>1. n \in 1..MaxTasks /\ n - 1 \in Nat /\ (n # 1 => n - 1 \in 1..(n - 1))
      BY <1>2, <1>d
    <3>2. Made(n - 1) /\ {op.last} = (IF n = 1 THEN {Root} ELSE Planned(n - 1))
      BY <1>2, <1>a, <1>b, <2>1 DEF Position
    <3>3. \A m \in 1..(n - 1) : Planned(m)' = Planned(m)
      <4> SUFFICES ASSUME NEW m \in 1..(n - 1) PROVE Planned(m)' = Planned(m)
        OBVIOUS
      <4>1. m \in Nat /\ m # n
        BY <3>1
      <4>2. ExecutorKey(m) # op.next
        BY <2>1, <3>1, <4>1, KeysDiffer
      <4> QED
        BY <1>1, <4>2 DEF Planned
    <3>4. Made(n - 1)'
      BY <1>c, <3>1, <3>2, <3>3, MadeStays
    <3> QED
      BY <3>1, <3>2, <3>3, <3>4
  <2>2. ASSUME op.next = VerifierKey PROVE Made(plan)'
    <3>1. Made(plan) /\ plan \in Nat
      BY <1>2, <1>a, <1>b, <1>d, <2>2 DEF Position
    <3>2. \A m \in 1..plan : Planned(m)' = Planned(m)
      <4> SUFFICES ASSUME NEW m \in 1..plan PROVE Planned(m)' = Planned(m)
        OBVIOUS
      <4>1. m \in 1..MaxTasks
        BY <1>2, <1>d
      <4>2. ExecutorKey(m) # op.next
        BY <2>2, <4>1, KeysDiffer
      <4> QED
        BY <1>1, <4>2 DEF Planned
    <3>3. op'.made = op.made /\ plan' = plan
      BY <1>b, <1>c
    <3>4. PlannedUpTo(plan)' = PlannedUpTo(plan)
      BY <3>2, <3>3 DEF PlannedUpTo
    <3> QED
      BY <3>1, <3>2, <3>3, <3>4 DEF Made
  <2> QED
    BY <1>2, <1>b, <1>c, <2>1, <2>2 DEF Position
<1>3. CASE ~op.auto
  <2>1. op.made = Linked("executor")
    BY <1>3, <1>a, <1>b DEF Position
  <2> QED
    BY <1>3, <1>1, <1>c, <2>1 DEF Position
<1> QED
  BY <1>2, <1>3

\* It has linked the card, and has yet to check it.
LEMMA LinkPosition ==
  ASSUME PlanningInvariant, ~meddled, LinkCard
  PROVE  Position'
<1>a. TypeOK /\ OpKnown /\ Position
  BY DEF PlanningInvariant
<1>b. /\ op.at = "link" /\ op' = [op EXCEPT !.at = "confirm"] /\ plan' = plan /\ op.card \in CardId
      /\ Bindable(op.card, NextRole) /\ card' = Bound(op.card, NextRole)
  BY <1>a DEF LinkCard, At, Goto, OpKnown
<1>c. /\ op'.at = "confirm" /\ op'.auto = op.auto /\ op'.next = op.next /\ op'.made = op.made
      /\ op'.last = op.last
  BY <1>a, <1>b DEF TypeOK, Op
<1>d. NextRole \in Role /\ (op.auto => plan \in 1..MaxTasks) /\ "executor" \in Role
  BY <1>a, <1>b, NextKey DEF Role
<1>1. /\ \A k : Carrying(k)' = Carrying(k)
      /\ NextRole # "executor" => Linked("executor")' = Linked("executor")
  BY <1>a, <1>b, <1>d, BindEffects
<1>2. \A n : Planned(n)' = Planned(n) /\ PlannedUpTo(n)' = PlannedUpTo(n)
  BY <1>1 DEF Planned, PlannedUpTo
<1>3. \A n : Made(n)' <=> Made(n)
  BY <1>2, <1>c DEF Made
<1>4. CASE op.auto
  BY <1>4, <1>a, <1>b, <1>c, <1>2, <1>3 DEF Position
<1>5. CASE ~op.auto
  <2>1. op.next = ManualKey /\ op.made = Linked("executor")
    BY <1>5, <1>a, <1>b DEF OpKnown, Position
  <2>2. NextRole # "executor"
    BY <2>1, RoleOfKey DEF NextRole
  <2> QED
    BY <1>5, <1>1, <1>c, <2>1, <2>2 DEF Position
<1> QED
  BY <1>4, <1>5

\* A checked card counts as made; the next key is the one that follows it.
LEMMA ConfirmPosition ==
  ASSUME PlanningInvariant, ~meddled, ConfirmCard
  PROVE  Position'
<1>a. TypeOK /\ OpKnown /\ Position /\ OneCardPerKey
  BY DEF PlanningInvariant
<1>b. /\ op.at = "confirm" /\ plan' = plan /\ card' = card /\ op.card \in CardId
      /\ Exists(op.card) /\ card[op.card].role = NextRole
      /\ card[op.card].key = op.next /\ card[op.card].parents = NextParents
  BY <1>a DEF ConfirmCard, At, OpKnown, Confirmed, Canonical
<1>c. (op.auto => plan \in 1..MaxTasks) /\ op \in Op
  BY <1>a, <1>b, NextKey DEF TypeOK
<1>d. \A k : Carrying(k)' = Carrying(k) /\ Linked(k)' = Linked(k)
  BY <1>b DEF Carrying, Linked, Exists
<1>e. \A n : Planned(n)' = Planned(n) /\ PlannedUpTo(n)' = PlannedUpTo(n)
  BY <1>d DEF Planned, PlannedUpTo
<1>1. CASE NextRole = "verifier"
  <2>1. op' = [op EXCEPT !.at = "accept"]
    BY <1>1 DEF ConfirmCard
  <2>2. /\ op'.at = "accept" /\ op'.auto = op.auto /\ op'.made = op.made /\ op'.card = op.card
    BY <1>c, <2>1 DEF Op
  <2>3. op.card \in Linked("verifier") /\ card[op.card].parents = op.made
    BY <1>1, <1>b DEF Linked, NextParents
  <2>4. op.auto => op.next = VerifierKey /\ Made(plan)
    <3>1. op.auto => op.next = VerifierKey
      <4>1. \A n \in 1..plan : op.auto => n \in Nat
        BY <1>c
      <4> QED
        BY <1>1, <1>a, <1>b, <4>1, RoleOfKey DEF OpKnown, NextRole
    <3> QED
      BY <1>a, <1>b, <3>1 DEF Position
  <2>5. op.auto => Made(plan)'
    BY <1>b, <1>e, <2>2, <2>4 DEF Made
  <2>6. ~op.auto => op.made = Linked("executor")
    BY <1>a, <1>b DEF Position
  <2> QED
    BY <1>b, <1>d, <2>2, <2>3, <2>4, <2>5, <2>6 DEF Position
<1>2. CASE NextRole # "verifier"
  <2>1. PICK n \in 1..plan : op.next = ExecutorKey(n) /\ op.auto
    BY <1>2, <1>a, <1>b, RoleOfKey DEF OpKnown, NextRole
  <2>2. plan \in 1..MaxTasks /\ n \in 1..MaxTasks /\ n \in Nat
    BY <1>c, <2>1
  <2>3. Made(n - 1)
    BY <1>a, <1>b, <2>1 DEF Position
  <2>4. Planned(n) = {op.card}
    <3>1. op.card \in Planned(n)
      BY <1>b, <2>1 DEF Planned, Carrying
    <3>2. \A d \in Planned(n) : d = op.card
      BY <1>a, <1>b, <2>1, <2>2, KeysDiffer DEF Planned, Carrying, OneCardPerKey
    <3> QED
      BY <3>1, <3>2
  <2> DEFINE next == IF op.next = ExecutorKey(plan) THEN VerifierKey
                     ELSE ExecutorKey(op.next[2] + 1)
  <2>5. op' = [at |-> "find", auto |-> op.auto, next |-> next,
               made |-> op.made \union {op.card}, last |-> op.card, card |-> None]
    BY <1>2, <1>c DEF ConfirmCard, Op
  <2>6. next = IF n = plan THEN VerifierKey ELSE ExecutorKey(n + 1)
    BY <2>1, <2>2, RoleOfKey, KeysDiffer
  <2> HIDE DEF next
  <2>7. /\ op'.at = "find" /\ op'.auto /\ op'.next = next
        /\ op'.made = op.made \union {op.card} /\ op'.last = op.card
    BY <2>1, <2>5
  <2>8. PlannedUpTo(n) = PlannedUpTo(n - 1) \union Planned(n)
    <3>1. \A m : m \in 1..n <=> m \in 1..(n - 1) \/ m = n
      BY <2>2
    <3> QED
      BY <3>1 DEF PlannedUpTo
  <2>9. Made(n)'
    <3>1. op'.made = PlannedUpTo(n)'
      BY <1>e, <2>3, <2>4, <2>7, <2>8 DEF Made
    <3>2. \A m \in 1..n : Planned(m)' # {}
      <4>1. \A m \in 1..n : m \in 1..(n - 1) \/ m = n
        BY <2>2
      <4> QED
        BY <1>e, <2>3, <2>4, <4>1 DEF Made
    <3> QED
      BY <3>1, <3>2 DEF Made
  <2>10. CASE n = plan
    <3>1. op'.next = VerifierKey /\ Made(plan)'
      BY <1>b, <2>6, <2>7, <2>9, <2>10 DEF Made
    <3>2. \A m \in 1..plan : op'.next # ExecutorKey(m)
      <4>1. \A m \in 1..plan : m \in 1..MaxTasks
        BY <2>2
      <4> QED
        BY <3>1, <4>1, KeysDiffer
    <3> QED
      BY <1>b, <2>7, <3>1, <3>2 DEF Position
  <2>11. CASE n # plan
    <3>1. n + 1 \in 1..plan /\ n + 1 \in 1..MaxTasks /\ op'.next = ExecutorKey(n + 1)
      BY <2>2, <2>6, <2>7, <2>11
    <3>2. op'.next # VerifierKey
      BY <3>1, KeysDiffer
    <3>3. \A m \in 1..plan : op'.next = ExecutorKey(m) => m = n + 1
      BY <2>2, <3>1, KeysDiffer
    <3>4. n + 1 - 1 = n /\ n + 1 # 1
      BY <2>2
    <3>5. {op'.last} = Planned(n)'
      BY <1>e, <2>4, <2>7
    <3>6. \A m \in 1..plan : op'.next = ExecutorKey(m) =>
            Made(m - 1)' /\ {op'.last} = (IF m = 1 THEN {Root} ELSE Planned(m - 1)')
      BY <2>9, <3>3, <3>4, <3>5
    <3> QED
      BY <1>b, <2>7, <3>2, <3>6 DEF Position
  <2> QED
    BY <2>10, <2>11
<1> QED
  BY <1>1, <1>2

\* Without foreign writes the planner has what it found, in the order of the plan.
LEMMA PositionStep ==
  ASSUME PlanningInvariant, Next, ~meddled'
  PROVE  Position'
<1>a. TypeOK /\ OpKnown
  BY DEF PlanningInvariant
<1>b. ~meddled /\ ~ClientWrites
  BY <1>a, Unmeddled
<1>c. Position /\ Untouched
  BY <1>b DEF PlanningInvariant
<1>d. plan # None => plan \in 1..MaxTasks
  BY <1>a DEF TypeOK
<1>1. CASE op' = Idle
  BY <1>1 DEF Idle, Position
<1>2. ASSUME NEW n \in 1..MaxTasks, StorePlan(n) PROVE Position'
  BY <1>2, MaterializePosition DEF StorePlan
<1>3. CASE PlanWithModel
  <2>1. CASE plan = None
    BY <1>3, <2>1 DEF PlanWithModel, Idle, Position
  <2>2. CASE plan # None
    BY <1>3, <1>d, <2>2, MaterializePosition DEF PlanWithModel
  <2> QED
    BY <2>1, <2>2
<1>4. CASE FinishPlan
  <2>1. \A k : Linked(k)' = Linked(k)
    BY <1>4 DEF FinishPlan, Linked, Exists
  <2>2. CASE plan # None
    BY <1>4, <1>d, <2>2, MaterializePosition DEF FinishPlan
  <2>3. CASE plan = None /\ Linked("verifier") = {}
    <3>1. op' = [Idle EXCEPT !.at = "find", !.next = ManualKey, !.made = Linked("executor")]
      BY <1>4, <2>3 DEF FinishPlan
    <3>2. /\ op'.at = "find" /\ op'.auto = FALSE /\ op'.made = Linked("executor")
      BY <3>1 DEF Idle
    <3> QED
      BY <2>1, <3>2 DEF Position
  <2>4. CASE plan = None /\ Linked("verifier") # {}
    <3>1. PICK c \in Linked("verifier") :
            /\ card[c].parents = Linked("executor")
            /\ op' = [Idle EXCEPT !.at = "accept", !.made = Linked("executor"), !.card = c]
      BY <1>4, <2>4 DEF FinishPlan, Canonical
    <3>2. /\ op'.at = "accept" /\ op'.auto = FALSE /\ op'.made = Linked("executor") /\ op'.card = c
      BY <3>1 DEF Idle
    <3>3. card' = card
      BY <1>4 DEF FinishPlan
    <3> QED
      BY <2>1, <3>1, <3>2, <3>3 DEF Position
  <2> QED
    BY <2>2, <2>3, <2>4
<1>5. ASSUME NEW c \in CardId, NEW asked \in BOOLEAN, NEW parents \in SUBSET (CardId \union {Root}),
             AddExecutionTask(c, parents, asked)
      PROVE Position'
  <2>1. op'.at = "add" /\ op'.card = c
    BY <1>5 DEF AddExecutionTask, Idle
  <2>2. card' = [card EXCEPT ![c] = Created(None, parents, asked)] /\ c \in CardId
    BY <1>5 DEF AddExecutionTask, CreateCard
  <2>3. card'[c].key = None
    BY <1>a, <2>2 DEF Created, TypeOK
  <2>4. Created(None, parents, asked) # None
    <3>1. Created(None, parents, asked) \in Card
      BY <1>a DEF Created, Card, TypeOK
    <3> QED
      BY <3>1, NoneAssumption
  <2>5. card'[c] # None
    BY <1>a, <2>2, <2>4 DEF TypeOK
  <2> QED
    BY <2>1, <2>3, <2>5 DEF Position, Carrying, Exists
<1>6. ASSUME NEW c \in CardId, FindCard(c) PROVE Position'
  BY <1>6, <1>b, FindPosition
<1>7. CASE LinkCard
  BY <1>7, <1>b, LinkPosition
<1>8. CASE ConfirmCard
  BY <1>8, <1>b, ConfirmPosition
<1>9. CASE AcceptManifest \/ RecordPlan
  <2>1. op'.at \in {"record", "ready"}
    BY <1>9, <1>a DEF AcceptManifest, RecordPlan, Goto, TypeOK, Op
  <2> QED
    BY <2>1 DEF Position
<1>10. CASE UNCHANGED <<op, card, plan>>
  BY <1>10, <1>c, PositionStays
<1>11. CASE LinkExecutionTask \/ ModelFails \/ FinishPlanning \/ PlannerRaises \/ Interrupted
  <2>1. op' = Idle
    BY <1>11 DEF LinkExecutionTask, ModelFails, FinishPlanning, PlannerRaises, Interrupted, Finish
  <2> QED
    BY <1>1, <2>1
<1>12. CASE StartMission \/ PrepareAgain \/ CancelMission \/ SecondPasses
  BY <1>12, <1>10 DEF StartMission, PrepareAgain, CancelMission, SecondPasses
<1>13. ASSUME NEW c \in CardId, ClientLooks(c) PROVE Position'
  BY <1>13, <1>10 DEF ClientLooks
<1> QED
  BY <1>2, <1>3, <1>4, <1>5, <1>6, <1>7, <1>8, <1>9, <1>11, <1>12, <1>13, <1>b DEF Next, Planner

-----------------------------------------------------------------------------
(***************************************************************************)
(* The accepted graph                                                      *)
(***************************************************************************)

\* The manifest speaks of cards and plan alone.
LEMMA SealedStays ==
  ASSUME UNCHANGED <<card, plan, manifest>>, Sealed, Strangers = {}
  PROVE  Sealed' /\ Strangers' = {}
<1>1. \A k : Carrying(k)' = Carrying(k) /\ Linked(k)' = Linked(k)
  BY DEF Carrying, Linked, Exists
<1>2. Members' = Members
  BY <1>1 DEF Members
<1>3. (\A n : Planned(n)' = Planned(n)) /\ PlannedUpTo(plan)' = PlannedUpTo(plan)
  BY <1>1 DEF Planned, PlannedUpTo
<1>4. Graph' = Graph
  BY <1>2 DEF Graph
<1>5. Strangers' = Strangers
  BY <1>2 DEF Strangers, Exists
<1> QED
  BY <1>1, <1>2, <1>3, <1>4, <1>5 DEF Sealed

\* In an accepted graph a plan has all its cards, and they are the mission's.
LEMMA SealedPlan ==
  ASSUME TypeOK, PlanAdoptable, ~meddled, plan # None, Sealed,
         NEW key \in {ExecutorKey(n) : n \in 1..plan} \union {VerifierKey}
  PROVE  /\ Carrying(key) # {} /\ Carrying(key) \subseteq Members
         /\ \A c \in Carrying(key) : card[c].role = key[1]
<1>1. plan \in 1..MaxTasks /\ \A n \in 1..plan : n \in Nat
  BY DEF TypeOK
<1>2. /\ \A n \in 1..plan : Planned(n) # {}
      /\ Members = PlannedUpTo(plan) \union Carrying(VerifierKey)
  BY DEF Sealed
<1>3. \A c \in Members : card[c].role \in {"executor", "verifier"}
  BY MembersAreCards DEF Role
<1>4. ASSUME NEW n \in 1..plan, key = ExecutorKey(n)
      PROVE /\ Carrying(key) # {} /\ Carrying(key) \subseteq Members
            /\ \A c \in Carrying(key) : card[c].role = key[1]
  <2>1. Carrying(key) = Planned(n) /\ Planned(n) \subseteq PlannedUpTo(plan)
    BY <1>4 DEF Planned, PlannedUpTo
  <2>2. \A c \in Planned(n) : card[c].role \in {"none", "executor"}
    BY DEF PlanAdoptable
  <2>3. key[1] = "executor"
    BY <1>1, <1>4, RoleOfKey
  <2> QED
    BY <1>2, <1>3, <2>1, <2>2, <2>3
<1>5. CASE key = VerifierKey
  <2>1. \A c \in Carrying(VerifierKey) : card[c].role \in {"none", "verifier"}
    BY DEF PlanAdoptable
  <2>2. PICK v \in CardId : Linked("verifier") = {v}
    BY DEF Sealed
  <2>3. v \in Members /\ card[v].role = "verifier"
    BY <2>2 DEF Members, Linked
  <2>4. v \notin PlannedUpTo(plan)
    <3>1. \A n \in 1..plan : v \notin Planned(n)
      BY <2>3 DEF PlanAdoptable
    <3> QED
      BY <3>1 DEF PlannedUpTo
  <2>5. v \in Carrying(key)
    BY <1>2, <1>5, <2>3, <2>4
  <2> QED
    BY <1>2, <1>3, <1>5, <2>1, <2>5, RoleOfKey
<1> QED
  BY <1>4, <1>5

\* What passes the manifest's checks is the graph a mission must have.
LEMMA AcceptedIsSealed ==
  ASSUME PlanningInvariant, ~meddled, AcceptManifest
  PROVE  Sealed' /\ Strangers' = {}
<1>a. TypeOK /\ OpKnown /\ Position /\ ManualCards /\ PlanAdoptable /\ OneCardPerKey
  BY DEF PlanningInvariant
<1>b. /\ op.at = "accept" /\ Acceptable /\ Complete /\ manifest' = Graph
      /\ UNCHANGED <<card, plan>>
  BY DEF AcceptManifest, Acceptable, At
<1>c. \A k : Carrying(k)' = Carrying(k) /\ Linked(k)' = Linked(k)
  BY <1>b DEF Carrying, Linked, Exists
<1>d. Members' = Members
  BY <1>c DEF Members
<1>e. (\A n : Planned(n)' = Planned(n)) /\ PlannedUpTo(plan)' = PlannedUpTo(plan)
  BY <1>b, <1>c DEF Planned, PlannedUpTo
<1>f. manifest' = Graph'
  BY <1>b, <1>d DEF Graph
<1>1. Strangers' = {}
  BY <1>b, <1>d DEF Strangers, Exists, Complete
<1>2. Linked("verifier") = {op.card} /\ op.card \in CardId /\ card[op.card].parents = op.made
  BY <1>a, <1>b, MembersAreCards DEF Complete, Position
<1>3. CASE op.auto
  <2>1. /\ plan # None /\ Linked("executor") = op.made /\ op.made = PlannedUpTo(plan)
        /\ card[op.card].key = VerifierKey /\ \A n \in 1..plan : Planned(n) # {}
    BY <1>3, <1>a, <1>b DEF OpKnown, Acceptable, Position, Made
  <2>2. ASSUME NEW c \in Linked("executor")
        PROVE card[c].parents # {} /\ card[c].parents \subseteq Linked("executor") \union {Root}
    <3>1. PICK n \in 1..plan : c \in Planned(n)
      BY <2>1, <2>2 DEF PlannedUpTo
    <3>2. card[c].parents = (IF n = 1 THEN {Root} ELSE Planned(n - 1))
      BY <1>a, <2>1, <3>1 DEF PlanAdoptable, Canonical, PlanningInvariant
    <3>3. n # 1 => n - 1 \in 1..plan
      BY <1>a, <2>1 DEF TypeOK
    <3>4. n # 1 => Planned(n - 1) # {} /\ Planned(n - 1) \subseteq Linked("executor")
      BY <2>1, <3>3 DEF PlannedUpTo
    <3> QED
      BY <3>2, <3>4
  <2>3. Carrying(VerifierKey) = {op.card}
    <3>1. op.card \in Carrying(VerifierKey)
      BY <1>2, <2>1 DEF Carrying, Linked
    <3>2. \A c \in Carrying(VerifierKey) : c = op.card
      BY <1>a, <3>1, KeysDiffer DEF Carrying, OneCardPerKey
    <3> QED
      BY <3>1, <3>2
  <2>4. Members = PlannedUpTo(plan) \union Carrying(VerifierKey)
    BY <1>2, <2>1, <2>3 DEF Members
  <2>5. \E c \in CardId : Linked("verifier") = {c} /\ card[c].parents = Linked("executor")
    BY <1>2, <2>1
  <2> QED
    BY <1>b, <1>c, <1>d, <1>e, <1>f, <1>1, <2>1, <2>2, <2>4, <2>5 DEF Sealed
<1>4. CASE ~op.auto
  <2>1. plan = None /\ op.made = Linked("executor")
    BY <1>4, <1>a, <1>b DEF OpKnown, Position
  <2>2. ASSUME NEW c \in Linked("executor")
        PROVE card[c].parents # {} /\ card[c].parents \subseteq Linked("executor") \union {Root}
    <3>1. c \in CardId /\ Exists(c) /\ card[c].role = "executor"
      BY DEF Linked
    <3>2. c \in Carrying(None)
      <4>1. card[c].key \in {None, ManualKey}
        BY <1>a, <2>1, <3>1 DEF ManualCards
      <4>2. card[c].key # ManualKey
        BY <1>a, <3>1 DEF ManualCards, Carrying
      <4> QED
        BY <3>1, <4>1, <4>2 DEF Carrying
    <3>3. /\ card[c].parents # {} /\ card[c].parents \subseteq Members \union {Root}
          /\ op.card \in card[c].parents => c \notin card[op.card].parents
      BY <1>a, <1>2, <3>2 DEF ManualCards
    <3>4. op.card \notin card[c].parents
      BY <1>2, <2>1, <3>3
    <3> QED
      BY <1>2, <3>3, <3>4 DEF Members
  <2>3. \E c \in CardId : Linked("verifier") = {c} /\ card[c].parents = Linked("executor")
    BY <1>2, <2>1
  <2> QED
    BY <1>b, <1>c, <1>f, <1>1, <2>1, <2>2, <2>3 DEF Sealed
<1> QED
  BY <1>3, <1>4

\* Nobody takes a card out of the mission.
LEMMA MembersStay ==
  ASSUME PlanningInvariant, Next, ~meddled'
  PROVE  Members \subseteq Members'
<1>a. TypeOK /\ OpKnown
  BY DEF PlanningInvariant
<1>b. ~meddled /\ ~ClientWrites
  BY <1>a, Unmeddled
<1>c. "executor" \in Role /\ "verifier" \in Role
  BY DEF Role
<1>d. card' = card => Members' = Members
  BY DEF Members, Linked, Exists
<1>1. CASE LinkExecutionTask
  <2>1. op.card \in CardId
    BY <1>1, <1>a DEF LinkExecutionTask, At, OpKnown
  <2>2. CASE Bindable(op.card, "executor")
    BY <1>1, <1>a, <1>c, <2>1, <2>2, BindEffects DEF LinkExecutionTask
  <2>3. CASE ~Bindable(op.card, "executor")
    BY <1>1, <1>d, <2>3 DEF LinkExecutionTask
  <2> QED
    BY <2>2, <2>3
<1>2. CASE LinkCard
  <2>1. op.card \in CardId /\ NextRole \in Role
    BY <1>2, <1>a, NextKey DEF LinkCard, At, OpKnown
  <2> QED
    BY <1>2, <1>a, <2>1, BindEffects DEF LinkCard
<1>3. ASSUME NEW c \in CardId, FindCard(c) PROVE Members \subseteq Members'
  <2>1. op.next \in PlanKey /\ NextParents \in SUBSET (CardId \union {Root})
    BY <1>3, <1>a, NextKey DEF FindCard, At
  <2>2. card' = card \/ CreateCard(c, op.next, NextParents, FALSE)
    BY <1>3 DEF FindCard
  <2> QED
    BY <1>a, <1>d, <2>1, <2>2, CreateEffects
<1>4. ASSUME NEW c \in CardId, NEW asked \in BOOLEAN, NEW parents \in SUBSET (CardId \union {Root}),
             AddExecutionTask(c, parents, asked)
      PROVE Members \subseteq Members'
  BY <1>4, <1>a, CreateEffects DEF AddExecutionTask
<1> QED
  BY <1>1, <1>2, <1>3, <1>4, <1>b, <1>d, CardsStay

\* What a manifest says does not depend on the cards.
LEMMA AcceptedStays ==
  ASSUME UNCHANGED <<manifest, plan>>, Accepted, Members \subseteq Members'
  PROVE  Accepted'
<1>1. \A role : Manifested(role)' = Manifested(role)
  BY DEF Manifested
<1> QED
  BY <1>1 DEF Accepted

\* A graph that a mission must have is one that its manifest may name.
LEMMA SealedAccepted ==
  ASSUME PlanningInvariant, ~meddled, AcceptManifest
  PROVE  Accepted'
<1>a. TypeOK /\ UNCHANGED <<card, plan>> /\ manifest' = Graph
  BY DEF PlanningInvariant, AcceptManifest
<1>b. Sealed'
  BY AcceptedIsSealed
<1>c. \A k : Carrying(k)' = Carrying(k) /\ Linked(k)' = Linked(k)
  BY <1>a DEF Carrying, Linked, Exists
<1>d. Members' = Members /\ (\A n : Planned(n)' = Planned(n))
      /\ PlannedUpTo(plan)' = PlannedUpTo(plan)
  BY <1>a, <1>c DEF Members, Planned, PlannedUpTo
<1>e. /\ DOMAIN manifest' = Members
      /\ \A c \in Members : /\ manifest'[c].role = card[c].role
                            /\ manifest'[c].key = card[c].key
                            /\ manifest'[c].parents = card[c].parents
  BY <1>a DEF Graph
<1>1. Manifested("executor")' = Linked("executor") /\ Manifested("verifier")' = Linked("verifier")
  BY <1>e DEF Manifested, Members, Linked
<1>2. \A c \in Linked("executor") :
        /\ manifest'[c].parents # {}
        /\ manifest'[c].parents \subseteq Linked("executor") \union {Root}
  BY <1>a, <1>b, <1>c, <1>e DEF Sealed, Members
<1>3. \E c \in Members :
        Linked("verifier") = {c} /\ manifest'[c].parents = Linked("executor")
  <2>1. PICK c \in CardId : Linked("verifier") = {c} /\ card[c].parents = Linked("executor")
    BY <1>a, <1>b, <1>c DEF Sealed
  <2>2. c \in Members
    BY <2>1 DEF Members
  <2> QED
    BY <1>e, <2>1, <2>2
<1>4. ASSUME plan # None, NEW n \in 1..plan
      PROVE \E c \in Members : manifest'[c].key = ExecutorKey(n)
  <2>1. Planned(n) # {} /\ Planned(n) \subseteq Members
    BY <1>a, <1>b, <1>d, <1>4 DEF Sealed, PlannedUpTo
  <2> QED
    BY <1>e, <2>1 DEF Planned, Carrying
<1> QED
  BY <1>a, <1>d, <1>e, <1>1, <1>2, <1>3, <1>4 DEF Accepted

\* Every step leaves a manifest that names a graph a mission must have: it is stored
\* once, and no plan is stored after it.
LEMMA AcceptedStep ==
  ASSUME PlanningInvariant, Next, ~meddled'
  PROVE  Accepted'
<1>a. TypeOK /\ OpKnown
  BY DEF PlanningInvariant
<1>b. ~meddled /\ ~ClientWrites
  BY <1>a, Unmeddled
<1>c. Accepted
  BY <1>b DEF PlanningInvariant, Standing
<1>1. CASE AcceptManifest
  BY <1>1, <1>b, SealedAccepted
<1>2. ASSUME NEW n \in 1..MaxTasks, StorePlan(n) PROVE Accepted'
  <2>1. Members = {} /\ manifest' = manifest
    BY <1>2 DEF StorePlan
  <2>2. manifest = None
    BY <1>c, <2>1 DEF Accepted
  <2> QED
    BY <2>1, <2>2 DEF Accepted
<1>3. CASE UNCHANGED <<manifest, plan>>
  BY <1>3, <1>c, MembersStay, AcceptedStays
<1>4. CASE ~AcceptManifest /\ \A n \in 1..MaxTasks : ~StorePlan(n)
  <2>1. UNCHANGED <<manifest, plan>>
    BY <1>4, <1>b DEF Next, Planner, LinkExecutionTask, LinkCard, FindCard, AddExecutionTask,
       ModelFails, ConfirmCard, RecordPlan, FinishPlanning, PlannerRaises, PlanWithModel,
       FinishPlan, StartMission, PrepareAgain, CancelMission, Interrupted, SecondPasses, ClientLooks
  <2> QED
    BY <1>3, <2>1
<1> QED
  BY <1>1, <1>2, <1>4

\* A mission whose cards are those of its manifest has the graph that was accepted,
\* whatever happened to it in between.
LEMMA StartIsSealed ==
  ASSUME PlanningInvariant, ~meddled, manifest # None, Complete, manifest = Graph
  PROVE  Sealed /\ Strangers = {}
<1>a. TypeOK /\ OneCardPerKey /\ PlanAdoptable /\ Accepted
  BY DEF PlanningInvariant, Standing
<1>e. /\ DOMAIN manifest = Members
      /\ \A c \in Members : /\ manifest[c].role = card[c].role
                            /\ manifest[c].key = card[c].key
                            /\ manifest[c].parents = card[c].parents
  BY DEF Graph
<1>1. Manifested("executor") = Linked("executor") /\ Manifested("verifier") = Linked("verifier")
  BY <1>e DEF Manifested, Members, Linked
<1>2. /\ \A c \in Linked("executor") :
           card[c].parents # {} /\ card[c].parents \subseteq Linked("executor") \union {Root}
      /\ \E c \in CardId :
           Linked("verifier") = {c} /\ card[c].parents = Linked("executor")
  BY <1>a, <1>e, <1>1, MembersAreCards DEF Accepted, Members
<1>3. ASSUME plan # None
      PROVE /\ \A n \in 1..plan : Planned(n) # {}
            /\ Members = PlannedUpTo(plan) \union Carrying(VerifierKey)
  <2>k. /\ plan \in 1..MaxTasks /\ VerifierKey # None
        /\ \A n \in 1..plan : ExecutorKey(n) # None
    BY <1>a, <1>3, KeysDiffer DEF TypeOK
  <2>1. ASSUME NEW n \in 1..plan PROVE Planned(n) # {} /\ Planned(n) \subseteq Members
    <3>1. PICK c \in Members : card[c].key = ExecutorKey(n)
      BY <1>a, <1>e, <1>3 DEF Accepted
    <3>2. c \in Planned(n)
      BY <3>1, MembersAreCards DEF Planned, Carrying
    <3>3. \A d \in Planned(n) : d = c
      BY <1>a, <2>k, <3>1, <3>2 DEF Planned, Carrying, OneCardPerKey
    <3> QED
      BY <3>1, <3>2, <3>3
  <2>2. PICK v \in CardId : Linked("verifier") = {v}
    BY <1>2
  <2>3. v \in Members /\ card[v].role = "verifier"
    BY <2>2 DEF Members, Linked
  <2>4. \A n \in 1..plan : v \notin Planned(n)
    BY <1>a, <1>3, <2>3 DEF PlanAdoptable
  <2>5. v \in Carrying(VerifierKey)
    BY <1>a, <1>3, <2>3, <2>4, MembersAreCards DEF PlanAdoptable, Planned, Carrying
  <2>6. Carrying(VerifierKey) \subseteq Members
    BY <1>a, <2>k, <2>3, <2>5 DEF Carrying, OneCardPerKey
  <2>7. Members \subseteq PlannedUpTo(plan) \union Carrying(VerifierKey)
    BY <1>a, <1>3, MembersAreCards DEF PlanAdoptable, PlannedUpTo, Planned, Carrying
  <2>8. PlannedUpTo(plan) \subseteq Members
    BY <2>1 DEF PlannedUpTo
  <2> QED
    BY <2>1, <2>6, <2>7, <2>8
<1> QED
  BY <1>2, <1>3 DEF Sealed, Complete

\* A planner that resumes the plan of a released mission finds everything done.
LEMMA ReleasedCardsStay ==
  ASSUME PlanningInvariant, ~meddled, Released,
         LinkCard \/ \E c \in CardId : FindCard(c)
  PROVE  card' = card
<1>a. TypeOK /\ OpKnown /\ PlanAdoptable /\ Sealed
  BY DEF PlanningInvariant, Standing
<1>b. op.at \in {"find", "link", "confirm"}
  BY DEF LinkCard, FindCard, At
<1>c. op.auto /\ plan # None
  BY <1>a, <1>b DEF OpKnown, Released
<1>d. op.next \in {ExecutorKey(n) : n \in 1..plan} \union {VerifierKey}
  BY <1>a, <1>b, <1>c DEF OpKnown
<1>e. /\ Carrying(op.next) # {}
      /\ \A c \in Carrying(op.next) : card[c].role = op.next[1]
  BY <1>a, <1>c, <1>d, SealedPlan
<1>1. ASSUME NEW c \in CardId, FindCard(c) PROVE card' = card
  BY <1>1, <1>e DEF FindCard
<1>2. CASE LinkCard
  <2>1. /\ op.card \in CardId /\ Exists(op.card) /\ card[op.card].key = op.next
        /\ card' = Bound(op.card, NextRole)
    BY <1>2, <1>a DEF LinkCard, At, OpKnown, Bindable, Canonical
  <2>2. card[op.card].role = NextRole
    BY <1>e, <2>1 DEF Carrying, NextRole
  <2> QED
    BY <1>a, <2>1, <2>2, BoundAgain
<1> QED
  BY <1>1, <1>2

\* The accepted graph stands, and only a mission whose graph was accepted is
\* released.
LEMMA StandingStep ==
  ASSUME PlanningInvariant, Next, ~meddled'
  PROVE  Standing'
<1>a. TypeOK /\ OpKnown
  BY DEF PlanningInvariant
<1>b. ~meddled /\ ~ClientWrites
  BY <1>a, Unmeddled
<1>c. Standing /\ Accepted'
  BY <1>b, AcceptedStep DEF PlanningInvariant
<1>1. CASE LinkExecutionTask
  BY <1>1, <1>a, <1>c DEF LinkExecutionTask, At, OpKnown, Finish, Idle, Released, Standing
<1>2. ASSUME NEW c \in CardId, NEW asked \in BOOLEAN, NEW parents \in SUBSET (CardId \union {Root}),
             AddExecutionTask(c, parents, asked)
      PROVE Standing'
  BY <1>2, <1>c DEF AddExecutionTask, Idle, Released, Standing
<1>3. ASSUME NEW n \in 1..MaxTasks, StorePlan(n) PROVE Standing'
  BY <1>3, <1>a, <1>c DEF StorePlan, At, OpKnown, Materialize, Idle, Released, Standing
<1>4. CASE LinkCard \/ \E c \in CardId : FindCard(c)
  <2>1. op'.at \in {"link", "confirm"}
    BY <1>4, <1>a DEF LinkCard, FindCard, Goto, TypeOK, Op
  <2>2. UNCHANGED <<status, plan, manifest, recorded>>
    BY <1>4 DEF LinkCard, FindCard
  <2>3. CASE Released
    <3>1. card' = card
      BY <1>4, <1>b, <2>3, ReleasedCardsStay
    <3> QED
      BY <1>c, <2>1, <2>2, <2>3, <3>1, SealedStays DEF Standing, Released
  <2>4. CASE ~Released
    BY <1>c, <2>1, <2>2, <2>4 DEF Standing, Released
  <2> QED
    BY <2>3, <2>4
<1>5. CASE AcceptManifest
  <2>1. Sealed' /\ Strangers' = {}
    BY <1>5, <1>b, AcceptedIsSealed
  <2>2. UNCHANGED <<status, plan, recorded>> /\ Acceptable /\ op.at = "accept"
    BY <1>5 DEF AcceptManifest, At
  <2>3. op'.at = "ready" => plan = None
    BY <1>5, <1>a, <2>2 DEF AcceptManifest, Goto, TypeOK, Op, OpKnown
  <2>4. op'.at # "ready" => op'.at = "record"
    BY <1>5, <1>a DEF AcceptManifest, Goto, TypeOK, Op
  <2>5. (Released' => Released) /\ (status = "ready" => manifest # None)
    BY <2>2 DEF Released, Acceptable
  <2> QED
    BY <1>c, <2>1, <2>2, <2>3, <2>4, <2>5 DEF Standing
<1>6. CASE RecordPlan
  <2>1. /\ op.at = "record" /\ op'.at = "ready" /\ UNCHANGED <<status, card, plan, manifest>>
        /\ recorded' = IF recorded = 0 THEN 1 ELSE recorded
    BY <1>6, <1>a DEF RecordPlan, At, Goto, TypeOK, Op
  <2>2. recorded' = 1
    BY <1>c, <2>1 DEF Standing
  <2>3. Sealed' /\ Strangers' = {}
    BY <1>c, <2>1, SealedStays DEF Standing
  <2> QED
    BY <1>c, <2>2, <2>3 DEF Standing
<1>7. CASE FinishPlanning
  <2>1. op.at = "ready" /\ UNCHANGED <<card, plan, manifest, recorded>>
    BY <1>7 DEF FinishPlanning, At
  <2>2. Sealed' /\ Strangers' = {} /\ (plan' # None => recorded' = 1) /\ recorded' \in {0, 1}
    BY <1>c, <2>1, SealedStays DEF Standing
  <2> QED
    BY <1>c, <2>2 DEF Standing
<1>8. ASSUME UNCHANGED <<card, plan, manifest, recorded>>,
             op'.at \in {"record", "ready"} => op'.at = op.at,
             Released' => Released,
             status' = "ready" => status = "ready"
      PROVE Standing'
  BY <1>8, <1>c, SealedStays DEF Standing
<1>9. CASE ModelFails \/ PlannerRaises \/ Interrupted \/ ConfirmCard \/ PlanWithModel \/ FinishPlan
  <2>1. UNCHANGED <<card, plan, manifest, recorded, status>>
    BY <1>9 DEF ModelFails, PlannerRaises, Interrupted, ConfirmCard, PlanWithModel, FinishPlan
  <2>2. op'.at \notin {"record", "ready"}
    <3>1. CASE ModelFails \/ PlannerRaises \/ Interrupted
      BY <3>1 DEF ModelFails, PlannerRaises, Interrupted, Finish, Idle
    <3>2. CASE ConfirmCard
      BY <3>2, <1>a DEF ConfirmCard, TypeOK, Op
    <3>3. CASE PlanWithModel
      BY <3>3 DEF PlanWithModel, Materialize, Idle
    <3>4. CASE FinishPlan
      BY <3>4 DEF FinishPlan, Materialize, Idle
    <3> QED
      BY <1>9, <3>1, <3>2, <3>3, <3>4
  <2> QED
    BY <1>8, <2>1, <2>2 DEF Released
<1>10. CASE StartMission
  <2>1. /\ UNCHANGED <<card, plan, manifest, recorded, op>> /\ op.at = "idle"
        /\ status' \in {"migration", "running"}
    BY <1>10 DEF StartMission, LockFree, At
  <2>2. CASE manifest = None
    BY <1>c, <2>1, <2>2 DEF Standing, Released
  <2>3. CASE manifest # None
    <3>1. Sealed /\ Strangers = {}
      BY <1>10, <1>b, <2>3, StartIsSealed DEF StartMission
    <3>2. Sealed' /\ Strangers' = {}
      BY <2>1, <3>1, SealedStays
    <3> QED
      BY <1>c, <2>1, <3>2 DEF Standing
  <2> QED
    BY <2>2, <2>3
<1>11. CASE PrepareAgain \/ CancelMission
  <2>1. UNCHANGED <<card, plan, manifest, recorded, op>> /\ ~Released' /\ status' # "ready"
    BY <1>11 DEF PrepareAgain, CancelMission, Released
  <2> QED
    BY <1>8, <2>1
<1>12. CASE SecondPasses \/ \E c \in CardId : ClientLooks(c)
  <2>1. UNCHANGED <<card, plan, manifest, recorded, op, status>>
    BY <1>12 DEF SecondPasses, ClientLooks
  <2> QED
    BY <1>8, <2>1 DEF Released
<1> QED
  BY <1>1, <1>2, <1>3, <1>4, <1>5, <1>6, <1>7, <1>9, <1>10, <1>11, <1>12, <1>b DEF Next, Planner

-----------------------------------------------------------------------------
(***************************************************************************)
(* The theorems                                                            *)
(***************************************************************************)

\* The first state.
LEMMA InitPlanning == Init => PlanningInvariant
<1> SUFFICES ASSUME Init PROVE PlanningInvariant
  OBVIOUS
<1>1. TypeOK /\ OpKnown
  BY InitTypes DEF PlanningTypes
<1>2. /\ \A c \in CardId : ~Exists(c)
      /\ plan = None /\ manifest = None /\ recorded = 0 /\ op.at = "idle"
  BY DEF Init, Exists, Idle
<1>3. OneCardPerKey /\ PlanAdoptable
  BY <1>2 DEF OneCardPerKey, PlanAdoptable
<1>4. Untouched /\ ManualCards
  BY <1>2 DEF Untouched, ManualCards, Carrying
<1>5. Position /\ Standing
  BY <1>2 DEF Position, Standing, Released, Accepted
<1> QED
  BY <1>1, <1>3, <1>4, <1>5 DEF PlanningInvariant

\* Every step keeps the invariant.
LEMMA PlanningStep == PlanningInvariant /\ [Next]_vars => PlanningInvariant'
<1> SUFFICES ASSUME PlanningInvariant, [Next]_vars PROVE PlanningInvariant'
  OBVIOUS
<1>1. TypeOK' /\ OpKnown' /\ OneCardPerKey'
  BY TypesStep, OneCardStep DEF PlanningInvariant, PlanningTypes
<1>2. CASE UNCHANGED vars
  <2>1. UNCHANGED <<card, plan, meddled, op, manifest, recorded, status>>
    BY <1>2 DEF vars
  <2>2. PlanAdoptable'
    <3>1. CASE meddled'
      BY <3>1 DEF PlanAdoptable
    <3>2. CASE ~meddled'
      BY <2>1, <3>2, ShapeStays DEF PlanningInvariant
    <3> QED
      BY <3>1, <3>2
  <2>3. ASSUME ~meddled' PROVE Untouched' /\ ManualCards' /\ Position' /\ Standing'
    <3>1. Untouched /\ ManualCards /\ Position /\ Standing /\ PlanAdoptable
      BY <2>1, <2>3 DEF PlanningInvariant
    <3>2. Untouched' /\ ManualCards' /\ Position'
      BY <2>1, <3>1, ShapeStays, PositionStays
    <3>3. Members' = Members
      BY <2>1 DEF Members, Linked, Exists
    <3>4. Standing'
      BY <2>1, <3>1, <3>3, SealedStays, AcceptedStays DEF Standing, Released
    <3> QED
      BY <3>2, <3>4
  <2> QED
    BY <1>1, <2>2, <2>3 DEF PlanningInvariant
<1>3. CASE Next
  <2>1. CASE meddled'
    BY <1>1, <2>1 DEF PlanningInvariant, PlanAdoptable
  <2>2. CASE ~meddled'
    BY <1>1, <1>3, <2>2, ShapeStep, PositionStep, StandingStep DEF PlanningInvariant
  <2> QED
    BY <2>1, <2>2
<1> QED
  BY <1>2, <1>3

\* PlanningInvariant holds of every reachable state, however often planners die and
\* whatever clients do to loose cards.
THEOREM PlanningInvariance == Spec => []PlanningInvariant
<1> QED
  BY InitPlanning, PlanningStep, PTL DEF Spec

\* Every variable keeps its type.
THEOREM PlanningTypeCorrect == Spec => []TypeOK
<1>1. PlanningInvariant => TypeOK
  BY DEF PlanningInvariant
<1> QED
  BY <1>1, PlanningInvariance, PTL

\* No planned card exists twice, also when clients delete, archive and edit cards
\* between a planner's lookup and its link (_create_or_adopt_planned_card).
THEOREM PlannedCardsAreUnique == Spec => []OneCardPerKey
<1>1. PlanningInvariant => OneCardPerKey
  BY DEF PlanningInvariant
<1> QED
  BY <1>1, PlanningInvariance, PTL

\* Whatever a planner leaves of a stored plan is what the next one adopts
\* (_validate_planned_card), for a plan of any length.
THEOREM PlansAreAdopted == Spec => []PlanAdoptable
<1>1. PlanningInvariant => PlanAdoptable
  BY DEF PlanningInvariant
<1> QED
  BY <1>1, PlanningInvariance, PTL

\* A mission is only ready, or running, with the graph that was accepted, and the
\* verifier is behind every executor of it (_accept_or_validate_task_manifest), also
\* when a failed preparation blocked it and it starts from there; a ready one has its
\* plan recorded.
THEOREM GraphIsAccepted == Spec => []AcceptedGraph
<1>1. PlanningInvariant => AcceptedGraph
  BY DEF PlanningInvariant, AcceptedGraph, Standing, Released
<1> QED
  BY <1>1, PlanningInvariance, PTL

\* No card that a dead planner left loose is released with the mission
\* (_task_manifest_payload).
THEOREM OnlyTheMissionIsReleased == Spec => []NothingElseReleased
<1>1. PlanningInvariant => NothingElseReleased
  BY DEF PlanningInvariant, NothingElseReleased, Standing
<1> QED
  BY <1>1, PlanningInvariance, PTL

\* No step redefines a manifest (store_task_manifest).
THEOREM ManifestStays == Spec => ManifestIsFinal
<1>1. ASSUME [Next]_vars, manifest # None PROVE manifest' = manifest
  BY <1>1 DEF Next, Planner, LinkExecutionTask, LinkCard, FindCard, AddExecutionTask, StorePlan,
     ModelFails, ConfirmCard, AcceptManifest, Acceptable, RecordPlan, FinishPlanning, PlannerRaises,
     PlanWithModel, FinishPlan, StartMission, PrepareAgain, CancelMission, Interrupted,
     SecondPasses, ClientLooks, ClientWrites, vars
<1>2. [Next]_vars => [manifest # None => manifest' = manifest]_vars
  BY <1>1
<1> QED
  BY <1>2, PTL DEF Spec, ManifestIsFinal

=============================================================================
