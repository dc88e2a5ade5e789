---------------------- MODULE MissionRepositoryProofs ----------------------
(***************************************************************************)
(* Theorems about MissionRepository for every set of edits, budget and     *)
(* bound: the base is frozen, a mission that succeeded is sealed, its      *)
(* commit is recorded once and adopted after a death, preparation and      *)
(* rollback leave what they should, and the controller keeps the promise   *)
(* of LocalCommit.  One inductive invariant carries them.                  *)
(***************************************************************************)
EXTENDS MissionRepository, TLAPS

USE RepositoryAssumption, NoneAssumption

-----------------------------------------------------------------------------
(***************************************************************************)
(* Types                                                                   *)
(***************************************************************************)

Label == {"idle", "verify_error", "commit_error"} \union PrepareLabel \union VerifyLabel
         \union CommitLabel \union RollbackLabel

\* The positions of the four operations.
LEMMA LabelType ==
  /\ PrepareLabel \subseteq Label /\ VerifyLabel \subseteq Label
  /\ CommitLabel \subseteq Label /\ RollbackLabel \subseteq Label
BY DEF Label

\* What the holder of the lock does next is a position of its own.
LEMMA GotoType ==
  ASSUME op \in Op, NEW label \in Label, Goto(label)
  PROVE  op' \in Op
BY DEF Goto, Op, Label

\* An operation that is over.
LEMMA IdleType == Idle \in Op
BY DEF Idle, Op

\* One that begins.
LEMMA BeginType ==
  ASSUME NEW label \in Label, NEW by \in {"command", "tick"}, Begin(label, by)
  PROVE  op' \in Op
BY DEF Begin, Idle, Op, Label

\* One that raises.
LEMMA RaiseType ==
  ASSUME op \in Op, Raise
  PROVE  op' \in Op
<1>1. [op EXCEPT !.at = "verify_error"] \in Op /\ [op EXCEPT !.at = "commit_error"] \in Op
  BY DEF Op
<1> QED
  BY <1>1, IdleType DEF Raise

\* The phases and statuses that transitions name.
LEMMA PhaseType ==
  /\ {"contract", "environment", "execution", "recovery", "budget", "verification",
      "commit", "cancelled", "complete"} \subseteq Phase
  /\ {"planning", "ready", "running", "blocked", "verifying", "awaiting_approval",
      "committing", "succeeded", "cancelled", "rolled_back"} \subseteq MissionStatus
BY DEF Phase, MissionStatus

\* A transition keeps the type of the mission.
LEMMA TransitionType ==
  ASSUME mission \in Mission, NEW status \in MissionStatus, NEW phase \in Phase,
         Transition(status, phase)
  PROVE  mission' \in Mission
BY DEF Transition, Mission

\* So does a block, which ends the operation.
LEMMA BlockType ==
  ASSUME mission \in Mission, NEW phase \in Phase, Block(phase)
  PROVE  mission' \in Mission /\ op' \in Op
BY TransitionType, IdleType, PhaseType DEF Block, Finish

\* Commits, and what may stand for none of them.
LEMMA CommitType ==
  /\ \A n \in Nat : SourceCommit(n) \in Commit
  /\ \A base \in Commit, by \in {"source", "controller", "other"}, c \in Content :
       Child(base, by, c) \in Commit
  /\ \A commit \in Commit : commit.tree \in Content /\ commit.at \in Nat
  /\ Clean \in Content /\ Edit \subseteq Content
BY DEF SourceCommit, Child, Commit, Content

\* The source repository stands at one of its own commits.
LEMMA SourceType == TypeOK => source \in Commit /\ source = SourceCommit(source.at)
<1> SUFFICES ASSUME TypeOK PROVE source \in Commit /\ source = SourceCommit(source.at)
  OBVIOUS
<1>1. PICK n \in 0..MaxAdvance : source = SourceCommit(n)
  BY DEF TypeOK
<1> QED
  BY <1>1, CommitType DEF SourceCommit

\* Preparation keeps the types.
LEMMA PrepareType ==
  ASSUME TypeOK, Prepare
  PROVE  TypeOK'
<1> USE DEF TypeOK, git, evidence, around, control
<1>1. ASSUME NEW base \in {mission.base, rollbackRef, source}, BeginPreparation(base)
      PROVE  TypeOK'
  <2>1. mission' \in Mission
    <3>1. base \in Commit \union {None}
      BY SourceType DEF Mission
    <3> QED
      BY <1>1, <3>1, PhaseType DEF BeginPreparation, Mission
  <2>2. op' \in Op
    BY <1>1 DEF BeginPreparation, Idle, Op, PrepareLabel
  <2> QED
    BY <1>1, <2>1, <2>2 DEF BeginPreparation
<1>2. CASE CreateRollbackRef
  <2>1. mission.base \in Commit \union {None}
    BY DEF Mission
  <2> QED
    BY <1>2, <2>1, GotoType, LabelType DEF CreateRollbackRef, PrepareLabel
<1>3. CASE AddBranch
  BY <1>3 DEF AddBranch, Mission
<1>4. CASE AddWorktree
  BY <1>4, GotoType, LabelType, CommitType DEF AddWorktree, PrepareLabel
<1>5. CASE CutWorktree
  BY <1>5 DEF CutWorktree, Fault
<1>6. CASE AdoptWorktree
  BY <1>6, GotoType, LabelType DEF AdoptWorktree, Step, PrepareLabel
<1>7. CASE ValidateEnvironment
  BY <1>7, GotoType, LabelType DEF ValidateEnvironment, Step, PrepareLabel
<1>8. CASE RecordController
  <2>1. op' \in Op
    BY <1>8, GotoType, LabelType DEF RecordController, PrepareLabel
  <2> QED
    BY <1>8, <2>1 DEF RecordController
<1>9. CASE FinishPreparation
  BY <1>9, IdleType DEF FinishPreparation, Leave, Finish
<1>10. CASE PreparationFails
  <2>1. mission' \in Mission /\ op' \in Op
    BY <1>10, BlockType, IdleType, PhaseType DEF PreparationFails, Finish
  <2> QED
    BY <1>10, <2>1 DEF PreparationFails
<1> QED
  BY <1>1, <1>2, <1>3, <1>4, <1>5, <1>6, <1>7, <1>8, <1>9, <1>10 DEF Prepare

\* The execution keeps the types.
LEMMA ExecutionType ==
  ASSUME TypeOK, Execution
  PROVE  TypeOK'
<1> USE DEF TypeOK, git, evidence, around, control
<1>1. CASE FinishPlanning
  BY <1>1, TransitionType, PhaseType DEF FinishPlanning
<1>2. CASE StartMission
  BY <1>2, TransitionType, PhaseType DEF StartMission
<1>3. ASSUME NEW c \in Content, Work(c) PROVE TypeOK'
  BY <1>3 DEF Work
<1>4. CASE RecordCommand
  BY <1>4 DEF RecordCommand, Content
<1>5. CASE FinishWork
  BY <1>5 DEF FinishWork
<1>6. CASE BlockExecution
  <2>1. mission' \in Mission
    BY <1>6, TransitionType, PhaseType DEF BlockExecution
  <2> QED
    BY <1>6, <2>1 DEF BlockExecution
<1>7. CASE BlockOverdue
  BY <1>7, TransitionType, PhaseType DEF BlockOverdue
<1>8. CASE RetryMission
  <2>1. working' \in BOOLEAN
    BY <1>8 DEF RetryMission
  <2> QED
    BY <1>8, <2>1, TransitionType, PhaseType DEF RetryMission
<1>9. CASE CancelMission
  BY <1>9, TransitionType, PhaseType DEF CancelMission
<1>10. CASE AcceptManifest
  BY <1>10 DEF AcceptManifest
<1> QED
  BY <1>1, <1>2, <1>3, <1>4, <1>5, <1>6, <1>7, <1>8, <1>9, <1>10 DEF Execution

\* Verification keeps the types; the sealed tree is one by what is known of the snapshot.
LEMMA VerificationType ==
  ASSUME TypeOK, BaseKnown, Position, SealKnown, Verification
  PROVE  TypeOK'
<1> USE DEF TypeOK, git, evidence, around, control
<1>1. ASSUME NEW by \in {"command", "tick"}, NEW label \in {"model", "submit"},
             StartVerification(by, label)
      PROVE  TypeOK'
  <2>1. mission' \in Mission
    <3>1. "verifying" \in MissionStatus /\ "verification" \in Phase
      BY PhaseType
    <3> QED
      BY <1>1, <3>1 DEF StartVerification, Mission
  <2>2. op' \in Op
    BY <1>1, BeginType, LabelType DEF StartVerification, VerifyLabel
  <2> QED
    BY <1>1, <2>1, <2>2 DEF StartVerification
<1>2. CASE ModelAnswers
  BY <1>2, GotoType, LabelType DEF ModelAnswers, Step, VerifyLabel
<1>3. CASE JudgeWorktree
  <2>1. mission' \in Mission /\ op' \in Op
    BY <1>3, BlockType, GotoType, LabelType, PhaseType DEF JudgeWorktree, VerifyLabel
  <2> QED
    BY <1>3, <2>1 DEF JudgeWorktree
<1>4. CASE SealWorktree
  <2>1. branch \in Commit /\ op' \in Op
    BY <1>4, GotoType, LabelType DEF SealWorktree, VerifyLabel, IdentityHolds, BaseKnown
  <2>2. seal' \in Seal
    BY <1>4, <2>1 DEF SealWorktree, Seal
  <2> QED
    BY <1>4, <2>1, <2>2 DEF SealWorktree
<1>5. CASE AdvanceVerified
  <2>1. mission' \in Mission /\ op' \in Op
    <3>1. CASE authority = "supervised"
      BY <1>5, <3>1, TransitionType, IdleType, PhaseType DEF AdvanceVerified, Finish
    <3>2. CASE authority = "automatic"
      BY <1>5, <3>2, TransitionType, IdleType, PhaseType DEF AdvanceVerified, Finish
    <3>3. CASE authority = "withheld"
      BY <1>5, <3>3, TransitionType, IdleType, PhaseType DEF AdvanceVerified, Finish
    <3> QED
      BY <3>1, <3>2, <3>3 DEF Authorities
  <2>2. cleared' \in Content \union {None}
    BY <1>5 DEF AdvanceVerified, SealKnown, Seal, At
  <2> QED
    BY <1>5, <2>1, <2>2 DEF AdvanceVerified
<1>6. CASE ApproveCommit
  <2>1. cleared' \in Content
    BY <1>6 DEF ApproveCommit, SealKnown, Seal
  <2> QED
    BY <1>6, <2>1, TransitionType, PhaseType DEF ApproveCommit
<1>7. CASE DenyMission
  BY <1>7, TransitionType, PhaseType DEF DenyMission
<1> QED
  BY <1>1, <1>2, <1>3, <1>4, <1>5, <1>6, <1>7 DEF Verification

\* From align on the holder has a commit in its hands.
LEMMA PublishedCommit ==
  ASSUME TypeOK, Position, SealKnown, op.at \in Published
  PROVE  op.commit \in Commit
<1>1. op.commit # None
  BY DEF SealKnown
<1> QED
  BY <1>1 DEF TypeOK, Op

\* Committing keeps the types; what is published is a commit of the sealed tree.
LEMMA CommitStepsType ==
  ASSUME TypeOK, Position, SealKnown, CommitSteps
  PROVE  TypeOK'
<1> USE DEF TypeOK, git, evidence, around, control
<1>1. ASSUME NEW by \in {"command", "tick"}, StartCommit(by) PROVE TypeOK'
  BY <1>1, BeginType, LabelType DEF StartCommit, CommitLabel
<1>2. CASE CommitGate
  <2>1. [op EXCEPT !.at = "check"] \in Op /\ [op EXCEPT !.at = "adopt", !.commit = branch] \in Op
    BY DEF Op, CommitLabel
  <2>2. mission' \in Mission /\ op' \in Op
    BY <1>2, <2>1, BlockType, PhaseType DEF CommitGate
  <2> QED
    BY <1>2, <2>2 DEF CommitGate
<1>3. CASE AdoptCommit
  <2>1. [op EXCEPT !.at = "match", !.seen = content] \in Op
    BY DEF Op, CommitLabel
  <2>2. mission' \in Mission /\ op' \in Op
    BY <1>3, <2>1, BlockType, PhaseType DEF AdoptCommit
  <2> QED
    BY <1>3, <2>2 DEF AdoptCommit
<1>4. CASE CheckSeal
  <2>1. [op EXCEPT !.at = "tree", !.seen = content] \in Op
    BY DEF Op, CommitLabel
  <2>2. mission' \in Mission /\ op' \in Op
    BY <1>4, <2>1, BlockType, PhaseType DEF CheckSeal
  <2> QED
    BY <1>4, <2>2 DEF CheckSeal
<1>5. CASE WriteTree
  BY <1>5, GotoType, LabelType DEF WriteTree, Step, CommitLabel
<1>6. CASE Resnapshot
  <2>1. mission' \in Mission /\ op' \in Op
    BY <1>6, BlockType, GotoType, LabelType, PhaseType DEF Resnapshot, CommitLabel
  <2> QED
    BY <1>6, <2>1 DEF Resnapshot
<1>7. CASE PublishCommit
  <2>1. mission.base \in Commit /\ op.seen \in Content
    BY <1>7 DEF PublishCommit, Position, SealKnown, At, CommitLabel, Publishing, Seal, Content
  <2>2. branch' \in Commit
    BY <1>7, <2>1, CommitType DEF PublishCommit
  <2>3. [op EXCEPT !.at = "align", !.commit = branch'] \in Op
    BY <2>2 DEF Op, CommitLabel
  <2> QED
    BY <1>7, <2>2, <2>3 DEF PublishCommit
<1>8. CASE AlignIndex
  <2>1. op.commit \in Commit
    BY <1>8, PublishedCommit DEF AlignIndex, At, Published
  <2> QED
    BY <1>8, <2>1, CommitType, GotoType, LabelType DEF AlignIndex, CommitLabel
<1>9. CASE VerifyClean
  BY <1>9, GotoType, LabelType DEF VerifyClean, Step, CommitLabel
<1>10. CASE StoreVerifiedCommit
  <2>1. op.commit \in Commit \union {None}
    BY DEF Op
  <2>2. mission' \in Mission
    BY <1>10, <2>1 DEF StoreVerifiedCommit, Mission
  <2> QED
    BY <1>10, <2>2, GotoType, LabelType DEF StoreVerifiedCommit, CommitLabel
<1>11. CASE RecordCommit
  <2>1. op.commit \in Commit
    BY <1>11, PublishedCommit DEF RecordCommit, At, Published
  <2>2. commits' \in Seq(Commit)
    BY <1>11, <2>1 DEF RecordCommit
  <2> QED
    BY <1>11, <2>2, GotoType, LabelType DEF RecordCommit, CommitLabel
<1>12. CASE Succeed
  BY <1>12, TransitionType, IdleType, PhaseType DEF Succeed, Finish
<1>13. CASE OperationRaises
  BY <1>13, RaiseType DEF OperationRaises
<1>14. CASE CountError
  <2> DEFINE phase == IF At("verify_error") THEN "verification" ELSE "commit"
             limit == IF At("verify_error") THEN MaxVerifierRetries ELSE MaxCommitRetries
             count == IF errors[phase] > limit THEN errors[phase] ELSE errors[phase] + 1
  <2>1. phase \in {"verification", "commit"} /\ count \in Nat
    OBVIOUS
  <2>2. errors' \in [{"verification", "commit"} -> Nat]
    <3>1. errors' = [errors EXCEPT ![phase] = count]
      BY <1>14 DEF CountError
    <3> QED
      BY <2>1, <3>1
  <2>3. mission' \in Mission
    BY <1>14, <2>1, TransitionType, PhaseType DEF CountError
  <2> QED
    BY <1>14, <2>2, <2>3, IdleType DEF CountError, Finish
<1>15. CASE MatchTree
  <2>1. mission' \in Mission /\ op' \in Op
    BY <1>15, BlockType, GotoType, LabelType, PhaseType DEF MatchTree, CommitLabel
  <2> QED
    BY <1>15, <2>1 DEF MatchTree
<1>16. CASE RetestCommit
  <2>1. mission' \in Mission /\ op' \in Op
    BY <1>16, BlockType, GotoType, LabelType, PhaseType DEF RetestCommit, CommitLabel
  <2> QED
    BY <1>16, <2>1 DEF RetestCommit
<1> QED
  BY <1>1, <1>2, <1>3, <1>4, <1>5, <1>6, <1>7, <1>8, <1>9, <1>10, <1>11, <1>12, <1>13, <1>14,
     <1>15, <1>16
  DEF CommitSteps

\* A rollback keeps the types.
LEMMA RollbackType ==
  ASSUME TypeOK, Rollback
  PROVE  TypeOK'
<1> USE DEF TypeOK, git, evidence, around, control
<1>1. CASE RollbackMission
  BY <1>1, BeginType, LabelType DEF RollbackMission, RollbackLabel
<1>2. CASE ResetHard
  BY <1>2, GotoType, LabelType, CommitType DEF ResetHard, RollbackLabel, Mission
<1>3. CASE PurgeUntracked
  BY <1>3, GotoType, LabelType, CommitType DEF PurgeUntracked, RollbackLabel
<1>4. CASE VerifyRestored
  BY <1>4, GotoType, LabelType DEF VerifyRestored, Step, RollbackLabel
<1>5. CASE FinishRollback
  BY <1>5, TransitionType, IdleType, PhaseType DEF FinishRollback, Finish
<1>6. CASE RollbackRaises
  BY <1>6, IdleType DEF RollbackRaises, Leave, Finish
<1> QED
  BY <1>1, <1>2, <1>3, <1>4, <1>5, <1>6 DEF Rollback

\* Faults and foreign commits keep the types.
LEMMA EnvironmentType ==
  ASSUME TypeOK, Environment
  PROVE  TypeOK'
<1> USE DEF TypeOK, git, evidence, around, control, Fault, Meddle
<1>1. CASE SourceAdvances
  <2>1. source.at \in 0..MaxAdvance
    BY DEF SourceCommit
  <2>2. source' \in {SourceCommit(n) : n \in 0..MaxAdvance}
    BY <1>1, <2>1 DEF SourceAdvances
  <2> QED
    BY <1>1, <2>2 DEF SourceAdvances
<1>2. CASE DeadlinePasses
  BY <1>2 DEF DeadlinePasses
<1>3. CASE Interrupted
  BY <1>3, IdleType DEF Interrupted, Finish
<1>4. CASE MoveRollbackRef
  BY <1>4, CommitType DEF MoveRollbackRef
<1>5. ASSUME NEW c \in Content, EditOutside(c) PROVE TypeOK'
  BY <1>5 DEF EditOutside
<1>6. ASSUME NEW by \in {"controller", "other"}, NEW c \in Edit, CommitOutside(by, c)
      PROVE  TypeOK'
  <2>1. branch' \in Commit
    BY <1>6, CommitType DEF CommitOutside
  <2> QED
    BY <1>6, <2>1, CommitType DEF CommitOutside
<1> QED
  BY <1>1, <1>2, <1>3, <1>4, <1>5, <1>6 DEF Environment

-----------------------------------------------------------------------------
(***************************************************************************)
(* The invariant                                                           *)
(***************************************************************************)

\* The first state.
LEMMA InitInvariant == Init => RepositoryInvariant
<1> SUFFICES ASSUME Init PROVE RepositoryInvariant
  OBVIOUS
<1> USE DEF Init, Idle
<1>1. TypeOK
  <2>1. mission \in Mission /\ source \in {SourceCommit(n) : n \in 0..MaxAdvance}
    BY DEF Mission, MissionStatus, Phase
  <2>2. authority \in Authorities /\ commits \in Seq(Commit)
    OBVIOUS
  <2>3. errors \in [{"verification", "commit"} -> Nat]
    OBVIOUS
  <2> QED
    BY <2>1, <2>2, <2>3, IdleType, CommitType DEF TypeOK
<1>2. BaseKnown /\ Position /\ SealKnown /\ OwnWorld
  BY DEF BaseKnown, SourceCommit, Position, SealKnown, OwnWorld, Adopting, Publishing, Published,
         PrepareLabel, VerifyLabel, CommitLabel, RollbackLabel
<1>3. EnvironmentAdoptable /\ SucceededIsSealed /\ CommitRecordedOnce /\ RollbackRestores
  BY DEF EnvironmentAdoptable, SucceededIsSealed, CommitRecordedOnce, RollbackRestores
<1> QED
  BY <1>1, <1>2, <1>3 DEF RepositoryInvariant

\* A step that only looks can disturb nothing but what its position says.
LEMMA LookingKeeps ==
  ASSUME RepositoryInvariant, TypeOK', Position', SealKnown', OwnWorld',
         UNCHANGED <<git, evidence, mission, meddled>>
  PROVE  RepositoryInvariant'
<1>1. BaseKnown' /\ EnvironmentAdoptable' /\ RollbackRestores'
  BY DEF RepositoryInvariant, BaseKnown, EnvironmentAdoptable, RollbackRestores, git
<1>2. SucceededIsSealed' /\ CommitRecordedOnce'
  BY DEF RepositoryInvariant, SucceededIsSealed, CommitRecordedOnce, evidence
<1> QED
  BY <1>1, <1>2 DEF RepositoryInvariant

\* Whoever returns or raises leaves a state that says nothing about a position.
LEMMA LeavingKeeps ==
  ASSUME RepositoryInvariant, TypeOK', UNCHANGED <<git, evidence, mission, meddled>>,
         op' = op \/ op'.at \in {"idle", "verify_error", "commit_error"}
  PROVE  RepositoryInvariant'
<1> USE DEF RepositoryInvariant, git, evidence
<1>1. Position'
  BY DEF Position, PrepareLabel, VerifyLabel, CommitLabel, RollbackLabel
<1>2. SealKnown'
  BY DEF SealKnown, CommitLabel, Adopting, Publishing, Published
<1>3. OwnWorld'
  BY DEF OwnWorld
<1> QED
  BY <1>1, <1>2, <1>3, LookingKeeps

\* A mission that has started and blocks keeps its refs and its evidence.
LEMMA BlockingKeeps ==
  ASSUME RepositoryInvariant, TypeOK', UNCHANGED <<git, evidence, meddled>>,
         NEW phase \in Phase \ {"environment"}, Transition("blocked", phase),
         mission.status \in {"running", "verifying", "awaiting_approval", "committing"},
         op'.at = "idle" \/ (op' = op /\ mission.status = "running")
  PROVE  RepositoryInvariant'
<1> USE DEF RepositoryInvariant, git, evidence
<1>1. /\ mission'.status = "blocked" /\ mission'.phase = phase
      /\ mission'.base = mission.base /\ mission'.verified = mission.verified
  BY DEF Transition, TypeOK, Mission
<1>2. BaseKnown' /\ Position'
  BY <1>1 DEF BaseKnown, Position, PrepareLabel, VerifyLabel, CommitLabel, RollbackLabel
<1>3. SealKnown' /\ OwnWorld'
  BY <1>1 DEF Position, SealKnown, OwnWorld, CommitLabel, VerifyLabel, RollbackLabel, Adopting,
              Publishing, Published
<1>4. EnvironmentAdoptable' /\ SucceededIsSealed' /\ CommitRecordedOnce' /\ RollbackRestores'
  BY <1>1 DEF EnvironmentAdoptable, SucceededIsSealed, CommitRecordedOnce, RollbackRestores
<1> QED
  BY <1>2, <1>3, <1>4

\* Preparation fixes the base once and puts branch, files and index there.
LEMMA PrepareKeeps ==
  ASSUME RepositoryInvariant, Prepare
  PROVE  RepositoryInvariant'
<1> USE DEF RepositoryInvariant, At, LockFree, Goto, git, evidence, around, control
<1>1. ASSUME NEW base \in {mission.base, rollbackRef, source}, BeginPreparation(base)
      PROVE  RepositoryInvariant'
  <2> USE <1>1 DEF BeginPreparation, Idle
  <2>1. TypeOK'
    BY PrepareType DEF Prepare
  <2>2. base \in Commit /\ rollbackRef \in {None, base} /\ mission.base \in {None, base}
    BY SourceType DEF TypeOK, Mission
  <2>3. base = SourceCommit(base.at)
    BY <2>2, SourceType DEF BaseKnown
  <2>4. BaseKnown' /\ Position'
    BY <2>2, <2>3 DEF TypeOK, Mission, BaseKnown, Position, PrepareLabel, VerifyLabel, CommitLabel, RollbackLabel
  <2>5. SealKnown' /\ OwnWorld'
    BY DEF TypeOK, Mission, SealKnown, OwnWorld, CommitLabel, Adopting, Publishing, Published
  <2>6. EnvironmentAdoptable'
    BY <2>2 DEF TypeOK, Mission, BaseKnown, EnvironmentAdoptable
  <2>7. SucceededIsSealed' /\ CommitRecordedOnce' /\ RollbackRestores'
    BY DEF TypeOK, Mission, SucceededIsSealed, CommitRecordedOnce, RollbackRestores
  <2> QED
    BY <2>1, <2>4, <2>5, <2>6, <2>7
<1>2. CASE CreateRollbackRef
  <2> USE <1>2 DEF CreateRollbackRef
  <2>1. TypeOK'
    BY PrepareType DEF Prepare
  <2>2. BaseKnown' /\ Position' /\ SealKnown' /\ OwnWorld'
    BY DEF TypeOK, Op, BaseKnown, Position, SealKnown, OwnWorld, Adopting, Publishing, Published, PrepareLabel, VerifyLabel, CommitLabel, RollbackLabel
  <2>3. EnvironmentAdoptable' /\ RollbackRestores'
    BY DEF Position, EnvironmentAdoptable, RollbackRestores, PrepareLabel
  <2>4. SucceededIsSealed' /\ CommitRecordedOnce'
    BY DEF SucceededIsSealed, CommitRecordedOnce
  <2> QED
    BY <2>1, <2>2, <2>3, <2>4
<1>3. CASE AddBranch
  <2> USE <1>3 DEF AddBranch
  <2>1. TypeOK'
    BY PrepareType DEF Prepare
  <2>2. BaseKnown' /\ Position' /\ SealKnown' /\ OwnWorld'
    BY DEF BaseKnown, Position, SealKnown, OwnWorld, PrepareLabel
  <2>3. EnvironmentAdoptable' /\ RollbackRestores'
    BY DEF Position, EnvironmentAdoptable, RollbackRestores, PrepareLabel
  <2>4. SucceededIsSealed' /\ CommitRecordedOnce'
    BY DEF SucceededIsSealed, CommitRecordedOnce
  <2> QED
    BY <2>1, <2>2, <2>3, <2>4
<1>4. CASE AddWorktree
  <2> USE <1>4 DEF AddWorktree
  <2>1. TypeOK'
    BY PrepareType DEF Prepare
  <2>2. BaseKnown' /\ Position' /\ SealKnown' /\ OwnWorld'
    BY DEF TypeOK, Op, BaseKnown, Position, SealKnown, OwnWorld, Adopting, Publishing, Published, PrepareLabel, VerifyLabel, CommitLabel, RollbackLabel
  <2>3. EnvironmentAdoptable' /\ RollbackRestores'
    BY DEF Position, EnvironmentAdoptable, RollbackRestores, PrepareLabel
  <2>4. SucceededIsSealed' /\ CommitRecordedOnce'
    BY DEF SucceededIsSealed, CommitRecordedOnce
  <2> QED
    BY <2>1, <2>2, <2>3, <2>4
<1>5. CASE CutWorktree
  <2> USE <1>5 DEF CutWorktree
  <2>1. TypeOK'
    BY PrepareType DEF Prepare
  <2>2. BaseKnown' /\ Position' /\ SealKnown' /\ OwnWorld'
    BY DEF BaseKnown, Position, SealKnown, OwnWorld, Fault
  <2>3. EnvironmentAdoptable' /\ RollbackRestores'
    BY DEF EnvironmentAdoptable, RollbackRestores
  <2>4. SucceededIsSealed' /\ CommitRecordedOnce'
    BY DEF SucceededIsSealed, CommitRecordedOnce
  <2> QED
    BY <2>1, <2>2, <2>3, <2>4
<1>6. CASE AdoptWorktree
  <2> USE <1>6 DEF AdoptWorktree, Step
  <2>1. TypeOK'
    BY PrepareType DEF Prepare
  <2>2. Position' /\ SealKnown'
    BY DEF TypeOK, Op, Mission, Seal, Position, SealKnown, Adopting, Publishing, Published, PrepareLabel, VerifyLabel, CommitLabel, RollbackLabel
  <2>3. OwnWorld'
    BY DEF TypeOK, Op, Mission, Seal, Position, SealKnown, OwnWorld, BaseKnown, PrepareLabel, VerifyLabel, CommitLabel, RollbackLabel
  <2> QED
    BY <2>1, <2>2, <2>3, LookingKeeps
<1>7. CASE ValidateEnvironment
  <2> USE <1>7 DEF ValidateEnvironment, Step
  <2>1. TypeOK'
    BY PrepareType DEF Prepare
  <2>2. Position' /\ SealKnown'
    BY DEF TypeOK, Op, Mission, Seal, Position, SealKnown, Adopting, Publishing, Published, PrepareLabel, VerifyLabel, CommitLabel, RollbackLabel
  <2>3. OwnWorld'
    BY DEF TypeOK, Op, Mission, Seal, Position, SealKnown, OwnWorld, BaseKnown, PrepareLabel, VerifyLabel, CommitLabel, RollbackLabel
  <2> QED
    BY <2>1, <2>2, <2>3, LookingKeeps
<1>8. CASE RecordController
  <2> USE <1>8 DEF RecordController, Step
  <2>1. TypeOK'
    BY PrepareType DEF Prepare
  <2>2. Position' /\ SealKnown'
    BY DEF TypeOK, Op, Mission, Seal, Position, SealKnown, Adopting, Publishing, Published, PrepareLabel, VerifyLabel, CommitLabel, RollbackLabel
  <2>3. OwnWorld'
    BY DEF TypeOK, Op, Mission, Seal, Position, SealKnown, OwnWorld, BaseKnown, PrepareLabel, VerifyLabel, CommitLabel, RollbackLabel
  <2> QED
    BY <2>1, <2>2, <2>3, LookingKeeps
<1>9. CASE FinishPreparation
  <2>1. TypeOK'
    BY <1>9, PrepareType DEF Prepare
  <2> QED
    BY <1>9, <2>1, LeavingKeeps DEF FinishPreparation, Leave, Finish, Idle
<1>10. CASE PreparationFails
  <2>1. TypeOK'
    BY <1>10, PrepareType DEF Prepare
  <2>2. mission.status = "planning" /\ op'.at = "idle"
    BY <1>10 DEF PreparationFails, Position, Block, Finish, Idle
  <2>3. mission' = [mission EXCEPT !.status = "blocked", !.phase = "environment"]
    BY <1>10, <2>2 DEF PreparationFails, Block, Transition
  <2>4. BaseKnown' /\ Position' /\ SealKnown' /\ OwnWorld'
    BY <1>10, <2>2, <2>3
    DEF PreparationFails, TypeOK, Mission, BaseKnown, Position, SealKnown, OwnWorld, Adopting,
        Publishing, Published, PrepareLabel, VerifyLabel, CommitLabel, RollbackLabel
  <2>5. EnvironmentAdoptable' /\ RollbackRestores'
    BY <1>10, <2>2, <2>3
    DEF PreparationFails, TypeOK, Mission, EnvironmentAdoptable, RollbackRestores
  <2>6. SucceededIsSealed' /\ CommitRecordedOnce'
    BY <1>10, <2>2, <2>3
    DEF PreparationFails, TypeOK, Mission, SucceededIsSealed, CommitRecordedOnce
  <2> QED
    BY <2>1, <2>4, <2>5, <2>6
<1> QED
  BY <1>1, <1>2, <1>3, <1>4, <1>5, <1>6, <1>7, <1>8, <1>9, <1>10 DEF Prepare

\* Work changes files while nothing is sealed for them.
LEMMA ExecutionKeeps ==
  ASSUME RepositoryInvariant, Execution
  PROVE  RepositoryInvariant'
<1> USE DEF RepositoryInvariant, At, LockFree, Goto, git, evidence, around, control
<1>1. CASE FinishPlanning
  <2> USE <1>1 DEF FinishPlanning
  <2>1. TypeOK'
    BY ExecutionType DEF Execution
  <2>2. BaseKnown' /\ Position' /\ SealKnown' /\ OwnWorld'
    BY DEF Transition, TypeOK, Mission, BaseKnown, Position, SealKnown, OwnWorld, Adopting, Publishing, Published, PrepareLabel, VerifyLabel, CommitLabel, RollbackLabel
  <2>3. EnvironmentAdoptable' /\ RollbackRestores'
    BY DEF Transition, TypeOK, Mission, EnvironmentAdoptable, RollbackRestores
  <2>4. SucceededIsSealed' /\ CommitRecordedOnce'
    BY DEF Transition, TypeOK, Mission, SucceededIsSealed, CommitRecordedOnce
  <2> QED
    BY <2>1, <2>2, <2>3, <2>4
<1>2. CASE StartMission
  <2> USE <1>2 DEF StartMission
  <2>1. TypeOK'
    BY ExecutionType DEF Execution
  <2>2. BaseKnown' /\ Position' /\ SealKnown' /\ OwnWorld'
    BY DEF Transition, TypeOK, Mission, BaseKnown, Position, SealKnown, OwnWorld, Adopting, Publishing, Published, PrepareLabel, VerifyLabel, CommitLabel, RollbackLabel
  <2>3. EnvironmentAdoptable' /\ RollbackRestores'
    BY DEF Transition, TypeOK, Mission, EnvironmentAdoptable, RollbackRestores
  <2>4. SucceededIsSealed' /\ CommitRecordedOnce'
    BY DEF Transition, TypeOK, Mission, SucceededIsSealed, CommitRecordedOnce
  <2> QED
    BY <2>1, <2>2, <2>3, <2>4
<1>3. ASSUME NEW c \in Content, Work(c) PROVE RepositoryInvariant'
  <2> USE <1>3 DEF Work
  <2>1. TypeOK'
    BY ExecutionType DEF Execution
  <2>2. BaseKnown' /\ Position' /\ SealKnown' /\ OwnWorld'
    BY DEF BaseKnown, Position, SealKnown, OwnWorld, PrepareLabel, VerifyLabel, CommitLabel, RollbackLabel
  <2>3. EnvironmentAdoptable' /\ RollbackRestores'
    BY DEF EnvironmentAdoptable, RollbackRestores
  <2>4. SucceededIsSealed' /\ CommitRecordedOnce'
    BY DEF SucceededIsSealed, CommitRecordedOnce
  <2> QED
    BY <2>1, <2>2, <2>3, <2>4
<1>4. CASE RecordCommand
  <2> USE <1>4 DEF RecordCommand
  <2>1. TypeOK'
    BY ExecutionType DEF Execution
  <2>2. BaseKnown' /\ Position' /\ SealKnown' /\ OwnWorld'
    BY DEF BaseKnown, Position, SealKnown, OwnWorld
  <2>3. EnvironmentAdoptable' /\ RollbackRestores'
    BY DEF EnvironmentAdoptable, RollbackRestores
  <2>4. SucceededIsSealed' /\ CommitRecordedOnce'
    BY DEF SucceededIsSealed, CommitRecordedOnce
  <2> QED
    BY <2>1, <2>2, <2>3, <2>4
<1>5. CASE FinishWork
  <2>1. TypeOK'
    BY <1>5, ExecutionType DEF Execution
  <2> QED
    BY <1>5, <2>1, LeavingKeeps DEF FinishWork
<1>6. CASE BlockExecution
  <2>1. TypeOK'
    BY <1>6, ExecutionType DEF Execution
  <2>2. PICK phase \in {"execution", "recovery"} : Transition("blocked", phase)
    BY <1>6 DEF BlockExecution
  <2> QED
    BY <1>6, <2>1, <2>2, PhaseType, BlockingKeeps DEF BlockExecution
<1>7. CASE BlockOverdue
  <2>1. TypeOK'
    BY <1>7, ExecutionType DEF Execution
  <2> QED
    BY <1>7, <2>1, PhaseType, BlockingKeeps DEF BlockOverdue
<1>8. CASE RetryMission
  <2> USE <1>8 DEF RetryMission
  <2>1. TypeOK'
    BY ExecutionType DEF Execution
  <2>2. BaseKnown' /\ Position' /\ SealKnown' /\ OwnWorld'
    BY DEF Transition, TypeOK, Mission, BaseKnown, Position, SealKnown, OwnWorld, Adopting, Publishing, Published, PrepareLabel, VerifyLabel, CommitLabel, RollbackLabel
  <2>3. EnvironmentAdoptable' /\ RollbackRestores'
    BY DEF Transition, TypeOK, Mission, EnvironmentAdoptable, RollbackRestores
  <2>4. SucceededIsSealed' /\ CommitRecordedOnce'
    BY DEF Transition, TypeOK, Mission, SucceededIsSealed, CommitRecordedOnce
  <2> QED
    BY <2>1, <2>2, <2>3, <2>4
<1>9. CASE CancelMission
  <2> USE <1>9 DEF CancelMission
  <2>1. TypeOK'
    BY ExecutionType DEF Execution
  <2>2. BaseKnown' /\ Position' /\ SealKnown' /\ OwnWorld'
    BY DEF Transition, TypeOK, Mission, BaseKnown, Position, SealKnown, OwnWorld, Adopting, Publishing, Published, PrepareLabel, VerifyLabel, CommitLabel, RollbackLabel
  <2>3. EnvironmentAdoptable' /\ RollbackRestores'
    BY DEF Transition, TypeOK, Mission, EnvironmentAdoptable, RollbackRestores
  <2>4. SucceededIsSealed' /\ CommitRecordedOnce'
    BY DEF Transition, TypeOK, Mission, SucceededIsSealed, CommitRecordedOnce
  <2> QED
    BY <2>1, <2>2, <2>3, <2>4
<1>10. CASE AcceptManifest
  <2>1. TypeOK'
    BY <1>10, ExecutionType DEF Execution
  <2> QED
    BY <1>10, <2>1, LeavingKeeps DEF AcceptManifest
<1> QED
  BY <1>1, <1>2, <1>3, <1>4, <1>5, <1>6, <1>7, <1>8, <1>9, <1>10 DEF Execution

\* What is sealed is the snapshot that was tested.
LEMMA VerificationKeeps ==
  ASSUME RepositoryInvariant, Verification
  PROVE  RepositoryInvariant'
<1> USE DEF RepositoryInvariant, At, LockFree, Goto, git, evidence, around, control
<1>1. ASSUME NEW by \in {"command", "tick"}, NEW label \in {"model", "submit"},
             StartVerification(by, label)
      PROVE  RepositoryInvariant'
  <2> USE <1>1 DEF StartVerification, Begin, Idle
  <2>1. TypeOK'
    BY VerificationType DEF Verification
  <2>2. BaseKnown' /\ Position' /\ SealKnown' /\ OwnWorld'
    BY DEF TypeOK, Mission, BaseKnown, Position, SealKnown, OwnWorld, Adopting, Publishing, Published, PrepareLabel, VerifyLabel, CommitLabel, RollbackLabel
  <2>3. EnvironmentAdoptable' /\ RollbackRestores'
    BY DEF TypeOK, Mission, EnvironmentAdoptable, RollbackRestores
  <2>4. SucceededIsSealed' /\ CommitRecordedOnce'
    BY DEF TypeOK, Mission, SucceededIsSealed, CommitRecordedOnce
  <2> QED
    BY <2>1, <2>2, <2>3, <2>4
<1>2. CASE ModelAnswers
  <2> USE <1>2 DEF ModelAnswers, Step
  <2>1. TypeOK'
    BY VerificationType DEF Verification
  <2>2. Position' /\ SealKnown'
    BY DEF TypeOK, Op, Mission, Seal, Position, SealKnown, Adopting, Publishing, Published, PrepareLabel, VerifyLabel, CommitLabel, RollbackLabel
  <2>3. OwnWorld'
    BY DEF TypeOK, Op, Mission, Seal, Position, SealKnown, OwnWorld, BaseKnown, PrepareLabel, VerifyLabel, CommitLabel, RollbackLabel
  <2> QED
    BY <2>1, <2>2, <2>3, LookingKeeps
<1>3. CASE JudgeWorktree
  <2>1. TypeOK'
    BY <1>3, VerificationType DEF Verification
  <2>2. CASE Block("verification")
    <3>1. mission.status \in {"verifying", "committing"}
      BY <1>3 DEF JudgeWorktree, Position, VerifyLabel, CommitLabel
    <3>2. Transition("blocked", "verification") /\ op'.at = "idle" /\ "verification" \in Phase \ {"environment"}
      BY <2>2, PhaseType DEF Block, Finish, Idle
    <3> QED
      BY <1>3, <2>1, <3>1, <3>2, BlockingKeeps DEF JudgeWorktree
  <2>3. CASE ~Block("verification")
    <3> USE <1>3, <2>3 DEF JudgeWorktree
    <3>1. Position' /\ SealKnown'
      BY DEF ReportPasses, Op, TypeOK, Mission, Seal, Position, SealKnown, BaseKnown, Adopting, Publishing, Published, PrepareLabel, VerifyLabel, CommitLabel, RollbackLabel
    <3>2. OwnWorld'
      BY DEF ReportPasses, Op, TypeOK, Mission, Seal, Position, SealKnown, OwnWorld, PrepareLabel, VerifyLabel, CommitLabel, RollbackLabel
    <3> QED
      BY <2>1, <3>1, <3>2, LookingKeeps
  <2> QED
    BY <2>2, <2>3
<1>4. CASE SealWorktree
  <2> USE <1>4 DEF SealWorktree
  <2>1. TypeOK'
    BY VerificationType DEF Verification
  <2>2. seal' \in Seal /\ op'.at = "advance" /\ mission.status = "verifying"
    <3>1. branch \in Commit
      BY DEF TypeOK, BaseKnown, IdentityHolds
    <3> QED
      BY <3>1 DEF TypeOK, Seal, Op, Position, VerifyLabel
  <2>3. BaseKnown' /\ Position' /\ SealKnown' /\ OwnWorld'
    BY <2>2 DEF BaseKnown, Position, SealKnown, OwnWorld, Adopting, Publishing, Published, PrepareLabel, VerifyLabel, CommitLabel, RollbackLabel
  <2>4. EnvironmentAdoptable' /\ RollbackRestores' /\ SucceededIsSealed' /\ CommitRecordedOnce'
    BY <2>2 DEF EnvironmentAdoptable, RollbackRestores, SucceededIsSealed, CommitRecordedOnce
  <2> QED
    BY <2>1, <2>3, <2>4
<1>5. CASE AdvanceVerified
  <2>1. TypeOK'
    BY <1>5, VerificationType DEF Verification
  <2>2. PICK status \in {"awaiting_approval", "committing", "blocked"} :
          /\ mission' = [mission EXCEPT !.status = status, !.phase = "commit"]
          /\ status = "committing" => cleared' = seal.content
    BY <1>5 DEF AdvanceVerified, Transition, TypeOK, Authorities
  <2>3. mission.status = "verifying" /\ op'.at = "idle"
    BY <1>5 DEF AdvanceVerified, Position, VerifyLabel, Finish, Idle
  <2> USE <1>5, <2>2, <2>3 DEF AdvanceVerified
  <2>4. BaseKnown' /\ Position'
    BY DEF TypeOK, Mission, BaseKnown, Position, PrepareLabel, VerifyLabel, CommitLabel, RollbackLabel
  <2>5. SealKnown' /\ OwnWorld'
    BY DEF TypeOK, Mission, SealKnown, OwnWorld, Adopting, Publishing, Published, CommitLabel
  <2>6. EnvironmentAdoptable' /\ RollbackRestores' /\ SucceededIsSealed' /\ CommitRecordedOnce'
    <3>1. mission'.status = status /\ mission'.phase = "commit"
      BY DEF TypeOK, Mission
    <3> QED
      BY <3>1 DEF EnvironmentAdoptable, RollbackRestores, SucceededIsSealed, CommitRecordedOnce
  <2> QED
    BY <2>1, <2>4, <2>5, <2>6
<1>6. CASE ApproveCommit
  <2> USE <1>6 DEF ApproveCommit
  <2>1. TypeOK'
    BY VerificationType DEF Verification
  <2>2. BaseKnown' /\ Position' /\ SealKnown' /\ OwnWorld'
    BY DEF Transition, TypeOK, Mission, BaseKnown, Position, SealKnown, OwnWorld, Adopting, Publishing, Published, PrepareLabel, VerifyLabel, CommitLabel, RollbackLabel
  <2>3. EnvironmentAdoptable' /\ RollbackRestores'
    BY DEF Transition, TypeOK, Mission, EnvironmentAdoptable, RollbackRestores
  <2>4. SucceededIsSealed' /\ CommitRecordedOnce'
    BY DEF Transition, TypeOK, Mission, SucceededIsSealed, CommitRecordedOnce
  <2> QED
    BY <2>1, <2>2, <2>3, <2>4
<1>7. CASE DenyMission
  <2>1. TypeOK'
    BY <1>7, VerificationType DEF Verification
  <2> QED
    BY <1>7, <2>1, PhaseType, BlockingKeeps DEF DenyMission
<1> QED
  BY <1>1, <1>2, <1>3, <1>4, <1>5, <1>6, <1>7 DEF Verification

\* What is committed is what is sealed, whether it is new or found again.
LEMMA CommitStepsKeeps ==
  ASSUME RepositoryInvariant, CommitSteps
  PROVE  RepositoryInvariant'
<1> USE DEF RepositoryInvariant, At, LockFree, Goto, git, evidence, around, control
<1>1. ASSUME NEW by \in {"command", "tick"}, StartCommit(by) PROVE RepositoryInvariant'
  <2> USE <1>1 DEF StartCommit, Step, Begin, Idle
  <2>1. TypeOK'
    BY CommitStepsType DEF CommitSteps
  <2>2. Position' /\ SealKnown'
    BY DEF TypeOK, Op, Mission, Seal, Position, SealKnown, Adopting, Publishing, Published, PrepareLabel, VerifyLabel, CommitLabel, RollbackLabel
  <2>3. OwnWorld'
    BY DEF TypeOK, Op, Mission, Seal, Position, SealKnown, OwnWorld, BaseKnown, PrepareLabel, VerifyLabel, CommitLabel, RollbackLabel
  <2> QED
    BY <2>1, <2>2, <2>3, LookingKeeps
<1>2. CASE CommitGate
  <2>1. TypeOK'
    BY <1>2, CommitStepsType DEF CommitSteps
  <2>2. CASE seal = None \/ seal.head # mission.base
    <3>1. mission.status \in {"verifying", "committing"}
      BY <1>2 DEF CommitGate, Position, VerifyLabel, CommitLabel
    <3>2. Transition("blocked", "commit") /\ op'.at = "idle" /\ "commit" \in Phase \ {"environment"}
      BY <1>2, <2>2, PhaseType DEF CommitGate, Block, Finish, Idle
    <3>3. UNCHANGED <<git, evidence, meddled>>
      BY <1>2, <2>2 DEF CommitGate
    <3> QED
      BY <2>1, <3>1, <3>2, <3>3, BlockingKeeps
  <2>3. CASE ~(seal = None \/ seal.head # mission.base)
    <3> USE <1>2, <2>3 DEF CommitGate
    <3>1. /\ seal # None /\ seal.head = mission.base /\ mission.status = "committing"
          /\ UNCHANGED <<git, mission, checked, seal, cleared, commits, meddled>>
      BY DEF Position, CommitLabel
    <3>2. branch \in Commit /\ branch.at = mission.base.at
      BY DEF TypeOK, BaseKnown, IdentityHolds
    <3>3. ASSUME branch = mission.base PROVE Position' /\ SealKnown' /\ OwnWorld'
      <4>1. op'.at = "check" /\ found' = None
        BY <3>1, <3>3 DEF TypeOK, Op
      <4> QED
        BY <3>1, <4>1
        DEF Position, SealKnown, OwnWorld, Adopting, Publishing, Published, PrepareLabel,
            VerifyLabel, CommitLabel, RollbackLabel
    <3>4. ASSUME branch # mission.base PROVE Position' /\ SealKnown' /\ OwnWorld'
      <4>1. op'.at = "adopt" /\ op'.commit = branch /\ found' = branch
        BY <3>1, <3>4 DEF TypeOK, Op
      <4>2. Position' /\ OwnWorld'
        BY <3>1, <4>1
        DEF Position, OwnWorld, PrepareLabel, VerifyLabel, CommitLabel, RollbackLabel
      <4>3. meddled = 0 => /\ branch = Child(mission.base, "controller", seal.content)
                           /\ seal.content \in checked
        BY <3>1, <3>4 DEF OwnWorld
      <4>4. SealKnown'
        BY <3>1, <3>2, <4>1, <4>3 DEF SealKnown, Adopting, Publishing, Published, CommitLabel
      <4> QED
        BY <4>2, <4>4
    <3>5. BaseKnown' /\ EnvironmentAdoptable' /\ RollbackRestores' /\ SucceededIsSealed'
          /\ CommitRecordedOnce'
      BY <3>1
      DEF BaseKnown, EnvironmentAdoptable, RollbackRestores, SucceededIsSealed, CommitRecordedOnce
    <3> QED
      BY <2>1, <3>3, <3>4, <3>5
  <2> QED
    BY <2>2, <2>3
<1>3. CASE AdoptCommit
  <2>1. TypeOK'
    BY <1>3, CommitStepsType DEF CommitSteps
  <2>2. CASE Block("commit")
    <3>1. mission.status \in {"verifying", "committing"}
      BY <1>3 DEF AdoptCommit, Position, VerifyLabel, CommitLabel
    <3>2. Transition("blocked", "commit") /\ op'.at = "idle" /\ "commit" \in Phase \ {"environment"}
      BY <2>2, PhaseType DEF Block, Finish, Idle
    <3> QED
      BY <1>3, <2>1, <3>1, <3>2, BlockingKeeps DEF AdoptCommit
  <2>3. CASE ~Block("commit")
    <3> USE <1>3, <2>3 DEF AdoptCommit
    <3>1. UNCHANGED mission /\ op' = [op EXCEPT !.at = "match", !.seen = content]
      OBVIOUS
    <3>2. op'.at = "match" /\ op'.commit = op.commit
      BY <3>1 DEF TypeOK, Op
    <3>4. mission.status = "committing" /\ seal.head = mission.base
      BY DEF Position, SealKnown, CommitLabel
    <3>5. Position'
      BY <3>1, <3>2, <3>4 DEF Position, PrepareLabel, VerifyLabel, CommitLabel, RollbackLabel
    <3>6. SealKnown'
      BY <3>1, <3>2, <3>4 DEF SealKnown, Adopting, Publishing, Published
    <3>7. OwnWorld'
      BY <3>1, <3>2, <3>4 DEF OwnWorld
    <3> QED
      BY <2>1, <3>1, <3>5, <3>6, <3>7, LookingKeeps
  <2> QED
    BY <2>2, <2>3
<1>4. CASE CheckSeal
  <2>1. TypeOK'
    BY <1>4, CommitStepsType DEF CommitSteps
  <2>2. CASE Block("commit")
    <3>1. mission.status \in {"verifying", "committing"}
      BY <1>4 DEF CheckSeal, Position, VerifyLabel, CommitLabel
    <3>2. Transition("blocked", "commit") /\ op'.at = "idle" /\ "commit" \in Phase \ {"environment"}
      BY <2>2, PhaseType DEF Block, Finish, Idle
    <3> QED
      BY <1>4, <2>1, <3>1, <3>2, BlockingKeeps DEF CheckSeal
  <2>3. CASE ~Block("commit")
    <3> USE <1>4, <2>3 DEF CheckSeal
    <3>1. UNCHANGED mission /\ op' = [op EXCEPT !.at = "tree", !.seen = content]
      OBVIOUS
    <3>2. op'.at = "tree" /\ op'.seen = content
      BY <3>1 DEF TypeOK, Op
    <3>3. content = seal.content /\ content \in checked
      BY DEF ReportPasses
    <3>4. mission.status = "committing" /\ seal.head = mission.base
      BY DEF Position, SealKnown, CommitLabel
    <3>5. Position'
      BY <3>1, <3>2, <3>4 DEF Position, PrepareLabel, VerifyLabel, CommitLabel, RollbackLabel
    <3>6. SealKnown'
      BY <3>1, <3>2, <3>3, <3>4 DEF SealKnown, Adopting, Publishing, Published
    <3>7. OwnWorld'
      BY <3>1, <3>2, <3>4 DEF OwnWorld
    <3> QED
      BY <2>1, <3>1, <3>5, <3>6, <3>7, LookingKeeps
  <2> QED
    BY <2>2, <2>3
<1>5. CASE WriteTree
  <2> USE <1>5 DEF WriteTree, Step
  <2>1. TypeOK'
    BY CommitStepsType DEF CommitSteps
  <2>2. Position' /\ SealKnown'
    BY DEF TypeOK, Op, Mission, Seal, Position, SealKnown, Adopting, Publishing, Published, PrepareLabel, VerifyLabel, CommitLabel, RollbackLabel
  <2>3. OwnWorld'
    BY DEF TypeOK, Op, Mission, Seal, Position, SealKnown, OwnWorld, BaseKnown, PrepareLabel, VerifyLabel, CommitLabel, RollbackLabel
  <2> QED
    BY <2>1, <2>2, <2>3, LookingKeeps
<1>6. CASE Resnapshot
  <2>1. TypeOK'
    BY <1>6, CommitStepsType DEF CommitSteps
  <2>2. CASE Block("commit")
    <3>1. mission.status \in {"verifying", "committing"}
      BY <1>6 DEF Resnapshot, Position, VerifyLabel, CommitLabel
    <3>2. Transition("blocked", "commit") /\ op'.at = "idle" /\ "commit" \in Phase \ {"environment"}
      BY <2>2, PhaseType DEF Block, Finish, Idle
    <3> QED
      BY <1>6, <2>1, <3>1, <3>2, BlockingKeeps DEF Resnapshot
  <2>3. CASE ~Block("commit")
    <3> USE <1>6, <2>3 DEF Resnapshot
    <3>1. Position' /\ SealKnown'
      BY DEF Op, TypeOK, Mission, Seal, Position, SealKnown, BaseKnown, Adopting, Publishing, Published, PrepareLabel, VerifyLabel, CommitLabel, RollbackLabel
    <3>2. OwnWorld'
      BY DEF Op, TypeOK, Mission, Seal, Position, SealKnown, OwnWorld, PrepareLabel, VerifyLabel, CommitLabel, RollbackLabel
    <3> QED
      BY <2>1, <3>1, <3>2, LookingKeeps
  <2> QED
    BY <2>2, <2>3
<1>7. CASE PublishCommit
  <2> USE <1>7 DEF PublishCommit
  <2>1. TypeOK'
    BY CommitStepsType DEF CommitSteps
  <2>2. op' = [op EXCEPT !.at = "align", !.commit = branch']
    OBVIOUS
  <2>3. op'.at = "align" /\ op'.commit = branch' /\ op'.seen = op.seen
    BY <2>2 DEF TypeOK, Op
  <2>4. /\ seal # None /\ seal.head = mission.base /\ mission.status = "committing"
        /\ op.seen = seal.content /\ op.seen \in checked /\ found = None
    BY DEF Position, SealKnown, CommitLabel, Publishing
  <2>5. branch'.at = mission.base.at /\ mission.base # None /\ branch' # None
    BY <2>1, <2>4, CommitType DEF TypeOK, Child, Seal, Content
  <2>6. BaseKnown' /\ Position'
    BY <2>3, <2>4, <2>5 DEF BaseKnown, Position, PrepareLabel, VerifyLabel, CommitLabel, RollbackLabel
  <2>7. SealKnown'
    BY <2>3, <2>4, <2>5 DEF SealKnown, Adopting, Publishing, Published
  <2>8. OwnWorld'
    BY <2>3, <2>4 DEF OwnWorld, Seal
  <2>9. EnvironmentAdoptable' /\ RollbackRestores' /\ SucceededIsSealed' /\ CommitRecordedOnce'
    BY <2>4 DEF EnvironmentAdoptable, RollbackRestores, SucceededIsSealed, CommitRecordedOnce
  <2> QED
    BY <2>1, <2>6, <2>7, <2>8, <2>9
<1>8. CASE AlignIndex
  <2> USE <1>8 DEF AlignIndex
  <2>1. TypeOK'
    BY CommitStepsType DEF CommitSteps
  <2>2. op'.at = "clean" /\ op'.commit = op.commit /\ op'.seen = op.seen
    BY DEF TypeOK, Op
  <2>3. /\ seal # None /\ seal.head = mission.base /\ mission.status = "committing"
        /\ meddled = 0 => branch' = Child(mission.base, "controller", seal.content)
    BY DEF Position, SealKnown, CommitLabel, Published
  <2>4. branch'.at = mission.base.at /\ mission.base # None /\ branch' # None
    BY <2>3 DEF TypeOK, Seal, SealKnown, Published
  <2>5. BaseKnown' /\ Position'
    BY <2>2, <2>3, <2>4 DEF BaseKnown, Position, PrepareLabel, VerifyLabel, CommitLabel, RollbackLabel
  <2>6. SealKnown'
    BY <2>2, <2>3 DEF SealKnown, Adopting, Publishing, Published
  <2>7. OwnWorld'
    BY <2>2, <2>3 DEF OwnWorld
  <2>8. EnvironmentAdoptable' /\ RollbackRestores' /\ SucceededIsSealed' /\ CommitRecordedOnce'
    BY <2>3 DEF EnvironmentAdoptable, RollbackRestores, SucceededIsSealed, CommitRecordedOnce
  <2> QED
    BY <2>1, <2>5, <2>6, <2>7, <2>8
<1>9. CASE VerifyClean
  <2> USE <1>9 DEF VerifyClean, Step
  <2>1. TypeOK'
    BY CommitStepsType DEF CommitSteps
  <2>2. Position' /\ SealKnown'
    BY DEF TypeOK, Op, Mission, Seal, Position, SealKnown, Adopting, Publishing, Published, PrepareLabel, VerifyLabel, CommitLabel, RollbackLabel
  <2>3. OwnWorld'
    BY DEF TypeOK, Op, Mission, Seal, Position, SealKnown, OwnWorld, BaseKnown, PrepareLabel, VerifyLabel, CommitLabel, RollbackLabel
  <2> QED
    BY <2>1, <2>2, <2>3, LookingKeeps
<1>10. CASE StoreVerifiedCommit
  <2> USE <1>10 DEF StoreVerifiedCommit
  <2>1. TypeOK'
    BY CommitStepsType DEF CommitSteps
  <2>2. BaseKnown' /\ Position'
    BY DEF TypeOK, Mission, Op, BaseKnown, Position, PrepareLabel, VerifyLabel, CommitLabel, RollbackLabel
  <2>3. SealKnown'
    BY DEF TypeOK, Mission, Op, SealKnown, Adopting, Publishing, Published, CommitLabel
  <2>4. OwnWorld'
    BY DEF TypeOK, Mission, Op, OwnWorld
  <2>5. EnvironmentAdoptable' /\ RollbackRestores' /\ SucceededIsSealed' /\ CommitRecordedOnce'
    BY DEF TypeOK, Mission, Position, EnvironmentAdoptable, RollbackRestores, SucceededIsSealed, CommitRecordedOnce, CommitLabel
  <2> QED
    BY <2>1, <2>2, <2>3, <2>4, <2>5
<1>11. CASE RecordCommit
  <2> USE <1>11 DEF RecordCommit
  <2>1. TypeOK'
    BY CommitStepsType DEF CommitSteps
  <2>2. /\ \E i \in DOMAIN commits' : commits'[i] = op.commit
        /\ \A i, j \in DOMAIN commits' : commits'[i] = commits'[j] => i = j
    <3>1. commits \in Seq(Commit) /\ op.commit \in Commit
      BY PublishedCommit DEF TypeOK, Published
    <3>2. CASE \E i \in DOMAIN commits : commits[i] = op.commit
      BY <3>2 DEF CommitRecordedOnce
    <3>3. CASE ~ \E i \in DOMAIN commits : commits[i] = op.commit
      <4>1. commits' = Append(commits, op.commit)
        BY <3>3
      <4> QED
        BY <3>1, <3>3, <4>1 DEF CommitRecordedOnce
    <3> QED
      BY <3>2, <3>3
  <2>3. op'.at = "succeed" /\ op'.commit = op.commit /\ op'.seen = op.seen
    BY DEF TypeOK, Op
  <2>4. mission.status = "committing"
    BY DEF Position, CommitLabel
  <2>5. BaseKnown' /\ Position' /\ OwnWorld'
    BY <2>3, <2>4 DEF BaseKnown, Position, OwnWorld, PrepareLabel, VerifyLabel, CommitLabel, RollbackLabel
  <2>6. SealKnown'
    BY <2>2, <2>3 DEF SealKnown, Adopting, Publishing, Published, CommitLabel
  <2>7. EnvironmentAdoptable' /\ RollbackRestores' /\ SucceededIsSealed' /\ CommitRecordedOnce'
    BY <2>2, <2>4 DEF EnvironmentAdoptable, RollbackRestores, SucceededIsSealed, CommitRecordedOnce
  <2> QED
    BY <2>1, <2>5, <2>6, <2>7
<1>12. CASE Succeed
  <2> USE <1>12 DEF Succeed
  <2>1. TypeOK'
    BY CommitStepsType DEF CommitSteps
  <2>2. /\ mission'.status = "succeeded" /\ mission'.phase = "complete" /\ op'.at = "idle"
        /\ mission'.base = mission.base /\ mission'.verified = mission.verified
    BY DEF Transition, Finish, Idle, TypeOK, Mission
  <2>3. BaseKnown' /\ Position' /\ SealKnown' /\ OwnWorld'
    BY <2>2 DEF BaseKnown, Position, SealKnown, OwnWorld, Adopting, Publishing, Published, PrepareLabel, VerifyLabel, CommitLabel, RollbackLabel
  <2>4. seal \in Seal /\ seal.head = mission.base /\ cleared = seal.content
    BY DEF TypeOK, Position, SealKnown, CommitLabel
  <2>5. (found # None => meddled = 0) =>
          /\ mission.verified = Child(mission.base, "controller", seal.content)
          /\ seal.content \in checked /\ mission.verified # None
    BY PublishedCommit DEF SealKnown, Published
  <2>6. SucceededIsSealed'
    BY <2>2, <2>4, <2>5 DEF SucceededIsSealed, Child, Seal
  <2>7. EnvironmentAdoptable' /\ RollbackRestores' /\ CommitRecordedOnce'
    BY <2>2 DEF EnvironmentAdoptable, RollbackRestores, CommitRecordedOnce, SealKnown
  <2> QED
    BY <2>1, <2>3, <2>6, <2>7
<1>13. CASE OperationRaises
  <2>1. TypeOK'
    BY <1>13, CommitStepsType DEF CommitSteps
  <2>2. op'.at \in {"idle", "verify_error", "commit_error"}
    BY <1>13 DEF OperationRaises, Raise, Idle, TypeOK, Op
  <2> QED
    BY <1>13, <2>1, <2>2, LeavingKeeps DEF OperationRaises
<1>14. CASE CountError
  <2>1. TypeOK'
    BY <1>14, CommitStepsType DEF CommitSteps
  <2>2. op'.at = "idle" /\ UNCHANGED <<git, evidence, meddled>>
    BY <1>14 DEF CountError, Finish, Idle
  <2>3. CASE UNCHANGED mission
    BY <2>1, <2>2, <2>3, LeavingKeeps
  <2>4. CASE ~UNCHANGED mission
    <3>1. PICK phase \in {"verification", "commit"} : Transition("blocked", phase)
      BY <1>14, <2>4 DEF CountError
    <3>2. mission.status \in {"verifying", "committing"}
      BY <1>14, <2>4 DEF CountError
    <3> QED
      BY <2>1, <2>2, <3>1, <3>2, PhaseType, BlockingKeeps
  <2> QED
    BY <2>3, <2>4
<1>15. CASE MatchTree
  <2>1. TypeOK'
    BY <1>15, CommitStepsType DEF CommitSteps
  <2>2. mission.status = "committing" /\ seal.head = mission.base
    BY <1>15 DEF MatchTree, Position, SealKnown, CommitLabel
  <2>3. CASE Block("commit")
    <3>1. Transition("blocked", "commit") /\ op'.at = "idle" /\ "commit" \in Phase \ {"environment"}
      BY <2>3, PhaseType DEF Block, Finish, Idle
    <3> QED
      BY <1>15, <2>1, <2>2, <3>1, BlockingKeeps DEF MatchTree
  <2>4. CASE ~Block("commit")
    <3>1. UNCHANGED mission /\ op' = [op EXCEPT !.at = "retest"]
      BY <1>15, <2>4 DEF MatchTree
    <3>2. op'.at = "retest" /\ op'.commit = op.commit
      BY <3>1 DEF TypeOK, Op
    <3>3. Position'
      BY <2>2, <3>1, <3>2 DEF Position, PrepareLabel, VerifyLabel, CommitLabel, RollbackLabel
    <3>4. SealKnown'
      BY <1>15, <2>2, <3>1, <3>2 DEF MatchTree, SealKnown, Adopting, Publishing, Published
    <3>5. OwnWorld'
      BY <1>15, <2>2, <3>1, <3>2 DEF MatchTree, OwnWorld
    <3> QED
      BY <1>15, <2>1, <3>1, <3>3, <3>4, <3>5, LookingKeeps DEF MatchTree
  <2> QED
    BY <2>3, <2>4
<1>16. CASE RetestCommit
  <2>1. TypeOK'
    BY <1>16, CommitStepsType DEF CommitSteps
  <2>2. mission.status = "committing" /\ seal.head = mission.base
    BY <1>16 DEF RetestCommit, Position, SealKnown, CommitLabel
  <2>3. CASE Block("commit")
    <3>1. Transition("blocked", "commit") /\ op'.at = "idle" /\ "commit" \in Phase \ {"environment"}
      BY <2>3, PhaseType DEF Block, Finish, Idle
    <3> QED
      BY <1>16, <2>1, <2>2, <3>1, BlockingKeeps DEF RetestCommit
  <2>4. CASE ~Block("commit")
    <3>1. UNCHANGED mission /\ op' = [op EXCEPT !.at = "align"]
      BY <1>16, <2>4 DEF RetestCommit
    <3>2. op'.at = "align" /\ op'.commit = op.commit
      BY <3>1 DEF TypeOK, Op
    <3>3. Position'
      BY <2>2, <3>1, <3>2 DEF Position, PrepareLabel, VerifyLabel, CommitLabel, RollbackLabel
    <3>4. SealKnown'
      BY <1>16, <2>2, <3>1, <3>2 DEF RetestCommit, SealKnown, Adopting, Publishing, Published
    <3>5. OwnWorld'
      BY <1>16, <2>2, <3>1, <3>2 DEF RetestCommit, OwnWorld
    <3> QED
      BY <1>16, <2>1, <3>1, <3>3, <3>4, <3>5, LookingKeeps DEF RetestCommit
  <2> QED
    BY <2>3, <2>4
<1> QED
  BY <1>1, <1>2, <1>3, <1>4, <1>5, <1>6, <1>7, <1>8, <1>9, <1>10, <1>11, <1>12, <1>13, <1>14,
     <1>15, <1>16
  DEF CommitSteps

\* A rollback brings branch, files and index back to the base.
LEMMA RollbackKeeps ==
  ASSUME RepositoryInvariant, Rollback
  PROVE  RepositoryInvariant'
<1> USE DEF RepositoryInvariant, At, LockFree, Goto, git, evidence, around, control
<1>1. CASE RollbackMission
  <2> USE <1>1 DEF RollbackMission, Step, Begin, Idle
  <2>1. TypeOK'
    BY RollbackType DEF Rollback
  <2>2. Position' /\ SealKnown'
    BY DEF TypeOK, Op, Mission, Seal, Position, SealKnown, Adopting, Publishing, Published, PrepareLabel, VerifyLabel, CommitLabel, RollbackLabel
  <2>3. OwnWorld'
    BY DEF TypeOK, Op, Mission, Seal, Position, SealKnown, OwnWorld, BaseKnown, PrepareLabel, VerifyLabel, CommitLabel, RollbackLabel
  <2> QED
    BY <2>1, <2>2, <2>3, LookingKeeps
<1>2. CASE ResetHard
  <2> USE <1>2 DEF ResetHard
  <2>1. TypeOK'
    BY RollbackType DEF Rollback
  <2>2. BaseKnown' /\ Position'
    BY DEF TypeOK, Op, Commit, BaseKnown, Position, PrepareLabel, VerifyLabel, CommitLabel, RollbackLabel
  <2>3. SealKnown' /\ OwnWorld'
    BY DEF TypeOK, Op, Position, SealKnown, OwnWorld, Adopting, Publishing, Published, PrepareLabel, VerifyLabel, CommitLabel, RollbackLabel
  <2>4. EnvironmentAdoptable' /\ RollbackRestores'
    BY DEF BaseKnown, Position, EnvironmentAdoptable, RollbackRestores, RollbackLabel
  <2>5. SucceededIsSealed' /\ CommitRecordedOnce'
    BY DEF SucceededIsSealed, CommitRecordedOnce
  <2> QED
    BY <2>1, <2>2, <2>3, <2>4, <2>5
<1>3. CASE PurgeUntracked
  <2> USE <1>3 DEF PurgeUntracked
  <2>1. TypeOK'
    BY RollbackType DEF Rollback
  <2>2. BaseKnown' /\ Position'
    BY DEF TypeOK, Op, Commit, BaseKnown, Position, PrepareLabel, VerifyLabel, CommitLabel, RollbackLabel
  <2>3. SealKnown' /\ OwnWorld'
    BY DEF TypeOK, Op, Position, SealKnown, OwnWorld, Adopting, Publishing, Published, PrepareLabel, VerifyLabel, CommitLabel, RollbackLabel
  <2>4. EnvironmentAdoptable' /\ RollbackRestores'
    BY DEF BaseKnown, Position, EnvironmentAdoptable, RollbackRestores, RollbackLabel
  <2>5. SucceededIsSealed' /\ CommitRecordedOnce'
    BY DEF SucceededIsSealed, CommitRecordedOnce
  <2> QED
    BY <2>1, <2>2, <2>3, <2>4, <2>5
<1>4. CASE VerifyRestored
  <2> USE <1>4 DEF VerifyRestored, Step, StatusClean, TreeAt
  <2>1. TypeOK'
    BY RollbackType DEF Rollback
  <2>2. Position' /\ SealKnown'
    BY DEF TypeOK, Op, Mission, Seal, Position, SealKnown, Adopting, Publishing, Published, SourceCommit, BaseKnown, PrepareLabel, VerifyLabel, CommitLabel, RollbackLabel
  <2>3. OwnWorld'
    BY DEF TypeOK, Op, Mission, Seal, Position, SealKnown, OwnWorld, BaseKnown, SourceCommit, BaseKnown, PrepareLabel, VerifyLabel, CommitLabel, RollbackLabel
  <2> QED
    BY <2>1, <2>2, <2>3, LookingKeeps
<1>5. CASE FinishRollback
  <2> USE <1>5 DEF FinishRollback, Finish, Idle
  <2>1. TypeOK'
    BY RollbackType DEF Rollback
  <2>2. BaseKnown' /\ Position' /\ SealKnown' /\ OwnWorld'
    BY DEF Transition, TypeOK, Mission, BaseKnown, Position, SealKnown, OwnWorld, Adopting, Publishing, Published, PrepareLabel, VerifyLabel, CommitLabel, RollbackLabel
  <2>3. EnvironmentAdoptable' /\ RollbackRestores'
    BY DEF Transition, TypeOK, Mission, OwnWorld, EnvironmentAdoptable, RollbackRestores
  <2>4. SucceededIsSealed' /\ CommitRecordedOnce'
    BY DEF Transition, TypeOK, Mission, SucceededIsSealed, CommitRecordedOnce
  <2> QED
    BY <2>1, <2>2, <2>3, <2>4
<1>6. CASE RollbackRaises
  <2>1. TypeOK'
    BY <1>6, RollbackType DEF Rollback
  <2> QED
    BY <1>6, <2>1, LeavingKeeps DEF RollbackRaises, Leave, Finish, Idle
<1> QED
  BY <1>1, <1>2, <1>3, <1>4, <1>5, <1>6 DEF Rollback

\* A crash forgets the operation and a foreign commit is meddling; neither touches a seal.
LEMMA EnvironmentKeeps ==
  ASSUME RepositoryInvariant, Environment
  PROVE  RepositoryInvariant'
<1> USE DEF RepositoryInvariant, At, LockFree, Goto, git, evidence, around, control
<1>1. CASE SourceAdvances
  <2>1. TypeOK'
    BY <1>1, EnvironmentType DEF Environment
  <2> QED
    BY <1>1, <2>1, LeavingKeeps DEF SourceAdvances
<1>2. CASE DeadlinePasses
  <2>1. TypeOK'
    BY <1>2, EnvironmentType DEF Environment
  <2> QED
    BY <1>2, <2>1, LeavingKeeps DEF DeadlinePasses
<1>3. CASE Interrupted
  <2>1. TypeOK'
    BY <1>3, EnvironmentType DEF Environment
  <2> QED
    BY <1>3, <2>1, LeavingKeeps DEF Interrupted, Finish, Idle
<1>4. CASE MoveRollbackRef
  <2> USE <1>4 DEF MoveRollbackRef, Meddle
  <2>0. meddled' # 0
    BY DEF TypeOK
  <2>1. TypeOK'
    BY EnvironmentType DEF Environment
  <2>2. BaseKnown' /\ Position'
    BY DEF Child, TypeOK, Commit, BaseKnown, Position
  <2>3. SealKnown' /\ OwnWorld'
    BY <2>0 DEF SealKnown, OwnWorld
  <2>4. EnvironmentAdoptable' /\ RollbackRestores' /\ SucceededIsSealed' /\ CommitRecordedOnce'
    BY <2>0 DEF EnvironmentAdoptable, RollbackRestores, SucceededIsSealed, CommitRecordedOnce
  <2> QED
    BY <2>1, <2>2, <2>3, <2>4
<1>5. ASSUME NEW c \in Content, EditOutside(c) PROVE RepositoryInvariant'
  <2> USE <1>5 DEF EditOutside, Meddle
  <2>0. meddled' # 0
    BY DEF TypeOK
  <2>1. TypeOK'
    BY EnvironmentType DEF Environment
  <2>2. BaseKnown' /\ Position'
    BY DEF Child, TypeOK, Commit, BaseKnown, Position
  <2>3. SealKnown' /\ OwnWorld'
    BY <2>0 DEF SealKnown, OwnWorld
  <2>4. EnvironmentAdoptable' /\ RollbackRestores' /\ SucceededIsSealed' /\ CommitRecordedOnce'
    BY <2>0 DEF EnvironmentAdoptable, RollbackRestores, SucceededIsSealed, CommitRecordedOnce
  <2> QED
    BY <2>1, <2>2, <2>3, <2>4
<1>6. ASSUME NEW by \in {"controller", "other"}, NEW c \in Edit, CommitOutside(by, c)
      PROVE  RepositoryInvariant'
  <2> USE <1>6 DEF CommitOutside, Meddle
  <2>0. meddled' # 0
    BY DEF TypeOK
  <2>1. TypeOK'
    BY EnvironmentType DEF Environment
  <2>2. branch'.at = branch.at /\ branch' # None
    <3>1. branch' \in Commit
      BY CommitType DEF TypeOK
    <3> QED
      BY <3>1 DEF Child
  <2>3. BaseKnown' /\ Position'
    BY <2>2 DEF BaseKnown, Position
  <2>4. SealKnown' /\ OwnWorld'
    BY <2>0 DEF SealKnown, OwnWorld
  <2>5. EnvironmentAdoptable' /\ RollbackRestores' /\ SucceededIsSealed' /\ CommitRecordedOnce'
    BY <2>0 DEF EnvironmentAdoptable, RollbackRestores, SucceededIsSealed, CommitRecordedOnce
  <2> QED
    BY <2>1, <2>3, <2>4, <2>5
<1> QED
  BY <1>1, <1>2, <1>3, <1>4, <1>5, <1>6 DEF Environment

\* Every step keeps the invariant.
LEMMA StepKeeps == RepositoryInvariant /\ [Next]_vars => RepositoryInvariant'
<1> SUFFICES ASSUME RepositoryInvariant, [Next]_vars PROVE RepositoryInvariant'
  OBVIOUS
<1>1. CASE UNCHANGED vars
  <2> USE <1>1 DEF vars, git, evidence, control, around, RepositoryInvariant
  <2>1. TypeOK'
    BY DEF TypeOK
  <2> QED
    BY <2>1, LeavingKeeps
<1> QED
  BY <1>1, PrepareKeeps, ExecutionKeeps, VerificationKeeps, CommitStepsKeeps, RollbackKeeps,
     EnvironmentKeeps
  DEF Next

\* In every state of every execution the invariant holds.
THEOREM InvariantHolds == Spec => []RepositoryInvariant
<1>1. Init => RepositoryInvariant
  BY InitInvariant
<1>2. RepositoryInvariant /\ [Next]_vars => RepositoryInvariant'
  BY StepKeeps
<1> QED
  BY <1>1, <1>2, PTL DEF Spec

\* The mission row, the evidence, Git and the holder of the lock keep to their
\* types, also under interference (the handlers of mission_service.py).
THEOREM RepositoryTypes == Spec => []TypeOK
<1>1. RepositoryInvariant => TypeOK
  BY DEF RepositoryInvariant
<1> QED
  BY <1>1, InvariantHolds, PTL

\* What success says is true: _commit_mission_unlocked certifies a controller
\* commit on the base whose tree was changed, tested, sealed and cleared; of a commit
\* it made whoever interfered, of one it found on the branch if nobody did.
THEOREM SuccessIsSealed == Spec => []SucceededIsSealed
<1>1. RepositoryInvariant => SucceededIsSealed
  BY DEF RepositoryInvariant
<1> QED
  BY <1>1, InvariantHolds, PTL

\* The commit evidence has no duplicate and holds what the mission names, however
\* often a commit is retried.
THEOREM CommitIsRecordedOnce == Spec => []CommitRecordedOnce
<1>1. RepositoryInvariant => CommitRecordedOnce
  BY DEF RepositoryInvariant
<1> QED
  BY <1>1, InvariantHolds, PTL

\* The retry of a commit that died after update-ref adopts it: as long as nobody
\* else interferes none of its checks fails.
THEOREM CommitIsAdopted == Spec => []AdoptionSucceeds
<1>1. RepositoryInvariant => AdoptionSucceeds
  <2> SUFFICES ASSUME RepositoryInvariant, meddled = 0, mission.status = "committing",
                      branch # mission.base
               PROVE  /\ seal # None /\ seal.head = mission.base
                      /\ branch = Child(mission.base, "controller", seal.content)
                      /\ content = seal.content /\ ReportPasses
    BY DEF AdoptionSucceeds
  <2>1. seal # None /\ seal = [content |-> content, head |-> mission.base]
    BY DEF RepositoryInvariant, SealKnown, OwnWorld
  <2> QED
    BY <2>1 DEF RepositoryInvariant, OwnWorld, ReportPasses
<1> QED
  BY <1>1, InvariantHolds, PTL

\* Preparation finds what an earlier one left as it asks for it, wherever that died.
THEOREM EnvironmentIsAdoptable == Spec => []EnvironmentAdoptable
<1>1. RepositoryInvariant => EnvironmentAdoptable
  BY DEF RepositoryInvariant
<1> QED
  BY <1>1, InvariantHolds, PTL

\* _rollback_mission_unlocked ends with the base and nothing else in the worktree.
THEOREM RollbackIsComplete == Spec => []RollbackRestores
<1>1. RepositoryInvariant => RollbackRestores
  BY DEF RepositoryInvariant
<1> QED
  BY <1>1, InvariantHolds, PTL

-----------------------------------------------------------------------------
(***************************************************************************)
(* The base                                                                *)
(***************************************************************************)

\* begin_preparation is the only writer of base_commit, and it writes the stored
\* one again.
LEMMA BaseStep ==
  ASSUME TypeOK, [Next]_vars, mission.base # None
  PROVE  mission'.base = mission.base
<1> USE DEF TypeOK, Mission
<1>1. CASE Prepare
  BY <1>1 DEF Prepare, BeginPreparation, CreateRollbackRef, AddBranch, AddWorktree, CutWorktree,
              AdoptWorktree, ValidateEnvironment, RecordController, FinishPreparation,
              PreparationFails, Step, Leave, Block, Transition, control
<1>2. CASE Execution
  BY <1>2 DEF Execution, AcceptManifest, FinishPlanning, StartMission, Work, RecordCommand, FinishWork, BlockExecution,
              BlockOverdue, RetryMission, CancelMission, Transition, control
<1>3. CASE Verification
  BY <1>3 DEF Verification, StartVerification, ModelAnswers, JudgeWorktree, SealWorktree,
              AdvanceVerified, ApproveCommit, DenyMission, Step, Block, Transition
<1>4. CASE CommitSteps
  BY <1>4 DEF CommitSteps, StartCommit, CommitGate, AdoptCommit, MatchTree, RetestCommit, CheckSeal,
              WriteTree, Resnapshot, PublishCommit, AlignIndex, VerifyClean, StoreVerifiedCommit, RecordCommit, Succeed,
              OperationRaises, CountError, Step, Block, Transition
<1>5. CASE Rollback
  BY <1>5 DEF Rollback, RollbackMission, ResetHard, PurgeUntracked, VerifyRestored,
              FinishRollback, RollbackRaises, Step, Leave, Transition
<1>6. CASE Environment
  BY <1>6 DEF Environment, SourceAdvances, DeadlinePasses, Interrupted, MoveRollbackRef,
              EditOutside, CommitOutside, control
<1>7. CASE UNCHANGED vars
  BY <1>7 DEF vars, control
<1> QED
  BY <1>1, <1>2, <1>3, <1>4, <1>5, <1>6, <1>7 DEF Next

\* The frozen base never changes, whatever dies and whoever interferes.
THEOREM BaseStaysFrozen == Spec => BaseIsFrozen
<1>1. RepositoryInvariant /\ [Next]_vars => [mission.base # None => mission'.base = mission.base]_vars
  BY BaseStep DEF RepositoryInvariant
<1> QED
  BY <1>1, InvariantHolds, PTL DEF Spec, BaseIsFrozen

-----------------------------------------------------------------------------
(***************************************************************************)
(* The promise                                                             *)
(***************************************************************************)

\* Nothing is promised at first.
LEMMA PromiseInit == Init => Promise!Init
BY DEF Init, Promise!Init, Carried

\* A step that leaves the seal, the clearance, the branch and success alone is none.
LEMMA PromiseStutters ==
  ASSUME UNCHANGED <<seal, cleared, branch, found, meddled>>,
         UNCHANGED mission \/ (mission.status # "succeeded" /\ mission'.status # "succeeded")
  PROVE  UNCHANGED Promise!vars
BY DEF Promise!vars, Carried

\* Preparation is a stutter of the promise.
LEMMA PreparePromise ==
  ASSUME RepositoryInvariant, Prepare
  PROVE  UNCHANGED Promise!vars
<1> USE DEF RepositoryInvariant, TypeOK, Mission, Position, PrepareLabel, At, evidence, git, control,
            around
<1>1. CASE AddBranch
  <2>1. branch = None /\ branch' = mission.base /\ mission.base # None
    BY <1>1 DEF AddBranch
  <2>2. mission.base.by = "source" /\ mission.base.tree = Clean
    BY <2>1 DEF BaseKnown, SourceCommit
  <2>3. UNCHANGED <<seal, cleared, mission, found, meddled>>
    BY <1>1 DEF AddBranch
  <2> QED
    BY <2>1, <2>2, <2>3 DEF Promise!vars, Carried
<1>2. ASSUME NEW base \in {mission.base, rollbackRef, source}, BeginPreparation(base)
      PROVE  UNCHANGED Promise!vars
  BY <1>2, PromiseStutters DEF BeginPreparation
<1>3. CASE PreparationFails
  <2>1. UNCHANGED <<seal, cleared, branch, found, meddled>>
    BY <1>3 DEF PreparationFails
  <2>2. mission.status # "succeeded" /\ mission'.status # "succeeded"
    BY <1>3 DEF PreparationFails, Block, Transition
  <2> QED
    BY <2>1, <2>2, PromiseStutters
<1>4. ASSUME ~AddBranch, ~PreparationFails,
             ~ \E base \in {mission.base, rollbackRef, source} : BeginPreparation(base)
      PROVE  UNCHANGED Promise!vars
  BY <1>4, PromiseStutters
  DEF Prepare, CreateRollbackRef, AddWorktree, CutWorktree, AdoptWorktree, ValidateEnvironment,
      RecordController, FinishPreparation, Step, Leave
<1> QED
  BY <1>1, <1>2, <1>3, <1>4

\* So is the execution.
LEMMA ExecutionPromise ==
  ASSUME RepositoryInvariant, Execution
  PROVE  UNCHANGED Promise!vars
<1> USE DEF RepositoryInvariant, TypeOK, Mission, evidence, git, control, around
<1>1. UNCHANGED <<seal, cleared, branch, found, meddled>>
  BY DEF Execution, AcceptManifest, FinishPlanning, StartMission, Work, RecordCommand, FinishWork, BlockExecution,
         BlockOverdue, RetryMission, CancelMission
<1>2. UNCHANGED mission \/ (mission.status # "succeeded" /\ mission'.status # "succeeded")
  BY DEF Execution, AcceptManifest, FinishPlanning, StartMission, Work, RecordCommand, FinishWork, BlockExecution,
         BlockOverdue, RetryMission, CancelMission, Transition, TerminalMissionStatus
<1> QED
  BY <1>1, <1>2, PromiseStutters

\* The seal is what is accepted; authority or approval clears it.
LEMMA VerificationPromise ==
  ASSUME RepositoryInvariant, Verification
  PROVE  [Promise!Next]_(Promise!vars)
<1> USE DEF RepositoryInvariant, TypeOK, Mission, Position, VerifyLabel, At, evidence, git, around
<1>1. CASE SealWorktree
  <2>1. /\ seal' = [content |-> content, head |-> branch] /\ cleared' = None /\ found' = None
        /\ UNCHANGED <<branch, mission, meddled>> /\ mission.status = "verifying"
    BY <1>1 DEF SealWorktree
  <2>2. seal' # None
    <3>1. branch \in Commit
      BY <1>1 DEF SealWorktree, BaseKnown, IdentityHolds
    <3> QED
      BY <2>1, <3>1 DEF Seal
  <2>3. Promise!Accept(content)
    BY <2>1, <2>2 DEF Promise!Accept, Carried
  <2> QED
    BY <2>3 DEF Promise!Next
<1>2. CASE AdvanceVerified
  <2>1. /\ UNCHANGED <<seal, branch, found, meddled>> /\ seal # None
        /\ cleared' \in {cleared, seal.content}
        /\ mission.status = "verifying"
    BY <1>2 DEF AdvanceVerified, SealKnown
  <2>2. mission'.status # "succeeded"
    BY <1>2 DEF AdvanceVerified, Transition, Authorities
  <2>3. CASE cleared' = cleared
    BY <2>1, <2>2, <2>3, PromiseStutters
  <2>4. CASE cleared' = seal.content
    <3>1. seal.content # None
      BY <2>1 DEF Seal, Content
    <3>2. Promise!Clear
      BY <2>1, <2>2, <2>4, <3>1 DEF Promise!Clear, Carried
    <3> QED
      BY <3>2 DEF Promise!Next
  <2> QED
    BY <2>1, <2>3, <2>4
<1>3. CASE ApproveCommit
  <2>1. /\ UNCHANGED <<seal, branch, found, meddled>> /\ seal # None /\ cleared' = seal.content
        /\ mission.status = "awaiting_approval" /\ mission'.status = "committing"
    BY <1>3 DEF ApproveCommit, SealKnown, Transition
  <2>2. seal.content # None
    BY <2>1 DEF Seal, Content
  <2>3. Promise!Clear
    BY <2>1, <2>2 DEF Promise!Clear, Carried
  <2> QED
    BY <2>3 DEF Promise!Next
<1>4. ASSUME NEW by \in {"command", "tick"}, NEW label \in {"model", "submit"},
             StartVerification(by, label)
      PROVE  UNCHANGED Promise!vars
  BY <1>4, PromiseStutters DEF StartVerification
<1>5. CASE JudgeWorktree
  <2>1. UNCHANGED <<seal, cleared, branch, found, meddled>>
    BY <1>5 DEF JudgeWorktree
  <2>2. UNCHANGED mission \/ (mission.status # "succeeded" /\ mission'.status # "succeeded")
    BY <1>5 DEF JudgeWorktree, Block, Transition
  <2> QED
    BY <2>1, <2>2, PromiseStutters
<1>6. CASE ModelAnswers
  BY <1>6, PromiseStutters DEF ModelAnswers, Step
<1>7. CASE DenyMission
  BY <1>7, PromiseStutters DEF DenyMission, Transition
<1> QED
  BY <1>1, <1>2, <1>3, <1>4, <1>5, <1>6, <1>7 DEF Verification

\* The branch moves to the cleared tree or to what was found there, and success
\* certifies it.
LEMMA CommitStepsPromise ==
  ASSUME RepositoryInvariant, CommitSteps
  PROVE  [Promise!Next]_(Promise!vars)
<1> USE DEF RepositoryInvariant, TypeOK, Mission, Position, CommitLabel, At, evidence, git, around
<1>1. ASSUME seal # None, cleared = seal.content, found = None,
             UNCHANGED <<seal, cleared, mission, found, meddled>>,
             branch' = Child(mission.base, "controller", seal.content), branch' # None
      PROVE  Promise!Next
  <2>1. seal.content # None
    BY <1>1 DEF Seal, Content
  <2>2. branch'.by = "controller" /\ branch'.tree = seal.content
    BY <1>1 DEF Child
  <2>3. Promise!Publish
    BY <1>1, <2>1, <2>2 DEF Promise!Publish, Carried
  <2> QED
    BY <2>3 DEF Promise!Next
<1>2. CASE PublishCommit
  <2>1. /\ seal # None /\ cleared = seal.content /\ op.seen = seal.content
        /\ seal.head = mission.base /\ found = None
    BY <1>2 DEF PublishCommit, SealKnown, Publishing
  <2>2. branch' \in Commit
    BY <1>2, <2>1, CommitType DEF PublishCommit, Seal
  <2> QED
    BY <1>1, <1>2, <2>1, <2>2 DEF PublishCommit
<1>3. CASE AlignIndex
  <2>1. seal # None /\ cleared = seal.content /\ seal.content # None
    BY <1>3 DEF AlignIndex, SealKnown, Seal, Content
  <2>2. branch' = op.commit /\ UNCHANGED <<seal, cleared, mission, found, meddled>>
    BY <1>3 DEF AlignIndex
  <2>3. CASE found = None
    <3>1. op.commit = Child(mission.base, "controller", seal.content) /\ op.commit # None
      BY <1>3, <2>3 DEF AlignIndex, SealKnown, Published
    <3> QED
      BY <1>1, <2>1, <2>2, <2>3, <3>1
  <2>4. CASE found # None
    <3>1. branch' = found /\ Carried(found) # None
      <4>1. op.commit = found
        BY <1>3, <2>4 DEF AlignIndex, SealKnown, Published
      <4>2. found.tree # None
        BY <2>4, CommitType DEF Content
      <4> QED
        BY <2>2, <2>4, <4>1, <4>2 DEF Carried
    <3>2. Promise!Reinstate
      BY <2>1, <2>2, <2>4, <3>1 DEF Promise!Reinstate
    <3> QED
      BY <3>2 DEF Promise!Next
  <2> QED
    BY <2>3, <2>4
<1>4. CASE Succeed
  <2>1. /\ UNCHANGED <<seal, cleared, branch, found, meddled>> /\ mission.status = "committing"
        /\ mission'.status = "succeeded" /\ mission'.verified = mission.verified
    BY <1>4 DEF Succeed, Transition
  <2>2. seal # None /\ cleared = seal.content /\ seal.content # None
    BY <2>1 DEF SealKnown, Seal, Content
  <2>3. mission.verified = op.commit /\ op.commit # None /\ (found # None => op.commit = found)
    BY <1>4 DEF Succeed, SealKnown, Published
  <2>4. (found # None => meddled = 0) => Carried(mission.verified) = seal.content
    BY <1>4, <2>3 DEF Succeed, SealKnown, Published, Child, Carried
  <2>5. CASE found # None => meddled = 0
    <3>1. Promise!Certify
      BY <2>1, <2>2, <2>4, <2>5 DEF Promise!Certify
    <3> QED
      BY <3>1 DEF Promise!Next
  <2>6. CASE found # None /\ meddled # 0
    <3>1. meddled > 0 /\ mission.verified = found
      BY <2>3, <2>6
    <3>2. Carried(found) # None
      BY <2>6, CommitType DEF Carried, Content
    <3>3. Promise!Certify
      BY <2>1, <2>2, <2>6, <3>1, <3>2 DEF Promise!Certify
    <3> QED
      BY <3>3 DEF Promise!Next
  <2> QED
    BY <2>5, <2>6
<1>5. CASE StoreVerifiedCommit
  BY <1>5, PromiseStutters DEF StoreVerifiedCommit
<1>6. CASE CountError
  <2>1. UNCHANGED <<seal, cleared, branch, found, meddled>>
    BY <1>6 DEF CountError
  <2>2. UNCHANGED mission \/ (mission.status # "succeeded" /\ mission'.status # "succeeded")
    BY <1>6 DEF CountError, Transition
  <2> QED
    BY <2>1, <2>2, PromiseStutters
<1>7. CASE AdoptCommit \/ MatchTree \/ RetestCommit \/ CheckSeal \/ Resnapshot
  <2>1. UNCHANGED <<seal, cleared, branch, found, meddled>> /\ mission.status = "committing"
    BY <1>7 DEF AdoptCommit, MatchTree, RetestCommit, CheckSeal, Resnapshot
  <2>2. UNCHANGED mission \/ mission'.status = "blocked"
    BY <1>7 DEF AdoptCommit, MatchTree, RetestCommit, CheckSeal, Resnapshot, Block, Transition
  <2> QED
    BY <2>1, <2>2, PromiseStutters
<1>9. CASE CommitGate
  <2>1. UNCHANGED <<seal, cleared, branch, meddled>> /\ mission.status = "committing"
    BY <1>9 DEF CommitGate
  <2>2. CASE UNCHANGED found
    <3>1. UNCHANGED mission \/ mission'.status = "blocked"
      BY <1>9 DEF CommitGate, Block, Transition
    <3> QED
      BY <2>1, <2>2, <3>1, PromiseStutters
  <2>3. CASE ~UNCHANGED found
    <3>1. /\ seal # None /\ cleared = seal.content /\ seal.content # None /\ UNCHANGED mission
          /\ found' = None \/ found' = branch
      BY <1>9, <2>3 DEF CommitGate, SealKnown, Seal, Content
    <3>2. Promise!Find
      BY <2>1, <3>1 DEF Promise!Find, Carried
    <3> QED
      BY <3>2 DEF Promise!Next
  <2> QED
    BY <2>2, <2>3
<1>8. ASSUME \/ \E by \in {"command", "tick"} : StartCommit(by)
             \/ WriteTree \/ VerifyClean \/ RecordCommit \/ OperationRaises
      PROVE  UNCHANGED Promise!vars
  BY <1>8, PromiseStutters
  DEF StartCommit, WriteTree, VerifyClean, RecordCommit, OperationRaises, Step
<1> QED
  BY <1>2, <1>3, <1>4, <1>5, <1>6, <1>7, <1>8, <1>9 DEF CommitSteps

\* A rollback restores the base and withdraws the certificate.
LEMMA RollbackPromise ==
  ASSUME RepositoryInvariant, Rollback
  PROVE  [Promise!Next]_(Promise!vars)
<1> USE DEF RepositoryInvariant, TypeOK, Mission, Position, RollbackLabel, At, evidence, git, around
<1>1. CASE ResetHard
  <2>1. /\ branch' = mission.base /\ mission.base # None
        /\ UNCHANGED <<seal, cleared, mission, found, meddled>>
    BY <1>1 DEF ResetHard
  <2>2. mission.base.by = "source" /\ mission.base.tree = Clean
    BY <2>1 DEF BaseKnown, SourceCommit
  <2>3. Promise!Restore
    BY <2>1, <2>2 DEF Promise!Restore, Carried
  <2> QED
    BY <2>3 DEF Promise!Next
<1>2. CASE FinishRollback
  <2>1. UNCHANGED <<seal, cleared, branch, found, meddled>> /\ mission'.status = "rolled_back"
    BY <1>2 DEF FinishRollback, Transition
  <2>2. Promise!Withdraw
    BY <2>1 DEF Promise!Withdraw, Carried
  <2> QED
    BY <2>2 DEF Promise!Next
<1>3. CASE RollbackMission \/ PurgeUntracked \/ VerifyRestored \/ RollbackRaises
  BY <1>3, PromiseStutters
  DEF RollbackMission, PurgeUntracked, VerifyRestored, RollbackRaises, Step, Leave
<1> QED
  BY <1>1, <1>2, <1>3 DEF Rollback

\* What others do is counted as interference, wherever they leave the branch.
LEMMA EnvironmentPromise ==
  ASSUME RepositoryInvariant, Environment
  PROVE  [Promise!Next]_(Promise!vars)
<1> USE DEF RepositoryInvariant, TypeOK, evidence, git, control, around
<1>1. ASSUME NEW by \in {"controller", "other"}, NEW c \in Edit, CommitOutside(by, c)
      PROVE  Promise!Next
  <2>1. UNCHANGED <<seal, cleared, mission, found>> /\ meddled' = meddled + 1
    BY <1>1 DEF CommitOutside, Meddle
  <2>2. branch' # None /\ branch'.tree \in Content
    <3>1. branch' \in Commit
      BY <1>1, CommitType DEF CommitOutside
    <3> QED
      BY <3>1, CommitType
  <2>3. Promise!Interfere
    BY <2>1, <2>2 DEF Promise!Interfere, Carried
  <2> QED
    BY <2>3 DEF Promise!Next
<1>2. CASE MoveRollbackRef \/ \E c \in Content : EditOutside(c)
  <2>1. UNCHANGED <<seal, cleared, mission, found, branch>> /\ meddled' = meddled + 1
    BY <1>2 DEF MoveRollbackRef, EditOutside, Meddle
  <2>2. branch = None \/ branch.tree \in Content
    BY CommitType
  <2>3. Promise!Interfere
    BY <2>1, <2>2, CommitType DEF Promise!Interfere, Carried
  <2> QED
    BY <2>3 DEF Promise!Next
<1>3. CASE SourceAdvances \/ DeadlinePasses \/ Interrupted
  BY <1>3, PromiseStutters DEF SourceAdvances, DeadlinePasses, Interrupted
<1> QED
  BY <1>1, <1>2, <1>3 DEF Environment

\* Every step is a step of the promise or a stutter.
LEMMA PromiseStep ==
  RepositoryInvariant /\ [Next]_vars => [Promise!Next]_(Promise!vars)
<1> SUFFICES ASSUME RepositoryInvariant, [Next]_vars PROVE [Promise!Next]_(Promise!vars)
  OBVIOUS
<1>1. CASE UNCHANGED vars
  BY <1>1, PromiseStutters DEF vars, git, evidence, control, around
<1> QED
  BY <1>1, PreparePromise, ExecutionPromise, VerificationPromise, CommitStepsPromise,
     RollbackPromise, EnvironmentPromise
  DEF Next

\* The controller keeps the promise of LocalCommit: whatever others do, it moves the
\* branch only to the tree that was accepted and cleared, back to the base or back
\* to what the commit attempt found there (update-ref, reset --mixed and reset
\* --hard), and where nobody interfered it certifies no tree but the cleared one.
THEOREM KeepsPromise == Spec => ImplementsPromise
<1>1. Init => Promise!Init
  BY PromiseInit
<1>2. RepositoryInvariant /\ [Next]_vars => [Promise!Next]_(Promise!vars)
  BY PromiseStep
<1> QED
  BY <1>1, <1>2, InvariantHolds, PTL DEF Spec, ImplementsPromise, Promise!Spec

=============================================================================
