------------------------- MODULE MissionRepository -------------------------
(***************************************************************************)
(* The repository side of one mission, mission_service.py: preparation of  *)
(* its worktree, verification and seal, local commit, rollback.            *)
(*                                                                         *)
(* Every operation runs under the mission lock (op is the holder) and is a *)
(* sequence of Git commands and database transactions; each of them is an  *)
(* action, and the process can die between any two.  Git keeps the source  *)
(* checkout, the rollback ref, the mission branch and the worktree; the    *)
(* database keeps the mission row and the evidence.  Outside the lock the  *)
(* source checkout moves on, the executors edit the worktree while the     *)
(* mission runs, and somebody else may edit, commit or move refs.          *)
(***************************************************************************)
EXTENDS MissionLifecycle, Naturals, Sequences

CONSTANTS
  Edit,                \* worktree contents that differ from the base
  Clean,               \* the content of the base commit itself
  Untracked,           \* the edits that only add files
  None,                \* no commit, no content, no seal
  Authority,           \* who may commit: see below
  MaxAdvance,          \* bound: commits of the source checkout
  MaxVerifierRetries,  \* budget max_verifier_retries
  MaxCommitRetries,    \* budget max_commit_retries
  MaxFaults            \* bound: deaths of a process, cut Git commands, interferences

Authorities == {"supervised", "automatic", "withheld"}

ASSUME RepositoryAssumption ==
  /\ Clean \notin Edit /\ Untracked \subseteq Edit
  /\ None \notin Edit \union {Clean}
  /\ Authority \subseteq Authorities
  /\ MaxAdvance \in Nat /\ MaxVerifierRetries \in Nat /\ MaxCommitRetries \in Nat
  /\ MaxFaults \in Nat

VARIABLES
  mission,      \* the missions row: status, phase, base_commit, verified_commit
  authority,    \* level 3, level 4 with local-commit authority, level 4 without
  card,         \* how far the cards are: the controller's, the manifest, the start
  source,       \* HEAD of the source checkout
  rollbackRef,  \* refs/hermes/rollback/<id>
  branch,       \* refs/heads/hermes/mission-<id>, the HEAD of the worktree
  worktree,     \* absent, partial (a cut checkout) or linked
  content,      \* what its files hold, relative to the base
  index,        \* what its Git index holds
  checked,      \* the edits with passed command evidence for every criterion
  seal,         \* the latest verification_seal
  cleared,      \* history: the sealed tree that the authority let through
  found,        \* history: the commit that the last attempt to commit the seal found
  commits,      \* the commit evidence
  working,      \* some executor is not done
  op,           \* the operation under the mission lock
  errors,       \* controller_error evidence per phase
  overdue,      \* the mission's deadline has passed
  meddled,      \* history: how often somebody else touched the worktree or the refs
  faults

git      == <<rollbackRef, branch, worktree, content, index>>
evidence == <<checked, seal, cleared, found, commits>>
control  == <<mission, card, working, op, errors>>
around   == <<authority, source, overdue, meddled, faults>>
vars     == <<git, evidence, control, around>>

-----------------------------------------------------------------------------

Content == Edit \union {Clean}

\* A commit: the source commit it stands on, its tree, and who made it.  A
\* controller commit has the mission's subject and the base as its only parent.
Commit == [at : Nat, by : {"source", "controller", "other"}, tree : Content]

SourceCommit(n)      == [at |-> n, by |-> "source", tree |-> Clean]
Child(base, by, tree) == [at |-> base.at, by |-> by, tree |-> tree]

Seal == [content : Content, head : Commit]

ASSUME NoneAssumption == None \notin Commit \union Seal \union {"elsewhere"}

Phase == {"contract", "environment", "execution", "recovery", "budget",
          "verification", "commit", "cancelled", "complete"}

Mission == [status : MissionStatus, phase : Phase,
            base : Commit \union {None}, verified : Commit \union {None}]

PrepareLabel == {"ref", "worktree", "identity", "card", "environment"}
VerifyLabel  == {"model", "submit", "seal", "advance"}
CommitLabel  == {"gate", "adopt", "match", "retest", "check", "tree", "snapshot", "publish",
                 "align", "clean", "store", "record", "succeed"}
RollbackLabel == {"reset", "purge", "restored", "undone"}

\* by: the controller's tick counts what goes wrong, a command only reports it.
\* had: the rollback ref that the preparation found; seen: the snapshot that a
\* commit works with; commit: the commit it publishes or adopts.
Op == [at : {"idle", "verify_error", "commit_error"} \union PrepareLabel \union VerifyLabel
              \union CommitLabel \union RollbackLabel,
       by : {"command", "tick"}, had : BOOLEAN,
       seen : Content \union {None}, commit : Commit \union {None}]

Idle == [at |-> "idle", by |-> "command", had |-> FALSE, seen |-> None, commit |-> None]

At(label)        == op.at = label
LockFree         == At("idle")
Goto(label)      == op' = [op EXCEPT !.at = label]
Begin(label, by) == op' = [Idle EXCEPT !.at = label, !.by = by]
Finish           == op' = Idle

Fault == faults < MaxFaults /\ faults' = faults + 1

\* transition_mission: refused, and the operation raises, where the table says so.
Transition(status, phase) ==
  /\ Allowed(mission.status, status)
  /\ mission' = [mission EXCEPT !.status = status, !.phase = phase]

\* A raise ends a command; controller_tick goes on to count it.
Raise ==
  op' = IF op.by = "command" THEN Idle
        ELSE [op EXCEPT !.at = IF op.at \in VerifyLabel THEN "verify_error" ELSE "commit_error"]

Block(phase) == Transition("blocked", phase) /\ Finish

\* A step of the holder that only looks.
Step(from, to) ==
  /\ At(from) /\ Goto(to)
  /\ UNCHANGED <<git, evidence, mission, card, working, errors, around>>

\* The holder returns or raises, and leaves everything as it is.
Leave == Finish /\ UNCHANGED <<git, evidence, mission, card, working, errors, around>>

Init ==
  /\ mission = [status |-> "draft", phase |-> "contract", base |-> None, verified |-> None]
  /\ authority \in Authority
  /\ card = "none"
  /\ source = SourceCommit(0)
  /\ rollbackRef = None /\ branch = None
  /\ worktree = "absent" /\ content = Clean /\ index = Clean
  /\ checked = {} /\ seal = None /\ cleared = None /\ found = None /\ commits = <<>>
  /\ working = TRUE
  /\ op = Idle
  /\ errors = [verification |-> 0, commit |-> 0]
  /\ overdue = FALSE /\ meddled = 0 /\ faults = 0

-----------------------------------------------------------------------------
(***************************************************************************)
(* Preparation, _prepare_mission_unlocked                                  *)
(***************************************************************************)

\* _validate_worktree_identity.  HEAD is symbolic, so that branch and worktree
\* cannot disagree.
IdentityHolds == worktree = "linked" /\ rollbackRef = mission.base

TreeAt(commit) == IF commit = None THEN Clean ELSE commit.tree

\* git status --porcelain prints nothing.
StatusClean == content = TreeAt(branch) /\ index = TreeAt(branch)

\* Mutant: the source checkout decides again after a crash.
BeginFromSource(base) ==
  /\ LockFree
  /\ \/ mission.status \in {"draft", "planning"}
     \/ mission.status = "blocked" /\ mission.phase = "environment"
  /\ base = source
  /\ mission' = [mission EXCEPT !.status = "planning", !.phase = "environment", !.base = base]
  /\ op' = [Idle EXCEPT !.at = "ref", !.had = rollbackRef # None]
  /\ UNCHANGED <<git, evidence, card, working, errors, around>>

\* begin_preparation freezes the base in the transaction that claims the worktree:
\* a stored base or an existing rollback ref wins over the source checkout, and
\* the two have to agree.
BeginPreparation(base) ==
  /\ LockFree
  /\ \/ mission.status \in {"draft", "planning"}
     \/ mission.status = "blocked" /\ mission.phase = "environment"
  /\ base = IF mission.base # None THEN mission.base
            ELSE IF rollbackRef # None THEN rollbackRef ELSE source
  /\ rollbackRef \in {None, base}
  /\ mission' = [mission EXCEPT !.status = "planning", !.phase = "environment", !.base = base]
  /\ op' = [Idle EXCEPT !.at = "ref", !.had = rollbackRef # None]
  /\ UNCHANGED <<git, evidence, card, working, errors, around>>

CreateRollbackRef ==
  /\ At("ref")
  /\ rollbackRef' = IF op.had THEN rollbackRef ELSE mission.base
  /\ Goto("worktree")
  /\ UNCHANGED <<branch, worktree, content, index, evidence, mission, card, working, errors, around>>

\* Mutant: worktree add -b without the base as its start point.
AddBranchAtSource ==
  /\ At("worktree")
  /\ worktree = "absent" /\ branch = None
  /\ branch' = source
  /\ UNCHANGED <<rollbackRef, worktree, content, index, evidence, control, around>>

\* git worktree add: the branch first, then the checkout.
AddBranch ==
  /\ At("worktree")
  /\ worktree = "absent" /\ branch = None
  /\ branch' = mission.base
  /\ UNCHANGED <<rollbackRef, worktree, content, index, evidence, control, around>>

AddWorktree ==
  /\ At("worktree")
  /\ worktree = "absent" /\ branch = mission.base
  /\ worktree' = "linked" /\ content' = Clean /\ index' = Clean
  /\ Goto("identity")
  /\ UNCHANGED <<rollbackRef, branch, evidence, mission, card, working, errors, around>>

\* The checkout is cut short, by a death or by the timeout of _run_git.
CutWorktree ==
  /\ At("worktree") /\ Fault
  /\ worktree = "absent" /\ branch = mission.base
  /\ worktree' = "partial"
  /\ UNCHANGED <<rollbackRef, branch, content, index, evidence, control, authority, source, overdue,
                 meddled>>

\* A worktree that is there is adopted if it stands on the base.
AdoptWorktree ==
  worktree = "linked" /\ branch = mission.base /\ Step("worktree", "identity")

ValidateEnvironment ==
  IdentityHolds /\ branch = mission.base /\ StatusClean /\ Step("identity", "card")

\* create_task, link_task and set_root_task; each accepts what is already there.
RecordController ==
  /\ At("card")
  /\ card' = CASE card = "none" -> "created" [] card = "created" -> "linked"
               [] card = "linked" -> "rooted" [] OTHER -> card
  /\ IF card \in {"none", "created"} THEN UNCHANGED op ELSE Goto("environment")
  /\ UNCHANGED <<git, evidence, mission, working, errors, around>>

\* The environment evidence is stored and the operation returns.
FinishPreparation == At("environment") /\ Leave

\* Any step can raise: a check that fails, or Git.
PreparationFails ==
  /\ op.at \in PrepareLabel
  /\ IF mission.status = "planning" THEN Block("environment") ELSE Finish /\ UNCHANGED mission
  /\ UNCHANGED <<git, evidence, card, working, errors, around>>

Prepare ==
  \/ \E base \in {mission.base, rollbackRef, source} : BeginPreparation(base)
  \/ CreateRollbackRef \/ AddBranch \/ AddWorktree \/ CutWorktree \/ AdoptWorktree
  \/ ValidateEnvironment \/ RecordController \/ FinishPreparation \/ PreparationFails

-----------------------------------------------------------------------------
(***************************************************************************)
(* Planning and execution, as far as the repository is concerned           *)
(***************************************************************************)

\* The manifest needs the controller card; MissionPlanning has the details.
AcceptManifest ==
  /\ LockFree /\ mission.status = "planning" /\ card = "rooted"
  /\ card' = "accepted"
  /\ UNCHANGED <<git, evidence, mission, working, op, errors, around>>

\* A planner that dies before this leaves a manifest that the next one finds.
FinishPlanning ==
  /\ LockFree /\ mission.status = "planning" /\ card = "accepted"
  /\ Transition("ready", "execution")
  /\ UNCHANGED <<git, evidence, card, working, op, errors, around>>

\* Once, and also when a later preparation blocked the mission: the cards decide.
StartMission ==
  /\ LockFree /\ mission.status \in {"ready", "blocked"} /\ card = "accepted"
  /\ IdentityHolds /\ branch = mission.base /\ StatusClean
  /\ card' = "done"
  /\ Transition("running", "execution")
  /\ UNCHANGED <<git, evidence, working, op, errors, around>>

\* An executor changes files; its container mounts the worktree alone, the Git
\* directory and with it the index stay outside.
Work(c) ==
  /\ mission.status = "running" /\ working /\ worktree = "linked"
  /\ content' = c
  /\ UNCHANGED <<rollbackRef, branch, worktree, index, evidence, control, around>>

\* record_command_result: passed commands for the files as they are now.  Those of
\* an unchanged worktree verify nothing.
RecordCommand ==
  /\ mission.base # None /\ IdentityHolds
  /\ content # Clean
  /\ checked' = checked \union {content}
  /\ UNCHANGED <<git, seal, cleared, found, commits, control, around>>

FinishWork ==
  /\ mission.status = "running" /\ working
  /\ working' = FALSE
  /\ UNCHANGED <<git, evidence, mission, card, op, errors, around>>

\* An executor gave up, or a reconciliation found an ambiguous intent.
BlockExecution ==
  /\ mission.status = "running" /\ working
  /\ \E phase \in {"execution", "recovery"} : Transition("blocked", phase)
  /\ UNCHANGED <<git, evidence, card, working, op, errors, around>>

\* controller_tick past the deadline.
BlockOverdue ==
  /\ LockFree /\ overdue
  /\ mission.status \in {"running", "verifying", "committing"}
  /\ Transition("blocked", "budget")
  /\ UNCHANGED <<git, evidence, card, working, op, errors, around>>

\* retry_mission, but for the environment phase (BeginPreparation).
RetryMission ==
  /\ LockFree /\ ~overdue
  /\ mission.status = "blocked" /\ mission.phase \notin {"recovery", "environment"}
  /\ IdentityHolds
  /\ Transition("running", "execution")
  /\ working' = (working \/ mission.phase = "execution")
  /\ UNCHANGED <<git, evidence, card, op, errors, around>>

CancelMission ==
  /\ LockFree /\ mission.status \notin TerminalMissionStatus
  /\ Transition("cancelled", "cancelled")
  /\ UNCHANGED <<git, evidence, card, working, op, errors, around>>

Execution ==
  \/ AcceptManifest \/ FinishPlanning \/ StartMission \/ \E c \in Content : Work(c)
  \/ RecordCommand \/ FinishWork \/ BlockExecution \/ BlockOverdue
  \/ RetryMission \/ CancelMission

-----------------------------------------------------------------------------
(***************************************************************************)
(* Verification, _verify_with_model_unlocked and                           *)
(* _submit_verifier_verdict_unlocked                                       *)
(***************************************************************************)

\* controller_tick or verify_with_model reaches the model call; a verdict that an
\* operator brings skips it.
StartVerification(by, label) ==
  /\ LockFree /\ ~working
  /\ mission.status \in {"running", "verifying"}
  /\ by = "tick" => ~overdue /\ label = "model"
  /\ mission' = [mission EXCEPT !.status = "verifying",
                   !.phase = IF mission.status = "running" THEN "verification" ELSE @]
  /\ Begin(label, by)
  /\ UNCHANGED <<git, evidence, card, working, errors, around>>

ModelAnswers == Step("model", "submit")

\* deterministic_verification of the files as they are now.
ReportPasses == content \in checked

\* Mutant: the report does not require the branch to stand on the base.
JudgeAnyHead ==
  /\ At("submit")
  /\ IdentityHolds
  /\ \/ ReportPasses /\ Goto("seal") /\ UNCHANGED mission
     \/ Block("verification")
  /\ UNCHANGED <<git, evidence, card, working, errors, around>>

\* The verdict and the report: both have to pass.
JudgeWorktree ==
  /\ At("submit")
  /\ IdentityHolds
  /\ \/ ReportPasses /\ branch = mission.base /\ Goto("seal") /\ UNCHANGED mission
     \/ Block("verification")
  /\ UNCHANGED <<git, evidence, card, working, errors, around>>

\* The seal is a snapshot of its own.
SealWorktree ==
  /\ At("seal")
  /\ IdentityHolds
  /\ seal' = [content |-> content, head |-> branch]
  /\ cleared' = None /\ found' = None
  /\ Goto("advance")
  /\ UNCHANGED <<git, checked, commits, mission, card, working, errors, around>>

\* What the autonomy level makes of a pass.
AdvanceVerified ==
  /\ At("advance")
  /\ Transition(CASE authority = "supervised" -> "awaiting_approval"
                  [] authority = "automatic"  -> "committing"
                  [] authority = "withheld"   -> "blocked", "commit")
  /\ cleared' = IF authority = "automatic" THEN seal.content ELSE cleared
  /\ Finish
  /\ UNCHANGED <<git, checked, seal, found, commits, card, working, errors, around>>

ApproveCommit ==
  /\ LockFree /\ mission.status = "awaiting_approval" /\ authority = "supervised"
  /\ Transition("committing", "commit")
  /\ cleared' = seal.content
  /\ UNCHANGED <<git, checked, seal, found, commits, card, working, op, errors, around>>

DenyMission ==
  /\ LockFree /\ mission.status = "awaiting_approval"
  /\ Transition("blocked", "commit")
  /\ UNCHANGED <<git, evidence, card, working, op, errors, around>>

Verification ==
  \/ \E by \in {"command", "tick"}, label \in {"model", "submit"} : StartVerification(by, label)
  \/ ModelAnswers \/ JudgeWorktree \/ SealWorktree \/ AdvanceVerified
  \/ ApproveCommit \/ DenyMission

-----------------------------------------------------------------------------
(***************************************************************************)
(* Commit, _commit_mission_unlocked                                        *)
(***************************************************************************)

StartCommit(by) ==
  /\ LockFree /\ mission.status = "committing"
  /\ by = "tick" => authority = "automatic" /\ ~overdue
  /\ Begin("gate", by)
  /\ UNCHANGED <<git, evidence, mission, card, working, errors, around>>

\* The seal has to stand on the base; a branch that left it may carry our commit,
\* and its head is the commit that this attempt is about.
CommitGate ==
  /\ At("gate")
  /\ IdentityHolds
  /\ IF seal = None \/ seal.head # mission.base
     THEN Block("commit") /\ UNCHANGED found
     ELSE /\ found' = IF branch = mission.base THEN None ELSE branch
          /\ op' = IF branch = mission.base THEN [op EXCEPT !.at = "check"]
                   ELSE [op EXCEPT !.at = "adopt", !.commit = branch]
          /\ UNCHANGED mission
  /\ UNCHANGED <<git, checked, seal, cleared, commits, card, working, errors, around>>

\* Git may have made our commit before the process could record it: the branch has
\* to be one controller-shaped child of the base and a first snapshot the seal's,
AdoptCommit ==
  /\ At("adopt")
  /\ IdentityHolds
  /\ IF branch.by = "controller" /\ seal.content = content
     THEN op' = [op EXCEPT !.at = "match", !.seen = content] /\ UNCHANGED mission
     ELSE Block("commit")
  /\ UNCHANGED <<git, evidence, card, working, errors, around>>

\* the tree written of that snapshot has to be the tree of the branch,
MatchTree ==
  /\ At("match")
  /\ content = op.seen
  /\ IF branch.tree = op.seen THEN Goto("retest") /\ UNCHANGED mission ELSE Block("commit")
  /\ UNCHANGED <<git, evidence, card, working, errors, around>>

\* and the report, which takes a snapshot of its own, has to pass.
RetestCommit ==
  /\ At("retest")
  /\ IdentityHolds
  /\ IF ReportPasses THEN Goto("align") /\ UNCHANGED mission ELSE Block("commit")
  /\ UNCHANGED <<git, evidence, card, working, errors, around>>

\* Mutant: the snapshot of the report is not compared with the seal.
CheckReport ==
  /\ At("check")
  /\ IdentityHolds
  /\ IF ReportPasses /\ branch = mission.base
     THEN op' = [op EXCEPT !.at = "tree", !.seen = content] /\ UNCHANGED mission
     ELSE Block("commit")
  /\ UNCHANGED <<git, evidence, card, working, errors, around>>

\* The report once more, and its snapshot against the seal.
CheckSeal ==
  /\ At("check")
  /\ IdentityHolds
  /\ IF ReportPasses /\ branch = mission.base /\ seal.content = content
     THEN op' = [op EXCEPT !.at = "tree", !.seen = content] /\ UNCHANGED mission
     ELSE Block("commit")
  /\ UNCHANGED <<git, evidence, card, working, errors, around>>

\* _write_snapshot_tree compares every object it writes with the snapshot.
WriteTree == content = op.seen /\ Step("tree", "snapshot")

Resnapshot ==
  /\ At("snapshot")
  /\ IdentityHolds /\ branch = mission.base
  /\ IF content = op.seen THEN Goto("publish") /\ UNCHANGED mission ELSE Block("commit")
  /\ UNCHANGED <<git, evidence, card, working, errors, around>>

\* Mutant: the commit is made of the files of now, not of the tree that was written.
PublishWorktree ==
  /\ At("publish")
  /\ branch = mission.base
  /\ branch' = Child(mission.base, "controller", content)
  /\ op' = [op EXCEPT !.at = "align", !.commit = branch']
  /\ UNCHANGED <<rollbackRef, worktree, content, index, evidence, mission, card, working, errors,
                 around>>

\* commit-tree, then update-ref with the base as the expected old value.
PublishCommit ==
  /\ At("publish")
  /\ branch = mission.base
  /\ branch' = Child(mission.base, "controller", op.seen)
  /\ op' = [op EXCEPT !.at = "align", !.commit = branch']
  /\ UNCHANGED <<rollbackRef, worktree, content, index, evidence, mission, card, working, errors,
                 around>>

\* git reset --mixed: the index, and whatever the branch points at by now.
AlignIndex ==
  /\ At("align")
  /\ branch' = op.commit
  /\ index' = op.commit.tree
  /\ Goto("clean")
  /\ UNCHANGED <<rollbackRef, worktree, content, evidence, mission, card, working, errors, around>>

VerifyClean == IdentityHolds /\ branch = op.commit /\ StatusClean /\ Step("clean", "store")

\* Mutant: the tree is stored in place of the commit.
StoreTree ==
  /\ At("store")
  /\ mission' = [mission EXCEPT !.verified = op.commit.tree]
  /\ Goto("record")
  /\ UNCHANGED <<git, evidence, card, working, errors, around>>

StoreVerifiedCommit ==
  /\ At("store")
  /\ mission' = [mission EXCEPT !.verified = op.commit]
  /\ Goto("record")
  /\ UNCHANGED <<git, evidence, card, working, errors, around>>

\* Mutant: the evidence is not looked up first.
RecordCommitAgain ==
  /\ At("record")
  /\ commits' = Append(commits, op.commit)
  /\ Goto("succeed")
  /\ UNCHANGED <<git, checked, seal, cleared, found, mission, card, working, errors, around>>

\* The commit evidence, once per commit.
RecordCommit ==
  /\ At("record")
  /\ commits' = IF \E i \in DOMAIN commits : commits[i] = op.commit THEN commits
                ELSE Append(commits, op.commit)
  /\ Goto("succeed")
  /\ UNCHANGED <<git, checked, seal, cleared, found, mission, card, working, errors, around>>

Succeed ==
  /\ At("succeed")
  /\ Transition("succeeded", "complete")
  /\ Finish
  /\ UNCHANGED <<git, evidence, card, working, errors, around>>

\* A check that fails, or Git, the model or the evidence store does.
OperationRaises ==
  /\ op.at \in VerifyLabel \union CommitLabel
  /\ Raise
  /\ UNCHANGED <<git, evidence, mission, card, working, errors, around>>

\* Mutant: the error is recorded and the phase is simply tried again.
CountErrorForever == op.at \in {"verify_error", "commit_error"} /\ Leave

\* The except clauses of controller_tick.  The errors of earlier rounds count too.
CountError ==
  LET verifying == At("verify_error")
      phase     == IF verifying THEN "verification" ELSE "commit"
      limit     == IF verifying THEN MaxVerifierRetries ELSE MaxCommitRetries
      count     == IF errors[phase] > limit THEN errors[phase] ELSE errors[phase] + 1
  IN  /\ op.at \in {"verify_error", "commit_error"}
      /\ errors' = [errors EXCEPT ![phase] = count]
      /\ IF mission.status = (IF verifying THEN "verifying" ELSE "committing") /\ count > limit
         THEN Transition("blocked", phase) ELSE UNCHANGED mission
      /\ Finish
      /\ UNCHANGED <<git, evidence, card, working, around>>

CommitSteps ==
  \/ \E by \in {"command", "tick"} : StartCommit(by)
  \/ CommitGate \/ AdoptCommit \/ MatchTree \/ RetestCommit
  \/ CheckSeal \/ WriteTree \/ Resnapshot \/ PublishCommit
  \/ AlignIndex \/ VerifyClean \/ StoreVerifiedCommit \/ RecordCommit \/ Succeed
  \/ OperationRaises \/ CountError

-----------------------------------------------------------------------------
(***************************************************************************)
(* Rollback, _rollback_mission_unlocked                                    *)
(***************************************************************************)

RollbackMission ==
  /\ LockFree /\ mission.status \in {"succeeded", "failed", "cancelled", "blocked"}
  /\ mission.base # None /\ IdentityHolds
  /\ Begin("reset", "command")
  /\ UNCHANGED <<git, evidence, mission, card, working, errors, around>>

\* reset --hard leaves the files that the index does not know.
ResetHard ==
  /\ At("reset")
  /\ branch' = mission.base
  /\ index' = Clean
  /\ content' = IF content \in Untracked /\ index # content THEN content ELSE Clean
  /\ Goto("purge")
  /\ UNCHANGED <<rollbackRef, worktree, evidence, mission, card, working, errors, around>>

\* Mutant: clean -fdx is left out, and so is the check that would notice.
PurgeNothing == Step("purge", "undone")

\* clean -fdx
PurgeUntracked ==
  /\ At("purge")
  /\ content' = IF content \in Untracked THEN Clean ELSE content
  /\ Goto("restored")
  /\ UNCHANGED <<rollbackRef, branch, worktree, index, evidence, mission, card, working, errors,
                 around>>

VerifyRestored ==
  IdentityHolds /\ branch = mission.base /\ StatusClean /\ Step("restored", "undone")

FinishRollback ==
  /\ At("undone")
  /\ Transition("rolled_back", "complete")
  /\ Finish
  /\ UNCHANGED <<git, evidence, card, working, errors, around>>

RollbackRaises == op.at \in RollbackLabel /\ Leave

Rollback ==
  RollbackMission \/ ResetHard \/ PurgeUntracked \/ VerifyRestored \/ FinishRollback
  \/ RollbackRaises

-----------------------------------------------------------------------------
(***************************************************************************)
(* The environment                                                         *)
(***************************************************************************)

\* Nothing reads the source checkout before a base is frozen: what it did until then
\* is where it starts.
SourceAdvances ==
  /\ mission.base # None /\ source.at < MaxAdvance
  /\ source' = SourceCommit(source.at + 1)
  /\ UNCHANGED <<git, evidence, control, authority, overdue, meddled, faults>>

DeadlinePasses ==
  /\ overdue' = TRUE
  /\ UNCHANGED <<git, evidence, control, authority, source, meddled, faults>>

\* The process under the mission lock dies.
Interrupted ==
  /\ ~LockFree /\ Fault
  /\ Finish
  /\ UNCHANGED <<git, evidence, mission, card, working, errors, authority, source, overdue, meddled>>

Meddle == Fault /\ meddled' = meddled + 1

\* Somebody else, or an executor that outlived its lease, edits the worktree.
EditOutside(c) ==
  /\ worktree = "linked" /\ content # c /\ Meddle
  /\ content' = c
  /\ UNCHANGED <<rollbackRef, branch, worktree, index, evidence, control, authority, source, overdue>>

\* Somebody else edits and commits in it, on top of the branch or in place of its
\* last commit: it looks like a commit of ours or it does not.
CommitOutside(by, c) ==
  /\ worktree = "linked" /\ branch # None /\ Meddle
  /\ branch' = Child(branch, by, c)
  /\ content' = c /\ index' = c
  /\ UNCHANGED <<rollbackRef, worktree, evidence, control, authority, source, overdue>>

MoveRollbackRef ==
  /\ rollbackRef \notin {None, source} /\ Meddle
  /\ rollbackRef' = source
  /\ UNCHANGED <<branch, worktree, content, index, evidence, control, authority, source, overdue>>

Environment ==
  \/ SourceAdvances \/ DeadlinePasses \/ Interrupted \/ MoveRollbackRef
  \/ \E c \in Content : EditOutside(c)
  \/ \E by \in {"controller", "other"}, c \in Edit : CommitOutside(by, c)

Next == Prepare \/ Execution \/ Verification \/ CommitSteps \/ Rollback \/ Environment

Spec == Init /\ [][Next]_vars

\* The dispatcher ticks for ever.  An operator may hold the lock at many ticks but
\* not at all of them, hence strong fairness; a process that holds it and does not
\* die goes on.
Tick ==
  \/ StartVerification("tick", "model") \/ StartCommit("tick") \/ BlockOverdue

Holder ==
  /\ ~LockFree
  /\ \/ CreateRollbackRef \/ AddBranch \/ AddWorktree \/ AdoptWorktree
     \/ ValidateEnvironment \/ RecordController \/ FinishPreparation \/ PreparationFails
     \/ ModelAnswers \/ JudgeWorktree \/ SealWorktree \/ AdvanceVerified
     \/ CommitGate \/ AdoptCommit \/ MatchTree \/ RetestCommit
     \/ CheckSeal \/ WriteTree \/ Resnapshot \/ PublishCommit
     \/ AlignIndex \/ VerifyClean \/ StoreVerifiedCommit \/ RecordCommit \/ Succeed
     \/ OperationRaises \/ CountError
     \/ ResetHard \/ PurgeUntracked \/ VerifyRestored \/ FinishRollback \/ RollbackRaises

FairSpec == Spec /\ SF_vars(Tick) /\ WF_vars(Holder)

-----------------------------------------------------------------------------
(***************************************************************************)
(* Properties                                                              *)
(***************************************************************************)

TypeOK ==
  /\ mission \in Mission
  /\ authority \in Authorities
  /\ card \in {"none", "created", "linked", "rooted", "accepted", "done"}
  /\ source \in {SourceCommit(n) : n \in 0..MaxAdvance}
  /\ rollbackRef \in Commit \union {None}
  /\ branch \in Commit \union {None}
  /\ worktree \in {"absent", "partial", "linked"}
  /\ content \in Content /\ index \in Content
  /\ checked \subseteq Edit
  /\ seal \in Seal \union {None}
  /\ cleared \in Content \union {None}
  /\ found \in Commit \union {None}
  /\ commits \in Seq(Commit)
  /\ working \in BOOLEAN
  /\ op \in Op
  /\ errors \in [{"verification", "commit"} -> Nat]
  /\ overdue \in BOOLEAN
  /\ meddled \in Nat /\ faults \in Nat

\* The base that a preparation froze is the base for ever, whatever the source
\* checkout does while a preparation dies and is tried again.
BaseIsFrozen == [][mission.base # None => mission'.base = mission.base]_vars

\* What a preparation leaves when it dies is what the next one asks for, wherever
\* it died: only a checkout that was cut short is refused.
EnvironmentAdoptable ==
  (/\ meddled = 0
   /\ \/ mission.status \in {"draft", "planning"}
      \/ mission.status = "blocked" /\ mission.phase = "environment")
  => /\ rollbackRef \in {None, mission.base} /\ branch \in {None, mission.base}
     /\ worktree = "linked" => branch = mission.base
     /\ content = Clean /\ index = Clean

\* A mission that succeeded names one commit of the controller on its base, whose
\* tree is a change, was tested, sealed and cleared.  A commit that the controller
\* made in its last attempt is so whoever wrote to the worktree or moved a ref on
\* the way; one that the attempt found on the branch, if nobody did: its head is
\* read at the gate, and the snapshots compared with the seal, with the tree and
\* with the commands are taken one after the other.
SucceededIsSealed ==
  (mission.status = "succeeded" /\ (found # None => meddled = 0)) =>
    /\ mission.verified # None /\ seal # None
    /\ LET tree == mission.verified.tree
       IN  /\ mission.verified = Child(mission.base, "controller", tree)
           /\ seal = [content |-> tree, head |-> mission.base]
           /\ tree \in checked /\ cleared = tree

\* However often the commit is retried, its evidence is stored once and is there
\* when the mission succeeds.
CommitRecordedOnce ==
  /\ \A i, j \in DOMAIN commits : commits[i] = commits[j] => i = j
  /\ mission.status = "succeeded" => \E i \in DOMAIN commits : commits[i] = mission.verified

\* A branch that left the base while we commit carries our commit, and the retry
\* adopts it: no death between update-ref and the mission row loses the work.
AdoptionSucceeds ==
  (meddled = 0 /\ mission.status = "committing" /\ branch # mission.base)
  => /\ seal # None /\ seal.head = mission.base
     /\ branch = Child(mission.base, "controller", seal.content)
     /\ content = seal.content /\ ReportPasses

\* A mission that was rolled back stands on its base and holds nothing else.
RollbackRestores ==
  (mission.status = "rolled_back" /\ meddled = 0)
  => branch = mission.base /\ content = Clean /\ index = Clean

\* What the repository holds where the branch is at a commit.
Carried(commit) == IF commit = None THEN Clean
                   ELSE IF commit.by = "other" THEN "elsewhere" ELSE commit.tree

Promise == INSTANCE LocalCommit WITH
  Tree      <- Content,
  Base      <- Clean,
  Elsewhere <- "elsewhere",
  accepted  <- IF seal = None THEN None ELSE seal.content,
  branch    <- Carried(branch),
  found     <- IF found = None THEN None ELSE Carried(found),
  certified <- IF mission.status = "succeeded" THEN Carried(mission.verified) ELSE None,
  disturbed <- meddled

\* The controller keeps the promise of LocalCommit.
ImplementsPromise == Promise!Spec

\* The phases that the tick pushes without asking anybody.
Pushed ==
  mission.status = "verifying" \/ (mission.status = "committing" /\ authority = "automatic")

\* The tick gets a mission out of verifying, and at level 4 out of committing behind
\* it: the passes that fail are counted and tried again, and the count ends them.
PhasesEnd == Pushed ~> ~Pushed

-----------------------------------------------------------------------------
(***************************************************************************)
(* The inductive invariant: what the base, the position of the holder, the *)
(* seal and, as long as nobody else interferes, the worktree say of each   *)
(* other.                                                                  *)
(***************************************************************************)

BaseKnown ==
  /\ rollbackRef # None => mission.base # None
  /\ mission.base # None => mission.base = SourceCommit(mission.base.at)
  /\ branch # None => mission.base # None /\ branch.at = mission.base.at
  /\ worktree = "linked" => branch # None

\* While the lock is held nobody else moves the mission out of the phase.
Position ==
  /\ op.at \in PrepareLabel => mission.status = "planning" /\ mission.base # None
  /\ op.at \in VerifyLabel => mission.status = "verifying"
  /\ op.at \in CommitLabel => mission.status = "committing"
  /\ op.at \in RollbackLabel =>
       /\ mission.status \in {"succeeded", "failed", "cancelled", "blocked"}
       /\ mission.base # None

Adopting   == {"adopt", "match", "retest"}
Publishing == {"tree", "snapshot", "publish"}
Published  == {"align", "clean", "store", "record", "succeed"}

SealKnown ==
  /\ op.at = "advance" \/ mission.status \in {"awaiting_approval", "committing"} => seal # None
  /\ mission.status = "committing" => cleared = seal.content
  /\ op.at \in CommitLabel \ {"gate"} => seal.head = mission.base
  /\ op.at \in Publishing => op.seen = seal.content /\ op.seen \in checked
  /\ op.at \in Adopting => found # None
  /\ op.at \in Publishing \union {"check"} => found = None
  /\ op.at \in Adopting \union Published =>
       /\ op.commit # None /\ op.commit.at = mission.base.at
       /\ found # None => op.commit = found
       /\ (found # None => meddled = 0) =>
            /\ op.commit = Child(mission.base, "controller", seal.content)
            /\ seal.content \in checked
  /\ op.at \in {"record", "succeed"} => mission.verified = op.commit
  /\ op.at = "succeed" => \E i \in DOMAIN commits : commits[i] = op.commit

OwnWorld == meddled = 0 =>
  /\ op.at = "seal" => branch = mission.base /\ content \in checked
  /\ op.at = "advance" \/ mission.status = "awaiting_approval" =>
       /\ branch = mission.base /\ content \in checked
       /\ seal = [content |-> content, head |-> branch]
  /\ mission.status = "committing" =>
       /\ branch \in {mission.base, Child(mission.base, "controller", content)}
       /\ content \in checked
       /\ seal = [content |-> content, head |-> mission.base]
  /\ op.at = "undone" => branch = mission.base /\ content = Clean /\ index = Clean

RepositoryInvariant ==
  /\ TypeOK /\ BaseKnown /\ Position /\ SealKnown /\ OwnWorld
  /\ EnvironmentAdoptable /\ SucceededIsSealed /\ CommitRecordedOnce /\ RollbackRestores

=============================================================================
