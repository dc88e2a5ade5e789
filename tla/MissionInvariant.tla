-------------------------- MODULE MissionInvariant --------------------------
(***************************************************************************)
(* The inductive invariants of MissionExecution's Spec, from which its     *)
(* safety properties follow.  IInv adds to the types and to the runs       *)
(* invariant what each position of an actor knows about the mission; JInv, *)
(* MInv and WInv rest on it.  UInv is inductive on its own, for Spec and   *)
(* for SpecUnlocked; VInv rests on it where no step is interrupted.        *)
(***************************************************************************)
EXTENDS MissionExecution

Quiescing == {"kill", "close", "final"}
Revoking  == {"pause", "cancel", "block"}
Spawning  == {"claimed", "journaled", "spawned"}

\* The labels, goals and continuations that each actor can have.
CtlDomain ==
  /\ actor["ctl"].at \in Quiescing \union {"idle", "model", "settle", "escalate", "error"}
  /\ actor["ctl"].goal \in {"none", "verify", "submit", "commit"}
  /\ actor["ctl"].next \in {"idle", "settle"}

ActorDomains ==
  /\ actor["free"].at = "idle"
  /\ CtlDomain
  /\ actor["board"].at \notin {"model", "settle", "escalate", "error"}
  /\ actor["board"].goal \notin {"verify", "submit", "commit"}
  /\ actor["board"].next # "settle"
  /\ actor["board"].at \in {"reclaim", "limits", "scan"} \union Spawning =>
       Dispatching(actor["board"])
  /\ actor["board"].at \in {"idle", "latched", "requeue", "requeueing", "release", "releasing"} =>
       ~Dispatching(actor["board"])
  /\ actor["board"].at = "reconcile" => actor["board"].next # "release"

\* The claimed task that the spawn loop works with is one of the mission's.
SpawnTyped == actor["board"].at \in Spawning => SpawnCard \in Executor /\ SpawnRun \in Run

\* A command holds both locks; a claimed task belongs to a tick.
Exclusion ==
  /\ BoardFree \/ Dispatching(actor["board"]) \/ At("ctl", "idle")
  /\ SpawnTyped
  /\ actor["board"].at \in Spawning => mission.status \notin {"ready", "waiting_for_user"}

\* The board quiesces a mission that does not run, so that nothing starts behind it;
\* once quiescence is proven nothing executes until the board claims again.
BoardPosition ==
  LET s == actor["board"] IN
    /\ s.at \in Quiescing => mission.status # "running"
    /\ s.at \in Quiescing /\ s.goal = "pause" => mission.status = "waiting_for_user"
    /\ s.at = "final" => NoneRunning
    /\ s.at = "final" /\ s.goal \in Revoking => Quiet
    /\ s.at = "latched" =>
         NoneRunning /\ OpenIntents = {} /\ mission.status \in {"ready", "blocked"}
    /\ s.at \in {"release", "releasing"} => Quiet /\ mission.status # "running"
    /\ s.at = "requeue" => Quiet \/ mission.status # "blocked"
    /\ s.at = "requeueing" => Quiet /\ mission.status = "blocked"

\* The control plane quiesces and verifies finished executors only, and what it is
\* about to decide is not about a mission that waits for its user.
CtlPosition ==
  LET s == actor["ctl"] IN
    /\ s.at \in {"model"} \union Quiescing => AllDone
    /\ s.at = "escalate" \/ (s.at \in Quiescing /\ s.goal \in {"submit", "commit"}) =>
         mission.status # "waiting_for_user"

IInv ==
  /\ TypeOK /\ RunsInvariant
  /\ ActorDomains /\ Exclusion /\ BoardPosition /\ CtlPosition
  /\ PausedIsQuiet /\ VerifiedIsSettled /\ TerminalIsSettled

-----------------------------------------------------------------------------
(***************************************************************************)
(* A lease is journaled                                                    *)
(***************************************************************************)

\* Runs are handed out in order: the run of a card, its workers and its intents are
\* of runs that the card handed out.
HandedOut ==
  \A c \in Executor :
    /\ task[c].run <= task[c].runs
    /\ alive[c] \union task[c].open \subseteq 1 .. task[c].runs

\* The living worker of the run a card points at is journaled, whatever the mission
\* is doing.
RunIsJournaled ==
  \A c \in Executor :
    task[c].status = "running" /\ task[c].run \in alive[c] => task[c].run \in task[c].open

\* What the spawn loop can count on of the card it claimed.
SpawnPosition ==
  actor["board"].at \in Spawning =>
    /\ SpawnRun = task[SpawnCard].runs
    /\ task[SpawnCard].status = "running" => task[SpawnCard].run = SpawnRun
    /\ actor["board"].at \in {"claimed", "journaled"} => SpawnRun \notin alive[SpawnCard]
    /\ actor["board"].at = "claimed" => task[SpawnCard].open = {}
    /\ actor["board"].at = "journaled" /\ task[SpawnCard].status = "running" =>
         SpawnRun \in task[SpawnCard].open

JInv == HandedOut /\ RunIsJournaled /\ SpawnPosition

-----------------------------------------------------------------------------
(***************************************************************************)
(* A pause marker is answered                                              *)
(***************************************************************************)

\* A card that its worker blocked stays apart from one that the controller paused.
Marked(t) ==
  /\ t.paused => t.status # "running" /\ ~t.sticky
  /\ t.sticky => t.status = "blocked"

\* A pause marker only exists on a mission that waits or was given up.
Markers ==
  \A c \in Executor :
    /\ Marked(task[c])
    /\ task[c].paused => mission.status \in {"waiting_for_user", "cancelled", "rolled_back"}

\* A resume that is under way has the cards before it that still carry one.
ResumeIsComplete ==
  At("board", "releasing") => actor["board"].left = {c \in Executor : task[c].paused}

WaitingPhases ==
  mission.status = "waiting_for_user" => mission.phase \in {"pausing", "paused", "cancelling"}

MInv == WaitingPhases /\ Markers /\ ResumeIsComplete

-----------------------------------------------------------------------------
(***************************************************************************)
(* No call outlives a quiescence                                           *)
(***************************************************************************)

\* Calls are made by runs that the card handed out, and not before they are spawned.
CallsAreHandedOut ==
  /\ \A c \in Executor : writing[c] \subseteq 1 .. task[c].runs
  /\ actor["board"].at \in {"claimed", "journaled"} => SpawnRun \notin writing[SpawnCard]

\* A call of a living worker is under the run of its card, so that it is the worker
\* a quiescence finds.
CallsAreHeld ==
  \A c \in Executor : \A r \in writing[c] \intersect alive[c] :
    task[c].status = "running" /\ task[c].run = r

\* A quiescence finds the worker of a running card by its pid, unless it was spawned
\* a moment ago.
WorkersAreFound ==
  \A c \in Executor :
    task[c].status = "running" /\ task[c].run \in alive[c] =>
      task[c].pid = task[c].run \/ (At("board", "spawned") /\ SpawnCard = c)

\* After the kill of a quiescence nothing writes.
KillIsComplete ==
  actor["board"].at \in {"close", "final"} \/ actor["ctl"].at \in {"close", "final"} =>
    \A c \in Executor : writing[c] = {}

WInv ==
  /\ NoLateWrite /\ CallsAreHandedOut
  /\ faults = 0 => CallsAreHeld /\ WorkersAreFound /\ KillIsComplete

-----------------------------------------------------------------------------
(***************************************************************************)
(* What holds beside a reconciliation that takes no lock                   *)
(***************************************************************************)

\* The inductive invariant of SpecUnlocked: what an actor without locks cannot
\* disturb.
UInv ==
  /\ TypeOK /\ RunsInvariant /\ SpawnTyped
  /\ CtlDomain /\ CtlPosition
  /\ ParentGate /\ VerifiedIsSettled

\* Where the board stands once it has proven quiescence or passed the gate of a start, a
\* resume or a retry.
Opening == {"final", "latched", "releasing", "requeueing"}

\* As long as no step is interrupted, a card that runs has an open intent, but for the
\* moment between its claim and its intent.
RunsAreOpen ==
  \A c \in Executor :
    task[c].status = "running" =>
      task[c].open # {} \/ (At("board", "claimed") /\ SpawnCard = c)

\* What SpecUnlocked adds to UInv then: the board gets to those positions only when
\* nothing runs, and an actor without locks resets no worktree.
VInv ==
  /\ RunsAreOpen
  /\ actor["board"].at \in Opening => NoneRunning
  /\ actor["free"].goal # "rollback"

=============================================================================
