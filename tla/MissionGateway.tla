--------------------------- MODULE MissionGateway ---------------------------
(***************************************************************************)
(* Mission controls in the gateway: hermes_cli/mission_gateway.py and its  *)
(* watcher in gateway/kanban_watchers.py.                                  *)
(*                                                                         *)
(* Operators subscribe to a mission.  Every gateway process polls for      *)
(* missions that wait for their operator, claims the prompt of a           *)
(* subscription, issues one-use action tokens and sends them; an operator  *)
(* redeems a token, which runs one operation of the mission service.       *)
(* Subscriptions, claims and tokens are rows of the board database; what a *)
(* watcher collected and what a resolver is about to run is lost with its  *)
(* process.  The mission itself is only seen as its version, the pair of   *)
(* status and updated_at, which any actor may move.                        *)
(***************************************************************************)
EXTENDS MissionLifecycle, Naturals

CONSTANTS
  Watcher,        \* gateway processes that run _mission_action_watcher
  Identity,       \* subscribers: platform, chat, thread and principal
  Resolver,       \* concurrent calls of resolve_action_token
  None,           \* no watcher, no identity, no version
  SharedSeconds,  \* whether two versions may fall into the same second
  MaxBatch,       \* bound: calls of issue_action_tokens
  MaxMoves,       \* bound: moves of the mission, and watch commands
  MaxFaults       \* bound: crashes, failed sends, slow deliveries

Version == [status : MissionStatus, updated : Nat]

ASSUME GatewayAssumption ==
  /\ None \notin Watcher \union Identity /\ None \notin Version
  /\ SharedSeconds \in BOOLEAN
  /\ MaxBatch \in Nat /\ MaxMoves \in Nat /\ MaxFaults \in Nat

VARIABLES
  mission,   \* missions: status and updated_at
  sub,       \* mission_gateway_subscriptions, one row or none per identity
  batch,     \* what the tokens of one issue_action_tokens call share
  issued,    \* how many of those calls there were
  token,     \* mission_gateway_actions: the status of each token
  watcher,   \* the candidates each watcher collected and its progress
  resolver,  \* the calls of resolve_action_token under way
  runs,      \* how often the operation of a token was started
  reached,   \* the batches whose message arrived in the chat
  moves, faults

vars == <<mission, sub, batch, issued, token, watcher, resolver, runs, reached, moves, faults>>

Actionable == {"awaiting_approval", "blocked", "waiting_for_user", "committing"}

Action == {"approve", "deny", "retry", "reconcile", "resume", "cancel", "commit"}

\* action_options_for_mission
Options(status) ==
  CASE status = "awaiting_approval" -> {"approve", "deny"}
    [] status = "blocked"           -> {"retry", "reconcile"}
    [] status = "waiting_for_user"  -> {"resume", "cancel"}
    [] status = "committing"        -> {"commit", "cancel"}
    [] OTHER                        -> {}

\* Where an operation may leave a mission whose status it accepts.
Targets(action, status) ==
  CASE action = "approve" /\ status = "awaiting_approval" -> {"committing"}
    [] action = "deny" /\ status = "awaiting_approval"    -> {"blocked"}
    [] action = "retry" /\ status = "blocked"             -> {"running", "planning", "ready"}
    [] action = "resume" /\ status = "waiting_for_user"   -> {"running"}
    [] action = "commit" /\ status = "committing"         -> {"succeeded", "blocked"}
    [] action = "cancel" /\ Allowed(status, "cancelled")  -> {"cancelled"}
    [] action = "reconcile" -> AllowedTransitions[status] \intersect {"blocked", "cancelled"}
    [] OTHER                                              -> {}

Batch == 1..MaxBatch
Token == Batch \X Action

TokenStatus ==
  {"none", "pending", "claimed", "succeeded", "failed", "expired", "superseded", "revoked"}

Subscription == [on : BOOLEAN, claim : Watcher \union {None}, stale : BOOLEAN,
                 prompted : Version \union {None}]

Unsubscribed == [on |-> FALSE, claim |-> None, stale |-> FALSE, prompted |-> None]

BatchInfo == [to : Identity \union {None}, version : Version \union {None},
              expired : SUBSET Action]

NoBatch == [to |-> None, version |-> None, expired |-> {}]

\* at: collecting candidates, between two deliveries, or in one, where `to` is the
\* identity served and `batch` the tokens issued to it.
WatcherState == [at : {"collect", "next", "checked", "native", "fallback", "sent", "unsent",
                       "revoked"},
                 held : [Identity -> Version \union {None}],
                 to : Identity \union {None}, batch : 0..MaxBatch]

Collecting == [at |-> "collect", held |-> [i \in Identity |-> None], to |-> None, batch |-> 0]

ResolverState == [at : {"idle", "claimed", "ran", "raised"}, token : Token \union {<<0, "approve">>}]

Resolving == [at |-> "idle", token |-> <<0, "approve">>]

Expired(t) == t[2] \in batch[t[1]].expired

Fault == faults < MaxFaults /\ faults' = faults + 1

Move == moves < MaxMoves /\ moves' = moves + 1

\* transition_mission stamps the row with the current second.
Stamped(status) ==
  \E later \in IF SharedSeconds THEN {0, 1} ELSE {1} :
    mission' = [status |-> status, updated |-> mission.updated + later]

Init ==
  /\ mission = [status |-> "running", updated |-> 0]
  /\ sub = [i \in Identity |-> Unsubscribed]
  /\ batch = [b \in Batch |-> NoBatch]
  /\ issued = 0
  /\ token = [t \in Token |-> "none"]
  /\ watcher = [w \in Watcher |-> Collecting]
  /\ resolver = [r \in Resolver |-> Resolving]
  /\ runs = [t \in Token |-> 0]
  /\ reached = {}
  /\ moves = 0
  /\ faults = 0

-----------------------------------------------------------------------------
(***************************************************************************)
(* The mission and the subscriptions                                       *)
(***************************************************************************)

\* Somebody else moves the mission, or rewrites its row without a transition.
MissionMoves ==
  /\ Move
  /\ \/ \E to \in AllowedTransitions[mission.status] : Stamped(to)
     \/ Stamped(mission.status)
  /\ UNCHANGED <<sub, batch, issued, token, watcher, resolver, runs, reached, faults>>

\* `/mission watch` forgets both the claim and what was prompted.
Watch(i) ==
  /\ Move
  /\ sub' = [sub EXCEPT ![i] = [Unsubscribed EXCEPT !.on = TRUE]]
  /\ UNCHANGED <<mission, batch, issued, token, watcher, resolver, runs, reached, faults>>

\* Any other mission command of an operator subscribes it too, without a reset: an
\* existing row keeps its claim and what was prompted.
AutoSubscribe(i) ==
  /\ ~sub[i].on /\ Move
  /\ sub' = [sub EXCEPT ![i].on = TRUE]
  /\ UNCHANGED <<mission, batch, issued, token, watcher, resolver, runs, reached, faults>>

Unwatch(i) ==
  /\ sub[i].on /\ Move
  /\ sub' = [sub EXCEPT ![i] = Unsubscribed]
  /\ UNCHANGED <<mission, batch, issued, token, watcher, resolver, runs, reached, faults>>

-----------------------------------------------------------------------------
(***************************************************************************)
(* The watcher                                                             *)
(***************************************************************************)

Taken(row, w) == [row EXCEPT !.claim = w, !.stale = FALSE]

\* Mutant: a claim is never taken over.
ClaimUnclaimed(w, i) ==
  /\ watcher[w].at = "collect" /\ watcher[w].held[i] = None
  /\ sub[i].on /\ mission.status \in Actionable /\ sub[i].prompted # mission
  /\ sub[i].claim = None
  /\ sub' = [sub EXCEPT ![i] = Taken(@, w)]
  /\ watcher' = [watcher EXCEPT ![w].held[i] = mission]
  /\ UNCHANGED <<mission, batch, issued, token, resolver, runs, reached, moves, faults>>

\* One candidate of claim_prompt_candidates: the update re-checks everything that
\* the query selected by, and the version that was read.
ClaimPrompt(w, i) ==
  /\ watcher[w].at = "collect" /\ watcher[w].held[i] = None
  /\ sub[i].on /\ mission.status \in Actionable /\ sub[i].prompted # mission
  /\ sub[i].claim = None \/ sub[i].stale
  /\ sub' = [sub EXCEPT ![i] = Taken(@, w)]
  /\ watcher' = [watcher EXCEPT ![w].held[i] = mission]
  /\ UNCHANGED <<mission, batch, issued, token, resolver, runs, reached, moves, faults>>

Holding(w) == {i \in Identity : watcher[w].held[i] # None}

StartDeliveries(w) ==
  /\ watcher[w].at = "collect" /\ Holding(w) # {}
  /\ watcher' = [watcher EXCEPT ![w].at = "next"]
  /\ UNCHANGED <<mission, sub, batch, issued, token, resolver, runs, reached, moves, faults>>

\* release_prompt and complete_prompt only touch a claim that is still the caller's.
Owned(w, i) == sub[i].on /\ sub[i].claim = w

Freed(row) == [row EXCEPT !.claim = None, !.stale = FALSE]

Marked(row, version) == [Freed(row) EXCEPT !.prompted = version]

Release(w, i) == sub' = IF Owned(w, i) THEN [sub EXCEPT ![i] = Freed(@)] ELSE sub

\* The watcher is done with its candidate.
Dropped(w, i) ==
  watcher' = [watcher EXCEPT ![w] =
                [@ EXCEPT !.at = "next", !.held[i] = None, !.to = None, !.batch = 0]]

\* No adapter for the platform of the candidate.
NoAdapter(w, i) ==
  /\ watcher[w].at = "next" /\ i \in Holding(w) /\ Fault
  /\ Release(w, i)
  /\ Dropped(w, i)
  /\ UNCHANGED <<mission, batch, issued, token, resolver, runs, reached, moves>>

\* _mission_issue_tokens reads the mission again ...
CheckVersion(w, i) ==
  /\ watcher[w].at = "next" /\ i \in Holding(w)
  /\ IF watcher[w].held[i] = mission
     THEN /\ watcher' = [watcher EXCEPT ![w].at = "checked", ![w].to = i]
          /\ UNCHANGED sub
     ELSE Release(w, i) /\ Dropped(w, i)
  /\ UNCHANGED <<mission, batch, issued, token, resolver, runs, reached, moves, faults>>

\* What a watcher works on.
To(w)      == watcher[w].to
Claimed(w) == watcher[w].held[To(w)]

\* Mutant: the tokens of earlier prompts stay good.
IssueMore(w) ==
  /\ watcher[w].at = "checked" /\ issued < MaxBatch
  /\ issued' = issued + 1
  /\ batch' = [batch EXCEPT ![issued'] = [to |-> To(w), version |-> Claimed(w), expired |-> {}]]
  /\ token' = [t \in Token |->
                 IF t[1] = issued' /\ t[2] \in Options(Claimed(w).status) THEN "pending"
                 ELSE token[t]]
  /\ watcher' = [watcher EXCEPT ![w].at = "native", ![w].batch = issued']
  /\ UNCHANGED <<mission, sub, resolver, runs, reached, moves, faults>>

\* ... and then issues the tokens, in a transaction that supersedes every pending
\* token of the same operator.
IssueTokens(w) ==
  /\ watcher[w].at = "checked" /\ issued < MaxBatch
  /\ issued' = issued + 1
  /\ batch' = [batch EXCEPT ![issued'] = [to |-> To(w), version |-> Claimed(w), expired |-> {}]]
  /\ token' = [t \in Token |->
                 IF t[1] = issued' /\ t[2] \in Options(Claimed(w).status) THEN "pending"
                 ELSE IF batch[t[1]].to = To(w) /\ token[t] = "pending" THEN "superseded"
                 ELSE token[t]]
  /\ watcher' = [watcher EXCEPT ![w].at = "native", ![w].batch = issued']
  /\ UNCHANGED <<mission, sub, resolver, runs, reached, moves, faults>>

Advance(w, at) == watcher' = [watcher EXCEPT ![w].at = at]

Arrives(w) == reached' = reached \union {watcher[w].batch}

\* The native buttons.  A send that is reported as failed may have arrived.
SendNative(w) ==
  /\ watcher[w].at = "native"
  /\ \/ Arrives(w) /\ Advance(w, "sent") /\ UNCHANGED faults
     \/ Fault /\ Advance(w, "fallback") /\ (Arrives(w) \/ UNCHANGED reached)
  /\ UNCHANGED <<mission, sub, batch, issued, token, resolver, runs, moves>>

\* The text fallback.  An adapter that reports the failure makes it undelivered; one
\* that raises does not, since no result counts as a success.
SendFallback(w) ==
  /\ watcher[w].at = "fallback"
  /\ \/ Arrives(w) /\ Advance(w, "sent") /\ UNCHANGED faults
     \/ Fault /\ (Advance(w, "unsent") \/ Advance(w, "sent")) /\ (Arrives(w) \/ UNCHANGED reached)
  /\ UNCHANGED <<mission, sub, batch, issued, token, resolver, runs, moves>>

\* Mutant: whatever the mission is now counts as prompted.
CompleteCurrent(w) ==
  /\ watcher[w].at = "sent"
  /\ sub' = IF Owned(w, To(w))
            THEN [sub EXCEPT ![To(w)] = Marked(@, mission)]
            ELSE sub
  /\ Dropped(w, To(w))
  /\ UNCHANGED <<mission, batch, issued, token, resolver, runs, reached, moves, faults>>

\* complete_prompt marks the version that was claimed.
CompletePrompt(w) ==
  /\ watcher[w].at = "sent"
  /\ sub' = IF Owned(w, To(w))
            THEN [sub EXCEPT ![To(w)] = Marked(@, Claimed(w))]
            ELSE sub
  /\ Dropped(w, To(w))
  /\ UNCHANGED <<mission, batch, issued, token, resolver, runs, reached, moves, faults>>

\* revoke_action_tokens, then release_prompt.
RevokeTokens(w) ==
  /\ watcher[w].at = "unsent"
  /\ token' = [t \in Token |->
                 IF t[1] = watcher[w].batch /\ token[t] = "pending" THEN "revoked" ELSE token[t]]
  /\ Advance(w, "revoked")
  /\ UNCHANGED <<mission, sub, batch, issued, resolver, runs, reached, moves, faults>>

\* Mutant: what could not be sent counts as prompted.
MarkUnsent(w) ==
  /\ watcher[w].at = "revoked"
  /\ sub' = IF Owned(w, To(w))
            THEN [sub EXCEPT ![To(w)] = Marked(@, Claimed(w))]
            ELSE sub
  /\ Dropped(w, To(w))
  /\ UNCHANGED <<mission, batch, issued, token, resolver, runs, reached, moves, faults>>

ReleaseUnsent(w) ==
  /\ watcher[w].at = "revoked"
  /\ Release(w, To(w))
  /\ Dropped(w, To(w))
  /\ UNCHANGED <<mission, batch, issued, token, resolver, runs, reached, moves, faults>>

EndRound(w) ==
  /\ watcher[w].at = "next" /\ Holding(w) = {}
  /\ watcher' = [watcher EXCEPT ![w] = Collecting]
  /\ UNCHANGED <<mission, sub, batch, issued, token, resolver, runs, reached, moves, faults>>

\* The gateway process ends and is started again.
WatcherStops(w) ==
  /\ Holding(w) # {} /\ Fault
  /\ watcher' = [watcher EXCEPT ![w] = Collecting]
  /\ UNCHANGED <<mission, sub, batch, issued, token, resolver, runs, reached, moves>>

\* PROMPT_CLAIM_STALE_SECONDS pass: over a claim whose watcher lost it, or over a
\* delivery that is slow.
Lost(i) == \A w \in Watcher : ~(sub[i].claim = w /\ watcher[w].held[i] # None)

ClaimAges(i) ==
  /\ sub[i].claim # None /\ ~sub[i].stale
  /\ sub' = [sub EXCEPT ![i].stale = TRUE]
  /\ UNCHANGED <<mission, batch, issued, token, watcher, resolver, runs, reached, moves>>

LostClaimAges(i) == Lost(i) /\ ClaimAges(i) /\ UNCHANGED faults
SlowDelivery(i)  == ~Lost(i) /\ ClaimAges(i) /\ Fault

WatcherStep(w) ==
  \/ \E i \in Identity : ClaimPrompt(w, i) \/ CheckVersion(w, i)
  \/ StartDeliveries(w) \/ IssueTokens(w) \/ SendNative(w) \/ SendFallback(w)
  \/ CompletePrompt(w) \/ RevokeTokens(w) \/ ReleaseUnsent(w) \/ EndRound(w)

-----------------------------------------------------------------------------
(***************************************************************************)
(* resolve_action_token                                                    *)
(***************************************************************************)

\* ACTION_TOKEN_TTL_SECONDS pass.  Calls read their clock before their transaction, so
\* the tokens of one batch need not expire together.
TokenExpires(t) ==
  /\ token[t] = "pending" /\ ~Expired(t)
  /\ batch' = [batch EXCEPT ![t[1]].expired = @ \union {t[2]}]
  /\ UNCHANGED <<mission, sub, issued, token, watcher, resolver, runs, reached, moves, faults>>

\* Mutant: the status of the row is not looked at.
RedeemAny(r, i, t) ==
  /\ resolver[r].at = "idle" /\ t[1] \in reached /\ token[t] # "none"
  /\ ~Expired(t) /\ i = batch[t[1]].to
  /\ token' = [token EXCEPT ![t] = "claimed"]
  /\ resolver' = [resolver EXCEPT ![r] = [at |-> "claimed", token |-> t]]
  /\ UNCHANGED <<mission, sub, batch, issued, watcher, runs, reached, moves, faults>>

\* The first transaction, for identity i and a token whose message arrived.  A token
\* that is not pending, or somebody else's, is refused without a change; one that is
\* too old is marked, whoever presents it.
RedeemToken(r, i, t) ==
  /\ resolver[r].at = "idle" /\ t[1] \in reached
  /\ token[t] = "pending"
  /\ \/ /\ Expired(t)
        /\ token' = [token EXCEPT ![t] = "expired"]
        /\ UNCHANGED resolver
     \/ /\ ~Expired(t) /\ i = batch[t[1]].to
        /\ token' = [token EXCEPT ![t] = "claimed"]
        /\ resolver' = [resolver EXCEPT ![r] = [at |-> "claimed", token |-> t]]
  /\ UNCHANGED <<mission, sub, batch, issued, watcher, runs, reached, moves, faults>>

\* _run_action: the operation moves the mission, leaves it as it is, or raises.
RunAction(r) ==
  LET t == resolver[r].token
  IN  /\ resolver[r].at = "claimed"
      /\ runs' = [runs EXCEPT ![t] = @ + 1]
      /\ \/ /\ \E to \in Targets(t[2], mission.status) : Stamped(to)
            /\ resolver' = [resolver EXCEPT ![r].at = "ran"]
            /\ Move
         \/ /\ t[2] = "reconcile"
            /\ resolver' = [resolver EXCEPT ![r].at = "ran"]
            /\ UNCHANGED <<mission, moves>>
         \/ /\ resolver' = [resolver EXCEPT ![r].at = "raised"]
            /\ UNCHANGED <<mission, moves>>
      /\ UNCHANGED <<sub, batch, issued, token, watcher, reached, faults>>

\* Mutant: the outcome is lost.
FinishAlike(r) ==
  LET t == resolver[r].token
  IN  /\ resolver[r].at \in {"ran", "raised"}
      /\ token' = [token EXCEPT ![t] = "completed"]
      /\ resolver' = [resolver EXCEPT ![r] = Resolving]
      /\ UNCHANGED <<mission, sub, batch, issued, watcher, runs, reached, moves, faults>>

\* The last transaction records the outcome of a token that is still claimed.
FinishAction(r) ==
  LET t == resolver[r].token
  IN  /\ resolver[r].at \in {"ran", "raised"}
      /\ token' = IF token[t] = "claimed"
                  THEN [token EXCEPT ![t] = IF resolver[r].at = "ran" THEN "succeeded" ELSE "failed"]
                  ELSE token
      /\ resolver' = [resolver EXCEPT ![r] = Resolving]
      /\ UNCHANGED <<mission, sub, batch, issued, watcher, runs, reached, moves, faults>>

\* The process ends; the token stays claimed.
ResolverStops(r) ==
  /\ resolver[r].at # "idle" /\ Fault
  /\ resolver' = [resolver EXCEPT ![r] = Resolving]
  /\ UNCHANGED <<mission, sub, batch, issued, token, watcher, runs, reached, moves>>

-----------------------------------------------------------------------------

Next ==
  \/ MissionMoves
  \/ \E i \in Identity :
       Watch(i) \/ AutoSubscribe(i) \/ Unwatch(i) \/ LostClaimAges(i) \/ SlowDelivery(i)
  \/ \E w \in Watcher :
       \/ WatcherStep(w) \/ WatcherStops(w)
       \/ \E i \in Identity : NoAdapter(w, i)
  \/ \E t \in Token : TokenExpires(t)
  \/ \E r \in Resolver :
       \/ \E i \in Identity, t \in Token : RedeemToken(r, i, t)
       \/ RunAction(r) \/ FinishAction(r) \/ ResolverStops(r)

Spec == Init /\ [][Next]_vars

\* A watcher polls as long as its gateway runs, and time passes.  Nobody has to watch,
\* redeem or move anything.
Fairness ==
  /\ \A w \in Watcher : WF_vars(WatcherStep(w))
  /\ \A i \in Identity : WF_vars(LostClaimAges(i))

FairSpec == Spec /\ Fairness

-----------------------------------------------------------------------------
(***************************************************************************)
(* Properties                                                              *)
(***************************************************************************)

\* The types of the rows and of the processes.
TypeOK ==
  /\ mission \in Version
  /\ sub \in [Identity -> Subscription]
  /\ issued \in 0..MaxBatch /\ batch \in [Batch -> BatchInfo]
  /\ token \in [Token -> TokenStatus]
  /\ watcher \in [Watcher -> WatcherState]
  /\ resolver \in [Resolver -> ResolverState]
  /\ runs \in [Token -> Nat]
  /\ reached \subseteq Batch
  /\ moves \in 0..MaxMoves /\ faults \in 0..MaxFaults

\* What the rows and the processes know of each other, the inductive strengthening of
\* the promise: a token beyond the last batch is in no row, ...
RowsIssued == \A t \in Token : t[1] > issued => token[t] = "none"

\* ... a call of resolve_action_token has its token to itself and runs it for the first
\* time, ...
ResolverOwnsToken ==
  /\ \A r \in Resolver :
       resolver[r].at # "idle" =>
         /\ resolver[r].token \in Token
         /\ token[resolver[r].token] = "claimed"
         /\ resolver[r].at = "claimed" => runs[resolver[r].token] = 0
  /\ \A r, s \in Resolver :
       /\ resolver[r].at # "idle" /\ resolver[s].at # "idle"
       /\ resolver[r].token = resolver[s].token
       => r = s

\* ... an operation that started leaves a token that can not be claimed again, ...
RunIsRecorded ==
  \A t \in Token :
    /\ runs[t] \in {0, 1}
    /\ runs[t] = 1 => token[t] \in {"claimed", "succeeded", "failed"}

\* ... and a delivery works with tokens issued for the version it claimed.
DeliveryMatchesBatch ==
  \A w \in Watcher :
    /\ watcher[w].at \notin {"collect", "next"} =>
         /\ watcher[w].to \in Identity
         /\ watcher[w].held[watcher[w].to] # None
    /\ watcher[w].at \in {"native", "fallback", "sent", "unsent", "revoked"} =>
         /\ watcher[w].batch \in 1..issued
         /\ batch[watcher[w].batch].to = watcher[w].to
         /\ batch[watcher[w].batch].version = watcher[w].held[watcher[w].to]

GatewayInvariant ==
  TypeOK /\ RowsIssued /\ ResolverOwnsToken /\ RunIsRecorded /\ DeliveryMatchesBatch

\* How far a token got, as the capability it stands for.
Capability(t) ==
  IF runs[t] = 0
  THEN CASE token[t] = "none" -> "unissued"
         [] token[t] = "pending" /\ ~Expired(t) -> "good"
         [] token[t] \in {"claimed", "succeeded", "failed"} -> "used"
         [] OTHER -> "dead"
  ELSE IF runs[t] = 1 THEN "run" ELSE "run again"

Promise == INSTANCE ActionCapability WITH cap <- [t \in Token |-> Capability(t)]

\* The rows of mission_gateway_actions keep the promise of their capabilities: one
\* operation at most per token, and none from a token that was superseded, revoked or
\* expired before it was claimed, whatever watchers and resolvers interleave, and
\* wherever a process ends.
ImplementsPromise == Promise!Spec

\* An operator never has two prompts to answer: the pending tokens of an identity come
\* from one call of issue_action_tokens, also when two gateways serve it at once.
OnePromptPending ==
  LET pending(b) == \E a \in Action : token[<<b, a>>] = "pending"
  IN  \A b, c \in 1..issued :
        pending(b) /\ pending(c) /\ batch[b].to = batch[c].to => b = c

\* A subscription only counts as prompted for a version whose tokens were issued to it,
\* so a version that appears during a delivery still gets its own prompt.
PromptedWasIssued ==
  \A i \in Identity :
    sub[i].prompted # None =>
      \E b \in 1..issued : batch[b].to = i /\ batch[b].version = sub[i].prompted

Withdrawn(b) == \E a \in Action : token[<<b, a>>] \in {"superseded", "revoked"}

\* Another state of the mission, of the second of version v.
SameSecond(u, v) == u # v /\ u.updated = v.updated

\* An identity that counts as prompted for what the mission is now has a prompt of that
\* version that was not withdrawn, unless a later prompt took its place within the same
\* second, for a state that the mission has left again.  That is for one gateway: a second
\* one can supersede the tokens whose prompt the first one then marks.
PromptStands ==
  \A i \in Identity :
    sub[i].prompted = mission =>
      \E b \in 1..issued :
        /\ batch[b].to = i /\ batch[b].version = mission
        /\ Withdrawn(b) =>
             \E c \in (b + 1)..issued : batch[c].to = i /\ SameSecond(batch[c].version, mission)

\* What makes that inductive: a version that is held, prompted or issued is the
\* mission's, or of an earlier second, or of the same one, ...
Passed(v) ==
  v # None => \/ v = mission
              \/ v.updated < mission.updated
              \/ SharedSeconds /\ v.updated = mission.updated

VersionsPass ==
  /\ \A i \in Identity :
       Passed(sub[i].prompted) /\ \A w \in Watcher : Passed(watcher[w].held[i])
  /\ \A b \in Batch : Passed(batch[b].version)

\* ... a claim is of another version than the one that was prompted, and no older, ...
Succeeds(u, v) == u \notin {v, None} /\ u.updated >= v.updated

ClaimsAreNews ==
  \A w \in Watcher, i \in Identity :
    watcher[w].held[i] # None /\ sub[i].prompted # None =>
      Succeeds(watcher[w].held[i], sub[i].prompted)

\* ... nobody withdraws the tokens of a delivery under way, ...
DeliveryIsCurrent ==
  \A w \in Watcher :
    watcher[w].at \in {"native", "fallback", "sent"} => ~Withdrawn(watcher[w].batch)

\* ... and the tokens of what counts as prompted, whatever the mission is now, only give
\* way to a later prompt.
PromptIsKept ==
  \A i \in Identity :
    sub[i].prompted # None =>
      \E b \in 1..issued :
        /\ batch[b].to = i /\ batch[b].version = sub[i].prompted
        /\ Withdrawn(b) =>
             \E c \in (b + 1)..issued :
               batch[c].to = i /\ Succeeds(batch[c].version, sub[i].prompted)

PromptInvariant == VersionsPass /\ ClaimsAreNews /\ DeliveryIsCurrent /\ PromptIsKept

\* kanban_watchers.py: "Deliver identity-bound, restart-safe mission action prompts.";
\* a version counts as prompted, and is not prompted again, once its message arrived.
PromptedWasDelivered ==
  \A i \in Identity :
    sub[i].prompted # None =>
      \E b \in reached : batch[b].to = i /\ batch[b].version = sub[i].prompted

\* A mission that waits for its operator gets its prompt out: watchers that end, sends
\* that fail and claims that are lost only delay it.
EventuallyPrompted ==
  \A i \in Identity :
    sub[i].on /\ mission.status \in Actionable ~>
      \/ sub[i].prompted = mission
      \/ mission.status \notin Actionable
      \/ ~sub[i].on

=============================================================================
