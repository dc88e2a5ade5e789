------------------------ MODULE MissionGatewayProofs ------------------------
(***************************************************************************)
(* Theorems about MissionGateway for every set of gateways, operators and  *)
(* resolvers: action tokens keep the promise of ActionCapability, an       *)
(* operator has at most one prompt to answer, only what was issued counts  *)
(* as prompted, and, with one gateway, what counts as prompted still       *)
(* stands.                                                                 *)
(*                                                                         *)
(* One inductive invariant carries the first three: the types, and what    *)
(* the rows and the processes know of each other (GatewayInvariant).  The  *)
(* last needs PromptInvariant, what claims, batches and prompted versions  *)
(* have to do with the version of the mission.                             *)
(***************************************************************************)
EXTENDS MissionGateway, TLAPS

USE GatewayAssumption

\* The invariant holds when nobody has subscribed yet.
LEMMA InitInvariant == Init => GatewayInvariant
<1> SUFFICES ASSUME Init PROVE GatewayInvariant
  OBVIOUS
<1> USE DEF Init
<1>1. mission \in Version
  BY DEF Version, MissionStatus
<1>2. Unsubscribed \in Subscription /\ NoBatch \in BatchInfo /\ Resolving \in ResolverState
  BY DEF Unsubscribed, Subscription, NoBatch, BatchInfo, Resolving, ResolverState
<1>3. Collecting \in WatcherState
  BY DEF Collecting, WatcherState
<1>4. TypeOK
  BY <1>1, <1>2, <1>3 DEF TypeOK, TokenStatus
<1>5. RowsIssued /\ RunIsRecorded
  BY DEF RowsIssued, RunIsRecorded
<1>6. ResolverOwnsToken
  BY DEF ResolverOwnsToken, Resolving
<1>7. DeliveryMatchesBatch
  BY DEF DeliveryMatchesBatch, Collecting
<1> QED
  BY <1>4, <1>5, <1>6, <1>7 DEF GatewayInvariant

-----------------------------------------------------------------------------

\* Every status has a row in the transition table, and it leads to statuses.
LEMMA TransitionTargets ==
  \A s \in MissionStatus : AllowedTransitions[s] \subseteq MissionStatus
BY DEF AllowedTransitions, MissionStatus

\* An operation leaves the mission in a status.
LEMMA OperationTargets ==
  \A a \in Action, s \in MissionStatus : Targets(a, s) \subseteq MissionStatus
<1> SUFFICES ASSUME NEW a \in Action, NEW s \in MissionStatus
             PROVE Targets(a, s) \subseteq MissionStatus
  OBVIOUS
<1>1. AllowedTransitions[s] \subseteq MissionStatus
  BY TransitionTargets
<1>2. {"committing", "blocked", "running", "planning", "ready", "succeeded", "cancelled"}
        \subseteq MissionStatus
  BY DEF MissionStatus
<1> QED
  BY <1>1, <1>2 DEF Targets

\* A stamped mission is a version.
LEMMA StampedType ==
  ASSUME mission \in Version, NEW s \in MissionStatus, Stamped(s)
  PROVE mission' \in Version
BY DEF Stamped, Version

\* The bookkeeping of the bounds keeps its type.
LEMMA BoundTypes ==
  ASSUME TypeOK
  PROVE  (Fault => faults' \in 0..MaxFaults) /\ (Move => moves' \in 0..MaxMoves)
BY DEF TypeOK, Fault, Move

\* What is written to a subscription is one.
LEMMA RowTypes ==
  ASSUME NEW row \in Subscription
  PROVE  /\ Freed(row) \in Subscription
         /\ \A w \in Watcher : Taken(row, w) \in Subscription
         /\ \A v \in Version : Marked(row, v) \in Subscription
         /\ [row EXCEPT !.on = TRUE] \in Subscription
         /\ [row EXCEPT !.stale = TRUE] \in Subscription
         /\ Unsubscribed \in Subscription /\ [Unsubscribed EXCEPT !.on = TRUE] \in Subscription
<1>1. ASSUME NEW r \in Subscription
      PROVE  /\ \A c \in Watcher \union {None} : [r EXCEPT !.claim = c] \in Subscription
             /\ \A b \in BOOLEAN : [r EXCEPT !.stale = b] \in Subscription
             /\ [r EXCEPT !.on = TRUE] \in Subscription
             /\ \A v \in Version : [r EXCEPT !.prompted = v] \in Subscription
  BY <1>1 DEF Subscription
<1>2. Freed(row) \in Subscription
  BY <1>1 DEF Freed
<1>3. \A w \in Watcher : Taken(row, w) \in Subscription
  BY <1>1 DEF Taken
<1>4. \A v \in Version : Marked(row, v) \in Subscription
  BY <1>1, <1>2 DEF Marked
<1>5. Unsubscribed \in Subscription
  BY DEF Unsubscribed, Subscription
<1> QED
  BY <1>1, <1>2, <1>3, <1>4, <1>5

\* What is written to a watcher's state is one.
LEMMA WatcherTypes ==
  ASSUME NEW s \in WatcherState
  PROVE  /\ \A at \in {"next", "checked", "native", "fallback", "sent", "unsent", "revoked"} :
              [s EXCEPT !.at = at] \in WatcherState
         /\ \A i \in Identity, v \in Version \union {None} :
              [s EXCEPT !.held[i] = v] \in WatcherState
         /\ \A i \in Identity \union {None} : [s EXCEPT !.to = i] \in WatcherState
         /\ \A b \in 0..MaxBatch : [s EXCEPT !.batch = b] \in WatcherState
<1>1. \A i \in Identity, v \in Version \union {None} :
        [s.held EXCEPT ![i] = v] \in [Identity -> Version \union {None}]
  BY DEF WatcherState
<1>2. \A h \in [Identity -> Version \union {None}] : [s EXCEPT !.held = h] \in WatcherState
  BY DEF WatcherState
<1>3. \A i \in Identity, v \in Version \union {None} : [s EXCEPT !.held[i] = v] \in WatcherState
  BY <1>1, <1>2
<1> QED
  BY <1>3 DEF WatcherState

\* Releasing a claim and dropping a candidate keep the types.
LEMMA ReleaseType ==
  ASSUME TypeOK, NEW w \in Watcher, NEW i \in Identity
  PROVE  /\ Release(w, i) => sub' \in [Identity -> Subscription]
         /\ Dropped(w, i) => watcher' \in [Watcher -> WatcherState]
<1>0. Freed(sub[i]) \in Subscription
  BY RowTypes DEF TypeOK
<1>1. Release(w, i) => sub' \in [Identity -> Subscription]
  BY <1>0 DEF TypeOK, Release
<1>2. watcher[w] \in WatcherState
  BY DEF TypeOK
<1>3. [watcher[w] EXCEPT !.at = "next"] \in WatcherState
  BY <1>2, WatcherTypes
<1>4. [watcher[w] EXCEPT !.at = "next", !.held[i] = None] \in WatcherState
  BY <1>3, WatcherTypes
<1>5. [watcher[w] EXCEPT !.at = "next", !.held[i] = None, !.to = None] \in WatcherState
  BY <1>4, WatcherTypes
<1>6. [watcher[w] EXCEPT !.at = "next", !.held[i] = None, !.to = None, !.batch = 0] \in WatcherState
  <2>1. 0 \in 0..MaxBatch
    OBVIOUS
  <2> QED
    BY <1>5, <2>1, WatcherTypes
<1>7. Dropped(w, i) => watcher' \in [Watcher -> WatcherState]
  BY <1>6 DEF TypeOK, Dropped
<1> QED
  BY <1>1, <1>7

\* A dropped candidate leaves the watcher between two deliveries and the others alone.
LEMMA DroppedMatches ==
  ASSUME TypeOK, DeliveryMatchesBatch, NEW w \in Watcher, NEW i \in Identity,
         Dropped(w, i), UNCHANGED <<issued, batch>>
  PROVE DeliveryMatchesBatch'
<1>1. watcher'[w].at = "next"
  BY DEF TypeOK, Dropped
<1>2. \A v \in Watcher : v # w => watcher'[v] = watcher[v]
  BY DEF TypeOK, Dropped
<1> QED
  BY <1>1, <1>2 DEF DeliveryMatchesBatch

\* Steps that leave tokens, batches and processes alone.
LEMMA OperatorSteps ==
  ASSUME GatewayInvariant,
         \/ MissionMoves
         \/ \E i \in Identity :
              Watch(i) \/ AutoSubscribe(i) \/ Unwatch(i) \/ LostClaimAges(i) \/ SlowDelivery(i)
  PROVE GatewayInvariant'
<1> USE DEF GatewayInvariant
<1>1. UNCHANGED <<batch, issued, token, watcher, resolver, runs, reached>>
  BY DEF MissionMoves, Watch, AutoSubscribe, Unwatch, LostClaimAges, SlowDelivery, ClaimAges
<1>2. TypeOK'
  <2>1. CASE MissionMoves
    <3>1. mission.status \in MissionStatus /\ mission \in Version
      BY DEF TypeOK, Version
    <3>2. mission' \in Version
      BY <2>1, <3>1, TransitionTargets, StampedType DEF MissionMoves
    <3> QED
      BY <2>1, <3>2, BoundTypes DEF MissionMoves, TypeOK
  <2>2. ASSUME NEW i \in Identity,
               Watch(i) \/ AutoSubscribe(i) \/ Unwatch(i) \/ LostClaimAges(i) \/ SlowDelivery(i)
        PROVE TypeOK'
    <3>0. /\ [Unsubscribed EXCEPT !.on = TRUE] \in Subscription /\ Unsubscribed \in Subscription
          /\ [sub[i] EXCEPT !.on = TRUE] \in Subscription
          /\ [sub[i] EXCEPT !.stale = TRUE] \in Subscription
      BY RowTypes DEF TypeOK
    <3>1. sub' \in [Identity -> Subscription]
      BY <2>2, <3>0 DEF TypeOK, Watch, AutoSubscribe, Unwatch, LostClaimAges, SlowDelivery,
                        ClaimAges
    <3>2. mission' = mission /\ moves' \in 0..MaxMoves /\ faults' \in 0..MaxFaults
      BY <2>2, BoundTypes DEF TypeOK, Watch, AutoSubscribe, Unwatch, LostClaimAges, SlowDelivery,
                              ClaimAges
    <3> QED
      BY <1>1, <3>1, <3>2 DEF TypeOK
  <2> QED
    BY <2>1, <2>2
<1> QED
  BY <1>1, <1>2 DEF RowsIssued, ResolverOwnsToken, RunIsRecorded, DeliveryMatchesBatch

\* The steps of a watcher that leave the tokens alone.
DeliveryStep(w) ==
  \/ \E i \in Identity : ClaimPrompt(w, i) \/ CheckVersion(w, i) \/ NoAdapter(w, i)
  \/ StartDeliveries(w) \/ SendNative(w) \/ SendFallback(w) \/ CompletePrompt(w)
  \/ ReleaseUnsent(w) \/ EndRound(w) \/ WatcherStops(w)

\* Deliveries: whatever a watcher does but issue and revoke, the invariant stays.
LEMMA DeliverySteps ==
  ASSUME GatewayInvariant, NEW w \in Watcher, DeliveryStep(w)
  PROVE GatewayInvariant'
<1> USE DEF GatewayInvariant
<1>1. /\ UNCHANGED <<mission, batch, issued, token, resolver, runs, moves>>
      /\ faults' = faults \/ Fault
  BY DEF DeliveryStep, ClaimPrompt, CheckVersion, NoAdapter, StartDeliveries, SendNative,
         SendFallback, CompletePrompt, ReleaseUnsent, EndRound, WatcherStops
<1>2. /\ watcher[w] \in WatcherState /\ mission \in Version
      /\ \A i \in Identity : watcher[w].held[i] \in Version \union {None}
  BY DEF TypeOK, WatcherState
<1>3. faults' \in 0..MaxFaults
  BY <1>1, BoundTypes DEF TypeOK
<1> DEFINE Kept == /\ sub' \in [Identity -> Subscription]
                   /\ watcher' \in [Watcher -> WatcherState]
                   /\ reached' \subseteq Batch
                   /\ DeliveryMatchesBatch'
\* Moving on within the same delivery, or leaving it.
<1>4. ASSUME NEW at \in {"next", "fallback", "sent", "unsent"}, Advance(w, at),
             \/ at = "next" /\ watcher[w].at = "collect"
             \/ watcher[w].at \in {"native", "fallback"}
      PROVE watcher' \in [Watcher -> WatcherState] /\ DeliveryMatchesBatch'
  <2>1. watcher' \in [Watcher -> WatcherState]
    BY <1>4 DEF TypeOK, Advance, WatcherState
  <2>2. /\ watcher'[w].at = at /\ watcher'[w].to = watcher[w].to
        /\ watcher'[w].held = watcher[w].held /\ watcher'[w].batch = watcher[w].batch
        /\ \A v \in Watcher : v # w => watcher'[v] = watcher[v]
    BY <1>2, <1>4 DEF TypeOK, Advance, WatcherState
  <2> QED
    BY <1>1, <1>4, <2>1, <2>2 DEF DeliveryMatchesBatch
\* Starting over.
<1>5. ASSUME watcher' = [watcher EXCEPT ![w] = Collecting]
      PROVE watcher' \in [Watcher -> WatcherState] /\ DeliveryMatchesBatch'
  BY <1>1, <1>5 DEF TypeOK, Collecting, WatcherState, DeliveryMatchesBatch
<1>6. ASSUME NEW i \in Identity, ClaimPrompt(w, i) PROVE Kept
  <2>1. sub' \in [Identity -> Subscription] /\ reached' \subseteq Batch
    BY <1>6, RowTypes DEF TypeOK, ClaimPrompt
  <2>2. watcher' \in [Watcher -> WatcherState]
    BY <1>2, <1>6 DEF TypeOK, ClaimPrompt, WatcherState
  <2>3. watcher'[w].at = "collect" /\ \A v \in Watcher : v # w => watcher'[v] = watcher[v]
    BY <1>2, <1>6 DEF TypeOK, ClaimPrompt, WatcherState
  <2>4. DeliveryMatchesBatch'
    BY <1>1, <2>3 DEF DeliveryMatchesBatch
  <2> QED
    BY <2>1, <2>2, <2>4
<1>7. ASSUME NEW i \in Identity, Dropped(w, i), Release(w, i), UNCHANGED reached PROVE Kept
  BY <1>1, <1>7, ReleaseType, DroppedMatches DEF TypeOK
<1>8. ASSUME NEW i \in Identity, CheckVersion(w, i) PROVE Kept
  <2>1. CASE watcher[w].held[i] = mission
    <3>1. watcher' = [watcher EXCEPT ![w].at = "checked", ![w].to = i]
          /\ UNCHANGED <<sub, reached>>
      BY <1>8, <2>1 DEF CheckVersion
    <3>2. watcher' \in [Watcher -> WatcherState]
      BY <1>2, <3>1 DEF TypeOK, WatcherState
    <3>3. /\ watcher'[w].at = "checked" /\ watcher'[w].to = i
          /\ watcher'[w].held = watcher[w].held
          /\ \A v \in Watcher : v # w => watcher'[v] = watcher[v]
      BY <1>2, <3>1 DEF TypeOK, WatcherState
    <3>4. watcher[w].held[i] # None
      BY <1>8 DEF CheckVersion, Holding
    <3>5. DeliveryMatchesBatch'
      BY <1>1, <3>3, <3>4 DEF DeliveryMatchesBatch
    <3> QED
      BY <3>1, <3>2, <3>5 DEF TypeOK
  <2>2. CASE watcher[w].held[i] # mission
    BY <1>7, <1>8, <2>2 DEF CheckVersion
  <2> QED
    BY <2>1, <2>2
<1>9. ASSUME NEW i \in Identity, NoAdapter(w, i) PROVE Kept
  BY <1>7, <1>9 DEF NoAdapter
<1>10. ASSUME StartDeliveries(w) PROVE Kept
  BY <1>4, <1>10 DEF TypeOK, StartDeliveries, Advance
<1>11. ASSUME SendNative(w) \/ SendFallback(w) PROVE Kept
  <2>1. watcher[w].at \in {"native", "fallback"} => watcher[w].batch \in Batch
    BY DEF TypeOK, DeliveryMatchesBatch, Batch
  <2>2. reached' \subseteq Batch /\ UNCHANGED sub
    BY <1>11, <2>1 DEF TypeOK, SendNative, SendFallback, Arrives
  <2>3. \E at \in {"fallback", "sent", "unsent"} : Advance(w, at)
    BY <1>11 DEF SendNative, SendFallback
  <2>4. watcher[w].at \in {"native", "fallback"}
    BY <1>11 DEF SendNative, SendFallback
  <2> QED
    BY <1>4, <2>2, <2>3, <2>4 DEF TypeOK
<1>12. ASSUME CompletePrompt(w) PROVE Kept
  <2>1. watcher[w].to \in Identity /\ watcher[w].held[watcher[w].to] \in Version
    BY <1>2, <1>12 DEF CompletePrompt, DeliveryMatchesBatch
  <2>2. Marked(sub[To(w)], Claimed(w)) \in Subscription
    BY <2>1, RowTypes DEF TypeOK, To, Claimed
  <2>3. sub' \in [Identity -> Subscription]
    BY <1>12, <2>1, <2>2 DEF TypeOK, CompletePrompt, To
  <2>4. Dropped(w, watcher[w].to) /\ UNCHANGED reached
    BY <1>12 DEF CompletePrompt, To
  <2> QED
    BY <1>1, <2>1, <2>3, <2>4, ReleaseType, DroppedMatches DEF TypeOK
<1>13. ASSUME ReleaseUnsent(w) PROVE Kept
  <2>1. watcher[w].to \in Identity
    BY <1>13 DEF ReleaseUnsent, DeliveryMatchesBatch
  <2> QED
    BY <1>7, <1>13, <2>1 DEF ReleaseUnsent, To
<1>14. ASSUME EndRound(w) \/ WatcherStops(w) PROVE Kept
  BY <1>5, <1>14 DEF TypeOK, EndRound, WatcherStops
<1>15. Kept
  BY <1>6, <1>8, <1>9, <1>10, <1>11, <1>12, <1>13, <1>14 DEF DeliveryStep
<1> QED
  BY <1>1, <1>3, <1>15 DEF TypeOK, RowsIssued, ResolverOwnsToken, RunIsRecorded

-----------------------------------------------------------------------------

\* The fields of a token, and the bound on batches.
LEMMA TokenFields ==
  /\ \A t \in Token : t[1] \in Batch /\ t[2] \in Action /\ t = <<t[1], t[2]>>
  /\ \A b \in Batch, a \in Action : <<b, a>> \in Token
  /\ Batch \subseteq Nat \ {0}
BY DEF Token, Batch

\* Issuing a batch: its tokens are new, and only pending ones are superseded.
LEMMA IssueStep ==
  ASSUME GatewayInvariant, NEW w \in Watcher, IssueTokens(w)
  PROVE GatewayInvariant'
<1> USE DEF GatewayInvariant
<1>1. /\ issued \in Nat /\ issued' = issued + 1 /\ issued' \in Batch /\ issued' \in 0..MaxBatch
      /\ UNCHANGED <<mission, sub, resolver, runs, reached, moves, faults>>
  BY DEF TypeOK, IssueTokens, Batch
<1>2. /\ watcher[w].to \in Identity
      /\ watcher[w].held[watcher[w].to] \in Version
      /\ watcher[w] \in WatcherState
  BY DEF TypeOK, IssueTokens, DeliveryMatchesBatch, WatcherState
<1>3. /\ batch' \in [Batch -> BatchInfo]
      /\ batch'[issued'].to = watcher[w].to
      /\ batch'[issued'].version = watcher[w].held[watcher[w].to]
      /\ \A b \in Batch : b # issued' => batch'[b] = batch[b]
  BY <1>1, <1>2 DEF TypeOK, IssueTokens, BatchInfo, To, Claimed
<1>4. /\ token' \in [Token -> TokenStatus]
      /\ \A t \in Token : token'[t] = token[t] \/ token[t] \in {"none", "pending"}
      /\ \A t \in Token : token'[t] # token[t] => token'[t] \in {"pending", "superseded"}
  <2>1. \A t \in Token : t[1] = issued' => token[t] = "none"
    BY <1>1, TokenFields DEF RowsIssued
  <2>2. {"pending", "superseded"} \subseteq TokenStatus
    BY DEF TokenStatus
  <2> QED
    BY <2>1, <2>2 DEF TypeOK, IssueTokens
<1>5. watcher' \in [Watcher -> WatcherState]
  <2>1. [watcher[w] EXCEPT !.at = "native"] \in WatcherState
    BY <1>2, WatcherTypes
  <2>2. [watcher[w] EXCEPT !.at = "native", !.batch = issued'] \in WatcherState
    BY <1>1, <2>1, WatcherTypes
  <2> QED
    BY <2>2 DEF TypeOK, IssueTokens
<1>6. TypeOK'
  BY <1>1, <1>3, <1>4, <1>5 DEF TypeOK
<1>7. RowsIssued'
  <2> SUFFICES ASSUME NEW t \in Token, t[1] > issued' PROVE token'[t] = "none"
    BY DEF RowsIssued
  <2>1. t[1] > issued /\ t[1] # issued' /\ t[1] \in Nat
    BY <1>1, TokenFields
  <2>2. token[t] = "none"
    BY <2>1 DEF RowsIssued
  <2> QED
    BY <2>1, <2>2 DEF IssueTokens
<1>8. ResolverOwnsToken'
  BY <1>1, <1>4 DEF ResolverOwnsToken
<1>9. RunIsRecorded'
  BY <1>1, <1>4 DEF RunIsRecorded
<1>10. DeliveryMatchesBatch'
  <2>1. /\ watcher'[w].at = "native" /\ watcher'[w].batch = issued'
        /\ watcher'[w].to = watcher[w].to /\ watcher'[w].held = watcher[w].held
        /\ \A v \in Watcher : v # w => watcher'[v] = watcher[v]
    BY <1>2 DEF TypeOK, IssueTokens, WatcherState
  <2>2. \A b \in 1..issued : b \in 1..issued' /\ batch'[b] = batch[b]
    BY <1>1, <1>3 DEF TypeOK, Batch
  <2>3. issued' \in 1..issued' /\ watcher[w].held[watcher[w].to] # None
    BY <1>1 DEF IssueTokens, DeliveryMatchesBatch
  <2> QED
    BY <1>2, <1>3, <2>1, <2>2, <2>3 DEF DeliveryMatchesBatch
<1> QED
  BY <1>6, <1>7, <1>8, <1>9, <1>10

\* Revoking a batch only touches its pending tokens.
LEMMA RevokeStep ==
  ASSUME GatewayInvariant, NEW w \in Watcher, RevokeTokens(w)
  PROVE GatewayInvariant'
<1> USE DEF GatewayInvariant
<1>1. UNCHANGED <<mission, sub, batch, issued, resolver, runs, reached, moves, faults>>
  BY DEF RevokeTokens
<1>2. /\ token' \in [Token -> TokenStatus]
      /\ \A t \in Token : token'[t] = token[t] \/ (token[t] = "pending" /\ token'[t] = "revoked")
  <2>1. "revoked" \in TokenStatus
    BY DEF TokenStatus
  <2>2. token \in [Token -> TokenStatus]
    BY DEF TypeOK
  <2>3. token' = [t \in Token |-> IF t[1] = watcher[w].batch /\ token[t] = "pending"
                                  THEN "revoked" ELSE token[t]]
    BY DEF RevokeTokens
  <2>4. \A t \in Token : token'[t] = token[t] \/ (token[t] = "pending" /\ token'[t] = "revoked")
    BY <2>3
  <2> QED
    BY <2>1, <2>2, <2>3, <2>4
<1>3. watcher[w] \in WatcherState /\ [watcher[w] EXCEPT !.at = "revoked"] \in WatcherState
  BY WatcherTypes DEF TypeOK
<1>4. /\ watcher' \in [Watcher -> WatcherState]
      /\ watcher'[w].at = "revoked" /\ watcher'[w].batch = watcher[w].batch
      /\ watcher'[w].to = watcher[w].to /\ watcher'[w].held = watcher[w].held
      /\ \A v \in Watcher : v # w => watcher'[v] = watcher[v]
  BY <1>3 DEF TypeOK, RevokeTokens, Advance, WatcherState
<1>5. TypeOK' /\ RowsIssued' /\ ResolverOwnsToken' /\ RunIsRecorded'
  BY <1>1, <1>2, <1>4 DEF TypeOK, RowsIssued, ResolverOwnsToken, RunIsRecorded
<1>6. DeliveryMatchesBatch'
  BY <1>1, <1>4 DEF RevokeTokens, DeliveryMatchesBatch
<1> QED
  BY <1>5, <1>6

\* A token that expires changes nothing that the invariant reads.
LEMMA ExpireStep ==
  ASSUME GatewayInvariant, NEW t \in Token, TokenExpires(t)
  PROVE GatewayInvariant'
<1> USE DEF GatewayInvariant
<1>1. UNCHANGED <<mission, sub, issued, token, watcher, resolver, runs, reached, moves, faults>>
  BY DEF TokenExpires
<1>2. /\ batch' \in [Batch -> BatchInfo]
      /\ \A c \in Batch : batch'[c].to = batch[c].to /\ batch'[c].version = batch[c].version
  BY TokenFields DEF TypeOK, TokenExpires, BatchInfo
<1>3. 1..issued \subseteq Batch
  BY DEF TypeOK, Batch
<1>4. TypeOK' /\ RowsIssued' /\ ResolverOwnsToken' /\ RunIsRecorded'
  BY <1>1, <1>2 DEF TypeOK, RowsIssued, ResolverOwnsToken, RunIsRecorded
<1>5. DeliveryMatchesBatch'
  BY <1>1, <1>2, <1>3 DEF DeliveryMatchesBatch
<1> QED
  BY <1>4, <1>5

\* The steps of a resolver.
ResolverStep(r) ==
  \/ \E i \in Identity, t \in Token : RedeemToken(r, i, t)
  \/ RunAction(r) \/ FinishAction(r) \/ ResolverStops(r)

\* A resolver claims a token nobody holds, runs it once and lets it go.
LEMMA ResolverSteps ==
  ASSUME GatewayInvariant, NEW r \in Resolver, ResolverStep(r)
  PROVE GatewayInvariant'
<1> USE DEF GatewayInvariant
<1>1. UNCHANGED <<sub, batch, issued, watcher, reached>>
  BY DEF ResolverStep, RedeemToken, RunAction, FinishAction, ResolverStops
<1>2. DeliveryMatchesBatch'
  BY <1>1 DEF DeliveryMatchesBatch
<1>3. resolver[r] \in ResolverState /\ Resolving \in ResolverState
  BY DEF TypeOK, Resolving, ResolverState
<1>4. ASSUME NEW i \in Identity, NEW t \in Token, RedeemToken(r, i, t)
      PROVE TypeOK' /\ RowsIssued' /\ ResolverOwnsToken' /\ RunIsRecorded'
  <2>1. /\ token[t] = "pending" /\ resolver[r].at = "idle"
        /\ UNCHANGED <<mission, runs, moves, faults>>
    BY <1>4 DEF RedeemToken
  <2>2. /\ runs[t] = 0
        /\ \A s \in Resolver : resolver[s].at # "idle" => resolver[s].token # t
    BY <2>1 DEF RunIsRecorded, ResolverOwnsToken
  <2>3. t[1] <= issued
    BY <2>1, TokenFields DEF TypeOK, RowsIssued
  <2>4. CASE token' = [token EXCEPT ![t] = "expired"] /\ UNCHANGED resolver
    <3>1. TypeOK'
      BY <1>1, <2>1, <2>4 DEF TypeOK, TokenStatus
    <3>2. RowsIssued' /\ RunIsRecorded' /\ ResolverOwnsToken'
      BY <1>1, <2>1, <2>2, <2>3, <2>4, TokenFields
         DEF TypeOK, RowsIssued, RunIsRecorded, ResolverOwnsToken
    <3> QED
      BY <3>1, <3>2
  <2>5. CASE /\ token' = [token EXCEPT ![t] = "claimed"]
             /\ resolver' = [resolver EXCEPT ![r] = [at |-> "claimed", token |-> t]]
    <3>1. TypeOK'
      BY <1>1, <2>1, <2>5 DEF TypeOK, TokenStatus, ResolverState
    <3>2. RowsIssued' /\ RunIsRecorded'
      BY <1>1, <2>1, <2>2, <2>3, <2>5, TokenFields DEF TypeOK, RowsIssued, RunIsRecorded
    <3>3. /\ resolver'[r].at = "claimed" /\ resolver'[r].token = t
          /\ \A s \in Resolver : s # r => resolver'[s] = resolver[s]
          /\ token'[t] = "claimed" /\ \A u \in Token : u # t => token'[u] = token[u]
      BY <2>5 DEF TypeOK
    <3>4. ResolverOwnsToken'
      BY <2>1, <2>2, <3>3 DEF ResolverOwnsToken
    <3> QED
      BY <3>1, <3>2, <3>4
  <2> QED
    BY <1>4, <2>4, <2>5 DEF RedeemToken
<1>5. ASSUME RunAction(r) PROVE TypeOK' /\ RowsIssued' /\ ResolverOwnsToken' /\ RunIsRecorded'
  <2> DEFINE t == resolver[r].token
  <2>1. /\ resolver[r].at = "claimed" /\ t \in Token /\ token[t] = "claimed" /\ runs[t] = 0
        /\ UNCHANGED <<token, faults>>
        /\ runs' = [runs EXCEPT ![t] = @ + 1]
    BY <1>5 DEF RunAction, ResolverOwnsToken
  <2>2. PICK at \in {"ran", "raised"} : resolver' = [resolver EXCEPT ![r].at = at]
    BY <1>5 DEF RunAction
  <2>3. /\ resolver' \in [Resolver -> ResolverState]
        /\ resolver'[r].at = at /\ resolver'[r].token = t
        /\ \A s \in Resolver : s # r => resolver'[s] = resolver[s]
    BY <1>3, <2>2 DEF TypeOK, ResolverState
  <2>4. /\ runs' \in [Token -> Nat] /\ runs'[t] = 1
        /\ \A u \in Token : u # t => runs'[u] = runs[u]
    BY <2>1 DEF TypeOK
  <2>5. mission' \in Version /\ moves' \in 0..MaxMoves
    <3>1. mission.status \in MissionStatus /\ t[2] \in Action
      BY <2>1, TokenFields DEF TypeOK, Version
    <3>2. CASE UNCHANGED <<mission, moves>>
      BY <3>2 DEF TypeOK
    <3>3. CASE (\E to \in Targets(t[2], mission.status) : Stamped(to)) /\ Move
      BY <3>1, <3>3, OperationTargets, StampedType, BoundTypes DEF TypeOK
    <3> QED
      BY <1>5, <3>2, <3>3 DEF RunAction
  <2>6. TypeOK'
    BY <1>1, <2>1, <2>3, <2>4, <2>5 DEF TypeOK
  <2>7. RowsIssued' /\ RunIsRecorded'
    BY <1>1, <2>1, <2>4 DEF RowsIssued, RunIsRecorded
  <2>8. \A s \in Resolver : s # r /\ resolver[s].at # "idle" => resolver[s].token # t
    BY <2>1 DEF ResolverOwnsToken
  <2>9. ResolverOwnsToken'
    BY <2>1, <2>2, <2>3, <2>4, <2>8 DEF ResolverOwnsToken
  <2> QED
    BY <2>6, <2>7, <2>9
<1>6. ASSUME FinishAction(r) PROVE TypeOK' /\ RowsIssued' /\ ResolverOwnsToken' /\ RunIsRecorded'
  <2> DEFINE t == resolver[r].token
  <2>1. /\ resolver[r].at \in {"ran", "raised"} /\ t \in Token /\ token[t] = "claimed"
        /\ UNCHANGED <<mission, runs, moves, faults>>
        /\ resolver' = [resolver EXCEPT ![r] = Resolving]
    BY <1>6 DEF FinishAction, ResolverOwnsToken
  <2>2. PICK result \in {"succeeded", "failed"} : token' = [token EXCEPT ![t] = result]
    BY <1>6, <2>1 DEF FinishAction
  <2>3. TypeOK'
    BY <1>1, <1>3, <2>1, <2>2 DEF TypeOK, TokenStatus
  <2>4. RowsIssued' /\ RunIsRecorded'
    BY <1>1, <2>1, <2>2 DEF TypeOK, RowsIssued, RunIsRecorded
  <2>5. \A s \in Resolver : s # r /\ resolver[s].at # "idle" => resolver[s].token # t
    BY <2>1 DEF ResolverOwnsToken
  <2>6. /\ resolver'[r].at = "idle" /\ \A s \in Resolver : s # r => resolver'[s] = resolver[s]
        /\ \A u \in Token : u # t => token'[u] = token[u]
    BY <2>1, <2>2 DEF TypeOK, Resolving
  <2>7. ResolverOwnsToken'
    BY <2>1, <2>5, <2>6 DEF ResolverOwnsToken
  <2> QED
    BY <2>3, <2>4, <2>7
<1>7. ASSUME ResolverStops(r) PROVE TypeOK' /\ RowsIssued' /\ ResolverOwnsToken' /\ RunIsRecorded'
  <2>1. /\ UNCHANGED <<mission, token, runs, moves>> /\ faults' \in 0..MaxFaults
        /\ resolver' = [resolver EXCEPT ![r] = Resolving]
    BY <1>7, BoundTypes DEF ResolverStops
  <2>2. resolver'[r].at = "idle" /\ \A s \in Resolver : s # r => resolver'[s] = resolver[s]
    BY <2>1 DEF TypeOK, Resolving
  <2>3. TypeOK'
    BY <1>1, <1>3, <2>1 DEF TypeOK
  <2>4. RowsIssued' /\ RunIsRecorded' /\ ResolverOwnsToken'
    BY <1>1, <2>1, <2>2 DEF RowsIssued, RunIsRecorded, ResolverOwnsToken
  <2> QED
    BY <2>3, <2>4
<1> QED
  BY <1>2, <1>4, <1>5, <1>6, <1>7 DEF ResolverStep

-----------------------------------------------------------------------------

\* Every step of the gateway keeps the invariant.
LEMMA StepInvariant == GatewayInvariant /\ [Next]_vars => GatewayInvariant'
<1> SUFFICES ASSUME GatewayInvariant, [Next]_vars PROVE GatewayInvariant'
  OBVIOUS
<1>1. CASE UNCHANGED vars
  BY <1>1 DEF vars, GatewayInvariant, TypeOK, RowsIssued, ResolverOwnsToken, RunIsRecorded,
              DeliveryMatchesBatch
<1>2. ASSUME NEW w \in Watcher,
             WatcherStep(w) \/ WatcherStops(w) \/ \E i \in Identity : NoAdapter(w, i)
      PROVE GatewayInvariant'
  BY <1>2, DeliverySteps, IssueStep, RevokeStep DEF WatcherStep, DeliveryStep
<1>3. ASSUME NEW r \in Resolver,
             \/ \E i \in Identity, t \in Token : RedeemToken(r, i, t)
             \/ RunAction(r) \/ FinishAction(r) \/ ResolverStops(r)
      PROVE GatewayInvariant'
  BY <1>3, ResolverSteps DEF ResolverStep
<1> QED
  BY <1>1, <1>2, <1>3, OperatorSteps, ExpireStep DEF Next

\* The rows and the processes agree in every reachable state.
LEMMA GatewayInvariance == Spec => []GatewayInvariant
<1>1. Init => GatewayInvariant
  BY InitInvariant
<1>2. GatewayInvariant /\ [Next]_vars => GatewayInvariant'
  BY StepInvariant
<1> QED
  BY <1>1, <1>2, PTL DEF Spec

\* Rows and processes keep their types.
THEOREM GatewayTypes == Spec => []TypeOK
<1>1. GatewayInvariant => TypeOK
  BY DEF GatewayInvariant
<1> QED
  BY <1>1, GatewayInvariance, PTL

-----------------------------------------------------------------------------
(***************************************************************************)
(* The promise of the action tokens                                        *)
(***************************************************************************)

\* What a token stands for, without the case that the invariant excludes.
LEMMA CapabilityCases ==
  GatewayInvariant =>
    \A t \in Token :
      /\ runs[t] = 1 => Capability(t) = "run"
      /\ runs[t] = 0 /\ token[t] = "none" => Capability(t) = "unissued"
      /\ runs[t] = 0 /\ token[t] = "pending" /\ ~Expired(t) => Capability(t) = "good"
      /\ runs[t] = 0 /\ token[t] = "pending" /\ Expired(t) => Capability(t) = "dead"
      /\ runs[t] = 0 /\ token[t] \in {"claimed", "succeeded", "failed"} => Capability(t) = "used"
      /\ runs[t] = 0 /\ token[t] \in {"expired", "superseded", "revoked"} => Capability(t) = "dead"
BY DEF Capability

\* The same after a step.
LEMMA CapabilityCasesNext ==
  (GatewayInvariant =>
     \A t \in Token :
       /\ runs[t] = 1 => Capability(t) = "run"
       /\ runs[t] = 0 /\ token[t] = "none" => Capability(t) = "unissued"
       /\ runs[t] = 0 /\ token[t] = "pending" /\ ~Expired(t) => Capability(t) = "good"
       /\ runs[t] = 0 /\ token[t] = "pending" /\ Expired(t) => Capability(t) = "dead"
       /\ runs[t] = 0 /\ token[t] \in {"claimed", "succeeded", "failed"} => Capability(t) = "used"
       /\ runs[t] = 0 /\ token[t] \in {"expired", "superseded", "revoked"}
            => Capability(t) = "dead")'
BY CapabilityCases, PTL

\* A token that no step touched stands for what it stood for.
LEMMA SameCapability ==
  ASSUME NEW t \in Token, token'[t] = token[t], runs'[t] = runs[t],
         token[t] = "pending" => Expired(t)' = Expired(t)
  PROVE Capability(t)' = Capability(t)
BY DEF Capability

\* Every token stands for a capability in one of the promised states.
LEMMA CapabilityType ==
  GatewayInvariant => [t \in Token |-> Capability(t)] \in [Token -> Promise!State]
<1> SUFFICES ASSUME GatewayInvariant, NEW t \in Token PROVE Capability(t) \in Promise!State
  OBVIOUS
<1>1. /\ runs[t] \in {0, 1} /\ token[t] \in TokenStatus
      /\ Expired(t) \/ ~Expired(t)
  BY TokenFields DEF GatewayInvariant, TypeOK, RunIsRecorded
<1> QED
  BY <1>1, CapabilityCases DEF TokenStatus, Promise!State

\* The same after a step.
LEMMA CapabilityTypeNext ==
  (GatewayInvariant => [t \in Token |-> Capability(t)] \in [Token -> Promise!State])'
BY CapabilityType, PTL

\* A step that issues tokens and lets others die.
LEMMA ManyMove ==
  ASSUME GatewayInvariant', 
         \A t \in Token :
           \/ Capability(t)' = Capability(t)
           \/ Capability(t) = "unissued" /\ Capability(t)' = "good"
           \/ Capability(t) = "good" /\ Capability(t)' = "dead"
  PROVE Promise!Next
<1>1. [t \in Token |-> Capability(t)]' \in [Token -> Promise!State]
  BY CapabilityTypeNext
<1> QED
  BY <1>1 DEF Promise!Next, Promise!Moves

\* A step that uses or runs one token.
LEMMA OneMove ==
  ASSUME GatewayInvariant', NEW u \in Token,
         \/ Capability(u) = "good" /\ Capability(u)' = "used"
         \/ Capability(u) = "used" /\ Capability(u)' = "run",
         \A t \in Token : t # u => Capability(t)' = Capability(t)
  PROVE Promise!Next
<1>1. [t \in Token |-> Capability(t)]' \in [Token -> Promise!State]
  BY CapabilityTypeNext
<1> QED
  BY <1>1 DEF Promise!Next, Promise!Moves

\* Every step of the gateway is a step of the promise or leaves it alone: one case per
\* action that touches a token.
LEMMA PromiseStep ==
  GatewayInvariant /\ GatewayInvariant' /\ [Next]_vars =>
    [Promise!Next]_([t \in Token |-> Capability(t)])
<1> SUFFICES ASSUME GatewayInvariant, GatewayInvariant', [Next]_vars
             PROVE [Promise!Next]_([t \in Token |-> Capability(t)])
  OBVIOUS
<1> USE DEF GatewayInvariant
<1>1. CASE UNCHANGED <<token, runs, batch>>
  <2>1. \A t \in Token : Capability(t)' = Capability(t)
    BY <1>1, SameCapability DEF Expired
  <2> QED
    BY <2>1
<1>2. ASSUME NEW w \in Watcher, IssueTokens(w) PROVE Promise!Next
  <2>1. /\ issued' = issued + 1 /\ issued \in Nat /\ issued' \in Batch /\ runs' = runs
        /\ token \in [Token -> TokenStatus] /\ batch \in [Batch -> BatchInfo]
    BY <1>2 DEF TypeOK, IssueTokens, Batch
  <2>2. ASSUME NEW t \in Token
        PROVE \/ Capability(t)' = Capability(t)
              \/ Capability(t) = "unissued" /\ Capability(t)' = "good"
              \/ Capability(t) = "good" /\ Capability(t)' = "dead"
    <3>1. t[1] \in Batch /\ t[1] \in Nat
      BY TokenFields
    <3>2. CASE t[1] = issued'
      <4>1. token[t] = "none" /\ runs[t] = 0
        BY <2>1, <3>1, <3>2 DEF RowsIssued, RunIsRecorded
      <4>2. token'[t] \in {"none", "pending"} /\ ~Expired(t)' /\ runs'[t] = 0
        BY <1>2, <2>1, <3>2, <4>1 DEF IssueTokens, Expired
      <4> QED
        BY <4>1, <4>2, CapabilityCases, CapabilityCasesNext
    <3>3. CASE t[1] # issued'
      <4>1. batch'[t[1]] = batch[t[1]] /\ runs'[t] = runs[t]
        BY <1>2, <2>1, <3>1, <3>3 DEF IssueTokens
      <4>2. CASE token'[t] = token[t]
        BY <4>1, <4>2, SameCapability DEF Expired
      <4>3. CASE token'[t] # token[t]
        <5>1. token[t] = "pending" /\ token'[t] = "superseded"
          BY <1>2, <3>3, <4>3 DEF IssueTokens
        <5>2. runs[t] = 0 /\ (Expired(t) \/ ~Expired(t))
          BY <2>1, <3>1, <5>1 DEF RunIsRecorded
        <5> QED
          BY <4>1, <5>1, <5>2, CapabilityCases, CapabilityCasesNext
      <4> QED
        BY <4>2, <4>3
    <3> QED
      BY <3>2, <3>3
  <2> QED
    BY <2>2, ManyMove
<1>3. ASSUME NEW w \in Watcher, RevokeTokens(w) PROVE Promise!Next
  <2>1. ASSUME NEW t \in Token
        PROVE \/ Capability(t)' = Capability(t)
              \/ Capability(t) = "good" /\ Capability(t)' = "dead"
    <3>1. /\ batch' = batch /\ runs' = runs
          /\ token'[t] = token[t] \/ (token[t] = "pending" /\ token'[t] = "revoked")
      BY <1>3 DEF RevokeTokens
    <3>2. CASE token'[t] = token[t]
      BY <3>1, <3>2, SameCapability DEF Expired
    <3>3. CASE token[t] = "pending" /\ token'[t] = "revoked"
      <4>1. runs[t] = 0 /\ (Expired(t) \/ ~Expired(t))
        BY <3>3, TokenFields DEF TypeOK, RunIsRecorded
      <4> QED
        BY <3>1, <3>3, <4>1, CapabilityCases, CapabilityCasesNext
    <3> QED
      BY <3>1, <3>2, <3>3
  <2> QED
    BY <2>1, ManyMove
<1>4. ASSUME NEW u \in Token, TokenExpires(u) PROVE Promise!Next
  <2>1. /\ token' = token /\ runs' = runs /\ token[u] = "pending" /\ runs[u] = 0
        /\ ~Expired(u) /\ Expired(u)'
        /\ \A t \in Token : t # u => Expired(t)' = Expired(t)
    BY <1>4, TokenFields DEF TypeOK, TokenExpires, BatchInfo, RunIsRecorded, Expired
  <2>2. \A t \in Token : t # u => Capability(t)' = Capability(t)
    BY <2>1, SameCapability
  <2>3. Capability(u) = "good" /\ Capability(u)' = "dead"
    BY <2>1, CapabilityCases, CapabilityCasesNext
  <2> QED
    BY <2>2, <2>3, ManyMove
<1>5. ASSUME NEW r \in Resolver, NEW i \in Identity, NEW u \in Token, RedeemToken(r, i, u)
      PROVE Promise!Next
  <2>1. /\ batch' = batch /\ runs' = runs /\ token[u] = "pending" /\ runs[u] = 0
        /\ \A t \in Token : t # u => token'[t] = token[t]
    BY <1>5 DEF TypeOK, RedeemToken, RunIsRecorded
  <2>2. \A t \in Token : t # u => Capability(t)' = Capability(t)
    BY <2>1, SameCapability DEF Expired
  <2>3. CASE Expired(u) /\ token'[u] = "expired"
    <3>1. Capability(u) = "dead" /\ Capability(u)' = "dead"
      BY <2>1, <2>3, CapabilityCases, CapabilityCasesNext
    <3> QED
      BY <2>2, <3>1, ManyMove
  <2>4. CASE ~Expired(u) /\ token'[u] = "claimed"
    <3>1. Capability(u) = "good" /\ Capability(u)' = "used"
      BY <2>1, <2>4, CapabilityCases, CapabilityCasesNext
    <3> QED
      BY <2>2, <3>1, OneMove
  <2> QED
    BY <1>5, <2>3, <2>4 DEF TypeOK, RedeemToken
<1>6. ASSUME NEW r \in Resolver, RunAction(r) PROVE Promise!Next
  <2>0. PICK u \in Token : u = resolver[r].token
    BY <1>6 DEF RunAction, ResolverOwnsToken
  <2>1. /\ token[u] = "claimed" /\ runs[u] = 0
        /\ UNCHANGED <<token, batch>> /\ runs'[u] = 1
        /\ \A t \in Token : t # u => runs'[t] = runs[t]
    BY <1>6, <2>0 DEF TypeOK, RunAction, ResolverOwnsToken
  <2>2. \A t \in Token : t # u => Capability(t)' = Capability(t)
    BY <2>1, SameCapability DEF Expired
  <2>3. Capability(u) = "used" /\ Capability(u)' = "run"
    BY <2>1, CapabilityCases, CapabilityCasesNext
  <2> QED
    BY <2>1, <2>2, <2>3, OneMove
<1>7. ASSUME NEW r \in Resolver, FinishAction(r) PROVE Promise!Next
  <2>0. PICK u \in Token : u = resolver[r].token
    BY <1>7 DEF FinishAction, ResolverOwnsToken
  <2>1. /\ token[u] = "claimed" /\ token'[u] \in {"succeeded", "failed"}
        /\ UNCHANGED <<runs, batch>>
        /\ \A t \in Token : t # u => token'[t] = token[t]
    BY <1>7, <2>0 DEF TypeOK, FinishAction, ResolverOwnsToken
  <2>2. \A t \in Token : t # u => Capability(t)' = Capability(t)
    BY <2>1, SameCapability DEF Expired
  <2>3. Capability(u)' = Capability(u)
    <3>1. runs[u] \in {0, 1} /\ runs'[u] = runs[u]
      BY <2>1 DEF RunIsRecorded
    <3> QED
      BY <2>1, <3>1, CapabilityCases, CapabilityCasesNext
  <2> QED
    BY <2>2, <2>3, ManyMove
<1>8. ASSUME ~UNCHANGED <<token, runs, batch>>
      PROVE \/ \E w \in Watcher : IssueTokens(w) \/ RevokeTokens(w)
            \/ \E t \in Token : TokenExpires(t)
            \/ \E r \in Resolver :
                 \/ \E i \in Identity, t \in Token : RedeemToken(r, i, t)
                 \/ RunAction(r) \/ FinishAction(r)
  BY <1>8 DEF vars, Next, WatcherStep, MissionMoves, Watch, AutoSubscribe, Unwatch, LostClaimAges,
              SlowDelivery, ClaimAges, ClaimPrompt, CheckVersion, NoAdapter, StartDeliveries,
              SendNative, SendFallback, CompletePrompt, ReleaseUnsent, EndRound, WatcherStops,
              ResolverStops
<1> QED
  BY <1>1, <1>2, <1>3, <1>4, <1>5, <1>6, <1>7, <1>8

\* Action tokens are one-use capabilities, for every set of gateways, operators and
\* concurrent resolutions: the detailed specification implements the abstract one.
THEOREM TokensKeepPromise == Spec => ImplementsPromise
<1>1. Init => Promise!Init
  <2> SUFFICES ASSUME Init PROVE \A t \in Token : Capability(t) = "unissued"
    BY DEF Promise!Init
  <2> QED
    BY DEF Init, Capability
<1>2. GatewayInvariant /\ GatewayInvariant' /\ [Next]_vars =>
        [Promise!Next]_([t \in Token |-> Capability(t)])
  BY PromiseStep
<1> QED
  BY <1>1, <1>2, GatewayInvariance, PTL DEF Spec, ImplementsPromise, Promise!Spec

-----------------------------------------------------------------------------
(***************************************************************************)
(* The prompts                                                             *)
(***************************************************************************)

\* An operator has one prompt to answer: a step only makes tokens pending by issuing a
\* batch, which leaves the same operator no other.
THEOREM OnePrompt == Spec => []OnePromptPending
<1>1. Init => OnePromptPending
  BY DEF Init, OnePromptPending
<1>2. GatewayInvariant /\ GatewayInvariant' /\ OnePromptPending /\ [Next]_vars => OnePromptPending'
  <2> SUFFICES ASSUME GatewayInvariant, GatewayInvariant', OnePromptPending, [Next]_vars,
                      NEW b \in 1..issued', NEW c \in 1..issued', NEW s \in Action, NEW t \in Action,
                      token'[<<b, s>>] = "pending", token'[<<c, t>>] = "pending",
                      batch'[b].to = batch'[c].to
               PROVE b = c
    BY DEF OnePromptPending
  <2> USE DEF GatewayInvariant
  <2>1. /\ b \in Batch /\ c \in Batch /\ <<b, s>> \in Token /\ <<c, t>> \in Token
        /\ <<b, s>>[1] = b /\ <<c, t>>[1] = c
    BY TokenFields DEF TypeOK, Batch
  <2>2. ASSUME NEW w \in Watcher, IssueTokens(w) PROVE b = c
    <3>1. /\ issued' = issued + 1 /\ issued \in Nat /\ issued' \in Batch
          /\ batch'[issued'].to = watcher[w].to
          /\ \A d \in Batch : d # issued' => batch'[d] = batch[d]
      BY <2>2 DEF TypeOK, IssueTokens, Batch, To
    <3>2. ASSUME NEW d \in Batch, NEW a \in Action, d # issued', token'[<<d, a>>] = "pending"
          PROVE token[<<d, a>>] = "pending" /\ batch[d].to # watcher[w].to /\ d \in 1..issued
      <4>1. <<d, a>> \in Token /\ <<d, a>>[1] = d
        BY TokenFields
      <4>2. token[<<d, a>>] = "pending" /\ batch[d].to # watcher[w].to
        BY <2>2, <3>2, <4>1 DEF IssueTokens, To
      <4>3. d \in 1..issued
        BY <3>1, <4>1, <4>2 DEF RowsIssued, Batch
      <4> QED
        BY <4>2, <4>3
    <3> QED
      BY <2>1, <3>1, <3>2 DEF OnePromptPending
  <2>3. ASSUME issued' = issued, \A d \in Batch : batch'[d].to = batch[d].to,
               \A u \in Token : token'[u] = "pending" => token[u] = "pending"
        PROVE b = c
    BY <2>1, <2>3 DEF OnePromptPending
  <2>4. CASE UNCHANGED <<token, batch, issued>>
    BY <2>3, <2>4
  <2>5. ASSUME NEW w \in Watcher, RevokeTokens(w) PROVE b = c
    BY <2>3, <2>5 DEF RevokeTokens
  <2>6. ASSUME NEW d \in Token, TokenExpires(d) PROVE b = c
    BY <2>3, <2>6 DEF TypeOK, TokenExpires, BatchInfo
  <2>7. ASSUME NEW r \in Resolver, FinishAction(r) \/ \E i \in Identity, u \in Token : RedeemToken(r, i, u)
        PROVE b = c
    <3>1. \A u \in Token : token'[u] = "pending" => token[u] = "pending"
      BY <2>7 DEF TypeOK, FinishAction, RedeemToken
    <3> QED
      BY <2>3, <2>7, <3>1 DEF FinishAction, RedeemToken
  <2>8. ASSUME ~UNCHANGED <<token, batch, issued>>
        PROVE \/ \E w \in Watcher : IssueTokens(w) \/ RevokeTokens(w)
              \/ \E d \in Token : TokenExpires(d)
              \/ \E r \in Resolver :
                   FinishAction(r) \/ \E i \in Identity, u \in Token : RedeemToken(r, i, u)
    BY <2>8 DEF vars, Next, WatcherStep, MissionMoves, Watch, AutoSubscribe, Unwatch, LostClaimAges,
                SlowDelivery, ClaimAges, ClaimPrompt, CheckVersion, NoAdapter, StartDeliveries,
                SendNative, SendFallback, CompletePrompt, ReleaseUnsent, EndRound, WatcherStops,
                ResolverStops, RunAction
  <2> QED
    BY <2>2, <2>4, <2>5, <2>6, <2>7, <2>8
<1> QED
  BY <1>1, <1>2, GatewayInvariance, PTL DEF Spec

\* Batches keep what they were issued for.
LEMMA BatchesKept ==
  ASSUME GatewayInvariant, [Next]_vars
  PROVE  \A b \in 1..issued :
           b \in 1..issued' /\ batch'[b].to = batch[b].to /\ batch'[b].version = batch[b].version
<1> USE DEF GatewayInvariant
<1> DEFINE Kept == \A b \in 1..issued :
      b \in 1..issued' /\ batch'[b].to = batch[b].to /\ batch'[b].version = batch[b].version
<1>1. issued \in Nat /\ 1..issued \subseteq Batch /\ batch \in [Batch -> BatchInfo]
  BY DEF TypeOK, Batch
<1>2. ASSUME NEW w \in Watcher, IssueTokens(w) PROVE Kept
  BY <1>1, <1>2 DEF IssueTokens
<1>3. ASSUME NEW t \in Token, TokenExpires(t) PROVE Kept
  BY <1>1, <1>3 DEF TokenExpires, BatchInfo
<1>4. CASE UNCHANGED <<issued, batch>>
  BY <1>4
<1>5. ASSUME ~UNCHANGED <<issued, batch>>
      PROVE (\E w \in Watcher : IssueTokens(w)) \/ \E t \in Token : TokenExpires(t)
  BY <1>5 DEF vars, Next, WatcherStep, MissionMoves, Watch, AutoSubscribe, Unwatch, LostClaimAges,
              SlowDelivery, ClaimAges, ClaimPrompt, CheckVersion, NoAdapter, StartDeliveries,
              SendNative, SendFallback, CompletePrompt, ReleaseUnsent, EndRound, WatcherStops,
              ResolverStops, RunAction, RevokeTokens, RedeemToken, FinishAction
<1> QED
  BY <1>2, <1>3, <1>4, <1>5

\* Only a completed delivery marks a version as prompted, the one that it claimed.
LEMMA PromptedSteps ==
  ASSUME GatewayInvariant, [Next]_vars, NEW i \in Identity,
         sub'[i].prompted \notin {sub[i].prompted, None}
  PROVE  \E w \in Watcher :
           /\ CompletePrompt(w)
           /\ watcher[w].to = i /\ watcher[w].held[i] # None
           /\ sub'[i].prompted = watcher[w].held[i]
<1> USE DEF GatewayInvariant
<1>1. sub[i] \in Subscription /\ sub \in [Identity -> Subscription]
  BY DEF TypeOK
<1>2. /\ \A j \in Identity : Freed(sub[j]).prompted = sub[j].prompted
      /\ \A j \in Identity, w \in Watcher : Taken(sub[j], w).prompted = sub[j].prompted
      /\ Unsubscribed.prompted = None /\ [Unsubscribed EXCEPT !.on = TRUE].prompted = None
  BY <1>1 DEF Freed, Taken, Unsubscribed, Subscription
<1>3. ASSUME NEW j \in Identity,
             Watch(j) \/ AutoSubscribe(j) \/ Unwatch(j) \/ LostClaimAges(j) \/ SlowDelivery(j)
      PROVE FALSE
  <2>1. /\ [sub[j] EXCEPT !.on = TRUE].prompted = sub[j].prompted
        /\ [sub[j] EXCEPT !.stale = TRUE].prompted = sub[j].prompted
    BY <1>1 DEF Subscription
  <2>2. \/ sub' = [sub EXCEPT ![j] = [Unsubscribed EXCEPT !.on = TRUE]]
        \/ sub' = [sub EXCEPT ![j] = Unsubscribed]
        \/ sub' = [sub EXCEPT ![j] = [sub[j] EXCEPT !.on = TRUE]]
        \/ sub' = [sub EXCEPT ![j] = [sub[j] EXCEPT !.stale = TRUE]]
    BY <1>3, <1>1 DEF Watch, AutoSubscribe, Unwatch, LostClaimAges, SlowDelivery, ClaimAges
  <2>3. sub'[i].prompted \in {sub[i].prompted, None}
    BY <1>1, <1>2, <2>1, <2>2
  <2> QED
    BY <2>3
<1>4. ASSUME NEW w \in Watcher, NEW j \in Identity, ClaimPrompt(w, j) \/ Release(w, j)
      PROVE FALSE
  <2>1. sub' = sub \/ sub' = [sub EXCEPT ![j] = Taken(sub[j], w)]
          \/ sub' = [sub EXCEPT ![j] = Freed(sub[j])]
    BY <1>1, <1>4 DEF ClaimPrompt, Release
  <2> QED
    BY <1>1, <1>2, <2>1
<1>5. sub' # sub
  OBVIOUS
<1>6. ASSUME NEW w \in Watcher, ReleaseUnsent(w) PROVE FALSE
  <2>1. To(w) \in Identity
    BY <1>6 DEF ReleaseUnsent, DeliveryMatchesBatch, To
  <2> QED
    BY <1>4, <1>6, <2>1 DEF ReleaseUnsent
<1>7. ASSUME NEW w \in Watcher, NEW j \in Identity, CheckVersion(w, j) \/ NoAdapter(w, j)
      PROVE FALSE
  BY <1>4, <1>5, <1>7 DEF CheckVersion, NoAdapter
<1>8. ASSUME sub' # sub
      PROVE \/ \E j \in Identity :
                 Watch(j) \/ AutoSubscribe(j) \/ Unwatch(j) \/ LostClaimAges(j) \/ SlowDelivery(j)
            \/ \E w \in Watcher :
                 \/ CompletePrompt(w) \/ ReleaseUnsent(w)
                 \/ \E j \in Identity :
                      ClaimPrompt(w, j) \/ CheckVersion(w, j) \/ NoAdapter(w, j)
  BY <1>8 DEF vars, Next, WatcherStep, MissionMoves, StartDeliveries, IssueTokens, SendNative,
              SendFallback, RevokeTokens, EndRound, WatcherStops, TokenExpires, RedeemToken,
              RunAction, FinishAction, ResolverStops
<1>9. PICK w \in Watcher : CompletePrompt(w)
  BY <1>3, <1>4, <1>6, <1>7, <1>8
<1>10. watcher[w].to = i /\ sub'[i] = Marked(sub[i], watcher[w].held[i])
  BY <1>9 DEF TypeOK, CompletePrompt, To, Claimed
<1>11. sub'[i].prompted = watcher[w].held[i]
  BY <1>1, <1>10 DEF Marked, Freed, Subscription
<1>12. watcher[w].held[i] # None
  BY <1>9, <1>10 DEF CompletePrompt, DeliveryMatchesBatch
<1> QED
  BY <1>9, <1>10, <1>11, <1>12

\* Only a version whose tokens were issued to the subscriber counts as prompted: batches
\* keep what they were issued for, and a completed delivery matches its batch.
THEOREM PromptedIssued == Spec => []PromptedWasIssued
<1>1. Init => PromptedWasIssued
  BY DEF Init, PromptedWasIssued, Unsubscribed
<1>2. GatewayInvariant /\ PromptedWasIssued /\ [Next]_vars => PromptedWasIssued'
  <2> SUFFICES ASSUME GatewayInvariant, PromptedWasIssued, [Next]_vars,
                      NEW i \in Identity, sub'[i].prompted # None
               PROVE \E b \in 1..issued' : batch'[b].to = i /\ batch'[b].version = sub'[i].prompted
    BY DEF PromptedWasIssued
  <2>1. CASE sub'[i].prompted = sub[i].prompted
    BY <2>1, BatchesKept DEF PromptedWasIssued
  <2>2. CASE sub'[i].prompted # sub[i].prompted
    <3>1. PICK w \in Watcher :
            CompletePrompt(w) /\ watcher[w].to = i /\ sub'[i].prompted = watcher[w].held[i]
      BY <2>2, PromptedSteps
    <3>2. /\ watcher[w].batch \in 1..issued
          /\ batch[watcher[w].batch].to = i
          /\ batch[watcher[w].batch].version = watcher[w].held[i]
      BY <3>1 DEF CompletePrompt, GatewayInvariant, DeliveryMatchesBatch
    <3> QED
      BY <3>1, <3>2, BatchesKept
  <2> QED
    BY <2>1, <2>2
<1> QED
  BY <1>1, <1>2, GatewayInvariance, PTL DEF Spec

-----------------------------------------------------------------------------
(***************************************************************************)
(* The prompt of a version stands                                          *)
(***************************************************************************)

\* What was the mission's version or an earlier one is that after every step.
LEMMA VersionSteps ==
  ASSUME TypeOK, [Next]_vars
  PROVE  \A v \in Version \union {None} : Passed(v) => Passed(v)'
<1>1. mission \in Version /\ mission.updated \in Nat
  BY DEF TypeOK, Version
<1>2. ASSUME NEW s, Stamped(s)
      PROVE /\ mission'.updated \in Nat /\ mission.updated <= mission'.updated
            /\ mission'.updated = mission.updated => SharedSeconds
  BY <1>1, <1>2 DEF Stamped
<1>3. ASSUME mission' # mission PROVE \E s : Stamped(s)
  <2>1. \/ MissionMoves
        \/ \E r \in Resolver : RunAction(r)
    BY <1>3 DEF vars, Next, WatcherStep, Watch, AutoSubscribe, Unwatch, LostClaimAges, SlowDelivery,
                ClaimAges, ClaimPrompt, CheckVersion, NoAdapter, StartDeliveries, IssueTokens,
                SendNative, SendFallback, CompletePrompt, ReleaseUnsent, EndRound, WatcherStops,
                ResolverStops, RevokeTokens, TokenExpires, RedeemToken, FinishAction
  <2> QED
    BY <1>3, <2>1 DEF MissionMoves, RunAction
<1>4. ASSUME NEW v \in Version, Passed(v) PROVE Passed(v)'
  <2>1. v.updated \in Nat
    BY DEF Version
  <2>2. CASE mission' = mission
    BY <1>4, <2>2 DEF Passed
  <2>3. CASE mission' # mission
    BY <1>1, <1>2, <1>3, <1>4, <2>1, <2>3 DEF Passed
  <2> QED
    BY <2>2, <2>3
<1>5. Passed(None)'
  BY DEF Passed
<1> QED
  BY <1>4, <1>5

\* A watcher only comes to hold a version by claiming the mission's.
LEMMA HeldSteps ==
  ASSUME GatewayInvariant, [Next]_vars, NEW w \in Watcher, NEW i \in Identity,
         watcher'[w].held[i] \notin {watcher[w].held[i], None}
  PROVE  ClaimPrompt(w, i) /\ watcher'[w].held[i] = mission
<1> USE DEF GatewayInvariant
<1>1. /\ watcher \in [Watcher -> WatcherState]
      /\ \A v \in Watcher : watcher[v].held \in [Identity -> Version \union {None}]
  BY DEF TypeOK, WatcherState
<1>2. ASSUME NEW v \in Watcher, NEW j \in Identity, Dropped(v, j) PROVE FALSE
  BY <1>1, <1>2 DEF Dropped
<1>3. ASSUME NEW v \in Watcher, WatcherStops(v) \/ EndRound(v) PROVE FALSE
  BY <1>1, <1>3 DEF WatcherStops, EndRound, Collecting
<1>4. ASSUME NEW v \in Watcher,
             StartDeliveries(v) \/ IssueTokens(v) \/ SendNative(v) \/ SendFallback(v) \/ RevokeTokens(v)
      PROVE FALSE
  <2>1. watcher' = watcher \/ (\E at : Advance(v, at)) \/ IssueTokens(v)
    BY <1>4 DEF StartDeliveries, SendNative, SendFallback, RevokeTokens, Advance
  <2>2. ASSUME NEW at, Advance(v, at) PROVE watcher'[w].held = watcher[w].held
    BY <1>1, <2>2 DEF Advance, WatcherState
  <2>3. ASSUME IssueTokens(v) PROVE watcher'[w].held = watcher[w].held
    BY <1>1, <2>3 DEF IssueTokens, WatcherState
  <2> QED
    BY <2>1, <2>2, <2>3
<1>5. ASSUME NEW v \in Watcher, CompletePrompt(v) \/ ReleaseUnsent(v) PROVE FALSE
  <2>1. To(v) \in Identity
    BY <1>5 DEF CompletePrompt, ReleaseUnsent, DeliveryMatchesBatch, To
  <2> QED
    BY <1>2, <1>5, <2>1 DEF CompletePrompt, ReleaseUnsent
<1>6. ASSUME NEW v \in Watcher, NEW j \in Identity, CheckVersion(v, j) \/ NoAdapter(v, j) PROVE FALSE
  <2>1. CASE Dropped(v, j)
    BY <1>2, <2>1
  <2>2. CASE watcher' = [watcher EXCEPT ![v].at = "checked", ![v].to = j]
    BY <1>1, <2>2
  <2> QED
    BY <1>6, <2>1, <2>2 DEF CheckVersion, NoAdapter
<1>7. watcher' # watcher
  OBVIOUS
<1>8. PICK v \in Watcher, j \in Identity : ClaimPrompt(v, j)
  BY <1>3, <1>4, <1>5, <1>6, <1>7
     DEF vars, Next, WatcherStep, MissionMoves, Watch, AutoSubscribe, Unwatch, LostClaimAges,
         SlowDelivery, ClaimAges, TokenExpires, RedeemToken, RunAction, FinishAction, ResolverStops
<1>9. watcher' = [watcher EXCEPT ![v].held[j] = mission]
  BY <1>8 DEF ClaimPrompt
<1>10. v = w /\ j = i
  BY <1>1, <1>9
<1> QED
  BY <1>1, <1>8, <1>9, <1>10

\* A delivery goes on with the batch that it issued.
LEMMA StageSteps ==
  ASSUME GatewayInvariant, [Next]_vars, NEW w \in Watcher,
         watcher'[w].at \in {"native", "fallback", "sent"}
  PROVE  \/ IssueTokens(w)
         \/ /\ watcher[w].at \in {"native", "fallback", "sent"}
            /\ watcher'[w].batch = watcher[w].batch
<1> USE DEF GatewayInvariant
<1>1. watcher \in [Watcher -> WatcherState]
  BY DEF TypeOK
<1>2. ASSUME NEW v \in Watcher, NEW s \in WatcherState, s.at \notin {"native", "fallback", "sent"},
             watcher' = [watcher EXCEPT ![v] = s]
      PROVE  v # w /\ watcher'[w] = watcher[w]
  BY <1>1, <1>2
<1>3. ASSUME NEW v \in Watcher, NEW j \in Identity, Dropped(v, j)
      PROVE watcher'[w] = watcher[w]
  BY <1>1, <1>3 DEF Dropped, WatcherState
<1>4. ASSUME NEW v \in Watcher, WatcherStops(v) \/ EndRound(v) PROVE watcher'[w] = watcher[w]
  BY <1>1, <1>4 DEF WatcherStops, EndRound, Collecting
<1>5. ASSUME NEW v \in Watcher, StartDeliveries(v) \/ RevokeTokens(v)
      PROVE watcher'[w] = watcher[w]
  BY <1>1, <1>5 DEF StartDeliveries, RevokeTokens, Advance, WatcherState
<1>6. ASSUME NEW v \in Watcher, SendNative(v) \/ SendFallback(v)
      PROVE  \/ watcher'[w] = watcher[w]
             \/ /\ watcher[w].at \in {"native", "fallback", "sent"}
                /\ watcher'[w].batch = watcher[w].batch
  BY <1>1, <1>6 DEF SendNative, SendFallback, Advance, WatcherState
<1>7. ASSUME NEW v \in Watcher, CompletePrompt(v) \/ ReleaseUnsent(v) PROVE watcher'[w] = watcher[w]
  <2>1. To(v) \in Identity
    BY <1>7 DEF CompletePrompt, ReleaseUnsent, DeliveryMatchesBatch, To
  <2> QED
    BY <1>3, <1>7, <2>1 DEF CompletePrompt, ReleaseUnsent
<1>8. ASSUME NEW v \in Watcher, NEW j \in Identity, CheckVersion(v, j) \/ NoAdapter(v, j)
      PROVE watcher'[w] = watcher[w]
  <2>1. CASE Dropped(v, j)
    BY <1>3, <2>1
  <2>2. CASE watcher' = [watcher EXCEPT ![v].at = "checked", ![v].to = j]
    BY <1>1, <2>2 DEF WatcherState
  <2> QED
    BY <1>8, <2>1, <2>2 DEF CheckVersion, NoAdapter
<1>9. ASSUME NEW v \in Watcher, NEW j \in Identity, ClaimPrompt(v, j)
      PROVE  watcher'[w].at = watcher[w].at /\ watcher'[w].batch = watcher[w].batch
  BY <1>1, <1>9 DEF ClaimPrompt, WatcherState
<1>10. ASSUME NEW v \in Watcher, IssueTokens(v), v # w PROVE watcher'[w] = watcher[w]
  BY <1>1, <1>10 DEF IssueTokens
<1>11. ASSUME watcher' # watcher
       PROVE \E v \in Watcher :
               \/ StartDeliveries(v) \/ IssueTokens(v) \/ SendNative(v) \/ SendFallback(v)
               \/ CompletePrompt(v) \/ RevokeTokens(v) \/ ReleaseUnsent(v) \/ EndRound(v)
               \/ WatcherStops(v)
               \/ \E j \in Identity : ClaimPrompt(v, j) \/ CheckVersion(v, j) \/ NoAdapter(v, j)
  BY <1>11 DEF vars, Next, WatcherStep, MissionMoves, Watch, AutoSubscribe, Unwatch, LostClaimAges,
               SlowDelivery, ClaimAges, TokenExpires, RedeemToken, RunAction, FinishAction,
               ResolverStops
<1>12. CASE watcher'[w] = watcher[w]
  BY <1>12
<1> QED
  BY <1>3, <1>4, <1>5, <1>6, <1>7, <1>8, <1>9, <1>10, <1>11, <1>12

\* Tokens are withdrawn by the next prompt of their operator, or after a failed delivery.
LEMMA WithdrawalSteps ==
  ASSUME GatewayInvariant, [Next]_vars, NEW b \in Batch, ~Withdrawn(b), Withdrawn(b)'
  PROVE  \E w \in Watcher :
           \/ IssueTokens(w) /\ b # issued' /\ batch[b].to = To(w)
           \/ RevokeTokens(w) /\ b = watcher[w].batch
<1> USE DEF GatewayInvariant
<1>1. PICK a \in Action : /\ token'[<<b, a>>] \in {"superseded", "revoked"}
                          /\ token[<<b, a>>] \notin {"superseded", "revoked"}
  BY DEF Withdrawn
<1>2. <<b, a>> \in Token /\ <<b, a>>[1] = b /\ token \in [Token -> TokenStatus]
  BY TokenFields DEF TypeOK
<1>3. ASSUME NEW w \in Watcher, IssueTokens(w) PROVE b # issued' /\ batch[b].to = To(w)
  <2>1. /\ issued \in Nat /\ issued' = issued + 1
    BY <1>3 DEF TypeOK, IssueTokens
  <2>2. b = issued' => token[<<b, a>>] = "none"
    BY <1>2, <2>1 DEF RowsIssued
  <2> QED
    BY <1>1, <1>2, <1>3, <2>1, <2>2 DEF IssueTokens
<1>4. ASSUME NEW w \in Watcher, RevokeTokens(w) PROVE b = watcher[w].batch
  BY <1>1, <1>2, <1>4 DEF RevokeTokens
<1>5. ASSUME NEW r \in Resolver, NEW i \in Identity, NEW t \in Token, RedeemToken(r, i, t) PROVE FALSE
  BY <1>1, <1>2, <1>5 DEF RedeemToken
<1>6. ASSUME NEW r \in Resolver, FinishAction(r) PROVE FALSE
  BY <1>1, <1>2, <1>6 DEF FinishAction
<1> QED
  BY <1>1, <1>3, <1>4, <1>5, <1>6
     DEF vars, Next, WatcherStep, MissionMoves, Watch, AutoSubscribe, Unwatch, LostClaimAges,
         SlowDelivery, ClaimAges, ClaimPrompt, CheckVersion, NoAdapter, StartDeliveries,
         SendNative, SendFallback, CompletePrompt, ReleaseUnsent, EndRound, WatcherStops,
         TokenExpires, RunAction, ResolverStops

\* A batch is only given a version by issuing it.
LEMMA BatchVersionSteps ==
  ASSUME GatewayInvariant, [Next]_vars, NEW b \in Batch, batch'[b].version # batch[b].version
  PROVE  \E w \in Watcher : IssueTokens(w) /\ batch'[b].version = Claimed(w)
<1>1. batch \in [Batch -> BatchInfo] /\ issued \in Nat
  BY DEF GatewayInvariant, TypeOK
<1>2. ASSUME NEW t \in Token, TokenExpires(t) PROVE FALSE
  BY <1>1, <1>2 DEF TokenExpires, BatchInfo
<1>3. PICK w \in Watcher : IssueTokens(w)
  BY <1>2 DEF vars, Next, WatcherStep, MissionMoves, Watch, AutoSubscribe, Unwatch, LostClaimAges,
              SlowDelivery, ClaimAges, ClaimPrompt, CheckVersion, NoAdapter, StartDeliveries,
              SendNative, SendFallback, CompletePrompt, ReleaseUnsent, EndRound, WatcherStops,
              ResolverStops, RunAction, RevokeTokens, RedeemToken, FinishAction
<1>4. b = issued'
  BY <1>1, <1>3 DEF IssueTokens
<1>5. batch'[b].version = Claimed(w)
  BY <1>1, <1>3, <1>4 DEF IssueTokens
<1> QED
  BY <1>3, <1>5

\* What is held, prompted and issued stays the mission's or an earlier version.
LEMMA NextVersions == GatewayInvariant /\ VersionsPass /\ [Next]_vars => VersionsPass'
<1> SUFFICES ASSUME GatewayInvariant, VersionsPass, [Next]_vars PROVE VersionsPass'
  OBVIOUS
<1>1. \A v \in Version \union {None} : Passed(v) => Passed(v)'
  BY VersionSteps DEF GatewayInvariant
<1>2. /\ \A i \in Identity : sub[i].prompted \in Version \union {None}
      /\ \A w \in Watcher, i \in Identity : watcher[w].held[i] \in Version \union {None}
      /\ \A b \in Batch : batch[b].version \in Version \union {None}
      /\ mission \in Version
  BY DEF GatewayInvariant, TypeOK, Subscription, WatcherState, BatchInfo
<1>3. Passed(mission) /\ Passed(None)
  BY DEF Passed
<1>4. ASSUME NEW i \in Identity PROVE Passed(sub[i].prompted)'
  <2>1. PICK v \in Version \union {None} : v = sub'[i].prompted /\ Passed(v)
    BY <1>2, <1>3, PromptedSteps DEF VersionsPass
  <2>2. Passed(v)'
    BY <1>1, <2>1
  <2> QED
    BY <2>1, <2>2 DEF Passed
<1>5. ASSUME NEW w \in Watcher, NEW i \in Identity PROVE Passed(watcher[w].held[i])'
  <2>1. PICK v \in Version \union {None} : v = watcher'[w].held[i] /\ Passed(v)
    BY <1>2, <1>3, HeldSteps DEF VersionsPass
  <2>2. Passed(v)'
    BY <1>1, <2>1
  <2> QED
    BY <2>1, <2>2 DEF Passed
<1>6. ASSUME NEW b \in Batch PROVE Passed(batch[b].version)'
  <2>1. ASSUME NEW w \in Watcher, IssueTokens(w)
        PROVE  Claimed(w) \in Version \union {None} /\ Passed(Claimed(w))
    <3>1. watcher[w].to \in Identity
      BY <2>1 DEF IssueTokens, GatewayInvariant, DeliveryMatchesBatch
    <3> QED
      BY <1>2, <3>1 DEF Claimed, To, VersionsPass
  <2>2. PICK v \in Version \union {None} : v = batch'[b].version /\ Passed(v)
    BY <1>2, <2>1, BatchVersionSteps DEF VersionsPass
  <2>3. Passed(v)'
    BY <1>1, <2>2
  <2> QED
    BY <2>2, <2>3 DEF Passed
<1> QED
  BY <1>4, <1>5, <1>6 DEF VersionsPass

\* With one gateway on the board, nobody else completes or supersedes what it delivers.
OneGateway == \A v, w \in Watcher : v = w

\* A gateway's claims stay ahead of what counts as prompted.
LEMMA NextClaims ==
  ASSUME OneGateway, GatewayInvariant, VersionsPass, ClaimsAreNews, [Next]_vars
  PROVE  ClaimsAreNews'
<1> SUFFICES ASSUME NEW w \in Watcher, NEW i \in Identity,
                    watcher'[w].held[i] # None, sub'[i].prompted # None
             PROVE  Succeeds(watcher'[w].held[i], sub'[i].prompted)
  BY DEF ClaimsAreNews, Succeeds
<1>0. /\ sub \in [Identity -> Subscription] /\ sub[i] \in Subscription
      /\ watcher \in [Watcher -> WatcherState] /\ watcher[w] \in WatcherState
      /\ mission \in Version /\ mission # None
  BY DEF GatewayInvariant, TypeOK, Version
<1>1. CASE ClaimPrompt(w, i) /\ watcher'[w].held[i] = mission
  <2>1. sub[i].prompted # mission /\ sub' = [sub EXCEPT ![i] = Taken(sub[i], w)]
    BY <1>1 DEF ClaimPrompt
  <2>2. sub'[i].prompted = sub[i].prompted
    BY <1>0, <2>1 DEF Taken, Subscription
  <2>3. sub[i].prompted \in Version /\ Passed(sub[i].prompted)
    BY <1>0, <2>2 DEF Subscription, VersionsPass
  <2> QED
    BY <1>0, <1>1, <2>1, <2>2, <2>3 DEF Passed, Succeeds, Version
<1>2. CASE watcher'[w].held[i] = watcher[w].held[i]
  <2>1. CASE sub'[i].prompted = sub[i].prompted
    BY <1>2, <2>1 DEF ClaimsAreNews
  <2>2. CASE sub'[i].prompted # sub[i].prompted
    <3>1. PICK v \in Watcher : CompletePrompt(v) /\ watcher[v].to = i
      BY <2>2, PromptedSteps
    <3>2. v = w
      BY DEF OneGateway
    <3>3. Dropped(w, i)
      BY <3>1, <3>2 DEF CompletePrompt, To
    <3>4. watcher'[w].held[i] = None
      BY <1>0, <3>3 DEF Dropped, WatcherState
    <3> QED
      BY <3>4
  <2> QED
    BY <2>1, <2>2
<1> QED
  BY <1>1, <1>2, HeldSteps

\* The tokens of a delivery under way stay good.
LEMMA NextDelivery ==
  ASSUME OneGateway, GatewayInvariant, DeliveryIsCurrent, [Next]_vars
  PROVE  DeliveryIsCurrent'
<1> SUFFICES ASSUME NEW w \in Watcher, watcher'[w].at \in {"native", "fallback", "sent"},
                    Withdrawn(watcher[w].batch)'
             PROVE  FALSE
  BY DEF DeliveryIsCurrent
<1> USE DEF GatewayInvariant
<1>1. CASE IssueTokens(w)
  <2>1. /\ issued \in Nat /\ issued' = issued + 1 /\ issued' \in Batch
        /\ watcher'[w].batch = issued'
    BY <1>1 DEF TypeOK, IssueTokens, Batch, WatcherState
  <2>2. ASSUME NEW a \in Action PROVE token'[<<issued', a>>] \in {"none", "pending"}
    <3>1. <<issued', a>> \in Token /\ <<issued', a>>[1] = issued' /\ <<issued', a>>[2] = a
      BY <2>1, TokenFields
    <3>2. token[<<issued', a>>] = "none"
      BY <2>1, <3>1 DEF RowsIssued
    <3> QED
      BY <1>1, <3>1, <3>2 DEF IssueTokens
  <2> QED
    BY <2>1, <2>2 DEF Withdrawn
<1>2. CASE /\ watcher[w].at \in {"native", "fallback", "sent"}
           /\ watcher'[w].batch = watcher[w].batch
  <2>1. PICK b \in Batch : b = watcher[w].batch
    BY <1>2 DEF DeliveryMatchesBatch, TypeOK, Batch
  <2>2. ~Withdrawn(b) /\ Withdrawn(b)'
    BY <1>2, <2>1 DEF DeliveryIsCurrent, Withdrawn
  <2>3. PICK v \in Watcher : IssueTokens(v) \/ RevokeTokens(v)
    BY <2>2, WithdrawalSteps
  <2>4. v = w
    BY DEF OneGateway
  <2> QED
    BY <1>2, <2>3, <2>4 DEF IssueTokens, RevokeTokens
<1> QED
  BY <1>1, <1>2, StageSteps

\* What counts as prompted keeps a prompt: its tokens only give way to the next prompt
\* of the same operator, which is for a version that was claimed later.
LEMMA NextPrompt ==
  ASSUME OneGateway, GatewayInvariant, PromptInvariant, [Next]_vars
  PROVE  PromptIsKept'
<1> USE DEF GatewayInvariant
<1> SUFFICES ASSUME NEW i \in Identity, sub'[i].prompted # None
             PROVE  \E b \in 1..issued' :
                      /\ batch'[b].to = i /\ batch'[b].version = sub'[i].prompted
                      /\ Withdrawn(b)' =>
                           \E c \in (b + 1)..issued' :
                             batch'[c].to = i /\ Succeeds(batch'[c].version, sub'[i].prompted)
  BY DEF PromptIsKept, Succeeds, Withdrawn
<1>0. issued \in Nat /\ 1..issued \subseteq Batch
  BY DEF TypeOK, Batch
<1>1. CASE sub'[i].prompted # sub[i].prompted
  <2>1. PICK w \in Watcher :
          CompletePrompt(w) /\ watcher[w].to = i /\ sub'[i].prompted = watcher[w].held[i]
    BY <1>1, PromptedSteps
  <2>2. /\ watcher[w].batch \in 1..issued
        /\ batch[watcher[w].batch].to = i
        /\ batch[watcher[w].batch].version = watcher[w].held[i]
    BY <2>1 DEF CompletePrompt, DeliveryMatchesBatch
  <2>3. PICK b \in 1..issued : b = watcher[w].batch
    BY <2>2
  <2>4. ~Withdrawn(b)
    BY <2>1, <2>3 DEF CompletePrompt, PromptInvariant, DeliveryIsCurrent
  <2>5. ~Withdrawn(b)'
    BY <2>1, <2>4 DEF CompletePrompt, Withdrawn
  <2> QED
    BY <2>1, <2>2, <2>3, <2>5, BatchesKept
<1>2. CASE sub'[i].prompted = sub[i].prompted
  <2>1. PICK b \in 1..issued :
          /\ batch[b].to = i /\ batch[b].version = sub[i].prompted
          /\ Withdrawn(b) =>
               \E c \in (b + 1)..issued :
                 batch[c].to = i /\ Succeeds(batch[c].version, sub[i].prompted)
    BY <1>2 DEF PromptInvariant, PromptIsKept
  <2>2. b \in 1..issued' /\ batch'[b].to = i /\ batch'[b].version = sub'[i].prompted
    BY <1>2, <2>1, BatchesKept
  <2>3. CASE Withdrawn(b)
    <3>1. PICK c \in (b + 1)..issued :
            batch[c].to = i /\ Succeeds(batch[c].version, sub[i].prompted)
      BY <2>1, <2>3
    <3>2. c \in 1..issued
      BY <1>0
    <3>3. c \in 1..issued' /\ batch'[c].to = i /\ batch'[c].version = batch[c].version
      BY <3>1, <3>2, BatchesKept
    <3>4. c \in (b + 1)..issued'
      BY <1>0, <3>3
    <3> QED
      BY <1>2, <2>2, <3>1, <3>3, <3>4
  <2>4. CASE ~Withdrawn(b) /\ Withdrawn(b)'
    <3>1. PICK w \in Watcher :
            \/ IssueTokens(w) /\ b # issued' /\ batch[b].to = To(w)
            \/ RevokeTokens(w) /\ b = watcher[w].batch
      BY <1>0, <2>4, WithdrawalSteps
    <3>2. watcher[w].to = i /\ watcher[w].held[i] # None
      BY <2>1, <3>1 DEF IssueTokens, RevokeTokens, To, DeliveryMatchesBatch
    <3>3. Succeeds(watcher[w].held[i], sub[i].prompted)
      BY <1>2, <3>2 DEF PromptInvariant, ClaimsAreNews
    <3>4. ~RevokeTokens(w)
      BY <2>1, <3>1, <3>2, <3>3 DEF IssueTokens, RevokeTokens, DeliveryMatchesBatch, Succeeds
    <3>5. /\ issued' = issued + 1 /\ issued' \in Batch
          /\ batch'[issued'].to = i /\ batch'[issued'].version = watcher[w].held[i]
      BY <1>0, <3>1, <3>2, <3>4 DEF TypeOK, IssueTokens, To, Claimed, Batch
    <3>6. issued' \in (b + 1)..issued'
      BY <1>0, <3>5
    <3> QED
      BY <1>2, <2>2, <3>3, <3>5, <3>6
  <2> QED
    BY <2>2, <2>3, <2>4
<1> QED
  BY <1>1, <1>2

\* The types of what the prompts are about.
LEMMA PromptTypes ==
  ASSUME GatewayInvariant
  PROVE  /\ mission \in Version /\ mission # None
         /\ issued \in Nat /\ 1..issued \subseteq Batch
         /\ \A b \in Batch : batch[b].version \in Version \union {None}
<1>1. mission \in Version /\ mission # None
  BY DEF GatewayInvariant, TypeOK
<1>2. issued \in Nat /\ 1..issued \subseteq Batch
  BY DEF GatewayInvariant, TypeOK, Batch
<1>3. \A b \in Batch : batch[b].version \in Version \union {None}
  BY DEF GatewayInvariant, TypeOK, BatchInfo
<1> QED
  BY <1>1, <1>2, <1>3

\* With one gateway, the invariant of the prompts holds throughout.
LEMMA PromptInvariance ==
  ASSUME OneGateway
  PROVE  Spec => [](GatewayInvariant /\ PromptInvariant)
<1>1. Init => PromptInvariant
  <2> SUFFICES ASSUME Init PROVE PromptInvariant
    OBVIOUS
  <2>1. VersionsPass
    BY DEF Init, VersionsPass, Passed, Unsubscribed, Collecting, NoBatch
  <2>2. ClaimsAreNews /\ DeliveryIsCurrent /\ PromptIsKept
    BY DEF Init, ClaimsAreNews, DeliveryIsCurrent, PromptIsKept, Unsubscribed, Collecting
  <2> QED
    BY <2>1, <2>2 DEF PromptInvariant
<1>2. GatewayInvariant /\ PromptInvariant /\ [Next]_vars => PromptInvariant'
  BY NextVersions, NextClaims, NextDelivery, NextPrompt DEF PromptInvariant
<1> QED
  BY <1>1, <1>2, GatewayInvariance, PTL DEF Spec

\* What counts as prompted for the mission as it is now has its prompt, up to a later
\* one of the same operator for another state of the same second.
LEMMA PromptOfNow ==
  ASSUME GatewayInvariant, PromptInvariant, NEW i \in Identity, sub[i].prompted = mission
  PROVE  \E b \in 1..issued :
           /\ batch[b].to = i /\ batch[b].version = mission
           /\ Withdrawn(b) =>
                \E c \in (b + 1)..issued :
                  batch[c].to = i /\ SameSecond(batch[c].version, mission) /\ SharedSeconds
<1>1. PICK b \in 1..issued :
        /\ batch[b].to = i /\ batch[b].version = mission
        /\ Withdrawn(b) =>
             \E c \in (b + 1)..issued : batch[c].to = i /\ Succeeds(batch[c].version, mission)
  BY PromptTypes DEF PromptInvariant, PromptIsKept
<1>2. ASSUME NEW c \in (b + 1)..issued, Succeeds(batch[c].version, mission)
      PROVE  SameSecond(batch[c].version, mission) /\ SharedSeconds
  <2>1. c \in Batch /\ batch[c].version \in Version /\ Passed(batch[c].version)
    BY <1>2, PromptTypes DEF PromptInvariant, VersionsPass, Succeeds
  <2> QED
    BY <1>2, <2>1, PromptTypes DEF Passed, Succeeds, SameSecond, Version
<1> QED
  BY <1>1, <1>2

\* With one gateway, what counts as prompted for the mission as it is now has a prompt
\* that was not withdrawn, or that only gave way to a later one of the same second.
THEOREM PromptRemains ==
  ASSUME OneGateway
  PROVE  Spec => []PromptStands
<1>1. GatewayInvariant /\ PromptInvariant => PromptStands
  BY PromptOfNow DEF PromptStands
<1> QED
  BY <1>1, PromptInvariance, PTL

\* Where no two versions of the mission share a second, the operator has a prompt of the
\* mission as it is now, all of whose tokens are still good or were used or expired.
THEOREM PromptIsNotWithdrawn ==
  ASSUME OneGateway, ~SharedSeconds
  PROVE  Spec => [](\A i \in Identity :
                      sub[i].prompted = mission =>
                        \E b \in 1..issued :
                          batch[b].to = i /\ batch[b].version = mission /\ ~Withdrawn(b))
<1>1. GatewayInvariant /\ PromptInvariant =>
        \A i \in Identity :
          sub[i].prompted = mission =>
            \E b \in 1..issued :
              batch[b].to = i /\ batch[b].version = mission /\ ~Withdrawn(b)
  BY PromptOfNow
<1> QED
  BY <1>1, PromptInvariance, PTL

=============================================================================
