--------------------------- MODULE KanbanNotifier ---------------------------
(***************************************************************************)
(* The news of one task of a board: task_events, the subscriptions to it,  *)
(* and who tells them.                                                     *)
(*                                                                         *)
(* A gateway visits the subscriptions of its chats every few seconds.  It  *)
(* claims the unseen events of each by moving its cursor past them, looks  *)
(* up the task, and then delivers what it claimed, chat by chat: as one    *)
(* message per event, or, where the adapter cannot push, as one wake of    *)
(* the agent.  A claim whose delivery fails is taken back.  A terminal     *)
(* session polls its own subscription with the same claim.                 *)
(***************************************************************************)
EXTENDS Naturals, Sequences, FiniteSets

CONSTANTS
  Chat,             \* who can subscribe to the task
  Gateway,          \* gateway processes on the board
  Setups,           \* the channels of the chats and who serves them
  MaxSendFailures,  \* MAX_SEND_FAILURES
  MaxEvents,        \* bound: events of the task
  Owner,            \* bound: the chats that add or remove their subscription
  MaxCommands,      \* bound: how often they do
  MaxFaults         \* bound: failed sends, disconnections, ends of a process

\* An adapter that sends messages, one that only wakes the agent, or a terminal
\* session, platform tui.
Channel == {"push", "wake", "session"}

\* A gateway serves the subscriptions of its own profile, those without an owner, and
\* those of other profiles whose adapters it has.
Setup == [channel : [Chat -> Channel], serves : [Gateway -> SUBSET Chat]]

ASSUME NotifierAssumption ==
  /\ Setups \subseteq Setup /\ IsFiniteSet(Gateway)
  /\ MaxSendFailures \in Nat \ {0}
  /\ MaxEvents \in Nat /\ MaxCommands \in Nat /\ MaxFaults \in Nat

VARIABLES
  channel,  \* the channel of each chat
  serves,   \* the chats whose subscriptions a gateway visits
  final,    \* the task is done or archived
  event,    \* its task_events; an id is a position
  sub,      \* kanban_notify_subs, by chat
  gateway,  \* the loop of each gateway
  fails,    \* sub_fail_counts of each gateway
  session,  \* the poller of each terminal session
  told,     \* history: how often an event was told to a chat
  failed,   \* history: failed sends and wakes of a chat
  forgone,  \* history: events whose claim died with its owner
  dropped,  \* history: events that found no subscription, or that it left untold
  commands, faults

history == <<told, failed, forgone, dropped>>
board   == <<channel, serves, final, event>>
vars == <<channel, serves, final, event, sub, gateway, fails, session, told, failed, forgone,
          dropped, commands, faults>>

-----------------------------------------------------------------------------

\* "blocked" stands for blocked, gave_up, crashed and timed_out, "triaged" for
\* block_loop_detected, "other" for what nobody is told: claimed, promoted, edited.
Kind == {"completed", "blocked", "status", "triaged", "unblocked", "archived", "other"}

TerminalKinds == Kind \ {"other"}
SilentKinds   == {"unblocked", "archived"}
WakeKinds     == {"completed", "blocked"}

\* The kinds a claim takes, and those of them the chat is told.
Claims(c) == IF channel[c] = "session" THEN TerminalKinds \ {"triaged"} ELSE TerminalKinds
Tells(c)  == IF channel[c] = "wake" THEN WakeKinds ELSE Claims(c) \ SilentKinds

Id == 1..MaxEvents

\* since: history, the newest event when the chat subscribed.
Subscription == [on : BOOLEAN, cursor : Nat, since : Nat]
Unsubscribed == [on |-> FALSE, cursor |-> 0, since |-> 0]

\* A claim: the cursor before and after it, what is left to tell, and whether the
\* task was final when it was looked up.
Delivery == [chat : Chat, old : Nat, new : Nat, left : SUBSET Id, final : BOOLEAN]

GatewayState ==
  [at : {"idle", "collect", "look", "send", "rewind", "unsub"},
   visit : SUBSET Chat, hand : SUBSET Delivery, now : SUBSET Delivery]
AtRest == [at |-> "idle", visit |-> {}, hand |-> {}, now |-> {}]

SessionState == [at : {"idle", "look", "unsub", "emit"}, left : SUBSET Id]
Quiet        == [at |-> "idle", left |-> {}]

Fault == faults < MaxFaults /\ faults' = faults + 1

Command(c) == c \in Owner /\ commands < MaxCommands /\ commands' = commands + 1

\* A chat that creates a task is subscribed with it.
Init ==
  /\ \E setup \in Setups : channel = setup.channel /\ serves = setup.serves
  /\ final = FALSE /\ event = <<>>
  /\ sub = [c \in Chat |-> [Unsubscribed EXCEPT !.on = TRUE]]
  /\ gateway = [g \in Gateway |-> AtRest]
  /\ fails = [g \in Gateway |-> [c \in Chat |-> 0]]
  /\ session = [c \in Chat |-> Quiet]
  /\ told = [c \in Chat |-> [e \in Id |-> 0]]
  /\ failed = [c \in Chat |-> 0]
  /\ forgone = [c \in Chat |-> {}] /\ dropped = [c \in Chat |-> {}]
  /\ commands = 0 /\ faults = 0

\* The news that a subscription has not been claimed for.
Waiting(c) == {e \in Id : /\ e <= Len(event) /\ event[e] \in Tells(c)
                          /\ sub[c].on /\ sub[c].cursor < e}

Drop(c, S) == dropped' = [dropped EXCEPT ![c] = @ \union S]

-----------------------------------------------------------------------------
(***************************************************************************)
(* The task and the owners of subscriptions                                *)
(***************************************************************************)

\* Every transaction that moves the task appends its event.  The dashboard can move
\* a final task back.
TaskMoves ==
  /\ Len(event) < MaxEvents
  /\ \E kind \in Kind :
       /\ final => kind \in {"status", "archived", "other"}
       /\ event' = Append(event, kind)
       /\ final' = CASE kind \in {"completed", "archived"} -> TRUE
                     [] kind = "status"                    -> FALSE
                     [] OTHER                              -> final
  /\ dropped' = [c \in Chat |-> IF sub[c].on THEN dropped[c]
                                 ELSE dropped[c] \union {Len(event) + 1}]
  /\ UNCHANGED <<channel, serves, sub, gateway, fails, session, told, failed, forgone,
                 commands, faults>>

\* Mutant: a new subscription starts with the oldest event.
SubscribeFromStart(c) ==
  /\ ~sub[c].on /\ Command(c)
  /\ sub' = [sub EXCEPT ![c] = [on |-> TRUE, cursor |-> 0, since |-> 0]]
  /\ UNCHANGED <<board, gateway, fails, session, history, faults>>

\* A new subscription starts caught up; an existing one keeps its cursor.
Subscribe(c) ==
  /\ ~sub[c].on /\ Command(c)
  /\ sub' = [sub EXCEPT ![c] = [on |-> TRUE, cursor |-> Len(event), since |-> Len(event)]]
  /\ UNCHANGED <<board, gateway, fails, session, history, faults>>

Unsubscribe(c) ==
  /\ sub[c].on /\ Command(c)
  /\ sub' = [sub EXCEPT ![c] = Unsubscribed]
  /\ Drop(c, Waiting(c))
  /\ UNCHANGED <<board, gateway, fails, session, told, failed, forgone, faults>>

-----------------------------------------------------------------------------
(***************************************************************************)
(* Transactions on a subscription                                          *)
(***************************************************************************)

\* Mutant: an event of another kind is in the way.
UnseenBeforeOther(c) ==
  {e \in (sub[c].cursor + 1)..Len(event) : \A f \in (sub[c].cursor + 1)..e : event[f] \in Claims(c)}

Unseen(c) == {e \in (sub[c].cursor + 1)..Len(event) : event[e] \in Claims(c)}

News(c) == {e \in Unseen(c) : event[e] \in Tells(c)}

IsLast(e, S)  == e \in S /\ \A f \in S : f <= e
IsFirst(e, S) == e \in S /\ \A f \in S : e <= f

RemoveSub(c)        == sub' = [sub EXCEPT ![c] = Unsubscribed]
SetCursor(c, id) == sub' = IF sub[c].on THEN [sub EXCEPT ![c].cursor = id] ELSE sub

-----------------------------------------------------------------------------
(***************************************************************************)
(* A gateway                                                               *)
(***************************************************************************)

At(g, label) == gateway[g].at = label
Now(g)       == CHOOSE d \in gateway[g].now : TRUE
Goto(g, label) == gateway' = [gateway EXCEPT ![g].at = label]
Settled(g)      == gateway' = [gateway EXCEPT ![g].at = "collect", ![g].now = {}]

\* A tick with nothing to visit changes nothing.
StartTick(g) ==
  /\ At(g, "idle")
  /\ LET visit == {c \in serves[g] : sub[c].on /\ channel[c] # "session"}
     IN  /\ visit # {}
         /\ gateway' = [gateway EXCEPT ![g].at = "collect", ![g].visit = visit]
  /\ UNCHANGED <<board, sub, fails, session, history, commands, faults>>

\* claim_unseen_events_for_sub for one of the listed subscriptions.
ClaimEvents(g) ==
  /\ At(g, "collect")
  /\ \E c \in gateway[g].visit, last \in Id :
       /\ sub[c].on /\ IsLast(last, Unseen(c))
       /\ SetCursor(c, last)
       /\ gateway' = [gateway EXCEPT ![g].at = "look", ![g].visit = @ \ {c},
            ![g].now = {[chat |-> c, old |-> sub[c].cursor, new |-> last,
                         left |-> News(c), final |-> FALSE]}]
  /\ UNCHANGED <<board, fails, session, history, commands, faults>>

NothingNew(g) ==
  /\ At(g, "collect")
  /\ \E c \in gateway[g].visit :
       /\ ~sub[c].on \/ Unseen(c) = {}
       /\ gateway' = [gateway EXCEPT ![g].visit = @ \ {c}]
  /\ UNCHANGED <<board, sub, fails, session, history, commands, faults>>

LookUpTask(g) ==
  /\ At(g, "look")
  /\ gateway' = [gateway EXCEPT ![g].at = "collect", ![g].now = {},
                                ![g].hand = @ \union {[Now(g) EXCEPT !.final = final]}]
  /\ UNCHANGED <<board, sub, fails, session, history, commands, faults>>

\* All are visited: the deliveries begin.
Delivering(g) == At(g, "collect") /\ gateway[g].visit = {}

TakeDelivery(g) ==
  /\ Delivering(g)
  /\ \E d \in gateway[g].hand :
       gateway' = [gateway EXCEPT ![g].at = "send", ![g].hand = @ \ {d}, ![g].now = {d}]
  /\ UNCHANGED <<board, sub, fails, session, history, commands, faults>>

\* The adapter is gone: the claim is taken back.
Disconnected(g) ==
  /\ Delivering(g) /\ Fault
  /\ \E d \in gateway[g].hand :
       gateway' = [gateway EXCEPT ![g].at = "rewind", ![g].hand = @ \ {d}, ![g].now = {d}]
  /\ UNCHANGED <<board, sub, fails, session, history, commands>>

Tell(c, S) == told' = [told EXCEPT ![c] = [e \in Id |-> IF e \in S THEN @[e] + 1 ELSE @[e]]]

\* What the next send carries: the first event, or all of them for a wake.
IsPortion(S, d) ==
  IF channel[d.chat] = "wake" THEN S = d.left ELSE \E e \in Id : S = {e} /\ IsFirst(e, d.left)

Send(g) ==
  /\ At(g, "send") /\ Now(g).left # {}
  /\ \E S \in SUBSET Now(g).left :
       /\ IsPortion(S, Now(g))
       /\ Tell(Now(g).chat, S)
       /\ gateway' = [gateway EXCEPT ![g].now = {[Now(g) EXCEPT !.left = @ \ S]}]
  /\ fails' = [fails EXCEPT ![g][Now(g).chat] = 0]
  /\ UNCHANGED <<board, sub, session, failed, forgone, dropped, commands, faults>>

\* After too many failures in a row the subscription is dropped.
SendFails(g) ==
  /\ At(g, "send") /\ Now(g).left # {} /\ Fault
  /\ LET c == Now(g).chat
         n == fails[g][c] + 1
     IN  /\ fails' = [fails EXCEPT ![g][c] = n]
         /\ Goto(g, IF n < MaxSendFailures THEN "rewind" ELSE "unsub")
         /\ failed' = [failed EXCEPT ![c] = @ + 1]
  /\ UNCHANGED <<board, sub, session, told, forgone, dropped, commands>>

\* All is told: advance_notify_cursor, whatever the cursor is by now.
KanbanAdvance(g) ==
  /\ At(g, "send") /\ Now(g).left = {}
  /\ SetCursor(Now(g).chat, Now(g).new)
  /\ fails' = IF channel[Now(g).chat] = "wake" THEN [fails EXCEPT ![g][Now(g).chat] = 0] ELSE fails
  /\ IF Now(g).final THEN Goto(g, "unsub") ELSE Settled(g)
  /\ UNCHANGED <<board, session, history, commands, faults>>

\* Mutant: the cursor stays where the claim left it.
RewindNothing(g) ==
  /\ At(g, "rewind")
  /\ UNCHANGED sub
  /\ Settled(g)
  /\ UNCHANGED <<board, fails, session, history, commands, faults>>

\* rewind_notify_cursor, only if the cursor is still where the claim left it.
KanbanRewind(g) ==
  /\ At(g, "rewind")
  /\ LET d == Now(g)
     IN  IF sub[d.chat].cursor = d.new
         THEN SetCursor(d.chat, d.old) /\ UNCHANGED dropped
         ELSE Drop(d.chat, d.left \ Waiting(d.chat)) /\ UNCHANGED sub
  /\ Settled(g)
  /\ UNCHANGED <<board, fails, session, told, failed, forgone, commands, faults>>

\* The task was final, or the sends failed too often.
KanbanUnsub(g) ==
  /\ At(g, "unsub")
  /\ RemoveSub(Now(g).chat)
  /\ Drop(Now(g).chat, Now(g).left \union Waiting(Now(g).chat))
  /\ fails' = IF Now(g).left = {} THEN fails ELSE [fails EXCEPT ![g][Now(g).chat] = 0]
  /\ Settled(g)
  /\ UNCHANGED <<board, session, told, failed, forgone, commands, faults>>

EndTick(g) ==
  /\ Delivering(g) /\ gateway[g].hand = {}
  /\ gateway' = [gateway EXCEPT ![g] = AtRest]
  /\ UNCHANGED <<board, sub, fails, session, history, commands, faults>>

\* The events of claims that nobody will deliver or take back.
Forgo(claims) ==
  forgone' = [c \in Chat |-> forgone[c] \union UNION {d.left : d \in {x \in claims : x.chat = c}}]

\* The task cannot be read after the claim: the subscription is left for this tick.
LookUpFails(g) ==
  /\ At(g, "look") /\ Fault
  /\ Forgo(gateway[g].now)
  /\ gateway' = [gateway EXCEPT ![g].at = "collect", ![g].now = {}]
  /\ UNCHANGED <<board, sub, fails, session, told, failed, dropped, commands>>

Storing(g) == At(g, "rewind") \/ At(g, "unsub") \/ (At(g, "send") /\ Now(g).left = {})

\* A transaction of the delivery raises: the tick is over for all its claims.
TickFails(g) ==
  /\ Storing(g) /\ Fault
  /\ Forgo(gateway[g].hand \union gateway[g].now)
  /\ gateway' = [gateway EXCEPT ![g] = AtRest]
  /\ UNCHANGED <<board, sub, fails, session, told, failed, dropped, commands>>

\* The gateway ends and starts again.
GatewayStops(g) ==
  /\ ~At(g, "idle") /\ Fault
  /\ Forgo(gateway[g].hand \union gateway[g].now)
  /\ gateway' = [gateway EXCEPT ![g] = AtRest]
  /\ fails' = [fails EXCEPT ![g] = [c \in Chat |-> 0]]
  /\ UNCHANGED <<board, sub, session, told, failed, dropped, commands>>

-----------------------------------------------------------------------------
(***************************************************************************)
(* A terminal session                                                      *)
(***************************************************************************)

PollClaim(s) ==
  /\ channel[s] = "session" /\ session[s].at = "idle"
  /\ sub[s].on
  /\ \E last \in Id : IsLast(last, Unseen(s)) /\ SetCursor(s, last)
  /\ session' = [session EXCEPT ![s] = [at |-> "look", left |-> News(s)]]
  /\ UNCHANGED <<board, gateway, fails, history, commands, faults>>

PollLook(s) ==
  /\ session[s].at = "look"
  /\ session' = [session EXCEPT ![s].at = IF final THEN "unsub" ELSE "emit"]
  /\ UNCHANGED <<board, sub, gateway, fails, history, commands, faults>>

\* An error here is ignored.
PollUnsub(s) ==
  /\ session[s].at = "unsub"
  /\ \/ RemoveSub(s) /\ Drop(s, Waiting(s)) /\ UNCHANGED faults
     \/ Fault /\ UNCHANGED <<sub, dropped>>
  /\ session' = [session EXCEPT ![s].at = "emit"]
  /\ UNCHANGED <<board, gateway, fails, told, failed, forgone, commands>>

PollEmit(s) ==
  /\ session[s].at = "emit"
  /\ Tell(s, session[s].left)
  /\ session' = [session EXCEPT ![s] = Quiet]
  /\ UNCHANGED <<board, sub, gateway, fails, failed, forgone, dropped, commands, faults>>

\* The session ends, or the poll raises after its claim.
PollStops(s) ==
  /\ session[s].at # "idle" /\ Fault
  /\ forgone' = [forgone EXCEPT ![s] = @ \union session[s].left]
  /\ session' = [session EXCEPT ![s] = Quiet]
  /\ UNCHANGED <<board, sub, gateway, fails, told, failed, dropped, commands>>

-----------------------------------------------------------------------------

GatewayStep(g) ==
  \/ StartTick(g) \/ ClaimEvents(g) \/ NothingNew(g) \/ LookUpTask(g) \/ TakeDelivery(g) \/ Send(g)
  \/ KanbanAdvance(g) \/ KanbanRewind(g) \/ KanbanUnsub(g) \/ EndTick(g)

GatewayFault(g) ==
  Disconnected(g) \/ SendFails(g) \/ LookUpFails(g) \/ TickFails(g) \/ GatewayStops(g)

SessionStep(s) == PollClaim(s) \/ PollLook(s) \/ PollUnsub(s) \/ PollEmit(s)

Next ==
  \/ TaskMoves
  \/ \E c \in Chat : Subscribe(c) \/ Unsubscribe(c)
  \/ \E g \in Gateway : GatewayStep(g) \/ GatewayFault(g)
  \/ \E s \in Chat : SessionStep(s) \/ PollStops(s)

Spec == Init /\ [][Next]_vars

\* The loops go on while their process lives; nobody has to move the task, subscribe
\* or fail.
FairSpec ==
  /\ Spec
  /\ \A g \in Gateway : WF_vars(GatewayStep(g))
  /\ \A s \in Chat : WF_vars(SessionStep(s))

-----------------------------------------------------------------------------
(***************************************************************************)
(* Properties                                                              *)
(***************************************************************************)

TypeOK ==
  /\ channel \in [Chat -> Channel] /\ serves \in [Gateway -> SUBSET Chat] /\ final \in BOOLEAN
  /\ event \in Seq(Kind) /\ Len(event) <= MaxEvents
  /\ sub \in [Chat -> Subscription]
  /\ gateway \in [Gateway -> GatewayState]
  /\ fails \in [Gateway -> [Chat -> Nat]]
  /\ session \in [Chat -> SessionState]
  /\ told \in [Chat -> [Id -> Nat]]
  /\ failed \in [Chat -> Nat]
  /\ forgone \in [Chat -> SUBSET Id] /\ dropped \in [Chat -> SUBSET Id]
  /\ commands \in Nat /\ faults \in Nat

\* The claims that the loop of a gateway has, and the events left to tell of them.
Claimed(r)   == r.hand \union r.now
Has(r, c, e) == \E d \in Claimed(r) : d.chat = c /\ e \in d.left

InHand(c, e) == (\E g \in Gateway : Has(gateway[g], c, e)) \/ e \in session[c].left

\* Who tells a chat its news: the gateways that serve it, or its own terminal session.
Servers(c) == {g \in Gateway : c \in serves[g]}
Tellers(c) == IF channel[c] = "session" THEN {c} ELSE Servers(c)

\* What the cursor of a chat with one teller has passed since the chat subscribed was
\* told, is about to be told, or died with the process or the poll that had claimed it.
\* Failed sends, lost adapters and repeated subscriptions lose nothing.
NothingIsLost ==
  \A c \in Chat : sub[c].on /\ Cardinality(Tellers(c)) <= 1 =>
    \A e \in (sub[c].since + 1)..sub[c].cursor :
      event[e] \in Tells(c) => told[c][e] > 0 \/ e \in forgone[c] \/ InHand(c, e)

\* Each of its tellers tells a chat an event once, and again only after one of the
\* chat's sends failed, whatever ends, whatever the cursor is set back to by another
\* gateway, and however often its owner subscribes again.
RepeatedOnlyAfterFailure ==
  \A c \in Chat, e \in Id : told[c][e] <= Cardinality(Tellers(c)) + failed[c]

\* What becomes of an event.
Accounted(c, e) == told[c][e] > 0 \/ e \in forgone[c] \/ e \in dropped[c]

\* Every event that happens while a chat with a teller is subscribed is told to it in
\* the end, unless its claim died with a process or a poll, or it was dropped: it was
\* unclaimed when the subscription was removed, or left of the send that failed once
\* too often or of a claim that could no longer be taken back.  Without any fault the
\* completion itself can be dropped so: of a task that completes after the claim of an
\* earlier event (kanban_watchers.py:509) and before its lookup (519) the subscription
\* is removed (960) with the completion unclaimed, though by the comment at 367-372 it is
\* kept until the task is done so that its events reach the user.
EventuallyTold ==
  []<>(\A c \in Chat, e \in DOMAIN event :
         Tellers(c) # {} /\ event[e] \in Tells(c) => Accounted(c, e))

-----------------------------------------------------------------------------
(***************************************************************************)
(* What the safety of the gateways rests on                                *)
(***************************************************************************)

\* What the position of a loop says of what it has in hand; it has one claim of a chat,
\* and none of a chat it still has to visit.
LoopPosition(r) ==
  /\ r.at = "idle" => r.hand = {}
  /\ r.visit # {} => r.at \in {"collect", "look"}
  /\ IF r.at \in {"idle", "collect"} THEN r.now = {} ELSE \E d \in r.now : r.now = {d}
  /\ r.hand \intersect r.now = {}
  /\ \A d, f \in Claimed(r) : d.chat = f.chat => d = f
  /\ \A d \in Claimed(r) : d.chat \notin r.visit

Visitable(g, c) == c \in serves[g] /\ channel[c] # "session"

\* A claim tells events that have happened and that its chat is told.
ClaimKnown(g, d) ==
  /\ Visitable(g, d.chat)
  /\ d.old <= d.new /\ d.new <= Len(event)
  /\ d.left \subseteq {e \in (d.old + 1)..d.new : event[e] \in Tells(d.chat)}

\* Nothing of the claim is told yet.
Whole(d) == \A e \in (d.old + 1)..d.new : event[e] \in Tells(d.chat) => e \in d.left

LoopKnown(g, r) ==
  /\ LoopPosition(r)
  /\ \A c \in r.visit : Visitable(g, c)
  /\ \A d \in Claimed(r) : ClaimKnown(g, d)
  /\ \A d \in Claimed(r) : d \in r.hand \/ r.at = "look" => Whole(d)

SessionKnown(s) ==
  /\ session[s].at = "idle" => session[s].left = {}
  /\ session[s].at # "idle" => channel[s] = "session"
  /\ \A e \in session[s].left : e <= Len(event) /\ (sub[s].on => e <= sub[s].cursor)

CursorsKnown ==
  \A c \in Chat : sub[c].cursor <= Len(event) /\ sub[c].since <= Len(event)

Standing ==
  /\ TypeOK /\ CursorsKnown
  /\ \A g \in Gateway : LoopKnown(g, gateway[g])
  /\ \A s \in Chat : SessionKnown(s)

\* The gateway may tell the chat this event before it claims anything else: the event is
\* left of a claim, or the claim is about to set the cursor back behind it.
MayTell(r, c, e) ==
  \E d \in Claimed(r) :
    /\ d.chat = c /\ (d \in r.hand \/ r.at # "unsub")
    /\ d.new < e \/ e \in d.left \/ (d \in r.now /\ r.at = "rewind" /\ d.old < e)

Chances(c, e) == {g \in Gateway : MayTell(gateway[g], c, e)}

Behind(c, e) == IF sub[c].on /\ sub[c].cursor < e THEN 1 ELSE 0

\* Nobody has told the event or is about to; or it was told, may be told and can be
\* claimed not more often than its chat has servers and failed sends.
Counted(c, e) ==
  \/ told[c][e] = 0 /\ \A g \in Gateway : ~Has(gateway[g], c, e)
  \/ /\ e <= Len(event) /\ event[e] \in Tells(c)
     /\ told[c][e] + Cardinality(Chances(c, e)) + Behind(c, e) <= Cardinality(Servers(c)) + failed[c]

\* What a session has told is behind it.
ToldOnce(c, e) ==
  told[c][e] = 0 \/ (/\ told[c][e] = 1 /\ e \notin session[c].left
                     /\ e <= Len(event) /\ (sub[c].on => e <= sub[c].cursor))

RepeatsCounted ==
  \A c \in Chat, e \in Id : IF channel[c] = "session" THEN ToldOnce(c, e) ELSE Counted(c, e)

\* The cursor stays where the claim of the only server left it, unless the chat
\* subscribed again.
CursorStays ==
  \A g \in Gateway : \A d \in Claimed(gateway[g]) :
    sub[d.chat].on /\ Cardinality(Tellers(d.chat)) <= 1 =>
      sub[d.chat].cursor = d.new \/ sub[d.chat].since >= d.new

NotifierInvariant == Standing /\ RepeatsCounted /\ CursorStays /\ NothingIsLost

=============================================================================
