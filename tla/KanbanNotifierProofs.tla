----------------------- MODULE KanbanNotifierProofs -----------------------
(***************************************************************************)
(* Any number of gateways beside any number of chats and terminal          *)
(* sessions: no event of a chat with one teller is lost but with its       *)
(* owner, and none is told more often than the chat has tellers and failed *)
(* sends.                                                                  *)
(***************************************************************************)
EXTENDS KanbanNotifier, SequenceTheorems, FiniteSetTheorems, TLAPS

\* The claim a loop works on is the one it has.
LEMMA NowIs ==
  ASSUME NEW g, NEW d, gateway[g].now = {d}
  PROVE  Now(g) = d
  BY DEF Now

\* What a chat is told depends on its channel alone.
LEMMA TellsStay ==
  ASSUME channel' = channel
  PROVE  \A c : Tells(c)' = Tells(c) /\ Claims(c)' = Claims(c)
  BY DEF Tells, Claims

\* A claim names a chat, two cursors and events.
LEMMA ClaimTypes ==
  ASSUME NEW r \in GatewayState, NEW d \in Claimed(r)
  PROVE  d \in Delivery /\ d.chat \in Chat /\ d.old \in Nat /\ d.new \in Nat /\ d.left \subseteq Id
  BY DEF GatewayState, Delivery, Claimed

\* The parts of a gateway keep their types.
LEMMA GatewayTypes ==
  ASSUME TypeOK, NEW g \in Gateway
  PROVE  gateway[g] \in GatewayState /\ fails[g] \in [Chat -> Nat] /\ serves[g] \subseteq Chat
  BY DEF TypeOK

\* So do the parts of a subscription.
LEMMA SubTypes ==
  ASSUME TypeOK, NEW c \in Chat
  PROVE  /\ sub[c] \in Subscription /\ sub[c].on \in BOOLEAN
         /\ sub[c].cursor \in Nat /\ sub[c].since \in Nat
  BY DEF TypeOK, Subscription

\* And what is counted of a chat.
LEMMA HistoryTypes ==
  ASSUME TypeOK, NEW c \in Chat
  PROVE  /\ failed[c] \in Nat /\ forgone[c] \subseteq Id /\ told[c] \in [Id -> Nat]
         /\ \A e \in Id : told[c][e] \in Nat
  BY DEF TypeOK

\* The events of the task are its newest MaxEvents at most.
LEMMA EventTypes ==
  ASSUME TypeOK
  PROVE  /\ Len(event) \in Nat /\ Len(event) <= MaxEvents
         /\ \A e \in Nat \ {0} : e <= Len(event) => e \in Id /\ event[e] \in Kind
<1>1. event \in Seq(Kind) /\ Len(event) <= MaxEvents
  BY DEF TypeOK
<1>2. Len(event) \in Nat /\ MaxEvents \in Nat
  BY <1>1, LenProperties, NotifierAssumption
<1>3. \A e \in Nat \ {0} : e <= Len(event) => e \in 1..Len(event)
  BY <1>2
<1>4. \A e \in 1..Len(event) : event[e] \in Kind
  BY <1>1, ElementOfSeq
<1> QED
  BY <1>1, <1>2, <1>3, <1>4 DEF Id

\* A chat's tellers are finitely many, and the servers of a chat without a session.
LEMMA TellersCounted ==
  ASSUME NEW c \in Chat
  PROVE  /\ IsFiniteSet(Servers(c)) /\ Cardinality(Servers(c)) \in Nat
         /\ channel[c] = "session" => Cardinality(Tellers(c)) = 1
         /\ channel[c] # "session" => Tellers(c) = Servers(c)
<1>1. IsFiniteSet(Servers(c)) /\ Cardinality(Servers(c)) \in Nat
  BY NotifierAssumption, FS_Subset, FS_CardinalityType DEF Servers
<1> QED
  BY <1>1, FS_Singleton DEF Tellers

\* The only server of a chat is the only one.
LEMMA OnlyServer ==
  ASSUME NEW c \in Chat, Cardinality(Servers(c)) <= 1,
         NEW g \in Servers(c), NEW h \in Servers(c)
  PROVE  g = h
<1>1. IsFiniteSet(Servers(c)) /\ Cardinality(Servers(c)) \in Nat
  BY TellersCounted
<1> SUFFICES ASSUME g # h PROVE FALSE
  OBVIOUS
<1>2. IsFiniteSet(Servers(c) \ {g}) /\ Cardinality(Servers(c) \ {g}) = Cardinality(Servers(c)) - 1
  BY <1>1, FS_RemoveElement
<1>3. Cardinality(Servers(c) \ {g}) = 0
  BY <1>1, <1>2, FS_CardinalityType
<1>4. Servers(c) \ {g} = {}
  BY <1>2, <1>3, FS_EmptySet
<1> QED
  BY <1>4

\* Two sets that differ in one element differ in size by its membership.
LEMMA DifferInOne ==
  ASSUME NEW A, NEW B, IsFiniteSet(A), IsFiniteSet(B), NEW g,
         \A h : h # g => (h \in A <=> h \in B)
  PROVE  /\ Cardinality(A) \in Nat /\ Cardinality(B) \in Nat
         /\ Cardinality(B) + (IF g \in A THEN 1 ELSE 0) = Cardinality(A) + (IF g \in B THEN 1 ELSE 0)
<1>1. Cardinality(A) \in Nat /\ Cardinality(B) \in Nat
  BY FS_CardinalityType
<1>2. A \ {g} = B \ {g}
  OBVIOUS
<1>3. Cardinality(A \ {g}) = IF g \in A THEN Cardinality(A) - 1 ELSE Cardinality(A)
  BY FS_RemoveElement
<1>4. Cardinality(B \ {g}) = IF g \in B THEN Cardinality(B) - 1 ELSE Cardinality(B)
  BY FS_RemoveElement
<1> QED
  BY <1>1, <1>2, <1>3, <1>4

-----------------------------------------------------------------------------
(***************************************************************************)
(* What a step of a gateway has to show                                    *)
(***************************************************************************)

\* A step of gateway g makes its loop r.
Becomes(g, r) == r \in GatewayState /\ gateway' = [gateway EXCEPT ![g] = r]

\* A step of one gateway leaves the loops of the others where they are.
LEMMA OthersStay ==
  ASSUME TypeOK, NEW g \in Gateway, NEW r, Becomes(g, r)
  PROVE  /\ gateway' \in [Gateway -> GatewayState] /\ gateway'[g] = r
         /\ \A h \in Gateway : h # g => gateway'[h] = gateway[h]
  BY DEF TypeOK, Becomes

\* What is known of a loop is about itself and about what does not change.
LEMMA LoopsStand ==
  ASSUME Standing, NEW g \in Gateway, NEW r, Becomes(g, r), LoopKnown(g, r),
         UNCHANGED <<channel, serves, event>>
  PROVE  \A h \in Gateway : LoopKnown(h, gateway[h])'
<1> SUFFICES ASSUME NEW h \in Gateway PROVE LoopKnown(h, gateway[h])'
  OBVIOUS
<1>1. gateway'[h] = IF h = g THEN r ELSE gateway[h]
  BY OthersStay DEF Standing
<1>2. PICK q : q = gateway'[h]
  OBVIOUS
<1>3. LoopKnown(h, q)
  BY <1>1, <1>2 DEF Standing
<1> QED
  BY <1>2, <1>3 DEF LoopKnown, LoopPosition, Visitable, ClaimKnown, Whole, Claimed, Tells, Claims

Chance(r, c, e) == IF MayTell(r, c, e) THEN 1 ELSE 0

\* It tells only what it had, gets events that the cursor passes, and raises the count
\* of an event by no more than the failed sends.
CountsOn(g, r, c, e) ==
  /\ told'[c][e] # told[c][e] => Has(gateway[g], c, e)
  /\ Has(r, c, e) => \/ Has(gateway[g], c, e)
                     \/ e <= Len(event) /\ event[e] \in Tells(c) /\ sub'[c].cursor >= e
  /\ e <= Len(event) /\ event[e] \in Tells(c) =>
       told'[c][e] + Chance(r, c, e) + Behind(c, e)' + failed[c]
         <= told[c][e] + Chance(gateway[g], c, e) + Behind(c, e) + failed'[c]

\* Only a server of a chat may tell it anything.
LEMMA ChancesServe ==
  ASSUME Standing, NEW c \in Chat, NEW e
  PROVE  /\ IsFiniteSet(Chances(c, e)) /\ Cardinality(Chances(c, e)) \in Nat
         /\ Cardinality(Chances(c, e)) <= Cardinality(Servers(c))
<1>1. Chances(c, e) \subseteq Servers(c)
  BY DEF Standing, LoopKnown, ClaimKnown, Visitable, Chances, MayTell, Servers
<1> QED
  BY <1>1, TellersCounted, FS_Subset, FS_CardinalityType

\* What is told, may be told and can be claimed, before and after a step.
LEMMA Sums ==
  ASSUME NEW t \in Nat, NEW u \in Nat, NEW k \in Nat, NEW l \in Nat, NEW b \in Nat, NEW p \in Nat,
         NEW x \in Nat, NEW y \in Nat, NEW f \in Nat, NEW m \in Nat, NEW n \in Nat,
         u + y + p + f <= t + x + b + m, l + x = k + y, t + k + b <= n + f
  PROVE  u + l + p <= n + m
  OBVIOUS

\* A step within that bound keeps the count of every event of its chat.
LEMMA CountedStays ==
  ASSUME Standing, Standing', NEW g \in Gateway, NEW r, Becomes(g, r),
         UNCHANGED <<channel, serves, event>>,
         NEW c \in Chat, NEW e \in Id, Counted(c, e), CountsOn(g, r, c, e)
  PROVE  Counted(c, e)'
<1>t. TypeOK /\ TypeOK'
  BY DEF Standing
<1>1. /\ gateway'[g] = r
      /\ \A h \in Gateway : h # g => gateway'[h] = gateway[h]
  BY <1>t, OthersStay
<1>2. /\ told[c][e] \in Nat /\ told'[c][e] \in Nat /\ failed[c] \in Nat /\ failed'[c] \in Nat
      /\ sub'[c].cursor \in Nat /\ e \in Nat
  <2>1. told[c][e] \in Nat /\ failed[c] \in Nat
    BY <1>t, HistoryTypes
  <2>2. told'[c] \in [Id -> Nat] /\ failed'[c] \in Nat
    BY <1>t DEF TypeOK
  <2>3. sub'[c] \in Subscription
    BY <1>t DEF TypeOK
  <2>4. e \in Nat
    BY NotifierAssumption DEF Id
  <2> QED
    BY <2>1, <2>2, <2>3, <2>4 DEF Subscription
<1>3. /\ Tells(c)' = Tells(c) /\ Servers(c)' = Servers(c)
      /\ Cardinality(Servers(c)) \in Nat
  BY TellsStay, TellersCounted DEF Servers
<1>4. /\ Cardinality(Chances(c, e)) \in Nat /\ IsFiniteSet(Chances(c, e))
  BY ChancesServe
<1>5. /\ Cardinality(Chances(c, e)') \in Nat /\ IsFiniteSet(Chances(c, e)')
      /\ Cardinality(Chances(c, e)') <= Cardinality(Servers(c))
  <2>1. Chances(c, e)' \subseteq Servers(c)
    BY <1>3 DEF Standing, LoopKnown, ClaimKnown, Visitable, Chances, MayTell, Servers
  <2> QED
    BY <2>1, TellersCounted, FS_Subset, FS_CardinalityType
<1>6. PICK q : q = gateway[g]
  OBVIOUS
<1>7. Cardinality(Chances(c, e)') + Chance(q, c, e) = Cardinality(Chances(c, e)) + Chance(r, c, e)
  <2>1. \A h : h # g => (h \in Chances(c, e)' <=> h \in Chances(c, e))
    BY <1>1 DEF Chances
  <2>2. g \in Chances(c, e) <=> MayTell(q, c, e)
    BY <1>6 DEF Chances
  <2>3. g \in Chances(c, e)' <=> MayTell(r, c, e)
    BY <1>1 DEF Chances
  <2>4. Cardinality(Chances(c, e)') + (IF g \in Chances(c, e) THEN 1 ELSE 0)
          = Cardinality(Chances(c, e)) + (IF g \in Chances(c, e)' THEN 1 ELSE 0)
    BY <2>1, <1>4, <1>5, DifferInOne
  <2> QED
    BY <2>2, <2>3, <2>4 DEF Chance
<1>8. CASE e <= Len(event) /\ event[e] \in Tells(c) /\
           told[c][e] + Cardinality(Chances(c, e)) + Behind(c, e) <= Cardinality(Servers(c)) + failed[c]
  <2>1. told'[c][e] + Chance(r, c, e) + Behind(c, e)' + failed[c]
          <= told[c][e] + Chance(q, c, e) + Behind(c, e) + failed'[c]
    BY <1>8, <1>6 DEF CountsOn
  <2>2. /\ Chance(r, c, e) \in Nat /\ Chance(q, c, e) \in Nat
        /\ Behind(c, e) \in Nat /\ Behind(c, e)' \in Nat
    <3>1. Chance(r, c, e) \in Nat /\ Chance(q, c, e) \in Nat
      BY DEF Chance
    <3>2. Behind(c, e) \in Nat
      BY DEF Behind
    <3>3. Behind(c, e)' \in Nat
      BY DEF Behind
    <3> QED
      BY <3>1, <3>2, <3>3
  <2>3. told'[c][e] + Cardinality(Chances(c, e)') + Behind(c, e)' <= Cardinality(Servers(c)) + failed'[c]
    <3>1. PICK k \in Nat, l \in Nat, n \in Nat :
            /\ k = Cardinality(Chances(c, e)) /\ l = Cardinality(Chances(c, e)')
            /\ n = Cardinality(Servers(c))
      BY <1>3, <1>4, <1>5
    <3>2. PICK b \in Nat, p \in Nat, x \in Nat, y \in Nat :
            /\ b = Behind(c, e) /\ p = Behind(c, e)'
            /\ x = Chance(q, c, e) /\ y = Chance(r, c, e)
      BY <2>2
    <3>3. told'[c][e] + y + p + failed[c] <= told[c][e] + x + b + failed'[c]
      BY <2>1, <3>2
    <3>4. l + x = k + y
      BY <1>7, <3>1, <3>2
    <3>5. told[c][e] + k + b <= n + failed[c]
      BY <1>8, <3>1, <3>2
    <3>6. told'[c][e] + l + p <= n + failed'[c]
      BY <1>2, <3>3, <3>4, <3>5, Sums
    <3> QED
      BY <3>1, <3>2, <3>6
  <2> QED
    BY <1>3, <1>8, <2>3 DEF Counted
<1>9. CASE told[c][e] = 0 /\ \A h \in Gateway : ~Has(gateway[h], c, e)
  <2>1. told'[c][e] = 0
    BY <1>9 DEF CountsOn
  <2>2. CASE Has(r, c, e)
    <3>1. e <= Len(event) /\ event[e] \in Tells(c) /\ sub'[c].cursor >= e
      BY <1>9, <2>2 DEF CountsOn
    <3>2. Behind(c, e)' = 0
      BY <1>2, <3>1 DEF Behind
    <3>3. told'[c][e] + Cardinality(Chances(c, e)') + Behind(c, e)' <= Cardinality(Servers(c)) + failed'[c]
      BY <1>2, <1>3, <1>5, <2>1, <3>2
    <3> QED
      BY <1>3, <3>1, <3>3 DEF Counted
  <2>3. CASE ~Has(r, c, e)
    <3>1. \A h \in Gateway : ~Has(gateway[h], c, e)'
      BY <1>1, <1>9, <2>3 DEF Has, Claimed
    <3> QED
      BY <2>1, <3>1 DEF Counted
  <2> QED
    BY <2>2, <2>3
<1> QED
  BY <1>8, <1>9 DEF Counted

\* A chat that the step leaves alone, but that it may tell or forgo something.
StillHeld(g, r, c) ==
  /\ sub'[c] = sub[c]
  /\ \A e \in Id : told[c][e] > 0 => told'[c][e] > 0
  /\ \A e \in Id : Has(gateway[g], c, e) => told'[c][e] > 0 \/ e \in forgone'[c] \/ Has(r, c, e)
  /\ \A d \in Claimed(r) : d.chat = c => \E f \in Claimed(gateway[g]) : f.chat = c /\ f.new = d.new

\* A chat whose cursor it moves, with all that the cursor has passed.
Resolved(g, r, c) ==
  /\ c \in serves[g] /\ channel[c] # "session"
  /\ sub'[c].on =>
       /\ \A d \in Claimed(r) : d.chat = c => sub'[c].cursor = d.new \/ sub'[c].since >= d.new
       /\ \A e \in (sub'[c].since + 1)..sub'[c].cursor :
            event[e] \in Tells(c) => told'[c][e] > 0 \/ e \in forgone'[c] \/ Has(r, c, e)

\* The events behind a cursor are events of the task.
LEMMA PassedTypes ==
  ASSUME Standing, NEW c \in Chat, NEW e \in (sub[c].since + 1)..sub[c].cursor
  PROVE  e \in Id /\ e <= Len(event) /\ e \in Nat \ {0}
<1>1. TypeOK /\ sub[c].cursor <= Len(event)
  BY DEF Standing, CursorsKnown
<1>2. sub[c].cursor \in Nat /\ sub[c].since \in Nat /\ Len(event) \in Nat
  BY <1>1, SubTypes, EventTypes
<1>3. e \in Nat \ {0} /\ e <= Len(event)
  BY <1>1, <1>2
<1> QED
  BY <1>1, <1>3, EventTypes

\* The claims of a chat with one server are all in one hand.
LEMMA OnlyHolder ==
  ASSUME Standing, NEW c \in Chat, Cardinality(Tellers(c)) <= 1, channel[c] # "session",
         NEW g \in Gateway, c \in serves[g],
         NEW h \in Gateway, NEW d \in Claimed(gateway[h]), d.chat = c
  PROVE  h = g
<1>1. h \in Servers(c) /\ g \in Servers(c)
  BY DEF Standing, LoopKnown, ClaimKnown, Visitable, Servers
<1> QED
  BY <1>1, TellersCounted, OnlyServer

\* A step of a gateway that keeps the types and its own loop keeps what is known of all.
LEMMA StandingStays ==
  ASSUME Standing, NEW g \in Gateway, NEW r, Becomes(g, r), LoopKnown(g, r),
         UNCHANGED <<channel, serves, event, session>>, TypeOK', CursorsKnown',
         \A c \in Chat : channel[c] = "session" => sub'[c] = sub[c]
  PROVE  Standing'
<1>1. \A h \in Gateway : LoopKnown(h, gateway[h])'
  BY LoopsStand
<1>2. ASSUME NEW s \in Chat PROVE SessionKnown(s)'
  <2>1. SessionKnown(s)
    BY DEF Standing
  <2>2. CASE channel[s] = "session"
    BY <2>1, <2>2 DEF SessionKnown
  <2>3. CASE channel[s] # "session"
    <3>1. session[s].left = {}
      BY <2>1, <2>3 DEF SessionKnown
    <3> QED
      BY <2>1, <3>1 DEF SessionKnown
  <2> QED
    BY <2>2, <2>3
<1> QED
  BY <1>1, <1>2 DEF Standing

\* Cursors stay at the claims if the chats with one teller are all still held or resolved.
LEMMA CursorsStay ==
  ASSUME Standing, Standing', CursorStays, NEW g \in Gateway, NEW r, Becomes(g, r),
         UNCHANGED <<channel, serves, event>>,
         \A c \in Chat : Cardinality(Tellers(c)) <= 1 => StillHeld(g, r, c) \/ Resolved(g, r, c)
  PROVE  CursorStays'
<1>1. /\ gateway'[g] = r
      /\ \A h \in Gateway : h # g => gateway'[h] = gateway[h]
  BY OthersStay DEF Standing
<1>2. \A c : Tellers(c)' = Tellers(c)
  BY DEF Tellers, Servers
<1> SUFFICES ASSUME NEW h \in Gateway, NEW d \in Claimed(gateway[h])', sub'[d.chat].on,
                    Cardinality(Tellers(d.chat)) <= 1
             PROVE  sub'[d.chat].cursor = d.new \/ sub'[d.chat].since >= d.new
  BY <1>2 DEF CursorStays
<1>3. PICK q : q = gateway'[h]
  OBVIOUS
<1>4. d \in Claimed(q) /\ LoopKnown(h, gateway[h])'
  BY <1>3 DEF Standing, Claimed
<1>5. d.chat \in serves[h] /\ channel[d.chat] # "session"
  BY <1>3, <1>4 DEF LoopKnown, ClaimKnown, Visitable, Claimed
<1>6. d.chat \in Chat
  BY <1>5 DEF Standing, TypeOK
<1>7. CASE StillHeld(g, r, d.chat)
  <2>1. PICK f \in Claimed(gateway[h]) : f.chat = d.chat /\ f.new = d.new
    BY <1>1, <1>3, <1>4, <1>7 DEF StillHeld
  <2>2. sub[f.chat].cursor = f.new \/ sub[f.chat].since >= f.new
    BY <2>1, <1>7 DEF CursorStays, StillHeld
  <2> QED
    BY <2>1, <2>2, <1>7 DEF StillHeld
<1>8. CASE Resolved(g, r, d.chat)
  <2>1. h = g
    <3>1. h \in Servers(d.chat) /\ g \in Servers(d.chat)
      BY <1>5, <1>8 DEF Resolved, Servers
    <3> QED
      BY <3>1, <1>5, <1>6, TellersCounted, OnlyServer
  <2> QED
    BY <2>1, <1>1, <1>3, <1>4, <1>8 DEF Resolved
<1> QED
  BY <1>6, <1>7, <1>8

\* And then nothing of their news is lost.
LEMMA NewsStay ==
  ASSUME Standing, Standing', NothingIsLost, NEW g \in Gateway, NEW r, Becomes(g, r),
         UNCHANGED <<channel, serves, event, session>>,
         \A c \in Chat : forgone[c] \subseteq forgone'[c],
         \A c \in Chat : Cardinality(Tellers(c)) <= 1 => StillHeld(g, r, c) \/ Resolved(g, r, c)
  PROVE  NothingIsLost'
<1>1. /\ gateway'[g] = r
      /\ \A h \in Gateway : h # g => gateway'[h] = gateway[h]
  BY OthersStay DEF Standing
<1>2. \A c : Tellers(c)' = Tellers(c) /\ Tells(c)' = Tells(c)
  BY TellsStay DEF Tellers, Servers
<1> SUFFICES ASSUME NEW c \in Chat, sub'[c].on, Cardinality(Tellers(c)) <= 1,
                    NEW e \in (sub'[c].since + 1)..sub'[c].cursor, event[e] \in Tells(c),
                    ~(told'[c][e] > 0), e \notin forgone'[c]
             PROVE  InHand(c, e)'
  BY <1>2 DEF NothingIsLost
<1>3. Has(r, c, e) => InHand(c, e)'
  BY <1>1 DEF InHand, Has, Claimed
<1>4. CASE StillHeld(g, r, c)
  <2>1. e \in Id /\ e \in (sub[c].since + 1)..sub[c].cursor /\ sub[c].on
    BY <1>4, PassedTypes DEF StillHeld
  <2>2. ~(told[c][e] > 0) /\ e \notin forgone[c]
    BY <2>1, <1>4 DEF StillHeld
  <2>3. InHand(c, e)
    BY <2>1, <2>2 DEF NothingIsLost
  <2>4. CASE e \in session[c].left
    BY <2>4 DEF InHand
  <2>5. ASSUME NEW h \in Gateway, Has(gateway[h], c, e) PROVE InHand(c, e)'
    <3>1. CASE h = g
      BY <3>1, <2>1, <2>5, <1>3, <1>4 DEF StillHeld
    <3>2. CASE h # g
      BY <3>2, <2>5, <1>1 DEF InHand, Has, Claimed
    <3> QED
      BY <3>1, <3>2
  <2> QED
    BY <2>3, <2>4, <2>5 DEF InHand
<1>5. CASE Resolved(g, r, c)
  BY <1>3, <1>5 DEF Resolved
<1> QED
  BY <1>4, <1>5

\* The parts of the invariant, of a step that one gateway takes.
LEMMA GatewayMoves ==
  ASSUME NotifierInvariant, NEW g \in Gateway, NEW r, Becomes(g, r), LoopKnown(g, r),
         UNCHANGED <<channel, serves, event, session>>, TypeOK', CursorsKnown',
         \A c \in Chat : forgone[c] \subseteq forgone'[c],
         \A c \in Chat : channel[c] = "session" => sub'[c] = sub[c] /\ told'[c] = told[c],
         \A c \in Chat, e \in Id : channel[c] # "session" => CountsOn(g, r, c, e),
         \A c \in Chat : Cardinality(Tellers(c)) <= 1 => StillHeld(g, r, c) \/ Resolved(g, r, c)
  PROVE  NotifierInvariant'
<1>1. Standing /\ RepeatsCounted /\ CursorStays /\ NothingIsLost
  BY DEF NotifierInvariant
<1>2. Standing'
  BY <1>1, StandingStays
<1>3. RepeatsCounted'
  <2> SUFFICES ASSUME NEW c \in Chat, NEW e \in Id
               PROVE  (IF channel[c] = "session" THEN ToldOnce(c, e) ELSE Counted(c, e))'
    BY DEF RepeatsCounted
  <2>1. CASE channel[c] = "session"
    <3>1. ToldOnce(c, e)
      BY <1>1, <2>1 DEF RepeatsCounted
    <3> QED
      BY <2>1, <3>1 DEF ToldOnce
  <2>2. CASE channel[c] # "session"
    <3>1. Counted(c, e)
      BY <1>1, <2>2 DEF RepeatsCounted
    <3>2. CountsOn(g, r, c, e)
      BY <2>2
    <3>3. Counted(c, e)'
      BY <3>1, <3>2, <1>1, <1>2, CountedStays
    <3> QED
      BY <2>2, <3>3
  <2> QED
    BY <2>1, <2>2
<1>4. CursorStays'
  BY <1>1, <1>2, CursorsStay
<1>5. NothingIsLost'
  BY <1>1, <1>2, NewsStay
<1> QED
  BY <1>2, <1>3, <1>4, <1>5 DEF NotifierInvariant

-----------------------------------------------------------------------------
(***************************************************************************)
(* Steps of a gateway that leave subscriptions and what was told alone     *)
(***************************************************************************)

\* A step that claims nothing, moves no cursor and tells nothing keeps the invariant.
LEMMA CalmMoves ==
  ASSUME NotifierInvariant, NEW g \in Gateway, NEW r, Becomes(g, r), LoopKnown(g, r),
         UNCHANGED <<channel, serves, event, session, sub, told>>, TypeOK',
         \A c \in Chat : forgone[c] \subseteq forgone'[c] /\ failed'[c] >= failed[c],
         \A d \in Claimed(r) : \E f \in Claimed(gateway[g]) :
           d.chat = f.chat /\ d.new = f.new /\ d.left = f.left,
         \A f \in Claimed(gateway[g]) :
           f.left \subseteq forgone'[f.chat] \/ \E d \in Claimed(r) : d.chat = f.chat /\ d.left = f.left,
         \A c \in Chat, e \in Id : e <= Len(event) /\ event[e] \in Tells(c) /\ MayTell(r, c, e) =>
           MayTell(gateway[g], c, e) \/ failed'[c] >= failed[c] + 1
  PROVE  NotifierInvariant'
<1>1. TypeOK /\ CursorsKnown
  BY DEF NotifierInvariant, Standing
<1>2. CursorsKnown'
  BY <1>1 DEF CursorsKnown
<1>3. ASSUME NEW c \in Chat, NEW e \in Id, channel[c] # "session"
      PROVE  CountsOn(g, r, c, e)
  <2>1. Has(r, c, e) => Has(gateway[g], c, e)
    BY DEF Has
  <2>2. Behind(c, e)' = Behind(c, e) /\ Behind(c, e) \in Nat
    BY DEF Behind
  <2>3. PICK x \in {0, 1}, y \in {0, 1} : x = Chance(gateway[g], c, e) /\ y = Chance(r, c, e)
    BY DEF Chance
  <2>4. told[c][e] \in Nat /\ failed[c] \in Nat
    BY <1>1, HistoryTypes
  <2>5. failed'[c] \in Nat /\ failed'[c] >= failed[c]
    BY DEF TypeOK
  <2>6. e <= Len(event) /\ event[e] \in Tells(c) => y <= x \/ failed'[c] >= failed[c] + 1
    BY <2>3 DEF Chance
  <2>7. e <= Len(event) /\ event[e] \in Tells(c) => y + failed[c] <= x + failed'[c]
    BY <2>4, <2>5, <2>6
  <2>8. PICK b \in Nat : b = Behind(c, e) /\ b = Behind(c, e)'
    BY <2>2
  <2>9. e <= Len(event) /\ event[e] \in Tells(c) =>
          told'[c][e] + y + b + failed[c] <= told[c][e] + x + b + failed'[c]
    <3>1. PICK t \in Nat : t = told[c][e] /\ t = told'[c][e]
      BY <2>4
    <3>2. y + failed[c] <= x + failed'[c] => t + y + b + failed[c] <= t + x + b + failed'[c]
      BY <2>4, <2>5
    <3> QED
      BY <2>7, <3>1, <3>2
  <2> QED
    BY <2>1, <2>3, <2>8, <2>9 DEF CountsOn
<1>4. ASSUME NEW c \in Chat PROVE StillHeld(g, r, c)
  BY DEF StillHeld, Has
<1> QED
  BY <1>2, <1>3, <1>4, GatewayMoves

\* What the claim that a gateway works on is.
LEMMA Serving ==
  ASSUME NotifierInvariant, NEW g \in Gateway, gateway[g].at \notin {"idle", "collect"}
  PROVE  \E d \in Delivery :
           /\ gateway[g].now = {d} /\ Now(g) = d /\ d \notin gateway[g].hand
           /\ Claimed(gateway[g]) = gateway[g].hand \union {d}
           /\ ClaimKnown(g, d) /\ d.chat \in Chat
           /\ \A f \in gateway[g].hand : f.chat # d.chat
<1>1. gateway[g] \in GatewayState /\ LoopKnown(g, gateway[g])
  BY GatewayTypes DEF NotifierInvariant, Standing
<1>2. PICK d \in gateway[g].now : gateway[g].now = {d}
  BY <1>1 DEF LoopKnown, LoopPosition
<1>3. d \in Claimed(gateway[g]) /\ Claimed(gateway[g]) = gateway[g].hand \union {d}
  BY <1>2 DEF Claimed
<1>4. d \in Delivery /\ d.chat \in Chat
  BY <1>1, <1>3, ClaimTypes
<1>5. d \notin gateway[g].hand /\ \A f \in gateway[g].hand : f.chat # d.chat
  BY <1>1, <1>2, <1>3 DEF LoopKnown, LoopPosition
<1> QED
  BY <1>1, <1>2, <1>3, <1>4, <1>5, NowIs DEF LoopKnown

\* Dropping events adds events to what was dropped.
LEMMA Dropping ==
  ASSUME TypeOK, NEW c \in Chat, NEW S \in SUBSET Id, Drop(c, S)
  PROVE  dropped' \in [Chat -> SUBSET Id]
BY DEF TypeOK, Drop

\* A step that leaves the histories alone.
LEMMA SameHistory ==
  ASSUME NotifierInvariant, UNCHANGED history
  PROVE  /\ UNCHANGED told
         /\ \A c \in Chat : forgone[c] \subseteq forgone'[c] /\ failed'[c] >= failed[c]
<1>1. \A c \in Chat : failed[c] \in Nat
  BY HistoryTypes DEF NotifierInvariant, Standing
<1> QED
  BY <1>1 DEF history

\* The visits of a tick are chats that the gateway serves.
LEMMA StartTickStep ==
  ASSUME NotifierInvariant, NEW g \in Gateway, StartTick(g)
  PROVE  NotifierInvariant'
<1> DEFINE visit == {c \in serves[g] : sub[c].on /\ channel[c] # "session"}
           r     == [gateway[g] EXCEPT !.at = "collect", !.visit = visit]
<1>1. gateway[g] \in GatewayState /\ LoopKnown(g, gateway[g]) /\ TypeOK
  BY GatewayTypes DEF NotifierInvariant, Standing
<1>2. gateway[g].at = "idle" /\ gateway[g].now = {} /\ gateway[g].hand = {}
  BY <1>1 DEF StartTick, At, LoopKnown, LoopPosition
<1>3. gateway' = [gateway EXCEPT ![g] = r]
  BY DEF StartTick
<1>4. visit \subseteq Chat
  BY <1>1, GatewayTypes
<1>5. /\ r \in GatewayState /\ r.at = "collect" /\ r.visit = visit /\ r.hand = {} /\ r.now = {}
  BY <1>1, <1>2, <1>4 DEF GatewayState
<1>6. UNCHANGED <<board, sub, fails, session, history, commands, faults>>
  BY DEF StartTick
<1>7. LoopKnown(g, r)
  BY <1>5 DEF LoopKnown, LoopPosition, Claimed, Visitable
<1> HIDE DEF r
<1>8. TypeOK'
  BY <1>1, <1>3, <1>5, <1>6 DEF TypeOK, board, history
<1>9. Claimed(r) = {} /\ Claimed(gateway[g]) = {}
  BY <1>2, <1>5 DEF Claimed
<1>10. \A c, e : ~MayTell(r, c, e)
  BY <1>9 DEF MayTell
<1> QED
  BY <1>3, <1>5, <1>6, <1>7, <1>8, <1>9, <1>10, SameHistory, CalmMoves DEF Becomes, board

\* A visit without news is over.
LEMMA NothingNewStep ==
  ASSUME NotifierInvariant, NEW g \in Gateway, NothingNew(g)
  PROVE  NotifierInvariant'
<1>1. gateway[g] \in GatewayState /\ LoopKnown(g, gateway[g]) /\ TypeOK
  BY GatewayTypes DEF NotifierInvariant, Standing
<1>2. PICK c : gateway' = [gateway EXCEPT ![g].visit = @ \ {c}]
  BY DEF NothingNew
<1> DEFINE r == [gateway[g] EXCEPT !.visit = gateway[g].visit \ {c}]
<1>3. gateway' = [gateway EXCEPT ![g] = r]
  BY <1>2
<1>4. /\ r \in GatewayState /\ r.at = gateway[g].at /\ r.visit \subseteq gateway[g].visit
      /\ r.hand = gateway[g].hand /\ r.now = gateway[g].now
  BY <1>1 DEF GatewayState
<1> HIDE DEF r
<1>5. Claimed(r) = Claimed(gateway[g])
  BY <1>4 DEF Claimed
<1>6. UNCHANGED <<board, sub, fails, session, history, commands, faults>>
  BY DEF NothingNew
<1>7. LoopKnown(g, r)
  BY <1>1, <1>4, <1>5 DEF LoopKnown, LoopPosition
<1>8. TypeOK'
  BY <1>1, <1>3, <1>4, <1>6 DEF TypeOK, board, history
<1>9. \A d, e : MayTell(r, d, e) => MayTell(gateway[g], d, e)
  BY <1>4, <1>5 DEF MayTell
<1> QED
  BY <1>3, <1>4, <1>5, <1>6, <1>7, <1>8, <1>9, SameHistory, CalmMoves DEF Becomes, board

\* The claim goes to those that wait for their delivery.
LEMMA LookUpTaskStep ==
  ASSUME NotifierInvariant, NEW g \in Gateway, LookUpTask(g)
  PROVE  NotifierInvariant'
<1>1. gateway[g] \in GatewayState /\ LoopKnown(g, gateway[g]) /\ TypeOK
  BY GatewayTypes DEF NotifierInvariant, Standing
<1>2. gateway[g].at = "look"
  BY DEF LookUpTask, At
<1>3. PICK d \in Delivery :
        /\ gateway[g].now = {d} /\ Now(g) = d /\ d \notin gateway[g].hand
        /\ Claimed(gateway[g]) = gateway[g].hand \union {d}
        /\ ClaimKnown(g, d) /\ d.chat \in Chat
        /\ \A f \in gateway[g].hand : f.chat # d.chat
  BY <1>2, Serving
<1> DEFINE f == [d EXCEPT !.final = final]
<1>4. f \in Delivery /\ f.chat = d.chat /\ f.old = d.old /\ f.new = d.new /\ f.left = d.left
  <2>1. final \in BOOLEAN
    BY <1>1 DEF TypeOK
  <2> QED
    BY <2>1 DEF Delivery
<1> HIDE DEF f
<1> DEFINE r == [gateway[g] EXCEPT !.at = "collect", !.now = {}, !.hand = gateway[g].hand \union {f}]
<1>5. gateway' = [gateway EXCEPT ![g] = r]
  BY <1>3 DEF LookUpTask, f
<1>6. /\ r \in GatewayState /\ r.at = "collect" /\ r.visit = gateway[g].visit
      /\ r.hand = gateway[g].hand \union {f} /\ r.now = {}
  BY <1>1, <1>4 DEF GatewayState
<1> HIDE DEF r
<1>7. UNCHANGED <<board, sub, fails, session, history, commands, faults>>
  BY DEF LookUpTask
<1>8. Claimed(r) = gateway[g].hand \union {f}
  BY <1>6 DEF Claimed
<1>9. LoopKnown(g, r)
  <2>1. LoopPosition(r)
    <3>1. \A x, y \in Claimed(r) : x.chat = y.chat => x = y
      BY <1>1, <1>3, <1>4, <1>8 DEF LoopKnown, LoopPosition
    <3>2. \A x \in Claimed(r) : x.chat \notin r.visit
      BY <1>1, <1>3, <1>4, <1>6, <1>8 DEF LoopKnown, LoopPosition
    <3> QED
      BY <1>6, <3>1, <3>2 DEF LoopPosition
  <2>2. ClaimKnown(g, f) /\ Whole(f)
    BY <1>1, <1>2, <1>3, <1>4 DEF LoopKnown, ClaimKnown, Whole
  <2>3. \A x \in gateway[g].hand : ClaimKnown(g, x) /\ Whole(x)
    BY <1>1, <1>3 DEF LoopKnown
  <2> QED
    BY <1>1, <1>6, <1>8, <2>1, <2>2, <2>3 DEF LoopKnown
<1>10. TypeOK'
  BY <1>1, <1>5, <1>6, <1>7 DEF TypeOK, board, history
<1>11. \A x \in Claimed(r) : \E y \in Claimed(gateway[g]) :
         x.chat = y.chat /\ x.new = y.new /\ x.left = y.left
  BY <1>3, <1>4, <1>8
<1>12. \A y \in Claimed(gateway[g]) : \E x \in Claimed(r) : x.chat = y.chat /\ x.left = y.left
  BY <1>3, <1>4, <1>8
<1>13. \A c, e : MayTell(r, c, e) => MayTell(gateway[g], c, e)
  BY <1>2, <1>6, <1>11 DEF MayTell
<1> QED
  BY <1>5, <1>6, <1>7, <1>9, <1>10, <1>11, <1>12, <1>13, SameHistory, CalmMoves DEF Becomes, board

\* A delivery passes from the hand to the sender.
LEMMA HandOver ==
  ASSUME NotifierInvariant, NEW g \in Gateway, Delivering(g),
         NEW d \in gateway[g].hand, NEW label \in {"send", "rewind"},
         gateway' = [gateway EXCEPT ![g].at = label, ![g].hand = @ \ {d}, ![g].now = {d}],
         UNCHANGED <<board, sub, fails, session, history, commands>>, faults' \in Nat
  PROVE  NotifierInvariant'
<1> DEFINE r == [gateway[g] EXCEPT !.at = label, !.hand = gateway[g].hand \ {d}, !.now = {d}]
<1>1. gateway[g] \in GatewayState /\ LoopKnown(g, gateway[g]) /\ TypeOK
  BY GatewayTypes DEF NotifierInvariant, Standing
<1>2. gateway[g].at = "collect" /\ gateway[g].now = {} /\ gateway[g].visit = {}
  BY <1>1 DEF Delivering, At, LoopKnown, LoopPosition
<1>3. d \in Claimed(gateway[g]) /\ d \in Delivery
  BY <1>1, ClaimTypes DEF Claimed
<1>4. gateway' = [gateway EXCEPT ![g] = r]
  OBVIOUS
<1>5. /\ r \in GatewayState /\ r.at = label /\ r.visit = {}
      /\ r.hand = gateway[g].hand \ {d} /\ r.now = {d}
  BY <1>1, <1>2, <1>3 DEF GatewayState
<1> HIDE DEF r
<1>6. Claimed(r) = Claimed(gateway[g])
  BY <1>2, <1>5 DEF Claimed
<1>7. LoopKnown(g, r)
  <2>1. LoopPosition(r)
    BY <1>1, <1>5, <1>6 DEF LoopKnown, LoopPosition
  <2> QED
    BY <1>1, <1>5, <1>6, <2>1 DEF LoopKnown
<1>8. TypeOK'
  <2>1. gateway' \in [Gateway -> GatewayState]
    BY <1>1, <1>4, <1>5 DEF TypeOK
  <2> QED
    BY <1>1, <2>1 DEF TypeOK, board, history
<1>9. ASSUME NEW c \in Chat, NEW e \in Id, e <= Len(event), event[e] \in Tells(c), MayTell(r, c, e)
      PROVE  MayTell(gateway[g], c, e)
  <2>1. PICK x \in Claimed(r) :
          x.chat = c /\ (x.new < e \/ e \in x.left \/ (x \in r.now /\ r.at = "rewind" /\ x.old < e))
    BY <1>9 DEF MayTell
  <2>2. x \in gateway[g].hand
    BY <2>1, <1>2, <1>6 DEF Claimed
  <2>3. x.new < e \/ e \in x.left \/ (e <= x.new /\ x.old < e)
    <3>1. x.new \in Nat /\ e \in Nat
      BY <2>1, <1>5, ClaimTypes, NotifierAssumption DEF Id
    <3> QED
      BY <2>1, <3>1
  <2>4. CASE e <= x.new /\ x.old < e
    <3>1. Whole(x)
      BY <1>1, <2>1, <2>2, <1>6 DEF LoopKnown
    <3>2. e \in (x.old + 1)..x.new
      <4>1. x.old \in Nat /\ x.new \in Nat /\ e \in Nat
        BY <2>1, <1>5, ClaimTypes, NotifierAssumption DEF Id
      <4> QED
        BY <2>4, <4>1
    <3>3. e \in x.left
      BY <1>9, <2>1, <3>1, <3>2 DEF Whole
    <3> QED
      BY <2>1, <2>2, <3>3, <1>6 DEF MayTell
  <2>5. CASE x.new < e \/ e \in x.left
    BY <2>1, <2>2, <2>5, <1>6 DEF MayTell
  <2> QED
    BY <2>3, <2>4, <2>5
<1> QED
  BY <1>4, <1>5, <1>6, <1>7, <1>8, <1>9, SameHistory, CalmMoves DEF Becomes, board

\* The delivery of a claim begins: it is whole, as it was in hand.
LEMMA TakeDeliveryStep ==
  ASSUME NotifierInvariant, NEW g \in Gateway, TakeDelivery(g)
  PROVE  NotifierInvariant'
<1>1. PICK d \in gateway[g].hand :
        gateway' = [gateway EXCEPT ![g].at = "send", ![g].hand = @ \ {d}, ![g].now = {d}]
  BY DEF TakeDelivery
<1>2. /\ Delivering(g) /\ UNCHANGED <<board, sub, fails, session, history, commands>>
      /\ faults' \in Nat
  BY DEF TakeDelivery, NotifierInvariant, Standing, TypeOK
<1> QED
  BY <1>1, <1>2, HandOver

\* The claim is taken back before anything of it was told.
LEMMA DisconnectedStep ==
  ASSUME NotifierInvariant, NEW g \in Gateway, Disconnected(g)
  PROVE  NotifierInvariant'
<1>1. PICK d \in gateway[g].hand :
        gateway' = [gateway EXCEPT ![g].at = "rewind", ![g].hand = @ \ {d}, ![g].now = {d}]
  BY DEF Disconnected
<1>2. /\ Delivering(g) /\ UNCHANGED <<board, sub, fails, session, history, commands>>
      /\ faults' \in Nat
  BY DEF Disconnected, Fault, NotifierInvariant, Standing, TypeOK
<1> QED
  BY <1>1, <1>2, HandOver

\* A loop starts anew, and what it still had in hand is forgone.
LEMMA TickOver ==
  ASSUME NotifierInvariant, NEW g \in Gateway,
         gateway' = [gateway EXCEPT ![g] = AtRest],
         fails' \in [Gateway -> [Chat -> Nat]], faults' \in Nat,
         forgone' \in [Chat -> SUBSET Id],
         \A c \in Chat : forgone[c] \subseteq forgone'[c],
         \A d \in Claimed(gateway[g]) : d.left \subseteq forgone'[d.chat],
         UNCHANGED <<board, sub, session, told, failed, dropped, commands>>
  PROVE  NotifierInvariant'
<1>1. TypeOK
  BY DEF NotifierInvariant, Standing
<1>2. /\ AtRest \in GatewayState /\ AtRest.at = "idle" /\ AtRest.visit = {}
      /\ AtRest.hand = {} /\ AtRest.now = {}
  BY DEF GatewayState, AtRest
<1>3. Claimed(AtRest) = {}
  BY <1>2 DEF Claimed
<1>4. LoopKnown(g, AtRest)
  BY <1>2, <1>3 DEF LoopKnown, LoopPosition
<1>5. TypeOK'
  <2>1. gateway' \in [Gateway -> GatewayState]
    BY <1>1, <1>2 DEF TypeOK
  <2> QED
    BY <1>1, <2>1 DEF TypeOK, board
<1>6. \A c \in Chat : failed'[c] >= failed[c]
  BY <1>1, HistoryTypes
<1>7. \A c, e : ~MayTell(AtRest, c, e)
  BY <1>3 DEF MayTell
<1> QED
  BY <1>2, <1>3, <1>4, <1>5, <1>6, <1>7, CalmMoves DEF Becomes, board

\* A tick ends with nothing in hand.
LEMMA EndTickStep ==
  ASSUME NotifierInvariant, NEW g \in Gateway, EndTick(g)
  PROVE  NotifierInvariant'
<1>1. LoopKnown(g, gateway[g]) /\ TypeOK
  BY DEF NotifierInvariant, Standing
<1>2. Claimed(gateway[g]) = {}
  BY <1>1 DEF EndTick, Delivering, At, Claimed, LoopKnown, LoopPosition
<1>3. /\ fails' \in [Gateway -> [Chat -> Nat]] /\ faults' \in Nat
      /\ forgone' \in [Chat -> SUBSET Id]
      /\ \A c \in Chat : forgone[c] \subseteq forgone'[c]
      /\ gateway' = [gateway EXCEPT ![g] = AtRest]
      /\ UNCHANGED <<board, sub, session, told, failed, dropped, commands>>
  BY <1>1 DEF EndTick, TypeOK, history
<1> QED
  BY <1>2, <1>3, TickOver

\* Forgoing claims adds what is left of them to what was forgone.
LEMMA Forgone ==
  ASSUME TypeOK, NEW S \in SUBSET Delivery, Forgo(S)
  PROVE  /\ forgone' \in [Chat -> SUBSET Id]
         /\ \A c \in Chat : forgone[c] \subseteq forgone'[c]
         /\ \A d \in S : d.left \subseteq forgone'[d.chat]
<1>1. \A c \in Chat : forgone'[c] = forgone[c] \union UNION {d.left : d \in {x \in S : x.chat = c}}
  BY DEF Forgo
<1>2. \A d \in S : d.chat \in Chat /\ d.left \subseteq Id
  BY DEF Delivery
<1>3. \A c \in Chat : forgone[c] \subseteq Id
  BY HistoryTypes
<1>4. \A c \in Chat : forgone'[c] \subseteq Id
  BY <1>1, <1>2, <1>3
<1>5. forgone' \in [Chat -> SUBSET Id]
  BY <1>4 DEF Forgo
<1>6. \A d \in S : d.left \subseteq forgone'[d.chat]
  BY <1>1, <1>2
<1> QED
  BY <1>1, <1>5, <1>6

\* The events of all claims are forgone, so nobody may tell them again.
LEMMA TickFailsStep ==
  ASSUME NotifierInvariant, NEW g \in Gateway, TickFails(g)
  PROVE  NotifierInvariant'
<1>1. TypeOK /\ gateway[g] \in GatewayState
  BY GatewayTypes DEF NotifierInvariant, Standing
<1>2. Claimed(gateway[g]) \in SUBSET Delivery /\ Forgo(Claimed(gateway[g]))
  BY <1>1 DEF TickFails, Claimed, GatewayState
<1>3. /\ fails' \in [Gateway -> [Chat -> Nat]] /\ faults' \in Nat
      /\ gateway' = [gateway EXCEPT ![g] = AtRest]
      /\ UNCHANGED <<board, sub, session, told, failed, dropped, commands>>
  BY <1>1 DEF TickFails, Fault, TypeOK
<1>4. /\ forgone' \in [Chat -> SUBSET Id]
      /\ \A c \in Chat : forgone[c] \subseteq forgone'[c]
      /\ \A d \in Claimed(gateway[g]) : d.left \subseteq forgone'[d.chat]
  BY <1>1, <1>2, Forgone
<1> QED
  BY <1>3, <1>4, TickOver

\* The same when the gateway ends.
LEMMA GatewayStopsStep ==
  ASSUME NotifierInvariant, NEW g \in Gateway, GatewayStops(g)
  PROVE  NotifierInvariant'
<1>1. TypeOK /\ gateway[g] \in GatewayState
  BY GatewayTypes DEF NotifierInvariant, Standing
<1>2. Claimed(gateway[g]) \in SUBSET Delivery /\ Forgo(Claimed(gateway[g]))
  BY <1>1 DEF GatewayStops, Claimed, GatewayState
<1>3. /\ faults' \in Nat
      /\ gateway' = [gateway EXCEPT ![g] = AtRest]
      /\ UNCHANGED <<board, sub, session, told, failed, dropped, commands>>
  BY <1>1 DEF GatewayStops, Fault, TypeOK
<1>4. fails' \in [Gateway -> [Chat -> Nat]]
  <2>1. [c \in Chat |-> 0] \in [Chat -> Nat]
    OBVIOUS
  <2> QED
    BY <1>1, <2>1 DEF GatewayStops, TypeOK
<1>5. /\ forgone' \in [Chat -> SUBSET Id]
      /\ \A c \in Chat : forgone[c] \subseteq forgone'[c]
      /\ \A d \in Claimed(gateway[g]) : d.left \subseteq forgone'[d.chat]
  BY <1>1, <1>2, Forgone
<1> QED
  BY <1>3, <1>4, <1>5, TickOver

\* Only the claim whose task cannot be read is forgone.
LEMMA LookUpFailsStep ==
  ASSUME NotifierInvariant, NEW g \in Gateway, LookUpFails(g)
  PROVE  NotifierInvariant'
<1> DEFINE r == [gateway[g] EXCEPT !.at = "collect", !.now = {}]
<1>1. gateway[g] \in GatewayState /\ LoopKnown(g, gateway[g]) /\ TypeOK
  BY GatewayTypes DEF NotifierInvariant, Standing
<1>2. gateway[g].at = "look"
  BY DEF LookUpFails, At
<1>3. gateway' = [gateway EXCEPT ![g] = r]
  BY DEF LookUpFails
<1>4. /\ r \in GatewayState /\ r.at = "collect" /\ r.visit = gateway[g].visit
      /\ r.hand = gateway[g].hand /\ r.now = {}
  BY <1>1 DEF GatewayState
<1> HIDE DEF r
<1>5. Claimed(r) = gateway[g].hand /\ Claimed(gateway[g]) = gateway[g].hand \union gateway[g].now
  BY <1>4 DEF Claimed
<1>6. gateway[g].now \in SUBSET Delivery /\ Forgo(gateway[g].now)
  BY <1>1 DEF LookUpFails, GatewayState
<1>7. /\ forgone' \in [Chat -> SUBSET Id]
      /\ \A c \in Chat : forgone[c] \subseteq forgone'[c]
      /\ \A d \in gateway[g].now : d.left \subseteq forgone'[d.chat]
  BY <1>1, <1>6, Forgone
<1>8. UNCHANGED <<board, sub, fails, session, told, failed, dropped, commands>> /\ faults' \in Nat
  BY <1>1 DEF LookUpFails, Fault, TypeOK
<1>9. LoopKnown(g, r)
  <2>1. LoopPosition(r)
    BY <1>1, <1>4, <1>5 DEF LoopKnown, LoopPosition
  <2> QED
    BY <1>1, <1>4, <1>5, <2>1 DEF LoopKnown
<1>10. TypeOK'
  <2>1. gateway' \in [Gateway -> GatewayState]
    BY <1>1, <1>3, <1>4 DEF TypeOK
  <2> QED
    BY <1>1, <1>7, <1>8, <2>1 DEF TypeOK, board
<1>11. \A c \in Chat : failed'[c] >= failed[c]
  BY <1>1, <1>8, HistoryTypes
<1>12. \A c, e : MayTell(r, c, e) => MayTell(gateway[g], c, e)
  BY <1>2, <1>4, <1>5 DEF MayTell
<1> QED
  BY <1>3, <1>4, <1>5, <1>7, <1>8, <1>9, <1>10, <1>11, <1>12, CalmMoves DEF Becomes, board

\* A failed send raises the bound by one, which pays for the cursor that is set back.
LEMMA SendFailsStep ==
  ASSUME NotifierInvariant, NEW g \in Gateway, SendFails(g)
  PROVE  NotifierInvariant'
<1>1. gateway[g] \in GatewayState /\ LoopKnown(g, gateway[g]) /\ TypeOK
  BY GatewayTypes DEF NotifierInvariant, Standing
<1>2. gateway[g].at = "send"
  BY DEF SendFails, At
<1>3. PICK d \in Delivery :
        /\ gateway[g].now = {d} /\ Now(g) = d /\ d \notin gateway[g].hand
        /\ Claimed(gateway[g]) = gateway[g].hand \union {d}
        /\ ClaimKnown(g, d) /\ d.chat \in Chat
        /\ \A f \in gateway[g].hand : f.chat # d.chat
  BY <1>2, Serving
<1>4. PICK label \in {"rewind", "unsub"} : gateway' = [gateway EXCEPT ![g].at = label]
  BY DEF SendFails, Goto
<1> DEFINE r == [gateway[g] EXCEPT !.at = label]
<1>5. gateway' = [gateway EXCEPT ![g] = r]
  BY <1>4
<1>6. /\ r \in GatewayState /\ r.at = label /\ r.visit = gateway[g].visit
      /\ r.hand = gateway[g].hand /\ r.now = {d}
  BY <1>1, <1>3 DEF GatewayState
<1> HIDE DEF r
<1>7. Claimed(r) = Claimed(gateway[g])
  BY <1>3, <1>6 DEF Claimed
<1>8. /\ UNCHANGED <<board, sub, session, told, forgone, dropped, commands>> /\ faults' \in Nat
      /\ fails' = [fails EXCEPT ![g][d.chat] = fails[g][d.chat] + 1]
      /\ failed' = [failed EXCEPT ![d.chat] = failed[d.chat] + 1]
  BY <1>1, <1>3 DEF SendFails, Fault, TypeOK
<1>9. LoopKnown(g, r)
  <2>1. LoopPosition(r)
    BY <1>1, <1>2, <1>3, <1>6, <1>7 DEF LoopKnown, LoopPosition
  <2> QED
    BY <1>1, <1>2, <1>6, <1>7, <2>1 DEF LoopKnown
<1>10. TypeOK'
  <2>1. gateway' \in [Gateway -> GatewayState]
    BY <1>1, <1>5, <1>6 DEF TypeOK
  <2>2. fails' \in [Gateway -> [Chat -> Nat]]
    <3>1. fails[g] \in [Chat -> Nat] /\ fails[g][d.chat] \in Nat
      BY <1>1, <1>3, GatewayTypes
    <3>2. PICK n \in Nat : n = fails[g][d.chat] + 1
      BY <3>1
    <3>3. [fails[g] EXCEPT ![d.chat] = n] \in [Chat -> Nat]
      BY <1>3, <3>1
    <3> QED
      BY <1>1, <1>8, <3>2, <3>3 DEF TypeOK
  <2>3. failed' \in [Chat -> Nat]
    BY <1>1, <1>3, <1>8 DEF TypeOK
  <2> QED
    BY <1>1, <1>8, <2>1, <2>2, <2>3 DEF TypeOK, board
<1>11. /\ failed'[d.chat] = failed[d.chat] + 1
       /\ \A c \in Chat : c # d.chat => failed'[c] = failed[c]
       /\ \A c \in Chat : failed'[c] >= failed[c]
  <2>1. \A c \in Chat : failed[c] \in Nat
    BY <1>1, HistoryTypes
  <2> QED
    BY <1>1, <1>3, <1>8, <2>1 DEF TypeOK
<1>12. ASSUME NEW c \in Chat, NEW e \in Id, MayTell(r, c, e)
       PROVE  MayTell(gateway[g], c, e) \/ failed'[c] >= failed[c] + 1
  <2>1. CASE c = d.chat
    BY <2>1, <1>1, <1>11, HistoryTypes
  <2>2. CASE c # d.chat
    BY <2>2, <1>2, <1>3, <1>6, <1>7, <1>12 DEF MayTell
  <2> QED
    BY <2>1, <2>2
<1> QED
  BY <1>5, <1>6, <1>7, <1>8, <1>9, <1>10, <1>11, <1>12, CalmMoves DEF Becomes, board

-----------------------------------------------------------------------------
(***************************************************************************)
(* Steps of a gateway on the subscription of one chat                      *)
(***************************************************************************)

IsBehind(c, e) == sub[c].on /\ sub[c].cursor < e

\* One more told, one chance, one event to claim: a step trades them for each other.
LEMMA Trade ==
  ASSUME TypeOK, TypeOK', NEW g \in Gateway, NEW r, NEW c \in Chat, NEW e \in Id,
         UNCHANGED <<event, failed>>,
         told'[c][e] # told[c][e] => Has(gateway[g], c, e),
         Has(r, c, e) => \/ Has(gateway[g], c, e)
                         \/ e <= Len(event) /\ event[e] \in Tells(c) /\ sub'[c].cursor >= e,
         e <= Len(event) /\ event[e] \in Tells(c) =>
           \/ /\ told'[c][e] = told[c][e] /\ ~MayTell(r, c, e)
              /\ IsBehind(c, e)' => MayTell(gateway[g], c, e) \/ IsBehind(c, e)
           \/ /\ told'[c][e] = told[c][e] /\ ~IsBehind(c, e)'
              /\ MayTell(r, c, e) => MayTell(gateway[g], c, e) \/ IsBehind(c, e)
           \/ /\ told'[c][e] = told[c][e] + 1 /\ ~MayTell(r, c, e) /\ MayTell(gateway[g], c, e)
              /\ IsBehind(c, e)' <=> IsBehind(c, e)
           \/ /\ told'[c][e] = told[c][e] /\ (IsBehind(c, e)' <=> IsBehind(c, e))
              /\ MayTell(r, c, e) => MayTell(gateway[g], c, e)
  PROVE  CountsOn(g, r, c, e)
<1>1. PICK x \in {0, 1}, y \in {0, 1} :
        /\ x = Chance(gateway[g], c, e) /\ y = Chance(r, c, e)
        /\ (x = 1) <=> MayTell(gateway[g], c, e)
        /\ (y = 1) <=> MayTell(r, c, e)
  BY DEF Chance
<1>2. PICK b \in {0, 1} : b = Behind(c, e) /\ ((b = 1) <=> IsBehind(c, e))
  BY DEF Behind, IsBehind
<1>3. PICK p \in {0, 1} : p = Behind(c, e)' /\ ((p = 1) <=> IsBehind(c, e)')
  BY DEF Behind, IsBehind
<1>4. PICK t \in Nat, f \in Nat : t = told[c][e] /\ f = failed[c] /\ f = failed'[c]
  BY HistoryTypes
<1>5. PICK u \in Nat : u = told'[c][e]
  BY DEF TypeOK
<1>6. e <= Len(event) /\ event[e] \in Tells(c) => u + y + p <= t + x + b
  <2> SUFFICES ASSUME e <= Len(event), event[e] \in Tells(c) PROVE u + y + p <= t + x + b
    OBVIOUS
  <2>1. \/ u = t /\ y # 1 /\ (p = 1 => x = 1 \/ b = 1)
        \/ u = t /\ p # 1 /\ (y = 1 => x = 1 \/ b = 1)
        \/ u = t + 1 /\ y # 1 /\ x = 1 /\ (p = 1 <=> b = 1)
        \/ u = t /\ (p = 1 <=> b = 1) /\ (y = 1 => x = 1)
    BY <1>1, <1>2, <1>3, <1>4, <1>5
  <2> QED
    BY <2>1
<1>7. e <= Len(event) /\ event[e] \in Tells(c) => u + y + p + f <= t + x + b + f
  BY <1>6
<1> QED
  BY <1>1, <1>2, <1>3, <1>4, <1>5, <1>7 DEF CountsOn

\* A step that serves one chat needs to be judged by that chat alone.
LEMMA OneChatServed ==
  ASSUME NotifierInvariant, NEW g \in Gateway, NEW r, Becomes(g, r), LoopKnown(g, r),
         UNCHANGED <<channel, serves, event, session, failed, forgone>>, TypeOK', CursorsKnown',
         NEW c \in Chat, channel[c] # "session",
         \A x \in Chat : x # c => sub'[x] = sub[x] /\ told'[x] = told[x],
         r.hand = gateway[g].hand, \A d \in gateway[g].now \union r.now : d.chat = c,
         \A e \in Id : CountsOn(g, r, c, e),
         Cardinality(Tellers(c)) <= 1 => StillHeld(g, r, c) \/ Resolved(g, r, c)
  PROVE  NotifierInvariant'
<1>1. TypeOK
  BY DEF NotifierInvariant, Standing
<1>2. ASSUME NEW x \in Chat, x # c, NEW e \in Id PROVE CountsOn(g, r, x, e)
  <2>1. Has(r, x, e) <=> Has(gateway[g], x, e)
    BY <1>2 DEF Has, Claimed
  <2>2. MayTell(r, x, e) => MayTell(gateway[g], x, e)
    BY <1>2 DEF MayTell, Claimed
  <2>3. told'[x][e] = told[x][e] /\ (IsBehind(x, e)' <=> IsBehind(x, e))
    BY <1>2 DEF IsBehind
  <2> QED
    BY <1>1, <2>1, <2>2, <2>3, Trade
<1>3. ASSUME NEW x \in Chat, x # c PROVE StillHeld(g, r, x)
  BY <1>3 DEF StillHeld, Has, Claimed
<1> QED
  BY <1>2, <1>3, GatewayMoves

\* A claim turns the one way to be told, by the cursor, into the other, by the claim.
LEMMA ClaimEventsStep ==
  ASSUME NotifierInvariant, NEW g \in Gateway, ClaimEvents(g)
  PROVE  NotifierInvariant'
<1>1. gateway[g] \in GatewayState /\ LoopKnown(g, gateway[g]) /\ TypeOK /\ Standing /\ CursorsKnown
  BY GatewayTypes DEF NotifierInvariant, Standing
<1>2. PICK c \in gateway[g].visit, last \in Id :
        /\ sub[c].on /\ IsLast(last, Unseen(c))
        /\ SetCursor(c, last)
        /\ gateway' = [gateway EXCEPT ![g].at = "look", ![g].visit = @ \ {c},
             ![g].now = {[chat |-> c, old |-> sub[c].cursor, new |-> last,
                          left |-> News(c), final |-> FALSE]}]
  BY DEF ClaimEvents
<1>3. gateway[g].at = "collect" /\ gateway[g].now = {}
  BY <1>1 DEF ClaimEvents, At, LoopKnown, LoopPosition
<1>4. c \in Chat /\ Visitable(g, c)
  BY <1>1, <1>2 DEF LoopKnown, GatewayState
<1>5. UNCHANGED <<board, fails, session, history, commands, faults>>
  BY DEF ClaimEvents
<1>6. /\ sub[c] \in Subscription /\ sub[c].cursor \in Nat /\ sub[c].since \in Nat
      /\ Len(event) \in Nat /\ last \in Nat
  BY <1>1, <1>4, SubTypes, EventTypes, NotifierAssumption DEF Id
<1>7. /\ sub[c].cursor < last /\ last <= Len(event)
      /\ \A e \in (sub[c].cursor + 1)..Len(event) : event[e] \in Claims(c) => e <= last
  BY <1>2, <1>6 DEF IsLast, Unseen
<1>8. Tells(c) \subseteq Claims(c)
  BY <1>4 DEF Tells, Claims, Visitable, WakeKinds, SilentKinds, TerminalKinds, Kind
<1>9. /\ News(c) \subseteq {e \in (sub[c].cursor + 1)..last : event[e] \in Tells(c)}
      /\ \A e \in (sub[c].cursor + 1)..last : event[e] \in Tells(c) => e \in News(c)
  <2>1. \A e \in News(c) : e \in (sub[c].cursor + 1)..Len(event) /\ e <= last /\ event[e] \in Tells(c)
    BY <1>2 DEF News, Unseen, IsLast
  <2>2. \A e \in (sub[c].cursor + 1)..last : e \in (sub[c].cursor + 1)..Len(event)
    BY <1>6, <1>7
  <2>3. \A e \in (sub[c].cursor + 1)..Len(event) : e <= last => e \in (sub[c].cursor + 1)..last
    BY <1>6, <1>7
  <2> QED
    BY <2>1, <2>2, <2>3, <1>8 DEF News, Unseen
<1> DEFINE d == [chat |-> c, old |-> sub[c].cursor, new |-> last, left |-> News(c), final |-> FALSE]
           r == [gateway[g] EXCEPT !.at = "look", !.visit = gateway[g].visit \ {c}, !.now = {d}]
<1>10. gateway' = [gateway EXCEPT ![g] = r]
  BY <1>2
<1>11. /\ d \in Delivery /\ d.chat = c /\ d.old = sub[c].cursor /\ d.new = last /\ d.left = News(c)
  <2>1. News(c) \subseteq Id
    <3>1. \A e \in (sub[c].cursor + 1)..last : e \in Id
      BY <1>1, <1>6, <1>7, EventTypes DEF Id
    <3> QED
      BY <3>1, <1>9
  <2> QED
    BY <2>1, <1>4, <1>6 DEF Delivery
<1> HIDE DEF d
<1>12. /\ r \in GatewayState /\ r.at = "look" /\ r.visit = gateway[g].visit \ {c}
       /\ r.hand = gateway[g].hand /\ r.now = {d}
  BY <1>1, <1>11 DEF GatewayState
<1> HIDE DEF r
<1>13. Claimed(r) = gateway[g].hand \union {d} /\ Claimed(gateway[g]) = gateway[g].hand
  BY <1>3, <1>12 DEF Claimed
<1>14. \A f \in gateway[g].hand : f.chat # c
  BY <1>1, <1>2, <1>13 DEF LoopKnown, LoopPosition
<1>15. LoopKnown(g, r)
  <2>1. LoopPosition(r)
    <3>1. \A x, y \in Claimed(r) : x.chat = y.chat => x = y
      BY <1>1, <1>11, <1>13, <1>14 DEF LoopKnown, LoopPosition
    <3>2. \A x \in Claimed(r) : x.chat \notin r.visit
      BY <1>1, <1>11, <1>12, <1>13 DEF LoopKnown, LoopPosition
    <3>3. r.hand \intersect r.now = {}
      BY <1>11, <1>12, <1>14
    <3> QED
      BY <1>12, <3>1, <3>2, <3>3 DEF LoopPosition
  <2>2. ClaimKnown(g, d) /\ Whole(d)
    BY <1>4, <1>6, <1>7, <1>9, <1>11 DEF ClaimKnown, Whole
  <2>3. \A x \in gateway[g].hand : ClaimKnown(g, x) /\ Whole(x)
    BY <1>1, <1>13 DEF LoopKnown
  <2>4. \A x \in r.visit : Visitable(g, x)
    BY <1>1, <1>12 DEF LoopKnown
  <2> QED
    BY <1>13, <2>1, <2>2, <2>3, <2>4 DEF LoopKnown
<1>16. sub' = [sub EXCEPT ![c] = [sub[c] EXCEPT !.cursor = last]]
  BY <1>2 DEF SetCursor
<1>17. /\ sub'[c].on = sub[c].on /\ sub'[c].cursor = last /\ sub'[c].since = sub[c].since
       /\ sub' \in [Chat -> Subscription]
       /\ \A x \in Chat : x # c => sub'[x] = sub[x]
  BY <1>1, <1>4, <1>6, <1>16 DEF TypeOK, Subscription
<1>18. TypeOK'
  BY <1>1, <1>5, <1>10, <1>12, <1>17 DEF TypeOK, board, history
<1>19. CursorsKnown'
  BY <1>1, <1>5, <1>7, <1>17 DEF CursorsKnown, board
<1>20. ASSUME NEW e \in Id PROVE CountsOn(g, r, c, e)
  <2>1. e \in Nat
    BY NotifierAssumption DEF Id
  <2>2. UNCHANGED <<event, failed, told>>
    BY <1>5 DEF board, history
  <2>3. Has(r, c, e) => e \in News(c)
    BY <1>11, <1>13, <1>14 DEF Has
  <2>4. Has(r, c, e) => e <= Len(event) /\ event[e] \in Tells(c) /\ sub'[c].cursor >= e
    BY <2>1, <2>3, <1>6, <1>7, <1>9, <1>17
  <2>5. MayTell(r, c, e) => last < e \/ e \in News(c)
    BY <1>11, <1>12, <1>13, <1>14 DEF MayTell
  <2>6. ASSUME e <= Len(event), event[e] \in Tells(c)
        PROVE  ~IsBehind(c, e)' /\ (MayTell(r, c, e) => IsBehind(c, e))
    <3>1. ~(last < e)
      <4> SUFFICES ASSUME last < e PROVE FALSE
        OBVIOUS
      <4>1. e \in (sub[c].cursor + 1)..Len(event)
        BY <2>1, <2>6, <1>6, <1>7
      <4> QED
        BY <4>1, <2>1, <2>6, <1>6, <1>7, <1>8
    <3>2. e \in News(c) => sub[c].cursor < e
      BY <2>1, <1>6, <1>9
    <3> QED
      BY <3>1, <3>2, <2>5, <1>2, <1>17 DEF IsBehind
  <2> QED
    BY <2>2, <2>4, <2>6, <1>1, <1>4, <1>18, Trade
<1>21. Cardinality(Tellers(c)) <= 1 => Resolved(g, r, c)
  <2> SUFFICES ASSUME Cardinality(Tellers(c)) <= 1 PROVE Resolved(g, r, c)
    OBVIOUS
  <2>1. ASSUME NEW x \in Claimed(r), x.chat = c PROVE sub'[c].cursor = x.new
    BY <2>1, <1>11, <1>13, <1>14, <1>17
  <2>2. ASSUME NEW e \in (sub'[c].since + 1)..sub'[c].cursor, event[e] \in Tells(c)
        PROVE  told'[c][e] > 0 \/ e \in forgone'[c] \/ Has(r, c, e)
    <3>1. CASE e <= sub[c].cursor
      <4>1. e \in (sub[c].since + 1)..sub[c].cursor
        BY <2>2, <3>1, <1>6, <1>17
      <4>2. told[c][e] > 0 \/ e \in forgone[c] \/ InHand(c, e)
        BY <4>1, <2>2, <1>2, <1>4 DEF NotifierInvariant, NothingIsLost
      <4>3. ~InHand(c, e)
        <5>1. e \notin session[c].left
          BY <1>1, <1>4 DEF Standing, SessionKnown, Visitable
        <5>2. ASSUME NEW h \in Gateway PROVE ~Has(gateway[h], c, e)
          <6>1. \A x \in Claimed(gateway[h]) : x.chat = c => h = g
            BY <1>1, <1>4, OnlyHolder DEF Visitable
          <6> QED
            BY <6>1, <1>13, <1>14 DEF Has
        <5> QED
          BY <5>1, <5>2 DEF InHand
      <4> QED
        BY <4>2, <4>3, <1>5 DEF history
    <3>2. CASE e > sub[c].cursor
      <4>1. e \in (sub[c].cursor + 1)..last
        BY <2>2, <3>2, <1>6, <1>17
      <4>2. e \in d.left
        BY <4>1, <2>2, <1>9, <1>11
      <4> QED
        BY <4>2, <1>11, <1>13 DEF Has
    <3> QED
      BY <3>1, <3>2, <2>2, <1>6, <1>17
  <2> QED
    BY <2>1, <2>2, <1>4 DEF Resolved, Visitable
<1>22. \A x \in gateway[g].now \union r.now : x.chat = c
  BY <1>3, <1>11, <1>12
<1> QED
  BY <1>4, <1>5, <1>10, <1>12, <1>15, <1>17, <1>18, <1>19, <1>20, <1>21, <1>22, OneChatServed
     DEF Becomes, board, history, Visitable

\* A send turns the chance of the claim into the telling.
LEMMA SendStep ==
  ASSUME NotifierInvariant, NEW g \in Gateway, Send(g)
  PROVE  NotifierInvariant'
<1>1. gateway[g] \in GatewayState /\ LoopKnown(g, gateway[g]) /\ TypeOK /\ Standing /\ CursorsKnown
  BY GatewayTypes DEF NotifierInvariant, Standing
<1>2. gateway[g].at = "send"
  BY DEF Send, At
<1>3. PICK d \in Delivery :
        /\ gateway[g].now = {d} /\ Now(g) = d /\ d \notin gateway[g].hand
        /\ Claimed(gateway[g]) = gateway[g].hand \union {d}
        /\ ClaimKnown(g, d) /\ d.chat \in Chat
        /\ \A f \in gateway[g].hand : f.chat # d.chat
  BY <1>2, Serving
<1>4. PICK c \in Chat : c = d.chat
  BY <1>3
<1>5. PICK S \in SUBSET d.left :
        /\ Tell(c, S)
        /\ gateway' = [gateway EXCEPT ![g].now = {[d EXCEPT !.left = d.left \ S]}]
  BY <1>3, <1>4 DEF Send
<1>6. /\ fails' = [fails EXCEPT ![g][c] = 0]
      /\ UNCHANGED <<board, sub, session, failed, forgone, dropped, commands, faults>>
  BY <1>3, <1>4 DEF Send
<1> DEFINE f == [d EXCEPT !.left = d.left \ S]
           r == [gateway[g] EXCEPT !.now = {f}]
<1>7. gateway' = [gateway EXCEPT ![g] = r]
  BY <1>5
<1>8. f \in Delivery /\ f.chat = c /\ f.old = d.old /\ f.new = d.new /\ f.left = d.left \ S
  BY <1>4 DEF Delivery
<1> HIDE DEF f
<1>9. /\ r \in GatewayState /\ r.at = "send" /\ r.visit = gateway[g].visit
      /\ r.hand = gateway[g].hand /\ r.now = {f}
  BY <1>1, <1>2, <1>8 DEF GatewayState
<1> HIDE DEF r
<1>10. Claimed(r) = gateway[g].hand \union {f}
  BY <1>9 DEF Claimed
<1>11. LoopKnown(g, r)
  <2>1. LoopPosition(r)
    <3>1. \A x, y \in Claimed(r) : x.chat = y.chat => x = y
      BY <1>1, <1>3, <1>4, <1>8, <1>10 DEF LoopKnown, LoopPosition
    <3>2. \A x \in Claimed(r) : x.chat \notin r.visit
      BY <1>1, <1>3, <1>4, <1>8, <1>9, <1>10 DEF LoopKnown, LoopPosition
    <3>3. r.hand \intersect r.now = {}
      BY <1>3, <1>4, <1>8, <1>9
    <3>4. r.visit = {}
      BY <1>1, <1>2, <1>9 DEF LoopKnown, LoopPosition
    <3> QED
      BY <1>9, <3>1, <3>2, <3>3, <3>4 DEF LoopPosition
  <2>2. ClaimKnown(g, f)
    BY <1>3, <1>4, <1>8 DEF ClaimKnown
  <2>3. \A x \in gateway[g].hand : ClaimKnown(g, x) /\ Whole(x)
    BY <1>1, <1>3 DEF LoopKnown
  <2>4. f \notin r.hand
    BY <1>3, <1>4, <1>8, <1>9
  <2> QED
    BY <1>1, <1>9, <1>10, <2>1, <2>2, <2>3, <2>4 DEF LoopKnown
<1>12. /\ \A x \in Chat : x # c => told'[x] = told[x]
       /\ \A e \in Id : told'[c][e] = IF e \in S THEN told[c][e] + 1 ELSE told[c][e]
       /\ told' \in [Chat -> [Id -> Nat]]
  <2>1. told \in [Chat -> [Id -> Nat]]
    BY <1>1 DEF TypeOK
  <2>2. told' = [told EXCEPT ![c] = [e \in Id |-> IF e \in S THEN told[c][e] + 1 ELSE told[c][e]]]
    BY <1>5 DEF Tell
  <2>3. [e \in Id |-> IF e \in S THEN told[c][e] + 1 ELSE told[c][e]] \in [Id -> Nat]
    <3>1. \A e \in Id : (IF e \in S THEN told[c][e] + 1 ELSE told[c][e]) \in Nat
      BY <1>1, HistoryTypes
    <3> QED
      BY <3>1
  <2> QED
    BY <2>1, <2>2, <2>3
<1>13. TypeOK'
  <2>1. gateway' \in [Gateway -> GatewayState]
    BY <1>1, <1>7, <1>9 DEF TypeOK
  <2>2. fails' \in [Gateway -> [Chat -> Nat]]
    <3>1. [fails[g] EXCEPT ![c] = 0] \in [Chat -> Nat]
      BY <1>1, GatewayTypes
    <3> QED
      BY <1>1, <1>6, <3>1 DEF TypeOK
  <2> QED
    BY <1>1, <1>6, <1>12, <2>1, <2>2 DEF TypeOK, board
<1>14. CursorsKnown'
  BY <1>1, <1>6 DEF CursorsKnown, board
<1>15. ASSUME NEW e \in Id PROVE CountsOn(g, r, c, e)
  <2>1. UNCHANGED <<event, failed, sub>>
    BY <1>6 DEF board
  <2>2. told[c][e] \in Nat
    BY <1>1, HistoryTypes
  <2>3. Has(gateway[g], c, e) <=> e \in d.left
    BY <1>3, <1>4 DEF Has
  <2>4. Has(r, c, e) <=> e \in d.left \ S
    BY <1>3, <1>4, <1>8, <1>10 DEF Has
  <2>5. MayTell(gateway[g], c, e) <=> d.new < e \/ e \in d.left
    BY <1>2, <1>3, <1>4 DEF MayTell
  <2>6. MayTell(r, c, e) <=> d.new < e \/ e \in d.left \ S
    BY <1>3, <1>4, <1>8, <1>9, <1>10 DEF MayTell
  <2>7. IsBehind(c, e)' <=> IsBehind(c, e)
    BY <2>1 DEF IsBehind
  <2>8. CASE e \in S
    <3>1. ~(d.new < e)
      <4>1. e \in (d.old + 1)..d.new
        BY <2>8, <1>3 DEF ClaimKnown
      <4>2. d.old \in Nat /\ d.new \in Nat
        BY <1>3 DEF Delivery
      <4> QED
        BY <4>1, <4>2
    <3>2. told'[c][e] = told[c][e] + 1
      BY <2>8, <1>12
    <3> QED
      BY <1>1, <1>13, <2>1, <2>3, <2>4, <2>5, <2>6, <2>7, <2>8, <3>1, <3>2, Trade
  <2>9. CASE e \notin S
    <3>1. told'[c][e] = told[c][e]
      BY <2>9, <1>12
    <3> QED
      BY <1>1, <1>13, <2>1, <2>3, <2>4, <2>5, <2>6, <2>7, <2>9, <3>1, Trade
  <2> QED
    BY <2>8, <2>9
<1>16. StillHeld(g, r, c)
  <2>1. \A e \in Id : told[c][e] > 0 => told'[c][e] > 0
    BY <1>1, <1>12, HistoryTypes
  <2>2. \A e \in S : told'[c][e] > 0
    <3>1. S \subseteq Id
      BY <1>3 DEF Delivery
    <3> QED
      BY <1>1, <1>12, <3>1, HistoryTypes
  <2>3. \A e \in Id : Has(gateway[g], c, e) => told'[c][e] > 0 \/ Has(r, c, e)
    BY <1>3, <1>4, <1>8, <1>10, <2>2 DEF Has
  <2>4. \A x \in Claimed(r) : x.chat = c => x.new = d.new
    BY <1>3, <1>4, <1>8, <1>10
  <2> QED
    BY <1>3, <1>4, <1>6, <2>1, <2>3, <2>4 DEF StillHeld
<1>17. channel[c] # "session" /\ \A x \in gateway[g].now \union r.now : x.chat = c
  BY <1>3, <1>4, <1>8, <1>9 DEF ClaimKnown, Visitable
<1> QED
  BY <1>6, <1>7, <1>9, <1>11, <1>12, <1>13, <1>14, <1>15, <1>16, <1>17, OneChatServed DEF Becomes, board

\* An advance, a rewind or the end of a subscription: the gateway puts its claim away,
\* or keeps it for the end of the subscription.
LEMMA PutAway ==
  ASSUME NotifierInvariant, NEW g \in Gateway, NEW d \in Delivery,
         gateway[g].at \notin {"idle", "collect", "look"}, gateway[g].now = {d},
         NEW r, Becomes(g, r), r.hand = gateway[g].hand, r.visit = gateway[g].visit,
         \/ r.at = "collect" /\ r.now = {}
         \/ r.at = "unsub" /\ r.now = {d},
         NEW s \in Subscription, sub' = [sub EXCEPT ![d.chat] = s],
         s.cursor <= Len(event), s.since <= Len(event),
         fails' \in [Gateway -> [Chat -> Nat]],
         UNCHANGED <<board, session, told, failed, forgone, commands, faults>>,
         dropped' \in [Chat -> SUBSET Id],
         \A e \in Id : s.on /\ s.cursor < e =>
           MayTell(gateway[g], d.chat, e) \/ IsBehind(d.chat, e),
         Cardinality(Tellers(d.chat)) <= 1 /\ s.on =>
           /\ r.at = "unsub" => s.cursor = d.new \/ s.since >= d.new
           /\ \A e \in (s.since + 1)..s.cursor :
                event[e] \in Tells(d.chat) => told[d.chat][e] > 0 \/ e \in forgone[d.chat]
  PROVE  NotifierInvariant'
<1>1. gateway[g] \in GatewayState /\ LoopKnown(g, gateway[g]) /\ TypeOK /\ Standing /\ CursorsKnown
  BY GatewayTypes DEF NotifierInvariant, Standing
<1>2. /\ d \notin gateway[g].hand /\ ClaimKnown(g, d) /\ d.chat \in Chat
      /\ Claimed(gateway[g]) = gateway[g].hand \union {d}
      /\ \A f \in gateway[g].hand : f.chat # d.chat
  BY Serving
<1>3. PICK c \in Chat : c = d.chat
  BY <1>2
<1>4. r \in GatewayState /\ Claimed(r) \subseteq gateway[g].hand \union {d}
  BY DEF Becomes, Claimed
<1>5. LoopKnown(g, r)
  <2>1. gateway[g].visit = {}
    BY <1>1 DEF LoopKnown, LoopPosition, GatewayState
  <2>2. LoopPosition(r)
    <3>1. \A x, y \in Claimed(r) : x.chat = y.chat => x = y
      BY <1>1, <1>2, <1>4 DEF LoopKnown, LoopPosition
    <3> QED
      BY <1>2, <2>1, <3>1 DEF LoopPosition
  <2>3. \A x \in gateway[g].hand : ClaimKnown(g, x) /\ Whole(x)
    BY <1>1, <1>2 DEF LoopKnown
  <2> QED
    BY <1>2, <1>4, <2>1, <2>2, <2>3 DEF LoopKnown
<1>6. /\ sub' \in [Chat -> Subscription] /\ sub'[c] = s
      /\ \A x \in Chat : x # c => sub'[x] = sub[x]
  BY <1>1, <1>3 DEF TypeOK
<1>7. TypeOK'
  <2>1. gateway' \in [Gateway -> GatewayState]
    BY <1>1 DEF TypeOK, Becomes
  <2> QED
    BY <1>1, <1>6, <2>1 DEF TypeOK, board
<1>8. CursorsKnown'
  BY <1>1, <1>6 DEF CursorsKnown, board
<1>9. ASSUME NEW e \in Id PROVE CountsOn(g, r, c, e)
  <2>1. UNCHANGED <<event, failed, told>>
    BY DEF board
  <2>2. ~MayTell(r, c, e)
    BY <1>2, <1>3, <1>4 DEF MayTell, Claimed
  <2>3. Has(r, c, e) => Has(gateway[g], c, e)
    BY <1>2, <1>3, <1>4 DEF Has
  <2>4. IsBehind(c, e)' => MayTell(gateway[g], c, e) \/ IsBehind(c, e)
    BY <1>3, <1>6 DEF IsBehind
  <2> QED
    BY <1>1, <1>7, <2>1, <2>2, <2>3, <2>4, Trade
<1>10. Cardinality(Tellers(c)) <= 1 => Resolved(g, r, c)
  <2> SUFFICES ASSUME Cardinality(Tellers(c)) <= 1 PROVE Resolved(g, r, c)
    OBVIOUS
  <2>1. ASSUME NEW x \in Claimed(r), x.chat = c, s.on PROVE s.cursor = x.new \/ s.since >= x.new
    <3>1. x = d /\ r.at = "unsub"
      BY <2>1, <1>2, <1>3 DEF Claimed
    <3> QED
      BY <2>1, <3>1, <1>3
  <2> QED
    BY <2>1, <1>2, <1>3, <1>6 DEF Resolved, ClaimKnown, Visitable
<1>11. channel[c] # "session" /\ \A x \in gateway[g].now \union r.now : x.chat = c
  BY <1>2, <1>3 DEF ClaimKnown, Visitable
<1>12. \A x \in Chat : x # c => sub'[x] = sub[x] /\ told'[x] = told[x]
  BY <1>6
<1> QED
  BY <1>5, <1>7, <1>8, <1>9, <1>10, <1>11, <1>12, OneChatServed DEF board

\* Setting the cursor of a subscription that may be gone.
LEMMA CursorIsSet ==
  ASSUME TypeOK, NEW c \in Chat, NEW id \in Nat, SetCursor(c, id)
  PROVE  \E s \in Subscription :
           /\ sub' = [sub EXCEPT ![c] = s]
           /\ s.on = sub[c].on /\ s.since = sub[c].since
           /\ s.cursor = IF sub[c].on THEN id ELSE sub[c].cursor
<1>1. sub \in [Chat -> Subscription] /\ sub[c] \in Subscription
  BY DEF TypeOK
<1>2. CASE sub[c].on
  <2> DEFINE s == [sub[c] EXCEPT !.cursor = id]
  <2>1. s \in Subscription /\ s.on = sub[c].on /\ s.since = sub[c].since /\ s.cursor = id
    BY <1>1 DEF Subscription
  <2>2. sub' = [sub EXCEPT ![c] = s]
    BY <1>2 DEF SetCursor
  <2> HIDE DEF s
  <2> QED
    BY <1>2, <2>1, <2>2
<1>3. CASE ~sub[c].on
  <2>1. sub' = [sub EXCEPT ![c] = sub[c]]
    BY <1>1, <1>3 DEF SetCursor
  <2> QED
    BY <1>1, <1>3, <2>1
<1> QED
  BY <1>2, <1>3

\* What the cursor of a chat with one server has passed, but what is left of the claim
\* in the server's hand, was told or forgone.
LEMMA PassedIsSettled ==
  ASSUME NotifierInvariant, NEW g \in Gateway, NEW d \in Delivery,
         gateway[g].at \notin {"idle", "collect"}, gateway[g].now = {d},
         Cardinality(Tellers(d.chat)) <= 1, sub[d.chat].on,
         NEW e \in (sub[d.chat].since + 1)..sub[d.chat].cursor,
         event[e] \in Tells(d.chat), e \notin d.left
  PROVE  told[d.chat][e] > 0 \/ e \in forgone[d.chat]
<1>1. /\ ClaimKnown(g, d) /\ d.chat \in Chat
      /\ Claimed(gateway[g]) = gateway[g].hand \union {d}
      /\ \A f \in gateway[g].hand : f.chat # d.chat
  BY Serving
<1>2. Standing
  BY DEF NotifierInvariant
<1>3. d.chat \in serves[g] /\ channel[d.chat] # "session"
  BY <1>1 DEF ClaimKnown, Visitable
<1>4. told[d.chat][e] > 0 \/ e \in forgone[d.chat] \/ InHand(d.chat, e)
  BY <1>1 DEF NotifierInvariant, NothingIsLost
<1>5. e \notin session[d.chat].left
  BY <1>1, <1>2, <1>3 DEF Standing, SessionKnown
<1>6. ASSUME NEW h \in Gateway PROVE ~Has(gateway[h], d.chat, e)
  <2>1. \A x \in Claimed(gateway[h]) : x.chat = d.chat => h = g
    BY <1>1, <1>2, <1>3, OnlyHolder
  <2> QED
    BY <2>1, <1>1 DEF Has
<1> QED
  BY <1>4, <1>5, <1>6 DEF InHand

\* The only server of a chat has its claim where the cursor is, or before the newest
\* subscription.
LEMMA CursorIsHere ==
  ASSUME NotifierInvariant, NEW g \in Gateway, NEW d \in Delivery, gateway[g].now = {d},
         Cardinality(Tellers(d.chat)) <= 1, sub[d.chat].on
  PROVE  sub[d.chat].cursor = d.new \/ sub[d.chat].since >= d.new
<1>1. d \in Claimed(gateway[g])
  BY DEF Claimed
<1> QED
  BY <1>1 DEF NotifierInvariant, CursorStays

\* A claim that is told leaves nothing; the cursor it sets may be behind that of another.
LEMMA KanbanAdvanceStep ==
  ASSUME NotifierInvariant, NEW g \in Gateway, KanbanAdvance(g)
  PROVE  NotifierInvariant'
<1>1. gateway[g] \in GatewayState /\ LoopKnown(g, gateway[g]) /\ TypeOK /\ Standing /\ CursorsKnown
  BY GatewayTypes DEF NotifierInvariant, Standing
<1>2. gateway[g].at = "send"
  BY DEF KanbanAdvance, At
<1>3. PICK d \in Delivery :
        /\ gateway[g].now = {d} /\ Now(g) = d /\ d \notin gateway[g].hand
        /\ Claimed(gateway[g]) = gateway[g].hand \union {d}
        /\ ClaimKnown(g, d) /\ d.chat \in Chat
        /\ \A f \in gateway[g].hand : f.chat # d.chat
  BY <1>2, Serving
<1>4. /\ d.left = {} /\ SetCursor(d.chat, d.new)
      /\ fails' = IF channel[d.chat] = "wake" THEN [fails EXCEPT ![g][d.chat] = 0] ELSE fails
      /\ IF d.final THEN Goto(g, "unsub") ELSE Settled(g)
      /\ UNCHANGED <<board, session, told, failed, forgone, dropped, commands, faults>>
  BY <1>3 DEF KanbanAdvance, history
<1>5. d.new \in Nat /\ d.old \in Nat /\ d.new <= Len(event)
  BY <1>3 DEF Delivery, ClaimKnown
<1>6. PICK s \in Subscription :
        /\ sub' = [sub EXCEPT ![d.chat] = s]
        /\ s.on = sub[d.chat].on /\ s.since = sub[d.chat].since
        /\ s.cursor = IF sub[d.chat].on THEN d.new ELSE sub[d.chat].cursor
  BY <1>1, <1>3, <1>4, <1>5, CursorIsSet
<1>7. /\ sub[d.chat].cursor <= Len(event) /\ sub[d.chat].since <= Len(event)
      /\ sub[d.chat].cursor \in Nat /\ sub[d.chat].since \in Nat
  BY <1>1, <1>3, SubTypes DEF CursorsKnown
<1>8. fails' \in [Gateway -> [Chat -> Nat]]
  <2>1. [fails[g] EXCEPT ![d.chat] = 0] \in [Chat -> Nat]
    BY <1>1, GatewayTypes
  <2> QED
    BY <1>1, <1>4, <2>1 DEF TypeOK
<1>9. PICK r \in GatewayState :
        /\ gateway' = [gateway EXCEPT ![g] = r]
        /\ r.hand = gateway[g].hand /\ r.visit = gateway[g].visit
        /\ \/ r.at = "collect" /\ r.now = {}
           \/ r.at = "unsub" /\ r.now = {d}
  <2>1. CASE d.final
    <3> DEFINE r == [gateway[g] EXCEPT !.at = "unsub"]
    <3>1. gateway' = [gateway EXCEPT ![g] = r]
      BY <1>4, <2>1 DEF Goto
    <3>2. /\ r \in GatewayState /\ r.hand = gateway[g].hand /\ r.visit = gateway[g].visit
          /\ r.at = "unsub" /\ r.now = {d}
      BY <1>1, <1>3 DEF GatewayState
    <3> HIDE DEF r
    <3> QED
      BY <3>1, <3>2
  <2>2. CASE ~d.final
    <3> DEFINE r == [gateway[g] EXCEPT !.at = "collect", !.now = {}]
    <3>1. gateway' = [gateway EXCEPT ![g] = r]
      BY <1>4, <2>2 DEF Settled
    <3>2. /\ r \in GatewayState /\ r.hand = gateway[g].hand /\ r.visit = gateway[g].visit
          /\ r.at = "collect" /\ r.now = {}
      BY <1>1 DEF GatewayState
    <3> HIDE DEF r
    <3> QED
      BY <3>1, <3>2
  <2> QED
    BY <2>1, <2>2
<1>10. ASSUME NEW e \in Id, s.on, s.cursor < e PROVE MayTell(gateway[g], d.chat, e)
  BY <1>2, <1>3, <1>6, <1>10 DEF MayTell
<1>11. ASSUME Cardinality(Tellers(d.chat)) <= 1, s.on
       PROVE  /\ s.cursor = d.new
              /\ \A e \in (s.since + 1)..s.cursor :
                   event[e] \in Tells(d.chat) => told[d.chat][e] > 0 \/ e \in forgone[d.chat]
  <2>1. sub[d.chat].cursor = d.new \/ sub[d.chat].since >= d.new
    BY <1>3, <1>6, <1>11, CursorIsHere
  <2>2. \A e \in (s.since + 1)..s.cursor : e \in (sub[d.chat].since + 1)..sub[d.chat].cursor
    BY <2>1, <1>5, <1>6, <1>7, <1>11
  <2>3. ASSUME NEW e \in (s.since + 1)..s.cursor, event[e] \in Tells(d.chat)
        PROVE  told[d.chat][e] > 0 \/ e \in forgone[d.chat]
    BY <2>2, <2>3, <1>2, <1>3, <1>4, <1>6, <1>11, PassedIsSettled
  <2> QED
    BY <2>3, <1>6, <1>11
<1>12. s.cursor <= Len(event) /\ s.since <= Len(event)
  BY <1>5, <1>6, <1>7
<1>13. Becomes(g, r)
  BY <1>9 DEF Becomes
<1>14. dropped' \in [Chat -> SUBSET Id]
  BY <1>1, <1>4 DEF TypeOK
<1> QED
  BY <1>2, <1>3, <1>4, <1>6, <1>8, <1>9, <1>10, <1>11, <1>12, <1>13, <1>14, PutAway

\* The cursor goes back to where only what was not told, or failed, is behind it.
LEMMA KanbanRewindStep ==
  ASSUME NotifierInvariant, NEW g \in Gateway, KanbanRewind(g)
  PROVE  NotifierInvariant'
<1>1. gateway[g] \in GatewayState /\ LoopKnown(g, gateway[g]) /\ TypeOK /\ Standing /\ CursorsKnown
  BY GatewayTypes DEF NotifierInvariant, Standing
<1>2. gateway[g].at = "rewind"
  BY DEF KanbanRewind, At
<1>3. PICK d \in Delivery :
        /\ gateway[g].now = {d} /\ Now(g) = d /\ d \notin gateway[g].hand
        /\ Claimed(gateway[g]) = gateway[g].hand \union {d}
        /\ ClaimKnown(g, d) /\ d.chat \in Chat
        /\ \A f \in gateway[g].hand : f.chat # d.chat
  BY <1>2, Serving
<1>4. /\ IF sub[d.chat].cursor = d.new THEN SetCursor(d.chat, d.old) ELSE UNCHANGED sub
      /\ Settled(g)
      /\ UNCHANGED dropped \/ Drop(d.chat, d.left \ Waiting(d.chat))
      /\ UNCHANGED <<board, fails, session, told, failed, forgone, commands, faults>>
  BY <1>3 DEF KanbanRewind
<1>5. /\ d.new \in Nat /\ d.old \in Nat /\ d.old <= d.new /\ d.new <= Len(event)
      /\ d.left \subseteq (d.old + 1)..d.new
  BY <1>3 DEF Delivery, ClaimKnown
<1>6. /\ sub[d.chat].cursor <= Len(event) /\ sub[d.chat].since <= Len(event)
      /\ sub[d.chat].cursor \in Nat /\ sub[d.chat].since \in Nat /\ sub[d.chat] \in Subscription
  BY <1>1, <1>3, SubTypes DEF CursorsKnown
<1>7. PICK s \in Subscription :
        /\ sub' = [sub EXCEPT ![d.chat] = s]
        /\ s.on = sub[d.chat].on /\ s.since = sub[d.chat].since
        /\ \/ sub[d.chat].cursor = d.new /\ s.cursor = IF s.on THEN d.old ELSE d.new
           \/ sub[d.chat].cursor # d.new /\ s.cursor = sub[d.chat].cursor
  <2>1. CASE sub[d.chat].cursor = d.new
    <3>1. PICK s \in Subscription :
            /\ sub' = [sub EXCEPT ![d.chat] = s]
            /\ s.on = sub[d.chat].on /\ s.since = sub[d.chat].since
            /\ s.cursor = IF sub[d.chat].on THEN d.old ELSE sub[d.chat].cursor
      BY <2>1, <1>1, <1>3, <1>4, <1>5, CursorIsSet
    <3> QED
      BY <2>1, <3>1
  <2>2. CASE sub[d.chat].cursor # d.new
    <3>1. sub' = [sub EXCEPT ![d.chat] = sub[d.chat]]
      BY <2>2, <1>1, <1>4 DEF TypeOK
    <3> QED
      BY <2>2, <3>1, <1>6
  <2> QED
    BY <2>1, <2>2
<1> DEFINE r == [gateway[g] EXCEPT !.at = "collect", !.now = {}]
<1>8. gateway' = [gateway EXCEPT ![g] = r]
  BY <1>4 DEF Settled
<1>9. /\ r \in GatewayState /\ r.hand = gateway[g].hand /\ r.visit = gateway[g].visit
      /\ r.at = "collect" /\ r.now = {}
  BY <1>1 DEF GatewayState
<1> HIDE DEF r
<1>10. ASSUME NEW e \in Id, s.on, s.cursor < e
       PROVE  MayTell(gateway[g], d.chat, e) \/ IsBehind(d.chat, e)
  <2>1. CASE sub[d.chat].cursor = d.new
    BY <2>1, <1>2, <1>3, <1>7, <1>10 DEF MayTell
  <2>2. CASE sub[d.chat].cursor # d.new
    BY <2>2, <1>7, <1>10 DEF IsBehind
  <2> QED
    BY <2>1, <2>2
<1>11. ASSUME Cardinality(Tellers(d.chat)) <= 1, s.on,
              NEW e \in (s.since + 1)..s.cursor, event[e] \in Tells(d.chat)
       PROVE  told[d.chat][e] > 0 \/ e \in forgone[d.chat]
  <2>1. sub[d.chat].cursor = d.new \/ sub[d.chat].since >= d.new
    BY <1>3, <1>7, <1>11, CursorIsHere
  <2>2. e \in (sub[d.chat].since + 1)..sub[d.chat].cursor /\ e \notin d.left
    <3>1. CASE sub[d.chat].cursor = d.new
      BY <3>1, <1>5, <1>6, <1>7, <1>11
    <3>2. CASE sub[d.chat].cursor # d.new
      BY <3>2, <2>1, <1>5, <1>6, <1>7, <1>11
    <3> QED
      BY <3>1, <3>2
  <2> QED
    BY <2>2, <1>2, <1>3, <1>7, <1>11, PassedIsSettled
<1>12. s.cursor <= Len(event) /\ s.since <= Len(event)
  BY <1>5, <1>6, <1>7
<1>13. Becomes(g, r) /\ fails' \in [Gateway -> [Chat -> Nat]] /\ fails' = fails
  BY <1>1, <1>4, <1>8, <1>9 DEF Becomes, TypeOK
<1>14. dropped' \in [Chat -> SUBSET Id]
  <2>1. d.left \ Waiting(d.chat) \in SUBSET Id
    BY <1>3 DEF Delivery
  <2> QED
    BY <1>1, <1>3, <1>4, <2>1, Dropping DEF TypeOK
<1> QED
  BY <1>2, <1>3, <1>4, <1>7, <1>9, <1>10, <1>11, <1>12, <1>13, <1>14, PutAway

\* A dropped subscription has nothing behind its cursor.
LEMMA KanbanUnsubStep ==
  ASSUME NotifierInvariant, NEW g \in Gateway, KanbanUnsub(g)
  PROVE  NotifierInvariant'
<1>1. gateway[g] \in GatewayState /\ TypeOK
  BY GatewayTypes DEF NotifierInvariant, Standing
<1>2. gateway[g].at = "unsub"
  BY DEF KanbanUnsub, At
<1>3. PICK d \in Delivery :
        /\ gateway[g].now = {d} /\ Now(g) = d /\ d \notin gateway[g].hand
        /\ Claimed(gateway[g]) = gateway[g].hand \union {d}
        /\ ClaimKnown(g, d) /\ d.chat \in Chat
        /\ \A f \in gateway[g].hand : f.chat # d.chat
  BY <1>2, Serving
<1>4. /\ sub' = [sub EXCEPT ![d.chat] = Unsubscribed]
      /\ fails' = IF d.left = {} THEN fails ELSE [fails EXCEPT ![g][d.chat] = 0]
      /\ Settled(g) /\ Drop(d.chat, d.left \union Waiting(d.chat))
      /\ UNCHANGED <<board, session, told, failed, forgone, commands, faults>>
  BY <1>3 DEF KanbanUnsub, RemoveSub
<1>5. /\ Unsubscribed \in Subscription /\ ~Unsubscribed.on
      /\ Unsubscribed.cursor = 0 /\ Unsubscribed.since = 0
  BY DEF Unsubscribed, Subscription
<1>6. 0 <= Len(event)
  BY <1>1, EventTypes
<1>7. fails' \in [Gateway -> [Chat -> Nat]]
  <2>1. [fails[g] EXCEPT ![d.chat] = 0] \in [Chat -> Nat]
    BY <1>1, GatewayTypes
  <2> QED
    BY <1>1, <1>4, <2>1 DEF TypeOK
<1> DEFINE r == [gateway[g] EXCEPT !.at = "collect", !.now = {}]
<1>8. gateway' = [gateway EXCEPT ![g] = r]
  BY <1>4 DEF Settled
<1>9. /\ r \in GatewayState /\ r.hand = gateway[g].hand /\ r.visit = gateway[g].visit
      /\ r.at = "collect" /\ r.now = {}
  BY <1>1 DEF GatewayState
<1> HIDE DEF r
<1>10. Becomes(g, r)
  BY <1>8, <1>9 DEF Becomes
<1>11. dropped' \in [Chat -> SUBSET Id]
  <2>1. d.left \union Waiting(d.chat) \in SUBSET Id
    BY <1>3 DEF Delivery, Waiting
  <2> QED
    BY <1>1, <1>3, <1>4, <2>1, Dropping
<1> QED
  BY <1>2, <1>3, <1>4, <1>5, <1>6, <1>7, <1>9, <1>10, <1>11, PutAway

-----------------------------------------------------------------------------
(***************************************************************************)
(* The task and the owners of subscriptions                                *)
(***************************************************************************)

\* A new event is counted from nothing.
LEMMA TaskMovesStep ==
  ASSUME NotifierInvariant, TaskMoves
  PROVE  NotifierInvariant'
<1>1. Standing /\ TypeOK /\ CursorsKnown
  BY DEF NotifierInvariant, Standing
<1>2. PICK kind \in Kind : event' = Append(event, kind)
  BY DEF TaskMoves
<1>3. /\ UNCHANGED <<channel, serves, sub, gateway, fails, session, told, failed, forgone,
                     commands, faults>>
      /\ dropped' = [c \in Chat |-> IF sub[c].on THEN dropped[c]
                                    ELSE dropped[c] \union {Len(event) + 1}]
  BY DEF TaskMoves
<1>4. event \in Seq(Kind) /\ Len(event) \in Nat /\ Len(event) < MaxEvents /\ MaxEvents \in Nat
  BY <1>1, EventTypes, NotifierAssumption DEF TypeOK, TaskMoves
<1>5. /\ event' \in Seq(Kind) /\ Len(event') = Len(event) + 1
      /\ \A e \in 1..Len(event) : event'[e] = event[e]
  BY <1>2, <1>4, AppendProperties
<1>6. \A e \in Nat \ {0} : e <= Len(event) => event'[e] = event[e]
  BY <1>4, <1>5
<1>7. final' \in BOOLEAN
  BY <1>1 DEF TaskMoves, TypeOK
<1>d. dropped' \in [Chat -> SUBSET Id]
  <2>1. Len(event) + 1 \in Id /\ dropped \in [Chat -> SUBSET Id]
    BY <1>1, <1>4 DEF Id, TypeOK
  <2> QED
    BY <1>3, <2>1
<1>8. TypeOK'
  BY <1>1, <1>3, <1>4, <1>5, <1>7, <1>d DEF TypeOK
<1>9. CursorsKnown'
  BY <1>1, <1>3, <1>4, <1>5, SubTypes DEF CursorsKnown
<1>10. \A c : Tells(c)' = Tells(c) /\ Tellers(c)' = Tellers(c) /\ Servers(c)' = Servers(c)
  BY <1>3, TellsStay DEF Tellers, Servers
<1>11. ASSUME NEW h \in Gateway PROVE LoopKnown(h, gateway[h])'
  <2>1. PICK q : q = gateway[h]
    OBVIOUS
  <2>2. LoopKnown(h, q) /\ q \in GatewayState
    BY <1>1, <2>1, GatewayTypes DEF Standing
  <2>3. ASSUME NEW d \in Claimed(q)
        PROVE  /\ ClaimKnown(h, d)'
               /\ Whole(d) => Whole(d)'
    <3>1. d.old \in Nat /\ d.new \in Nat /\ ClaimKnown(h, d) /\ d.old <= d.new /\ d.new <= Len(event)
      BY <2>2, ClaimTypes DEF LoopKnown, ClaimKnown
    <3>2. \A e \in (d.old + 1)..d.new : event'[e] = event[e]
      BY <3>1, <1>4, <1>6
    <3>3. d.new <= Len(event')
      BY <3>1, <1>4, <1>5
    <3>4. ClaimKnown(h, d)'
      BY <3>1, <3>2, <3>3, <1>3, <1>10 DEF ClaimKnown, Visitable
    <3>5. Whole(d) => Whole(d)'
      BY <3>2, <1>10 DEF Whole
    <3> QED
      BY <3>4, <3>5
  <2>4. \A c \in q.visit : Visitable(h, c)'
    BY <2>2, <1>3 DEF LoopKnown, Visitable
  <2>5. LoopKnown(h, q)'
    BY <2>2, <2>3, <2>4 DEF LoopKnown
  <2> QED
    BY <2>1, <2>5, <1>3 DEF LoopKnown, LoopPosition, Claimed, ClaimKnown, Whole, Visitable
<1>12. ASSUME NEW s \in Chat PROVE SessionKnown(s)'
  <2>1. session[s].left \subseteq Id
    BY <1>1 DEF TypeOK, SessionState
  <2>2. \A e \in session[s].left : e \in Nat /\ e <= Len(event')
    BY <1>1, <1>4, <1>5, <2>1, NotifierAssumption DEF Id, Standing, SessionKnown
  <2> QED
    BY <1>1, <1>3, <2>2 DEF Standing, SessionKnown
<1>13. Standing'
  BY <1>8, <1>9, <1>11, <1>12 DEF Standing
<1>14. RepeatsCounted'
  <2> SUFFICES ASSUME NEW c \in Chat, NEW e \in Id
               PROVE  (IF channel[c] = "session" THEN ToldOnce(c, e) ELSE Counted(c, e))'
    BY DEF RepeatsCounted
  <2>1. e \in Nat \ {0} /\ (e <= Len(event) => e <= Len(event') /\ event'[e] = event[e])
    BY <1>4, <1>5, <1>6, NotifierAssumption DEF Id
  <2>2. CASE channel[c] = "session"
    <3>1. ToldOnce(c, e)
      BY <2>2 DEF NotifierInvariant, RepeatsCounted
    <3>2. ToldOnce(c, e)'
      BY <3>1, <2>1, <1>3 DEF ToldOnce
    <3> QED
      BY <2>2, <3>2, <1>3
  <2>3. CASE channel[c] # "session"
    <3>1. Counted(c, e)
      BY <2>3 DEF NotifierInvariant, RepeatsCounted
    <3>2. Chances(c, e)' = Chances(c, e) /\ Behind(c, e)' = Behind(c, e)
      BY <1>3 DEF Chances, Behind
    <3>3. Counted(c, e)'
      BY <3>1, <3>2, <2>1, <1>3, <1>10 DEF Counted, Has, Claimed
    <3> QED
      BY <2>3, <3>3, <1>3
  <2> QED
    BY <2>2, <2>3
<1>15. CursorStays'
  BY <1>3, <1>10 DEF NotifierInvariant, CursorStays, Claimed
<1>16. NothingIsLost'
  <2> SUFFICES ASSUME NEW c \in Chat, sub[c].on, Cardinality(Tellers(c)) <= 1,
                      NEW e \in (sub[c].since + 1)..sub[c].cursor, event'[e] \in Tells(c)
               PROVE  told[c][e] > 0 \/ e \in forgone[c] \/ InHand(c, e)
    BY <1>3, <1>10 DEF NothingIsLost, InHand, Has, Claimed
  <2>1. event'[e] = event[e]
    BY <1>1, <1>6, PassedTypes
  <2> QED
    BY <2>1 DEF NotifierInvariant, NothingIsLost
<1> QED
  BY <1>13, <1>14, <1>15, <1>16 DEF NotifierInvariant

\* What is known of a loop depends on no subscription and no session.
LEMMA LoopsUntouched ==
  ASSUME Standing, UNCHANGED <<channel, serves, event, gateway>>
  PROVE  \A h \in Gateway : LoopKnown(h, gateway[h])'
<1> SUFFICES ASSUME NEW h \in Gateway PROVE LoopKnown(h, gateway[h])'
  OBVIOUS
<1>1. PICK q : q = gateway'[h]
  OBVIOUS
<1>2. LoopKnown(h, q)
  BY <1>1 DEF Standing
<1>3. UNCHANGED <<channel, serves, event>>
  OBVIOUS
<1>4. LoopKnown(h, q)'
  BY <1>2, <1>3, TellsStay DEF LoopKnown, Visitable, ClaimKnown, Whole
<1> QED
  BY <1>1, <1>4 DEF LoopKnown, LoopPosition, Visitable, ClaimKnown, Whole, Claimed

\* A subscription begins behind the newest event, or ends.
LEMMA OwnersStep ==
  ASSUME NotifierInvariant, NEW c \in Chat, NEW s \in Subscription,
         sub' = [sub EXCEPT ![c] = s],
         s.cursor <= Len(event), s.since <= Len(event),
         s.on => s.cursor = Len(event) /\ s.since = Len(event),
         UNCHANGED <<board, gateway, fails, session, told, failed, forgone, faults>>,
         dropped' \in [Chat -> SUBSET Id], commands' \in Nat
  PROVE  NotifierInvariant'
<1>1. Standing /\ TypeOK /\ CursorsKnown
  BY DEF NotifierInvariant, Standing
<1>2. /\ sub' \in [Chat -> Subscription] /\ sub'[c] = s
      /\ \A x \in Chat : x # c => sub'[x] = sub[x]
  BY <1>1 DEF TypeOK
<1>3. Len(event) \in Nat /\ s.cursor \in Nat /\ s.since \in Nat
  BY <1>1, EventTypes DEF Subscription
<1>4. UNCHANGED <<channel, serves, event, gateway, session, told, failed, forgone>>
  BY DEF board
<1>5. TypeOK'
  BY <1>1, <1>2 DEF TypeOK, board
<1>6. CursorsKnown'
  BY <1>1, <1>2, <1>4 DEF CursorsKnown
<1>7. \A x : Tells(x)' = Tells(x) /\ Tellers(x)' = Tellers(x) /\ Servers(x)' = Servers(x)
  BY <1>4, TellsStay DEF Tellers, Servers
<1>8. \A h \in Gateway : LoopKnown(h, gateway[h])'
  BY <1>1, <1>4, LoopsUntouched
<1>9. ASSUME NEW x \in Chat PROVE SessionKnown(x)'
  <2>1. SessionKnown(x)
    BY <1>1 DEF Standing
  <2>2. CASE x = c
    BY <2>1, <2>2, <1>2, <1>4 DEF SessionKnown
  <2>3. CASE x # c
    BY <2>1, <2>3, <1>2, <1>4 DEF SessionKnown
  <2> QED
    BY <2>2, <2>3
<1>10. Standing'
  BY <1>5, <1>6, <1>8, <1>9 DEF Standing
<1>11. RepeatsCounted'
  <2> SUFFICES ASSUME NEW x \in Chat, NEW e \in Id
               PROVE  (IF channel[x] = "session" THEN ToldOnce(x, e) ELSE Counted(x, e))'
    BY DEF RepeatsCounted
  <2>1. e \in Nat
    BY NotifierAssumption DEF Id
  <2>2. CASE channel[x] = "session"
    <3>1. ToldOnce(x, e)
      BY <2>2 DEF NotifierInvariant, RepeatsCounted
    <3>2. ToldOnce(x, e)'
      BY <3>1, <1>2, <1>4 DEF ToldOnce
    <3> QED
      BY <2>2, <3>2, <1>4
  <2>3. CASE channel[x] # "session"
    <3>1. Counted(x, e)
      BY <2>3 DEF NotifierInvariant, RepeatsCounted
    <3>2. Chances(x, e)' = Chances(x, e)
      BY <1>4 DEF Chances
    <3>3. e <= Len(event) => Behind(x, e)' <= Behind(x, e)
      <4>1. CASE x = c
        BY <4>1, <2>1, <1>2, <1>3 DEF Behind
      <4>2. CASE x # c
        BY <4>2, <1>2 DEF Behind
      <4> QED
        BY <4>1, <4>2
    <3>4. ASSUME e <= Len(event),
                 told[x][e] + Cardinality(Chances(x, e)) + Behind(x, e) <= Cardinality(Servers(x)) + failed[x]
          PROVE  told[x][e] + Cardinality(Chances(x, e)) + Behind(x, e)' <= Cardinality(Servers(x)) + failed[x]
      <4>1. PICK k \in Nat, n \in Nat : k = Cardinality(Chances(x, e)) /\ n = Cardinality(Servers(x))
        BY <1>1, ChancesServe, TellersCounted
      <4>2. PICK b \in Nat : b = Behind(x, e)
        BY DEF Behind
      <4>3. PICK p \in Nat : p = Behind(x, e)'
        BY DEF Behind
      <4>4. told[x][e] \in Nat /\ failed[x] \in Nat
        BY <1>1, HistoryTypes
      <4>5. p <= b /\ told[x][e] + k + b <= n + failed[x]
        BY <3>3, <3>4, <4>1, <4>2, <4>3
      <4>6. told[x][e] + k + p <= n + failed[x]
        BY <4>1, <4>2, <4>3, <4>4, <4>5
      <4> QED
        BY <4>1, <4>3, <4>6
    <3>5. Counted(x, e)'
      BY <3>1, <3>2, <3>4, <1>4, <1>7 DEF Counted, Has, Claimed
    <3> QED
      BY <2>3, <3>5, <1>4
  <2> QED
    BY <2>2, <2>3
<1>12. CursorStays'
  <2> SUFFICES ASSUME NEW h \in Gateway, NEW d \in Claimed(gateway[h]), sub'[d.chat].on,
                      Cardinality(Tellers(d.chat)) <= 1
               PROVE  sub'[d.chat].cursor = d.new \/ sub'[d.chat].since >= d.new
    BY <1>4, <1>7 DEF CursorStays, Claimed
  <2>1. d.new <= Len(event) /\ d.chat \in Chat
    BY <1>1, GatewayTypes, ClaimTypes DEF Standing, LoopKnown, ClaimKnown
  <2>2. CASE d.chat = c
    BY <2>1, <2>2, <1>2, <1>3
  <2>3. CASE d.chat # c
    BY <2>1, <2>3, <1>2 DEF NotifierInvariant, CursorStays
  <2> QED
    BY <2>2, <2>3
<1>13. NothingIsLost'
  <2> SUFFICES ASSUME NEW x \in Chat, sub'[x].on, Cardinality(Tellers(x)) <= 1,
                      NEW e \in (sub'[x].since + 1)..sub'[x].cursor, event[e] \in Tells(x)
               PROVE  told[x][e] > 0 \/ e \in forgone[x] \/ InHand(x, e)
    BY <1>4, <1>7 DEF NothingIsLost, InHand, Has, Claimed
  <2>1. CASE x = c
    BY <2>1, <1>2, <1>3
  <2>2. CASE x # c
    BY <2>2, <1>2 DEF NotifierInvariant, NothingIsLost
  <2> QED
    BY <2>1, <2>2
<1> QED
  BY <1>10, <1>11, <1>12, <1>13 DEF NotifierInvariant

\* A new subscription starts with the newest event.
LEMMA SubscribeStep ==
  ASSUME NotifierInvariant, NEW c \in Chat, Subscribe(c)
  PROVE  NotifierInvariant'
<1>1. TypeOK /\ Len(event) \in Nat
  BY EventTypes DEF NotifierInvariant, Standing
<1> DEFINE s == [on |-> TRUE, cursor |-> Len(event), since |-> Len(event)]
<1>2. s \in Subscription /\ s.cursor = Len(event) /\ s.since = Len(event)
  BY <1>1 DEF Subscription
<1>3. sub' = [sub EXCEPT ![c] = s]
  BY DEF Subscribe
<1> HIDE DEF s
<1>4. /\ commands' \in Nat /\ dropped' \in [Chat -> SUBSET Id]
      /\ UNCHANGED <<board, gateway, fails, session, told, failed, forgone, faults>>
  BY <1>1 DEF Subscribe, Command, TypeOK, history
<1>5. s.cursor <= Len(event) /\ s.since <= Len(event)
  BY <1>1, <1>2
<1> QED
  BY <1>2, <1>3, <1>4, <1>5, OwnersStep

\* No subscription, no cursor.
LEMMA UnsubscribeStep ==
  ASSUME NotifierInvariant, NEW c \in Chat, Unsubscribe(c)
  PROVE  NotifierInvariant'
<1>1. TypeOK /\ Len(event) \in Nat
  BY EventTypes DEF NotifierInvariant, Standing
<1>2. /\ Unsubscribed \in Subscription /\ ~Unsubscribed.on
      /\ Unsubscribed.cursor = 0 /\ Unsubscribed.since = 0
  BY DEF Unsubscribed, Subscription
<1>3. /\ sub' = [sub EXCEPT ![c] = Unsubscribed]
      /\ commands' \in Nat /\ Drop(c, Waiting(c))
      /\ UNCHANGED <<board, gateway, fails, session, told, failed, forgone, faults>>
  BY <1>1 DEF Unsubscribe, Command, TypeOK
<1>4. Unsubscribed.cursor <= Len(event) /\ Unsubscribed.since <= Len(event)
  BY <1>1, <1>2
<1>5. dropped' \in [Chat -> SUBSET Id]
  <2>1. Waiting(c) \in SUBSET Id
    BY DEF Waiting
  <2> QED
    BY <1>1, <1>3, <2>1, Dropping
<1> QED
  BY <1>2, <1>3, <1>4, <1>5, OwnersStep

-----------------------------------------------------------------------------
(***************************************************************************)
(* Terminal sessions                                                       *)
(***************************************************************************)

\* The parts of the invariant, of a step that one terminal session takes.
LEMMA SessionMoves ==
  ASSUME NotifierInvariant, NEW s \in Chat, channel[s] = "session",
         UNCHANGED <<channel, serves, event, gateway, failed>>,
         \A x \in Chat : x # s =>
           /\ sub'[x] = sub[x] /\ told'[x] = told[x]
           /\ session'[x] = session[x] /\ forgone'[x] = forgone[x],
         TypeOK', CursorsKnown', SessionKnown(s)',
         \A e \in Id : ToldOnce(s, e)',
         sub'[s].on => \A e \in (sub'[s].since + 1)..sub'[s].cursor : event[e] \in Tells(s) =>
           told'[s][e] > 0 \/ e \in forgone'[s] \/ e \in session'[s].left
  PROVE  NotifierInvariant'
<1>1. Standing /\ TypeOK /\ CursorsKnown
  BY DEF NotifierInvariant, Standing
<1>2. \A x : Tells(x)' = Tells(x) /\ Tellers(x)' = Tellers(x) /\ Servers(x)' = Servers(x)
  BY TellsStay DEF Tellers, Servers
<1>3. \A h \in Gateway : LoopKnown(h, gateway[h])'
  BY <1>1, LoopsUntouched
<1>4. ASSUME NEW x \in Chat, x # s PROVE SessionKnown(x)'
  <2>1. SessionKnown(x)
    BY <1>1 DEF Standing
  <2> QED
    BY <1>4, <2>1 DEF SessionKnown
<1>5. Standing'
  BY <1>3, <1>4 DEF Standing
<1>6. RepeatsCounted'
  <2> SUFFICES ASSUME NEW x \in Chat, NEW e \in Id
               PROVE  (IF channel[x] = "session" THEN ToldOnce(x, e) ELSE Counted(x, e))'
    BY DEF RepeatsCounted
  <2>1. CASE x = s
    BY <2>1
  <2>2. CASE x # s /\ channel[x] = "session"
    <3>1. ToldOnce(x, e)
      BY <2>2 DEF NotifierInvariant, RepeatsCounted
    <3>2. ToldOnce(x, e)'
      BY <3>1, <2>2 DEF ToldOnce
    <3> QED
      BY <2>2, <3>2
  <2>3. CASE x # s /\ channel[x] # "session"
    <3>1. Counted(x, e)
      BY <2>3 DEF NotifierInvariant, RepeatsCounted
    <3>2. Chances(x, e)' = Chances(x, e)
      BY DEF Chances
    <3>3. Behind(x, e)' = Behind(x, e)
      BY <2>3 DEF Behind
    <3>4. Counted(x, e)'
      BY <3>1, <3>2, <3>3, <2>3, <1>2 DEF Counted, Has, Claimed
    <3> QED
      BY <2>3, <3>4
  <2> QED
    BY <2>1, <2>2, <2>3
<1>7. CursorStays'
  <2> SUFFICES ASSUME NEW h \in Gateway, NEW d \in Claimed(gateway[h]), sub'[d.chat].on,
                      Cardinality(Tellers(d.chat)) <= 1
               PROVE  sub'[d.chat].cursor = d.new \/ sub'[d.chat].since >= d.new
    BY <1>2 DEF CursorStays, Claimed
  <2>1. d.chat \in Chat /\ d.chat # s
    BY <1>1, GatewayTypes, ClaimTypes DEF Standing, LoopKnown, ClaimKnown, Visitable
  <2> QED
    BY <2>1 DEF NotifierInvariant, CursorStays
<1>8. NothingIsLost'
  <2> SUFFICES ASSUME NEW x \in Chat, sub'[x].on, Cardinality(Tellers(x)) <= 1,
                      NEW e \in (sub'[x].since + 1)..sub'[x].cursor, event[e] \in Tells(x)
               PROVE  told'[x][e] > 0 \/ e \in forgone'[x] \/ InHand(x, e)'
    BY <1>2 DEF NothingIsLost
  <2>1. CASE x = s
    BY <2>1 DEF InHand
  <2>2. CASE x # s
    <3>1. told[x][e] > 0 \/ e \in forgone[x] \/ InHand(x, e)
      BY <2>2 DEF NotifierInvariant, NothingIsLost
    <3>2. InHand(x, e) => InHand(x, e)'
      BY <2>2 DEF InHand, Has, Claimed
    <3> QED
      BY <2>2, <3>1, <3>2
  <2> QED
    BY <2>1, <2>2
<1> QED
  BY <1>5, <1>6, <1>7, <1>8 DEF NotifierInvariant

\* A session has one teller and nobody else's claims.
LEMMA SessionFacts ==
  ASSUME NotifierInvariant, NEW s \in Chat, channel[s] = "session"
  PROVE  /\ TypeOK /\ CursorsKnown /\ SessionKnown(s)
         /\ \A e \in Id : ToldOnce(s, e)
         /\ sub[s].on => \A e \in (sub[s].since + 1)..sub[s].cursor : event[e] \in Tells(s) =>
              told[s][e] > 0 \/ e \in forgone[s] \/ e \in session[s].left
         /\ session[s] \in SessionState /\ session[s].left \subseteq Id
         /\ sub[s] \in Subscription /\ sub[s].cursor \in Nat /\ sub[s].since \in Nat
<1>1. Standing /\ TypeOK /\ CursorsKnown /\ SessionKnown(s)
  BY DEF NotifierInvariant, Standing
<1>2. \A e \in Id : ToldOnce(s, e)
  BY DEF NotifierInvariant, RepeatsCounted
<1>3. \A e : \A h \in Gateway : ~Has(gateway[h], s, e)
  BY <1>1 DEF Standing, LoopKnown, ClaimKnown, Visitable, Has
<1>4. Cardinality(Tellers(s)) <= 1
  BY TellersCounted
<1>5. sub[s].on => \A e \in (sub[s].since + 1)..sub[s].cursor : event[e] \in Tells(s) =>
        told[s][e] > 0 \/ e \in forgone[s] \/ e \in session[s].left
  BY <1>3, <1>4 DEF NotifierInvariant, NothingIsLost, InHand
<1>6. session[s] \in SessionState /\ session[s].left \subseteq Id
  BY <1>1 DEF TypeOK, SessionState
<1> QED
  BY <1>1, <1>2, <1>5, <1>6, SubTypes

\* A session claims what is behind no cursor of it, so what it never told.
LEMMA PollClaimStep ==
  ASSUME NotifierInvariant, NEW s \in Chat, PollClaim(s)
  PROVE  NotifierInvariant'
<1>1. channel[s] = "session" /\ session[s].at = "idle" /\ sub[s].on
  BY DEF PollClaim
<1>2. /\ TypeOK /\ CursorsKnown /\ SessionKnown(s)
      /\ \A e \in Id : ToldOnce(s, e)
      /\ \A e \in (sub[s].since + 1)..sub[s].cursor : event[e] \in Tells(s) =>
           told[s][e] > 0 \/ e \in forgone[s] \/ e \in session[s].left
      /\ session[s] \in SessionState
      /\ sub[s] \in Subscription /\ sub[s].cursor \in Nat /\ sub[s].since \in Nat
  BY <1>1, SessionFacts
<1>3. PICK last \in Id : IsLast(last, Unseen(s)) /\ SetCursor(s, last)
  BY DEF PollClaim
<1>4. /\ session' = [session EXCEPT ![s] = [at |-> "look", left |-> News(s)]]
      /\ UNCHANGED <<board, gateway, fails, history, commands, faults>>
  BY DEF PollClaim
<1>5. Len(event) \in Nat /\ last \in Nat
  BY <1>2, EventTypes, NotifierAssumption DEF Id
<1>6. sub[s].cursor < last /\ last <= Len(event)
  BY <1>2, <1>3, <1>5 DEF IsLast, Unseen
<1>7. Tells(s) \subseteq Claims(s)
  BY <1>1 DEF Tells, Claims, WakeKinds, SilentKinds, TerminalKinds, Kind
<1>8. /\ \A e \in News(s) : e \in (sub[s].cursor + 1)..last /\ e \in Id
      /\ \A e \in (sub[s].cursor + 1)..last : event[e] \in Tells(s) => e \in News(s)
  <2>1. \A e \in News(s) : e \in (sub[s].cursor + 1)..Len(event) /\ e <= last
    BY <1>3 DEF News, Unseen, IsLast
  <2>2. \A e \in (sub[s].cursor + 1)..last : e \in (sub[s].cursor + 1)..Len(event) /\ e \in Nat \ {0} /\ e <= Len(event)
    BY <1>2, <1>5, <1>6
  <2>3. \A e \in News(s) : e \in (sub[s].cursor + 1)..last
    BY <2>1, <1>2, <1>5, <1>6
  <2> QED
    BY <2>2, <2>3, <1>2, <1>7, EventTypes DEF News, Unseen
<1>9. PICK x \in Subscription :
        /\ sub' = [sub EXCEPT ![s] = x]
        /\ x.on = sub[s].on /\ x.since = sub[s].since
        /\ x.cursor = IF sub[s].on THEN last ELSE sub[s].cursor
  BY <1>2, <1>3, <1>5, CursorIsSet
<1>10. /\ sub' \in [Chat -> Subscription] /\ sub'[s].on /\ sub'[s].cursor = last
       /\ sub'[s].since = sub[s].since
       /\ \A c \in Chat : c # s => sub'[c] = sub[c]
  BY <1>1, <1>2, <1>9 DEF TypeOK
<1>11. /\ session' \in [Chat -> SessionState]
       /\ session'[s].at = "look" /\ session'[s].left = News(s)
       /\ \A c \in Chat : c # s => session'[c] = session[c]
  <2>1. [at |-> "look", left |-> News(s)] \in SessionState
    BY <1>8 DEF SessionState
  <2> QED
    BY <1>2, <1>4, <2>1 DEF TypeOK
<1>12. TypeOK'
  BY <1>2, <1>4, <1>10, <1>11 DEF TypeOK, board, history
<1>13. CursorsKnown'
  BY <1>2, <1>4, <1>6, <1>10 DEF CursorsKnown, board
<1>14. SessionKnown(s)'
  <2>1. \A e \in News(s) : e <= last /\ e <= Len(event)
    BY <1>2, <1>5, <1>6, <1>8
  <2> QED
    BY <2>1, <1>1, <1>4, <1>10, <1>11 DEF SessionKnown, board
<1>15. ASSUME NEW e \in Id PROVE ToldOnce(s, e)'
  <2>1. ToldOnce(s, e) /\ e \in Nat
    BY <1>2, NotifierAssumption DEF Id
  <2>2. e <= sub[s].cursor => e \notin News(s) /\ e <= last
    BY <2>1, <1>2, <1>5, <1>6, <1>8
  <2> QED
    BY <2>1, <2>2, <1>1, <1>4, <1>10, <1>11 DEF ToldOnce, board, history
<1>16. ASSUME NEW e \in (sub'[s].since + 1)..sub'[s].cursor, event[e] \in Tells(s)
       PROVE  told'[s][e] > 0 \/ e \in forgone'[s] \/ e \in session'[s].left
  <2>1. CASE e <= sub[s].cursor
    <3>1. e \in (sub[s].since + 1)..sub[s].cursor
      BY <2>1, <1>2, <1>5, <1>10, <1>16
    <3>2. session[s].left = {}
      BY <1>1, <1>2 DEF SessionKnown
    <3> QED
      BY <3>1, <3>2, <1>2, <1>4, <1>16 DEF history
  <2>2. CASE e > sub[s].cursor
    <3>1. e \in (sub[s].cursor + 1)..last
      BY <2>2, <1>2, <1>5, <1>10, <1>16
    <3> QED
      BY <3>1, <1>8, <1>11, <1>16
  <2> QED
    BY <2>1, <2>2, <1>2, <1>5, <1>10, <1>16
<1>17. /\ UNCHANGED <<channel, serves, event, gateway, failed>>
       /\ \A c \in Chat : c # s => told'[c] = told[c] /\ forgone'[c] = forgone[c]
  BY <1>4 DEF board, history
<1> QED
  BY <1>1, <1>10, <1>11, <1>12, <1>13, <1>14, <1>15, <1>16, <1>17, SessionMoves

\* The claim stays with the session.
LEMMA PollLookStep ==
  ASSUME NotifierInvariant, NEW s \in Chat, PollLook(s)
  PROVE  NotifierInvariant'
<1>1. session[s].at = "look"
  BY DEF PollLook
<1>2. channel[s] = "session"
  BY <1>1 DEF NotifierInvariant, Standing, SessionKnown
<1>3. /\ TypeOK /\ CursorsKnown /\ SessionKnown(s)
      /\ \A e \in Id : ToldOnce(s, e)
      /\ sub[s].on => \A e \in (sub[s].since + 1)..sub[s].cursor : event[e] \in Tells(s) =>
           told[s][e] > 0 \/ e \in forgone[s] \/ e \in session[s].left
      /\ session[s] \in SessionState
  BY <1>2, SessionFacts
<1>4. PICK label \in {"unsub", "emit"} : session' = [session EXCEPT ![s].at = label]
  BY DEF PollLook
<1>5. UNCHANGED <<board, sub, gateway, fails, history, commands, faults>>
  BY DEF PollLook
<1>6. /\ session' \in [Chat -> SessionState]
      /\ session'[s].at = label /\ session'[s].left = session[s].left
      /\ \A c \in Chat : c # s => session'[c] = session[c]
  <2>1. session' = [session EXCEPT ![s] = [session[s] EXCEPT !.at = label]]
    BY <1>4
  <2>2. [session[s] EXCEPT !.at = label] \in SessionState
    BY <1>3 DEF SessionState
  <2> QED
    BY <1>3, <2>1, <2>2 DEF TypeOK, SessionState
<1>7. TypeOK'
  BY <1>3, <1>5, <1>6 DEF TypeOK, board, history
<1>8. CursorsKnown'
  BY <1>3, <1>5 DEF CursorsKnown, board
<1>9. SessionKnown(s)'
  BY <1>2, <1>3, <1>5, <1>6 DEF SessionKnown, board
<1>10. \A e \in Id : ToldOnce(s, e)'
  BY <1>3, <1>5, <1>6 DEF ToldOnce, board, history
<1>11. sub'[s].on => \A e \in (sub'[s].since + 1)..sub'[s].cursor : event[e] \in Tells(s) =>
         told'[s][e] > 0 \/ e \in forgone'[s] \/ e \in session'[s].left
  BY <1>3, <1>5, <1>6 DEF history
<1>12. /\ UNCHANGED <<channel, serves, event, gateway, failed>>
       /\ \A c \in Chat : c # s =>
            sub'[c] = sub[c] /\ told'[c] = told[c] /\ forgone'[c] = forgone[c]
  BY <1>5 DEF board, history
<1> QED
  BY <1>2, <1>6, <1>7, <1>8, <1>9, <1>10, <1>11, <1>12, SessionMoves

\* So it does when the subscription ends, or fails to.
LEMMA PollUnsubStep ==
  ASSUME NotifierInvariant, NEW s \in Chat, PollUnsub(s)
  PROVE  NotifierInvariant'
<1>1. session[s].at = "unsub"
  BY DEF PollUnsub
<1>2. channel[s] = "session"
  BY <1>1 DEF NotifierInvariant, Standing, SessionKnown
<1>3. /\ TypeOK /\ CursorsKnown /\ SessionKnown(s)
      /\ \A e \in Id : ToldOnce(s, e)
      /\ sub[s].on => \A e \in (sub[s].since + 1)..sub[s].cursor : event[e] \in Tells(s) =>
           told[s][e] > 0 \/ e \in forgone[s] \/ e \in session[s].left
      /\ session[s] \in SessionState /\ sub[s] \in Subscription
  BY <1>2, SessionFacts
<1>4. /\ session' = [session EXCEPT ![s].at = "emit"]
      /\ UNCHANGED <<board, gateway, fails, told, failed, forgone, commands>>
  BY DEF PollUnsub
<1>5. Unsubscribed \in Subscription /\ ~Unsubscribed.on /\ Unsubscribed.cursor = 0 /\ Unsubscribed.since = 0
  BY DEF Unsubscribed, Subscription
<1>6. PICK x \in {sub[s], Unsubscribed} : sub' = [sub EXCEPT ![s] = x]
  <2>1. sub = [sub EXCEPT ![s] = sub[s]]
    BY <1>3 DEF TypeOK
  <2> QED
    BY <2>1 DEF PollUnsub, RemoveSub
<1>7. /\ sub' \in [Chat -> Subscription] /\ sub'[s] = x
      /\ \A c \in Chat : c # s => sub'[c] = sub[c]
  BY <1>3, <1>5, <1>6 DEF TypeOK
<1>8. faults' \in Nat
  BY <1>3 DEF PollUnsub, Fault, TypeOK
<1>9. /\ session' \in [Chat -> SessionState]
      /\ session'[s].at = "emit" /\ session'[s].left = session[s].left
      /\ \A c \in Chat : c # s => session'[c] = session[c]
  <2>1. session' = [session EXCEPT ![s] = [session[s] EXCEPT !.at = "emit"]]
    BY <1>4
  <2>2. [session[s] EXCEPT !.at = "emit"] \in SessionState
    BY <1>3 DEF SessionState
  <2> QED
    BY <1>3, <2>1, <2>2 DEF TypeOK, SessionState
<1>d. dropped' \in [Chat -> SUBSET Id]
  <2>1. Waiting(s) \in SUBSET Id
    BY DEF Waiting
  <2> QED
    BY <1>3, <2>1, Dropping DEF PollUnsub, TypeOK
<1>10. TypeOK'
  BY <1>3, <1>4, <1>7, <1>8, <1>9, <1>d DEF TypeOK, board
<1>11. CursorsKnown'
  <2>1. 0 <= Len(event)
    BY <1>3, EventTypes
  <2> QED
    BY <2>1, <1>3, <1>4, <1>5, <1>7 DEF CursorsKnown, board
<1>12. SessionKnown(s)'
  BY <1>2, <1>3, <1>4, <1>5, <1>7, <1>9 DEF SessionKnown, board
<1>13. \A e \in Id : ToldOnce(s, e)'
  BY <1>3, <1>4, <1>5, <1>7, <1>9 DEF ToldOnce, board
<1>14. sub'[s].on => \A e \in (sub'[s].since + 1)..sub'[s].cursor : event[e] \in Tells(s) =>
         told'[s][e] > 0 \/ e \in forgone'[s] \/ e \in session'[s].left
  BY <1>3, <1>4, <1>5, <1>7, <1>9
<1>15. /\ UNCHANGED <<channel, serves, event, gateway, failed>>
       /\ \A c \in Chat : c # s => told'[c] = told[c] /\ forgone'[c] = forgone[c]
  BY <1>4 DEF board
<1> QED
  BY <1>2, <1>7, <1>9, <1>10, <1>11, <1>12, <1>13, <1>14, <1>15, SessionMoves

\* The session tells each event of its claim for the first time.
LEMMA PollEmitStep ==
  ASSUME NotifierInvariant, NEW s \in Chat, PollEmit(s)
  PROVE  NotifierInvariant'
<1>1. session[s].at = "emit"
  BY DEF PollEmit
<1>2. channel[s] = "session"
  BY <1>1 DEF NotifierInvariant, Standing, SessionKnown
<1>3. /\ TypeOK /\ CursorsKnown /\ SessionKnown(s)
      /\ \A e \in Id : ToldOnce(s, e)
      /\ sub[s].on => \A e \in (sub[s].since + 1)..sub[s].cursor : event[e] \in Tells(s) =>
           told[s][e] > 0 \/ e \in forgone[s] \/ e \in session[s].left
      /\ session[s].left \subseteq Id
  BY <1>2, SessionFacts
<1>4. /\ Tell(s, session[s].left) /\ session' = [session EXCEPT ![s] = Quiet]
      /\ UNCHANGED <<board, sub, gateway, fails, failed, forgone, dropped, commands, faults>>
  BY DEF PollEmit
<1>5. PICK S \in SUBSET Id : S = session[s].left
  BY <1>3
<1>6. /\ \A c \in Chat : c # s => told'[c] = told[c]
      /\ \A e \in Id : told'[s][e] = IF e \in S THEN told[s][e] + 1 ELSE told[s][e]
      /\ told' \in [Chat -> [Id -> Nat]]
  <2>1. told \in [Chat -> [Id -> Nat]]
    BY <1>3 DEF TypeOK
  <2>2. told' = [told EXCEPT ![s] = [e \in Id |-> IF e \in S THEN told[s][e] + 1 ELSE told[s][e]]]
    BY <1>4, <1>5 DEF Tell
  <2>3. [e \in Id |-> IF e \in S THEN told[s][e] + 1 ELSE told[s][e]] \in [Id -> Nat]
    <3>1. \A e \in Id : (IF e \in S THEN told[s][e] + 1 ELSE told[s][e]) \in Nat
      BY <1>3, HistoryTypes
    <3> QED
      BY <3>1
  <2> QED
    BY <2>1, <2>2, <2>3
<1>7. /\ session' \in [Chat -> SessionState]
      /\ session'[s].at = "idle" /\ session'[s].left = {}
      /\ \A c \in Chat : c # s => session'[c] = session[c]
  <2>1. Quiet \in SessionState /\ Quiet.at = "idle" /\ Quiet.left = {}
    BY DEF Quiet, SessionState
  <2> QED
    BY <1>3, <1>4, <2>1 DEF TypeOK
<1>8. TypeOK'
  BY <1>3, <1>4, <1>6, <1>7 DEF TypeOK, board
<1>9. CursorsKnown'
  BY <1>3, <1>4 DEF CursorsKnown, board
<1>10. SessionKnown(s)'
  BY <1>2, <1>7 DEF SessionKnown
<1>11. ASSUME NEW e \in Id PROVE ToldOnce(s, e)'
  <2>1. ToldOnce(s, e) /\ told[s][e] \in Nat
    BY <1>3, HistoryTypes
  <2>2. CASE e \in S
    <3>1. told'[s][e] = 1
      BY <2>1, <2>2, <1>5, <1>6 DEF ToldOnce
    <3>2. e <= Len(event) /\ (sub[s].on => e <= sub[s].cursor)
      BY <2>2, <1>3, <1>5 DEF SessionKnown
    <3> QED
      BY <3>1, <3>2, <1>4, <1>7 DEF ToldOnce, board
  <2>3. CASE e \notin S
    BY <2>1, <2>3, <1>4, <1>6, <1>7 DEF ToldOnce, board
  <2> QED
    BY <2>2, <2>3
<1>12. ASSUME sub'[s].on, NEW e \in (sub'[s].since + 1)..sub'[s].cursor, event[e] \in Tells(s)
       PROVE  told'[s][e] > 0 \/ e \in forgone'[s] \/ e \in session'[s].left
  <2>1. e \in Id
    BY <1>4, <1>12, PassedTypes DEF NotifierInvariant
  <2>2. told[s][e] > 0 \/ e \in forgone[s] \/ e \in S
    BY <1>3, <1>4, <1>5, <1>12
  <2>3. told[s][e] \in Nat
    BY <1>3, <2>1, HistoryTypes
  <2> QED
    BY <2>1, <2>2, <2>3, <1>4, <1>6
<1>13. /\ UNCHANGED <<channel, serves, event, gateway, failed>>
       /\ \A c \in Chat : c # s => sub'[c] = sub[c] /\ forgone'[c] = forgone[c]
  BY <1>4 DEF board
<1> QED
  BY <1>2, <1>6, <1>7, <1>8, <1>9, <1>10, <1>11, <1>12, <1>13, SessionMoves

\* What the session had is forgone.
LEMMA PollStopsStep ==
  ASSUME NotifierInvariant, NEW s \in Chat, PollStops(s)
  PROVE  NotifierInvariant'
<1>1. session[s].at # "idle"
  BY DEF PollStops
<1>2. channel[s] = "session"
  BY <1>1 DEF NotifierInvariant, Standing, SessionKnown
<1>3. /\ TypeOK /\ CursorsKnown /\ SessionKnown(s)
      /\ \A e \in Id : ToldOnce(s, e)
      /\ sub[s].on => \A e \in (sub[s].since + 1)..sub[s].cursor : event[e] \in Tells(s) =>
           told[s][e] > 0 \/ e \in forgone[s] \/ e \in session[s].left
      /\ session[s].left \subseteq Id
  BY <1>2, SessionFacts
<1>4. /\ forgone' = [forgone EXCEPT ![s] = forgone[s] \union session[s].left]
      /\ session' = [session EXCEPT ![s] = Quiet]
      /\ UNCHANGED <<board, sub, gateway, fails, told, failed, dropped, commands>>
      /\ faults' \in Nat
  BY <1>3 DEF PollStops, Fault, TypeOK
<1>5. /\ forgone' \in [Chat -> SUBSET Id] /\ forgone'[s] = forgone[s] \union session[s].left
      /\ \A c \in Chat : c # s => forgone'[c] = forgone[c]
  BY <1>3, <1>4 DEF TypeOK
<1>6. /\ session' \in [Chat -> SessionState]
      /\ session'[s].at = "idle" /\ session'[s].left = {}
      /\ \A c \in Chat : c # s => session'[c] = session[c]
  <2>1. Quiet \in SessionState /\ Quiet.at = "idle" /\ Quiet.left = {}
    BY DEF Quiet, SessionState
  <2> QED
    BY <1>3, <1>4, <2>1 DEF TypeOK
<1>7. TypeOK'
  BY <1>3, <1>4, <1>5, <1>6 DEF TypeOK, board
<1>8. CursorsKnown'
  BY <1>3, <1>4 DEF CursorsKnown, board
<1>9. SessionKnown(s)'
  BY <1>2, <1>6 DEF SessionKnown
<1>10. \A e \in Id : ToldOnce(s, e)'
  BY <1>3, <1>4, <1>6 DEF ToldOnce, board
<1>11. sub'[s].on => \A e \in (sub'[s].since + 1)..sub'[s].cursor : event[e] \in Tells(s) =>
         told'[s][e] > 0 \/ e \in forgone'[s] \/ e \in session'[s].left
  BY <1>3, <1>4, <1>5
<1>12. /\ UNCHANGED <<channel, serves, event, gateway, failed>>
       /\ \A c \in Chat : c # s => sub'[c] = sub[c] /\ told'[c] = told[c]
  BY <1>4 DEF board
<1> QED
  BY <1>2, <1>5, <1>6, <1>7, <1>8, <1>9, <1>10, <1>11, <1>12, SessionMoves


-----------------------------------------------------------------------------
(***************************************************************************)
(* The invariant                                                           *)
(***************************************************************************)

\* At first nothing has happened: nothing is claimed, told or to tell.
LEMMA NotifierInit ==
  ASSUME Init
  PROVE  NotifierInvariant
<1>1. PICK setup \in Setups : channel = setup.channel /\ serves = setup.serves
  BY DEF Init
<1>2. channel \in [Chat -> Channel] /\ serves \in [Gateway -> SUBSET Chat]
  BY <1>1, NotifierAssumption DEF Setup
<1>3. event = <<>> /\ event \in Seq(Kind) /\ Len(event) = 0 /\ 0 <= MaxEvents
  BY NotifierAssumption, EmptySeq DEF Init
<1>4. sub \in [Chat -> Subscription] /\ \A c \in Chat : sub[c].cursor = 0 /\ sub[c].since = 0
  BY DEF Init, Subscription, Unsubscribed
<1>5. gateway \in [Gateway -> GatewayState] /\ \A g \in Gateway : gateway[g] = AtRest
  BY DEF Init, GatewayState, AtRest
<1>6. session \in [Chat -> SessionState] /\ \A s \in Chat : session[s] = Quiet
  BY DEF Init, SessionState, Quiet
<1>7. /\ told \in [Chat -> [Id -> Nat]] /\ failed \in [Chat -> Nat] /\ forgone \in [Chat -> SUBSET Id]
      /\ dropped \in [Chat -> SUBSET Id]
      /\ \A c \in Chat, e \in Id : told[c][e] = 0
  BY DEF Init
<1>8. TypeOK
  BY <1>2, <1>3, <1>4, <1>5, <1>6, <1>7 DEF Init, TypeOK
<1>9. CursorsKnown
  BY <1>3, <1>4 DEF CursorsKnown
<1>10. ASSUME NEW g \in Gateway
       PROVE  Claimed(gateway[g]) = {} /\ LoopKnown(g, gateway[g])
  BY <1>5 DEF AtRest, Claimed, LoopKnown, LoopPosition
<1>11. \A s \in Chat : SessionKnown(s)
  BY <1>6 DEF SessionKnown, Quiet
<1>12. Standing
  BY <1>8, <1>9, <1>10, <1>11 DEF Standing
<1>13. RepeatsCounted
  BY <1>7, <1>10 DEF RepeatsCounted, ToldOnce, Counted, Has
<1>14. CursorStays
  BY <1>10 DEF CursorStays
<1>15. NothingIsLost
  BY <1>4 DEF NothingIsLost
<1> QED
  BY <1>12, <1>13, <1>14, <1>15 DEF NotifierInvariant

\* A stutter keeps whatever is known.
LEMMA NotifierStutter ==
  ASSUME NotifierInvariant, UNCHANGED vars
  PROVE  NotifierInvariant'
<1>1. UNCHANGED <<channel, serves, final, event, sub, gateway, fails, session, told, failed,
                  forgone, dropped, commands, faults>>
  BY DEF vars
<1>2. Standing /\ TypeOK /\ CursorsKnown
  BY DEF NotifierInvariant, Standing
<1>3. TypeOK' /\ CursorsKnown'
  BY <1>1, <1>2 DEF TypeOK, CursorsKnown
<1>4. \A h \in Gateway : LoopKnown(h, gateway[h])'
  BY <1>1, <1>2, LoopsUntouched
<1>5. \A s \in Chat : SessionKnown(s)'
  BY <1>1, <1>2 DEF Standing, SessionKnown
<1>6. \A c : Tells(c)' = Tells(c) /\ Tellers(c)' = Tellers(c) /\ Servers(c)' = Servers(c)
  BY <1>1, TellsStay DEF Tellers, Servers
<1>7. RepeatsCounted'
  <2> SUFFICES ASSUME NEW c \in Chat, NEW e \in Id
               PROVE  (IF channel[c] = "session" THEN ToldOnce(c, e) ELSE Counted(c, e))'
    BY DEF RepeatsCounted
  <2>1. IF channel[c] = "session" THEN ToldOnce(c, e) ELSE Counted(c, e)
    BY DEF NotifierInvariant, RepeatsCounted
  <2>2. ToldOnce(c, e)' = ToldOnce(c, e)
    BY <1>1 DEF ToldOnce
  <2>3. Chances(c, e)' = Chances(c, e) /\ Behind(c, e)' = Behind(c, e)
    BY <1>1 DEF Chances, Behind
  <2>4. Counted(c, e)' = Counted(c, e)
    BY <1>1, <1>6, <2>3 DEF Counted, Has, Claimed
  <2> QED
    BY <1>1, <2>1, <2>2, <2>4
<1>8. CursorStays'
  BY <1>1, <1>6 DEF NotifierInvariant, CursorStays, Claimed
<1>9. NothingIsLost'
  BY <1>1, <1>6 DEF NotifierInvariant, NothingIsLost, InHand, Has, Claimed
<1> QED
  BY <1>3, <1>4, <1>5, <1>7, <1>8, <1>9 DEF NotifierInvariant, Standing

\* Every step keeps the invariant.
LEMMA NotifierNext ==
  ASSUME NotifierInvariant, [Next]_vars
  PROVE  NotifierInvariant'
<1>1. CASE TaskMoves
  BY <1>1, TaskMovesStep
<1>2. ASSUME NEW c \in Chat, Subscribe(c) \/ Unsubscribe(c)
      PROVE  NotifierInvariant'
  BY <1>2, SubscribeStep, UnsubscribeStep
<1>3. ASSUME NEW g \in Gateway, GatewayStep(g)
      PROVE  NotifierInvariant'
  BY <1>3, StartTickStep, ClaimEventsStep, NothingNewStep, LookUpTaskStep, TakeDeliveryStep, SendStep,
     KanbanAdvanceStep, KanbanRewindStep, KanbanUnsubStep, EndTickStep DEF GatewayStep
<1>4. ASSUME NEW g \in Gateway, GatewayFault(g)
      PROVE  NotifierInvariant'
  BY <1>4, DisconnectedStep, SendFailsStep, LookUpFailsStep, TickFailsStep, GatewayStopsStep
     DEF GatewayFault
<1>5. ASSUME NEW s \in Chat, SessionStep(s) \/ PollStops(s)
      PROVE  NotifierInvariant'
  BY <1>5, PollClaimStep, PollLookStep, PollUnsubStep, PollEmitStep, PollStopsStep DEF SessionStep
<1>6. CASE UNCHANGED vars
  BY <1>6, NotifierStutter
<1> QED
  BY <1>1, <1>2, <1>3, <1>4, <1>5, <1>6 DEF Next

\* An event that was told before is counted, so its count is within the bound.
LEMMA CountsBoundRepeats ==
  ASSUME NotifierInvariant
  PROVE  RepeatedOnlyAfterFailure
<1> SUFFICES ASSUME NEW c \in Chat, NEW e \in Id
             PROVE  told[c][e] <= Cardinality(Tellers(c)) + failed[c]
  BY DEF RepeatedOnlyAfterFailure
<1>1. Standing /\ TypeOK /\ RepeatsCounted
  BY DEF NotifierInvariant, Standing
<1>2. PICK t \in Nat, f \in Nat : t = told[c][e] /\ f = failed[c]
  BY <1>1, HistoryTypes
<1>3. CASE channel[c] = "session"
  <2>1. Cardinality(Tellers(c)) = 1
    BY <1>3, TellersCounted
  <2>2. t = 0 \/ t = 1
    BY <1>1, <1>2, <1>3 DEF RepeatsCounted, ToldOnce
  <2> QED
    BY <1>2, <2>1, <2>2
<1>4. CASE channel[c] # "session"
  <2>1. PICK n \in Nat, k \in Nat, b \in {0, 1} :
             n = Cardinality(Servers(c)) /\ k = Cardinality(Chances(c, e)) /\ b = Behind(c, e)
    BY <1>1, TellersCounted, ChancesServe DEF Behind
  <2>2. t = 0 \/ t + k + b <= n + f
    BY <1>1, <1>2, <1>4, <2>1 DEF RepeatsCounted, Counted
  <2>3. t <= n + f
    BY <2>1, <2>2, <1>2
  <2> QED
    BY <1>2, <1>4, <2>1, <2>3, TellersCounted
<1> QED
  BY <1>3, <1>4

\* Whatever the gateways, the chats they share, the events and the faults are, the loops,
\* the cursors, the claims in hand and the counts of what was told stay in step.
THEOREM NotifierIsInvariant == Spec => []NotifierInvariant
<1>1. Init => NotifierInvariant
  BY NotifierInit
<1>2. NotifierInvariant /\ [Next]_vars => NotifierInvariant'
  BY NotifierNext
<1> QED
  BY <1>1, <1>2, PTL DEF Spec

\* Every variable of the board's news keeps its type.
THEOREM NotifierTypes == Spec => []TypeOK
<1>1. NotifierInvariant => TypeOK
  BY DEF NotifierInvariant, Standing
<1> QED
  BY <1>1, NotifierIsInvariant, PTL

\* An event that the cursor of a chat with one teller has passed was told, is in hand, or
\* died with the process or the poll that had claimed it, however many gateways there are.
THEOREM NothingIsEverLost == Spec => []NothingIsLost
<1>1. NotifierInvariant => NothingIsLost
  BY DEF NotifierInvariant
<1> QED
  BY <1>1, NotifierIsInvariant, PTL

\* A chat is told an event once by each of its tellers, and once more for each of its
\* failed sends, at most, even where gateways set back the cursors of each other.
THEOREM RepeatsAreForFailures == Spec => []RepeatedOnlyAfterFailure
<1>1. NotifierInvariant => RepeatedOnlyAfterFailure
  BY CountsBoundRepeats
<1> QED
  BY <1>1, NotifierIsInvariant, PTL

=============================================================================
