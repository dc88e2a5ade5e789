------------------------- MODULE MCKanbanNotifier -------------------------
EXTENDS KanbanNotifier

CONSTANTS a, b

OneServer  == [g \in Gateway |-> IF g = "one" THEN Chat ELSE {}]
TwoServers == [g \in Gateway |-> {a}]

\* A chat that is woken beside one with messages, both served by one gateway; a chat
\* with messages that two gateways serve; and a terminal session.
Instances ==
  LET channels(kind, other) == [c \in Chat |-> IF c = a THEN kind ELSE other]
  IN  {[channel |-> channels("wake", "push"), serves |-> OneServer],
       [channel |-> channels("push", "wake"), serves |-> TwoServers],
       [channel |-> channels("session", "push"), serves |-> TwoServers]}

=============================================================================
