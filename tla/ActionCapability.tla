-------------------------- MODULE ActionCapability --------------------------
(***************************************************************************)
(* What an interactive control of Project Autopilot promises: a button or  *)
(* a text command is a capability for one operation on a mission.  It is   *)
(* good from its issue until it is used or dies (superseded, revoked or    *)
(* expired).  Using it is irrevocable, and the operation runs at most once *)
(* and only for a capability that was used while it was good.              *)
(***************************************************************************)

CONSTANT Token

VARIABLE cap

State == {"unissued", "good", "used", "run", "dead"}

\* A capability that dies never comes back, and nothing leads to "run" but "used".
Moves == {<<"unissued", "good">>, <<"good", "used">>, <<"good", "dead">>, <<"used", "run">>}

Init == cap = [t \in Token |-> "unissued"]

\* One transaction may issue several capabilities and kill others; one that uses or
\* runs a capability does nothing else.  Binding the new state keeps TLC from computing
\* a refinement mapping again for every token.
Next ==
  \E new \in {cap'} :
    LET changed == {t \in Token : new[t] # cap[t]}
    IN  /\ new \in [Token -> State]
        /\ \A t \in changed : <<cap[t], new[t]>> \in Moves
        /\ \A t \in changed : new[t] \in {"used", "run"} => changed = {t}

Spec == Init /\ [][Next]_cap

=============================================================================
