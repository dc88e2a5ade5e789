-------------------------- MODULE MissionLifecycle --------------------------
(***************************************************************************)
(* The mission status automaton of hermes_cli/missions_db.py: the table    *)
(* ALLOWED_TRANSITIONS, which transition_mission evaluates inside its      *)
(* write transaction against the status stored in the row.  Every module   *)
(* that moves a mission goes through Allowed, as every caller goes through *)
(* transition_mission.                                                     *)
(***************************************************************************)

MissionStatus ==
  {"draft", "planning", "ready", "running", "waiting_for_user", "blocked",
   "verifying", "awaiting_approval", "committing", "succeeded", "failed",
   "cancelled", "rolled_back"}

TerminalMissionStatus == {"succeeded", "failed", "cancelled", "rolled_back"}

AllowedTransitions ==
  [s \in MissionStatus |->
     CASE s = "draft"             -> {"planning", "cancelled"}
       [] s = "planning"          -> {"ready", "blocked", "failed", "cancelled"}
       [] s = "ready"             -> {"running", "blocked", "cancelled"}
       [] s = "running"           -> {"waiting_for_user", "blocked", "verifying",
                                      "failed", "cancelled"}
       [] s = "waiting_for_user"  -> {"running", "blocked", "cancelled"}
       [] s = "blocked"           -> {"planning", "ready", "running",
                                      "rolled_back", "failed", "cancelled"}
       [] s = "verifying"         -> {"running", "blocked", "awaiting_approval",
                                      "committing", "failed", "cancelled"}
       [] s = "awaiting_approval" -> {"committing", "blocked", "cancelled"}
       [] s = "committing"        -> {"succeeded", "blocked", "failed", "cancelled"}
       [] s \in {"succeeded", "failed", "cancelled"} -> {"rolled_back"}
       [] s = "rolled_back"       -> {}]

Allowed(from, to) == to \in AllowedTransitions[from]

=============================================================================
