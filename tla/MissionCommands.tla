--------------------------- MODULE MissionCommands ---------------------------
(***************************************************************************)
(* The states of a mission and the commands an operator gives on it.       *)
(***************************************************************************)
ExecutionStatus ==
  {"ready", "running", "paused", "blocked", "completed", "failed", "cancelled"}

\* The states of a mission that has no approved plan yet.
PreparationStatus ==
  {"draft", "compiling", "clarification_required", "compiled", "awaiting_plan_approval"}

MissionStatus == ExecutionStatus \cup PreparationStatus

\* The states from which each command leads to its target.
Transition ==
  [compile |-> [from |-> {"draft", "clarification_required", "failed"}, to |-> "compiling"],
   start   |-> [from |-> {"ready"}, to |-> "running"],
   pause   |-> [from |-> {"running", "blocked"}, to |-> "paused"],
   resume  |-> [from |-> {"paused", "blocked", "failed"}, to |-> "running"],
   cancel  |-> [from |-> MissionStatus \ {"completed", "cancelled"}, to |-> "cancelled"]]
=============================================================================
