------------------------- MODULE BehaviorsScheduler -------------------------
(***************************************************************************)
(* The one-slot behavior scheduler of the motion control node              *)
(* (behaviors_scheduler.hpp) and the life cycle of the action goals whose  *)
(* handles it keeps.                                                       *)
(*                                                                         *)
(* The node runs on a single-threaded executor and every callback is in    *)
(* its default mutually exclusive group, so each callback is one step and  *)
(* the scheduler's mutex is never contended.                               *)
(*                                                                         *)
(* current_behavior_ outlives has_behavior_: the scheduler keeps the goal  *)
(* handle of a finished behavior until another one overwrites the slot.    *)
(***************************************************************************)
CONSTANTS
  Goals,      \* goals that clients may send, each at most once
  NoGoal,     \* the goal of a behavior that serves none (reflex, empty slot)
  ServerOf    \* the action server each goal is sent to

DriveServers == {"drive_arc", "drive_distance", "navigate_to_position", "rotate_angle"}
DockServers == {"dock", "undock"}
ActionServers == DriveServers \cup DockServers \cup {"wall_follow"}

ASSUME GoalAssumption == /\ ServerOf \in [Goals -> ActionServers]
                         /\ NoGoal \notin Goals

VARIABLES
  has_behavior,        \* has_behavior_
  current_behavior,    \* current_behavior_: what its run_func was bound to
  drive_goal_running,  \* drive_goal_running_ of each drive server: is_done and
                       \* clean-up of the slot read and write it
  goal_status          \* status of every goal at its action server

schedulerVars == <<has_behavior, current_behavior, drive_goal_running, goal_status>>

Behaviors == [ server : ActionServers \cup {"reflex", "none"},
               goal : Goals \cup {NoGoal},
               stop_on_new_behavior : BOOLEAN,
               apply_backup_limits : BOOLEAN ]

ActiveStates == {"executing", "canceling"}
FinalStates == {"rejected", "succeeded", "aborted", "canceled"}
GoalStates == {"idle"} \cup ActiveStates \cup FinalStates

Active(g) == g \in Goals /\ goal_status[g] \in ActiveStates

\* goal g was never sent, and its server is s
Sends(g, s) == ServerOf[g] = s /\ goal_status[g] = "idle"

SchedulerTypeOK ==
  /\ has_behavior \in BOOLEAN
  /\ current_behavior \in Behaviors
  /\ drive_goal_running \in [DriveServers -> BOOLEAN]
  /\ goal_status \in [Goals -> GoalStates]

SchedulerInit ==
  /\ has_behavior = FALSE
  /\ current_behavior \in [ server : {"none"}, goal : {NoGoal},
                            stop_on_new_behavior : BOOLEAN,
                            apply_backup_limits : BOOLEAN ]
  /\ drive_goal_running = [s \in DriveServers |-> FALSE]
  /\ goal_status = [g \in Goals |-> "idle"]
-----------------------------------------------------------------------------
\* Mutant: a behavior that must not be stopped is stopped.
AcceptsAnyBehavior == TRUE


\* set_behavior takes the new behavior unless one that must not be stopped is
\* running.
AcceptsBehavior == has_behavior => current_behavior.stop_on_new_behavior

\* The clean-up function of the behavior being replaced. Only drive goals have
\* one: it clears the flag of their server and aborts their goal.
AfterCleanup(running) ==
  IF has_behavior THEN [running EXCEPT ![current_behavior.server] = FALSE]
                  ELSE running

\* Mutant: a handle dropped after its behavior ended leaves its goal active.
OrphanedByDisplacement(status) ==
  IF has_behavior /\ Active(current_behavior.goal)
    THEN [status EXCEPT ![current_behavior.goal] = "aborted"]
    ELSE status

\* Replacing current_behavior_ also drops its goal handle. A handle dropped
\* before its goal ended cancels the goal (rclcpp_action's ~ServerGoalHandle).
AfterDisplacement(status) ==
  IF Active(current_behavior.goal)
    THEN [status EXCEPT ![current_behavior.goal] =
                          IF has_behavior THEN "aborted" ELSE "canceled"]
    ELSE status

\* set_behavior returns true: b takes the slot. running and status are what the
\* caller has made of the flags and the goals before the call.
TakeSlot(b, running, status) ==
  /\ AcceptsBehavior
  /\ has_behavior' = TRUE
  /\ current_behavior' = b
  /\ drive_goal_running' = AfterCleanup(running)
  /\ goal_status' = AfterDisplacement(status)

\* set_behavior returns false: the slot is left alone and the goal is aborted.
RefuseGoal(g) ==
  /\ ~AcceptsBehavior
  /\ goal_status' = [goal_status EXCEPT ![g] = "aborted"]
  /\ UNCHANGED <<has_behavior, current_behavior>>

\* A cancel request: every server's cancel handler accepts it, and the goal is
\* "canceling" until its behavior runs again. Only an executing goal can be
\* asked to cancel.
HandleCancel(g) ==
  /\ goal_status[g] = "executing"
  /\ goal_status' = [goal_status EXCEPT ![g] = "canceling"]
  /\ UNCHANGED <<has_behavior, current_behavior, drive_goal_running>>
=============================================================================
