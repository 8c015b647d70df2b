------------------------------ MODULE Docking -------------------------------
(***************************************************************************)
(* The dock and undock action servers (docking_behavior.cpp). Both share   *)
(* one flag, one start time and one path controller. Whether the           *)
(* controller has run out of path is the environment's choice (`arrived`). *)
(***************************************************************************)
EXTENDS BehaviorsScheduler

VARIABLES
  is_docked,            \* is_docked_, from the last dock status
  sees_dock,            \* sees_dock_, from the last dock status
  running_dock_action,  \* running_dock_action_
  dock_overdue          \* max_action_runtime_ has passed since action_start_time_

dockVars == <<is_docked, sees_dock, running_dock_action, dock_overdue>>

DockTypeOK == /\ is_docked \in BOOLEAN
              /\ sees_dock \in BOOLEAN
              /\ running_dock_action \in BOOLEAN
              /\ dock_overdue \in BOOLEAN

DockInit == /\ is_docked = FALSE
            /\ sees_dock = FALSE
            /\ running_dock_action = FALSE
            /\ dock_overdue = FALSE

DockBehavior(g) == [ server |-> ServerOf[g], goal |-> g,
                     stop_on_new_behavior |-> FALSE, apply_backup_limits |-> FALSE ]

\* The goals handle_dock_servo_goal and handle_undock_goal let through.
DockGoalAllowed(g) ==
  /\ ~running_dock_action
  /\ \/ Sends(g, "dock") /\ ~is_docked /\ sees_dock
     \/ Sends(g, "undock") /\ is_docked

HandleDockGoalRejected(g) ==
  /\ \E s \in DockServers : Sends(g, s)
  /\ ~DockGoalAllowed(g)
  /\ goal_status' = [goal_status EXCEPT ![g] = "rejected"]
  /\ UNCHANGED <<has_behavior, current_behavior, drive_goal_running, dockVars>>

\* handle_dock_servo_accepted and handle_undock_accepted. The flag is raised
\* before the scheduler is asked and lowered again if it refuses.
HandleDockGoalAccepted(g) ==
  /\ DockGoalAllowed(g)
  /\ dock_overdue' = FALSE
  /\ \/ /\ TakeSlot(DockBehavior(g), drive_goal_running,
                    [goal_status EXCEPT ![g] = "executing"])
        /\ running_dock_action' = TRUE
     \/ /\ RefuseGoal(g)
        /\ running_dock_action' = FALSE
        /\ UNCHANGED drive_goal_running
  /\ UNCHANGED <<is_docked, sees_dock>>

\* Mutant: the flag is not lowered when the goal ends.
EndDockGoalKeepsFlag(g, outcome) ==
  /\ goal_status' = [goal_status EXCEPT ![g] = outcome]
  /\ UNCHANGED running_dock_action

EndDockGoal(g, outcome) ==
  /\ goal_status' = [goal_status EXCEPT ![g] = outcome]
  /\ running_dock_action' = FALSE

\* Mutant: the dock state is returned where a goal status is due.
DockOutcomeAsState(g) == IF is_docked THEN "docked" ELSE "undocked"

\* What the end of a dock or an undock goal is judged by.
DockOutcome(g) ==
  IF is_docked = (ServerOf[g] = "dock") THEN "succeeded" ELSE "aborted"

\* Mutant: the end of the path is judged before a requested cancel.
ExecuteDockGoalDeaf(g, arrived) ==
  /\ \/ /\ arrived \/ dock_overdue
        /\ EndDockGoal(g, DockOutcome(g))
     \/ /\ ~(arrived \/ dock_overdue)
        /\ UNCHANGED <<goal_status, running_dock_action>>
  /\ UNCHANGED <<drive_goal_running, is_docked, sees_dock, dock_overdue>>

\* execute_dock_servo and execute_undock: a requested cancel first, then the end
\* of the path or of the allowed time.
ExecuteDockGoal(g, arrived) ==
  /\ \/ /\ goal_status[g] = "canceling"
        /\ EndDockGoal(g, "canceled")
     \/ /\ goal_status[g] # "canceling"
        /\ arrived \/ dock_overdue
        /\ EndDockGoal(g, DockOutcome(g))
     \/ /\ goal_status[g] # "canceling"
        /\ ~(arrived \/ dock_overdue)
        /\ UNCHANGED <<goal_status, running_dock_action>>
  /\ UNCHANGED <<drive_goal_running, is_docked, sees_dock, dock_overdue>>

DockStatusCallback ==
  /\ is_docked' \in BOOLEAN
  /\ sees_dock' \in BOOLEAN
  /\ UNCHANGED <<schedulerVars, running_dock_action, dock_overdue>>

DockRuntimeElapses ==
  /\ running_dock_action
  /\ ~dock_overdue
  /\ dock_overdue' = TRUE
  /\ UNCHANGED <<schedulerVars, is_docked, sees_dock, running_dock_action>>
=============================================================================
