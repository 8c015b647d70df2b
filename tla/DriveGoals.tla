----------------------------- MODULE DriveGoals -----------------------------
(***************************************************************************)
(* The four drive action servers (drive_arc, drive_distance,               *)
(* navigate_to_position, rotate_angle): the template DriveGoalBaseBehavior *)
(* of drive_goal_behaviors.hpp. Where the robot gets to is the             *)
(* environment's choice: `arrived` is what iterate_on_goal returns.        *)
(***************************************************************************)
EXTENDS BehaviorsScheduler

DriveBehavior(g) == [ server |-> ServerOf[g], goal |-> g,
                      stop_on_new_behavior |-> TRUE, apply_backup_limits |-> TRUE ]

\* handle_drive_goal_goal accepts every goal, so it and
\* handle_drive_goal_accepted are one step. The server's flag is raised before
\* the scheduler is asked, which may run the clean-up of the goal it replaces.
HandleDriveGoalAccepted(g) ==
  /\ \E s \in DriveServers : Sends(g, s)
  /\ \/ TakeSlot(DriveBehavior(g),
                 [drive_goal_running EXCEPT ![ServerOf[g]] = TRUE],
                 [goal_status EXCEPT ![g] = "executing"])
     \/ /\ RefuseGoal(g)
        /\ drive_goal_running' = [drive_goal_running EXCEPT ![ServerOf[g]] = FALSE]

\* Mutant: the flag is not lowered when the goal ends.
EndDriveGoalKeepsFlag(g, outcome) ==
  /\ goal_status' = [goal_status EXCEPT ![g] = outcome]
  /\ UNCHANGED drive_goal_running

\* One execution of the slot's drive goal that ends the goal in `outcome`.
EndDriveGoal(g, outcome) ==
  /\ goal_status' = [goal_status EXCEPT ![g] = outcome]
  /\ drive_goal_running' = [drive_goal_running EXCEPT ![ServerOf[g]] = FALSE]

\* Mutant: is_canceling is not checked.
ExecuteDriveGoalDeaf(g, blocked, arrived) ==
  \/ blocked /\ EndDriveGoal(g, "aborted")
  \/ ~blocked /\ arrived /\ EndDriveGoal(g, "succeeded")
  \/ ~blocked /\ ~arrived /\ UNCHANGED <<goal_status, drive_goal_running>>

\* execute_drive_goal: a requested cancel first, then the hazards that abort the
\* goal (`blocked`), then the motion itself.
ExecuteDriveGoal(g, blocked, arrived) ==
  \/ /\ goal_status[g] = "canceling"
     /\ EndDriveGoal(g, "canceled")
  \/ /\ goal_status[g] # "canceling"
     /\ blocked
     /\ EndDriveGoal(g, "aborted")
  \/ /\ goal_status[g] # "canceling"
     /\ ~blocked
     /\ arrived
     /\ EndDriveGoal(g, "succeeded")
  \/ /\ goal_status[g] # "canceling"
     /\ ~blocked
     /\ ~arrived
     /\ UNCHANGED <<goal_status, drive_goal_running>>
=============================================================================
