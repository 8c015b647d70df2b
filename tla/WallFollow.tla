----------------------------- MODULE WallFollow -----------------------------
(***************************************************************************)
(* The wall_follow action server (wall_follow_behavior.cpp). The goal's    *)
(* max_runtime is any duration: wf_overdue may become true at any time.    *)
(***************************************************************************)
EXTENDS BehaviorsScheduler

VARIABLES
  wf_running,  \* wf_running_
  wf_overdue   \* wf_end_duration_ has passed since wf_start_time_

wfVars == <<wf_running, wf_overdue>>

WallFollowTypeOK == wf_running \in BOOLEAN /\ wf_overdue \in BOOLEAN
WallFollowInit == wf_running = FALSE /\ wf_overdue = FALSE

WallFollowBehavior(g) ==
  [ server |-> "wall_follow", goal |-> g,
    stop_on_new_behavior |-> FALSE, apply_backup_limits |-> FALSE ]

HandleWallFollowRejected(g) ==
  /\ Sends(g, "wall_follow")
  /\ wf_running
  /\ goal_status' = [goal_status EXCEPT ![g] = "rejected"]
  /\ UNCHANGED <<has_behavior, current_behavior, drive_goal_running, wfVars>>

\* A follow_side that is neither left nor right aborts the accepted goal.
HandleWallFollowInvalidSide(g) ==
  /\ Sends(g, "wall_follow")
  /\ ~wf_running
  /\ goal_status' = [goal_status EXCEPT ![g] = "aborted"]
  /\ UNCHANGED <<has_behavior, current_behavior, drive_goal_running, wfVars>>

\* Mutant: the flag is raised whether or not the scheduler takes the behavior.
HandleWallFollowAcceptedFlagged(g) ==
  /\ Sends(g, "wall_follow")
  /\ ~wf_running
  /\ wf_overdue' = FALSE
  /\ wf_running' = TRUE
  /\ \/ TakeSlot(WallFollowBehavior(g), drive_goal_running,
                 [goal_status EXCEPT ![g] = "executing"])
     \/ RefuseGoal(g) /\ UNCHANGED drive_goal_running

\* Mutant: the flag is not raised.
HandleWallFollowAcceptedUnflagged(g) ==
  /\ Sends(g, "wall_follow")
  /\ ~wf_running
  /\ wf_overdue' = FALSE
  /\ UNCHANGED wf_running
  /\ \/ TakeSlot(WallFollowBehavior(g), drive_goal_running,
                 [goal_status EXCEPT ![g] = "executing"])
     \/ RefuseGoal(g) /\ UNCHANGED drive_goal_running

\* handle_wall_follow_accepted restarts the clock before it asks the scheduler
\* and raises the flag after it.
HandleWallFollowAccepted(g) ==
  /\ Sends(g, "wall_follow")
  /\ ~wf_running
  /\ wf_overdue' = FALSE
  /\ \/ /\ TakeSlot(WallFollowBehavior(g), drive_goal_running,
                    [goal_status EXCEPT ![g] = "executing"])
        /\ wf_running' = TRUE
     \/ /\ RefuseGoal(g)
        /\ UNCHANGED <<drive_goal_running, wf_running>>

EndWallFollow(g, outcome) ==
  /\ goal_status' = [goal_status EXCEPT ![g] = outcome]
  /\ wf_running' = FALSE

\* Mutant: max_runtime is not checked.
ExecuteWallFollowUntimed(g) ==
  /\ \/ /\ goal_status[g] = "canceling"
        /\ EndWallFollow(g, "canceled")
     \/ /\ goal_status[g] # "canceling"
        /\ UNCHANGED <<goal_status, wf_running>>
  /\ UNCHANGED <<drive_goal_running, wf_overdue>>

\* execute_wall_follow: a requested cancel first, then the goal's max_runtime,
\* which is its success.
ExecuteWallFollow(g) ==
  /\ \/ /\ goal_status[g] = "canceling"
        /\ EndWallFollow(g, "canceled")
     \/ /\ goal_status[g] # "canceling"
        /\ wf_overdue
        /\ EndWallFollow(g, "succeeded")
     \/ /\ goal_status[g] # "canceling"
        /\ ~wf_overdue
        /\ UNCHANGED <<goal_status, wf_running>>
  /\ UNCHANGED <<drive_goal_running, wf_overdue>>

WallFollowRuntimeElapses ==
  /\ wf_running
  /\ ~wf_overdue
  /\ wf_overdue' = TRUE
  /\ UNCHANGED <<schedulerVars, wf_running>>
=============================================================================
