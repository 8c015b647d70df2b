--------------------------- MODULE MotionActions ----------------------------
(***************************************************************************)
(* The action servers, the reflex and the scheduler of the motion control  *)
(* node, composed: who may move the robot, and what becomes of every goal. *)
(* One step is one callback of the node's single-threaded executor, or     *)
(* time passing.                                                           *)
(***************************************************************************)
EXTENDS DriveGoals, Docking, WallFollow, ReflexTrigger

VARIABLE
  arrived  \* where the robot is ends the running behavior: the drive goal is
           \* reached, the path is done, the reflex has gone its distance

vars == <<schedulerVars, dockVars, wfVars, reflexVars, arrived>>

TypeOK == /\ SchedulerTypeOK
          /\ DockTypeOK
          /\ WallFollowTypeOK
          /\ ReflexTypeOK
          /\ arrived \in BOOLEAN

Init == /\ SchedulerInit
        /\ DockInit
        /\ WallFollowInit
        /\ ReflexInit
        /\ arrived = FALSE
-----------------------------------------------------------------------------
DriveGoal(g) == /\ node_up
                /\ HandleDriveGoalAccepted(g)
                /\ UNCHANGED <<dockVars, wfVars, reflexVars, arrived>>

DockGoal(g) == /\ node_up
               /\ HandleDockGoalRejected(g) \/ HandleDockGoalAccepted(g)
               /\ UNCHANGED <<wfVars, reflexVars, arrived>>

WallFollowGoal(g) == /\ node_up
                     /\ \/ HandleWallFollowRejected(g)
                        \/ HandleWallFollowInvalidSide(g)
                        \/ HandleWallFollowAccepted(g)
                     /\ UNCHANGED <<dockVars, reflexVars, arrived>>

Cancel(g) == /\ node_up
             /\ HandleCancel(g)
             /\ UNCHANGED <<dockVars, wfVars, reflexVars, arrived>>

HazardVector(msg, moving) == /\ node_up
                             /\ HazardVectorCallback(msg, moving)
                             /\ UNCHANGED <<dockVars, wfVars, arrived>>

DockStatus == /\ node_up
              /\ DockStatusCallback
              /\ UNCHANGED <<wfVars, reflexVars, arrived>>

\* robot_pose_callback: the robot is somewhere else.
RobotPose == /\ node_up
             /\ arrived' \in BOOLEAN
             /\ UNCHANGED <<schedulerVars, dockVars, wfVars, reflexVars>>

TimePasses == /\ node_up
              /\ \/ DockRuntimeElapses /\ UNCHANGED <<wfVars, reflexVars, arrived>>
                 \/ WallFollowRuntimeElapses /\ UNCHANGED <<dockVars, reflexVars, arrived>>
                 \/ ReflexRuntimeElapses /\ UNCHANGED <<dockVars, wfVars, arrived>>

\* run_behavior: one execution of the behavior in the slot, then its is_done.
RunDriveGoal ==
  /\ current_behavior.server \in DriveServers
  /\ ExecuteDriveGoal(current_behavior.goal, Seen({"cliff", "stall"}), arrived)
  /\ has_behavior' = drive_goal_running'[current_behavior.server]
  /\ UNCHANGED <<dockVars, wfVars, reflexVars, arrived>>

RunDockGoal ==
  /\ current_behavior.server \in DockServers
  /\ ExecuteDockGoal(current_behavior.goal, arrived)
  /\ has_behavior' = running_dock_action'
  /\ UNCHANGED <<wfVars, reflexVars, arrived>>

RunWallFollow ==
  /\ current_behavior.server = "wall_follow"
  /\ ExecuteWallFollow(current_behavior.goal)
  /\ has_behavior' = wf_running'
  /\ UNCHANGED <<dockVars, reflexVars, arrived>>

RunReflex ==
  /\ current_behavior.server = "reflex"
  /\ ExecuteReflex(arrived)
  /\ has_behavior' = running_reflex'
  /\ UNCHANGED <<dockVars, wfVars, arrived>>

RunBehavior ==
  /\ node_up
  /\ has_behavior
  /\ UNCHANGED current_behavior
  /\ RunDriveGoal \/ RunDockGoal \/ RunWallFollow \/ RunReflex

Next ==
  \/ \E g \in Goals : DriveGoal(g) \/ DockGoal(g) \/ WallFollowGoal(g) \/ Cancel(g)
  \/ \E msg \in SUBSET Hazards, moving \in BOOLEAN : HazardVector(msg, moving)
  \/ DockStatus
  \/ RobotPose
  \/ TimePasses
  \/ RunBehavior

\* The control timer keeps firing while the node is up, and time passes. Nothing is
\* assumed of where the robot gets to.
Fairness == WF_vars(RunBehavior) /\ WF_vars(TimePasses)

Spec == Init /\ [][Next]_vars

FairSpec == Spec /\ Fairness
-----------------------------------------------------------------------------
(* Safety *)

\* However goals, cancels, hazards and control ticks interleave, at most one goal
\* is being served: a goal that is replaced, refused or outlived has been ended
\* (set_behavior's clean-up, the refusals, the handle kept in current_behavior_).
OneActiveGoal == \A g, h \in Goals : Active(g) /\ Active(h) => g = h

\* The behavior the control timer will execute next serves a goal that has not
\* ended: abort, succeed and canceled on an ended goal handle throw, and so ends
\* the node.
RunsLiveGoal ==
  has_behavior /\ current_behavior.goal # NoGoal => Active(current_behavior.goal)

\* Every "running" flag that makes a server reject goals, or makes update_hazards
\* only cache, is up exactly while that server's behavior has the slot: no flag
\* is left up by a refusal, a cancel or an end, which would block it for good.
FlagsFollowSlot ==
  /\ running_dock_action <=> has_behavior /\ current_behavior.server \in DockServers
  /\ wf_running <=> has_behavior /\ current_behavior.server = "wall_follow"
  /\ running_reflex <=> has_behavior /\ current_behavior.server = "reflex"
  /\ \A s \in DriveServers :
       drive_goal_running[s] => has_behavior /\ current_behavior.server = s

\* A dock, undock or wall follow goal being served always has the slot, so the
\* control timer gets to it: its cancel is acted on and its runtime is enforced.
UninterruptibleGoalScheduled ==
  \A g \in Goals : Active(g) /\ ServerOf[g] \notin DriveServers =>
                     has_behavior /\ current_behavior.goal = g

\* "Reject new behavior to keep running current": a behavior that must not be
\* stopped gives up the slot only by an execution of its own.
KeepsRunningCurrent ==
  [][ has_behavior /\ ~current_behavior.stop_on_new_behavior
        => \/ UNCHANGED <<has_behavior, current_behavior>>
           \/ RunBehavior ]_vars

\* A goal ends once: no later goal, cancel, hazard or control tick changes how.
OutcomeIsFinal ==
  [][ \A g \in Goals : goal_status[g] \in FinalStates =>
                         goal_status'[g] = goal_status[g] ]_vars

\* A goal that is asked to cancel does not go back to executing, and if its own
\* behavior ends it, it ends canceled.
CancelIsHonoured ==
  [][ \A g \in Goals : goal_status[g] = "canceling" /\ goal_status'[g] # "canceling" =>
         \/ goal_status'[g] = "canceled"
         \/ goal_status'[g] = "aborted" /\ current_behavior'.goal # g ]_vars

(* Refinement *)

\* What the node serves. A drive goal that is still active after its behavior lost
\* the slot is served too: it does not move the robot and the next goal ends it.
Holder == IF has_behavior /\ current_behavior.server = "reflex" THEN "reflex"
          ELSE IF Active(current_behavior.goal) THEN current_behavior.goal
          ELSE "free"

Life == [g \in Goals |-> IF goal_status[g] = "idle" THEN "new"
                         ELSE IF goal_status[g] \in ActiveStates THEN "served"
                         ELSE "over"]

ASSUME HolderNamesAssumption == "free" \notin Goals /\ "reflex" \notin Goals

Service == INSTANCE MotionService
             WITH Stoppable <- {g \in Goals : ServerOf[g] \in DriveServers},
                  Free <- "free", Reflex <- "reflex", holder <- Holder, life <- Life

\* The composed servers, reflex and scheduler keep the promise of MotionService.
KeepsServicePromise == Service!Spec

(* Liveness *)

\* A behavior that must not be stopped gives the slot back: the time limits of
\* dock, undock, wall follow and reflex see to it, whatever the robot meets.
SlotIsReleased ==
  has_behavior /\ ~current_behavior.stop_on_new_behavior ~> ~has_behavior \/ ~node_up

\* A goal asked to cancel while its behavior is running ends.
CancelEndsGoal ==
  \A g \in Goals : /\ goal_status[g] = "canceling"
                   /\ has_behavior
                   /\ current_behavior.goal = g
                   ~> goal_status[g] \in FinalStates

(* What the code's comments say and the code does not do *)

\* set_behavior runs the clean-up "when a behavior is stopped externally" to stop
\* the old behavior. A new goal of the same drive server is stopped with it.
ActiveGoalScheduled ==
  \A g \in Goals : Active(g) => has_behavior /\ current_behavior.goal = g

\* A continuous reflex "will continue to check continous thresholds against
\* previous start points".
ContinuousStartKnown == running_reflex => continuous_start_set

\* The slot, the goal it serves and the flags of the servers agree.
ServersAgreeWithSlot == RunsLiveGoal /\ FlagsFollowSlot /\ UninterruptibleGoalScheduled
=============================================================================
