---------------------------- MODULE DockingPath -----------------------------
(***************************************************************************)
(* The path of a dock or undock goal and the controller that follows it    *)
(* (docking_behavior.cpp and simple_goal_controller.hpp). Docking has the  *)
(* servers and the scheduler; here a goal that is let through is scheduled *)
(* or refused. The dock is at 0 of a line and faces its positive side; the *)
(* robot stands on a place of the line, as wide as the radius of a point,  *)
(* and has one of DockFull headings, further apart than                    *)
(* GO_TO_GOAL_ANGLE_TOO_FAR.                                               *)
(***************************************************************************)
EXTENDS Angles, Sequences

CONSTANTS
  DockFull,       \* headings in a turn; 0 leads away from the dock
  Contact,        \* where the robot is docked
  Observed,       \* the docked distance assumed before the first undock goal
  DockApproach,   \* MAX_DOCK_INTERMEDIATE_GOAL_OFFSET
  UndockOffset,   \* UNDOCK_GOAL_OFFSET
  Places          \* bound: where the robot may be, in front of the dock

ASSUME DockingPathAssumption ==
  /\ {DockFull, Contact, Observed, DockApproach, UndockOffset} \subseteq Nat \ {0}
  /\ DockFull % 2 = 0 /\ Places \subseteq Nat /\ Contact \in Places

VARIABLES
  dockPose,        \* last_robot_pose_: [x, heading]
  docked,          \* is_docked_, of the last dock status
  dockGoal,        \* the goal running_dock_action_ stands for: "none", "dock" or "undock"
  dockLate,        \* max_action_runtime_ has passed
  goalPoints,      \* goal_points_
  navigateState,   \* navigate_state_
  dockedDistance,  \* last_docked_distance_offset_ and calibrated_offset_
  dockCmd          \* the velocities of the last execution

dockPathVars == <<dockPose, docked, dockGoal, dockLate, goalPoints, navigateState, dockedDistance,
                  dockCmd>>

Facing == DockFull \div 2                      \* the heading towards the dock
DockStill == [move |-> 0, turn |-> 0]
DockPoint(x, theta, backwards) == [x |-> x, theta |-> theta % DockFull, backwards |-> backwards]

DockPathInit ==
  /\ dockPose = [x |-> Contact, heading |-> Facing]
  /\ docked = TRUE
  /\ dockGoal = "none"
  /\ dockLate = FALSE
  /\ goalPoints = <<>>
  /\ navigateState = "angle_to_goal"
  /\ dockedDistance = [distance |-> Observed, calibrated |-> FALSE]
  /\ dockCmd = DockStill

-----------------------------------------------------------------------------
\* handle_dock_servo_accepted: a point in front of the dock, no further than the robot is,
\* and the docked position. The path of a goal that is refused stays.
AcceptDock ==
  /\ dockGoal = "none" /\ ~docked
  /\ goalPoints' = <<DockPoint(Least(Magnitude(dockPose.x), DockApproach + dockedDistance.distance),
                               Facing, FALSE),
                     DockPoint(dockedDistance.distance, Facing, FALSE)>>
  /\ navigateState' = "angle_to_goal"
  /\ dockGoal' \in {"dock", "none"}
  /\ dockLate' = FALSE
  /\ UNCHANGED <<dockPose, docked, dockedDistance, dockCmd>>

\* Backwards to a point behind the robot, then half a turn.
UndockPath(at) ==
  LET back == at.x - UndockOffset * (IF at.heading = Facing THEN -1 ELSE 1)
  IN  <<DockPoint(back, at.heading, TRUE), DockPoint(back, at.heading + Facing, FALSE)>>

\* handle_undock_accepted: the first one calibrates the docked distance.
AcceptUndock ==
  /\ dockGoal = "none" /\ docked
  /\ dockPose.heading \in {0, Facing}
  /\ dockedDistance' = IF dockedDistance.calibrated THEN dockedDistance
                       ELSE [distance |-> Magnitude(dockPose.x), calibrated |-> TRUE]
  /\ navigateState' = "angle_to_goal"
  /\ \/ dockGoal' = "undock" /\ goalPoints' = UndockPath(dockPose)
     \/ dockGoal' = "none" /\ goalPoints' = <<>>
  /\ dockLate' = FALSE
  /\ UNCHANGED <<dockPose, docked, dockCmd>>

-----------------------------------------------------------------------------
\* diff_angle; a point the robot stands on is straight ahead of heading 0
AngleToPoint(p) ==
  ShortestTurn(DockFull, dockPose.heading, IF p.x < dockPose.x THEN Facing ELSE 0)
\* how far the direction of travel is from the point
TravelAngle(p) ==
  IF p.backwards THEN ShortestTurn(DockFull, Facing, AngleToPoint(p)) ELSE AngleToPoint(p)

AtPoint(p) == dockPose.x = p.x

\* GO_TO_GOAL_POSITION adds half a turn to the absolute angle of a point behind the robot.
\* Normalised, that is never positive (but for an angle of exactly zero, which is none of
\* these headings' own), so that no deviation is too far and none is corrected.
TooFar(p) == ~p.backwards /\ AngleToPoint(p) # 0

\* What get_velocity_for_position does with the first point p: the next state, the command
\* and the points left.
AngleToGoal(p, left, cmd) ==
  /\ navigateState = "angle_to_goal" /\ left = goalPoints
  /\ \/ /\ AtPoint(p) \/ TravelAngle(p) = 0
        /\ navigateState' = "go_to_goal_position"
        /\ cmd = DockStill
     \/ /\ ~AtPoint(p) /\ TravelAngle(p) # 0
        /\ cmd = [move |-> 0, turn |-> Sign(TravelAngle(p))]
        /\ UNCHANGED navigateState

\* Mutant: the robot is not turned back to a point it deviates from.
GoToGoalPositionBlindly(p, left, cmd) ==
  /\ navigateState = "go_to_goal_position" /\ left = goalPoints
  /\ \/ /\ AtPoint(p)
        /\ navigateState' = "goal_angle"
        /\ cmd = DockStill
     \/ /\ ~AtPoint(p)
        /\ cmd = [move |-> IF p.backwards THEN -1 ELSE 1, turn |-> 0]
        /\ UNCHANGED navigateState

GoToGoalPosition(p, left, cmd) ==
  /\ navigateState = "go_to_goal_position" /\ left = goalPoints
  /\ \/ /\ AtPoint(p)
        /\ navigateState' = "goal_angle"
        /\ cmd = DockStill
     \/ /\ ~AtPoint(p) /\ TooFar(p)
        /\ navigateState' = "angle_to_goal"
        /\ cmd = DockStill
     \/ /\ ~AtPoint(p) /\ ~TooFar(p)
        /\ cmd = [move |-> IF p.backwards THEN -1 ELSE 1, turn |-> 0]
        /\ UNCHANGED navigateState

\* Mutant: an angle that is not reached yet ends the point.
GoalAngleAtOnce(p, left, cmd) ==
  /\ navigateState = "goal_angle"
  /\ left = Tail(goalPoints) /\ cmd = DockStill
  /\ navigateState' = "angle_to_goal"

GoalAngle(p, left, cmd) ==
  LET turn == ShortestTurn(DockFull, dockPose.heading, p.theta)
  IN  /\ navigateState = "goal_angle"
      /\ \/ /\ turn # 0
            /\ left = goalPoints /\ cmd = [move |-> 0, turn |-> Sign(turn)]
            /\ UNCHANGED navigateState
         \/ /\ turn = 0
            /\ left = Tail(goalPoints) /\ cmd = DockStill
            /\ navigateState' = IF left = <<>> THEN navigateState ELSE "angle_to_goal"

Commanded == [move : {-1, 0, 1}, turn : {-1, 0, 1}]

\* The motion until the next pose: none, what is commanded, a place too far, or a heading
\* aside.
DockResponses == {"blocked", "obeys", "slides", "skids"}
DockMotion(cmd, response) ==
  LET turn == IF response = "skids" /\ cmd.move # 0 THEN 1 ELSE cmd.turn
      along == CASE 4 * Magnitude(ShortestTurn(DockFull, 0, dockPose.heading)) < DockFull -> 1
                 [] 4 * Magnitude(ShortestTurn(DockFull, 0, dockPose.heading)) > DockFull -> -1
                 [] OTHER -> 0
  IN  IF response = "blocked" THEN dockPose
      ELSE [x |-> dockPose.x + along * cmd.move * (IF response = "slides" THEN 2 ELSE 1),
            heading |-> (dockPose.heading + turn) % DockFull]

\* execute_dock_servo and execute_undock: follow the path; the goal ends with it or with its
\* time. A dock goal that is late still hands over the command.
ExecuteDockPath(response) ==
  /\ dockGoal # "none"
  /\ \E left \in {goalPoints, Tail(goalPoints)}, cmd \in Commanded :
    /\ \/ AngleToGoal(Head(goalPoints), left, cmd)
       \/ GoToGoalPosition(Head(goalPoints), left, cmd)
       \/ GoalAngle(Head(goalPoints), left, cmd)
    /\ IF left = <<>> \/ dockLate
       THEN /\ goalPoints' = <<>> /\ dockGoal' = "none"
            /\ dockCmd' = IF dockGoal = "dock" /\ left # <<>> THEN cmd ELSE DockStill
       ELSE /\ goalPoints' = left /\ UNCHANGED dockGoal
            /\ dockCmd' = cmd
    /\ dockPose' = DockMotion(dockCmd', response) /\ dockPose'.x \in Places
    /\ UNCHANGED <<docked, dockLate, dockedDistance>>

\* A cancel, which the next execution honours.
CancelDockPath ==
  /\ dockGoal # "none"
  /\ dockGoal' = "none" /\ goalPoints' = <<>> /\ dockCmd' = DockStill
  /\ UNCHANGED <<dockPose, docked, dockLate, navigateState, dockedDistance>>

\* dock_status_callback: the dock sees the robot where its contacts touch.
DockStatusArrives ==
  /\ docked' = (dockPose = [x |-> Contact, heading |-> Facing])
  /\ UNCHANGED <<dockPose, dockGoal, dockLate, goalPoints, navigateState, dockedDistance, dockCmd>>

DockTimePasses ==
  /\ dockGoal # "none" /\ dockLate' = TRUE
  /\ UNCHANGED <<dockPose, docked, dockGoal, goalPoints, navigateState, dockedDistance, dockCmd>>

DockPathNext ==
  \/ AcceptDock \/ AcceptUndock \/ CancelDockPath
  \/ \E response \in DockResponses : ExecuteDockPath(response)
  \/ DockStatusArrives \/ DockTimePasses

DockPathSpec == DockPathInit /\ [][DockPathNext]_dockPathVars

-----------------------------------------------------------------------------
PathPoint == [x : Int, theta : 0..(DockFull - 1), backwards : BOOLEAN]

DockPathTypeOK ==
  /\ dockPose \in [x : Places, heading : 0..(DockFull - 1)]
  /\ docked \in BOOLEAN /\ dockLate \in BOOLEAN
  /\ dockGoal \in {"none", "dock", "undock"}
  /\ goalPoints \in Seq(PathPoint) /\ Len(goalPoints) <= 2
  /\ navigateState \in {"angle_to_goal", "go_to_goal_position", "goal_angle"}
  /\ dockedDistance \in [distance : Nat, calibrated : BOOLEAN]
  /\ dockCmd \in Commanded

\* A goal with time left leaves a point of its path only where the point is, turned the
\* way the point is: skids on the way to it, or while it turns, are made up for.
PointsAreReached ==
  [][\A response \in DockResponses :
       ExecuteDockPath(response) /\ ~dockLate /\ goalPoints' # goalPoints =>
         dockPose = [x |-> Head(goalPoints).x, heading |-> Head(goalPoints).theta]]_dockPathVars

\* The robot does not drive into the dock on its way to it: a dock goal that starts in
\* front of the docked position does not pass it by more than it slides in one execution,
\* whichever way it skids.
StopsAtDock ==
  [][dockGoal = "dock" /\ dockPose.x >= dockedDistance.distance - 1 =>
       dockPose'.x >= dockedDistance.distance - 1]_dockPathVars

\* A docking path is followed point by point, and into the dock no further than the dock.
FollowsDockPath == PointsAreReached /\ StopsAtDock
=============================================================================
