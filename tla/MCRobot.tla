------------------------------ MODULE MCRobot -------------------------------
(***************************************************************************)
(* The parts of the motion control node on their own, checked in one run:  *)
(* the variable part says which of them a behavior is about, the others    *)
(* stay in their initial states.                                           *)
(***************************************************************************)
EXTENDS MotionActions, DriveMotion, WallFollowStates, DockingPath, Battery, TLC

CONSTANTS arc, undock, wall, cliff

VARIABLE part

partVars == <<driveMotionVars, wfStatesVars, dockPathVars, batteryVars>>
robotVars == <<part, vars, partVars>>

-----------------------------------------------------------------------------
(* Values of the constants                                                 *)

MCServerOf == [g \in Goals |-> CASE g = arc -> "drive_arc"
                                 [] g = undock -> "undock"
                                 [] g = wall -> "wall_follow"]
MCTypeOf == [h \in Hazards |-> "cliff"]

\* Goals of every kind and sign, to where the robot stands, and over a whole turn
MCDriveRequests ==
  [kind : {"arc"}, angle : {-9, 3}]
    \cup [kind : {"rotate"}, angle : {11, 0}]
    \cup [kind : {"distance"}, distance : {-3, 4}]
    \cup [kind : {"navigate"}, x : {-3, 3}, heading : {3}, achieve : BOOLEAN]

\* Nothing, a wall beside, and one in front as well
MCIrVectors ==
  {<<>>, "side_left" :> 3 @@ "right" :> 2,
   "front_left" :> 2 @@ "side_left" :> 2 @@ "right" :> 1}

MCPlaces == 0 .. 5

-----------------------------------------------------------------------------
MCInit ==
  /\ part \in {"actions", "drive", "wall", "path", "battery"}
  /\ Init /\ DriveMotionInit /\ WfStatesInit /\ DockPathInit /\ BatteryInit
  /\ part = "actions" \/ ~(current_behavior.stop_on_new_behavior \/ current_behavior.apply_backup_limits)

Actions == part = "actions" /\ Next /\ UNCHANGED partVars
Drive ==
  /\ part = "drive" /\ DriveMotionNext
  /\ UNCHANGED <<vars, wfStatesVars, dockPathVars, batteryVars>>
Wall ==
  /\ part = "wall" /\ WfStatesNext
  /\ UNCHANGED <<vars, driveMotionVars, dockPathVars, batteryVars>>
Path ==
  /\ part = "path" /\ DockPathNext
  /\ UNCHANGED <<vars, driveMotionVars, wfStatesVars, batteryVars>>
BatteryPart ==
  /\ part = "battery" /\ BatteryNext
  /\ UNCHANGED <<vars, driveMotionVars, wfStatesVars, dockPathVars>>

MCNext ==
  /\ UNCHANGED part
  /\ Actions \/ Drive \/ Wall \/ Path \/ BatteryPart

\* The control timer fires, time passes, the IR sensors go on publishing and a robot that is
\* told to move does.
RobotFairness ==
  /\ Fairness
  /\ WF_driveMotionVars(part = "drive" /\ DriveTick("obeys"))
  /\ WF_wfStatesVars(part = "wall" /\ WfExecute)
  /\ WF_wfStatesVars(part = "wall" /\ \E v \in IrVectors : WfIrIntensity(v))

MCSpec == MCInit /\ [][MCNext]_robotVars /\ RobotFairness

-----------------------------------------------------------------------------
\* The types of all parts (MotionActions has its own run).
PartTypesOK ==
  /\ DriveMotionTypeOK /\ WfStatesTypeOK /\ DockPathTypeOK /\ BatteryTypeOK
=============================================================================
