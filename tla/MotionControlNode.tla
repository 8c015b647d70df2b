------------------------- MODULE MotionControlNode --------------------------
(***************************************************************************)
(* The motion control node (motion_control_node.cpp): its 40 Hz control    *)
(* tick, teleoperation, backup buffer, emergency stop, kidnap status and   *)
(* safety parameters, around the behaviors of MotionActions.               *)
(*                                                                         *)
(* The robot drives along one line: a velocity is a signed integer and     *)
(* the pose a position. Rotation, which bound_command_by_limits clips like *)
(* the rest, and the 62 Hz backup warning, which nothing here reads, are   *)
(* left out. Between two ticks the robot travels at most one unit of       *)
(* length: 5 cm, and at most 0.46 m/s for 25 ms.                           *)
(***************************************************************************)
EXTENDS MotionActions, Integers, Sequences

CONSTANTS
  Speeds,          \* velocities that clients and behaviors command
  BackupStop,      \* BACKUP_BUFFER_STOP_THRESHOLD, in units of length
  SafetyOnSpeed,   \* SAFETY_ON_MAX_SPEED
  SafetyOffSpeed,  \* SAFETY_OFF_MAX_SPEED
  PoseBound,       \* bound on the position, for model checking
  ParameterLists   \* lists of parameters that clients set atomically

ASSUME NodeAssumption == /\ Speeds \subseteq Int /\ 0 \in Speeds
                         /\ BackupStop \in Nat
                         /\ SafetyOnSpeed \in Nat /\ SafetyOffSpeed \in Nat
                         /\ PoseBound \in Nat

SafetyModes == {"none", "backup_only", "full"}

ASSUME ParameterAssumption ==
  ParameterLists \subseteq
    Seq([name : {"safety_override"}, value : STRING]
          \cup [name : {"max_speed"}, value : Int] \cup [name : {"reflexes"}])

VARIABLES
  last_teleop_cmd,       \* last_teleop_cmd_
  teleop_stale,          \* wheels_stop_threshold_ has passed since last_teleop_ts_
  e_stop_engaged,        \* e_stop_engaged_
  last_kidnap,           \* last_kidnap_
  safety_override_mode,  \* safety_override_mode_
  max_speed,             \* max_speed_
  parameters,            \* the node's parameters, as clients read them
  pose,                  \* current_state_.pose
  last_backup_pose,      \* last_backup_pose_
  backup_buffer,         \* backup_buffer_
  cmd_out,               \* the last command published to the wheels
  \* history
  moved,                 \* the robot has travelled since the last tick
  teleop_lapsed,         \* last_teleop_cmd came before a behavior, or long ago
  only_limited           \* no command to reverse was exempt from the backup limit

teleopVars == <<last_teleop_cmd, teleop_stale, teleop_lapsed>>
safetyVars == <<safety_override_mode, max_speed>>
backupVars == <<last_backup_pose, backup_buffer>>
nodeVars == <<teleopVars, safetyVars, backupVars, e_stop_engaged, last_kidnap, parameters,
              pose, cmd_out, moved, only_limited>>
allVars == <<vars, nodeVars>>

Positions == -PoseBound .. PoseBound

NodeTypeOK ==
  /\ TypeOK
  /\ last_teleop_cmd \in Speeds
  /\ teleop_stale \in BOOLEAN /\ teleop_lapsed \in BOOLEAN
  /\ e_stop_engaged \in BOOLEAN /\ last_kidnap \in BOOLEAN
  /\ safety_override_mode \in SafetyModes
  /\ max_speed \in {SafetyOnSpeed, SafetyOffSpeed}
  /\ parameters \in [safety_override : SafetyModes, max_speed : Int]
  /\ pose \in Positions /\ last_backup_pose \in Positions
  /\ backup_buffer \in Int /\ backup_buffer <= BackupStop
  /\ cmd_out \in Int
  /\ moved \in BOOLEAN /\ only_limited \in BOOLEAN

SpeedOf(mode) == IF mode = "full" THEN SafetyOffSpeed ELSE SafetyOnSpeed

\* The mode may be overridden by the launch file's parameters.
NodeInit ==
  /\ Init
  /\ last_teleop_cmd = 0 /\ teleop_stale = FALSE /\ teleop_lapsed = FALSE
  /\ e_stop_engaged = FALSE /\ last_kidnap = FALSE
  /\ safety_override_mode \in SafetyModes
  /\ max_speed = SpeedOf(safety_override_mode)
  /\ parameters = [safety_override |-> safety_override_mode, max_speed |-> SafetyOnSpeed]
  /\ pose = 0 /\ last_backup_pose = 0 /\ backup_buffer = 0
  /\ cmd_out = 0
  /\ moved = FALSE /\ only_limited = TRUE
-----------------------------------------------------------------------------
(* The control tick *)

Lesser(a, b) == IF a < b THEN a ELSE b

\* Mutant: reversing is still allowed with an empty buffer.
BoundOffByOne(v) ==
  IF safety_override_mode = "none" /\ backup_buffer < 0 /\ v < 0 THEN 0
  ELSE IF v > max_speed THEN max_speed
  ELSE IF v < -max_speed THEN -max_speed ELSE v

\* bound_command_by_limits
Bound(v) ==
  IF safety_override_mode = "none" /\ backup_buffer <= 0 /\ v < 0 THEN 0
  ELSE IF v > max_speed THEN max_speed
  ELSE IF v < -max_speed THEN -max_speed ELSE v

\* Mutant: the buffer grows as far as the robot drives forward.
UpdateBackupBufferUncapped ==
  /\ backup_buffer' = backup_buffer + (pose - last_backup_pose)
  /\ last_backup_pose' = pose

\* The max_speed parameter reports max_speed_, from the next tick on.
ReportMaxSpeed == parameters' = [parameters EXCEPT !.max_speed = max_speed]

UpdateBackupBuffer ==
  /\ backup_buffer' = Lesser(backup_buffer + (pose - last_backup_pose), BackupStop)
  /\ last_backup_pose' = pose

\* What a tick does with its command: the backup buffer is updated after the
\* command was bounded.
Publish(v, limited) ==
  /\ ReportMaxSpeed
  /\ UpdateBackupBuffer
  /\ cmd_out' = IF e_stop_engaged THEN 0 ELSE v
  /\ only_limited' = (only_limited /\ (v < 0 => limited /\ safety_override_mode = "none"))
  /\ moved' = FALSE
  /\ UNCHANGED <<safetyVars, e_stop_engaged, last_kidnap, pose>>

ResetLastTeleopCmd ==
  /\ last_teleop_cmd' = 0
  /\ teleop_stale' = FALSE

\* Mutant: a behavior leaves the last teleoperation command in place.
ControlBehaviorKeepsTeleop ==
  /\ RunBehavior
  /\ \E v \in Speeds : LET limited == current_behavior.apply_backup_limits IN
       Publish(IF limited THEN Bound(v) ELSE v, limited)
  /\ teleop_lapsed' = TRUE
  /\ UNCHANGED <<last_teleop_cmd, teleop_stale>>

\* The tick runs the behavior in the slot, which returns any velocity, and forgets
\* the teleoperation command. An exception in the behavior ends the tick.
ControlBehavior ==
  /\ RunBehavior
  /\ \/ /\ node_up'
        /\ \E v \in Speeds : LET limited == current_behavior.apply_backup_limits IN
             Publish(IF limited THEN Bound(v) ELSE v, limited)
        /\ ResetLastTeleopCmd
        /\ teleop_lapsed' = TRUE
     \/ /\ ~node_up'
        /\ ReportMaxSpeed
        /\ UNCHANGED <<teleopVars, safetyVars, backupVars, e_stop_engaged, last_kidnap, pose,
                       cmd_out, moved, only_limited>>

\* Mutant: the age of the command is not checked.
ControlTeleopUntimed ==
  /\ node_up
  /\ ~has_behavior
  /\ Publish(Bound(last_teleop_cmd), TRUE)
  /\ UNCHANGED <<vars, teleopVars>>

\* Without a behavior the tick drives by the last teleoperation command, and stops
\* when none has come for a while.
ControlTeleop ==
  /\ node_up
  /\ ~has_behavior
  /\ \/ /\ teleop_stale
        /\ Publish(0, FALSE)
        /\ ResetLastTeleopCmd
        /\ UNCHANGED teleop_lapsed
     \/ /\ ~teleop_stale
        /\ Publish(Bound(last_teleop_cmd), TRUE)
        /\ UNCHANGED teleopVars
  /\ UNCHANGED vars

ControlRobot == ControlBehavior \/ ControlTeleop
-----------------------------------------------------------------------------
(* The other callbacks *)

\* commanded_velocity_callback and its unstamped twin: ignored during a behavior.
CommandedVelocity(v) ==
  /\ node_up
  /\ ~has_behavior
  /\ last_teleop_cmd' = v
  /\ teleop_stale' = FALSE
  /\ teleop_lapsed' = FALSE
  /\ UNCHANGED <<vars, safetyVars, backupVars, e_stop_engaged, last_kidnap, parameters,
                 pose, cmd_out, moved, only_limited>>

\* wheels_stop_threshold_ passes.
TeleopExpires ==
  /\ node_up
  /\ ~teleop_stale
  /\ teleop_stale' = TRUE
  /\ teleop_lapsed' = TRUE
  /\ UNCHANGED <<vars, last_teleop_cmd, safetyVars, backupVars, e_stop_engaged, last_kidnap,
                 parameters, pose, cmd_out, moved, only_limited>>

\* robot_pose_callback, after the robot did or did not follow the last command.
NodePose ==
  /\ RobotPose
  /\ \/ UNCHANGED <<pose, moved>>
     \/ /\ ~moved
        /\ cmd_out # 0
        /\ pose' = IF cmd_out > 0 THEN pose + 1 ELSE pose - 1
        /\ pose' \in Positions
        /\ moved' = TRUE
  /\ UNCHANGED <<teleopVars, safetyVars, backupVars, e_stop_engaged, last_kidnap, parameters,
                 cmd_out, only_limited>>

\* Mutant: the buffer is refilled when the robot is picked up.
KidnapRefills(is_kidnapped) ==
  /\ node_up
  /\ backup_buffer' = IF is_kidnapped /\ ~last_kidnap THEN BackupStop ELSE backup_buffer
  /\ last_kidnap' = is_kidnapped
  /\ UNCHANGED <<vars, teleopVars, safetyVars, last_backup_pose, e_stop_engaged, parameters,
                 pose, cmd_out, moved, only_limited>>

\* Mutant: a kidnapped robot drops its behavior.
KidnapDropsBehavior(is_kidnapped) ==
  /\ node_up
  /\ has_behavior' = (has_behavior /\ ~is_kidnapped)
  /\ last_kidnap' = is_kidnapped
  /\ UNCHANGED <<current_behavior, drive_goal_running, goal_status, dockVars, wfVars, reflexVars,
                 arrived, teleopVars, safetyVars, backupVars, e_stop_engaged, parameters,
                 pose, cmd_out, moved, only_limited>>

\* kidnap_callback: the buffer is emptied when the robot is put down.
Kidnap(is_kidnapped) ==
  /\ node_up
  /\ backup_buffer' = IF ~is_kidnapped /\ last_kidnap THEN 0 ELSE backup_buffer
  /\ last_kidnap' = is_kidnapped
  /\ UNCHANGED <<vars, teleopVars, safetyVars, last_backup_pose, e_stop_engaged, parameters,
                 pose, cmd_out, moved, only_limited>>

EStop(e_stop_on) ==
  /\ node_up
  /\ e_stop_engaged' = e_stop_on
  /\ UNCHANGED <<vars, teleopVars, safetyVars, backupVars, last_kidnap, parameters, pose,
                 cmd_out, moved, only_limited>>

\* The last entry of list that Concerns holds of.
LastEntry(list, Concerns(_)) ==
  list[CHOOSE i \in DOMAIN list :
         Concerns(list[i]) /\ \A j \in DOMAIN list : Concerns(list[j]) => j <= i]

Sets(list, Concerns(_)) == \E i \in DOMAIN list : Concerns(list[i])

IsMode(e) == e.name = "safety_override"
IsSpeed(e) == e.name = "max_speed"
IsValidMode(e) == IsMode(e) /\ e.value \in SafetyModes
IsHandled(e) == IsMode(e) \/ IsSpeed(e)

\* set_parameters_callback: every valid mode in the list takes effect as the list is
\* read; the list as a whole stands or falls with the last entry it knows.
SetParameters(list) ==
  /\ node_up
  /\ safety_override_mode' = IF Sets(list, IsValidMode) THEN LastEntry(list, IsValidMode).value
                                                        ELSE safety_override_mode
  /\ max_speed' = IF Sets(list, IsValidMode) THEN SpeedOf(safety_override_mode') ELSE max_speed
  /\ \/ /\ Sets(list, IsHandled) /\ IsValidMode(LastEntry(list, IsHandled))
        /\ parameters' =
             [ safety_override |-> LastEntry(list, IsMode).value,
               max_speed |-> IF Sets(list, IsSpeed) THEN LastEntry(list, IsSpeed).value
                                                    ELSE parameters.max_speed ]
     \/ /\ ~(Sets(list, IsHandled) /\ IsValidMode(LastEntry(list, IsHandled)))
        /\ UNCHANGED parameters
  /\ UNCHANGED <<vars, teleopVars, backupVars, e_stop_engaged, last_kidnap, pose, cmd_out,
                 moved, only_limited>>

\* The callbacks and clocks of MotionActions that the node adds nothing to.
ActionCallback ==
  /\ \/ \E g \in Goals : DriveGoal(g) \/ DockGoal(g) \/ WallFollowGoal(g) \/ Cancel(g)
     \/ \E msg \in SUBSET Hazards, moving \in BOOLEAN : HazardVector(msg, moving)
     \/ DockStatus
     \/ TimePasses
  /\ teleop_lapsed' = (teleop_lapsed \/ has_behavior')
  /\ UNCHANGED <<last_teleop_cmd, teleop_stale, safetyVars, backupVars, e_stop_engaged,
                 last_kidnap, parameters, pose, cmd_out, moved, only_limited>>

NodeNext ==
  \/ ControlRobot
  \/ ActionCallback
  \/ \E v \in Speeds : CommandedVelocity(v)
  \/ TeleopExpires
  \/ NodePose
  \/ \E b \in BOOLEAN : Kidnap(b) \/ EStop(b)
  \/ \E list \in ParameterLists : SetParameters(list)

NodeSpec == NodeInit /\ [][NodeNext]_allVars

\* The control timer keeps firing and time passes.
NodeFairSpec == NodeSpec /\ WF_allVars(ControlRobot) /\ WF_allVars(TeleopExpires)
-----------------------------------------------------------------------------
\* What the node serves on its action servers is what MotionActions says: nothing in
\* the rest of the node touches the slot or a goal.
ServesActions == Spec

\* A teleoperation command is never carried out after a behavior has had the robot
\* since it was sent, nor after wheels_stop_threshold_: not when the behavior
\* ends, not when the emergency stop is released.
TeleopNotReplayed ==
  [][ ControlTeleop /\ cmd_out' # 0 => ~teleop_lapsed ]_allVars

\* The pose behind which the robot has no room to back up.
BackupLimit == last_backup_pose - backup_buffer

\* The limit follows the robot forward and never falls back, except that the robot
\* was put down.
BackupLimitAdvances ==
  [][ BackupLimit' >= BackupLimit \/ (last_kidnap /\ ~last_kidnap') ]_allVars

\* As long as every reversing command was subject to the limit, the robot is not
\* more than a tick's travel behind it, although each command is checked against
\* the buffer of the tick before.
StaysNearBackupLimit == only_limited => pose >= BackupLimit - 1

\* A client that stops sending velocities cannot leave the wheels turning: the robot
\* is commanded to stop, or a behavior drives it, again and again.
SilenceStopsRobot ==
  (<>[][ \A v \in Speeds : ~CommandedVelocity(v) ]_allVars)
    => []<>(cmd_out = 0 \/ has_behavior \/ ~node_up)

\* The backup limit holds and is not moved back by driving.
BackupLimitHolds == []StaysNearBackupLimit /\ BackupLimitAdvances
=============================================================================
