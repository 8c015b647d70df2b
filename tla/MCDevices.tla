----------------------------- MODULE MCDevices ------------------------------
(***************************************************************************)
(* The motions of a coverage run, and the programs between the robot and   *)
(* what is outside: the republisher, the joystick, the wheel controller,   *)
(* and the odometry and the protocol of another robot. As in MCRobot, the  *)
(* variable part says which one a behavior is about.                       *)
(***************************************************************************)
EXTENDS Republisher, JoyTeleop, DiffDrive, ByteStuffing, CoverageMotion, Turtlebot, TLC

VARIABLE part

devicesVars ==
  <<part, republisherVars, joyTeleopVars, diffDriveVars, stuffingVars,
    coverageMotionVars, turtlebotVars>>

-----------------------------------------------------------------------------
(* Values of the constants                                                 *)

JoyConf(n, a, c, s) == [node |-> n, autorepeat |-> a, coalesce |-> c, sticky_buttons |-> s]
MCJoyConfs ==
  {JoyConf("joy", 1, 1, FALSE), JoyConf("game_controller", 0, 1, FALSE),
   JoyConf("game_controller", 0, 1, TRUE)}
TeleopConf(r, i, t) == [require_enable_button |-> r, inverted_reverse |-> i, turbo |-> t]
MCTeleopConfs == {TeleopConf(TRUE, FALSE, FALSE), TeleopConf(TRUE, TRUE, TRUE)}
MCStickPlaces == {-3, 0, 2}
MCHatPlaces == {{}, {"left"}}

MCCmdVels == {-1, 3}
MCStampAges == -1 .. 1

DriveConfig(max, min) ==
  [kind |-> "drive_straight", max_distance |-> max, min_distance |-> min]
RotateConfig(target, reflexes) ==
  [kind |-> "rotate", target_rotation |-> target, robot_has_reflexes |-> reflexes]
\* Half a turn is a rotation that may be stepped over.
MCMotionConfigs ==
  {DriveConfig(3, 1), [kind |-> "spiral"]}
    \cup {RotateConfig(t, r) : t \in {-2, 4}, r \in BOOLEAN}
Opcode(s, o) == [sensor |-> s, opcode |-> o]
MCOpcodeBuffers ==
  {{}, {Opcode("directional_front", "dock"), Opcode("omni", "virtual_wall")},
   {Opcode("directional_front", "dock"), Opcode("omni", "dock")}}

MCFirstWheels == {NoJoints, [left |-> 1, right |-> -1]}

-----------------------------------------------------------------------------
MCInit ==
  /\ part \in {"republisher", "joystick", "gamepad", "wheels", "protocol", "coverage",
              "odometry"}
  /\ RepublisherInit /\ DiffDriveInit /\ JoyTeleopInit /\ ByteStuffingInit
  /\ joy_conf.node = IF part = "gamepad" THEN "game_controller" ELSE "joy"
  /\ part = "joystick" \/ teleop_conf = TeleopConf(TRUE, FALSE, FALSE)
  /\ CoverageMotionInit /\ TurtlebotInit
  /\ part = "odometry" \/ (~use_imu /\ wheels = NoJoints)
  /\ part = "protocol" \/ params = [i \in 1 .. 5 |-> FF]

Republish ==
  /\ part = "republisher" /\ RepublisherNext
  /\ UNCHANGED <<joyTeleopVars, diffDriveVars, stuffingVars,
                 coverageMotionVars, turtlebotVars>>
\* joy_node and the teleoperation behind it, with two places of the stick
Joystick ==
  /\ part = "joystick" /\ JoyTeleopNext /\ pad'.stick \in {0, 2}
  /\ UNCHANGED <<republisherVars, diffDriveVars, stuffingVars,
                 coverageMotionVars, turtlebotVars>>
\* game_controller_node alone, with three
Gamepad ==
  /\ part = "gamepad" /\ JoyNodeNext /\ TeleopUnmoved
  /\ UNCHANGED <<republisherVars, diffDriveVars, stuffingVars,
                 coverageMotionVars, turtlebotVars>>
Wheels ==
  /\ part = "wheels" /\ DiffDriveNext
  /\ UNCHANGED <<republisherVars, joyTeleopVars, stuffingVars,
                 coverageMotionVars, turtlebotVars>>
Protocol ==
  /\ part = "protocol" /\ ByteStuffingNext
  /\ UNCHANGED <<republisherVars, joyTeleopVars, diffDriveVars,
                 coverageMotionVars, turtlebotVars>>
Coverage ==
  /\ part = "coverage" /\ CoverageMotionNext
  /\ UNCHANGED <<republisherVars, joyTeleopVars, diffDriveVars,
                 stuffingVars, turtlebotVars>>
Odometry ==
  /\ part = "odometry" /\ TurtlebotNext
  /\ UNCHANGED <<republisherVars, joyTeleopVars, diffDriveVars,
                 stuffingVars, coverageMotionVars>>

MCNext ==
  /\ UNCHANGED part
  /\ Republish \/ Joystick \/ Gamepad \/ Wheels \/ Protocol \/ Coverage \/ Odometry

\* Time passes, threads are scheduled and messages that are not lost arrive; nothing is assumed
\* of what people press and of what a robot answers, and a robot told to move does.
DevicesFairness ==
  /\ \A g \in UserGoals :
       /\ WF_republisherVars(part = "republisher" /\ republisher_up /\ ForwarderStep(g))
       /\ WF_republisherVars(part = "republisher" /\ republisher_up /\ GoalTimesOut(g))
  /\ WF_joyTeleopVars(part \in {"joystick", "gamepad"} /\ EventThread /\ TeleopUnmoved)
  /\ SF_joyTeleopVars(part \in {"joystick", "gamepad"} /\ JoyTime /\ TeleopUnmoved)
  /\ WF_joyTeleopVars(part = "joystick" /\ JoyCallback)
  /\ WF_diffDriveVars(part = "wheels" /\ DdUpdate)
  /\ WF_diffDriveVars(part = "wheels" /\ dd_failed /\ DdDeactivate)
  /\ WF_coverageMotionVars(part = "coverage" /\ ObeyedTick)
  /\ WF_coverageMotionVars(part = "coverage" /\ MotionTimePasses)
  /\ WF_turtlebotVars(part = "odometry" /\ PublishTimer(TRUE))
  /\ SF_turtlebotVars(part = "odometry" /\ OdometryCallback)

MCSpec == MCInit /\ [][MCNext]_devicesVars /\ DevicesFairness

-----------------------------------------------------------------------------
\* The types of all parts.
DeviceTypesOK ==
  /\ RepublisherTypeOK /\ JoyTeleopTypeOK /\ DiffDriveTypeOK
  /\ ByteStuffingTypeOK /\ CoverageMotionTypeOK /\ TurtlebotTypeOK
=============================================================================
