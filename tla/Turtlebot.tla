----------------------------- MODULE Turtlebot ------------------------------
(***************************************************************************)
(* The odometry of the TurtleBot3 node: the control table of the board is  *)
(* read over a line that may fail, its sensors are published out of the    *)
(* last table, and the odometry sums up what it receives of them. Angles   *)
(* are counted so that the wheels' difference is the angle turned, and a   *)
(* path in sums of both wheels.                                            *)
(***************************************************************************)
EXTENDS Angles, Sequences

CONSTANTS
  TbFullTurn,
  FirstWheels,     \* what the wheels may have counted when the node starts
  DriveSteps,      \* how often the robot moves
  TbDepth          \* messages a subscription keeps

ASSUME TurtlebotAssumption ==
  /\ {TbFullTurn, DriveSteps, TbDepth} \subseteq Nat \ {0}
  /\ TbFullTurn % 4 = 0
  /\ FirstWheels \subseteq [left : Int, right : Int]

VARIABLES
  wheels, yaw,       \* what the board would answer: the positions and the orientation
  steps_left,
  table,             \* read_data_
  joints,            \* the statics of JointState: last_diff_position and last_position
  sensor_msgs,       \* joint states, each with the orientation of the same stamp
  use_imu,           \* use_imu_
  odom               \* the odometry, below

turtlebotVars == <<wheels, yaw, steps_left, table, joints, sensor_msgs, use_imu, odom>>

Joints == [left : Int, right : Int]
Yaws == (1 - TbFullTurn \div 2)..(TbFullTurn \div 2)
Readings == [position : Joints, orientation : Yaws]
NoJoints == [left |-> 0, right |-> 0]
Path(a, b) == (b.left - a.left) + (b.right - a.right)
TurnOf(a, b) == (b.right - a.right) - (b.left - a.left)

\* timed: a message has been received, so the next one is some time after another; last:
\* last_joint_positions; theta: last_theta; path, heading: robot_pose_. from is not in the
\* code: the position of the first message.
NoOdometry ==
  [timed |-> FALSE, last |-> NoJoints, theta |-> 0, path |-> 0, heading |-> 0,
   from |-> NoJoints]

TurtlebotTypeOK ==
  /\ wheels \in Joints /\ yaw \in Yaws /\ steps_left \in 0..DriveSteps
  /\ table \in Readings
  /\ joints \in [diff : Joints, last : Joints]
  /\ sensor_msgs \in Seq(Readings) /\ Len(sensor_msgs) <= TbDepth
  /\ use_imu \in BOOLEAN
  /\ odom.last \in Joints /\ odom.from \in Joints /\ odom.theta \in Int
  /\ odom.timed \in BOOLEAN /\ odom.path \in Int /\ odom.heading \in Int

TurtlebotInit ==
  /\ wheels \in FirstWheels /\ yaw = 0 /\ steps_left = DriveSteps
  /\ table = [position |-> NoJoints, orientation |-> 0]
  /\ joints = [diff |-> NoJoints, last |-> NoJoints]
  /\ sensor_msgs = <<>>
  /\ use_imu \in BOOLEAN
  /\ odom = NoOdometry

-----------------------------------------------------------------------------
\* The robot drives straight on, or turns on the spot.
WheelsMove(left, right) ==
  /\ steps_left > 0 /\ steps_left' = steps_left - 1
  /\ wheels' = [left |-> wheels.left + left, right |-> wheels.right + right]
  /\ yaw' = ShortestTurn(TbFullTurn, 0, yaw + right - left)
  /\ UNCHANGED <<table, joints, sensor_msgs, use_imu, odom>>

-----------------------------------------------------------------------------
\* read_data_set: a reading that fails leaves the table as it was.
ReadDataSet(ok) ==
  table' = IF ok THEN [position |-> wheels, orientation |-> yaw] ELSE table

Kept(queue, message) ==
  LET all == Append(queue, message)
  IN  IF Len(all) > TbDepth THEN Tail(all) ELSE all

\* Mutant: the difference is not added up.
PositionsLast(reading) ==
  [diff |-> [w \in {"left", "right"} |-> reading.position[w] - joints.last[w]],
   last |-> reading.position]

\* JointState::publish: the sum of the differences is sent before the latest is added to it.
PositionsAfter(reading) ==
  [diff |-> [w \in {"left", "right"} |-> joints.diff[w] + reading.position[w] - joints.last[w]],
   last |-> reading.position]

PublishTimer(ok) ==
  /\ ReadDataSet(ok)
  /\ joints' = PositionsAfter(table')
  /\ sensor_msgs' =
       Kept(sensor_msgs, [position |-> joints.diff, orientation |-> table'.orientation])
  /\ UNCHANGED <<wheels, yaw, steps_left, use_imu, odom>>

MessageLost ==
  /\ sensor_msgs # <<>>
  /\ sensor_msgs' = Tail(sensor_msgs)
  /\ UNCHANGED <<wheels, yaw, steps_left, table, joints, use_imu, odom>>

-----------------------------------------------------------------------------
\* Mutant: the last positions are taken only along with a pose.
UpdateJointStateTimed(position) == IF odom.timed THEN position ELSE odom.last

\* update_joint_state
UpdateJointState(position) == position

\* calculate_odometry: the angle turned since the last message. The orientation is read off
\* as an angle within half a turn of zero, and so jumps by a whole turn at a half.
Theta(message) ==
  IF use_imu THEN message.orientation ELSE TurnOf(odom.last, message.position)
DeltaTheta(theta) == IF use_imu THEN theta - odom.theta ELSE theta

\* joint_state_callback and joint_state_and_imu_callback; the first message, after no time
\* at all, moves nothing.
OdometryCallback ==
  /\ sensor_msgs # <<>>
  /\ LET message == Head(sensor_msgs)
         theta == Theta(message)
     IN  odom' = [timed |-> TRUE,
                  last |-> UpdateJointState(message.position),
                  theta |-> IF odom.timed THEN theta ELSE odom.theta,
                  path |-> odom.path
                             + (IF odom.timed THEN Path(odom.last, message.position) ELSE 0),
                  heading |-> odom.heading
                             + (IF odom.timed THEN DeltaTheta(theta) ELSE 0),
                  from |-> IF odom.timed THEN odom.from ELSE message.position]
  /\ sensor_msgs' = Tail(sensor_msgs)
  /\ UNCHANGED <<wheels, yaw, steps_left, table, joints, use_imu>>

-----------------------------------------------------------------------------
TurtlebotNext ==
  \/ \E left \in {-1, 1} : WheelsMove(left, 1)
  \/ \E ok \in BOOLEAN : PublishTimer(ok)
  \/ OdometryCallback \/ MessageLost

\* Once the robot stands, the odometry has the path and the heading of its wheels since the
\* first message, however many readings failed, were published twice or were lost on the way.
OdometryAgrees ==
  /\ steps_left = 0 /\ odom.timed
  /\ odom.path = Path(odom.from, wheels)
  /\ IF use_imu THEN ShortestTurn(TbFullTurn, odom.heading, yaw) = 0
     ELSE odom.heading = TurnOf(odom.from, wheels)

OdometryCatchesUp == (steps_left = 0) ~> []OdometryAgrees
=============================================================================
