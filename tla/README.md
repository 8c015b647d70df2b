# TLA+ verification of the robot workspace

This directory holds TLA+ models of the robot programs in `src/workspaces`, the TLC
configurations that check them on small instances and TLAPS proofs of the properties that
matter most. Everything is translated from the source; `PROJECT.json` maps each definition to
the lines it models.

## 1. The system

The workspace builds four groups of ROS 2 programs (`src/workspaces/build_all.sh`): the
Create 3 robot and its simulation, joystick teleoperation, a TurtleBot 3 and a laser scanner.

### Create 3 (`workspaces/create3`)

| component | state it keeps | operations | hard part |
|---|---|---|---|
| behavior scheduler (`behaviors_scheduler.hpp`) | one slot: `has_behavior_`, `current_behavior_` | `set_behavior`, `run_behavior` | the slot outlives its behavior and holds its goal handle; clean-up of the replaced behavior runs inside `set_behavior` |
| drive goal servers (`drive_goal_behaviors`) | a running flag per server, the goal's remaining distance or angle, the navigation state | goal, cancel, accepted, execute; arc, distance, rotation, navigate iterations | preemption by another drive goal, by a reflex, by itself; cancel while being replaced |
| dock / undock servers (`docking_behavior.cpp`) | one flag and one path controller for both, dock status, start time | goal, cancel, accepted, execute, dock status | refusal while a reflex runs; dock status changing during the action; timeout |
| wall follow server (`wall_follow_behavior.cpp`, `wall_follow_states.cpp`) | running flag, max runtime, follow state (spiral, servo, obstacle) | goal, cancel, accepted, execute | cancel against timeout; lost wall |
| reflex (`reflex_behavior.cpp`) | hazards of the last trigger, start poses and times, last command | `update_hazards`, `execute_reflex`, parameters | hazards cleared before the first execution, refused triggers, continuous reflexes |
| path controller (`simple_goal_controller.hpp`) | the path and the navigation state | `initialize_goal`, `reset`, `get_velocity_for_position` | points reached in one step, state carried from one goal to the next |
| motion control node (`motion_control_node.cpp`) | last teleop command and time, backup buffer, safety mode, e-stop | control tick, teleop, pose, kidnap, hazards, parameters | stale teleop, backup limit checked with the previous tick's buffer, parameters set in one atomic list |
| robot state publishers (`kidnap_estimator`, `hazards_vector`, `ir_intensity`, `ui_mgr`, `wheels`, `mock`) | the latest message of each topic, timers | subscriptions, timers | vectors published while their parts change |
| coverage application (`create3_coverage`) | latest sensor data, `m_is_running`, the behavior state machine | goal, cancel, a thread per goal, subscriptions | a second goal accepted before the first thread cleaned up, dock cancel before the goal response |
| republisher (`create3_republisher`) | a thread for each forwarded goal | goal, cancel, result | the result, a cancel and a time-out race; teleop, dance and SLAM beside it are scripts |
| `ros2_controllers`, `gz_ros2_control` | life cycle, the last command, the last speeds | update loop against callbacks | a command that outlives a deactivation or falls silent |
| simulation (`irobot_create_gz`), toolbox, descriptions, messages | — | sensor conversion | — |

### Control (`workspaces/control`), sensors (`workspaces/sensors`), TurtleBot 3 (`workspaces/turtlebot3`)

| component | state it keeps | operations | hard part |
|---|---|---|---|
| `teleop_twist_joy` | `sent_disable_msg` | joy callback, parameter change | one stop after the enable button is released, over a topic that drops messages |
| `joy`, `joy_linux`, `spacenav`, `wiimote`, `ps3joy` | last joy message, autorepeat timers | device events, timers | coalescing against autorepeat, device unplugged |
| `rplidar_ros` | scan buffers, motor state, packet decoder state | node loop, services, protocol decode | resynchronising a byte stream, scan start in the middle of a packet |
| `turtlebot3_node` | control table, sums of the wheel positions, odometry | services, timers, sensors | a reading that fails, a message that is lost, positions sent one reading late |
| `DynamixelSDK` | port in use, packet buffers | tx, rx, group sync/bulk | half-duplex port, timeouts; stuffing and unstuffing in place |
| `turtlebot3_example`, `turtlebot3_teleop` | scripts | — | — |

### How they interact

Clients send goals to the action servers of the motion control node. Every handler, the control
timer (40 Hz), the hazard, odometry, dock, kidnap and teleop subscriptions run on one
single-threaded executor (`rclcpp_components_register_node(... EXECUTABLE motion_control)`) in
the default mutually exclusive callback group. So each callback is one atomic step, and what is
hard is their order. The action servers and the reflex never call each other: they meet in the
scheduler's slot, and through the clean-up function it runs. The coverage node is different: it
spins its callbacks on one thread and runs every goal on a detached thread of its own.

## 2. The models

Two programs carry the workspace's own logic: the **motion control node** and the **coverage
node**. Both decide who may command the robot, so both are held against one abstract
specification, `MotionService`: a holder, and for each goal whether it is new, served or over.
A goal is turned down or served, at most one is served at a time, only stoppable goals may be
displaced, and no goal is served twice.

Who has the slot, and the service promised to clients:

| module | models | how state and actions correspond to the code |
|---|---|---|
| `MotionService` | the promise both nodes make to clients | `Serve`, `TurnDown`, `StartReflex`, `Release` |
| `BehaviorsScheduler` | `behaviors_scheduler.hpp` | `has_behavior`, `current_behavior` are the members; `TakeSlot` is `set_behavior` with the clean-up it runs (`AfterCleanup`, `AfterDisplacement`), `AcceptsBehavior` its first test. Overwriting the slot drops the last goal handle it kept, and rclcpp then cancels the goal of a dropped handle |
| `DriveGoals` | `drive_goal_behaviors.hpp`, the template of the arc, distance, rotation and navigation servers | `drive_goal_running[server]`; accepted, execute and end |
| `Docking` | `docking_behavior.cpp` | the shared flag, the dock status, a runtime limit that may elapse |
| `WallFollow` | `wall_follow_behavior.cpp` | goal refused, invalid side, accepted, execute |
| `ReflexTrigger` | `reflex_behavior.cpp`, `update_hazards` and the ends of `execute_reflex` | one action for a hazard vector: cached while a reflex runs, otherwise compared with the last trigger |
| `MotionActions` | the above on one executor | one action per callback, `RunBehavior` for the control timer |
| `MotionControlNode` | `motion_control_node.cpp` around it | `ControlRobot` is a tick (`ControlBehavior` or `ControlTeleop`, then `Publish`), and one action for each other callback |
| `CoverageStateMachine` | `coverage_state_machine.cpp` | an object of the class is a record, each `goto_` an operator on it; `Select` is what `execute` does before it executes the behavior |
| `CoverageNode` | `create3_coverage_node.cpp`, `dock-behavior.cpp`, `undock-behavior.cpp` | executor callbacks, one action each; the thread of a goal, `run[g]`, in seven actions between which other threads run; the docking servers are external |

What a behavior does once it has the slot, and the motion it commands. These modules look
inside what the modules above leave to the environment (`arrived`, the state an execution
returns), on a line of places and a coarse circle of headings (`Angles`):

| module | models | how state and actions correspond to the code |
|---|---|---|
| `DriveMotion` | `drive_goal_behaviors.cpp`, `initialize_goal` and `iterate_on_goal` of the four goals | `DriveTick` is an execution; `rotation` and `translation` are the members that measure; the robot may obey, skid or stand |
| `DockingPath` | the paths of `docking_behavior.cpp` and `simple_goal_controller.hpp` | `goalPoints` is the path, `navigateState` the stage; `ExecuteDockPath` is `get_velocity_for_position` with the pop of a reached point |
| `WallFollowStates` | `wall_follow_states.cpp` | `wf_state` is a record of the members of the current state object; `WfExecute` is the manager's `get_next_velocity`, all changes of state it makes included |
| `ReflexManoeuvre` | `reflex_behavior.cpp`, `execute_reflex`, `update_hazards` and the parameter callback | the start pose, the start of a chain of reflexes, the last command |
| `CoverageMotion` | `drive-straight-behavior.cpp`, `rotate-behavior.cpp`, `spiral-behavior.cpp`, `reflex-behavior.cpp`, `utils.cpp` of the coverage node | a behavior object is the record `motion`, a tick of the state machine is `ExecuteBehavior`; the line and the turns are the robot's |
| `Battery` | `robot_state.cpp` | the charge at the last change of dock status and the times since; `Charge` is what is published |

The programs between the robot and what is outside:

| module | models | how state and actions correspond to the code |
|---|---|---|
| `Republisher` | the actions of `republisher.cpp` | `forwarder[g]` is the program counter of the thread of goal g; the far server rejects, answers late or never |
| `JoyNode` | `joy.cpp` and `game_controller.cpp` | one event thread; `joy_conf.node` says which node, and where they differ; SDL queues the events of a device that may be pulled out |
| `JoyTeleop` | `teleop_twist_joy.cpp` behind a `JoyNode` | `JoyCallback` takes a message from a topic that keeps the last `JoyDepth` |
| `DiffDrive` | `diff_drive_controller.cpp` | life cycle, the callback in two steps (`DdCommandTaken`, `DdCommandWritten`) against the realtime update |
| `Turtlebot` | `odometry.cpp`, `joint_state.cpp`, `imu.cpp` and `dynamixel_sdk_wrapper.cpp` of `turtlebot3_node` | `PublishTimer(ok)` reads the board, or fails to, and publishes the table; `OdometryCallback` sums up what has not been lost |
| `ByteStuffing` | `addStuffing` and `removeStuffing` of `protocol2_packet_handler.cpp` | one action for each turn of a loop, on the packet as an array that is rewritten in place |

A step of the motion control models is a whole callback: its executor has one thread. The
coverage node's goal threads share variables with its executor without order, so its actions are
cut where another thread can see a difference. `ReadSensors` and `CheckStop` are separate
because the copy of the messages is taken under a lock and the cancel flag is read afterwards;
`Leave`, `CleanUp` and `Finish` are separate because `m_is_running` is cleared before the state
machine is cancelled and the goal ended; a client callback is two steps (`ResponseArrives`,
`ResponseAssigned`) because its two assignments are unordered with the reads of the run. A
callback that comes after its behavior object was destroyed writes through a dangling `this`:
`Assign` lets the write go nowhere, into whichever behavior object now lives, or end the node.

Some variables are not in the code. They remember what has happened, for the properties: `late`
and `failures` (`CoverageNode`), `teleop_lapsed`, `moved` and `only_limited`
(`MotionControlNode`), `turned` and `began` (`DriveMotion`), `wf_travelled` (`WallFollowStates`), `odom.from` (`Turtlebot`),
`stick_sent` (`JoyNode`). `arrived` stands for a behavior's own progress test where the module leaves it to
the environment.

## 3. Runs

| run | instance | shows |
|---|---|---|
| `motion_actions` | two goals of one drive server, a dock and a wall follow goal, one hazard | types, one goal served at a time (`OneActiveGoal`), running flags that agree with the slot (`ServersAgreeWithSlot`), cancels that are honoured, `MotionService` |
| `motion_node` | three parts, fair: the node with a dock goal, a hazard and one-way speeds; the node without goals, that drives both ways among five positions, with a hazard and safety modes; a reflex with two hazards | the node implements `MotionActions` (`ServesActions`); stale teleoperation is not replayed and silence stops the wheels; the robot stays within a tick of its backup limit, which only advances (`BackupLimitHolds`); a reflex keeps its distance and time (`ReflexIsContained`, `NoMotionAfterContinuousTime`) and ends |
| `robot_parts` | the slot with an arc, undock and wall follow goal, drive goals, wall follow states, dock paths and the battery, each on its own, fair | the slot is given back and cancelled goals end; a drive goal ends where it was asked to (`EndsWhereAsked`) and at all; a goal's wall follow states are its own and a lost wall is given up; a path is followed point by point and into the dock no further than the dock; the charge falls off the dock and rises on it |
| `devices` | the coverage motions, republisher, `joy_node` with the teleoperation behind it, `game_controller_node`, wheel controller, TurtleBot3 odometry, byte stuffing, each on its own, fair | motions that stay contained and end; clients told the truth and in time; a released button stops the robot over a lossy topic; buttons that are shown are held, and the stick is shown where it comes to rest (`JoystickIsShown`); wheels that obey limits and life cycle, and stop for a silent client; odometry that catches up with failed and lost readings; no header in a packet that is stuffed |
| `coverage_two_runs` | two coverage goals that undock and spiral | one run holds `m_is_running`; the node keeps `MotionService` with nothing stoppable |
| `coverage_one_run` | one coverage goal, every behavior, evade limit 1, fair | a run stops promptly, gives up evading, ends when cancelled and after `max_runtime` |
| `self_preemption`, `refused_reflex` | the smallest instances of the motion node | the differences of section 6 |
| `rejection_is_real`, `cleanup_cancels_docking` | one or two coverage goals | the differences of section 6 |
| `params_survive` | packets of seven parameters | the difference of section 6 |
| `joy_coalesces` | the instance of `devices`; one movement of the stick | the difference of section 6 |

`robot_parts`, `devices` and `motion_node` check parts in one model: the variable `part` says which
one a behavior is about, and the rest stays in one initial state. The state space is the sum of the
parts and not their product, and every property of every part is checked on it. Parts share no
state, but for two of `motion_node`, which are one node under different clients, and two of
`devices`, which are the two joystick nodes. Where a part has several initial states, the others are
held at a quiet one.

### Bounds, and why they are enough

* *Goals.* What one goal can do to another shows with two of the same drive server, which may
  preempt itself, and one of each kind that must not be stopped. `undock` differs from `dock` in
  its outcome only and takes its place in `robot_parts`. The theorems lift the number of goals
  and servers.
* *Hazards.* A set of one hazard gives all of trigger, refusal, repetition and clearing. Two are
  needed for a *different* second hazard, in `refused_reflex` and in the manoeuvre of a reflex, whose
  track (`TrackEnd`) is long enough to leave each of its two distance limits behind.
* *Speeds and positions.* One unit of speed in each direction, a limit two units behind and
  positions within `PoseBound` let the buffer fill, saturate, empty and go below zero.
* *Drive goals.* Angles of either sign, over a whole turn, and zero; distances of either sign;
  navigation with and without a heading to achieve. `TurnSpeed`, `DriveSpeed` of two units let an
  end be stepped over. A circle of eight headings (four for the wall) has the seam.
* *Wall follow.* Both sides, three infrared vectors (nothing, a wall beside, one in front too);
  `TurnsEnd` lets the spiral be measured over a whole turn and back.
* *Dock paths.* Places from the wall behind the dock to beyond the point in front of it, with the
  dock at two places (`Contact`, `Observed`). A skid moves a place or a heading too far or not at
  all.
* *Battery.* Five units of time and a charge that runs out, fills up and is carried over.
* *Coverage motions.* A drive with and without a minimum distance, rotations within and at half a
  turn, a robot with and without reflexes of its own; one retry. `PlaceEnd` and `TurnEnd` bound the
  line and the turns and are beyond where the properties allow the robot to get.
* *Joystick.* One stick, a hat and one button, a queue of two events and one message kept.
  `joy_node` has the teleoperation behind it, repeats its state and moves the stick between two
  places; `game_controller_node` is alone, repeats nothing, has sticky buttons or not and three
  places of the stick, one of them within its dead zone. The times of coalescing and repetition are
  one tick, so they meet in either order.
* *Wheel controller.* Two commands beyond the limits on both sides, stamps in the past, present
  and future.
* *TurtleBot3.* Three movements, a wheel count of another life at the start, two messages kept;
  eight headings, so that three turns cross the seam.
* *Byte stuffing.* Packets of five and seven parameters over three bytes, FF, FD and another. A
  stuffed header needs four, and two that overlap need seven.
* *Coverage.* `coverage_two_runs` leaves out (`UndocksOnly`) what one goal does alone: drives,
  rotations and time limits, and kidnapping. What two runs share, the flag, the executor, the
  docking servers and destroyed behavior objects, is in it. `coverage_one_run` leaves out
  (`StopsEarly`) cancels and kidnapping after the first evade attempt or a time limit: by then the
  run is in a state of the same kind as an earlier one. An evade limit of 1 lets attempts be made,
  counted, cleared and exhausted. The theorems have none of these restrictions.
* *Time.* A limit is a flag that may be raised at any moment, or a count of ticks where two limits
  are compared; no order between limits is assumed.

Deadlock is not checked: clients may send no more goals, and then the nodes idle.

### Fairness

* The control timer fires as long as the node is up: weak fairness of `RunBehavior`, of
  `ControlRobot` in the node, of `ReflexTick`, `WfExecute`. For `DriveGoalEnds` and
  `MotionBehaviorEnds` the robot is also assumed to move when told to, now and then
  (`DriveTick("obeys")`, `ObeyedTick`): without it no goal to move can end.
* Time passes: weak fairness of `TimePasses`, `TeleopExpires`, `ReflexTimePasses`,
  `MotionTimePasses`, `GoalTimesOut`. Nothing is assumed of hazards clearing, of poses, or of the
  robot ever reaching its goal. Infrared messages keep coming (they have a timer of their own).
* The operating system schedules goal threads, and the motion control node answers
  `reflexes_setup`, whose wait for the answer has no limit: weak fairness of `Run(g)`. Nothing is
  assumed of the docking servers, of time, or of the coverage node's executor: a run that is
  canceled ends without them. The same holds for the threads of the republisher: only their own
  steps and their time-out are fair, never an answer of the robot.
* The SDL thread of either joystick node (`EventThread`), teleoperation's callback and the realtime
  update of the wheel controller (`DdUpdate`) keep running. After an update that fails, the controller
  manager deactivates the controller (`DdDeactivate`).
* Strong fairness is assumed twice: of `JoyTime`, since the wait for an event begins anew with each
  event and a hand on the stick must not hold time up forever, and of `OdometryCallback`, since
  the topic may lose messages but not all of them. Nobody is assumed to press, release or plug
  in anything. The board of the TurtleBot3 may fail to be read any number of times, but not
  always (`PublishTimer(TRUE)`).

## 4. Proofs

Every theorem below holds for all values of the constants, under the named assumptions of the
modules, each of which TLC evaluates on the run that checks its module:

* goals, servers and hazards are related by functions (`GoalAssumption`, `HazardAssumption`), and
  the names `"free"`, `"reflex"`, `NoGoal` and `NoRequest` name nothing else;
* numeric constants are natural numbers in the order the code has them (`NodeAssumption`,
  `EvadeAssumption`, `ReflexAssumption`, `WallFollowStatesAssumption`, `DiffDriveAssumption`,
  `BatteryAssumption`, `DockingPathAssumption`, `TurtlebotAssumption`, `JoyNodeAssumption`);
* one execution of a drive goal moves the robot less than half a turn, and no further than the
  angle or the distance at which it slows down, and a heading counts as reached within less than a
  quarter turn (`DriveAssumption`: at 40 Hz and the robot's limits on speed an execution is a few
  degrees or a centimetre; `drive_goal_behaviors.hpp:258-259`, `:297` and `:334` slow down at 0.4
  or 0.6 rad and at 0.1 m, and converge within half a degree);
* what clients send is of the type of its message (`CoverageMotionAssumption`,
  `JoyTeleopAssumption`), and the byte that stands for all others is none of those that are looked
  for (`ByteStuffingAssumption`).

There are eight modules of proofs. All safety properties that a passing run checks are proved; for
each, the run shows it on an instance and the theorem for all of them. Every proof has the same
shape: an invariant, its three facts (initially, step by step, and what it implies), and one PTL
step. What follows says which invariant, and why the property alone is not inductive.

`MotionActionsProofs`. That a flag follows the slot depends on who may take the slot, which depends
on what the slot holds. The inductive invariant `IInv` is the conjunction of the safety properties
with two parts no run needs: `SlotWellFormed` (the slot of a drive, dock or wall follow server holds
a goal of that server, and is stoppable exactly for the drive servers) and `ActiveGoalHeld` (a goal
being served is the one whose handle the slot keeps, also after its behavior is over). Three lemmas
say what taking the slot, a refusal and a change of status do to the invariant, then there is one
lemma for each action. From it: `TypeCorrectness`, `GoalsAreExclusive`, `RunningGoalIsLive`,
`FlagsAreAccurate` and `UninterruptibleGoalsScheduled`, which together are `ServersAgree`;
`RunningBehaviorIsKept`, `OutcomesAreFinal`, and `CancelsAreHonoured`, which needs `ActiveGoalHeld`:
a goal that loses the slot is not executed again. `KeepsPromise`: `MotionActions` implements
`MotionService`. Under `IInv` the goals being served are exactly the holder (`HolderIsServed`), and
a behavior is accepted only when the holder yields (`AcceptingYields`); then taking the slot is
`Serve` or `StartReflex`, an end is `Release`, a refusal is `TurnDown`, and the rest stutters.

`MotionControlNodeProofs`. `NodeServesActions`: each step of the node is one of `MotionActions`
or leaves it alone. With it `GoalsAreExclusive` and `KeepsPromise` carry over
(`NodeGoalsAreExclusive`, `NodeKeepsPromise`), and so do the types on which those of the node rest
(`NodeTypes`: the last entry of a list of parameters that concerns the mode or the speed decides,
so it needs that a list that has such an entry has a last one, `LastEntryExists`). `NoReplay` needs
`TeleopInv` (a command that has lapsed is forgotten, or a tick that forgets it is due).
`BackupStaysNearLimit` needs `BackupInv`: between two ticks the robot may have moved once, and only
if it had room at the tick before.
`BackupLimitOnlyAdvances` is the action property; both together are `BackupLimitIsKept`.
Of the reflexes: that one stays within a unit of its distance is not inductive, since the distance
is measured only once the robot has been seen behind its start. `BehindStart` adds that the robot is
never before its start and at most one unit behind it until then; with it `ReflexesAreContained`.
`ChainsStandStill` is the action property: no execution after the time of the chain is up has a
command left.

`CoverageNodeProofs`. `TInv` is `TypeOK` with what types depend on: a result that a callback is
about to assign has arrived (`ResultKnown`), which holds because each run asks each server once
(`AsksOnce`), which holds because a run undocks only at its start and never leaves the dock
behavior (`SelectGoesOn`). On top of it, each with its own step lemma: `RunsAreExclusive`
(`OneRun` is inductive; `HoldingSteps` names the only steps that change who holds the flag),
`KeepsPromise` (those steps are `Serve` and `Release`, a rejection is `TurnDown`, all others
stutter), `RunsStopPromptly` (`LateIsNoticed`: a run that has executed since it was told to stop is
at a point where it will find that out) and `EvadingEnds` (`AttemptsCountFailures`: a run that
goes on has counted every failure).

`AngleProofs`. What the operators of `Angles` return, for any number of headings: the shortest turn
leads to its heading, whole turns aside, and is the only one within half a turn that does
(`ShortestTurnIs`, `ShortestUnique`); a small turn is its own shortest one (`SmallTurn`); a turn
towards a heading takes as much off the rest (`TurnedTowards`). Division and remainder have a
linear characterisation (`RemainderUnique`), so that no later proof sees a product.

`RobotProofs`.

* `DriveGoalsEndWhereAsked`, from `DriveInv`: the remaining angle or distance of the code agrees
  with the turns and the way made since the goal began. For `navigate` it is not enough to know
  where the robot is: the drive starts facing the position up to the tolerance of the first
  rotation, so its way on the line has a direction (`OnItsWay`), and the second rotation starts
  where the position was reached (`FacesThePosition`, `DrivesToThePosition`, `FacesTheHeading`).
  A robot within the tolerance of a direction, less than a quarter turn, moves along the line in
  that direction (`AlongTheLine`). The bounds are those at which the code takes a goal as
  converged, not the motion of an execution: a robot that slows down overshoots by one unit at most.
* `StatesFollowThisWall`. That the flag and the side belong to the goal is inductive; that a spiral
  widens with turns is not, since the code looks at one heading and a flag. `SpiralIsMeasured`
  bounds the turns that the heading and the flag stand for (`TurnsFor`) by how far the robot has
  turned; a turn of one heading changes the shortest distance by one at most (`TurnMovesByOne`).
* `PathIsFollowed`, from `PathInv`: what is left of a path ends at the goal, the stage of the path
  controller says what of the point has been reached, and in the last stage the robot stands on the
  point. A robot that docks is in front of the dock until then, so one execution is all it can be
  too far.
* `BatteryFollowsDock`. The types are inductive; that the charge never rises off the dock compares
  two products of a rate and a time, and holds because standing drains no more than driving
  (`DrainRises`): a change between the two books the time so far at the rate it was drained at, or
  at the higher one.
* `PartTypes` is about the parts together, in `MCRobot`.

`ByteStuffingProofs`. `HeadersStayHidden`, for parameters of any length and content. `Stuffed`
says where each byte of the packet goes: as many places up as there are headers before it, a number
that the library's facts on cardinality give. `HalfStuffed` says what the array holds between two
turns of `addStuffing`'s loop, which moves bytes up from the end: the packet as it was below
`from_index`, the stuffed packet above `to_index`, and room between them for exactly the bytes that
are still to be added, so the writer never overtakes the reader. `HalfUnstuffed` says the same of
`removeStuffing`, which moves them down from the front and reads what it has rewritten; it needs
that the parameters hold no `FF FD FD` (`OtherLooksPlain`), and the run `params_survive` shows what
happens if they do. `ByteStuffingTypes` bounds the indexes by the array for both loops.

`JoyTeleopProofs`. `JoyTeleopTypes`; and the safety parts of `JoystickIsShown`, which is about
liveness too. `ShownButtonsAreHeld` is not inductive: a press that is still in the queue when the
button is let go must be followed by its release, also when the queue is full, and a device that is
pulled out leaves an event that is the last one, behind which only an event of a device that is
plugged in again may come (`QueueIsSound`). Without an open device `joy_node` shows no button
(`OpenShows`); `game_controller_node` may, which is why the property excepts it while it has none.
`ControllerWaits` has a hypothesis: the interval that coalesces is no longer than `IdleWait`, the
200 ms the thread waits when it repeats nothing. It is needed, for the wait is the shorter of the
two (`game_controller.cpp:354-356`) and what is pending is published when the wait is over
(`:396-408`). The default interval is 1 ms.

`DeviceProofs`.

* `ClientsAreToldTheTruth`, from `GoalKnown`, which relates for each goal the place its thread is
  at to what the robot has been told and has answered.
* `WheelsAlwaysObey`, from `DdInv`: the speed the limiter starts from is that of the wheels, and an
  inactive controller has none. `LimitedInRange` is the lemma on the limiter.
* `MotionContained`, from `MotionInv`. Each part of the property is a bound at the end of something
  that goes on step by step: `RotatesOn` keeps the heading within a step of the target, or near half
  a turn, where the code cannot tell; `BacksAwayStepwise` counts the way of each reflex from where it
  began; `WidensStepwise` relates the radius to the number of updates, and their number to the age of
  the behavior, which gives the division in the property (`WidenedByAge`).
* `OdometrySumsUp`, the safety part of `OdometryCatchesUp`. The differences telescope: the sum is
  that between the first message taken and the last one, whichever were lost between them.
* `DevicePartTypes` is about the parts together, in `MCDevices`.

The chain is: `MotionControlNode` implements `MotionActions` implements `MotionService`, and
`CoverageNode` implements `MotionService`.

Only model-checked: the liveness properties, since fairness and ENABLED are beyond the prover:
`SlotIsReleased`, `CancelEndsGoal`, `SilenceStopsRobot`, `CancelEndsRun`, `MaxRuntimeEndsRun`,
`ReflexEnds`, `DriveGoalEnds`, `LostWallGivenUp`, `MotionBehaviorEnds`, `UserGoalEnds`,
`ReleaseStopsRobot`, `SilentRobotStops`, `OdometryCatchesUp` but for `OdometrySumsUp`, and
`StickIsShown`, the part of `JoystickIsShown` that is not proved. The "violation" runs are
counterexamples and have nothing to prove.

## 5. What is not modelled

* *Motion node.* Rotation in `bound_command_by_limits`, the 62 Hz backup warning and the log do not
  change what is kept. Geometry is a line and a coarse circle: the y coordinate, the transforms of
  hazard frames (a side is taken as given) and the trigonometry of the path controller are left out.
* *Coverage.* The angle in which a run evades, and the feedback.
* *Republisher.* Its topics and services: they forward and keep nothing.
* *Teleoperation.* The axis mappings beyond one of each kind, the parameters of one axis each.
* *Wheel controller.* Its odometry and publishing; the other controllers of `ros2_controllers`
  (trajectories, broadcasters, tricycle, steering), of which the robot loads none but the joint
  state broadcaster.
* *TurtleBot3.* The position in the plane, the services, the diagnostics and the motor power. Of the
  Dynamixel SDK, the transfer of packets over a half-duplex bus and its time-outs, and the group
  reads and writes.
* *Third-party and converted code.* About nine tenths of the code in the workspace are vendored
  packages, with their ports for other operating systems: the RPLIDAR driver and its SDK, the
  Dynamixel SDK, `ros2_controllers`, `gz_ros2_control`, the Wii remote and SpaceNavigator drivers.
  A model of these would say something of them and little of this robot, so the models cover a small
  part of all lines in `src/` and most of the lines that decide what the robot does.
* *Hazard vector and kidnap estimator.* The node models take any vector and any status instead.
* *Everything else* is listed in `PROJECT.json` with its reason: publishers that convert a message
  and keep nothing, scripts and descriptions.

## 6. Where the code differs from what it says

Shown by a run:

* `self_preemption`: `set_behavior` cleans up a stopped behavior; a goal of the same drive server
  as the one it replaces has its own running flag lowered by that clean-up, and is left executing
  without the slot.
* `refused_reflex`: a reflex that was refused makes the next one think that it continues it, and
  measure its limits from a start that was never set.
* `rejection_is_real`: a run may report as rejected a docking goal that is being served.
* `cleanup_cancels_docking`: a docking goal whose response has not come is not canceled.
* `joy_coalesces`: `joy/README.md:72-73` says that `coalesce_interval_ms` is the time to wait after
  an axis event before publishing. `joy_node` notes that it should publish soon (`joy.cpp:198-200`)
  and publishes in the same turn (`joy.cpp:455-474`), so it waits for nothing and coalesces nothing.
  Only `game_controller_node` waits, and `ControllerCoalesces` says so of that node alone.
* `params_survive`: parameters that hold `FF FF FD` and then `FF FD FD` come back one byte short.

Seen while modelling, without a run of their own (paths below `create3/src` unless they say
otherwise). Servers and scheduler:

* `behaviors_scheduler.hpp:64-65` says that a running behavior gives way only to one that must not
  be stopped in its turn; `set_behavior` does not look at the new behavior, and one drive goal
  displaces another.
* `motion_control_node.cpp:209`: a list of parameters that is rejected may have changed the safety
  mode and speed by then. `:167-168` says that `max_speed` "Cannot be updated externally"; a list
  whose last entry is a valid `safety_override` stores the `max_speed` it brings along.
* `reflex_behavior.cpp:112` keeps `updated_param` for all entries of a list: the deletion of a
  parameter is refused only when an entry before it was applied, which then stays applied.
* `reflex_behavior.cpp:362-365` leaves `apply_backup_limits` of the reflex uninitialised: with a flag
  that happens to be true, the backup limit stops a reflex from backing away from its hazard.
* `kidnap_estimator_publisher.cpp:58-59` says "The robot is kidnapped when both wheel drops and four
  cliff sensors are triggered". It counts hazards by frames (`:45`, `:51`) that no publisher of the
  simulation sends: `wheel_drop.cpp:18` sends the joints' names and `cliff.cpp` the base of the robot.
  No kidnap is ever reported there. It also counts two messages of one sensor as two sensors.

Motions:

* `drive_goal_behaviors.cpp:199`: what remains of a goal that drives backwards grows, so it never
  slows down, and ends past its distance.
* `simple_goal_controller.hpp:125-133`: for a point driven to backwards, half a turn is taken
  off the magnitude of the angle and not off the angle, so the robot is never found to be turned too
  far away from it.
* `wall_follow_behavior.cpp:185`: the velocity that is returned is not initialised when no state
  gives one.
* `robot_state.cpp:201-203` books the time a robot stood still before it was found to drive as time
  driven.

Coverage:

* `coverage_state_machine.cpp:132` says "failed too many times consecutively"; a drive that
  succeeds while making room for a spiral (`:121-125`) does not clear the attempts.
* `Coverage.action:5-6` limits a run by `max_runtime`; it is looked at only between behaviors
  (`coverage_state_machine.cpp:79-88`), and a spiral or a docking goal may last longer. A drive has
  no limit in time at all: a robot that is stuck without a hazard goes on driving.
* `create3_coverage_node.cpp:109` refuses a goal while another is running; the flag is lowered
  (`:179`) before the run has cleaned up, so a goal is accepted while the one before still cancels.
  `:205` compares with the last behavior of the run before, whose feedback is then left out, and
  `:273` throws out of a detached thread.
* `rotate-behavior.cpp:55` reads the angle turned off the heading: a rotation of nearly half a turn,
  which `compute_evade_rotation` (`coverage_state_machine.cpp:196-240`) may ask for, can step over its
  target and turn on. `:81` measures `clear_hazard_time` from the construction of the behavior.

Republisher, joysticks, wheels and TurtleBot3:

* `republisher.cpp:317` drops a cancel that comes before the handle, `:330` reads a null handle after
  a rejection, and `:274` drops the answer of a service it forwards. `:334` and `:340` cancel a goal
  whose result may have come and been forgotten by the client: `async_cancel_goal` then throws in a
  detached thread, and the node is down (`CancelThrows`).
* `control/src/joystick_drivers/joy/src/joy.cpp:285`: a hat in a diagonal keeps the axis it had before.
* `game_controller.cpp:332`, in the same directory: a controller that is pulled out leaves its
  buttons pressed in the message (`joy.cpp:411-412` clears the message, this node does not). The release
  is never heard of, so after it is plugged in again those buttons are sent until they are pressed
  and released once more; unless SDL itself releases the buttons of a controller that goes, which
  nothing in `src/` says. `ButtonsAreHeld` excepts this case and no other.
* `game_controller.cpp:396-408` publishes a movement it has put off only when its wait ends without
  an event. Events that publish nothing, such as the joystick duplicates that `:382-390` ignores or
  movements within the dead zone, hold the last position up as long as they come closer together
  than the interval. `StickIsShown` therefore assumes of this node that the whole pad comes to rest.
* `diff_drive_controller.cpp:439`: a command accepted in one activation may be carried out in the
  next.
* `turtlebot3/.../joint_state.cpp:76` sends the positions of the reading before; a reading that fails
  sends the old table with a new stamp, and `turtlebot3.cpp:98` looks at the table before any reading.
  `odometry.cpp:254` does not bring the difference of two orientations back into half a turn: a
  robot that crosses the seam is moved backwards for a step, and reports a spike of angular
  velocity. The result of writing a velocity is ignored (`turtlebot3.cpp:354`): a stop that fails
  is not repeated.

## 7. Plan

Done: the scheduler, servers, reflex trigger, their composition and service; the motion control
node; the coverage state machine and node; the motions of all behaviors of both nodes; the
battery; republisher, joysticks, teleoperation, wheel controller, TurtleBot3 odometry and the
stuffing of its packets. Left, in this order:

1. The transfer of Dynamixel packets: a status packet that comes after its time-out and is taken for
   the answer to the next request.
2. The scan buffers of the RPLIDAR driver: motor and scan started, stopped and restarted by services
   while a scan is taken.
3. A `game_controller` node whose coalescing interval is longer than its wait, which the hypothesis
   of `ControllerWaits` excludes.
