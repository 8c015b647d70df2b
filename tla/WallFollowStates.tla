-------------------------- MODULE WallFollowStates --------------------------
(***************************************************************************)
(* The states a wall follow goal goes through (wall_follow_states.cpp):    *)
(* a widening spiral until the robot bumps into something, the manoeuvre   *)
(* around an obstacle in front of it, and the servo along the wall beside  *)
(* it. A rotation is signed by the side that is followed: 1 turns towards  *)
(* the wall. WallFollow has the goal's life; here one goal follows another.*)
(***************************************************************************)
EXTENDS Angles, Sequences

CONSTANTS
  IrVectors,     \* the IR messages that arrive: functions from frames to Intensity
  WfFull,        \* headings in a turn
  LostTime,      \* drive_after_lost_time_, in IR messages
  WidestSpiral,  \* bound of spiral_rot_divisor_
  TurnsEnd       \* bound of wf_travelled

\* Below both thresholds, between min_sees_wall_side/front_ir_intensity_ (20) and
\* min_sees_wall_ir_intensity_ (50), below the desired intensity, and above it.
Intensity == 0..3

ASSUME WallFollowStatesAssumption ==
  /\ {WfFull, LostTime, WidestSpiral, TurnsEnd} \subseteq Nat \ {0} /\ WfFull % 4 = 0
  /\ \A v \in IrVectors : \A frame \in DOMAIN v : v[frame] \in Intensity

VARIABLES
  wf_side,      \* follow_side_ of the manager
  wf_engaged,   \* wall_engaged_
  wf_state,     \* current_follow_mode_: a record of its members, id "none" for nullptr
  wf_ir,        \* last_ir_intensity_
  wf_hazard,    \* active_hazard_frames is not empty
  wf_heading,   \* the yaw of the pose
  wf_travelled, \* how much the robot has turned, in either direction, in this spiral
  wf_cmd        \* the velocities of the last execution

wfStatesVars == <<wf_side, wf_engaged, wf_state, wf_ir, wf_hazard, wf_heading, wf_travelled,
                  wf_cmd>>

WfSides == {"left", "right"}
WfDistance(a, b) == Magnitude(ShortestTurn(WfFull, a, b))

\* start: start_orientation_; divisor: spiral_rot_divisor_; check:
\* check_orientation_converge_; lost: IR messages since last_seen_obs_time_; far: the pose
\* is min_linear_traversal_ or min_angular_traversal_ away from the start pose
StateOf(id) == [id |-> id, side |-> wf_side, start |-> wf_heading, divisor |-> 1, check |-> FALSE,
                lost |-> 0, far |-> FALSE]

WfStatesInit ==
  /\ wf_side = "left"
  /\ wf_engaged = FALSE
  /\ wf_ir = <<>>
  /\ wf_hazard = FALSE
  /\ wf_heading = 0
  /\ wf_travelled = 0
  /\ wf_cmd = [translate |-> 0, rotate |-> 0]
  /\ wf_state = StateOf("none")

-----------------------------------------------------------------------------
\* Mutant: the state of the goal before is kept.
WfInitializeKeepsMode(side) ==
  /\ wf_side' = side
  /\ wf_engaged' = FALSE
  /\ UNCHANGED <<wf_state, wf_ir, wf_hazard, wf_heading, wf_travelled, wf_cmd>>

\* WallFollowStateManager::initialize, for a goal that is accepted at any time
WfInitialize(side) ==
  /\ wf_side' = side
  /\ wf_engaged' = FALSE
  /\ wf_state' = StateOf("none")
  /\ UNCHANGED <<wf_ir, wf_hazard, wf_heading, wf_travelled, wf_cmd>>

\* ir_intensity_callback: the time a servo looks at is the stamp of the vector
WfIrIntensity(vector) ==
  /\ wf_ir' = vector
  /\ wf_state' = [wf_state EXCEPT !.lost = IF @ < LostTime THEN @ + 1 ELSE @]
  /\ UNCHANGED <<wf_side, wf_engaged, wf_hazard, wf_heading, wf_travelled, wf_cmd>>

\* The hazards of the node change; those of the backup limit and of proximity are skipped.
WfHazards ==
  /\ wf_hazard' = ~wf_hazard
  /\ UNCHANGED <<wf_side, wf_engaged, wf_state, wf_ir, wf_heading, wf_travelled, wf_cmd>>

-----------------------------------------------------------------------------
\* The frames a state that follows `side' looks at, in the order it does
FrontFrames == <<"front_center_left", "front_center_right", "front_left">>
FrontSideFrames(side) == IF side = "left" THEN <<"front_left", "left">> ELSE <<"front_right">>
OppositeFrames(side) == IF side = "left" THEN <<"front_right">> ELSE <<"front_left", "left">>
SideFrame(side) == IF side = "left" THEN "side_left" ELSE "right"

\* obstacle_in_sensors: the value of the first frame that sees something, or 0
SeenAt(frames) ==
  LET sees == {i \in DOMAIN frames : frames[i] \in DOMAIN wf_ir /\ wf_ir[frames[i]] > 0}
  IN  IF sees = {} THEN 0
      ELSE wf_ir[frames[CHOOSE i \in sees : \A j \in sees : i <= j]]

WallBeside(side) == SeenAt(<<SideFrame(side)>>) > 0
Blocked(side) == wf_hazard \/ SeenAt(FrontFrames) > 0 \/ SeenAt(OppositeFrames(side)) > 0
Upcoming(side) ==
  /\ SeenAt(FrontSideFrames(side)) > 0
  /\ SeenAt(FrontSideFrames(side)) > SeenAt(<<SideFrame(side)>>)

ServoFrameRead(s) == SideFrame(s.side) \in DOMAIN wf_ir
ServoSeesWall(s) == ServoFrameRead(s) /\ wf_ir[SideFrame(s.side)] >= 2

\* Mutant: a wall that is not seen is waited for as long as it takes.
GoesOnPatiently(s) ==
  \/ s.id = "spiral" /\ ~wf_hazard
  \/ s.id = "servo" /\ ~wf_hazard /\ ServoFrameRead(s)
  \/ s.id = "obstacle" /\ (Blocked(s.side) \/ Upcoming(s.side) \/ ~s.far)

\* What a state answers: whether it keeps control of the robot.
GoesOn(s) ==
  \/ s.id = "spiral" /\ ~wf_hazard
  \/ s.id = "servo" /\ ~wf_hazard /\ (ServoSeesWall(s) \/ (ServoFrameRead(s) /\ s.lost < LostTime))
  \/ s.id = "obstacle" /\ (Blocked(s.side) \/ Upcoming(s.side) \/ ~s.far)

\* Mutant: the check is not taken back when the spiral widens.
WidenedOften(s) ==
  LET away == WfDistance(wf_heading, s.start)
  IN  IF away = 0 /\ s.check /\ s.divisor < WidestSpiral THEN [s EXCEPT !.divisor = @ + 1]
      ELSE [s EXCEPT !.check = @ \/ 4 * away > WfFull]

\* The spiral widens when the robot is back at the heading it began with, after it was
\* more than a quarter turn away from it.
Widened(s) ==
  LET away == WfDistance(wf_heading, s.start)
  IN  IF away = 0 /\ s.check /\ s.divisor < WidestSpiral
      THEN [s EXCEPT !.divisor = @ + 1, !.check = FALSE]
      ELSE [s EXCEPT !.check = @ \/ 4 * away > WfFull]

Kept(s) ==
  CASE s.id = "spiral"   -> Widened(s)
    [] s.id = "servo"    -> [s EXCEPT !.lost = IF ServoSeesWall(s) THEN 0 ELSE @]
    [] s.id = "obstacle" -> s

\* A velocity nothing is assigned to: wf_vel_cmd is declared without a value in
\* get_next_servo_cmd, and what is left of it is commanded: two values stand for all.
Unassigned == {-1, 1}
Velocity(translate, rotate) == [translate |-> translate, rotate |-> rotate]

\* What a state that goes on may command. The servo assigns no rotation while it looks
\* for a wall it has lost.
Commands(s) ==
  CASE s.id = "spiral" -> {Velocity(1, 1)}
    [] s.id = "servo" /\ ServoSeesWall(s) ->
         {Velocity(1, IF wf_ir[SideFrame(s.side)] = 3 THEN -1 ELSE 1)}
    [] s.id = "servo" /\ ~ServoSeesWall(s) -> {Velocity(1, r) : r \in Unassigned}
    [] s.id = "obstacle" /\ wf_hazard -> {Velocity(-1, IF WallBeside(s.side) THEN 0 ELSE -1)}
    [] s.id = "obstacle" /\ ~wf_hazard /\ Blocked(s.side) -> {Velocity(0, -1)}
    [] s.id = "obstacle" /\ ~Blocked(s.side) ->
         {Velocity(1, IF Upcoming(s.side) \/ WallBeside(s.side) THEN -1 ELSE 0)}

\* The state that follows one that is over.
After(s) ==
  CASE s.id = "spiral" \/ (s.id = "servo" /\ wf_hazard)     -> "obstacle"
    [] s.id = "obstacle" /\ WallBeside(s.side)              -> "servo"
    [] OTHER                                                -> "spiral"

\* Mutant: only a servo that loses the wall says so.
EngagedAfterKept(s) ==
  (s.id = "spiral" \/ wf_engaged) /\ ~(s.id = "servo" /\ After(s) = "spiral")

EngagedAfter(s) == (s.id = "spiral" \/ wf_engaged) /\ After(s) # "spiral"

\* The execution in which a state ends commands what is left in wf_vel_cmd; only an
\* obstacle that is over has assigned it.
CommandsAtEnd(s) ==
  IF s.id = "obstacle" THEN {Velocity(0, 0)}
  ELSE {Velocity(t, r) : t \in Unassigned, r \in Unassigned}

\* get_next_servo_cmd of an execution, and the robot's motion until the next one.
WfExecute ==
  LET s == IF wf_state.id = "none" THEN StateOf("spiral") ELSE wf_state
  IN  /\ \E turn \in {-1, 0, 1}, far \in BOOLEAN :
           /\ \/ /\ GoesOn(s)
                 /\ wf_state' = [Kept(s) EXCEPT !.far = far]
                 /\ wf_cmd' \in Commands(s)
                 /\ UNCHANGED wf_engaged
              \/ /\ ~GoesOn(s)
                 /\ wf_state' = [StateOf(After(s)) EXCEPT !.far = far]
                 /\ wf_cmd' \in CommandsAtEnd(s)
                 /\ wf_engaged' = EngagedAfter(s)
           /\ wf_heading' = (wf_heading + turn) % WfFull
           /\ wf_state'.id # "obstacle" => ~far
           /\ wf_travelled' = IF wf_state'.id # "spiral" THEN 0
                              ELSE (IF wf_state.id = "spiral" THEN wf_travelled ELSE 0) + turn * turn
           /\ wf_travelled' <= TurnsEnd
      /\ UNCHANGED <<wf_side, wf_ir, wf_hazard>>

-----------------------------------------------------------------------------
WfStatesNext ==
  \/ \E side \in WfSides : WfInitialize(side)
  \/ \E vector \in IrVectors : WfIrIntensity(vector)
  \/ WfHazards
  \/ WfExecute

WfStatesSpec == WfStatesInit /\ [][WfStatesNext]_wfStatesVars

WfStatesTypeOK ==
  /\ wf_side \in WfSides
  /\ wf_engaged \in BOOLEAN /\ wf_hazard \in BOOLEAN
  /\ wf_state \in [id : {"none", "spiral", "servo", "obstacle"}, side : WfSides,
                   start : 0..(WfFull - 1), divisor : 1..WidestSpiral, check : BOOLEAN,
                   lost : 0..LostTime, far : BOOLEAN]
  /\ wf_heading \in 0..(WfFull - 1) /\ wf_travelled \in 0..TurnsEnd
  /\ wf_cmd \in [translate : {-1, 0, 1}, rotate : {-1, 0, 1}]

\* The feedback says that the wall is engaged exactly while a state other than the spiral
\* has control: each way out of the three states sets or clears it, and a new goal begins
\* without.
EngagedWithState == wf_engaged <=> wf_state.id \in {"servo", "obstacle"}

\* The state that has control follows the side of the goal that is executed, not the one
\* of the goal before it.
StateOfThisSide == wf_state.id # "none" => wf_state.side = wf_side

\* The spiral does not widen faster than the robot turns: once for half a turn at most,
\* however the robot turns to and fro about the heading it began with.
SpiralWidensWithTurns ==
  wf_state.id = "spiral" => WfFull * (wf_state.divisor - 1) <= 2 * wf_travelled

\* A wall that stays lost is given up: IR messages keep coming, and the servo goes back to
\* the spiral or the robot sees the wall again.
LostWallGivenUp ==
  wf_state.id = "servo" /\ ~ServoSeesWall(wf_state) ~>
    wf_state.id # "servo" \/ ServoSeesWall(wf_state)

\* The states, their engagement flag and the width of the spiral belong to the goal that is
\* executed and to what its wall and its turns were, whatever goals came before.
FollowsThisWall == EngagedWithState /\ StateOfThisSide /\ SpiralWidensWithTurns
=============================================================================
