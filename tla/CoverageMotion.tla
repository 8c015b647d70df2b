--------------------------- MODULE CoverageMotion ---------------------------
(***************************************************************************)
(* The behaviors of a coverage run that drive the robot themselves: drive  *)
(* straight, rotate with its reflex, spiral. CoverageNode looks at the     *)
(* states they return; here is what makes them return them. Places are on  *)
(* the line the robot drives along; turns are counted whole, and the code  *)
(* sees them only as a heading, of which there are FullTurn.               *)
(***************************************************************************)
EXTENDS Angles

CONSTANTS
  MotionConfigs,      \* the Configs: [kind, and the fields of that kind]
  OpcodeBuffers,      \* what the opcode buffer may hold: sets of [sensor, opcode]
  FullTurn,
  MotionStep,         \* the most the robot moves between two executions
  BackupDistance,     \* backup_distance of the reflex
  MaxHazardRetries,   \* max_hazard_retries
  ClearHazardTime,    \* clear_hazard_time
  SpiralDuration, RadiusInterval, InitialRadius, RadiusIncrement,
  PlaceEnd, TurnEnd   \* bounds of the places and of the turns

ASSUME CoverageMotionAssumption ==
  /\ {FullTurn, MotionStep, BackupDistance, MaxHazardRetries, ClearHazardTime, SpiralDuration,
      RadiusInterval, InitialRadius, RadiusIncrement, PlaceEnd, TurnEnd} \subseteq Nat
  /\ 0 < FullTurn /\ 0 < MotionStep /\ FullTurn <= TurnEnd
  /\ MotionConfigs # {}
  /\ MotionConfigs \subseteq
       [kind : {"drive_straight"}, max_distance : Nat, min_distance : Nat]
         \cup [kind : {"spiral"}]
         \cup [kind : {"rotate"}, target_rotation : Int, robot_has_reflexes : BOOLEAN]

VARIABLES
  place, turned,   \* the pose: how far the robot is and has turned in all
  motion,          \* the behavior: its config, and the members of its object
  motion_state,    \* what its last execution returned; "none" before the first one
  motion_reflex    \* m_reflex_behavior: [alive: assigned; begun: m_first_run; from:
                   \* m_initial_position; age: time since m_start_time]

coverageMotionVars == <<place, turned, motion, motion_state, motion_reflex>>

Places == (-PlaceEnd)..PlaceEnd
Turns == (-TurnEnd)..TurnEnd
\* Ages are counted until the last limit they are held to is over.
AgeEnd(config) == (IF config.kind = "spiral" THEN SpiralDuration ELSE ClearHazardTime) + 1
LastAge == Most(SpiralDuration, ClearHazardTime) + 1
NoReflex == [alive |-> FALSE, begun |-> FALSE, from |-> 0, age |-> 0]

\* begun: m_first_run; from, facing: the initial position and orientation; age: time since
\* m_start_time; widened: age at m_last_radius_update_time
NewMotion(config) ==
  [config |-> config, begun |-> FALSE, from |-> 0, facing |-> 0, age |-> 0,
   hazards_count |-> 0, radius |-> InitialRadius, widened |-> 0]

CoverageMotionTypeOK ==
  /\ place \in Places /\ turned \in Turns
  /\ motion \in [config : MotionConfigs, begun : BOOLEAN, from : Places, facing : Turns,
                 age : 0..LastAge, hazards_count : 0..(MaxHazardRetries + 1),
                 radius : InitialRadius..(InitialRadius + LastAge * RadiusIncrement),
                 widened : 0..LastAge]
  /\ motion_state \in {"none", "running", "success", "failure"}
  /\ motion_reflex \in [alive : BOOLEAN, begun : BOOLEAN, from : Places,
                        age : 0..(ClearHazardTime + 1)]

\* Places and turns are counted from where the behavior is constructed.
StartMotion(config) ==
  /\ place' = 0 /\ turned' = 0
  /\ motion' = NewMotion(config)
  /\ motion_state' = "running"
  /\ motion_reflex' = NoReflex

CoverageMotionInit ==
  /\ place = 0 /\ turned = 0
  /\ motion = NewMotion(CHOOSE config \in MotionConfigs : TRUE)
  /\ motion_state = "none"
  /\ motion_reflex = NoReflex

-----------------------------------------------------------------------------
\* is_front_hazard_active, backup_limit_reached, is_driving_towards_dock
FrontHazard(hazards) == hazards \ {"backup_limit"} # {}
BackupLimit(hazards) == "backup_limit" \in hazards
DrivingTowardsDock(opcodes) ==
  \A sensor \in {"directional_front", "omni"} :
    \E o \in opcodes : o.sensor = sensor /\ o.opcode # "virtual_wall"

\* The robot obeys a velocity until the next execution, as far as it gets.
Moves(forward, left) ==
  \E s \in 0..MotionStep :
    /\ place' = place + forward * s /\ place' \in Places
    /\ turned' = turned + left * s /\ turned' \in Turns
Stays == UNCHANGED <<place, turned>>
Return(state) == motion_state' = state

-----------------------------------------------------------------------------
\* DriveStraightBehavior::execute
Start == IF motion.begun THEN motion.from ELSE place
Traveled == Magnitude(place - Start)

DriveStraight(hazards, opcodes) ==
  LET stop == FrontHazard(hazards) \/ DrivingTowardsDock(opcodes)
      far == Traveled >= motion.config.max_distance
  IN  /\ motion.config.kind = "drive_straight"
      /\ motion' = [motion EXCEPT !.begun = TRUE, !.from = Start]
      /\ \/ far /\ Return("success") /\ Stays
         \/ /\ ~far /\ stop /\ Stays
            /\ Return(IF Traveled >= motion.config.min_distance THEN "success" ELSE "failure")
         \/ ~far /\ ~stop /\ Return("running") /\ Moves(1, 0)
      /\ UNCHANGED motion_reflex

-----------------------------------------------------------------------------
\* Mutant: the time is that since the spiral last widened.
SpiralTimeUpdated == motion.age - motion.widened

\* SpiralBehavior::execute, which does not look at the pose; only the heading is followed.
SpiralTime == motion.age

\* Mutant: the time of the last update is not taken.
UpdateMissed == motion.widened

RadiusUpdateTime == motion.age

Spiral(hazards, opcodes) ==
  LET over == SpiralTime > SpiralDuration
      stop == FrontHazard(hazards) \/ DrivingTowardsDock(opcodes)
      wider == motion.age - motion.widened > RadiusInterval
  IN  /\ motion.config.kind = "spiral"
      /\ \/ over /\ Return("success") /\ Stays /\ UNCHANGED motion
         \/ ~over /\ stop /\ Return("failure") /\ Stays /\ UNCHANGED motion
         \/ /\ ~over /\ ~stop /\ Return("running")
            /\ turned' = (turned + 1) % FullTurn /\ UNCHANGED place
            /\ motion' = IF wider THEN [motion EXCEPT !.radius = @ + RadiusIncrement,
                                                      !.widened = RadiusUpdateTime]
                         ELSE motion
      /\ UNCHANGED motion_reflex

-----------------------------------------------------------------------------
\* ReflexBehavior::execute of the reflex r: the state it returns
Executed(r) == [r EXCEPT !.begun = TRUE, !.from = IF r.begun THEN r.from ELSE place]

\* Mutant: only time and the backup limit end a reflex, not the distance.
ReflexStateFar(r, hazards) ==
  LET over == r.age > ClearHazardTime \/ BackupLimit(hazards)
  IN  CASE ~r.begun /\ ~FrontHazard(hazards) -> "success"
        [] ~r.begun /\ FrontHazard(hazards)  -> IF over THEN "failure" ELSE "running"
        [] r.begun /\ ~over                  -> "running"
        [] r.begun /\ over -> IF FrontHazard(hazards) THEN "failure" ELSE "success"

ReflexState(r, hazards) ==
  LET moved_enough == Magnitude(place - Executed(r).from) > BackupDistance
      over == r.age > ClearHazardTime \/ moved_enough \/ BackupLimit(hazards)
  IN  CASE ~r.begun /\ ~FrontHazard(hazards) -> "success"
        [] ~r.begun /\ FrontHazard(hazards)  -> IF over THEN "failure" ELSE "running"
        [] r.begun /\ ~over                  -> "running"
        [] r.begun /\ over -> IF FrontHazard(hazards) THEN "failure" ELSE "success"

\* RotateBehavior::handle_hazards: the reflex it runs, if any, and the state it returns
NeedsReflex(hazards) ==
  ~motion.config.robot_has_reflexes /\ (FrontHazard(hazards) \/ motion_reflex.alive)
RunReflex == IF motion_reflex.alive THEN motion_reflex ELSE [NoReflex EXCEPT !.alive = TRUE]

HazardsState(hazards) ==
  CASE NeedsReflex(hazards) -> ReflexState(RunReflex, hazards)
    [] ~NeedsReflex(hazards) /\ ~FrontHazard(hazards) -> "success"
    [] ~NeedsReflex(hazards) /\ FrontHazard(hazards) ->
         IF motion.age > ClearHazardTime THEN "failure" ELSE "running"

\* Mutant: the number of reflexes is not counted.
HazardsCountKept(hazards) == motion.hazards_count

HazardsCount(hazards) ==
  IF NeedsReflex(hazards) /\ ~motion_reflex.alive THEN motion.hazards_count + 1
  ELSE motion.hazards_count

-----------------------------------------------------------------------------
Facing == IF motion.begun THEN motion.facing ELSE turned

RelativeYaw == ShortestTurn(FullTurn, Facing, turned)

\* Mutant: the sign of the target is not taken away.
TurnedEnoughSigned == RelativeYaw >= motion.config.target_rotation

TurnedEnough == Magnitude(RelativeYaw) >= Magnitude(motion.config.target_rotation)

\* RotateBehavior::execute: the trials are used up; or a hazard is being cleared, by the
\* reflex of the behavior or by those of the robot; or the robot turns.
TooManyTrials ==
  /\ motion.hazards_count > MaxHazardRetries
  /\ Return("failure") /\ Stays
  /\ UNCHANGED <<motion, motion_reflex>>

HoldRotation(hazards) ==
  LET state == HazardsState(hazards) IN
  /\ motion.hazards_count <= MaxHazardRetries /\ state # "success"
  /\ motion' = [motion EXCEPT !.hazards_count = HazardsCount(hazards)]
  /\ motion_reflex' = IF NeedsReflex(hazards) THEN Executed(RunReflex) ELSE motion_reflex
  /\ Return(state)
  /\ IF state = "running" /\ NeedsReflex(hazards) THEN Moves(-1, 0) ELSE Stays

Turn(hazards) ==
  /\ motion.hazards_count <= MaxHazardRetries /\ HazardsState(hazards) = "success"
  /\ motion' = [motion EXCEPT !.begun = TRUE, !.facing = Facing]
  /\ motion_reflex' = NoReflex
  /\ \/ TurnedEnough /\ Return("success") /\ Stays
     \/ ~TurnedEnough /\ Return("running") /\ Moves(0, Sign(motion.config.target_rotation))

Rotate(hazards) ==
  /\ motion.config.kind = "rotate"
  /\ TooManyTrials \/ HoldRotation(hazards) \/ Turn(hazards)

-----------------------------------------------------------------------------
\* A robot that has reflexes turns by itself while a hazard is there; it backs away too, which
\* its rotation does not look at.
RobotReflex ==
  /\ motion_state = "running"
  /\ motion.config.kind = "rotate" /\ motion.config.robot_has_reflexes
  /\ turned' \in {turned - 1, turned + 1} \cap Turns
  /\ UNCHANGED <<place, motion, motion_state, motion_reflex>>

MotionTimePasses ==
  /\ motion_state = "running"
  /\ motion' = [motion EXCEPT !.age = Least(@ + 1, AgeEnd(motion.config))]
  /\ motion_reflex' = IF motion_reflex.alive
                      THEN [motion_reflex EXCEPT !.age = Least(@ + 1, ClearHazardTime + 1)]
                      ELSE motion_reflex
  /\ UNCHANGED <<place, turned, motion_state>>

ExecuteBehavior(hazards, opcodes) ==
  /\ motion_state = "running"
  /\ DriveStraight(hazards, opcodes) \/ Spiral(hazards, opcodes) \/ Rotate(hazards)

Hazards == {"bump", "backup_limit"}
MotionTick ==
  \E hazards \in SUBSET Hazards, opcodes \in OpcodeBuffers : ExecuteBehavior(hazards, opcodes)

\* An execution whose command the robot obeys.
ObeyedTick ==
  /\ MotionTick
  /\ motion_state' # "running" \/ place' # place \/ turned' # turned

NextMotion ==
  /\ motion_state # "running"
  /\ \E config \in MotionConfigs : StartMotion(config)

CoverageMotionNext == MotionTick \/ MotionTimePasses \/ RobotReflex \/ NextMotion

CoverageMotionSpec == CoverageMotionInit /\ [][CoverageMotionNext]_coverageMotionVars

-----------------------------------------------------------------------------
\* A target this close to half a turn may be stepped over: the heading beyond it is less far
\* from the first one again, and the robot turns on until a later turn ends on it.
NearHalfTurn == 2 * (Magnitude(motion.config.target_rotation) + MotionStep) > FullTurn

\* A rotation that succeeds has turned the robot as far as was asked and at most a step
\* further, and the way it was asked to, however often its reflexes backed away in between.
RotatesAsAsked ==
  LET config == motion.config
      amount == (turned - motion.facing) * Sign(config.target_rotation)
      asked == Magnitude(config.target_rotation)
  IN  config.kind = "rotate" /\ ~config.robot_has_reflexes =>
        /\ motion_state = "success" => amount >= asked
        /\ motion.begun => 0 <= amount /\ (NearHalfTurn \/ amount < asked + MotionStep)

\* The reflexes of a rotation together do not back the robot away further than each may
\* once for every trial: a trial that succeeds does not give back its retry.
BacksAwayLittle ==
  motion.config.kind = "rotate" /\ ~motion.config.robot_has_reflexes =>
    -place <= (MaxHazardRetries + 1) * (BackupDistance + MotionStep)

\* A spiral widens with time and not with executions.
SpiralWidensInTime ==
  motion.radius - InitialRadius <= (motion.age \div (RadiusInterval + 1)) * RadiusIncrement

MotionIsContained == RotatesAsAsked /\ BacksAwayLittle /\ SpiralWidensInTime

\* A behavior ends, if the robot moves when it is told to: a drive at its distance, a spiral
\* at its time, a rotation at its angle or when it cannot get away from a hazard, whatever
\* hazards come and go.
MeantToEnd ==
  /\ motion_state = "running"
  /\ \/ motion.config.kind # "rotate"
     \/ ~motion.config.robot_has_reflexes /\ ~NearHalfTurn
MotionBehaviorEnds == MeantToEnd ~> (motion_state # "running")
=============================================================================
