---------------------------- MODULE DeviceProofs ----------------------------
(***************************************************************************)
(* Proofs about the parts MCDevices checks on their own, for any values of *)
(* the constants: what a client of the republisher is told, the wheel      *)
(* controller, the motions of a coverage run and the odometry of the       *)
(* TurtleBot.  The last section puts them together with the joystick and the *)
(* protocol of JoyTeleopProofs and ByteStuffingProofs.                     *)
(***************************************************************************)
EXTENDS MCDevices, AngleProofs, ByteStuffingProofs, JoyTeleopProofs, TLAPS

(***************************************************************************)
(* The republisher                                                         *)
(***************************************************************************)

\* What the thread of a goal knows of the robot is so: it waits for a result only with a
\* handle, a handle is one of a goal the robot took, a result is the one the robot came to,
\* and the thread ends without one only after it has cancelled the goal.
GoalKnown(g) ==
  /\ user_goal[g] = "none" => /\ robot_goal[g] = "none" /\ robot_answer[g] = "none"
                              /\ robot_result[g] = "none" /\ forwarder[g] = "none"
  /\ robot_answer[g] = "handle" => robot_goal[g] \in {"running"} \cup Outcomes
  /\ forwarder[g] \in {"awaiting_result", "ending", "over"} => robot_answer[g] = "handle"
  /\ robot_result[g] # "none" => robot_goal[g] = robot_result[g]
  /\ forwarder[g] = "ending" => robot_result[g] # "none"
  /\ forwarder[g] = "over" => robot_goal[g] # "running" \/ robot_cancel[g]
  /\ user_goal[g] = "succeeded" => robot_goal[g] = "succeeded"

RepInv == RepublisherTypeOK /\ \A g \in UserGoals : GoalKnown(g)

LEMMA RepInitial == RepublisherInit => RepInv
BY DEF RepublisherInit, RepInv, RepublisherTypeOK, GoalKnown, Outcomes

\* A step of the thread of a goal, of the robot or of the client keeps the types.
LEMMA RepTypeStep ==
  RepublisherTypeOK /\ [RepublisherNext]_republisherVars => RepublisherTypeOK'
<1> SUFFICES ASSUME RepublisherTypeOK, [RepublisherNext]_republisherVars
             PROVE  RepublisherTypeOK'
  OBVIOUS
<1> USE DEF RepublisherTypeOK, UserActive, Outcomes
<1>1. ASSUME NEW g \in UserGoals, ForwardGoal(g) PROVE RepublisherTypeOK'
  BY <1>1 DEF ForwardGoal
<1>2. ASSUME NEW g \in UserGoals, UserCancels(g) PROVE RepublisherTypeOK'
  BY <1>2 DEF UserCancels
<1>3. ASSUME NEW g \in UserGoals, AwaitHandle(g) PROVE RepublisherTypeOK'
  BY <1>3 DEF AwaitHandle, EndUserGoal
<1>4. ASSUME NEW g \in UserGoals, AwaitResult(g) PROVE RepublisherTypeOK'
  BY <1>4 DEF AwaitResult, EndUserGoal, CancelAtRobot, CancelThrows, TakeResult
<1>5. ASSUME NEW g \in UserGoals, EndWithResult(g) PROVE RepublisherTypeOK'
  BY <1>5 DEF EndWithResult, EndUserGoal
<1>6. ASSUME NEW g \in UserGoals, GoalTimesOut(g) PROVE RepublisherTypeOK'
  BY <1>6 DEF GoalTimesOut
<1>7. ASSUME NEW g \in UserGoals, RobotDecides(g) PROVE RepublisherTypeOK'
  BY <1>7 DEF RobotDecides
<1>8. ASSUME NEW g \in UserGoals, AnswerArrives(g) PROVE RepublisherTypeOK'
  BY <1>8 DEF AnswerArrives
<1>9. CASE UNCHANGED republisherVars
  BY <1>9 DEF republisherVars
<1> QED
  BY <1>1, <1>2, <1>3, <1>4, <1>5, <1>6, <1>7, <1>8, <1>9 DEF RepublisherNext, ForwarderStep

LEMMA RepKnownStep ==
  RepInv /\ [RepublisherNext]_republisherVars => \A h \in UserGoals : GoalKnown(h)'
<1> SUFFICES ASSUME RepInv, [RepublisherNext]_republisherVars, NEW h \in UserGoals
             PROVE  GoalKnown(h)'
  OBVIOUS
<1>h. GoalKnown(h)
  BY DEF RepInv
<1>t. RepublisherTypeOK
  BY DEF RepInv
<1> USE <1>h, <1>t DEF RepublisherTypeOK, GoalKnown, Outcomes
<1>1. ASSUME NEW g \in UserGoals, ForwardGoal(g) PROVE GoalKnown(h)'
  BY <1>1 DEF ForwardGoal, UserActive
<1>2. ASSUME NEW g \in UserGoals, UserCancels(g) PROVE GoalKnown(h)'
  BY <1>2 DEF UserCancels
<1>3. ASSUME NEW g \in UserGoals, AwaitHandle(g) PROVE GoalKnown(h)'
  BY <1>3 DEF AwaitHandle, EndUserGoal
<1>4. ASSUME NEW g \in UserGoals, AwaitResult(g) PROVE GoalKnown(h)'
  BY <1>4 DEF AwaitResult, EndUserGoal, CancelAtRobot, CancelThrows, TakeResult
<1>5. ASSUME NEW g \in UserGoals, EndWithResult(g) PROVE GoalKnown(h)'
  BY <1>5 DEF EndWithResult, EndUserGoal
<1>6. ASSUME NEW g \in UserGoals, GoalTimesOut(g) PROVE GoalKnown(h)'
  BY <1>6 DEF GoalTimesOut
<1>7. ASSUME NEW g \in UserGoals, RobotDecides(g) PROVE GoalKnown(h)'
  BY <1>7 DEF RobotDecides
<1>8. ASSUME NEW g \in UserGoals, AnswerArrives(g) PROVE GoalKnown(h)'
  BY <1>8 DEF AnswerArrives
<1>9. CASE UNCHANGED republisherVars
  BY <1>9 DEF republisherVars
<1> QED
  BY <1>1, <1>2, <1>3, <1>4, <1>5, <1>6, <1>7, <1>8, <1>9
     DEF RepublisherNext, ForwarderStep, RepInv

LEMMA RepStep == RepInv /\ [RepublisherNext]_republisherVars => RepInv'
BY RepTypeStep, RepKnownStep DEF RepInv

LEMMA RepInvariance == RepublisherSpec => []RepInv
BY RepInitial, RepStep, PTL DEF RepublisherSpec

\* Every variable of the republisher keeps its type.
THEOREM RepublisherTypes == RepublisherSpec => []RepublisherTypeOK
BY RepInvariance, PTL DEF RepInv

\* A client is told of a success that was one, and of an end by a cancel or a timeout, once
\* the republisher has the handle, only of a goal the robot was told to stop.
THEOREM ClientsAreToldTheTruth == RepublisherSpec => []ClientToldTheTruth
<1>1. RepInv => ClientToldTheTruth
  BY DEF RepInv, GoalKnown, ClientToldTheTruth, SuccessIsTheRobots, RobotToldToStop
<1> QED
  BY RepInvariance, <1>1, PTL

(***************************************************************************)
(* The wheel controller                                                    *)
(***************************************************************************)

\* The limiter starts from the speed the wheels have, and only what the callback has not
\* taken is out of the range of the references.
DdInv ==
  /\ DiffDriveTypeOK
  /\ dd_buffer.v <= NaN /\ (dd_taken = NothingTaken \/ dd_taken.v <= NaN)
  /\ dd_last = dd_wheels
  /\ WheelsRestUnlessActive

\* The limiter returns a speed in the range of the wheels, near the one it starts from.
LEMMA LimitedInRange ==
  ASSUME NEW v \in Int, NEW last \in -MaxVel .. MaxVel
  PROVE  /\ Limited(v, last) \in -MaxVel .. MaxVel
         /\ Limited(v, last) - last <= MaxAccel /\ last - Limited(v, last) <= MaxAccel
<1> DEFINE x == Clamp(v, -MaxVel, MaxVel)
<1>1. MaxVel \in Nat /\ MaxAccel \in Nat
  BY DiffDriveAssumption
<1>2. x \in -MaxVel .. MaxVel
  BY <1>1 DEF Clamp
<1> HIDE DEF x
<1>3. /\ Clamp(x, last - MaxAccel, last + MaxAccel) \in -MaxVel .. MaxVel
      /\ Clamp(x, last - MaxAccel, last + MaxAccel) - last <= MaxAccel
      /\ last - Clamp(x, last - MaxAccel, last + MaxAccel) <= MaxAccel
  BY <1>1, <1>2 DEF Clamp
<1> QED
  BY <1>3 DEF Limited, x

\* The reference is a speed that was commanded, zero, or none.
LEMMA ReferenceInRange == DdInv => Reference \in -2 * MaxVel .. NaN
<1> SUFFICES ASSUME DdInv PROVE Reference \in -2 * MaxVel .. NaN
  OBVIOUS
<1>1. MaxVel \in Nat
  BY DiffDriveAssumption
<1>2. dd_buffer.v \in -2 * MaxVel .. NaN
  BY <1>1 DEF DdInv, DiffDriveTypeOK, DdMessages, NaN
<1>3. dd_reference \in -2 * MaxVel .. NaN
  BY DEF DdInv, DiffDriveTypeOK
<1> QED
  BY <1>1, <1>2, <1>3 DEF Reference, NaN

LEMMA MessagesAreTyped ==
  NoMessage \in DdMessages /\ NothingTaken \in DdMessages /\ NoMessage.v <= NaN
BY DiffDriveAssumption DEF NoMessage, NothingTaken, DdMessages, NaN

\* Time and the callback keep the messages in their ranges.
LEMMA AgedIsMessage ==
  ASSUME NEW msg \in DdMessages
  PROVE  Aged(msg) \in DdMessages /\ Aged(msg).v = msg.v
<1>1. OldestAge \in Int
  BY DiffDriveAssumption DEF OldestAge
<1> QED
  BY <1>1 DEF Aged, DdMessages

LEMMA DdInitial == DiffDriveInit => DdInv
<1>1. 0 \in -MaxVel .. MaxVel /\ NaN \in -2 * MaxVel .. NaN
  BY DiffDriveAssumption DEF NaN
<1> QED
  BY <1>1, MessagesAreTyped DEF DiffDriveInit, DdInv, DiffDriveTypeOK, WheelsRestUnlessActive

LEMMA DdMessageSteps ==
  DdInv /\ (DdCommandTaken \/ DdCommandWritten \/ DdTime) => DdInv'
<1> SUFFICES ASSUME DdInv, DdCommandTaken \/ DdCommandWritten \/ DdTime PROVE DdInv'
  OBVIOUS
<1>0. UNCHANGED <<dd_state, dd_failed, dd_reference, dd_last, dd_wheels>>
  BY DEF DdCommandTaken, DdCommandWritten, DdTime
<1>m. /\ dd_buffer' \in DdMessages /\ dd_buffer'.v <= NaN
      /\ dd_taken' \in DdMessages /\ (dd_taken' = NothingTaken \/ dd_taken'.v <= NaN)
  <2>1. CASE DdCommandTaken
    <3>1. PICK v \in CmdVels \union {NaN}, age \in StampAges : dd_taken' = [v |-> v, age |-> age]
      BY <2>1 DEF DdCommandTaken
    <3>2. v \in -2 * MaxVel .. NaN /\ age \in Int
      BY DiffDriveAssumption DEF NaN
    <3>3. dd_taken' \in DdMessages /\ dd_taken'.v <= NaN
      BY <3>1, <3>2, DiffDriveAssumption DEF DdMessages, NaN
    <3> QED
      BY <2>1, <3>3 DEF DdCommandTaken, DdInv, DiffDriveTypeOK
  <2>2. CASE DdCommandWritten
    BY <2>2, MessagesAreTyped DEF DdCommandWritten, DdInv, DiffDriveTypeOK
  <2>3. CASE DdTime
    BY <2>3, AgedIsMessage DEF DdTime, DdInv, DiffDriveTypeOK
  <2> QED
    BY <2>1, <2>2, <2>3
<1> QED
  BY <1>0, <1>m DEF DdInv, DiffDriveTypeOK, WheelsRestUnlessActive

LEMMA DdUpdateSteps ==
  ASSUME DdInv, DdUpdate \/ DdUpdateFails
  PROVE  /\ DdInv'
         /\ dd_wheels' - dd_wheels <= MaxAccel /\ dd_wheels - dd_wheels' <= MaxAccel
<1>1. UNCHANGED <<dd_state, dd_buffer, dd_taken>> /\ dd_failed' \in BOOLEAN /\ dd_state = "active"
  BY DEF DdUpdate, DdUpdateFails, DdInv, DiffDriveTypeOK
<1>2. dd_reference' \in -2 * MaxVel .. NaN
  BY ReferenceInRange DEF DdUpdate, DdUpdateFails
<1>3. /\ dd_last' \in -MaxVel .. MaxVel /\ dd_wheels' = dd_last'
      /\ dd_last' - dd_last <= MaxAccel /\ dd_last - dd_last' <= MaxAccel
  <2>1. CASE UNCHANGED <<dd_last, dd_wheels>>
    BY <2>1, DiffDriveAssumption DEF DdInv, DiffDriveTypeOK
  <2>2. CASE dd_last' = Limited(Reference, dd_last) /\ dd_wheels' = dd_last'
    <3>1. Reference \in Int /\ dd_last \in -MaxVel .. MaxVel
      BY ReferenceInRange, DiffDriveAssumption DEF DdInv, DiffDriveTypeOK, NaN
    <3> QED
      BY <2>2, <3>1, LimitedInRange
  <2> QED
    BY <2>1, <2>2 DEF DdUpdate, DdUpdateFails
<1> QED
  BY <1>1, <1>2, <1>3 DEF DdInv, DiffDriveTypeOK, WheelsRestUnlessActive

\* The lifecycle: every transition leaves the wheels at rest or as they were.
LEMMA DdLifecycleSteps ==
  ASSUME DdInv, DdConfigure \/ DdActivate \/ DdDeactivate \/ DdCleanup
  PROVE  DdInv' /\ (dd_state' = "active" => dd_wheels' = dd_wheels)
<1>1. CASE DdConfigure \/ DdDeactivate \/ DdCleanup
  <2>1. /\ dd_reference' = NaN /\ dd_buffer' = NoMessage /\ dd_last' = 0
        /\ dd_wheels' = 0 /\ UNCHANGED dd_taken
        /\ dd_state' \in {"unconfigured", "inactive"} /\ dd_failed' \in BOOLEAN
    BY <1>1 DEF DdConfigure, DdDeactivate, DdCleanup, ResetBuffers, DdInv, DiffDriveTypeOK,
       WheelsRestUnlessActive
  <2>2. 0 \in -MaxVel .. MaxVel /\ NaN \in -2 * MaxVel .. NaN
    BY DiffDriveAssumption DEF NaN
  <2> QED
    BY <2>1, <2>2, MessagesAreTyped DEF DdInv, DiffDriveTypeOK, WheelsRestUnlessActive
<1>2. CASE DdActivate
  BY <1>2 DEF DdActivate, DdInv, DiffDriveTypeOK, WheelsRestUnlessActive
<1> QED
  BY <1>1, <1>2

LEMMA DdStep == DdInv /\ [DiffDriveNext]_diffDriveVars => DdInv'
<1>1. DdInv /\ UNCHANGED diffDriveVars => DdInv'
  BY DEF diffDriveVars, DdInv, DiffDriveTypeOK, WheelsRestUnlessActive
<1> QED
  BY <1>1, DdMessageSteps, DdUpdateSteps, DdLifecycleSteps DEF DiffDriveNext

LEMMA DdInvariance == DiffDriveSpec => []DdInv
BY DdInitial, DdStep, PTL DEF DiffDriveSpec

\* Every variable of the controller keeps its type: no command drives the wheels faster than
\* their limit.
THEOREM DiffDriveTypes == DiffDriveSpec => []DiffDriveTypeOK
BY DdInvariance, PTL DEF DdInv

\* The wheels turn under an active controller only, and change speed within its limits, for
\* any limits and whatever commands arrive.
THEOREM WheelsAlwaysObey == DiffDriveSpec => WheelsObey
<1> DEFINE Smooth == dd_state' = "active" => /\ dd_wheels' - dd_wheels <= MaxAccel
                                             /\ dd_wheels - dd_wheels' <= MaxAccel
<1>1. DdInv /\ [DiffDriveNext]_diffDriveVars => [Smooth]_diffDriveVars
  <2> SUFFICES ASSUME DdInv, DiffDriveNext PROVE Smooth
    OBVIOUS
  <2>1. dd_wheels \in Int /\ MaxAccel \in Nat
    BY DiffDriveAssumption DEF DdInv, DiffDriveTypeOK
  <2>2. CASE DdUpdate \/ DdUpdateFails
    BY <2>2, DdUpdateSteps
  <2>3. CASE DdConfigure \/ DdActivate \/ DdDeactivate \/ DdCleanup
    BY <2>1, <2>3, DdLifecycleSteps
  <2>4. CASE DdCommandTaken \/ DdCommandWritten \/ DdTime
    BY <2>1, <2>4 DEF DdCommandTaken, DdCommandWritten, DdTime
  <2> QED
    BY <2>2, <2>3, <2>4 DEF DiffDriveNext
<1>2. DdInv => WheelsRestUnlessActive
  BY DEF DdInv
<1> QED
  BY <1>1, <1>2, DdInvariance, PTL DEF DiffDriveSpec, WheelsObey, SpeedChangesWithinLimits

(***************************************************************************)
(* The motions of a coverage run                                           *)
(***************************************************************************)

\* How far n reflexes back the robot away at most
BackedAway(n) == n * (BackupDistance + MotionStep)

\* What n updates add to the radius, and the time they take at least
Widened(n) == n * RadiusIncrement
Updating(n) == n * (RadiusInterval + 1)

\* A rotation of the behavior's own, and how far it has turned the way it was asked to
TurnsItself == motion.config.kind = "rotate" /\ ~motion.config.robot_has_reflexes
Asked == Magnitude(motion.config.target_rotation)
Amount == (turned - motion.facing) * Sign(motion.config.target_rotation)

RotatesOn ==
  TurnsItself =>
    /\ motion_state = "success" => motion.begun /\ Amount >= Asked
    /\ motion.begun => 0 <= Amount /\ (NearHalfTurn \/ Amount < Asked + MotionStep)

\* The reflexes counted so far back the robot away; one that is alive is counted, and adds
\* its own part from where it began.
BacksAwayStepwise ==
  TurnsItself =>
    /\ ~motion_reflex.alive => -place <= BackedAway(motion.hazards_count)
    /\ motion_reflex.alive =>
         /\ motion_reflex.begun /\ motion.hazards_count >= 1
         /\ -motion_reflex.from <= BackedAway(motion.hazards_count - 1)
         /\ motion_reflex.from - place \in 0 .. BackupDistance + MotionStep

\* Each update of the radius took its interval.
WidensStepwise ==
  \E k \in Nat : /\ motion.radius = InitialRadius + Widened(k)
                 /\ Updating(k) <= motion.widened

MotionRecord ==
  [config : MotionConfigs, begun : BOOLEAN, from : Places, facing : Turns,
   age : 0..LastAge, hazards_count : 0..(MaxHazardRetries + 1),
   radius : Int, widened : 0..LastAge]
ReflexRecord ==
  [alive : BOOLEAN, begun : BOOLEAN, from : Places, age : 0..(ClearHazardTime + 1)]

MotionTypes ==
  /\ place \in Places /\ turned \in Turns
  /\ motion \in MotionRecord
  /\ motion.widened <= motion.age /\ motion.age <= AgeEnd(motion.config)
  /\ motion_state \in {"none", "running", "success", "failure"}
  /\ motion_reflex \in ReflexRecord

MotionInv == MotionTypes /\ RotatesOn /\ BacksAwayStepwise /\ WidensStepwise

\* What the assumption says, constant by constant
LEMMA MotionConstants ==
  /\ FullTurn \in Nat \ {0} /\ MotionStep \in Nat \ {0} /\ BackupDistance \in Nat
  /\ MaxHazardRetries \in Nat /\ ClearHazardTime \in Nat /\ SpiralDuration \in Nat
  /\ RadiusInterval \in Nat /\ InitialRadius \in Nat /\ RadiusIncrement \in Nat
  /\ PlaceEnd \in Nat /\ TurnEnd \in Nat /\ FullTurn <= TurnEnd
  /\ LastAge \in Nat /\ \A config : AgeEnd(config) \in 0 .. LastAge
<1>1. /\ FullTurn \in Nat \ {0} /\ MotionStep \in Nat \ {0} /\ BackupDistance \in Nat
      /\ MaxHazardRetries \in Nat /\ ClearHazardTime \in Nat /\ SpiralDuration \in Nat
      /\ RadiusInterval \in Nat /\ InitialRadius \in Nat /\ RadiusIncrement \in Nat
      /\ PlaceEnd \in Nat /\ TurnEnd \in Nat /\ FullTurn <= TurnEnd
  BY CoverageMotionAssumption
<1> QED
  BY <1>1 DEF LastAge, AgeEnd, Most

LEMMA RotationTargets ==
  ASSUME NEW config \in MotionConfigs, config.kind = "rotate"
  PROVE  config.target_rotation \in Int /\ config.robot_has_reflexes \in BOOLEAN
<1>1. CASE config \in [kind : {"drive_straight"}, max_distance : Nat, min_distance : Nat]
  BY <1>1
<1>2. CASE config \in [kind : {"spiral"}]
  BY <1>2
<1>3. CASE config \in [kind : {"rotate"}, target_rotation : Int, robot_has_reflexes : BOOLEAN]
  BY <1>3
<1> QED
  BY <1>1, <1>2, <1>3, CoverageMotionAssumption

\* One more reflex, and one more update, add theirs.
LEMMA BackedAwayMore ==
  ASSUME NEW n \in Int
  PROVE  /\ BackedAway(n) \in Int
         /\ BackedAway(n + 1) = BackedAway(n) + BackupDistance + MotionStep
<1> DEFINE d == BackupDistance + MotionStep
<1>1. d \in Nat /\ BackupDistance \in Nat /\ MotionStep \in Nat
  BY MotionConstants
<1>2. BackedAway(n) = n * d /\ BackedAway(n + 1) = (n + 1) * d
  BY DEF BackedAway
<1> HIDE DEF d
<1>3. (n + 1) * d = n * d + d /\ n * d \in Int
  BY <1>1
<1> QED
  BY <1>1, <1>2, <1>3 DEF d

LEMMA BackedAwayNotLess ==
  ASSUME NEW m \in Nat, NEW n \in Nat, m <= n
  PROVE  BackedAway(m) <= BackedAway(n) /\ BackedAway(m) \in Nat
<1> DEFINE d == BackupDistance + MotionStep
<1>1. d \in Nat
  BY MotionConstants
<1>2. BackedAway(n) = n * d /\ BackedAway(m) = m * d
  BY DEF BackedAway
<1> HIDE DEF d
<1>3. PICK e \in Nat : n = m + e
  <2>1. n - m \in Nat /\ n = m + (n - m)
    OBVIOUS
  <2> QED
    BY <2>1
<1>4. n * d = m * d + e * d /\ e * d \in Nat /\ m * d \in Nat
  BY <1>1, <1>3
<1> QED
  BY <1>2, <1>4

LEMMA WidensMore ==
  ASSUME NEW k \in Nat
  PROVE  /\ Widened(k) \in Nat /\ Updating(k) \in Nat
         /\ Widened(k + 1) = Widened(k) + RadiusIncrement
         /\ Updating(k + 1) = Updating(k) + RadiusInterval + 1
<1> DEFINE d == RadiusInterval + 1
<1>1. d \in Nat /\ RadiusIncrement \in Nat /\ RadiusInterval \in Nat
  BY MotionConstants
<1>2. (k + 1) * RadiusIncrement = k * RadiusIncrement + RadiusIncrement
      /\ k * RadiusIncrement \in Nat
  BY <1>1
<1>3. Updating(k) = k * d /\ Updating(k + 1) = (k + 1) * d
  BY DEF Updating
<1> HIDE DEF d
<1>4. (k + 1) * d = k * d + d /\ k * d \in Nat
  BY <1>1
<1> QED
  BY <1>1, <1>2, <1>3, <1>4 DEF Widened, d

\* The updates that fit in a time are no more than it holds intervals.
LEMMA WidenedByAge ==
  ASSUME NEW k \in Nat, NEW age \in Nat, Updating(k) <= age
  PROVE  /\ k <= age
         /\ Widened(k) <= (age \div (RadiusInterval + 1)) * RadiusIncrement
         /\ Widened(k) <= age * RadiusIncrement
<1> DEFINE d == RadiusInterval + 1
           q == age \div d
<1>1. d \in Nat \ {0} /\ RadiusIncrement \in Nat
  BY MotionConstants
<1>2. k * d <= age
  BY DEF Updating
<1> HIDE DEF d
<1>3. q \in Nat /\ age < (q + 1) * d
  <2>1. q \in Int /\ age = d * q + (age % d) /\ age % d \in 0 .. d - 1
    BY <1>1
  <2> HIDE DEF q
  <2>2. (q + 1) * d = d * q + d
    BY <1>1, <2>1
  <2>3. age < (q + 1) * d
    BY <1>1, <2>1, <2>2
  <2>4. q >= 0
    <3> SUFFICES ASSUME q < 0 PROVE FALSE
      BY <2>1
    <3>1. PICK e \in Nat : q = -1 - e
      <4>1. -1 - q \in Nat /\ q = -1 - (-1 - q)
        BY <2>1
      <4> QED
        BY <4>1
    <3>2. d * q = -d - d * e /\ d * e \in Nat
      BY <1>1, <3>1
    <3> QED
      BY <1>1, <2>1, <3>2
  <2> QED
    BY <2>1, <2>3, <2>4
<1> HIDE DEF q
<1>4. k <= q
  <2> SUFFICES ASSUME k > q PROVE FALSE
    BY <1>3
  <2>1. PICK e \in Nat : k = q + 1 + e
    <3>1. k - q - 1 \in Nat /\ k = q + 1 + (k - q - 1)
      BY <1>3
    <3> QED
      BY <3>1
  <2>2. k * d = (q + 1) * d + e * d /\ e * d \in Nat /\ (q + 1) * d \in Nat
    BY <1>1, <1>3, <2>1
  <2> QED
    BY <1>2, <1>3, <2>2
<1>5. k <= age
  <2>1. PICK e \in Nat : d = 1 + e
    <3>1. d - 1 \in Nat /\ d = 1 + (d - 1)
      BY <1>1
    <3> QED
      BY <3>1
  <2>2. k * d = k + k * e /\ k * e \in Nat
    BY <2>1
  <2> QED
    BY <1>2, <2>2
<1>6. ASSUME NEW n \in Nat, k <= n PROVE Widened(k) <= n * RadiusIncrement
  <2>1. PICK e \in Nat : n = k + e
    <3>1. n - k \in Nat /\ n = k + (n - k)
      BY <1>6
    <3> QED
      BY <3>1
  <2>2. n * RadiusIncrement = k * RadiusIncrement + e * RadiusIncrement
        /\ e * RadiusIncrement \in Nat /\ k * RadiusIncrement \in Nat
    BY <1>1, <2>1
  <2> QED
    BY <2>2 DEF Widened
<1> QED
  BY <1>3, <1>4, <1>5, <1>6 DEF d, q

\* What a rotation that goes on turns is what its heading shows, where it cannot be stepped
\* over; and what its heading shows it has turned at least.
LEMMA TurnsAsAsked ==
  ASSUME NEW facing \in Int, NEW now \in Int, NEW sign \in {-1, 1}, NEW asked \in Nat,
         NEW s \in 0 .. MotionStep, NEW amount \in Int, amount = (now - facing) * sign,
         0 <= amount,
         2 * (asked + MotionStep) > FullTurn \/ amount < asked + MotionStep
  PROVE  /\ Magnitude(ShortestTurn(FullTurn, facing, now)) >= asked => amount >= asked
         /\ ~(Magnitude(ShortestTurn(FullTurn, facing, now)) >= asked) =>
              /\ 0 <= amount + s
              /\ 2 * (asked + MotionStep) > FullTurn \/ amount + s < asked + MotionStep
         /\ ((now + sign * s) - facing) * sign = amount + s
<1> DEFINE left == ShortestTurn(FullTurn, facing, now)
           near == 2 * (asked + MotionStep) > FullTurn
<1>1. /\ FullTurn \in Nat \ {0} /\ MotionStep \in Nat /\ s \in Nat /\ s <= MotionStep
  BY MotionConstants
<1>2. left \in Int /\ Magnitude(left) <= Magnitude(now - facing)
  BY <1>1, ShortestTurnIs, ShortestIsShortest
<1>3. Magnitude(now - facing) = amount /\ now - facing \in Int
  BY <1>1 DEF Magnitude
<1>4. ASSUME ~near PROVE left = now - facing
  <2>1. 2 * (now - facing) <= FullTurn /\ -FullTurn < 2 * (now - facing)
    BY <1>1, <1>3, <1>4 DEF Magnitude
  <2>2. now - facing = (now - facing) + WholeTurns(FullTurn, 0)
    BY <1>1, <1>3, NoTurns
  <2>3. IsShortest(FullTurn, facing, now, now - facing)
    BY <2>1, <2>2 DEF IsShortest
  <2> QED
    BY <1>1, <1>3, <2>3, ShortestUnique
<1>5. Magnitude(left) >= asked => amount >= asked
  <2> HIDE DEF left
  <2> QED
    BY <1>1, <1>2, <1>3 DEF Magnitude
<1>6. ~(Magnitude(left) >= asked) => 0 <= amount + s /\ (near \/ amount + s < asked + MotionStep)
  <2> HIDE DEF left
  <2>1. Magnitude(left) \in Nat
    BY <1>2 DEF Magnitude
  <2> QED
    BY <1>1, <1>3, <1>4, <2>1
<1>7. ((now + sign * s) - facing) * sign = amount + s
  <2>1. CASE sign = 1
    BY <1>1, <2>1
  <2>2. CASE sign = -1
    BY <1>1, <2>2
  <2> QED
    BY <2>1, <2>2
<1> QED
  BY <1>5, <1>6, <1>7

LEMMA MotionInvTypes ==
  ASSUME MotionInv
  PROVE  /\ place \in Int /\ turned \in Int /\ motion \in MotionRecord
         /\ motion.config \in MotionConfigs /\ motion.begun \in BOOLEAN
         /\ motion.from \in Places /\ motion.facing \in Int /\ motion.facing \in Turns
         /\ motion.age \in 0 .. LastAge
         /\ motion.hazards_count \in 0 .. MaxHazardRetries + 1
         /\ motion.radius \in Int /\ motion.widened \in 0 .. LastAge
         /\ motion_reflex \in ReflexRecord /\ motion_reflex.alive \in BOOLEAN
         /\ motion_reflex.begun \in BOOLEAN /\ motion_reflex.from \in Int
         /\ motion_reflex.from \in Places /\ motion_reflex.age \in 0 .. ClearHazardTime + 1
<1> QED
  BY MotionConstants DEF MotionInv, MotionTypes, MotionRecord, ReflexRecord, Places, Turns

\* The invariant holds when a behavior is constructed.
Constructed ==
  /\ place = 0 /\ turned = 0
  /\ \E config \in MotionConfigs : motion = NewMotion(config)
  /\ motion_state \in {"none", "running"}
  /\ motion_reflex = NoReflex

LEMMA ConstructedInv == Constructed => MotionInv
<1> SUFFICES ASSUME Constructed PROVE MotionInv
  OBVIOUS
<1>1. PICK config \in MotionConfigs : motion = NewMotion(config)
  BY DEF Constructed
<1>2. /\ place = 0 /\ turned = 0 /\ motion_reflex = NoReflex
      /\ motion_state \in {"none", "running"}
  BY DEF Constructed
<1>3. 0 \in Places /\ 0 \in Turns /\ 0 \in 0 .. LastAge /\ 0 \in 0 .. MaxHazardRetries + 1
      /\ 0 \in 0 .. ClearHazardTime + 1 /\ InitialRadius \in Int
  BY MotionConstants DEF Places, Turns
<1>4. motion \in MotionRecord
  BY <1>1, <1>3 DEF NewMotion, MotionRecord
<1>5. motion_reflex \in ReflexRecord
  BY <1>2, <1>3 DEF NoReflex, ReflexRecord
<1>6. motion.widened <= motion.age /\ motion.age <= AgeEnd(motion.config)
  <2>1. motion.widened = 0 /\ motion.age = 0
    BY <1>1 DEF NewMotion
  <2>2. AgeEnd(motion.config) \in 0 .. LastAge
    BY MotionConstants
  <2> QED
    BY <2>1, <2>2
<1>7. MotionTypes
  BY <1>2, <1>3, <1>4, <1>5, <1>6 DEF MotionTypes
<1>8. RotatesOn
  BY <1>1, <1>2 DEF RotatesOn, NewMotion
<1>9. BacksAwayStepwise
  <2>1. BackedAway(0) = 0
    BY MotionConstants DEF BackedAway
  <2> QED
    BY <1>1, <1>2, <2>1 DEF BacksAwayStepwise, NewMotion, NoReflex
<1>10. WidensStepwise
  <2>1. Widened(0) = 0 /\ Updating(0) = 0
    BY MotionConstants DEF Widened, Updating
  <2>2. motion.radius = InitialRadius + Widened(0) /\ Updating(0) <= motion.widened
    BY <1>1, <2>1, MotionConstants DEF NewMotion
  <2> QED
    BY <2>2 DEF WidensStepwise
<1> QED
  BY <1>7, <1>8, <1>9, <1>10 DEF MotionInv

LEMMA ConstructedNext == Constructed' => MotionInv'
BY ConstructedInv, PTL

\* Behaviors that do not rotate by themselves keep what is said of rotations.
LEMMA NotARotation ==
  ASSUME ~TurnsItself', MotionTypes', WidensStepwise'
  PROVE  MotionInv'
BY DEF RotatesOn, BacksAwayStepwise, MotionInv

\* A step that does not widen the spiral
LEMMA NotWidened ==
  ASSUME MotionInv, motion'.radius = motion.radius, motion'.widened = motion.widened
  PROVE  WidensStepwise'
BY DEF MotionInv, WidensStepwise

LEMMA StraightSteps ==
  ASSUME MotionInv, NEW hazards, NEW opcodes, DriveStraight(hazards, opcodes)
  PROVE  MotionInv'
<1>1. /\ motion.config.kind = "drive_straight" /\ motion_reflex' = motion_reflex
      /\ motion' = [motion EXCEPT !.begun = TRUE, !.from = Start]
      /\ motion_state' \in {"running", "success", "failure"}
      /\ place' \in Places /\ turned' \in Turns
  BY DEF DriveStraight, Return, Moves, Stays, MotionInv, MotionTypes
<1>2. Start \in Places
  BY MotionInvTypes DEF Start, MotionInv, MotionTypes
<1>3. /\ motion' \in MotionRecord /\ motion'.config = motion.config
      /\ motion'.age = motion.age /\ motion'.radius = motion.radius
      /\ motion'.widened = motion.widened
  BY <1>1, <1>2, MotionInvTypes DEF MotionRecord
<1>4. MotionTypes'
  BY <1>1, <1>3, MotionInvTypes DEF MotionInv, MotionTypes, AgeEnd
<1>5. ~TurnsItself'
  BY <1>1, <1>3 DEF TurnsItself
<1> QED
  BY <1>3, <1>4, <1>5, NotARotation, NotWidened

LEMMA SpiralSteps ==
  ASSUME MotionInv, NEW hazards, NEW opcodes, Spiral(hazards, opcodes)
  PROVE  MotionInv'
<1>1. /\ motion.config.kind = "spiral" /\ motion_reflex' = motion_reflex
      /\ motion_state' \in {"running", "success", "failure"} /\ place' = place
      /\ turned' \in {turned, (turned + 1) % FullTurn}
  BY DEF Spiral, Return, Stays
<1>2. turned' \in Turns
  <2>1. (turned + 1) % FullTurn \in Turns
    <3>1. turned + 1 \in Int
      BY MotionInvTypes
    <3>2. (turned + 1) % FullTurn \in 0 .. FullTurn - 1
      BY <3>1, MotionConstants, RemainderIs
    <3> QED
      BY <3>2, MotionConstants DEF Turns
  <2> QED
    BY <1>1, <2>1 DEF MotionInv, MotionTypes
<1>3. CASE motion' = motion
  <2>1. MotionTypes'
    BY <1>1, <1>2, <1>3, MotionInvTypes DEF MotionInv, MotionTypes, AgeEnd
  <2>2. ~TurnsItself'
    BY <1>1, <1>3 DEF TurnsItself
  <2> QED
    BY <1>3, <2>1, <2>2, NotARotation, NotWidened
<1>4. CASE /\ motion.age - motion.widened > RadiusInterval
           /\ motion' = [motion EXCEPT !.radius = @ + RadiusIncrement, !.widened = motion.age]
  <2>1. /\ motion.radius + RadiusIncrement \in Int /\ motion.age \in 0 .. LastAge
        /\ motion.age \in Int /\ motion.widened \in Int
    BY MotionInvTypes, MotionConstants
  <2>2. /\ motion' \in MotionRecord /\ motion'.config = motion.config
        /\ motion'.age = motion.age /\ motion'.radius = motion.radius + RadiusIncrement
        /\ motion'.widened = motion.age
    BY <1>4, <2>1, MotionInvTypes DEF MotionRecord
  <2>3. MotionTypes'
    BY <1>1, <1>2, <2>1, <2>2, MotionInvTypes DEF MotionInv, MotionTypes, AgeEnd
  <2>4. ~TurnsItself'
    BY <1>1, <2>2 DEF TurnsItself
  <2>5. WidensStepwise'
    <3>1. PICK k \in Nat : /\ motion.radius = InitialRadius + Widened(k)
                           /\ Updating(k) <= motion.widened
      BY DEF MotionInv, WidensStepwise
    <3>2. /\ Widened(k) \in Nat /\ Updating(k) \in Nat
          /\ Widened(k + 1) = Widened(k) + RadiusIncrement
          /\ Updating(k + 1) = Updating(k) + RadiusInterval + 1
      BY WidensMore
    <3>3. /\ motion'.radius = InitialRadius + Widened(k + 1)
          /\ Updating(k + 1) <= motion'.widened /\ k + 1 \in Nat
      BY <1>4, <2>1, <2>2, <3>1, <3>2, MotionConstants
    <3> QED
      BY <3>3 DEF WidensStepwise
  <2> QED
    BY <2>3, <2>4, <2>5, NotARotation
<1> QED
  BY <1>3, <1>4 DEF Spiral, RadiusUpdateTime

LEMMA TrialsSteps ==
  ASSUME MotionInv, motion.config.kind = "rotate", TooManyTrials
  PROVE  MotionInv'
<1>1. motion_state' = "failure" /\ UNCHANGED <<place, turned, motion, motion_reflex>>
  BY DEF TooManyTrials, Return, Stays
<1>2. MotionTypes'
  BY <1>1 DEF MotionInv, MotionTypes, AgeEnd
<1>3. RotatesOn'
  BY <1>1 DEF MotionInv, RotatesOn, TurnsItself, Amount, Asked, NearHalfTurn
<1>4. BacksAwayStepwise'
  BY <1>1 DEF MotionInv, BacksAwayStepwise, TurnsItself
<1> QED
  BY <1>1, <1>2, <1>3, <1>4, NotWidened DEF MotionInv

\* A rotation that is held by a hazard backs away only in a reflex that is counted.
LEMMA HoldSteps ==
  ASSUME MotionInv, motion.config.kind = "rotate", NEW hazards, HoldRotation(hazards)
  PROVE  MotionInv'
<1> DEFINE n == motion.hazards_count
           r == RunReflex
           needs == NeedsReflex(hazards)
           state == HazardsState(hazards)
<1>1. /\ n <= MaxHazardRetries /\ state # "success" /\ motion_state' = state
      /\ motion' = [motion EXCEPT !.hazards_count = HazardsCount(hazards)]
      /\ motion_reflex' = IF needs THEN Executed(r) ELSE motion_reflex
      /\ IF state = "running" /\ needs THEN Moves(-1, 0) ELSE Stays
  BY DEF HoldRotation, Return
<1>2. /\ place \in Int /\ turned \in Int /\ motion \in MotionRecord /\ n \in Nat
      /\ motion_reflex \in ReflexRecord /\ MotionStep \in Nat /\ BackupDistance \in Nat
      /\ MaxHazardRetries \in Nat /\ place \in Places
  BY MotionInvTypes, MotionConstants DEF MotionInv, MotionTypes
<1>3. /\ HazardsCount(hazards) = IF needs /\ ~motion_reflex.alive THEN n + 1 ELSE n
      /\ HazardsCount(hazards) \in 0 .. MaxHazardRetries + 1
  BY <1>1, <1>2 DEF HazardsCount
<1>4. /\ motion' \in MotionRecord /\ motion'.config = motion.config /\ motion'.age = motion.age
      /\ motion'.radius = motion.radius /\ motion'.widened = motion.widened
      /\ motion'.begun = motion.begun /\ motion'.facing = motion.facing
      /\ motion'.hazards_count = HazardsCount(hazards)
  BY <1>1, <1>2, <1>3 DEF MotionRecord
<1>5. PICK s \in 0 .. MotionStep :
        /\ place' = place - s /\ turned' = turned /\ place' \in Places /\ turned' \in Turns
        /\ s # 0 => state = "running" /\ needs
  <2>1. CASE state = "running" /\ needs
    <3>1. PICK s \in 0 .. MotionStep :
            /\ place' = place + (-1) * s /\ place' \in Places
            /\ turned' = turned + 0 * s /\ turned' \in Turns
      BY <1>1, <2>1 DEF Moves
    <3>2. place + (-1) * s = place - s /\ turned + 0 * s = turned
      BY <1>2
    <3> QED
      BY <2>1, <3>1, <3>2
  <2>2. CASE ~(state = "running" /\ needs)
    <3>1. place' = place - 0 /\ turned' = turned
      BY <1>1, <1>2, <2>2 DEF Stays
    <3> QED
      BY <1>2, <2>2, <3>1 DEF MotionInv, MotionTypes
  <2> QED
    BY <2>1, <2>2
<1>6. state \in {"running", "failure", "success"}
  BY DEF HazardsState, ReflexState, NeedsReflex
<1>7. /\ r \in ReflexRecord /\ Executed(r) \in ReflexRecord
      /\ Executed(r).alive = TRUE /\ Executed(r).begun = TRUE
      /\ Executed(r).from = IF motion_reflex.alive /\ motion_reflex.begun
                            THEN motion_reflex.from ELSE place
  <2>1. 0 \in Places /\ 0 \in 0 .. ClearHazardTime + 1
    BY MotionConstants DEF Places
  <2>2. r \in ReflexRecord /\ r.alive = TRUE
        /\ r.begun = (motion_reflex.alive /\ motion_reflex.begun)
        /\ (r.begun => r.from = motion_reflex.from)
    BY <1>2, <2>1 DEF RunReflex, ReflexRecord, NoReflex
  <2> HIDE DEF r
  <2>3. Executed(r) \in ReflexRecord
    BY <1>2, <2>2 DEF Executed, ReflexRecord
  <2> QED
    BY <1>2, <2>2, <2>3 DEF Executed, ReflexRecord
<1>8. motion_reflex' \in ReflexRecord
  BY <1>1, <1>2, <1>7
<1>9. MotionTypes'
  BY <1>1, <1>4, <1>5, <1>6, <1>8 DEF MotionInv, MotionTypes, AgeEnd
<1>10. RotatesOn'
  BY <1>1, <1>4, <1>5 DEF MotionInv, RotatesOn, TurnsItself, Amount, Asked, NearHalfTurn
<1>11. BacksAwayStepwise'
  <2> SUFFICES ASSUME TurnsItself PROVE BacksAwayStepwise'
    BY <1>4 DEF BacksAwayStepwise, TurnsItself
  <2>1. needs
    <3> SUFFICES ASSUME ~needs PROVE FALSE
      OBVIOUS
    <3>1. ~FrontHazard(hazards)
      BY DEF NeedsReflex, TurnsItself
    <3> QED
      BY <1>1, <3>1 DEF HazardsState
  <2>2. /\ motion_reflex' = Executed(r) /\ motion_reflex'.alive /\ motion_reflex'.begun
    BY <1>1, <1>7, <2>1
  <2>3. s \in Nat /\ s <= MotionStep /\ place' = place - s
    BY <1>2, <1>5
  <2>4. CASE ~motion_reflex.alive
    <3>1. motion'.hazards_count = n + 1 /\ motion_reflex'.from = place
      BY <1>3, <1>4, <1>7, <2>1, <2>2, <2>4
    <3>2. -place <= BackedAway(n)
      BY <2>4 DEF MotionInv, BacksAwayStepwise
    <3>3. motion_reflex'.from - place' = s
      BY <1>2, <2>3, <3>1
    <3>4. (n + 1) - 1 = n /\ n + 1 >= 1 /\ s \in 0 .. BackupDistance + MotionStep
      BY <1>2, <2>3
    <3> QED
      BY <2>2, <3>1, <3>2, <3>3, <3>4 DEF BacksAwayStepwise
  <2>5. CASE motion_reflex.alive
    <3>1. /\ motion_reflex.begun /\ n >= 1 /\ -motion_reflex.from <= BackedAway(n - 1)
          /\ motion_reflex.from - place \in 0 .. BackupDistance + MotionStep
      BY <2>5 DEF MotionInv, BacksAwayStepwise
    <3>2. /\ motion'.hazards_count = n /\ motion_reflex'.from = motion_reflex.from
          /\ motion_reflex.from \in Int
      BY <1>3, <1>4, <1>7, <2>2, <2>5, <3>1, MotionInvTypes
    <3>3. s # 0 => ~(Magnitude(place - motion_reflex.from) > BackupDistance)
      <4> SUFFICES ASSUME s # 0 PROVE ~(Magnitude(place - motion_reflex.from) > BackupDistance)
        OBVIOUS
      <4>1. ReflexState(r, hazards) = "running" /\ r = motion_reflex
        BY <1>5, <2>5 DEF HazardsState, RunReflex
      <4>2. Executed(r).from = motion_reflex.from
        BY <1>7, <2>5, <3>1
      <4> HIDE DEF r
      <4> QED
        BY <3>1, <4>1, <4>2 DEF ReflexState
    <3>4. motion_reflex.from - place' \in 0 .. BackupDistance + MotionStep
      BY <1>2, <2>3, <3>1, <3>2, <3>3 DEF Magnitude
    <3> QED
      BY <2>2, <3>1, <3>2, <3>4 DEF BacksAwayStepwise
  <2> QED
    BY <1>2, <2>4, <2>5 DEF ReflexRecord
<1> QED
  BY <1>4, <1>9, <1>10, <1>11, NotWidened DEF MotionInv

\* A rotation that is not held turns on, and ends the reflex.
LEMMA TurnSteps ==
  ASSUME MotionInv, motion.config.kind = "rotate", NEW hazards, Turn(hazards)
  PROVE  MotionInv'
<1> DEFINE target == motion.config.target_rotation
           sign == Sign(target)
           asked == Magnitude(target)
           amount == (turned - Facing) * sign
<1>1. /\ motion' = [motion EXCEPT !.begun = TRUE, !.facing = Facing]
      /\ motion_reflex' = NoReflex
      /\ \/ TurnedEnough /\ motion_state' = "success" /\ UNCHANGED <<place, turned>>
         \/ ~TurnedEnough /\ motion_state' = "running" /\ Moves(0, sign)
  BY DEF Turn, Return, Stays
<1>2. /\ place \in Int /\ turned \in Int /\ motion \in MotionRecord /\ turned \in Turns
      /\ place \in Places /\ motion_reflex \in ReflexRecord /\ MotionStep \in Nat \ {0}
      /\ motion.facing \in Turns /\ motion.facing \in Int /\ motion.config \in MotionConfigs
      /\ motion.hazards_count \in Nat /\ motion.begun \in BOOLEAN
  BY MotionInvTypes, MotionConstants DEF MotionInv, MotionTypes
<1>3. target \in Int /\ Facing \in Int /\ Facing \in Turns
  BY <1>2, RotationTargets DEF Facing
<1>4. sign \in {-1, 1} /\ asked \in Nat
  BY <1>3 DEF Sign, Magnitude
<1>5. /\ motion' \in MotionRecord /\ motion'.config = motion.config /\ motion'.age = motion.age
      /\ motion'.radius = motion.radius /\ motion'.widened = motion.widened
      /\ motion'.begun = TRUE /\ motion'.facing = Facing
      /\ motion'.hazards_count = motion.hazards_count
  BY <1>1, <1>2, <1>3 DEF MotionRecord
<1> HIDE DEF sign, asked, target
<1>6. PICK s \in 0 .. MotionStep :
        /\ place' = place /\ turned' = turned + sign * s
        /\ place' \in Places /\ turned' \in Turns
        /\ motion_state' = IF TurnedEnough THEN "success" ELSE "running"
        /\ TurnedEnough => s = 0
  <2>1. CASE TurnedEnough
    <3>1. turned' = turned + sign * 0 /\ place' = place /\ 0 \in 0 .. MotionStep
      BY <1>1, <1>2, <1>4, <2>1
    <3> QED
      BY <1>1, <1>2, <2>1, <3>1
  <2>2. CASE ~TurnedEnough
    <3>1. PICK s \in 0 .. MotionStep :
            /\ place' = place + 0 * s /\ place' \in Places
            /\ turned' = turned + sign * s /\ turned' \in Turns
      BY <1>1, <2>2 DEF Moves
    <3>2. place + 0 * s = place
      BY <1>2
    <3> QED
      BY <1>1, <2>2, <3>1, <3>2
  <2> QED
    BY <2>1, <2>2
<1>7. MotionTypes'
  <2>1. motion_reflex' \in ReflexRecord
    BY <1>1, MotionConstants DEF NoReflex, ReflexRecord, Places
  <2> QED
    BY <1>5, <1>6, <2>1 DEF MotionInv, MotionTypes, AgeEnd
<1>8. RotatesOn'
  <2> SUFFICES ASSUME TurnsItself
               PROVE  /\ motion_state' = "success" => Amount' >= Asked'
                      /\ 0 <= Amount' /\ (NearHalfTurn' \/ Amount' < Asked' + MotionStep)
    BY <1>5 DEF RotatesOn, TurnsItself
  <2>1. Asked' = asked /\ Amount' = (turned' - Facing) * sign /\ NearHalfTurn' = NearHalfTurn
    BY <1>5 DEF Asked, Amount, NearHalfTurn, asked, sign, target
  <2>2. NearHalfTurn <=> 2 * (asked + MotionStep) > FullTurn
    BY DEF NearHalfTurn, asked, target
  <2>3. amount \in Int /\ 0 <= amount /\ (NearHalfTurn \/ amount < asked + MotionStep)
    <3>1. CASE motion.begun
      <4>1. 0 <= Amount /\ (NearHalfTurn \/ Amount < Asked + MotionStep)
        BY <3>1 DEF MotionInv, RotatesOn
      <4>2. Amount = amount /\ Asked = asked
        BY <3>1 DEF Amount, Asked, Facing, asked, sign, target
      <4> QED
        BY <1>2, <1>3, <1>4, <4>1, <4>2
    <3>2. CASE ~motion.begun
      <4>1. amount = 0
        BY <1>2, <1>4, <3>2 DEF Facing
      <4> QED
        BY <1>2, <1>4, <4>1
    <3> QED
      BY <3>1, <3>2
  <2>4. TurnedEnough <=> Magnitude(ShortestTurn(FullTurn, Facing, turned)) >= asked
    BY DEF TurnedEnough, RelativeYaw, asked, target
  <2>5. amount = (turned - Facing) * sign
    OBVIOUS
  <2> HIDE DEF amount
  <2>6. 2 * (asked + MotionStep) > FullTurn \/ amount < asked + MotionStep
    BY <2>2, <2>3
  <2>7. /\ Magnitude(ShortestTurn(FullTurn, Facing, turned)) >= asked => amount >= asked
        /\ ~(Magnitude(ShortestTurn(FullTurn, Facing, turned)) >= asked) =>
             /\ 0 <= amount + s
             /\ 2 * (asked + MotionStep) > FullTurn \/ amount + s < asked + MotionStep
        /\ ((turned + sign * s) - Facing) * sign = amount + s
    <3>1. /\ Facing \in Int /\ turned \in Int /\ sign \in {-1, 1} /\ asked \in Nat
          /\ s \in 0 .. MotionStep /\ amount \in Int /\ 0 <= amount
      BY <1>2, <1>3, <1>4, <1>6, <2>3
    <3>2. Magnitude(ShortestTurn(FullTurn, Facing, turned)) >= asked => amount >= asked
      BY <2>5, <2>6, <3>1, TurnsAsAsked
    <3>3. ~(Magnitude(ShortestTurn(FullTurn, Facing, turned)) >= asked) =>
             /\ 0 <= amount + s
             /\ 2 * (asked + MotionStep) > FullTurn \/ amount + s < asked + MotionStep
      BY <2>5, <2>6, <3>1, TurnsAsAsked
    <3>4. ((turned + sign * s) - Facing) * sign = amount + s
      BY <2>5, <2>6, <3>1, TurnsAsAsked
    <3> QED
      BY <3>2, <3>3, <3>4
  <2>8. /\ TurnedEnough => amount >= asked
        /\ ~TurnedEnough => 0 <= amount + s /\ (NearHalfTurn \/ amount + s < asked + MotionStep)
        /\ (turned' - Facing) * sign = amount + s
    BY <1>6, <2>2, <2>4, <2>7
  <2> QED
    BY <1>2, <1>4, <1>6, <2>1, <2>3, <2>8
<1>9. BacksAwayStepwise'
  <2> SUFFICES ASSUME TurnsItself PROVE -place <= BackedAway(motion.hazards_count)
    BY <1>1, <1>5, <1>6 DEF BacksAwayStepwise, TurnsItself, NoReflex
  <2>1. CASE ~motion_reflex.alive
    BY <2>1 DEF MotionInv, BacksAwayStepwise
  <2>2. CASE motion_reflex.alive
    <3>1. /\ motion.hazards_count >= 1
          /\ -motion_reflex.from <= BackedAway(motion.hazards_count - 1)
          /\ motion_reflex.from - place \in 0 .. BackupDistance + MotionStep
      BY <2>2 DEF MotionInv, BacksAwayStepwise
    <3>2. motion.hazards_count - 1 \in Int /\ (motion.hazards_count - 1) + 1 = motion.hazards_count
      BY <1>2
    <3>3. /\ BackedAway(motion.hazards_count - 1) \in Int
          /\ BackedAway(motion.hazards_count)
               = BackedAway(motion.hazards_count - 1) + BackupDistance + MotionStep
      BY <3>2, BackedAwayMore
    <3>4. motion_reflex.from \in Int
      BY MotionInvTypes
    <3> QED
      BY <1>2, <3>1, <3>3, <3>4, MotionConstants
  <2> QED
    BY <2>1, <2>2
<1> QED
  BY <1>5, <1>7, <1>8, <1>9, NotWidened DEF MotionInv

\* A robot with reflexes of its own is turned by them; its rotation promises nothing.
LEMMA RobotReflexSteps ==
  ASSUME MotionInv, RobotReflex
  PROVE  MotionInv'
<1>1. /\ motion.config.kind = "rotate" /\ motion.config.robot_has_reflexes
      /\ turned' \in Turns /\ UNCHANGED <<place, motion, motion_state, motion_reflex>>
  BY DEF RobotReflex
<1>2. MotionTypes' /\ ~TurnsItself'
  BY <1>1 DEF MotionInv, MotionTypes, TurnsItself, AgeEnd
<1> QED
  BY <1>1, <1>2, NotARotation, NotWidened

LEMMA TimeSteps ==
  ASSUME MotionInv, MotionTimePasses
  PROVE  MotionInv'
<1> DEFINE age == Least(motion.age + 1, AgeEnd(motion.config))
           reflex_age == Least(motion_reflex.age + 1, ClearHazardTime + 1)
<1>1. /\ motion' = [motion EXCEPT !.age = age]
      /\ motion_reflex' = IF motion_reflex.alive THEN [motion_reflex EXCEPT !.age = reflex_age]
                          ELSE motion_reflex
      /\ UNCHANGED <<place, turned, motion_state>> /\ motion_state = "running"
  BY DEF MotionTimePasses
<1>2. motion.age <= AgeEnd(motion.config) /\ motion.widened <= motion.age
  BY DEF MotionInv, MotionTypes
<1>3. /\ age \in 0 .. LastAge /\ age <= AgeEnd(motion.config) /\ motion.age <= age
      /\ reflex_age \in 0 .. ClearHazardTime + 1
  <2>1. AgeEnd(motion.config) \in 0 .. LastAge /\ LastAge \in Nat /\ ClearHazardTime \in Nat
    BY MotionConstants
  <2>2. motion.age \in 0 .. LastAge /\ motion_reflex.age \in 0 .. ClearHazardTime + 1
    BY MotionInvTypes
  <2> QED
    BY <1>2, <2>1, <2>2 DEF Least
<1> HIDE DEF age, reflex_age
<1>4. /\ motion' \in MotionRecord /\ motion'.age = age
      /\ motion'.config = motion.config /\ motion'.begun = motion.begun
      /\ motion'.facing = motion.facing /\ motion'.radius = motion.radius
      /\ motion'.widened = motion.widened
      /\ motion'.hazards_count = motion.hazards_count
  BY <1>1, <1>3, MotionInvTypes DEF MotionRecord
<1>5. /\ motion_reflex' \in ReflexRecord /\ motion_reflex'.alive = motion_reflex.alive
      /\ motion_reflex'.begun = motion_reflex.begun /\ motion_reflex'.from = motion_reflex.from
  BY <1>1, <1>3, MotionInvTypes DEF ReflexRecord
<1>6. MotionTypes'
  <2>1. motion'.widened <= motion'.age /\ motion'.age <= AgeEnd(motion'.config)
    BY <1>2, <1>3, <1>4, MotionInvTypes, MotionConstants
  <2>2. AgeEnd(motion.config)' = AgeEnd(motion'.config)
    BY DEF AgeEnd
  <2> QED
    BY <1>1, <1>4, <1>5, <2>1, <2>2 DEF MotionInv, MotionTypes
<1>7. RotatesOn'
  BY <1>1, <1>4
     DEF MotionInv, RotatesOn, TurnsItself, Asked, Amount, NearHalfTurn
<1>8. BacksAwayStepwise'
  BY <1>1, <1>4, <1>5 DEF MotionInv, BacksAwayStepwise, TurnsItself
<1> QED
  BY <1>4, <1>6, <1>7, <1>8, NotWidened DEF MotionInv

\* Every step keeps the invariant.
LEMMA MotionSteps == MotionInv /\ [CoverageMotionNext]_coverageMotionVars => MotionInv'
<1> SUFFICES ASSUME MotionInv, [CoverageMotionNext]_coverageMotionVars PROVE MotionInv'
  OBVIOUS
<1>1. CASE MotionTick
  <2>1. PICK hazards \in SUBSET Hazards, opcodes \in OpcodeBuffers :
          ExecuteBehavior(hazards, opcodes)
    BY <1>1 DEF MotionTick
  <2>2. CASE DriveStraight(hazards, opcodes)
    BY <2>2, StraightSteps
  <2>3. CASE Spiral(hazards, opcodes)
    BY <2>3, SpiralSteps
  <2>4. CASE Rotate(hazards)
    <3>1. motion.config.kind = "rotate"
      BY <2>4 DEF Rotate
    <3>2. CASE TooManyTrials
      BY <3>1, <3>2, TrialsSteps
    <3>3. CASE HoldRotation(hazards)
      BY <3>1, <3>3, HoldSteps
    <3>4. CASE Turn(hazards)
      BY <3>1, <3>4, TurnSteps
    <3> QED
      BY <2>4, <3>2, <3>3, <3>4 DEF Rotate
  <2> QED
    BY <2>1, <2>2, <2>3, <2>4 DEF ExecuteBehavior
<1>2. CASE MotionTimePasses
  BY <1>2, TimeSteps
<1>3. CASE RobotReflex
  BY <1>3, RobotReflexSteps
<1>4. CASE NextMotion
  <2>1. Constructed'
    BY <1>4 DEF NextMotion, StartMotion, Constructed
  <2> QED
    BY <2>1, ConstructedNext
<1>5. CASE UNCHANGED coverageMotionVars
  <2>1. /\ place' = place /\ turned' = turned /\ motion' = motion
        /\ motion_state' = motion_state /\ motion_reflex' = motion_reflex
    BY <1>5 DEF coverageMotionVars
  <2>2. MotionTypes'
    BY <2>1 DEF MotionInv, MotionTypes, AgeEnd
  <2>3. RotatesOn'
    BY <2>1 DEF MotionInv, RotatesOn, TurnsItself, Asked, Amount, NearHalfTurn
  <2>4. BacksAwayStepwise'
    BY <2>1 DEF MotionInv, BacksAwayStepwise, TurnsItself
  <2> QED
    BY <2>1, <2>2, <2>3, <2>4, NotWidened DEF MotionInv
<1> QED
  BY <1>1, <1>2, <1>3, <1>4, <1>5 DEF CoverageMotionNext

LEMMA MotionInitially == CoverageMotionInit => MotionInv
<1> SUFFICES ASSUME CoverageMotionInit PROVE MotionInv
  OBVIOUS
<1>1. (CHOOSE config \in MotionConfigs : TRUE) \in MotionConfigs
  BY CoverageMotionAssumption
<1>2. Constructed
  BY <1>1 DEF CoverageMotionInit, Constructed
<1> QED
  BY <1>2, ConstructedInv

\* The invariant bounds what the updates add, at any time that is not before the last one.
LEMMA WidenedSoFar ==
  ASSUME MotionInv, NEW age \in Nat, motion.widened <= age
  PROVE  /\ 0 <= motion.radius - InitialRadius
         /\ motion.radius - InitialRadius <= (age \div (RadiusInterval + 1)) * RadiusIncrement
         /\ motion.radius - InitialRadius <= age * RadiusIncrement
<1>1. PICK k \in Nat : /\ motion.radius = InitialRadius + Widened(k)
                       /\ Updating(k) <= motion.widened
  BY DEF MotionInv, WidensStepwise
<1>2. Widened(k) \in Nat /\ Updating(k) \in Nat /\ InitialRadius \in Nat
  BY WidensMore, MotionConstants
<1>3. Updating(k) <= age
  BY <1>1, <1>2, MotionInvTypes
<1>4. motion.radius - InitialRadius = Widened(k)
  BY <1>1, <1>2
<1> QED
  BY <1>2, <1>3, <1>4, WidenedByAge

LEMMA MotionInvTypeOK == MotionInv => CoverageMotionTypeOK
<1> SUFFICES ASSUME MotionInv PROVE CoverageMotionTypeOK
  OBVIOUS
<1>1. motion.radius \in InitialRadius .. (InitialRadius + LastAge * RadiusIncrement)
  <2>1. LastAge \in Nat /\ motion.widened <= LastAge /\ InitialRadius \in Nat
    BY MotionInvTypes, MotionConstants
  <2>2. LastAge * RadiusIncrement \in Nat
    BY MotionConstants
  <2>3. /\ 0 <= motion.radius - InitialRadius
        /\ motion.radius - InitialRadius <= LastAge * RadiusIncrement
    BY <2>1, WidenedSoFar
  <2> QED
    BY <2>1, <2>2, <2>3, MotionInvTypes
<1>2. motion \in [config : MotionConfigs, begun : BOOLEAN, from : Places, facing : Turns,
                  age : 0..LastAge, hazards_count : 0..(MaxHazardRetries + 1),
                  radius : InitialRadius..(InitialRadius + LastAge * RadiusIncrement),
                  widened : 0..LastAge]
  BY <1>1, MotionInvTypes DEF MotionRecord
<1> QED
  BY <1>2 DEF MotionInv, MotionTypes, ReflexRecord, CoverageMotionTypeOK

LEMMA MotionInvContained == MotionInv => MotionIsContained
<1> SUFFICES ASSUME MotionInv PROVE MotionIsContained
  OBVIOUS
<1>1. RotatesAsAsked
  BY DEF MotionInv, RotatesOn, RotatesAsAsked, TurnsItself, Amount, Asked
<1>2. BacksAwayLittle
  <2> SUFFICES ASSUME TurnsItself
               PROVE  -place <= BackedAway(MaxHazardRetries + 1)
    BY DEF BacksAwayLittle, TurnsItself, BackedAway
  <2>1. /\ motion.hazards_count \in 0 .. MaxHazardRetries + 1 /\ MaxHazardRetries \in Nat
        /\ place \in Int /\ motion_reflex.from \in Int
        /\ BackupDistance \in Nat /\ MotionStep \in Nat
    BY MotionInvTypes, MotionConstants
  <2>2. -place <= BackedAway(motion.hazards_count)
    <3>1. CASE ~motion_reflex.alive
      BY <3>1 DEF MotionInv, BacksAwayStepwise
    <3>2. CASE motion_reflex.alive
      <4>1. /\ -motion_reflex.from <= BackedAway(motion.hazards_count - 1)
            /\ motion_reflex.from - place \in 0 .. BackupDistance + MotionStep
        BY <3>2 DEF MotionInv, BacksAwayStepwise
      <4>2. motion.hazards_count - 1 \in Int
            /\ (motion.hazards_count - 1) + 1 = motion.hazards_count
        BY <2>1
      <4>3. /\ BackedAway(motion.hazards_count - 1) \in Int
            /\ BackedAway(motion.hazards_count)
                 = BackedAway(motion.hazards_count - 1) + BackupDistance + MotionStep
        BY <4>2, BackedAwayMore
      <4> QED
        BY <2>1, <4>1, <4>3
    <3> QED
      BY <3>1, <3>2
  <2>3. /\ BackedAway(motion.hazards_count) <= BackedAway(MaxHazardRetries + 1)
        /\ BackedAway(motion.hazards_count) \in Nat
        /\ BackedAway(MaxHazardRetries + 1) \in Int
    <3>1. /\ motion.hazards_count \in Nat /\ MaxHazardRetries + 1 \in Nat
          /\ motion.hazards_count <= MaxHazardRetries + 1
      BY <2>1
    <3> QED
      BY <3>1, BackedAwayNotLess, BackedAwayMore
  <2> QED
    BY <2>1, <2>2, <2>3
<1>3. SpiralWidensInTime
  <2>1. motion.age \in Nat /\ motion.widened <= motion.age
    BY MotionInvTypes, MotionConstants DEF MotionInv, MotionTypes
  <2> QED
    BY <2>1, WidenedSoFar DEF SpiralWidensInTime
<1> QED
  BY <1>1, <1>2, <1>3 DEF MotionIsContained

\* The members of the behaviors, and the pose, keep their types: a rotation counts at most
\* one reflex more than its retries, and a radius is one the updates can reach.
THEOREM CoverageMotionTypes == CoverageMotionSpec => []CoverageMotionTypeOK
<1> QED
  BY MotionInitially, MotionSteps, MotionInvTypeOK, PTL DEF CoverageMotionSpec

\* RotateBehavior and SpiralBehavior keep the robot where it was sent: a rotation that
\* succeeds has turned what was asked and at most a step more, its reflexes together back it
\* away no further than each may once for every trial, and a spiral widens with time only.
THEOREM MotionContained == CoverageMotionSpec => []MotionIsContained
<1> QED
  BY MotionInitially, MotionSteps, MotionInvContained, PTL DEF CoverageMotionSpec

(***************************************************************************)
(* The odometry of the TurtleBot                                           *)
(***************************************************************************)

\* What the odometry has summed up lies between the first message and the last one: the path
\* and, without an IMU, the heading.  With one, the heading is the orientation that was sent
\* last, counted from none.
OdometrySums ==
  odom.timed =>
    /\ odom.path = Path(odom.from, odom.last)
    /\ odom.heading = IF use_imu THEN odom.theta ELSE TurnOf(odom.from, odom.last)

OdometryRecord ==
  [timed : BOOLEAN, last : Joints, theta : Int, path : Int, heading : Int, from : Joints]

\* The positions that are sent are those that were read the time before.
TurtlebotInv ==
  /\ wheels \in Joints /\ yaw \in Yaws /\ steps_left \in 0 .. DriveSteps
  /\ table \in Readings
  /\ joints \in [diff : Joints, last : Joints] /\ joints.diff = joints.last
  /\ sensor_msgs \in Seq(Readings) /\ Len(sensor_msgs) <= TbDepth
  /\ use_imu \in BOOLEAN
  /\ odom \in OdometryRecord
  /\ ~odom.timed => odom.path = 0 /\ odom.heading = 0 /\ odom.theta = 0
  /\ OdometrySums

LEMMA YawsAre ==
  /\ TbFullTurn \in Nat \ {0} /\ 0 \in Yaws /\ Yaws \subseteq Int
  /\ \A to \in Int : ShortestTurn(TbFullTurn, 0, to) \in Yaws
<1>1. TbFullTurn \in Nat \ {0}
  BY TurtlebotAssumption
<1>2. 0 \in Yaws /\ Yaws \subseteq Int
  <2>1. TbFullTurn # 1
    BY TurtlebotAssumption
  <2> QED
    BY <1>1, <2>1 DEF Yaws
<1>3. ASSUME NEW to \in Int PROVE ShortestTurn(TbFullTurn, 0, to) \in Yaws
  <2> DEFINE d == ShortestTurn(TbFullTurn, 0, to)
  <2>1. d \in Int /\ -TbFullTurn < 2 * d /\ 2 * d <= TbFullTurn
    <3>1. d \in Int /\ IsShortest(TbFullTurn, 0, to, d)
      BY <1>1, 0 \in Int, ShortestTurnIs, Zenon
    <3> QED
      BY <3>1 DEF IsShortest
  <2>2. TbFullTurn % 4 = 0
    BY TurtlebotAssumption
  <2> HIDE DEF d
  <2>3. d \in Yaws
    BY <1>1, <2>1, <2>2 DEF Yaws
  <2> QED
    BY <2>3 DEF d
<1> QED
  BY <1>1, <1>2, <1>3

LEMMA PositionsAreTyped ==
  ASSUME NEW reading \in Readings, joints \in [diff : Joints, last : Joints],
         joints.diff = joints.last
  PROVE  /\ PositionsAfter(reading) \in [diff : Joints, last : Joints]
         /\ PositionsAfter(reading).last = reading.position
         /\ PositionsAfter(reading).diff = reading.position
<1>1. PositionsAfter(reading) \in [diff : Joints, last : Joints]
  BY DEF PositionsAfter, Readings, Joints
<1>2. PositionsAfter(reading).last = reading.position
  BY DEF PositionsAfter
<1>3. /\ PositionsAfter(reading).diff.left = reading.position.left
      /\ PositionsAfter(reading).diff.right = reading.position.right
  BY DEF PositionsAfter, Readings, Joints
<1> QED
  BY <1>1, <1>2, <1>3 DEF Readings, Joints

LEMMA TurtlebotInitially == TurtlebotInit => TurtlebotInv
<1> SUFFICES ASSUME TurtlebotInit PROVE TurtlebotInv
  OBVIOUS
<1>1. NoJoints \in Joints /\ wheels \in Joints /\ steps_left \in 0 .. DriveSteps
  BY TurtlebotAssumption DEF TurtlebotInit, NoJoints, Joints
<1>2. sensor_msgs \in Seq(Readings) /\ Len(sensor_msgs) <= TbDepth
  BY TurtlebotAssumption DEF TurtlebotInit
<1>3. odom \in OdometryRecord /\ ~odom.timed /\ odom.path = 0 /\ odom.heading = 0 /\ odom.theta = 0
  BY <1>1 DEF TurtlebotInit, NoOdometry, OdometryRecord
<1> QED
  BY <1>1, <1>2, <1>3, YawsAre DEF TurtlebotInit, TurtlebotInv, Readings, OdometrySums

LEMMA WheelsMoveKeeps ==
  ASSUME TurtlebotInv, NEW left \in {-1, 1}, WheelsMove(left, 1)
  PROVE  TurtlebotInv'
<1>1. UNCHANGED <<table, joints, sensor_msgs, use_imu, odom>>
  BY DEF WheelsMove
<1>2. wheels' \in Joints /\ steps_left' \in 0 .. DriveSteps
  BY TurtlebotAssumption DEF WheelsMove, TurtlebotInv, Joints
<1>3. yaw' \in Yaws
  <2>1. yaw + 1 - left \in Int
    BY YawsAre DEF TurtlebotInv
  <2> QED
    BY <2>1, YawsAre DEF WheelsMove
<1> QED
  BY <1>1, <1>2, <1>3 DEF TurtlebotInv, OdometrySums

\* The subscription keeps the last messages.
LEMMA KeptIs ==
  ASSUME NEW queue \in Seq(Readings), Len(queue) <= TbDepth, NEW message \in Readings
  PROVE  Kept(queue, message) \in Seq(Readings) /\ Len(Kept(queue, message)) <= TbDepth
<1> DEFINE all == Append(queue, message)
<1>1. TbDepth \in Nat \ {0} /\ all \in Seq(Readings) /\ Len(all) = Len(queue) + 1 /\ all # <<>>
  BY TurtlebotAssumption
<1>2. Tail(all) \in Seq(Readings) /\ Len(Tail(all)) = Len(all) - 1
  BY <1>1, HeadTailProperties
<1>3. Len(queue) \in Nat
  OBVIOUS
<1> HIDE DEF all
<1> QED
  BY <1>1, <1>2, <1>3 DEF Kept, all

LEMMA PublishTimerKeeps ==
  ASSUME TurtlebotInv, NEW ok \in BOOLEAN, PublishTimer(ok)
  PROVE  TurtlebotInv'
<1>1. UNCHANGED <<wheels, yaw, steps_left, use_imu, odom>>
  BY DEF PublishTimer
<1>2. table' \in Readings
  BY DEF PublishTimer, ReadDataSet, TurtlebotInv, Readings
<1>3. joints' \in [diff : Joints, last : Joints] /\ joints'.diff = joints'.last
  BY <1>2, PositionsAreTyped DEF PublishTimer, TurtlebotInv
<1>4. [position |-> joints.diff, orientation |-> table'.orientation] \in Readings
  BY <1>2 DEF TurtlebotInv, Readings
<1>5. sensor_msgs' \in Seq(Readings) /\ Len(sensor_msgs') <= TbDepth
  BY <1>4, KeptIs DEF PublishTimer, TurtlebotInv
<1> QED
  BY <1>1, <1>2, <1>3, <1>5 DEF TurtlebotInv, OdometrySums

\* A message that is taken or lost leaves the others in the queue.
LEMMA MessageTaken ==
  ASSUME TurtlebotInv, sensor_msgs # <<>>
  PROVE  /\ Head(sensor_msgs) \in Readings
         /\ Tail(sensor_msgs) \in Seq(Readings) /\ Len(Tail(sensor_msgs)) <= TbDepth
<1>1. sensor_msgs \in Seq(Readings) /\ Len(sensor_msgs) \in Nat /\ Len(sensor_msgs) <= TbDepth
  BY DEF TurtlebotInv
<1>2. /\ Head(sensor_msgs) \in Readings /\ Tail(sensor_msgs) \in Seq(Readings)
      /\ Len(Tail(sensor_msgs)) = Len(sensor_msgs) - 1
  BY <1>1, HeadTailProperties
<1> QED
  BY <1>1, <1>2, TurtlebotAssumption

LEMMA MessageLostKeeps == TurtlebotInv /\ MessageLost => TurtlebotInv'
BY MessageTaken DEF MessageLost, TurtlebotInv, OdometrySums

LEMMA OdometryCallbackKeeps == TurtlebotInv /\ OdometryCallback => TurtlebotInv'
<1> SUFFICES ASSUME TurtlebotInv, OdometryCallback PROVE TurtlebotInv'
  OBVIOUS
<1> DEFINE message == Head(sensor_msgs)
           theta == Theta(message)
<1>1. /\ message \in Readings
      /\ sensor_msgs' \in Seq(Readings) /\ Len(sensor_msgs') <= TbDepth
      /\ UNCHANGED <<wheels, yaw, steps_left, table, joints, use_imu>>
  BY MessageTaken DEF OdometryCallback
<1>2. odom' = [timed |-> TRUE,
               last |-> message.position,
               theta |-> IF odom.timed THEN theta ELSE odom.theta,
               path |-> odom.path + (IF odom.timed THEN Path(odom.last, message.position) ELSE 0),
               heading |-> odom.heading + (IF odom.timed THEN DeltaTheta(theta) ELSE 0),
               from |-> IF odom.timed THEN odom.from ELSE message.position]
  BY DEF OdometryCallback, UpdateJointState
<1>3. message.position \in Joints /\ message.orientation \in Int
  BY <1>1, YawsAre DEF Readings
<1>4. odom \in OdometryRecord /\ odom.last \in Joints /\ odom.from \in Joints
      /\ odom.path \in Int /\ odom.heading \in Int /\ odom.theta \in Int /\ odom.timed \in BOOLEAN
  BY DEF TurtlebotInv, OdometryRecord
<1> HIDE DEF message
<1>5. theta \in Int /\ DeltaTheta(theta) \in Int /\ Path(odom.last, message.position) \in Int
  BY <1>3, <1>4 DEF Theta, DeltaTheta, TurnOf, Path, Joints
<1>6. odom' \in OdometryRecord /\ odom'.timed
  BY <1>2, <1>3, <1>4, <1>5 DEF OdometryRecord
<1>7. OdometrySums'
  <2>1. CASE ~odom.timed
    <3>1. odom.path = 0 /\ odom.heading = 0 /\ odom.theta = 0
      BY <2>1 DEF TurtlebotInv
    <3> QED
      BY <1>1, <1>2, <1>3, <2>1, <3>1 DEF OdometrySums, Path, TurnOf, Joints
  <2>2. CASE odom.timed
    <3>1. /\ odom.path = Path(odom.from, odom.last)
          /\ odom.heading = IF use_imu THEN odom.theta ELSE TurnOf(odom.from, odom.last)
      BY <2>2 DEF TurtlebotInv, OdometrySums
    <3>2. /\ odom'.path = odom.path + Path(odom.last, message.position)
          /\ odom'.heading = odom.heading + DeltaTheta(theta)
          /\ odom'.theta = theta /\ odom'.from = odom.from /\ odom'.last = message.position
      BY <1>2, <2>2
    <3>3. odom'.path = Path(odom'.from, odom'.last)
      BY <1>3, <1>4, <3>1, <3>2 DEF Path, Joints
    <3>4. odom'.heading = IF use_imu THEN odom'.theta ELSE TurnOf(odom'.from, odom'.last)
      <4>1. CASE use_imu
        BY <1>4, <1>5, <3>1, <3>2, <4>1 DEF DeltaTheta
      <4>2. CASE ~use_imu
        BY <1>3, <1>4, <3>1, <3>2, <4>2 DEF DeltaTheta, Theta, TurnOf, Joints
      <4> QED
        BY <4>1, <4>2
    <3> QED
      BY <1>1, <3>3, <3>4 DEF OdometrySums
  <2> QED
    BY <2>1, <2>2
<1> QED
  BY <1>1, <1>6, <1>7 DEF TurtlebotInv

LEMMA TurtlebotSteps == TurtlebotInv /\ [TurtlebotNext]_turtlebotVars => TurtlebotInv'
<1> SUFFICES ASSUME TurtlebotInv, [TurtlebotNext]_turtlebotVars PROVE TurtlebotInv'
  OBVIOUS
<1>1. CASE UNCHANGED turtlebotVars
  BY <1>1 DEF turtlebotVars, TurtlebotInv, OdometrySums
<1>2. CASE TurtlebotNext
  BY <1>2, WheelsMoveKeeps, PublishTimerKeeps, MessageLostKeeps, OdometryCallbackKeeps
     DEF TurtlebotNext
<1> QED
  BY <1>1, <1>2

LEMMA TurtlebotInvTypeOK == TurtlebotInv => TurtlebotTypeOK
BY DEF TurtlebotInv, TurtlebotTypeOK, OdometryRecord

(***************************************************************************)
(* The parts together                                                      *)
(***************************************************************************)

\* Each part has its own invariant, whatever part the behavior is about.
DevicesInv == RepInv /\ JoyInv /\ DdInv /\ StuffingInv /\ MotionInv /\ TurtlebotInv

LEMMA DevicesInitially == MCInit => DevicesInv
BY RepInitial, JoyInitially, DdInitial, StuffingInitially, MotionInitially,
   TurtlebotInitially DEF MCInit, DevicesInv

LEMMA DevicesKept == DevicesInv /\ [MCNext]_devicesVars => DevicesInv'
<1> SUFFICES ASSUME DevicesInv, [MCNext]_devicesVars PROVE DevicesInv'
  OBVIOUS
<1> USE DEF MCNext, devicesVars, Republish, Joystick, Gamepad, Wheels, Protocol, Coverage, Odometry
<1>1. [RepublisherNext]_republisherVars
  OBVIOUS
<1>2. [JoyTeleopNext]_joyTeleopVars
  BY DEF JoyTeleopNext
<1>3. [DiffDriveNext]_diffDriveVars
  OBVIOUS
<1>4. [ByteStuffingNext]_stuffingVars
  OBVIOUS
<1>5. [CoverageMotionNext]_coverageMotionVars
  OBVIOUS
<1>6. [TurtlebotNext]_turtlebotVars
  OBVIOUS
<1> QED
  BY <1>1, <1>2, <1>3, <1>4, <1>5, <1>6, RepStep, JoySteps, DdStep, StuffingSteps, MotionSteps,
     TurtlebotSteps DEF DevicesInv

\* The variables of all parts keep their types.
THEOREM DevicePartTypes == MCSpec => []DeviceTypesOK
<1>1. DevicesInv => DeviceTypesOK
  BY JoyInvTypeOK, StuffingInvTypeOK, MotionInvTypeOK, TurtlebotInvTypeOK
     DEF DevicesInv, DeviceTypesOK, RepInv, DdInv
<1> QED
  BY <1>1, DevicesInitially, DevicesKept, PTL DEF MCSpec

\* The odometry of the TurtleBot loses nothing and counts nothing twice: however many readings
\* failed, were sent again or were lost, the path, and without an IMU the heading, are those
\* between the first message it took and the last.
THEOREM OdometrySumsUp == MCSpec => []OdometrySums
<1>1. DevicesInv => OdometrySums
  BY DEF DevicesInv, TurtlebotInv
<1> QED
  BY <1>1, DevicesInitially, DevicesKept, PTL DEF MCSpec
=============================================================================
