---------------------------- MODULE DriveMotion -----------------------------
(***************************************************************************)
(* How the four drive goals measure their progress and when they end       *)
(* (initialize_goal and iterate_on_goal of drive_goal_behaviors.cpp). The  *)
(* robot stands on a line and has one of `Full' headings; the odometry the *)
(* goals read is exact, the motion between two executions is not. One goal *)
(* has the slot at a time (MotionActions). The members of a behavior are   *)
(* assigned by initialize_goal before iterate_on_goal reads them, so that  *)
(* all goals share one `rotation' and one `translation'.                   *)
(***************************************************************************)
EXTENDS Angles

CONSTANTS
  Full,           \* headings in a turn
  TurnSpeed,      \* max_rot_speed_radps_, in headings between two executions
  DriveSpeed,     \* translate_speed_, in units between two executions
  SlowAngle,      \* slow_angle_dist_
  SlowDistance,   \* slow_translate_dist_
  Converged,      \* converge_angle_dist_ and converge_translate_dist_
  DriveRequests,  \* the goals that are sent: records of DriveRequest
  LineEnd         \* bound of the positions a goal starts from

DriveRequest == [kind : {"arc", "rotate"}, angle : Int]
             \cup [kind : {"distance"}, distance : Int]
             \cup [kind : {"navigate"}, x : Int, heading : 0..(Full - 1), achieve : BOOLEAN]

\* Between two executions the robot turns less than half a turn: at 40 Hz and at most
\* 1.9 rad/s. It slows down before it could step over its goal, and what counts as reached,
\* half a degree, is less than it turns in one execution.
ASSUME DriveAssumption ==
  /\ {Full, TurnSpeed, DriveSpeed, SlowAngle, SlowDistance, Converged, LineEnd} \subseteq Nat
  /\ Full % 2 = 0 /\ 2 * (TurnSpeed + 1) < Full
  /\ 1 <= TurnSpeed /\ TurnSpeed <= SlowAngle
  /\ 1 <= DriveSpeed /\ DriveSpeed <= SlowDistance
  /\ 1 <= Converged /\ 4 * Converged < Full
  /\ DriveRequests \subseteq DriveRequest

VARIABLES
  drive_goal,    \* the goal being executed
  drive_phase,   \* navigate_state, or what stands in its place: the part of the goal
                 \* that is being executed; "idle" when there is none
  at,            \* the pose: [x, heading]
  rotation,      \* first_iter_, last_angle_travel_position_, remain_angle_travel_, start_sign_
  translation,   \* first_iter_, start_position_, goal_travel_, remaining_travel_
  turned,        \* how far the robot has turned since the rotation began, whole turns counted
  began,         \* where the robot stood when the goal was accepted
  driveCmd       \* the velocities of the last execution

driveMotionVars == <<drive_goal, drive_phase, at, rotation, translation, turned, began, driveCmd>>

Shortest(from, to) == ShortestTurn(Full, from, to)

\* angle_to_goal: a goal where the robot stands is straight ahead of heading 0
AngleTo(x) == Shortest(at.heading, IF x < at.x THEN Full \div 2 ELSE 0)

Still == [move |-> 0, turn |-> 0]
NewRotation(angle) == [first |-> TRUE, last |-> 0, remaining |-> angle, sign |-> Sign(angle)]

\* Mutant: the start position is not taken again.
NewTranslationFromOrigin(d) == [first |-> FALSE, start |-> 0, goal |-> d, remaining |-> d]

NewTranslation(d) == [first |-> TRUE, start |-> 0, goal |-> d, remaining |-> d]

DriveMotionInit ==
  /\ drive_goal = [kind |-> "distance", distance |-> 0]
  /\ drive_phase = "idle"
  /\ at = [x |-> 0, heading |-> 0]
  /\ rotation = NewRotation(0)
  /\ translation = NewTranslation(0)
  /\ turned = 0 /\ began = 0
  /\ driveCmd = Still

-----------------------------------------------------------------------------
\* The initialize_goal of a goal's kind. A goal that replaces another one finds nothing of
\* it in the members it reads, so that it is enough to start from none.
AcceptDriveGoal(g) ==
  /\ drive_phase = "idle" /\ at.x \in (-LineEnd)..LineEnd
  /\ drive_goal' = g
  /\ drive_phase' = IF g.kind = "navigate" THEN "first" ELSE g.kind
  /\ rotation' = IF g.kind \in {"arc", "rotate"} THEN NewRotation(g.angle) ELSE rotation
  /\ translation' = IF g.kind = "distance" THEN NewTranslation(g.distance) ELSE translation
  /\ turned' = 0 /\ began' = at.x
  /\ driveCmd' = Still
  /\ UNCHANGED at

\* Mutant: the first iteration turns from heading 0.
MeasureUnstarted(o, heading) ==
  [o EXCEPT !.first = FALSE, !.last = heading, !.remaining = @ - Shortest(o.last, heading)]

\* What both angle behaviors keep at each iteration.
Measure(o, heading) ==
  [o EXCEPT !.first = FALSE, !.last = heading,
            !.remaining = @ - IF o.first THEN 0 ELSE Shortest(o.last, heading)]

\* RotateAngleBehavior::iterate_on_goal, after Measure
RotateDone(o) == Sign(o.remaining) # o.sign \/ Magnitude(o.remaining) < Converged

\* Mutant: the slowed speed has no minimum.
RotateTurnUnfloored(o) ==
  LET speed == IF Magnitude(o.remaining) < SlowAngle
               THEN (TurnSpeed * Magnitude(o.remaining)) \div SlowAngle ELSE TurnSpeed
  IN  Sign(o.remaining) * speed

RotateTurn(o) ==
  LET speed == IF Magnitude(o.remaining) < SlowAngle
               THEN Least(TurnSpeed, Most(1, Magnitude(o.remaining))) ELSE TurnSpeed
  IN  Sign(o.remaining) * speed

\* DriveArcBehavior::iterate_on_goal, after Measure: the scaled command keeps the
\* direction it had at the start
ArcDone(o) == Sign(o.remaining) # o.sign \/ Magnitude(o.remaining) <= Converged
ArcTurn(o) ==
  LET speed == IF Magnitude(o.remaining) < SlowAngle
               THEN Most(1, (TurnSpeed * Magnitude(o.remaining)) \div SlowAngle) ELSE TurnSpeed
  IN  o.sign * speed

\* DriveDistanceBehavior::iterate_on_goal. What remains is the signed goal less the
\* distance covered, so that it grows in size when the goal is negative.
Begin(o, x) == [o EXCEPT !.first = FALSE, !.start = IF o.first THEN x ELSE @]
Covered(o, x) == Magnitude(x - Begin(o, x).start)
Advance(o, x) ==
  [Begin(o, x) EXCEPT !.remaining = IF Covered(o, x) >= Magnitude(o.goal) THEN @
                                                                      ELSE o.goal - Covered(o, x)]

DistanceDone(o, x) == \/ Covered(o, x) >= Magnitude(o.goal)
                      \/ Magnitude(Advance(o, x).remaining) <= Converged
DistanceMove(o, x) ==
  LET left == Magnitude(Advance(o, x).remaining)
      speed == IF left <= SlowDistance THEN Least(DriveSpeed, Most(1, left)) ELSE DriveSpeed
  IN  Sign(o.goal) * speed

-----------------------------------------------------------------------------
\* One execution, by the part of the goal that is being executed. Each sets the next
\* phase, both behaviors and the command.
IterateArc ==
  LET o == Measure(rotation, at.heading)
  IN  /\ drive_phase = "arc"
      /\ rotation' = o
      /\ drive_phase' = IF ArcDone(o) THEN "idle" ELSE "arc"
      /\ driveCmd' = IF ArcDone(o) THEN Still ELSE [move |-> 0, turn |-> ArcTurn(o)]
      /\ UNCHANGED translation

IterateRotate ==
  LET o == Measure(rotation, at.heading)
  IN  /\ drive_phase = "rotate"
      /\ rotation' = o
      /\ drive_phase' = IF RotateDone(o) THEN "idle" ELSE "rotate"
      /\ driveCmd' = IF RotateDone(o) THEN Still ELSE [move |-> 0, turn |-> RotateTurn(o)]
      /\ UNCHANGED translation

IterateDistance ==
  /\ drive_phase = "distance"
  /\ translation' = Advance(translation, at.x)
  /\ drive_phase' = IF DistanceDone(translation, at.x) THEN "idle" ELSE "distance"
  /\ driveCmd' = IF DistanceDone(translation, at.x) THEN Still
                 ELSE [move |-> DistanceMove(translation, at.x), turn |-> 0]
  /\ UNCHANGED rotation

\* What follows a finished translation of navigate: its last rotation, which is looked at
\* in the same execution, or the end of the goal. `o' is the rotation it comes from.
Arrive(o) ==
  LET back == Measure(NewRotation(Shortest(at.heading, drive_goal.heading)), at.heading)
  IN  \/ /\ ~drive_goal.achieve
         /\ rotation' = o /\ drive_phase' = "idle" /\ driveCmd' = Still
      \/ /\ drive_goal.achieve
         /\ rotation' = back
         /\ drive_phase' = IF RotateDone(back) THEN "idle" ELSE "to_heading"
         /\ driveCmd' = IF RotateDone(back) THEN Still ELSE [move |-> 0, turn |-> RotateTurn(back)]

\* DRIVING_TO_GOAL_POSITION: straight on, with a small correction towards the goal
DriveOn(line, o) ==
  /\ translation' = Advance(line, at.x)
  /\ \/ /\ ~DistanceDone(line, at.x)
        /\ rotation' = o
        /\ drive_phase' = "driving"
        /\ driveCmd' = [move |-> DistanceMove(line, at.x),
                       turn |-> IF AngleTo(drive_goal.x) = 0 THEN 0 ELSE Sign(AngleTo(drive_goal.x))]
     \/ /\ DistanceDone(line, at.x)
        /\ Arrive(o)

\* ROTATING_TO_GOAL_POSITION: once it faces the goal the robot drives in the same execution.
NavigateRotate ==
  LET begun == IF drive_phase = "first" THEN NewRotation(AngleTo(drive_goal.x)) ELSE rotation
      o == Measure(begun, at.heading)
  IN  /\ drive_phase \in {"first", "to_position"}
      /\ \/ /\ ~RotateDone(o)
            /\ rotation' = o
            /\ drive_phase' = "to_position"
            /\ driveCmd' = [move |-> 0, turn |-> RotateTurn(o)]
            /\ UNCHANGED translation
         \/ /\ RotateDone(o)
            /\ DriveOn(NewTranslation(Magnitude(drive_goal.x - at.x)), o)

NavigateDrive == drive_phase = "driving" /\ DriveOn(translation, rotation)

\* ROTATING_TO_GOAL_ORIENTATION
NavigateFace ==
  LET o == Measure(rotation, at.heading)
  IN  /\ drive_phase = "to_heading"
      /\ rotation' = o
      /\ drive_phase' = IF RotateDone(o) THEN "idle" ELSE "to_heading"
      /\ driveCmd' = IF RotateDone(o) THEN Still ELSE [move |-> 0, turn |-> RotateTurn(o)]
      /\ UNCHANGED translation

-----------------------------------------------------------------------------
\* The motion until the next execution: none, what is commanded, or one unit more.
Response == {"blocked", "obeys", "skids"}
Effect(v, response) ==
  CASE response = "blocked" \/ v = 0 -> 0
    [] response = "obeys" /\ v # 0   -> v
    [] response = "skids" /\ v # 0   -> v + Sign(v)

\* Positive ahead of the quarter turns to both sides, negative behind them
Ahead(heading) == Full - 4 * Magnitude(Shortest(0, heading))

\* Which way a heading leads along the line. Only navigate turns and drives: the line of
\* the others is the one the robot faces.
Along(heading) ==
  CASE drive_goal.kind # "navigate" -> 1
    [] drive_goal.kind = "navigate" /\ Ahead(heading) # 0 -> Sign(Ahead(heading))
    [] OTHER -> 0

RobotMoves(response) ==
  LET move == Effect(driveCmd'.move, response)
      turn == Effect(driveCmd'.turn, response)
  IN  /\ at' = [x |-> at.x + Along(at.heading) * move, heading |-> (at.heading + turn) % Full]
      /\ turned' = turned + turn

DriveTick(response) ==
  /\ IterateArc \/ IterateRotate \/ IterateDistance \/ NavigateRotate \/ NavigateDrive \/ NavigateFace
  /\ RobotMoves(response)
  /\ UNCHANGED <<drive_goal, began>>

DriveMotionNext ==
  \/ \E g \in DriveRequests : AcceptDriveGoal(g)
  \/ \E response \in Response : DriveTick(response)

DriveMotionSpec == DriveMotionInit /\ [][DriveMotionNext]_driveMotionVars

-----------------------------------------------------------------------------
Phases == {"idle", "arc", "rotate", "distance", "first", "to_position", "driving", "to_heading"}

DriveMotionTypeOK ==
  /\ drive_phase \in Phases
  /\ at.x \in Int /\ at.heading \in 0..(Full - 1)
  /\ rotation \in [first : BOOLEAN, last : 0..(Full - 1), remaining : Int, sign : {-1, 1}]
  /\ translation \in [first : BOOLEAN, start : Int, goal : Int, remaining : Int]
  /\ turned \in Int /\ began \in Int
  /\ driveCmd \in [move : (-DriveSpeed)..DriveSpeed, turn : (-TurnSpeed)..TurnSpeed]

\* The angle left is the goal's angle less every turn made, whole turns included, although
\* the pose only tells headings apart and is read once in an execution.
CountsWholeTurns ==
  drive_phase \in {"arc", "rotate"} /\ ~rotation.first =>
    rotation.remaining = drive_goal.angle - turned + Shortest(rotation.last, at.heading)

\* An angle goal ends where it was asked to, up to the angle at which it counts as converged,
\* in either direction and for more than a turn.
EndsAtAngle ==
  [][drive_goal.kind \in {"arc", "rotate"} /\ drive_phase # "idle" /\ drive_phase' = "idle" =>
       Magnitude(drive_goal.angle - turned) <= Converged]_driveMotionVars

\* A distance goal ends neither short of its distance nor further than the motion of one
\* execution, forwards and backwards, although what remains of a goal that drives
\* backwards grows.
EndsAtDistance ==
  [][drive_phase = "distance" /\ drive_phase' = "idle" =>
       LET covered == Magnitude(at.x - began)
       IN  /\ Magnitude(drive_goal.distance) - Converged <= covered
           /\ covered <= Magnitude(drive_goal.distance) + DriveSpeed]_driveMotionVars

\* navigate ends at its position, and in its heading when it has to achieve one: neither
\* of the two rotations and the drive between them undoes what the others reached.
NavigateArrives ==
  [][drive_goal.kind = "navigate" /\ drive_phase # "idle" /\ drive_phase' = "idle" =>
       /\ Magnitude(drive_goal.x - at.x) <= Converged
       /\ drive_goal.achieve =>
            Magnitude(Shortest(at.heading, drive_goal.heading))
              <= Most(1, Converged - 1)]_driveMotionVars

\* A goal whose robot can move ends: no goal waits for an angle or a distance it has
\* already passed.
DriveGoalEnds == drive_phase # "idle" ~> drive_phase = "idle"

\* A drive goal of any kind ends where it was asked to and measures its turns on the way.
EndsWhereAsked == []CountsWholeTurns /\ EndsAtAngle /\ EndsAtDistance /\ NavigateArrives
=============================================================================
