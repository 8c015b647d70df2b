---------------------------- MODULE RobotProofs -----------------------------
(***************************************************************************)
(* Proofs about the parts of the motion control node that MCRobot checks   *)
(* on their own: the drive goals, the states of wall follow, the path of a *)
(* dock or undock goal and the charge of the battery; for any number of    *)
(* headings, any speeds, distances, rates and times. The last theorem is   *)
(* about the parts together.                                               *)
(***************************************************************************)
EXTENDS MCRobot, AngleProofs, TLAPS

(***************************************************************************)
(* The drive goals                                                         *)
(***************************************************************************)

\* What the assumption says, constant by constant
LEMMA DriveConstants ==
  /\ Full \in Nat \ {0} /\ 4 < Full /\ 2 * (Full \div 2) = Full /\ Full \div 2 \in Nat
  /\ TurnSpeed \in Nat /\ 1 <= TurnSpeed /\ 2 * (TurnSpeed + 1) < Full
  /\ SlowAngle \in Nat /\ TurnSpeed <= SlowAngle
  /\ DriveSpeed \in Nat /\ 1 <= DriveSpeed
  /\ SlowDistance \in Nat /\ DriveSpeed <= SlowDistance
  /\ Converged \in Nat /\ 1 <= Converged /\ 4 * Converged < Full
  /\ LineEnd \in Nat
<1>1. /\ Full \in Nat /\ TurnSpeed \in Nat /\ DriveSpeed \in Nat /\ SlowAngle \in Nat
      /\ SlowDistance \in Nat /\ Converged \in Nat /\ LineEnd \in Nat
      /\ Full % 2 = 0 /\ 2 * (TurnSpeed + 1) < Full
      /\ 1 <= TurnSpeed /\ TurnSpeed <= SlowAngle
      /\ 1 <= DriveSpeed /\ DriveSpeed <= SlowDistance
      /\ 1 <= Converged /\ 4 * Converged < Full
  BY DriveAssumption
<1>2. 2 * (Full \div 2) = Full /\ Full \div 2 \in Nat
  BY <1>1
<1> QED
  BY <1>1, <1>2

\* A step of a size no greater than what is left, or of one more, leaves something on the
\* same side, or one on either side at most.
LEMMA OneTooMany ==
  ASSUME NEW r \in Int, NEW s \in Nat, 1 <= s, s <= Magnitude(r),
         NEW t \in {0, Sign(r) * s, Sign(r) * s + Sign(r)}
  PROVE  /\ t \in Int /\ Magnitude(t) <= s + 1
         /\ Sign(r - t) = Sign(r) \/ Magnitude(r - t) <= 1
         /\ Magnitude(r - t) <= Magnitude(r)
BY DEF Sign, Magnitude

\* What the motion makes of a command
LEMMA EffectIs ==
  ASSUME NEW v \in Int, NEW response \in Response
  PROVE  /\ Effect(v, response) \in {0, v, v + Sign(v)}
         /\ Effect(v, response) \in Int
         /\ v = 0 => Effect(v, response) = 0
BY DEF Effect, Response, Sign

LEMMA EffectOfSpeed ==
  ASSUME NEW sign \in {-1, 1}, NEW s \in Nat, 1 <= s, NEW response \in Response
  PROVE  Effect(sign * s, response) \in {0, sign * s, sign * s + sign}
<1>1. sign * s \in Int /\ Sign(sign * s) = sign
  BY DEF Sign
<1> QED
  BY <1>1, EffectIs

\* A quotient of less than one is no more than the number it scales.
LEMMA ScaledDown ==
  ASSUME NEW v \in Nat, NEW m \in Nat, NEW full \in Nat \ {0}, v <= full, m <= full
  PROVE  (v * m) \div full \in Nat /\ (v * m) \div full <= m /\ (v * m) \div full <= v
<1>1. v * m \in Nat /\ v * m <= full * m /\ v * m <= full * v
  <2>1. PICK d \in Nat : full = v + d
    <3>1. full - v \in Nat /\ full = v + (full - v)
      OBVIOUS
    <3> QED
      BY <3>1
  <2>2. PICK e \in Nat : full = m + e
    <3>1. full - m \in Nat /\ full = m + (full - m)
      OBVIOUS
    <3> QED
      BY <3>1
  <2>3. full * m = (v * m) + (d * m) /\ d * m \in Nat /\ v * m \in Nat
    BY <2>1
  <2>4. full * v = (v * m) + (e * v) /\ e * v \in Nat
    BY <2>2
  <2> QED
    BY <2>3, <2>4
<1> DEFINE q == (v * m) \div full
<1>2. q \in Nat /\ full * q <= v * m
  BY <1>1
<1> HIDE DEF q
<1>3. q <= m
  <2> SUFFICES ASSUME q > m PROVE FALSE
    BY <1>2
  <2>1. PICK d \in Nat : q = m + 1 + d
    <3>1. q - m - 1 \in Nat /\ q = m + 1 + (q - m - 1)
      BY <1>2
    <3> QED
      BY <3>1
  <2>2. full * q = (full * m) + full + (full * d) /\ full * d \in Nat /\ full * m \in Nat
    BY <2>1
  <2> QED
    BY <1>1, <1>2, <2>2
<1>4. q <= v
  <2> SUFFICES ASSUME q > v PROVE FALSE
    BY <1>2
  <2>1. PICK d \in Nat : q = v + 1 + d
    <3>1. q - v - 1 \in Nat /\ q = v + 1 + (q - v - 1)
      BY <1>2
    <3> QED
      BY <3>1
  <2>2. full * q = (full * v) + full + (full * d) /\ full * d \in Nat /\ full * v \in Nat
    BY <2>1
  <2> QED
    BY <1>1, <1>2, <2>2
<1> QED
  BY <1>2, <1>3, <1>4 DEF q

\* The commands turn by no more than is left, and by something.
LEMMA RotateTurnIs ==
  ASSUME NEW o, o.remaining \in Int, 1 <= Magnitude(o.remaining)
  PROVE  \E s \in 1 .. TurnSpeed :
           s <= Magnitude(o.remaining) /\ RotateTurn(o) = Sign(o.remaining) * s
<1> DEFINE m == Magnitude(o.remaining)
           speed == IF m < SlowAngle THEN Least(TurnSpeed, Most(1, m)) ELSE TurnSpeed
<1>1. m \in Nat /\ 1 <= m
  BY DEF Magnitude
<1>2. RotateTurn(o) = Sign(o.remaining) * speed
  BY DEF RotateTurn
<1> HIDE DEF m
<1>3. speed \in 1 .. TurnSpeed /\ speed <= m
  BY <1>1, DriveConstants DEF Least, Most
<1> QED
  BY <1>2, <1>3 DEF m

LEMMA ArcTurnIs ==
  ASSUME NEW o, o.remaining \in Int, 1 <= Magnitude(o.remaining)
  PROVE  \E s \in 1 .. TurnSpeed : s <= Magnitude(o.remaining) /\ ArcTurn(o) = o.sign * s
<1> DEFINE m == Magnitude(o.remaining)
           scaled == (TurnSpeed * m) \div SlowAngle
           speed == IF m < SlowAngle THEN Most(1, scaled) ELSE TurnSpeed
<1>1. m \in Nat /\ 1 <= m
  BY DEF Magnitude
<1>2. ArcTurn(o) = o.sign * speed
  BY DEF ArcTurn
<1>3. m < SlowAngle => scaled \in Nat /\ scaled <= m /\ scaled <= TurnSpeed
  <2> HIDE DEF m
  <2>1. SlowAngle \in Nat \ {0}
    BY DriveConstants
  <2> QED
    BY <1>1, <2>1, DriveConstants, ScaledDown
<1> HIDE DEF m, scaled
<1>4. speed \in 1 .. TurnSpeed /\ speed <= m
  BY <1>1, <1>3, DriveConstants DEF Most
<1> QED
  BY <1>2, <1>4 DEF m

\* What is left of a rotation is `left': what it has counted, and the turn since it was last
\* executed; it is on the side it started from, or one heading past it.
RotationLeads(o, heading, left) ==
  /\ o.first => o.remaining = left
  /\ ~o.first => o.remaining = left + Shortest(o.last, heading)
  /\ Sign(left) = o.sign \/ Magnitude(left) <= 1

\* How far from the heading that leads to its position navigate drives at most
Astray == Most(1, Converged - 1)

AngleGoalLeads ==
  drive_phase \in {"arc", "rotate"} =>
    RotationLeads(rotation, at.heading, drive_goal.angle - turned)

DistanceGoalLeads ==
  drive_phase = "distance" =>
    /\ translation.goal = drive_goal.distance
    /\ IF translation.first THEN at.x = began ELSE translation.start = began
    /\ Magnitude(at.x - began) <= Magnitude(drive_goal.distance) + DriveSpeed

FacesThePosition ==
  drive_phase = "to_position" => RotationLeads(rotation, at.heading, AngleTo(drive_goal.x))

\* The robot is between where it started to drive and its goal, or one unit past it.
OnItsWay(dir) ==
  /\ drive_goal.x = translation.start + dir * translation.goal
  /\ dir * (at.x - translation.start) \in 0 .. translation.goal + 1
  /\ Magnitude(Shortest(at.heading, IF dir < 0 THEN Full \div 2 ELSE 0)) <= Astray

DrivesToThePosition ==
  drive_phase = "driving" =>
    /\ ~translation.first /\ translation.goal > 0
    /\ \E dir \in {-1, 1} : OnItsWay(dir)

FacesTheHeading ==
  drive_phase = "to_heading" =>
    /\ drive_goal.achieve
    /\ Magnitude(drive_goal.x - at.x) <= Converged
    /\ RotationLeads(rotation, at.heading, Shortest(at.heading, drive_goal.heading))

\* A goal goes through the phases of its kind.
PhaseOfKind ==
  /\ drive_goal \in DriveRequest
  /\ drive_phase \in {"arc", "rotate", "distance"} => drive_goal.kind = drive_phase
  /\ drive_phase \in {"first", "to_position", "driving", "to_heading"} =>
       drive_goal.kind = "navigate"

DriveInv ==
  /\ DriveMotionTypeOK
  /\ PhaseOfKind
  /\ AngleGoalLeads
  /\ DistanceGoalLeads
  /\ FacesThePosition
  /\ DrivesToThePosition
  /\ FacesTheHeading

-----------------------------------------------------------------------------
RotationType == [first : BOOLEAN, last : 0..(Full - 1), remaining : Int, sign : {-1, 1}]

\* The shortest turn, in the headings of the drive goals
LEMMA ShortestIs ==
  ASSUME NEW a \in Int, NEW b \in Int
  PROVE  /\ Shortest(a, b) \in Int
         /\ 2 * Shortest(a, b) <= Full /\ -Full < 2 * Shortest(a, b)
         /\ \E k \in Int : b - a = Shortest(a, b) + WholeTurns(Full, k)
<1>1. Full \in Nat \ {0}
  BY DriveConstants
<1> QED
  BY <1>1, ShortestTurnIs DEF Shortest, IsShortest

\* An execution measures exactly what is left.
LEMMA MeasureIs ==
  ASSUME NEW o \in RotationType, NEW heading \in 0 .. Full - 1, NEW left \in Int,
         RotationLeads(o, heading, left)
  PROVE  LET m == Measure(o, heading)
         IN  /\ m \in RotationType /\ ~m.first /\ m.last = heading
             /\ m.remaining = left /\ m.sign = o.sign
<1>1. Full \in Nat
  BY DriveConstants
<1>2. Shortest(o.last, heading) \in Int
  BY <1>1, ShortestIs DEF RotationType
<1> HIDE DEF Shortest
<1>3. /\ o.remaining \in Int /\ o.first \in BOOLEAN
      /\ o.remaining - (IF o.first THEN 0 ELSE Shortest(o.last, heading)) = left
  BY <1>2 DEF RotationLeads, RotationType
<1> QED
  BY <1>3 DEF Measure, RotationType

\* A rotation ends at its angle, up to the angle at which it counts as converged.
LEMMA RotationEnds ==
  ASSUME NEW o \in RotationType, NEW heading \in 0 .. Full - 1, NEW left \in Int,
         RotationLeads(o, heading, left)
  PROVE  /\ RotateDone(Measure(o, heading)) => Magnitude(left) <= Astray
         /\ ~RotateDone(Measure(o, heading)) => Sign(left) = o.sign /\ 1 <= Magnitude(left)
         /\ ArcDone(Measure(o, heading)) => Magnitude(left) <= Converged
         /\ ~ArcDone(Measure(o, heading)) => Sign(left) = o.sign /\ 1 <= Magnitude(left)
<1> DEFINE m == Measure(o, heading)
<1>1. m.remaining = left /\ m.sign = o.sign /\ (Sign(left) = o.sign \/ Magnitude(left) <= 1)
  BY MeasureIs DEF RotationLeads
<1>2. Magnitude(left) \in Nat
  BY DEF Magnitude
<1> HIDE DEF m
<1>3. /\ RotateDone(m) => Magnitude(left) <= Astray
      /\ ~RotateDone(m) => Sign(left) = o.sign /\ 1 <= Magnitude(left)
  BY <1>1, <1>2, DriveConstants DEF RotateDone, Astray, Most
<1>4. /\ ArcDone(m) => Magnitude(left) <= Converged
      /\ ~ArcDone(m) => Sign(left) = o.sign /\ 1 <= Magnitude(left)
  BY <1>1, <1>2, DriveConstants DEF ArcDone
<1> QED
  BY <1>3, <1>4 DEF m

\* The motion of one execution is measured by the next, and leaves what it should.
LEMMA Turning ==
  ASSUME NEW m \in RotationType, ~m.first, Sign(m.remaining) = m.sign,
         NEW s \in 1 .. TurnSpeed, s <= Magnitude(m.remaining), NEW response \in Response
  PROVE  LET t == Effect(m.sign * s, response)
         IN  /\ m.sign * s \in (-TurnSpeed) .. TurnSpeed /\ t \in Int
             /\ RotationLeads(m, (m.last + t) % Full, m.remaining - t)
             /\ Magnitude(m.remaining - t) <= Magnitude(m.remaining)
             /\ Sign(m.remaining - t) = Sign(m.remaining) \/ Magnitude(m.remaining - t) <= 1
<1> DEFINE t == Effect(m.sign * s, response)
<1>1. m.remaining \in Int /\ m.sign \in {-1, 1} /\ m.last \in Int /\ s \in Nat /\ 1 <= s
  BY DriveConstants DEF RotationType
<1>2. t \in {0, m.sign * s, m.sign * s + m.sign}
  BY <1>1, EffectOfSpeed
<1> HIDE DEF t
<1>3. t \in {0, Sign(m.remaining) * s, Sign(m.remaining) * s + Sign(m.remaining)}
  BY <1>2
<1>4. /\ t \in Int /\ Magnitude(t) <= s + 1
      /\ Sign(m.remaining - t) = Sign(m.remaining) \/ Magnitude(m.remaining - t) <= 1
      /\ Magnitude(m.remaining - t) <= Magnitude(m.remaining)
  BY <1>1, <1>3, OneTooMany
<1>5. 2 * t < Full /\ -Full < 2 * t
  BY <1>1, <1>4, DriveConstants DEF Magnitude
<1>6. Shortest(m.last, (m.last + t) % Full) = t
  BY <1>1, <1>4, <1>5, SmallTurn, DriveConstants DEF Shortest
<1>7. m.remaining = (m.remaining - t) + Shortest(m.last, (m.last + t) % Full)
  BY <1>1, <1>4, <1>6
<1>8. m.sign * s \in (-TurnSpeed) .. TurnSpeed
  BY <1>1, DriveConstants
<1>9. RotationLeads(m, (m.last + t) % Full, m.remaining - t)
  BY <1>4, <1>7 DEF RotationLeads
<1> QED
  BY <1>4, <1>8, <1>9 DEF t

LEMMA RotateGoesOn ==
  ASSUME NEW o \in RotationType, NEW heading \in 0 .. Full - 1, NEW left \in Int,
         RotationLeads(o, heading, left), NEW response \in Response,
         ~RotateDone(Measure(o, heading))
  PROVE  LET m == Measure(o, heading)
             t == Effect(RotateTurn(m), response)
         IN  /\ RotateTurn(m) \in (-TurnSpeed) .. TurnSpeed /\ t \in Int
             /\ RotationLeads(m, (heading + t) % Full, left - t)
             /\ Magnitude(left - t) <= Magnitude(left)
             /\ Sign(left - t) = Sign(left) \/ Magnitude(left - t) <= 1
<1> DEFINE m == Measure(o, heading)
<1>1. /\ m \in RotationType /\ ~m.first /\ m.last = heading
      /\ m.remaining = left /\ m.sign = o.sign
  BY MeasureIs
<1>2. Sign(left) = o.sign /\ 1 <= Magnitude(left)
  BY RotationEnds
<1> HIDE DEF m
<1>3. PICK s \in 1 .. TurnSpeed : s <= Magnitude(m.remaining) /\ RotateTurn(m) = m.sign * s
  BY <1>1, <1>2, RotateTurnIs
<1> QED
  BY <1>1, <1>2, <1>3, Turning DEF m

LEMMA ArcGoesOn ==
  ASSUME NEW o \in RotationType, NEW heading \in 0 .. Full - 1, NEW left \in Int,
         RotationLeads(o, heading, left), NEW response \in Response,
         ~ArcDone(Measure(o, heading))
  PROVE  LET m == Measure(o, heading)
             t == Effect(ArcTurn(m), response)
         IN  /\ ArcTurn(m) \in (-TurnSpeed) .. TurnSpeed /\ t \in Int
             /\ RotationLeads(m, (heading + t) % Full, left - t)
<1> DEFINE m == Measure(o, heading)
<1>1. /\ m \in RotationType /\ ~m.first /\ m.last = heading
      /\ m.remaining = left /\ m.sign = o.sign
  BY MeasureIs
<1>2. Sign(left) = o.sign /\ 1 <= Magnitude(left)
  BY RotationEnds
<1> HIDE DEF m
<1>3. PICK s \in 1 .. TurnSpeed : s <= Magnitude(m.remaining) /\ ArcTurn(m) = m.sign * s
  BY <1>1, <1>2, ArcTurnIs
<1> QED
  BY <1>1, <1>2, <1>3, Turning DEF m

\* A turn that leaves no more than half a turn leads as far nearer to where it aims,
LEMMA TurnedWithin ==
  ASSUME NEW heading \in Int, NEW to \in Int, NEW t \in Int, NEW left \in Int,
         left = Shortest(heading, to) - t, 2 * left <= Full, -Full < 2 * left
  PROVE  Shortest((heading + t) % Full, to) = left
<1>1. Shortest(heading, to) \in Int
  BY ShortestIs
<1>2. PICK k \in Int : to - heading = Shortest(heading, to) + WholeTurns(Full, k)
  BY ShortestIs
<1>3. Full \in Nat \ {0}
  BY DriveConstants
<1>4. to - heading = left + t + WholeTurns(Full, k)
  BY <1>1, <1>2, <1>3, TurnsInt
<1>5. ShortestTurn(Full, (heading + t) % Full, to) = left
  BY <1>3, <1>4, TurnedTowards
<1> QED
  BY <1>5 DEF Shortest

\* and one that leaves no more than there was is such a turn.
LEMMA TurnedNearer ==
  ASSUME NEW heading \in Int, NEW to \in Int, NEW t \in Int,
         Magnitude(Shortest(heading, to) - t) <= Magnitude(Shortest(heading, to)),
         \/ Sign(Shortest(heading, to) - t) = Sign(Shortest(heading, to))
         \/ Magnitude(Shortest(heading, to) - t) <= 1
  PROVE  Shortest((heading + t) % Full, to) = Shortest(heading, to) - t
<1> DEFINE d == Shortest(heading, to)
<1>1. d \in Int /\ 2 * d <= Full /\ -Full < 2 * d
  BY ShortestIs
<1>2. /\ Magnitude(d - t) <= Magnitude(d)
      /\ Sign(d - t) = Sign(d) \/ Magnitude(d - t) <= 1
  OBVIOUS
<1> HIDE DEF d
<1>3. d - t \in Int /\ 2 * (d - t) <= Full /\ -Full < 2 * (d - t)
  BY <1>1, <1>2, DriveConstants DEF Magnitude, Sign
<1> QED
  BY <1>3, TurnedWithin DEF d

TranslationType == [first : BOOLEAN, start : Int, goal : Int, remaining : Int]
CommandType == [move : (-DriveSpeed)..DriveSpeed, turn : (-TurnSpeed)..TurnSpeed]

\* The members that a goal of a kind has
LEMMA GoalOfKind ==
  ASSUME PhaseOfKind
  PROVE  /\ drive_goal.kind \in {"arc", "rotate"} => drive_goal.angle \in Int
         /\ drive_goal.kind = "distance" => drive_goal.distance \in Int
         /\ drive_goal.kind = "navigate" =>
              /\ drive_goal.x \in Int /\ drive_goal.heading \in 0..(Full - 1)
              /\ drive_goal.achieve \in BOOLEAN
<1>1. drive_goal \in DriveRequest
  BY DEF PhaseOfKind
<1>2. CASE drive_goal \in [kind : {"arc", "rotate"}, angle : Int]
  BY <1>2
<1>3. CASE drive_goal \in [kind : {"distance"}, distance : Int]
  BY <1>3
<1>4. CASE drive_goal \in [kind : {"navigate"}, x : Int, heading : 0..(Full - 1), achieve : BOOLEAN]
  BY <1>4
<1> QED
  BY <1>1, <1>2, <1>3, <1>4 DEF DriveRequest

LEMMA AlongIs ==
  ASSUME NEW heading \in 0 .. Full - 1
  PROVE  /\ Along(heading) \in {-1, 0, 1}
         /\ drive_goal.kind # "navigate" => Along(heading) = 1
BY DEF Along, Sign

\* The motion after an execution that has set a command
LEMMA Moved ==
  ASSUME DriveMotionTypeOK, NEW response \in Response, RobotMoves(response),
         driveCmd' \in CommandType
  PROVE  /\ at'.x = at.x + Along(at.heading) * Effect(driveCmd'.move, response)
         /\ at'.heading = (at.heading + Effect(driveCmd'.turn, response)) % Full
         /\ turned' = turned + Effect(driveCmd'.turn, response)
         /\ at'.x \in Int /\ at'.heading \in 0..(Full - 1) /\ turned' \in Int
         /\ driveCmd'.move = 0 => at'.x = at.x
         /\ driveCmd'.turn = 0 => at'.heading = at.heading /\ turned' = turned
<1>1. /\ at.x \in Int /\ at.heading \in 0 .. Full - 1 /\ turned \in Int
      /\ at.heading \in Int /\ Full \in Nat \ {0}
  BY DriveConstants DEF DriveMotionTypeOK
<1>2. driveCmd'.move \in Int /\ driveCmd'.turn \in Int
  BY DriveConstants DEF CommandType
<1> DEFINE e == Effect(driveCmd'.move, response)
           t == Effect(driveCmd'.turn, response)
           d == Along(at.heading)
<1>3. /\ at' = [x |-> at.x + d * e, heading |-> (at.heading + t) % Full]
      /\ turned' = turned + t
  BY DEF RobotMoves
<1>4. /\ e \in Int /\ t \in Int
      /\ driveCmd'.move = 0 => e = 0
      /\ driveCmd'.turn = 0 => t = 0
  BY <1>2, EffectIs
<1>5. d \in {-1, 0, 1}
  BY <1>1, AlongIs
<1> HIDE DEF e, t, d
<1>6. d * e \in Int /\ (e = 0 => d * e = 0)
  BY <1>4, <1>5
<1>7. at'.x = at.x + d * e /\ at'.heading = (at.heading + t) % Full
  BY <1>3
<1>8. (at.heading + t) % Full \in 0 .. Full - 1
  <2>1. at.heading + t \in Int
    BY <1>1, <1>4
  <2> QED
    BY <1>1, <2>1, RemainderIs
<1>9. t = 0 => (at.heading + t) % Full = at.heading
  <2> SUFFICES ASSUME t = 0 PROVE at.heading % Full = at.heading
    BY <1>1
  <2>1. at.heading = at.heading + WholeTurns(Full, 0)
    BY <1>1, NoTurns
  <2> QED
    BY <1>1, <2>1, RemainderUnique
<1> QED
  BY <1>1, <1>3, <1>4, <1>6, <1>7, <1>8, <1>9 DEF e, t, d

\* A step keeps the types of what it does not set.
LEMMA StepTypes ==
  ASSUME DriveInv, NEW response \in Response, RobotMoves(response),
         UNCHANGED <<drive_goal, began>>, drive_phase' \in Phases,
         rotation' \in RotationType, translation' \in TranslationType, driveCmd' \in CommandType
  PROVE  DriveMotionTypeOK'
<1>1. DriveMotionTypeOK
  BY DEF DriveInv
<1>2. at'.x \in Int /\ at'.heading \in 0..(Full - 1) /\ turned' \in Int
  BY <1>1, Moved
<1>3. began' \in Int
  BY <1>1 DEF DriveMotionTypeOK
<1> QED
  BY <1>2, <1>3 DEF DriveMotionTypeOK, RotationType, TranslationType, CommandType

\* A goal that ends leaves nothing to keep.
LEMMA Rests ==
  ASSUME DriveInv, DriveMotionTypeOK', UNCHANGED drive_goal, drive_phase' = "idle"
  PROVE  DriveInv'
<1>1. PhaseOfKind'
  BY DEF DriveInv, PhaseOfKind
<1>2. AngleGoalLeads' /\ DistanceGoalLeads' /\ FacesThePosition' /\ FacesTheHeading'
  BY DEF AngleGoalLeads, DistanceGoalLeads, FacesThePosition, FacesTheHeading
<1>3. DrivesToThePosition'
  BY DEF DrivesToThePosition
<1> QED
  BY <1>1, <1>2, <1>3 DEF DriveInv

LEMMA StillIs == Still \in CommandType /\ Still.move = 0 /\ Still.turn = 0
BY DriveConstants DEF Still, CommandType

-----------------------------------------------------------------------------
\* An angle goal counts its turns, and ends where it was asked to.
LEMMA AngleSteps ==
  ASSUME DriveInv, IterateArc \/ IterateRotate, NEW response \in Response, RobotMoves(response),
         UNCHANGED <<drive_goal, began>>
  PROVE  /\ DriveInv'
         /\ drive_phase' = "idle" => Magnitude(drive_goal.angle - turned) <= Converged
<1> DEFINE m == Measure(rotation, at.heading)
           left == drive_goal.angle - turned
           done == IF drive_phase = "arc" THEN ArcDone(m) ELSE RotateDone(m)
           turn == IF drive_phase = "arc" THEN ArcTurn(m) ELSE RotateTurn(m)
<1>1. /\ drive_phase \in {"arc", "rotate"} /\ drive_goal.kind = drive_phase
      /\ drive_goal.angle \in Int
  BY GoalOfKind DEF DriveInv, PhaseOfKind, IterateArc, IterateRotate
<1>2. /\ rotation \in RotationType /\ at.heading \in 0 .. Full - 1 /\ turned \in Int
      /\ translation \in TranslationType /\ DriveMotionTypeOK
  BY DEF DriveInv, DriveMotionTypeOK, RotationType, TranslationType
<1>3. left \in Int /\ RotationLeads(rotation, at.heading, left)
  BY <1>1, <1>2 DEF DriveInv, AngleGoalLeads
<1>4. m \in RotationType
  BY <1>2, <1>3, MeasureIs
<1>5. /\ rotation' = m /\ translation' = translation
      /\ drive_phase' = IF done THEN "idle" ELSE drive_phase
      /\ driveCmd' = IF done THEN Still ELSE [move |-> 0, turn |-> turn]
  BY DEF IterateArc, IterateRotate
<1>6. CASE done
  <2>1. Magnitude(left) <= Converged
    <3>1. Magnitude(left) <= Astray => Magnitude(left) <= Converged
      BY <1>3, DriveConstants DEF Magnitude, Astray, Most
    <3> QED
      BY <1>2, <1>3, <1>6, <3>1, RotationEnds
  <2> HIDE DEF m, left, done
  <2>2. driveCmd' \in CommandType /\ drive_phase' = "idle"
    BY <1>5, <1>6, StillIs
  <2>3. DriveMotionTypeOK'
    BY <1>2, <1>4, <1>5, <2>2, StepTypes DEF Phases
  <2> QED
    BY <2>1, <2>2, <2>3, Rests DEF left
<1>7. CASE ~done
  <2> DEFINE t == Effect(turn, response)
  <2>1. /\ turn \in (-TurnSpeed) .. TurnSpeed /\ t \in Int
        /\ RotationLeads(m, (at.heading + t) % Full, left - t)
    BY <1>2, <1>3, <1>7, ArcGoesOn, RotateGoesOn
  <2> HIDE DEF m, done, turn
  <2>2. /\ drive_phase' = drive_phase /\ driveCmd' = [move |-> 0, turn |-> turn]
        /\ driveCmd' \in CommandType
    BY <1>5, <1>7, <2>1, DriveConstants DEF CommandType
  <2>3. DriveMotionTypeOK'
    BY <1>1, <1>2, <1>4, <1>5, <2>2, StepTypes DEF Phases
  <2>4. at'.heading = (at.heading + t) % Full /\ turned' = turned + t
    BY <1>2, <2>2, Moved
  <2> HIDE DEF t
  <2>5. drive_goal'.angle - turned' = left - t
    BY <1>1, <1>2, <2>1, <2>4
  <2>6. AngleGoalLeads'
    BY <1>5, <2>1, <2>4, <2>5 DEF AngleGoalLeads
  <2>7. PhaseOfKind'
    BY <1>1, <2>2 DEF DriveInv, PhaseOfKind
  <2> QED
    BY <1>1, <2>2, <2>3, <2>6, <2>7
       DEF DriveInv, DistanceGoalLeads, FacesThePosition, DrivesToThePosition, FacesTheHeading
<1> QED
  BY <1>6, <1>7

\* A distance goal keeps to its line. What it still has to cover is no more than the goal, so
\* that the motion of one execution is what it can be too far.
LEMMA AdvanceIs ==
  ASSUME NEW o \in TranslationType, NEW x \in Int
  PROVE  LET c == Covered(o, x)
             start == IF o.first THEN x ELSE o.start
         IN  /\ c = Magnitude(x - start) /\ c \in Nat /\ start \in Int
             /\ Advance(o, x) \in TranslationType
             /\ Advance(o, x).first = FALSE /\ Advance(o, x).start = start
             /\ Advance(o, x).goal = o.goal
             /\ c < Magnitude(o.goal) => Advance(o, x).remaining = o.goal - c
             /\ ~DistanceDone(o, x) =>
                  /\ c < Magnitude(o.goal) /\ Magnitude(o.goal - c) > Converged
             /\ DistanceDone(o, x) =>
                  c >= Magnitude(o.goal) \/ Magnitude(o.goal - c) <= Converged
<1> DEFINE c == Covered(o, x)
           start == IF o.first THEN x ELSE o.start
<1>1. /\ o.first \in BOOLEAN /\ o.start \in Int /\ o.goal \in Int /\ o.remaining \in Int
      /\ o = [first |-> o.first, start |-> o.start, goal |-> o.goal, remaining |-> o.remaining]
  BY DEF TranslationType
<1>2. start \in Int
  BY <1>1
<1>3. /\ Begin(o, x) \in TranslationType
      /\ Begin(o, x).first = FALSE /\ Begin(o, x).start = start /\ Begin(o, x).goal = o.goal
      /\ Begin(o, x).remaining = o.remaining
  BY <1>1, <1>2 DEF Begin, TranslationType
<1>4. c = Magnitude(x - start) /\ c \in Nat
  BY <1>2, <1>3 DEF Covered, Magnitude
<1> HIDE DEF c, start
<1>5. Magnitude(o.goal) \in Nat /\ o.goal - c \in Int /\ Converged \in Nat
  BY <1>1, <1>4, DriveConstants DEF Magnitude
<1>6. Advance(o, x) =
        [Begin(o, x) EXCEPT !.remaining = IF c >= Magnitude(o.goal) THEN @ ELSE o.goal - c]
  BY DEF Advance, c
<1>7. /\ Advance(o, x) \in TranslationType
      /\ Advance(o, x).first = FALSE /\ Advance(o, x).start = start
      /\ Advance(o, x).goal = o.goal
      /\ ~(c >= Magnitude(o.goal)) => Advance(o, x).remaining = o.goal - c
  BY <1>3, <1>5, <1>6 DEF TranslationType
<1>8. /\ ~DistanceDone(o, x) => ~(c >= Magnitude(o.goal)) /\ ~(Magnitude(o.goal - c) <= Converged)
      /\ DistanceDone(o, x) => c >= Magnitude(o.goal) \/ Magnitude(o.goal - c) <= Converged
  BY <1>7 DEF DistanceDone, c
<1>9. Magnitude(o.goal - c) \in Nat
  BY <1>5 DEF Magnitude
<1> QED
  BY <1>2, <1>4, <1>5, <1>7, <1>8, <1>9 DEF c, start

\* The command drives by no more than is left, and by something.
LEMMA DistanceMoveIs ==
  ASSUME NEW o \in TranslationType, NEW x \in Int, ~DistanceDone(o, x)
  PROVE  \E s \in 1 .. DriveSpeed :
           /\ s <= Magnitude(o.goal - Covered(o, x))
           /\ DistanceMove(o, x) = Sign(o.goal) * s
<1> DEFINE left == Magnitude(Advance(o, x).remaining)
           speed == IF left <= SlowDistance THEN Least(DriveSpeed, Most(1, left)) ELSE DriveSpeed
<1>1. /\ left = Magnitude(o.goal - Covered(o, x)) /\ left > Converged
      /\ o.goal - Covered(o, x) \in Int
  BY AdvanceIs DEF TranslationType
<1>2. left \in Nat /\ 1 <= left
  BY <1>1, DriveConstants DEF Magnitude
<1>3. DistanceMove(o, x) = Sign(o.goal) * speed
  BY DEF DistanceMove
<1> HIDE DEF left
<1>4. speed \in 1 .. DriveSpeed /\ speed <= left
  BY <1>2, DriveConstants DEF Least, Most
<1> QED
  BY <1>1, <1>3, <1>4

CoversItsDistance ==
  /\ Magnitude(drive_goal.distance) - Converged <= Magnitude(at.x - began)
  /\ Magnitude(at.x - began) <= Magnitude(drive_goal.distance) + DriveSpeed

\* A distance goal keeps to its line and ends at its distance.
LEMMA DistanceSteps ==
  ASSUME DriveInv, IterateDistance, NEW response \in Response, RobotMoves(response),
         UNCHANGED <<drive_goal, began>>
  PROVE  DriveInv' /\ (drive_phase' = "idle" => CoversItsDistance)
<1> DEFINE g == drive_goal.distance
           c == Covered(translation, at.x)
           done == DistanceDone(translation, at.x)
           moved == Advance(translation, at.x)
<1>1. drive_phase = "distance" /\ drive_goal.kind = "distance" /\ g \in Int
  BY GoalOfKind DEF DriveInv, PhaseOfKind, IterateDistance
<1>2. /\ rotation \in RotationType /\ at.x \in Int /\ translation \in TranslationType
      /\ at.heading \in 0 .. Full - 1 /\ began \in Int /\ DriveMotionTypeOK
  BY DEF DriveInv, DriveMotionTypeOK, RotationType, TranslationType
<1>3. /\ translation.goal = g
      /\ IF translation.first THEN at.x = began ELSE translation.start = began
      /\ Magnitude(at.x - began) <= Magnitude(g) + DriveSpeed
  BY <1>1 DEF DriveInv, DistanceGoalLeads
<1>4. /\ c = Magnitude(at.x - began) /\ c \in Nat
      /\ moved \in TranslationType /\ moved.first = FALSE /\ moved.start = began
      /\ moved.goal = g
      /\ ~done => c < Magnitude(g)
      /\ done => c >= Magnitude(g) \/ Magnitude(g - c) <= Converged
  <2>1. (IF translation.first THEN at.x ELSE translation.start) = began
    BY <1>2, <1>3 DEF TranslationType
  <2> QED
    BY <1>2, <1>3, <2>1, AdvanceIs
<1>5. /\ rotation' = rotation /\ translation' = moved
      /\ drive_phase' = IF done THEN "idle" ELSE "distance"
      /\ driveCmd' = IF done THEN Still
                      ELSE [move |-> DistanceMove(translation, at.x), turn |-> 0]
  BY DEF IterateDistance
<1>6. CASE done
  <2> HIDE DEF c, done, moved, g
  <2>1. Magnitude(g) - Converged <= c
    BY <1>1, <1>4, <1>6, DriveConstants DEF Magnitude
  <2>2. driveCmd' \in CommandType /\ drive_phase' = "idle"
    BY <1>5, <1>6, StillIs
  <2>3. DriveMotionTypeOK'
    BY <1>2, <1>4, <1>5, <2>2, StepTypes DEF Phases
  <2> QED
    BY <1>3, <1>4, <2>1, <2>2, <2>3, Rests DEF CoversItsDistance, g
<1>7. CASE ~done
  <2>1. PICK s \in 1 .. DriveSpeed : DistanceMove(translation, at.x) = Sign(g) * s
    BY <1>2, <1>3, <1>7, DistanceMoveIs
  <2> HIDE DEF c, done, moved, g
  <2> DEFINE e == Effect(driveCmd'.move, response)
  <2>2. /\ drive_phase' = "distance" /\ driveCmd' = [move |-> Sign(g) * s, turn |-> 0]
        /\ driveCmd' \in CommandType
    BY <1>5, <1>7, <2>1, DriveConstants DEF CommandType, Sign
  <2>3. DriveMotionTypeOK'
    BY <1>2, <1>4, <1>5, <2>2, StepTypes DEF Phases
  <2>4. at'.x = at.x + Along(at.heading) * e /\ Along(at.heading) = 1
    BY <1>1, <1>2, <2>2, Moved, AlongIs
  <2>5. e \in {0, Sign(g) * s, Sign(g) * s + Sign(g)}
    <3>1. Sign(g) \in {-1, 1} /\ s \in Nat /\ 1 <= s /\ driveCmd'.move = Sign(g) * s
      BY <2>2, DriveConstants DEF Sign
    <3> QED
      BY <3>1, EffectOfSpeed
  <2> HIDE DEF e
  <2>6. at'.x = at.x + e /\ Magnitude(e) <= DriveSpeed + 1 /\ e \in Int
    BY <1>2, <2>4, <2>5, DriveConstants DEF Magnitude, Sign
  <2>7. Magnitude(at'.x - began) <= Magnitude(g) + DriveSpeed
    BY <1>1, <1>2, <1>4, <1>7, <2>6, DriveConstants DEF Magnitude
  <2>8. DistanceGoalLeads'
    BY <1>4, <1>5, <2>7 DEF DistanceGoalLeads, g
  <2>9. PhaseOfKind'
    BY <1>1, <2>2 DEF DriveInv, PhaseOfKind
  <2> QED
    BY <2>2, <2>3, <2>8, <2>9
       DEF DriveInv, AngleGoalLeads, FacesThePosition, DrivesToThePosition, FacesTheHeading
<1> QED
  BY <1>6, <1>7

-----------------------------------------------------------------------------
Arrived ==
  /\ Magnitude(drive_goal.x - at.x) <= Converged
  /\ drive_goal.achieve => Magnitude(Shortest(at.heading, drive_goal.heading)) <= Astray

\* The types that the steps of navigate need
LEMMA NavigateTypes ==
  ASSUME DriveInv, drive_goal.kind = "navigate"
  PROVE  /\ drive_goal.x \in Int /\ drive_goal.heading \in 0 .. Full - 1
         /\ drive_goal.heading \in Int /\ drive_goal.achieve \in BOOLEAN
         /\ rotation \in RotationType /\ translation \in TranslationType
         /\ at.x \in Int /\ at.heading \in 0 .. Full - 1 /\ at.heading \in Int
         /\ DriveMotionTypeOK /\ Full \in Nat \ {0}
<1>1. Full \in Nat \ {0}
  BY DriveConstants
<1>2. drive_goal.x \in Int /\ drive_goal.heading \in 0 .. Full - 1 /\ drive_goal.achieve \in BOOLEAN
  BY GoalOfKind DEF DriveInv
<1> QED
  BY <1>1, <1>2 DEF DriveInv, DriveMotionTypeOK, RotationType, TranslationType

\* The rotation to the goal's heading, from when it is looked at for the first time
LEMMA FaceSteps ==
  ASSUME DriveInv, drive_goal.kind = "navigate", drive_goal.achieve,
         Magnitude(drive_goal.x - at.x) <= Converged,
         NEW o \in RotationType,
         RotationLeads(o, at.heading, Shortest(at.heading, drive_goal.heading)),
         rotation' = Measure(o, at.heading),
         drive_phase' = IF RotateDone(Measure(o, at.heading)) THEN "idle" ELSE "to_heading",
         driveCmd' = IF RotateDone(Measure(o, at.heading)) THEN Still
                     ELSE [move |-> 0, turn |-> RotateTurn(Measure(o, at.heading))],
         translation' \in TranslationType,
         NEW response \in Response, RobotMoves(response), UNCHANGED <<drive_goal, began>>
  PROVE  DriveInv' /\ (drive_phase' = "idle" => Arrived)
<1> DEFINE m == Measure(o, at.heading)
           left == Shortest(at.heading, drive_goal.heading)
<1>1. /\ drive_goal.heading \in Int /\ at.x \in Int /\ at.heading \in 0 .. Full - 1
      /\ at.heading \in Int /\ DriveMotionTypeOK
  BY NavigateTypes
<1>2. left \in Int
  BY <1>1, ShortestIs
<1>3. m \in RotationType
  BY <1>1, <1>2, MeasureIs
<1>4. CASE RotateDone(m)
  <2>1. Magnitude(left) <= Astray
    BY <1>1, <1>2, <1>4, RotationEnds
  <2>2. driveCmd' \in CommandType /\ drive_phase' = "idle"
    BY <1>4, StillIs
  <2>3. DriveMotionTypeOK'
    BY <1>3, <2>2, StepTypes DEF Phases
  <2> QED
    BY <2>1, <2>2, <2>3, Rests DEF Arrived
<1>5. CASE ~RotateDone(m)
  <2> DEFINE t == Effect(RotateTurn(m), response)
  <2>1. /\ RotateTurn(m) \in (-TurnSpeed) .. TurnSpeed /\ t \in Int
        /\ RotationLeads(m, (at.heading + t) % Full, left - t)
        /\ Magnitude(left - t) <= Magnitude(left)
        /\ Sign(left - t) = Sign(left) \/ Magnitude(left - t) <= 1
    BY <1>1, <1>2, <1>5, RotateGoesOn
  <2>2. /\ rotation' = m /\ drive_phase' = "to_heading"
        /\ driveCmd' = [move |-> 0, turn |-> RotateTurn(m)]
    BY <1>5
  <2> HIDE DEF m
  <2>3. driveCmd' \in CommandType
    BY <2>1, <2>2, DriveConstants DEF CommandType
  <2>4. DriveMotionTypeOK'
    BY <1>3, <2>2, <2>3, StepTypes DEF Phases
  <2>5. at'.heading = (at.heading + t) % Full /\ at'.x = at.x
    BY <1>1, <2>2, <2>3, Moved
  <2> HIDE DEF t
  <2>6. Shortest((at.heading + t) % Full, drive_goal.heading) = left - t
    BY <1>1, <2>1, TurnedNearer
  <2> HIDE DEF left
  <2>7. FacesTheHeading'
    BY <2>1, <2>2, <2>5, <2>6 DEF FacesTheHeading
  <2>8. PhaseOfKind'
    BY <2>2 DEF DriveInv, PhaseOfKind
  <2> QED
    BY <2>2, <2>4, <2>7, <2>8
       DEF DriveInv, AngleGoalLeads, DistanceGoalLeads, FacesThePosition, DrivesToThePosition
<1> QED
  BY <1>4, <1>5

\* A robot that all but faces its goal drives towards it.
LEMMA AlongTheLine ==
  ASSUME NEW heading \in 0 .. Full - 1, NEW dir \in {-1, 1}, drive_goal.kind = "navigate",
         Magnitude(Shortest(heading, IF dir < 0 THEN Full \div 2 ELSE 0)) <= Astray
  PROVE  Along(heading) = dir
<1> DEFINE H == Full \div 2
           aim == IF dir < 0 THEN H ELSE 0
           a == Shortest(heading, aim)
           b == Shortest(0, heading)
<1>1. /\ Full \in Nat \ {0} /\ H \in Nat /\ 2 * H = Full /\ heading \in Int
      /\ aim \in Int /\ (dir = -1 => aim = H) /\ (dir = 1 => aim = 0)
  BY DriveConstants
<1> HIDE DEF H, aim
<1>2. a \in Int /\ \E k \in Int : aim - heading = a + WholeTurns(Full, k)
  BY <1>1, ShortestIs
<1>3. PICK k \in Int : aim - heading = a + WholeTurns(Full, k)
  BY <1>2
<1>4. Magnitude(a) <= Astray /\ Astray \in Nat /\ 4 * Astray < Full
  BY DriveConstants DEF aim, H, Astray, Most
<1> HIDE DEF a
<1>5. WholeTurns(Full, -k) = -WholeTurns(Full, k) /\ WholeTurns(Full, k) \in Int /\ -k \in Int
  BY <1>1, TurnsBack, TurnsInt
<1>6. ASSUME NEW d \in Int, IsShortest(Full, 0, heading, d)
      PROVE  b = d
  <2>1. 0 \in Int
    OBVIOUS
  <2>2. ShortestTurn(Full, 0, heading) = d
    BY <1>1, <1>6, <2>1, ShortestUnique
  <2> QED
    BY <2>2 DEF Shortest
<1>7. ASSUME NEW d \in Int, d = Ahead(heading), dir * d > 0
       PROVE  Along(heading) = dir
  <2>1. CASE dir = 1
    BY <1>7, <2>1 DEF Along, Sign
  <2>2. CASE dir = -1
    BY <1>7, <2>2 DEF Along, Sign
  <2> QED
    BY <2>1, <2>2
<1>8. Ahead(heading) = Full - 4 * Magnitude(b)
  BY DEF Ahead
<1> HIDE DEF b
<1>9. CASE dir = 1
  <2>1. heading - 0 = -a + WholeTurns(Full, -k)
    BY <1>1, <1>2, <1>3, <1>5, <1>9
  <2>2. -a \in Int /\ 2 * (-a) <= Full /\ -Full < 2 * (-a)
    BY <1>1, <1>2, <1>4 DEF Magnitude
  <2>3. IsShortest(Full, 0, heading, -a)
    BY <1>5, <2>1, <2>2 DEF IsShortest
  <2>4. b = -a
    BY <1>6, <2>2, <2>3
  <2>5. Ahead(heading) \in Int /\ dir * Ahead(heading) > 0
    BY <1>1, <1>2, <1>4, <1>9, <1>8, <2>4 DEF Magnitude
  <2> QED
    BY <1>7, <2>5
<1>10. CASE dir = -1 /\ a >= 0
  <2>1. heading - 0 = (H - a) + WholeTurns(Full, -k)
    BY <1>1, <1>2, <1>3, <1>5, <1>10
  <2>2. H - a \in Int /\ 2 * (H - a) <= Full /\ -Full < 2 * (H - a)
    BY <1>1, <1>2, <1>4, <1>10 DEF Magnitude
  <2>3. IsShortest(Full, 0, heading, H - a)
    BY <1>5, <2>1, <2>2 DEF IsShortest
  <2>4. b = H - a
    BY <1>6, <2>2, <2>3
  <2>5. Ahead(heading) \in Int /\ dir * Ahead(heading) > 0
    BY <1>1, <1>2, <1>4, <1>10, <1>8, <2>4 DEF Magnitude
  <2> QED
    BY <1>7, <2>5
<1>11. CASE dir = -1 /\ ~(a >= 0)
  <2>1. WholeTurns(Full, -k + 1) = WholeTurns(Full, -k) + Full /\ -k + 1 \in Int
    BY <1>1, <1>5, OneMoreTurn
  <2>2. heading - 0 = (-H - a) + WholeTurns(Full, -k + 1)
    BY <1>1, <1>2, <1>3, <1>5, <1>11, <2>1
  <2>3. -H - a \in Int /\ 2 * (-H - a) <= Full /\ -Full < 2 * (-H - a)
    BY <1>1, <1>2, <1>4, <1>11 DEF Magnitude
  <2>4. IsShortest(Full, 0, heading, -H - a)
    BY <2>1, <2>2, <2>3 DEF IsShortest
  <2>5. b = -H - a
    BY <1>6, <2>3, <2>4
  <2>6. Ahead(heading) \in Int /\ dir * Ahead(heading) > 0
    BY <1>1, <1>2, <1>4, <1>11, <1>8, <2>5 DEF Magnitude
  <2> QED
    BY <1>7, <2>6
<1> QED
  BY <1>2, <1>9, <1>10, <1>11

\* The end of the drive: the goal is reached, or its heading is looked at.
LEMMA ArriveSteps ==
  ASSUME DriveInv, drive_goal.kind = "navigate",
         Magnitude(drive_goal.x - at.x) <= Converged,
         NEW o \in RotationType, Arrive(o), translation' \in TranslationType,
         NEW response \in Response, RobotMoves(response), UNCHANGED <<drive_goal, began>>
  PROVE  DriveInv' /\ (drive_phase' = "idle" => Arrived)
<1> DEFINE left == Shortest(at.heading, drive_goal.heading)
           begun == NewRotation(left)
<1>1. /\ drive_goal.heading \in Int /\ drive_goal.achieve \in BOOLEAN
      /\ at.heading \in Int /\ DriveMotionTypeOK /\ Full \in Nat \ {0}
  BY NavigateTypes
<1>2. left \in Int
  BY <1>1, ShortestIs
<1>3. CASE ~drive_goal.achieve
  <2>1. rotation' = o /\ drive_phase' = "idle" /\ driveCmd' = Still
    BY <1>3 DEF Arrive
  <2>2. DriveMotionTypeOK'
    BY <2>1, StepTypes, StillIs DEF Phases
  <2> QED
    BY <1>3, <2>1, <2>2, Rests DEF Arrived
<1>4. CASE drive_goal.achieve
  <2>1. /\ rotation' = Measure(begun, at.heading)
        /\ drive_phase' = IF RotateDone(Measure(begun, at.heading)) THEN "idle" ELSE "to_heading"
        /\ driveCmd' = IF RotateDone(Measure(begun, at.heading)) THEN Still
                       ELSE [move |-> 0, turn |-> RotateTurn(Measure(begun, at.heading))]
    BY <1>4 DEF Arrive
  <2> HIDE DEF left
  <2>2. begun \in RotationType /\ RotationLeads(begun, at.heading, left)
    BY <1>1, <1>2 DEF NewRotation, RotationType, RotationLeads, Sign
  <2> HIDE DEF begun
  <2> QED
    BY <1>4, <2>1, <2>2, FaceSteps DEF left
<1> QED
  BY <1>1, <1>3, <1>4

\* The drive to the position: straight ahead, with a correction that keeps it so.
LEMMA DriveSteps ==
  ASSUME DriveInv, drive_goal.kind = "navigate",
         NEW line \in TranslationType, NEW dir \in {-1, 1}, NEW start \in Int,
         start = IF line.first THEN at.x ELSE line.start,
         line.goal >= 0, drive_goal.x = start + dir * line.goal,
         dir * (at.x - start) \in 0 .. line.goal + 1,
         Magnitude(Shortest(at.heading, IF dir < 0 THEN Full \div 2 ELSE 0)) <= Astray,
         NEW o \in RotationType, DriveOn(line, o),
         NEW response \in Response, RobotMoves(response), UNCHANGED <<drive_goal, began>>
  PROVE  DriveInv' /\ (drive_phase' = "idle" => Arrived)
<1> DEFINE c == Covered(line, at.x)
           done == DistanceDone(line, at.x)
           moved == Advance(line, at.x)
<1>1. /\ drive_goal.x \in Int /\ at.x \in Int /\ at.heading \in 0 .. Full - 1
      /\ at.heading \in Int /\ DriveMotionTypeOK /\ Full \in Nat \ {0} /\ line.goal \in Int
  BY NavigateTypes DEF TranslationType
<1>2. /\ c = Magnitude(at.x - start) /\ c \in Nat
      /\ moved \in TranslationType /\ moved.first = FALSE /\ moved.start = start
      /\ moved.goal = line.goal
      /\ ~done => c < Magnitude(line.goal)
      /\ done => c >= Magnitude(line.goal) \/ Magnitude(line.goal - c) <= Converged
  BY <1>1, AdvanceIs
<1>3. c = dir * (at.x - start) /\ c <= line.goal + 1 /\ Magnitude(line.goal) = line.goal
  BY <1>1, <1>2 DEF Magnitude
<1>4. drive_goal.x - at.x = dir * (line.goal - c)
  BY <1>1, <1>2, <1>3
<1>5. translation' = moved
  BY DEF DriveOn
<1>6. CASE done
  <2>1. Arrive(o)
    BY <1>6 DEF DriveOn
  <2> HIDE DEF c, done, moved
  <2>2. Magnitude(drive_goal.x - at.x) <= Converged
    BY <1>1, <1>2, <1>3, <1>4, <1>6, DriveConstants DEF Magnitude, Most
  <2> QED
    BY <1>2, <1>5, <2>1, <2>2, ArriveSteps
<1>7. CASE ~done
  <2> DEFINE a == AngleTo(drive_goal.x)
             u == IF a = 0 THEN 0 ELSE Sign(a)
             t == Effect(u, response)
             aim == IF dir < 0 THEN Full \div 2 ELSE 0
  <2>1. /\ rotation' = o /\ drive_phase' = "driving"
        /\ driveCmd' = [move |-> DistanceMove(line, at.x), turn |-> u]
    BY <1>7 DEF DriveOn
  <2>2. PICK s \in 1 .. DriveSpeed :
          s <= Magnitude(line.goal - c) /\ DistanceMove(line, at.x) = Sign(line.goal) * s
    BY <1>1, <1>7, DistanceMoveIs
  <2> HIDE DEF c, done, moved
  <2>3. Sign(line.goal) = 1 /\ s \in Nat /\ 1 <= s /\ s <= line.goal - c /\ s <= DriveSpeed
    BY <1>1, <1>2, <1>3, <1>7, <2>2, DriveConstants DEF Sign, Magnitude
  <2>4. (IF drive_goal.x < at.x THEN Full \div 2 ELSE 0) = aim /\ aim \in Int
    <3>1. drive_goal.x < at.x <=> dir < 0
      <4>1. line.goal - c > 0 /\ line.goal - c \in Int
        BY <1>1, <1>2, <1>3, <1>7
      <4>2. CASE dir = 1
        BY <1>1, <1>4, <4>1, <4>2
      <4>3. CASE dir = -1
        BY <1>1, <1>4, <4>1, <4>3
      <4> QED
        BY <4>2, <4>3
    <3> QED
      BY <3>1, DriveConstants
  <2>5. a = Shortest(at.heading, aim) /\ Magnitude(a) <= Astray
    BY <2>4 DEF AngleTo
  <2> HIDE DEF aim, a
  <2>6. a \in Int
    BY <1>1, <2>4, <2>5, ShortestIs
  <2>7. Astray \in Nat /\ 1 <= Astray /\ 2 * Astray < Full
    BY DriveConstants DEF Astray, Most
  <2>8. u \in (-TurnSpeed) .. TurnSpeed /\ u \in Int
    BY <2>6, DriveConstants DEF Sign
  <2>9. t \in {0, u, u + Sign(u)} /\ t \in Int /\ (u = 0 => t = 0)
    BY <2>8, EffectIs
  <2> HIDE DEF t
  <2>10. Magnitude(a - t) <= Astray
    <3>1. CASE a = 0
      BY <2>7, <2>9, <3>1 DEF Magnitude
    <3>2. CASE a > 0
      <4>1. u = 1 /\ Sign(u) = 1
        BY <2>6, <3>2 DEF Sign
      <4> QED
        BY <2>5, <2>6, <2>7, <2>9, <3>2, <4>1 DEF Magnitude
    <3>3. CASE a < 0
      <4>1. u = -1 /\ Sign(u) = -1
        BY <2>6, <3>3 DEF Sign
      <4> QED
        BY <2>5, <2>6, <2>7, <2>9, <3>3, <4>1 DEF Magnitude
    <3> QED
      BY <2>6, <3>1, <3>2, <3>3
  <2>11. Shortest((at.heading + t) % Full, aim) = a - t
    <3>1. a - t \in Int /\ 2 * (a - t) <= Full /\ -Full < 2 * (a - t)
      BY <1>1, <2>6, <2>7, <2>9, <2>10 DEF Magnitude
    <3> QED
      BY <1>1, <2>4, <2>5, <2>9, <3>1, TurnedWithin
  <2>12. driveCmd' = [move |-> s, turn |-> u] /\ driveCmd' \in CommandType
    BY <2>1, <2>2, <2>3, <2>8, DriveConstants DEF CommandType
  <2>13. DriveMotionTypeOK'
    BY <1>2, <1>5, <2>1, <2>12, StepTypes DEF Phases
  <2> HIDE DEF u
  <2> DEFINE e == Effect(s, response)
  <2>14. /\ at'.x = at.x + Along(at.heading) * e
         /\ at'.heading = (at.heading + t) % Full
    BY <1>1, <2>12, Moved DEF t
  <2>15. e \in {0, s, s + 1}
    <3>1. Sign(s) = 1 /\ s \in Int
      BY <2>3 DEF Sign
    <3> QED
      BY <3>1, EffectIs
  <2>16. Along(at.heading) = dir
    BY <1>1, AlongTheLine
  <2> HIDE DEF e
  <2>17. at'.x = at.x + dir * e /\ e \in Nat /\ e <= s + 1
    BY <2>3, <2>14, <2>15, <2>16
  <2>18. dir * (at'.x - start) = c + e
    <3>1. CASE dir = 1
      BY <1>1, <1>2, <1>3, <2>17, <3>1
    <3>2. CASE dir = -1
      BY <1>1, <1>2, <1>3, <2>17, <3>2
    <3> QED
      BY <3>1, <3>2
  <2>19. dir * (at'.x - start) \in 0 .. line.goal + 1
    BY <1>1, <1>2, <2>3, <2>17, <2>18
  <2>20. OnItsWay(dir)'
    <3>1. drive_goal'.x = translation'.start + dir * translation'.goal
      BY <1>2, <1>5
    <3>2. dir * (at'.x - translation'.start) \in 0 .. translation'.goal + 1
      BY <1>2, <1>5, <2>19
    <3>3. Magnitude(Shortest(at'.heading, aim)) <= Astray
      BY <2>10, <2>11, <2>14
    <3> QED
      BY <3>1, <3>2, <3>3 DEF OnItsWay, aim
  <2>21. ~translation'.first /\ translation'.goal > 0
    BY <1>1, <1>2, <1>3, <1>5, <1>7
  <2>22. DrivesToThePosition'
    BY <2>20, <2>21 DEF DrivesToThePosition
  <2>23. PhaseOfKind'
    BY <2>1 DEF DriveInv, PhaseOfKind
  <2> QED
    BY <2>1, <2>13, <2>22, <2>23
       DEF DriveInv, AngleGoalLeads, DistanceGoalLeads, FacesThePosition, FacesTheHeading
<1> QED
  BY <1>6, <1>7

\* The rotation to the position, after which the robot drives at once
LEMMA PositionSteps ==
  ASSUME DriveInv, NavigateRotate,
         NEW response \in Response, RobotMoves(response), UNCHANGED <<drive_goal, began>>
  PROVE  DriveInv' /\ (drive_phase' = "idle" => Arrived)
<1> DEFINE left == AngleTo(drive_goal.x)
           aim == IF drive_goal.x < at.x THEN Full \div 2 ELSE 0
           begun == IF drive_phase = "first" THEN NewRotation(left) ELSE rotation
           m == Measure(begun, at.heading)
<1>1. drive_phase \in {"first", "to_position"} /\ drive_goal.kind = "navigate"
  BY DEF NavigateRotate, DriveInv, PhaseOfKind
<1>2. /\ drive_goal.x \in Int /\ at.x \in Int /\ at.heading \in 0 .. Full - 1
      /\ at.heading \in Int /\ DriveMotionTypeOK /\ Full \in Nat \ {0}
      /\ translation \in TranslationType /\ rotation \in RotationType
  BY <1>1, NavigateTypes
<1>3. aim \in Int /\ left = Shortest(at.heading, aim)
  BY DriveConstants DEF AngleTo
<1> HIDE DEF left
<1>4. left \in Int
  BY <1>2, <1>3, ShortestIs
<1>5. begun \in RotationType /\ RotationLeads(begun, at.heading, left)
  <2>1. CASE drive_phase = "first"
    BY <1>2, <1>4, <2>1 DEF NewRotation, RotationType, RotationLeads, Sign
  <2>2. CASE drive_phase = "to_position"
    BY <1>2, <2>2 DEF DriveInv, FacesThePosition, left
  <2> QED
    BY <1>1, <2>1, <2>2
<1>6. \/ /\ ~RotateDone(m)
         /\ rotation' = m
         /\ drive_phase' = "to_position"
         /\ driveCmd' = [move |-> 0, turn |-> RotateTurn(m)]
         /\ UNCHANGED translation
      \/ /\ RotateDone(m)
         /\ DriveOn(NewTranslation(Magnitude(drive_goal.x - at.x)), m)
  BY DEF NavigateRotate, left
<1> HIDE DEF begun
<1>7. m \in RotationType
  BY <1>2, <1>4, <1>5, MeasureIs
<1>8. CASE RotateDone(m)
  <2> DEFINE line == NewTranslation(Magnitude(drive_goal.x - at.x))
             dir == IF drive_goal.x < at.x THEN -1 ELSE 1
  <2>1. Magnitude(left) <= Astray
    BY <1>2, <1>4, <1>5, <1>8, RotationEnds
  <2>2. DriveOn(line, m)
    BY <1>6, <1>8
  <2>3. /\ line \in TranslationType /\ line.first /\ line.goal >= 0
        /\ line.goal = Magnitude(drive_goal.x - at.x)
    BY <1>2 DEF NewTranslation, TranslationType, Magnitude
  <2>4. dir \in {-1, 1} /\ (dir < 0 <=> drive_goal.x < at.x)
    OBVIOUS
  <2>5. drive_goal.x = at.x + dir * line.goal
    BY <1>2, <2>3 DEF Magnitude
  <2>6. Magnitude(Shortest(at.heading, IF dir < 0 THEN Full \div 2 ELSE 0)) <= Astray
    BY <1>3, <2>1, <2>4
  <2> HIDE DEF line, dir, m
  <2>7. dir * (at.x - at.x) \in 0 .. line.goal + 1
    BY <1>2, <2>3, <2>4 DEF TranslationType
  <2> QED
    BY <1>1, <1>2, <1>7, <2>2, <2>3, <2>4, <2>5, <2>6, <2>7, DriveSteps
<1>9. CASE ~RotateDone(m)
  <2> DEFINE t == Effect(RotateTurn(m), response)
  <2>1. /\ RotateTurn(m) \in (-TurnSpeed) .. TurnSpeed /\ t \in Int
        /\ RotationLeads(m, (at.heading + t) % Full, left - t)
        /\ Magnitude(left - t) <= Magnitude(left)
        /\ Sign(left - t) = Sign(left) \/ Magnitude(left - t) <= 1
    BY <1>2, <1>4, <1>5, <1>9, RotateGoesOn
  <2>2. /\ rotation' = m /\ drive_phase' = "to_position" /\ translation' = translation
        /\ driveCmd' = [move |-> 0, turn |-> RotateTurn(m)]
    BY <1>6, <1>9
  <2> HIDE DEF m
  <2>3. driveCmd' \in CommandType
    BY <2>1, <2>2, DriveConstants DEF CommandType
  <2>4. DriveMotionTypeOK'
    BY <1>2, <1>7, <2>2, <2>3, StepTypes DEF Phases
  <2>5. at'.heading = (at.heading + t) % Full /\ at'.x = at.x
    BY <1>2, <2>2, <2>3, Moved
  <2> HIDE DEF t, aim
  <2>6. Shortest((at.heading + t) % Full, aim) = left - t
    BY <1>2, <1>3, <2>1, TurnedNearer
  <2>7. AngleTo(drive_goal.x)' = Shortest(at'.heading, aim)
    BY <2>5 DEF AngleTo, Shortest, aim
  <2>8. FacesThePosition'
    BY <2>1, <2>2, <2>5, <2>6, <2>7 DEF FacesThePosition
  <2>9. PhaseOfKind'
    BY <1>1, <2>2 DEF DriveInv, PhaseOfKind
  <2> QED
    BY <2>2, <2>4, <2>8, <2>9
       DEF DriveInv, AngleGoalLeads, DistanceGoalLeads, DrivesToThePosition, FacesTheHeading
<1> QED
  BY <1>8, <1>9

\* The drive and the last rotation
LEMMA OnwardSteps ==
  ASSUME DriveInv, NavigateDrive \/ NavigateFace,
         NEW response \in Response, RobotMoves(response), UNCHANGED <<drive_goal, began>>
  PROVE  DriveInv' /\ (drive_phase' = "idle" => Arrived)
<1>1. drive_goal.kind = "navigate"
  BY DEF NavigateDrive, NavigateFace, DriveInv, PhaseOfKind
<1>2. /\ translation \in TranslationType /\ rotation \in RotationType
      /\ translation.start \in Int
  BY <1>1, NavigateTypes DEF TranslationType
<1>3. CASE NavigateDrive
  <2>1. drive_phase = "driving" /\ DriveOn(translation, rotation)
    BY <1>3 DEF NavigateDrive
  <2>2. ~translation.first /\ translation.goal > 0
    BY <2>1 DEF DriveInv, DrivesToThePosition
  <2>3. PICK dir \in {-1, 1} : OnItsWay(dir)
    BY <2>1 DEF DriveInv, DrivesToThePosition
  <2>4. /\ drive_goal.x = translation.start + dir * translation.goal
        /\ dir * (at.x - translation.start) \in 0 .. translation.goal + 1
        /\ Magnitude(Shortest(at.heading, IF dir < 0 THEN Full \div 2 ELSE 0)) <= Astray
    BY <2>3 DEF OnItsWay
  <2>5. translation.goal >= 0
    BY <1>2, <2>2 DEF TranslationType
  <2> QED
    BY <1>1, <1>2, <2>1, <2>2, <2>4, <2>5, DriveSteps
<1>4. CASE NavigateFace
  <2>1. drive_phase = "to_heading"
    BY <1>4 DEF NavigateFace
  <2>2. /\ drive_goal.achieve /\ Magnitude(drive_goal.x - at.x) <= Converged
        /\ RotationLeads(rotation, at.heading, Shortest(at.heading, drive_goal.heading))
    BY <2>1 DEF DriveInv, FacesTheHeading
  <2> QED
    BY <1>1, <1>2, <1>4, <2>2, FaceSteps DEF NavigateFace
<1> QED
  BY <1>3, <1>4

-----------------------------------------------------------------------------
\* The invariant: it holds at first,
LEMMA DriveInitially == DriveMotionInit => DriveInv
<1> SUFFICES ASSUME DriveMotionInit PROVE DriveInv
  OBVIOUS
<1>1. /\ drive_goal = [kind |-> "distance", distance |-> 0] /\ drive_phase = "idle"
      /\ at = [x |-> 0, heading |-> 0] /\ rotation = NewRotation(0)
      /\ translation = NewTranslation(0) /\ turned = 0 /\ began = 0 /\ driveCmd = Still
  BY DEF DriveMotionInit
<1>2. 0 \in 0 .. Full - 1
  BY DriveConstants
<1>3. rotation \in RotationType /\ translation \in TranslationType /\ driveCmd \in CommandType
  BY <1>1, <1>2, StillIs
     DEF NewRotation, NewTranslation, RotationType, TranslationType, CommandType, Sign
<1>4. DriveMotionTypeOK
  BY <1>1, <1>2, <1>3 DEF DriveMotionTypeOK, RotationType, TranslationType, CommandType, Phases
<1>5. drive_goal \in DriveRequest
  BY <1>1 DEF DriveRequest
<1> QED
  BY <1>1, <1>4, <1>5 DEF DriveInv, PhaseOfKind, AngleGoalLeads, DistanceGoalLeads,
       FacesThePosition, DrivesToThePosition, FacesTheHeading

\* when a goal is accepted,
LEMMA DriveAccepts ==
  ASSUME DriveInv, NEW g \in DriveRequests, AcceptDriveGoal(g)
  PROVE  DriveInv'
<1>1. g \in DriveRequest
  BY DriveAssumption
<1>2. /\ DriveMotionTypeOK /\ rotation \in RotationType /\ translation \in TranslationType
      /\ at.x \in Int /\ Full \in Nat \ {0} /\ 0 \in 0 .. Full - 1
  BY DriveConstants DEF DriveInv, DriveMotionTypeOK, RotationType, TranslationType
<1>3. /\ drive_goal' = g /\ at' = at
      /\ drive_phase' = IF g.kind = "navigate" THEN "first" ELSE g.kind
      /\ rotation' = IF g.kind \in {"arc", "rotate"} THEN NewRotation(g.angle) ELSE rotation
      /\ translation' = IF g.kind = "distance" THEN NewTranslation(g.distance) ELSE translation
      /\ turned' = 0 /\ began' = at.x /\ driveCmd' = Still
  BY DEF AcceptDriveGoal
<1>4. /\ g.kind \in {"arc", "rotate", "distance", "navigate"}
      /\ g.kind \in {"arc", "rotate"} => g.angle \in Int
      /\ g.kind = "distance" => g.distance \in Int
  <2>1. CASE g \in [kind : {"arc", "rotate"}, angle : Int]
    BY <2>1
  <2>2. CASE g \in [kind : {"distance"}, distance : Int]
    BY <2>2
  <2>3. CASE g \in [kind : {"navigate"}, x : Int, heading : 0..(Full - 1), achieve : BOOLEAN]
    BY <2>3
  <2> QED
    BY <1>1, <2>1, <2>2, <2>3 DEF DriveRequest
<1>5. rotation' \in RotationType
  BY <1>2, <1>3, <1>4 DEF NewRotation, RotationType, Sign
<1>6. translation' \in TranslationType
  BY <1>2, <1>3, <1>4 DEF NewTranslation, TranslationType
<1>7. DriveMotionTypeOK'
  BY <1>2, <1>3, <1>4, <1>5, <1>6, StillIs
     DEF DriveMotionTypeOK, RotationType, TranslationType, CommandType, Phases
<1>8. PhaseOfKind'
  BY <1>1, <1>3, <1>4 DEF PhaseOfKind
<1>9. AngleGoalLeads'
  BY <1>3, <1>4 DEF AngleGoalLeads, RotationLeads, NewRotation
<1>10. DistanceGoalLeads'
  <2> SUFFICES ASSUME drive_phase' = "distance"
               PROVE  /\ translation'.goal = g.distance /\ translation'.first
                      /\ Magnitude(at.x - at.x) <= Magnitude(g.distance) + DriveSpeed
    BY <1>3 DEF DistanceGoalLeads
  <2>1. g.kind = "distance" /\ translation' = NewTranslation(g.distance)
    BY <1>3, <1>4
  <2> QED
    BY <1>2, <1>4, <2>1, DriveConstants DEF NewTranslation, Magnitude
<1> QED
  BY <1>3, <1>4, <1>7, <1>8, <1>9, <1>10
     DEF DriveInv, FacesThePosition, DrivesToThePosition, FacesTheHeading

\* One execution keeps the invariant, and ends a goal only where it was asked to end.
LEMMA DriveTicks ==
  ASSUME DriveInv, NEW response \in Response, DriveTick(response)
  PROVE  /\ DriveInv'
         /\ drive_phase' = "idle" =>
              /\ drive_phase \in {"arc", "rotate"} =>
                   Magnitude(drive_goal.angle - turned) <= Converged
              /\ drive_phase = "distance" => CoversItsDistance
              /\ drive_goal.kind = "navigate" => Arrived
<1>1. RobotMoves(response) /\ UNCHANGED <<drive_goal, began>> /\ PhaseOfKind
  BY DEF DriveTick, DriveInv
<1>2. CASE IterateArc \/ IterateRotate
  <2>1. drive_phase \in {"arc", "rotate"}
    BY <1>2 DEF IterateArc, IterateRotate
  <2> QED
    BY <1>1, <1>2, <2>1, AngleSteps DEF PhaseOfKind
<1>3. CASE IterateDistance
  <2>1. drive_phase = "distance"
    BY <1>3 DEF IterateDistance
  <2> QED
    BY <1>1, <1>3, <2>1, DistanceSteps DEF PhaseOfKind
<1>4. CASE NavigateRotate
  <2>1. drive_phase \in {"first", "to_position"}
    BY <1>4 DEF NavigateRotate
  <2> QED
    BY <1>1, <1>4, <2>1, PositionSteps
<1>5. CASE NavigateDrive \/ NavigateFace
  <2>1. drive_phase \in {"driving", "to_heading"}
    BY <1>5 DEF NavigateDrive, NavigateFace
  <2> QED
    BY <1>1, <1>5, <2>1, OnwardSteps
<1> QED
  BY <1>2, <1>3, <1>4, <1>5 DEF DriveTick

DriveEnds ==
  /\ drive_goal.kind \in {"arc", "rotate"} /\ drive_phase # "idle" /\ drive_phase' = "idle" =>
       Magnitude(drive_goal.angle - turned) <= Converged
  /\ drive_phase = "distance" /\ drive_phase' = "idle" => CoversItsDistance
  /\ drive_goal.kind = "navigate" /\ drive_phase # "idle" /\ drive_phase' = "idle" => Arrived

\* and after every step.
LEMMA DriveKeeps == DriveInv /\ [DriveMotionNext]_driveMotionVars => DriveInv'
<1> SUFFICES ASSUME DriveInv, [DriveMotionNext]_driveMotionVars PROVE DriveInv'
  OBVIOUS
<1>1. CASE UNCHANGED driveMotionVars
  BY <1>1 DEF driveMotionVars, DriveInv, DriveMotionTypeOK, PhaseOfKind, AngleGoalLeads,
       DistanceGoalLeads, FacesThePosition, AngleTo, DrivesToThePosition, OnItsWay,
       FacesTheHeading, RotationLeads, Shortest
<1>2. ASSUME NEW g \in DriveRequests, AcceptDriveGoal(g) PROVE DriveInv'
  BY <1>2, DriveAccepts
<1>3. ASSUME NEW response \in Response, DriveTick(response) PROVE DriveInv'
  BY <1>3, DriveTicks
<1> QED
  BY <1>1, <1>2, <1>3 DEF DriveMotionNext

LEMMA DriveInvariance == DriveMotionSpec => []DriveInv
<1> QED
  BY DriveInitially, DriveKeeps, PTL DEF DriveMotionSpec

LEMMA DriveEndsAsAsked == DriveInv /\ [DriveMotionNext]_driveMotionVars => [DriveEnds]_driveMotionVars
<1> SUFFICES ASSUME DriveInv, [DriveMotionNext]_driveMotionVars PROVE [DriveEnds]_driveMotionVars
  OBVIOUS
<1>1. ASSUME NEW g \in DriveRequests, AcceptDriveGoal(g) PROVE DriveEnds
  BY <1>1 DEF AcceptDriveGoal, DriveEnds
<1>2. ASSUME NEW response \in Response, DriveTick(response) PROVE DriveEnds
  <2>1. drive_goal.kind \in {"arc", "rotate"} /\ drive_phase # "idle" =>
          drive_phase \in {"arc", "rotate"}
    BY DEF DriveInv, PhaseOfKind, DriveMotionTypeOK, Phases
  <2> QED
    BY <1>2, <2>1, DriveTicks DEF DriveEnds
<1> QED
  BY <1>1, <1>2 DEF DriveMotionNext

\* The angle left counts the turns of the robot.
LEMMA DriveCounts == DriveInv => CountsWholeTurns
BY DEF DriveInv, AngleGoalLeads, RotationLeads, CountsWholeTurns

\* Every variable of a drive goal keeps its type.
THEOREM DriveTypes == DriveMotionSpec => []DriveMotionTypeOK
<1>1. DriveInv => DriveMotionTypeOK
  BY DEF DriveInv
<1> QED
  BY <1>1, DriveInvariance, PTL

\* A drive goal ends where it was asked to, up to the angle or the distance at which it counts
\* as converged: an angle goal at its angle, whole turns counted; a distance goal neither short
\* nor further than one execution takes it; navigate at its position and in its heading. For any number
\* of headings, any speeds and goals, and whatever motion the robot makes of the commands.
THEOREM DriveGoalsEndWhereAsked == DriveMotionSpec => EndsWhereAsked
<1>1. [DriveEnds]_driveMotionVars =>
        [drive_goal.kind \in {"arc", "rotate"} /\ drive_phase # "idle" /\ drive_phase' = "idle" =>
           Magnitude(drive_goal.angle - turned) <= Converged]_driveMotionVars
  BY DEF DriveEnds
<1>2. [DriveEnds]_driveMotionVars =>
        [drive_phase = "distance" /\ drive_phase' = "idle" =>
           LET covered == Magnitude(at.x - began)
           IN  /\ Magnitude(drive_goal.distance) - Converged <= covered
               /\ covered <= Magnitude(drive_goal.distance) + DriveSpeed]_driveMotionVars
  BY DEF DriveEnds, CoversItsDistance
<1>3. [DriveEnds]_driveMotionVars =>
        [drive_goal.kind = "navigate" /\ drive_phase # "idle" /\ drive_phase' = "idle" =>
           /\ Magnitude(drive_goal.x - at.x) <= Converged
           /\ drive_goal.achieve =>
                Magnitude(Shortest(at.heading, drive_goal.heading)) <= Astray]_driveMotionVars
  BY DEF DriveEnds, Arrived
<1>4. DriveMotionSpec => EndsAtAngle
  BY <1>1, DriveInvariance, DriveEndsAsAsked, PTL DEF EndsAtAngle, DriveMotionSpec
<1>5. DriveMotionSpec => EndsAtDistance
  BY <1>2, DriveInvariance, DriveEndsAsAsked, PTL DEF EndsAtDistance, DriveMotionSpec
<1>6. DriveMotionSpec => NavigateArrives
  BY <1>3, DriveInvariance, DriveEndsAsAsked, PTL DEF NavigateArrives, DriveMotionSpec, Astray
<1> QED
  BY <1>4, <1>5, <1>6, DriveInvariance, DriveCounts, PTL DEF EndsWhereAsked

(***************************************************************************)
(* The wall follow states: their headings                                  *)
(***************************************************************************)

Headings == 0 .. (WfFull - 1)

LEMMA WfConstants == WfFull \in Nat /\ WfFull > 0 /\ LostTime \in Nat \ {0}
                    /\ WidestSpiral \in Nat \ {0} /\ TurnsEnd \in Nat \ {0}
BY WallFollowStatesAssumption

\* How far heading b lies to the left of heading a.
ToTheLeft(a, b) == IF b >= a THEN b - a ELSE b - a + WfFull

LEMMA DistanceIs ==
  ASSUME NEW a \in Headings, NEW b \in Headings
  PROVE  /\ ToTheLeft(a, b) \in Headings
         /\ WfDistance(a, b) = IF 2 * ToTheLeft(a, b) > WfFull THEN WfFull - ToTheLeft(a, b)
                                                               ELSE ToTheLeft(a, b)
<1>1. (b - a) % WfFull = ToTheLeft(a, b)
  <2>1. CASE b >= a
    BY <2>1, WfConstants DEF Headings, ToTheLeft
  <2>2. CASE b < a
    BY <2>2, WfConstants DEF Headings, ToTheLeft
  <2> QED
    BY <2>1, <2>2 DEF Headings
<1>2. ToTheLeft(a, b) \in Headings
  BY WfConstants DEF Headings, ToTheLeft
<1> QED
  BY <1>1, <1>2, WfConstants DEF WfDistance, ShortestTurn, Magnitude, Headings

\* A turn by a heading moves the robot at most a heading away from any other.
LEMMA TurnMovesByOne ==
  ASSUME NEW a \in Headings, NEW b \in Headings, NEW turn \in {-1, 0, 1}
  PROVE  /\ (a + turn) % WfFull \in Headings
         /\ WfDistance(a, b) \in Nat
         /\ WfDistance((a + turn) % WfFull, b) \in Nat
         /\ WfDistance((a + turn) % WfFull, b) - WfDistance(a, b) <= turn * turn
         /\ WfDistance(a, b) - WfDistance((a + turn) % WfFull, b) <= turn * turn
<1> DEFINE c == (a + turn) % WfFull
<1>1. c = IF a + turn = WfFull THEN 0 ELSE IF a + turn = -1 THEN WfFull - 1 ELSE a + turn
  <2>1. CASE a + turn = WfFull
    <3>1. (WfFull % WfFull) = 0
      BY WfConstants
    <3> QED
      BY <2>1, <3>1, WfConstants
  <2>2. CASE a + turn = -1
    <3>1. (-1) % WfFull = WfFull - 1
      BY WfConstants
    <3> QED
      BY <2>2, <3>1, WfConstants
  <2>3. CASE a + turn \in Headings
    BY <2>3, WfConstants DEF Headings
  <2> QED
    BY <2>1, <2>2, <2>3, WfConstants DEF Headings
<1>2. c \in Headings
  BY <1>1, WfConstants DEF Headings
<1>3. turn * turn = IF turn = 0 THEN 0 ELSE 1
  OBVIOUS
<1> HIDE DEF c
<1>4. /\ WfDistance(a, b) \in Nat /\ WfDistance(c, b) \in Nat
      /\ WfDistance(c, b) - WfDistance(a, b) <= turn * turn
      /\ WfDistance(a, b) - WfDistance(c, b) <= turn * turn
  <2> DEFINE left == ToTheLeft(a, b)
  <2> DEFINE now == ToTheLeft(c, b)
  <2> HIDE DEF c
  <2>1. /\ left \in Headings
        /\ WfDistance(a, b) = IF 2 * left > WfFull THEN WfFull - left ELSE left
    BY DistanceIs
  <2>2. /\ now \in Headings
        /\ WfDistance(c, b) = IF 2 * now > WfFull THEN WfFull - now ELSE now
    BY <1>2, DistanceIs
  <2>3. now = IF left - turn = WfFull THEN 0
              ELSE IF left - turn = -1 THEN WfFull - 1 ELSE left - turn
    <3>1. CASE turn = 0
      BY <1>1, <1>2, <3>1, WfConstants DEF ToTheLeft, Headings
    <3>2. CASE turn = 1
      BY <1>1, <1>2, <3>2, WfConstants DEF ToTheLeft, Headings
    <3>3. CASE turn = -1
      BY <1>1, <1>2, <3>3, WfConstants DEF ToTheLeft, Headings
    <3> QED
      BY <3>1, <3>2, <3>3
  <2> HIDE DEF left, now
  <2>4. left \in Int /\ now \in Int /\ 0 <= left /\ left < WfFull /\ 0 <= now /\ now < WfFull
    BY <2>1, <2>2, WfConstants DEF Headings
  <2>5. CASE turn = 0
    BY <1>3, <2>1, <2>2, <2>3, <2>4, <2>5, WfConstants
  <2>6. CASE turn = 1
    BY <1>3, <2>1, <2>2, <2>3, <2>4, <2>6, WfConstants
  <2>7. CASE turn = -1
    BY <1>3, <2>1, <2>2, <2>3, <2>4, <2>7, WfConstants
  <2> QED
    BY <2>5, <2>6, <2>7
<1> QED
  BY <1>2, <1>4 DEF c

LEMMA NoDistance == \A a \in Headings : WfDistance(a, a) = 0
<1> TAKE a \in Headings
<1>1. ToTheLeft(a, a) = 0
  BY WfConstants DEF ToTheLeft, Headings
<1>2. WfDistance(a, a) = IF 2 * ToTheLeft(a, a) > WfFull THEN WfFull - ToTheLeft(a, a)
                                                         ELSE ToTheLeft(a, a)
  BY DistanceIs
<1> QED
  BY <1>1, <1>2, WfConstants

(***************************************************************************)
(* The invariant                                                           *)
(***************************************************************************)

\* How much the robot must have turned in the spiral `s' to be `away' from the heading it
\* began with: half a turn for each time the spiral has widened, and after more than a
\* quarter turn away it has come back to `away' over the rest of a half turn at least.
TurnsFor(s, away) ==
  WfFull * (s.divisor - 1) + IF s.check THEN WfFull - 2 * away ELSE 2 * away

SpiralIsMeasured ==
  wf_state.id = "spiral" => 2 * wf_travelled >= TurnsFor(wf_state, WfDistance(wf_heading, wf_state.start))

WfInv == WfStatesTypeOK /\ EngagedWithState /\ StateOfThisSide /\ SpiralIsMeasured

LEMMA WfInitial == WfStatesInit => WfInv
<1> SUFFICES ASSUME WfStatesInit PROVE WfInv
  OBVIOUS
<1>1. wf_state = [id |-> "none", side |-> "left", start |-> 0, divisor |-> 1, check |-> FALSE,
                  lost |-> 0, far |-> FALSE]
  BY DEF WfStatesInit, StateOf
<1>2. wf_state.id = "none"
  BY <1>1
<1>3. wf_engaged = FALSE
  BY DEF WfStatesInit
<1>4. /\ 0 \in 0..(WfFull - 1) /\ 1 \in 1..WidestSpiral /\ 0 \in 0..LostTime
      /\ 0 \in 0..TurnsEnd
  BY WfConstants
<1>5. wf_state \in [id : {"none", "spiral", "servo", "obstacle"}, side : WfSides,
                    start : 0..(WfFull - 1), divisor : 1..WidestSpiral, check : BOOLEAN,
                    lost : 0..LostTime, far : BOOLEAN]
  BY <1>1, <1>4 DEF WfSides
<1>6. wf_cmd \in [translate : {-1, 0, 1}, rotate : {-1, 0, 1}]
  BY DEF WfStatesInit
<1>7. WfStatesTypeOK
  BY <1>4, <1>5, <1>6 DEF WfStatesInit, WfStatesTypeOK, WfSides
<1> QED
  BY <1>2, <1>3, <1>7 DEF WfInv, EngagedWithState, StateOfThisSide, SpiralIsMeasured

LEMMA WfMessageSteps ==
  ASSUME WfInv, \/ \E side \in WfSides : WfInitialize(side)
                \/ \E vector \in IrVectors : WfIrIntensity(vector)
                \/ WfHazards
  PROVE  WfInv'
<1>1. CASE \E side \in WfSides : WfInitialize(side)
  <2>1. StateOf("none") \in [id : {"none", "spiral", "servo", "obstacle"}, side : WfSides,
                             start : Headings, divisor : 1..WidestSpiral, check : BOOLEAN,
                             lost : 0..LostTime, far : BOOLEAN]
    BY WfConstants DEF StateOf, WfInv, WfStatesTypeOK, Headings
  <2> QED
    BY <1>1, <2>1 DEF WfInitialize, WfInv, WfStatesTypeOK, Headings, StateOf, EngagedWithState,
       StateOfThisSide, SpiralIsMeasured
<1>2. CASE \E vector \in IrVectors : WfIrIntensity(vector)
  <2>1. /\ wf_state'.id = wf_state.id /\ wf_state'.side = wf_state.side
        /\ wf_state'.start = wf_state.start /\ wf_state'.divisor = wf_state.divisor
        /\ wf_state'.check = wf_state.check
    BY <1>2 DEF WfIrIntensity, WfInv, WfStatesTypeOK
  <2>2. WfStatesTypeOK'
    BY <1>2, WfConstants DEF WfIrIntensity, WfInv, WfStatesTypeOK
  <2>3. UNCHANGED <<wf_side, wf_engaged, wf_heading, wf_travelled>>
    BY <1>2 DEF WfIrIntensity
  <2> QED
    BY <2>1, <2>2, <2>3 DEF WfInv, EngagedWithState, StateOfThisSide, SpiralIsMeasured, TurnsFor
<1>3. CASE WfHazards
  <2>1. wf_hazard' \in BOOLEAN /\ UNCHANGED <<wf_side, wf_engaged, wf_state, wf_heading, wf_travelled, wf_cmd>>
    BY <1>3 DEF WfHazards, WfInv, WfStatesTypeOK
  <2> QED
    BY <2>1 DEF WfInv, WfStatesTypeOK, EngagedWithState, StateOfThisSide, SpiralIsMeasured, TurnsFor
<1> QED
  BY <1>1, <1>2, <1>3

States == [id : {"none", "spiral", "servo", "obstacle"}, side : WfSides, start : Headings,
           divisor : 1..WidestSpiral, check : BOOLEAN, lost : 0..LostTime, far : BOOLEAN]

\* A spiral that goes on does not widen ahead of the robot's turns.
LEMMA WidenedIsMeasured ==
  ASSUME NEW s \in States, NEW away \in Nat, away = WfDistance(wf_heading, s.start),
         NEW travelled \in Int, travelled >= TurnsFor(s, away)
  PROVE  /\ Widened(s) \in States /\ Widened(s).id = s.id /\ Widened(s).side = s.side
         /\ Widened(s).start = s.start
         /\ travelled >= TurnsFor(Widened(s), away)
<1>1. /\ s.divisor \in 1..WidestSpiral /\ s.check \in BOOLEAN
      /\ WfFull \in Nat /\ WidestSpiral \in Nat
  BY WfConstants DEF States
<1>2. CASE away = 0 /\ s.check /\ s.divisor < WidestSpiral
  <2>1. Widened(s) = [s EXCEPT !.divisor = s.divisor + 1, !.check = FALSE]
    BY <1>2 DEF Widened
  <2>2. /\ Widened(s) \in States /\ Widened(s).id = s.id /\ Widened(s).side = s.side
        /\ Widened(s).start = s.start /\ Widened(s).divisor = s.divisor + 1
        /\ Widened(s).check = FALSE
    <3> DEFINE d == s.divisor + 1
    <3>1. d \in 1..WidestSpiral
      BY <1>1, <1>2
    <3> HIDE DEF d
    <3>2. Widened(s) \in States
      BY <2>1, <3>1 DEF States, d
    <3>3. /\ Widened(s).id = s.id /\ Widened(s).side = s.side /\ Widened(s).start = s.start
          /\ Widened(s).divisor = d /\ Widened(s).check = FALSE
      BY <2>1 DEF States, d
    <3> QED
      BY <3>2, <3>3 DEF d
  <2>3. WfFull * s.divisor = WfFull * (s.divisor - 1) + WfFull
    BY <1>1
  <2>4. travelled >= WfFull * (s.divisor - 1) + WfFull
    BY <1>1, <1>2 DEF TurnsFor
  <2>5. TurnsFor(Widened(s), away) = WfFull * s.divisor
    BY <1>1, <1>2, <2>2 DEF TurnsFor
  <2> QED
    BY <1>1, <2>2, <2>3, <2>4, <2>5
<1>3. CASE ~(away = 0 /\ s.check /\ s.divisor < WidestSpiral)
  <2>1. Widened(s) = [s EXCEPT !.check = s.check \/ 4 * away > WfFull]
    BY <1>3 DEF Widened
  <2>2. /\ Widened(s) \in States /\ Widened(s).id = s.id /\ Widened(s).side = s.side
        /\ Widened(s).start = s.start /\ Widened(s).divisor = s.divisor
        /\ Widened(s).check = (s.check \/ 4 * away > WfFull)
    BY <2>1 DEF States
  <2>3. WfFull * (s.divisor - 1) \in Int
    BY <1>1
  <2>4. travelled >= TurnsFor(Widened(s), away)
    BY <1>1, <2>2, <2>3 DEF TurnsFor
  <2> QED
    BY <2>2, <2>4
<1> QED
  BY <1>2, <1>3

\* An execution.
LEMMA WfExecuteStep == WfInv /\ WfExecute => WfInv'
<1> SUFFICES ASSUME WfInv, WfExecute PROVE WfInv'
  OBVIOUS
<1> DEFINE s == IF wf_state.id = "none" THEN StateOf("spiral") ELSE wf_state
<1> DEFINE before == IF wf_state.id = "spiral" THEN wf_travelled ELSE 0
<1>1. PICK turn \in {-1, 0, 1}, far \in BOOLEAN :
        /\ \/ /\ GoesOn(s)
              /\ wf_state' = [Kept(s) EXCEPT !.far = far]
              /\ wf_cmd' \in Commands(s)
              /\ UNCHANGED wf_engaged
           \/ /\ ~GoesOn(s)
              /\ wf_state' = [StateOf(After(s)) EXCEPT !.far = far]
              /\ wf_cmd' \in CommandsAtEnd(s)
              /\ wf_engaged' = EngagedAfter(s)
        /\ wf_heading' = (wf_heading + turn) % WfFull
        /\ wf_travelled' = IF wf_state'.id # "spiral" THEN 0 ELSE before + turn * turn
        /\ wf_travelled' <= TurnsEnd
  BY DEF WfExecute
<1>2. UNCHANGED <<wf_side, wf_ir, wf_hazard>>
  BY DEF WfExecute
<1>3. /\ wf_state \in States /\ wf_heading \in Headings /\ wf_side \in WfSides
      /\ wf_travelled \in Nat /\ wf_engaged \in BOOLEAN /\ wf_hazard \in BOOLEAN
  BY WfConstants DEF WfInv, WfStatesTypeOK, States, Headings
<1>4. \A id \in {"none", "spiral", "servo", "obstacle"} :
        /\ StateOf(id) \in States /\ StateOf(id).id = id /\ StateOf(id).side = wf_side
        /\ StateOf(id).start = wf_heading /\ StateOf(id).divisor = 1
        /\ StateOf(id).check = FALSE
  BY <1>3, WfConstants DEF StateOf, States
<1>5. /\ s \in States /\ s.id \in {"spiral", "servo", "obstacle"} /\ s.side = wf_side
      /\ wf_engaged <=> s.id \in {"servo", "obstacle"}
      /\ before \in Nat
  BY <1>3, <1>4 DEF WfInv, EngagedWithState, StateOfThisSide, States
<1>6. s.id = "spiral" => 2 * before >= TurnsFor(s, WfDistance(wf_heading, s.start))
  <2>1. CASE wf_state.id = "spiral"
    BY <2>1 DEF WfInv, SpiralIsMeasured
  <2>2. CASE wf_state.id = "none"
    <3>1. WfFull * (1 - 1) = 0
      BY WfConstants
    <3> QED
      BY <1>3, <1>4, <2>2, <3>1, NoDistance DEF TurnsFor
  <2> QED
    BY <2>1, <2>2
<1> HIDE DEF s, before
<1>7. /\ wf_heading' \in Headings
      /\ \A b \in Headings : /\ WfDistance(wf_heading, b) \in Nat /\ WfDistance(wf_heading', b) \in Nat
                             /\ WfDistance(wf_heading', b) - WfDistance(wf_heading, b) <= turn * turn
                             /\ WfDistance(wf_heading, b) - WfDistance(wf_heading', b) <= turn * turn
  BY <1>1, <1>3, TurnMovesByOne
<1>8. turn * turn \in {0, 1}
  OBVIOUS
<1>9. wf_travelled' \in 0..TurnsEnd
  BY <1>1, <1>5, <1>8, WfConstants
<1>10. \A k, away, next \in Int :
         next - away <= turn * turn /\ away - next <= turn * turn /\ k >= 2 * away
           => k + 2 * (turn * turn) >= 2 * next
  BY <1>8
<1>11. CASE GoesOn(s)
  <2>1. /\ Kept(s) \in States /\ Kept(s).id = s.id /\ Kept(s).side = s.side
        /\ Kept(s).start = s.start
        /\ s.id = "spiral" => 2 * before >= TurnsFor(Kept(s), WfDistance(wf_heading, s.start))
    <3>1. CASE s.id = "spiral"
      <4>1. Kept(s) = Widened(s)
        BY <3>1 DEF Kept
      <4>2. WfDistance(wf_heading, s.start) \in Nat
        BY <1>5, <1>7 DEF States
      <4> QED
        BY <1>5, <1>6, <3>1, <4>1, <4>2, WidenedIsMeasured
    <3>2. CASE s.id # "spiral"
      BY <1>5, <3>2, WfConstants DEF Kept, States
    <3> QED
      BY <3>1, <3>2
  <2>2. /\ wf_state' \in States /\ wf_state'.id = s.id /\ wf_state'.side = s.side
        /\ wf_state'.start = s.start /\ wf_state'.divisor = Kept(s).divisor
        /\ wf_state'.check = Kept(s).check
    BY <1>1, <1>11, <2>1 DEF States
  <2>3. wf_cmd' \in [translate : {-1, 0, 1}, rotate : {-1, 0, 1}]
    BY <1>1, <1>5, <1>11 DEF Commands, Velocity, Unassigned
  <2>4. wf_state'.id = "spiral" =>
          2 * wf_travelled' >= TurnsFor(wf_state', WfDistance(wf_heading', wf_state'.start))
    <3> SUFFICES ASSUME s.id = "spiral"
                 PROVE  2 * (before + turn * turn)
                          >= TurnsFor(wf_state', WfDistance(wf_heading', s.start))
      BY <1>1, <2>2
    <3> DEFINE half == WfFull * (Kept(s).divisor - 1)
    <3>1. half \in Int /\ WfFull \in Nat /\ Kept(s).check \in BOOLEAN /\ s.start \in Headings
      BY <1>5, <2>1, WfConstants DEF States
    <3>2. TurnsFor(wf_state', WfDistance(wf_heading', s.start)) =
            half + IF Kept(s).check THEN WfFull - 2 * WfDistance(wf_heading', s.start)
                                    ELSE 2 * WfDistance(wf_heading', s.start)
      BY <2>2 DEF TurnsFor
    <3>3. 2 * before >= half + IF Kept(s).check THEN WfFull - 2 * WfDistance(wf_heading, s.start)
                                                ELSE 2 * WfDistance(wf_heading, s.start)
      BY <2>1 DEF TurnsFor
    <3> HIDE DEF half
    <3> QED
      BY <1>5, <1>7, <1>8, <3>1, <3>2, <3>3
  <2> QED
    BY <1>1, <1>2, <1>3, <1>5, <1>7, <1>9, <1>11, <2>2, <2>3, <2>4
       DEF WfInv, WfStatesTypeOK, States, Headings, EngagedWithState, StateOfThisSide,
           SpiralIsMeasured
<1>12. CASE ~GoesOn(s)
  <2>1. After(s) \in {"spiral", "servo", "obstacle"}
    BY DEF After
  <2>2. /\ wf_state' \in States /\ wf_state'.id = After(s) /\ wf_state'.side = wf_side
        /\ wf_state'.start = wf_heading /\ wf_state'.divisor = 1 /\ wf_state'.check = FALSE
    BY <1>1, <1>4, <1>12, <2>1 DEF States
  <2>3. wf_cmd' \in [translate : {-1, 0, 1}, rotate : {-1, 0, 1}]
    BY <1>1, <1>12 DEF CommandsAtEnd, Velocity, Unassigned
  <2>4. wf_engaged' \in BOOLEAN /\ (wf_engaged' <=> After(s) \in {"servo", "obstacle"})
    BY <1>1, <1>5, <1>12, <2>1 DEF EngagedAfter
  <2>5. wf_state'.id = "spiral" =>
          2 * wf_travelled' >= TurnsFor(wf_state', WfDistance(wf_heading', wf_state'.start))
    <3>1. TurnsFor(wf_state', WfDistance(wf_heading', wf_heading)) =
            2 * WfDistance(wf_heading', wf_heading)
      <4>1. WfFull * (1 - 1) = 0
        BY WfConstants
      <4> QED
        BY <1>3, <1>7, <2>2, <4>1 DEF TurnsFor
    <3>2. WfDistance(wf_heading', wf_heading) <= turn * turn
      BY <1>3, <1>7, <1>8, NoDistance
    <3> QED
      BY <1>1, <1>3, <1>5, <1>7, <1>8, <2>2, <3>1, <3>2
  <2> QED
    BY <1>2, <1>3, <1>7, <1>9, <2>1, <2>2, <2>3, <2>4, <2>5
       DEF WfInv, WfStatesTypeOK, States, Headings, EngagedWithState, StateOfThisSide,
           SpiralIsMeasured
<1> QED
  BY <1>11, <1>12

LEMMA WfKeeps == WfInv /\ [WfStatesNext]_wfStatesVars => WfInv'
<1>1. WfInv /\ UNCHANGED wfStatesVars => WfInv'
  BY DEF wfStatesVars, WfInv, WfStatesTypeOK, EngagedWithState, StateOfThisSide,
     SpiralIsMeasured, TurnsFor
<1> QED
  BY <1>1, WfMessageSteps, WfExecuteStep DEF WfStatesNext

LEMMA WfInvariance == WfStatesSpec => []WfInv
BY WfInitial, WfKeeps, PTL DEF WfStatesSpec

\* Every variable of the wall follow states keeps its type.
THEOREM WfStatesTypes == WfStatesSpec => []WfStatesTypeOK
BY WfInvariance, PTL DEF WfInv

\* The state that has control belongs to the goal that is executed and to what the flag says,
\* and a spiral has widened at most once for each half turn the robot made in it.
THEOREM StatesFollowThisWall == WfStatesSpec => []FollowsThisWall
<1>1. WfInv => SpiralWidensWithTurns
  <2> SUFFICES ASSUME WfInv, wf_state.id = "spiral"
               PROVE  WfFull * (wf_state.divisor - 1) <= 2 * wf_travelled
    BY DEF SpiralWidensWithTurns
  <2> DEFINE away == WfDistance(wf_heading, wf_state.start)
  <2>1. /\ wf_heading \in Headings /\ wf_state.start \in Headings /\ wf_state.check \in BOOLEAN
        /\ WfFull * (wf_state.divisor - 1) \in Int /\ wf_travelled \in Int
    BY WfConstants DEF WfInv, WfStatesTypeOK, Headings
  <2>2. 0 <= away /\ 2 * away <= WfFull /\ away \in Int
    <3> DEFINE left == ToTheLeft(wf_heading, wf_state.start)
    <3>1. /\ left \in Headings
          /\ away = IF 2 * left > WfFull THEN WfFull - left ELSE left
      BY <2>1, DistanceIs
    <3> HIDE DEF left, away
    <3> QED
      BY <3>1, WfConstants DEF Headings
  <2>3. 2 * wf_travelled >= TurnsFor(wf_state, away)
    BY DEF WfInv, SpiralIsMeasured
  <2> HIDE DEF away
  <2> QED
    BY <2>1, <2>2, <2>3, WfConstants DEF TurnsFor
<1>2. WfInv => FollowsThisWall
  BY <1>1 DEF WfInv, FollowsThisWall
<1> QED
  BY WfInvariance, <1>2, PTL

(***************************************************************************)
(* The path of a dock or undock goal                                       *)
(***************************************************************************)

\* While a goal runs there are points left; the robot stands on the first one while it turns
\* to its angle. No point of a dock goal is driven to backwards, the last one is the docked
\* position, and the first one is not nearer to the dock than that, except where the robot
\* stands already.
PathInv ==
  /\ DockPathTypeOK
  /\ dockGoal # "none" => goalPoints # <<>>
  /\ navigateState = "goal_angle" /\ goalPoints # <<>> => dockPose.x = Head(goalPoints).x
  /\ dockGoal = "dock" =>
       /\ \A i \in 1 .. Len(goalPoints) : ~goalPoints[i].backwards
       /\ goalPoints[Len(goalPoints)].x = dockedDistance.distance
       /\ Head(goalPoints).x >= dockedDistance.distance \/ dockPose.x = Head(goalPoints).x

LEMMA PathConstants ==
  /\ DockFull \in Nat \ {0} /\ Contact \in Nat /\ Observed \in Nat /\ DockApproach \in Nat
  /\ UndockOffset \in Nat /\ Facing \in 0 .. DockFull - 1 /\ 0 \in 0 .. DockFull - 1
  /\ 2 * Facing = DockFull
<1>1. /\ DockFull \in Nat \ {0} /\ Contact \in Nat /\ Observed \in Nat /\ DockApproach \in Nat
      /\ UndockOffset \in Nat /\ DockFull % 2 = 0
  BY DockingPathAssumption
<1>2. DockFull = 2 * (DockFull \div 2) /\ DockFull \div 2 \in Int
  BY <1>1
<1> QED
  BY <1>1, <1>2 DEF Facing

LEMMA PoseIs ==
  ASSUME DockPathTypeOK
  PROVE  /\ dockPose.x \in Places /\ dockPose.x \in Nat
         /\ dockPose.heading \in 0 .. DockFull - 1
         /\ dockPose = [x |-> dockPose.x, heading |-> dockPose.heading]
<1>1. dockPose \in [x : Places, heading : 0 .. (DockFull - 1)]
  BY DEF DockPathTypeOK
<1>2. dockPose.x \in Places /\ dockPose.heading \in 0 .. (DockFull - 1)
  BY <1>1
<1>3. Places \subseteq Nat
  BY DockingPathAssumption
<1> QED
  BY <1>1, <1>2, <1>3

LEMMA FirstPointIs ==
  ASSUME DockPathTypeOK, goalPoints # <<>>
  PROVE  /\ Head(goalPoints) \in PathPoint /\ Head(goalPoints).x \in Int
         /\ Head(goalPoints).theta \in 0 .. DockFull - 1
<1>1. goalPoints \in Seq(PathPoint)
  BY DEF DockPathTypeOK
<1>2. Head(goalPoints) \in PathPoint
  BY <1>1
<1> QED
  BY <1>2 DEF PathPoint

\* Away from the dock along heading 0, towards it along Facing.
DockAlong(heading) ==
  CASE 4 * Magnitude(ShortestTurn(DockFull, 0, heading)) < DockFull -> 1
    [] 4 * Magnitude(ShortestTurn(DockFull, 0, heading)) > DockFull -> -1
    [] OTHER -> 0

LEMMA DockAlongHeadings == DockAlong(0) = 1 /\ DockAlong(Facing) = -1
<1>1. DockFull \in Nat \ {0} /\ Facing \in Int /\ 0 \in Int
  BY PathConstants
<1>2. ShortestTurn(DockFull, 0, 0) = 0
  BY <1>1, PathConstants, NothingToTurn
<1>3. ShortestTurn(DockFull, 0, Facing) = Facing
  <2>1. Facing - 0 = Facing + WholeTurns(DockFull, 0)
    BY <1>1, NoTurns
  <2>2. 2 * Facing <= DockFull /\ -DockFull < 2 * Facing
    BY <1>1, PathConstants
  <2>3. IsShortest(DockFull, 0, Facing, Facing)
    BY <2>1, <2>2 DEF IsShortest
  <2> QED
    BY <1>1, <2>3, ShortestUnique
<1>4. DockAlong(0) = 1
  BY <1>1, <1>2 DEF DockAlong, Magnitude
<1>5. DockAlong(Facing) = -1
  <2>1. Magnitude(Facing) = Facing /\ 4 * Facing > DockFull
    BY <1>1, PathConstants DEF Magnitude
  <2> QED
    BY <1>1, <1>3, <2>1 DEF DockAlong
<1> QED
  BY <1>4, <1>5

LEMMA DockAlongIsDirection == \A heading : DockAlong(heading) \in {-1, 0, 1}
BY DEF DockAlong

\* A command that does not move leaves the robot where it is, and one that moves takes it two
\* places at most.
LEMMA DockMotionIs ==
  ASSUME DockPathTypeOK, NEW cmd \in Commanded, NEW response \in DockResponses
  PROVE  /\ DockMotion(cmd, response).heading \in 0 .. DockFull - 1
         /\ cmd.move = 0 => DockMotion(cmd, response).x = dockPose.x
         /\ cmd.move = 1 =>
              \E n \in {0, 1, 2} :
                DockMotion(cmd, response).x =
                  IF DockAlong(dockPose.heading) = 1 THEN dockPose.x + n
                  ELSE IF DockAlong(dockPose.heading) = -1 THEN dockPose.x - n ELSE dockPose.x
         /\ DOMAIN DockMotion(cmd, response) = {"x", "heading"}
<1> DEFINE turn == IF response = "skids" /\ cmd.move # 0 THEN 1 ELSE cmd.turn
           n == IF response = "slides" THEN 2 ELSE 1
           along == DockAlong(dockPose.heading)
<1>1. /\ dockPose = [x |-> dockPose.x, heading |-> dockPose.heading]
      /\ dockPose.x \in Int /\ dockPose.heading \in 0 .. (DockFull - 1)
  BY PoseIs
<1>2. DockMotion(cmd, response) =
        IF response = "blocked" THEN dockPose
        ELSE [x |-> dockPose.x + along * cmd.move * n,
              heading |-> (dockPose.heading + turn) % DockFull]
  BY DEF DockMotion, DockAlong
<1>3. cmd.move \in {-1, 0, 1} /\ turn \in Int /\ n \in {1, 2} /\ along \in {-1, 0, 1}
  BY DockAlongIsDirection DEF Commanded
<1>4. (dockPose.heading + turn) % DockFull \in 0 .. DockFull - 1
  BY <1>1, <1>3, PathConstants
<1> HIDE DEF turn, n, along
<1>5. cmd.move = 0 => dockPose.x + along * cmd.move * n = dockPose.x
  BY <1>1, <1>3
<1>6. cmd.move = 1 =>
        dockPose.x + along * cmd.move * n =
          IF along = 1 THEN dockPose.x + n ELSE IF along = -1 THEN dockPose.x - n ELSE dockPose.x
  BY <1>1, <1>3
<1>7. CASE response = "blocked"
  <2>1. DockMotion(cmd, response) = dockPose
    BY <1>2, <1>7
  <2>2. dockPose.x + 0 = dockPose.x /\ dockPose.x - 0 = dockPose.x
    BY <1>1
  <2> QED
    BY <1>1, <2>1, <2>2
<1>8. CASE response # "blocked"
  <2>1. DockMotion(cmd, response) = [x |-> dockPose.x + along * cmd.move * n,
                                     heading |-> (dockPose.heading + turn) % DockFull]
    BY <1>2, <1>8
  <2> QED
    BY <1>3, <1>4, <1>5, <1>6, <2>1 DEF along
<1> QED
  BY <1>7, <1>8

\* What one execution of a goal does: the stage, the command and the points left.
Execution(left, cmd) ==
  \/ AngleToGoal(Head(goalPoints), left, cmd)
  \/ GoToGoalPosition(Head(goalPoints), left, cmd)
  \/ GoalAngle(Head(goalPoints), left, cmd)

\* The robot moves only on the way to a point, which it does not stand on, and forwards only
\* where the point is straight ahead.
LEMMA MovesTowardsPoint ==
  ASSUME PathInv, NEW left, NEW cmd \in Commanded, Execution(left, cmd), cmd.move # 0
  PROVE  /\ left = goalPoints /\ navigateState' = "go_to_goal_position"
         /\ dockPose.x # Head(goalPoints).x
         /\ ~Head(goalPoints).backwards =>
              cmd.move = 1 /\ AngleToPoint(Head(goalPoints)) = 0
<1> DEFINE p == Head(goalPoints)
<1>1. GoToGoalPosition(p, left, cmd)
  BY DEF Execution, AngleToGoal, GoalAngle, DockStill
<1> HIDE DEF p
<1>2. ~AtPoint(p) /\ ~TooFar(p) /\ left = goalPoints /\ navigateState' = "go_to_goal_position"
  BY <1>1 DEF GoToGoalPosition, DockStill
<1>3. cmd.move = IF p.backwards THEN -1 ELSE 1
  BY <1>1 DEF GoToGoalPosition, DockStill
<1> QED
  BY <1>2, <1>3 DEF AtPoint, TooFar, p

\* On its way to a point in front of it the robot goes by it by one place at most.
LEMMA PassesByOne ==
  ASSUME PathInv, NEW cmd \in Commanded, NEW response \in DockResponses,
         goalPoints # <<>>, ~Head(goalPoints).backwards, cmd.move = 1,
         dockPose.x # Head(goalPoints).x, AngleToPoint(Head(goalPoints)) = 0,
         NEW bound \in Int, bound <= Head(goalPoints).x, dockPose.x >= bound - 1
  PROVE  DockMotion(cmd, response).x >= bound - 1
<1> DEFINE p == Head(goalPoints)
<1>1. /\ dockPose.x \in Int /\ dockPose.heading \in 0 .. (DockFull - 1)
      /\ p.x \in Int
  BY PoseIs, FirstPointIs DEF PathInv
<1> HIDE DEF p
<1>2. PICK n \in {0, 1, 2} :
        DockMotion(cmd, response).x =
          IF DockAlong(dockPose.heading) = 1 THEN dockPose.x + n
          ELSE IF DockAlong(dockPose.heading) = -1 THEN dockPose.x - n ELSE dockPose.x
  BY DockMotionIs DEF PathInv
<1>3. CASE p.x < dockPose.x
  <2>1. ShortestTurn(DockFull, dockPose.heading, Facing) = 0
    BY <1>3 DEF AngleToPoint, p
  <2>2. dockPose.heading = Facing
    BY <1>1, <2>1, PathConstants, NothingToTurn
  <2>3. DockMotion(cmd, response).x = dockPose.x - n
    BY <1>1, <1>2, <2>2, DockAlongHeadings
  <2> QED
    BY <1>1, <1>3, <2>3 DEF p
<1>4. CASE ~(p.x < dockPose.x)
  <2>1. ShortestTurn(DockFull, dockPose.heading, 0) = 0
    BY <1>4 DEF AngleToPoint, p
  <2>2. dockPose.heading = 0
    BY <1>1, <2>1, PathConstants, NothingToTurn
  <2>3. DockMotion(cmd, response).x = dockPose.x + n
    BY <1>1, <1>2, <2>2, DockAlongHeadings
  <2> QED
    BY <1>1, <2>3
<1> QED
  BY <1>3, <1>4

\* What an execution changes, taken apart.
LEMMA ExecutionIs ==
  ASSUME PathInv, NEW response \in DockResponses, ExecuteDockPath(response)
  PROVE  /\ dockGoal # "none" /\ goalPoints # <<>>
         /\ \E left \in {goalPoints, Tail(goalPoints)}, cmd \in Commanded :
              /\ Execution(left, cmd)
              /\ \/ /\ left = <<>> \/ dockLate
                    /\ goalPoints' = <<>> /\ dockGoal' = "none"
                    /\ dockCmd' \in {cmd, DockStill}
                 \/ /\ left # <<>> /\ ~dockLate
                    /\ goalPoints' = left /\ dockGoal' = dockGoal /\ dockCmd' = cmd
         /\ dockPose' = DockMotion(dockCmd', response) /\ dockPose'.x \in Places
         /\ dockCmd' \in Commanded
         /\ UNCHANGED <<docked, dockLate, dockedDistance>>
<1>1. dockGoal # "none" /\ goalPoints # <<>>
  BY DEF ExecuteDockPath, PathInv
<1>2. PICK left \in {goalPoints, Tail(goalPoints)}, cmd \in Commanded :
        /\ Execution(left, cmd)
        /\ IF left = <<>> \/ dockLate
           THEN /\ goalPoints' = <<>> /\ dockGoal' = "none"
                /\ dockCmd' = IF dockGoal = "dock" /\ left # <<>> THEN cmd ELSE DockStill
           ELSE /\ goalPoints' = left /\ UNCHANGED dockGoal
                /\ dockCmd' = cmd
        /\ dockPose' = DockMotion(dockCmd', response) /\ dockPose'.x \in Places
        /\ UNCHANGED <<docked, dockLate, dockedDistance>>
  BY DEF ExecuteDockPath, Execution
<1>3. DockStill \in Commanded
  BY DEF DockStill, Commanded
<1>4. \/ /\ left = <<>> \/ dockLate
         /\ goalPoints' = <<>> /\ dockGoal' = "none"
         /\ dockCmd' \in {cmd, DockStill}
      \/ /\ left # <<>> /\ ~dockLate
         /\ goalPoints' = left /\ dockGoal' = dockGoal /\ dockCmd' = cmd
  BY <1>2
<1>5. dockCmd' \in Commanded
  BY <1>3, <1>4
<1> QED
  BY <1>1, <1>2, <1>4, <1>5

\* An execution that commands no motion leaves the robot on its place.
LEMMA StandsStill ==
  ASSUME PathInv, NEW response \in DockResponses, ExecuteDockPath(response), dockCmd'.move = 0
  PROVE  dockPose'.x = dockPose.x
BY ExecutionIs, DockMotionIs DEF PathInv

IsPath(points) == points \in Seq(PathPoint) /\ Len(points) <= 2

LEMMA PathsAre ==
  /\ IsPath(<<>>)
  /\ \A first, last \in PathPoint : IsPath(<<first, last>>)
  /\ \A points : IsPath(points) /\ points # <<>> => IsPath(Tail(points))
BY DEF IsPath

LEMMA PathTypesStep == PathInv /\ [DockPathNext]_dockPathVars => DockPathTypeOK'
<1> SUFFICES ASSUME PathInv, [DockPathNext]_dockPathVars PROVE DockPathTypeOK'
  OBVIOUS
<1>0. DockPathTypeOK
  BY DEF PathInv
<1>1. CASE AcceptDock
  <2> DEFINE first == DockPoint(Least(Magnitude(dockPose.x), DockApproach + dockedDistance.distance),
                                Facing, FALSE)
             last == DockPoint(dockedDistance.distance, Facing, FALSE)
  <2>1. dockedDistance.distance \in Nat
    BY <1>0 DEF DockPathTypeOK
  <2>2. first \in PathPoint /\ last \in PathPoint
    BY <1>0, <2>1, PoseIs, PathConstants DEF DockPoint, PathPoint, Least, Magnitude
  <2>3. goalPoints' = <<first, last>>
    BY <1>1 DEF AcceptDock
  <2> HIDE DEF first, last
  <2>4. goalPoints' \in Seq(PathPoint) /\ Len(goalPoints') <= 2
    BY <2>2, <2>3
  <2> QED
    BY <1>0, <1>1, <2>4 DEF AcceptDock, DockPathTypeOK
<1>2. CASE AcceptUndock
  <2>1. goalPoints' \in Seq(PathPoint) /\ Len(goalPoints') <= 2
    <3> DEFINE back == dockPose.x - UndockOffset * (IF dockPose.heading = Facing THEN -1 ELSE 1)
               first == DockPoint(back, dockPose.heading, TRUE)
               last == DockPoint(back, dockPose.heading + Facing, FALSE)
    <3>1. back \in Int
      BY <1>0, PoseIs, PathConstants
    <3>2. dockPose.heading \in Int /\ dockPose.heading + Facing \in Int
      BY <1>0, PoseIs, PathConstants
    <3> HIDE DEF back
    <3>3. first \in PathPoint /\ last \in PathPoint
      BY <3>1, <3>2, PathConstants DEF DockPoint, PathPoint
    <3>4. UndockPath(dockPose) = <<first, last>>
      BY DEF UndockPath, back
    <3> HIDE DEF first, last
    <3>5. IsPath(UndockPath(dockPose))
      BY <3>3, <3>4, PathsAre
    <3>6. goalPoints' = UndockPath(dockPose) \/ goalPoints' = <<>>
      BY <1>2 DEF AcceptUndock
    <3>7. IsPath(goalPoints')
      BY <3>5, <3>6, PathsAre, Zenon
    <3> QED
      BY <3>7 DEF IsPath
  <2>2. dockedDistance' \in [distance : Nat, calibrated : BOOLEAN]
    BY <1>0, <1>2, PoseIs DEF AcceptUndock, DockPathTypeOK, Magnitude
  <2> QED
    BY <1>0, <1>2, <2>1, <2>2 DEF AcceptUndock, DockPathTypeOK
<1>3. CASE CancelDockPath
  BY <1>0, <1>3 DEF CancelDockPath, DockPathTypeOK, DockStill, Commanded
<1>4. ASSUME NEW response \in DockResponses, ExecuteDockPath(response) PROVE DockPathTypeOK'
  <2>1. PICK left \in {goalPoints, Tail(goalPoints)}, cmd \in Commanded :
          /\ Execution(left, cmd)
          /\ goalPoints' \in {left, <<>>} /\ dockGoal' \in {dockGoal, "none"}
    BY <1>4, ExecutionIs
  <2>2. goalPoints' \in Seq(PathPoint) /\ Len(goalPoints') <= 2
    <3>1. IsPath(goalPoints)
      BY <1>0 DEF DockPathTypeOK, IsPath
    <3>2. goalPoints # <<>>
      BY <1>4, ExecutionIs
    <3>3. goalPoints' = goalPoints \/ goalPoints' = Tail(goalPoints) \/ goalPoints' = <<>>
      BY <2>1
    <3>4. IsPath(goalPoints')
      BY <3>1, <3>2, <3>3, PathsAre, Zenon
    <3> QED
      BY <3>4 DEF IsPath
  <2>3. navigateState' \in {"angle_to_goal", "go_to_goal_position", "goal_angle"}
    BY <1>0, <2>1
       DEF Execution, AngleToGoal, GoToGoalPosition, GoalAngle, DockPathTypeOK
  <2>4. dockPose' \in [x : Places, heading : 0 .. (DockFull - 1)]
    <3>1. dockPose' = DockMotion(dockCmd', response) /\ dockPose'.x \in Places
            /\ dockCmd' \in Commanded
      BY <1>4, ExecutionIs
    <3>2. dockPose'.heading \in 0 .. DockFull - 1
      BY <1>0, <3>1, DockMotionIs
    <3>3. dockPose' = [x |-> dockPose'.x, heading |-> dockPose'.heading]
      BY <1>0, <3>1, PoseIs DEF DockMotion
    <3> QED
      BY <3>1, <3>2, <3>3
  <2>5. dockCmd' \in Commanded /\ UNCHANGED <<docked, dockLate, dockedDistance>>
    BY <1>4, ExecutionIs
  <2> QED
    BY <1>0, <2>1, <2>2, <2>3, <2>4, <2>5 DEF DockPathTypeOK
<1>5. CASE DockStatusArrives \/ DockTimePasses
  BY <1>0, <1>5 DEF DockStatusArrives, DockTimePasses, DockPathTypeOK
<1>6. CASE UNCHANGED dockPathVars
  BY <1>0, <1>6 DEF dockPathVars, DockPathTypeOK
<1> QED
  BY <1>1, <1>2, <1>3, <1>4, <1>5, <1>6 DEF DockPathNext

LEMMA NoPoints == \A points \in Seq(PathPoint) : Len(points) = 0 => points = <<>>
OBVIOUS

LEMMA RestOfPath ==
  ASSUME NEW points, IsPath(points), Tail(points) # <<>>, points # <<>>
  PROVE  /\ Len(points) = 2 /\ Len(Tail(points)) = 1
         /\ Head(Tail(points)) = points[2] /\ Tail(points)[1] = points[2]
<1>1. points \in Seq(PathPoint) /\ Len(points) \in Nat /\ Len(points) <= 2
  BY DEF IsPath
<1>2. Len(points) # 0
  BY <1>1, NoPoints
<1>3. Tail(points) \in Seq(PathPoint) /\ Len(Tail(points)) = Len(points) - 1
  BY <1>1
<1>4. Len(Tail(points)) # 0
  BY <1>3, NoPoints
<1>5. Len(points) = 2 /\ Len(Tail(points)) = 1
  BY <1>1, <1>2, <1>3, <1>4
<1>6. Tail(points)[1] = points[2]
  BY <1>1, <1>5
<1>7. Head(Tail(points)) = Tail(points)[1]
  BY <1>3, <1>5
<1> QED
  BY <1>5, <1>6, <1>7

LEMMA GoalInFrontStep ==
  ASSUME PathInv, NEW response \in DockResponses, ExecuteDockPath(response),
         dockGoal' = "dock"
  PROVE  /\ goalPoints' # <<>>
         /\ \A i \in 1 .. Len(goalPoints') : ~goalPoints'[i].backwards
         /\ goalPoints'[Len(goalPoints')].x = dockedDistance'.distance
         /\ \/ Head(goalPoints').x >= dockedDistance'.distance
            \/ dockPose'.x = Head(goalPoints').x
<1>1. PICK left \in {goalPoints, Tail(goalPoints)}, cmd \in Commanded :
        /\ Execution(left, cmd) /\ left # <<>>
        /\ goalPoints' = left /\ dockGoal' = dockGoal /\ dockCmd' = cmd
  BY ExecutionIs
<1>2. goalPoints # <<>> /\ UNCHANGED dockedDistance
  BY ExecutionIs
<1>3. /\ \A i \in 1 .. Len(goalPoints) : ~goalPoints[i].backwards
      /\ goalPoints[Len(goalPoints)].x = dockedDistance.distance
      /\ Head(goalPoints).x >= dockedDistance.distance \/ dockPose.x = Head(goalPoints).x
  BY <1>1 DEF PathInv
<1>4. CASE left = goalPoints
  <2>1. Head(goalPoints).x >= dockedDistance.distance \/ dockPose'.x = Head(goalPoints).x
    <3>1. CASE cmd.move = 0
      BY <1>1, <1>3, <3>1, StandsStill
    <3>2. CASE cmd.move # 0
      BY <1>1, <1>3, <3>2, MovesTowardsPoint
    <3> QED
      BY <3>1, <3>2
  <2> QED
    BY <1>1, <1>2, <1>3, <1>4, <2>1
<1>5. CASE left = Tail(goalPoints)
  <2>1. IsPath(goalPoints)
    BY DEF PathInv, DockPathTypeOK, IsPath
  <2>2. /\ Len(goalPoints) = 2 /\ Len(goalPoints') = 1
        /\ Head(goalPoints') = goalPoints[2] /\ goalPoints'[1] = goalPoints[2]
    BY <1>1, <1>2, <1>5, <2>1, RestOfPath
  <2>3. goalPoints[2].x = dockedDistance.distance /\ ~goalPoints[2].backwards
    BY <1>3, <2>2
  <2>4. dockedDistance.distance \in Nat
    BY DEF PathInv, DockPathTypeOK
  <2> QED
    BY <1>1, <1>2, <2>2, <2>3, <2>4
<1> QED
  BY <1>4, <1>5

\* A stage in which the robot turns to the angle of a point starts on the point.
LEMMA TurnsOnPointStep ==
  ASSUME PathInv, NEW response \in DockResponses, ExecuteDockPath(response),
         navigateState' = "goal_angle", goalPoints' # <<>>
  PROVE  dockPose'.x = Head(goalPoints').x
<1>1. PICK left \in {goalPoints, Tail(goalPoints)}, cmd \in Commanded :
        /\ Execution(left, cmd) /\ left # <<>>
        /\ goalPoints' = left /\ dockCmd' = cmd
  BY ExecutionIs
<1>2. goalPoints # <<>>
  BY ExecutionIs
<1>3. cmd.move = 0
  BY <1>1, MovesTowardsPoint
<1>4. dockPose'.x = dockPose.x
  BY <1>1, <1>3, StandsStill
<1>5. left = goalPoints /\ dockPose.x = Head(goalPoints).x
  <2>1. CASE AngleToGoal(Head(goalPoints), left, cmd)
    BY <2>1 DEF AngleToGoal
  <2>2. CASE GoToGoalPosition(Head(goalPoints), left, cmd)
    BY <2>2 DEF GoToGoalPosition, AtPoint
  <2>3. CASE GoalAngle(Head(goalPoints), left, cmd)
    BY <1>1, <1>2, <2>3 DEF GoalAngle, PathInv
  <2> QED
    BY <1>1, <2>1, <2>2, <2>3 DEF Execution
<1> QED
  BY <1>1, <1>4, <1>5

LEMMA AcceptDockStep ==
  ASSUME PathInv, AcceptDock
  PROVE  PathInv'
<1> DEFINE near == Least(Magnitude(dockPose.x), DockApproach + dockedDistance.distance)
           first == DockPoint(near, Facing, FALSE)
           last == DockPoint(dockedDistance.distance, Facing, FALSE)
<1>1. DockPathTypeOK'
  BY PathTypesStep DEF DockPathNext
<1>2. goalPoints' = <<first, last>> /\ UNCHANGED <<dockPose, dockedDistance>>
        /\ navigateState' = "angle_to_goal"
  BY DEF AcceptDock
<1>3. /\ first.x = near /\ ~first.backwards
      /\ last.x = dockedDistance.distance /\ ~last.backwards
  BY DEF DockPoint
<1>4. near >= dockedDistance.distance \/ near = dockPose.x
  <2>1. dockedDistance.distance \in Nat /\ dockPose.x \in Nat
    BY PoseIs DEF PathInv, DockPathTypeOK
  <2> QED
    BY <2>1, PathConstants DEF Least, Magnitude
<1> HIDE DEF first, last, near
<1>5. /\ goalPoints' # <<>> /\ Len(goalPoints') = 2 /\ Head(goalPoints') = first
      /\ goalPoints'[1] = first /\ goalPoints'[2] = last
  BY <1>2
<1> QED
  BY <1>1, <1>2, <1>3, <1>4, <1>5 DEF PathInv

LEMMA PathInvStep == PathInv /\ [DockPathNext]_dockPathVars => PathInv'
<1> SUFFICES ASSUME PathInv, [DockPathNext]_dockPathVars PROVE PathInv'
  OBVIOUS
<1>0. DockPathTypeOK'
  BY PathTypesStep
<1>1. CASE AcceptDock
  BY <1>1, AcceptDockStep
<1>2. CASE AcceptUndock
  <2>1. dockGoal' # "dock" /\ navigateState' = "angle_to_goal"
    BY <1>2 DEF AcceptUndock
  <2>2. dockGoal' # "none" => goalPoints' # <<>>
    <3>1. UndockPath(dockPose) # <<>>
      BY DEF UndockPath
    <3> QED
      BY <1>2, <3>1 DEF AcceptUndock
  <2> QED
    BY <1>0, <2>1, <2>2 DEF PathInv
<1>3. CASE CancelDockPath
  BY <1>0, <1>3 DEF CancelDockPath, PathInv
<1>4. ASSUME NEW response \in DockResponses, ExecuteDockPath(response) PROVE PathInv'
  <2>1. dockGoal' # "none" => goalPoints' # <<>>
    BY <1>4, ExecutionIs
  <2>2. navigateState' = "goal_angle" /\ goalPoints' # <<>> => dockPose'.x = Head(goalPoints').x
    BY <1>4, TurnsOnPointStep
  <2>3. dockGoal' = "dock" =>
          /\ \A i \in 1 .. Len(goalPoints') : ~goalPoints'[i].backwards
          /\ goalPoints'[Len(goalPoints')].x = dockedDistance'.distance
          /\ \/ Head(goalPoints').x >= dockedDistance'.distance
             \/ dockPose'.x = Head(goalPoints').x
    BY <1>4, GoalInFrontStep
  <2> QED
    BY <1>0, <2>1, <2>2, <2>3 DEF PathInv
<1>5. CASE DockStatusArrives \/ DockTimePasses
  BY <1>0, <1>5 DEF DockStatusArrives, DockTimePasses, PathInv
<1>6. CASE UNCHANGED dockPathVars
  BY <1>0, <1>6 DEF dockPathVars, PathInv
<1> QED
  BY <1>1, <1>2, <1>3, <1>4, <1>5, <1>6 DEF DockPathNext

LEMMA PathInitial == DockPathInit => PathInv
<1> SUFFICES ASSUME DockPathInit PROVE PathInv
  OBVIOUS
<1>1. dockPose \in [x : Places, heading : 0 .. (DockFull - 1)]
  BY PathConstants, DockingPathAssumption DEF DockPathInit
<1>2. goalPoints \in Seq(PathPoint) /\ Len(goalPoints) <= 2
  BY PathsAre DEF DockPathInit, IsPath
<1>3. dockedDistance \in [distance : Nat, calibrated : BOOLEAN] /\ dockCmd \in Commanded
  BY PathConstants DEF DockPathInit, DockStill, Commanded
<1> QED
  BY <1>1, <1>2, <1>3 DEF DockPathInit, PathInv, DockPathTypeOK

LEMMA PathInvariance == DockPathSpec => []PathInv
BY PathInitial, PathInvStep, PTL DEF DockPathSpec

\* A goal with time left leaves a point of its path only where the point is, turned the way
\* it is; and a dock goal stops in front of the dock: for any number of headings, any places
\* in front of the dock and any distances.
THEOREM PathIsFollowed == DockPathSpec => FollowsDockPath
<1>1. PathInv /\ [DockPathNext]_dockPathVars
        => [\A response \in DockResponses :
              ExecuteDockPath(response) /\ ~dockLate /\ goalPoints' # goalPoints =>
                dockPose = [x |-> Head(goalPoints).x, heading |-> Head(goalPoints).theta]
           ]_dockPathVars
  <2> SUFFICES ASSUME PathInv, NEW response \in DockResponses,
                      ExecuteDockPath(response), ~dockLate, goalPoints' # goalPoints
               PROVE  dockPose = [x |-> Head(goalPoints).x, heading |-> Head(goalPoints).theta]
    OBVIOUS
  <2>1. PICK left \in {goalPoints, Tail(goalPoints)}, cmd \in Commanded :
          Execution(left, cmd) /\ (goalPoints' = left \/ left = <<>>)
    BY ExecutionIs
  <2>2. goalPoints # <<>>
    BY ExecutionIs
  <2>3. GoalAngle(Head(goalPoints), left, cmd) /\ left # goalPoints
    BY <2>1, <2>2 DEF Execution, AngleToGoal, GoToGoalPosition
  <2>4. /\ navigateState = "goal_angle"
        /\ ShortestTurn(DockFull, dockPose.heading, Head(goalPoints).theta) = 0
    BY <2>3 DEF GoalAngle
  <2>5. dockPose.x = Head(goalPoints).x
    BY <2>2, <2>4 DEF PathInv
  <2>6. dockPose.heading = Head(goalPoints).theta
    BY <2>2, <2>4, PoseIs, FirstPointIs, PathConstants, NothingToTurn DEF PathInv
  <2> QED
    BY <2>5, <2>6, PoseIs DEF PathInv
<1>2. PathInv /\ [DockPathNext]_dockPathVars
        => [dockGoal = "dock" /\ dockPose.x >= dockedDistance.distance - 1 =>
              dockPose'.x >= dockedDistance.distance - 1]_dockPathVars
  <2> SUFFICES ASSUME PathInv, DockPathNext, dockGoal = "dock",
                      dockPose.x >= dockedDistance.distance - 1
               PROVE  dockPose'.x >= dockedDistance.distance - 1
    OBVIOUS
  <2>1. CASE UNCHANGED dockPose
    BY <2>1
  <2>2. ASSUME NEW response \in DockResponses, ExecuteDockPath(response)
        PROVE  dockPose'.x >= dockedDistance.distance - 1
    <3>1. CASE dockCmd'.move = 0
      BY <2>2, <3>1, StandsStill
    <3>2. CASE dockCmd'.move # 0
      <4>1. PICK left \in {goalPoints, Tail(goalPoints)}, cmd \in Commanded :
              Execution(left, cmd) /\ dockCmd' \in {cmd, DockStill}
        BY <2>2, ExecutionIs
      <4>2. dockCmd' = cmd
        BY <3>2, <4>1 DEF DockStill
      <4>3. goalPoints # <<>> /\ dockPose' = DockMotion(cmd, response)
        BY <2>2, <4>2, ExecutionIs
      <4>4. ~Head(goalPoints).backwards
        <5>1. IsPath(goalPoints) /\ \A i \in 1 .. Len(goalPoints) : ~goalPoints[i].backwards
          BY DEF PathInv, DockPathTypeOK, IsPath
        <5>2. Head(goalPoints) = goalPoints[1] /\ 1 \in 1 .. Len(goalPoints)
          BY <4>3, <5>1 DEF IsPath
        <5> QED
          BY <5>1, <5>2
      <4>5. /\ dockPose.x # Head(goalPoints).x /\ cmd.move = 1
            /\ AngleToPoint(Head(goalPoints)) = 0
        BY <3>2, <4>1, <4>2, <4>4, MovesTowardsPoint
      <4>6. Head(goalPoints).x >= dockedDistance.distance /\ dockedDistance.distance \in Int
        BY <4>5 DEF PathInv, DockPathTypeOK
      <4>7. dockedDistance.distance <= Head(goalPoints).x
        BY <4>3, <4>6, FirstPointIs DEF PathInv
      <4> QED
        BY <4>3, <4>4, <4>5, <4>6, <4>7, PassesByOne
    <3> QED
      BY <3>1, <3>2
  <2> QED
    BY <2>1, <2>2
       DEF DockPathNext, AcceptDock, AcceptUndock, CancelDockPath, DockStatusArrives,
           DockTimePasses
<1> QED
  BY <1>1, <1>2, PathInvariance, PTL
     DEF DockPathSpec, FollowsDockPath, PointsAreReached, StopsAtDock

(***************************************************************************)
(* The charge of the battery                                               *)
(***************************************************************************)

\* Time at a rate drains or charges, more of it more, and in parts as at once.
LEMMA AtRate ==
  ASSUME NEW t \in Nat, NEW u \in Nat, NEW rate \in Nat
  PROVE  /\ t * rate \in Nat
         /\ (t + u) * rate = (t * rate) + (u * rate)
         /\ 0 * rate = 0
         /\ (t + 1) * rate >= t * rate
  OBVIOUS

LEMMA FasterDrainsMore ==
  ASSUME NEW t \in Nat, NEW slow \in Nat, NEW fast \in Nat, slow < fast
  PROVE  t * slow <= t * fast
<1>1. PICK d \in Nat : fast = slow + d
  <2>1. fast - slow \in Nat /\ fast = slow + (fast - slow)
    OBVIOUS
  <2> QED
    BY <2>1
<1>2. t * fast = (t * slow) + (t * d) /\ t * slow \in Nat /\ t * d \in Nat
  BY <1>1
<1> QED
  BY <1>2

\* The times since the last change of the status, while driving or standing still.
LEMMA ElapsedTimes ==
  ASSUME BatteryTypeOK
  PROVE  /\ clock \in Nat
         /\ clock - since.docked \in Nat /\ since.docked \in Nat
         /\ clock - since.stopped \in Nat /\ since.stopped \in Nat
         /\ clock - since.drive \in Nat /\ since.drive \in Nat
         /\ off_dock_time.drive \in Nat /\ off_dock_time.idle \in Nat
<1>1. /\ clock \in Nat /\ since.docked \in Nat /\ since.stopped \in Nat /\ since.drive \in Nat
      /\ off_dock_time.drive \in Nat /\ off_dock_time.idle \in Nat
  BY DEF BatteryTypeOK
<1>2. since.docked <= clock /\ since.stopped <= clock /\ since.drive <= clock
  BY DEF BatteryTypeOK
<1> QED
  BY <1>1, <1>2

LEMMA RatesAre ==
  /\ FullCharge \in Nat /\ EmptyCharge \in Nat /\ Charging \in Nat /\ Driving \in Nat
  /\ Idle \in Nat /\ EmptyCharge < FullCharge /\ Idle < Driving
BY BatteryAssumption

LEMMA MoreDrainedLeavesLess ==
  ASSUME NEW c \in Int, NEW drain \in Nat, NEW more \in Nat, drain <= more, NEW low \in Nat
  PROVE  Most(c - more, low) <= Most(c - drain, low)
BY DEF Most

LEMMA DrainIsNat == ASSUME BatteryTypeOK PROVE Drain \in Nat
<1> DEFINE standing == (clock - since.stopped) * Idle
           driving == (clock - since.drive) * Driving
           driven == off_dock_time.drive * Driving
           idled == off_dock_time.idle * Idle
<1>1. standing \in Nat /\ driving \in Nat /\ driven \in Nat /\ idled \in Nat
  BY ElapsedTimes, RatesAre, AtRate
<1>2. Drain = (IF is_stopped THEN standing ELSE driving) + driven + idled
  BY DEF Drain
<1> HIDE DEF standing, driving, driven, idled
<1> QED
  BY <1>1, <1>2

\* The charge is cut off at both ends of the range, on the dock and off it.
LEMMA ChargesAre ==
  ASSUME BatteryTypeOK
  PROVE  Charge \in EmptyCharge .. FullCharge
<1> DEFINE gained == (clock - since.docked) * Charging
<1>1. gained \in Nat
  BY ElapsedTimes, RatesAre, AtRate
<1>2. DockedCharge = Least(charged + gained, FullCharge)
  BY DEF DockedCharge
<1>3. UndockedCharge = Most(charged - Drain, EmptyCharge)
  BY DEF UndockedCharge
<1>4. charged \in EmptyCharge .. FullCharge
  BY DEF BatteryTypeOK
<1> HIDE DEF gained
<1>5. DockedCharge \in EmptyCharge .. FullCharge
  BY <1>1, <1>2, <1>4, RatesAre DEF Least
<1>6. UndockedCharge \in EmptyCharge .. FullCharge
  BY <1>3, <1>4, DrainIsNat, RatesAre DEF Most
<1> QED
  BY <1>5, <1>6 DEF Charge

LEMMA BatteryTypesStep == BatteryTypeOK /\ [BatteryNext]_batteryVars => BatteryTypeOK'
<1> SUFFICES ASSUME BatteryTypeOK, [BatteryNext]_batteryVars PROVE BatteryTypeOK'
  OBVIOUS
<1>1. ASSUME NEW d \in BOOLEAN, DockCallback(d) PROVE BatteryTypeOK'
  <2>1. charged' \in EmptyCharge .. FullCharge
    BY <1>1, ChargesAre DEF DockCallback, BatteryTypeOK
  <2>2. since' \in [docked : Nat, stopped : Nat, drive : Nat]
    BY <1>1 DEF DockCallback, BatteryTypeOK
  <2>3. \A t \in {since'.docked, since'.stopped, since'.drive} : t <= clock'
    BY <1>1 DEF DockCallback, BatteryTypeOK
  <2> QED
    BY <1>1, <2>1, <2>2, <2>3 DEF DockCallback, BatteryTypeOK
<1>2. ASSUME NEW s \in BOOLEAN, StopCallback(s) PROVE BatteryTypeOK'
  <2>1. clock \in Nat /\ UNCHANGED <<clock, on_dock, charged>> /\ is_stopped' \in BOOLEAN
    BY <1>2 DEF StopCallback, BatteryTypeOK
  <2>2. since' \in [docked : Nat, stopped : Nat, drive : Nat]
    BY <1>2 DEF StopCallback, BatteryTypeOK
  <2>3. \A t \in {since'.docked, since'.stopped, since'.drive} : t <= clock'
    BY <1>2 DEF StopCallback, BatteryTypeOK
  <2>4. off_dock_time' \in [drive : Nat, idle : Nat]
    <3>1. ASSUME NEW t \in Nat PROVE [off_dock_time EXCEPT !.drive = @ + t] \in [drive : Nat, idle : Nat]
      BY DEF BatteryTypeOK
    <3> QED
      BY <1>2, <3>1, ElapsedTimes DEF StopCallback, BatteryTypeOK
  <2> QED
    BY <2>1, <2>2, <2>3, <2>4 DEF BatteryTypeOK
<1>3. CASE ClockAdvances
  BY <1>3 DEF ClockAdvances, BatteryTypeOK
<1>4. CASE UNCHANGED batteryVars
  BY <1>4 DEF batteryVars, BatteryTypeOK
<1> QED
  BY <1>1, <1>2, <1>3, <1>4 DEF BatteryNext

LEMMA BatteryTypesInitially == BatteryInit => BatteryTypeOK
<1> SUFFICES ASSUME BatteryInit PROVE BatteryTypeOK
  OBVIOUS
<1>1. \A t \in {since.docked, since.stopped, since.drive} : t <= clock
  BY DEF BatteryInit
<1>2. charged \in EmptyCharge .. FullCharge
  BY RatesAre DEF BatteryInit
<1>3. /\ since \in [docked : Nat, stopped : Nat, drive : Nat]
      /\ off_dock_time \in [drive : Nat, idle : Nat]
  BY DEF BatteryInit
<1> QED
  BY <1>1, <1>2, <1>3 DEF BatteryInit, BatteryTypeOK

\* Every variable of the battery keeps its type, and the charge at the last change of the
\* dock status is in the range of the battery, for any rates.
THEOREM BatteryTypes == BatterySpec => []BatteryTypeOK
BY BatteryTypesInitially, BatteryTypesStep, PTL DEF BatterySpec

\* Off the dock no step gives back what was drained.
LEMMA DrainRises ==
  ASSUME BatteryTypeOK, BatteryTypeOK', [BatteryNext]_batteryVars, ~on_dock, ~on_dock'
  PROVE  Drain' \in Nat /\ Drain' >= Drain /\ charged' = charged
<1> DEFINE driven == off_dock_time.drive * Driving
           idled == off_dock_time.idle * Idle
<1>0. driven \in Nat /\ idled \in Nat
  BY ElapsedTimes, RatesAre, AtRate
<1>1. ASSUME UNCHANGED <<clock, is_stopped, charged, since, off_dock_time>>
      PROVE  Drain' \in Nat /\ Drain' >= Drain /\ charged' = charged
  <2>1. Drain' = Drain
    BY <1>1 DEF Drain
  <2> QED
    BY <1>1, <2>1, DrainIsNat
<1>2. ASSUME NEW d \in BOOLEAN, DockCallback(d)
      PROVE  Drain' \in Nat /\ Drain' >= Drain /\ charged' = charged
  <2>1. d = FALSE /\ on_dock = FALSE
    BY <1>2 DEF DockCallback, BatteryTypeOK
  <2>2. UNCHANGED <<clock, is_stopped, charged, since, off_dock_time>>
    BY <1>2, <2>1 DEF DockCallback
  <2> QED
    BY <1>1, <2>2
<1>3. ASSUME NEW s \in BOOLEAN, StopCallback(s)
      PROVE  Drain' \in Nat /\ Drain' >= Drain /\ charged' = charged
  <2>1. CASE s = is_stopped
    BY <1>1, <1>3, <2>1 DEF StopCallback, BatteryTypeOK
  <2>2. CASE ~is_stopped /\ s
    <3> DEFINE t == clock - since.drive
               booked == t * Driving
    <3>1. /\ is_stopped' /\ clock' = clock /\ since'.stopped = clock
          /\ off_dock_time'.drive = off_dock_time.drive + t
          /\ off_dock_time'.idle = off_dock_time.idle
      BY <1>3, <2>2 DEF StopCallback, BatteryTypeOK
    <3>2. clock' - since'.stopped = 0
      BY <3>1, ElapsedTimes
    <3>3. (off_dock_time.drive + t) * Driving = driven + booked /\ booked \in Nat
      BY ElapsedTimes, RatesAre, AtRate
    <3>4. Drain = booked + driven + idled
      BY <2>2 DEF Drain
    <3>5. Drain' = (0 * Idle) + (driven + booked) + idled
      BY <3>1, <3>2, <3>3 DEF Drain
    <3>6. 0 * Idle = 0
      BY RatesAre
    <3> HIDE DEF booked, driven, idled
    <3>7. Drain' \in Nat /\ Drain' >= Drain
      BY <1>0, <3>3, <3>4, <3>5, <3>6
    <3> QED
      BY <1>3, <3>7 DEF StopCallback
  <2>3. CASE is_stopped /\ ~s
    <3> DEFINE t == clock - since.stopped
               idle == t * Idle
               booked == t * Driving
    <3>1. /\ ~is_stopped' /\ clock' = clock /\ since'.drive = clock
          /\ off_dock_time'.drive = off_dock_time.drive + t
          /\ off_dock_time'.idle = off_dock_time.idle
      BY <1>3, <2>3 DEF StopCallback, BatteryTypeOK
    <3>2. clock' - since'.drive = 0
      BY <3>1, ElapsedTimes
    <3>3. (off_dock_time.drive + t) * Driving = driven + booked /\ booked \in Nat
      BY ElapsedTimes, RatesAre, AtRate
    <3>4. Drain = idle + driven + idled
      BY <2>3 DEF Drain
    <3>5. Drain' = (0 * Driving) + (driven + booked) + idled
      BY <3>1, <3>2, <3>3 DEF Drain
    <3>6. 0 * Driving = 0
      BY RatesAre
    <3>7. idle <= booked /\ idle \in Nat
      BY ElapsedTimes, RatesAre, AtRate, FasterDrainsMore
    <3> HIDE DEF booked, driven, idled, idle
    <3>8. Drain' \in Nat /\ Drain' >= Drain
      BY <1>0, <3>3, <3>4, <3>5, <3>6, <3>7
    <3> QED
      BY <1>3, <3>8 DEF StopCallback
  <2> QED
    BY <1>3, <2>1, <2>2, <2>3 DEF BatteryTypeOK
<1>4. CASE ClockAdvances
  <2> DEFINE still == clock - since.stopped
             moving == clock - since.drive
  <2>1. /\ clock' - since'.stopped = still + 1 /\ clock' - since'.drive = moving + 1
        /\ UNCHANGED <<is_stopped, charged, off_dock_time>>
    BY <1>4, ElapsedTimes DEF ClockAdvances
  <2>2. Drain = (IF is_stopped THEN still * Idle ELSE moving * Driving) + driven + idled
    BY DEF Drain
  <2>3. Drain' = (IF is_stopped THEN (still + 1) * Idle ELSE (moving + 1) * Driving)
                   + driven + idled
    BY <2>1 DEF Drain
  <2>4. /\ still * Idle \in Nat /\ (still + 1) * Idle \in Nat
        /\ (still + 1) * Idle >= still * Idle
    BY ElapsedTimes, RatesAre, AtRate
  <2>5. /\ moving * Driving \in Nat /\ (moving + 1) * Driving \in Nat
        /\ (moving + 1) * Driving >= moving * Driving
    BY ElapsedTimes, RatesAre, AtRate
  <2> HIDE DEF still, moving, driven, idled
  <2>6. Drain' \in Nat /\ Drain' >= Drain
    BY <1>0, <2>2, <2>3, <2>4, <2>5
  <2> QED
    BY <2>1, <2>6
<1>5. CASE UNCHANGED batteryVars
  BY <1>1, <1>5 DEF batteryVars
<1> QED
  BY <1>2, <1>3, <1>4, <1>5 DEF BatteryNext

\* The published charge stays in the range of the battery; off the dock it never rises, and
\* the robot docks with the charge it was driven with: for any rates of charging, driving
\* and standing still of which driving drains more.
THEOREM BatteryFollowsDock == BatterySpec => ChargeFollowsDock
<1>1. BatteryTypeOK => ChargeInRange
  BY ChargesAre, RatesAre DEF ChargeInRange
<1>2. BatteryTypeOK /\ BatteryTypeOK' /\ [BatteryNext]_batteryVars
        => [~on_dock /\ ~on_dock' => Charge' <= Charge]_batteryVars
  <2> SUFFICES ASSUME BatteryTypeOK, BatteryTypeOK', [BatteryNext]_batteryVars,
                      ~on_dock, ~on_dock'
               PROVE  Charge' <= Charge
    OBVIOUS
  <2>1. Drain' \in Nat /\ Drain' >= Drain /\ charged' = charged
    BY DrainRises
  <2>2. Drain \in Nat
    BY DrainIsNat
  <2>3. /\ Charge = Most(charged - Drain, EmptyCharge)
        /\ Charge' = Most(charged' - Drain', EmptyCharge)
    BY DEF Charge, UndockedCharge
  <2>4. charged \in Int /\ EmptyCharge \in Nat
    BY RatesAre DEF BatteryTypeOK
  <2>5. Most(charged - Drain', EmptyCharge) <= Most(charged - Drain, EmptyCharge)
    BY <2>1, <2>2, <2>4, MoreDrainedLeavesLess
  <2> QED
    BY <2>1, <2>3, <2>5
<1>3. BatteryTypeOK /\ [BatteryNext]_batteryVars
        => [~on_dock /\ on_dock' => Charge' = Charge]_batteryVars
  <2> SUFFICES ASSUME BatteryTypeOK, BatteryNext, ~on_dock, on_dock'
               PROVE  Charge' = Charge
    BY DEF batteryVars
  <2>1. DockCallback(TRUE)
    BY DEF BatteryNext, DockCallback, StopCallback, ClockAdvances
  <2>2. charged' = Charge /\ clock' = clock /\ since'.docked = clock
    BY <2>1 DEF DockCallback, BatteryTypeOK
  <2>3. (clock' - since'.docked) * Charging = 0
    <3>1. clock' - since'.docked = 0
      BY <2>2, ElapsedTimes
    <3> QED
      BY <3>1, RatesAre
  <2>4. Charge' = Least(charged' + (clock' - since'.docked) * Charging, FullCharge)
    BY DEF Charge, DockedCharge
  <2>5. Charge \in Int /\ Charge <= FullCharge
    BY ChargesAre, RatesAre
  <2> QED
    BY <2>2, <2>3, <2>4, <2>5, RatesAre DEF Least
<1> QED
  BY <1>1, <1>2, <1>3, BatteryTypes, PTL
     DEF BatterySpec, ChargeFollowsDock, ChargeFallsOffDock, DockingKeepsCharge

(***************************************************************************)
(* The parts together                                                      *)
(***************************************************************************)

\* Each part has its own invariant, whatever part the behavior is about.
PartsInv == DriveInv /\ WfInv /\ PathInv /\ BatteryTypeOK

LEMMA PartsInitially == MCInit => PartsInv
BY DriveInitially, WfInitial, PathInitial, BatteryTypesInitially DEF MCInit, PartsInv

LEMMA PartsKept == PartsInv /\ [MCNext]_robotVars => PartsInv'
<1> SUFFICES ASSUME PartsInv, [MCNext]_robotVars PROVE PartsInv'
  OBVIOUS
<1>1. [DriveMotionNext]_driveMotionVars
  BY DEF MCNext, robotVars, partVars, Actions, Drive, Wall, Path, BatteryPart
<1>2. [WfStatesNext]_wfStatesVars
  BY DEF MCNext, robotVars, partVars, Actions, Drive, Wall, Path, BatteryPart
<1>3. [DockPathNext]_dockPathVars
  BY DEF MCNext, robotVars, partVars, Actions, Drive, Wall, Path, BatteryPart
<1>4. [BatteryNext]_batteryVars
  BY DEF MCNext, robotVars, partVars, Actions, Drive, Wall, Path, BatteryPart
<1> QED
  BY <1>1, <1>2, <1>3, <1>4, DriveKeeps, WfKeeps, PathInvStep, BatteryTypesStep DEF PartsInv

\* The variables of all parts keep their types.
THEOREM PartTypes == MCSpec => []PartTypesOK
<1>1. PartsInv => PartTypesOK
  BY DEF PartsInv, PartTypesOK, DriveInv, WfInv, PathInv
<1> QED
  BY <1>1, PartsInitially, PartsKept, PTL DEF MCSpec
=============================================================================
