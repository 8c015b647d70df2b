---------------------- MODULE MotionControlNodeProofs -----------------------
(***************************************************************************)
(* Proofs about MotionControlNode, for any goals, hazards, velocities,     *)
(* backup threshold and lists of parameters: the node serves its actions   *)
(* as MotionActions does, does not replay teleoperation, and keeps the     *)
(* robot near its backup limit.  At the end, those about the manoeuvre of  *)
(* a reflex, ReflexManoeuvre.                                              *)
(***************************************************************************)
EXTENDS MotionControlNode, ReflexManoeuvre, MotionActionsProofs, WellFoundedInduction

(***************************************************************************)
(* The node's control tick is the only thing that executes a behavior, and *)
(* the rest of the node leaves MotionActions alone.                        *)
(***************************************************************************)

LEMMA NodeStepServesActions == [NodeNext]_allVars => [Next]_vars
<1> SUFFICES ASSUME [NodeNext]_allVars PROVE [Next]_vars
  OBVIOUS
<1>1. CASE ControlBehavior \/ ActionCallback \/ NodePose
  BY <1>1 DEF ControlBehavior, ActionCallback, NodePose, Next
<1>2. CASE ControlTeleop \/ TeleopExpires
  BY <1>2 DEF ControlTeleop, TeleopExpires
<1>3. CASE \E v \in Speeds : CommandedVelocity(v)
  BY <1>3 DEF CommandedVelocity
<1>4. CASE \E b \in BOOLEAN : Kidnap(b) \/ EStop(b)
  BY <1>4 DEF Kidnap, EStop
<1>5. CASE \E list \in ParameterLists : SetParameters(list)
  BY <1>5 DEF SetParameters
<1>6. CASE UNCHANGED allVars
  BY <1>6 DEF allVars
<1> QED
  BY <1>1, <1>2, <1>3, <1>4, <1>5, <1>6 DEF NodeNext, ControlRobot

\* The node implements MotionActions, so everything proved of the action servers
\* holds of the node.
THEOREM NodeServesActions == NodeSpec => ServesActions
<1>1. NodeInit => Init
  BY DEF NodeInit
<1> QED
  BY <1>1, NodeStepServesActions, PTL DEF NodeSpec, ServesActions, Spec

\* At most one goal is being served by the whole node.
THEOREM NodeGoalsAreExclusive == NodeSpec => []OneActiveGoal
BY NodeServesActions, GoalsAreExclusive, PTL DEF ServesActions

\* The node keeps the promise of MotionService.
THEOREM NodeKeepsPromise == NodeSpec => KeepsServicePromise
BY NodeServesActions, KeepsPromise, PTL DEF ServesActions

(***************************************************************************)
(* Teleoperation                                                           *)
(***************************************************************************)

\* The numbers of the node.
NumbersOK ==
  /\ last_teleop_cmd \in Int /\ cmd_out \in Int
  /\ max_speed \in Nat
  /\ pose \in Int /\ last_backup_pose \in Int /\ backup_buffer \in Int

\* A lapsed command is forgotten, or a tick of a behavior or of the expired
\* threshold is due that forgets it.
LapsedTeleopForgotten ==
  node_up /\ teleop_lapsed => has_behavior \/ teleop_stale \/ last_teleop_cmd = 0

\* The part of the inductive invariant that is about teleoperation.
TeleopInv == NumbersOK /\ LapsedTeleopForgotten

\* Only an execution of its own gives up the slot.
LEMMA CallbacksKeepSlotTaken ==
  ActionCallback => node_up /\ (has_behavior => has_behavior')
<1> SUFFICES ASSUME ActionCallback PROVE node_up /\ (has_behavior => has_behavior')
  OBVIOUS
<1>1. ASSUME NEW g \in Goals, DriveGoal(g) \/ DockGoal(g) \/ WallFollowGoal(g) \/ Cancel(g)
      PROVE  node_up /\ (has_behavior => has_behavior')
  BY <1>1 DEF DriveGoal, HandleDriveGoalAccepted, DockGoal, HandleDockGoalRejected,
     HandleDockGoalAccepted, WallFollowGoal, HandleWallFollowRejected,
     HandleWallFollowInvalidSide, HandleWallFollowAccepted, Cancel, HandleCancel,
     TakeSlot, RefuseGoal
<1>2. ASSUME NEW msg, NEW moving, HazardVector(msg, moving)
      PROVE  node_up /\ (has_behavior => has_behavior')
  BY <1>2 DEF HazardVector, HazardVectorCallback, TriggerReflex, StartReflex, TakeSlot,
     schedulerVars
<1>3. CASE DockStatus \/ TimePasses
  BY <1>3 DEF DockStatus, DockStatusCallback, TimePasses, DockRuntimeElapses,
     WallFollowRuntimeElapses, ReflexRuntimeElapses, schedulerVars
<1> QED
  BY <1>1, <1>2, <1>3 DEF ActionCallback

\* A command within the limits is a number.
LEMMA BoundIsInt ==
  ASSUME NumbersOK, NEW v \in Int
  PROVE  Bound(v) \in Int /\ (v = 0 => Bound(v) = 0)
BY DEF Bound, NumbersOK

LEMMA PublishKeepsNumbers ==
  ASSUME NumbersOK, NEW v \in Int, NEW limited, Publish(v, limited)
  PROVE  cmd_out' \in Int /\ max_speed' \in Nat /\ pose' \in Int
           /\ last_backup_pose' \in Int /\ backup_buffer' \in Int
BY NodeAssumption DEF Publish, UpdateBackupBuffer, Lesser, NumbersOK, safetyVars

LEMMA TeleopInvStep == TeleopInv /\ [NodeNext]_allVars => TeleopInv'
<1> SUFFICES ASSUME TeleopInv, [NodeNext]_allVars PROVE TeleopInv'
  OBVIOUS
<1> USE NodeAssumption DEF TeleopInv
<1>1. CASE ControlBehavior
  <2>1. CASE ~node_up'
    BY <1>1, <2>1 DEF ControlBehavior, NumbersOK, LapsedTeleopForgotten, teleopVars,
       safetyVars, backupVars
  <2>2. CASE node_up'
    <3>1. PICK v \in Int, limited \in {TRUE, FALSE, current_behavior.apply_backup_limits} :
            Publish(v, limited)
      BY <1>1, <2>2, BoundIsInt DEF ControlBehavior
    <3>2. last_teleop_cmd' = 0
      BY <1>1, <2>2 DEF ControlBehavior, ResetLastTeleopCmd
    <3> QED
      BY <3>1, <3>2, PublishKeepsNumbers DEF NumbersOK, LapsedTeleopForgotten
  <2> QED
    BY <2>1, <2>2
<1>2. CASE ControlTeleop
  <2>1. PICK v \in Int, limited \in BOOLEAN : Publish(v, limited)
    BY <1>2, BoundIsInt DEF ControlTeleop, NumbersOK
  <2>2. last_teleop_cmd' = 0 \/ UNCHANGED teleopVars
    BY <1>2 DEF ControlTeleop, ResetLastTeleopCmd
  <2>3. UNCHANGED <<has_behavior, node_up>>
    BY <1>2 DEF ControlTeleop, vars, schedulerVars, reflexVars
  <2> QED
    BY <2>1, <2>2, <2>3, PublishKeepsNumbers DEF NumbersOK, LapsedTeleopForgotten, teleopVars
<1>3. CASE ActionCallback
  BY <1>3, CallbacksKeepSlotTaken DEF ActionCallback, NumbersOK, LapsedTeleopForgotten,
     safetyVars, backupVars
<1>4. CASE (\E v \in Speeds : CommandedVelocity(v)) \/ TeleopExpires
  BY <1>4 DEF CommandedVelocity, TeleopExpires, NumbersOK, LapsedTeleopForgotten,
     safetyVars, backupVars
<1>5. CASE NodePose
  <2>1. UNCHANGED <<has_behavior, node_up>>
    BY <1>5 DEF NodePose, RobotPose, schedulerVars, reflexVars
  <2> QED
    BY <1>5, <2>1 DEF NodePose, NumbersOK, LapsedTeleopForgotten, teleopVars, safetyVars,
       backupVars
<1>6. CASE \E b \in BOOLEAN : Kidnap(b) \/ EStop(b)
  <2>1. UNCHANGED <<has_behavior, node_up>>
    BY <1>6 DEF Kidnap, EStop, vars, schedulerVars, reflexVars
  <2> QED
    BY <1>6, <2>1 DEF Kidnap, EStop, NumbersOK, LapsedTeleopForgotten, teleopVars,
       safetyVars, backupVars
<1>7. CASE \E list \in ParameterLists : SetParameters(list)
  <2>1. UNCHANGED <<has_behavior, node_up>>
    BY <1>7 DEF SetParameters, vars, schedulerVars, reflexVars
  <2> QED
    BY <1>7, <2>1 DEF SetParameters, SpeedOf, NumbersOK, LapsedTeleopForgotten, teleopVars,
       backupVars
<1>8. CASE UNCHANGED allVars
  BY <1>8 DEF allVars, vars, nodeVars, schedulerVars, reflexVars, teleopVars, safetyVars,
     backupVars, NumbersOK, LapsedTeleopForgotten
<1> QED
  BY <1>1, <1>2, <1>3, <1>4, <1>5, <1>6, <1>7, <1>8 DEF NodeNext, ControlRobot

LEMMA TeleopInvariance == NodeSpec => []TeleopInv
<1>1. NodeInit => TeleopInv
  BY NodeAssumption DEF NodeInit, SpeedOf, TeleopInv, NumbersOK, LapsedTeleopForgotten
<1> QED
  BY <1>1, TeleopInvStep, PTL DEF NodeSpec

\* No teleoperation command outlives a behavior or the stop threshold.
THEOREM NoReplay == NodeSpec => TeleopNotReplayed
<1> DEFINE Unlapsed == ControlTeleop /\ cmd_out' # 0 => ~teleop_lapsed
<1>1. TeleopInv => Unlapsed
  <2> SUFFICES ASSUME TeleopInv, ControlTeleop, teleop_lapsed PROVE cmd_out' = 0
    OBVIOUS
  <2>1. CASE teleop_stale
    BY <2>1 DEF ControlTeleop, Publish
  <2>2. CASE ~teleop_stale
    <3>1. last_teleop_cmd = 0
      BY <2>2 DEF ControlTeleop, TeleopInv, LapsedTeleopForgotten
    <3>2. Bound(last_teleop_cmd) = 0
      BY <3>1, BoundIsInt DEF TeleopInv
    <3>3. Publish(Bound(last_teleop_cmd), TRUE)
      BY <2>2 DEF ControlTeleop
    <3> QED
      BY <3>2, <3>3 DEF Publish
  <2> QED
    BY <2>1, <2>2
<1>2. TeleopInv => [Unlapsed]_allVars
  BY <1>1
<1> QED
  BY <1>2, TeleopInvariance, PTL DEF TeleopNotReplayed

(***************************************************************************)
(* The backup limit                                                        *)
(***************************************************************************)

\* How far the robot can have come since the tick that last moved the limit: a
\* command to reverse was given with room left at the tick before.
BackupInv ==
  /\ ~moved => pose = last_backup_pose
  /\ pose >= last_backup_pose - 1
  /\ only_limited => /\ pose >= BackupLimit - 1
                     /\ ~moved /\ cmd_out < 0 => pose >= BackupLimit

\* A command to reverse that is within the limits was given with room left.
LEMMA BoundKeepsRoom ==
  ASSUME NumbersOK, NEW v \in Int, safety_override_mode = "none", Bound(v) < 0
  PROVE  backup_buffer > 0
BY DEF Bound, NumbersOK

\* The tick's update moves the limit forward, to BackupStop behind the robot at most.
LEMMA UpdateMovesLimit ==
  ASSUME NumbersOK, UpdateBackupBuffer
  PROVE  /\ BackupLimit' >= BackupLimit
         /\ BackupLimit' = BackupLimit \/ BackupLimit' = pose - BackupStop
BY NodeAssumption DEF UpdateBackupBuffer, Lesser, BackupLimit, NumbersOK

LEMMA PublishKeepsBackupInv ==
  ASSUME NumbersOK, BackupInv, NEW v \in Int, NEW limited \in BOOLEAN, Publish(v, limited),
         limited => \E w \in Int : v = Bound(w)
  PROVE  BackupInv'
<1>1. UpdateBackupBuffer
  BY DEF Publish
<1>5. last_backup_pose' = pose /\ pose' = pose
  BY DEF Publish, UpdateBackupBuffer, safetyVars
<1>2. BackupLimit \in Int /\ BackupLimit' \in Int /\ pose \in Int
  BY PublishKeepsNumbers DEF BackupLimit, NumbersOK
<1>3. ASSUME only_limited'
      PROVE  pose' >= BackupLimit' - 1 /\ (cmd_out' < 0 => pose' >= BackupLimit')
  <2>1. pose >= BackupLimit - 1
    <3>1. only_limited
      BY <1>3 DEF Publish
    <3> QED
      BY <3>1 DEF BackupInv
  <2>2. pose >= BackupLimit' - 1
    <3>1. BackupLimit' = BackupLimit \/ BackupLimit' = pose - BackupStop
      BY <1>1, UpdateMovesLimit
    <3>2. BackupStop \in Nat
      BY NodeAssumption
    <3>3. CASE BackupLimit' = BackupLimit
      BY <2>1, <3>3
    <3>4. CASE BackupLimit' = pose - BackupStop
      BY <1>2, <3>2, <3>4
    <3> QED
      BY <3>1, <3>3, <3>4
  <2>3. ASSUME cmd_out' < 0 PROVE pose >= BackupLimit'
    <3>1. cmd_out' = 0 \/ cmd_out' = v
      BY DEF Publish
    <3>2. v < 0
      BY <2>3, <3>1
    <3>3. limited /\ safety_override_mode = "none"
      BY <1>3, <3>2 DEF Publish
    <3>4. backup_buffer > 0
      BY <3>2, <3>3, BoundKeepsRoom
    <3>5. pose >= BackupLimit
      BY <3>4 DEF BackupInv, BackupLimit, NumbersOK
    <3>6. BackupLimit' = BackupLimit \/ BackupLimit' = pose - BackupStop
      BY <1>1, UpdateMovesLimit
    <3> QED
      BY <1>2, <3>5, <3>6, NodeAssumption
  <2> QED
    BY <1>5, <2>2, <2>3
<1>4. pose' >= last_backup_pose' - 1
  BY <1>2, <1>5
<1> QED
  BY <1>3, <1>4, <1>5 DEF BackupInv

LEMMA BackupInvStep ==
  TypeOK /\ NumbersOK /\ BackupInv /\ [NodeNext]_allVars => BackupInv'
<1> SUFFICES ASSUME TypeOK, NumbersOK, BackupInv, [NodeNext]_allVars PROVE BackupInv'
  OBVIOUS
<1> USE NodeAssumption
<1>1. CASE ControlBehavior
  <2>1. CASE ~node_up'
    BY <1>1, <2>1 DEF ControlBehavior, BackupInv, BackupLimit, backupVars
  <2>2. CASE node_up'
    <3> DEFINE limited == current_behavior.apply_backup_limits
    <3>1. limited \in BOOLEAN
      BY DEF TypeOK, SchedulerTypeOK, Behaviors
    <3>2. PICK v \in Speeds : Publish(IF limited THEN Bound(v) ELSE v, limited)
      BY <1>1, <2>2 DEF ControlBehavior
    <3>3. (IF limited THEN Bound(v) ELSE v) \in Int
      BY BoundIsInt
    <3> HIDE DEF limited
    <3> QED
      BY <3>1, <3>2, <3>3, PublishKeepsBackupInv
  <2> QED
    BY <2>1, <2>2
<1>2. CASE ControlTeleop
  <2>1. CASE Publish(0, FALSE)
    BY <2>1, PublishKeepsBackupInv
  <2>2. CASE Publish(Bound(last_teleop_cmd), TRUE)
    BY <2>2, BoundIsInt, PublishKeepsBackupInv DEF NumbersOK
  <2> QED
    BY <1>2, <2>1, <2>2 DEF ControlTeleop
<1>3. CASE NodePose
  BY <1>3 DEF NodePose, BackupInv, BackupLimit, NumbersOK, backupVars
<1>4. CASE \E b \in BOOLEAN : Kidnap(b)
  BY <1>4 DEF Kidnap, BackupInv, BackupLimit, NumbersOK
<1>5. CASE \/ ActionCallback \/ TeleopExpires \/ UNCHANGED allVars
           \/ \E v \in Speeds : CommandedVelocity(v)
           \/ \E b \in BOOLEAN : EStop(b)
           \/ \E list \in ParameterLists : SetParameters(list)
  <2>1. UNCHANGED <<pose, last_backup_pose, backup_buffer, cmd_out, moved, only_limited>>
    BY <1>5 DEF ActionCallback, TeleopExpires, CommandedVelocity, EStop, SetParameters, allVars,
       nodeVars, backupVars
  <2> QED
    BY <2>1 DEF BackupInv, BackupLimit
<1> QED
  BY <1>1, <1>2, <1>3, <1>4, <1>5 DEF NodeNext, ControlRobot

\* As long as no command to reverse was exempt, the robot stays within a tick's travel
\* of the backup limit.
THEOREM BackupStaysNearLimit == NodeSpec => []StaysNearBackupLimit
<1>1. NodeInit => BackupInv
  BY DEF NodeInit, BackupInv, BackupLimit
<1>2. BackupInv => StaysNearBackupLimit
  BY DEF BackupInv, StaysNearBackupLimit
<1>3. NodeSpec => []TypeOK
  BY NodeServesActions, TypeCorrectness, PTL DEF ServesActions
<1>4. TeleopInv => NumbersOK
  BY DEF TeleopInv
<1> QED
  BY <1>1, <1>2, <1>3, <1>4, BackupInvStep, TeleopInvariance, PTL DEF NodeSpec

\* Only putting the robot down after a kidnap can move the limit back.
THEOREM BackupLimitOnlyAdvances == NodeSpec => BackupLimitAdvances
<1> DEFINE Advances == BackupLimit' >= BackupLimit \/ (last_kidnap /\ ~last_kidnap')
<1>1. NumbersOK /\ [NodeNext]_allVars => [Advances]_allVars
  <2> SUFFICES ASSUME NumbersOK, NodeNext PROVE Advances
    OBVIOUS
  <2>1. UNCHANGED backupVars => BackupLimit' >= BackupLimit
    BY DEF backupVars, BackupLimit, NumbersOK
  <2>2. CASE ControlRobot
    BY <2>1, <2>2, UpdateMovesLimit DEF ControlRobot, ControlBehavior, ControlTeleop, Publish
  <2>3. CASE \E b \in BOOLEAN : Kidnap(b) \/ EStop(b)
    <3>1. ASSUME NEW b \in BOOLEAN, Kidnap(b), last_kidnap => b
          PROVE  UNCHANGED backupVars
      BY <3>1 DEF Kidnap, backupVars
    <3>2. ASSUME NEW b \in BOOLEAN, Kidnap(b), last_kidnap, ~b
          PROVE  last_kidnap /\ ~last_kidnap'
      BY <3>2 DEF Kidnap
    <3> QED
      BY <2>1, <2>3, <3>1, <3>2 DEF EStop
  <2>4. CASE \/ ActionCallback \/ TeleopExpires \/ NodePose
             \/ \E v \in Speeds : CommandedVelocity(v)
             \/ \E list \in ParameterLists : SetParameters(list)
    BY <2>1, <2>4 DEF ActionCallback, TeleopExpires, NodePose, CommandedVelocity, SetParameters
  <2> QED
    BY <2>2, <2>3, <2>4 DEF NodeNext
<1>2. TeleopInv => NumbersOK
  BY DEF TeleopInv
<1> QED
  BY <1>1, <1>2, TeleopInvariance, PTL DEF NodeSpec, BackupLimitAdvances

\* The backup limit holds, for any threshold, speeds and lists of parameters.
THEOREM BackupLimitIsKept == NodeSpec => BackupLimitHolds
BY BackupStaysNearLimit, BackupLimitOnlyAdvances DEF BackupLimitHolds

(***************************************************************************)
(* Types                                                                   *)
(***************************************************************************)

\* A list that concerns a parameter has a last entry that does: the indices of a sequence
\* that are counted from its end have a least one.
LEMMA LastEntryExists ==
  ASSUME NEW n \in Nat, NEW C \in SUBSET (1 .. n), C # {}
  PROVE  \E i \in C : \A j \in C : j <= i
<1> DEFINE T == {n - i : i \in C}
<1>1. T \subseteq Nat /\ T # {}
  <2>1. ASSUME NEW i \in C PROVE n - i \in Nat
    <3>1. i \in 1 .. n
      OBVIOUS
    <3> QED
      BY <3>1
  <2> QED
    BY <2>1
<1>2. IsWellFoundedOn(OpToRel(<, Nat), Nat)
  BY NatLessThanWellFounded
<1>3. PICK x \in T : \A y \in T : ~(<<y, x>> \in OpToRel(<, Nat))
  BY <1>1, <1>2, WFMin
<1>4. PICK i \in C : x = n - i
  OBVIOUS
<1>5. ASSUME NEW j \in C PROVE j <= i
  <2>1. n - j \in T /\ n - j \in Nat /\ n - i \in Nat
    OBVIOUS
  <2>2. ~(n - j < n - i)
    BY <1>3, <1>4, <2>1 DEF OpToRel
  <2> QED
    BY <2>2
<1> QED
  BY <1>5

\* Velocities, modes, positions and the parameters as clients read them.
TickTypes ==
  /\ e_stop_engaged \in BOOLEAN /\ last_kidnap \in BOOLEAN
  /\ safety_override_mode \in SafetyModes
  /\ max_speed \in {SafetyOnSpeed, SafetyOffSpeed}
  /\ parameters \in [safety_override : SafetyModes, max_speed : Int]
  /\ pose \in Positions /\ last_backup_pose \in Positions
  /\ backup_buffer \in Int /\ backup_buffer <= BackupStop
  /\ cmd_out \in Int
  /\ moved \in BOOLEAN /\ only_limited \in BOOLEAN

NodePartTypes ==
  /\ TickTypes
  /\ last_teleop_cmd \in Speeds /\ teleop_stale \in BOOLEAN /\ teleop_lapsed \in BOOLEAN

\* The last entry of a list that a condition holds of is an entry of the list.
LEMMA LastSpeedIsSpeed ==
  ASSUME NEW list \in ParameterLists, Sets(list, IsSpeed)
  PROVE  LastEntry(list, IsSpeed).value \in Int
<1>1. PICK n \in Nat : DOMAIN list = 1 .. n
  BY ParameterAssumption
<1> DEFINE C == {i \in DOMAIN list : IsSpeed(list[i])}
<1>2. C \in SUBSET (1 .. n) /\ C # {}
  BY <1>1 DEF Sets
<1>3. \E i \in C : \A j \in C : j <= i
  BY <1>2, LastEntryExists
<1> DEFINE last == CHOOSE i \in DOMAIN list :
                     IsSpeed(list[i]) /\ \A j \in DOMAIN list : IsSpeed(list[j]) => j <= i
<1>4. last \in DOMAIN list /\ IsSpeed(list[last])
  BY <1>3
<1>5. LastEntry(list, IsSpeed) = list[last]
  BY DEF LastEntry
<1> QED
  BY <1>4, <1>5, ParameterAssumption DEF IsSpeed

LEMMA LastValidModeIsValid ==
  ASSUME NEW list \in ParameterLists, Sets(list, IsValidMode)
  PROVE  LastEntry(list, IsValidMode).value \in SafetyModes
<1>1. PICK n \in Nat : DOMAIN list = 1 .. n
  BY ParameterAssumption
<1> DEFINE C == {i \in DOMAIN list : IsValidMode(list[i])}
<1>2. C \in SUBSET (1 .. n) /\ C # {}
  BY <1>1 DEF Sets
<1>3. \E i \in C : \A j \in C : j <= i
  BY <1>2, LastEntryExists
<1> DEFINE last == CHOOSE i \in DOMAIN list :
                     IsValidMode(list[i])
                       /\ \A j \in DOMAIN list : IsValidMode(list[j]) => j <= i
<1>4. last \in DOMAIN list /\ IsValidMode(list[last])
  BY <1>3
<1>5. LastEntry(list, IsValidMode) = list[last]
  BY DEF LastEntry
<1> QED
  BY <1>4, <1>5 DEF IsValidMode

\* A list that stands has a valid mode for its last mode: it ends, as far as the node knows
\* its entries, with that one.
LEMMA StandingListEndsInMode ==
  ASSUME NEW list \in ParameterLists, Sets(list, IsHandled),
         IsValidMode(LastEntry(list, IsHandled))
  PROVE  LastEntry(list, IsMode).value \in SafetyModes
<1>1. PICK n \in Nat : DOMAIN list = 1 .. n
  BY ParameterAssumption
<1> DEFINE C == {i \in DOMAIN list : IsHandled(list[i])}
<1>2. C \in SUBSET (1 .. n) /\ C # {}
  BY <1>1 DEF Sets
<1>3. \E i \in C : \A j \in C : j <= i
  BY <1>2, LastEntryExists
<1> DEFINE last == CHOOSE i \in DOMAIN list :
                     IsHandled(list[i])
                       /\ \A j \in DOMAIN list : IsHandled(list[j]) => j <= i
<1>4. last \in DOMAIN list /\ \A j \in DOMAIN list : IsHandled(list[j]) => j <= last
  BY <1>3
<1>5. LastEntry(list, IsHandled) = list[last]
  BY DEF LastEntry
<1> DEFINE lastMode == CHOOSE i \in DOMAIN list :
                         IsMode(list[i]) /\ \A j \in DOMAIN list : IsMode(list[j]) => j <= i
<1> HIDE DEF last
<1>6. IsMode(list[last]) /\ list[last].value \in SafetyModes
  BY <1>5 DEF IsValidMode
<1>7. \A j \in DOMAIN list : IsMode(list[j]) => j <= last
  BY <1>4 DEF IsHandled
<1>8. lastMode \in DOMAIN list /\ IsMode(list[lastMode])
        /\ \A j \in DOMAIN list : IsMode(list[j]) => j <= lastMode
  BY <1>4, <1>6, <1>7
<1> HIDE DEF lastMode
<1>9. lastMode <= last /\ last <= lastMode
  BY <1>4, <1>6, <1>7, <1>8
<1>10. lastMode = last
  BY <1>1, <1>4, <1>8, <1>9
<1>11. LastEntry(list, IsMode) = list[lastMode]
  BY DEF LastEntry, lastMode
<1> QED
  BY <1>6, <1>10, <1>11

\* What a tick does with a number it was given keeps the types.
LEMMA PublishKeepsTypes ==
  ASSUME TickTypes, NEW v \in Int, NEW limited \in BOOLEAN, Publish(v, limited)
  PROVE  TickTypes'
<1> USE NodeAssumption DEF TickTypes
<1>1. /\ e_stop_engaged' \in BOOLEAN /\ last_kidnap' \in BOOLEAN
      /\ safety_override_mode' \in SafetyModes
      /\ max_speed' \in {SafetyOnSpeed, SafetyOffSpeed}
      /\ pose' \in Positions /\ last_backup_pose' \in Positions
      /\ moved' \in BOOLEAN
  BY DEF Publish, UpdateBackupBuffer, safetyVars
<1>2. parameters' \in [safety_override : SafetyModes, max_speed : Int]
  <2>1. max_speed \in Int
    OBVIOUS
  <2> QED
    BY <2>1 DEF Publish, ReportMaxSpeed
<1>3. backup_buffer' \in Int /\ backup_buffer' <= BackupStop
  BY DEF Publish, UpdateBackupBuffer, Lesser, Positions
<1>4. cmd_out' \in Int
  BY DEF Publish
<1>5. only_limited' \in BOOLEAN
  BY DEF Publish
<1> QED
  BY <1>1, <1>2, <1>3, <1>4, <1>5

LEMMA NodeTypesStep ==
  TypeOK /\ TypeOK' /\ NodePartTypes /\ [NodeNext]_allVars => NodePartTypes'
<1> SUFFICES ASSUME TypeOK, TypeOK', NodePartTypes, [NodeNext]_allVars PROVE NodePartTypes'
  OBVIOUS
<1> USE NodeAssumption
<1>1. has_behavior' \in BOOLEAN /\ current_behavior.apply_backup_limits \in BOOLEAN
  <2>1. has_behavior' \in BOOLEAN
    BY DEF TypeOK, SchedulerTypeOK
  <2>2. current_behavior.apply_backup_limits \in BOOLEAN
    BY DEF TypeOK, SchedulerTypeOK, Behaviors
  <2> QED
    BY <2>1, <2>2
<1>2. ASSUME NEW v \in Int PROVE Bound(v) \in Int
  BY DEF Bound, NodePartTypes, TickTypes
<1>3. CASE ControlBehavior
  <2>1. CASE node_up'
    <3> DEFINE limited == current_behavior.apply_backup_limits
    <3>1. PICK v \in Speeds : Publish(IF limited THEN Bound(v) ELSE v, limited)
      BY <1>3, <2>1 DEF ControlBehavior
    <3>2. (IF limited THEN Bound(v) ELSE v) \in Int
      BY <1>2
    <3>3. ResetLastTeleopCmd /\ teleop_lapsed' = TRUE
      BY <1>3, <2>1 DEF ControlBehavior
    <3> DEFINE u == IF limited THEN Bound(v) ELSE v
    <3>4. u \in Int /\ limited \in BOOLEAN /\ Publish(u, limited)
      BY <1>1, <3>1, <3>2
    <3> HIDE DEF u, limited
    <3> QED
      BY <3>3, <3>4, PublishKeepsTypes DEF NodePartTypes, ResetLastTeleopCmd
  <2>2. CASE ~node_up'
    <3>1. max_speed \in Int
      BY DEF NodePartTypes, TickTypes
    <3>2. parameters' \in [safety_override : SafetyModes, max_speed : Int]
      BY <1>3, <2>2, <3>1 DEF ControlBehavior, ReportMaxSpeed, NodePartTypes, TickTypes
    <3>3. UNCHANGED <<teleopVars, safetyVars, backupVars, e_stop_engaged, last_kidnap, pose,
                      cmd_out, moved, only_limited>>
      BY <1>3, <2>2 DEF ControlBehavior
    <3> QED
      BY <3>2, <3>3 DEF NodePartTypes, TickTypes, teleopVars, safetyVars, backupVars
  <2> QED
    BY <2>1, <2>2
<1>4. CASE ControlTeleop
  <2>1. CASE teleop_stale
    <3>1. Publish(0, FALSE) /\ ResetLastTeleopCmd /\ UNCHANGED teleop_lapsed
      BY <1>4, <2>1 DEF ControlTeleop
    <3> QED
      BY <3>1, PublishKeepsTypes DEF NodePartTypes, ResetLastTeleopCmd
  <2>2. CASE ~teleop_stale
    <3>1. Publish(Bound(last_teleop_cmd), TRUE) /\ UNCHANGED teleopVars
      BY <1>4, <2>2 DEF ControlTeleop
    <3>2. Bound(last_teleop_cmd) \in Int
      BY <1>2 DEF NodePartTypes
    <3> QED
      BY <3>1, <3>2, PublishKeepsTypes DEF NodePartTypes, teleopVars
  <2> QED
    BY <2>1, <2>2
<1>5. CASE ActionCallback
  BY <1>1, <1>5 DEF ActionCallback, NodePartTypes, TickTypes, safetyVars, backupVars
<1>6. ASSUME NEW v \in Speeds, CommandedVelocity(v) PROVE NodePartTypes'
  BY <1>6 DEF CommandedVelocity, NodePartTypes, TickTypes, safetyVars, backupVars
<1>7. CASE TeleopExpires
  BY <1>7 DEF TeleopExpires, NodePartTypes, TickTypes, safetyVars, backupVars
<1>8. CASE NodePose
  BY <1>8 DEF NodePose, NodePartTypes, TickTypes, teleopVars, safetyVars, backupVars
<1>9. ASSUME NEW b \in BOOLEAN, Kidnap(b) \/ EStop(b) PROVE NodePartTypes'
  BY <1>9 DEF Kidnap, EStop, NodePartTypes, TickTypes, teleopVars, safetyVars, backupVars
<1>10. ASSUME NEW list \in ParameterLists, SetParameters(list) PROVE NodePartTypes'
  <2>1. safety_override_mode' \in SafetyModes
    BY <1>10, LastValidModeIsValid DEF SetParameters, NodePartTypes, TickTypes
  <2>2. max_speed' \in {SafetyOnSpeed, SafetyOffSpeed}
    BY <1>10 DEF SetParameters, NodePartTypes, TickTypes, SpeedOf
  <2>3. parameters' \in [safety_override : SafetyModes, max_speed : Int]
    <3>1. CASE Sets(list, IsHandled) /\ IsValidMode(LastEntry(list, IsHandled))
      <4>2. LastEntry(list, IsMode).value \in SafetyModes
        BY <3>1, StandingListEndsInMode
      <4>3. Sets(list, IsSpeed) => LastEntry(list, IsSpeed).value \in Int
        BY LastSpeedIsSpeed
      <4>4. parameters' =
              [ safety_override |-> LastEntry(list, IsMode).value,
                max_speed |-> IF Sets(list, IsSpeed) THEN LastEntry(list, IsSpeed).value
                                                     ELSE parameters.max_speed ]
        BY <1>10, <3>1 DEF SetParameters
      <4> QED
        BY <4>2, <4>3, <4>4 DEF NodePartTypes, TickTypes
    <3>2. CASE ~(Sets(list, IsHandled) /\ IsValidMode(LastEntry(list, IsHandled)))
      BY <1>10, <3>2 DEF SetParameters, NodePartTypes, TickTypes
    <3> QED
      BY <3>1, <3>2
  <2> QED
    BY <1>10, <2>1, <2>2, <2>3 DEF SetParameters, NodePartTypes, TickTypes, teleopVars, backupVars
<1>11. CASE UNCHANGED allVars
  BY <1>11 DEF allVars, nodeVars, NodePartTypes, TickTypes, teleopVars, safetyVars, backupVars
<1> QED
  BY <1>3, <1>4, <1>5, <1>6, <1>7, <1>8, <1>9, <1>10, <1>11 DEF NodeNext, ControlRobot

\* Every variable of the node keeps its type, for any lists of parameters: whatever a list
\* repeats or gets wrong, the mode is one of the three and the backup buffer stays below its
\* threshold.
THEOREM NodeTypes == NodeSpec => []NodeTypeOK
<1>1. NodeInit => NodePartTypes
  <2> SUFFICES ASSUME NodeInit PROVE NodePartTypes
    OBVIOUS
  <2>1. parameters \in [safety_override : SafetyModes, max_speed : Int]
    <3>3. SafetyOnSpeed \in Int
      BY NodeAssumption
    <3> QED
      BY <3>3 DEF NodeInit
  <2>2. pose \in Positions /\ last_backup_pose \in Positions
    BY NodeAssumption DEF NodeInit, Positions
  <2>3. 0 \in Int /\ 0 <= BackupStop /\ 0 \in Speeds
    BY NodeAssumption
  <2>4. max_speed \in {SafetyOnSpeed, SafetyOffSpeed}
    BY DEF NodeInit, SpeedOf
  <2>5. TickTypes
    BY <2>1, <2>2, <2>3, <2>4 DEF NodeInit, TickTypes
  <2> QED
    BY <2>3, <2>5 DEF NodeInit, NodePartTypes
<1>2. NodeSpec => []TypeOK
  BY NodeServesActions, TypeCorrectness, PTL DEF ServesActions
<1>3. TypeOK /\ NodePartTypes => NodeTypeOK
  BY DEF NodePartTypes, TickTypes, NodeTypeOK
<1> QED
  BY <1>1, <1>2, <1>3, NodeTypesStep, PTL DEF NodeSpec

-----------------------------------------------------------------------------
(***************************************************************************)
(* The manoeuvre of a reflex, for any hazards, distances and lists of      *)
(* parameters: it stays within its distance, its command does not outlive  *)
(* it, and a chain of reflexes stands still once its time is over.         *)
(***************************************************************************)

\* A reflex only drives backwards, and counts its way from the execution after the one that
\* first finds the robot behind its start: until then it is no more than one unit behind.
BehindStart ==
  reflex.running =>
    /\ robot <= reflex.start /\ reflex.start - robot <= MaxReflex + 1
    /\ ~reflex.backwards => reflex.start - robot <= 1

ReflexInv == ReflexManTypeOK /\ BehindStart /\ CommandDiesWithReflex

LEMMA TrackIsInteger == Track \subseteq Int
BY ReflexAssumption DEF Track

LEMMA ReflexInitial == ReflexManInit => ReflexInv
<1>1. 0 \in Track
  BY ReflexAssumption DEF Track
<1> QED
  BY <1>1 DEF ReflexManInit, ReflexInv, ReflexManTypeOK, RunOfReflex, ReflexCommands,
     BehindStart, CommandDiesWithReflex

\* A vector of hazards begins a reflex where the robot is, or leaves the one that runs.
LEMMA UpdateHazardsStep ==
  ASSUME ReflexInv, NEW msg \in SUBSET ReflexHazards, UpdateHazards(msg)
  PROVE  ReflexInv'
<1> DEFINE active == {h \in msg : KindOf[h] \in enabled}
<1>1. active \subseteq ReflexHazards
  OBVIOUS
<1> HIDE DEF active
<1>2. UNCHANGED <<robot, last_reflex_cmd, enabled, reflexes_enabled, reflex_node_up>>
  BY DEF UpdateHazards
<1>3. /\ last_hazards' \subseteq ReflexHazards /\ last_trigger' \subseteq ReflexHazards
      /\ continuous' \in [start : Track, known : BOOLEAN, overdue : BOOLEAN]
      /\ \/ UNCHANGED reflex
         \/ /\ ~reflex.running
            /\ reflex' = [running |-> TRUE, start |-> robot, backwards |-> FALSE,
                          overdue |-> FALSE]
  <2>1. CASE Triggered(active) /\ ~reflex.running
    <3>1. Fresh \in [start : Track, known : BOOLEAN, overdue : BOOLEAN]
      BY DEF Fresh, ReflexInv, ReflexManTypeOK
    <3>2. CASE BeginReflex(active)
      BY <1>1, <2>1, <3>1, <3>2 DEF BeginReflex, ReflexInv, ReflexManTypeOK
    <3>3. CASE RejectRepeated
      BY <3>1, <3>3 DEF RejectRepeated, ReflexInv, ReflexManTypeOK
    <3>4. CASE last_trigger' = {} /\ UNCHANGED <<reflex, last_hazards, continuous>>
      BY <3>4 DEF ReflexInv, ReflexManTypeOK
    <3> QED
      BY <2>1, <3>2, <3>3, <3>4 DEF Triggered
  <2>2. CASE UNCHANGED <<reflex, last_trigger, continuous>> /\ last_hazards' \in {active, last_hazards}
    BY <1>1, <2>2 DEF ReflexInv, ReflexManTypeOK
  <2> QED
    BY <2>1, <2>2 DEF UpdateHazards, active
<1>4. reflex' \in RunOfReflex
  <2>1. robot \in Track /\ reflex \in RunOfReflex
    BY DEF ReflexInv, ReflexManTypeOK
  <2>2. [running |-> TRUE, start |-> robot, backwards |-> FALSE, overdue |-> FALSE]
          \in RunOfReflex
    BY <2>1 DEF RunOfReflex
  <2> QED
    BY <1>3, <2>1, <2>2
<1>5. BehindStart'
  <2>1. CASE UNCHANGED reflex
    BY <1>2, <2>1 DEF ReflexInv, BehindStart
  <2>2. CASE reflex' = [running |-> TRUE, start |-> robot, backwards |-> FALSE, overdue |-> FALSE]
    <3>1. robot \in Int /\ MaxReflex \in Nat
      BY TrackIsInteger, ReflexAssumption DEF ReflexInv, ReflexManTypeOK
    <3> QED
      BY <1>2, <2>2, <3>1 DEF BehindStart
  <2> QED
    BY <1>3, <2>1, <2>2
<1> QED
  BY <1>2, <1>3, <1>4, <1>5 DEF ReflexInv, ReflexManTypeOK, CommandDiesWithReflex

LEMMA DirectionIsCommand == \A side : DriveDirection(side) \in ReflexCommands
BY DEF DriveDirection, ReflexCommands

\* The command of an execution is none when it is the last one of its reflex.
LEMMA CommandOfExecution ==
  ASSUME ReflexInv, NEW direction \in ReflexCommands
  PROVE  /\ ReflexCommand(direction) \in ReflexCommands
         /\ Finished(direction) => ReflexCommand(direction) = "none"
BY DEF ReflexCommand, ReflexInv, ReflexManTypeOK, ReflexCommands

\* An execution: the robot moves only when the reflex goes on, and then it has not gone too
\* far yet.
LEMMA ExecutionStep ==
  ASSUME ReflexInv, NEW side, NEW obeyed \in BOOLEAN, ExecuteManoeuvre(side, obeyed)
  PROVE  ReflexInv' /\ (continuous.overdue => robot' = robot)
<1> DEFINE direction == DriveDirection(side)
<1>1. direction \in ReflexCommands
  BY DirectionIsCommand
<1>2. UNCHANGED <<last_hazards, last_trigger, continuous, enabled, reflexes_enabled>>
  BY DEF ExecuteManoeuvre
<1>3. CASE UNCHANGED <<robot, reflex, last_reflex_cmd>> /\ reflex_node_up' = FALSE
  BY <1>2, <1>3 DEF ReflexInv, ReflexManTypeOK, BehindStart, CommandDiesWithReflex
<1>4. CASE /\ reflex' = [reflex EXCEPT !.running = ~Finished(direction),
                                       !.backwards = @ \/ robot < reflex.start]
           /\ last_reflex_cmd' = ReflexCommand(direction)
           /\ robot' = IF obeyed /\ ReflexCommand(direction) # "none" THEN robot - 1 ELSE robot
           /\ robot' \in Track
           /\ UNCHANGED reflex_node_up
  <2> HIDE DEF direction
  <2>1. /\ reflex'.running = ~Finished(direction) /\ reflex'.start = reflex.start
        /\ reflex'.backwards = (reflex.backwards \/ robot < reflex.start)
        /\ reflex' \in RunOfReflex
    BY <1>4 DEF ReflexInv, ReflexManTypeOK, RunOfReflex, Finished
  <2>2. ReflexManTypeOK' /\ CommandDiesWithReflex'
    BY <1>1, <1>2, <1>4, <2>1, CommandOfExecution
       DEF ReflexInv, ReflexManTypeOK, CommandDiesWithReflex
  <2>3. Finished(direction) => robot' = robot
    BY <1>1, <1>4, CommandOfExecution
  <2>4. BehindStart'
    <3> SUFFICES ASSUME ~Finished(direction) PROVE BehindStart'
      BY <2>1 DEF BehindStart
    <3>1. /\ robot \in Int /\ reflex.start \in Int /\ MaxReflex \in Nat \ {0}
          /\ robot' = robot \/ robot' = robot - 1
      BY <1>4, TrackIsInteger, ReflexAssumption DEF ReflexInv, ReflexManTypeOK, RunOfReflex
    <3>2. reflex.running
      BY DEF ExecuteManoeuvre
    <3>3. reflex.backwards => reflex.start - robot <= MaxReflex
      BY <3>1, <3>2 DEF Finished, SinceStart, Away, ReflexInv, BehindStart
    <3>4. /\ robot <= reflex.start
          /\ ~reflex.backwards => reflex.start - robot <= 1
      BY <3>2 DEF ReflexInv, BehindStart
    <3>5. robot' <= reflex.start /\ reflex.start - robot' <= MaxReflex + 1
      BY <3>1, <3>3, <3>4
    <3>6. ~reflex.backwards /\ ~(robot < reflex.start) => reflex.start - robot' <= 1
      BY <3>1
    <3> QED
      BY <2>1, <3>5, <3>6 DEF BehindStart
  <2>5. continuous.overdue => Finished(direction)
    BY DEF Finished
  <2> QED
    BY <2>2, <2>3, <2>4, <2>5 DEF ReflexInv
<1> QED
  BY <1>3, <1>4 DEF ExecuteManoeuvre

\* Parameters, time and a robot driven by others leave a reflex alone.
LEMMA OutsideStep ==
  ASSUME ReflexInv,
         \/ \E list \in ReflexLists : SetReflexParameters(list)
         \/ DrivenElsewhere \/ ReflexTimePasses
  PROVE  ReflexInv'
<1>1. CASE \E list \in ReflexLists : SetReflexParameters(list)
  <2>1. PICK list \in ReflexLists : SetReflexParameters(list)
    BY <1>1
  <2>2. enabled' \subseteq Enableable
    BY <2>1 DEF SetReflexParameters
  <2>3. reflexes_enabled' \in BOOLEAN
    BY <2>1 DEF SetReflexParameters, ValueAfter, ReflexInv, ReflexManTypeOK
  <2> QED
    BY <2>1, <2>2, <2>3 DEF SetReflexParameters, ReflexInv, ReflexManTypeOK, BehindStart,
       CommandDiesWithReflex
<1>2. CASE DrivenElsewhere
  BY <1>2 DEF DrivenElsewhere, ReflexInv, ReflexManTypeOK, BehindStart, CommandDiesWithReflex
<1>3. CASE ReflexTimePasses
  BY <1>3 DEF ReflexTimePasses, ReflexInv, ReflexManTypeOK, RunOfReflex, BehindStart,
     CommandDiesWithReflex
<1> QED
  BY <1>1, <1>2, <1>3

LEMMA ReflexInvariance == ReflexManSpec => []ReflexInv
<1>1. ReflexInv /\ [ReflexManNext]_reflexManVars => ReflexInv'
  <2>1. ReflexInv /\ UNCHANGED reflexManVars => ReflexInv'
    BY DEF reflexManVars, ReflexInv, ReflexManTypeOK, BehindStart, CommandDiesWithReflex
  <2> QED
    BY <2>1, UpdateHazardsStep, ExecutionStep, OutsideStep
       DEF ReflexManNext, ReflexCallbacks, ReflexTick
<1> QED
  BY ReflexInitial, <1>1, PTL DEF ReflexManSpec

\* Every variable of the reflex keeps its type.
THEOREM ReflexTypes == ReflexManSpec => []ReflexManTypeOK
BY ReflexInvariance, PTL DEF ReflexInv

\* A reflex goes at most a unit further than its distance, for any distances, and leaves no
\* command behind for the next one.
THEOREM ReflexesAreContained == ReflexManSpec => []ReflexIsContained
<1>1. ReflexInv => ReflexIsContained
  <2> SUFFICES ASSUME ReflexInv, reflex.running
               PROVE  Away(robot, reflex.start) <= MaxReflex + 1
    BY DEF ReflexInv, ReflexIsContained, StaysWithinReflexDistance
  <2>1. robot \in Int /\ reflex.start \in Int /\ MaxReflex \in Nat
    BY TrackIsInteger, ReflexAssumption DEF ReflexInv, ReflexManTypeOK, RunOfReflex
  <2> QED
    BY <2>1 DEF ReflexInv, BehindStart, Away
<1> QED
  BY ReflexInvariance, <1>1, PTL

\* Once the common time of a chain of reflexes is over, none of them moves the robot.
THEOREM ChainsStandStill == ReflexManSpec => NoMotionAfterContinuousTime
<1> DEFINE Still == continuous.overdue /\ continuous'.overdue /\ reflex.running => robot' = robot
<1>1. ReflexInv /\ [ReflexManNext]_reflexManVars => [Still]_reflexManVars
  <2> SUFFICES ASSUME ReflexInv, ReflexManNext, continuous.overdue, reflex.running
               PROVE  robot' = robot
    OBVIOUS
  <2>1. CASE ReflexTick
    BY <2>1, ExecutionStep DEF ReflexTick
  <2>2. CASE ReflexCallbacks \/ ReflexTimePasses
    BY <2>2 DEF ReflexCallbacks, UpdateHazards, SetReflexParameters, DrivenElsewhere,
       ReflexTimePasses
  <2> QED
    BY <2>1, <2>2 DEF ReflexManNext
<1> QED
  BY <1>1, ReflexInvariance, PTL DEF ReflexManSpec, NoMotionAfterContinuousTime
=============================================================================
