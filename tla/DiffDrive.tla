------------------------------ MODULE DiffDrive -----------------------------
(***************************************************************************)
(* diff_drive_controller (diff_drive_controller.cpp), the controller that  *)
(* drives the wheels of the simulated robot: its lifecycle, its realtime   *)
(* update and the subscription of cmd_vel, whose callback runs in another  *)
(* thread and may be overtaken by the realtime one.  One component of the  *)
(* twist and one wheel stand for all; the controller is not chained.       *)
(***************************************************************************)
EXTENDS Integers

CONSTANTS
  CmdVels,         \* commanded velocities
  StampAges,       \* ages of the commands that arrive; negative: a clock that is ahead
  CmdVelTimeout,   \* cmd_vel_timeout_, in ticks; 0 is "no timeout" to the subscriber
  MaxVel,          \* max_velocity, -min_velocity
  MaxAccel         \* largest change of the velocity in one update

ASSUME DiffDriveAssumption ==
  /\ {MaxVel, MaxAccel, CmdVelTimeout} \subseteq Nat
  /\ CmdVels \subseteq -2 * MaxVel .. 2 * MaxVel /\ StampAges \subseteq Int

VARIABLES
  dd_state,      \* of the lifecycle: "unconfigured", "inactive", "active"
  dd_failed,     \* the last update returned ERROR
  dd_buffer,     \* received_velocity_msg_ptr_: [v, age]
  dd_taken,      \* the message of the callback, when it has passed its checks
  dd_reference,  \* reference_interfaces_
  dd_last,       \* previous_two_commands_.back()
  dd_wheels      \* the command of the wheels

diffDriveVars == <<dd_state, dd_failed, dd_buffer, dd_taken, dd_reference, dd_last, dd_wheels>>

\* The values of doubles that are not commands
NaN == 2 * MaxVel + 1
NoMessage == [v |-> NaN, age |-> 0]
NothingTaken == [v |-> NaN + 1, age |-> 0]
OldestAge == CmdVelTimeout + 1

Aged(m) == [m EXCEPT !.age = IF @ < OldestAge THEN @ + 1 ELSE @]

DiffDriveInit ==
  /\ dd_state = "unconfigured"
  /\ dd_failed = FALSE
  /\ dd_buffer = NoMessage /\ dd_taken = NothingTaken
  /\ dd_reference = NaN /\ dd_last = 0 /\ dd_wheels = 0

-----------------------------------------------------------------------------
\* The callback of cmd_vel: the controller is active and the message young enough.  A message
\* without a stamp gets the time of its arrival.
DdCommandTaken ==
  /\ dd_state = "active" /\ dd_taken = NothingTaken
  /\ \E v \in CmdVels \union {NaN}, age \in StampAges :
       /\ CmdVelTimeout = 0 \/ age < CmdVelTimeout
       /\ dd_taken' = [v |-> v, age |-> age]
  /\ UNCHANGED <<dd_state, dd_failed, dd_buffer, dd_reference, dd_last, dd_wheels>>

\* Its end, writeFromNonRT; the controller may have been deactivated since.
DdCommandWritten ==
  /\ dd_taken # NothingTaken
  /\ dd_buffer' = dd_taken /\ dd_taken' = NothingTaken
  /\ UNCHANGED <<dd_state, dd_failed, dd_reference, dd_last, dd_wheels>>

\* Mutant: a command that timed out is not taken back.
ReferenceUnbraked ==
  IF dd_buffer.age <= CmdVelTimeout /\ dd_buffer.v # NaN THEN dd_buffer.v ELSE dd_reference

\* update_reference_from_subscribers: an old command brakes, a NaN leaves the reference.
Reference ==
  IF dd_buffer.age > CmdVelTimeout THEN 0
  ELSE IF dd_buffer.v # NaN THEN dd_buffer.v
  ELSE dd_reference

Clamp(v, low, high) == IF v < low THEN low ELSE IF v > high THEN high ELSE v

\* Mutant: only the acceleration is limited.
LimitedByAcceleration(v, last) == Clamp(v, last - MaxAccel, last + MaxAccel)

\* SpeedLimiter::limit, by velocity and acceleration
Limited(v, last) == Clamp(Clamp(v, -MaxVel, MaxVel), last - MaxAccel, last + MaxAccel)

\* update: a reference never set writes nothing.
DdUpdate ==
  /\ dd_state = "active" /\ ~dd_failed
  /\ dd_reference' = Reference
  /\ \/ Reference = NaN /\ UNCHANGED <<dd_last, dd_wheels>>
     \/ /\ Reference # NaN
        /\ dd_last' = Limited(Reference, dd_last) /\ dd_wheels' = dd_last'
  /\ UNCHANGED <<dd_state, dd_failed, dd_buffer, dd_taken>>

\* A NaN of the feedback of a wheel is an ERROR, and nothing is written.
DdUpdateFails ==
  /\ dd_state = "active" /\ ~dd_failed
  /\ dd_reference' = Reference /\ Reference # NaN
  /\ dd_failed' = TRUE
  /\ UNCHANGED <<dd_state, dd_buffer, dd_taken, dd_last, dd_wheels>>

-----------------------------------------------------------------------------
\* Mutant: the velocities the limiter starts from are kept.
ResetBuffersKeepsLast ==
  /\ dd_reference' = NaN
  /\ dd_buffer' = NoMessage
  /\ UNCHANGED dd_last

ResetBuffers ==
  /\ dd_reference' = NaN
  /\ dd_buffer' = NoMessage
  /\ dd_last' = 0

DdConfigure ==
  /\ dd_state = "unconfigured" /\ dd_state' = "inactive"
  /\ ResetBuffers
  /\ UNCHANGED <<dd_failed, dd_taken, dd_wheels>>

DdActivate ==
  /\ dd_state = "inactive" /\ dd_state' = "active"
  /\ UNCHANGED <<dd_failed, dd_buffer, dd_taken, dd_reference, dd_last, dd_wheels>>

\* Mutant: the handles of the wheels are cleared before the wheels are halted.
DdDeactivateUnhalted ==
  /\ dd_state = "active" /\ dd_state' = "inactive"
  /\ ResetBuffers
  /\ dd_failed' = FALSE
  /\ UNCHANGED <<dd_taken, dd_wheels>>

\* on_deactivate, in the realtime thread: halt, then the buffers.  The controller manager
\* calls it for a controller whose update failed, too.
DdDeactivate ==
  /\ dd_state = "active" /\ dd_state' = "inactive"
  /\ dd_wheels' = 0
  /\ ResetBuffers
  /\ dd_failed' = FALSE
  /\ UNCHANGED dd_taken

DdCleanup ==
  /\ dd_state = "inactive" /\ dd_state' = "unconfigured"
  /\ ResetBuffers
  /\ UNCHANGED <<dd_failed, dd_taken, dd_wheels>>

DdTime ==
  /\ dd_buffer' = Aged(dd_buffer)
  /\ dd_taken' = IF dd_taken = NothingTaken THEN dd_taken ELSE Aged(dd_taken)
  /\ UNCHANGED <<dd_state, dd_failed, dd_reference, dd_last, dd_wheels>>

DiffDriveNext ==
  \/ DdCommandTaken \/ DdCommandWritten \/ DdUpdate \/ DdUpdateFails
  \/ DdConfigure \/ DdActivate \/ DdDeactivate \/ DdCleanup
  \/ DdTime

DiffDriveSpec == DiffDriveInit /\ [][DiffDriveNext]_diffDriveVars

-----------------------------------------------------------------------------
(* Properties                                                              *)

DdMessages == [v : -2 * MaxVel .. NaN + 1, age : Int]

\* The types of the controller's state.
DiffDriveTypeOK ==
  /\ dd_state \in {"unconfigured", "inactive", "active"}
  /\ dd_failed \in BOOLEAN
  /\ dd_buffer \in DdMessages /\ dd_taken \in DdMessages
  /\ dd_reference \in -2 * MaxVel .. NaN
  /\ dd_last \in -MaxVel .. MaxVel /\ dd_wheels \in -MaxVel .. MaxVel

\* test_diff_drive_controller.cpp: "Wheels are halted on deactivate()", whatever command was
\* under way and also when the update that should have braked failed.
WheelsRestUnlessActive == dd_state # "active" => dd_wheels = 0

\* The wheels never change speed faster than the limits allow, in the first update after an
\* activation either: reset_buffers fills the old queue with zeros "to catch early
\* accelerations".
SpeedChangesWithinLimits ==
  [][dd_state' = "active"
       => dd_wheels' - dd_wheels <= MaxAccel /\ dd_wheels - dd_wheels' <= MaxAccel]_diffDriveVars

\* A robot whose last command is too old stops, unless a new command arrives first.
SilentRobotStops ==
  (dd_state = "active" /\ dd_buffer.age > CmdVelTimeout)
  ~> (dd_wheels = 0 \/ dd_buffer.age <= CmdVelTimeout)

\* The wheels turn under an active controller only, and change speed within its limits.
WheelsObey == []WheelsRestUnlessActive /\ SpeedChangesWithinLimits
=============================================================================
