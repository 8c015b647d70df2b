-------------------------- MODULE ReflexManoeuvre ---------------------------
(***************************************************************************)
(* The manoeuvre of a reflex (reflex_behavior.cpp): where the robot backs  *)
(* away to, how far, how long, and from which hazards. ReflexTrigger looks *)
(* at the same code from the side of the scheduler; here the slot is the   *)
(* environment's and the robot drives on a line, backwards to smaller      *)
(* positions, one unit for each command it obeys.                          *)
(***************************************************************************)
EXTENDS Integers

CONSTANTS
  ReflexHazards,    \* hazards a vector may hold, each a type seen at a frame
  KindOf,           \* [ReflexHazards -> HazardKinds]
  MinReflex,        \* MIN_REFLEX_DISTANCE
  MaxReflex,        \* MAX_REFLEX_DISTANCE
  MaxContinuous,    \* MAX_CONTINUOUS_REFLEX_DISTANCE
  ReflexLists,      \* the lists of parameters that are sent
  TrackEnd          \* bound of the positions

HazardKinds == {"bump", "cliff", "stall", "wheel_drop", "backup_limit", "object_proximity"}

ASSUME ReflexAssumption ==
  /\ KindOf \in [ReflexHazards -> HazardKinds]
  /\ {MinReflex, MaxReflex, MaxContinuous, TrackEnd} \subseteq Nat
  /\ MinReflex < MaxReflex /\ MaxReflex < MaxContinuous

VARIABLES
  robot,               \* the pose, on the line
  reflex,              \* the state of a run: RunOfReflex
  last_hazards,        \* last_hazards_
  last_trigger,        \* last_trigger_hazards_
  continuous,          \* [start: continuous_reflex_start_pose_, known: assigned, overdue: its
                       \* time has passed]
  last_reflex_cmd,     \* last_reflex_cmd_
  enabled,             \* types in hazard_reflex_enabled_ that map to true
  reflexes_enabled,    \* reflexes_enabled_
  reflex_node_up       \* no exception has escaped

reflexManVars == <<robot, reflex, last_hazards, last_trigger, continuous, last_reflex_cmd,
                   enabled, reflexes_enabled, reflex_node_up>>

Track == (-TrackEnd)..TrackEnd
ReflexCommands == {"none", "backup", "arc_clockwise", "arc_counter_clockwise"}
Enableable == {"bump", "cliff", "stall", "wheel_drop"}   \* keys of hazard_reflex_enabled_

\* running: running_reflex_; start: reflex_start_pose_; backwards: driving_backwards_;
\* overdue: max_reflex_runtime_ has passed since reflex_start_time_
RunOfReflex == [running : BOOLEAN, start : Track, backwards : BOOLEAN, overdue : BOOLEAN]

ReflexManTypeOK ==
  /\ robot \in Track
  /\ reflex \in RunOfReflex
  /\ last_hazards \subseteq ReflexHazards /\ last_trigger \subseteq ReflexHazards
  /\ continuous \in [start : Track, known : BOOLEAN, overdue : BOOLEAN]
  /\ last_reflex_cmd \in ReflexCommands
  /\ enabled \subseteq Enableable /\ reflexes_enabled \in BOOLEAN /\ reflex_node_up \in BOOLEAN

ReflexManInit ==
  /\ robot = 0
  /\ reflex = [running |-> FALSE, start |-> 0, backwards |-> FALSE, overdue |-> FALSE]
  /\ last_hazards = {} /\ last_trigger = {}
  /\ continuous = [start |-> 0, known |-> FALSE, overdue |-> FALSE]
  /\ last_reflex_cmd = "none"
  /\ enabled = Enableable /\ reflexes_enabled = TRUE /\ reflex_node_up = TRUE

-----------------------------------------------------------------------------
\* update_hazards: a hazard vector `msg` arrives. The robot was found to move when
\* that was last looked at (moving_), or not; the scheduler takes the reflex or refuses it.
Fresh == [start |-> robot, known |-> TRUE, overdue |-> FALSE]

BeginReflex(active) ==
  /\ last_hazards' = active
  /\ last_trigger' = active
  /\ \/ /\ reflex' = [running |-> TRUE, start |-> robot, backwards |-> FALSE, overdue |-> FALSE]
        /\ continuous' = IF last_trigger = {} THEN Fresh ELSE continuous
     \/ UNCHANGED <<reflex, continuous>>

\* The hazards of the last trigger have not cleared: no reflex, and the continuous
\* limits start over.
RejectRepeated ==
  /\ continuous' = Fresh
  /\ UNCHANGED <<reflex, last_hazards, last_trigger>>

Triggered(active) ==
  \/ /\ active = {}
     /\ last_trigger' = {}
     /\ UNCHANGED <<reflex, last_hazards, continuous>>
  \/ /\ active # {} /\ active \cap last_trigger = {}
     /\ BeginReflex(active)
  \/ /\ active \cap last_trigger # {}
     /\ RejectRepeated

UpdateHazards(msg) ==
  LET active == {h \in msg : KindOf[h] \in enabled}
  IN  /\ \/ /\ reflex.running
            /\ last_hazards' = active
            /\ UNCHANGED <<reflex, last_trigger, continuous>>
         \/ /\ ~reflex.running
            /\ UNCHANGED <<reflex, last_hazards, last_trigger, continuous>>
         \/ /\ ~reflex.running /\ reflexes_enabled
            /\ Triggered(active)
      /\ UNCHANGED <<robot, last_reflex_cmd, enabled, reflexes_enabled, reflex_node_up>>

-----------------------------------------------------------------------------
\* The direction execute_reflex picks: `side` is where the transform of each cliff puts
\* it, "unknown" when the look-up throws.
Sides == {"left", "right", "unknown"}
DriveDirection(side) ==
  LET blocked == \E h \in last_hazards : KindOf[h] \in {"bump", "stall", "wheel_drop"}
      cliff_at(s) == \E h \in last_hazards : KindOf[h] = "cliff" /\ side[h] = s
  IN  CASE blocked \/ (cliff_at("left") /\ cliff_at("right"))        -> "backup"
        [] ~blocked /\ cliff_at("left") /\ ~cliff_at("right")        -> "arc_clockwise"
        [] ~blocked /\ cliff_at("right") /\ ~cliff_at("left")        -> "arc_counter_clockwise"
        [] OTHER                                              -> "none"

\* Distances count from the execution after the one that first finds the robot behind
\* its start.
Away(a, b) == IF a < b THEN b - a ELSE a - b
SinceStart == IF reflex.backwards THEN Away(robot, reflex.start) ELSE 0
SinceContinuous == IF reflex.backwards THEN Away(robot, continuous.start) ELSE 0

\* Mutant: a reflex that has gone too far goes on while its hazard is there.
FinishedWhenCleared(direction) ==
  \/ direction = "none" /\ SinceStart > MinReflex
  \/ reflex.overdue
  \/ continuous.overdue

\* Mutant: the limit of the runs in a row is not looked at.
FinishedEachInTime(direction) ==
  \/ direction = "none" /\ SinceStart > MinReflex
  \/ SinceStart > MaxReflex
  \/ SinceContinuous > MaxContinuous
  \/ reflex.overdue

\* Mutant: neither time is looked at.
FinishedByDistance(direction) ==
  \/ direction = "none" /\ SinceStart > MinReflex
  \/ SinceStart > MaxReflex
  \/ SinceContinuous > MaxContinuous

\* finish_reflex
Finished(direction) ==
  \/ direction = "none" /\ SinceStart > MinReflex
  \/ SinceStart > MaxReflex
  \/ SinceContinuous > MaxContinuous
  \/ reflex.overdue
  \/ continuous.overdue

\* Mutant: without a hazard the last command is kept, also by the execution that ends
\* the reflex.
ReflexCommandKept(direction) == IF direction = "none" THEN last_reflex_cmd ELSE direction

\* servo_cmd: none at the end, away from the hazards, or the last command while there is
\* no hazard left but the robot has not gone far enough.
ReflexCommand(direction) ==
  CASE Finished(direction) -> "none"
    [] ~Finished(direction) /\ direction # "none" -> direction
    [] ~Finished(direction) /\ direction = "none" -> last_reflex_cmd

\* execute_reflex, and the robot's motion until the next control tick. The difference
\* with a continuous start time that was never set throws and ends the node.
ExecuteManoeuvre(side, obeyed) ==
  LET direction == DriveDirection(side)
      command == ReflexCommand(direction)
  IN  /\ reflex.running
      /\ \/ /\ continuous.known \/ reflex.overdue
            /\ reflex' = [reflex EXCEPT !.running = ~Finished(direction),
                                        !.backwards = @ \/ robot < reflex.start]
            /\ last_reflex_cmd' = command
            /\ robot' = IF obeyed /\ command # "none" THEN robot - 1 ELSE robot
            /\ robot' \in Track
            /\ UNCHANGED reflex_node_up
         \/ /\ ~continuous.known /\ ~reflex.overdue
            /\ reflex_node_up' = FALSE
            /\ UNCHANGED <<robot, reflex, last_reflex_cmd>>
      /\ UNCHANGED <<last_hazards, last_trigger, continuous, enabled, reflexes_enabled>>

-----------------------------------------------------------------------------
\* set_parameters_callback: a list of [name, value] entries is applied entry by entry,
\* whatever the answer; an entry that deletes a parameter changes nothing.
ValueAfter(list, name, before) ==
  LET sets == {i \in DOMAIN list : list[i].name = name /\ list[i].value # "deleted"}
  IN  IF sets = {} THEN before
      ELSE list[CHOOSE i \in sets : \A j \in sets : j <= i].value = "true"

SetReflexParameters(list) ==
  /\ enabled' = {k \in Enableable : ValueAfter(list, k, k \in enabled)}
  /\ reflexes_enabled' = ValueAfter(list, "reflexes_enabled", reflexes_enabled)
  /\ UNCHANGED <<robot, reflex, last_hazards, last_trigger, continuous, last_reflex_cmd,
                 reflex_node_up>>

-----------------------------------------------------------------------------
\* Time passes, and outside a reflex the robot is driven by someone else.
ReflexTimePasses ==
  /\ \/ reflex.running /\ ~reflex.overdue
        /\ reflex' = [reflex EXCEPT !.overdue = TRUE] /\ UNCHANGED continuous
     \/ continuous.known /\ ~continuous.overdue
        /\ continuous' = [continuous EXCEPT !.overdue = TRUE] /\ UNCHANGED reflex
  /\ UNCHANGED <<robot, last_hazards, last_trigger, last_reflex_cmd, enabled,
                 reflexes_enabled, reflex_node_up>>

DrivenElsewhere ==
  /\ ~reflex.running
  /\ robot' \in {robot - 1, robot + 1} \cap Track
  /\ UNCHANGED <<reflex, last_hazards, last_trigger, continuous, last_reflex_cmd, enabled,
                 reflexes_enabled, reflex_node_up>>

-----------------------------------------------------------------------------
ReflexCallbacks ==
  /\ reflex_node_up
  /\ \/ \E msg \in SUBSET ReflexHazards : UpdateHazards(msg)
     \/ \E list \in ReflexLists : SetReflexParameters(list)
     \/ DrivenElsewhere

ReflexTick ==
  /\ reflex_node_up
  /\ \E side \in [{h \in last_hazards : KindOf[h] = "cliff"} -> Sides], obeyed \in BOOLEAN :
       ExecuteManoeuvre(side, obeyed)

ReflexManNext == ReflexCallbacks \/ ReflexTick \/ ReflexTimePasses

ReflexManSpec == ReflexManInit /\ [][ReflexManNext]_reflexManVars

\* A reflex backs away at most one unit further than MAX_REFLEX_DISTANCE, wherever it
\* started and whatever it met: the check runs on every control tick, but only from the
\* tick after the one that first sees the robot behind its start.
StaysWithinReflexDistance ==
  reflex.running => Away(robot, reflex.start) <= MaxReflex + 1

\* A reflex that has not executed yet has no command of an earlier one to repeat:
\* last_reflex_cmd_ belongs to the running reflex.
CommandDiesWithReflex == ~reflex.running => last_reflex_cmd = "none"

\* Reflexes that follow each other without the hazards ever clearing do not move the robot
\* once their common time is over, although each has time of its own left.
NoMotionAfterContinuousTime ==
  [][continuous.overdue /\ continuous'.overdue /\ reflex.running => robot' = robot]_reflexManVars

\* A reflex does not hold the robot forever, even one that has nothing to escape from and
\* no command to repeat.
ReflexEnds == reflex.running ~> (~reflex.running \/ ~reflex_node_up)

\* A reflex is contained: in its distance, and its command in itself.
ReflexIsContained == StaysWithinReflexDistance /\ CommandDiesWithReflex
=============================================================================
