--------------------------- MODULE ReflexTrigger ----------------------------
(***************************************************************************)
(* When a reflex starts and ends (update_hazards and the end conditions of *)
(* execute_reflex in reflex_behavior.cpp). Whether the robot moves, and    *)
(* whether the distance travelled ends the reflex, is the environment's    *)
(* choice here; the manoeuvre itself is in ReflexManoeuvre.                *)
(***************************************************************************)
EXTENDS BehaviorsScheduler

CONSTANTS
  Hazards,         \* hazards: a type seen at a frame
  TypeOf,          \* the type of each hazard
  EnabledReflexes  \* hazard types whose reflex is enabled; {} also when
                   \* reflexes_enabled is false

HazardTypes == {"backup_limit", "bump", "cliff", "stall", "wheel_drop", "object_proximity"}

ASSUME HazardAssumption == /\ TypeOf \in [Hazards -> HazardTypes]
                           /\ EnabledReflexes \subseteq HazardTypes

VARIABLES
  hazards,               \* current_state_.hazards
  running_reflex,        \* running_reflex_
  last_trigger_hazards,  \* last_trigger_hazards_
  continuous_start_set,  \* continuous_reflex_start_time_ was assigned: until
                         \* then it is a time of another clock
  reflex_overdue,        \* max_reflex_runtime_ has passed since reflex_start_time_
  node_up                \* no exception has escaped a callback

reflexVars == <<hazards, running_reflex, last_trigger_hazards, continuous_start_set,
                reflex_overdue, node_up>>

ReflexTypeOK == /\ hazards \subseteq Hazards
                /\ running_reflex \in BOOLEAN
                /\ last_trigger_hazards \subseteq Hazards
                /\ continuous_start_set \in BOOLEAN
                /\ reflex_overdue \in BOOLEAN
                /\ node_up \in BOOLEAN

ReflexInit == /\ hazards = {}
              /\ running_reflex = FALSE
              /\ last_trigger_hazards = {}
              /\ continuous_start_set = FALSE
              /\ reflex_overdue = FALSE
              /\ node_up = TRUE

Seen(types) == \E h \in hazards : TypeOf[h] \in types
ActiveHazards(msg) == {h \in msg : TypeOf[h] \in EnabledReflexes}

\* update_hazards leaves apply_backup_limits unset: either value
ReflexBehaviors == [ server : {"reflex"}, goal : {NoGoal},
                     stop_on_new_behavior : {FALSE}, apply_backup_limits : BOOLEAN ]

\* The reflex takes the slot; it starts a new continuous run unless the previous
\* trigger's hazards were still there.
StartReflex ==
  /\ \E b \in ReflexBehaviors : TakeSlot(b, drive_goal_running, goal_status)
  /\ running_reflex' = TRUE
  /\ reflex_overdue' = FALSE
  /\ continuous_start_set' = (continuous_start_set \/ last_trigger_hazards = {})

\* update_hazards finds no reflex running: `active` are the hazards of the
\* message whose reflex is enabled.
TriggerReflex(active) ==
  \/ /\ active = {}
     /\ last_trigger_hazards' = {}
     /\ UNCHANGED <<schedulerVars, running_reflex, continuous_start_set, reflex_overdue>>
  \/ /\ active \cap last_trigger_hazards # {}
     /\ continuous_start_set' = TRUE
     /\ UNCHANGED <<schedulerVars, running_reflex, last_trigger_hazards, reflex_overdue>>
  \/ /\ active # {}
     /\ active \cap last_trigger_hazards = {}
     /\ last_trigger_hazards' = active
     /\ \/ StartReflex
        \/ /\ ~AcceptsBehavior
           /\ UNCHANGED <<schedulerVars, running_reflex, continuous_start_set, reflex_overdue>>

\* hazard_vector_callback, with update_hazards
HazardVectorCallback(msg, moving) ==
  /\ hazards' = msg
  /\ \/ /\ ~running_reflex /\ moving
        /\ TriggerReflex(ActiveHazards(msg))
     \/ /\ running_reflex \/ ~moving
        /\ UNCHANGED <<schedulerVars, running_reflex, last_trigger_hazards,
                       continuous_start_set, reflex_overdue>>
  /\ UNCHANGED node_up

\* execute_reflex. `finished`: the hazard cleared or a distance or the continuous
\* time was exceeded. Within max_reflex_runtime_ the continuous start time is
\* subtracted from now: if it was never assigned, the subtraction throws and the
\* exception ends the node.
ExecuteReflex(finished) ==
  /\ \/ /\ continuous_start_set \/ reflex_overdue
        /\ running_reflex' = ~(finished \/ reflex_overdue)
        /\ UNCHANGED node_up
     \/ /\ ~continuous_start_set
        /\ ~reflex_overdue
        /\ node_up' = FALSE
        /\ UNCHANGED running_reflex
  /\ UNCHANGED <<drive_goal_running, goal_status, hazards, last_trigger_hazards,
                 continuous_start_set, reflex_overdue>>

ReflexRuntimeElapses ==
  /\ running_reflex
  /\ ~reflex_overdue
  /\ reflex_overdue' = TRUE
  /\ UNCHANGED <<schedulerVars, hazards, running_reflex, last_trigger_hazards,
                 continuous_start_set, node_up>>
=============================================================================
