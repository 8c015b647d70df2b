------------------------ MODULE MCMotionControlNode -------------------------
(***************************************************************************)
(* The motion control node and, on its own, the manoeuvre of a reflex. As  *)
(* in MCRobot, the variable part says what a behavior is about: the node   *)
(* between a teleoperation client and its goals ("teleop"), the node that  *)
(* drives both ways and counts the way back ("backup"), or a reflex.       *)
(***************************************************************************)
EXTENDS MotionControlNode, ReflexManoeuvre

CONSTANTS dock, bump, cliff

VARIABLE part

nodeRunVars == <<part, allVars, reflexManVars>>

-----------------------------------------------------------------------------
(* Values of the constants                                                 *)

MCServerOf == [g \in Goals |-> "dock"]
MCTypeOf == [h \in Hazards |-> "cliff"]
MCSpeeds == {-1, 0, 1}

Mode(v) == [name |-> "safety_override", value |-> v]
ModeLists == {<<Mode("none")>>, <<Mode("backup_only")>>, <<[name |-> "reflexes"]>>}

MCKindOf == [h \in ReflexHazards |-> IF h = bump THEN "bump" ELSE "cliff"]
Setting(n, v) == [name |-> n, value |-> v]
MCReflexLists == {<<Setting("bump", "false")>>,
                  <<Setting("bump", "true"), Setting("bump", "deleted")>>}

-----------------------------------------------------------------------------
MCInit ==
  /\ part \in {"teleop", "backup", "reflex"}
  /\ NodeInit /\ ReflexManInit
  /\ part = "backup" \/ safety_override_mode = "none"
  /\ part # "reflex"
       \/ ~(current_behavior.stop_on_new_behavior \/ current_behavior.apply_backup_limits)

\* Teleoperation is checked on a robot that is told to drive forward and stays where it is, with
\* dock goals that never find the dock.
Teleop ==
  /\ part = "teleop" /\ NodeNext
  /\ ~is_docked' /\ pose' = pose /\ UNCHANGED safety_override_mode
  /\ cmd_out' >= 0 /\ last_teleop_cmd' >= 0
  /\ UNCHANGED reflexManVars

\* The backup buffer is checked without goals, away from the dock and without emergency stops,
\* which it does not read, and with reflexes that end when their time is up.
Backup ==
  /\ part = "backup" /\ NodeNext
  /\ UNCHANGED <<goal_status, is_docked, sees_dock, e_stop_engaged, arrived>>
  /\ UNCHANGED reflexManVars

Reflex == part = "reflex" /\ ReflexManNext /\ UNCHANGED allVars

\* The control timer fires and time passes.
NodeFairness ==
  /\ WF_allVars(part # "reflex" /\ ControlRobot)
  /\ WF_allVars(part # "reflex" /\ TeleopExpires)
  /\ WF_reflexManVars(part = "reflex" /\ ReflexTick)
  /\ WF_reflexManVars(part = "reflex" /\ ReflexTimePasses)

MCSpec ==
  MCInit /\ [][UNCHANGED part /\ (Teleop \/ Backup \/ Reflex)]_nodeRunVars /\ NodeFairness
=============================================================================
