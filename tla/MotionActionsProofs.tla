------------------------ MODULE MotionActionsProofs -------------------------
(***************************************************************************)
(* Proofs about MotionActions, for any set of goals, any servers they are  *)
(* sent to and any hazards.                                                *)
(***************************************************************************)
EXTENDS MotionActions, TLAPS

\* Every goal being served is the one whose handle the slot holds.
ActiveGoalHeld == \A g \in Goals : Active(g) => current_behavior.goal = g

\* What the slot was given: its server is its goal's, and only drive goals may
\* be stopped by a new behavior.
SlotWellFormed ==
  /\ current_behavior.goal \in Goals =>
       current_behavior.server = ServerOf[current_behavior.goal]
  /\ has_behavior =>
       /\ current_behavior.server = "reflex" <=> current_behavior.goal = NoGoal
       /\ current_behavior.server # "none"
       /\ current_behavior.stop_on_new_behavior <=> current_behavior.server \in DriveServers

\* The inductive invariant.
IInv == /\ TypeOK
        /\ SlotWellFormed
        /\ ActiveGoalHeld
        /\ RunsLiveGoal
        /\ FlagsFollowSlot
        /\ UninterruptibleGoalScheduled

USE DEF DriveServers, DockServers, ActionServers, ActiveStates, FinalStates, GoalStates

LEMMA InitEstablishesIInv == Init => IInv
<1> SUFFICES ASSUME Init PROVE IInv
  OBVIOUS
<1> USE GoalAssumption, HazardAssumption
<1>1. TypeOK
  BY DEF Init, TypeOK, SchedulerInit, DockInit, WallFollowInit, ReflexInit,
         SchedulerTypeOK, DockTypeOK, WallFollowTypeOK, ReflexTypeOK, Behaviors
<1>2. SlotWellFormed /\ ActiveGoalHeld /\ RunsLiveGoal /\ FlagsFollowSlot
        /\ UninterruptibleGoalScheduled
  BY DEF Init, SchedulerInit, DockInit, WallFollowInit, ReflexInit, SlotWellFormed,
         ActiveGoalHeld, RunsLiveGoal, FlagsFollowSlot, UninterruptibleGoalScheduled, Active
<1> QED
  BY <1>1, <1>2 DEF IInv


(***************************************************************************)
(* The slot: what set_behavior, a refusal and a change of one goal's       *)
(* status do to the invariant, whoever asks.                               *)
(***************************************************************************)

\* The part of the invariant that speaks of the slot and the goals only.
SlotInv == SlotWellFormed /\ ActiveGoalHeld /\ RunsLiveGoal /\ UninterruptibleGoalScheduled

\* A behavior fit for the slot, with the goals as its server has left them.
Fits(b, status) ==
  /\ b \in Behaviors
  /\ b.stop_on_new_behavior <=> b.server \in DriveServers
  /\ \/ /\ b.goal \in Goals
        /\ b.server = ServerOf[b.goal]
        /\ goal_status[b.goal] = "idle"
        /\ status = [goal_status EXCEPT ![b.goal] = "executing"]
     \/ /\ b.goal = NoGoal
        /\ b.server = "reflex"
        /\ status = goal_status

\* The behavior that takes the slot leaves the slot and the goals consistent: the
\* goal it replaces is ended, whether its behavior was running or had only kept
\* its handle.
LEMMA TakeSlotKeepsSlotInv ==
  ASSUME SchedulerTypeOK, SlotInv,
         NEW b, NEW status, NEW running \in [DriveServers -> BOOLEAN],
         Fits(b, status), TakeSlot(b, running, status)
  PROVE  SchedulerTypeOK' /\ SlotInv'
<1> USE GoalAssumption DEF TakeSlot, Fits, SlotInv
<1>1. SchedulerTypeOK'
  <2>1. has_behavior' \in BOOLEAN /\ current_behavior' \in Behaviors
    OBVIOUS
  <2>2. drive_goal_running' \in [DriveServers -> BOOLEAN]
    BY DEF AfterCleanup, SchedulerTypeOK
  <2>3. goal_status' \in [Goals -> GoalStates]
    BY DEF AfterDisplacement, Active, SchedulerTypeOK
  <2> QED
    BY <2>1, <2>2, <2>3 DEF SchedulerTypeOK
<1>2. \A g \in Goals : Active(g)' <=> g = b.goal
  BY DEF Active, AfterDisplacement, ActiveGoalHeld, SchedulerTypeOK
<1>3. SlotWellFormed'
  BY DEF SlotWellFormed, Behaviors
<1> QED
  BY <1>1, <1>2, <1>3 DEF ActiveGoalHeld, RunsLiveGoal, UninterruptibleGoalScheduled, Behaviors

\* A goal whose behavior does not get the slot changes nothing else.
LEMMA IdleGoalEndKeepsSlotInv ==
  ASSUME SchedulerTypeOK, SlotInv,
         NEW g \in Goals, goal_status[g] = "idle", NEW outcome \in FinalStates,
         goal_status' = [goal_status EXCEPT ![g] = outcome],
         UNCHANGED <<has_behavior, current_behavior>>
  PROVE  goal_status' \in [Goals -> GoalStates] /\ SlotInv'
<1>1. \A h \in Goals : Active(h)' <=> Active(h)
  BY DEF Active, SchedulerTypeOK
<1>2. \A h : Active(h) => h \in Goals
  BY DEF Active
<1>3. \A h : Active(h)' => h \in Goals
  BY DEF Active
<1> QED
  BY <1>1, <1>2, <1>3 DEF SlotInv, SlotWellFormed, ActiveGoalHeld, RunsLiveGoal,
     UninterruptibleGoalScheduled, SchedulerTypeOK

\* The execution that ends the slot's goal gives the slot up.
LEMMA EndOfGoalKeepsSlotInv ==
  ASSUME SchedulerTypeOK, SlotInv, has_behavior,
         NEW outcome \in FinalStates, current_behavior.goal \in Goals,
         goal_status' = [goal_status EXCEPT ![current_behavior.goal] = outcome],
         has_behavior' = FALSE, UNCHANGED current_behavior
  PROVE  goal_status' \in [Goals -> GoalStates] /\ SlotInv'
<1>1. \A h \in Goals : ~Active(h)'
  BY DEF Active, SchedulerTypeOK, SlotInv, ActiveGoalHeld
<1> QED
  BY <1>1 DEF SlotInv, SlotWellFormed, ActiveGoalHeld, RunsLiveGoal,
     UninterruptibleGoalScheduled, SchedulerTypeOK

(***************************************************************************)
(* One lemma per action.                                                   *)
(***************************************************************************)
LEMMA DriveGoalStep ==
  ASSUME IInv, NEW g \in Goals, DriveGoal(g)
  PROVE  IInv'
<1> USE GoalAssumption DEF IInv, DriveGoal, HandleDriveGoalAccepted, Sends, TypeOK
<1>1. DockTypeOK' /\ WallFollowTypeOK' /\ ReflexTypeOK' /\ arrived' \in BOOLEAN
  BY DEF dockVars, wfVars, reflexVars, DockTypeOK, WallFollowTypeOK, ReflexTypeOK
<1>2. SlotInv
  BY DEF SlotInv
<1>3. CASE TakeSlot(DriveBehavior(g), [drive_goal_running EXCEPT ![ServerOf[g]] = TRUE],
                    [goal_status EXCEPT ![g] = "executing"])
  <2>1. Fits(DriveBehavior(g), [goal_status EXCEPT ![g] = "executing"])
    BY DEF Fits, DriveBehavior, Behaviors
  <2>2. SchedulerTypeOK' /\ SlotInv'
    BY <1>2, <1>3, <2>1, TakeSlotKeepsSlotInv DEF SchedulerTypeOK
  <2>3. FlagsFollowSlot'
    BY <1>3 DEF TakeSlot, DriveBehavior, FlagsFollowSlot, SlotWellFormed, AfterCleanup,
       AcceptsBehavior, SchedulerTypeOK, dockVars, wfVars, reflexVars
  <2> QED
    BY <1>1, <2>2, <2>3 DEF SlotInv
<1>4. CASE /\ RefuseGoal(g)
           /\ drive_goal_running' = [drive_goal_running EXCEPT ![ServerOf[g]] = FALSE]
  <2>1. goal_status' \in [Goals -> GoalStates] /\ SlotInv'
    BY <1>2, <1>4, IdleGoalEndKeepsSlotInv DEF RefuseGoal
  <2>2. SchedulerTypeOK'
    BY <1>4, <2>1 DEF SchedulerTypeOK, RefuseGoal
  <2>3. FlagsFollowSlot'
    BY <1>4 DEF RefuseGoal, FlagsFollowSlot, SchedulerTypeOK, dockVars, wfVars, reflexVars
  <2> QED
    BY <1>1, <2>1, <2>2, <2>3 DEF SlotInv
<1> QED
  BY <1>3, <1>4

LEMMA DockGoalStep ==
  ASSUME IInv, NEW g \in Goals, DockGoal(g)
  PROVE  IInv'
<1> USE GoalAssumption DEF IInv, DockGoal, TypeOK
<1>1. WallFollowTypeOK' /\ ReflexTypeOK' /\ arrived' \in BOOLEAN
  BY DEF wfVars, reflexVars, WallFollowTypeOK, ReflexTypeOK
<1>2. SlotInv /\ goal_status[g] = "idle"
  BY DEF SlotInv, HandleDockGoalRejected, HandleDockGoalAccepted, DockGoalAllowed, Sends
<1>3. CASE HandleDockGoalRejected(g)
  <2>1. goal_status' \in [Goals -> GoalStates] /\ SlotInv'
    BY <1>2, <1>3, IdleGoalEndKeepsSlotInv DEF HandleDockGoalRejected
  <2>2. SchedulerTypeOK' /\ DockTypeOK' /\ FlagsFollowSlot'
    BY <1>3, <2>1 DEF HandleDockGoalRejected, SchedulerTypeOK, DockTypeOK, FlagsFollowSlot,
       dockVars, wfVars, reflexVars
  <2> QED
    BY <1>1, <2>1, <2>2 DEF SlotInv
<1>4. CASE HandleDockGoalAccepted(g)
  <2> USE <1>4 DEF HandleDockGoalAccepted
  <2>1. DockTypeOK'
    BY DEF DockTypeOK
  <2>2. CASE TakeSlot(DockBehavior(g), drive_goal_running,
                      [goal_status EXCEPT ![g] = "executing"]) /\ running_dock_action' = TRUE
    <3>1. Fits(DockBehavior(g), [goal_status EXCEPT ![g] = "executing"])
      BY <1>2 DEF Fits, DockBehavior, Behaviors, DockGoalAllowed, Sends
    <3>2. SchedulerTypeOK' /\ SlotInv'
      BY <1>2, <2>2, <3>1, TakeSlotKeepsSlotInv DEF SchedulerTypeOK
    <3>3. FlagsFollowSlot'
      BY <2>2 DEF TakeSlot, DockBehavior, DockGoalAllowed, Sends, FlagsFollowSlot,
         SlotWellFormed, AfterCleanup, AcceptsBehavior, SchedulerTypeOK, wfVars, reflexVars
    <3> QED
      BY <1>1, <2>1, <3>2, <3>3 DEF SlotInv
  <2>3. CASE RefuseGoal(g) /\ running_dock_action' = FALSE /\ UNCHANGED drive_goal_running
    <3>1. goal_status' \in [Goals -> GoalStates] /\ SlotInv'
      BY <1>2, <2>3, IdleGoalEndKeepsSlotInv DEF RefuseGoal
    <3>2. SchedulerTypeOK' /\ FlagsFollowSlot'
      BY <2>3, <3>1 DEF RefuseGoal, DockGoalAllowed, SchedulerTypeOK, FlagsFollowSlot,
         wfVars, reflexVars
    <3> QED
      BY <1>1, <2>1, <3>1, <3>2 DEF SlotInv
  <2> QED
    BY <2>2, <2>3
<1> QED
  BY <1>3, <1>4

LEMMA WallFollowGoalStep ==
  ASSUME IInv, NEW g \in Goals, WallFollowGoal(g)
  PROVE  IInv'
<1> USE GoalAssumption DEF IInv, WallFollowGoal, TypeOK
<1>1. DockTypeOK' /\ ReflexTypeOK' /\ arrived' \in BOOLEAN
  BY DEF dockVars, reflexVars, DockTypeOK, ReflexTypeOK
<1>2. SlotInv /\ goal_status[g] = "idle" /\ ServerOf[g] = "wall_follow"
  BY DEF SlotInv, HandleWallFollowRejected, HandleWallFollowInvalidSide,
         HandleWallFollowAccepted, Sends
<1>3. CASE HandleWallFollowRejected(g) \/ HandleWallFollowInvalidSide(g)
  <2>1. goal_status' \in [Goals -> GoalStates] /\ SlotInv'
    BY <1>2, <1>3, IdleGoalEndKeepsSlotInv DEF HandleWallFollowRejected, HandleWallFollowInvalidSide
  <2>2. SchedulerTypeOK' /\ WallFollowTypeOK' /\ FlagsFollowSlot'
    BY <1>3, <2>1 DEF HandleWallFollowRejected, HandleWallFollowInvalidSide, SchedulerTypeOK,
       WallFollowTypeOK, FlagsFollowSlot, dockVars, wfVars, reflexVars
  <2> QED
    BY <1>1, <2>1, <2>2 DEF SlotInv
<1>4. CASE HandleWallFollowAccepted(g)
  <2> USE <1>4 DEF HandleWallFollowAccepted
  <2>1. WallFollowTypeOK'
    BY DEF WallFollowTypeOK
  <2>2. CASE TakeSlot(WallFollowBehavior(g), drive_goal_running,
                      [goal_status EXCEPT ![g] = "executing"]) /\ wf_running' = TRUE
    <3>1. Fits(WallFollowBehavior(g), [goal_status EXCEPT ![g] = "executing"])
      BY <1>2 DEF Fits, WallFollowBehavior, Behaviors
    <3>2. SchedulerTypeOK' /\ SlotInv'
      BY <1>2, <2>2, <3>1, TakeSlotKeepsSlotInv DEF SchedulerTypeOK
    <3>3. FlagsFollowSlot'
      BY <2>2 DEF TakeSlot, WallFollowBehavior, FlagsFollowSlot,
         SlotWellFormed, AfterCleanup, AcceptsBehavior, SchedulerTypeOK, dockVars, reflexVars
    <3> QED
      BY <1>1, <2>1, <3>2, <3>3 DEF SlotInv
  <2>3. CASE RefuseGoal(g) /\ UNCHANGED <<drive_goal_running, wf_running>>
    <3>1. goal_status' \in [Goals -> GoalStates] /\ SlotInv'
      BY <1>2, <2>3, IdleGoalEndKeepsSlotInv DEF RefuseGoal
    <3>2. SchedulerTypeOK' /\ FlagsFollowSlot'
      BY <2>3, <3>1 DEF RefuseGoal, SchedulerTypeOK, FlagsFollowSlot, dockVars, reflexVars
    <3> QED
      BY <1>1, <2>1, <3>1, <3>2 DEF SlotInv
  <2> QED
    BY <2>2, <2>3
<1> QED
  BY <1>3, <1>4

LEMMA CancelStep ==
  ASSUME IInv, NEW g \in Goals, Cancel(g)
  PROVE  IInv'
<1> USE DEF IInv, Cancel, HandleCancel, TypeOK, dockVars, wfVars, reflexVars
<1>1. SchedulerTypeOK' /\ DockTypeOK' /\ WallFollowTypeOK' /\ ReflexTypeOK'
  BY DEF SchedulerTypeOK, DockTypeOK, WallFollowTypeOK, ReflexTypeOK
<1>2. \A h : Active(h)' <=> Active(h)
  BY DEF Active, SchedulerTypeOK
<1> QED
  BY <1>1, <1>2 DEF SlotWellFormed, ActiveGoalHeld, RunsLiveGoal, FlagsFollowSlot,
     UninterruptibleGoalScheduled

LEMMA HazardVectorStep ==
  ASSUME IInv, NEW msg \in SUBSET Hazards, NEW moving \in BOOLEAN, HazardVector(msg, moving)
  PROVE  IInv'
<1> USE GoalAssumption DEF IInv, HazardVector, HazardVectorCallback, TypeOK
<1>1. DockTypeOK' /\ WallFollowTypeOK' /\ arrived' \in BOOLEAN
  BY DEF dockVars, wfVars, DockTypeOK, WallFollowTypeOK
<1>2. SlotInv
  BY DEF SlotInv
<1>3. ActiveHazards(msg) \subseteq Hazards
  BY DEF ActiveHazards
<1>4. CASE UNCHANGED <<schedulerVars, running_reflex>>
  <2>1. ReflexTypeOK'
    BY <1>3, <1>4 DEF ReflexTypeOK, TriggerReflex, StartReflex
  <2> QED
    BY <1>1, <1>4, <2>1 DEF schedulerVars, dockVars, wfVars, SchedulerTypeOK, SlotWellFormed,
       ActiveGoalHeld, RunsLiveGoal, FlagsFollowSlot, UninterruptibleGoalScheduled, Active
<1>5. CASE ~running_reflex /\ StartReflex /\ last_trigger_hazards' = ActiveHazards(msg)
  <2> USE <1>5 DEF StartReflex
  <2>1. PICK b \in ReflexBehaviors : TakeSlot(b, drive_goal_running, goal_status)
    OBVIOUS
  <2>2. Fits(b, goal_status)
    BY DEF Fits, ReflexBehaviors, Behaviors
  <2>3. SchedulerTypeOK' /\ SlotInv'
    BY <1>2, <2>1, <2>2, TakeSlotKeepsSlotInv DEF SchedulerTypeOK
  <2>4. FlagsFollowSlot'
    BY <2>1 DEF TakeSlot, ReflexBehaviors, FlagsFollowSlot, SlotWellFormed, AfterCleanup,
       AcceptsBehavior, SchedulerTypeOK, dockVars, wfVars
  <2>5. ReflexTypeOK'
    BY <1>3 DEF ReflexTypeOK
  <2> QED
    BY <1>1, <2>3, <2>4, <2>5 DEF SlotInv
<1> QED
  BY <1>4, <1>5 DEF TriggerReflex

LEMMA EnvironmentStep ==
  ASSUME IInv, DockStatus \/ RobotPose \/ TimePasses \/ UNCHANGED vars
  PROVE  IInv'
<1> USE DEF IInv, TypeOK, DockTypeOK, WallFollowTypeOK, ReflexTypeOK
<1> DEFINE Types == DockTypeOK /\ WallFollowTypeOK /\ ReflexTypeOK /\ arrived \in BOOLEAN
           Flags == <<schedulerVars, running_dock_action, wf_running, running_reflex>>
<1>1. Types' /\ UNCHANGED Flags
  <2>1. CASE DockStatus
    BY <2>1 DEF DockStatus, DockStatusCallback, wfVars, reflexVars
  <2>2. CASE RobotPose
    BY <2>2 DEF RobotPose, dockVars, wfVars, reflexVars
  <2>3. CASE UNCHANGED vars
    BY <2>3 DEF vars, dockVars, wfVars, reflexVars
  <2>4. CASE TimePasses
    <3>1. CASE DockRuntimeElapses /\ UNCHANGED <<wfVars, reflexVars, arrived>>
      BY <3>1 DEF DockRuntimeElapses, wfVars, reflexVars
    <3>2. CASE WallFollowRuntimeElapses /\ UNCHANGED <<dockVars, reflexVars, arrived>>
      BY <3>2 DEF WallFollowRuntimeElapses, dockVars, reflexVars
    <3>3. CASE ReflexRuntimeElapses /\ UNCHANGED <<dockVars, wfVars, arrived>>
      BY <3>3 DEF ReflexRuntimeElapses, dockVars, wfVars
    <3> QED
      BY <2>4, <3>1, <3>2, <3>3 DEF TimePasses
  <2> QED
    BY <2>1, <2>2, <2>3, <2>4
<1> QED
  BY <1>1 DEF schedulerVars, SchedulerTypeOK, SlotWellFormed, ActiveGoalHeld, RunsLiveGoal,
     FlagsFollowSlot, UninterruptibleGoalScheduled, Active

LEMMA RunBehaviorStep ==
  ASSUME IInv, RunBehavior
  PROVE  IInv'
<1> USE GoalAssumption DEF IInv, RunBehavior, TypeOK
<1> DEFINE g == current_behavior.goal
           s == current_behavior.server
<1>1. SlotInv /\ has_behavior /\ UNCHANGED current_behavior
  BY DEF SlotInv
<1>2. s # "reflex" => g \in Goals /\ s = ServerOf[g]
  BY <1>1 DEF SlotWellFormed, SchedulerTypeOK, Behaviors
<1>3. CASE RunDriveGoal
  <2> USE <1>3 DEF RunDriveGoal, ExecuteDriveGoal
  <2>1. g \in Goals /\ s = ServerOf[g] /\ s \in DriveServers
    BY <1>2
  <2>2. UNCHANGED <<dockVars, wfVars, reflexVars, arrived>>
    OBVIOUS
  <2>3. DockTypeOK' /\ WallFollowTypeOK' /\ ReflexTypeOK' /\ arrived' \in BOOLEAN
    BY <2>2 DEF dockVars, wfVars, reflexVars, DockTypeOK, WallFollowTypeOK, ReflexTypeOK
  <2>4. CASE \E outcome \in FinalStates : EndDriveGoal(g, outcome)
    <3>1. PICK outcome \in FinalStates : EndDriveGoal(g, outcome)
      BY <2>4
    <3>2. has_behavior' = FALSE /\ drive_goal_running' \in [DriveServers -> BOOLEAN]
      BY <2>1, <3>1 DEF EndDriveGoal, SchedulerTypeOK
    <3>3. goal_status' \in [Goals -> GoalStates] /\ SlotInv'
      BY <1>1, <2>1, <3>1, <3>2, EndOfGoalKeepsSlotInv DEF EndDriveGoal
    <3>4. SchedulerTypeOK'
      BY <1>1, <3>2, <3>3 DEF SchedulerTypeOK
    <3>5. FlagsFollowSlot'
      BY <1>1, <2>1, <2>2, <3>1, <3>2 DEF FlagsFollowSlot, EndDriveGoal, SchedulerTypeOK,
         dockVars, wfVars, reflexVars
    <3> QED
      BY <2>3, <3>3, <3>4, <3>5 DEF SlotInv
  <2>5. CASE UNCHANGED <<goal_status, drive_goal_running>>
    <3>1. \A h : Active(h)' <=> Active(h)
      BY <2>5 DEF Active
    <3>2. has_behavior' = drive_goal_running[s]
      BY <2>5, <1>1
    <3>3. has_behavior' \in BOOLEAN
      BY <2>1, <3>2 DEF SchedulerTypeOK
    <3>4. SchedulerTypeOK'
      BY <1>1, <2>5, <3>3 DEF SchedulerTypeOK
    <3>5. SlotInv'
      BY <1>1, <2>1, <3>1 DEF SlotInv, SlotWellFormed, ActiveGoalHeld, RunsLiveGoal,
         UninterruptibleGoalScheduled
    <3>6. FlagsFollowSlot'
      BY <1>1, <2>1, <2>2, <2>5, <3>2 DEF FlagsFollowSlot, dockVars, wfVars, reflexVars
    <3> QED
      BY <2>3, <3>4, <3>5, <3>6 DEF SlotInv
  <2> QED
    BY <2>4, <2>5
<1>4. CASE RunDockGoal
  <2> USE <1>4 DEF RunDockGoal, ExecuteDockGoal
  <2>1. g \in Goals /\ s = ServerOf[g] /\ s \in DockServers
    BY <1>2
  <2>2. DockTypeOK' /\ WallFollowTypeOK' /\ ReflexTypeOK' /\ arrived' \in BOOLEAN
    BY DEF EndDockGoal, wfVars, reflexVars, DockTypeOK, WallFollowTypeOK, ReflexTypeOK
  <2>3. CASE \E outcome \in FinalStates : EndDockGoal(g, outcome)
    <3>1. PICK outcome \in FinalStates : EndDockGoal(g, outcome)
      BY <2>3
    <3>2. has_behavior' = FALSE
      BY <3>1 DEF EndDockGoal
    <3>3. goal_status' \in [Goals -> GoalStates] /\ SlotInv'
      BY <1>1, <2>1, <3>1, <3>2, EndOfGoalKeepsSlotInv DEF EndDockGoal
    <3>4. SchedulerTypeOK' /\ FlagsFollowSlot'
      BY <1>1, <2>1, <3>1, <3>2, <3>3 DEF SchedulerTypeOK, FlagsFollowSlot, EndDockGoal,
         wfVars, reflexVars
    <3> QED
      BY <2>2, <3>3, <3>4 DEF SlotInv
  <2>4. CASE UNCHANGED <<goal_status, running_dock_action>>
    <3>1. UNCHANGED has_behavior
      BY <1>1, <2>1, <2>4 DEF FlagsFollowSlot, DockTypeOK, SchedulerTypeOK
    <3> QED
      BY <1>1, <2>2, <2>4, <3>1 DEF SchedulerTypeOK, SlotWellFormed, ActiveGoalHeld,
         RunsLiveGoal, FlagsFollowSlot, UninterruptibleGoalScheduled, Active, wfVars, reflexVars
  <2> QED
    BY <2>3, <2>4 DEF DockOutcome
<1>5. CASE RunWallFollow
  <2> USE <1>5 DEF RunWallFollow, ExecuteWallFollow
  <2>1. g \in Goals /\ s = ServerOf[g] /\ s = "wall_follow"
    BY <1>2
  <2>2. DockTypeOK' /\ WallFollowTypeOK' /\ ReflexTypeOK' /\ arrived' \in BOOLEAN
    BY DEF EndWallFollow, dockVars, reflexVars, DockTypeOK, WallFollowTypeOK, ReflexTypeOK
  <2>3. CASE \E outcome \in FinalStates : EndWallFollow(g, outcome)
    <3>1. PICK outcome \in FinalStates : EndWallFollow(g, outcome)
      BY <2>3
    <3>2. has_behavior' = FALSE
      BY <3>1 DEF EndWallFollow
    <3>3. goal_status' \in [Goals -> GoalStates] /\ SlotInv'
      BY <1>1, <2>1, <3>1, <3>2, EndOfGoalKeepsSlotInv DEF EndWallFollow
    <3>4. SchedulerTypeOK' /\ FlagsFollowSlot'
      BY <1>1, <2>1, <3>1, <3>2, <3>3 DEF SchedulerTypeOK, FlagsFollowSlot, EndWallFollow,
         dockVars, reflexVars
    <3> QED
      BY <2>2, <3>3, <3>4 DEF SlotInv
  <2>4. CASE UNCHANGED <<goal_status, wf_running>>
    <3>1. UNCHANGED has_behavior
      BY <1>1, <2>1, <2>4 DEF FlagsFollowSlot, WallFollowTypeOK, SchedulerTypeOK
    <3> QED
      BY <1>1, <2>2, <2>4, <3>1 DEF SchedulerTypeOK, SlotWellFormed, ActiveGoalHeld,
         RunsLiveGoal, FlagsFollowSlot, UninterruptibleGoalScheduled, Active, dockVars, reflexVars
  <2> QED
    BY <2>3, <2>4
<1>6. CASE RunReflex
  <2> USE <1>6 DEF RunReflex, ExecuteReflex
  <2>1. s = "reflex" /\ g = NoGoal /\ running_reflex' \in BOOLEAN
    BY <1>1 DEF SlotWellFormed, ReflexTypeOK
  <2>2. /\ DockTypeOK' /\ WallFollowTypeOK' /\ ReflexTypeOK' /\ SchedulerTypeOK'
      /\ arrived' \in BOOLEAN
    BY <1>1, <2>1 DEF dockVars, wfVars, DockTypeOK, WallFollowTypeOK, ReflexTypeOK, SchedulerTypeOK
  <2>3. \A h : ~Active(h) /\ ~Active(h)'
    BY <2>1 DEF Active, ActiveGoalHeld
  <2> QED
    BY <1>1, <2>1, <2>2, <2>3 DEF SlotWellFormed, ActiveGoalHeld, RunsLiveGoal,
       FlagsFollowSlot, UninterruptibleGoalScheduled, dockVars, wfVars
<1> QED
  BY <1>3, <1>4, <1>5, <1>6

(***************************************************************************)
(* Theorems                                                                *)
(***************************************************************************)

\* The inductive invariant holds in every reachable state.
THEOREM Invariance == Spec => []IInv
<1>1. IInv /\ [Next]_vars => IInv'
  BY DriveGoalStep, DockGoalStep, WallFollowGoalStep, CancelStep, HazardVectorStep,
     EnvironmentStep, RunBehaviorStep DEF Next
<1> QED
  BY InitEstablishesIInv, <1>1, PTL DEF Spec

\* Every variable of the node keeps its type.
THEOREM TypeCorrectness == Spec => []TypeOK
<1>1. IInv => TypeOK
  BY DEF IInv
<1> QED
  BY Invariance, <1>1, PTL

\* At most one goal is being served, whatever is sent, cancelled or met.
THEOREM GoalsAreExclusive == Spec => []OneActiveGoal
<1>1. IInv => OneActiveGoal
  BY DEF IInv, ActiveGoalHeld, OneActiveGoal
<1> QED
  BY Invariance, <1>1, PTL

\* The control timer never executes a behavior whose goal has ended.
THEOREM RunningGoalIsLive == Spec => []RunsLiveGoal
<1>1. IInv => RunsLiveGoal
  BY DEF IInv
<1> QED
  BY Invariance, <1>1, PTL

\* No server is left blocked by a flag that outlives its behavior.
THEOREM FlagsAreAccurate == Spec => []FlagsFollowSlot
<1>1. IInv => FlagsFollowSlot
  BY DEF IInv
<1> QED
  BY Invariance, <1>1, PTL

\* Dock, undock and wall follow goals are never orphaned.
THEOREM UninterruptibleGoalsScheduled == Spec => []UninterruptibleGoalScheduled
<1>1. IInv => UninterruptibleGoalScheduled
  BY DEF IInv
<1> QED
  BY Invariance, <1>1, PTL

\* The slot, the goal it serves and the flags of the servers agree in every state.
THEOREM ServersAgree == Spec => []ServersAgreeWithSlot
BY RunningGoalIsLive, FlagsAreAccurate, UninterruptibleGoalsScheduled, PTL
   DEF ServersAgreeWithSlot

\* No step but an execution of its own takes the slot from a behavior that must not
\* be stopped: only set_behavior and run_behavior write the slot.
THEOREM RunningBehaviorIsKept == Spec => KeepsRunningCurrent
<1> DEFINE Kept == has_behavior /\ ~current_behavior.stop_on_new_behavior
                     => UNCHANGED <<has_behavior, current_behavior>> \/ RunBehavior
<1>1. [Next]_vars => [Kept]_vars
  <2> SUFFICES ASSUME Next, has_behavior, ~current_behavior.stop_on_new_behavior, ~RunBehavior
               PROVE  UNCHANGED <<has_behavior, current_behavior>>
    OBVIOUS
  <2>1. ~AcceptsBehavior
    BY DEF AcceptsBehavior
  <2>2. ASSUME NEW g \in Goals, DriveGoal(g) \/ DockGoal(g) \/ WallFollowGoal(g) \/ Cancel(g)
        PROVE  UNCHANGED <<has_behavior, current_behavior>>
    BY <2>1, <2>2 DEF DriveGoal, HandleDriveGoalAccepted, DockGoal, HandleDockGoalRejected,
       HandleDockGoalAccepted, WallFollowGoal, HandleWallFollowRejected,
       HandleWallFollowInvalidSide, HandleWallFollowAccepted, Cancel, HandleCancel,
       TakeSlot, RefuseGoal
  <2>3. ASSUME NEW msg, NEW moving, HazardVector(msg, moving)
        PROVE  UNCHANGED <<has_behavior, current_behavior>>
    BY <2>1, <2>3 DEF HazardVector, HazardVectorCallback, TriggerReflex, StartReflex, TakeSlot,
       schedulerVars
  <2>4. DockStatus \/ RobotPose \/ TimePasses => UNCHANGED <<has_behavior, current_behavior>>
    BY DEF DockStatus, DockStatusCallback, RobotPose, TimePasses, DockRuntimeElapses,
       WallFollowRuntimeElapses, ReflexRuntimeElapses, schedulerVars
  <2> QED
    BY <2>2, <2>3, <2>4 DEF Next
<1> QED
  BY <1>1, PTL DEF Spec, KeepsRunningCurrent

\* A goal ends once. The executions need the invariant for this: they end the goal
\* in the slot, which has not ended before.
THEOREM OutcomesAreFinal == Spec => OutcomeIsFinal
<1> DEFINE Final == \A g \in Goals : goal_status[g] \in FinalStates =>
                                       goal_status'[g] = goal_status[g]
<1>1. IInv /\ [Next]_vars => [Final]_vars
  <2> SUFFICES ASSUME IInv, Next, NEW g \in Goals, goal_status[g] \in FinalStates
               PROVE  goal_status'[g] = goal_status[g]
    OBVIOUS
  <2> USE GoalAssumption
  <2>1. SchedulerTypeOK /\ SlotWellFormed /\ RunsLiveGoal /\ ~Active(g) /\ goal_status[g] # "idle"
    BY DEF IInv, TypeOK, Active
  <2>2. ASSUME NEW h, NEW st,
               h # g, goal_status' = [goal_status EXCEPT ![h] = st]
        PROVE  goal_status'[g] = goal_status[g]
    BY <2>1, <2>2 DEF SchedulerTypeOK
  <2>3. ASSUME NEW status \in [Goals -> GoalStates], status[g] = goal_status[g],
               goal_status' = AfterDisplacement(status)
        PROVE  goal_status'[g] = goal_status[g]
    BY <2>1, <2>3 DEF AfterDisplacement, SchedulerTypeOK, Active
  <2>4. ASSUME NEW h \in Goals, DriveGoal(h) \/ DockGoal(h) \/ WallFollowGoal(h)
        PROVE  goal_status'[g] = goal_status[g]
    <3>1. goal_status[h] = "idle" /\ h # g
      BY <2>1, <2>4 DEF Sends, DriveGoal, HandleDriveGoalAccepted, DockGoal, HandleDockGoalRejected,
         HandleDockGoalAccepted, DockGoalAllowed, WallFollowGoal, HandleWallFollowRejected,
         HandleWallFollowInvalidSide, HandleWallFollowAccepted
    <3>2. /\ [goal_status EXCEPT ![h] = "executing"] \in [Goals -> GoalStates]
          /\ [goal_status EXCEPT ![h] = "executing"][g] = goal_status[g]
      BY <2>1, <3>1 DEF SchedulerTypeOK
    <3> QED
      BY <2>2, <2>3, <2>4, <3>1, <3>2 DEF DriveGoal, HandleDriveGoalAccepted, DockGoal,
         HandleDockGoalRejected, HandleDockGoalAccepted, WallFollowGoal, HandleWallFollowRejected,
         HandleWallFollowInvalidSide, HandleWallFollowAccepted, TakeSlot, RefuseGoal
  <2>5. ASSUME NEW h \in Goals, Cancel(h)
        PROVE  goal_status'[g] = goal_status[g]
    BY <2>1, <2>2, <2>5 DEF Cancel, HandleCancel
  <2>6. ASSUME NEW msg, NEW moving, HazardVector(msg, moving)
        PROVE  goal_status'[g] = goal_status[g]
    BY <2>1, <2>3, <2>6 DEF HazardVector, HazardVectorCallback, TriggerReflex, StartReflex,
       TakeSlot, schedulerVars, SchedulerTypeOK
  <2>7. CASE DockStatus \/ RobotPose \/ TimePasses
    BY <2>7 DEF DockStatus, DockStatusCallback, RobotPose, TimePasses, DockRuntimeElapses,
       WallFollowRuntimeElapses, ReflexRuntimeElapses, schedulerVars
  <2>8. CASE RunBehavior
    <3>1. current_behavior.server # "reflex" => current_behavior.goal # g
      BY <2>1, <2>8 DEF RunBehavior, SlotWellFormed, RunsLiveGoal
    <3> QED
      BY <2>2, <2>8, <3>1 DEF RunBehavior, RunDriveGoal, ExecuteDriveGoal, EndDriveGoal,
         RunDockGoal, ExecuteDockGoal, EndDockGoal, RunWallFollow, ExecuteWallFollow,
         EndWallFollow, RunReflex, ExecuteReflex
  <2> QED
    BY <2>4, <2>5, <2>6, <2>7, <2>8 DEF Next
<1> QED
  BY <1>1, Invariance, PTL DEF Spec, OutcomeIsFinal

\* A cancelled goal is never served again: its own execution ends it canceled, and
\* only a behavior that takes the slot from it can abort it first. The invariant is
\* needed for both: it says that an active goal is the one the slot holds.
THEOREM CancelsAreHonoured == Spec => CancelIsHonoured
<1> DEFINE Ended(g) == \/ goal_status'[g] = "canceled"
                       \/ goal_status'[g] = "aborted" /\ current_behavior'.goal # g
           Honoured == \A g \in Goals :
                         goal_status[g] = "canceling" /\ goal_status'[g] # "canceling" => Ended(g)
<1>1. IInv /\ [Next]_vars => [Honoured]_vars
  <2> SUFFICES ASSUME IInv, Next, NEW g \in Goals, goal_status[g] = "canceling"
               PROVE  goal_status'[g] # "canceling" => Ended(g)
    OBVIOUS
  <2> USE GoalAssumption
  <2>1. SchedulerTypeOK /\ SlotWellFormed /\ Active(g) /\ current_behavior.goal = g
    BY DEF IInv, TypeOK, ActiveGoalHeld, Active
  <2>2. ASSUME NEW h, NEW st,
               h # g, goal_status' = [goal_status EXCEPT ![h] = st]
        PROVE  goal_status'[g] = "canceling"
    BY <2>1, <2>2 DEF SchedulerTypeOK
  <2>3. ASSUME NEW status \in [Goals -> GoalStates],
               goal_status' = AfterDisplacement(status),
               current_behavior'.goal # g, status[g] = "canceling"
        PROVE  Ended(g)
    BY <2>1, <2>3 DEF AfterDisplacement, SchedulerTypeOK
  <2>4. ASSUME NEW h \in Goals, DriveGoal(h) \/ DockGoal(h) \/ WallFollowGoal(h)
        PROVE  goal_status'[g] # "canceling" => Ended(g)
    <3>1. goal_status[h] = "idle" /\ h # g
      BY <2>1, <2>4 DEF Sends, DriveGoal, HandleDriveGoalAccepted, DockGoal, HandleDockGoalRejected,
         HandleDockGoalAccepted, DockGoalAllowed, WallFollowGoal, HandleWallFollowRejected,
         HandleWallFollowInvalidSide, HandleWallFollowAccepted
    <3>2. /\ [goal_status EXCEPT ![h] = "executing"] \in [Goals -> GoalStates]
          /\ [goal_status EXCEPT ![h] = "executing"][g] = "canceling"
      BY <2>1, <3>1 DEF SchedulerTypeOK
    <3>3. /\ DriveBehavior(h).goal = h
          /\ DockBehavior(h).goal = h
          /\ WallFollowBehavior(h).goal = h
      BY DEF DriveBehavior, DockBehavior, WallFollowBehavior
    <3> QED
      BY <2>2, <2>3, <2>4, <3>1, <3>2, <3>3 DEF DriveGoal, HandleDriveGoalAccepted, DockGoal,
         HandleDockGoalRejected, HandleDockGoalAccepted, WallFollowGoal, HandleWallFollowRejected,
         HandleWallFollowInvalidSide, HandleWallFollowAccepted, TakeSlot, RefuseGoal
  <2>5. ASSUME NEW h \in Goals, Cancel(h)
        PROVE  goal_status'[g] = "canceling"
    BY <2>1, <2>2, <2>5 DEF Cancel, HandleCancel
  <2>6. ASSUME NEW msg, NEW moving, HazardVector(msg, moving)
        PROVE  goal_status'[g] # "canceling" => Ended(g)
    <3>1. \A b \in ReflexBehaviors : b.goal # g
      BY DEF ReflexBehaviors
    <3> QED
      BY <2>1, <2>3, <2>6, <3>1 DEF HazardVector, HazardVectorCallback, TriggerReflex,
         StartReflex, TakeSlot, schedulerVars, SchedulerTypeOK
  <2>7. CASE DockStatus \/ RobotPose \/ TimePasses
    BY <2>7 DEF DockStatus, DockStatusCallback, RobotPose, TimePasses, DockRuntimeElapses,
       WallFollowRuntimeElapses, ReflexRuntimeElapses, schedulerVars
  <2>8. CASE RunBehavior
    BY <2>1, <2>8 DEF RunBehavior, RunDriveGoal, ExecuteDriveGoal, EndDriveGoal,
       RunDockGoal, ExecuteDockGoal, EndDockGoal, RunWallFollow, ExecuteWallFollow,
       EndWallFollow, RunReflex, ExecuteReflex, SchedulerTypeOK
  <2> QED
    BY <2>4, <2>5, <2>6, <2>7, <2>8 DEF Next
<1> QED
  BY <1>1, Invariance, PTL DEF Spec, CancelIsHonoured

-----------------------------------------------------------------------------
(***************************************************************************)
(* The motion control node's servers, reflex and scheduler implement       *)
(* MotionService: the refinement mapping is Holder and Life, and every     *)
(* step of MotionActions is a step of MotionService or changes neither.    *)
(***************************************************************************)

USE DEF DriveServers, DockServers, ActionServers, ActiveStates, FinalStates, GoalStates

\* The goals being served are exactly the holder.
LEMMA HolderIsServed ==
  ASSUME SlotInv, SchedulerTypeOK
  PROVE  \A g \in Goals : Holder = g <=> Active(g)
BY GoalAssumption, HolderNamesAssumption
   DEF Holder, SlotInv, SlotWellFormed, ActiveGoalHeld, Active

\* The scheduler accepts a behavior only when the service's holder yields.
LEMMA AcceptingYields ==
  ASSUME SlotInv, SchedulerTypeOK, AcceptsBehavior
  PROVE  Service!Yields
<1> USE GoalAssumption
<1>1. CASE \E g \in Goals : Active(g)
  <2>1. PICK g \in Goals : Active(g)
    BY <1>1
  <2>2. Holder = g /\ current_behavior.goal = g
    BY <2>1, HolderIsServed DEF SlotInv, ActiveGoalHeld
  <2>3. ServerOf[g] \in DriveServers
    BY <2>1, <2>2 DEF SlotInv, SlotWellFormed, UninterruptibleGoalScheduled, AcceptsBehavior
  <2> QED
    BY <2>2, <2>3 DEF Service!Yields
<1>2. CASE \A g \in Goals : ~Active(g)
  <2>1. ~has_behavior
    <3>1. SUFFICES ASSUME has_behavior PROVE FALSE
      OBVIOUS
    <3>2. current_behavior.server \in DriveServers
      BY <3>1 DEF SlotInv, SlotWellFormed, AcceptsBehavior
    <3>3. current_behavior.goal # NoGoal
      BY <3>1, <3>2 DEF SlotInv, SlotWellFormed
    <3> QED
      BY <1>2, <3>1, <3>3 DEF SlotInv, RunsLiveGoal, Active
  <2>2. Holder = "free"
    BY <1>2, <2>1 DEF Holder, Active
  <2> QED
    BY <2>2 DEF Service!Yields
<1> QED
  BY <1>1, <1>2

\* Taking the slot serves the goal of the new behavior, or starts a reflex.
LEMMA TakeSlotServes ==
  ASSUME SchedulerTypeOK, SlotInv,
         NEW b, NEW status, NEW running \in [DriveServers -> BOOLEAN],
         Fits(b, status), TakeSlot(b, running, status)
  PROVE  \/ \E g \in Goals : Service!Serve(g)
         \/ Service!StartReflex
<1> USE GoalAssumption
<1>1. Service!Yields
  BY AcceptingYields DEF TakeSlot
<1>2. \A g \in Goals : Active(g) => g = current_behavior.goal
  BY DEF SlotInv, ActiveGoalHeld
<1>3. \A g \in Goals : Holder = g <=> Active(g)
  BY HolderIsServed
<1>4. Service!Over = [g \in Goals |-> IF Active(g) THEN "over" ELSE Life[g]]
  BY <1>3 DEF Service!Over
<1>5. \A h \in Goals :
        /\ Active(h) => goal_status'[h] \in {"aborted", "canceled"}
        /\ ~Active(h) => goal_status'[h] = status[h]
  BY <1>2 DEF TakeSlot, Fits, AfterDisplacement, Active, SchedulerTypeOK
<1>6. CASE b.goal \in Goals
  <2>1. /\ status = [goal_status EXCEPT ![b.goal] = "executing"]
        /\ goal_status[b.goal] = "idle"
        /\ b.server # "reflex"
    BY <1>6 DEF Fits
  <2>2. ~Active(b.goal) /\ goal_status'[b.goal] = "executing"
    BY <1>5, <1>6, <2>1 DEF Active, SchedulerTypeOK
  <2>3. Holder' = b.goal
    BY <1>6, <2>1, <2>2 DEF TakeSlot, Holder, Active
  <2>4. Life' = [Service!Over EXCEPT ![b.goal] = "served"]
    <3>1. ASSUME NEW h \in Goals
          PROVE  Life'[h] = [Service!Over EXCEPT ![b.goal] = "served"][h]
      <4>1. CASE h = b.goal
        BY <1>4, <2>2, <4>1 DEF Life
      <4>2. CASE h # b.goal /\ Active(h)
        BY <1>4, <1>5, <4>2 DEF Life
      <4>3. CASE h # b.goal /\ ~Active(h)
        BY <1>4, <1>5, <2>1, <4>3 DEF Life, SchedulerTypeOK
      <4> QED
        BY <4>1, <4>2, <4>3
    <3> QED
      BY <3>1, <1>4 DEF Life
  <2>5. Life[b.goal] = "new"
    BY <1>6, <2>1 DEF Life
  <2> QED
    BY <1>1, <1>6, <2>3, <2>4, <2>5 DEF Service!Serve
<1>7. CASE b.goal = NoGoal
  <2>1. status = goal_status /\ b.server = "reflex"
    BY <1>7 DEF Fits
  <2>2. Holder' = "reflex"
    BY <2>1 DEF TakeSlot, Holder
  <2>3. Life' = Service!Over
    <3>1. ASSUME NEW h \in Goals
          PROVE  Life'[h] = Service!Over[h]
      <4>1. CASE Active(h)
        BY <1>4, <1>5, <4>1 DEF Life
      <4>2. CASE ~Active(h)
        BY <1>4, <1>5, <2>1, <4>2 DEF Life
      <4> QED
        BY <4>1, <4>2
    <3> QED
      BY <3>1, <1>4 DEF Life
  <2> QED
    BY <1>1, <2>2, <2>3 DEF Service!StartReflex
<1> QED
  BY <1>6, <1>7 DEF Fits

\* A goal that is rejected, refused or invalid is turned down.
LEMMA IdleGoalEndTurnsDown ==
  ASSUME SchedulerTypeOK, SlotInv,
         NEW g \in Goals, goal_status[g] = "idle", NEW outcome \in FinalStates,
         goal_status' = [goal_status EXCEPT ![g] = outcome],
         UNCHANGED <<has_behavior, current_behavior>>
  PROVE  Service!TurnDown(g)
<1>1. Life[g] = "new"
  BY DEF Life
<1>2. Life' = [Life EXCEPT ![g] = "over"]
  BY DEF Life, SchedulerTypeOK
<1>3. Active(current_behavior.goal)' <=> Active(current_behavior.goal)
  BY DEF Active, SchedulerTypeOK
<1>4. Holder' = Holder
  BY <1>3 DEF Holder
<1> QED
  BY <1>1, <1>2, <1>4 DEF Service!TurnDown

\* The execution that ends the slot's goal releases the robot.
LEMMA EndOfGoalReleases ==
  ASSUME SchedulerTypeOK, SlotInv, has_behavior,
         NEW outcome \in FinalStates, current_behavior.goal \in Goals,
         goal_status' = [goal_status EXCEPT ![current_behavior.goal] = outcome],
         has_behavior' = FALSE, UNCHANGED current_behavior
  PROVE  Service!Release
<1> USE GoalAssumption, HolderNamesAssumption
<1>1. Active(current_behavior.goal) /\ Holder = current_behavior.goal
  BY HolderIsServed DEF SlotInv, RunsLiveGoal
<1>2. Holder' = "free"
  BY DEF Holder, Active, SchedulerTypeOK
<1>3. Life' = Service!Over
  BY <1>1 DEF Life, Service!Over, SchedulerTypeOK
<1> QED
  BY <1>1, <1>2, <1>3 DEF Service!Release

\* What the service does not see.
LEMMA UnseenStep ==
  ASSUME UNCHANGED <<current_behavior, goal_status>>,
         ~Active(current_behavior.goal) => UNCHANGED has_behavior,
         SlotInv, SchedulerTypeOK
  PROVE  UNCHANGED <<Holder, Life>>
<1>1. Life' = Life
  BY DEF Life
<1>2. Active(current_behavior.goal)' <=> Active(current_behavior.goal)
  BY DEF Active
<1>3. CASE Active(current_behavior.goal)
  <2>1. current_behavior.server # "reflex"
    BY <1>3, GoalAssumption DEF SlotInv, SlotWellFormed, Active
  <2> QED
    BY <1>1, <1>2, <2>1 DEF Holder
<1>4. CASE ~Active(current_behavior.goal)
  BY <1>1, <1>2, <1>4 DEF Holder
<1> QED
  BY <1>3, <1>4

LEMMA GoalStepServes ==
  ASSUME IInv, NEW g \in Goals, DriveGoal(g) \/ DockGoal(g) \/ WallFollowGoal(g)
  PROVE  Service!Next
<1> USE GoalAssumption DEF Sends
<1>1. SchedulerTypeOK /\ SlotInv
  BY DEF IInv, TypeOK, SlotInv
<1>2. goal_status[g] = "idle"
  BY DEF DriveGoal, HandleDriveGoalAccepted, DockGoal, HandleDockGoalRejected,
     HandleDockGoalAccepted, DockGoalAllowed, WallFollowGoal, HandleWallFollowRejected,
     HandleWallFollowInvalidSide, HandleWallFollowAccepted
<1>3. ASSUME NEW outcome \in FinalStates,
             goal_status' = [goal_status EXCEPT ![g] = outcome],
             UNCHANGED <<has_behavior, current_behavior>>
      PROVE  Service!Next
  BY <1>1, <1>2, <1>3, IdleGoalEndTurnsDown DEF Service!Next
<1>4. ASSUME NEW b, NEW running \in [DriveServers -> BOOLEAN],
             b.server = ServerOf[g], b.goal = g, b \in Behaviors,
             b.stop_on_new_behavior <=> b.server \in DriveServers,
             TakeSlot(b, running, [goal_status EXCEPT ![g] = "executing"])
      PROVE  Service!Next
  <2>1. Fits(b, [goal_status EXCEPT ![g] = "executing"])
    BY <1>2, <1>4 DEF Fits
  <2> QED
    BY <1>1, <1>4, <2>1, TakeSlotServes DEF Service!Next
<1>5. CASE DriveGoal(g)
  <2>1. CASE TakeSlot(DriveBehavior(g), [drive_goal_running EXCEPT ![ServerOf[g]] = TRUE],
                      [goal_status EXCEPT ![g] = "executing"])
    <3>1. ServerOf[g] \in DriveServers
      BY <1>5 DEF DriveGoal, HandleDriveGoalAccepted
    <3>2. /\ DriveBehavior(g) \in Behaviors
          /\ DriveBehavior(g).server = ServerOf[g] /\ DriveBehavior(g).goal = g
          /\ DriveBehavior(g).stop_on_new_behavior = TRUE
      BY <3>1 DEF DriveBehavior, Behaviors
    <3>3. [drive_goal_running EXCEPT ![ServerOf[g]] = TRUE] \in [DriveServers -> BOOLEAN]
      BY <1>1, <3>1 DEF SchedulerTypeOK
    <3> QED
      BY <1>4, <2>1, <3>1, <3>2, <3>3
  <2>2. CASE RefuseGoal(g)
    BY <1>3, <2>2 DEF RefuseGoal
  <2> QED
    BY <1>5, <2>1, <2>2 DEF DriveGoal, HandleDriveGoalAccepted
<1>6. CASE DockGoal(g)
  <2>1. CASE HandleDockGoalRejected(g)
    BY <1>3, <2>1 DEF HandleDockGoalRejected
  <2>2. CASE HandleDockGoalAccepted(g) /\ TakeSlot(DockBehavior(g), drive_goal_running,
                      [goal_status EXCEPT ![g] = "executing"])
    <3>1. ServerOf[g] \in DockServers
      BY <2>2 DEF HandleDockGoalAccepted, DockGoalAllowed
    <3>2. /\ DockBehavior(g) \in Behaviors
          /\ DockBehavior(g).server = ServerOf[g] /\ DockBehavior(g).goal = g
          /\ DockBehavior(g).stop_on_new_behavior = FALSE
      BY <3>1 DEF DockBehavior, Behaviors
    <3>3. drive_goal_running \in [DriveServers -> BOOLEAN]
      BY <1>1 DEF SchedulerTypeOK
    <3> QED
      BY <1>4, <2>2, <3>1, <3>2, <3>3
  <2>3. CASE RefuseGoal(g)
    BY <1>3, <2>3 DEF RefuseGoal
  <2> QED
    BY <1>6, <2>1, <2>2, <2>3 DEF DockGoal, HandleDockGoalAccepted
<1>7. CASE WallFollowGoal(g)
  <2>1. CASE HandleWallFollowRejected(g) \/ HandleWallFollowInvalidSide(g)
    BY <1>3, <2>1 DEF HandleWallFollowRejected, HandleWallFollowInvalidSide
  <2>2. CASE HandleWallFollowAccepted(g) /\ TakeSlot(WallFollowBehavior(g), drive_goal_running,
                      [goal_status EXCEPT ![g] = "executing"])
    <3>1. ServerOf[g] = "wall_follow"
      BY <2>2 DEF HandleWallFollowAccepted
    <3>2. /\ WallFollowBehavior(g) \in Behaviors
          /\ WallFollowBehavior(g).server = ServerOf[g] /\ WallFollowBehavior(g).goal = g
          /\ WallFollowBehavior(g).stop_on_new_behavior = FALSE
      BY <3>1 DEF WallFollowBehavior, Behaviors
    <3>3. drive_goal_running \in [DriveServers -> BOOLEAN]
      BY <1>1 DEF SchedulerTypeOK
    <3> QED
      BY <1>4, <2>2, <3>1, <3>2, <3>3
  <2>3. CASE RefuseGoal(g)
    BY <1>3, <2>3 DEF RefuseGoal
  <2> QED
    BY <1>7, <2>1, <2>2, <2>3 DEF WallFollowGoal, HandleWallFollowAccepted
<1> QED
  BY <1>5, <1>6, <1>7

LEMMA RunBehaviorServes ==
  ASSUME IInv, RunBehavior
  PROVE  [Service!Next]_<<Holder, Life>>
<1> USE GoalAssumption
<1> DEFINE g == current_behavior.goal
<1>1. SchedulerTypeOK /\ SlotInv /\ has_behavior /\ UNCHANGED current_behavior
  BY DEF IInv, TypeOK, SlotInv, RunBehavior
<1>2. current_behavior.server # "reflex" =>
        g \in Goals /\ Active(g) /\ current_behavior.server = ServerOf[g]
  BY <1>1 DEF SlotInv, SlotWellFormed, RunsLiveGoal, SchedulerTypeOK, Behaviors, Active
<1>3. ASSUME NEW outcome \in FinalStates, current_behavior.server # "reflex",
             goal_status' = [goal_status EXCEPT ![g] = outcome], has_behavior' = FALSE
      PROVE  Service!Next
  BY <1>1, <1>2, <1>3, EndOfGoalReleases DEF Service!Next
<1>4. ASSUME current_behavior.server # "reflex", UNCHANGED goal_status
      PROVE  UNCHANGED <<Holder, Life>>
  BY <1>1, <1>2, <1>4, UnseenStep
<1>5. CASE RunDriveGoal
  <2>1. \A outcome : EndDriveGoal(g, outcome) => has_behavior' = FALSE
    BY <1>2, <1>5 DEF RunDriveGoal, EndDriveGoal, SchedulerTypeOK, IInv, TypeOK
  <2> QED
    BY <1>3, <1>4, <1>5, <2>1 DEF RunDriveGoal, ExecuteDriveGoal, EndDriveGoal
<1>6. CASE RunDockGoal
  BY <1>3, <1>4, <1>6 DEF RunDockGoal, ExecuteDockGoal, EndDockGoal, DockOutcome
<1>7. CASE RunWallFollow
  BY <1>3, <1>4, <1>7 DEF RunWallFollow, ExecuteWallFollow, EndWallFollow
<1>8. CASE RunReflex
  <2>1. /\ Holder = "reflex"
        /\ \A h : ~Active(h)
        /\ UNCHANGED goal_status
    BY <1>1, <1>8 DEF RunReflex, ExecuteReflex, Holder, Active, SlotInv, SlotWellFormed,
       ActiveGoalHeld
  <2>2. Life' = Life /\ Service!Over = Life
    BY <2>1, HolderNamesAssumption DEF Life, Service!Over
  <2>3. \A h : ~Active(h)'
    BY <2>1 DEF Active
  <2>4. CASE has_behavior'
    BY <1>1, <1>8, <2>1, <2>2, <2>4 DEF RunReflex, Holder
  <2>5. CASE ~has_behavior'
    <3>1. Holder' = "free"
      BY <2>3, <2>5 DEF Holder
    <3> QED
      BY <2>1, <2>2, <3>1 DEF Service!Next, Service!Release
  <2> QED
    BY <2>4, <2>5
<1> QED
  BY <1>5, <1>6, <1>7, <1>8 DEF RunBehavior

LEMMA OtherStepServes ==
  ASSUME IInv,
         \/ \E g \in Goals : Cancel(g)
         \/ \E msg \in SUBSET Hazards, moving \in BOOLEAN : HazardVector(msg, moving)
         \/ DockStatus \/ RobotPose \/ TimePasses \/ UNCHANGED vars
  PROVE  [Service!Next]_<<Holder, Life>>
<1>1. SchedulerTypeOK /\ SlotInv
  BY DEF IInv, TypeOK, SlotInv
<1>2. ASSUME UNCHANGED schedulerVars
      PROVE  UNCHANGED <<Holder, Life>>
  BY <1>1, <1>2, UnseenStep DEF schedulerVars
<1>3. ASSUME NEW g \in Goals, Cancel(g)
      PROVE  UNCHANGED <<Holder, Life>>
  <2>1. Life' = Life
    BY <1>1, <1>3 DEF Cancel, HandleCancel, Life, SchedulerTypeOK
  <2>2. Active(current_behavior.goal)' <=> Active(current_behavior.goal)
    BY <1>1, <1>3 DEF Cancel, HandleCancel, Active, SchedulerTypeOK
  <2> QED
    BY <1>3, <2>1, <2>2 DEF Cancel, HandleCancel, Holder
<1>4. ASSUME NEW msg \in SUBSET Hazards, NEW moving \in BOOLEAN, HazardVector(msg, moving)
      PROVE  [Service!Next]_<<Holder, Life>>
  <2>1. CASE StartReflex
    <3>1. PICK b \in ReflexBehaviors : TakeSlot(b, drive_goal_running, goal_status)
      BY <2>1 DEF StartReflex
    <3>2. Fits(b, goal_status)
      BY DEF Fits, ReflexBehaviors, Behaviors
    <3> QED
      BY <1>1, <3>1, <3>2, TakeSlotServes DEF Service!Next, SchedulerTypeOK
  <2>2. CASE UNCHANGED schedulerVars
    BY <1>2, <2>2
  <2> QED
    BY <1>4, <2>1, <2>2 DEF HazardVector, HazardVectorCallback, TriggerReflex
<1>5. DockStatus \/ RobotPose \/ TimePasses \/ UNCHANGED vars => UNCHANGED schedulerVars
  BY DEF DockStatus, DockStatusCallback, RobotPose, TimePasses, DockRuntimeElapses,
     WallFollowRuntimeElapses, ReflexRuntimeElapses, vars
<1> QED
  BY <1>2, <1>3, <1>4, <1>5

\* The motion control node implements the service it promises its clients.
THEOREM KeepsPromise == Spec => KeepsServicePromise
<1>1. Init => Service!Init
  BY GoalAssumption DEF Init, SchedulerInit, Service!Init, Holder, Life, Active
<1>2. IInv /\ [Next]_vars => [Service!Next]_<<Holder, Life>>
  <2> SUFFICES ASSUME IInv, [Next]_vars
               PROVE  [Service!Next]_<<Holder, Life>>
    OBVIOUS
  <2>1. CASE \E g \in Goals : DriveGoal(g) \/ DockGoal(g) \/ WallFollowGoal(g)
    BY <2>1, GoalStepServes
  <2>2. CASE RunBehavior
    BY <2>2, RunBehaviorServes
  <2> QED
    BY <2>1, <2>2, OtherStepServes DEF Next
<1> QED
  BY Invariance, <1>1, <1>2, PTL DEF Spec, KeepsServicePromise, Service!Spec
=============================================================================
