------------------------ MODULE CoverageStateMachine ------------------------
(***************************************************************************)
(* How a coverage run picks its behaviors (coverage_state_machine.cpp), as *)
(* operators on the state machine object of the run. A behavior is known   *)
(* by its id and the state its last execution returned; the velocities,    *)
(* distances and angles that decide between those states are left out.     *)
(***************************************************************************)
EXTENDS Naturals

CONSTANT MaxEvadeAttempts  \* failed drives after which a run gives up: 20

ASSUME EvadeAssumption == MaxEvadeAttempts \in Nat

DockingBehaviors == {"dock", "undock"}
Behaviors == DockingBehaviors \cup {"drive_straight", "rotate", "spiral"}
States == {"running", "success", "failure"}

Machines == [ behavior : Behaviors \cup {"none"},  \* m_current_behavior, if any
              state : States,                      \* m_behavior_state
              undocking : BOOLEAN,                 \* m_undocking
              preparing_spiral : BOOLEAN,          \* m_preparing_spiral
              evade_attempts : Nat,                \* m_evade_attempts.size()
              output : States ]                    \* m_coverage_output.state

\* What has elapsed: the goal's explore_duration and max_runtime, and the minute
\* since the last spiral.
Clocks == [explore : BOOLEAN, max_runtime : BOOLEAN, spiral : BOOLEAN]

NewMachine == [ behavior |-> "none", state |-> "running", undocking |-> FALSE,
                preparing_spiral |-> FALSE, evade_attempts |-> 0, output |-> "running" ]

Goto(m, b) == [m EXCEPT !.behavior = b, !.output = "running"]
End(m, s) == [m EXCEPT !.output = s]

SelectStart(m, docked) ==
  IF docked THEN Goto([m EXCEPT !.undocking = TRUE], "undock") ELSE Goto(m, "spiral")

AfterDock(m, docked) ==
  End(m, IF m.state = "failure" \/ ~docked THEN "failure" ELSE "success")

AfterUndock(m, docked) ==
  IF m.state = "failure" \/ docked THEN End(m, "failure") ELSE Goto(m, "drive_straight")

\* Mutant: the attempts are cleared whether or not the drive got away.
AfterDriveForgetful(m) ==
  IF m.undocking THEN Goto([m EXCEPT !.undocking = FALSE], "spiral")
  ELSE Goto([m EXCEPT !.evade_attempts = 0], "rotate")

\* The drive that follows undocking and the one that makes room to spiral lead to a
\* spiral; every other one to a rotation, in a direction not tried since the last
\* one that got away from the obstacle.
AfterDrive(m) ==
  IF m.undocking THEN Goto([m EXCEPT !.undocking = FALSE], "spiral")
  ELSE IF m.state = "success" /\ m.preparing_spiral
         THEN Goto([m EXCEPT !.preparing_spiral = FALSE], "spiral")
  ELSE IF m.state = "success" THEN Goto([m EXCEPT !.evade_attempts = 0], "rotate")
  ELSE IF m.evade_attempts > MaxEvadeAttempts THEN End(m, "failure")
  ELSE Goto([m EXCEPT !.evade_attempts = @ + 1], "rotate")

AfterRotate(m, elapsed) ==
  IF m.state = "failure" THEN End(m, "failure")
  ELSE Goto([m EXCEPT !.preparing_spiral = @ \/ elapsed.spiral], "drive_straight")

AfterSpiral(m) == Goto(m, IF m.state = "success" THEN "drive_straight" ELSE "rotate")

AfterBehavior(m, docked, elapsed) ==
  CASE m.behavior = "dock" -> AfterDock(m, docked)
    [] m.behavior = "undock" -> AfterUndock(m, docked)
    [] m.behavior = "drive_straight" -> AfterDrive(m)
    [] m.behavior = "rotate" -> AfterRotate(m, elapsed)
    [] m.behavior = "spiral" -> AfterSpiral(m)

\* Mutant: max_runtime is not looked at.
SelectNextUntimed(m, data, elapsed) ==
  IF m.state = "running" THEN Goto(m, m.behavior)
  ELSE IF m.behavior # "dock" /\ elapsed.explore /\ data.dock_visible THEN Goto(m, "dock")
  ELSE AfterBehavior(m, data.is_docked, elapsed)

\* Once the behavior is over: the time limits first, then what follows it.
SelectNext(m, data, elapsed) ==
  IF m.state = "running" THEN Goto(m, m.behavior)
  ELSE IF elapsed.max_runtime THEN End(m, "success")
  ELSE IF m.behavior # "dock" /\ elapsed.explore /\ data.dock_visible THEN Goto(m, "dock")
  ELSE AfterBehavior(m, data.is_docked, elapsed)

Select(m, data, elapsed) ==
  IF m.behavior = "none" THEN SelectStart(m, data.is_docked)
                         ELSE SelectNext(m, data, elapsed)
=============================================================================
