------------------------------ MODULE Battery -------------------------------
(***************************************************************************)
(* The charge the robot state node makes up (robot_state.cpp): a charge at *)
(* the last change of the dock status, and the times the robot has stopped *)
(* or driven since. One unit of time drains Idle or Driving, or charges    *)
(* Charging.                                                               *)
(***************************************************************************)
EXTENDS Angles

CONSTANTS
  FullCharge,   \* 1.0
  EmptyCharge,  \* undocked_charge_limit
  Charging, Driving, Idle,   \* the rates
  BatteryTime   \* bound of the clock

ASSUME BatteryAssumption ==
  /\ {FullCharge, EmptyCharge, Charging, Driving, Idle, BatteryTime} \subseteq Nat
  /\ EmptyCharge < FullCharge /\ Idle < Driving

VARIABLES
  clock,         \* now()
  on_dock,       \* is_docked_
  is_stopped,    \* is_stopped_
  charged,       \* last_docked_charge_percentage_
  since,         \* transitioned_to_docked_, _stopped_ and _drive_
  off_dock_time  \* off_dock_drive_time_ and off_dock_idle_time_

batteryVars == <<clock, on_dock, is_stopped, charged, since, off_dock_time>>

BatteryInit ==
  /\ clock = 0
  /\ on_dock = FALSE
  /\ is_stopped = TRUE
  /\ charged = FullCharge
  /\ since = [docked |-> 0, stopped |-> 0, drive |-> 0]
  /\ off_dock_time = [drive |-> 0, idle |-> 0]

\* Mutant: the charge is not cut off at the full one.
DockedChargeUncut == charged + (clock - since.docked) * Charging

\* get_docked_charge_percentage
DockedCharge == Least(charged + (clock - since.docked) * Charging, FullCharge)

\* get_undocked_charge_percentage
Drain ==
  (IF is_stopped THEN (clock - since.stopped) * Idle ELSE (clock - since.drive) * Driving)
  + off_dock_time.drive * Driving + off_dock_time.idle * Idle
UndockedCharge == Most(charged - Drain, EmptyCharge)

\* The percentage the battery timer publishes
Charge == IF on_dock THEN DockedCharge ELSE UndockedCharge

-----------------------------------------------------------------------------
\* Mutant: the time on the dock counts from the dock before.
DockCallbackKeepsTime(d) ==
  /\ on_dock' = d
  /\ charged' = IF on_dock = d THEN charged ELSE Charge
  /\ off_dock_time' = IF on_dock /\ ~d THEN [drive |-> 0, idle |-> 0] ELSE off_dock_time
  /\ UNCHANGED <<clock, is_stopped, since>>

\* dock_callback
DockCallback(d) ==
  /\ on_dock' = d
  /\ charged' = IF on_dock = d THEN charged ELSE Charge
  /\ since' = IF ~on_dock /\ d THEN [since EXCEPT !.docked = clock] ELSE since
  /\ off_dock_time' = IF on_dock /\ ~d THEN [drive |-> 0, idle |-> 0] ELSE off_dock_time
  /\ UNCHANGED <<clock, is_stopped>>

\* Mutant: only the time the robot has stopped is booked.
StopCallbackForgets(s) ==
  /\ is_stopped' = s
  /\ \/ s = is_stopped /\ UNCHANGED <<since, off_dock_time>>
     \/ /\ ~is_stopped /\ s
        /\ since' = [since EXCEPT !.stopped = clock] /\ UNCHANGED off_dock_time
     \/ /\ is_stopped /\ ~s
        /\ since' = [since EXCEPT !.drive = clock]
        /\ off_dock_time' = [off_dock_time EXCEPT !.drive = @ + (clock - since.stopped)]
  /\ UNCHANGED <<clock, on_dock, charged>>

\* stop_callback: both times are booked as time the robot has driven, on the dock too.
StopCallback(s) ==
  /\ is_stopped' = s
  /\ \/ s = is_stopped /\ UNCHANGED <<since, off_dock_time>>
     \/ /\ ~is_stopped /\ s
        /\ since' = [since EXCEPT !.stopped = clock]
        /\ off_dock_time' = [off_dock_time EXCEPT !.drive = @ + (clock - since.drive)]
     \/ /\ is_stopped /\ ~s
        /\ since' = [since EXCEPT !.drive = clock]
        /\ off_dock_time' = [off_dock_time EXCEPT !.drive = @ + (clock - since.stopped)]
  /\ UNCHANGED <<clock, on_dock, charged>>

ClockAdvances ==
  /\ clock < BatteryTime /\ clock' = clock + 1
  /\ UNCHANGED <<on_dock, is_stopped, charged, since, off_dock_time>>

BatteryNext ==
  \/ \E d \in BOOLEAN : DockCallback(d)
  \/ \E s \in BOOLEAN : StopCallback(s)
  \/ ClockAdvances

BatterySpec == BatteryInit /\ [][BatteryNext]_batteryVars

-----------------------------------------------------------------------------
BatteryTypeOK ==
  /\ clock \in Nat
  /\ on_dock \in BOOLEAN /\ is_stopped \in BOOLEAN
  /\ charged \in EmptyCharge..FullCharge
  /\ since \in [docked : Nat, stopped : Nat, drive : Nat]
  /\ \A t \in {since.docked, since.stopped, since.drive} : t <= clock
  /\ off_dock_time \in [drive : Nat, idle : Nat]

\* The published charge stays in the range of the battery however often the robot docks,
\* undocks, stops and drives on.
ChargeInRange == EmptyCharge <= Charge /\ Charge <= FullCharge

\* Away from the dock the charge never rises: what was drained in one status is carried
\* into the next one.
ChargeFallsOffDock == [][~on_dock /\ ~on_dock' => Charge' <= Charge]_batteryVars

\* The robot docks with the charge it was driven with.
DockingKeepsCharge == [][~on_dock /\ on_dock' => Charge' = Charge]_batteryVars

\* The charge rises on the dock and falls off it, in the range of the battery.
ChargeFollowsDock == []ChargeInRange /\ ChargeFallsOffDock /\ DockingKeepsCharge
=============================================================================
