------------------------------ MODULE JoyNode -------------------------------
(***************************************************************************)
(* The joystick nodes of the joy package: joy_node (joy.cpp) and           *)
(* game_controller_node (game_controller.cpp), which have the same event   *)
(* thread but for three differences, named below: joy_conf.node says which *)
(* of them runs.  The device has buttons, one stick and one hat.  SDL is   *)
(* external: it queues an event for every change of an open device, and    *)
(* one for a device that comes or goes.  Time is in ticks.                 *)
(***************************************************************************)
EXTENDS Integers, Sequences

CONSTANTS
  JoyConfs,      \* sets of parameters: [node, autorepeat, coalesce, sticky_buttons]
  JoyButtons,    \* buttons of the device
  StickPlaces,   \* raw values of the stick
  HatPlaces,     \* directions the hat is pressed to at once
  StickEnd,      \* the largest raw value, 32767
  DeadZone,      \* unscaled_deadzone_
  IdleWait,      \* autorepeat_interval_ms_ when autorepeat_rate is 0
  SdlQueue,      \* bound: events SDL holds
  JoyDepth       \* bound: messages the subscription of joy holds, the last ones

ASSUME JoyNodeAssumption ==
  /\ JoyConfs \subseteq [node : {"joy", "game_controller"}, autorepeat : Nat, coalesce : Nat,
                         sticky_buttons : BOOLEAN]
  /\ {StickEnd, DeadZone, IdleWait} \subseteq Nat /\ {SdlQueue, JoyDepth} \subseteq Nat \ {0}
  /\ 0 \in StickPlaces /\ StickPlaces \subseteq -StickEnd - 1 .. StickEnd
  /\ {} \in HatPlaces

VARIABLES
  pad,            \* the device: [plugged, buttons, stick, hat]
  sdl_events,     \* the queue of SDL
  joy_conf,       \* the parameters
  joystick,       \* joystick_ or game_controller_ is not null
  joy_msg,        \* joy_msg_: [axes: [stick, hat_x, hat_y], buttons: 0 or 1]
  publish_soon,   \* publish_soon_
  soon_age,       \* now - publish_soon_time_, up to coalesce_interval_ms_
  publish_age,    \* now - last_publish, up to autorepeat_interval_ms_
  waited,         \* time in SDL_WaitEventTimeout
  joy_topic,      \* published messages the subscriber has not taken
  stick_sent      \* the stick of the last message published

joyNodeVars == <<pad, sdl_events, joy_conf, joystick, joy_msg, publish_soon, soon_age,
                 publish_age, waited, joy_topic, stick_sent>>

NoReading == [axes |-> [stick |-> 0, hat_x |-> 0, hat_y |-> 0],
              buttons |-> [b \in JoyButtons |-> 0]]

JoyNodeInit ==
  /\ pad = [plugged |-> FALSE, buttons |-> {}, stick |-> 0, hat |-> {}]
  /\ sdl_events = <<>>
  /\ joy_conf \in JoyConfs
  /\ joystick = FALSE
  /\ joy_msg = NoReading /\ stick_sent = 0
  /\ publish_soon = FALSE
  /\ soon_age = 0 /\ publish_age = 0 /\ waited = 0
  /\ joy_topic = <<>>

-----------------------------------------------------------------------------
(* The device and SDL.  A device comes back only when the node has taken   *)
(* the events of its absence.                                              *)

PadEvent(e) ==
  /\ sdl_events' = IF joystick /\ pad.plugged THEN Append(sdl_events, e) ELSE sdl_events
  /\ UNCHANGED <<joy_conf, joystick, joy_msg, publish_soon, soon_age, publish_age, waited,
                 joy_topic, stick_sent>>

PadMoves ==
  /\ Len(sdl_events) < SdlQueue
  /\ \/ \E b \in JoyButtons \ pad.buttons :
          /\ pad' = [pad EXCEPT !.buttons = @ \union {b}]
          /\ PadEvent([type |-> "down", of |-> b])
     \/ \E b \in pad.buttons :
          /\ pad' = [pad EXCEPT !.buttons = @ \ {b}]
          /\ PadEvent([type |-> "up", of |-> b])
     \/ \E v \in StickPlaces \ {pad.stick} :
          /\ pad' = [pad EXCEPT !.stick = v]
          /\ PadEvent([type |-> "axis", of |-> v])
     \/ \E h \in HatPlaces \ {pad.hat} :
          /\ pad' = [pad EXCEPT !.hat = h]
          /\ PadEvent([type |-> "hat", of |-> h])

PadComesOrGoes ==
  /\ \/ ~pad.plugged /\ sdl_events = <<>> /\ sdl_events' = <<[type |-> "added"]>>
     \/ /\ pad.plugged /\ Len(sdl_events) < SdlQueue
        /\ sdl_events' = Append(sdl_events, [type |-> "removed"])
  /\ pad' = [pad EXCEPT !.plugged = ~@]
  /\ UNCHANGED <<joy_conf, joystick, joy_msg, publish_soon, soon_age, publish_age, waited,
                 joy_topic, stick_sent>>

-----------------------------------------------------------------------------
(* The handlers: what an event makes of the state of the node, and whether *)
(* they ask to publish.                                                    *)

\* convertRawAxisValueToROS, with scale_ -1
AxisValue(raw) ==
  LET v == IF raw = -StickEnd - 1 THEN -StickEnd ELSE raw
  IN  IF v > DeadZone THEN -(v - DeadZone) ELSE IF v < -DeadZone THEN -(v + DeadZone) ELSE 0

Unhandled == [open |-> joystick, msg |-> joy_msg, soon |-> publish_soon, age |-> soon_age,
              publish |-> FALSE]

\* The first change opens the interval; a later one publishes once the interval is over.
HandleJoyAxis(e) ==
  LET changed == [Unhandled EXCEPT !.msg.axes.stick = AxisValue(e.of)]
  IN  IF AxisValue(e.of) = joy_msg.axes.stick THEN Unhandled
      ELSE IF joy_conf.coalesce > 0 /\ ~publish_soon
      THEN [changed EXCEPT !.soon = TRUE, !.age = 0]
      ELSE IF soon_age >= joy_conf.coalesce
      THEN [changed EXCEPT !.soon = FALSE, !.publish = TRUE]
      ELSE changed

HandleJoyButtonDown(e) ==
  [Unhandled EXCEPT !.publish = TRUE,
     !.msg.buttons[e.of] = IF joy_conf.sticky_buttons THEN 1 - @ ELSE 1]

HandleJoyButtonUp(e) ==
  IF joy_conf.sticky_buttons THEN Unhandled
  ELSE [Unhandled EXCEPT !.publish = TRUE, !.msg.buttons[e.of] = 0]

\* A pressed direction is written over its axis; only the centred hat takes them back.
HatAxis(h, plus, minus, was) ==
  IF minus \in h THEN -1 ELSE IF plus \in h THEN 1 ELSE IF h = {} THEN 0 ELSE was

HandleJoyHatMotion(e) ==
  [Unhandled EXCEPT !.publish = TRUE,
     !.msg.axes.hat_x = HatAxis(e.of, "left", "right", @),
     !.msg.axes.hat_y = HatAxis(e.of, "up", "down", @)]

\* The device may be gone again, or not open.  A joystick shows only its axes on opening:
\* its buttons are 0 until they are pressed.
HandleJoyDeviceAdded ==
  {Unhandled} \union
  IF pad.plugged
  THEN {[Unhandled EXCEPT !.open = TRUE, !.msg.axes.stick = AxisValue(pad.stick)]}
  ELSE {}

\* Mutant: the message keeps its values when the device is gone.
HandleJoyDeviceRemovedKeeping == [Unhandled EXCEPT !.open = FALSE]

HandleJoyDeviceRemoved == [Unhandled EXCEPT !.open = FALSE, !.msg = NoReading]

\* A game controller keeps the message of the device that went: its axes are read anew when
\* one comes, its buttons are not.
HandleControllerDeviceRemoved == [Unhandled EXCEPT !.open = FALSE]

JoystickHandles(e) ==
  CASE e.type = "axis" -> {HandleJoyAxis(e)}
    [] e.type = "down" -> {HandleJoyButtonDown(e)}
    [] e.type = "up" -> {HandleJoyButtonUp(e)}
    [] e.type = "hat" -> {HandleJoyHatMotion(e)}
    [] e.type = "added" -> HandleJoyDeviceAdded
    [] e.type = "removed" -> {HandleJoyDeviceRemoved}

\* The events of the hat are ignored: they are duplicates of those of its buttons.
ControllerHandles(e) ==
  CASE e.type = "axis" -> {HandleJoyAxis(e)}
    [] e.type = "down" -> {HandleJoyButtonDown(e)}
    [] e.type = "up" -> {HandleJoyButtonUp(e)}
    [] e.type = "hat" -> {Unhandled}
    [] e.type = "added" -> HandleJoyDeviceAdded
    [] e.type = "removed" -> {HandleControllerDeviceRemoved}

-----------------------------------------------------------------------------
(* One turn of the event thread                                            *)

AutorepeatInterval == IF joy_conf.autorepeat > 0 THEN joy_conf.autorepeat ELSE IdleWait

WaitTime == IF publish_soon /\ joy_conf.coalesce < AutorepeatInterval
            THEN joy_conf.coalesce ELSE AutorepeatInterval

\* Mutant: only a repetition is due, and what was put off is published with the next change.
RepeatDueForRepeatsOnly(soon) == joy_conf.autorepeat > 0 /\ publish_age >= AutorepeatInterval

\* What is due without an event that publishes: a repetition or the end of the interval.
RepeatDue(soon) ==
  \/ joy_conf.autorepeat > 0 /\ publish_age >= AutorepeatInterval
  \/ soon

LastOf(s, n) == IF Len(s) <= n THEN s ELSE SubSeq(s, Len(s) - n + 1, Len(s))

\* The end of a turn whose event, if any, left the node as "to".
Publish(to, repeat) ==
  /\ joystick' = to.open
  /\ joy_msg' = to.msg
  /\ publish_soon' = (to.soon /\ ~repeat)
  /\ soon_age' = IF publish_soon' THEN to.age ELSE 0
  /\ publish_age' = IF repeat THEN 0 ELSE publish_age
  /\ waited' = 0
  /\ IF to.open /\ (to.publish \/ repeat)
     THEN joy_topic' = LastOf(Append(joy_topic, to.msg), JoyDepth) /\ stick_sent' = to.msg.axes.stick
     ELSE UNCHANGED <<joy_topic, stick_sent>>
  /\ UNCHANGED <<pad, joy_conf>>

\* joy_node looks whether a message is due after every event that does not publish.
JoystickTurn ==
  /\ joy_conf.node = "joy" /\ sdl_events # <<>>
  /\ sdl_events' = Tail(sdl_events)
  /\ \E to \in JoystickHandles(Head(sdl_events)) : Publish(to, ~to.publish /\ RepeatDue(to.soon))

\* Mutant: the game controller handles an event as the joystick does.
ControllerTurnAsJoystick ==
  /\ joy_conf.node = "game_controller" /\ sdl_events # <<>>
  /\ sdl_events' = Tail(sdl_events)
  /\ \E to \in ControllerHandles(Head(sdl_events)) : Publish(to, ~to.publish /\ RepeatDue(to.soon))

\* game_controller_node does so only when no event came.
ControllerTurn ==
  /\ joy_conf.node = "game_controller" /\ sdl_events # <<>>
  /\ sdl_events' = Tail(sdl_events)
  /\ \E to \in ControllerHandles(Head(sdl_events)) : Publish(to, FALSE)

WaitTimesOut ==
  /\ sdl_events = <<>> /\ waited >= WaitTime
  /\ Publish(Unhandled, RepeatDue(publish_soon))
  /\ UNCHANGED sdl_events

JoyTime ==
  /\ sdl_events = <<>> /\ waited < WaitTime
  /\ waited' = waited + 1
  /\ soon_age' = IF publish_soon /\ soon_age < joy_conf.coalesce THEN soon_age + 1 ELSE soon_age
  /\ publish_age' = IF publish_age < AutorepeatInterval THEN publish_age + 1 ELSE publish_age
  /\ UNCHANGED <<pad, sdl_events, joy_conf, joystick, joy_msg, publish_soon, joy_topic, stick_sent>>

EventThread == JoystickTurn \/ ControllerTurn \/ WaitTimesOut

JoyNodeNext == PadMoves \/ PadComesOrGoes \/ EventThread \/ JoyTime
=============================================================================
