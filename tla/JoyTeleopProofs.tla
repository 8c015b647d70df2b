-------------------------- MODULE JoyTeleopProofs ---------------------------
(***************************************************************************)
(* The joystick nodes and the teleoperation behind them, for any pads,     *)
(* buttons, deadzone, intervals and queues.  The invariant is JoyInv:      *)
(* every variable has its type, the intervals last as long as the thread   *)
(* waits, the queue holds the release of every button it lets go, and      *)
(* joy_node shows no button without an open device.                        *)
(***************************************************************************)
EXTENDS JoyTeleop, SequenceTheorems, TLAPS

(***************************************************************************)
(* The joystick and the teleoperation behind it                            *)
(***************************************************************************)

JoyEvents ==
  [type : {"down", "up"}, of : JoyButtons] \union [type : {"axis"}, of : StickPlaces]
    \union [type : {"hat"}, of : HatPlaces] \union {[type |-> "added"], [type |-> "removed"]}

JoyPads == [plugged : BOOLEAN, buttons : SUBSET JoyButtons, stick : StickPlaces, hat : HatPlaces]
JoyTwists == [linear : -2 * StickEnd .. 2 * StickEnd, angular : -2 .. 2]

JoyTypes ==
  /\ pad \in JoyPads
  /\ sdl_events \in Seq(JoyEvents) /\ Len(sdl_events) <= SdlQueue
  /\ joy_conf \in JoyConfs
  /\ joystick \in BOOLEAN /\ publish_soon \in BOOLEAN
  /\ joy_msg \in JoyReadings /\ stick_sent \in -StickEnd .. StickEnd
  /\ soon_age \in 0 .. joy_conf.coalesce
  /\ publish_age \in 0 .. AutorepeatInterval /\ waited \in 0 .. AutorepeatInterval
  /\ joy_topic \in Seq(JoyReadings) /\ Len(joy_topic) <= JoyDepth

TeleopTypes ==
  teleop_conf \in TeleopConfs /\ sent_disable_msg \in BOOLEAN /\ joy_twist \in JoyTwists

\* The interval that coalesces and the one that repeats last as long as the thread has waited.
Paced ==
  /\ publish_soon => soon_age >= waited \/ soon_age = joy_conf.coalesce
  /\ publish_age >= waited

\* The event of a device that goes is the last one, a device that is not open has no other
\* events, and every press in the queue is held or followed by its release.
Leaving == \E i \in 1 .. Len(sdl_events) : sdl_events[i].type = "removed"
UpBehind(i, b) == \E j \in i + 1 .. Len(sdl_events) : sdl_events[j] = [type |-> "up", of |-> b]

GoingIsQueued == joystick /\ ~pad.plugged => Leaving
EventHolds(i) ==
  /\ sdl_events[i].type = "removed" => i = Len(sdl_events) /\ ~pad.plugged
  /\ ~joystick => sdl_events[i].type \in {"added", "removed"}
PressHeld(i, b) ==
  sdl_events[i] = [type |-> "down", of |-> b] => b \in pad.buttons \/ UpBehind(i, b) \/ Leaving

QueueIsSound ==
  /\ GoingIsQueued
  /\ \A i \in 1 .. Len(sdl_events) :
       EventHolds(i) /\ \A b \in JoyButtons : PressHeld(i, b)

\* joy_node shows buttons of an open device only; game_controller_node keeps those of one that went.
OpenShows ==
  joy_conf.node = "joy" => \A b \in JoyButtons : Pressed(joy_msg, b) => joystick

JoyInv == JoyTypes /\ TeleopTypes /\ Paced /\ QueueIsSound /\ OpenShows

LEMMA JoyConstants ==
  /\ StickEnd \in Nat /\ DeadZone \in Nat /\ IdleWait \in Nat
  /\ SdlQueue \in Nat \ {0} /\ JoyDepth \in Nat \ {0}
  /\ 0 \in StickPlaces /\ {} \in HatPlaces
  /\ \A raw \in StickPlaces : raw \in Int /\ -StickEnd - 1 <= raw /\ raw <= StickEnd
<1>1. /\ StickEnd \in Nat /\ DeadZone \in Nat /\ IdleWait \in Nat
      /\ SdlQueue \in Nat \ {0} /\ JoyDepth \in Nat \ {0}
      /\ 0 \in StickPlaces /\ {} \in HatPlaces
      /\ StickPlaces \subseteq -StickEnd - 1 .. StickEnd
  BY JoyNodeAssumption
<1> QED
  BY <1>1

LEMMA JoyConfsAre ==
  ASSUME NEW c \in JoyConfs
  PROVE  /\ c.node \in {"joy", "game_controller"} /\ c.autorepeat \in Nat /\ c.coalesce \in Nat
         /\ c.sticky_buttons \in BOOLEAN
BY JoyNodeAssumption

LEMMA IntervalsAre ==
  ASSUME JoyTypes
  PROVE  /\ AutorepeatInterval \in Nat /\ WaitTime \in Nat /\ WaitTime <= AutorepeatInterval
         /\ joy_conf.coalesce \in Nat
         /\ WaitTime # AutorepeatInterval => WaitTime = joy_conf.coalesce
<1>1. joy_conf.autorepeat \in Nat /\ joy_conf.coalesce \in Nat /\ IdleWait \in Nat
  BY JoyConfsAre, JoyConstants DEF JoyTypes
<1> QED
  BY <1>1 DEF AutorepeatInterval, WaitTime

LEMMA AxisInRange ==
  ASSUME NEW raw \in StickPlaces
  PROVE  AxisValue(raw) \in -StickEnd .. StickEnd
<1> DEFINE v == IF raw = -StickEnd - 1 THEN -StickEnd ELSE raw
<1>1. /\ StickEnd \in Nat /\ DeadZone \in Nat
      /\ raw \in Int /\ -StickEnd - 1 <= raw /\ raw <= StickEnd
  BY JoyConstants
<1>2. v \in Int /\ -StickEnd <= v /\ v <= StickEnd
  BY <1>1
<1>3. AxisValue(raw) = IF v > DeadZone THEN -(v - DeadZone)
                       ELSE IF v < -DeadZone THEN -(v + DeadZone) ELSE 0
  BY DEF AxisValue
<1> HIDE DEF v
<1> QED
  BY <1>1, <1>2, <1>3

LEMMA NoReadingTyped ==
  NoReading \in JoyReadings /\ \A b \in JoyButtons : ~Pressed(NoReading, b)
BY JoyConstants DEF NoReading, JoyReadings, Pressed

\* What an event may leave
Handled ==
  [open : BOOLEAN, msg : JoyReadings, soon : BOOLEAN, age : 0 .. joy_conf.coalesce,
   publish : BOOLEAN]

LEMMA UnhandledTyped == JoyTypes => Unhandled \in Handled
BY DEF JoyTypes, Unhandled, Handled

\* A message with one value changed
LEMMA StickChanged ==
  ASSUME JoyTypes, NEW v \in -StickEnd .. StickEnd
  PROVE  LET to == [Unhandled EXCEPT !.msg.axes.stick = v]
         IN  /\ to \in Handled /\ to.open = joystick /\ to.soon = publish_soon /\ to.age = soon_age
             /\ ~to.publish /\ to.msg.buttons = joy_msg.buttons
BY DEF JoyTypes, Unhandled, Handled, JoyReadings

LEMMA ButtonChanged ==
  ASSUME JoyTypes, NEW b \in JoyButtons, NEW v \in {0, 1}
  PROVE  LET to == [Unhandled EXCEPT !.publish = TRUE, !.msg.buttons[b] = v]
         IN  /\ to \in Handled /\ to.open = joystick /\ to.soon = publish_soon /\ to.age = soon_age
             /\ to.publish /\ to.msg.buttons = [joy_msg.buttons EXCEPT ![b] = v]
BY DEF JoyTypes, Unhandled, Handled, JoyReadings

LEMMA LastOfIs ==
  ASSUME NEW s \in Seq(JoyReadings)
  PROVE  LastOf(s, JoyDepth) \in Seq(JoyReadings) /\ Len(LastOf(s, JoyDepth)) <= JoyDepth
<1>1. JoyDepth \in Nat \ {0} /\ Len(s) \in Nat
  BY JoyConstants
<1>2. CASE Len(s) <= JoyDepth
  BY <1>1, <1>2 DEF LastOf
<1>3. CASE ~(Len(s) <= JoyDepth)
  <2>1. Len(s) - JoyDepth + 1 \in 1 .. Len(s) /\ Len(s) \in 1 .. Len(s)
    BY <1>1, <1>3
  <2>2. /\ SubSeq(s, Len(s) - JoyDepth + 1, Len(s)) \in Seq(JoyReadings)
        /\ Len(SubSeq(s, Len(s) - JoyDepth + 1, Len(s))) = JoyDepth
    BY <1>1, <1>3, <2>1
  <2> QED
    BY <1>1, <1>3, <2>2 DEF LastOf
<1> QED
  BY <1>2, <1>3

LEMMA AxisHandled ==
  ASSUME JoyTypes, NEW e, e.of \in StickPlaces
  PROVE  LET to == HandleJoyAxis(e)
         IN  /\ to \in Handled /\ to.open = joystick /\ to.msg.buttons = joy_msg.buttons
             /\ to.soon => (to.age = soon_age /\ publish_soon) \/ to.age = 0
             /\ to.publish => joy_conf.coalesce <= soon_age
                              /\ (joy_conf.coalesce = 0 \/ publish_soon)
<1> DEFINE changed == [Unhandled EXCEPT !.msg.axes.stick = AxisValue(e.of)]
<1>1. /\ changed \in Handled /\ changed.open = joystick /\ changed.soon = publish_soon
      /\ changed.age = soon_age /\ ~changed.publish /\ changed.msg.buttons = joy_msg.buttons
  BY AxisInRange, StickChanged
<1>2. /\ Unhandled \in Handled /\ Unhandled.open = joystick /\ Unhandled.soon = publish_soon
      /\ Unhandled.age = soon_age /\ ~Unhandled.publish
      /\ Unhandled.msg.buttons = joy_msg.buttons
  BY UnhandledTyped DEF Unhandled
<1>3. joy_conf.coalesce \in Nat /\ soon_age \in 0 .. joy_conf.coalesce
  BY IntervalsAre DEF JoyTypes
<1>4. HandleJoyAxis(e)
        = IF AxisValue(e.of) = joy_msg.axes.stick THEN Unhandled
          ELSE IF joy_conf.coalesce > 0 /\ ~publish_soon
          THEN [changed EXCEPT !.soon = TRUE, !.age = 0]
          ELSE IF soon_age >= joy_conf.coalesce
          THEN [changed EXCEPT !.soon = FALSE, !.publish = TRUE]
          ELSE changed
  BY DEF HandleJoyAxis
<1> HIDE DEF changed
<1>5. CASE HandleJoyAxis(e) = Unhandled \/ HandleJoyAxis(e) = changed
  BY <1>1, <1>2, <1>5
<1>6. CASE HandleJoyAxis(e) = [changed EXCEPT !.soon = TRUE, !.age = 0]
  <2>1. HandleJoyAxis(e) = [open |-> joystick, msg |-> changed.msg, soon |-> TRUE, age |-> 0,
                            publish |-> FALSE]
    BY <1>1, <1>6 DEF Handled
  <2> QED
    BY <1>1, <1>3, <2>1 DEF Handled
<1>7. CASE /\ HandleJoyAxis(e) = [changed EXCEPT !.soon = FALSE, !.publish = TRUE]
           /\ ~(joy_conf.coalesce > 0 /\ ~publish_soon) /\ soon_age >= joy_conf.coalesce
  <2>1. HandleJoyAxis(e) = [open |-> joystick, msg |-> changed.msg, soon |-> FALSE,
                            age |-> soon_age, publish |-> TRUE]
    BY <1>1, <1>7 DEF Handled
  <2>2. HandleJoyAxis(e) \in Handled
    BY <1>1, <2>1 DEF Handled
  <2>3. joy_conf.coalesce <= soon_age /\ (joy_conf.coalesce = 0 \/ publish_soon)
    BY <1>3, <1>7
  <2> QED
    BY <1>1, <2>1, <2>2, <2>3
<1> QED
  BY <1>4, <1>5, <1>6, <1>7

LEMMA HatAxisChanged ==
  ASSUME NEW to \in Handled, NEW v \in -1 .. 1
  PROVE  \A next \in {[to EXCEPT !.msg.axes.hat_x = v], [to EXCEPT !.msg.axes.hat_y = v]} :
           /\ next \in Handled /\ next.open = to.open /\ next.soon = to.soon /\ next.age = to.age
           /\ next.msg.buttons = to.msg.buttons
BY DEF Handled, JoyReadings

LEMMA HatHandled ==
  ASSUME JoyTypes, NEW e
  PROVE  LET to == HandleJoyHatMotion(e)
         IN  /\ to \in Handled /\ to.open = joystick /\ to.msg.buttons = joy_msg.buttons
             /\ to.soon = publish_soon /\ to.age = soon_age
<1> DEFINE x == HatAxis(e.of, "left", "right", joy_msg.axes.hat_x)
           y == HatAxis(e.of, "up", "down", joy_msg.axes.hat_y)
<1>1. x \in -1 .. 1 /\ y \in -1 .. 1
  BY DEF HatAxis, JoyTypes, JoyReadings
<1>2. HandleJoyHatMotion(e)
        = [Unhandled EXCEPT !.publish = TRUE, !.msg.axes.hat_x = x, !.msg.axes.hat_y = y]
  BY DEF HandleJoyHatMotion, Unhandled, JoyTypes, JoyReadings
<1> DEFINE one == [Unhandled EXCEPT !.publish = TRUE]
           two == [one EXCEPT !.msg.axes.hat_x = x]
           three == [two EXCEPT !.msg.axes.hat_y = y]
<1>3. HandleJoyHatMotion(e) = three
  BY <1>2
<1>4. /\ one \in Handled /\ one.open = joystick /\ one.soon = publish_soon /\ one.age = soon_age
      /\ one.msg.buttons = joy_msg.buttons
  BY UnhandledTyped DEF Unhandled, Handled
<1> HIDE DEF x, y, one
<1>5. /\ two \in Handled /\ two.open = joystick /\ two.soon = publish_soon /\ two.age = soon_age
      /\ two.msg.buttons = joy_msg.buttons
  BY <1>1, <1>4, HatAxisChanged
<1> HIDE DEF two
<1>6. /\ three \in Handled /\ three.open = joystick /\ three.soon = publish_soon
      /\ three.age = soon_age /\ three.msg.buttons = joy_msg.buttons
  BY <1>1, <1>5, HatAxisChanged
<1> QED
  BY <1>3, <1>6

LEMMA ButtonHandled ==
  ASSUME JoyTypes, NEW e, e.of \in JoyButtons
  PROVE  /\ HandleJoyButtonDown(e) \in Handled /\ HandleJoyButtonUp(e) \in Handled
         /\ \A to \in {HandleJoyButtonDown(e), HandleJoyButtonUp(e)} :
              to.open = joystick /\ to.soon = publish_soon /\ to.age = soon_age
         /\ \E v \in {0, 1} :
              HandleJoyButtonDown(e).msg.buttons = [joy_msg.buttons EXCEPT ![e.of] = v]
         /\ ~joy_conf.sticky_buttons =>
              /\ HandleJoyButtonDown(e).msg.buttons = [joy_msg.buttons EXCEPT ![e.of] = 1]
              /\ HandleJoyButtonUp(e).msg.buttons = [joy_msg.buttons EXCEPT ![e.of] = 0]
<1> DEFINE was == joy_msg.buttons[e.of]
           down == IF joy_conf.sticky_buttons THEN 1 - was ELSE 1
<1>1. joy_msg.buttons \in [JoyButtons -> {0, 1}] /\ was \in {0, 1} /\ down \in {0, 1}
  BY DEF JoyTypes, JoyReadings
<1>2. HandleJoyButtonDown(e) = [Unhandled EXCEPT !.publish = TRUE, !.msg.buttons[e.of] = down]
  BY DEF HandleJoyButtonDown, Unhandled, JoyTypes, JoyReadings
<1>3. Unhandled \in Handled /\ Unhandled.open = joystick /\ Unhandled.soon = publish_soon
      /\ Unhandled.age = soon_age
  BY UnhandledTyped DEF Unhandled
<1> HIDE DEF was
<1>4. /\ HandleJoyButtonDown(e) \in Handled /\ HandleJoyButtonDown(e).open = joystick
      /\ HandleJoyButtonDown(e).soon = publish_soon /\ HandleJoyButtonDown(e).age = soon_age
      /\ HandleJoyButtonDown(e).msg.buttons = [joy_msg.buttons EXCEPT ![e.of] = down]
  <2> HIDE DEF down
  <2>1. LET to == [Unhandled EXCEPT !.publish = TRUE, !.msg.buttons[e.of] = down]
        IN  /\ to \in Handled /\ to.open = joystick /\ to.soon = publish_soon /\ to.age = soon_age
            /\ to.msg.buttons = [joy_msg.buttons EXCEPT ![e.of] = down]
    BY <1>1, ButtonChanged
  <2> QED
    BY <1>2, <2>1
<1>5. \E v \in {0, 1} :
        HandleJoyButtonDown(e).msg.buttons = [joy_msg.buttons EXCEPT ![e.of] = v]
  <2> HIDE DEF down
  <2> QED
    BY <1>1, <1>4
<1>6. CASE joy_conf.sticky_buttons
  BY <1>3, <1>4, <1>5, <1>6 DEF HandleJoyButtonUp
<1>7. CASE ~joy_conf.sticky_buttons
  <2>1. HandleJoyButtonUp(e) = [Unhandled EXCEPT !.publish = TRUE, !.msg.buttons[e.of] = 0]
    BY <1>7 DEF HandleJoyButtonUp
  <2>2. /\ HandleJoyButtonUp(e) \in Handled /\ HandleJoyButtonUp(e).open = joystick
        /\ HandleJoyButtonUp(e).soon = publish_soon /\ HandleJoyButtonUp(e).age = soon_age
        /\ HandleJoyButtonUp(e).msg.buttons = [joy_msg.buttons EXCEPT ![e.of] = 0]
    BY <2>1, ButtonChanged
  <2> QED
    BY <1>4, <1>5, <1>7, <2>2
<1> QED
  BY <1>6, <1>7

LEMMA DeviceHandled ==
  ASSUME JoyTypes
  PROVE  /\ \A to \in HandleJoyDeviceAdded :
              /\ to \in Handled /\ to.msg.buttons = joy_msg.buttons /\ ~to.publish
              /\ to.soon = publish_soon /\ to.age = soon_age
              /\ to.open = joystick \/ (to.open /\ pad.plugged)
         /\ HandleJoyDeviceRemoved \in Handled /\ HandleControllerDeviceRemoved \in Handled
         /\ \A to \in {HandleJoyDeviceRemoved, HandleControllerDeviceRemoved} :
              to.soon = publish_soon /\ to.age = soon_age /\ ~to.publish
         /\ ~HandleJoyDeviceRemoved.open /\ HandleJoyDeviceRemoved.msg = NoReading
<1>1. /\ Unhandled \in Handled /\ Unhandled.open = joystick /\ Unhandled.soon = publish_soon
      /\ Unhandled.age = soon_age /\ ~Unhandled.publish
      /\ Unhandled.msg.buttons = joy_msg.buttons
  BY UnhandledTyped DEF Unhandled
<1>2. NoReading \in JoyReadings
  BY NoReadingTyped
<1>3. ASSUME NEW to \in HandleJoyDeviceAdded
      PROVE  /\ to \in Handled /\ to.msg.buttons = joy_msg.buttons /\ ~to.publish
             /\ to.soon = publish_soon /\ to.age = soon_age
             /\ to.open = joystick \/ (to.open /\ pad.plugged)
  <2>1. CASE to = Unhandled
    BY <1>1, <2>1
  <2>2. CASE /\ to = [Unhandled EXCEPT !.open = TRUE, !.msg.axes.stick = AxisValue(pad.stick)]
             /\ pad.plugged
    <3> DEFINE changed == [Unhandled EXCEPT !.msg.axes.stick = AxisValue(pad.stick)]
    <3>1. /\ changed \in Handled /\ changed.soon = publish_soon /\ changed.age = soon_age
          /\ ~changed.publish /\ changed.msg.buttons = joy_msg.buttons
      <4>1. pad.stick \in StickPlaces
        BY DEF JoyTypes, JoyPads
      <4> QED
        BY <4>1, AxisInRange, StickChanged
    <3>2. to = [changed EXCEPT !.open = TRUE]
      BY <2>2 DEF Unhandled
    <3> HIDE DEF changed
    <3> QED
      BY <2>2, <3>1, <3>2 DEF Handled
  <2> QED
    BY <2>1, <2>2 DEF HandleJoyDeviceAdded
<1>4. HandleJoyDeviceRemoved = [Unhandled EXCEPT !.open = FALSE, !.msg = NoReading]
  BY DEF HandleJoyDeviceRemoved
<1>5. HandleControllerDeviceRemoved = [Unhandled EXCEPT !.open = FALSE]
  BY DEF HandleControllerDeviceRemoved
<1> QED
  BY <1>1, <1>2, <1>3, <1>4, <1>5 DEF Handled

\* The events in the queue, by their type
LEMMA EventsAre ==
  ASSUME NEW e \in JoyEvents
  PROVE  /\ e.type \in {"down", "up", "axis", "hat", "added", "removed"}
         /\ e.type \in {"down", "up"} => e.of \in JoyButtons /\ e = [type |-> e.type, of |-> e.of]
         /\ e.type = "axis" => e.of \in StickPlaces
BY DEF JoyEvents

-----------------------------------------------------------------------------
\* What an event leaves, in either node
LEMMA JoystickHandledTyped ==
  ASSUME JoyTypes, NEW e \in JoyEvents,
         NEW to \in JoystickHandles(e) \union ControllerHandles(e)
  PROVE  to \in Handled /\ (to.soon => (to.age = soon_age /\ publish_soon) \/ to.age = 0)
<1>1. /\ e.type \in {"down", "up", "axis", "hat", "added", "removed"}
      /\ e.type \in {"down", "up"} => e.of \in JoyButtons
      /\ e.type = "axis" => e.of \in StickPlaces
  BY EventsAre
<1>2. /\ Unhandled \in Handled /\ Unhandled.soon = publish_soon /\ Unhandled.age = soon_age
  BY UnhandledTyped DEF Unhandled
<1>3. CASE e.type = "axis"
  <2>1. to = HandleJoyAxis(e)
    BY <1>3 DEF JoystickHandles, ControllerHandles
  <2> QED
    BY <1>1, <1>3, <2>1, AxisHandled
<1>4. CASE e.type \in {"down", "up"}
  <2>1. to \in {HandleJoyButtonDown(e), HandleJoyButtonUp(e)}
    BY <1>4 DEF JoystickHandles, ControllerHandles
  <2>2. to \in Handled /\ to.soon = publish_soon /\ to.age = soon_age
    BY <1>1, <1>4, <2>1, ButtonHandled
  <2> QED
    BY <2>2
<1>5. CASE e.type = "hat"
  <2>1. to = HandleJoyHatMotion(e) \/ to = Unhandled
    BY <1>5 DEF JoystickHandles, ControllerHandles
  <2>2. to \in Handled /\ to.soon = publish_soon /\ to.age = soon_age
    BY <1>2, <2>1, HatHandled
  <2> QED
    BY <2>2
<1>6. CASE e.type = "added"
  <2>1. to \in HandleJoyDeviceAdded
    BY <1>6 DEF JoystickHandles, ControllerHandles
  <2>2. to \in Handled /\ to.soon = publish_soon /\ to.age = soon_age
    BY <2>1, DeviceHandled
  <2> QED
    BY <2>2
<1>7. CASE e.type = "removed"
  <2>1. to \in {HandleJoyDeviceRemoved, HandleControllerDeviceRemoved}
    BY <1>7 DEF JoystickHandles, ControllerHandles
  <2>2. to \in Handled /\ to.soon = publish_soon /\ to.age = soon_age
    BY <2>1, DeviceHandled
  <2> QED
    BY <2>2
<1> QED
  BY <1>1, <1>3, <1>4, <1>5, <1>6, <1>7

\* A turn of the thread that took the first event, or none, ends with typed values.
LEMMA PublishTypes ==
  ASSUME JoyTypes, Paced, NEW to \in Handled, NEW repeat \in BOOLEAN, Publish(to, repeat),
         to.soon => (to.age = soon_age /\ publish_soon) \/ to.age = 0,
         sdl_events' \in Seq(JoyEvents), Len(sdl_events') <= SdlQueue
  PROVE  JoyTypes' /\ Paced'
<1>1. joy_conf' = joy_conf /\ pad' = pad
  BY DEF Publish
<1>2. AutorepeatInterval' = AutorepeatInterval /\ AutorepeatInterval \in Nat
      /\ joy_conf.coalesce \in Nat
  BY <1>1, IntervalsAre DEF AutorepeatInterval
<1>3. /\ joystick' \in BOOLEAN /\ joy_msg' \in JoyReadings /\ publish_soon' \in BOOLEAN
      /\ to.msg \in JoyReadings /\ to.age \in 0 .. joy_conf.coalesce
  BY DEF Publish, Handled
<1>4. soon_age' \in 0 .. joy_conf.coalesce
  BY <1>2, <1>3 DEF Publish
<1>5. publish_age' \in 0 .. AutorepeatInterval /\ waited' = 0 /\ publish_age' >= waited'
  BY <1>2 DEF Publish, JoyTypes
<1>6. /\ joy_topic' \in Seq(JoyReadings) /\ Len(joy_topic') <= JoyDepth
      /\ stick_sent' \in -StickEnd .. StickEnd
  <2>1. Append(joy_topic, to.msg) \in Seq(JoyReadings)
    BY <1>3 DEF JoyTypes
  <2>2. to.msg.axes.stick \in -StickEnd .. StickEnd
    BY <1>3 DEF JoyReadings
  <2>3. CASE to.open /\ (to.publish \/ repeat)
    <3>1. joy_topic' = LastOf(Append(joy_topic, to.msg), JoyDepth)
          /\ stick_sent' = to.msg.axes.stick
      BY <2>3 DEF Publish
    <3> QED
      BY <2>1, <2>2, <3>1, LastOfIs
  <2>4. CASE ~(to.open /\ (to.publish \/ repeat))
    BY <2>4 DEF Publish, JoyTypes
  <2> QED
    BY <2>3, <2>4
<1>7. JoyTypes'
  <2>1. AutorepeatInterval' = AutorepeatInterval
    BY <1>2
  <2> QED
    <3>1. pad' \in JoyPads /\ joy_conf' \in JoyConfs /\ soon_age' \in 0 .. joy_conf'.coalesce
      BY <1>1, <1>4 DEF JoyTypes
    <3>2. publish_age' \in 0 .. AutorepeatInterval' /\ waited' \in 0 .. AutorepeatInterval'
      BY <1>2, <1>5
    <3> QED
      BY <1>3, <1>6, <3>1, <3>2 DEF JoyTypes
<1>8. Paced'
  BY <1>2, <1>4, <1>5 DEF Paced
<1> QED
  BY <1>7, <1>8

\* The queue without its first event, and with one more
LEMMA EventTaken ==
  ASSUME JoyTypes, sdl_events # <<>>
  PROVE  /\ Head(sdl_events) \in JoyEvents /\ Head(sdl_events) = sdl_events[1]
         /\ Tail(sdl_events) \in Seq(JoyEvents) /\ Len(sdl_events) \in Nat \ {0}
         /\ Len(Tail(sdl_events)) = Len(sdl_events) - 1
         /\ \A i \in 1 .. Len(Tail(sdl_events)) : Tail(sdl_events)[i] = sdl_events[i + 1]
<1>1. sdl_events \in Seq(JoyEvents) /\ Len(sdl_events) \in Nat
  BY DEF JoyTypes
<1> QED
  BY <1>1, HeadTailProperties

LEMMA EventAdded ==
  ASSUME JoyTypes, NEW e \in JoyEvents
  PROVE  /\ Append(sdl_events, e) \in Seq(JoyEvents) /\ Len(sdl_events) \in Nat
         /\ Len(Append(sdl_events, e)) = Len(sdl_events) + 1
         /\ Append(sdl_events, e)[Len(sdl_events) + 1] = e
         /\ \A i \in 1 .. Len(sdl_events) : Append(sdl_events, e)[i] = sdl_events[i]
<1>1. sdl_events \in Seq(JoyEvents) /\ Len(sdl_events) \in Nat
  BY DEF JoyTypes
<1> QED
  BY <1>1, AppendProperties

LEMMA EventThreadTypes == JoyTypes /\ Paced /\ EventThread => JoyTypes' /\ Paced'
<1> SUFFICES ASSUME JoyTypes, Paced, EventThread PROVE JoyTypes' /\ Paced'
  OBVIOUS
<1>1. CASE WaitTimesOut
  <2>1. /\ Unhandled \in Handled /\ Unhandled.soon = publish_soon /\ Unhandled.age = soon_age
    BY UnhandledTyped DEF Unhandled
  <2>2. RepeatDue(publish_soon) \in BOOLEAN /\ Publish(Unhandled, RepeatDue(publish_soon))
    BY <1>1 DEF WaitTimesOut, RepeatDue, JoyTypes
  <2>3. sdl_events' \in Seq(JoyEvents) /\ Len(sdl_events') <= SdlQueue
    BY <1>1 DEF WaitTimesOut, JoyTypes
  <2> QED
    BY <2>1, <2>2, <2>3, PublishTypes
<1>2. CASE JoystickTurn \/ ControllerTurn
  <2>1. sdl_events # <<>> /\ sdl_events' = Tail(sdl_events)
    BY <1>2 DEF JoystickTurn, ControllerTurn
  <2>2. PICK to \in JoystickHandles(Head(sdl_events)) \union ControllerHandles(Head(sdl_events)),
             repeat \in BOOLEAN : Publish(to, repeat)
    <3>1. CASE JoystickTurn
      <4>1. PICK to \in JoystickHandles(Head(sdl_events)) :
                   Publish(to, ~to.publish /\ RepeatDue(to.soon))
        BY <3>1 DEF JoystickTurn
      <4>2. (~to.publish /\ RepeatDue(to.soon)) \in BOOLEAN
        OBVIOUS
      <4> QED
        BY <4>1, <4>2
    <3>2. CASE ControllerTurn
      BY <3>2 DEF ControllerTurn
    <3> QED
      BY <1>2, <3>1, <3>2
  <2>3. /\ Head(sdl_events) \in JoyEvents
        /\ sdl_events' \in Seq(JoyEvents) /\ Len(sdl_events') <= SdlQueue
    <3>1. Len(sdl_events) \in Nat /\ Len(sdl_events) <= SdlQueue /\ SdlQueue \in Nat
      BY JoyConstants DEF JoyTypes
    <3> QED
      BY <2>1, <3>1, EventTaken
  <2>4. to \in Handled /\ (to.soon => (to.age = soon_age /\ publish_soon) \/ to.age = 0)
    BY <2>3, JoystickHandledTyped
  <2> QED
    BY <2>2, <2>3, <2>4, PublishTypes
<1> QED
  BY <1>1, <1>2 DEF EventThread

\* What the device does adds at most one event.
LEMMA PadMovesIs ==
  ASSUME JoyTypes, PadMoves
  PROVE  /\ pad' \in JoyPads /\ pad'.plugged = pad.plugged
         /\ \E e \in JoyEvents :
              /\ PadEvent(e) /\ e.type \notin {"added", "removed"}
              /\ \A b \in JoyButtons :
                   /\ b \in pad.buttons /\ b \notin pad'.buttons => e = [type |-> "up", of |-> b]
                   /\ e = [type |-> "down", of |-> b] => b \in pad'.buttons
<1>1. /\ pad \in JoyPads /\ pad.buttons \subseteq JoyButtons
  BY DEF JoyTypes, JoyPads
<1>2. ASSUME NEW b \in JoyButtons \ pad.buttons, pad' = [pad EXCEPT !.buttons = @ \union {b}],
             PadEvent([type |-> "down", of |-> b])
      PROVE  /\ pad' \in JoyPads /\ pad'.plugged = pad.plugged
             /\ \E e \in JoyEvents :
                  /\ PadEvent(e) /\ e.type \notin {"added", "removed"}
                  /\ \A c \in JoyButtons :
                       /\ c \in pad.buttons /\ c \notin pad'.buttons
                            => e = [type |-> "up", of |-> c]
                       /\ e = [type |-> "down", of |-> c] => c \in pad'.buttons
  <2> DEFINE e == [type |-> "down", of |-> b]
  <2>1. e \in JoyEvents /\ e.type \notin {"added", "removed"}
    BY DEF JoyEvents
  <2>2. pad' \in JoyPads /\ pad'.plugged = pad.plugged /\ pad'.buttons = pad.buttons \union {b}
    BY <1>1, <1>2 DEF JoyPads
  <2>3. \A c \in JoyButtons : e = [type |-> "down", of |-> c] => c = b
    <3>1. e.of = b /\ \A c : [type |-> "down", of |-> c].of = c
      OBVIOUS
    <3> QED
      BY <3>1
  <2> QED
    BY <1>2, <2>1, <2>2, <2>3
<1>3. ASSUME NEW b \in pad.buttons, pad' = [pad EXCEPT !.buttons = @ \ {b}],
             PadEvent([type |-> "up", of |-> b])
      PROVE  /\ pad' \in JoyPads /\ pad'.plugged = pad.plugged
             /\ \E e \in JoyEvents :
                  /\ PadEvent(e) /\ e.type \notin {"added", "removed"}
                  /\ \A c \in JoyButtons :
                       /\ c \in pad.buttons /\ c \notin pad'.buttons
                            => e = [type |-> "up", of |-> c]
                       /\ e = [type |-> "down", of |-> c] => c \in pad'.buttons
  <2> DEFINE e == [type |-> "up", of |-> b]
  <2>1. e \in JoyEvents /\ e.type \notin {"added", "removed", "down"}
    BY <1>1 DEF JoyEvents
  <2>2. pad' \in JoyPads /\ pad'.plugged = pad.plugged /\ pad'.buttons = pad.buttons \ {b}
    BY <1>1, <1>3 DEF JoyPads
  <2>3. \A c : [type |-> "down", of |-> c].type = "down"
    OBVIOUS
  <2> QED
    BY <1>3, <2>1, <2>2, <2>3
<1>4. ASSUME NEW v \in StickPlaces, pad' = [pad EXCEPT !.stick = v],
             PadEvent([type |-> "axis", of |-> v])
      PROVE  /\ pad' \in JoyPads /\ pad'.plugged = pad.plugged
             /\ \E e \in JoyEvents :
                  /\ PadEvent(e) /\ e.type \notin {"added", "removed"}
                  /\ \A c \in JoyButtons :
                       /\ c \in pad.buttons /\ c \notin pad'.buttons
                            => e = [type |-> "up", of |-> c]
                       /\ e = [type |-> "down", of |-> c] => c \in pad'.buttons
  <2> DEFINE e == [type |-> "axis", of |-> v]
  <2>1. e \in JoyEvents /\ e.type \notin {"added", "removed", "down"}
    BY DEF JoyEvents
  <2>2. pad' \in JoyPads /\ pad'.plugged = pad.plugged /\ pad'.buttons = pad.buttons
    BY <1>1, <1>4 DEF JoyPads
  <2>3. \A c : [type |-> "down", of |-> c].type = "down"
    OBVIOUS
  <2> QED
    BY <1>4, <2>1, <2>2, <2>3
<1>5. ASSUME NEW h \in HatPlaces, pad' = [pad EXCEPT !.hat = h],
             PadEvent([type |-> "hat", of |-> h])
      PROVE  /\ pad' \in JoyPads /\ pad'.plugged = pad.plugged
             /\ \E e \in JoyEvents :
                  /\ PadEvent(e) /\ e.type \notin {"added", "removed"}
                  /\ \A c \in JoyButtons :
                       /\ c \in pad.buttons /\ c \notin pad'.buttons
                            => e = [type |-> "up", of |-> c]
                       /\ e = [type |-> "down", of |-> c] => c \in pad'.buttons
  <2> DEFINE e == [type |-> "hat", of |-> h]
  <2>1. e \in JoyEvents /\ e.type \notin {"added", "removed", "down"}
    BY DEF JoyEvents
  <2>2. pad' \in JoyPads /\ pad'.plugged = pad.plugged /\ pad'.buttons = pad.buttons
    BY <1>1, <1>5 DEF JoyPads
  <2>3. \A c : [type |-> "down", of |-> c].type = "down"
    OBVIOUS
  <2> QED
    BY <1>5, <2>1, <2>2, <2>3
<1> QED
  BY <1>2, <1>3, <1>4, <1>5 DEF PadMoves

LEMMA DeviceTypes ==
  JoyTypes /\ Paced /\ (PadMoves \/ PadComesOrGoes \/ JoyTime) => JoyTypes' /\ Paced'
<1> SUFFICES ASSUME JoyTypes, Paced, PadMoves \/ PadComesOrGoes \/ JoyTime
             PROVE  JoyTypes' /\ Paced'
  OBVIOUS
<1>1. /\ SdlQueue \in Nat \ {0} /\ Len(sdl_events) \in Nat
      /\ AutorepeatInterval \in Nat /\ WaitTime \in Nat /\ WaitTime <= AutorepeatInterval
      /\ joy_conf.coalesce \in Nat
  BY JoyConstants, IntervalsAre DEF JoyTypes
<1>2. joy_conf' = joy_conf /\ AutorepeatInterval' = AutorepeatInterval
  BY DEF PadMoves, PadEvent, PadComesOrGoes, JoyTime, AutorepeatInterval
<1>3. CASE PadMoves
  <2>1. pad' \in JoyPads /\ Len(sdl_events) < SdlQueue
    BY <1>3, PadMovesIs DEF PadMoves
  <2>2. PICK e \in JoyEvents : PadEvent(e)
    BY <1>3, PadMovesIs
  <2>3. sdl_events' \in Seq(JoyEvents) /\ Len(sdl_events') <= SdlQueue
    <3>1. sdl_events' = Append(sdl_events, e) \/ sdl_events' = sdl_events
      BY <2>2 DEF PadEvent
    <3>2. sdl_events \in Seq(JoyEvents)
      BY DEF JoyTypes
    <3>3. /\ Append(sdl_events, e) \in Seq(JoyEvents)
          /\ Len(Append(sdl_events, e)) = Len(sdl_events) + 1
      BY EventAdded
    <3> QED
      BY <1>1, <2>1, <3>1, <3>2, <3>3
  <2>4. UNCHANGED <<joy_conf, joystick, joy_msg, publish_soon, soon_age, publish_age, waited,
                    joy_topic, stick_sent>>
    BY <2>2 DEF PadEvent
  <2>5. publish_age' \in 0 .. AutorepeatInterval' /\ waited' \in 0 .. AutorepeatInterval'
    BY <1>2, <2>4 DEF JoyTypes
  <2> QED
    BY <2>1, <2>3, <2>4, <2>5 DEF JoyTypes, Paced
<1>4. CASE PadComesOrGoes
  <2>1. pad' \in JoyPads
    BY <1>4 DEF PadComesOrGoes, JoyTypes, JoyPads
  <2>2. sdl_events' \in Seq(JoyEvents) /\ Len(sdl_events') <= SdlQueue
    <3>1. [type |-> "added"] \in JoyEvents /\ [type |-> "removed"] \in JoyEvents
      BY DEF JoyEvents
    <3>2. CASE sdl_events' = <<[type |-> "added"]>>
      BY <1>1, <3>1, <3>2
    <3>3. CASE Len(sdl_events) < SdlQueue /\ sdl_events' = Append(sdl_events, [type |-> "removed"])
      BY <1>1, <3>1, <3>3, EventAdded
    <3> QED
      BY <1>4, <3>2, <3>3 DEF PadComesOrGoes
  <2>3. UNCHANGED <<joy_conf, joystick, joy_msg, publish_soon, soon_age, publish_age, waited,
                    joy_topic, stick_sent>>
    BY <1>4 DEF PadComesOrGoes
  <2>4. publish_age' \in 0 .. AutorepeatInterval' /\ waited' \in 0 .. AutorepeatInterval'
    BY <1>2, <2>3 DEF JoyTypes
  <2> QED
    BY <2>1, <2>2, <2>3, <2>4 DEF JoyTypes, Paced
<1>5. CASE JoyTime
  <2>1. UNCHANGED <<pad, sdl_events, joy_conf, joystick, joy_msg, publish_soon, joy_topic,
                    stick_sent>>
    BY <1>5 DEF JoyTime
  <2>2. /\ waited \in Nat /\ waited < WaitTime /\ waited' = waited + 1
        /\ publish_age \in 0 .. AutorepeatInterval /\ soon_age \in 0 .. joy_conf.coalesce
    BY <1>1, <1>5 DEF JoyTime, JoyTypes
  <2>3. publish_age' \in 0 .. AutorepeatInterval /\ waited' \in 0 .. AutorepeatInterval
        /\ publish_age' >= waited'
    BY <1>1, <1>5, <2>2 DEF JoyTime, Paced
  <2>4. /\ soon_age' \in 0 .. joy_conf.coalesce
        /\ publish_soon' => soon_age' >= waited' \/ soon_age' = joy_conf'.coalesce
    BY <1>1, <1>2, <1>5, <2>1, <2>2 DEF JoyTime, Paced
  <2>5. publish_age' \in 0 .. AutorepeatInterval' /\ waited' \in 0 .. AutorepeatInterval'
    BY <1>2, <2>3
  <2> QED
    BY <2>1, <2>3, <2>4, <2>5 DEF JoyTypes, Paced
<1> QED
  BY <1>3, <1>4, <1>5

\* The callback of the teleoperation
LEMMA CommandTyped ==
  ASSUME TeleopTypes, NEW m \in JoyReadings, NEW scale \in {1, 2}
  PROVE  FillCmdVelMsg(m, scale) \in JoyTwists
<1> DEFINE lin == m.axes.stick * scale
           ang == m.axes.hat_x * scale
<1>1. StickEnd \in Nat /\ m.axes.stick \in -StickEnd .. StickEnd /\ m.axes.hat_x \in -1 .. 1
  BY JoyConstants DEF JoyReadings
<1>2. lin \in -2 * StickEnd .. 2 * StickEnd /\ ang \in -2 .. 2 /\ -ang \in -2 .. 2
  <2>1. CASE scale = 1
    BY <1>1, <2>1
  <2>2. CASE scale = 2
    BY <1>1, <2>2
  <2> QED
    BY <2>1, <2>2
<1>3. FillCmdVelMsg(m, scale)
        = [linear |-> lin,
           angular |-> IF lin < 0 /\ teleop_conf.inverted_reverse THEN -ang ELSE ang]
  BY DEF FillCmdVelMsg
<1> HIDE DEF lin, ang
<1> QED
  BY <1>2, <1>3 DEF JoyTwists

LEMMA NoMotionTyped == NoMotion \in JoyTwists
BY JoyConstants DEF NoMotion, JoyTwists

LEMMA JoyCallbackTypes ==
  JoyTypes /\ TeleopTypes /\ Paced /\ JoyCallback => JoyTypes' /\ TeleopTypes' /\ Paced'
<1> SUFFICES ASSUME JoyTypes, TeleopTypes, Paced, JoyCallback
             PROVE  JoyTypes' /\ TeleopTypes' /\ Paced'
  OBVIOUS
<1>1. /\ Head(joy_topic) \in JoyReadings
      /\ joy_topic' \in Seq(JoyReadings) /\ Len(joy_topic') <= JoyDepth
  <2>1. joy_topic # <<>> /\ joy_topic' = Tail(joy_topic)
    BY DEF JoyCallback
  <2>2. joy_topic \in Seq(JoyReadings) /\ Len(joy_topic) \in Nat /\ Len(joy_topic) <= JoyDepth
    BY DEF JoyTypes
  <2>3. /\ Head(joy_topic) \in JoyReadings /\ Tail(joy_topic) \in Seq(JoyReadings)
        /\ Len(Tail(joy_topic)) = Len(joy_topic) - 1
    BY <2>1, <2>2, HeadTailProperties
  <2> QED
    BY <2>1, <2>2, <2>3, JoyConstants
<1>2. UNCHANGED <<pad, sdl_events, joy_conf, joystick, joy_msg, publish_soon, soon_age,
                  publish_age, waited, stick_sent, teleop_conf>>
  BY DEF JoyCallback
<1>3. AutorepeatInterval' = AutorepeatInterval
  BY <1>2 DEF AutorepeatInterval
<1>4. publish_age' \in 0 .. AutorepeatInterval' /\ waited' \in 0 .. AutorepeatInterval'
  BY <1>2, <1>3 DEF JoyTypes
<1>5. JoyTypes' /\ Paced'
  BY <1>1, <1>2, <1>4 DEF JoyTypes, Paced
<1>6. sent_disable_msg' \in BOOLEAN /\ joy_twist' \in JoyTwists
  <2> DEFINE m == Head(joy_topic)
  <2>1. FillCmdVelMsg(m, 1) \in JoyTwists /\ FillCmdVelMsg(m, 2) \in JoyTwists
    BY <1>1, CommandTyped
  <2>2. \/ SendCmdVelMsg(m, 2) \/ SendCmdVelMsg(m, 1)
        \/ joy_twist' = NoMotion /\ sent_disable_msg' = TRUE
        \/ UNCHANGED <<joy_twist, sent_disable_msg>>
    BY DEF JoyCallback
  <2> QED
    BY <2>1, <2>2, NoMotionTyped DEF SendCmdVelMsg, TeleopTypes
<1> QED
  BY <1>2, <1>5, <1>6 DEF TeleopTypes

-----------------------------------------------------------------------------
\* Something among the events stays there when the first one is taken and is something else.
LEMMA TailKeeps ==
  ASSUME JoyTypes, sdl_events # <<>>, sdl_events' = Tail(sdl_events)
  PROVE  /\ Leaving /\ sdl_events[1].type # "removed" => Leaving'
         /\ \A b \in JoyButtons :
              InEvents("up", b) /\ sdl_events[1].type # "up" => InEvents("up", b)'
         /\ \A b, c \in JoyButtons :
              InEvents("up", b) /\ sdl_events[1] = [type |-> "up", of |-> c] /\ b # c =>
                InEvents("up", b)'
         /\ \A i \in 1 .. Len(sdl_events'), b \in JoyButtons :
              UpBehind(i + 1, b) => UpBehind(i, b)'
         /\ \A b \in JoyButtons : UpBehind(1, b) => InEvents("up", b)'
<1>1. /\ Len(sdl_events) \in Nat \ {0} /\ Len(sdl_events') = Len(sdl_events) - 1
      /\ \A i \in 1 .. Len(sdl_events') : sdl_events'[i] = sdl_events[i + 1]
  BY EventTaken
<1>2. ASSUME NEW j \in 2 .. Len(sdl_events)
      PROVE  /\ j - 1 \in 1 .. Len(sdl_events') /\ sdl_events'[j - 1] = sdl_events[j]
  <2>1. j - 1 \in 1 .. Len(sdl_events') /\ (j - 1) + 1 = j
    BY <1>1
  <2> QED
    BY <1>1, <2>1
<1>3. ASSUME Leaving, sdl_events[1].type # "removed" PROVE Leaving'
  <2>1. PICK j \in 1 .. Len(sdl_events) : sdl_events[j].type = "removed"
    BY <1>3 DEF Leaving
  <2>2. j \in 2 .. Len(sdl_events)
    BY <1>1, <1>3, <2>1
  <2> QED
    BY <1>2, <2>1, <2>2 DEF Leaving
<1>4. ASSUME NEW b \in JoyButtons, InEvents("up", b), sdl_events[1] # [type |-> "up", of |-> b]
      PROVE  InEvents("up", b)'
  <2>1. PICK j \in 1 .. Len(sdl_events) : sdl_events[j] = [type |-> "up", of |-> b]
    BY <1>4 DEF InEvents
  <2>2. j \in 2 .. Len(sdl_events)
    BY <1>1, <1>4, <2>1
  <2> QED
    BY <1>2, <2>1, <2>2 DEF InEvents
<1>5. ASSUME NEW i \in 1 .. Len(sdl_events'), NEW b \in JoyButtons, UpBehind(i + 1, b)
      PROVE  UpBehind(i, b)'
  <2>1. PICK j \in (i + 1) + 1 .. Len(sdl_events) : sdl_events[j] = [type |-> "up", of |-> b]
    BY <1>5 DEF UpBehind
  <2>2. j \in 2 .. Len(sdl_events) /\ j - 1 \in i + 1 .. Len(sdl_events')
    BY <1>1, <2>1
  <2> QED
    BY <1>2, <2>1, <2>2 DEF UpBehind
<1>6. ASSUME NEW b \in JoyButtons, UpBehind(1, b) PROVE InEvents("up", b)'
  <2>1. PICK j \in 1 + 1 .. Len(sdl_events) : sdl_events[j] = [type |-> "up", of |-> b]
    BY <1>6 DEF UpBehind
  <2>2. j \in 2 .. Len(sdl_events)
    BY <2>1
  <2> QED
    BY <1>2, <2>1, <2>2 DEF InEvents
<1>7. \A b, c \in JoyButtons : b # c => [type |-> "up", of |-> c] # [type |-> "up", of |-> b]
  <2> SUFFICES ASSUME NEW b \in JoyButtons, NEW c \in JoyButtons, b # c
               PROVE  [type |-> "up", of |-> c] # [type |-> "up", of |-> b]
    OBVIOUS
  <2>1. [type |-> "up", of |-> c].of = c /\ [type |-> "up", of |-> b].of = b
    OBVIOUS
  <2> QED
    BY <2>1
<1>8. \A b : [type |-> "up", of |-> b].type = "up"
  OBVIOUS
<1> QED
  BY <1>3, <1>4, <1>5, <1>6, <1>7, <1>8

\* Something among the events stays there when another one comes.
LEMMA AppendKeeps ==
  ASSUME JoyTypes, NEW e \in JoyEvents, sdl_events' = Append(sdl_events, e)
  PROVE  /\ Leaving => Leaving'
         /\ \A b \in JoyButtons : InEvents("up", b) => InEvents("up", b)'
         /\ \A i \in 1 .. Len(sdl_events), b \in JoyButtons :
              UpBehind(i, b) \/ e = [type |-> "up", of |-> b] => UpBehind(i, b)'
         /\ \A b \in JoyButtons : e = [type |-> "up", of |-> b] => InEvents("up", b)'
         /\ e.type = "removed" => Leaving'
<1>1. /\ Len(sdl_events) \in Nat /\ Len(sdl_events') = Len(sdl_events) + 1
      /\ sdl_events'[Len(sdl_events) + 1] = e
      /\ \A i \in 1 .. Len(sdl_events) : sdl_events'[i] = sdl_events[i]
  BY EventAdded
<1>2. ASSUME NEW j \in 1 .. Len(sdl_events) PROVE j \in 1 .. Len(sdl_events')
  BY <1>1
<1>3. Len(sdl_events) + 1 \in 1 .. Len(sdl_events')
  BY <1>1
<1>4. Leaving => Leaving'
  BY <1>1, <1>2 DEF Leaving
<1>5. \A b \in JoyButtons : InEvents("up", b) => InEvents("up", b)'
  BY <1>1, <1>2 DEF InEvents
<1>6. ASSUME NEW i \in 1 .. Len(sdl_events), NEW b \in JoyButtons, UpBehind(i, b)
      PROVE  UpBehind(i, b)'
  <2>1. PICK j \in i + 1 .. Len(sdl_events) : sdl_events[j] = [type |-> "up", of |-> b]
    BY <1>6 DEF UpBehind
  <2>2. j \in 1 .. Len(sdl_events) /\ j \in i + 1 .. Len(sdl_events')
    BY <1>1, <2>1
  <2> QED
    BY <1>1, <2>1, <2>2 DEF UpBehind
<1>7. ASSUME NEW i \in 1 .. Len(sdl_events), NEW b \in JoyButtons, e = [type |-> "up", of |-> b]
      PROVE  UpBehind(i, b)'
  <2>1. Len(sdl_events) + 1 \in i + 1 .. Len(sdl_events')
    BY <1>1
  <2> QED
    BY <1>1, <1>7, <2>1 DEF UpBehind
<1>8. \A b \in JoyButtons : e = [type |-> "up", of |-> b] => InEvents("up", b)'
  BY <1>1, <1>3 DEF InEvents
<1>9. e.type = "removed" => Leaving'
  BY <1>1, <1>3 DEF Leaving
<1> QED
  BY <1>4, <1>5, <1>6, <1>7, <1>8, <1>9

-----------------------------------------------------------------------------
\* What the handlers make of a device and of its buttons: the device is open as before unless
\* it came or went, and a button is shown as before unless the event is its own.  joy_node
\* shows no button of a device that went.
LEMMA HandlerShows ==
  ASSUME JoyTypes, NEW e \in JoyEvents,
         NEW to \in JoystickHandles(e) \union ControllerHandles(e)
  PROVE  /\ e.type = "removed" => ~to.open
         /\ e.type # "removed" =>
              to.open = joystick \/ (e.type = "added" /\ to.open /\ pad.plugged)
         /\ \A b \in JoyButtons : Pressed(to.msg, b) =>
              /\ Pressed(joy_msg, b) \/ e = [type |-> "down", of |-> b]
              /\ ~joy_conf.sticky_buttons => e # [type |-> "up", of |-> b]
              /\ e.type = "removed" => to \notin JoystickHandles(e)
<1>1. /\ e.type \in {"down", "up", "axis", "hat", "added", "removed"}
      /\ e.type \in {"down", "up"} => e.of \in JoyButtons /\ e = [type |-> e.type, of |-> e.of]
      /\ e.type = "axis" => e.of \in StickPlaces
  BY EventsAre
<1>2. /\ joy_msg.buttons \in [JoyButtons -> {0, 1}]
      /\ Unhandled.open = joystick /\ Unhandled.msg = joy_msg
  BY DEF JoyTypes, JoyReadings, Unhandled
<1>3. \A b : [type |-> "up", of |-> b].type = "up" /\ [type |-> "up", of |-> b].of = b
  OBVIOUS
<1>4. CASE e.type \in {"axis", "hat", "added"}
  <2>1. to.msg.buttons = joy_msg.buttons
        /\ (to.open = joystick \/ (e.type = "added" /\ to.open /\ pad.plugged))
    <3>1. CASE e.type = "axis"
      <4>1. to = HandleJoyAxis(e)
        BY <3>1 DEF JoystickHandles, ControllerHandles
      <4> QED
        BY <1>1, <3>1, <4>1, AxisHandled
    <3>2. CASE e.type = "hat"
      <4>1. to = HandleJoyHatMotion(e) \/ to = Unhandled
        BY <3>2 DEF JoystickHandles, ControllerHandles
      <4> QED
        BY <1>2, <4>1, HatHandled
    <3>3. CASE e.type = "added"
      <4>1. to \in HandleJoyDeviceAdded
        BY <3>3 DEF JoystickHandles, ControllerHandles
      <4> QED
        BY <3>3, <4>1, DeviceHandled
    <3> QED
      BY <1>4, <3>1, <3>2, <3>3
  <2>2. \A b \in JoyButtons : e # [type |-> "up", of |-> b]
    BY <1>3, <1>4
  <2> QED
    BY <1>4, <2>1, <2>2 DEF Pressed
<1>5. CASE e.type = "removed"
  <2>1. /\ to = HandleJoyDeviceRemoved \/ to = HandleControllerDeviceRemoved
        /\ (to \in JoystickHandles(e) => to = HandleJoyDeviceRemoved)
    BY <1>5 DEF JoystickHandles, ControllerHandles
  <2>2. /\ ~HandleJoyDeviceRemoved.open /\ HandleJoyDeviceRemoved.msg = NoReading
        /\ ~HandleControllerDeviceRemoved.open /\ HandleControllerDeviceRemoved.msg = joy_msg
    BY <1>2, DeviceHandled DEF HandleControllerDeviceRemoved, Unhandled
  <2>3. \A b \in JoyButtons : e # [type |-> "up", of |-> b]
    BY <1>3, <1>5
  <2> QED
    BY <1>5, <2>1, <2>2, <2>3, NoReadingTyped
<1>6. CASE e.type = "down"
  <2>1. to = HandleJoyButtonDown(e)
    BY <1>6 DEF JoystickHandles, ControllerHandles
  <2>2. PICK v \in {0, 1} : /\ to.open = joystick
                            /\ to.msg.buttons = [joy_msg.buttons EXCEPT ![e.of] = v]
    BY <1>1, <1>6, <2>1, ButtonHandled
  <2>3. \A b \in JoyButtons : e # [type |-> "up", of |-> b]
    BY <1>3, <1>6
  <2>4. ASSUME NEW b \in JoyButtons, Pressed(to.msg, b)
        PROVE  Pressed(joy_msg, b) \/ e = [type |-> "down", of |-> b]
    BY <1>1, <1>2, <1>6, <2>2, <2>4 DEF Pressed
  <2> QED
    BY <1>6, <2>2, <2>3, <2>4
<1>7. CASE e.type = "up"
  <2>1. to = HandleJoyButtonUp(e)
    BY <1>7 DEF JoystickHandles, ControllerHandles
  <2>2. CASE joy_conf.sticky_buttons
    <3>1. to = Unhandled
      BY <2>1, <2>2 DEF HandleJoyButtonUp
    <3> QED
      BY <1>2, <1>7, <2>2, <3>1
  <2>3. CASE ~joy_conf.sticky_buttons
    <3>1. to.open = joystick /\ to.msg.buttons = [joy_msg.buttons EXCEPT ![e.of] = 0]
      BY <1>1, <1>7, <2>1, <2>3, ButtonHandled
    <3>2. ASSUME NEW b \in JoyButtons, Pressed(to.msg, b)
          PROVE  e # [type |-> "up", of |-> b] /\ Pressed(joy_msg, b)
      <4>1. b # e.of
        BY <1>1, <1>2, <1>7, <3>1, <3>2 DEF Pressed
      <4> QED
        BY <1>1, <1>2, <1>3, <1>7, <3>1, <3>2, <4>1 DEF Pressed
    <3> QED
      BY <1>7, <3>1, <3>2
  <2> QED
    BY <2>2, <2>3
<1> QED
  BY <1>1, <1>4, <1>5, <1>6, <1>7

\* A turn of either node takes the first event, and shows what its handler made of it.
LEMMA TurnIs ==
  ASSUME JoyTypes, JoystickTurn \/ ControllerTurn
  PROVE  /\ sdl_events # <<>> /\ sdl_events' = Tail(sdl_events) /\ sdl_events[1] \in JoyEvents
         /\ \E to \in JoystickHandles(sdl_events[1]) \union ControllerHandles(sdl_events[1]) :
              /\ pad' = pad /\ joy_conf' = joy_conf /\ joy_msg' = to.msg /\ joystick' = to.open
              /\ joy_conf.node = "joy" => to \in JoystickHandles(sdl_events[1])
<1>1. sdl_events # <<>> /\ sdl_events' = Tail(sdl_events)
  BY DEF JoystickTurn, ControllerTurn
<1>2. Head(sdl_events) = sdl_events[1] /\ sdl_events[1] \in JoyEvents
  BY <1>1, EventTaken
<1>3. CASE JoystickTurn
  <2>1. PICK to \in JoystickHandles(Head(sdl_events)) :
               Publish(to, ~to.publish /\ RepeatDue(to.soon))
    BY <1>3 DEF JoystickTurn
  <2> QED
    BY <1>1, <1>2, <2>1 DEF Publish
<1>4. CASE ControllerTurn
  <2>1. PICK to \in ControllerHandles(Head(sdl_events)) : Publish(to, FALSE)
    BY <1>4 DEF ControllerTurn
  <2>2. joy_conf.node # "joy"
    BY <1>4 DEF ControllerTurn
  <2> QED
    BY <1>1, <1>2, <2>1, <2>2 DEF Publish
<1> QED
  BY <1>3, <1>4

-----------------------------------------------------------------------------
\* Each action keeps what the queue says and joy_node shows, and makes no node with an open
\* device show a button falsely.
ShownTruly == \A b \in JoyButtons : FalselyShown(b)' => FalselyShown(b) \/ ~joystick'

LEMMA FalselyShownIs ==
  ASSUME NEW b
  PROVE  FalselyShown(b) <=> /\ ~joy_conf.sticky_buttons /\ Pressed(joy_msg, b)
                             /\ b \notin pad.buttons /\ ~InEvents("up", b) /\ ~Leaving
BY DEF FalselyShown, Leaving

LEMMA TurnKeeps ==
  ASSUME JoyTypes, QueueIsSound, OpenShows, JoystickTurn \/ ControllerTurn
  PROVE  QueueIsSound' /\ OpenShows' /\ ShownTruly
<1> DEFINE e == sdl_events[1]
<1>1. PICK to \in JoystickHandles(e) \union ControllerHandles(e) :
             /\ pad' = pad /\ joy_conf' = joy_conf /\ joy_msg' = to.msg /\ joystick' = to.open
             /\ joy_conf.node = "joy" => to \in JoystickHandles(e)
  BY TurnIs
<1>2. /\ e \in JoyEvents /\ sdl_events # <<>> /\ sdl_events' = Tail(sdl_events)
      /\ Len(sdl_events) \in Nat \ {0} /\ Len(sdl_events') = Len(sdl_events) - 1
      /\ \A i \in 1 .. Len(sdl_events') : sdl_events'[i] = sdl_events[i + 1]
  BY TurnIs, EventTaken
<1>3. /\ e.type = "removed" => 1 = Len(sdl_events)
      /\ ~joystick => e.type \in {"added", "removed"}
      /\ \A b \in JoyButtons : PressHeld(1, b)
  <2>1. 1 \in 1 .. Len(sdl_events)
    BY <1>2
  <2> QED
    BY <2>1 DEF QueueIsSound, EventHolds
<1>4. /\ e.type = "removed" => ~to.open
      /\ e.type # "removed" =>
           to.open = joystick \/ (e.type = "added" /\ to.open /\ pad.plugged)
      /\ \A b \in JoyButtons : Pressed(to.msg, b) =>
           /\ Pressed(joy_msg, b) \/ e = [type |-> "down", of |-> b]
           /\ ~joy_conf.sticky_buttons => e # [type |-> "up", of |-> b]
           /\ e.type = "removed" => to \notin JoystickHandles(e)
  BY <1>2, HandlerShows
<1> HIDE DEF e
<1>5. \A b \in JoyButtons : e = [type |-> "down", of |-> b] => e.type = "down"
  OBVIOUS
<1>6. CASE e.type = "removed"
  <2>1. Len(sdl_events') = 0 /\ ~joystick'
    <3>1. 1 = Len(sdl_events) /\ Len(sdl_events') = Len(sdl_events) - 1
      BY <1>2, <1>3, <1>6
    <3>2. ~joystick'
      BY <1>1, <1>4, <1>6
    <3> QED
      BY <3>1, <3>2
  <2>2. 1 .. Len(sdl_events') = {}
    BY <2>1
  <2>3. QueueIsSound'
    BY <2>1, <2>2 DEF QueueIsSound, GoingIsQueued
  <2>4. OpenShows'
    BY <1>1, <1>4, <1>6 DEF OpenShows
  <2> QED
    BY <2>1, <2>3, <2>4 DEF ShownTruly
<1>7. CASE e.type # "removed"
  <2>1. /\ Leaving => Leaving'
        /\ \A b \in JoyButtons :
             InEvents("up", b) /\ e # [type |-> "up", of |-> b] => InEvents("up", b)'
        /\ \A b \in JoyButtons : UpBehind(1, b) => InEvents("up", b)'
        /\ \A i \in 1 .. Len(sdl_events'), b \in JoyButtons :
             UpBehind(i + 1, b) => UpBehind(i, b)'
    <3>1. e = sdl_events[1]
      BY DEF e
    <3>2. e.type = "up" => \E c \in JoyButtons : e = [type |-> "up", of |-> c]
      BY <1>2, EventsAre
    <3> QED
      BY <1>2, <1>7, <3>1, <3>2, TailKeeps
  <2>2. joystick => joystick'
    BY <1>1, <1>4, <1>7
  <2>3. QueueIsSound'
    <3>1. GoingIsQueued'
      BY <1>1, <1>4, <1>7, <2>1 DEF QueueIsSound, GoingIsQueued
    <3>2. ASSUME NEW i \in 1 .. Len(sdl_events')
          PROVE  EventHolds(i)' /\ \A b \in JoyButtons : PressHeld(i, b)'
      <4>1. i + 1 \in 1 .. Len(sdl_events) /\ sdl_events'[i] = sdl_events[i + 1]
            /\ (i + 1 = Len(sdl_events) <=> i = Len(sdl_events'))
        BY <1>2
      <4>2. EventHolds(i + 1) /\ \A b \in JoyButtons : PressHeld(i + 1, b)
        BY <4>1 DEF QueueIsSound
      <4>3. EventHolds(i)'
        BY <1>1, <2>2, <4>1, <4>2 DEF EventHolds
      <4>4. ASSUME NEW b \in JoyButtons PROVE PressHeld(i, b)'
        BY <1>1, <2>1, <4>1, <4>2 DEF PressHeld
      <4> QED
        BY <4>3, <4>4
    <3> QED
      BY <3>1, <3>2 DEF QueueIsSound
  <2>4. OpenShows'
    <3> SUFFICES ASSUME joy_conf.node = "joy", NEW b \in JoyButtons, Pressed(to.msg, b)
                 PROVE  joystick'
      BY <1>1 DEF OpenShows
    <3>1. CASE Pressed(joy_msg, b)
      BY <2>2, <3>1 DEF OpenShows
    <3>2. CASE e = [type |-> "down", of |-> b]
      BY <1>3, <1>5, <2>2, <3>2
    <3> QED
      BY <1>4, <3>1, <3>2
  <2>5. ASSUME NEW b \in JoyButtons, FalselyShown(b)' PROVE FalselyShown(b)
    <3>1. /\ ~joy_conf.sticky_buttons /\ Pressed(to.msg, b) /\ b \notin pad.buttons
          /\ ~InEvents("up", b)' /\ ~Leaving'
      BY <1>1, <2>5 DEF FalselyShown, Leaving
    <3>2. /\ Pressed(joy_msg, b) \/ e = [type |-> "down", of |-> b]
          /\ e # [type |-> "up", of |-> b]
      BY <1>4, <3>1
    <3>3. ~InEvents("up", b) /\ ~Leaving /\ ~UpBehind(1, b)
      BY <2>1, <3>1, <3>2
    <3>4. e # [type |-> "down", of |-> b]
      BY <1>3, <3>1, <3>3 DEF PressHeld, e
    <3> QED
      BY <3>1, <3>2, <3>3, <3>4, FalselyShownIs
  <2> QED
    BY <2>3, <2>4, <2>5 DEF ShownTruly
<1> QED
  BY <1>6, <1>7

LEMMA PadMovesKeeps ==
  ASSUME JoyTypes, QueueIsSound, OpenShows, PadMoves
  PROVE  QueueIsSound' /\ OpenShows' /\ ShownTruly
<1>1. pad'.plugged = pad.plugged
  BY PadMovesIs
<1>2. PICK e \in JoyEvents :
           /\ PadEvent(e) /\ e.type \notin {"added", "removed"}
           /\ \A b \in JoyButtons :
                /\ b \in pad.buttons /\ b \notin pad'.buttons => e = [type |-> "up", of |-> b]
                /\ e = [type |-> "down", of |-> b] => b \in pad'.buttons
  BY PadMovesIs
<1>3. /\ sdl_events' = IF joystick /\ pad.plugged THEN Append(sdl_events, e) ELSE sdl_events
      /\ joy_conf' = joy_conf /\ joystick' = joystick /\ joy_msg' = joy_msg
  BY <1>2 DEF PadEvent
<1>4. OpenShows'
  BY <1>3 DEF OpenShows, Pressed
<1>5. CASE joystick /\ pad.plugged
  <2>1. sdl_events' = Append(sdl_events, e)
    BY <1>3, <1>5
  <2>2. /\ Leaving => Leaving'
        /\ \A b \in JoyButtons : InEvents("up", b) => InEvents("up", b)'
        /\ \A i \in 1 .. Len(sdl_events), b \in JoyButtons :
             UpBehind(i, b) \/ e = [type |-> "up", of |-> b] => UpBehind(i, b)'
        /\ \A b \in JoyButtons : e = [type |-> "up", of |-> b] => InEvents("up", b)'
    BY <2>1, AppendKeeps
  <2>3. /\ Len(sdl_events) \in Nat /\ Len(sdl_events') = Len(sdl_events) + 1
        /\ sdl_events'[Len(sdl_events) + 1] = e
        /\ \A i \in 1 .. Len(sdl_events) : sdl_events'[i] = sdl_events[i]
    BY <2>1, EventAdded
  <2>4. ASSUME NEW b \in JoyButtons, FalselyShown(b)' PROVE FalselyShown(b)
    <3>1. /\ ~joy_conf.sticky_buttons /\ Pressed(joy_msg, b) /\ b \notin pad'.buttons
          /\ ~InEvents("up", b)' /\ ~Leaving'
      BY <1>3, <2>4 DEF FalselyShown, Leaving, Pressed
    <3> QED
      BY <1>2, <2>2, <3>1, FalselyShownIs
  <2>5. GoingIsQueued'
    BY <1>1, <1>5 DEF GoingIsQueued
  <2>6. ASSUME NEW i \in 1 .. Len(sdl_events')
        PROVE  EventHolds(i)' /\ \A b \in JoyButtons : PressHeld(i, b)'
    <3>1. CASE i \in 1 .. Len(sdl_events)
      <4>1. EventHolds(i) /\ \A b \in JoyButtons : PressHeld(i, b)
        BY <3>1 DEF QueueIsSound
      <4>2. sdl_events'[i] = sdl_events[i]
        BY <2>3, <3>1
      <4>3. EventHolds(i)'
        BY <1>1, <1>3, <1>5, <4>1, <4>2 DEF EventHolds
      <4>4. ASSUME NEW b \in JoyButtons PROVE PressHeld(i, b)'
        BY <1>2, <2>2, <3>1, <4>1, <4>2 DEF PressHeld
      <4> QED
        BY <4>3, <4>4
    <3>2. CASE i = Len(sdl_events) + 1
      <4>1. sdl_events'[i] = e
        BY <2>3, <3>2
      <4>2. EventHolds(i)'
        BY <1>2, <1>3, <1>5, <4>1 DEF EventHolds
      <4>3. ASSUME NEW b \in JoyButtons PROVE PressHeld(i, b)'
        BY <1>2, <4>1 DEF PressHeld
      <4> QED
        BY <4>2, <4>3
    <3> QED
      BY <2>3, <3>1, <3>2
  <2>7. QueueIsSound'
    BY <2>5, <2>6 DEF QueueIsSound
  <2> QED
    BY <1>4, <2>4, <2>7 DEF ShownTruly
<1>6. CASE ~(joystick /\ pad.plugged)
  <2>1. sdl_events' = sdl_events
    BY <1>3, <1>6
  <2>2. /\ Leaving' <=> Leaving
        /\ \A i \in 1 .. Len(sdl_events), b \in JoyButtons : UpBehind(i, b)' <=> UpBehind(i, b)
    BY <2>1 DEF Leaving, UpBehind
  <2>3. joystick => Leaving
    BY <1>6 DEF QueueIsSound, GoingIsQueued
  <2>4. ShownTruly
    BY <1>3, <2>2, <2>3 DEF ShownTruly, FalselyShown, Leaving
  <2>5. GoingIsQueued'
    BY <1>1, <1>3, <2>2 DEF QueueIsSound, GoingIsQueued
  <2>6. ASSUME NEW i \in 1 .. Len(sdl_events')
        PROVE  EventHolds(i)' /\ \A b \in JoyButtons : PressHeld(i, b)'
    <3>1. EventHolds(i) /\ i \in 1 .. Len(sdl_events) /\ sdl_events'[i] = sdl_events[i]
      BY <2>1 DEF QueueIsSound
    <3>2. EventHolds(i)'
      BY <1>1, <1>3, <2>1, <3>1 DEF EventHolds
    <3>3. ASSUME NEW b \in JoyButtons, sdl_events[i] = [type |-> "down", of |-> b]
          PROVE  Leaving
      <4>1. sdl_events[i].type = "down"
        BY <3>3
      <4> QED
        BY <2>3, <3>1, <4>1 DEF EventHolds
    <3>4. ASSUME NEW b \in JoyButtons PROVE PressHeld(i, b)'
      BY <2>2, <3>1, <3>3 DEF PressHeld
    <3> QED
      BY <3>2, <3>4
  <2>7. QueueIsSound'
    BY <2>5, <2>6 DEF QueueIsSound
  <2> QED
    BY <1>4, <2>4, <2>7
<1> QED
  BY <1>5, <1>6

LEMMA PadComesOrGoesKeeps ==
  ASSUME JoyTypes, QueueIsSound, OpenShows, PadComesOrGoes
  PROVE  QueueIsSound' /\ OpenShows' /\ ShownTruly
<1>1. /\ joy_conf' = joy_conf /\ joystick' = joystick /\ joy_msg' = joy_msg
      /\ pad'.plugged = ~pad.plugged /\ pad'.buttons = pad.buttons
  BY DEF PadComesOrGoes, JoyTypes, JoyPads
<1>2. OpenShows'
  BY <1>1 DEF OpenShows, Pressed
<1>3. CASE ~pad.plugged /\ sdl_events = <<>> /\ sdl_events' = <<[type |-> "added"]>>
  <2>1. ~joystick
    BY <1>3 DEF QueueIsSound, GoingIsQueued, Leaving
  <2>2. /\ Len(sdl_events') = 1 /\ sdl_events'[1] = [type |-> "added"]
        /\ [type |-> "added"].type = "added"
    BY <1>3
  <2>3. ASSUME NEW b PROVE [type |-> "added"] # [type |-> "down", of |-> b]
    <3>1. [type |-> "down", of |-> b].type = "down"
      OBVIOUS
    <3> QED
      BY <2>2, <3>1
  <2>4. ASSUME NEW i \in 1 .. Len(sdl_events')
        PROVE  sdl_events'[i] = [type |-> "added"]
    BY <2>2
  <2>5. QueueIsSound'
    BY <1>1, <1>3, <2>1, <2>2, <2>3, <2>4
       DEF QueueIsSound, GoingIsQueued, EventHolds, PressHeld
  <2> QED
    BY <1>1, <1>2, <2>1, <2>5 DEF ShownTruly
<1>4. CASE pad.plugged /\ sdl_events' = Append(sdl_events, [type |-> "removed"])
  <2> DEFINE e == [type |-> "removed"]
  <2>1. e \in JoyEvents /\ e.type = "removed"
    BY DEF JoyEvents
  <2>2. /\ Leaving'
        /\ \A i \in 1 .. Len(sdl_events), b \in JoyButtons : UpBehind(i, b) => UpBehind(i, b)'
    BY <1>4, <2>1, AppendKeeps
  <2>3. /\ Len(sdl_events) \in Nat /\ Len(sdl_events') = Len(sdl_events) + 1
        /\ sdl_events'[Len(sdl_events) + 1] = e
        /\ \A i \in 1 .. Len(sdl_events) : sdl_events'[i] = sdl_events[i]
    BY <1>4, <2>1, EventAdded
  <2> HIDE DEF e
  <2>4. ShownTruly
    BY <2>2 DEF ShownTruly, FalselyShown, Leaving
  <2>5. GoingIsQueued'
    BY <2>2 DEF GoingIsQueued
  <2>6. ASSUME NEW i \in 1 .. Len(sdl_events')
        PROVE  EventHolds(i)' /\ \A b \in JoyButtons : PressHeld(i, b)'
    <3>1. CASE i \in 1 .. Len(sdl_events)
      <4>1. EventHolds(i)
        BY <3>1 DEF QueueIsSound
      <4>2. sdl_events'[i] = sdl_events[i]
        BY <2>3, <3>1
      <4> QED
        BY <1>1, <1>4, <2>2, <4>1, <4>2 DEF EventHolds, PressHeld
    <3>2. CASE i = Len(sdl_events')
      <4>1. sdl_events'[i].type = "removed"
        BY <2>1, <2>3, <3>2
      <4> QED
        BY <1>1, <1>4, <2>2, <3>2, <4>1 DEF EventHolds, PressHeld
    <3> QED
      BY <2>3, <3>1, <3>2
  <2>7. QueueIsSound'
    BY <2>5, <2>6 DEF QueueIsSound
  <2> QED
    BY <1>2, <2>4, <2>7
<1> QED
  BY <1>3, <1>4 DEF PadComesOrGoes

LEMMA OtherStepsKeep ==
  ASSUME QueueIsSound, OpenShows, UNCHANGED <<pad, sdl_events, joy_conf, joystick, joy_msg>>
  PROVE  QueueIsSound' /\ OpenShows' /\ ShownTruly
<1>1. QueueIsSound'
  BY DEF QueueIsSound, GoingIsQueued, EventHolds, PressHeld, Leaving, UpBehind
<1>2. OpenShows' /\ ShownTruly
  BY DEF OpenShows, ShownTruly, FalselyShown, InEvents, Pressed
<1> QED
  BY <1>1, <1>2

LEMMA ShownSteps ==
  ASSUME JoyTypes, QueueIsSound, OpenShows, [JoyTeleopNext]_joyTeleopVars
  PROVE  QueueIsSound' /\ OpenShows' /\ ShownTruly
<1>1. CASE JoystickTurn \/ ControllerTurn
  BY <1>1, TurnKeeps
<1>2. CASE PadMoves
  BY <1>2, PadMovesKeeps
<1>3. CASE PadComesOrGoes
  BY <1>3, PadComesOrGoesKeeps
<1>4. CASE \/ WaitTimesOut \/ JoyTime \/ JoyCallback \/ TeleopParameters
           \/ UNCHANGED joyTeleopVars
  <2>1. UNCHANGED <<pad, sdl_events, joy_conf, joystick, joy_msg>>
    BY <1>4 DEF WaitTimesOut, JoyTime, Publish, Unhandled, JoyCallback, TeleopParameters,
                joyTeleopVars, joyNodeVars
  <2> QED
    BY <2>1, OtherStepsKeep
<1> QED
  BY <1>1, <1>2, <1>3, <1>4 DEF JoyTeleopNext, JoyNodeNext, EventThread

LEMMA JoySteps == JoyInv /\ [JoyTeleopNext]_joyTeleopVars => JoyInv'
<1> SUFFICES ASSUME JoyInv, [JoyTeleopNext]_joyTeleopVars PROVE JoyInv'
  OBVIOUS
<1>0. JoyTypes /\ TeleopTypes /\ Paced /\ QueueIsSound /\ OpenShows
  BY DEF JoyInv
<1>1. QueueIsSound' /\ OpenShows'
  BY <1>0, ShownSteps
<1>2. CASE UNCHANGED joyTeleopVars
  <2>1. UNCHANGED joyNodeVars /\ TeleopUnmoved
    BY <1>2 DEF joyTeleopVars, TeleopUnmoved
  <2>2. JoyTypes' /\ Paced'
    BY <1>0, <2>1 DEF joyNodeVars, JoyTypes, Paced, AutorepeatInterval
  <2> QED
    BY <1>0, <1>1, <2>1, <2>2 DEF JoyInv, TeleopTypes, TeleopUnmoved
<1>3. CASE JoyNodeNext /\ TeleopUnmoved
  <2>1. TeleopTypes'
    BY <1>0, <1>3 DEF TeleopTypes, TeleopUnmoved
  <2>2. JoyTypes' /\ Paced'
    BY <1>0, <1>3, DeviceTypes, EventThreadTypes DEF JoyNodeNext
  <2> QED
    BY <1>1, <2>1, <2>2 DEF JoyInv
<1>4. CASE JoyCallback
  BY <1>0, <1>1, <1>4, JoyCallbackTypes DEF JoyInv
<1>5. CASE TeleopParameters
  <2>1. UNCHANGED joyNodeVars /\ TeleopTypes'
    BY <1>0, <1>5 DEF TeleopParameters, TeleopTypes
  <2>2. JoyTypes' /\ Paced'
    BY <1>0, <2>1 DEF joyNodeVars, JoyTypes, Paced, AutorepeatInterval
  <2> QED
    BY <1>1, <2>1, <2>2 DEF JoyInv
<1> QED
  BY <1>2, <1>3, <1>4, <1>5 DEF JoyTeleopNext

LEMMA JoyInitially == JoyTeleopInit => JoyInv
<1> SUFFICES ASSUME JoyTeleopInit PROVE JoyInv
  OBVIOUS
<1>1. /\ 0 \in StickPlaces /\ {} \in HatPlaces /\ StickEnd \in Nat /\ IdleWait \in Nat
      /\ SdlQueue \in Nat \ {0} /\ JoyDepth \in Nat \ {0}
  BY JoyConstants
<1>2. joy_conf \in JoyConfs /\ joy_conf.autorepeat \in Nat /\ joy_conf.coalesce \in Nat
  BY JoyConfsAre DEF JoyTeleopInit, JoyNodeInit
<1>3. pad \in JoyPads
  BY <1>1 DEF JoyTeleopInit, JoyNodeInit, JoyPads
<1>4. JoyTypes
  <2>1. AutorepeatInterval \in Nat
    BY <1>1, <1>2 DEF AutorepeatInterval
  <2>2. /\ soon_age \in 0 .. joy_conf.coalesce
        /\ publish_age \in 0 .. AutorepeatInterval /\ waited \in 0 .. AutorepeatInterval
        /\ stick_sent \in -StickEnd .. StickEnd
    BY <1>1, <1>2, <2>1 DEF JoyTeleopInit, JoyNodeInit
  <2>3. /\ sdl_events \in Seq(JoyEvents) /\ Len(sdl_events) <= SdlQueue
        /\ joy_topic \in Seq(JoyReadings) /\ Len(joy_topic) <= JoyDepth
    BY <1>1 DEF JoyTeleopInit, JoyNodeInit
  <2>4. joystick \in BOOLEAN /\ publish_soon \in BOOLEAN /\ joy_msg \in JoyReadings
    BY NoReadingTyped DEF JoyTeleopInit, JoyNodeInit
  <2> QED
    BY <1>2, <1>3, <2>2, <2>3, <2>4 DEF JoyTypes
<1>5. TeleopTypes
  BY NoMotionTyped DEF JoyTeleopInit, TeleopTypes
<1>6. Paced
  BY DEF JoyTeleopInit, JoyNodeInit, Paced
<1>7. QueueIsSound /\ OpenShows
  BY NoReadingTyped DEF JoyTeleopInit, JoyNodeInit, QueueIsSound, GoingIsQueued, OpenShows
<1> QED
  BY <1>4, <1>5, <1>6, <1>7 DEF JoyInv

LEMMA JoyInvTypeOK == JoyInv => JoyTeleopTypeOK
BY DEF JoyInv, JoyTypes, TeleopTypes, JoyTeleopTypeOK, JoyPads, JoyTwists

\* Every variable of the joystick node and of the teleoperation behind it keeps its type: a
\* message has its axes in range, and no command is faster than the turbo.
THEOREM JoyTeleopTypes == JoyTeleopSpec => []JoyTeleopTypeOK
<1>1. JoyTeleopSpec => []JoyInv
  BY JoyInitially, JoySteps, PTL DEF JoyTeleopSpec
<1> QED
  BY <1>1, JoyInvTypeOK, PTL

\* Neither node comes to show a button falsely while its device is open, whatever the operator
\* does, however often the device comes and goes, and whichever of its events are still to be
\* taken; joy_node never does, and game_controller_node only of a device that went.
THEOREM ShownButtonsAreHeld == JoyTeleopSpec => ButtonsAreHeld
<1>1. JoyInv /\ JoyInv' /\ [JoyTeleopNext]_joyTeleopVars => [ShowsHeldButtons]_joyTeleopVars
  <2> SUFFICES ASSUME JoyInv, JoyInv', [JoyTeleopNext]_joyTeleopVars,
                      NEW b \in JoyButtons, FalselyShown(b)', ~FalselyShown(b)
               PROVE  joy_conf.node = "game_controller" /\ ~joystick'
    BY DEF ShowsHeldButtons
  <2>1. ~joystick'
    BY ShownSteps DEF JoyInv, ShownTruly
  <2>2. joy_conf'.node # "joy"
    BY <2>1 DEF JoyInv, OpenShows, FalselyShown
  <2>3. joy_conf' = joy_conf
    BY DEF JoyTeleopNext, JoyNodeNext, PadMoves, PadEvent, PadComesOrGoes, EventThread,
           JoystickTurn, ControllerTurn, WaitTimesOut, Publish, JoyTime, JoyCallback,
           TeleopParameters, joyTeleopVars, joyNodeVars
  <2>4. joy_conf.node \in {"joy", "game_controller"}
    BY JoyConfsAre DEF JoyInv, JoyTypes
  <2> QED
    BY <2>1, <2>2, <2>3, <2>4
<1>2. JoyTeleopSpec => []JoyInv
  BY JoyInitially, JoySteps, PTL DEF JoyTeleopSpec
<1> QED
  BY <1>1, <1>2, PTL DEF JoyTeleopSpec, ButtonsAreHeld

\* game_controller_node keeps the interval that coalesces, as long as its wait between two
\* looks is not shorter when it repeats nothing.
THEOREM ControllerWaits ==
  (\A c \in JoyConfs : c.coalesce <= IdleWait) /\ JoyTeleopSpec => ControllerCoalesces
<1> SUFFICES ASSUME \A c \in JoyConfs : c.coalesce <= IdleWait
             PROVE  JoyTeleopSpec => ControllerCoalesces
  OBVIOUS
<1> DEFINE Waits == joy_conf.node = "game_controller" => Coalesced
<1>1. JoyInv /\ [JoyTeleopNext]_joyTeleopVars => [Waits]_joyTeleopVars
  <2> SUFFICES ASSUME JoyInv, joy_conf.node = "game_controller", AxisMessage,
                      joy_conf.coalesce > 0
               PROVE  publish_soon /\ soon_age >= joy_conf.coalesce
    BY DEF Coalesced
  <2>1. EventThread /\ stick_sent' # stick_sent
        /\ ~(joy_conf.autorepeat > 0 /\ publish_age >= AutorepeatInterval)
        /\ (sdl_events = <<>> \/ Head(sdl_events).type = "axis")
    BY DEF AxisMessage
  <2>2. JoyTypes /\ Paced
    BY DEF JoyInv
  <2>3. /\ joy_conf.coalesce \in Nat /\ joy_conf.autorepeat \in Nat /\ IdleWait \in Nat
        /\ joy_conf.coalesce <= IdleWait /\ soon_age \in 0 .. joy_conf.coalesce
        /\ publish_age \in Nat /\ waited \in Nat
    BY <2>2, JoyConfsAre, JoyConstants, IntervalsAre DEF JoyTypes
  <2>4. CASE ControllerTurn
    <3>1. sdl_events # <<>> /\ Head(sdl_events) \in JoyEvents /\ Head(sdl_events).type = "axis"
      BY <2>1, <2>2, <2>4, EventTaken DEF ControllerTurn
    <3>2. Head(sdl_events).of \in StickPlaces
      BY <3>1, EventsAre
    <3>3. Publish(HandleJoyAxis(Head(sdl_events)), FALSE)
      BY <2>4, <3>1 DEF ControllerTurn, ControllerHandles
    <3>4. HandleJoyAxis(Head(sdl_events)).publish
      BY <2>1, <3>3 DEF Publish
    <3> QED
      BY <2>2, <2>3, <3>2, <3>4, AxisHandled
  <2>5. CASE WaitTimesOut
    <3>1. waited >= WaitTime /\ Publish(Unhandled, RepeatDue(publish_soon))
      BY <2>5 DEF WaitTimesOut
    <3>2. RepeatDue(publish_soon)
      BY <2>1, <3>1 DEF Publish, Unhandled
    <3>3. publish_soon
      BY <2>1, <3>2 DEF RepeatDue
    <3>4. soon_age >= waited \/ soon_age = joy_conf.coalesce
      BY <2>2, <3>3 DEF Paced
    <3>5. waited >= joy_conf.coalesce
      BY <2>1, <2>2, <2>3, <3>1, <3>3 DEF WaitTime, AutorepeatInterval, Paced
    <3> QED
      BY <2>3, <3>3, <3>4, <3>5
  <2>6. ~JoystickTurn
    BY DEF JoystickTurn
  <2> QED
    BY <2>1, <2>4, <2>5, <2>6 DEF EventThread
<1>2. JoyTeleopSpec => []JoyInv
  BY JoyInitially, JoySteps, PTL DEF JoyTeleopSpec
<1> QED
  BY <1>1, <1>2, PTL DEF JoyTeleopSpec, ControllerCoalesces
=============================================================================
