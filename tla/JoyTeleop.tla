----------------------------- MODULE JoyTeleop ------------------------------
(***************************************************************************)
(* teleop_twist_joy (teleop_twist_joy.cpp) behind a joystick node: it      *)
(* turns every joystick message into at most one velocity command.  The    *)
(* stick is the linear axis, the x axis of the hat the angular one.        *)
(***************************************************************************)
EXTENDS JoyNode

CONSTANTS
  EnableButton, TurboButton,   \* buttons of the device
  TeleopConfs                  \* sets of parameters: [require_enable_button,
                               \*   inverted_reverse, turbo: enable_turbo_button >= 0]

ASSUME JoyTeleopAssumption ==
  TeleopConfs \subseteq
    [require_enable_button : BOOLEAN, inverted_reverse : BOOLEAN, turbo : BOOLEAN]

VARIABLES
  teleop_conf,
  sent_disable_msg,
  joy_twist      \* the last command sent: [linear, angular]

joyTeleopVars == <<joyNodeVars, teleop_conf, sent_disable_msg, joy_twist>>

NoMotion == [linear |-> 0, angular |-> 0]

JoyTeleopInit ==
  /\ JoyNodeInit
  /\ teleop_conf \in TeleopConfs
  /\ sent_disable_msg = FALSE
  /\ joy_twist = NoMotion

-----------------------------------------------------------------------------
\* fillCmdVelMsg: turbo is twice the normal scale.
FillCmdVelMsg(m, scale) ==
  LET lin == m.axes.stick * scale
      ang == m.axes.hat_x * scale
  IN  [linear |-> lin,
       angular |-> IF lin < 0 /\ teleop_conf.inverted_reverse THEN -ang ELSE ang]

\* Mutant: the stop is remembered for ever.
SendCmdVelMsgStopped(m, scale) ==
  /\ joy_twist' = FillCmdVelMsg(m, scale)
  /\ UNCHANGED sent_disable_msg

SendCmdVelMsg(m, scale) ==
  /\ joy_twist' = FillCmdVelMsg(m, scale)
  /\ sent_disable_msg' = FALSE

Pressed(m, b) == m.buttons[b] = 1

\* joyCallback: turbo goes before the enable button, and a release sends one stop.
JoyCallback ==
  /\ joy_topic # <<>>
  /\ joy_topic' = Tail(joy_topic)
  /\ LET m == Head(joy_topic)
         turbo == teleop_conf.turbo /\ Pressed(m, TurboButton)
         enabled == ~teleop_conf.require_enable_button \/ Pressed(m, EnableButton)
     IN  \/ turbo /\ SendCmdVelMsg(m, 2)
         \/ ~turbo /\ enabled /\ SendCmdVelMsg(m, 1)
         \/ ~turbo /\ ~enabled /\ ~sent_disable_msg
            /\ joy_twist' = NoMotion /\ sent_disable_msg' = TRUE
         \/ ~turbo /\ ~enabled /\ sent_disable_msg /\ UNCHANGED <<joy_twist, sent_disable_msg>>
  /\ UNCHANGED <<pad, sdl_events, joy_conf, joystick, joy_msg, publish_soon, soon_age, publish_age,
                 waited, stick_sent, teleop_conf>>

\* The callback of the parameters, while the robot may be moving.
TeleopParameters ==
  /\ teleop_conf' \in TeleopConfs
  /\ UNCHANGED <<joyNodeVars, sent_disable_msg, joy_twist>>

TeleopUnmoved == UNCHANGED <<teleop_conf, sent_disable_msg, joy_twist>>

JoyTeleopNext ==
  \/ JoyNodeNext /\ TeleopUnmoved
  \/ JoyCallback
  \/ TeleopParameters

JoyTeleopSpec == JoyTeleopInit /\ [][JoyTeleopNext]_joyTeleopVars

JoyTeleopFair ==
  /\ JoyTeleopSpec
  /\ WF_joyTeleopVars(EventThread /\ TeleopUnmoved)
  /\ SF_joyTeleopVars(JoyTime /\ TeleopUnmoved)
  /\ WF_joyTeleopVars(JoyCallback)

-----------------------------------------------------------------------------
(* Properties                                                              *)

JoyReadings == [axes : [stick : -StickEnd .. StickEnd, hat_x : -1 .. 1, hat_y : -1 .. 1],
                buttons : [JoyButtons -> {0, 1}]]

\* The types of the nodes' state.
JoyTeleopTypeOK ==
  /\ pad \in [plugged : BOOLEAN, buttons : SUBSET JoyButtons, stick : StickPlaces,
              hat : HatPlaces]
  /\ Len(sdl_events) <= SdlQueue
  /\ joystick \in BOOLEAN /\ publish_soon \in BOOLEAN /\ sent_disable_msg \in BOOLEAN
  /\ joy_msg \in JoyReadings /\ stick_sent \in -StickEnd .. StickEnd
  /\ soon_age \in 0 .. joy_conf.coalesce
  /\ publish_age \in 0 .. AutorepeatInterval /\ waited \in 0 .. AutorepeatInterval
  /\ Len(joy_topic) <= JoyDepth
  /\ joy_twist \in [linear : -2 * StickEnd .. 2 * StickEnd, angular : -2 .. 2]

InEvents(type, of) == \E i \in 1 .. Len(sdl_events) : sdl_events[i] = [type |-> type, of |-> of]

\* Without sticky buttons, a button is shown falsely that is not held, unless the event of its
\* release is still to be taken, or that of the device going.
FalselyShown(b) ==
  /\ ~joy_conf.sticky_buttons /\ Pressed(joy_msg, b)
  /\ b \notin pad.buttons /\ ~InEvents("up", b)
  /\ ~\E i \in 1 .. Len(sdl_events) : sdl_events[i].type = "removed"

\* No button comes to be shown falsely, but by a game_controller_node without a device: of a
\* device that has gone it keeps the buttons that were held, and does not hear of their release.
ShowsHeldButtons ==
  \A b \in JoyButtons : FalselyShown(b)' =>
    FalselyShown(b) \/ (joy_conf.node = "game_controller" /\ ~joystick')

\* Both nodes do so however events queue up and devices come and go.
ButtonsAreHeld == [][ShowsHeldButtons]_joyTeleopVars

\* When the joystick repeats its state and the operator holds neither button, the robot is
\* told to stop, however often he pressed and released before: through both nodes, with
\* messages lost at the subscription and parameters set on the way.
ReleaseStopsRobot ==
  (/\ joy_conf.node = "joy" /\ joy_conf.autorepeat > 0 /\ ~joy_conf.sticky_buttons
   /\ joystick /\ pad.plugged /\ pad.buttons = {})
  ~> (\/ joy_twist = NoMotion
      \/ pad.buttons # {} \/ ~pad.plugged \/ ~teleop_conf.require_enable_button)

\* The stick comes to rest, and for game_controller_node the whole pad: that node looks for what
\* it has put off only when its wait ends without an event.
StickComesToRest == <>[][joy_conf.node = "joy" /\ pad'.stick = pad.stick]_pad

\* The place of a stick that comes to rest is published in the end, with or without repetitions,
\* also when a node has put the movement off and nothing else calls for a message.
StickIsShown ==
  StickComesToRest =>
    ((joystick /\ pad.plugged /\ (publish_soon \/ joy_msg.axes.stick # AxisValue(pad.stick)))
     ~> (stick_sent = AxisValue(pad.stick) \/ ~pad.plugged))

\* In this step the node shows the stick elsewhere though no button, hat or repetition calls for it.
AxisMessage ==
  /\ EventThread /\ stick_sent' # stick_sent
  /\ sdl_events = <<>> \/ Head(sdl_events).type = "axis"
  /\ ~(joy_conf.autorepeat > 0 /\ publish_age >= AutorepeatInterval)

\* The axis waited coalesce_interval_ms for its message.
Coalesced ==
  AxisMessage /\ joy_conf.coalesce > 0 => publish_soon /\ soon_age >= joy_conf.coalesce

\* joy/README.md:72: coalesce_interval_ms is the time a node waits after an axis event before it
\* publishes.  joy_node does not wait: it looks for what is due in the turn of the event itself.
AxisEventsCoalesce == [][Coalesced]_joyTeleopVars

\* game_controller_node, which looks only when no event came, does wait.
ControllerCoalesces == [][joy_conf.node = "game_controller" => Coalesced]_joyTeleopVars

\* What the joystick nodes show of the operator's hands: buttons that are held, but for those of a
\* controller that was pulled out; the place where the stick comes to rest, in the end; and, of
\* game_controller_node alone, its movements no sooner than the interval that coalesces is over.
JoystickIsShown == ButtonsAreHeld /\ StickIsShown /\ ControllerCoalesces
=============================================================================
