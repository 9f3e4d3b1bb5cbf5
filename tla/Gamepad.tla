------------------------------- MODULE Gamepad -------------------------------
(***************************************************************************)
(* The gamepad_control node: turns joystick messages into teleop commands. *)
(*                                                                         *)
(* One callback for each joystick message (the joy driver repeats the last *)
(* one ten times a second while the device is there) and one timer that    *)
(* looks for a silent device.  Both run in the node's only thread.         *)
(*                                                                         *)
(* Speeds are in units of accel_scale's own unit and angles in whole       *)
(* degrees of the instance; the stick is given by the angle it maps to,    *)
(* zero standing for every position inside the deadzone.                   *)
(***************************************************************************)
EXTENDS Integers

CONSTANTS
  AccelScale,    \* accel_scale
  SteerScale,    \* steer_scale
  MaxSteer,      \* the 45 degrees of joyCallback
  LostSteer,     \* the 90 degrees safetyCheck leaves in steer_val
  AccelArrows,   \* positions of the up/down arrow: 1, 0, -1
  SteerArrows,   \* positions of the left/right arrow: 1, 0, -1
  Sticks,        \* angles the stick may ask for, 0 inside the deadzone
  ButtonSets,    \* sets of buttons that may be down together
  AccelCap,      \* bound: the speed at which the operator stops pressing "up"
  NoMessage      \* nothing published yet

Buttons == {"stop", "manual", "auto", "tbd", "reset", "reset2"}

\* A joystick message.  All of it is kept as prev_joy_.
Joy == [buttons : ButtonSets, accel_arw : AccelArrows, steer_arw : SteerArrows,
        stick : Sticks]

NoJoy == [buttons |-> {}, accel_arw |-> 0, steer_arw |-> 0, stick |-> 0]

Mode == 0 .. 3

ASSUME GamepadAssumption ==
  /\ AccelScale \in Nat \ {0} /\ SteerScale \in Nat \ {0}
  /\ MaxSteer \in Nat /\ LostSteer \in Nat /\ AccelCap \in Nat
  /\ AccelArrows \subseteq -1 .. 1 /\ SteerArrows \subseteq -1 .. 1
  /\ Sticks \subseteq -MaxSteer .. MaxSteer
  /\ ButtonSets \subseteq SUBSET Buttons

VARIABLES
  joy_connected,
  cmd_mode,
  accel_val,
  steer_val,
  prev_joy,
  output        \* last pair published: teleop/control_command, teleop/command

gamepadVars == <<joy_connected, cmd_mode, accel_val, steer_val, prev_joy, output>>

Output == [speed : Nat, steering_angle : -MaxSteer .. MaxSteer, mode : Mode]

\* The steering angle published stays within the range of the servo, also when
\* safetyCheck has left its out-of-range value in steer_val.
GamepadTypeOK ==
  /\ joy_connected \in BOOLEAN
  /\ cmd_mode \in Mode
  /\ accel_val \in Nat
  /\ steer_val \in -MaxSteer .. MaxSteer \cup {LostSteer}
  /\ prev_joy \in Joy \cup {NoJoy}
  /\ output \in Output \cup {NoMessage}

GamepadInit ==
  /\ joy_connected = FALSE
  /\ cmd_mode = 0
  /\ accel_val = 0
  /\ steer_val = 0
  /\ prev_joy = NoJoy
  /\ output = NoMessage

-----------------------------------------------------------------------------
(* joyCallback *)

Rising(msg, button) == button \in msg.buttons \ prev_joy.buttons

\* Mutant: a held arrow counts in every message the driver repeats.
PressedHeld(arrow, prev) == arrow

\* An arrow counts once for each press, in the direction it is pressed.
Pressed(arrow, prev) == IF prev = 0 THEN arrow ELSE 0

\* The buttons are looked at in the order stop, manual, auto, tbd, reset, and the
\* last one down wins.
ModeAfter(msg) ==
  IF Rising(msg, "reset") THEN 0
  ELSE IF Rising(msg, "tbd") THEN 3
  ELSE IF Rising(msg, "auto") THEN 2
  ELSE IF Rising(msg, "manual") THEN 1
  ELSE IF Rising(msg, "stop") THEN 0
  ELSE cmd_mode

Zeroed(msg) == \E b \in {"stop", "reset", "reset2"} : Rising(msg, b)

\* Mutant: the speed outlives manual mode.
AccelAfterKept(msg) ==
  LET start == IF Zeroed(msg) THEN 0 ELSE accel_val
  IN IF ModeAfter(msg) = 1
     THEN start + AccelScale * Pressed(msg.accel_arw, prev_joy.accel_arw)
     ELSE start

\* The speed before the clamp.
AccelAfter(msg) ==
  LET start == IF Zeroed(msg) THEN 0 ELSE accel_val
  IN IF ModeAfter(msg) = 1
     THEN start + AccelScale * Pressed(msg.accel_arw, prev_joy.accel_arw)
     ELSE 0

\* The steering angle before the clamp.  A centred stick leaves it alone.
SteerAfter(msg) ==
  LET start == IF Zeroed(msg) THEN 0 ELSE steer_val
  IN CASE ModeAfter(msg) # 1 -> 0
       [] ModeAfter(msg) = 1 /\ msg.stick # 0 -> msg.stick
       [] OTHER -> start + SteerScale * Pressed(msg.steer_arw, prev_joy.steer_arw)

\* Mutant: nothing is clamped.
ClampSteerNot(v) == v

ClampSteer(v) == IF v < -MaxSteer THEN -MaxSteer ELSE IF v > MaxSteer THEN MaxSteer ELSE v
ClampAccel(v) == IF v < 0 THEN 0 ELSE v

joyCallback(msg) ==
  /\ joy_connected' = TRUE
  /\ cmd_mode' = ModeAfter(msg)
  /\ accel_val' = ClampAccel(AccelAfter(msg))
  /\ steer_val' = ClampSteer(SteerAfter(msg))
  /\ prev_joy' = msg
  /\ output' = [speed |-> accel_val', steering_angle |-> steer_val', mode |-> cmd_mode']

\* A message with too few axes counts as a sign of life and is dropped.
joyCallbackShort ==
  /\ joy_connected' = TRUE
  /\ UNCHANGED <<cmd_mode, accel_val, steer_val, prev_joy, output>>

\* Mutant: the mode is reset but the speed is forgotten.
safetyCheckKeepsSpeed ==
  /\ joy_connected
  /\ joy_connected' = FALSE
  /\ steer_val' = LostSteer
  /\ cmd_mode' = 0
  /\ UNCHANGED <<accel_val, prev_joy, output>>

\* The device has been silent for two seconds.
safetyCheck ==
  /\ joy_connected
  /\ joy_connected' = FALSE
  /\ accel_val' = 0
  /\ steer_val' = LostSteer
  /\ cmd_mode' = 0
  /\ UNCHANGED <<prev_joy, output>>

WithinCap(msg) ==
  accel_val >= AccelCap => Pressed(msg.accel_arw, prev_joy.accel_arw) # 1

GamepadNext ==
  \/ \E msg \in Joy : WithinCap(msg) /\ joyCallback(msg)
  \/ joyCallbackShort
  \/ safetyCheck

GamepadSpec == GamepadInit /\ [][GamepadNext]_gamepadVars

-----------------------------------------------------------------------------
(* Properties. *)

\* A pair that asks for a speed or an angle carries manual mode: after stop,
\* auto, tbd or reset, pressed alone, together or while an arrow is held, the pair
\* is all zero.  And manual mode starts from rest: no speed outlives the mode it was
\* built up in, however it was left, by a button or by a device that was lost.
MotionOnlyInManual ==
  /\ output # NoMessage =>
       (output.speed # 0 \/ output.steering_angle # 0 => output.mode = 1)
  /\ cmd_mode # 1 => accel_val = 0

\* The driver repeats every message: the speed rises by one step for each press
\* of the arrow, however long the arrow is held and however often it is repeated.
OneStepForEachPress ==
  [][ (output # NoMessage /\ output' # output /\ output'.speed > output.speed)
        => /\ prev_joy.accel_arw = 0 /\ prev_joy'.accel_arw = 1
           /\ output'.speed <= output.speed + AccelScale ]_gamepadVars
=============================================================================
