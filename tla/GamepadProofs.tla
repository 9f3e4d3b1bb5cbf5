---------------------------- MODULE GamepadProofs ----------------------------
(***************************************************************************)
(* What the gamepad node publishes, for any scales, limits and stick.      *)
(***************************************************************************)
EXTENDS Gamepad, TLAPS

\* A pair that was published is at least as fast as the speed that is kept: only
\* safetyCheck tells them apart, and it keeps none.
SpeedWasPublished == output # NoMessage => accel_val <= output.speed

JoyInv == GamepadTypeOK /\ MotionOnlyInManual /\ SpeedWasPublished

LEMMA JoyFields ==
  ASSUME NEW msg \in Joy \cup {NoJoy}
  PROVE  /\ msg.accel_arw \in -1 .. 1 /\ msg.steer_arw \in -1 .. 1
         /\ msg.stick \in -MaxSteer .. MaxSteer
<1>1. CASE msg \in Joy
  <2>1. msg.accel_arw \in AccelArrows /\ msg.steer_arw \in SteerArrows /\ msg.stick \in Sticks
    BY <1>1 DEF Joy
  <2> QED
    BY <2>1, GamepadAssumption
<1>2. CASE msg = NoJoy
  <2>1. msg.accel_arw = 0 /\ msg.steer_arw = 0 /\ msg.stick = 0
    BY <1>2 DEF NoJoy
  <2> QED
    BY <2>1, GamepadAssumption
<1> QED
  BY <1>1, <1>2

\* An arrow is worth one step, up or down, or none.
LEMMA PressedIsAStep ==
  ASSUME NEW arrow \in -1 .. 1, NEW prev \in -1 .. 1, NEW scale \in Nat
  PROVE  \/ scale * Pressed(arrow, prev) = scale /\ prev = 0 /\ arrow = 1
         \/ scale * Pressed(arrow, prev) = 0
         \/ scale * Pressed(arrow, prev) = -scale
<1>1. Pressed(arrow, prev) \in -1 .. 1 /\ (Pressed(arrow, prev) = 1 => prev = 0 /\ arrow = 1)
  BY DEF Pressed
<1>2. CASE Pressed(arrow, prev) = 1
  BY <1>1, <1>2
<1>3. CASE Pressed(arrow, prev) = 0
  BY <1>3
<1>4. CASE Pressed(arrow, prev) = -1
  BY <1>4
<1> QED
  BY <1>1, <1>2, <1>3, <1>4

LEMMA ModeIsAMode ==
  ASSUME GamepadTypeOK, NEW msg \in Joy
  PROVE  ModeAfter(msg) \in Mode
BY DEF GamepadTypeOK, ModeAfter, Mode

\* The speed before the clamp rises by one step at most, and only with a press.
LEMMA AccelSteps ==
  ASSUME GamepadTypeOK, NEW msg \in Joy
  PROVE  /\ AccelAfter(msg) \in Int
         /\ ModeAfter(msg) # 1 => AccelAfter(msg) = 0
         /\ AccelAfter(msg) <= accel_val + AccelScale
         /\ AccelAfter(msg) > accel_val => prev_joy.accel_arw = 0 /\ msg.accel_arw = 1
<1> DEFINE start == IF Zeroed(msg) THEN 0 ELSE accel_val
           step == AccelScale * Pressed(msg.accel_arw, prev_joy.accel_arw)
<1>1. start \in Nat /\ accel_val \in Nat /\ start <= accel_val /\ AccelScale \in Nat
  BY GamepadAssumption DEF GamepadTypeOK
<1>2. \/ step = AccelScale /\ prev_joy.accel_arw = 0 /\ msg.accel_arw = 1
      \/ step = 0
      \/ step = -AccelScale
  BY <1>1, JoyFields, PressedIsAStep DEF GamepadTypeOK
<1>3. AccelAfter(msg) = IF ModeAfter(msg) = 1 THEN start + step ELSE 0
  BY DEF AccelAfter
<1> HIDE DEF start, step
<1> QED
  BY <1>1, <1>2, <1>3

LEMMA SteerIsAnAngle ==
  ASSUME GamepadTypeOK, NEW msg \in Joy
  PROVE  /\ SteerAfter(msg) \in Int
         /\ ModeAfter(msg) # 1 => SteerAfter(msg) = 0
<1> DEFINE start == IF Zeroed(msg) THEN 0 ELSE steer_val
           step == SteerScale * Pressed(msg.steer_arw, prev_joy.steer_arw)
<1>1. start \in Int /\ msg.stick \in Int
  BY GamepadAssumption, JoyFields DEF GamepadTypeOK
<1>2. step \in Int
  <2>1. SteerScale \in Nat
    BY GamepadAssumption
  <2> QED
    BY <2>1, JoyFields, PressedIsAStep DEF GamepadTypeOK
<1>3. CASE ModeAfter(msg) # 1
  BY <1>3 DEF SteerAfter
<1>4. CASE ModeAfter(msg) = 1 /\ msg.stick # 0
  BY <1>1, <1>4 DEF SteerAfter
<1>5. CASE ModeAfter(msg) = 1 /\ msg.stick = 0
  <2>1. SteerAfter(msg) = start + step
    BY <1>5 DEF SteerAfter
  <2> QED
    BY <1>1, <1>2, <1>5, <2>1
<1> QED
  BY <1>3, <1>4, <1>5

LEMMA ClampsBound ==
  /\ \A v \in Int : /\ ClampAccel(v) \in Nat
                    /\ ClampAccel(v) = v \/ (ClampAccel(v) = 0 /\ v < 0)
  /\ \A v \in Int : ClampSteer(v) \in -MaxSteer .. MaxSteer
  /\ ClampSteer(0) = 0
BY GamepadAssumption DEF ClampAccel, ClampSteer

LEMMA GamepadStart ==
  ASSUME GamepadInit
  PROVE  JoyInv
<1>1. /\ joy_connected \in BOOLEAN /\ prev_joy \in Joy \cup {NoJoy}
      /\ output = NoMessage
  BY DEF GamepadInit
<1>2. cmd_mode \in Mode /\ accel_val = 0 /\ steer_val \in -MaxSteer .. MaxSteer
  BY GamepadAssumption DEF GamepadInit, Mode
<1> QED
  BY <1>1, <1>2 DEF JoyInv, GamepadTypeOK, MotionOnlyInManual, SpeedWasPublished

LEMMA CallbackKeeps ==
  ASSUME JoyInv, NEW msg \in Joy, joyCallback(msg)
  PROVE  JoyInv'
<1>1. /\ cmd_mode' \in Mode /\ accel_val' \in Nat /\ steer_val' \in -MaxSteer .. MaxSteer
      /\ cmd_mode' # 1 => accel_val' = 0 /\ steer_val' = 0
  <2>1. GamepadTypeOK /\ cmd_mode' = ModeAfter(msg) /\ accel_val' = ClampAccel(AccelAfter(msg))
        /\ steer_val' = ClampSteer(SteerAfter(msg))
    BY DEF JoyInv, joyCallback
  <2>2. AccelAfter(msg) \in Int /\ (ModeAfter(msg) # 1 => AccelAfter(msg) = 0)
    BY <2>1, AccelSteps
  <2>3. accel_val' \in Nat /\ (cmd_mode' # 1 => accel_val' = 0)
    BY <2>1, <2>2, ClampsBound
  <2>4. steer_val' \in -MaxSteer .. MaxSteer /\ (cmd_mode' # 1 => steer_val' = 0)
    BY <2>1, SteerIsAnAngle, ClampsBound
  <2> QED
    BY <2>1, <2>3, <2>4, ModeIsAMode
<1>2. /\ output' \in Output /\ output'.speed = accel_val'
      /\ output'.steering_angle = steer_val' /\ output'.mode = cmd_mode'
  BY <1>1 DEF joyCallback, Output
<1>3. GamepadTypeOK'
  BY <1>1, <1>2 DEF joyCallback, GamepadTypeOK
<1> QED
  BY <1>1, <1>2, <1>3 DEF JoyInv, MotionOnlyInManual, SpeedWasPublished

LEMMA SafetyKeeps ==
  ASSUME JoyInv, safetyCheck
  PROVE  JoyInv'
<1>1. GamepadTypeOK'
  <2>1. GamepadTypeOK /\ UNCHANGED <<prev_joy, output>> /\ joy_connected' = FALSE
        /\ accel_val' = 0 /\ steer_val' = LostSteer /\ cmd_mode' = 0
    BY DEF JoyInv, safetyCheck
  <2>2. cmd_mode' \in Mode /\ accel_val' \in Nat
    BY <2>1 DEF Mode
  <2> QED
    BY <2>1, <2>2 DEF GamepadTypeOK
<1>2. output # NoMessage => output.speed \in Nat
  BY DEF JoyInv, GamepadTypeOK, Output
<1> QED
  BY <1>1, <1>2 DEF JoyInv, safetyCheck, MotionOnlyInManual, SpeedWasPublished

LEMMA StepKeeps ==
  ASSUME JoyInv, [GamepadNext]_gamepadVars
  PROVE  JoyInv'
<1>1. CASE safetyCheck
  BY <1>1, SafetyKeeps
<1>2. CASE joyCallbackShort
  BY <1>2 DEF joyCallbackShort, JoyInv, GamepadTypeOK, MotionOnlyInManual, SpeedWasPublished
<1>3. CASE UNCHANGED gamepadVars
  BY <1>3 DEF gamepadVars, JoyInv, GamepadTypeOK, MotionOnlyInManual, SpeedWasPublished
<1> QED
  BY <1>1, <1>2, <1>3, CallbackKeeps DEF GamepadNext

THEOREM JoyIsKept == GamepadSpec => []JoyInv
<1>1. GamepadInit => JoyInv
  BY GamepadStart
<1> QED
  BY <1>1, StepKeeps, PTL DEF GamepadSpec

\* Gamepad: the angle that is published stays within the range of the servo.
THEOREM GamepadTyping == GamepadSpec => []GamepadTypeOK
<1>1. JoyInv => GamepadTypeOK
  BY DEF JoyInv
<1> QED
  BY <1>1, JoyIsKept, PTL

\* joyCallback, safetyCheck: motion is asked for in manual mode only, and manual mode
\* starts from rest.
THEOREM MotionNeedsManual == GamepadSpec => []MotionOnlyInManual
<1>1. JoyInv => MotionOnlyInManual
  BY DEF JoyInv
<1> QED
  BY <1>1, JoyIsKept, PTL

\* joyCallback: a press is one step of the speed, however often it is repeated.
THEOREM SpeedRisesByPresses == GamepadSpec => OneStepForEachPress
<1> DEFINE Rise == (output # NoMessage /\ output' # output /\ output'.speed > output.speed)
                     => /\ prev_joy.accel_arw = 0 /\ prev_joy'.accel_arw = 1
                        /\ output'.speed <= output.speed + AccelScale
<1>1. JoyInv /\ [GamepadNext]_gamepadVars => [Rise]_gamepadVars
  <2> SUFFICES ASSUME JoyInv, GamepadNext, output # NoMessage, output' # output,
                      output'.speed > output.speed
               PROVE  /\ prev_joy.accel_arw = 0 /\ prev_joy'.accel_arw = 1
                      /\ output'.speed <= output.speed + AccelScale
    OBVIOUS
  <2>1. PICK msg \in Joy : joyCallback(msg)
    BY DEF GamepadNext, joyCallbackShort, safetyCheck
  <2>2. /\ output.speed \in Nat /\ accel_val \in Nat /\ accel_val <= output.speed
        /\ AccelScale \in Nat
    BY GamepadAssumption DEF JoyInv, GamepadTypeOK, Output, SpeedWasPublished
  <2>3. output'.speed = ClampAccel(AccelAfter(msg)) /\ prev_joy' = msg
    BY <2>1 DEF joyCallback
  <2>4. /\ AccelAfter(msg) \in Int
        /\ AccelAfter(msg) <= accel_val + AccelScale
        /\ AccelAfter(msg) > accel_val => prev_joy.accel_arw = 0 /\ msg.accel_arw = 1
    BY AccelSteps DEF JoyInv
  <2>5. output'.speed = AccelAfter(msg)
    BY <2>2, <2>3, <2>4, ClampsBound
  <2> QED
    BY <2>2, <2>3, <2>4, <2>5
<1> QED
  BY <1>1, JoyIsKept, PTL DEF GamepadSpec, OneStepForEachPress

=============================================================================
