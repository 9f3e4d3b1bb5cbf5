------------------------- MODULE HardwareControlProofs -------------------------
(***************************************************************************)
(* Proofs about the hardware_control node for every set of speeds and      *)
(* steering angles, every limit and every gain table that satisfies the    *)
(* assumptions of HardwareControl.                                         *)
(***************************************************************************)
EXTENDS HardwareControlRefinement, TLAPS

\* A message on either of the two control topics, whatever its values.
Message == [speed : Int, steering_angle : Int]

\* What the limiter returns is a command within the limits of the car.
LEMMA LimitCommandType ==
  ASSUME NEW c \in Message
  PROVE  LimitCommand(c) \in Command
  BY LimitsAssumption DEF Message, LimitCommand, Command, Clamp

LEMMA ClampIsWithin ==
  ASSUME NEW v \in Int, NEW lo \in Int, NEW hi \in Int, lo <= hi
  PROVE  Clamp(v, lo, hi) \in lo .. hi
  BY DEF Clamp

\* The ranges of the two PWM values by their ends, and the neutral values in them.
LEMMA PwmEnds ==
  /\ kEscPwmMin \in Int /\ kEscPwmMax \in Int /\ kEscPwmMin <= kEscPwmMax
  /\ kSteerPwmMin \in Int /\ kSteerPwmMax \in Int /\ kSteerPwmMin <= kSteerPwmMax
  BY DEF kEscPwmMin, kEscPwmMax, kSteerPwmMin, kSteerPwmMax

LEMMA NeutralPwmType == NeutralPwm \in Pwm
<1>1. kEscPwmN \in Int /\ kEscPwmMin <= kEscPwmN /\ kEscPwmN <= kEscPwmMax
  BY DEF kEscPwmMin, kEscPwmN, kEscPwmMax
<1>2. kSteerPwmN \in Int /\ kSteerPwmMin <= kSteerPwmN /\ kSteerPwmN <= kSteerPwmMax
  BY DEF kSteerPwmMin, kSteerPwmN, kSteerPwmMax
<1>3. QED
  BY <1>1, <1>2, PwmEnds DEF NeutralPwm, Pwm

\* Every PWM pair that is sent for a command is within the limits of the ESC and of
\* the servo, and not below neutral.
LEMMA MotionPwmType ==
  ASSUME NEW c \in Message
  PROVE  MotionPwm(c) \in Pwm
<1>1. LimitCommand(c) \in Command
  BY LimitCommandType
<1>2. ConvertCommandToPwm(LimitCommand(c)) \in [speed : Int, steering : Int]
  <2> DEFINE l == LimitCommand(c)
  <2>1. l.speed \in 0 .. MaxSpeed /\ l.steering_angle \in -MaxSteering .. MaxSteering
    BY <1>1 DEF Command
  <2> HIDE DEF l
  <2>2. EscGain[l.speed] \in Int
    BY <2>1, GainAssumption
  <2>3. SteerGain[l.steering_angle] \in Int
    BY <2>1, GainAssumption
  <2>4. ConvertCommandToPwm(l) \in [speed : Int, steering : Int]
    BY <2>2, <2>3 DEF ConvertCommandToPwm, kEscPwmN, kSteerPwmN
  <2>5. QED
    BY <2>4 DEF l
<1> DEFINE p == ConvertCommandToPwm(LimitCommand(c))
<1>3. p.speed \in Int /\ p.steering \in Int
  BY <1>2
<1>4. MotionPwm(c) = LimitPwm(p)
  BY DEF MotionPwm
<1> HIDE DEF p
<1>5. /\ Clamp(p.speed, kEscPwmMin, kEscPwmMax) \in kEscPwmMin .. kEscPwmMax
      /\ Clamp(p.steering, kSteerPwmMin, kSteerPwmMax) \in kSteerPwmMin .. kSteerPwmMax
  BY <1>3, PwmEnds, ClampIsWithin
<1>6. QED
  BY <1>4, <1>5 DEF LimitPwm, Pwm

\* The ESC value sent is neutral exactly for a speed that is limited to zero.
LEMMA NeutralIffZero ==
  ASSUME NEW c \in Message
  PROVE  MotionPwm(c).speed = kEscPwmN <=> LimitCommand(c).speed = 0
<1> DEFINE l == LimitCommand(c)
           p == ConvertCommandToPwm(l)
<1>1. l \in Command
  BY LimitCommandType
<1>2. l.speed \in 0 .. MaxSpeed
  BY <1>1 DEF Command
<1>3. EscGain[l.speed] \in Nat /\ (EscGain[l.speed] = 0 <=> l.speed = 0)
  BY <1>2, GainAssumption
<1>4. p.speed = EscGain[l.speed] + kEscPwmN
  BY DEF ConvertCommandToPwm
<1>5. MotionPwm(c).speed = Clamp(p.speed, kEscPwmMin, kEscPwmMax)
  BY DEF MotionPwm, LimitPwm
<1>. HIDE DEF l, p
<1>6. MotionPwm(c).speed = kEscPwmN <=> l.speed = 0
  BY <1>3, <1>4, <1>5 DEF Clamp, kEscPwmN, kEscPwmMin, kEscPwmMax
<1>7. QED
  BY <1>6 DEF l

LEMMA ZeroCommandStaysZero ==
  LimitCommand(ZeroCommand).speed = 0
  BY LimitsAssumption DEF LimitCommand, ZeroCommand, Clamp

LEMMA ControlMsgType == ControlMsg \subseteq Message
  BY LimitsAssumption DEF ControlMsg, Message

\* The invariants hold for any message and any code, those of HardwareNext among them: in the
\* chain of Vehicle the operator's speeds are the gamepad's.
NodeStep ==
  \/ \E msg \in Message : ControlCommandCallback(msg) \/ TeleopControlCommandCallback(msg)
  \/ DeadlineCallback
  \/ \E data \in Int : GcsCommandCallback(data) \/ TeleopCommandCallback(data)
  \/ Shutdown
  \/ Restart
  \/ Receive
  \/ UNCHANGED hardwareVars

LEMMA NextIsNodeStep == [HardwareNext]_hardwareVars => NodeStep
<1>1. Int8Command \subseteq Int
  BY DEF Int8Command
<1>2. QED
  BY <1>1, ControlMsgType DEF HardwareNext, NodeStep

-----------------------------------------------------------------------------
(* Type correctness. *)

LEMMA SendType ==
  ASSUME HardwareTypeOK, NEW c \in Message, NEW src \in Source,
         SendControlCommand(c, src)
  PROVE  /\ wire' \in Seq(Frame) /\ Len(wire') <= WireCap
         /\ sent' \in Frame \cup {NoFrame}
         /\ published' \in [command : Command, pwm : Pwm \cup {ZeroPwm}]
<1>1. NeutralPwm \in Pwm
  BY NeutralPwmType
<1>2. MotionPwm(c) \in Pwm /\ LimitCommand(c) \in Command
  BY MotionPwmType, LimitCommandType
<1>3. EmptyResult \in [command : Command, pwm : Pwm \cup {ZeroPwm}]
  BY LimitsAssumption DEF EmptyResult, ZeroCommand, Command
<1>4. ASSUME NEW pwm \in Pwm, SerializeAndSendMessage(pwm, src)
      PROVE  wire' \in Seq(Frame) /\ Len(wire') <= WireCap /\ sent' \in Frame \cup {NoFrame}
  <2>1. CASE UseDummyHardware
    BY <1>4, <2>1 DEF SerializeAndSendMessage, HardwareTypeOK
  <2>2. CASE ~UseDummyHardware
    <3> DEFINE frame == [steering |-> pwm.steering, speed |-> pwm.speed,
                         cmd |-> drive_command, src |-> src]
    <3>1. frame \in Frame
      BY DEF Frame, Pwm, HardwareTypeOK
    <3>2. Len(wire) < WireCap /\ wire' = Append(wire, frame) /\ sent' = frame
      BY <1>4, <2>2 DEF SerializeAndSendMessage
    <3>3. wire \in Seq(Frame)
      BY DEF HardwareTypeOK
    <3> HIDE DEF frame
    <3>4. QED
      BY <3>1, <3>2, <3>3, LimitsAssumption
  <2>3. QED
    BY <2>1, <2>2
<1>5. QED
  BY <1>1, <1>2, <1>3, <1>4 DEF SendControlCommand

LEMMA TypeStart ==
  ASSUME HardwareInit
  PROVE  HardwareTypeOK
<1>1. /\ drive_command \in DriveCommand
      /\ published \in [command : Command, pwm : Pwm \cup {ZeroPwm}]
      /\ wire \in Seq(Frame) /\ Len(wire) <= WireCap
  BY LimitsAssumption DEF HardwareInit, NodeInit, DriveCommand, EmptyResult, ZeroCommand, Command
<1>2. alive \in BOOLEAN /\ is_teleop_mode \in BOOLEAN /\ teleop_mode \in BOOLEAN
  BY DEF HardwareInit, NodeInit
<1>3. QED
  BY <1>1, <1>2 DEF HardwareTypeOK, HardwareInit

LEMMA TypeKept ==
  ASSUME HardwareTypeOK, NodeStep
  PROVE  HardwareTypeOK'
<1>1. ASSUME NEW msg \in Message, ControlCommandCallback(msg)
      PROVE  HardwareTypeOK'
  <2>1. CASE SendControlCommand(msg, "auto")
             /\ UNCHANGED <<alive, is_teleop_mode, drive_command, teleop_mode>>
    <3>1. /\ wire' \in Seq(Frame) /\ Len(wire') <= WireCap
          /\ sent' \in Frame \cup {NoFrame}
          /\ published' \in [command : Command, pwm : Pwm \cup {ZeroPwm}]
      BY <2>1, SendType, Zenon DEF Source
    <3>2. QED
      BY <2>1, <3>1 DEF HardwareTypeOK
  <2>2. CASE UNCHANGED hardwareVars
    BY <2>2 DEF HardwareTypeOK, hardwareVars, nodeVars
  <2>3. CASE WriteFails
    BY <2>3 DEF HardwareTypeOK, WriteFails
  <2>4. QED
    BY <1>1, <2>1, <2>2, <2>3 DEF ControlCommandCallback
<1>2. ASSUME NEW msg \in Message, TeleopControlCommandCallback(msg)
      PROVE  HardwareTypeOK'
  <2>1. CASE SendControlCommand(msg, "teleop")
             /\ UNCHANGED <<alive, is_teleop_mode, drive_command, teleop_mode>>
    <3>1. /\ wire' \in Seq(Frame) /\ Len(wire') <= WireCap
          /\ sent' \in Frame \cup {NoFrame}
          /\ published' \in [command : Command, pwm : Pwm \cup {ZeroPwm}]
      BY <2>1, SendType, Zenon DEF Source
    <3>2. QED
      BY <2>1, <3>1 DEF HardwareTypeOK
  <2>2. CASE UNCHANGED hardwareVars
    BY <2>2 DEF HardwareTypeOK, hardwareVars, nodeVars
  <2>3. CASE WriteFails
    BY <2>3 DEF HardwareTypeOK, WriteFails
  <2>4. QED
    BY <1>2, <2>1, <2>2, <2>3 DEF TeleopControlCommandCallback
<1>3. CASE DeadlineCallback
  <2>1. CASE /\ SendControlCommand(ZeroCommand, "deadline")
             /\ drive_command' = "kStop"
             /\ UNCHANGED <<alive, is_teleop_mode, teleop_mode>>
    <3>1. /\ wire' \in Seq(Frame) /\ Len(wire') <= WireCap
          /\ sent' \in Frame \cup {NoFrame}
          /\ published' \in [command : Command, pwm : Pwm \cup {ZeroPwm}]
      BY <2>1, SendType DEF Message, Source, ZeroCommand
    <3>2. QED
      BY <2>1, <3>1 DEF HardwareTypeOK, DriveCommand
  <2>2. CASE WriteFails
    BY <2>2 DEF HardwareTypeOK, WriteFails
  <2>3. QED
    BY <1>3, <2>1, <2>2 DEF DeadlineCallback
<1>4. ASSUME NEW data \in Int, GcsCommandCallback(data)
      PROVE  HardwareTypeOK'
  BY <1>4 DEF HardwareTypeOK, GcsCommandCallback, SetDriveCommand, DriveCommand
<1>5. ASSUME NEW data \in Int, TeleopCommandCallback(data)
      PROVE  HardwareTypeOK'
  BY <1>5 DEF HardwareTypeOK, TeleopCommandCallback, SetDriveCommand, DriveCommand
<1>6. CASE Shutdown
  BY <1>6 DEF HardwareTypeOK, Shutdown
<1>7. CASE Restart
  BY <1>7 DEF HardwareTypeOK, Restart, DriveCommand
<1>8. CASE Receive
  <2>1. wire \in Seq(Frame) /\ wire # <<>> /\ wire' = Tail(wire)
    BY <1>8 DEF Receive, HardwareTypeOK
  <2>2. wire' \in Seq(Frame) /\ Len(wire') <= WireCap
    BY <2>1, LimitsAssumption DEF HardwareTypeOK
  <2>3. QED
    BY <1>8, <2>2 DEF Receive, HardwareTypeOK, nodeVars
<1>9. CASE UNCHANGED hardwareVars
  BY <1>9 DEF HardwareTypeOK, hardwareVars, nodeVars
<1>10. QED
  BY <1>1, <1>2, <1>3, <1>4, <1>5, <1>6, <1>7, <1>8, <1>9 DEF NodeStep

\* The state is well typed, and in particular nothing out of the limits of the ESC,
\* the servo or the car is ever written or published, whatever arrives.
THEOREM TypeCorrect == HardwareSpec => []HardwareTypeOK
<1>1. HardwareInit => HardwareTypeOK
  BY TypeStart
<1>2. HardwareTypeOK /\ [HardwareNext]_hardwareVars => HardwareTypeOK'
  BY TypeKept, NextIsNodeStep
<1>3. QED
  BY <1>1, <1>2, PTL DEF HardwareSpec

-----------------------------------------------------------------------------
(* Who may drive. *)

\* The drive command belongs to the mode, and the latched mode is the mode in force:
\* both halves are inductive without the rest of the state.
AuthorityInv == DriveCommandFitsMode /\ LatchedModeIsCurrent

LEMMA AuthorityInductive ==
  ASSUME AuthorityInv, NodeStep
  PROVE  AuthorityInv'
<1>1. ASSUME drive_command' \in {drive_command, "kStop"},
             is_teleop_mode' = is_teleop_mode, teleop_mode' = teleop_mode
      PROVE  AuthorityInv'
  <2>1. LatchedModeIsCurrent'
    BY <1>1, Zenon DEF AuthorityInv, LatchedModeIsCurrent
  <2>2. DriveCommandFitsMode'
    BY <1>1 DEF AuthorityInv, DriveCommandFitsMode
  <2>3. QED
    BY <2>1, <2>2 DEF AuthorityInv
<1>2. ASSUME NEW msg \in Message,
             ControlCommandCallback(msg) \/ TeleopControlCommandCallback(msg)
      PROVE  AuthorityInv'
  BY <1>1, <1>2 DEF ControlCommandCallback, TeleopControlCommandCallback, WriteFails, hardwareVars, nodeVars
<1>3. CASE DeadlineCallback
  BY <1>1, <1>3 DEF DeadlineCallback, WriteFails
<1>4. ASSUME NEW data \in Int, GcsCommandCallback(data)
      PROVE  AuthorityInv'
  <2>1. CASE data = 1 /\ ~is_teleop_mode
    BY <1>4, <2>1 DEF GcsCommandCallback, SetDriveCommand, AuthorityInv, DriveCommandFitsMode,
                      LatchedModeIsCurrent
  <2>2. CASE ~(data = 1 /\ ~is_teleop_mode)
    BY <1>1, <1>4, <2>2 DEF GcsCommandCallback, SetDriveCommand
  <2>3. QED
    BY <2>1, <2>2
<1>5. ASSUME NEW data \in Int, TeleopCommandCallback(data)
      PROVE  AuthorityInv'
  <2>1. LatchedModeIsCurrent'
    BY <1>5 DEF TeleopCommandCallback, LatchedModeIsCurrent
  <2>2. CASE data = 1
    BY <1>5, <2>1, <2>2 DEF TeleopCommandCallback, SetDriveCommand, AuthorityInv, DriveCommandFitsMode
  <2>3. CASE data # 1
    BY <1>5, <2>1, <2>3 DEF TeleopCommandCallback, SetDriveCommand, AuthorityInv, DriveCommandFitsMode
  <2>4. QED
    BY <2>2, <2>3
<1>6. CASE Restart
  BY <1>6 DEF Restart, AuthorityInv, DriveCommandFitsMode, LatchedModeIsCurrent
<1>7. CASE Shutdown \/ Receive \/ UNCHANGED hardwareVars
  BY <1>1, <1>7 DEF Shutdown, Receive, hardwareVars, nodeVars
<1>8. QED
  BY <1>2, <1>3, <1>4, <1>5, <1>6, <1>7 DEF NodeStep

LEMMA AuthorityStart == HardwareInit => AuthorityInv
  BY DEF HardwareInit, NodeInit, AuthorityInv, DriveCommandFitsMode, LatchedModeIsCurrent

LEMMA AuthorityHolds == HardwareSpec => []AuthorityInv
<1>1. HardwareInit => AuthorityInv
  BY AuthorityStart
<1>2. AuthorityInv /\ [HardwareNext]_hardwareVars => AuthorityInv'
  BY AuthorityInductive, NextIsNodeStep
<1>3. QED
  BY <1>1, <1>2, PTL DEF HardwareSpec

\* For any limits and inputs, the drive command fits the mode.
THEOREM ModeAuthority == HardwareSpec => []DriveCommandFitsMode
<1>1. AuthorityInv => DriveCommandFitsMode
  BY DEF AuthorityInv
<1>2. QED
  BY <1>1, AuthorityHolds, PTL

\* For any limits and inputs, the latched mode is the mode in force.
THEOREM LatchedMode == HardwareSpec => []LatchedModeIsCurrent
<1>1. AuthorityInv => LatchedModeIsCurrent
  BY DEF AuthorityInv
<1>2. QED
  BY <1>1, AuthorityHolds, PTL

NoHandOver == drive_command # "kStop" => drive_command' \in {drive_command, "kStop"}

\* The guards of the two start commands exclude each other only because the drive
\* command fits the mode.
LEMMA StepHandsNothingOver ==
  ASSUME AuthorityInv, HardwareTypeOK, NodeStep
  PROVE  NoHandOver
<1> USE DEF NoHandOver
<1>1. ASSUME NEW msg \in Message,
             ControlCommandCallback(msg) \/ TeleopControlCommandCallback(msg)
      PROVE  NoHandOver
  BY <1>1 DEF ControlCommandCallback, TeleopControlCommandCallback, WriteFails, hardwareVars, nodeVars
<1>2. CASE DeadlineCallback
  BY <1>2 DEF DeadlineCallback, WriteFails
<1>3. ASSUME NEW data \in Int, GcsCommandCallback(data)
      PROVE  NoHandOver
  BY <1>3 DEF GcsCommandCallback, SetDriveCommand, HardwareTypeOK, DriveCommand, AuthorityInv,
              DriveCommandFitsMode
<1>4. ASSUME NEW data \in Int, TeleopCommandCallback(data)
      PROVE  NoHandOver
  BY <1>4 DEF TeleopCommandCallback, SetDriveCommand, HardwareTypeOK, DriveCommand, AuthorityInv,
              DriveCommandFitsMode
<1>5. CASE Shutdown \/ Restart \/ Receive \/ UNCHANGED hardwareVars
  BY <1>5 DEF Shutdown, Restart, Receive, hardwareVars, nodeVars
<1>6. QED
  BY <1>1, <1>2, <1>3, <1>4, <1>5 DEF NodeStep

\* For any limits and inputs, no step turns autonomous driving into manual driving or back.
THEOREM HandOver == HardwareSpec => HandOverThroughStop
<1>1. AuthorityInv /\ HardwareTypeOK /\ [HardwareNext]_hardwareVars => [NoHandOver]_hardwareVars
  BY StepHandsNothingOver, NextIsNodeStep
<1>2. QED
  BY <1>1, AuthorityHolds, TypeCorrect, PTL DEF HardwareSpec, HandOverThroughStop, NoHandOver

-----------------------------------------------------------------------------
(* What is on the wire. *)

\* With the dummy driver nothing is ever written.
DummyIsSilent == UseDummyHardware => sent = NoFrame

WireInv ==
  /\ MotionComesFromItsSource
  /\ PublishedSpeedMatchesWire
  /\ DummyIsSilent

\* What one call of SendControlCommand does to the wire and to the last frame: nothing
\* with the dummy driver, and otherwise one frame that bears the drive command and
\* the caller, moves the car only if it was not stopped, and only for a positive speed.
LEMMA SendEffect ==
  ASSUME HardwareTypeOK, NEW c \in Message, NEW src \in Source,
         SendControlCommand(c, src)
  PROVE  \/ UseDummyHardware /\ wire' = wire /\ sent' = sent
         \/ /\ ~UseDummyHardware
            /\ sent' \in Frame
            /\ wire' = Append(wire, sent')
            /\ sent'.cmd = drive_command /\ sent'.src = src
            /\ InMotion(sent') => drive_command # "kStop" /\ LimitCommand(c).speed # 0
            /\ published'.command.speed = 0 <=> ~InMotion(sent')
<1>1. CASE UseDummyHardware
  BY <1>1 DEF SendControlCommand, SerializeAndSendMessage
<1>2. CASE ~UseDummyHardware
  <2>1. sent' \in Frame
    <3>1. NeutralPwm \in Pwm /\ MotionPwm(c) \in Pwm
      BY MotionPwmType, NeutralPwmType
    <3>2. QED
      BY <1>2, <3>1 DEF SendControlCommand, SerializeAndSendMessage, Frame, Pwm, HardwareTypeOK
  <2>2. wire' = Append(wire, sent') /\ sent'.cmd = drive_command /\ sent'.src = src
    BY <1>2 DEF SendControlCommand, SerializeAndSendMessage
  <2>3. CASE GotStopCommand
    <3>1. sent'.speed = kEscPwmN
      BY <1>2, <2>3 DEF SendControlCommand, SerializeAndSendMessage, NeutralPwm
    <3>2. published'.command.speed = 0
      BY <2>3 DEF SendControlCommand, EmptyResult, ZeroCommand
    <3>3. QED
      BY <1>2, <2>1, <2>2, <3>1, <3>2 DEF InMotion
  <2>4. CASE ~GotStopCommand
    <3>1. sent'.speed = MotionPwm(c).speed
      BY <1>2, <2>4 DEF SendControlCommand, SerializeAndSendMessage
    <3>2. published'.command.speed = LimitCommand(c).speed
      BY <2>4 DEF SendControlCommand
    <3>3. InMotion(sent') <=> LimitCommand(c).speed # 0
      BY <3>1, NeutralIffZero DEF InMotion
    <3>4. QED
      BY <1>2, <2>1, <2>2, <2>4, <3>2, <3>3 DEF GotStopCommand
  <2>5. QED
    BY <2>3, <2>4
<1>3. QED
  BY <1>1, <1>2

\* A call keeps the invariant if it can only move the car for the source the drive
\* command names.
LEMMA SendKeepsWireInv ==
  ASSUME HardwareTypeOK, WireInv,
         NEW c \in Message, NEW src \in Source,
         SendControlCommand(c, src),
         drive_command # "kStop" /\ LimitCommand(c).speed # 0
           => \/ drive_command = "kAuto"   /\ src = "auto"
              \/ drive_command = "kManual" /\ src = "teleop"
  PROVE  WireInv'
<1>1. CASE UseDummyHardware
  <2>1. wire' = wire /\ sent' = sent /\ sent = NoFrame
    BY <1>1, SendEffect DEF WireInv, DummyIsSilent
  <2>2. QED
    BY <2>1 DEF WireInv, DummyIsSilent, PublishedSpeedMatchesWire, MotionComesFromItsSource
<1>2. CASE ~UseDummyHardware
  <2>1. /\ sent' \in Frame
        /\ wire' = Append(wire, sent')
        /\ InMotion(sent') => \/ sent'.cmd = "kAuto"   /\ sent'.src = "auto"
                              \/ sent'.cmd = "kManual" /\ sent'.src = "teleop"
        /\ published'.command.speed = 0 <=> ~InMotion(sent')
    BY <1>2, SendEffect
  <2>2. MotionComesFromItsSource'
    <3> SUFFICES ASSUME NEW i \in DOMAIN wire', InMotion(wire'[i])
                 PROVE  \/ wire'[i].cmd = "kAuto"   /\ wire'[i].src = "auto"
                        \/ wire'[i].cmd = "kManual" /\ wire'[i].src = "teleop"
      BY DEF MotionComesFromItsSource, InMotion
    <3>1. wire \in Seq(Frame)
      BY DEF HardwareTypeOK
    <3>2. CASE i = Len(wire) + 1
      BY <2>1, <3>1, <3>2
    <3>3. CASE i # Len(wire) + 1
      <4>1. i \in DOMAIN wire /\ wire'[i] = wire[i]
        BY <2>1, <3>1, <3>3
      <4>2. QED
        BY <4>1 DEF WireInv, MotionComesFromItsSource, InMotion
    <3>4. QED
      BY <3>2, <3>3
  <2>3. QED
    BY <1>2, <2>1, <2>2 DEF WireInv, PublishedSpeedMatchesWire, DummyIsSilent, InMotion
<1>3. QED
  BY <1>1, <1>2

LEMMA WireInductive ==
  ASSUME HardwareTypeOK, AuthorityInv, WireInv, NodeStep
  PROVE  WireInv'
<1>1. ASSUME UNCHANGED <<published, wire, sent>>
      PROVE  WireInv'
  BY <1>1 DEF WireInv, MotionComesFromItsSource, PublishedSpeedMatchesWire, DummyIsSilent, InMotion
<1>2. WriteFails => WireInv'
  BY <1>1 DEF WriteFails
<1>3. ASSUME NEW msg \in Message, ControlCommandCallback(msg)
      PROVE  WireInv'
  <2>1. CASE ~is_teleop_mode /\ SendControlCommand(msg, "auto")
    <3>1. drive_command # "kStop" => drive_command = "kAuto"
      BY <2>1 DEF HardwareTypeOK, DriveCommand, AuthorityInv, DriveCommandFitsMode
    <3>2. QED
      BY <2>1, <3>1, SendKeepsWireInv, Zenon DEF Source
  <2>2. CASE UNCHANGED hardwareVars
    BY <1>1, <2>2 DEF hardwareVars, nodeVars
  <2>3. QED
    BY <1>2, <1>3, <2>1, <2>2 DEF ControlCommandCallback
<1>4. ASSUME NEW msg \in Message, TeleopControlCommandCallback(msg)
      PROVE  WireInv'
  <2>1. CASE is_teleop_mode /\ SendControlCommand(msg, "teleop")
    <3>1. drive_command # "kStop" => drive_command = "kManual"
      BY <2>1 DEF HardwareTypeOK, DriveCommand, AuthorityInv, DriveCommandFitsMode
    <3>2. QED
      BY <2>1, <3>1, SendKeepsWireInv, Zenon DEF Source
  <2>2. CASE UNCHANGED hardwareVars
    BY <1>1, <2>2 DEF hardwareVars, nodeVars
  <2>3. QED
    BY <1>2, <1>4, <2>1, <2>2 DEF TeleopControlCommandCallback
<1>5. CASE DeadlineCallback
  <2>1. ZeroCommand \in Message
    BY DEF Message, ZeroCommand
  <2>2. SendControlCommand(ZeroCommand, "deadline") => WireInv'
    BY <2>1, ZeroCommandStaysZero, SendKeepsWireInv DEF Source
  <2>3. QED
    BY <1>2, <1>5, <2>2 DEF DeadlineCallback
<1>6. ASSUME NEW data \in Int, GcsCommandCallback(data) \/ TeleopCommandCallback(data)
      PROVE  WireInv'
  BY <1>1, <1>6 DEF GcsCommandCallback, TeleopCommandCallback
<1>7. CASE Shutdown \/ Restart \/ UNCHANGED hardwareVars
  BY <1>1, <1>7 DEF Shutdown, Restart, hardwareVars, nodeVars
<1>8. CASE Receive
  <2>1. wire \in Seq(Frame) /\ wire # <<>> /\ wire' = Tail(wire)
    BY <1>8 DEF Receive, HardwareTypeOK
  <2>2. \A i \in DOMAIN wire' : i + 1 \in DOMAIN wire /\ wire'[i] = wire[i + 1]
    BY <2>1
  <2>3. MotionComesFromItsSource'
    BY <2>2 DEF WireInv, MotionComesFromItsSource, InMotion
  <2>4. QED
    BY <1>8, <2>3 DEF Receive, nodeVars, WireInv, PublishedSpeedMatchesWire, DummyIsSilent, InMotion
<1>9. QED
  BY <1>3, <1>4, <1>5, <1>6, <1>7, <1>8 DEF NodeStep

LEMMA WireStart == HardwareInit => WireInv
  BY DEF HardwareInit, WireInv, MotionComesFromItsSource, PublishedSpeedMatchesWire, DummyIsSilent

LEMMA WireHolds == HardwareSpec => []WireInv
<1>1. HardwareInit => WireInv
  BY WireStart
<1>2. HardwareTypeOK /\ AuthorityInv /\ WireInv /\ [HardwareNext]_hardwareVars => WireInv'
  BY WireInductive, NextIsNodeStep
<1>3. QED
  BY <1>1, <1>2, TypeCorrect, AuthorityHolds, PTL DEF HardwareSpec

\* For any limits, gains and inputs, every frame in transit that moves the car was
\* written by the source its drive command names.
THEOREM MotionSource == HardwareSpec => []MotionComesFromItsSource
<1>1. WireInv => MotionComesFromItsSource
  BY DEF WireInv
<1>2. QED
  BY <1>1, WireHolds, PTL

\* For any limits, gains and inputs, the speed reported is zero exactly when the last
\* frame written was neutral.
THEOREM HonestReport == HardwareSpec => []PublishedSpeedMatchesWire
<1>1. WireInv => PublishedSpeedMatchesWire
  BY DEF WireInv
<1>2. QED
  BY <1>1, WireHolds, PTL

-----------------------------------------------------------------------------
(* The node implements the abstract authority. *)

\* The order the abstract specification sees.
SentMoves == sent # NoFrame /\ InMotion(sent)

LEMMA SentMovesAfterSend ==
  ASSUME HardwareTypeOK, WireInv,
         NEW c \in Message, NEW src \in Source,
         SendControlCommand(c, src)
  PROVE  \/ SentMoves' = SentMoves /\ SentMoves = FALSE
         \/ SentMoves' = FALSE
         \/ SentMoves' = TRUE /\ drive_command # "kStop" /\ LimitCommand(c).speed # 0
<1>1. CASE UseDummyHardware
  BY <1>1, SendEffect DEF SentMoves, WireInv, DummyIsSilent
<1>2. CASE ~UseDummyHardware
  <2>1. sent' \in Frame /\ (InMotion(sent') => drive_command # "kStop" /\ LimitCommand(c).speed # 0)
    BY <1>2, SendEffect
  <2>2. QED
    BY <2>1, NoFrameAssumption DEF SentMoves, InMotion
<1>3. QED
  BY <1>1, <1>2

LEMMA AuthorityInit == HardwareInit => Authority!Init
  BY DEF HardwareInit, NodeInit, Authority!Init, HolderOf

\* Each step of the node is one of the authority, or it changes nothing the authority sees.
LEMMA AuthorityStep ==
  ASSUME HardwareTypeOK, AuthorityInv, WireInv, NodeStep
  PROVE  Authority!Next \/ UNCHANGED Authority!vars
<1> USE DEF Authority!Next, Authority!vars, Authority!Parties, Authority!Modes, HolderOf
<1>1. ASSUME UNCHANGED <<is_teleop_mode, drive_command, sent>>
      PROVE  UNCHANGED Authority!vars
  BY <1>1 DEF InMotion
<1>2. WriteFails => UNCHANGED Authority!vars
  BY <1>1 DEF WriteFails
<1>3. ASSUME NEW msg \in Message, ControlCommandCallback(msg)
      PROVE  Authority!Next \/ UNCHANGED Authority!vars
  <2>1. CASE /\ ~is_teleop_mode /\ SendControlCommand(msg, "auto")
             /\ UNCHANGED <<alive, is_teleop_mode, drive_command, teleop_mode>>
    <3>1. drive_command # "kStop" => drive_command = "kAuto"
      BY <2>1 DEF HardwareTypeOK, DriveCommand, AuthorityInv, DriveCommandFitsMode
    <3>2. SentMoves' = FALSE \/ (SentMoves' = TRUE /\ drive_command = "kAuto")
      BY <2>1, <3>1, SentMovesAfterSend DEF Source
    <3>3. Authority!Halt \/ Authority!Drive("planner")
      BY <2>1, <3>2 DEF Authority!Halt, Authority!Drive, Authority!ModeOf, SentMoves
    <3>4. QED
      BY <3>3
  <2>2. CASE UNCHANGED hardwareVars
    BY <1>1, <2>2 DEF hardwareVars, nodeVars
  <2>3. QED
    BY <1>2, <1>3, <2>1, <2>2 DEF ControlCommandCallback
<1>4. ASSUME NEW msg \in Message, TeleopControlCommandCallback(msg)
      PROVE  Authority!Next \/ UNCHANGED Authority!vars
  <2>1. CASE /\ is_teleop_mode /\ SendControlCommand(msg, "teleop")
             /\ UNCHANGED <<alive, is_teleop_mode, drive_command, teleop_mode>>
    <3>1. drive_command # "kStop" => drive_command = "kManual"
      BY <2>1 DEF HardwareTypeOK, DriveCommand, AuthorityInv, DriveCommandFitsMode
    <3>2. SentMoves' = FALSE \/ (SentMoves' = TRUE /\ drive_command = "kManual")
      BY <2>1, <3>1, SentMovesAfterSend DEF Source
    <3>3. Authority!Halt \/ Authority!Drive("operator")
      BY <2>1, <3>2 DEF Authority!Halt, Authority!Drive, Authority!ModeOf, SentMoves
    <3>4. QED
      BY <3>3
  <2>2. CASE UNCHANGED hardwareVars
    BY <1>1, <2>2 DEF hardwareVars, nodeVars
  <2>3. QED
    BY <1>2, <1>4, <2>1, <2>2 DEF TeleopControlCommandCallback
<1>5. CASE DeadlineCallback
  <2>1. CASE /\ SendControlCommand(ZeroCommand, "deadline")
             /\ drive_command' = "kStop" /\ UNCHANGED is_teleop_mode
    <3>1. ZeroCommand \in Message /\ "deadline" \in Source
      BY DEF Message, ZeroCommand, Source
    <3>2. SentMoves' = FALSE
      BY <2>1, <3>1, SentMovesAfterSend, ZeroCommandStaysZero
    <3>3. Authority!Halt
      BY <2>1, <3>2 DEF Authority!Halt, SentMoves
    <3>4. QED
      BY <3>3
  <2>2. QED
    BY <1>2, <1>5, <2>1 DEF DeadlineCallback
<1>6. ASSUME NEW data \in Int, GcsCommandCallback(data)
      PROVE  Authority!Next \/ UNCHANGED Authority!vars
  <2>1. CASE data = 1 /\ ~is_teleop_mode
    <3>1. Authority!Grant("planner")
      BY <1>6, <2>1 DEF GcsCommandCallback, SetDriveCommand, Authority!Grant, Authority!ModeOf, InMotion
    <3>2. QED
      BY <3>1
  <2>2. CASE data = 1 /\ is_teleop_mode
    BY <1>1, <1>6, <2>2 DEF GcsCommandCallback
  <2>3. CASE data # 1
    <3>1. Authority!Revoke
      BY <1>6, <2>3 DEF GcsCommandCallback, SetDriveCommand, Authority!Revoke, InMotion
    <3>2. QED
      BY <3>1
  <2>4. QED
    BY <2>1, <2>2, <2>3
<1>7. ASSUME NEW data \in Int, TeleopCommandCallback(data)
      PROVE  Authority!Next \/ UNCHANGED Authority!vars
  <2>1. CASE data = 1 /\ is_teleop_mode
    <3>1. Authority!Grant("operator")
      BY <1>7, <2>1 DEF TeleopCommandCallback, SetDriveCommand, Authority!Grant, Authority!ModeOf, InMotion
    <3>2. QED
      BY <3>1
  <2>2. CASE data = 1 /\ ~is_teleop_mode
    BY <1>7, <2>2 DEF TeleopCommandCallback, InMotion
  <2>3. CASE data # 1
    <3>1. Authority!Revoke
      BY <1>7, <2>3 DEF TeleopCommandCallback, SetDriveCommand, Authority!Revoke, InMotion
    <3>2. QED
      BY <3>1
  <2>4. QED
    BY <2>1, <2>2, <2>3
<1>8. CASE Restart
  <2>1. Authority!Revoke
    BY <1>8 DEF Restart, Authority!Revoke, InMotion
  <2>2. QED
    BY <2>1
<1>9. CASE Shutdown \/ Receive \/ UNCHANGED hardwareVars
  BY <1>1, <1>9 DEF Shutdown, Receive, hardwareVars, nodeVars
<1>10. QED
  BY <1>3, <1>4, <1>5, <1>6, <1>7, <1>8, <1>9 DEF NodeStep

\* Every behaviour of the node, for any limits, gains and inputs, with its write
\* failures and restarts, is a behaviour of DriveAuthority.
THEOREM Refinement == HardwareSpec => ImplementsDriveAuthority
<1>1. HardwareTypeOK /\ AuthorityInv /\ WireInv /\ [HardwareNext]_hardwareVars => [Authority!Next]_Authority!vars
  BY AuthorityStep, NextIsNodeStep
<1>2. QED
  BY <1>1, AuthorityInit, TypeCorrect, AuthorityHolds, WireHolds, PTL
     DEF HardwareSpec, ImplementsDriveAuthority, Authority!Spec
=============================================================================
