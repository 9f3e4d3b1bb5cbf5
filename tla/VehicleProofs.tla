----------------------------- MODULE VehicleProofs -----------------------------
(***************************************************************************)
(* Who moves the motor, across the whole chain: for any speeds, limits and *)
(* gains, with or without losses, crashes and unplugged gamepads.  What    *)
(* the two nodes keep by themselves is taken from their own proofs; what   *)
(* is left is that the topics hand on nothing else than what was sent, and *)
(* what the firmware makes of a frame.  The second half is about the line  *)
(* between them, byte by byte.                                             *)
(***************************************************************************)
EXTENDS Vehicle, SerialLinkRefinement, HardwareControlProofs, GamepadProofs, TLAPS

NodeInv == HardwareTypeOK /\ AuthorityInv /\ WireInv

\* A topic holds what its publishers send: speeds and angles on the control topics,
\* whatever limits they respect, and codes on the others.
Carried(topic) == IF topic \in {"auto", "speed"} THEN Message ELSE Int

TopicsInv ==
  /\ DOMAIN inbox = Topics
  /\ \A topic \in Topics : inbox[topic] \in Carried(topic) \cup {NoMessage}

ChainInv == NodeInv /\ JoyInv /\ TopicsInv

-----------------------------------------------------------------------------
(* The parts. *)

LEMMA NodeKeeps ==
  ASSUME NodeInv, NodeStep
  PROVE  NodeInv'
  BY TypeKept, AuthorityInductive, WireInductive DEF NodeInv

\* A sample that arrives is one of those published, and any other topic stays as it is.
LEMMA PublishKeeps ==
  ASSUME TopicsInv, NEW samples, Publish(samples),
         \A topic \in DOMAIN samples \cap Topics : samples[topic] \in Carried(topic)
  PROVE  TopicsInv'
<1>1. PICK arrived \in SUBSET DOMAIN samples :
        inbox' = [topic \in Topics |->
                    IF alive /\ topic \in arrived THEN samples[topic] ELSE inbox[topic]]
  BY DEF Publish
<1>2. DOMAIN inbox' = Topics
  BY <1>1
<1>3. ASSUME NEW topic \in Topics
      PROVE  inbox'[topic] \in Carried(topic) \cup {NoMessage}
  <2>1. CASE alive /\ topic \in arrived
    <3>1. inbox'[topic] = samples[topic] /\ topic \in DOMAIN samples
      BY <1>1, <2>1
    <3>2. QED
      BY <3>1
  <2>2. CASE ~(alive /\ topic \in arrived)
    <3>1. inbox'[topic] = inbox[topic]
      BY <1>1, <2>2
    <3>2. QED
      BY <3>1 DEF TopicsInv
  <2>3. QED
    BY <2>1, <2>2
<1>4. QED
  BY <1>2, <1>3 DEF TopicsInv, Carried

LEMMA TakeKeeps ==
  ASSUME TopicsInv, NEW topic \in Topics, Take(topic)
  PROVE  TopicsInv'
<1>1. CASE alive'
  <2>1. inbox' = [inbox EXCEPT ![topic] = NoMessage]
    BY <1>1 DEF Take
  <2>2. \A t \in Topics : inbox'[t] = NoMessage \/ inbox'[t] = inbox[t]
    BY <2>1 DEF TopicsInv
  <2>3. DOMAIN inbox' = Topics
    BY <2>1 DEF TopicsInv
  <2>4. QED
    BY <2>2, <2>3 DEF TopicsInv, Carried
<1>2. CASE ~alive'
  BY <1>2 DEF Take, TopicsInv, Empty, Carried
<1>3. QED
  BY <1>1, <1>2

LEMMA TopicsRest ==
  ASSUME TopicsInv, inbox' = inbox \/ inbox' = Empty
  PROVE  TopicsInv'
  BY DEF TopicsInv, Empty, Carried

-----------------------------------------------------------------------------
(* The steps. *)

\* Whatever happens in the chain is a step of the hardware_control node, taken with a
\* message some topic carries, or leaves the node alone.
LEMMA ChainStepIsNodeStep ==
  ASSUME TopicsInv, [Next]_vars
  PROVE  NodeStep
<1>0. /\ inbox["auto"] \in Message \cup {NoMessage} /\ inbox["speed"] \in Message \cup {NoMessage}
      /\ inbox["gcs"] \in Int \cup {NoMessage} /\ inbox["teleop"] \in Int \cup {NoMessage}
  BY DEF TopicsInv, Topics, Carried
<1>1. CASE TakesControlCommand
  BY <1>0, <1>1 DEF TakesControlCommand, NodeStep
<1>2. CASE TakesTeleopControlCommand
  BY <1>0, <1>2 DEF TakesTeleopControlCommand, NodeStep
<1>3. CASE TakesGcsCommand
  BY <1>0, <1>3 DEF TakesGcsCommand, NodeStep
<1>4. CASE TakesTeleopCommand
  BY <1>0, <1>4 DEF TakesTeleopCommand, NodeStep
<1>5. CASE MissesDeadline \/ HardwareStops \/ HardwareRestarts \/ MotorReceives
  BY <1>5 DEF MissesDeadline, HardwareStops, HardwareRestarts, MotorReceives, NodeStep
<1>6. CASE \/ PlannerPublishes \/ PlannerStops \/ PlannerStarts
           \/ (\E data \in {0, 1} : GcsPublishes(data))
           \/ (\E msg \in Joy : GamepadPublishes(msg))
           \/ GamepadTimer \/ DeviceOn \/ DeviceOff \/ UNCHANGED vars
  <2>1. UNCHANGED hardwareVars
    BY <1>6 DEF PlannerPublishes, PlannerStops, PlannerStarts, GcsPublishes, GamepadPublishes,
                GamepadTimer, DeviceOn, DeviceOff, vars
  <2>2. QED
    BY <2>1 DEF NodeStep
<1>7. QED
  BY <1>1, <1>2, <1>3, <1>4, <1>5, <1>6 DEF Next

\* And it is a step of the gamepad node or leaves that one alone.
LEMMA ChainStepIsGamepadStep ==
  ASSUME [Next]_vars
  PROVE  [GamepadNext]_gamepadVars
<1>1. ASSUME NEW msg \in Joy, GamepadPublishes(msg)
      PROVE  GamepadNext
  BY <1>1 DEF GamepadPublishes, GamepadNext
<1>2. CASE GamepadTimer
  BY <1>2 DEF GamepadTimer, GamepadNext
<1>3. CASE \/ PlannerPublishes \/ PlannerStops \/ PlannerStarts
           \/ (\E data \in {0, 1} : GcsPublishes(data))
           \/ DeviceOn \/ DeviceOff \/ UNCHANGED vars
  BY <1>3 DEF PlannerPublishes, PlannerStops, PlannerStarts, GcsPublishes, DeviceOn, DeviceOff, vars
<1>4. CASE \/ TakesControlCommand \/ TakesTeleopControlCommand \/ TakesGcsCommand
           \/ TakesTeleopCommand \/ MissesDeadline
           \/ HardwareStops \/ HardwareRestarts \/ MotorReceives
  BY <1>4 DEF TakesControlCommand, TakesTeleopControlCommand, TakesGcsCommand, TakesTeleopCommand,
              MissesDeadline, HardwareStops, HardwareRestarts, MotorReceives
<1>5. QED
  BY <1>1, <1>2, <1>3, <1>4 DEF Next

LEMMA PublishersKeep ==
  ASSUME ChainInv,
         \/ PlannerPublishes
         \/ \E data \in {0, 1} : GcsPublishes(data)
         \/ \E msg \in Joy : GamepadPublishes(msg)
  PROVE  TopicsInv'
<1>1. CASE PlannerPublishes
  <2>1. PICK c \in ControlMsg : Publish([topic \in {"auto"} |-> c])
    BY <1>1 DEF PlannerPublishes
  <2>2. c \in Message
    BY ControlMsgType
  <2>3. QED
    BY <2>1, <2>2, PublishKeeps DEF ChainInv, Carried
<1>2. ASSUME NEW data \in {0, 1}, GcsPublishes(data)
      PROVE  TopicsInv'
  BY <1>2, PublishKeeps DEF GcsPublishes, ChainInv, Carried
<1>3. ASSUME NEW msg \in Joy, GamepadPublishes(msg)
      PROVE  TopicsInv'
  <2> DEFINE samples == [topic \in {"speed", "teleop"} |->
                           IF topic = "teleop" THEN cmd_mode'
                           ELSE [speed |-> accel_val', steering_angle |-> steer_val']]
  <2>1. joyCallback(msg) /\ Publish(samples)
    BY <1>3 DEF GamepadPublishes
  <2>2. JoyInv'
    BY <2>1, CallbackKeeps DEF ChainInv
  <2>3. cmd_mode' \in Int /\ accel_val' \in Int /\ steer_val' \in Int
    BY <2>2, GamepadAssumption DEF JoyInv, GamepadTypeOK, Mode
  <2>4. samples["speed"] \in Message /\ samples["teleop"] \in Int
    BY <2>3 DEF Message
  <2>5. DOMAIN samples = {"speed", "teleop"}
    OBVIOUS
  <2> HIDE DEF samples
  <2>6. QED
    BY <2>1, <2>4, <2>5, PublishKeeps DEF ChainInv, Carried
<1>4. QED
  BY <1>1, <1>2, <1>3

LEMMA OthersKeep ==
  ASSUME TopicsInv,
         \/ PlannerStops \/ PlannerStarts
         \/ GamepadTimer \/ DeviceOn \/ DeviceOff
         \/ TakesControlCommand \/ TakesTeleopControlCommand
         \/ TakesGcsCommand \/ TakesTeleopCommand \/ MissesDeadline
         \/ HardwareStops \/ HardwareRestarts
         \/ MotorReceives
         \/ UNCHANGED vars
  PROVE  TopicsInv'
<1>1. CASE \/ TakesControlCommand \/ TakesTeleopControlCommand
           \/ TakesGcsCommand \/ TakesTeleopCommand
  BY <1>1, TakeKeeps DEF TakesControlCommand, TakesTeleopControlCommand, TakesGcsCommand,
                         TakesTeleopCommand, Topics
<1>2. CASE \/ PlannerStops \/ PlannerStarts \/ GamepadTimer \/ DeviceOn \/ DeviceOff
           \/ MissesDeadline \/ HardwareStops \/ HardwareRestarts \/ MotorReceives
           \/ UNCHANGED vars
  BY <1>2, TopicsRest DEF PlannerStops, PlannerStarts, GamepadTimer, DeviceOn, DeviceOff,
                          MissesDeadline, HardwareStops, HardwareRestarts, MotorReceives, vars
<1>3. QED
  BY <1>1, <1>2

\* What holds of each node alone holds of it in the chain, and the topics carry nothing
\* a callback does not expect.
THEOREM ChainIsKept == Spec => []ChainInv
<1>1. Init => ChainInv
  <2> SUFFICES ASSUME Init PROVE ChainInv
    OBVIOUS
  <2>1. HardwareInit /\ GamepadInit /\ inbox = Empty
    BY DEF Init
  <2>2. NodeInv
    BY <2>1, TypeStart, AuthorityStart, WireStart DEF NodeInv
  <2>3. JoyInv
    BY <2>1, GamepadStart
  <2>4. TopicsInv
    BY <2>1 DEF TopicsInv, Empty
  <2>5. QED
    BY <2>2, <2>3, <2>4 DEF ChainInv
<1>2. ChainInv /\ [Next]_vars => ChainInv'
  <2> SUFFICES ASSUME ChainInv, [Next]_vars PROVE ChainInv'
    OBVIOUS
  <2>1. NodeInv'
    BY ChainStepIsNodeStep, NodeKeeps DEF ChainInv
  <2>2. JoyInv'
    BY ChainStepIsGamepadStep, StepKeeps DEF ChainInv
  <2>3. TopicsInv'
    BY PublishersKeep, OthersKeep DEF ChainInv, Next
  <2>4. QED
    BY <2>1, <2>2, <2>3 DEF ChainInv
<1>3. QED
  BY <1>1, <1>2, PTL DEF Spec

-----------------------------------------------------------------------------
(* The motor. *)

\* The firmware takes a frame's speed as it is: what the node writes is in its range.
LEMMA FrameIsTakenAsItIs ==
  ASSUME NodeInv, wire # <<>>
  PROVE  /\ Constrain(Head(wire).speed, 3277, 6553) = Head(wire).speed
         /\ InMotion(Head(wire)) =>
              \/ Head(wire).cmd = "kAuto"   /\ Head(wire).src = "auto"
              \/ Head(wire).cmd = "kManual" /\ Head(wire).src = "teleop"
<1>1. wire \in Seq(Frame) /\ 1 \in DOMAIN wire /\ Head(wire) = wire[1]
  BY DEF NodeInv, HardwareTypeOK
<1>2. Head(wire) \in Frame
  BY <1>1
<1>3. ASSUME NEW f \in Frame
      PROVE  Constrain(f.speed, 3277, 6553) = f.speed
  <2> DEFINE speed == f.speed
  <2>1. speed \in kEscPwmMin .. kEscPwmMax
    BY DEF Frame
  <2>2. speed \in Int /\ 3277 <= speed /\ speed <= 6553
    <3>1. speed \in Int /\ kEscPwmMin <= speed /\ speed <= kEscPwmMax
      BY <2>1, PwmEnds
    <3>2. QED
      BY <3>1 DEF kEscPwmMin, kEscPwmMax
  <2> HIDE DEF speed
  <2>3. Constrain(speed, 3277, 6553) = speed
    BY <2>2 DEF Constrain
  <2>4. QED
    BY <2>3 DEF speed
<1>4. Constrain(Head(wire).speed, 3277, 6553) = Head(wire).speed
  BY <1>2, <1>3
<1>5. InMotion(Head(wire)) =>
        \/ Head(wire).cmd = "kAuto"   /\ Head(wire).src = "auto"
        \/ Head(wire).cmd = "kManual" /\ Head(wire).src = "teleop"
  BY <1>1 DEF NodeInv, WireInv, MotionComesFromItsSource
<1>6. QED
  BY <1>4, <1>5

\* For any limits, gains and speeds, whatever is lost, overwritten, restarted or unplugged
\* and whatever broken frames leave behind, the motor changes to a moving value only for a
\* frame of the source that had been given the authority, or for one that nobody wrote.
THEOREM MotorObeys == Spec => MotorObeysTheHolder
<1> DEFINE Obeys ==
      esc' # esc /\ Moving' /\ ~misread'
        => /\ wire # <<>>
           /\ \/ Head(wire).cmd = "kAuto"   /\ Head(wire).src = "auto"
              \/ Head(wire).cmd = "kManual" /\ Head(wire).src = "teleop"
<1>1. ChainInv /\ [Next]_vars => [Obeys]_vars
  <2> SUFFICES ASSUME ChainInv, Next, esc' # esc, Moving', ~misread'
               PROVE  /\ wire # <<>>
                      /\ \/ Head(wire).cmd = "kAuto"   /\ Head(wire).src = "auto"
                         \/ Head(wire).cmd = "kManual" /\ Head(wire).src = "teleop"
    OBVIOUS
  <2>1. MotorReceives
    BY DEF Next, PlannerPublishes, PlannerStops, PlannerStarts, GcsPublishes, GamepadPublishes,
           GamepadTimer, DeviceOn, DeviceOff, TakesControlCommand, TakesTeleopControlCommand,
           TakesGcsCommand, TakesTeleopCommand, MissesDeadline, HardwareStops, HardwareRestarts,
           motorVars
  <2>2. wire # <<>> /\ esc' = Constrain(Head(wire).speed, 3277, 6553)
    BY <2>1 DEF MotorReceives, Receive, AccelDuty, motorVars
  <2>3. InMotion(Head(wire))
    BY <2>2, FrameIsTakenAsItIs DEF ChainInv, Moving, InMotion
  <2>4. QED
    BY <2>2, <2>3, FrameIsTakenAsItIs DEF ChainInv
<1>2. QED
  BY <1>1, ChainIsKept, PTL DEF Spec, MotorObeysTheHolder

-----------------------------------------------------------------------------
(* The chain keeps what the nodes promise by themselves. *)

\* The car as a whole is a behaviour of DriveAuthority: with planner, ground station and
\* gamepad in place of arbitrary messages, with samples lost and overwritten and processes
\* that end and return, at most one party drives, and authority passes through nobody.
THEOREM ChainObeysAuthority == Spec => ImplementsDriveAuthority
<1>1. Init => Authority!Init
  BY AuthorityInit DEF Init
<1>2. ChainInv /\ [Next]_vars => [Authority!Next]_Authority!vars
  BY ChainStepIsNodeStep, AuthorityStep DEF ChainInv, NodeInv
<1>3. QED
  BY <1>1, <1>2, ChainIsKept, PTL DEF Spec, ImplementsDriveAuthority, Authority!Spec

\* In the chain too the planner and the operator relieve each other only through a stop.
THEOREM ChainHandsNothingOver == Spec => HandOverThroughStop
<1>1. ChainInv /\ [Next]_vars => [NoHandOver]_hardwareVars
  BY ChainStepIsNodeStep, StepHandsNothingOver DEF ChainInv, NodeInv
<1>2. QED
  BY <1>1, ChainIsKept, PTL DEF Spec, HandOverThroughStop, NoHandOver

\* In the chain too a speed the gamepad publishes rises by one step for each press, however
\* often the driver repeats itself and the device comes and goes.
THEOREM ChainRisesByPresses == Spec => OneStepForEachPress
<1>1. Init => GamepadInit
  BY DEF Init
<1>2. [Next]_vars => [GamepadNext]_gamepadVars
  BY ChainStepIsGamepadStep
<1>3. Spec => GamepadSpec
  BY <1>1, <1>2, PTL DEF Spec, GamepadSpec
<1>4. QED
  BY <1>3, SpeedRisesByPresses

-----------------------------------------------------------------------------
(* The wire. *)

\* The chain carries whole frames.  That this is a FrameLine with the effect Pins has on
\* the ESC, and the bytes of SerialLink another, is what lets one stand for the other.
Wire ==
  INSTANCE FrameLine
  WITH Frames  <- Frame,
       Effect  <- [f \in Frame |-> AccelDuty(f.speed)],
       Outputs <- Duty,
       AtRest  <- kFirmwareNeutral,
       queue   <- IF Losses THEN <<>> ELSE wire,
       output  <- esc,
       intact  <- ~Losses

\* The wire gets shorter only by what the motor receives; a callback that sends writes one
\* frame, and nothing else touches it.
LEMMA WireStep ==
  ASSUME HardwareTypeOK, TopicsInv, [Next]_vars
  PROVE  MotorReceives \/ wire' = wire \/ \E f \in Frame : wire' = Append(wire, f)
<1>1. ASSUME NEW c \in Message, NEW src \in Source, SendControlCommand(c, src)
      PROVE  wire' = wire \/ \E f \in Frame : wire' = Append(wire, f)
  BY <1>1, SendEffect
<1>2. "auto" \in Source /\ "teleop" \in Source /\ "deadline" \in Source
  BY DEF Source
<1>3. WriteFails \/ UNCHANGED hardwareVars => wire' = wire
  BY DEF WriteFails, hardwareVars
<1>4. CASE TakesControlCommand
  <2>1. inbox["auto"] \in Message /\ ControlCommandCallback(inbox["auto"])
    BY <1>4 DEF TakesControlCommand, TopicsInv, Topics, Carried
  <2>2. QED
    BY <1>1, <1>2, <1>3, <2>1 DEF ControlCommandCallback
<1>5. CASE TakesTeleopControlCommand
  <2>1. inbox["speed"] \in Message /\ TeleopControlCommandCallback(inbox["speed"])
    BY <1>5 DEF TakesTeleopControlCommand, TopicsInv, Topics, Carried
  <2>2. QED
    BY <1>1, <1>2, <1>3, <2>1 DEF TeleopControlCommandCallback
<1>6. CASE MissesDeadline
  <2>1. ZeroCommand \in Message
    BY DEF Message, ZeroCommand
  <2>2. SendControlCommand(ZeroCommand, "deadline") \/ WriteFails
    BY <1>6 DEF MissesDeadline, DeadlineCallback
  <2>3. QED
    BY <1>1, <1>2, <1>3, <2>1, <2>2
<1>7. CASE TakesGcsCommand \/ TakesTeleopCommand \/ HardwareStops \/ HardwareRestarts
  BY <1>7 DEF TakesGcsCommand, TakesTeleopCommand, HardwareStops, HardwareRestarts,
              GcsCommandCallback, TeleopCommandCallback, Shutdown, Restart
<1>8. CASE \/ PlannerPublishes \/ PlannerStops \/ PlannerStarts
           \/ (\E data \in {0, 1} : GcsPublishes(data))
           \/ (\E msg \in Joy : GamepadPublishes(msg))
           \/ GamepadTimer \/ DeviceOn \/ DeviceOff \/ UNCHANGED vars
  BY <1>8 DEF PlannerPublishes, PlannerStops, PlannerStarts, GcsPublishes, GamepadPublishes,
              GamepadTimer, DeviceOn, DeviceOff, vars, hardwareVars
<1>9. QED
  BY <1>4, <1>5, <1>6, <1>7, <1>8 DEF Next

\* What the motor does follows the frames the hardware_control node writes, one after the
\* other and each one once, through crashes of the node and whatever the planner, the
\* ground station and the gamepad do; and a line that loses frames leaves the ESC in range.
THEOREM WireIsAFrameLine == Spec => Wire!Spec
<1>0. kFirmwareNeutral \in Duty /\ \A v \in Int : AccelDuty(v) \in Duty
  BY DEF kFirmwareNeutral, AccelDuty, Constrain, Duty
<1>1. Init => Wire!Init
  BY DEF Init, HardwareInit, Wire!Init
<1>2. ChainInv /\ [Next]_vars => [Wire!Next]_Wire!vars
  <2> SUFFICES ASSUME ChainInv, [Next]_vars
               PROVE  Wire!Next \/ UNCHANGED Wire!vars
    OBVIOUS
  <2>1. wire \in Seq(Frame)
    BY DEF ChainInv, NodeInv, HardwareTypeOK
  <2>2. CASE MotorReceives
    <3>1. wire # <<>> /\ wire' = Tail(wire) /\ Head(wire) \in Frame
      BY <2>1, <2>2 DEF MotorReceives, Receive
    <3>2. \/ esc' = AccelDuty(Head(wire).speed)
          \/ Losses /\ esc' = esc
          \/ Losses /\ \E v \in Misread : esc' = AccelDuty(v)
      BY <2>2 DEF MotorReceives, motorVars
    <3>3. Head(wire).speed \in Int /\ Misread \subseteq Int
      BY <3>1, SwitchesAssumption DEF Frame
    <3>4. CASE Losses
      BY <1>0, <3>2, <3>3, <3>4 DEF Wire!Next, Wire!Misapply, Wire!vars
    <3>5. CASE ~Losses
      <4>1. [f \in Frame |-> AccelDuty(f.speed)][Head(wire)] = AccelDuty(Head(wire).speed)
        BY <3>1
      <4>2. Wire!Apply
        BY <3>1, <3>2, <3>5, <4>1 DEF Wire!Apply
      <4>3. QED
        BY <4>2 DEF Wire!Next
    <3>6. QED
      BY <3>4, <3>5
  <2>3. CASE ~MotorReceives
    <3>1. esc' = esc
      BY <2>3 DEF Next, PlannerPublishes, PlannerStops, PlannerStarts, GcsPublishes,
         GamepadPublishes, GamepadTimer, DeviceOn, DeviceOff, TakesControlCommand,
         TakesTeleopControlCommand, TakesGcsCommand, TakesTeleopCommand, MissesDeadline,
         HardwareStops, HardwareRestarts, vars, motorVars
    <3>2. CASE Losses
      BY <3>1, <3>2 DEF Wire!vars
    <3>3. CASE ~Losses /\ wire' = wire
      BY <3>1, <3>3 DEF Wire!vars
    <3>4. ASSUME ~Losses, NEW f \in Frame, wire' = Append(wire, f)
          PROVE  Wire!Next
      <4>1. Wire!Write(f)
        BY <3>1, <3>4 DEF Wire!Write
      <4>2. QED
        BY <4>1 DEF Wire!Next
    <3>5. wire' = wire \/ \E f \in Frame : wire' = Append(wire, f)
      BY <2>3, WireStep DEF ChainInv, NodeInv
    <3>6. QED
      BY <3>2, <3>3, <3>4, <3>5
  <2>4. QED
    BY <2>2, <2>3
<1>3. QED
  BY <1>1, <1>2, ChainIsKept, PTL DEF Spec, Wire!Spec

-----------------------------------------------------------------------------
(* The serial line: the bytes of a frame. *)

\* The interval by its ends: its elements are too many to be written out.
LEMMA ValueIs ==
  ASSUME NEW v
  PROVE  v \in Value <=> v \in Int /\ 0 <= v /\ v <= 32767
<1> DEFINE top == 32767
<1>1. Value = 0 .. top
  BY DEF Value
<1>2. top \in Int
  OBVIOUS
<1> HIDE DEF top
<1>3. v \in 0 .. top <=> v \in Int /\ 0 <= v /\ v <= top
  BY <1>2
<1>4. v \in Value <=> v \in Int /\ 0 <= v /\ v <= top
  BY <1>1, <1>3
<1>5. QED
  BY <1>4 DEF top

\* A frame of the wire as the line carries it.
OnTheLine(f) ==
  [steering |-> f.steering, speed |-> f.speed,
   cmd |-> CASE f.cmd = "kStop" -> 0 [] f.cmd = "kAuto" -> 1 [] f.cmd = "kManual" -> 2]

\* Whatever the node writes is a frame the byte line takes, and applied there it has the
\* effect on the ESC that Wire gives it: SerialLink may have these as its Frames.
LEMMA NodeFramesFit ==
  ASSUME NEW f \in Frame
  PROVE  /\ OnTheLine(f) \in [steering : Value, speed : Value, cmd : 0 .. 2]
         /\ Applied(OnTheLine(f)).accel = AccelDuty(f.speed)
<1>1. f.steering \in kSteerPwmMin .. kSteerPwmMax /\ f.speed \in kEscPwmMin .. kEscPwmMax
  BY DEF Frame
<1>2. /\ f.steering \in Int /\ kSteerPwmMin <= f.steering /\ f.steering <= kSteerPwmMax
      /\ f.speed \in Int /\ kEscPwmMin <= f.speed /\ f.speed <= kEscPwmMax
  BY <1>1, PwmEnds
<1>3. f.steering \in Value /\ f.speed \in Value
  <2>1. 0 <= f.steering /\ f.steering <= 32767
    BY <1>2 DEF kSteerPwmMin, kSteerPwmMax
  <2>2. 0 <= f.speed /\ f.speed <= 32767
    BY <1>2 DEF kEscPwmMin, kEscPwmMax
  <2>3. QED
    BY <1>2, <2>1, <2>2, ValueIs
<1>4. f.cmd \in {"kStop", "kAuto", "kManual"}
  BY DEF Frame, DriveCommand
<1>5. OnTheLine(f).cmd \in 0 .. 2
  BY <1>4 DEF OnTheLine
<1>6. QED
  BY <1>3, <1>5 DEF OnTheLine, Applied, Pins

LEMMA ValuesAre ==
  ASSUME NEW f \in Frames
  PROVE  f.steering \in Value /\ f.speed \in Value /\ f.cmd \in Value
<1>1. f \in [steering : Value, speed : Value, cmd : 0 .. 2]
  BY SerialAssumption
<1>2. ASSUME NEW v \in 0 .. 2 PROVE v \in Value
  BY ValueIs
<1>3. QED
  BY <1>1, <1>2

LEMMA DivisionBy256 ==
  ASSUME NEW v \in Int
  PROVE  /\ v \div 256 \in Int /\ v % 256 \in Int /\ v = 256 * (v \div 256) + (v % 256)
         /\ 0 <= v % 256 /\ v % 256 <= 255
<1>1. v \div 256 \in Int /\ v % 256 \in Int
  OBVIOUS
<1>2. 0 <= v % 256 /\ v % 256 <= 255
  OBVIOUS
<1>3. v = 256 * (v \div 256) + (v % 256)
  OBVIOUS
<1>4. QED
  BY <1>1, <1>2, <1>3

LEMMA BytesAre ==
  ASSUME NEW f \in Frames
  PROVE  /\ Serialize(f) \in Seq(Byte) /\ Len(Serialize(f)) = 9
         /\ Serialize(f)[1] = 255 /\ Serialize(f)[2] = 254
<1>1. ASSUME NEW v \in Value
      PROVE  High(v) \in Byte /\ Low(v) \in Byte
  <2> DEFINE h == v \div 256
  <2>1. v \in Int
    BY ValueIs
  <2>2. h \in Int
    BY <2>1, DivisionBy256
  <2> HIDE DEF h
  <2>3. High(v) \in Byte
    BY <2>2, DivisionBy256 DEF High, Byte, h
  <2>4. Low(v) \in Byte
    BY <2>1, DivisionBy256 DEF Low, Byte
  <2>5. QED
    BY <2>3, <2>4
<1>2. ASSUME NEW b1 \in Byte, NEW b2 \in Byte, NEW b3 \in Byte,
             NEW b4 \in Byte, NEW b5 \in Byte, NEW b6 \in Byte
      PROVE  AddCheckSum(b1, b2, b3, b4, b5, b6) \in Byte
  BY DEF AddCheckSum, Byte
<1> DEFINE s1 == High(f.steering)
           s2 == Low(f.steering)
           v1 == High(f.speed)
           v2 == Low(f.speed)
           c1 == High(f.cmd)
           c2 == Low(f.cmd)
           ck == AddCheckSum(s1, s2, v1, v2, c1, c2)
<1>3. Serialize(f) = <<255, 254, s1, s2, v1, v2, c1, c2, ck>>
  BY DEF Serialize
<1>4. s1 \in Byte /\ s2 \in Byte /\ v1 \in Byte /\ v2 \in Byte /\ c1 \in Byte /\ c2 \in Byte
  <2>1. s1 \in Byte /\ s2 \in Byte
    BY <1>1, ValuesAre
  <2>2. v1 \in Byte /\ v2 \in Byte
    BY <1>1, ValuesAre
  <2>3. c1 \in Byte /\ c2 \in Byte
    BY <1>1, ValuesAre
  <2>4. QED
    BY <2>1, <2>2, <2>3
<1> HIDE DEF s1, s2, v1, v2, c1, c2
<1>5. ck \in Byte
  BY <1>2, <1>4
<1> HIDE DEF ck
<1>6. QED
  BY <1>3, <1>4, <1>5 DEF Byte

LEMMA ValueIsRestored ==
  ASSUME NEW v \in Value
  PROVE  Int16(High(v), Low(v)) = v
<1> DEFINE h == v \div 256
           l == v % 256
<1>1. v \in Int /\ v >= 0 /\ v <= 32767
  BY ValueIs
<1>2. h \in Int /\ l \in Int /\ v = 256 * h + l /\ l >= 0 /\ l <= 255
  BY <1>1, DivisionBy256
<1>3. High(v) = h % 256 /\ Low(v) = l
  BY DEF High, Low
<1> HIDE DEF h, l
<1>4. h >= 0 /\ h <= 127
  BY <1>1, <1>2
<1>5. h % 256 = h
  BY <1>2, <1>4
<1>6. Int16(h, l) = v
  BY <1>1, <1>2 DEF Int16
<1>7. QED
  BY <1>3, <1>5, <1>6

LEMMA PayloadIsApplied ==
  ASSUME NEW f \in Frames, NEW p, \A i \in 1 .. 7 : p[i] = Serialize(f)[i + 2]
  PROVE  Verified(p) /\ Drive(p) = Applied(f)
<1>1. /\ p[1] = High(f.steering) /\ p[2] = Low(f.steering)
      /\ p[3] = High(f.speed)    /\ p[4] = Low(f.speed)
      /\ p[5] = High(f.cmd)      /\ p[6] = Low(f.cmd)
      /\ p[7] = AddCheckSum(p[1], p[2], p[3], p[4], p[5], p[6])
  BY DEF Serialize
<1>2. Int16(p[1], p[2]) = f.steering /\ Int16(p[3], p[4]) = f.speed
      /\ Int16(p[5], p[6]) = f.cmd
  <2>1. Int16(p[1], p[2]) = f.steering
    BY <1>1, ValuesAre, ValueIsRestored
  <2>2. Int16(p[3], p[4]) = f.speed
    BY <1>1, ValuesAre, ValueIsRestored
  <2>3. Int16(p[5], p[6]) = f.cmd
    BY <1>1, ValuesAre, ValueIsRestored
  <2>4. QED
    BY <2>1, <2>2, <2>3
<1>3. QED
  BY <1>1, <1>2 DEF Verified, Drive, Applied

\* s is the first k bytes of b.
Begins(s, b, k) ==
  s \in Seq(Byte) /\ Len(s) = k /\ \A i \in 1 .. k : s[i] = b[i]

LEMMA NextByte ==
  ASSUME NEW b \in Seq(Byte), NEW k \in Nat, k < Len(b), NEW s, Begins(s, b, k)
  PROVE  Begins(s \o <<b[k + 1]>>, b, k + 1)
<1> DEFINE c == b[k + 1]
<1>1. c \in Byte /\ s \in Seq(Byte) /\ Len(s) = k
  BY DEF Begins
<1> HIDE DEF c
<1>2. s \o <<c>> \in Seq(Byte) /\ Len(s \o <<c>>) = k + 1
      /\ (s \o <<c>>)[k + 1] = c /\ \A i \in 1 .. k : (s \o <<c>>)[i] = s[i]
  BY <1>1
<1>3. \A i \in 1 .. k + 1 : (s \o <<c>>)[i] = b[i]
  <2>1. ASSUME NEW i \in 1 .. k + 1
        PROVE  (s \o <<c>>)[i] = b[i]
    <3>1. CASE i = k + 1
      BY <1>2, <3>1 DEF c
    <3>2. CASE i # k + 1
      BY <1>2, <3>2 DEF Begins
    <3>3. QED
      BY <3>1, <3>2
  <2>2. QED
    BY <2>1
<1>4. Begins(s \o <<c>>, b, k + 1)
  BY <1>2, <1>3 DEF Begins
<1>5. QED
  BY <1>4 DEF c

LEMMA NothingAdded ==
  ASSUME NothingInserted, NEW f \in Frames
  PROVE  Begins(BytesOf[f], Serialize(f), 9)
<1> DEFINE b == Serialize(f)
<1>1. ASSUME NEW i \in 1 .. 9
      PROVE  Transmitted(b[i]) = <<b[i]>>
  BY DEF NothingInserted, SentAsItIs, Transmitted
<1>2. b \in Seq(Byte) /\ Len(b) = 9
  BY BytesAre
<1>3. BytesOf[f] = Transmitted(b[1]) \o Transmitted(b[2]) \o Transmitted(b[3]) \o
                   Transmitted(b[4]) \o Transmitted(b[5]) \o Transmitted(b[6]) \o
                   Transmitted(b[7]) \o Transmitted(b[8]) \o Transmitted(b[9])
  BY DEF BytesOf
<1> HIDE DEF b
<1> DEFINE s1 == <<b[1]>>
           s2 == s1 \o <<b[2]>>
           s3 == s2 \o <<b[3]>>
           s4 == s3 \o <<b[4]>>
           s5 == s4 \o <<b[5]>>
           s6 == s5 \o <<b[6]>>
           s7 == s6 \o <<b[7]>>
           s8 == s7 \o <<b[8]>>
           s9 == s8 \o <<b[9]>>
<1>4. BytesOf[f] = s9
  <2>1. /\ Transmitted(b[1]) = <<b[1]>> /\ Transmitted(b[2]) = <<b[2]>>
        /\ Transmitted(b[3]) = <<b[3]>> /\ Transmitted(b[4]) = <<b[4]>>
        /\ Transmitted(b[5]) = <<b[5]>> /\ Transmitted(b[6]) = <<b[6]>>
        /\ Transmitted(b[7]) = <<b[7]>> /\ Transmitted(b[8]) = <<b[8]>>
        /\ Transmitted(b[9]) = <<b[9]>>
    BY <1>1
  <2>2. QED
    BY <1>3, <2>1, Zenon
<1>5. Begins(s1, b, 1)
  BY <1>2 DEF Begins
<1> HIDE DEF s1, s2, s3, s4, s5, s6, s7, s8, s9
<1>6. Begins(s2, b, 2)
  BY <1>2, <1>5, NextByte DEF s2
<1>7. Begins(s3, b, 3)
  BY <1>2, <1>6, NextByte DEF s3
<1>8. Begins(s4, b, 4)
  BY <1>2, <1>7, NextByte DEF s4
<1>9. Begins(s5, b, 5)
  BY <1>2, <1>8, NextByte DEF s5
<1>10. Begins(s6, b, 6)
  BY <1>2, <1>9, NextByte DEF s6
<1>11. Begins(s7, b, 7)
  BY <1>2, <1>10, NextByte DEF s7
<1>12. Begins(s8, b, 8)
  BY <1>2, <1>11, NextByte DEF s8
<1>13. Begins(s9, b, 9)
  BY <1>2, <1>12, NextByte DEF s9
<1>14. QED
  BY <1>4, <1>13 DEF b

-----------------------------------------------------------------------------
(* The type of the line: Read takes any byte in any state. *)

LEMMA ElementIs ==
  ASSUME NEW S, NEW s \in Seq(S), NEW n \in Nat, Len(s) = n
  PROVE  \A i \in 1 .. n : s[i] \in S
<1>1. \A i \in 1 .. Len(s) : s[i] \in S
  OBVIOUS
<1>2. QED
  BY <1>1

LEMMA EveryByteIsByte ==
  ASSUME NEW f \in Frames
  PROVE  BytesOf[f] \in Seq(Byte)
<1> DEFINE b == Serialize(f)
<1>1. ASSUME NEW byte \in Byte
      PROVE  Transmitted(byte) \in Seq(Byte)
  <2>1. 13 \in Byte /\ 10 \in Byte
    BY DEF Byte
  <2>2. <<13, 10>> \in Seq(Byte)
    BY <2>1
  <2>3. <<byte>> \in Seq(Byte)
    OBVIOUS
  <2>4. QED
    BY <2>2, <2>3 DEF Transmitted
<1>2. b \in Seq(Byte) /\ Len(b) = 9
  BY BytesAre
<1>3. BytesOf[f] = Transmitted(b[1]) \o Transmitted(b[2]) \o Transmitted(b[3]) \o
                   Transmitted(b[4]) \o Transmitted(b[5]) \o Transmitted(b[6]) \o
                   Transmitted(b[7]) \o Transmitted(b[8]) \o Transmitted(b[9])
  BY DEF BytesOf
<1> HIDE DEF b
<1>4. \A i \in 1 .. 9 : Transmitted(b[i]) \in Seq(Byte)
  <2>1. \A i \in 1 .. 9 : b[i] \in Byte
    BY <1>2, ElementIs
  <2>2. QED
    BY <1>1, <2>1
<1>5. QED
  BY <1>3, <1>4

LEMMA PinsAreInRange ==
  ASSUME NEW steering \in Int, NEW speed \in Int, NEW mode \in Int
  PROVE  Pins(steering, speed, mode)
           \in [steer : Duty, accel : Duty, yellow : BOOLEAN, green : BOOLEAN]
<1>1. SteerDuty(steering) \in Duty
  <2> DEFINE deg == Constrain(steering, 0, 180)
  <2>1. deg \in 0 .. 180
    BY DEF Constrain
  <2> HIDE DEF deg
  <2> DEFINE step == (deg * 182) \div 10
  <2>2. step \in Int /\ 0 <= step /\ step <= 3276
    BY <2>1
  <2>3. ServoDuty(deg) = step + 3277
    BY DEF ServoDuty
  <2> HIDE DEF step
  <2>4. step + 3277 \in Duty
    BY <2>2 DEF Duty
  <2>5. ServoDuty(deg) \in Duty
    BY <2>3, <2>4
  <2>6. QED
    BY <2>5 DEF SteerDuty, deg
<1>2. AccelDuty(speed) \in Duty
  BY DEF AccelDuty, Constrain, Duty
<1>3. (mode = 2) \in BOOLEAN /\ (mode > 0) \in BOOLEAN
  OBVIOUS
<1>4. QED
  BY <1>1, <1>2, <1>3 DEF Pins

LEMMA DriveIsInRange ==
  ASSUME NEW p \in Seq(Byte), Len(p) = 7
  PROVE  Drive(p) \in [steer : Duty, accel : Duty, yellow : BOOLEAN, green : BOOLEAN]
<1>1. ASSUME NEW hi \in Byte, NEW lo \in Byte
      PROVE  Int16(hi, lo) \in Int
  BY DEF Int16, Byte
<1>2. Int16(p[1], p[2]) \in Int /\ Int16(p[3], p[4]) \in Int /\ Int16(p[5], p[6]) \in Int
  <2>1. \A i \in 1 .. 7 : p[i] \in Byte
    BY ElementIs
  <2>2. QED
    BY <1>1, <2>1
<1>3. QED
  BY <1>2, PinsAreInRange DEF Drive

LEMMA StartIsInRange ==
  AtStart \in [steer : Duty, accel : Duty, yellow : BOOLEAN, green : BOOLEAN]
<1>1. ServoDuty(90) \in Duty /\ kFirmwareNeutral \in Duty
  BY DEF ServoDuty, kFirmwareNeutral, Duty
<1>2. QED
  BY <1>1 DEF AtStart

\* Whatever is written, lost or misread, servo and ESC stay within their range and the
\* parser within its buffer.
THEOREM LinkType == LinkSpec => []LinkTypeOK
<1>1. LinkInit => LinkTypeOK
  BY SerialAssumption, StartIsInRange DEF LinkInit, LinkTypeOK
<1>2. LinkTypeOK /\ [LinkNext]_linkVars => LinkTypeOK'
  <2> SUFFICES ASSUME LinkTypeOK, [LinkNext]_linkVars PROVE LinkTypeOK'
    OBVIOUS
  <2>1. ASSUME NEW f \in Frames, Write(f) PROVE LinkTypeOK'
    BY <2>1, EveryByteIsByte DEF Write, LinkTypeOK
  <2>2. CASE LoseByte
    BY <2>2, SerialAssumption DEF LoseByte, LinkTypeOK
  <2>3. CASE Read
    <3> DEFINE c    == Head(line)
               full == Append(payload, c)
    <3>1. /\ line' \in Seq(Byte) /\ Len(line') <= LineCap /\ c \in Byte
          /\ latest' \in Frames \cup {NoneSent} /\ losses' \in 0 .. MaxLosses
      BY <2>3, SerialAssumption DEF Read, LinkTypeOK
    <3>2. full \in Seq(Byte) /\ Len(full) = Len(payload) + 1
      BY <3>1 DEF LinkTypeOK
    <3>3. \/ /\ state' \in {0, 1} /\ payload' = payload /\ pins' = pins
          \/ /\ state' = 0 /\ payload' = payload /\ pins' = pins
          \/ /\ state' = 2 /\ payload' = <<>> /\ pins' = pins
          \/ /\ state = 2 /\ payload' = full
             /\ state' = IF Len(full) < 7 THEN 2 ELSE 0
             /\ pins' = IF Len(full) = 7 /\ Verified(full) THEN Drive(full) ELSE pins
      BY <2>3 DEF Read
    <3> HIDE DEF full, c
    <3>4. state' \in 0 .. 2 /\ payload' \in Seq(Byte) /\ (state' = 2 => Len(payload') < 7)
      <4>1. <<>> \in Seq(Byte) /\ Len(<<>>) = 0
        OBVIOUS
      <4>2. CASE payload' = payload /\ state' \in {0, 1}
        BY <4>2 DEF LinkTypeOK
      <4>3. CASE state' = 2 /\ payload' = <<>>
        BY <4>1, <4>3
      <4>4. CASE state = 2 /\ payload' = full /\ state' = IF Len(full) < 7 THEN 2 ELSE 0
        BY <3>2, <4>4
      <4>5. QED
        BY <3>3, <4>2, <4>3, <4>4
    <3>5. pins' = pins \/ (Len(full) = 7 /\ pins' = Drive(full))
      BY <3>3
    <3>6. pins' \in [steer : Duty, accel : Duty, yellow : BOOLEAN, green : BOOLEAN]
      BY <3>2, <3>5, DriveIsInRange DEF LinkTypeOK
    <3>7. QED
      BY <3>1, <3>4, <3>6 DEF LinkTypeOK
  <2>4. CASE UNCHANGED linkVars
    BY <2>4 DEF linkVars, LinkTypeOK
  <2>5. QED
    BY <2>1, <2>2, <2>3, <2>4 DEF LinkNext
<1>3. QED
  BY <1>1, <1>2, PTL DEF LinkSpec

-----------------------------------------------------------------------------
(* The parser in step with the frames. *)

\* q: the frames that are not wholly read.  What is on the line is what is left of
\* them, the payload is the first one's, and after the last one its pins are driven.
Coming(q) ==
  /\ q \in Seq(Frames)
  /\ Position + Len(line) = 9 * Len(q)
  /\ \A j \in 1 .. Len(q), i \in 1 .. 9 :
       9 * (j - 1) + i > Position => line[9 * (j - 1) + i - Position] = Serialize(q[j])[i]
  /\ state = 2 => \A i \in 1 .. Len(payload) : payload[i] = Serialize(q[1])[i + 2]
  /\ q # <<>> => latest = q[Len(q)]
  /\ q = <<>> /\ latest # NoneSent => pins = Applied(latest)

PinsAreAFrames == pins \in {Applied(f) : f \in Frames} \cup {AtStart}

InStep == losses = 0 /\ NothingInserted => PinsAreAFrames /\ \E q : Coming(q)

LEMMA PositionIs ==
  ASSUME LinkTypeOK
  PROVE  Position \in 0 .. 8 /\ (Position = 0 => state = 0)
  BY DEF LinkTypeOK, Position

LEMMA Longer ==
  ASSUME NEW S, NEW s \in Seq(S), NEW e \in S
  PROVE  /\ Len(Append(s, e)) = Len(s) + 1
         /\ Append(s, e)[Len(s) + 1] = e
         /\ \A i \in 1 .. Len(s) : Append(s, e)[i] = s[i]
  OBVIOUS

LEMMA Joined ==
  ASSUME NEW S, NEW s \in Seq(S), NEW t \in Seq(S)
  PROVE  /\ Len(s \o t) = Len(s) + Len(t)
         /\ \A k \in 1 .. Len(s) : (s \o t)[k] = s[k]
         /\ \A i \in 1 .. Len(t) : (s \o t)[Len(s) + i] = t[i]
  OBVIOUS

LEMMA WriteKeepsStep ==
  ASSUME LinkTypeOK, NothingInserted, NEW f \in Frames, Write(f), NEW q, Coming(q)
  PROVE  Coming(Append(q, f))'
<1> DEFINE r == Append(q, f)
           n == Len(q)
           s == BytesOf[f]
<1>1. /\ s \in Seq(Byte) /\ Len(s) = 9
      /\ \A i \in 1 .. 9 : s[i] = Serialize(f)[i]
  BY NothingAdded DEF Begins
<1>2. line' = line \o s /\ latest' = f /\ state' = state /\ payload' = payload
  BY DEF Write
<1>3. Position' = Position /\ Position \in 0 .. 8
  BY <1>2, PositionIs DEF Position
<1>4. /\ q \in Seq(Frames) /\ n \in Nat /\ Position + Len(line) = 9 * n
      /\ line \in Seq(Byte) /\ Len(line) \in Nat
  BY DEF Coming, LinkTypeOK
<1>5. /\ r \in Seq(Frames) /\ Len(r) = n + 1 /\ r[n + 1] = f
      /\ \A j \in 1 .. n : r[j] = q[j]
  BY <1>4
<1>6. /\ Len(line') = Len(line) + 9
      /\ \A k \in 1 .. Len(line) : line'[k] = line[k]
      /\ \A i \in 1 .. 9 : line'[Len(line) + i] = s[i]
  <2> HIDE DEF s
  <2>1. /\ Len(line \o s) = Len(line) + 9
        /\ \A k \in 1 .. Len(line) : (line \o s)[k] = line[k]
        /\ \A i \in 1 .. 9 : (line \o s)[Len(line) + i] = s[i]
    <3>1. s \in Seq(Byte) /\ line \in Seq(Byte)
      BY <1>1, <1>4
    <3>2. /\ Len(line \o s) = Len(line) + Len(s)
          /\ \A k \in 1 .. Len(line) : (line \o s)[k] = line[k]
          /\ \A i \in 1 .. Len(s) : (line \o s)[Len(line) + i] = s[i]
      BY <3>1, Joined
    <3>3. Len(s) = 9
      BY <1>1
    <3> QED
      BY <3>2, <3>3, Zenon
  <2>2. QED
    BY <1>2, <2>1, Zenon
<1> HIDE DEF r, n, s
<1>7. ASSUME NEW j \in 1 .. n + 1, NEW i \in 1 .. 9, 9 * (j - 1) + i > Position
      PROVE  line'[9 * (j - 1) + i - Position] = Serialize(r[j])[i]
  <2>1. CASE j = n + 1
    <3>1. 9 * (j - 1) + i - Position = Len(line) + i
      BY <1>3, <1>4, <2>1
    <3>2. QED
      BY <1>1, <1>5, <1>6, <2>1, <3>1
  <2>2. CASE j # n + 1
    <3>1. j \in 1 .. n
      BY <1>4, <2>2
    <3>2. 9 * (j - 1) + i - Position \in 1 .. Len(line)
      BY <1>3, <1>4, <1>7, <3>1
    <3>3. line[9 * (j - 1) + i - Position] = Serialize(q[j])[i]
      BY <1>7, <3>1 DEF Coming, n
    <3>4. QED
      BY <1>5, <1>6, <3>1, <3>2, <3>3
  <2>3. QED
    BY <2>1, <2>2
<1>8. ASSUME state = 2, NEW i \in 1 .. Len(payload)
      PROVE  payload[i] = Serialize(r[1])[i + 2]
  <2>1. 1 \in 1 .. n
    BY <1>4, <1>8 DEF Position, LinkTypeOK
  <2>2. QED
    BY <1>5, <1>8, <2>1 DEF Coming
<1>9. Position' + Len(line') = 9 * (n + 1)
  <2>1. Position + Len(line) + 9 = 9 * (n + 1)
    BY <1>3, <1>4
  <2>2. QED
    BY <1>3, <1>4, <1>6, <2>1
<1>10. r # <<>>
  BY <1>4, <1>5
<1>11. Coming(r)'
  BY <1>2, <1>3, <1>5, <1>7, <1>8, <1>9, <1>10 DEF Coming
<1>12. QED
  BY <1>11 DEF r

\* The byte that is read is the next one of the first frame.
LEMMA NextIs ==
  ASSUME LinkTypeOK, NEW q, Coming(q), line # <<>>
  PROVE  /\ Len(q) \in Nat \ {0} /\ q[1] \in Frames
         /\ Head(line) = Serialize(q[1])[Position + 1]
<1> DEFINE n == Len(q)
<1>1. /\ q \in Seq(Frames) /\ n \in Nat /\ Position + Len(line) = 9 * n
      /\ line \in Seq(Byte) /\ Len(line) \in Nat \ {0} /\ Head(line) = line[1]
  BY DEF Coming, LinkTypeOK
<1>2. Position \in 0 .. 8
  BY PositionIs
<1>3. n > 0
  BY <1>1, <1>2
<1>4. 1 \in 1 .. n /\ Position + 1 \in 1 .. 9 /\ 9 * (1 - 1) + (Position + 1) > Position
      /\ 9 * (1 - 1) + (Position + 1) - Position = 1
  BY <1>1, <1>2, <1>3
<1>5. line[1] = Serialize(q[1])[Position + 1]
  BY <1>4 DEF Coming
<1>6. q[1] \in Frames
  BY <1>1, <1>4
<1>7. QED
  BY <1>1, <1>3, <1>5, <1>6

\* What is left of the frames when a byte is read.
LEMMA LineMovesOn ==
  ASSUME LinkTypeOK, NEW q, Coming(q), line # <<>>, line' = Tail(line)
  PROVE  /\ Len(line') = Len(line) - 1
         /\ \A j \in 1 .. Len(q), i \in 1 .. 9 :
              9 * (j - 1) + i > Position + 1
                => line'[9 * (j - 1) + i - (Position + 1)] = Serialize(q[j])[i]
<1> DEFINE n == Len(q)
<1>1. /\ q \in Seq(Frames) /\ n \in Nat /\ Position + Len(line) = 9 * n
      /\ line \in Seq(Byte) /\ Len(line) \in Nat \ {0}
  BY DEF Coming, LinkTypeOK
<1>2. Position \in Nat
  BY PositionIs
<1>3. Len(line') = Len(line) - 1 /\ \A k \in 1 .. Len(line) - 1 : line'[k] = line[k + 1]
  BY <1>1
<1>4. ASSUME NEW j \in 1 .. n, NEW i \in 1 .. 9, 9 * (j - 1) + i > Position + 1
      PROVE  line'[9 * (j - 1) + i - (Position + 1)] = Serialize(q[j])[i]
  <2> DEFINE k == 9 * (j - 1) + i - (Position + 1)
  <2>1. line[9 * (j - 1) + i - Position] = Serialize(q[j])[i]
    <3>1. 9 * (j - 1) + i > Position
      BY <1>2, <1>4
    <3>2. QED
      BY <3>1 DEF Coming
  <2>2. k \in 1 .. Len(line) - 1 /\ k + 1 = 9 * (j - 1) + i - Position
    BY <1>1, <1>2, <1>4
  <2> HIDE DEF k
  <2>3. line'[k] = line[k + 1]
    BY <1>3, <2>2
  <2>4. QED
    BY <2>1, <2>2, <2>3 DEF k
<1>5. QED
  BY <1>3, <1>4

\* Within a frame the parser takes the byte it waits for.
LEMMA ReadWithin ==
  ASSUME LinkTypeOK, Read, NEW q, Coming(q), Position # 8
  PROVE  Coming(q)' /\ pins' = pins
<1> DEFINE n    == Len(q)
           c    == Head(line)
           full == Append(payload, c)
<1>1. line # <<>> /\ line' = Tail(line) /\ latest' = latest
  BY DEF Read
<1>2. /\ n \in Nat \ {0} /\ q[1] \in Frames /\ Position \in 0 .. 7
      /\ c = Serialize(q[1])[Position + 1]
  BY <1>1, NextIs, PositionIs
<1>3. /\ Len(line') = Len(line) - 1
      /\ \A j \in 1 .. n, i \in 1 .. 9 :
           9 * (j - 1) + i > Position + 1
             => line'[9 * (j - 1) + i - (Position + 1)] = Serialize(q[j])[i]
  BY <1>1, LineMovesOn
<1>4. /\ pins' = pins /\ Position' = Position + 1
      /\ state' = 2 => \A i \in 1 .. Len(payload') : payload'[i] = Serialize(q[1])[i + 2]
  <2>1. CASE state = 0
    <3>1. c = 255
      BY <1>2, <2>1, BytesAre DEF Position
    <3>2. state' = 1 /\ pins' = pins
      BY <2>1, <3>1 DEF Read
    <3>3. QED
      BY <2>1, <3>2 DEF Position
  <2>2. CASE state = 1
    <3>1. c = 254
      BY <1>2, <2>2, BytesAre DEF Position
    <3>2. state' = 2 /\ pins' = pins /\ payload' = <<>>
      BY <2>2, <3>1 DEF Read
    <3>3. Len(payload') = 0
      BY <3>2
    <3>4. QED
      BY <2>2, <3>2, <3>3 DEF Position
  <2>3. CASE state = 2
    <3>1. payload \in Seq(Byte) /\ Len(payload) \in Nat /\ Len(payload) <= 5 /\ line \in Seq(Byte)
      <4>1. payload \in Seq(Byte) /\ line \in Seq(Byte)
        BY DEF LinkTypeOK
      <4>2. Len(payload) \in Nat /\ Position = 2 + Len(payload)
        BY <2>3, <4>1 DEF Position
      <4>3. Position \in 0 .. 7
        BY <1>2
      <4>4. Len(payload) <= 5
        BY <4>1, <4>2, <4>3
      <4>5. QED
        BY <4>1, <4>2, <4>4
    <3>2. c \in Byte
      BY <1>1, <3>1
    <3> HIDE DEF c
    <3>3. /\ Len(full) = Len(payload) + 1 /\ full[Len(payload) + 1] = c
          /\ \A i \in 1 .. Len(payload) : full[i] = payload[i]
      BY <3>1, <3>2
    <3>4. /\ payload' = full /\ state' = IF Len(full) < 7 THEN 2 ELSE 0
          /\ pins' = IF Len(full) = 7 /\ Verified(full) THEN Drive(full) ELSE pins
      BY <2>3 DEF Read, c
    <3> HIDE DEF full
    <3>5. state' = 2 /\ pins' = pins
      BY <3>1, <3>3, <3>4
    <3>6. Position = 2 + Len(payload) /\ Position' = Position + 1
      BY <2>3, <3>1, <3>3, <3>4, <3>5 DEF Position
    <3>7. ASSUME NEW i \in 1 .. Len(full)
          PROVE  full[i] = Serialize(q[1])[i + 2]
      <4>1. CASE i = Len(payload) + 1
        <5>1. i + 2 = Position + 1
          BY <3>1, <3>6, <4>1
        <5>2. QED
          BY <1>2, <3>3, <4>1, <5>1 DEF c
      <4>2. CASE i # Len(payload) + 1
        <5>1. i \in 1 .. Len(payload)
          BY <3>1, <3>3, <4>2
        <5>2. QED
          BY <2>3, <3>3, <5>1 DEF Coming
      <4>3. QED
        BY <4>1, <4>2
    <3>8. QED
      BY <3>4, <3>5, <3>6, <3>7
  <2>4. QED
    BY <2>1, <2>2, <2>3 DEF LinkTypeOK
<1>5. Position' + Len(line') = 9 * n
  <2>1. Position + Len(line) = 9 * n /\ Len(line) \in Nat
    BY DEF Coming, LinkTypeOK
  <2>2. Position \in Nat /\ Position' = Position + 1 /\ Len(line') = Len(line) - 1
    BY <1>2, <1>3, <1>4
  <2>3. QED
    BY <2>1, <2>2
<1>6. q # <<>>
  BY <1>2
<1>7. QED
  BY <1>1, <1>3, <1>4, <1>5, <1>6 DEF Coming

\* With the last byte the frame is verified and applied, and the next one comes.
LEMMA ReadLast ==
  ASSUME LinkTypeOK, Read, NEW q, Coming(q), Position = 8
  PROVE  /\ Coming(Tail(q))'
         /\ q # <<>> /\ q[1] \in Frames /\ pins' = Applied(q[1])
<1> DEFINE n    == Len(q)
           r    == Tail(q)
           c    == Head(line)
           full == Append(payload, c)
<1>1. line # <<>> /\ line' = Tail(line) /\ latest' = latest
  BY DEF Read
<1>2. /\ n \in Nat \ {0} /\ q[1] \in Frames /\ q \in Seq(Frames)
      /\ c = Serialize(q[1])[9]
  BY <1>1, NextIs DEF Coming
<1>3. state = 2 /\ payload \in Seq(Byte) /\ Len(payload) = 6 /\ c \in Byte
  <2>1. payload \in Seq(Byte) /\ line \in Seq(Byte) /\ state \in 0 .. 2
    BY DEF LinkTypeOK
  <2>2. state = 2
    BY <2>1 DEF Position
  <2>3. Len(payload) \in Nat /\ Position = 2 + Len(payload)
    BY <2>1, <2>2 DEF Position
  <2>4. c \in Byte
    BY <1>1, <2>1
  <2>5. Len(payload) = 6
    <3>1. Len(payload) <= 6 /\ Len(payload) >= 6
      BY <2>1, <2>3
    <3>2. \A k \in Nat : k <= 6 /\ k >= 6 => k = 6
      OBVIOUS
    <3>3. QED
      BY <2>3, <3>1, <3>2, Zenon
  <2>6. QED
    BY <2>1, <2>2, <2>4, <2>5
<1>4. /\ Len(line') = Len(line) - 1
      /\ \A j \in 1 .. n, i \in 1 .. 9 :
           9 * (j - 1) + i > 9 => line'[9 * (j - 1) + i - 9] = Serialize(q[j])[i]
  <2>1. Position + 1 = 9
    OBVIOUS
  <2>2. /\ Len(line') = Len(line) - 1
        /\ \A j \in 1 .. n, i \in 1 .. 9 :
             9 * (j - 1) + i > Position + 1
               => line'[9 * (j - 1) + i - (Position + 1)] = Serialize(q[j])[i]
    BY <1>1, LineMovesOn
  <2>3. QED
    BY <2>1, <2>2
<1>5. /\ r \in Seq(Frames) /\ Len(r) = n - 1 /\ \A j \in 1 .. n - 1 : r[j] = q[j + 1]
  BY <1>2
<1>6. payload' = full /\ state' = 0 /\ pins' = Applied(q[1])
  <2> HIDE DEF c
  <2>1. Len(full) = 7 /\ full[7] = c /\ \A i \in 1 .. 6 : full[i] = payload[i]
    <3>1. /\ Len(full) = Len(payload) + 1 /\ full[Len(payload) + 1] = c
          /\ \A i \in 1 .. Len(payload) : full[i] = payload[i]
      <4>1. payload \in Seq(Byte) /\ c \in Byte
        BY <1>3
      <4>2. QED
        BY <4>1, Longer
    <3>2. Len(payload) = 6 /\ Len(payload) + 1 = 7
      BY <1>3
    <3> HIDE DEF full
    <3>3. QED
      BY <3>1, <3>2, Zenon
  <2>2. /\ payload' = full /\ state' = IF Len(full) < 7 THEN 2 ELSE 0
        /\ pins' = IF Len(full) = 7 /\ Verified(full) THEN Drive(full) ELSE pins
    BY <1>3 DEF Read, c
  <2> HIDE DEF full
  <2>3. \A i \in 1 .. 6 : payload[i] = Serialize(q[1])[i + 2]
    BY <1>3 DEF Coming
  <2>4. \A i \in 1 .. 7 : full[i] = Serialize(q[1])[i + 2]
    <3>1. ASSUME NEW i \in 1 .. 7
          PROVE  full[i] = Serialize(q[1])[i + 2]
      <4>1. CASE i = 7
        BY <1>2, <2>1, <4>1
      <4>2. CASE i # 7
        BY <2>1, <2>3, <4>2
      <4>3. QED
        BY <4>1, <4>2
    <3>2. QED
      BY <3>1
  <2>5. Verified(full) /\ Drive(full) = Applied(q[1])
    BY <1>2, <2>4, PayloadIsApplied
  <2>6. QED
    BY <2>1, <2>2, <2>5
<1>7. Position' = 0
  BY <1>6 DEF Position
<1> HIDE DEF n, r, c, full
<1>8. ASSUME NEW j \in 1 .. n - 1, NEW i \in 1 .. 9
      PROVE  line'[9 * (j - 1) + i - 0] = Serialize(r[j])[i]
  <2>1. j + 1 \in 1 .. n /\ 9 * ((j + 1) - 1) + i > 9
        /\ 9 * ((j + 1) - 1) + i - 9 = 9 * (j - 1) + i - 0
    BY <1>2
  <2>2. QED
    BY <1>4, <1>5, <2>1
<1>9. 0 + Len(line') = 9 * (n - 1)
  BY <1>2, <1>4 DEF Coming, LinkTypeOK, n
<1>10. r # <<>> => latest' = r[n - 1]
  <2>1. CASE n = 1
    BY <1>5, <2>1
  <2>2. CASE n # 1
    <3>1. n \in Nat \ {0}
      BY <1>2
    <3>2. n - 1 \in 1 .. n - 1 /\ (n - 1) + 1 = n
      BY <2>2, <3>1
    <3>3. q # <<>>
      BY <3>1 DEF n
    <3>4. latest = q[n]
      BY <3>3 DEF Coming, n
    <3>5. r[n - 1] = q[(n - 1) + 1]
      BY <1>5, <3>2
    <3>6. QED
      BY <1>1, <3>2, <3>4, <3>5
  <2>3. QED
    BY <2>1, <2>2
<1>11. r = <<>> => pins' = Applied(latest')
  <2>1. ASSUME r = <<>> PROVE n = 1
    BY <1>2, <1>5, <2>1
  <2>2. q # <<>>
    BY <1>2 DEF n
  <2>3. latest = q[n]
    BY <2>2 DEF Coming, n
  <2>4. QED
    BY <1>1, <1>6, <2>1, <2>3
<1>12. Coming(r)'
  BY <1>5, <1>6, <1>7, <1>8, <1>9, <1>10, <1>11 DEF Coming
<1>13. q # <<>>
  BY <1>2 DEF n
<1>14. QED
  BY <1>2, <1>6, <1>12, <1>13 DEF r

LEMMA InStepIsKept ==
  ASSUME LinkTypeOK, InStep, [LinkNext]_linkVars
  PROVE  InStep'
<1> SUFFICES ASSUME losses' = 0, NothingInserted
             PROVE  PinsAreAFrames' /\ \E r : Coming(r)'
  BY DEF InStep
<1>1. ~LoseByte
  BY DEF LoseByte, LinkTypeOK
<1>2. losses = 0
  BY <1>1 DEF LinkNext, Write, Read, linkVars
<1>3. PICK q : Coming(q)
  BY <1>2 DEF InStep
<1>4. PinsAreAFrames
  BY <1>2 DEF InStep
<1>5. ASSUME NEW f \in Frames, Write(f)
      PROVE  PinsAreAFrames' /\ \E r : Coming(r)'
  <2>1. pins' = pins
    BY <1>5 DEF Write
  <2>2. QED
    BY <1>3, <1>4, <1>5, <2>1, WriteKeepsStep DEF PinsAreAFrames
<1>6. CASE Read
  <2>1. CASE Position # 8
    BY <1>3, <1>4, <1>6, <2>1, ReadWithin DEF PinsAreAFrames
  <2>2. CASE Position = 8
    BY <1>3, <1>6, <2>2, ReadLast DEF PinsAreAFrames
  <2>3. QED
    BY <2>1, <2>2
<1>7. CASE UNCHANGED linkVars
  BY <1>3, <1>4, <1>7 DEF linkVars, PinsAreAFrames, Coming, Position
<1>8. QED
  BY <1>1, <1>5, <1>6, <1>7 DEF LinkNext

THEOREM LinkStaysInStep == LinkSpec => []InStep
<1>1. LinkInit => InStep
  <2> SUFFICES ASSUME LinkInit PROVE PinsAreAFrames /\ \E q : Coming(q)
    BY DEF InStep
  <2>1. PinsAreAFrames
    BY DEF LinkInit, PinsAreAFrames
  <2>2. Coming(<<>>)
    BY DEF LinkInit, Coming, Position
  <2>3. QED
    BY <2>1, <2>2
<1>2. LinkTypeOK /\ InStep /\ [LinkNext]_linkVars => InStep'
  BY InStepIsKept
<1>3. QED
  BY <1>1, <1>2, LinkType, PTL DEF LinkSpec

\* For any frames and any length of the line: as long as nothing is lost and nothing
\* inserted, the parser is in step, and once the line is empty the pins are those of the
\* last frame written.
THEOREM LinkInStep == LinkSpec => []IntactLineIsInStep
<1>1. LinkTypeOK /\ InStep => IntactLineIsInStep
  <2> SUFFICES ASSUME LinkTypeOK, InStep, losses = 0, NothingInserted
               PROVE  /\ PinsAreAFrames
                      /\ line = <<>> /\ latest # NoneSent => pins = Applied(latest) /\ state = 0
    BY DEF IntactLineIsInStep, PinsAreAFrames
  <2>1. PICK q : Coming(q)
    BY DEF InStep
  <2>2. ASSUME line = <<>>
        PROVE  q = <<>> /\ state = 0
    <3>1. q \in Seq(Frames) /\ Len(q) \in Nat /\ Position + 0 = 9 * Len(q)
      BY <2>1, <2>2 DEF Coming
    <3>2. Position \in Nat /\ Position <= 8
      BY PositionIs
    <3>3. Len(q) = 0 /\ Position = 0
      BY <3>1, <3>2
    <3>4. QED
      BY <3>1, <3>3, PositionIs
  <2>3. QED
    BY <2>1, <2>2 DEF Coming, InStep
<1>2. QED
  BY <1>1, LinkStaysInStep, LinkType, PTL

-----------------------------------------------------------------------------
(* The line implements its promise. *)

\* The nine bytes of a frame tell it from every other frame.
LEMMA FrameIsItsBytes ==
  ASSUME NEW f \in Frames, NEW g \in Frames, \A i \in 1 .. 9 : Serialize(f)[i] = Serialize(g)[i]
  PROVE  f = g
<1>1. /\ f.steering \in Value /\ f.speed \in Value /\ f.cmd \in Value
      /\ g.steering \in Value /\ g.speed \in Value /\ g.cmd \in Value
  BY ValuesAre
<1>2. ASSUME NEW h \in Frames
      PROVE  /\ Serialize(h)[3] = High(h.steering) /\ Serialize(h)[4] = Low(h.steering)
             /\ Serialize(h)[5] = High(h.speed)    /\ Serialize(h)[6] = Low(h.speed)
             /\ Serialize(h)[7] = High(h.cmd)      /\ Serialize(h)[8] = Low(h.cmd)
  BY DEF Serialize
<1>3. /\ High(f.steering) = High(g.steering) /\ Low(f.steering) = Low(g.steering)
      /\ High(f.speed) = High(g.speed) /\ Low(f.speed) = Low(g.speed)
      /\ High(f.cmd) = High(g.cmd) /\ Low(f.cmd) = Low(g.cmd)
  BY <1>2
<1>4. f.steering = g.steering
  BY <1>1, <1>3, ValueIsRestored
<1>5. f.speed = g.speed
  BY <1>1, <1>3, ValueIsRestored
<1>6. f.cmd = g.cmd
  BY <1>1, <1>3, ValueIsRestored
<1>7. /\ f = [steering |-> f.steering, speed |-> f.speed, cmd |-> f.cmd]
      /\ g = [steering |-> g.steering, speed |-> g.speed, cmd |-> g.cmd]
  <2>1. ASSUME NEW h \in [steering : Value, speed : Value, cmd : 0 .. 2]
        PROVE  h = [steering |-> h.steering, speed |-> h.speed, cmd |-> h.cmd]
    OBVIOUS
  <2>2. QED
    BY <2>1, SerialAssumption
<1>8. QED
  BY <1>4, <1>5, <1>6, <1>7

\* Each byte under way is the one the frames to come say.
LEMMA BytesUnderWay ==
  ASSUME LinkTypeOK, NEW q, Coming(q), NEW j \in 1 .. Len(q), NEW i \in 1 .. 9
  PROVE  ByteAt(9 * (j - 1) + i) = Serialize(q[j])[i]
<1> DEFINE k == 9 * (j - 1) + i
<1>1. q \in Seq(Frames) /\ Len(q) \in Nat /\ j \in Nat /\ i \in Nat /\ Position \in 0 .. 8
  BY PositionIs DEF Coming
<1>2. q[j] \in Frames /\ k \in Nat \ {0}
  BY <1>1
<1>3. CASE k > Position
  <2>1. line[k - Position] = Serialize(q[j])[i]
    <3>1. k - Position = 9 * (j - 1) + i - Position
      BY <1>1
    <3>2. line[9 * (j - 1) + i - Position] = Serialize(q[j])[i]
      BY <1>3 DEF Coming
    <3> HIDE DEF k
    <3>3. QED
      BY <3>1, <3>2
  <2> HIDE DEF k
  <2>2. ByteAt(k) = line[k - Position]
    BY <1>3 DEF ByteAt
  <2>3. ByteAt(k) = Serialize(q[j])[i]
    BY <2>1, <2>2
  <2>4. QED
    BY <2>3 DEF k
<1>4. CASE ~(k > Position)
  <2>1. j = 1 /\ k = i /\ i <= Position
    BY <1>1, <1>4
  <2>2. CASE i > 2
    <3>1. state = 2 /\ Position = 2 + Len(payload) /\ payload \in Seq(Byte)
      BY <2>1, <2>2 DEF Position, LinkTypeOK
    <3>2. i - 2 \in 1 .. Len(payload) /\ (i - 2) + 2 = i
      BY <1>1, <2>1, <2>2, <3>1
    <3>3. payload[i - 2] = Serialize(q[1])[i]
      BY <3>1, <3>2 DEF Coming
    <3>4. ByteAt(i) = payload[i - 2]
      BY <1>1, <2>1, <2>2 DEF ByteAt
    <3>5. QED
      BY <2>1, <3>3, <3>4
  <2>3. CASE ~(i > 2)
    <3>1. i = 1 \/ i = 2
      BY <2>3
    <3>2. ByteAt(i) = <<255, 254>>[i]
      BY <1>1, <2>1, <3>1 DEF ByteAt
    <3>3. Serialize(q[1])[1] = 255 /\ Serialize(q[1])[2] = 254
      BY <1>2, <2>1, BytesAre
    <3>4. QED
      BY <2>1, <3>1, <3>2, <3>3
  <2>4. QED
    BY <2>2, <2>3
<1>5. QED
  BY <1>3, <1>4

\* So what is read back from the bytes is what is to come.
LEMMA PendingIsComing == \A q : LinkTypeOK /\ Coming(q) => Pending = q
<1> SUFFICES ASSUME LinkTypeOK, NEW q, Coming(q) PROVE Pending = q
  OBVIOUS
<1> DEFINE n == Len(q)
<1>1. q \in Seq(Frames) /\ n \in Nat /\ Position + Len(line) = 9 * n
  BY DEF Coming
<1>2. (Position + Len(line)) \div 9 = n
  BY <1>1
<1>3. ASSUME NEW j \in 1 .. n
      PROVE  Pending[j] = q[j]
  <2>1. q[j] \in Frames
    BY <1>1
  <2>0. \A i \in 1 .. 9 : ByteAt(9 * (j - 1) + i) = Serialize(q[j])[i]
    <3>1. ASSUME NEW i \in 1 .. 9 PROVE ByteAt(9 * (j - 1) + i) = Serialize(q[j])[i]
      BY BytesUnderWay
    <3>2. QED
      BY <3>1
  <2>2. q[j] \in ReadAs(j)
    BY <2>0, <2>1 DEF ReadAs
  <2>3. ASSUME NEW f \in ReadAs(j)
        PROVE  f = q[j]
    <3>1. f \in Frames /\ \A i \in 1 .. 9 : Serialize(f)[i] = ByteAt(9 * (j - 1) + i)
      BY DEF ReadAs
    <3>2. \A i \in 1 .. 9 : Serialize(f)[i] = Serialize(q[j])[i]
      BY <2>0, <3>1
    <3>3. QED
      BY <2>1, <3>1, <3>2, FrameIsItsBytes
  <2>4. Pending[j] = IF ReadAs(j) = {} THEN NoneSent ELSE CHOOSE f \in ReadAs(j) : TRUE
    BY <1>2 DEF Pending
  <2>5. QED
    BY <2>2, <2>3, <2>4
<1>4. Pending = [j \in 1 .. n |-> Pending[j]]
  BY <1>2 DEF Pending
<1>5. q = [j \in 1 .. n |-> q[j]]
  BY <1>1
<1>6. QED
  BY <1>3, <1>4, <1>5

LEMMA PendingIsComingNext == (\A q : LinkTypeOK /\ Coming(q) => Pending = q)'
  BY PendingIsComing, PTL

\* While nothing is lost and nothing added, a step adds a frame to what is to come, applies
\* the first one, or is out of sight.
LEMMA IntactStep ==
  ASSUME LinkTypeOK, LinkTypeOK', InStep, Intact, Intact', [LinkNext]_linkVars
  PROVE  \/ \E f \in Frames : Pending' = Append(Pending, f) /\ pins' = pins
         \/ /\ Pending # <<>> /\ Head(Pending) \in Frames
            /\ pins' = Applied(Head(Pending)) /\ Pending' = Tail(Pending)
         \/ Pending' = Pending /\ pins' = pins
<1>1. PICK q : Coming(q)
  BY DEF InStep, Intact
<1>2. Pending = q /\ q \in Seq(Frames)
  BY <1>1, PendingIsComing DEF Coming
<1>3. ASSUME NEW r, Coming(r)'
      PROVE  Pending' = r
  BY <1>3, PendingIsComingNext
<1>4. ASSUME NEW f \in Frames, Write(f)
      PROVE  Pending' = Append(Pending, f) /\ pins' = pins
  <2>1. Coming(Append(q, f))'
    BY <1>1, <1>4, WriteKeepsStep DEF Intact
  <2>2. QED
    BY <1>2, <1>3, <1>4, <2>1 DEF Write
<1>5. CASE Read /\ Position # 8
  <2>1. Coming(q)' /\ pins' = pins
    BY <1>1, <1>5, ReadWithin
  <2>2. QED
    BY <1>2, <1>3, <2>1
<1>6. CASE Read /\ Position = 8
  <2>1. Coming(Tail(q))' /\ q # <<>> /\ q[1] \in Frames /\ pins' = Applied(q[1])
    BY <1>1, <1>6, ReadLast
  <2>2. Head(q) = q[1]
    OBVIOUS
  <2>3. Pending' = Tail(q)
    BY <1>3, <2>1
  <2>4. QED
    BY <1>2, <2>1, <2>2, <2>3
<1>7. CASE UNCHANGED linkVars
  <2>1. Coming(q)' /\ pins' = pins
    BY <1>1, <1>7 DEF linkVars, Coming, Position
  <2>2. QED
    BY <1>2, <1>3, <2>1
<1>8. ~LoseByte
  BY DEF LoseByte, LinkTypeOK, Intact
<1>9. QED
  BY <1>4, <1>5, <1>6, <1>7, <1>8 DEF LinkNext

\* Byte by byte the line and its parser do what FrameLine does frame by frame: for any
\* frames and any backlog each frame written is applied once, whole and in order, until
\* a byte is lost, and whatever is lost the pins stay in their range.
THEOREM LinkImplementsFrameLine == LinkSpec => ImplementsFrameLine
<1>1. LinkInit => Promise!Init
  <2> SUFFICES ASSUME LinkInit PROVE Promise!Init
    OBVIOUS
  <2>1. Pending = <<>>
    <3>1. Position + Len(line) = 0
      BY DEF LinkInit, Position
    <3>2. (Position + Len(line)) \div 9 = 0
      BY <3>1
    <3>3. QED
      BY <3>2 DEF Pending
  <2>2. Intact \in BOOLEAN
    BY DEF Intact
  <2>3. QED
    BY <2>1, <2>2 DEF LinkInit, Promise!Init
<1>2. LinkTypeOK /\ LinkTypeOK' /\ InStep /\ [LinkNext]_linkVars => [Promise!Next]_Promise!vars
  <2> SUFFICES ASSUME LinkTypeOK, LinkTypeOK', InStep, [LinkNext]_linkVars
               PROVE  Promise!Next \/ UNCHANGED Promise!vars
    OBVIOUS
  <2>1. NothingInserted' = NothingInserted
    BY DEF NothingInserted, SentAsItIs
  <2>2. losses' = losses \/ (losses' = losses + 1 /\ LoseByte)
    <3>1. (\E f \in Frames : Write(f)) => losses' = losses
      BY DEF Write
    <3>2. Read => losses' = losses
      BY DEF Read
    <3>3. LoseByte => losses' = losses + 1
      BY DEF LoseByte
    <3>4. UNCHANGED linkVars => losses' = losses
      BY DEF linkVars
    <3>5. QED
      BY <3>1, <3>2, <3>3, <3>4 DEF LinkNext
  <2>3. CASE Intact /\ Intact'
    <3>1. ASSUME NEW f \in Frames, Pending' = Append(Pending, f), pins' = pins
          PROVE  Promise!Next
      <4>1. Promise!Write(f)
        BY <2>3, <3>1 DEF Promise!Write
      <4>2. QED
        BY <4>1 DEF Promise!Next
    <3>2. ASSUME Pending # <<>>, Head(Pending) \in Frames,
                 pins' = Applied(Head(Pending)), Pending' = Tail(Pending)
          PROVE  Promise!Next
      <4>1. [f \in Frames |-> Applied(f)][Head(Pending)] = Applied(Head(Pending))
        BY <3>2
      <4>2. Promise!Apply
        BY <2>3, <3>2, <4>1 DEF Promise!Apply
      <4>3. QED
        BY <4>2 DEF Promise!Next
    <3>3. ASSUME Pending' = Pending, pins' = pins
          PROVE  UNCHANGED Promise!vars
      BY <2>3, <3>3 DEF Promise!vars
    <3>4. QED
      BY <2>3, <3>1, <3>2, <3>3, IntactStep
  <2>4. CASE Intact /\ ~Intact'
    <3>1. LoseByte
      BY <2>1, <2>2, <2>4 DEF Intact
    <3>2. pins' = pins /\ Intact = TRUE /\ Intact' = FALSE
      BY <2>4, <3>1 DEF LoseByte, Intact
    <3>3. Promise!Damage
      BY <3>2 DEF Promise!Damage
    <3>4. QED
      BY <3>3 DEF Promise!Next
  <2>5. CASE ~Intact
    <3>1. ~Intact'
      BY <2>1, <2>2, <2>5 DEF Intact, LinkTypeOK
    <3>2. Intact = FALSE /\ Intact' = FALSE
      BY <2>5, <3>1 DEF Intact
    <3>3. pins' \in [steer : Duty, accel : Duty, yellow : BOOLEAN, green : BOOLEAN]
      BY DEF LinkTypeOK
    <3>4. (IF Intact THEN Pending ELSE <<>>) = <<>>
      BY <3>2
    <3>5. (IF Intact' THEN Pending' ELSE <<>>) = <<>>
      BY <3>2
    <3>6. Promise!Misapply
      BY <3>2, <3>3, <3>4, <3>5 DEF Promise!Misapply
    <3>7. QED
      BY <3>6 DEF Promise!Next
  <2>6. QED
    BY <2>3, <2>4, <2>5
<1>3. QED
  BY <1>1, <1>2, LinkStaysInStep, LinkType, PTL DEF LinkSpec, ImplementsFrameLine, Promise!Spec
=============================================================================
