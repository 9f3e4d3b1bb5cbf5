--------------------------- MODULE HardwareControl ---------------------------
(***************************************************************************)
(* The hardware_control node: the only process that writes to the motor    *)
(* controller of the car.                                                  *)
(*                                                                         *)
(* Four topics arrive, in any order, at a node spun by one thread, so each *)
(* callback is one action.  Two topics carry speeds (the planner's and the *)
(* operator's), two carry commands (the ground station's and the           *)
(* operator's), and the DDS deadline of the planner's topic calls back     *)
(* when the planner falls silent.                                          *)
(*                                                                         *)
(* Speeds and steering angles are integers in the unit of the instance;    *)
(* the two real-valued gains of ConvertCommandToPwm are tables.            *)
(***************************************************************************)
EXTENDS Integers, Sequences

CONSTANTS
  MaxSpeed,          \* rccar_config.max_speed
  MaxSteering,       \* rccar_config.max_steering_angle
  Speeds,            \* speeds the two control topics may carry
  Steerings,         \* steering angles the two control topics may carry
  EscGain,           \* speed |-> int(kEscPwmSpeedGain * speed^0.5337)
  SteerGain,         \* angle |-> int(kSteerPwmGain * RadToDeg(angle))
  UseDummyHardware,  \* hardware_control.use_dummy_hardware
  WireCap,           \* bound: frames in transit to the motor controller
  NoFrame            \* nothing was written yet

kEscPwmMin   == 3277
kEscPwmN     == 5039
kEscPwmMax   == 6553
kSteerPwmMin == 10
kSteerPwmN   == 87
kSteerPwmMax == 170

DriveCommand == {"kStop", "kAuto", "kManual"}
Command      == [speed : 0 .. MaxSpeed, steering_angle : -MaxSteering .. MaxSteering]
Pwm          == [speed : kEscPwmMin .. kEscPwmMax, steering : kSteerPwmMin .. kSteerPwmMax]
\* "src" is a history field: the callback that wrote the frame.
Source       == {"auto", "teleop", "deadline"}
Frame        == [speed : kEscPwmMin .. kEscPwmMax, steering : kSteerPwmMin .. kSteerPwmMax,
                 cmd : DriveCommand, src : Source]

ControlMsg   == [speed : Speeds, steering_angle : Steerings]
Int8Command  == 0 .. 3      \* 3 stands for every code without a case of its own

ASSUME LimitsAssumption ==
  /\ MaxSpeed \in Nat /\ MaxSteering \in Nat
  /\ Speeds \subseteq Int /\ Steerings \subseteq Int
  /\ UseDummyHardware \in BOOLEAN
  /\ WireCap \in Nat \ {0}

\* A speed that survives the clamp moves the ESC off neutral exactly when it is
\* positive, and the top speed stays inside the ESC range.
ASSUME GainAssumption ==
  /\ EscGain \in [0 .. MaxSpeed -> Nat]
  /\ SteerGain \in [-MaxSteering .. MaxSteering -> Int]
  /\ \A s \in 0 .. MaxSpeed : EscGain[s] = 0 <=> s = 0

ASSUME NoFrameAssumption == NoFrame \notin Frame

VARIABLES
  alive,            \* the process is running
  is_teleop_mode,
  drive_command,
  teleop_mode,      \* last value latched on hardware_control/teleop_mode
  published,        \* last command and pwm published for monitoring
  wire,             \* frames written to the serial port and not yet received
  sent              \* history: the last frame written

nodeVars     == <<alive, is_teleop_mode, drive_command, teleop_mode, published>>
hardwareVars == <<nodeVars, wire, sent>>

Clamp(v, lo, hi) == IF v < lo THEN lo ELSE IF v > hi THEN hi ELSE v

ZeroCommand == [speed |-> 0, steering_angle |-> 0]
ZeroPwm     == [speed |-> 0, steering |-> 0]
NeutralPwm  == [speed |-> kEscPwmN, steering |-> kSteerPwmN]
EmptyResult == [command |-> ZeroCommand, pwm |-> ZeroPwm]

\* The commands and PWM values stay inside the limits of the car, however far
\* out of range the command that arrived was.
HardwareTypeOK ==
  /\ alive \in BOOLEAN
  /\ is_teleop_mode \in BOOLEAN
  /\ drive_command \in DriveCommand
  /\ teleop_mode \in BOOLEAN
  /\ published \in [command : Command, pwm : Pwm \cup {ZeroPwm}]
  /\ wire \in Seq(Frame)
  /\ Len(wire) <= WireCap
  /\ sent \in Frame \cup {NoFrame}

NodeInit ==
  /\ alive = TRUE
  /\ is_teleop_mode = FALSE
  /\ drive_command = "kStop"
  /\ teleop_mode = FALSE
  /\ published = EmptyResult

HardwareInit ==
  /\ NodeInit
  /\ wire = <<>>
  /\ sent = NoFrame

-----------------------------------------------------------------------------
(* The controller. *)

\* Mutant: the stop command is not looked at.
GotStopCommandNever == FALSE

GotStopCommand == drive_command = "kStop"

ConvertCommandToPwm(c) ==
  [speed    |-> EscGain[c.speed] + kEscPwmN,
   steering |-> SteerGain[c.steering_angle] + kSteerPwmN]

LimitCommand(c) ==
  [speed          |-> Clamp(c.speed, 0, MaxSpeed),
   steering_angle |-> Clamp(c.steering_angle, -MaxSteering, MaxSteering)]

\* Mutant: the PWM values are trusted to be in range.
LimitPwmNot(p) == p

LimitPwm(p) ==
  [speed    |-> Clamp(p.speed, kEscPwmMin, kEscPwmMax),
   steering |-> Clamp(p.steering, kSteerPwmMin, kSteerPwmMax)]

MotionPwm(c) == LimitPwm(ConvertCommandToPwm(LimitCommand(c)))

SerializeAndSendMessage(pwm, src) ==
  IF UseDummyHardware
  THEN UNCHANGED <<wire, sent>>
  ELSE LET frame == [steering |-> pwm.steering, speed |-> pwm.speed,
                     cmd |-> drive_command, src |-> src]
       IN /\ Len(wire) < WireCap
          /\ wire' = Append(wire, frame)
          /\ sent' = frame

\* Mutant: the command as received is published, not the one that was sent.
SendControlCommandEchoes(c, src) ==
  \/ /\ GotStopCommand
     /\ SerializeAndSendMessage(NeutralPwm, src)
     /\ published' = EmptyResult
  \/ /\ ~GotStopCommand
     /\ SerializeAndSendMessage(MotionPwm(c), src)
     /\ published' = [command |-> c, pwm |-> MotionPwm(c)]

\* SendControlCommand and the two publications that follow it in every caller.
SendControlCommand(c, src) ==
  \/ /\ GotStopCommand
     /\ SerializeAndSendMessage(NeutralPwm, src)
     /\ published' = EmptyResult
  \/ /\ ~GotStopCommand
     /\ SerializeAndSendMessage(MotionPwm(c), src)
     /\ published' = [command |-> LimitCommand(c), pwm |-> MotionPwm(c)]

\* SerialPort::Write throws when the port is gone; nothing catches it.
WriteFails ==
  /\ ~UseDummyHardware
  /\ alive' = FALSE
  /\ UNCHANGED <<is_teleop_mode, drive_command, teleop_mode, published, wire, sent>>

-----------------------------------------------------------------------------
(* The callbacks. *)

ControlCommandCallback(msg) ==
  /\ alive
  /\ \/ /\ is_teleop_mode
        /\ UNCHANGED hardwareVars
     \/ /\ ~is_teleop_mode
        /\ SendControlCommand(msg, "auto")
        /\ UNCHANGED <<alive, is_teleop_mode, drive_command, teleop_mode>>
     \/ ~is_teleop_mode /\ WriteFails

TeleopControlCommandCallback(msg) ==
  /\ alive
  /\ \/ /\ ~is_teleop_mode
        /\ UNCHANGED hardwareVars
     \/ /\ is_teleop_mode
        /\ SendControlCommand(msg, "teleop")
        /\ UNCHANGED <<alive, is_teleop_mode, drive_command, teleop_mode>>
     \/ is_teleop_mode /\ WriteFails

\* Mutant: the callback disarms the car and leaves the motor alone.
DeadlineCallbackOnlyDisarms ==
  /\ alive
  /\ drive_command' = "kStop"
  /\ UNCHANGED <<alive, is_teleop_mode, teleop_mode, published, wire, sent>>

\* The zero command goes out under the drive command in force, whatever the
\* teleop mode is; only then is the drive command set to stop.
DeadlineCallback ==
  /\ alive
  /\ \/ /\ SendControlCommand(ZeroCommand, "deadline")
        /\ drive_command' = "kStop"
        /\ UNCHANGED <<alive, is_teleop_mode, teleop_mode>>
     \/ WriteFails

SetDriveCommand(d) == drive_command' = d

\* Mutant: a start is accepted in teleop mode too.
GcsCommandCallbackAlwaysStarts(data) ==
  /\ alive
  /\ SetDriveCommand(IF data = 1 THEN "kAuto" ELSE "kStop")
  /\ UNCHANGED <<alive, is_teleop_mode, teleop_mode, published, wire, sent>>

GcsCommandCallback(data) ==
  /\ alive
  /\ CASE data = 1 /\ ~is_teleop_mode -> SetDriveCommand("kAuto")
       [] data = 1 /\ is_teleop_mode  -> UNCHANGED drive_command
       [] OTHER                       -> SetDriveCommand("kStop")
  /\ UNCHANGED <<alive, is_teleop_mode, teleop_mode, published, wire, sent>>

\* Mutant: entering teleop mode does not stop the car.
TeleopCommandCallbackKeepsDriving(data) ==
  /\ alive
  /\ is_teleop_mode' = (data = 0 \/ (data # 2 /\ is_teleop_mode))
  /\ CASE data = 1 /\ is_teleop_mode  -> SetDriveCommand("kManual")
       [] data = 1 /\ ~is_teleop_mode -> UNCHANGED drive_command
       [] data = 0                    -> UNCHANGED drive_command
       [] OTHER                       -> SetDriveCommand("kStop")
  /\ teleop_mode' = is_teleop_mode'
  /\ UNCHANGED <<alive, published, wire, sent>>

TeleopCommandCallback(data) ==
  /\ alive
  /\ is_teleop_mode' = CASE data = 0 -> TRUE
                         [] data = 2 -> FALSE
                         [] OTHER    -> is_teleop_mode
  /\ CASE data = 1 /\ is_teleop_mode  -> SetDriveCommand("kManual")
       [] data = 1 /\ ~is_teleop_mode -> UNCHANGED drive_command
       [] OTHER                       -> SetDriveCommand("kStop")
  /\ teleop_mode' = is_teleop_mode'
  /\ UNCHANGED <<alive, published, wire, sent>>

-----------------------------------------------------------------------------
(* The process and its environment. *)

\* The process manager, or an operator, ends the process and starts it again.
Shutdown ==
  /\ alive
  /\ alive' = FALSE
  /\ UNCHANGED <<is_teleop_mode, drive_command, teleop_mode, published, wire, sent>>

\* Mutant: the new process says nothing of its mode.
RestartSilent ==
  /\ ~alive
  /\ alive' = TRUE
  /\ is_teleop_mode' = FALSE
  /\ drive_command' = "kStop"
  /\ UNCHANGED <<teleop_mode, published, wire, sent>>

\* A new process: every member at its initialiser, teleop_mode published anew.
Restart ==
  /\ ~alive
  /\ alive' = TRUE
  /\ is_teleop_mode' = FALSE
  /\ drive_command' = "kStop"
  /\ teleop_mode' = FALSE
  /\ UNCHANGED <<published, wire, sent>>

\* The motor controller takes the oldest frame off the wire.
Receive ==
  /\ wire # <<>>
  /\ wire' = Tail(wire)
  /\ UNCHANGED <<nodeVars, sent>>

HardwareNext ==
  \/ \E msg \in ControlMsg : ControlCommandCallback(msg)
  \/ \E msg \in ControlMsg : TeleopControlCommandCallback(msg)
  \/ DeadlineCallback
  \/ \E data \in Int8Command : GcsCommandCallback(data)
  \/ \E data \in Int8Command : TeleopCommandCallback(data)
  \/ Shutdown
  \/ Restart
  \/ Receive

HardwareSpec == HardwareInit /\ [][HardwareNext]_hardwareVars

-----------------------------------------------------------------------------
(* Properties. *)

InMotion(frame) == frame.speed # kEscPwmN

\* A drive command never outlives its mode: autonomous driving exists only
\* outside teleop mode and manual driving only inside it, whatever order the
\* ground station's and the operator's commands, deadlines and restarts come in
\* (GcsCommandCallback, TeleopCommandCallback).
DriveCommandFitsMode ==
  /\ drive_command = "kAuto"   => ~is_teleop_mode
  /\ drive_command = "kManual" => is_teleop_mode

\* A frame that moves the car was written by the source the drive command names:
\* the planner never moves a car that was started in teleop mode, the operator
\* never moves one that was started by the ground station, and the deadline
\* callback moves nothing, although it writes under the old drive command.
MotionComesFromItsSource ==
  \A i \in DOMAIN wire :
    InMotion(wire[i]) => \/ wire[i].cmd = "kAuto"   /\ wire[i].src = "auto"
                         \/ wire[i].cmd = "kManual" /\ wire[i].src = "teleop"

\* What hardware_control/control_command reports agrees with the wire: the
\* reported speed is zero exactly when the last frame written was neutral.
PublishedSpeedMatchesWire ==
  sent # NoFrame => (published.command.speed = 0 <=> ~InMotion(sent))

\* Control passes between the planner and the operator only through a stop: no
\* step turns one kind of driving into the other.
HandOverThroughStop ==
  [][drive_command # "kStop" => drive_command' \in {drive_command, "kStop"}]_hardwareVars

\* The mode latched for the ground station is the mode the callbacks obey, also after
\* a process that dies in teleop mode and is started again without it: what the ground
\* station shows does not outlive what it is about (the constructor, TeleopCommandCallback).
LatchedModeIsCurrent == teleop_mode = is_teleop_mode
=============================================================================
