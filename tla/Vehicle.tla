------------------------------- MODULE Vehicle -------------------------------
(***************************************************************************)
(* The chain from the people who drive the car to its motor: the ground    *)
(* station's commands, the gamepad, the planner, the DDS topics between    *)
(* them and the hardware_control node, the serial line and the motor       *)
(* controller's output.                                                    *)
(*                                                                         *)
(* Every subscription of hardware_control keeps one sample                 *)
(* (SystemDefaultsQoS: keep last, best effort), so a topic is an inbox of  *)
(* one slot that a newer sample overwrites.  The executor takes the full   *)
(* inboxes in any order.                                                   *)
(***************************************************************************)
EXTENDS HardwareControl, Gamepad, Firmware

CONSTANTS
  PlannerSpeeds, \* the speeds the planner asks for
  Losses,        \* may samples, frames and bytes of frames get lost?
  Misread,       \* speeds the parser may find in what is left of broken frames
  Crashes,       \* may the hardware_control process end?
  Unplugs        \* may the gamepad be switched off?

ASSUME SwitchesAssumption ==
  PlannerSpeeds \subseteq Speeds /\ Misread \subseteq Int /\
  Losses \in BOOLEAN /\ Crashes \in BOOLEAN /\ Unplugs \in BOOLEAN

VARIABLES
  inbox,          \* topic |-> the sample hardware_control has not taken yet
  planner_up,     \* nav_topic and the planning_control node are both alive
  planner_seen,   \* this hardware_control process has heard the planner
  device_up,      \* the joystick driver delivers messages
  esc,            \* the PWM value on the motor's pin
  misread         \* history: esc was set last by a frame that nobody wrote

worldVars == <<planner_up, planner_seen, device_up>>
motorVars == <<esc, misread>>
vars == <<hardwareVars, gamepadVars, inbox, worldVars, motorVars>>

\* planning_control/control_command, teleop/control_command, gcs/command and
\* teleop/command.
Topics == {"auto", "speed", "gcs", "teleop"}

Empty == [topic \in Topics |-> NoMessage]

Init ==
  /\ HardwareInit
  /\ GamepadInit
  /\ inbox = Empty
  /\ planner_up = FALSE
  /\ planner_seen = FALSE
  /\ device_up = FALSE
  /\ esc = kFirmwareNeutral
  /\ misread = FALSE

-----------------------------------------------------------------------------
(* The topics. *)

\* The samples of one publication arrive, each of them or not; a process that is
\* gone has no subscriptions.
Publish(samples) ==
  \E arrived \in SUBSET DOMAIN samples :
    /\ ~Losses => arrived = DOMAIN samples
    /\ inbox' = [topic \in Topics |->
                   IF alive /\ topic \in arrived THEN samples[topic] ELSE inbox[topic]]

\* The sample a callback is called with leaves the inbox, and with a callback that
\* does not return the inboxes go too.
Take(topic) ==
  inbox' = IF alive' THEN [inbox EXCEPT ![topic] = NoMessage] ELSE Empty

-----------------------------------------------------------------------------
(* The planner and the ground station. *)

PlannerPublishes ==
  /\ planner_up
  /\ \E c \in ControlMsg :
       c.speed \in PlannerSpeeds /\ Publish([topic \in {"auto"} |-> c])
  /\ UNCHANGED <<hardwareVars, gamepadVars, worldVars, motorVars>>

PlannerStops ==
  /\ planner_up
  /\ planner_up' = FALSE
  /\ UNCHANGED <<hardwareVars, gamepadVars, inbox, planner_seen, device_up, motorVars>>

PlannerStarts ==
  /\ ~planner_up
  /\ planner_up' = TRUE
  /\ UNCHANGED <<hardwareVars, gamepadVars, inbox, planner_seen, device_up, motorVars>>

\* sendStop and sendStart
GcsPublishes(data) ==
  /\ Publish([topic \in {"gcs"} |-> data])
  /\ UNCHANGED <<hardwareVars, gamepadVars, worldVars, motorVars>>

-----------------------------------------------------------------------------
(* The gamepad. *)

\* The callback publishes the speed first and the mode after it.
GamepadPublishes(msg) ==
  /\ device_up
  /\ WithinCap(msg)
  /\ joyCallback(msg)
  /\ Publish([topic \in {"speed", "teleop"} |->
                IF topic = "teleop" THEN cmd_mode'
                ELSE [speed |-> accel_val', steering_angle |-> steer_val']])
  /\ UNCHANGED <<hardwareVars, worldVars, motorVars>>

\* The driver repeats the last message.
GamepadRepeats == GamepadPublishes(prev_joy)

GamepadTimer ==
  /\ ~device_up
  /\ safetyCheck
  /\ UNCHANGED <<hardwareVars, inbox, worldVars, motorVars>>

DeviceOn ==
  /\ ~device_up
  /\ device_up' = TRUE
  /\ UNCHANGED <<hardwareVars, gamepadVars, inbox, planner_up, planner_seen, motorVars>>

DeviceOff ==
  /\ Unplugs
  /\ device_up
  /\ device_up' = FALSE
  /\ UNCHANGED <<hardwareVars, gamepadVars, inbox, planner_up, planner_seen, motorVars>>

-----------------------------------------------------------------------------
(* The hardware_control node and the motor controller. *)

Survives == ~Crashes => alive'

TakesControlCommand ==
  /\ inbox["auto"] # NoMessage
  /\ ControlCommandCallback(inbox["auto"])
  /\ Take("auto")
  /\ Survives
  /\ planner_seen' = TRUE
  /\ UNCHANGED <<gamepadVars, planner_up, device_up, motorVars>>

TakesTeleopControlCommand ==
  /\ inbox["speed"] # NoMessage
  /\ TeleopControlCommandCallback(inbox["speed"])
  /\ Take("speed")
  /\ Survives
  /\ UNCHANGED <<gamepadVars, worldVars, motorVars>>

TakesGcsCommand ==
  /\ inbox["gcs"] # NoMessage
  /\ GcsCommandCallback(inbox["gcs"])
  /\ Take("gcs")
  /\ UNCHANGED <<gamepadVars, worldVars, motorVars>>

TakesTeleopCommand ==
  /\ inbox["teleop"] # NoMessage
  /\ TeleopCommandCallback(inbox["teleop"])
  /\ Take("teleop")
  /\ UNCHANGED <<gamepadVars, worldVars, motorVars>>

\* The reader's deadline runs from the first sample on, and fires once for each
\* period in which no sample came.  The executor may serve the event before a sample
\* that is already there.
MissesDeadline ==
  /\ planner_seen
  /\ ~planner_up \/ Losses
  /\ DeadlineCallback
  /\ Survives
  /\ inbox' = IF alive' THEN inbox ELSE Empty
  /\ UNCHANGED <<gamepadVars, worldVars, motorVars>>

HardwareStops ==
  /\ Crashes
  /\ Shutdown
  /\ inbox' = Empty
  /\ UNCHANGED <<gamepadVars, worldVars, motorVars>>

\* The new process has new subscriptions, with no deadline running yet.
HardwareRestarts ==
  /\ Restart
  /\ planner_seen' = FALSE
  /\ UNCHANGED <<gamepadVars, inbox, planner_up, device_up, motorVars>>

\* A frame that arrives is applied.  What is left of one that lost bytes fails the
\* checks of the parser and changes nothing, or makes up, with the bytes around it, a
\* frame that passes them and that nobody wrote (SerialLink has it byte by byte).
\* Nothing else changes the output: the firmware has no watchdog.
MotorReceives ==
  /\ Receive
  /\ \/ esc' = AccelDuty(Head(wire).speed) /\ misread' = FALSE
     \/ Losses /\ UNCHANGED motorVars
     \/ Losses /\ misread' = TRUE /\ \E v \in Misread : esc' = AccelDuty(v)
  /\ UNCHANGED <<gamepadVars, inbox, worldVars>>

Next ==
  \/ PlannerPublishes
  \/ PlannerStops
  \/ PlannerStarts
  \/ \E data \in {0, 1} : GcsPublishes(data)
  \/ \E msg \in Joy : GamepadPublishes(msg)
  \/ GamepadTimer
  \/ DeviceOn
  \/ DeviceOff
  \/ TakesControlCommand
  \/ TakesTeleopControlCommand
  \/ TakesGcsCommand
  \/ TakesTeleopCommand
  \/ MissesDeadline
  \/ HardwareStops
  \/ HardwareRestarts
  \/ MotorReceives

\* The executor serves every topic that has a sample, however often the serial
\* line makes it wait; the frames arrive; a planner, a driver or a deadline timer
\* that is there runs periodically.  People, crashes and losses are free.
Fairness ==
  /\ SF_vars(TakesControlCommand)
  /\ SF_vars(TakesTeleopControlCommand)
  /\ SF_vars(TakesGcsCommand)
  /\ SF_vars(TakesTeleopCommand)
  /\ SF_vars(MissesDeadline)
  /\ WF_vars(MotorReceives)
  /\ WF_vars(PlannerPublishes)
  /\ WF_vars(GamepadRepeats)
  /\ WF_vars(GamepadTimer)

Spec     == Init /\ [][Next]_vars
FairSpec == Spec /\ Fairness

-----------------------------------------------------------------------------
(* Properties. *)

Moving == esc \notin {kFirmwareNeutral, kEscPwmN}

\* The motor changes to a moving value only for a frame written by the source
\* that had been given the authority: what the ground station started moves at the
\* planner's speeds and what the operator started at the operator's, across samples
\* and frames that are lost, overwritten samples, deadlines, crashes and restarts.  The
\* one exception is the firmware's: out of the bytes of broken frames its parser may
\* put together one that nobody wrote (misread).
MotorObeysTheHolder ==
  [][esc' # esc /\ Moving' /\ ~misread'
       => /\ wire # <<>>
          /\ \/ Head(wire).cmd = "kAuto"   /\ Head(wire).src = "auto"
             \/ Head(wire).cmd = "kManual" /\ Head(wire).src = "teleop"]_vars

\* A stop comes through: setting the drive command to stop writes nothing, but in
\* teleop mode the gamepad's samples, and outside it, once the planner has been
\* heard, its samples or its deadline, keep the callbacks writing, and a car that
\* stays stopped ends with its motor in neutral.
StopReachesTheMotor ==
  ( \/ <>[](drive_command = "kStop" /\ is_teleop_mode)
    \/ <>[](drive_command = "kStop" /\ ~is_teleop_mode /\ planner_seen) )
  => <>[]~Moving

\* The deadline does its work: when the planner, or the navigation it waits for,
\* has been heard and is gone for good and nobody drives by hand, the car ends at rest,
\* however often the ground station sends start.
SilentPlannerEndsAtRest ==
  <>[](~planner_up /\ planner_seen /\ ~is_teleop_mode) => <>[]~Moving

\* A gamepad left in stop mode holds the car: the repeated message outlasts
\* overwritten samples, deadlines and the ground station's starts.
GamepadInStopModeHolds ==
  <>[](device_up /\ joy_connected /\ cmd_mode = 0)
    => <>[](is_teleop_mode /\ drive_command = "kStop" /\ ~Moving)

\* hardware_control_node.cpp, the deadline callback: "RC car stopped. Send a Start
\* command from GCS to resume."  While the last frame written is that of a deadline
\* that stopped a car under way, the car is started by the ground station only.
ResumeNeedsGcsStart ==
  [][sent # NoFrame /\ sent.src = "deadline" /\ sent.cmd # "kStop" /\ drive_command = "kStop"
       => drive_command' \in {"kStop", "kAuto"}]_vars

\* hardware_control_node.cpp, case 2 of TeleopCommandCallback: "Teleop: Stopped.
\* Teleop mode DISABLED."
LeavingTeleopStops ==
  <>[](drive_command = "kStop" /\ ~is_teleop_mode) => <>[]~Moving

\* gamepad_control_node.cpp, safetyCheck: "Gamepad controller disconnected! ...
\* Emergency stop."
EmergencyStopStops ==
  (~joy_connected /\ ~device_up /\ output # NoMessage) ~> (~Moving \/ device_up)
=============================================================================
