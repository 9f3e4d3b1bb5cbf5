------------------------------ MODULE MCVehicle ------------------------------
(***************************************************************************)
(* A vehicle with one speed above zero and straight wheels, and a gamepad  *)
(* with the three buttons that change the mode of the car.                 *)
(***************************************************************************)
EXTENDS Vehicle

MCEscGain    == [s \in 0 .. 1 |-> 319 * s]
MCSteerGain  == [a \in 0 .. 0 |-> 0]
MCButtonSets == {{}, {"stop"}, {"manual"}, {"auto"}}

\* The speed in <<87, 5056, 1>> when the parser takes it up one byte too late: below
\* the range of the ESC, which is driven at its minimum.
MCMisread    == {0}

\* What the actions read, for the run of the safety properties: the variables left
\* out are written only.
View == <<alive, is_teleop_mode, drive_command, wire, joy_connected, cmd_mode,
          accel_val, steer_val, prev_joy, inbox, worldVars, motorVars>>
=============================================================================
