------------------------------- MODULE MCNodes -------------------------------
(***************************************************************************)
(* The hardware_control node and the gamepad node, each alone under any    *)
(* messages: a behaviour moves one of the two and leaves the other at its  *)
(* start (Vehicle composes them).                                          *)
(*                                                                         *)
(* hardware_control: the unit of speed is 0.5 m/s and the unit of steering *)
(* 22.5 degrees, so that the limits of the launch file (1.0 m/s, 45        *)
(* degrees) are two units; the gains are the values the formulas of        *)
(* ConvertCommandToPwm give.  Gamepad: every combination of two buttons,   *)
(* and the stick at full deflection either way.                            *)
(***************************************************************************)
EXTENDS HardwareControlRefinement, Gamepad, FiniteSets

VARIABLE side   \* which of the two moves

MCSpeeds    == {-1, 0, 1, 3}
MCSteerings == {-3, -1, 0, 2}
MCEscGain   == [s \in 0 .. 2 |-> CASE s = 0 -> 0 [] s = 1 -> 220 [] s = 2 -> 319]
MCSteerGain == [a \in -2 .. 2 |-> CASE a = -2 -> -193 [] a = -1 -> -96
                                    [] a = 0 -> 0 [] a = 1 -> 96 [] a = 2 -> 193]

MCArrows     == {-1, 0, 1}
MCSticks     == {-2, 0, 2}
MCButtonSets == {bs \in SUBSET Buttons : Cardinality(bs) <= 2}

MCInit ==
  /\ HardwareInit
  /\ GamepadInit
  /\ side \in {"hardware_control", "gamepad"}

MCNext ==
  \/ side = "hardware_control" /\ HardwareNext /\ UNCHANGED <<side, gamepadVars>>
  \/ side = "gamepad" /\ GamepadNext /\ UNCHANGED <<side, hardwareVars>>

MCSpec == MCInit /\ [][MCNext]_<<side, hardwareVars, gamepadVars>>
=============================================================================
