------------------------------- MODULE Firmware -------------------------------
(***************************************************************************)
(* What the motor controller computes from the payload of a frame.         *)
(***************************************************************************)
EXTENDS Integers

\* The ESC is initialised with the firmware's own neutral value.
kFirmwareNeutral == 4915

\* Mutant: the value is taken as it comes.
ConstrainNot(v, lo, hi) == v

Constrain(v, lo, hi) == IF v < lo THEN lo ELSE IF v > hi THEN hi ELSE v

Int16(hi, lo) == LET v == 256 * hi + lo IN IF v >= 32768 THEN v - 65536 ELSE v

ServoDuty(deg)  == (deg * 182) \div 10 + 3277
SteerDuty(deg)  == ServoDuty(Constrain(deg, 0, 180))
AccelDuty(duty) == Constrain(duty, 3277, 6553)

\* The duties of servo and ESC and the two LEDs.
Pins(steering, speed, mode) ==
  [steer |-> SteerDuty(steering), accel |-> AccelDuty(speed),
   yellow |-> mode = 2, green |-> mode > 0]
=============================================================================
