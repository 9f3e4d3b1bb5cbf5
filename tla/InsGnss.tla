------------------------------- MODULE InsGnss --------------------------------
(***************************************************************************)
(* The ins_gnss node: a filter that averages the inertial unit for a       *)
(* while, takes the last GNSS position as the origin of its local frame,   *)
(* and then publishes a navigation state for every message.                *)
(*                                                                         *)
(* The position in the frame, the covariances and the rotation since the   *)
(* start are left out: a navigation state is the frame it is in, origin    *)
(* and initial heading.  One executor thread runs the callbacks, each is   *)
(* one action.  Time is counted in messages of the inertial unit.          *)
(***************************************************************************)
EXTENDS Integers

CONSTANTS
  Places,         \* where the car can be (ECEF)
  Zero,           \* the zero vector, the centre of the earth
  Yaws,           \* headings the operator asks for (degrees, counterclockwise)
  InitialYaw,     \* initial_yaw_deg of the configuration (degrees, clockwise)
  AlignmentTime,  \* alignment_time_sec
  NoNav           \* nothing was published yet

ASSUME InsGnssAssumption ==
  /\ Zero \notin Places
  /\ Yaws \subseteq Int
  /\ InitialYaw \in Int
  /\ AlignmentTime \in Nat

VARIABLES
  is_time_set,
  is_initialized,
  elapsed,        \* imu_time_now - time_init
  gps_pos_ecef,
  pos_origin,
  yaw_init,
  attitude,       \* initial heading in nav_sol (clockwise)
  nav             \* the last message on nav_topic

insVars == <<is_time_set, is_initialized, elapsed, gps_pos_ecef, pos_origin, yaw_init, attitude, nav>>

Origins == Places \cup {Zero}

Headings == {InitialYaw, 0} \cup {-y : y \in Yaws}

InsTypeOK ==
  /\ is_time_set \in BOOLEAN
  /\ is_initialized \in BOOLEAN
  /\ elapsed \in 0..AlignmentTime
  /\ gps_pos_ecef \in Origins
  /\ pos_origin \in Origins
  /\ yaw_init \in Headings
  /\ attitude \in Headings
  /\ nav \in [origin : Origins, yaw : {-h : h \in Headings}] \cup {NoNav}

InsInit ==
  /\ is_time_set = FALSE
  /\ is_initialized = FALSE
  /\ elapsed = 0
  /\ gps_pos_ecef = Zero
  /\ pos_origin = Zero
  /\ yaw_init = InitialYaw
  /\ attitude = 0
  /\ nav = NoNav

\* The published quaternion is counterclockwise (ENU).
PublishNavSol == nav' = [origin |-> pos_origin', yaw |-> -attitude']

SetTimeInit ==
  /\ is_time_set' = TRUE
  /\ elapsed' = IF is_time_set THEN elapsed + 1 ELSE 0

\* Ends by the clock alone: without a GNSS message the origin is the zero vector.
Alignment ==
  \/ /\ elapsed' < AlignmentTime
     /\ UNCHANGED <<is_initialized, pos_origin, attitude>>
  \/ /\ elapsed' >= AlignmentTime
     /\ is_initialized' = TRUE
     /\ pos_origin' = gps_pos_ecef
     /\ attitude' = yaw_init

ImuCallback ==
  /\ \/ /\ is_initialized
        /\ UNCHANGED <<is_time_set, is_initialized, elapsed, pos_origin, attitude>>
        /\ PublishNavSol
     \/ /\ ~is_initialized
        /\ SetTimeInit
        /\ Alignment
        /\ UNCHANGED nav
  /\ UNCHANGED <<gps_pos_ecef, yaw_init>>

\* Mutant: the frame follows the measurement.
CorrectRebased == pos_origin' = gps_pos_ecef'

Correct == UNCHANGED pos_origin

\* Mutant: a measurement that cannot be used yet is thrown away.
UpdateMeasurementVectorIfStarted(p) ==
  gps_pos_ecef' = IF is_initialized THEN p ELSE gps_pos_ecef

UpdateMeasurementVector(p) == gps_pos_ecef' = p

GpsCallback(p) ==
  /\ UpdateMeasurementVector(p)
  /\ \/ is_initialized /\ Correct /\ UNCHANGED attitude /\ PublishNavSol
     \/ ~is_initialized /\ UNCHANGED <<pos_origin, attitude, nav>>
  /\ UNCHANGED <<is_time_set, is_initialized, elapsed, yaw_init>>

\* Reset() forgets the last GNSS message too; attitude, part of nav_sol, stays.
Reset ==
  /\ is_initialized' = FALSE
  /\ is_time_set' = FALSE
  /\ elapsed' = 0
  /\ pos_origin' = Zero
  /\ gps_pos_ecef' = Zero

\* Mutant: the settings are loaded after the heading was set.
InitYawCallbackOverwritten(yaw) ==
  /\ Reset
  /\ yaw_init' = InitialYaw
  /\ UNCHANGED <<attitude, nav>>

InitYawCallback(yaw) ==
  /\ Reset
  /\ yaw_init' = -yaw
  /\ UNCHANGED <<attitude, nav>>

\* A new process: EKF::EKF.  What the old one published is still under way.
InsBegins ==
  /\ Reset
  /\ yaw_init' = InitialYaw
  /\ attitude' = 0
  /\ UNCHANGED nav

=============================================================================
