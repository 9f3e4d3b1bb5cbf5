----------------------- MODULE HardwareControlRefinement -----------------------
(***************************************************************************)
(* The hardware_control node implements DriveAuthority.                    *)
(***************************************************************************)
EXTENDS HardwareControl

HolderOf == [kStop |-> "nobody", kAuto |-> "planner", kManual |-> "operator"]

Authority ==
  INSTANCE DriveAuthority
  WITH mode   <- IF is_teleop_mode THEN "teleop" ELSE "auto",
       holder <- HolderOf[drive_command],
       moving <- sent # NoFrame /\ InMotion(sent)

\* Every behaviour of the node, with its crashes, restarts, deadlines and
\* ignored commands, is a behaviour of the abstract authority.
ImplementsDriveAuthority == Authority!Spec
=============================================================================
