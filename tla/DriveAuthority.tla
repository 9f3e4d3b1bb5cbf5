---------------------------- MODULE DriveAuthority ----------------------------
(***************************************************************************)
(* What the hardware_control node promises, without commands, frames or    *)
(* process life cycle: at any time at most one party holds the authority   *)
(* to drive, it can only be given to the party the mode belongs to, it is  *)
(* handed over through nobody, and only a holder sets the car in motion.   *)
(***************************************************************************)

Parties == {"planner", "operator"}
Modes   == {"auto", "teleop"}

VARIABLES
  mode,    \* whose turn it is to ask for authority
  holder,  \* who may set the car in motion
  moving   \* the last order given to the motors

vars == <<mode, holder, moving>>

ModeOf(party) == IF party = "planner" THEN "auto" ELSE "teleop"

Init ==
  /\ mode = "auto"
  /\ holder = "nobody"
  /\ moving = FALSE

Grant(party) ==
  /\ mode = ModeOf(party)
  /\ holder' = party
  /\ UNCHANGED <<mode, moving>>

\* Revoking authority says nothing to the motors: the last order stands until
\* the next one.
Revoke ==
  /\ holder' = "nobody"
  /\ mode' \in Modes
  /\ UNCHANGED moving

Drive(party) ==
  /\ holder = party
  /\ mode = ModeOf(party)
  /\ moving' = TRUE
  /\ UNCHANGED <<mode, holder>>

Halt ==
  /\ moving' = FALSE
  /\ holder' \in {holder, "nobody"}
  /\ UNCHANGED mode

Next ==
  \/ \E party \in Parties : Grant(party) \/ Drive(party)
  \/ Revoke
  \/ Halt

Spec == Init /\ [][Next]_vars

\* Only a holder holds, and only in its own mode.
HolderFitsMode == holder \in Parties => mode = ModeOf(holder)
=============================================================================
