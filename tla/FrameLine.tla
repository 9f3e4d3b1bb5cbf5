------------------------------- MODULE FrameLine -------------------------------
(***************************************************************************)
(* What the line from the hardware_control node to the motor controller    *)
(* promises, without bytes, checksums or a parser: while it is intact,     *)
(* every frame that is written is applied once, whole and in the order of  *)
(* writing.  Of a line that has lost bytes, or that adds bytes of its own, *)
(* it promises only what the output may be.                                *)
(***************************************************************************)
EXTENDS Sequences

CONSTANTS
  Frames,   \* what can be written
  Effect,   \* frame |-> the output it is to produce
  Outputs,  \* what the output may be at all
  AtRest    \* the output before the first frame

VARIABLES
  queue,   \* frames written and not yet applied; empty once the line is damaged
  output,
  intact   \* nothing was lost or added so far

vars == <<queue, output, intact>>

Init ==
  /\ queue = <<>>
  /\ output = AtRest
  /\ intact \in BOOLEAN

Write(f) ==
  /\ intact
  /\ queue' = Append(queue, f)
  /\ UNCHANGED <<output, intact>>

Apply ==
  /\ intact /\ queue # <<>>
  /\ output' = Effect[Head(queue)]
  /\ queue' = Tail(queue)
  /\ UNCHANGED intact

Damage ==
  /\ intact
  /\ intact' = FALSE
  /\ queue' = <<>>
  /\ UNCHANGED output

Misapply ==
  /\ ~intact
  /\ output' \in Outputs
  /\ UNCHANGED <<queue, intact>>

Next ==
  \/ \E f \in Frames : Write(f)
  \/ Apply
  \/ Damage
  \/ Misapply

Spec == Init /\ [][Next]_vars
=============================================================================
