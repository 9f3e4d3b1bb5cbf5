----------------------------- MODULE MCSerialLink -----------------------------
(***************************************************************************)
(* Frames the node really sends, in PWM units.                             *)
(***************************************************************************)
EXTENDS SerialLinkRefinement

Frame(s, v, c) == [steering |-> s, speed |-> v, cmd |-> c]
Stop == Frame(87, 5039, 0)

\* The stop frame, a slow one (with its third byte lost it passes for another frame,
\* with a speed far out of range), and a faster one whose checksum is 255.
MCFrames == {Stop, Frame(87, 5056, 1), Frame(42, 5311, 2)}
=============================================================================
