------------------------------ MODULE SerialLink ------------------------------
(***************************************************************************)
(* The serial line between the hardware_control node and the firmware of   *)
(* the motor controller, byte by byte: the nine bytes of a frame, the      *)
(* output processing of the port, lost bytes, and the parser of loop().    *)
(*                                                                         *)
(* SerialPort takes the settings of the port as it finds them and changes  *)
(* the input and control flags only, so output processing stays as it was: *)
(* a Linux terminal starts with OPOST and ONLCR set.                       *)
(***************************************************************************)
EXTENDS Firmware, Sequences

CONSTANTS
  Frames,         \* the [steering, speed, cmd] triples the node sends
  NewlineMapped,  \* ONLCR is set on the port
  LineCap,        \* bound: bytes written and not yet read
  MaxLosses,      \* bound: bytes lost on the line
  NoneSent        \* nothing was written yet

\* What is sent fits an int16_t and is not negative.
Value == 0 .. 32767

ASSUME SerialAssumption ==
  /\ Frames \subseteq [steering : Value, speed : Value, cmd : 0 .. 2]
  /\ NewlineMapped \in BOOLEAN
  /\ LineCap \in Nat /\ MaxLosses \in Nat
  /\ NoneSent \notin Frames

VARIABLES
  latest,   \* the last frame written
  line,     \* bytes on the line
  losses,   \* bytes lost so far
  state,    \* of the parser: 0 and 1 wait for the header, 2 reads the payload
  payload,  \* bytes of the payload read so far; its length is index
  pins      \* what is driven: servo and ESC duty, the two LEDs

linkVars == <<latest, line, losses, state, payload, pins>>

Byte == 0 .. 255
Duty == 3277 .. 6553

\* setup() writes 90 degrees and the firmware's neutral.
AtStart == [steer |-> ServoDuty(90), accel |-> kFirmwareNeutral, yellow |-> FALSE, green |-> FALSE]

LinkInit ==
  /\ latest = NoneSent
  /\ line = <<>>
  /\ losses = 0
  /\ state = 0
  /\ payload = <<>>
  /\ pins = AtStart

\* Whatever is lost, shifted or misread, the servo and the ESC are driven within
\* their range, and the parser never reads past its buffer.
LinkTypeOK ==
  /\ latest \in Frames \cup {NoneSent}
  /\ line \in Seq(Byte) /\ Len(line) <= LineCap
  /\ losses \in 0 .. MaxLosses
  /\ state \in 0 .. 2
  /\ payload \in Seq(Byte) /\ (state = 2 => Len(payload) < 7)
  /\ pins \in [steer : Duty, accel : Duty, yellow : BOOLEAN, green : BOOLEAN]

-----------------------------------------------------------------------------
(* The sender. *)

High(v) == (v \div 256) % 256
Low(v)  == v % 256

AddCheckSum(b1, b2, b3, b4, b5, b6) == (b1 + b2 + b3 + b4 + b5 + b6) % 256

Serialize(f) ==
  <<255, 254, High(f.steering), Low(f.steering), High(f.speed), Low(f.speed),
    High(f.cmd), Low(f.cmd),
    AddCheckSum(High(f.steering), Low(f.steering), High(f.speed), Low(f.speed),
                High(f.cmd), Low(f.cmd))>>

\* Output processing sends a carriage return before a newline.
Transmitted(byte) == IF NewlineMapped /\ byte = 10 THEN <<13, 10>> ELSE <<byte>>

\* frame |-> the bytes that reach the line
BytesOf ==
  [f \in Frames |->
     LET b == Serialize(f)
     IN Transmitted(b[1]) \o Transmitted(b[2]) \o Transmitted(b[3]) \o
        Transmitted(b[4]) \o Transmitted(b[5]) \o Transmitted(b[6]) \o
        Transmitted(b[7]) \o Transmitted(b[8]) \o Transmitted(b[9])]

Write(f) ==
  /\ Len(line) + Len(BytesOf[f]) <= LineCap
  /\ line' = line \o BytesOf[f]
  /\ latest' = f
  /\ UNCHANGED <<losses, state, payload, pins>>

LoseByte ==
  /\ losses < MaxLosses /\ line # <<>>
  /\ line' = Tail(line)
  /\ losses' = losses + 1
  /\ UNCHANGED <<latest, state, payload, pins>>

-----------------------------------------------------------------------------
(* The firmware. *)

Drive(p) == Pins(Int16(p[1], p[2]), Int16(p[3], p[4]), Int16(p[5], p[6]))

\* Mutant: the last byte of the data is left out.
VerifiedShort(p) == AddCheckSum(p[1], p[2], p[3], p[4], p[5], 0) = p[7]

Verified(p) == AddCheckSum(p[1], p[2], p[3], p[4], p[5], p[6]) = p[7]

\* Mutant: after a frame the parser expects the next payload at once.
ReadKeepsReading ==
  /\ line # <<>>
  /\ line' = Tail(line)
  /\ LET c    == Head(line)
         full == Append(payload, c)
     IN \/ /\ state = 0
           /\ state' = IF c = 255 THEN 1 ELSE 0
           /\ UNCHANGED <<payload, pins>>
        \/ /\ state = 1
           /\ state' = IF c = 254 THEN 2 ELSE 0
           /\ payload' = IF c = 254 THEN <<>> ELSE payload
           /\ UNCHANGED pins
        \/ /\ state = 2
           /\ payload' = IF Len(full) < 7 THEN full ELSE <<>>
           /\ state' = 2
           /\ pins' = IF Len(full) = 7 /\ Verified(full) THEN Drive(full) ELSE pins
  /\ UNCHANGED <<latest, losses>>

\* One turn of the while loop.
Read ==
  /\ line # <<>>
  /\ line' = Tail(line)
  /\ LET c    == Head(line)
         full == Append(payload, c)
     IN \/ /\ state = 0
           /\ state' = IF c = 255 THEN 1 ELSE 0
           /\ UNCHANGED <<payload, pins>>
        \/ /\ state = 1
           /\ state' = IF c = 254 THEN 2 ELSE 0
           /\ payload' = IF c = 254 THEN <<>> ELSE payload
           /\ UNCHANGED pins
        \/ /\ state = 2
           /\ payload' = full
           /\ state' = IF Len(full) < 7 THEN 2 ELSE 0
           /\ pins' = IF Len(full) = 7 /\ Verified(full) THEN Drive(full) ELSE pins
  /\ UNCHANGED <<latest, losses>>

LinkNext ==
  \/ \E f \in Frames : Write(f)
  \/ LoseByte
  \/ Read

\* The node writes a frame for every command that arrives, and loop() runs.
LinkSpec     == LinkInit /\ [][LinkNext]_linkVars
FairLinkSpec == LinkSpec /\ WF_linkVars(\E f \in Frames : Write(f)) /\ WF_linkVars(Read)

-----------------------------------------------------------------------------
(* Properties. *)

\* What the pins show once a frame is applied, said of the frame and not of bytes.
Applied(f) == Pins(f.steering, f.speed, f.cmd)

\* The frame has no byte that output processing would put another one in front of.
SentAsItIs(f) == \A i \in 1 .. 9 : ~(NewlineMapped /\ Serialize(f)[i] = 10)

NothingInserted == \A f \in Frames : SentAsItIs(f)

\* On a line that loses and inserts nothing every frame arrives as it was meant: the
\* parser is in step with the frames, skips none and applies nothing that was not sent.
IntactLineIsInStep ==
  losses = 0 /\ NothingInserted =>
    /\ pins \in {Applied(f) : f \in Frames} \cup {AtStart}
    /\ line = <<>> /\ latest # NoneSent => pins = Applied(latest) /\ state = 0

\* loop(), over the lines that use a frame: it restores the data and drives the pins
\* "reflecting the latest data".  Wherever bytes were lost before, a command the node
\* keeps sending is applied in the end, and stays applied: a parser that was thrown out
\* of step finds a header again.  That takes a frame whose checksum is not 255: such a
\* checksum is taken for the first byte of a header and the true one after it is thrown
\* away, so that a parser out of step misses that frame for ever; and a frame that the
\* port sends as it is.
LatestIsApplied ==
  \A f \in Frames :
    Serialize(f)[9] # 255 /\ SentAsItIs(f) /\ <>[](latest = f) => <>[](pins = Applied(f))
=============================================================================
