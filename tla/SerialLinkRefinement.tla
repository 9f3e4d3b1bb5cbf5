------------------------- MODULE SerialLinkRefinement -------------------------
(***************************************************************************)
(* The serial line with its parser implements FrameLine.  The queue of the *)
(* abstract line is not kept anywhere: it is read back from the bytes that *)
(* are under way, the ones the parser has behind it and the ones on the    *)
(* line.                                                                   *)
(***************************************************************************)
EXTENDS SerialLink

\* Bytes of the present frame that the parser has behind it.
Position == IF state = 2 THEN 2 + Len(payload) ELSE state

\* The k-th byte under way.
ByteAt(k) ==
  IF k > Position THEN line[k - Position]
  ELSE IF k > 2 THEN payload[k - 2]
  ELSE <<255, 254>>[k]

\* The frames whose nine bytes are the j-th ones under way.
ReadAs(j) == {f \in Frames : \A i \in 1 .. 9 : Serialize(f)[i] = ByteAt(9 * (j - 1) + i)}

Pending ==
  [j \in 1 .. (Position + Len(line)) \div 9 |->
     IF ReadAs(j) = {} THEN NoneSent ELSE CHOOSE f \in ReadAs(j) : TRUE]

Intact == losses = 0 /\ NothingInserted

Promise ==
  INSTANCE FrameLine
  WITH Frames  <- Frames,
       Effect  <- [f \in Frames |-> Applied(f)],
       Outputs <- [steer : Duty, accel : Duty, yellow : BOOLEAN, green : BOOLEAN],
       AtRest  <- AtStart,
       queue   <- IF Intact THEN Pending ELSE <<>>,
       output  <- pins,
       intact  <- Intact

\* loop() and Serialize: frame by frame, for any split of the bytes over the turns of
\* the loop, what the node writes is what the pins show, until a byte is lost; and from
\* then on the pins stay in their range.
ImplementsFrameLine == Promise!Spec
=============================================================================
