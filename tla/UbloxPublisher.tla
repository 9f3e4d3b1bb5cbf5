---------------------------- MODULE UbloxPublisher ----------------------------
(***************************************************************************)
(* The ubloxf9r node: a thread that decodes what the receiver sends into   *)
(* global structs and raises a flag, and two timers, on threads of their   *)
(* own, that test the flag, clear it, copy the structs and publish.  No    *)
(* lock is taken anywhere, so every access is a step.                      *)
(*                                                                         *)
(* A sample is its number: the measurement for the inertial unit, the      *)
(* epoch for positions and velocities.  A struct is two fields, written    *)
(* and read one after the other: the first, and the rest.  A read may end  *)
(* inside a message, which is decoded like a whole one.                    *)
(***************************************************************************)
EXTENDS Naturals

CONSTANT Samples   \* bound: kind |-> messages the receiver sends

Kinds == {"imu", "pos", "vel"}

VARIABLES
  output,      \* kind |-> messages the receiver has sent
  reader,      \* where the decoding thread is, and the kind it is busy with
  reach,       \* kind |-> fields that the last read of a message held
  held,        \* imu and ECEF, the global structs
  Packet_Flag,
  imuTimer,    \* steps of IMU_Pub::timer_callback that are done
  gnssTimer,   \* steps of GNSS_Pub::timer_callback that are done
  message,     \* their local copies
  sent,        \* what they published last
  lost,        \* history: a message of an epoch was not decoded in whole
  overtaken    \* history: a message was decoded before the last epoch was published

publisherVars ==
  <<output, reader, reach, held, Packet_Flag, imuTimer, gnssTimer, message, sent, lost, overtaken>>

\* Number 0: zero, or what zero bytes make of the rest of a measurement.
Sample == [first : Nat, rest : Nat]

Never == [first |-> 0, rest |-> 0]

\* A struct has the fields of one message, unless the decoder is at work on it or the
\* read that it was decoded from ended inside that message.
PublisherTypeOK ==
  /\ \A k \in Kinds :
       \/ reader = [at |-> "writing", kind |-> k]
       \/ reach[k] < 2
       \/ held[k].first = held[k].rest
  /\ output \in [Kinds -> Nat]
  /\ reader \in [at : {"waiting", "writing", "written"}, kind : Kinds]
  /\ reach \in [Kinds -> 0..2]
  /\ held \in [Kinds -> Sample]
  /\ Packet_Flag \in [Kinds -> BOOLEAN]
  /\ imuTimer \in 0..3
  /\ gnssTimer \in 0..6
  /\ message \in [Kinds -> Sample]
  /\ sent \in [Kinds -> Sample]
  /\ lost \in BOOLEAN
  /\ overtaken \in BOOLEAN

PublisherInit ==
  /\ output = [k \in Kinds |-> 0]
  /\ reader = [at |-> "waiting", kind |-> "imu"]
  /\ reach = [k \in Kinds |-> 2]
  /\ held = [k \in Kinds |-> Never]
  /\ Packet_Flag = [k \in Kinds |-> FALSE]
  /\ imuTimer = 0
  /\ gnssTimer = 0
  /\ message = [k \in Kinds |-> Never]
  /\ sent = [k \in Kinds |-> Never]
  /\ lost = FALSE
  /\ overtaken = FALSE

-----------------------------------------------------------------------------
(* The receiver and the decoding thread. *)

\* The receiver sends the position of an epoch, then its velocity.
Output(k) ==
  /\ reader.at = "waiting"
  /\ output[k] < Samples[k]
  /\ k = "pos" => output["vel"] = output["pos"]
  /\ k = "vel" => output["vel"] < output["pos"]
  /\ output' = [output EXCEPT ![k] = @ + 1]

\* Only the first four bytes of a read are looked at: a message that begins later is lost.
Miss(k) ==
  /\ Output(k)
  /\ lost' = (lost \/ k # "imu")
  /\ UNCHANGED <<reader, reach, held, Packet_Flag, imuTimer, gnssTimer, message, sent, overtaken>>

\* What becomes of a field that the read does not hold.  The bytes that are missing count
\* as zeros: a position or a velocity is zero, a measurement without its type is skipped.
\* Past four times the length of the read the bytes are any, and so is the measurement.
Padded(k, field) == IF k = "imu" THEN {field, 0} ELSE {0}

\* Ublox_8_DEQUEUE begins to write: the read holds r fields of the message.
Begin(k) ==
  /\ Output(k)
  /\ reader' = [at |-> "writing", kind |-> k]
  /\ \E r \in 0..2 :
       /\ reach' = [reach EXCEPT ![k] = r]
       /\ \E v \in IF r = 0 THEN Padded(k, held[k].first) ELSE {output'[k]} :
            held' = [held EXCEPT ![k].first = v]
       /\ lost' = (lost \/ (k # "imu" /\ r < 2))
  /\ overtaken' = \/ overtaken
                  \/ k # "imu" /\ gnssTimer # 0
                  \/ k # "imu" /\ Packet_Flag["pos"] /\ Packet_Flag["vel"]
  /\ UNCHANGED <<Packet_Flag, imuTimer, gnssTimer, message, sent>>

Complete ==
  /\ reader.at = "writing"
  /\ reader' = [reader EXCEPT !.at = "written"]
  /\ LET k == reader.kind
     IN  \E v \in IF reach[k] = 2 THEN {held[k].first} ELSE Padded(k, held[k].rest) :
           held' = [held EXCEPT ![k].rest = v]
  /\ UNCHANGED <<output, reach, Packet_Flag, imuTimer, gnssTimer, message, sent, lost, overtaken>>

\* The checksum was computed and is not looked at: the message counts, in part or whole.
readSerial ==
  /\ reader.at = "written"
  /\ reader' = [reader EXCEPT !.at = "waiting"]
  /\ Packet_Flag' = [Packet_Flag EXCEPT ![reader.kind] = TRUE]
  /\ UNCHANGED <<output, reach, held, imuTimer, gnssTimer, message, sent, lost, overtaken>>

-----------------------------------------------------------------------------
(* The timers: test, clear, copy field by field, publish. *)

\* Mutant: one of the two messages is enough.
TestAny(done, kinds) == done = 0 /\ \E k \in kinds : Packet_Flag[k]

Test(done, kinds) == done = 0 /\ \A k \in kinds : Packet_Flag[k]

Clear(k) ==
  /\ Packet_Flag' = [Packet_Flag EXCEPT ![k] = FALSE]
  /\ UNCHANGED <<message, sent>>

CopyFirst(k) ==
  /\ message' = [message EXCEPT ![k].first = held[k].first]
  /\ UNCHANGED <<Packet_Flag, sent>>

CopyRest(k) == message' = [message EXCEPT ![k].rest = held[k].rest] /\ UNCHANGED Packet_Flag

Publish(kinds) == sent' = [k \in Kinds |-> IF k \in kinds THEN message'[k] ELSE sent[k]]

\* Mutant: the flag is cleared when the copy is made.
IMU_PubClearsLast ==
  /\ UNCHANGED <<output, reader, reach, held, gnssTimer, lost, overtaken>>
  /\ imuTimer' = (imuTimer + 1) % 4
  /\ \/ Test(imuTimer, {"imu"}) /\ UNCHANGED <<Packet_Flag, message, sent>>
     \/ imuTimer = 1 /\ CopyFirst("imu")
     \/ imuTimer = 2 /\ CopyRest("imu") /\ UNCHANGED sent
     \/ /\ imuTimer = 3
        /\ Packet_Flag' = [Packet_Flag EXCEPT !["imu"] = FALSE]
        /\ sent' = [sent EXCEPT !["imu"] = message["imu"]]
        /\ UNCHANGED message

IMU_Pub ==
  /\ UNCHANGED <<output, reader, reach, held, gnssTimer, lost, overtaken>>
  /\ imuTimer' = (imuTimer + 1) % 4
  /\ \/ Test(imuTimer, {"imu"}) /\ UNCHANGED <<Packet_Flag, message, sent>>
     \/ imuTimer = 1 /\ Clear("imu")
     \/ imuTimer = 2 /\ CopyFirst("imu")
     \/ imuTimer = 3 /\ CopyRest("imu") /\ Publish({"imu"})

GNSS_Pub ==
  /\ UNCHANGED <<output, reader, reach, held, imuTimer, lost, overtaken>>
  /\ gnssTimer' = (gnssTimer + 1) % 7
  /\ \/ Test(gnssTimer, {"pos", "vel"}) /\ UNCHANGED <<Packet_Flag, message, sent>>
     \/ gnssTimer = 1 /\ Clear("pos")
     \/ gnssTimer = 2 /\ Clear("vel")
     \/ gnssTimer = 3 /\ CopyFirst("pos")
     \/ gnssTimer = 4 /\ CopyRest("pos") /\ UNCHANGED sent
     \/ gnssTimer = 5 /\ CopyFirst("vel")
     \/ gnssTimer = 6 /\ CopyRest("vel") /\ Publish({"pos", "vel"})

PublisherNext ==
  \/ \E k \in Kinds : Miss(k) \/ Begin(k)
  \/ Complete
  \/ readSerial
  \/ IMU_Pub
  \/ GNSS_Pub

PublisherSpec == PublisherInit /\ [][PublisherNext]_publisherVars

-----------------------------------------------------------------------------
(* Properties *)

\* The decoder is busy with a message of this kind, and will raise its flag.
Busy(k) == reader.at # "waiting" /\ reader.kind = k

FirstCopied(k) == message[k].first = held[k].first

Copied(k) == FirstCopied(k) /\ message[k].rest = held[k].rest

\* The timer that is at work will still publish what the struct holds.
UnderWay(k) ==
  CASE k = "imu" -> imuTimer = 2 \/ (imuTimer = 3 /\ FirstCopied(k))
    [] k = "pos" -> \/ gnssTimer \in {2, 3}
                    \/ gnssTimer = 4 /\ FirstCopied(k)
                    \/ gnssTimer \in {5, 6} /\ Copied(k)
    [] k = "vel" -> gnssTimer \in {3, 4, 5} \/ (gnssTimer = 6 /\ FirstCopied(k))

\* Flags and structs are shared without a lock, and still nothing that was decoded is
\* forgotten: what a struct holds was published last, or its flag is up or about to be
\* raised, or the copy that is being made will have it.  It is the order that does it:
\* fields before flag in the decoder, flag before fields in the timers.  A copy that the
\* decoder tore is therefore followed by one of what it wrote.
NoSampleIsForgotten ==
  \A k \in Kinds : sent[k] = held[k] \/ Packet_Flag[k] \/ Busy(k) \/ UnderWay(k)

\* The epochs of the two messages are not compared (iTow is decoded and not used).
\* A published position has the velocity of its own epoch as long as every message is
\* decoded in whole and each epoch is published before the next one arrives.
PairIsOfOneEpoch == lost \/ overtaken \/ sent["pos"] = sent["vel"]

=============================================================================
