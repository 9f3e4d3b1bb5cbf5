---------------------------- MODULE LocalizationProofs ----------------------------
(***************************************************************************)
(* Proofs about localisation: the publisher of the sensor samples, for any *)
(* number of samples and any interleaving of its threads, and the filter   *)
(* with the map of the ground station, for any places, headings and times. *)
(***************************************************************************)
EXTENDS Navigation, UbloxPublisher, TLAPS

\* A message of the kind is there, or will be: whatever the timer does now, it comes back.
Waiting(k) == Packet_Flag[k] \/ Busy(k)

FirstSent(k) == sent[k].first = held[k].first

RestSent(k) == sent[k].rest = held[k].rest

\* NoSampleIsForgotten, with the steps of the timers spelled out for each kind.  That the
\* struct was published does not help a timer that has begun to copy: what it copied must
\* be what the struct holds, or the flag comes up again.
NoneForgotten ==
  /\ \/ Waiting("imu") \/ imuTimer = 2
     \/ imuTimer \in {0, 1} /\ FirstSent("imu") /\ RestSent("imu")
     \/ imuTimer = 3 /\ FirstCopied("imu")
  /\ \/ Waiting("pos") \/ gnssTimer \in {2, 3}
     \/ gnssTimer \in {0, 1} /\ FirstSent("pos") /\ RestSent("pos")
     \/ gnssTimer = 4 /\ FirstCopied("pos")
     \/ gnssTimer \in {5, 6} /\ Copied("pos")
  /\ \/ Waiting("vel") \/ gnssTimer \in {3, 4, 5}
     \/ gnssTimer \in {0, 1, 2} /\ FirstSent("vel") /\ RestSent("vel")
     \/ gnssTimer = 6 /\ FirstCopied("vel")

SamplesInv == PublisherTypeOK /\ NoneForgotten

LEMMA SamplesAreNumbers ==
  ASSUME PublisherTypeOK, NEW k \in Kinds
  PROVE  /\ output[k] \in Nat
         /\ held[k].first \in Nat /\ held[k].rest \in Nat
         /\ message[k].first \in Nat /\ message[k].rest \in Nat
         /\ sent[k].first \in Nat /\ sent[k].rest \in Nat
<1>1. held[k] \in Sample /\ message[k] \in Sample /\ sent[k] \in Sample /\ output[k] \in Nat
  BY DEF PublisherTypeOK
<1> QED
  BY <1>1 DEF Sample

\* The effect of each access, field by field.
LEMMA CopyFirstEffect ==
  ASSUME PublisherTypeOK, NEW k \in Kinds, CopyFirst(k)
  PROVE  /\ message' \in [Kinds -> Sample] /\ UNCHANGED <<Packet_Flag, sent>>
         /\ \A j \in Kinds : /\ message'[j].first = IF j = k THEN held[k].first ELSE message[j].first
                             /\ message'[j].rest = message[j].rest
<1>1. message \in [Kinds -> Sample] /\ held[k].first \in Nat
  BY SamplesAreNumbers DEF PublisherTypeOK
<1>2. message' = [message EXCEPT ![k].first = held[k].first] /\ UNCHANGED <<Packet_Flag, sent>>
  BY DEF CopyFirst
<1> QED
  BY <1>1, <1>2 DEF Sample

LEMMA CopyRestEffect ==
  ASSUME PublisherTypeOK, NEW k \in Kinds, CopyRest(k)
  PROVE  /\ message' \in [Kinds -> Sample] /\ UNCHANGED Packet_Flag
         /\ \A j \in Kinds : /\ message'[j].rest = IF j = k THEN held[k].rest ELSE message[j].rest
                             /\ message'[j].first = message[j].first
<1>1. message \in [Kinds -> Sample] /\ held[k].rest \in Nat
  BY SamplesAreNumbers DEF PublisherTypeOK
<1>2. message' = [message EXCEPT ![k].rest = held[k].rest] /\ UNCHANGED Packet_Flag
  BY DEF CopyRest
<1> QED
  BY <1>1, <1>2 DEF Sample

LEMMA PublishEffect ==
  ASSUME PublisherTypeOK, message' \in [Kinds -> Sample], NEW kinds, Publish(kinds)
  PROVE  /\ sent' \in [Kinds -> Sample]
         /\ \A j \in Kinds : sent'[j] = IF j \in kinds THEN message'[j] ELSE sent[j]
BY DEF Publish, PublisherTypeOK

LEMMA ClearEffect ==
  ASSUME PublisherTypeOK, NEW k \in Kinds, Clear(k)
  PROVE  /\ Packet_Flag' \in [Kinds -> BOOLEAN] /\ UNCHANGED <<message, sent>>
         /\ \A j \in Kinds : Packet_Flag'[j] = IF j = k THEN FALSE ELSE Packet_Flag[j]
BY DEF Clear, PublisherTypeOK

\* The decoder.
LEMMA PaddedIsNumber ==
  ASSUME NEW k \in Kinds, NEW field \in Nat, NEW v \in Padded(k, field)
  PROVE  v \in Nat
BY DEF Padded

LEMMA BeginEffect ==
  ASSUME PublisherTypeOK, NEW k \in Kinds, Begin(k)
  PROVE  /\ output' \in [Kinds -> Nat] /\ reach' \in [Kinds -> 0..2] /\ held' \in [Kinds -> Sample]
         /\ lost' \in BOOLEAN /\ overtaken' \in BOOLEAN
         /\ reader.at = "waiting" /\ reader' = [at |-> "writing", kind |-> k]
         /\ \A j \in Kinds : /\ output'[j] = IF j = k THEN output[j] + 1 ELSE output[j]
                             /\ j # k => held'[j] = held[j] /\ reach'[j] = reach[j]
         /\ k # "imu" => \/ lost'
                         \/ (lost' <=> lost) /\ reach'[k] = 2 /\ held'[k].first = output'[k]
         /\ UNCHANGED <<Packet_Flag, imuTimer, gnssTimer, message, sent>>
<1>1. output \in [Kinds -> Nat] /\ reach \in [Kinds -> 0..2] /\ held \in [Kinds -> Sample]
      /\ lost \in BOOLEAN /\ overtaken \in BOOLEAN
  BY DEF PublisherTypeOK
<1>2. output' = [output EXCEPT ![k] = @ + 1] /\ reader.at = "waiting"
  BY DEF Begin, Output
<1>3. output' \in [Kinds -> Nat] /\ output'[k] \in Nat
      /\ \A j \in Kinds : output'[j] = IF j = k THEN output[j] + 1 ELSE output[j]
  BY <1>1, <1>2
<1>4. PICK r \in 0..2 :
        /\ reach' = [reach EXCEPT ![k] = r]
        /\ \E v \in IF r = 0 THEN Padded(k, held[k].first) ELSE {output'[k]} :
             held' = [held EXCEPT ![k].first = v]
        /\ lost' = (lost \/ (k # "imu" /\ r < 2))
  BY DEF Begin
<1>5. PICK v \in IF r = 0 THEN Padded(k, held[k].first) ELSE {output'[k]} :
        held' = [held EXCEPT ![k].first = v]
  BY <1>4
<1>6. v \in Nat /\ (r # 0 => v = output'[k])
  <2>1. CASE r = 0
    BY <1>5, <2>1, SamplesAreNumbers, PaddedIsNumber
  <2>2. CASE r # 0
    BY <1>3, <1>5, <2>2
  <2> QED
    BY <2>1, <2>2
<1>7. held' \in [Kinds -> Sample] /\ held'[k].first = v /\ \A j \in Kinds : j # k => held'[j] = held[j]
  BY <1>1, <1>5, <1>6 DEF Sample
<1>8. reach' \in [Kinds -> 0..2] /\ reach'[k] = r /\ \A j \in Kinds : j # k => reach'[j] = reach[j]
  BY <1>1, <1>4
<1>9. lost' \in BOOLEAN /\ overtaken' \in BOOLEAN
  BY <1>1, <1>4 DEF Begin
<1>10. k # "imu" => \/ lost'
                    \/ (lost' <=> lost) /\ reach'[k] = 2 /\ held'[k].first = output'[k]
  <2>1. CASE r < 2
    BY <1>1, <1>4, <2>1
  <2>2. CASE r = 2
    BY <1>1, <1>4, <1>6, <1>7, <1>8, <2>2
  <2> QED
    BY <2>1, <2>2
<1> QED
  BY <1>2, <1>3, <1>7, <1>8, <1>9, <1>10 DEF Begin

LEMMA CompleteEffect ==
  ASSUME PublisherTypeOK, Complete
  PROVE  /\ reader.kind \in Kinds /\ held' \in [Kinds -> Sample]
         /\ reader = [at |-> "writing", kind |-> reader.kind]
         /\ reader' = [at |-> "written", kind |-> reader.kind]
         /\ \A j \in Kinds : j # reader.kind => held'[j] = held[j]
         /\ held'[reader.kind].first = held[reader.kind].first
         /\ reach[reader.kind] = 2 => held'[reader.kind].rest = held[reader.kind].first
         /\ UNCHANGED <<output, reach, Packet_Flag, imuTimer, gnssTimer, message, sent, lost, overtaken>>
<1> DEFINE c == reader.kind
<1>1. c \in Kinds /\ reader = [at |-> reader.at, kind |-> c] /\ held \in [Kinds -> Sample]
  BY DEF PublisherTypeOK
<1>2. reader.at = "writing" /\ reader' = [at |-> "written", kind |-> c]
  BY <1>1 DEF Complete
<1>3. PICK v \in IF reach[c] = 2 THEN {held[c].first} ELSE Padded(c, held[c].rest) :
        held' = [held EXCEPT ![c].rest = v]
  BY DEF Complete
<1>4. held[c].first \in Nat /\ held[c].rest \in Nat
  BY <1>1, SamplesAreNumbers
<1>5. v \in Nat /\ (reach[c] = 2 => v = held[c].first)
  <2>1. CASE reach[c] = 2
    BY <1>3, <1>4, <2>1
  <2>2. CASE reach[c] # 2
    BY <1>1, <1>3, <1>4, <2>2, PaddedIsNumber
  <2> QED
    BY <2>1, <2>2
<1>6. /\ held' \in [Kinds -> Sample] /\ held'[c].first = held[c].first /\ held'[c].rest = v
      /\ \A j \in Kinds : j # c => held'[j] = held[j]
  BY <1>1, <1>3, <1>4, <1>5 DEF Sample
<1> QED
  BY <1>1, <1>2, <1>5, <1>6 DEF Complete

LEMMA ReadSerialEffect ==
  ASSUME PublisherTypeOK, readSerial
  PROVE  /\ reader.kind \in Kinds /\ Packet_Flag' \in [Kinds -> BOOLEAN]
         /\ reader = [at |-> "written", kind |-> reader.kind] /\ reader.at = "written"
         /\ reader' = [at |-> "waiting", kind |-> reader.kind] /\ reader'.at = "waiting"
         /\ \A j \in Kinds : Packet_Flag'[j] = IF j = reader.kind THEN TRUE ELSE Packet_Flag[j]
         /\ UNCHANGED <<output, reach, held, imuTimer, gnssTimer, message, sent, lost, overtaken>>
<1>1. reader.kind \in Kinds /\ reader = [at |-> reader.at, kind |-> reader.kind]
      /\ Packet_Flag \in [Kinds -> BOOLEAN]
  BY DEF PublisherTypeOK
<1> QED
  BY <1>1 DEF readSerial

LEMMA DecoderTyping ==
  ASSUME PublisherTypeOK, NEW k \in Kinds, Miss(k) \/ Begin(k) \/ Complete \/ readSerial
  PROVE  PublisherTypeOK'
<1>1. CASE Miss(k)
  <2>1. output' \in [Kinds -> Nat]
    BY <1>1 DEF Miss, Output, PublisherTypeOK
  <2> QED
    BY <1>1, <2>1 DEF Miss, PublisherTypeOK
<1>2. CASE Begin(k)
  <2>1. \A j \in Kinds : j # k => reach'[j] < 2 \/ held'[j].first = held'[j].rest
    BY <1>2, BeginEffect DEF PublisherTypeOK
  <2>2. reader' = [at |-> "writing", kind |-> k]
    BY <1>2, BeginEffect
  <2> QED
    BY <1>2, <2>1, <2>2, BeginEffect DEF PublisherTypeOK
<1>3. CASE Complete
  <2> DEFINE c == reader.kind
  <2>1. \A j \in Kinds : j # c => reach'[j] < 2 \/ held'[j].first = held'[j].rest
    BY <1>3, CompleteEffect DEF PublisherTypeOK
  <2>2. reach'[c] < 2 \/ held'[c].first = held'[c].rest
    <3>1. reach'[c] = reach[c] /\ reach[c] \in 0..2
      BY <1>3, CompleteEffect DEF PublisherTypeOK
    <3>2. CASE reach[c] = 2
      BY <1>3, <3>2, CompleteEffect
    <3> QED
      BY <3>1, <3>2
  <2> QED
    BY <1>3, <2>1, <2>2, CompleteEffect DEF PublisherTypeOK
<1>4. CASE readSerial
  <2>1. reader.at = "written" /\ reader' = [at |-> "waiting", kind |-> reader.kind]
        /\ reader.kind \in Kinds
    BY <1>4, ReadSerialEffect
  <2>2. \A j \in Kinds : reach[j] < 2 \/ held[j].first = held[j].rest
    BY <2>1 DEF PublisherTypeOK
  <2>3. UNCHANGED <<output, reach, held, imuTimer, gnssTimer, message, sent, lost, overtaken>>
        /\ Packet_Flag' \in [Kinds -> BOOLEAN]
    BY <1>4, ReadSerialEffect
  <2> QED
    BY <2>1, <2>2, <2>3 DEF PublisherTypeOK
<1> QED
  BY <1>1, <1>2, <1>3, <1>4

\* The timers.
LEMMA TimerTyping ==
  ASSUME PublisherTypeOK, IMU_Pub \/ GNSS_Pub
  PROVE  PublisherTypeOK'
<1>0. "imu" \in Kinds /\ "pos" \in Kinds /\ "vel" \in Kinds
  BY DEF Kinds
<1>1. UNCHANGED <<output, reader, reach, held, lost, overtaken>>
  BY DEF IMU_Pub, GNSS_Pub
<1>2. imuTimer' \in 0..3 /\ gnssTimer' \in 0..6
  BY DEF IMU_Pub, GNSS_Pub, PublisherTypeOK
<1>3. /\ Packet_Flag' \in [Kinds -> BOOLEAN]
      /\ message' \in [Kinds -> Sample] /\ sent' \in [Kinds -> Sample]
  <2>1. CASE UNCHANGED <<Packet_Flag, message, sent>>
    BY <2>1 DEF PublisherTypeOK
  <2>2. ASSUME NEW k \in Kinds, Clear(k) PROVE <1>3!1 /\ <1>3!2
    BY <2>2, ClearEffect DEF PublisherTypeOK
  <2>3. ASSUME NEW k \in Kinds, CopyFirst(k) PROVE <1>3!1 /\ <1>3!2
    BY <2>3, CopyFirstEffect DEF PublisherTypeOK
  <2>4. ASSUME NEW k \in Kinds, NEW kinds, CopyRest(k), UNCHANGED sent \/ Publish(kinds)
        PROVE  <1>3!1 /\ <1>3!2
    BY <2>4, CopyRestEffect, PublishEffect DEF PublisherTypeOK
  <2> QED
    BY <1>0, <2>1, <2>2, <2>3, <2>4 DEF IMU_Pub, GNSS_Pub
<1> QED
  BY <1>1, <1>2, <1>3 DEF PublisherTypeOK

\* What the decoder changes it raises the flag of.
LEMMA DecoderKeepsSamples ==
  ASSUME SamplesInv, NEW k \in Kinds, Miss(k) \/ Begin(k) \/ Complete \/ readSerial
  PROVE  SamplesInv'
<1>0. "imu" \in Kinds /\ "pos" \in Kinds /\ "vel" \in Kinds
  BY DEF Kinds
<1>1. PublisherTypeOK /\ PublisherTypeOK' /\ NoneForgotten
  BY DecoderTyping DEF SamplesInv
<1>2. UNCHANGED <<imuTimer, gnssTimer, message, sent>>
  BY DEF Miss, Begin, Complete, readSerial
<1>3. \A j \in Kinds : Waiting(j)' \/ (held'[j] = held[j] /\ ~Waiting(j))
  <2>1. CASE Miss(k)
    BY <2>1 DEF Miss, Waiting, Busy
  <2>2. CASE Begin(k)
    BY <1>1, <2>2, BeginEffect DEF Waiting, Busy
  <2>3. CASE Complete
    BY <1>1, <2>3, CompleteEffect DEF Waiting, Busy
  <2>4. CASE readSerial
    BY <1>1, <2>4, ReadSerialEffect DEF Waiting, Busy
  <2> QED
    BY <2>1, <2>2, <2>3, <2>4
<1>4. NoneForgotten'
  BY <1>0, <1>1, <1>2, <1>3 DEF NoneForgotten, FirstSent, RestSent, FirstCopied, Copied
<1> QED
  BY <1>1, <1>4 DEF SamplesInv

\* A timer that clears, copies and publishes one kind leaves the others alone, so each of
\* its steps is followed for that kind.
LEMMA ImuTimerKeepsSamples ==
  ASSUME SamplesInv, IMU_Pub
  PROVE  SamplesInv'
<1>0. "imu" \in Kinds /\ "pos" \in Kinds /\ "vel" \in Kinds
      /\ "imu" # "pos" /\ "imu" # "vel"
  BY DEF Kinds
<1>1. PublisherTypeOK /\ PublisherTypeOK' /\ NoneForgotten
  BY TimerTyping DEF SamplesInv
<1>2. UNCHANGED <<reader, held, gnssTimer>> /\ imuTimer' = (imuTimer + 1) % 4
  BY DEF IMU_Pub
<1>3. SUFFICES NoneForgotten'
  BY <1>1 DEF SamplesInv
<1>4. CASE Test(imuTimer, {"imu"}) /\ UNCHANGED <<Packet_Flag, message, sent>>
  <2>1. imuTimer = 0 /\ imuTimer' = 1
    BY <1>2, <1>4 DEF Test
  <2> QED
    BY <1>1, <1>2, <1>4, <2>1
       DEF NoneForgotten, Waiting, Busy, FirstSent, RestSent, FirstCopied, Copied
<1>5. CASE imuTimer = 1 /\ Clear("imu")
  <2>1. imuTimer' = 2
    BY <1>2, <1>5
  <2>2. UNCHANGED <<message, sent>> /\ Packet_Flag'["pos"] = Packet_Flag["pos"]
        /\ Packet_Flag'["vel"] = Packet_Flag["vel"]
    BY <1>0, <1>1, <1>5, ClearEffect
  <2> QED
    BY <1>1, <1>2, <2>1, <2>2
       DEF NoneForgotten, Waiting, Busy, FirstSent, RestSent, FirstCopied, Copied
<1>6. CASE imuTimer = 2 /\ CopyFirst("imu")
  <2>1. imuTimer' = 3
    BY <1>2, <1>6
  <2>2. /\ UNCHANGED <<Packet_Flag, sent>> /\ message'["imu"].first = held["imu"].first
        /\ \A j \in {"pos", "vel"} : /\ message'[j].first = message[j].first
                                     /\ message'[j].rest = message[j].rest
    BY <1>0, <1>1, <1>6, CopyFirstEffect
  <2> QED
    BY <1>1, <1>2, <2>1, <2>2
       DEF NoneForgotten, Waiting, Busy, FirstSent, RestSent, FirstCopied, Copied
<1>7. CASE imuTimer = 3 /\ CopyRest("imu") /\ Publish({"imu"})
  <2>1. imuTimer' = 0
    BY <1>2, <1>7
  <2>2. /\ UNCHANGED Packet_Flag /\ message' \in [Kinds -> Sample]
        /\ message'["imu"].rest = held["imu"].rest /\ message'["imu"].first = message["imu"].first
        /\ \A j \in {"pos", "vel"} : /\ message'[j].first = message[j].first
                                     /\ message'[j].rest = message[j].rest
    BY <1>0, <1>1, <1>7, CopyRestEffect
  <2>3. sent'["imu"] = message'["imu"] /\ sent'["pos"] = sent["pos"] /\ sent'["vel"] = sent["vel"]
    BY <1>0, <1>1, <1>7, <2>2, PublishEffect
  <2>4. Waiting("imu") \/ FirstCopied("imu")
    BY <1>1, <1>7 DEF NoneForgotten
  <2>5. Waiting("imu")' \/ (FirstSent("imu") /\ RestSent("imu"))'
    BY <1>2, <2>2, <2>3, <2>4 DEF Waiting, Busy, FirstCopied, FirstSent, RestSent
  <2> QED
    BY <1>1, <1>2, <2>1, <2>2, <2>3, <2>5
       DEF NoneForgotten, Waiting, Busy, FirstSent, RestSent, FirstCopied, Copied
<1> QED
  BY <1>4, <1>5, <1>6, <1>7 DEF IMU_Pub

LEMMA GnssTimerKeepsSamples ==
  ASSUME SamplesInv, GNSS_Pub
  PROVE  SamplesInv'
<1>0. "imu" \in Kinds /\ "pos" \in Kinds /\ "vel" \in Kinds
      /\ "imu" # "pos" /\ "imu" # "vel" /\ "pos" # "vel"
  BY DEF Kinds
<1>1. PublisherTypeOK /\ PublisherTypeOK' /\ NoneForgotten
  BY TimerTyping DEF SamplesInv
<1>2. UNCHANGED <<reader, held, imuTimer>> /\ gnssTimer' = (gnssTimer + 1) % 7
  BY DEF GNSS_Pub
<1>3. SUFFICES NoneForgotten'
  BY <1>1 DEF SamplesInv
<1>4. CASE Test(gnssTimer, {"pos", "vel"}) /\ UNCHANGED <<Packet_Flag, message, sent>>
  <2>1. gnssTimer = 0 /\ gnssTimer' = 1
    BY <1>2, <1>4 DEF Test
  <2> QED
    BY <1>1, <1>2, <1>4, <2>1
       DEF NoneForgotten, Waiting, Busy, FirstSent, RestSent, FirstCopied, Copied
<1>5. CASE gnssTimer = 1 /\ Clear("pos")
  <2>1. gnssTimer' = 2
    BY <1>2, <1>5
  <2>2. UNCHANGED <<message, sent>> /\ Packet_Flag'["imu"] = Packet_Flag["imu"]
        /\ Packet_Flag'["vel"] = Packet_Flag["vel"]
    BY <1>0, <1>1, <1>5, ClearEffect
  <2> QED
    BY <1>1, <1>2, <1>5, <2>1, <2>2
       DEF NoneForgotten, Waiting, Busy, FirstSent, RestSent, FirstCopied, Copied
<1>6. CASE gnssTimer = 2 /\ Clear("vel")
  <2>1. gnssTimer' = 3
    BY <1>2, <1>6
  <2>2. UNCHANGED <<message, sent>> /\ Packet_Flag'["imu"] = Packet_Flag["imu"]
    BY <1>0, <1>1, <1>6, ClearEffect
  <2> QED
    BY <1>1, <1>2, <2>1, <2>2
       DEF NoneForgotten, Waiting, Busy, FirstSent, RestSent, FirstCopied, Copied
<1>7. CASE gnssTimer = 3 /\ CopyFirst("pos")
  <2>1. gnssTimer' = 4
    BY <1>2, <1>7
  <2>2. /\ UNCHANGED <<Packet_Flag, sent>> /\ message'["pos"].first = held["pos"].first
        /\ message'["imu"].first = message["imu"].first
    BY <1>0, <1>1, <1>7, CopyFirstEffect
  <2> QED
    BY <1>1, <1>2, <2>1, <2>2
       DEF NoneForgotten, Waiting, Busy, FirstSent, RestSent, FirstCopied, Copied
<1>8. CASE gnssTimer = 4 /\ CopyRest("pos") /\ UNCHANGED sent
  <2>1. gnssTimer' = 5
    BY <1>2, <1>8
  <2>2. /\ UNCHANGED Packet_Flag /\ message'["pos"].rest = held["pos"].rest
        /\ message'["pos"].first = message["pos"].first
        /\ message'["imu"].first = message["imu"].first
    BY <1>0, <1>1, <1>8, CopyRestEffect
  <2> QED
    BY <1>1, <1>2, <1>8, <2>1, <2>2
       DEF NoneForgotten, Waiting, Busy, FirstSent, RestSent, FirstCopied, Copied
<1>9. CASE gnssTimer = 5 /\ CopyFirst("vel")
  <2>1. gnssTimer' = 6
    BY <1>2, <1>9
  <2>2. /\ UNCHANGED <<Packet_Flag, sent>> /\ message'["vel"].first = held["vel"].first
        /\ message'["imu"].first = message["imu"].first
        /\ message'["pos"].first = message["pos"].first /\ message'["pos"].rest = message["pos"].rest
    BY <1>0, <1>1, <1>9, CopyFirstEffect
  <2> QED
    BY <1>1, <1>2, <1>9, <2>1, <2>2
       DEF NoneForgotten, Waiting, Busy, FirstSent, RestSent, FirstCopied, Copied
<1>10. CASE gnssTimer = 6 /\ CopyRest("vel") /\ Publish({"pos", "vel"})
  <2>1. gnssTimer' = 0
    BY <1>2, <1>10
  <2>2. /\ UNCHANGED Packet_Flag /\ message' \in [Kinds -> Sample]
        /\ message'["vel"].rest = held["vel"].rest /\ message'["vel"].first = message["vel"].first
        /\ message'["imu"].first = message["imu"].first
        /\ message'["pos"].first = message["pos"].first /\ message'["pos"].rest = message["pos"].rest
    BY <1>0, <1>1, <1>10, CopyRestEffect
  <2>3. /\ sent'["imu"] = sent["imu"]
        /\ sent'["pos"] = message'["pos"] /\ sent'["vel"] = message'["vel"]
    BY <1>0, <1>1, <1>10, <2>2, PublishEffect
  <2>4. (Waiting("pos") \/ Copied("pos")) /\ (Waiting("vel") \/ FirstCopied("vel"))
    BY <1>1, <1>10 DEF NoneForgotten
  <2>5. /\ Waiting("pos")' \/ (FirstSent("pos") /\ RestSent("pos"))'
        /\ Waiting("vel")' \/ (FirstSent("vel") /\ RestSent("vel"))'
    BY <1>2, <2>2, <2>3, <2>4 DEF Waiting, Busy, FirstCopied, Copied, FirstSent, RestSent
  <2> QED
    BY <1>1, <1>2, <2>1, <2>2, <2>3, <2>5
       DEF NoneForgotten, Waiting, Busy, FirstSent, RestSent, FirstCopied
<1> QED
  BY <1>4, <1>5, <1>6, <1>7, <1>8, <1>9, <1>10 DEF GNSS_Pub

LEMMA SamplesStart == PublisherInit => SamplesInv
<1> SUFFICES ASSUME PublisherInit PROVE SamplesInv
  OBVIOUS
<1>1. Never \in Sample /\ Never.first = 0 /\ Never.rest = 0
  BY DEF Never, Sample
<1>2. /\ \A k \in Kinds : held[k] = Never /\ message[k] = Never /\ sent[k] = Never /\ output[k] = 0
      /\ imuTimer = 0 /\ gnssTimer = 0
  BY DEF PublisherInit
<1>3. PublisherTypeOK
  <2>1. /\ output \in [Kinds -> Nat] /\ Packet_Flag \in [Kinds -> BOOLEAN] /\ reach \in [Kinds -> 0..2]
        /\ held \in [Kinds -> Sample] /\ message \in [Kinds -> Sample] /\ sent \in [Kinds -> Sample]
    BY <1>1 DEF PublisherInit
  <2>2. reader \in [at : {"waiting", "writing", "written"}, kind : Kinds]
    BY DEF PublisherInit, Kinds
  <2>3. imuTimer \in 0..3 /\ gnssTimer \in 0..6
    BY <1>2
  <2>4. \A k \in Kinds : held[k].first = held[k].rest
    BY <1>1, <1>2
  <2>5. lost \in BOOLEAN /\ overtaken \in BOOLEAN
    BY DEF PublisherInit
  <2> QED
    BY <2>1, <2>2, <2>3, <2>4, <2>5 DEF PublisherTypeOK
<1>4. NoneForgotten
  BY <1>1, <1>2 DEF Kinds, NoneForgotten, FirstSent, RestSent
<1> QED
  BY <1>3, <1>4 DEF SamplesInv

THEOREM SamplesAreKept == PublisherSpec => []SamplesInv
<1>1. PublisherInit => SamplesInv
  BY SamplesStart
<1>2. SamplesInv /\ [PublisherNext]_publisherVars => SamplesInv'
  <2> SUFFICES ASSUME SamplesInv, [PublisherNext]_publisherVars PROVE SamplesInv'
    OBVIOUS
  <2>1. CASE IMU_Pub
    BY <2>1, ImuTimerKeepsSamples
  <2>2. CASE GNSS_Pub
    BY <2>2, GnssTimerKeepsSamples
  <2>3. CASE UNCHANGED publisherVars
    BY <2>3 DEF publisherVars, SamplesInv, PublisherTypeOK, NoneForgotten, Waiting, Busy,
                FirstSent, RestSent, FirstCopied, Copied
  <2> QED
    BY <2>1, <2>2, <2>3, DecoderKeepsSamples DEF PublisherNext, Kinds
<1> QED
  BY <1>1, <1>2, PTL DEF PublisherSpec

\* UbloxPublisher: a struct has the fields of one message unless the decoder is at work
\* on it or was given a read that ended inside the message.
THEOREM PublisherTyping == PublisherSpec => []PublisherTypeOK
<1>1. SamplesInv => PublisherTypeOK
  BY DEF SamplesInv
<1> QED
  BY <1>1, SamplesAreKept, PTL

\* readSerial, IMU_Pub, GNSS_Pub: without a lock, nothing that was decoded is forgotten.
THEOREM SamplesAreNotForgotten == PublisherSpec => []NoSampleIsForgotten
<1>1. SamplesInv => NoSampleIsForgotten
  <2> SUFFICES ASSUME SamplesInv, NEW k \in Kinds, ~Waiting(k), ~UnderWay(k) PROVE sent[k] = held[k]
    BY DEF NoSampleIsForgotten, Waiting
  <2>1. NoneForgotten /\ imuTimer \in 0..3 /\ gnssTimer \in 0..6
        /\ sent[k] \in Sample /\ held[k] \in Sample
    BY DEF SamplesInv, PublisherTypeOK
  <2>2. FirstSent(k) /\ RestSent(k)
    <3>1. CASE k = "imu"
      BY <2>1, <3>1 DEF NoneForgotten, UnderWay
    <3>2. CASE k = "pos"
      BY <2>1, <3>2 DEF NoneForgotten, UnderWay
    <3>3. CASE k = "vel"
      BY <2>1, <3>3 DEF NoneForgotten, UnderWay
    <3> QED
      BY <3>1, <3>2, <3>3 DEF Kinds
  <2> QED
    BY <2>1, <2>2 DEF FirstSent, RestSent, Sample
<1> QED
  BY <1>1, SamplesAreKept, PTL

-----------------------------------------------------------------------------
(* Positions and velocities of one epoch. *)

\* Nothing of the next epoch has begun.
Between == output["pos"] = output["vel"] /\ ~Busy("pos") /\ ~Busy("vel")

\* As long as nothing is lost or overtaken: a velocity's flag is up, or the timer at work,
\* only between two epochs; its position's flag is up before it; and what the timer has
\* copied is the epoch's.
Paired ==
  /\ sent["pos"] = sent["vel"]
  /\ held["pos"].first = output["pos"] /\ held["vel"].first = output["vel"]
  /\ reach["pos"] = 2 /\ reach["vel"] = 2
  /\ Packet_Flag["vel"] => Between /\ (Packet_Flag["pos"] \/ gnssTimer = 2)
  /\ gnssTimer # 0 => Between
  /\ output["pos"] \in {output["vel"], output["vel"] + 1}
  /\ Busy("vel") => output["pos"] = output["vel"]
  /\ Busy("vel") \/ (output["vel"] # output["pos"] /\ ~Busy("pos")) => Packet_Flag["pos"]
  /\ gnssTimer \in 4..6 => message["pos"].first = output["pos"]
  /\ gnssTimer \in 5..6 => message["pos"].rest = output["pos"]
  /\ gnssTimer = 6 => message["vel"].first = output["pos"]

PairInv == PublisherTypeOK /\ (lost \/ overtaken \/ Paired)

\* What Paired looks at.
LEMMA PairedIsLocal ==
  ASSUME Paired, UNCHANGED <<gnssTimer, message, sent>>,
         output'["pos"] = output["pos"], output'["vel"] = output["vel"],
         held'["pos"].first = held["pos"].first, held'["vel"].first = held["vel"].first,
         reach'["pos"] = reach["pos"], reach'["vel"] = reach["vel"],
         Packet_Flag'["pos"] <=> Packet_Flag["pos"], Packet_Flag'["vel"] <=> Packet_Flag["vel"],
         Busy("pos")' <=> Busy("pos"), Busy("vel")' <=> Busy("vel")
  PROVE  Paired'
<1>1. Between' <=> Between
  BY DEF Between
<1> QED
  BY <1>1 DEF Paired

\* The decoder's steps either spoil the history or keep the pairs.
LEMMA DecoderKeepsPairs ==
  ASSUME PairInv, NEW k \in Kinds, Miss(k) \/ Begin(k) \/ Complete \/ readSerial
  PROVE  PairInv'
<1>0. "imu" \in Kinds /\ "pos" \in Kinds /\ "vel" \in Kinds /\ Kinds = {"imu", "pos", "vel"}
  BY DEF Kinds
<1>1. PublisherTypeOK /\ PublisherTypeOK'
  BY DecoderTyping DEF PairInv
<1>2. UNCHANGED <<gnssTimer, message, sent>>
  BY DEF Miss, Begin, Complete, readSerial
<1> SUFFICES ASSUME ~lost', ~overtaken' PROVE Paired'
  BY <1>1 DEF PairInv
<1>3. lost \in BOOLEAN /\ overtaken \in BOOLEAN
  BY <1>1 DEF PublisherTypeOK
<1>4. ~lost /\ ~overtaken /\ Paired
  <2>1. CASE Begin(k)
    BY <1>3, <2>1 DEF PairInv, Begin
  <2>2. CASE Miss(k) \/ Complete \/ readSerial
    BY <1>3, <2>2 DEF PairInv, Miss, Complete, readSerial
  <2> QED
    BY <2>1, <2>2
<1>5. CASE Miss(k)
  <2>1. k = "imu" /\ UNCHANGED <<reader, reach, held, Packet_Flag>>
    BY <1>5 DEF Miss
  <2>2. output'["pos"] = output["pos"] /\ output'["vel"] = output["vel"]
    BY <1>0, <1>1, <1>5, <2>1 DEF Miss, Output, PublisherTypeOK
  <2>3. (Busy("pos")' <=> Busy("pos")) /\ (Busy("vel")' <=> Busy("vel"))
    BY <2>1 DEF Busy
  <2> QED
    BY <1>2, <1>4, <2>1, <2>2, <2>3, PairedIsLocal
<1>6. CASE Begin(k)
  <2>1. /\ reader.at = "waiting" /\ reader' = [at |-> "writing", kind |-> k] /\ UNCHANGED Packet_Flag
        /\ k # "imu" => gnssTimer = 0 /\ ~(Packet_Flag["pos"] /\ Packet_Flag["vel"])
        /\ k = "pos" => output["vel"] = output["pos"]
        /\ k = "vel" => output["vel"] # output["pos"]
    <3>1. output["vel"] \in Nat /\ output["pos"] \in Nat
      BY <1>0, <1>1, SamplesAreNumbers
    <3> QED
      BY <1>6, <3>1 DEF Begin, Output
  <2>2. k # "imu" => reach'[k] = 2 /\ held'[k].first = output'[k]
    BY <1>1, <1>6, BeginEffect
  <2>3. \A j \in Kinds : /\ output[j] \in Nat
                         /\ output'[j] = IF j = k THEN output[j] + 1 ELSE output[j]
                         /\ j # k => held'[j].first = held[j].first /\ reach'[j] = reach[j]
                         /\ j = k /\ k # "imu" => held'[j].first = output'[j] /\ reach'[j] = 2
    BY <1>1, <1>6, <2>2, BeginEffect, SamplesAreNumbers
  <2>4. \A j \in Kinds : ~Busy(j) /\ (Busy(j)' <=> j = k)
    BY <2>1 DEF Busy
  <2>5. CASE k = "imu"
    BY <1>0, <1>2, <1>4, <2>1, <2>3, <2>4, <2>5, PairedIsLocal
  <2>6. CASE k = "pos"
    <3>1. ~Packet_Flag["vel"] /\ gnssTimer = 0
      BY <1>4, <2>1, <2>6 DEF Paired
    <3>2. /\ output'["vel"] = output["vel"] /\ held'["vel"].first = output'["vel"]
          /\ held'["pos"].first = output'["pos"] /\ reach'["pos"] = 2 /\ reach'["vel"] = 2
      BY <1>0, <1>4, <2>3, <2>6 DEF Paired
    <3>3. /\ ~Packet_Flag'["vel"] /\ gnssTimer' = 0 /\ sent'["pos"] = sent'["vel"]
          /\ Busy("pos")' /\ ~Busy("vel")'
      BY <1>0, <1>2, <1>4, <2>1, <2>4, <2>6, <3>1 DEF Paired
    <3>4. output'["pos"] = output'["vel"] + 1
      BY <1>0, <2>1, <2>3, <2>6
    <3> QED
      BY <3>2, <3>3, <3>4 DEF Paired
  <2>7. CASE k = "vel"
    <3>1. ~Packet_Flag["vel"] /\ gnssTimer = 0 /\ Packet_Flag["pos"]
      BY <1>0, <1>4, <2>1, <2>4, <2>7 DEF Paired, Between
    <3>2. /\ output'["pos"] = output["pos"] /\ held'["pos"].first = output'["pos"]
          /\ held'["vel"].first = output'["vel"] /\ reach'["pos"] = 2 /\ reach'["vel"] = 2
      BY <1>0, <1>4, <2>3, <2>7 DEF Paired
    <3>3. /\ ~Packet_Flag'["vel"] /\ Packet_Flag'["pos"] /\ gnssTimer' = 0
          /\ sent'["pos"] = sent'["vel"]
      BY <1>2, <1>4, <2>1, <3>1 DEF Paired
    <3>4. output'["pos"] = output'["vel"]
      BY <1>0, <1>4, <2>1, <2>3, <2>7 DEF Paired
    <3> QED
      BY <3>2, <3>3, <3>4 DEF Paired
  <2> QED
    BY <1>0, <2>5, <2>6, <2>7
<1>7. CASE Complete
  <2>1. /\ UNCHANGED <<output, reach, Packet_Flag>>
        /\ reader.at = "writing" /\ reader'.at = "written" /\ reader'.kind = reader.kind
    BY <1>1, <1>7, CompleteEffect
  <2>2. \A j \in Kinds : held'[j].first = held[j].first
    BY <1>1, <1>7, CompleteEffect
  <2>3. \A j \in Kinds : Busy(j)' <=> Busy(j)
    BY <2>1 DEF Busy
  <2> QED
    BY <1>0, <1>2, <1>4, <2>1, <2>2, <2>3, PairedIsLocal
<1>8. CASE readSerial
  <2>1. /\ UNCHANGED <<output, reach, held>> /\ reader.kind \in Kinds
        /\ reader.at = "written" /\ reader'.at = "waiting"
        /\ \A j \in Kinds : Packet_Flag'[j] = IF j = reader.kind THEN TRUE ELSE Packet_Flag[j]
    BY <1>1, <1>8, ReadSerialEffect
  <2>2. \A j \in Kinds : (Busy(j) <=> j = reader.kind) /\ ~Busy(j)'
    BY <2>1 DEF Busy
  <2>3. CASE reader.kind = "imu"
    <3>1. (Packet_Flag'["pos"] <=> Packet_Flag["pos"]) /\ (Packet_Flag'["vel"] <=> Packet_Flag["vel"])
      BY <1>0, <2>1, <2>3
    <3> QED
      BY <1>0, <1>2, <1>4, <2>1, <2>2, <2>3, <3>1, PairedIsLocal
  <2>4. CASE reader.kind = "pos"
    <3>1. ~Packet_Flag["vel"] /\ gnssTimer = 0
      BY <1>0, <1>4, <2>2, <2>4 DEF Paired, Between
    <3>2. Packet_Flag'["pos"] /\ ~Packet_Flag'["vel"] /\ gnssTimer' = 0
      BY <1>0, <1>2, <2>1, <2>4, <3>1
    <3> QED
      BY <1>0, <1>2, <1>4, <2>1, <2>2, <3>2 DEF Paired
  <2>5. CASE reader.kind = "vel"
    <3>1. Packet_Flag["pos"] /\ gnssTimer = 0
      BY <1>0, <1>4, <2>2, <2>5 DEF Paired, Between
    <3>2. Packet_Flag'["pos"] /\ gnssTimer' = 0
      BY <1>0, <1>2, <2>1, <2>5, <3>1
    <3>3. Between'
      BY <1>0, <1>4, <2>1, <2>2, <2>5 DEF Between, Paired
    <3> QED
      BY <1>0, <1>2, <1>4, <2>1, <2>2, <3>2, <3>3 DEF Paired
  <2> QED
    BY <1>0, <2>1, <2>3, <2>4, <2>5
<1> QED
  BY <1>5, <1>6, <1>7, <1>8

\* IMU_Pub leaves alone what the pairs are made of.
LEMMA ImuTimerKeepsPairs ==
  ASSUME PairInv, IMU_Pub
  PROVE  PairInv'
<1>0. "imu" \in Kinds /\ "pos" \in Kinds /\ "vel" \in Kinds
  BY DEF Kinds
<1>1. PublisherTypeOK /\ PublisherTypeOK'
  BY TimerTyping DEF PairInv
<1>2. UNCHANGED <<output, reader, reach, held, gnssTimer, lost, overtaken>>
  BY DEF IMU_Pub
<1>3. \A k \in {"pos", "vel"} : /\ Packet_Flag'[k] <=> Packet_Flag[k]
                               /\ message'[k].first = message[k].first
                               /\ message'[k].rest = message[k].rest
                               /\ sent'[k] = sent[k]
  <2>1. CASE UNCHANGED <<Packet_Flag, message, sent>>
    BY <2>1
  <2>2. CASE Clear("imu")
    BY <1>0, <1>1, <2>2, ClearEffect
  <2>3. CASE CopyFirst("imu")
    BY <1>0, <1>1, <2>3, CopyFirstEffect
  <2>4. CASE CopyRest("imu") /\ Publish({"imu"})
    BY <1>0, <1>1, <2>4, CopyRestEffect, PublishEffect
  <2> QED
    BY <2>1, <2>2, <2>3, <2>4 DEF IMU_Pub
<1> QED
  BY <1>1, <1>2, <1>3 DEF PairInv, Paired, Between, Busy

\* GNSS_Pub copies and publishes both messages between two epochs.
LEMMA GnssTimerKeepsPairs ==
  ASSUME PairInv, GNSS_Pub
  PROVE  PairInv'
<1>0. "imu" \in Kinds /\ "pos" \in Kinds /\ "vel" \in Kinds
  BY DEF Kinds
<1>1. PublisherTypeOK /\ PublisherTypeOK'
  BY TimerTyping DEF PairInv
<1>2. UNCHANGED <<output, reader, reach, held, lost, overtaken>> /\ gnssTimer' = (gnssTimer + 1) % 7
  BY DEF GNSS_Pub
<1> SUFFICES ASSUME Paired PROVE Paired'
  BY <1>1, <1>2 DEF PairInv
<1>3. (Between' <=> Between) /\ (Busy("pos")' <=> Busy("pos")) /\ (Busy("vel")' <=> Busy("vel"))
  BY <1>2 DEF Between, Busy
<1>4. CASE Test(gnssTimer, {"pos", "vel"}) /\ UNCHANGED <<Packet_Flag, message, sent>>
  <2>1. gnssTimer' = 1 /\ gnssTimer = 0 /\ Packet_Flag["vel"]
    BY <1>2, <1>4 DEF Test
  <2> QED
    BY <1>2, <1>3, <1>4, <2>1 DEF Paired
<1>5. CASE gnssTimer # 0
  <2>1. /\ Between /\ ~Busy("vel") /\ output["pos"] = output["vel"]
        /\ held["pos"].first = output["pos"] /\ held["vel"].first = output["pos"]
        /\ reach["pos"] = 2 /\ reach["vel"] = 2
    BY <1>5 DEF Paired, Between
  <2>2. reader # [at |-> "writing", kind |-> "pos"] /\ reader # [at |-> "writing", kind |-> "vel"]
    BY <2>1 DEF Between, Busy
  <2>3. held["pos"].rest = output["pos"] /\ held["vel"].rest = output["pos"]
    BY <1>0, <1>1, <2>1, <2>2 DEF PublisherTypeOK
  <2>4. CASE gnssTimer = 1 /\ Clear("pos")
    <3>1. gnssTimer' = 2
      BY <1>2, <2>4
    <3>2. UNCHANGED <<message, sent>> /\ (Packet_Flag'["vel"] <=> Packet_Flag["vel"])
      <4>1. "vel" # "pos"
        OBVIOUS
      <4> QED
        BY <1>0, <1>1, <2>4, <4>1, ClearEffect
    <3> QED
      BY <1>2, <1>3, <2>1, <2>4, <3>1, <3>2 DEF Paired
  <2>5. CASE gnssTimer = 2 /\ Clear("vel")
    <3>1. gnssTimer' = 3
      BY <1>2, <2>5
    <3>2. UNCHANGED <<message, sent>> /\ ~Packet_Flag'["vel"]
      BY <1>0, <1>1, <2>5, ClearEffect
    <3> QED
      BY <1>2, <1>3, <2>1, <2>5, <3>1, <3>2 DEF Paired
  <2>6. CASE gnssTimer = 3 /\ CopyFirst("pos")
    <3>1. gnssTimer' = 4 /\ UNCHANGED <<Packet_Flag, sent>> /\ message'["pos"].first = output["pos"]
      BY <1>0, <1>1, <1>2, <2>1, <2>6, CopyFirstEffect
    <3> QED
      BY <1>2, <1>3, <2>1, <2>6, <3>1 DEF Paired
  <2>7. CASE gnssTimer = 4 /\ CopyRest("pos") /\ UNCHANGED sent
    <3>1. /\ gnssTimer' = 5 /\ UNCHANGED Packet_Flag /\ message'["pos"].rest = output["pos"]
          /\ message'["pos"].first = message["pos"].first
      BY <1>0, <1>1, <1>2, <2>3, <2>7, CopyRestEffect
    <3> QED
      BY <1>2, <1>3, <2>1, <2>7, <3>1 DEF Paired
  <2>8. CASE gnssTimer = 5 /\ CopyFirst("vel")
    <3>1. /\ gnssTimer' = 6 /\ UNCHANGED <<Packet_Flag, sent>> /\ message'["vel"].first = output["pos"]
          /\ message'["pos"].first = message["pos"].first /\ message'["pos"].rest = message["pos"].rest
      BY <1>0, <1>1, <1>2, <2>1, <2>8, CopyFirstEffect
    <3> QED
      BY <1>2, <1>3, <2>1, <2>8, <3>1 DEF Paired
  <2>9. CASE gnssTimer = 6 /\ CopyRest("vel") /\ Publish({"pos", "vel"})
    <3>1. /\ UNCHANGED Packet_Flag /\ message' \in [Kinds -> Sample]
          /\ message'["vel"].rest = output["pos"] /\ message'["vel"].first = output["pos"]
          /\ message'["pos"].rest = output["pos"] /\ message'["pos"].first = output["pos"]
      BY <1>0, <1>1, <2>3, <2>9, CopyRestEffect DEF Paired
    <3>2. message'["pos"] = message'["vel"]
      BY <1>0, <3>1 DEF Sample
    <3>3. sent'["pos"] = sent'["vel"]
      BY <1>0, <1>1, <2>9, <3>1, <3>2, PublishEffect
    <3>4. gnssTimer' = 0
      BY <1>2, <2>9
    <3>5. (Packet_Flag["vel"] => Packet_Flag["pos"])
      BY <2>9 DEF Paired
    <3> QED
      BY <1>2, <1>3, <2>1, <3>1, <3>3, <3>4, <3>5 DEF Paired
  <2> QED
    BY <1>5, <2>4, <2>5, <2>6, <2>7, <2>8, <2>9 DEF GNSS_Pub, Test
<1> QED
  BY <1>4, <1>5 DEF GNSS_Pub, Test

THEOREM PairsAreKept == PublisherSpec => []PairInv
<1>1. PublisherInit => PairInv
  <2> SUFFICES ASSUME PublisherInit PROVE Paired
    BY SamplesStart DEF PairInv, SamplesInv
  <2>1. "imu" \in Kinds /\ "pos" \in Kinds /\ "vel" \in Kinds
    BY DEF Kinds
  <2>2. /\ sent["pos"] = sent["vel"] /\ output["pos"] = 0 /\ output["vel"] = 0
        /\ held["pos"].first = 0 /\ held["vel"].first = 0 /\ reach["pos"] = 2 /\ reach["vel"] = 2
        /\ ~Packet_Flag["vel"] /\ gnssTimer = 0 /\ ~Busy("vel")
    BY <2>1 DEF PublisherInit, Never, Busy
  <2> QED
    BY <2>2 DEF Paired
<1>2. PairInv /\ [PublisherNext]_publisherVars => PairInv'
  <2> SUFFICES ASSUME PairInv, [PublisherNext]_publisherVars PROVE PairInv'
    OBVIOUS
  <2>1. CASE IMU_Pub
    BY <2>1, ImuTimerKeepsPairs
  <2>2. CASE GNSS_Pub
    BY <2>2, GnssTimerKeepsPairs
  <2>3. CASE UNCHANGED publisherVars
    BY <2>3 DEF publisherVars, PairInv, PublisherTypeOK, Paired, Between, Busy
  <2> QED
    BY <2>1, <2>2, <2>3, DecoderKeepsPairs DEF PublisherNext, Kinds
<1> QED
  BY <1>1, <1>2, PTL DEF PublisherSpec

\* GNSS_Pub: with every message decoded in whole and each epoch published before the next
\* one, a position is published with the velocity of its own epoch.
THEOREM PairsAreOfOneEpoch == PublisherSpec => []PairIsOfOneEpoch
<1>1. PairInv => PairIsOfOneEpoch
  BY DEF PairInv, Paired, PairIsOfOneEpoch
<1> QED
  BY <1>1, PairsAreKept, PTL

-----------------------------------------------------------------------------
\* The alignment ends as soon as its time is over.
AlignmentEnds == is_time_set /\ ~is_initialized => elapsed < AlignmentTime

\* The configuration's heading and the operator's are turned around once each way.
HeadingsAgree == yaw_init = -asked /\ (is_initialized => attitude = yaw_init)

\* All that is drawn on the map and sent from it.
Map == {_originLLH} \cup waypoints \cup sentPath

\* Without a fix there is no origin anywhere.
NoFixNoOrigin ==
  ~fix => /\ gps_pos_ecef = Zero /\ pos_origin = Zero
          /\ nav # NoNav => nav.origin = Zero
          /\ ~clicked => Map \subseteq {NoOrigin}

\* A car that stays where it had its first fix has no other place to mean.
OnePlace ==
  ~moved /\ fix => /\ gps_pos_ecef \in {Zero, place} /\ pos_origin \in {Zero, place}
                   /\ nav # NoNav => nav.origin \in {Zero, place}
                   /\ ~clicked => Map \subseteq {NoOrigin, place}

\* A filter that is not restarted has one origin, once it has one.
OneOrigin ==
  ~restarted => /\ pos_origin # Zero => is_initialized
                /\ nav # NoNav => nav.origin \in {Zero, pos_origin}
                /\ ~clicked => Map \subseteq {NoOrigin, pos_origin}

\* What is drawn on a map with an origin is measured from it.
DrawnEarly == NoOrigin \in waypoints \cup sentPath => early

OriginInv == NoFixNoOrigin /\ OnePlace /\ OneOrigin /\ DrawnEarly

NavInv == TypeOK /\ AlignmentEnds /\ HeadingsAgree

-----------------------------------------------------------------------------
(* Types and headings. *)

LEMMA NegatedTwice ==
  /\ \A y \in Yaws \cup {-InitialYaw, InitialYaw} : y \in Int /\ -(-y) = y
  /\ Headings \subseteq Int
BY InsGnssAssumption DEF Headings

LEMMA ImuKeepsHeadings ==
  ASSUME NavInv, ImuArrives
  PROVE  NavInv'
<1>1. TypeOK /\ InsTypeOK /\ ImuCallback /\ gap \in 0..GnssGap /\ GnssGap \in Nat
  BY NavigationAssumption DEF NavInv, TypeOK, ImuArrives
<1>2. gap' \in 0..GnssGap
  BY <1>1 DEF ImuArrives, TypeOK
<1>3. InsTypeOK' /\ AlignmentEnds' /\ (is_initialized' => attitude' = yaw_init')
  <2>1. CASE is_initialized
    <3>1. nav' = [origin |-> pos_origin, yaw |-> -attitude]
      BY <1>1, <2>1 DEF ImuCallback, PublishNavSol
    <3>2. nav' \in [origin : Origins, yaw : {-h : h \in Headings}]
      BY <1>1, <3>1 DEF InsTypeOK
    <3>3. UNCHANGED <<is_time_set, is_initialized, elapsed, pos_origin, attitude, gps_pos_ecef, yaw_init>>
      BY <1>1, <2>1 DEF ImuCallback
    <3> QED
      BY <1>1, <2>1, <3>2, <3>3 DEF InsTypeOK, NavInv, AlignmentEnds, HeadingsAgree
  <2>2. CASE ~is_initialized
    <3>1. /\ is_time_set' = TRUE /\ elapsed' = (IF is_time_set THEN elapsed + 1 ELSE 0)
          /\ UNCHANGED <<nav, gps_pos_ecef, yaw_init>> /\ Alignment
      BY <1>1, <2>2 DEF ImuCallback, SetTimeInit
    <3>2. elapsed' \in 0..AlignmentTime
      <4>1. /\ is_time_set => elapsed < AlignmentTime
            /\ elapsed \in 0..AlignmentTime /\ AlignmentTime \in Nat
        BY <1>1, <2>2, InsGnssAssumption DEF NavInv, AlignmentEnds, InsTypeOK
      <4> QED
        BY <3>1, <4>1
    <3>3. \/ /\ elapsed' < AlignmentTime
             /\ UNCHANGED <<is_initialized, pos_origin, attitude>>
          \/ is_initialized' = TRUE /\ pos_origin' = gps_pos_ecef /\ attitude' = yaw_init
      BY <3>1 DEF Alignment
    <3>4. InsTypeOK'
      BY <1>1, <3>1, <3>2, <3>3 DEF InsTypeOK
    <3>5. AlignmentEnds'
      BY <2>2, <3>3 DEF AlignmentEnds
    <3>6. is_initialized' => attitude' = yaw_init'
      BY <2>2, <3>1, <3>3
    <3> QED
      BY <3>4, <3>5, <3>6
  <2> QED
    BY <2>1, <2>2
<1>4. yaw_init' = -asked'
  BY <1>1 DEF ImuArrives, ImuCallback, NavInv, HeadingsAgree
<1> QED
  BY <1>1, <1>2, <1>3, <1>4 DEF ImuArrives, NavInv, TypeOK, HeadingsAgree, gcsVars, GcsTypeOK

LEMMA GnssKeepsHeadings ==
  ASSUME NavInv, GnssArrives
  PROVE  NavInv'
<1>1. TypeOK /\ InsTypeOK /\ GpsCallback(place) /\ place \in Places
  BY DEF NavInv, TypeOK, GnssArrives
<1>2. /\ gps_pos_ecef' = place
      /\ UNCHANGED <<pos_origin, attitude, is_time_set, is_initialized, elapsed, yaw_init>>
      /\ nav' = nav \/ nav' = [origin |-> pos_origin', yaw |-> -attitude']
  BY <1>1 DEF GpsCallback, UpdateMeasurementVector, Correct, PublishNavSol
<1>3. nav' \in [origin : Origins, yaw : {-h : h \in Headings}] \cup {NoNav}
  BY <1>1, <1>2 DEF InsTypeOK
<1>4. InsTypeOK'
  BY <1>1, <1>2, <1>3 DEF InsTypeOK, Origins
<1>5. gap' \in 0..GnssGap
  BY NavigationAssumption DEF GnssArrives
<1> QED
  BY <1>1, <1>2, <1>4, <1>5
     DEF GnssArrives, NavInv, TypeOK, AlignmentEnds, HeadingsAgree, gcsVars, GcsTypeOK

\* A heading is set, or the process started again.
LEMMA NewStartKeepsHeadings ==
  ASSUME NavInv, InsRestarts \/ \E yaw \in Yaws : SetYaw(yaw)
  PROVE  NavInv'
<1>1. TypeOK /\ InsTypeOK
  BY DEF NavInv, TypeOK
<1>2. /\ is_initialized' = FALSE /\ is_time_set' = FALSE /\ elapsed' = 0
      /\ pos_origin' = Zero /\ gps_pos_ecef' = Zero /\ UNCHANGED nav
  BY DEF SetYaw, InitYawCallback, InsRestarts, InsBegins, Reset
<1>3. /\ asked' \in Yaws \cup {-InitialYaw} /\ yaw_init' = -asked'
      /\ yaw_init' \in Headings /\ attitude' \in Headings
  <2>1. ASSUME NEW yaw \in Yaws, SetYaw(yaw) PROVE <1>3
    <3>1. asked' = yaw /\ yaw_init' = -yaw /\ attitude' = attitude
      BY <2>1 DEF SetYaw, InitYawCallback
    <3> QED
      BY <1>1, <3>1 DEF Headings, InsTypeOK
  <2>2. CASE InsRestarts
    <3>1. asked' = -InitialYaw /\ yaw_init' = InitialYaw /\ attitude' = 0
      BY <2>2 DEF InsRestarts, InsBegins
    <3>2. InitialYaw \in Int /\ -(-InitialYaw) = InitialYaw
      BY InsGnssAssumption
    <3> QED
      BY <3>1, <3>2 DEF Headings
  <2> QED
    BY <2>1, <2>2
<1>4. InsTypeOK'
  <2>1. elapsed' \in 0..AlignmentTime /\ Zero \in Origins
    BY <1>2, InsGnssAssumption DEF Origins
  <2> QED
    BY <1>1, <1>2, <1>3, <2>1 DEF InsTypeOK
<1>5. orders' \in 0..MaxOrders
  BY NavigationAssumption DEF SetYaw, InsRestarts, NavInv, TypeOK
<1>6. restarted' \in BOOLEAN /\ UNCHANGED <<gcsVars, place, fix, gap, moved, clicked, early>>
  BY DEF SetYaw, InsRestarts, NavInv, TypeOK
<1> QED
  BY <1>1, <1>2, <1>3, <1>4, <1>5, <1>6
     DEF NavInv, TypeOK, AlignmentEnds, HeadingsAgree, gcsVars, GcsTypeOK

\* The other steps leave the filter alone.
LEMMA WorldKeepsHeadings ==
  ASSUME NavInv,
         \/ FixIsFound \/ CarMoves
         \/ UNCHANGED vars
  PROVE  NavInv'
<1>1. UNCHANGED insVars /\ UNCHANGED gcsVars
  BY DEF FixIsFound, CarMoves, vars
<1>2. InsTypeOK' /\ GcsTypeOK'
  BY <1>1 DEF NavInv, TypeOK, insVars, gcsVars, InsTypeOK, GcsTypeOK
<1> QED
  BY <1>1, <1>2 DEF FixIsFound, CarMoves, vars, worldVars, insVars, NavInv, TypeOK,
                    AlignmentEnds, HeadingsAgree

LEMMA MapKeepsHeadings ==
  ASSUME NavInv, NavReachesTheMap \/ DrawWaypoint \/ EditPath \/ \E p \in Places : ClickOrigin(p)
  PROVE  NavInv'
<1>1. UNCHANGED insVars /\ UNCHANGED <<place, fix, gap, orders, asked, moved, restarted>>
      /\ clicked' \in BOOLEAN /\ early' \in BOOLEAN
  BY DEF NavReachesTheMap, DrawWaypoint, EditPath, ClickOrigin, worldVars, NavInv, TypeOK
<1>2. InsTypeOK' /\ InsTypeOK /\ GcsTypeOK
  BY <1>1 DEF NavInv, TypeOK, insVars, InsTypeOK
<1>3. GcsTypeOK'
  <2>1. CASE NavReachesTheMap
    <3>1. nav.origin \in Origins
      BY <1>2, <2>1 DEF NavReachesTheMap, InsTypeOK
    <3> QED
      BY <1>2, <2>1, <3>1 DEF NavReachesTheMap, _onNavState, IsOrigin, GcsTypeOK, Drawn, Origins
  <2>2. CASE DrawWaypoint \/ EditPath
    BY <1>2, <2>2 DEF DrawWaypoint, EditPath, addWaypoint, removeWaypoint, clearAll,
                      importPathFromText, sendGlobalPath, GcsTypeOK
  <2>3. CASE \E p \in Places : ClickOrigin(p)
    BY <1>2, <2>3 DEF ClickOrigin, setOrigin, GcsTypeOK, Drawn
  <2> QED
    BY <2>1, <2>2, <2>3
<1> QED
  BY <1>1, <1>2, <1>3 DEF insVars, NavInv, TypeOK, AlignmentEnds, HeadingsAgree

THEOREM HeadingsAreKept == Spec => []NavInv
<1>1. Init => NavInv
  <2> SUFFICES ASSUME Init PROVE NavInv
    OBVIOUS
  <2>1. InsTypeOK
    <3>1. Zero \in Origins /\ InitialYaw \in Headings /\ 0 \in Headings /\ 0 \in 0..AlignmentTime
      BY InsGnssAssumption DEF Origins, Headings
    <3> QED
      BY <3>1 DEF Init, InsInit, InsTypeOK
  <2>2. GcsTypeOK
    BY DEF Init, GcsInit, GcsTypeOK, Drawn
  <2>3. gap \in 0..GnssGap /\ orders \in 0..MaxOrders
    BY NavigationAssumption DEF Init
  <2>4. yaw_init = -asked
    BY NegatedTwice DEF Init, InsInit
  <2> QED
    BY <2>1, <2>2, <2>3, <2>4
       DEF Init, InsInit, NavInv, TypeOK, AlignmentEnds, HeadingsAgree
<1>2. NavInv /\ [Next]_vars => NavInv'
  BY ImuKeepsHeadings, GnssKeepsHeadings, NewStartKeepsHeadings, WorldKeepsHeadings,
     MapKeepsHeadings DEF Next
<1> QED
  BY <1>1, <1>2, PTL DEF Spec

\* InsGnss, GcsController, Navigation: in particular the clock of the alignment is bounded,
\* and the map never takes the zero vector for an origin.
THEOREM NavigationTyping == Spec => []TypeOK
<1>1. NavInv => TypeOK
  BY DEF NavInv
<1> QED
  BY <1>1, HeadingsAreKept, PTL

\* InitYawCallback, Alignment: a navigation state starts from the heading asked for last.
THEOREM HeadingStaysAsked == Spec => HeadingIsAsked
<1>1. NavInv /\ NavInv' /\ [Next]_vars => [nav' # nav => nav'.yaw = asked]_vars
  <2> SUFFICES ASSUME NavInv, NavInv', Next, nav' # nav PROVE nav'.yaw = asked
    OBVIOUS
  <2>1. /\ nav' = [origin |-> pos_origin', yaw |-> -attitude']
        /\ is_initialized' /\ asked' = asked
    BY DEF Next, ImuArrives, GnssArrives, ImuCallback, GpsCallback, PublishNavSol,
           FixIsFound, CarMoves, NavReachesTheMap, DrawWaypoint, EditPath, ClickOrigin, SetYaw,
           InitYawCallback, InsRestarts, InsBegins, insVars, worldVars
  <2>2. attitude' = -asked
    BY <2>1 DEF NavInv, HeadingsAgree
  <2>3. asked \in Int
    BY InsGnssAssumption DEF NavInv, TypeOK
  <2> QED
    BY <2>1, <2>2, <2>3
<1> QED
  BY <1>1, HeadingsAreKept, PTL DEF Spec, HeadingIsAsked

-----------------------------------------------------------------------------
(* Origins. *)

LEMMA PlacesAreNoZero ==
  ASSUME TypeOK
  PROVE  /\ Zero \notin Places /\ place \in Places /\ Map \subseteq Places \cup {NoOrigin}
         /\ pos_origin \in Places \cup {Zero}
         /\ nav # NoNav => nav.origin \in Places \cup {Zero}
BY InsGnssAssumption DEF TypeOK, GcsTypeOK, InsTypeOK, Drawn, Origins, Map

LEMMA ImuKeepsOrigins ==
  ASSUME TypeOK, OriginInv, ImuArrives
  PROVE  OriginInv'
<1>1. ImuCallback /\ UNCHANGED <<gcsVars, place, fix, moved, restarted, clicked, early, gps_pos_ecef>>
  BY DEF ImuArrives, ImuCallback
<1>2. Map' = Map
  BY <1>1 DEF gcsVars, Map
<1>3. CASE is_initialized
  <2>1. nav'.origin = pos_origin /\ UNCHANGED <<pos_origin, is_initialized>>
    BY <1>1, <1>3 DEF ImuCallback, PublishNavSol
  <2> QED
    BY <1>1, <1>2, <2>1 DEF OriginInv, NoFixNoOrigin, OnePlace, OneOrigin, DrawnEarly, gcsVars
<1>4. CASE ~is_initialized /\ UNCHANGED <<pos_origin, is_initialized>>
  <2>1. UNCHANGED nav
    BY <1>1, <1>4 DEF ImuCallback
  <2> QED
    BY <1>1, <1>2, <1>4, <2>1 DEF OriginInv, NoFixNoOrigin, OnePlace, OneOrigin, DrawnEarly, gcsVars
<1>5. CASE ~is_initialized /\ is_initialized' = TRUE /\ pos_origin' = gps_pos_ecef
  <2>1. UNCHANGED nav
    BY <1>1, <1>5 DEF ImuCallback
  <2>2. NoFixNoOrigin' /\ OnePlace'
    BY <1>1, <1>2, <1>5, <2>1 DEF OriginInv, NoFixNoOrigin, OnePlace
  <2>3. OneOrigin'
    <3>1. SUFFICES ASSUME ~restarted
                   PROVE  /\ nav # NoNav => nav.origin = Zero
                          /\ ~clicked => Map \subseteq {NoOrigin}
      BY <1>1, <1>2, <1>5, <2>1 DEF OneOrigin
    <3>2. pos_origin = Zero
      BY <1>5, <3>1 DEF OriginInv, OneOrigin
    <3> QED
      BY <3>1, <3>2, PlacesAreNoZero DEF OriginInv, OneOrigin
  <2>4. DrawnEarly'
    BY <1>1 DEF OriginInv, DrawnEarly, gcsVars
  <2> QED
    BY <2>2, <2>3, <2>4 DEF OriginInv
<1> QED
  BY <1>1, <1>3, <1>4, <1>5 DEF ImuCallback, Alignment

LEMMA SensorsKeepOrigins ==
  ASSUME TypeOK, OriginInv, GnssArrives \/ FixIsFound \/ CarMoves
  PROVE  OriginInv'
<1>1. UNCHANGED gcsVars /\ UNCHANGED <<pos_origin, is_initialized, restarted, clicked, early>>
  BY DEF GnssArrives, GpsCallback, Correct, FixIsFound, CarMoves, insVars
<1>2. Map' = Map
  BY <1>1 DEF gcsVars, Map
<1>3. CASE GnssArrives
  <2>1. fix /\ gps_pos_ecef' = place /\ UNCHANGED <<place, fix, moved>>
    BY <1>3 DEF GnssArrives, GpsCallback, UpdateMeasurementVector
  <2>2. nav' = nav \/ nav'.origin = pos_origin
    BY <1>1, <1>3 DEF GnssArrives, GpsCallback, PublishNavSol
  <2> QED
    BY <1>1, <1>2, <2>1, <2>2 DEF OriginInv, NoFixNoOrigin, OnePlace, OneOrigin, DrawnEarly, gcsVars
<1>4. CASE FixIsFound
  <2>1. ~fix /\ fix' /\ UNCHANGED <<gps_pos_ecef, nav, place, moved>>
    BY <1>4 DEF FixIsFound, insVars
  <2> QED
    BY <1>1, <1>2, <2>1 DEF OriginInv, NoFixNoOrigin, OnePlace, OneOrigin, DrawnEarly, gcsVars
<1>5. CASE CarMoves
  <2>1. UNCHANGED <<gps_pos_ecef, nav, fix>> /\ (fix => moved')
    BY <1>5 DEF CarMoves, insVars
  <2> QED
    BY <1>1, <1>2, <2>1 DEF OriginInv, NoFixNoOrigin, OnePlace, OneOrigin, DrawnEarly, gcsVars
<1> QED
  BY <1>3, <1>4, <1>5

LEMMA NewStartKeepsOrigins ==
  ASSUME TypeOK, OriginInv, InsRestarts \/ \E yaw \in Yaws : SetYaw(yaw)
  PROVE  OriginInv'
<1>1. /\ pos_origin' = Zero /\ gps_pos_ecef' = Zero /\ UNCHANGED nav
      /\ UNCHANGED gcsVars /\ UNCHANGED <<place, fix, moved, clicked, early>>
      /\ restarted' = (restarted \/ pos_origin # Zero)
  BY DEF SetYaw, InitYawCallback, InsRestarts, InsBegins, Reset
<1>2. Map' = Map
  BY <1>1 DEF gcsVars, Map
<1> QED
  BY <1>1, <1>2 DEF OriginInv, NoFixNoOrigin, OnePlace, OneOrigin, DrawnEarly, gcsVars

LEMMA MapKeepsOrigins ==
  ASSUME TypeOK, OriginInv,
         NavReachesTheMap \/ DrawWaypoint \/ EditPath \/ \E p \in Places : ClickOrigin(p)
  PROVE  OriginInv'
<1>0. DrawnEarly'
  <2>1. CASE DrawWaypoint
    BY <2>1 DEF OriginInv, DrawnEarly, DrawWaypoint, addWaypoint
  <2>2. CASE EditPath
    <3>1. UNCHANGED early
      BY <2>2 DEF EditPath, worldVars
    <3>2. NoOrigin \in (waypoints \cup sentPath)' => NoOrigin \in waypoints \cup sentPath
      BY <2>2 DEF EditPath, removeWaypoint, clearAll, importPathFromText, sendGlobalPath
    <3> QED
      BY <3>1, <3>2 DEF OriginInv, DrawnEarly
  <2>3. CASE NavReachesTheMap \/ \E p \in Places : ClickOrigin(p)
    BY <2>3 DEF OriginInv, DrawnEarly, NavReachesTheMap, ClickOrigin, worldVars, _onNavState, setOrigin
  <2> QED
    BY <2>1, <2>2, <2>3
<1>1. UNCHANGED insVars /\ UNCHANGED <<place, fix, moved, restarted>>
  BY DEF NavReachesTheMap, DrawWaypoint, EditPath, ClickOrigin, worldVars
<1>2. UNCHANGED <<pos_origin, gps_pos_ecef, nav, is_initialized>>
  BY <1>1 DEF insVars
<1>3. CASE NavReachesTheMap
  <2>1. /\ nav # NoNav /\ UNCHANGED clicked
        /\ Map' \subseteq Map \cup ({nav.origin} \ {Zero})
    BY <1>3 DEF NavReachesTheMap, worldVars, _onNavState, IsOrigin, Map
  <2> QED
    BY <1>0, <1>1, <1>2, <2>1 DEF OriginInv, NoFixNoOrigin, OnePlace, OneOrigin
<1>4. CASE DrawWaypoint \/ EditPath
  <2>1. UNCHANGED clicked
    BY <1>4 DEF DrawWaypoint, EditPath, worldVars
  <2>2. Map' \subseteq Map
    BY <1>4 DEF DrawWaypoint, EditPath, addWaypoint, removeWaypoint, clearAll,
                importPathFromText, sendGlobalPath, Map
  <2> QED
    BY <1>0, <1>1, <1>2, <2>1, <2>2 DEF OriginInv, NoFixNoOrigin, OnePlace, OneOrigin
<1>5. CASE \E p \in Places : ClickOrigin(p)
  <2>1. clicked'
    BY <1>5 DEF ClickOrigin
  <2> QED
    BY <1>0, <1>1, <1>2, <2>1 DEF OriginInv, NoFixNoOrigin, OnePlace, OneOrigin
<1> QED
  BY <1>3, <1>4, <1>5

THEOREM OriginsAreKept == Spec => []OriginInv
<1>1. Init => OriginInv
  BY DEF Init, InsInit, GcsInit, OriginInv, NoFixNoOrigin, OnePlace, OneOrigin, DrawnEarly, Map
<1>2. TypeOK /\ OriginInv /\ [Next]_vars => OriginInv'
  <2> SUFFICES ASSUME TypeOK, OriginInv, [Next]_vars PROVE OriginInv'
    OBVIOUS
  <2>1. CASE UNCHANGED vars
    BY <2>1 DEF vars, insVars, gcsVars, worldVars, OriginInv, NoFixNoOrigin, OnePlace,
                OneOrigin, DrawnEarly, Map
  <2> QED
    BY <2>1, ImuKeepsOrigins, SensorsKeepOrigins, NewStartKeepsOrigins, MapKeepsOrigins DEF Next
<1> QED
  BY <1>1, <1>2, NavigationTyping, PTL DEF Spec

\* Alignment, Reset, EKF::EKF, _onNavState, addWaypoint: once the filter has an origin, the
\* map has that one or none, and waypoints and path are measured from it, until the filter
\* begins anew (by a heading or as a process) and the car moves, the origin is clicked by
\* hand, or a waypoint is drawn on a map without origin.
THEOREM OriginsStayTogether == Spec => []OriginsAgree
<1>1. TypeOK /\ OriginInv => OriginsAgree
  <2> SUFFICES ASSUME TypeOK, OriginInv, ~(moved /\ restarted), ~clicked, pos_origin # Zero
               PROVE  OriginsAgree
    BY DEF OriginsAgree
  <2>1. Map \subseteq {pos_origin, NoOrigin}
    <3>1. CASE ~restarted
      BY <3>1 DEF OriginInv, OneOrigin
    <3>2. CASE ~moved
      BY <3>2 DEF OriginInv, NoFixNoOrigin, OnePlace
    <3> QED
      BY <3>1, <3>2
  <2> QED
    BY <2>1 DEF OriginsAgree, OriginInv, DrawnEarly, Map
<1> QED
  BY <1>1, NavigationTyping, OriginsAreKept, PTL
=============================================================================
