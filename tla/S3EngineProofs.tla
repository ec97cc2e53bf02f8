--------------------------- MODULE S3EngineProofs ---------------------------
(***************************************************************************)
(* Proofs about S3Engine, for every value of its constants: whatever       *)
(* packets arrive and in whatever order; and about RadioLink, where they   *)
(* come from the node.                                                     *)
(***************************************************************************)
EXTENDS RadioLink, SequenceTheorems, TLAPS

(* Modular numbers. *)

LEMMA Division ==
  ASSUME NEW m \in Nat \ {0}, NEW a \in Int
  PROVE  \E q \in Int, d \in 0 .. m - 1 : d = a % m /\ a = (m * q) + d
<1>1. a \div m \in Int /\ a % m \in 0 .. m - 1 /\ a = m * (a \div m) + (a % m)
  OBVIOUS
<1> QED
  BY <1>1

LEMMA Remainder ==
  ASSUME NEW m \in Nat \ {0}, NEW q \in Int, NEW r \in 0 .. m - 1
  PROVE  (m * q + r) % m = r
  OBVIOUS

LEMMA Distribute ==
  ASSUME NEW m \in Int, NEW p \in Int, NEW q \in Int
  PROVE  m * (p - q) = (m * p) - (m * q)
  OBVIOUS

\* With the products as variables, what is left is linear.
LEMMA AddDistance ==
  ASSUME NEW x \in Int, NEW y \in Int, NEW z \in Int, NEW d \in Int,
         NEW mp \in Int, NEW mq \in Int,
         x = mp + y, z - y = mq + d
  PROVE  x + d = (mp - mq) + z
  OBVIOUS

\* A count that stands at y modulo m and advances by the distance from y to z
\* stands at z.
LEMMA AdvanceTo ==
  ASSUME NEW m \in Nat \ {0}, NEW x \in Int, NEW y \in 0 .. m - 1,
         NEW z \in 0 .. m - 1, x % m = y
  PROVE  (x + Modulo(z, y, m)) % m = z
<1>1. PICK p \in Int : x = (m * p) + y
  BY Division
<1>2. z - y \in Int
  OBVIOUS
<1>3. PICK q \in Int, d \in 0 .. m - 1 : d = (z - y) % m /\ z - y = (m * q) + d
  BY <1>2, Division
<1>4. m * p \in Int /\ m * q \in Int
  OBVIOUS
<1>5. x + d = ((m * p) - (m * q)) + z
  BY <1>1, <1>3, <1>4, AddDistance
<1>6. x + d = (m * (p - q)) + z
  BY <1>5, Distribute
<1>7. p - q \in Int
  OBVIOUS
<1>8. (x + d) % m = z
  BY <1>6, <1>7, Remainder
<1> QED
  BY <1>3, <1>8 DEF Modulo

LEMMA ModuloRange ==
  ASSUME NEW m \in Nat \ {0}, NEW a \in Int, NEW b \in Int
  PROVE  Modulo(a, b, m) \in 0 .. m - 1
<1>1. a - b \in Int
  OBVIOUS
<1>2. PICK q \in Int, d \in 0 .. m - 1 : d = (a - b) % m
  BY <1>1, Division
<1> QED
  BY <1>2 DEF Modulo

LEMMA ConstantFacts ==
  /\ TickMod \in Nat \ {0} /\ IdMod \in Nat \ {0} /\ SeqMod \in Nat \ {0}
  /\ QueueLength \in Nat \ {0}
  /\ MaxFrameGap \in Nat /\ MaxSeqGap \in Nat /\ LinkGap \in Nat
  /\ Reject \in Nat /\ StepDown \in Nat /\ StepUp \in Nat
  BY EngineAssumption

-----------------------------------------------------------------------------
(* The operators the steps are built from. *)

LEMMA UnwrapTyped ==
  ASSUME NEW u \in Unwrapped, NEW tick \in 0 .. TickMod - 1
  PROVE  Unwrap(u, tick) \in Unwrapped
<1>a. tick \in Int /\ u.last \in Int
  BY ConstantFacts DEF Unwrapped
<1>1. Modulo(tick, u.last, TickMod) \in 0 .. TickMod - 1
  BY <1>a, ConstantFacts, ModuloRange
<1> QED
  BY <1>1, ConstantFacts DEF Unwrap, Unwrapped

LEMMA observeClockTyped ==
  ASSUME NEW p \in Int, time_offset \in Int
  PROVE  observeClock(p) \in Int
  BY ConstantFacts DEF observeClock, Clamp

\* mapTime() is what makes time stamps advance: any clock, any offset.
LEMMA mapTimeAdvances ==
  ASSUME NEW clock \in Nat, NEW last \in Nat, time_offset \in Int
  PROVE  mapTime(clock, last) \in Nat /\ (last # 0 => mapTime(clock, last) > last)
  BY DEF mapTime

\* A frame that is not a duplicate is ahead of the one before.
LEMMA MissedTyped ==
  ASSUME EngineTypeOK, frames # <<>>, ~IsDuplicate
  PROVE  /\ Missed \in Nat
         /\ have_source_frame => Missed = Delta - 1 /\ Delta \in Nat
<1>a. frames \in Seq([sample : Sample32, clock : Nat]) /\ last_source_frame_id \in 0 .. IdMod - 1
  BY DEF EngineTypeOK
<1>b. Head(frames) \in [sample : Sample32, clock : Nat]
  BY <1>a, HeadTailProperties
<1>1. Head(frames).sample \in Sample32 /\ last_source_frame_id \in 0 .. IdMod - 1
  BY <1>a, <1>b
<1>2. Head(frames).sample.frame_id \in Int /\ last_source_frame_id \in Int
  BY <1>1, ConstantFacts DEF Sample32
<1>3. Delta \in 0 .. IdMod - 1
  BY <1>2, ConstantFacts, ModuloRange DEF Delta
<1>4. have_source_frame => Delta # 0
  BY DEF IsDuplicate
<1> QED
  BY <1>3, <1>4, ConstantFacts DEF Missed

LEMMA CountGapsTyped ==
  ASSUME NEW seq \in 0 .. SeqMod - 1, NEW known \in BOOLEAN,
         last_packet_seq \in 0 .. SeqMod - 1, transport_gaps \in Nat,
         CountGaps(seq, known)
  PROVE  transport_gaps' \in Nat /\ last_packet_seq' \in 0 .. SeqMod - 1
<1>1. seq \in Int /\ last_packet_seq \in Int
  BY ConstantFacts
<1>2. Modulo(seq, last_packet_seq, SeqMod) \in 0 .. SeqMod - 1
  BY <1>1, ConstantFacts, ModuloRange
<1> QED
  BY <1>2, ConstantFacts DEF CountGaps

\* The packet at the head of the queue, and the queue without it.
LEMMA QueueHead ==
  ASSUME EngineTypeOK, rxQueue # <<>>
  PROVE  /\ Head(rxQueue).packet \in Packet /\ Head(rxQueue).rx_time \in Nat
         /\ Tail(rxQueue) \in Seq([packet : Packet, rx_time : Nat])
         /\ Len(Tail(rxQueue)) <= QueueLength
<1>1. rxQueue \in Seq([packet : Packet, rx_time : Nat]) /\ Len(rxQueue) <= QueueLength
  BY DEF EngineTypeOK
<1>2. /\ Head(rxQueue) \in [packet : Packet, rx_time : Nat]
      /\ Tail(rxQueue) \in Seq([packet : Packet, rx_time : Nat])
      /\ Len(Tail(rxQueue)) = Len(rxQueue) - 1 /\ Len(rxQueue) \in Nat
  BY <1>1, HeadTailProperties, LenProperties
<1> QED
  BY <1>1, <1>2, ConstantFacts

LEMMA PacketFields ==
  ASSUME NEW p \in Packet
  PROVE  /\ p.seq \in 0 .. SeqMod - 1
         /\ p.type = "META" => p.boot_id \in Nat
         /\ p.type = "SAMPLES" => p.samples \in Seq(Sample32)
  BY DEF Packet

LEMMA FramesHead ==
  ASSUME EngineTypeOK, frames # <<>>
  PROVE  /\ Head(frames).sample \in Sample32 /\ Head(frames).clock \in Nat
         /\ Tail(frames) \in Seq([sample : Sample32, clock : Nat])
<1>1. frames \in Seq([sample : Sample32, clock : Nat])
  BY DEF EngineTypeOK
<1>2. /\ Head(frames) \in [sample : Sample32, clock : Nat]
      /\ Tail(frames) \in Seq([sample : Sample32, clock : Nat])
  BY <1>1, HeadTailProperties
<1> QED
  BY <1>2

LEMMA SourceRebootTyped ==
  ASSUME EngineTypeOK, NEW called \in BOOLEAN, SourceReboot(called)
  PROVE  /\ epoch' \in Nat /\ last_mapped_time' \in Nat /\ unwrap' \in Unwrapped
         /\ have_source_frame' \in BOOLEAN /\ have_clock_offset' \in BOOLEAN
<1>1. NoUnwrap \in Unwrapped
  BY ConstantFacts DEF NoUnwrap, Unwrapped
<1>2. epoch' \in Nat /\ last_mapped_time' \in Nat
  <2>1. /\ epoch' = IF called THEN epoch + 1 ELSE epoch
        /\ last_mapped_time' = IF called THEN 0 ELSE last_mapped_time
    BY DEF SourceReboot
  <2>2. epoch \in Nat /\ last_mapped_time \in Nat
    BY DEF EngineTypeOK
  <2> QED
    BY <2>1, <2>2
<1>3. unwrap' \in Unwrapped
  BY <1>1 DEF SourceReboot, EngineTypeOK
<1>4. have_source_frame' \in BOOLEAN /\ have_clock_offset' \in BOOLEAN
  BY DEF SourceReboot
<1> QED
  BY <1>2, <1>3, <1>4

-----------------------------------------------------------------------------
(* Type correctness, action by action. *)

LEMMA TypeInit == EngineInit => EngineTypeOK
<1> SUFFICES ASSUME EngineInit PROVE EngineTypeOK
  OBVIOUS
<1>1. NoUnwrap \in Unwrapped
  BY ConstantFacts DEF NoUnwrap, Unwrapped
<1>2. NoFrame \in [sample : Sample32 \cup {NoSample}, sample_time : Nat,
                   gap_flag : BOOLEAN, epoch : Nat]
  BY DEF NoFrame
<1>3. NoAnchor \in [sample : Sample32 \cup {NoSample}, clock : Nat, known : BOOLEAN,
                    good : Nat, missing : Nat]
  BY DEF NoAnchor
<1>4. /\ rxQueue = <<>> /\ unread = <<>> /\ frames = <<>>
      /\ Len(<<>>) <= QueueLength
  BY ConstantFacts DEF EngineInit
<1>5. 0 \in 0 .. SeqMod - 1 /\ 0 \in 0 .. IdMod - 1
  BY ConstantFacts
<1>6. /\ rxQueue \in Seq([packet : Packet, rx_time : Nat])
      /\ unread \in Seq(Sample32)
      /\ frames \in Seq([sample : Sample32, clock : Nat])
  BY <1>4
<1>7. /\ phase \in {"idle", "unwrap", "frames"}
      /\ {pending_unwrap, unwrap} \subseteq Unwrapped
      /\ {time, rx_time, last_link_us, last_mapped_time} \subseteq Nat
      /\ {transport_gaps, rx_good_frames, missing_frames, duplicates, epoch} \subseteq Nat
      /\ last_boot_id \in Nat /\ time_offset \in Int
  BY <1>1 DEF EngineInit
<1>8. /\ last_packet_seq \in 0 .. SeqMod - 1 /\ last_source_frame_id \in 0 .. IdMod - 1
      /\ have_packet_seq \in BOOLEAN /\ have_meta \in BOOLEAN
      /\ have_clock_offset \in BOOLEAN /\ have_source_frame \in BOOLEAN
  BY <1>5 DEF EngineInit
<1>9. out = NoFrame /\ anchor = NoAnchor
  BY DEF EngineInit
<1> QED
  BY <1>2, <1>3, <1>4, <1>6, <1>7, <1>8, <1>9 DEF EngineTypeOK

LEMMA TypeNotification ==
  ASSUME EngineTypeOK, NEW p \in Messages, notificationCB(p)
  PROVE  EngineTypeOK'
<1>1. p \in Packet
  BY MessagesAssumption
<1>2. rxQueue' \in Seq([packet : Packet, rx_time : Nat]) /\ Len(rxQueue') <= QueueLength
  <2>1. /\ rxQueue \in Seq([packet : Packet, rx_time : Nat]) /\ Len(rxQueue) <= QueueLength
        /\ [packet |-> p, rx_time |-> time] \in [packet : Packet, rx_time : Nat]
    BY <1>1 DEF EngineTypeOK
  <2>2. CASE Len(rxQueue) < QueueLength
    <3>1. rxQueue' = Append(rxQueue, [packet |-> p, rx_time |-> time])
      BY <2>2 DEF notificationCB
    <3> QED
      BY <2>1, <2>2, <3>1, AppendProperties, LenProperties, ConstantFacts
  <2>3. CASE ~(Len(rxQueue) < QueueLength)
    BY <2>1, <2>3 DEF notificationCB
  <2> QED
    BY <2>2, <2>3
<1> QED
  BY <1>2 DEF EngineTypeOK, notificationCB, packetVars, seqVars, metaVars, clockVars,
              frameVars

LEMMA TypeReceive ==
  ASSUME EngineTypeOK, Receive
  PROVE  /\ rxQueue' \in Seq([packet : Packet, rx_time : Nat])
         /\ Len(rxQueue') <= QueueLength
         /\ last_link_us' \in Nat
         /\ Head(rxQueue).packet \in Packet /\ Head(rxQueue).rx_time \in Nat
  BY QueueHead DEF Receive

LEMMA TypeMeta ==
  ASSUME EngineTypeOK, handleMeta
  PROVE  EngineTypeOK'
<1> DEFINE packet == Head(rxQueue).packet
           lost   == LinkWasLost(Head(rxQueue).rx_time)
           called == lost \/ IsReboot(packet)
           known  == have_packet_seq /\ ~lost
<1>1. Receive /\ packet.type = "META" /\ CountGaps(packet.seq, known) /\ SourceReboot(called)
  BY DEF handleMeta
<1>2. /\ rxQueue' \in Seq([packet : Packet, rx_time : Nat])
      /\ Len(rxQueue') <= QueueLength /\ last_link_us' \in Nat /\ packet \in Packet
  BY <1>1, TypeReceive
<1>3. packet.seq \in 0 .. SeqMod - 1 /\ packet.boot_id \in Nat
  BY <1>1, <1>2, PacketFields
<1>4. called \in BOOLEAN /\ known \in BOOLEAN
  BY DEF LinkWasLost, IsReboot
<1>5. last_packet_seq \in 0 .. SeqMod - 1 /\ transport_gaps \in Nat
  BY DEF EngineTypeOK
<1>6. transport_gaps' \in Nat /\ last_packet_seq' \in 0 .. SeqMod - 1
  BY <1>1, <1>3, <1>4, <1>5, CountGapsTyped
<1>7. /\ epoch' \in Nat /\ last_mapped_time' \in Nat /\ unwrap' \in Unwrapped
      /\ have_source_frame' \in BOOLEAN /\ have_clock_offset' \in BOOLEAN
  BY <1>1, <1>4, SourceRebootTyped
<1>8. /\ have_packet_seq' \in BOOLEAN /\ have_meta' = TRUE /\ last_boot_id' = packet.boot_id
      /\ UNCHANGED <<time, packetVars, time_offset, last_source_frame_id,
                     rx_good_frames, missing_frames, duplicates, out, anchor>>
  BY DEF handleMeta, IsReboot
<1> QED
  BY <1>2, <1>3, <1>6, <1>7, <1>8 DEF EngineTypeOK, packetVars

LEMMA TypeSamples ==
  ASSUME EngineTypeOK, handleSamples
  PROVE  EngineTypeOK'
<1> DEFINE packet == Head(rxQueue).packet
           lost   == LinkWasLost(Head(rxQueue).rx_time)
           known  == have_packet_seq /\ ~lost
<1>1. Receive /\ packet.type = "SAMPLES" /\ CountGaps(packet.seq, known) /\ SourceReboot(lost)
  BY DEF handleSamples
<1>2. /\ rxQueue' \in Seq([packet : Packet, rx_time : Nat])
      /\ Len(rxQueue') <= QueueLength /\ last_link_us' \in Nat
      /\ packet \in Packet /\ Head(rxQueue).rx_time \in Nat
  BY <1>1, TypeReceive
<1>3. packet.seq \in 0 .. SeqMod - 1 /\ packet.samples \in Seq(Sample32)
  BY <1>1, <1>2, PacketFields
<1>4. lost \in BOOLEAN /\ known \in BOOLEAN
  BY DEF LinkWasLost
<1>5. last_packet_seq \in 0 .. SeqMod - 1 /\ transport_gaps \in Nat
  BY DEF EngineTypeOK
<1>6. transport_gaps' \in Nat /\ last_packet_seq' \in 0 .. SeqMod - 1
  BY <1>1, <1>3, <1>4, <1>5, CountGapsTyped
<1>7. /\ epoch' \in Nat /\ last_mapped_time' \in Nat /\ unwrap' \in Unwrapped
      /\ have_source_frame' \in BOOLEAN /\ have_clock_offset' \in BOOLEAN
  BY <1>1, <1>4, SourceRebootTyped
<1>8. /\ have_packet_seq' = TRUE /\ pending_unwrap' = unwrap' /\ unread' = packet.samples
      /\ frames' = <<>> /\ rx_time' = Head(rxQueue).rx_time /\ phase' = "unwrap"
      /\ UNCHANGED <<time, metaVars, time_offset, last_source_frame_id,
                     rx_good_frames, missing_frames, duplicates, out, anchor>>
  BY DEF handleSamples
<1> QED
  BY <1>2, <1>3, <1>6, <1>7, <1>8, EmptySeq DEF EngineTypeOK, metaVars

LEMMA TypeSampleUnwrapped ==
  ASSUME EngineTypeOK, sampleUnwrapped
  PROVE  EngineTypeOK'
<1>1. unread \in Seq(Sample32) /\ unread # <<>> /\ pending_unwrap \in Unwrapped
  BY DEF EngineTypeOK, sampleUnwrapped
<1>2. Head(unread) \in Sample32 /\ Tail(unread) \in Seq(Sample32)
  BY <1>1, HeadTailProperties
<1>3. pending_unwrap' \in Unwrapped
  <2>1. Head(unread).tick \in 0 .. TickMod - 1
    BY <1>2 DEF Sample32
  <2> QED
    BY <1>1, <2>1, UnwrapTyped DEF sampleUnwrapped
<1>4. frames' \in Seq([sample : Sample32, clock : Nat])
  <2>1. [sample |-> Head(unread), clock |-> pending_unwrap'.high] \in [sample : Sample32, clock : Nat]
    BY <1>2, <1>3 DEF Unwrapped
  <2>2. frames \in Seq([sample : Sample32, clock : Nat])
    BY DEF EngineTypeOK
  <2> QED
    BY <2>1, <2>2, AppendProperties DEF sampleUnwrapped
<1>5. unread' = Tail(unread)
  BY DEF sampleUnwrapped
<1>6. UNCHANGED <<time, phase, rx_time, queueVars, seqVars, metaVars, clockVars,
                  frameVars, epoch>>
  BY DEF sampleUnwrapped
<1> QED
  BY <1>2, <1>3, <1>4, <1>5, <1>6 DEF EngineTypeOK, queueVars, seqVars, metaVars, clockVars,
     frameVars

\* The packet in hand is let go.
LEMMA DoneTyped ==
  ASSUME Done
  PROVE  /\ phase' = "idle" /\ unread' \in Seq(Sample32)
         /\ frames' \in Seq([sample : Sample32, clock : Nat])
         /\ pending_unwrap' \in Unwrapped /\ rx_time' \in Nat
<1>1. NoUnwrap \in Unwrapped
  BY ConstantFacts DEF NoUnwrap, Unwrapped
<1> QED
  BY <1>1 DEF Done

LEMMA TypePacketRefused ==
  ASSUME EngineTypeOK, packetRefused
  PROVE  EngineTypeOK'
<1>1. Done /\ duplicates' = duplicates + 1
      /\ UNCHANGED <<time, queueVars, seqVars, metaVars, clockVars, epoch,
                     have_source_frame, last_source_frame_id, rx_good_frames,
                     missing_frames, last_mapped_time, out, anchor>>
  BY DEF packetRefused
<1>2. duplicates \in Nat
  BY DEF EngineTypeOK
<1>3. duplicates' \in Nat
  BY <1>1, <1>2
<1>4. UNCHANGED <<time, queueVars, seqVars, metaVars, clockVars, epoch,
                  have_source_frame, last_source_frame_id, rx_good_frames,
                  missing_frames, last_mapped_time, out, anchor>>
  BY <1>1
<1> QED
  BY <1>1, <1>3, <1>4, DoneTyped DEF EngineTypeOK, queueVars, seqVars, metaVars, clockVars

LEMMA TypePacketUnwrapped ==
  ASSUME EngineTypeOK, packetUnwrapped
  PROVE  EngineTypeOK'
<1>1. time_offset' \in Int
  <2>1. rx_time - pending_unwrap.high \in Int /\ time_offset \in Int
    <3>1. rx_time \in Nat /\ pending_unwrap \in Unwrapped /\ time_offset \in Int
      BY DEF EngineTypeOK
    <3>2. pending_unwrap.high \in Nat
      BY <3>1 DEF Unwrapped
    <3> QED
      BY <3>1, <3>2
  <2> QED
    BY <2>1, observeClockTyped DEF packetUnwrapped
<1>2. /\ unwrap' = pending_unwrap /\ have_clock_offset' = TRUE /\ phase' = "frames"
      /\ UNCHANGED <<time, unread, frames, pending_unwrap, rx_time, queueVars, seqVars,
                     metaVars, frameVars, epoch>>
  BY DEF packetUnwrapped
<1> QED
  BY <1>1, <1>2 DEF EngineTypeOK, queueVars, seqVars, metaVars, frameVars

LEMMA TypeFrameRefused ==
  ASSUME EngineTypeOK, frameRefused
  PROVE  EngineTypeOK'
<1>1. Tail(frames) \in Seq([sample : Sample32, clock : Nat])
  BY FramesHead DEF frameRefused
<1>2. duplicates' = duplicates + 1 /\ frames' = Tail(frames)
      /\ UNCHANGED <<time, phase, unread, pending_unwrap, rx_time, queueVars, seqVars,
                     metaVars, clockVars, epoch, have_source_frame, last_source_frame_id,
                     rx_good_frames, missing_frames, last_mapped_time, out, anchor>>
  BY DEF frameRefused
<1>3. duplicates \in Nat
  BY DEF EngineTypeOK
<1>4. duplicates' \in Nat
  BY <1>2, <1>3
<1>5. frames' = Tail(frames)
      /\ UNCHANGED <<time, phase, unread, pending_unwrap, rx_time, queueVars, seqVars,
                     metaVars, clockVars, epoch, have_source_frame, last_source_frame_id,
                     rx_good_frames, missing_frames, last_mapped_time, out, anchor>>
  BY <1>2
<1> QED
  BY <1>1, <1>4, <1>5 DEF EngineTypeOK, queueVars, seqVars, metaVars, clockVars

LEMMA TypeFrameReceived ==
  ASSUME EngineTypeOK, frameReceived
  PROVE  EngineTypeOK'
<1> DEFINE s == Head(frames).sample
           t == mapTime(Head(frames).clock, last_mapped_time)
<1>1. /\ s \in Sample32 /\ Head(frames).clock \in Nat
      /\ Tail(frames) \in Seq([sample : Sample32, clock : Nat])
  BY FramesHead DEF frameReceived
<1>2. t \in Nat
  <2>1. last_mapped_time \in Nat /\ time_offset \in Int
    BY DEF EngineTypeOK
  <2> QED
    BY <1>1, <2>1, mapTimeAdvances
<1>3. Missed \in Nat
  BY MissedTyped DEF frameReceived
<1>4. s.frame_id \in 0 .. IdMod - 1
  BY <1>1 DEF Sample32
<1>5. out' \in [sample : Sample32 \cup {NoSample}, sample_time : Nat,
                gap_flag : BOOLEAN, epoch : Nat]
  <2>1. out' = [sample |-> s, sample_time |-> t, gap_flag |-> Missed > 0, epoch |-> epoch]
    BY DEF frameReceived
  <2>2. epoch \in Nat /\ (Missed > 0) \in BOOLEAN
    BY <1>3 DEF EngineTypeOK
  <2> HIDE DEF s, t
  <2> QED
    BY <1>1, <1>2, <2>1, <2>2
<1>6. anchor' \in [sample : Sample32 \cup {NoSample}, clock : Nat, known : BOOLEAN,
                   good : Nat, missing : Nat]
  <2>1. anchor' = IF have_source_frame THEN anchor
                  ELSE [sample |-> s, clock |-> Head(frames).clock, known |-> have_meta,
                        good |-> rx_good_frames, missing |-> missing_frames]
    BY DEF frameReceived
  <2>2. /\ have_meta \in BOOLEAN /\ rx_good_frames \in Nat /\ missing_frames \in Nat
        /\ anchor \in [sample : Sample32 \cup {NoSample}, clock : Nat, known : BOOLEAN,
                       good : Nat, missing : Nat]
    BY DEF EngineTypeOK
  <2> HIDE DEF s
  <2> QED
    BY <1>1, <2>1, <2>2
<1>7. /\ frames' = Tail(frames) /\ missing_frames' = missing_frames + Missed
      /\ rx_good_frames' = rx_good_frames + 1 /\ last_source_frame_id' = s.frame_id
      /\ have_source_frame' = TRUE /\ last_mapped_time' = t
      /\ UNCHANGED <<time, phase, unread, pending_unwrap, rx_time, queueVars, seqVars,
                     metaVars, clockVars, epoch, duplicates>>
  BY DEF frameReceived
<1> HIDE DEF s, t
<1>8. {missing_frames, rx_good_frames} \subseteq Nat
  BY DEF EngineTypeOK
<1>9. {missing_frames', rx_good_frames', last_mapped_time'} \subseteq Nat
  BY <1>2, <1>3, <1>7, <1>8
<1> QED
  BY <1>1, <1>4, <1>5, <1>6, <1>7, <1>9 DEF EngineTypeOK, queueVars, seqVars, metaVars, clockVars

LEMMA TypePacketDone ==
  ASSUME EngineTypeOK, packetDone
  PROVE  EngineTypeOK'
<1>1. Done /\ UNCHANGED <<time, queueVars, seqVars, metaVars, clockVars, frameVars, epoch>>
  BY DEF packetDone
<1> QED
  BY <1>1, DoneTyped DEF EngineTypeOK, queueVars, seqVars, metaVars, clockVars, frameVars

LEMMA TypeClockTick ==
  ASSUME EngineTypeOK, ClockTick
  PROVE  EngineTypeOK'
  BY DEF EngineTypeOK, ClockTick, queueVars, packetVars, seqVars, metaVars, clockVars, frameVars

LEMMA TypeStep == EngineTypeOK /\ [EngineNext]_engineVars => EngineTypeOK'
<1> SUFFICES ASSUME EngineTypeOK, [EngineNext]_engineVars PROVE EngineTypeOK'
  OBVIOUS
<1>1. CASE \E packet \in Messages : notificationCB(packet)
  BY <1>1, TypeNotification
<1>2. CASE handleRadioPacket
  BY <1>2, TypeMeta, TypeSamples, TypeSampleUnwrapped, TypePacketRefused,
     TypePacketUnwrapped, TypeFrameRefused, TypeFrameReceived, TypePacketDone
     DEF handleRadioPacket
<1>3. CASE ClockTick
  BY <1>3, TypeClockTick
<1>4. CASE UNCHANGED engineVars
  BY <1>4 DEF EngineTypeOK, engineVars, queueVars, packetVars, seqVars, metaVars, clockVars,
              frameVars
<1> QED
  BY <1>1, <1>2, <1>3, <1>4 DEF EngineNext

\* Every variable of the engine keeps its type, whatever packets arrive: in
\* particular no counter goes negative over a wrap of frame_id, bundle_seq or
\* the node's clock, and rxQueue never holds more than QueueLength packets.
THEOREM EngineTypeCorrect == EngineSpec => []EngineTypeOK
<1> QED
  BY TypeInit, TypeStep, PTL DEF EngineSpec

-----------------------------------------------------------------------------
(* The frames of an epoch.  LossesAreCounted and TimestampsAdvance speak of  *)
(* the counters and of the frame last assembled; what makes them inductive   *)
(* is that the engine's own memory of that frame agrees with it.             *)

FrameInv ==
  have_source_frame =>
    /\ anchor.sample \in Sample32
    /\ last_mapped_time = out.sample_time

EngineInv == EngineTypeOK /\ FrameInv /\ LossesAreCounted

frameMemory == <<have_source_frame, last_source_frame_id, rx_good_frames, missing_frames,
                 last_mapped_time, out, anchor>>

\* A step that leaves the stream's memory alone, or forgets it.
LEMMA FrameMemoryKept ==
  ASSUME EngineInv, UNCHANGED frameMemory
  PROVE  (FrameInv /\ LossesAreCounted)'
  BY DEF EngineInv, FrameInv, LossesAreCounted, frameMemory

LEMMA FrameMemoryForgotten ==
  ASSUME EngineInv, NEW called \in BOOLEAN, SourceReboot(called),
         UNCHANGED <<last_source_frame_id, rx_good_frames, missing_frames, out, anchor>>
  PROVE  (FrameInv /\ LossesAreCounted)'
<1>1. CASE called
  <2>1. have_source_frame' = FALSE
    BY <1>1 DEF SourceReboot
  <2> QED
    BY <2>1 DEF FrameInv, LossesAreCounted
<1>2. CASE ~called
  <2>1. have_source_frame' <=> have_source_frame
    BY <1>2 DEF SourceReboot
  <2>2. last_mapped_time' = last_mapped_time
    BY <1>2 DEF SourceReboot
  <2> QED
    BY <2>1, <2>2 DEF EngineInv, FrameInv, LossesAreCounted
<1> QED
  BY <1>1, <1>2

\* receiveFrame(): the counters advance by the distance frame_id advances.
LEMMA FrameCounted ==
  ASSUME EngineInv, frameReceived
  PROVE  (FrameInv /\ LossesAreCounted)'
<1> DEFINE s == Head(frames).sample
           t == mapTime(Head(frames).clock, last_mapped_time)
<1>1. EngineTypeOK
  BY DEF EngineInv
<1>2. s \in Sample32 /\ s.frame_id \in 0 .. IdMod - 1
  <2>1. s \in Sample32
    BY <1>1, FramesHead DEF frameReceived
  <2> QED
    BY <2>1 DEF Sample32
<1>3. /\ Missed \in Nat
      /\ have_source_frame => Missed = Delta - 1 /\ Delta \in Nat
  BY <1>1, MissedTyped DEF frameReceived
<1>4. /\ rx_good_frames \in Nat /\ missing_frames \in Nat
      /\ last_source_frame_id \in 0 .. IdMod - 1
  BY <1>1 DEF EngineTypeOK
<1>5. /\ have_source_frame' = TRUE /\ last_mapped_time' = t
      /\ out' = [sample |-> s, sample_time |-> t, gap_flag |-> Missed > 0, epoch |-> epoch]
      /\ anchor' = IF have_source_frame THEN anchor
                   ELSE [sample |-> s, clock |-> Head(frames).clock, known |-> have_meta,
                         good |-> rx_good_frames, missing |-> missing_frames]
  BY DEF frameReceived
<1>6. /\ missing_frames' = missing_frames + Missed
      /\ rx_good_frames' = rx_good_frames + 1
      /\ last_source_frame_id' = s.frame_id
  BY DEF frameReceived
<1>7. FrameInv'
  <2>1. out'.sample_time = t
    BY <1>5
  <2>2. anchor'.sample \in Sample32
    BY <1>2, <1>5 DEF EngineInv, FrameInv
  <2> QED
    BY <1>5, <2>1, <2>2 DEF FrameInv
<1>8. LossesAreCounted'
  <2>1. CASE have_source_frame
    <3> DEFINE x == anchor.sample.frame_id + (rx_good_frames - anchor.good)
                      + (missing_frames - anchor.missing) - 1
               y == anchor'.sample.frame_id + (rx_good_frames' - anchor'.good)
                      + (missing_frames' - anchor'.missing) - 1
    <3>1. anchor' = anchor
      BY <1>5, <2>1
    <3>2. anchor.good \in Nat /\ anchor.missing \in Nat
      BY <1>1 DEF EngineTypeOK
    <3>3. anchor.sample.frame_id \in Nat
      BY <2>1 DEF EngineInv, FrameInv, Sample32
    <3>4. x \in Int /\ x % IdMod = last_source_frame_id
      BY <1>4, <2>1, <3>2, <3>3 DEF EngineInv, LossesAreCounted
    <3>5. y = x + Delta
      BY <1>3, <1>4, <1>6, <2>1, <3>1, <3>2, <3>3
    <3>6. Delta = Modulo(s.frame_id, last_source_frame_id, IdMod)
      BY DEF Delta
    <3> HIDE DEF x
    <3>7. (x + Modulo(s.frame_id, last_source_frame_id, IdMod)) % IdMod = s.frame_id
      BY <1>2, <1>4, <3>4, ConstantFacts, AdvanceTo
    <3>8. y % IdMod = s.frame_id
      BY <3>5, <3>6, <3>7
    <3> QED
      BY <1>6, <3>8 DEF LossesAreCounted
  <2>2. CASE ~have_source_frame
    <3>1. /\ anchor'.sample = s /\ anchor'.good = rx_good_frames
          /\ anchor'.missing = missing_frames
      BY <1>5, <2>2
    <3>2. Missed = 0
      BY <2>2 DEF Missed
    <3>3. anchor'.sample.frame_id + (rx_good_frames' - anchor'.good)
            + (missing_frames' - anchor'.missing) - 1 = s.frame_id
      BY <1>2, <1>4, <1>6, <3>1, <3>2
    <3>4. s.frame_id % IdMod = s.frame_id
      BY <1>2, ConstantFacts
    <3> QED
      BY <1>6, <3>3, <3>4 DEF LossesAreCounted
  <2> QED
    BY <2>1, <2>2
<1> QED
  BY <1>7, <1>8

LEMMA InvInit == EngineInit => EngineInv
  BY TypeInit DEF EngineInit, EngineInv, FrameInv, LossesAreCounted

LEMMA InvStep == EngineInv /\ [EngineNext]_engineVars => EngineInv'
<1> SUFFICES ASSUME EngineInv, [EngineNext]_engineVars PROVE (FrameInv /\ LossesAreCounted)'
  BY TypeStep DEF EngineInv
<1>1. CASE \E packet \in Messages : notificationCB(packet)
  <2>1. UNCHANGED frameMemory
    BY <1>1 DEF notificationCB, frameVars, frameMemory
  <2> QED
    BY <2>1, FrameMemoryKept
<1>2. CASE handleMeta
  <2>1. /\ SourceReboot(LinkWasLost(Head(rxQueue).rx_time) \/ IsReboot(Head(rxQueue).packet))
        /\ UNCHANGED <<last_source_frame_id, rx_good_frames, missing_frames, out, anchor>>
    BY <1>2 DEF handleMeta
  <2> QED
    BY <2>1, FrameMemoryForgotten
<1>3. CASE handleSamples
  <2>1. /\ SourceReboot(LinkWasLost(Head(rxQueue).rx_time))
        /\ UNCHANGED <<last_source_frame_id, rx_good_frames, missing_frames, out, anchor>>
    BY <1>3 DEF handleSamples
  <2>2. LinkWasLost(Head(rxQueue).rx_time) \in BOOLEAN
    BY DEF LinkWasLost
  <2> QED
    BY <2>1, <2>2, FrameMemoryForgotten
<1>4. CASE sampleUnwrapped \/ packetUnwrapped \/ packetDone
  <2>1. UNCHANGED frameMemory
    BY <1>4 DEF sampleUnwrapped, packetUnwrapped, packetDone, frameVars, frameMemory
  <2> QED
    BY <2>1, FrameMemoryKept
<1>5. CASE packetRefused \/ frameRefused
  <2>1. UNCHANGED frameMemory
    BY <1>5 DEF packetRefused, frameRefused, frameMemory
  <2> QED
    BY <2>1, FrameMemoryKept
<1>6. CASE frameReceived
  BY <1>6, FrameCounted
<1>7. CASE ClockTick \/ UNCHANGED engineVars
  <2>1. UNCHANGED frameMemory
    BY <1>7 DEF ClockTick, engineVars, frameVars, frameMemory
  <2> QED
    BY <2>1, FrameMemoryKept
<1> QED
  BY <1>1, <1>2, <1>3, <1>4, <1>5, <1>6, <1>7 DEF EngineNext, handleRadioPacket

\* The loss accounting of receiveFrame() is exact in every epoch: delivered and
\* missing add up to what the node numbered, across wraps of frame_id,
\* duplicates and refused packets.
THEOREM LossesCounted == EngineSpec => []LossesAreCounted
<1>1. EngineInv => LossesAreCounted
  BY DEF EngineInv
<1> QED
  BY <1>1, InvInit, InvStep, PTL DEF EngineSpec

LEMMA StepAdvances ==
  ASSUME EngineInv, [EngineNext]_engineVars
  PROVE  [frameIn /\ have_source_frame =>
            out.sample_time = 0 \/ out'.sample_time > out.sample_time]_engineVars
<1> SUFFICES ASSUME frameIn, have_source_frame, out.sample_time # 0
             PROVE  out'.sample_time > out.sample_time
  OBVIOUS
<1>1. frameReceived
  BY DEF frameIn, EngineNext, handleRadioPacket, notificationCB, handleMeta, handleSamples,
         sampleUnwrapped, packetUnwrapped, packetDone, packetRefused, frameRefused, ClockTick,
         engineVars, frameVars
<1>2. EngineTypeOK /\ last_mapped_time = out.sample_time
  BY DEF EngineInv, FrameInv
<1>3. Head(frames).clock \in Nat
  BY <1>1, <1>2, FramesHead DEF frameReceived
<1>4. last_mapped_time \in Nat /\ time_offset \in Int
  BY <1>2 DEF EngineTypeOK
<1>5. mapTime(Head(frames).clock, last_mapped_time) > last_mapped_time
  BY <1>2, <1>3, <1>4, mapTimeAdvances
<1>6. out'.sample_time = mapTime(Head(frames).clock, last_mapped_time)
  BY <1>1 DEF frameReceived
<1> QED
  BY <1>2, <1>5, <1>6

\* Whatever the node's clock, the latency of the packets and the estimate of
\* the offset do, sample_time_us never stands still or goes back in an epoch.
THEOREM TimestampsNeverStandStill == EngineSpec => TimestampsAdvance
<1>1. EngineInv /\ [EngineNext]_engineVars =>
        [frameIn /\ have_source_frame =>
           out.sample_time = 0 \/ out'.sample_time > out.sample_time]_engineVars
  BY StepAdvances
<1> QED
  BY <1>1, InvInit, InvStep, PTL DEF EngineSpec, TimestampsAdvance

-----------------------------------------------------------------------------
(***************************************************************************)
(* The composed link, RadioLink: samples stay in order on their way from   *)
(* the node to DATA.                                                       *)
(***************************************************************************)

LinkSample == [frame_id : Int, tick : Int, boot : Nat \ {0}, number : Nat]
LinkPacket ==
       [type : {"SAMPLES"}, seq : Int, samples : Seq(LinkSample)]
  \cup [type : {"META"}, seq : Int, boot_id : Nat]
LinkUnwrap == [initialized : BOOLEAN, last : Int, high : Int]
LinkFrame  == [sample : LinkSample, clock : Int]
Received   == [packet : LinkPacket, rx_time : Int]
Underway   == [packet : LinkPacket, sent_at : Int, again : BOOLEAN]

LinkTypeOK ==
  /\ ordered \in Builds
  /\ time \in Int
  /\ rxQueue \in Seq(Received)
  /\ air \in Seq(Underway)
  /\ unread \in Seq(LinkSample)
  /\ frames \in Seq(LinkFrame)
  /\ pending_unwrap \in LinkUnwrap
  /\ unwrap \in LinkUnwrap
  /\ rx_good_frames \in Nat
  /\ rx_good_frames > 0 => out.sample \in LinkSample
  /\ last_boot_id \in Nat
  /\ boot \in Nat \ {0}
  /\ taken \in Nat
  /\ oldest \in Nat
  /\ boot_at \in Int
  /\ packet_seq \in Int
  /\ up \in BOOLEAN

\* Sample s was taken before t.  Without order on the way (o), samples of one
\* boot may overtake each other.
Before(o, s, t) == s.boot < t.boot \/ (s.boot = t.boot /\ (o => s.number < t.number))

AllBefore(o, S, T) == \A s \in S, t \in T : Before(o, s, t)

Elements(s)  == {s[i] : i \in 1 .. Len(s)}
SamplesIn(p) == IF p.type = "SAMPLES" THEN Elements(p.samples) ELSE {}
SamplesOf(q) == UNION {SamplesIn(m.packet) : m \in Elements(q)}

\* Where a sample is on its way from the node to DATA, and all places at once.
Delivered == IF rx_good_frames > 0 THEN {out.sample} ELSE {}
InFrames  == {f.sample : f \in Elements(frames)}
InUnread  == Elements(unread)
InQueue   == SamplesOf(rxQueue)
InAir     == SamplesOf(air)
Coming    == InFrames \cup InUnread \cup InQueue \cup InAir

Sorted(o, q) == \A i, j \in 1 .. Len(q) : i < j => Before(o, q[i], q[j])

SortedFrames(o, f) == \A i, j \in 1 .. Len(f) : i < j => Before(o, f[i].sample, f[j].sample)

\* What maybeSend() bundles: samples in a row, few enough for a packet.
Run(q) == \A i \in 1 .. Len(q) : q[i].boot = q[1].boot /\ q[i].number = q[1].number + (i - 1)

SortedPacket(o, p) ==
  p.type = "SAMPLES" => Sorted(o, p.samples) /\ Run(p.samples) /\ Len(p.samples) <= MaxSent[o]

Precedes(o, p, q) ==
  /\ AllBefore(o, SamplesIn(p), SamplesIn(q))
  /\ p.type = "META" => \A t \in SamplesIn(q) : p.boot_id <= t.boot

SortedPackets(o, q) ==
  \A k, l \in 1 .. Len(q) : k < l => Precedes(o, q[k].packet, q[l].packet)

\* Every place keeps the order,
PlacesInOrder ==
  /\ SortedFrames(ordered, frames)
  /\ Sorted(ordered, unread)
  /\ \A m \in Elements(rxQueue) : SortedPacket(ordered, m.packet)
  /\ \A m \in Elements(air) : SortedPacket(ordered, m.packet)
  /\ SortedPackets(ordered, rxQueue)
  /\ ordered => SortedPackets(ordered, air)

\* and so do the places among each other.
StagesInOrder ==
  /\ AllBefore(ordered, Delivered, Coming)
  /\ AllBefore(ordered, InFrames, InUnread \cup InQueue \cup InAir)
  /\ AllBefore(ordered, InUnread, InQueue \cup InAir)
  /\ AllBefore(ordered, InQueue, InAir)

\* The numbers a sample carries are those of its number in the boot.
Genuine(s) ==
  s.frame_id = s.number % IdMod /\ s.tick = ((s.number + 1) * Period) % TickMod

Sent(s) == Genuine(s) /\ (s.boot < boot \/ (s.boot = boot /\ s.number < oldest))

\* What is in the air is of the running boot.
AirInv ==
  /\ \A s \in Delivered \cup Coming : Sent(s)
  /\ \A s \in InAir : s.boot = boot
  /\ \A m \in Elements(air) :
       /\ m.packet.type = "META" => m.packet.boot_id = boot
       /\ m.sent_at <= time /\ time - m.sent_at <= MaxLatency
       /\ ~up => m.sent_at <= boot_at
  /\ \A m \in Elements(rxQueue) : m.packet.type = "META" => m.packet.boot_id <= boot
  /\ boot > 0
  /\ ~up => boot < MaxBoots[ordered]
  /\ ~up /\ ordered => air = <<>>

\* The boot_id known is no later than what is on its way.
MetaInv ==
  /\ have_meta => last_boot_id <= boot /\ \A s \in Coming : last_boot_id <= s.boot
  /\ have_source_frame => rx_good_frames > 0
  /\ have_source_frame /\ anchor.known => have_meta /\ last_boot_id <= out.sample.boot

PhaseInv ==
  /\ phase = "idle" => frames = <<>> /\ unread = <<>>
  /\ phase = "frames" => unread = <<>>

LinkInv == LinkTypeOK /\ PlacesInOrder /\ StagesInOrder /\ AirInv /\ MetaInv /\ PhaseInv

-----------------------------------------------------------------------------
(* Sequences. *)

LEMMA ElementsEmpty == Elements(<<>>) = {}
  BY DEF Elements

LEMMA ElementsHead ==
  ASSUME NEW S, NEW s \in Seq(S), s # <<>>
  PROVE  /\ Head(s) \in S /\ Head(s) \in Elements(s)
         /\ Tail(s) \in Seq(S)
         /\ Elements(Tail(s)) \subseteq Elements(s)
<1>1. /\ Head(s) \in S /\ Tail(s) \in Seq(S) /\ Len(Tail(s)) = Len(s) - 1
      /\ \A i \in 1 .. Len(Tail(s)) : Tail(s)[i] = s[i + 1]
  BY HeadTailProperties
<1>2. Len(s) \in Nat /\ Len(s) > 0 /\ Head(s) = s[1]
  BY EmptySeq
<1>3. Head(s) \in Elements(s)
  BY <1>2 DEF Elements
<1>4. Elements(Tail(s)) \subseteq Elements(s)
  <2> SUFFICES ASSUME NEW i \in 1 .. Len(Tail(s)) PROVE Tail(s)[i] \in Elements(s)
    BY DEF Elements
  <2>1. Tail(s)[i] = s[i + 1] /\ i + 1 \in 1 .. Len(s)
    BY <1>1, <1>2
  <2> QED
    BY <2>1 DEF Elements
<1> QED
  BY <1>1, <1>3, <1>4

LEMMA ElementsAppend ==
  ASSUME NEW S, NEW s \in Seq(S), NEW e \in S
  PROVE  /\ Append(s, e) \in Seq(S)
         /\ Elements(Append(s, e)) = Elements(s) \cup {e}
<1>1. /\ Append(s, e) \in Seq(S) /\ Len(Append(s, e)) = Len(s) + 1
      /\ \A i \in 1 .. Len(s) : Append(s, e)[i] = s[i]
      /\ Append(s, e)[Len(s) + 1] = e
  BY AppendProperties
<1>2. Len(s) \in Nat
  BY LenProperties
<1>3. ASSUME NEW x \in Elements(Append(s, e)) PROVE x \in Elements(s) \cup {e}
  <2>1. PICK i \in 1 .. Len(s) + 1 : x = Append(s, e)[i]
    BY <1>1 DEF Elements
  <2>2. i \in 1 .. Len(s) \/ i = Len(s) + 1
    BY <1>2
  <2> QED
    BY <1>1, <2>1, <2>2 DEF Elements
<1>4. ASSUME NEW x \in Elements(s) PROVE x \in Elements(Append(s, e))
  <2>1. PICK i \in 1 .. Len(s) : x = s[i]
    BY DEF Elements
  <2>2. i \in 1 .. Len(Append(s, e)) /\ x = Append(s, e)[i]
    BY <1>1, <1>2, <2>1
  <2> QED
    BY <2>2 DEF Elements
<1>5. e \in Elements(Append(s, e))
  <2>1. Len(s) + 1 \in 1 .. Len(Append(s, e))
    BY <1>1, <1>2
  <2> QED
    BY <1>1, <2>1 DEF Elements
<1> QED
  BY <1>1, <1>3, <1>4, <1>5

LEMMA WithoutProperties ==
  ASSUME NEW S, NEW s \in Seq(S), NEW i \in 1 .. Len(s)
  PROVE  /\ Without(s, i) \in Seq(S) /\ Len(Without(s, i)) = Len(s) - 1
         /\ \A j \in 1 .. Len(s) - 1 :
              Without(s, i)[j] = IF j < i THEN s[j] ELSE s[j + 1]
<1>1. Len(s) \in Nat /\ \A j \in 1 .. Len(s) : s[j] \in S
  BY LenProperties, ElementOfSeq
<1> DEFINE a == SubSeq(s, 1, i - 1)
           b == SubSeq(s, i + 1, Len(s))
<1>2. /\ a \in Seq(S) /\ Len(a) = i - 1
      /\ \A j \in 1 .. i - 1 : a[j] = s[j]
  <2>1. 1 \in Int /\ i - 1 \in Int /\ \A j \in 1 .. i - 1 : s[j] \in S
    BY <1>1
  <2>2. /\ a \in Seq(S) /\ Len(a) = IF 1 <= i - 1 THEN (i - 1) - 1 + 1 ELSE 0
        /\ \A j \in 1 .. (i - 1) - 1 + 1 : a[j] = s[1 + j - 1]
    BY <2>1, SubSeqProperties
  <2> QED
    BY <1>1, <2>2
<1>3. /\ b \in Seq(S) /\ Len(b) = Len(s) - i
      /\ \A j \in 1 .. Len(s) - i : b[j] = s[i + j]
  <2>1. i + 1 \in Int /\ Len(s) \in Int /\ \A j \in i + 1 .. Len(s) : s[j] \in S
    BY <1>1
  <2>2. /\ b \in Seq(S) /\ Len(b) = IF i + 1 <= Len(s) THEN Len(s) - (i + 1) + 1 ELSE 0
        /\ \A j \in 1 .. Len(s) - (i + 1) + 1 : b[j] = s[(i + 1) + j - 1]
    BY <2>1, SubSeqProperties
  <2> QED
    BY <1>1, <2>2
<1> HIDE DEF a, b
<1>4. /\ a \o b \in Seq(S) /\ Len(a \o b) = Len(a) + Len(b)
      /\ \A j \in 1 .. Len(a) + Len(b) : (a \o b)[j] = IF j <= Len(a) THEN a[j] ELSE b[j - Len(a)]
  BY <1>2, <1>3, ConcatProperties
<1>5. Without(s, i) = a \o b
  BY DEF Without, a, b
<1>6. ASSUME NEW j \in 1 .. Len(s) - 1
      PROVE  (a \o b)[j] = IF j < i THEN s[j] ELSE s[j + 1]
  <2>1. CASE j < i
    BY <1>1, <1>2, <1>3, <1>4, <2>1
  <2>2. CASE ~(j < i)
    <3>1. j - (i - 1) \in 1 .. Len(s) - i /\ ~(j <= Len(a)) /\ j \in 1 .. Len(a) + Len(b)
      BY <1>1, <1>2, <1>3, <2>2
    <3>2. (a \o b)[j] = b[j - (i - 1)]
      BY <1>2, <1>4, <3>1
    <3>3. b[j - (i - 1)] = s[i + (j - (i - 1))] /\ i + (j - (i - 1)) = j + 1
      BY <1>3, <3>1
    <3> QED
      BY <2>2, <3>2, <3>3
  <2> QED
    BY <2>1, <2>2
<1>7. /\ a \o b \in Seq(S)
      /\ Len(a \o b) = Len(s) - 1
  BY <1>1, <1>2, <1>3, <1>4
<1> QED
  BY <1>5, <1>6, <1>7

LEMMA ElementsWithout ==
  ASSUME NEW S, NEW s \in Seq(S), NEW i \in 1 .. Len(s)
  PROVE  Elements(Without(s, i)) \subseteq Elements(s)
<1>1. Len(s) \in Nat
  BY LenProperties
<1> SUFFICES ASSUME NEW j \in 1 .. Len(Without(s, i)) PROVE Without(s, i)[j] \in Elements(s)
  BY DEF Elements
<1>2. j \in 1 .. Len(s) - 1
  BY WithoutProperties
<1>3. Without(s, i)[j] = IF j < i THEN s[j] ELSE s[j + 1]
  BY <1>2, WithoutProperties
<1>4. j \in 1 .. Len(s) /\ j + 1 \in 1 .. Len(s)
  BY <1>1, <1>2
<1> QED
  BY <1>3, <1>4 DEF Elements

\* What is left of a sorted queue, and its head.
LEMMA SortedTail ==
  ASSUME NEW S, NEW o, NEW s \in Seq(S), s # <<>>, Sorted(o, s)
  PROVE  Sorted(o, Tail(s)) /\ AllBefore(o, {Head(s)}, Elements(Tail(s)))
<1>1. /\ Tail(s) \in Seq(S) /\ Len(Tail(s)) = Len(s) - 1
      /\ \A i \in 1 .. Len(Tail(s)) : Tail(s)[i] = s[i + 1]
  BY HeadTailProperties
<1>2. Len(s) \in Nat /\ Len(s) > 0 /\ Head(s) = s[1]
  BY EmptySeq
<1>3. \A i \in 1 .. Len(Tail(s)) : i + 1 \in 1 .. Len(s) /\ 1 < i + 1
  BY <1>1, <1>2
<1>4. Sorted(o, Tail(s))
  BY <1>1, <1>2, <1>3 DEF Sorted
<1>5. ASSUME NEW i \in 1 .. Len(Tail(s)) PROVE Before(o, Head(s), Tail(s)[i])
  <2>1. Before(o, s[1], s[i + 1])
    BY <1>2, <1>3 DEF Sorted
  <2> QED
    BY <1>1, <1>2, <2>1
<1> QED
  BY <1>4, <1>5 DEF AllBefore, Elements

LEMMA SortedFramesTail ==
  ASSUME NEW S, NEW o, NEW s \in Seq(S), s # <<>>, SortedFrames(o, s)
  PROVE  /\ SortedFrames(o, Tail(s))
         /\ AllBefore(o, {Head(s).sample}, {f.sample : f \in Elements(Tail(s))})
<1>1. /\ Tail(s) \in Seq(S) /\ Len(Tail(s)) = Len(s) - 1
      /\ \A i \in 1 .. Len(Tail(s)) : Tail(s)[i] = s[i + 1]
  BY HeadTailProperties
<1>2. Len(s) \in Nat /\ Len(s) > 0 /\ Head(s) = s[1]
  BY EmptySeq
<1>3. \A i \in 1 .. Len(Tail(s)) : i + 1 \in 1 .. Len(s) /\ 1 < i + 1
  BY <1>1, <1>2
<1>4. SortedFrames(o, Tail(s))
  BY <1>1, <1>2, <1>3 DEF SortedFrames
<1>5. ASSUME NEW i \in 1 .. Len(Tail(s)) PROVE Before(o, Head(s).sample, Tail(s)[i].sample)
  <2>1. Before(o, s[1].sample, s[i + 1].sample)
    BY <1>2, <1>3 DEF SortedFrames
  <2> QED
    BY <1>1, <1>2, <2>1
<1> QED
  BY <1>4, <1>5 DEF AllBefore, Elements

LEMMA SortedPacketsTail ==
  ASSUME NEW S, NEW o, NEW s \in Seq(S), s # <<>>, SortedPackets(o, s)
  PROVE  /\ SortedPackets(o, Tail(s))
         /\ \A m \in Elements(Tail(s)) : Precedes(o, Head(s).packet, m.packet)
<1>1. /\ Tail(s) \in Seq(S) /\ Len(Tail(s)) = Len(s) - 1
      /\ \A i \in 1 .. Len(Tail(s)) : Tail(s)[i] = s[i + 1]
  BY HeadTailProperties
<1>2. Len(s) \in Nat /\ Len(s) > 0 /\ Head(s) = s[1]
  BY EmptySeq
<1>3. \A i \in 1 .. Len(Tail(s)) : i + 1 \in 1 .. Len(s) /\ 1 < i + 1
  BY <1>1, <1>2
<1>4. SortedPackets(o, Tail(s))
  BY <1>1, <1>2, <1>3 DEF SortedPackets
<1>5. ASSUME NEW i \in 1 .. Len(Tail(s)) PROVE Precedes(o, Head(s).packet, Tail(s)[i].packet)
  <2>1. Precedes(o, s[1].packet, s[i + 1].packet)
    BY <1>2, <1>3 DEF SortedPackets
  <2> QED
    BY <1>1, <1>2, <2>1
<1> QED
  BY <1>4, <1>5 DEF Elements

\* What is added to a sorted queue comes after all that is in it.
LEMMA SortedPacketsAppend ==
  ASSUME NEW S, NEW o, NEW s \in Seq(S), NEW e \in S, SortedPackets(o, s),
         \A m \in Elements(s) : Precedes(o, m.packet, e.packet)
  PROVE  SortedPackets(o, Append(s, e))
<1>1. /\ Len(Append(s, e)) = Len(s) + 1
      /\ \A i \in 1 .. Len(s) : Append(s, e)[i] = s[i]
      /\ Append(s, e)[Len(s) + 1] = e
  BY AppendProperties
<1>2. Len(s) \in Nat
  BY LenProperties
<1> SUFFICES ASSUME NEW k \in 1 .. Len(Append(s, e)), NEW l \in 1 .. Len(Append(s, e)), k < l
             PROVE  Precedes(o, Append(s, e)[k].packet, Append(s, e)[l].packet)
  BY DEF SortedPackets
<1>3. k \in 1 .. Len(s) /\ (l \in 1 .. Len(s) \/ l = Len(s) + 1)
  BY <1>1, <1>2
<1>4. CASE l \in 1 .. Len(s)
  <2>1. Append(s, e)[k] = s[k] /\ Append(s, e)[l] = s[l]
    BY <1>1, <1>3, <1>4
  <2>2. Precedes(o, s[k].packet, s[l].packet)
    BY <1>3, <1>4 DEF SortedPackets
  <2> QED
    BY <2>1, <2>2
<1>5. CASE l = Len(s) + 1
  <2>1. Append(s, e)[k] = s[k] /\ Append(s, e)[l] = e
    BY <1>1, <1>3, <1>5
  <2>2. s[k] \in Elements(s)
    BY <1>3 DEF Elements
  <2> QED
    BY <2>1, <2>2
<1> QED
  BY <1>3, <1>4, <1>5

LEMMA SortedFramesAppend ==
  ASSUME NEW S, NEW o, NEW s \in Seq(S), NEW e \in S, SortedFrames(o, s),
         AllBefore(o, {f.sample : f \in Elements(s)}, {e.sample})
  PROVE  SortedFrames(o, Append(s, e))
<1>1. /\ Len(Append(s, e)) = Len(s) + 1
      /\ \A i \in 1 .. Len(s) : Append(s, e)[i] = s[i]
      /\ Append(s, e)[Len(s) + 1] = e
  BY AppendProperties
<1>2. Len(s) \in Nat
  BY LenProperties
<1> SUFFICES ASSUME NEW k \in 1 .. Len(Append(s, e)), NEW l \in 1 .. Len(Append(s, e)), k < l
             PROVE  Before(o, Append(s, e)[k].sample, Append(s, e)[l].sample)
  BY DEF SortedFrames
<1>3. k \in 1 .. Len(s) /\ (l \in 1 .. Len(s) \/ l = Len(s) + 1)
  BY <1>1, <1>2
<1>4. CASE l \in 1 .. Len(s)
  <2>1. Append(s, e)[k] = s[k] /\ Append(s, e)[l] = s[l]
    BY <1>1, <1>3, <1>4
  <2>2. Before(o, s[k].sample, s[l].sample)
    BY <1>3, <1>4 DEF SortedFrames
  <2> QED
    BY <2>1, <2>2
<1>5. CASE l = Len(s) + 1
  <2>1. Append(s, e)[k] = s[k] /\ Append(s, e)[l] = e
    BY <1>1, <1>3, <1>5
  <2>2. s[k] \in Elements(s)
    BY <1>3 DEF Elements
  <2> QED
    BY <2>1, <2>2 DEF AllBefore
<1> QED
  BY <1>3, <1>4, <1>5

\* A part of a queue holds a part of its samples.
LEMMA SamplesOfPart ==
  ASSUME NEW q, NEW r, Elements(q) \subseteq Elements(r)
  PROVE  SamplesOf(q) \subseteq SamplesOf(r)
  BY DEF SamplesOf

LEMMA SamplesOfMember ==
  ASSUME NEW q, NEW m \in Elements(q)
  PROVE  SamplesIn(m.packet) \subseteq SamplesOf(q)
  BY DEF SamplesOf

LEMMA SamplesOfAppend ==
  ASSUME NEW S, NEW s \in Seq(S), NEW e \in S
  PROVE  SamplesOf(Append(s, e)) = SamplesOf(s) \cup SamplesIn(e.packet)
<1>1. Elements(Append(s, e)) = Elements(s) \cup {e}
  BY ElementsAppend
<1> QED
  BY <1>1 DEF SamplesOf

LEMMA ElementsTyped ==
  ASSUME NEW S, NEW s \in Seq(S)
  PROVE  \A e \in Elements(s) : e \in S
  BY ElementOfSeq DEF Elements

LEMMA LinkSamplesTyped ==
  ASSUME NEW p \in LinkPacket
  PROVE  /\ p.type = "SAMPLES" => p.samples \in Seq(LinkSample) /\ SamplesIn(p) = Elements(p.samples)
         /\ p.type = "META" => p.boot_id \in Nat /\ SamplesIn(p) = {}
         /\ p.type \in {"SAMPLES", "META"}
         /\ \A s \in SamplesIn(p) : s \in LinkSample
<1>1. p.type = "SAMPLES" => p.samples \in Seq(LinkSample) /\ SamplesIn(p) = Elements(p.samples)
  BY DEF LinkPacket, SamplesIn
<1>2. /\ p.type = "META" => p.boot_id \in Nat /\ SamplesIn(p) = {}
      /\ p.type \in {"SAMPLES", "META"}
  BY DEF LinkPacket, SamplesIn
<1>3. \A s \in SamplesIn(p) : s \in LinkSample
  BY <1>1, <1>2, ElementsTyped
<1> QED
  BY <1>1, <1>2, <1>3

\* Every sample on its way has a boot and a number.
LEMMA ComingTyped ==
  ASSUME LinkTypeOK
  PROVE  \A s \in Delivered \cup Coming : s \in LinkSample
<1>1. \A s \in Delivered : s \in LinkSample
  BY DEF Delivered, LinkTypeOK
<1>2. \A s \in InFrames : s \in LinkSample
  <2>1. \A f \in Elements(frames) : f \in LinkFrame
    BY ElementsTyped DEF LinkTypeOK
  <2> QED
    BY <2>1 DEF InFrames, LinkFrame
<1>3. \A s \in InUnread : s \in LinkSample
  BY ElementsTyped DEF InUnread, LinkTypeOK
<1>4. \A s \in InQueue : s \in LinkSample
  <2>1. \A m \in Elements(rxQueue) : m \in Received
    BY ElementsTyped DEF LinkTypeOK
  <2>2. \A m \in Elements(rxQueue) : m.packet \in LinkPacket
    BY <2>1 DEF Received
  <2> QED
    BY <2>2, LinkSamplesTyped DEF InQueue, SamplesOf
<1>5. \A s \in InAir : s \in LinkSample
  <2>1. \A m \in Elements(air) : m \in Underway
    BY ElementsTyped DEF LinkTypeOK
  <2>2. \A m \in Elements(air) : m.packet \in LinkPacket
    BY <2>1 DEF Underway
  <2> QED
    BY <2>2, LinkSamplesTyped DEF InAir, SamplesOf
<1> QED
  BY <1>1, <1>2, <1>3, <1>4, <1>5 DEF Coming

-----------------------------------------------------------------------------
(* What a step does to the order, by the samples it moves. *)

\* xF moves from the frames to DATA, xU from the samples not yet unwrapped to the
\* frames, xQ from the queue, xA from the air, and new is sent.
Moves(xF, xU, xQ, xA, new) ==
  /\ Delivered' \subseteq Delivered \cup xF /\ xF \subseteq InFrames
  /\ AllBefore(ordered, xF, InFrames')
  /\ InFrames' \subseteq InFrames \cup xU /\ xU \subseteq InUnread
  /\ AllBefore(ordered, xU, InUnread')
  /\ InUnread' \subseteq InUnread \cup xQ /\ xQ \subseteq InQueue
  /\ AllBefore(ordered, xQ, InQueue')
  /\ InQueue' \subseteq InQueue \cup xA /\ xA \subseteq InAir
  /\ AllBefore(ordered, xA, InAir')
  /\ InAir' \subseteq InAir \cup new
  /\ AllBefore(ordered, Delivered \cup InFrames \cup InUnread \cup InQueue, new)

LEMMA StagesMoved ==
  ASSUME StagesInOrder, ordered' = ordered, NEW xF, NEW xU, NEW xQ, NEW xA, NEW new,
         Moves(xF, xU, xQ, xA, new)
  PROVE  StagesInOrder'
<1> DEFINE o == ordered
<1>1. AllBefore(o, Delivered', InFrames' \cup InUnread' \cup InQueue' \cup InAir')
  BY Zenon DEF StagesInOrder, Moves, AllBefore, Coming
<1>2. AllBefore(o, InFrames', InUnread' \cup InQueue' \cup InAir')
  BY DEF StagesInOrder, Moves, AllBefore, Coming
<1>3. AllBefore(o, InUnread', InQueue' \cup InAir')
  BY DEF StagesInOrder, Moves, AllBefore
<1>4. AllBefore(o, InQueue', InAir')
  BY DEF StagesInOrder, Moves, AllBefore
<1> QED
  BY <1>1, <1>2, <1>3, <1>4 DEF StagesInOrder, Coming

LEMMA ComingMoved ==
  ASSUME NEW xF, NEW xU, NEW xQ, NEW xA, NEW new, Moves(xF, xU, xQ, xA, new)
  PROVE  /\ Coming' \subseteq Coming \cup new
         /\ Delivered' \subseteq Delivered \cup Coming
  BY DEF Moves, Coming

-----------------------------------------------------------------------------
(* Type correctness of the link. *)

LEMMA LinkConstants ==
  /\ TickMod \in Nat \ {0} /\ IdMod \in Nat \ {0} /\ SeqMod \in Nat \ {0}
  /\ Period \in Nat /\ MaxLatency \in Nat /\ RestartTime \in Nat /\ NodeAge \in Nat
  /\ Builds \subseteq BOOLEAN
  /\ \A o \in BOOLEAN : MaxSent[o] \in Nat /\ MaxBoots[o] \in Nat
  BY EngineAssumption, LinkAssumption

LEMMA LinkUnwrapTyped ==
  ASSUME NEW u \in LinkUnwrap, NEW tick \in Int
  PROVE  Unwrap(u, tick) \in LinkUnwrap
<1>1. Modulo(tick, u.last, TickMod) \in Int
  BY LinkConstants DEF Modulo, LinkUnwrap
<1> QED
  BY <1>1 DEF Unwrap, LinkUnwrap

LEMMA SampleOfTyped ==
  ASSUME boot \in Nat \ {0}, NEW n \in Nat
  PROVE  SampleOf(n) \in LinkSample
<1>1. n % IdMod \in Int
  BY LinkConstants
<1>2. (n + 1) * Period \in Int
  BY LinkConstants
<1>3. ((n + 1) * Period) % TickMod \in Int
  BY <1>2, LinkConstants
<1> QED
  BY <1>1, <1>3 DEF SampleOf, LinkSample

engineOnly == <<sourceVars, nodeVars, air, ordered>>

LEMMA TypeHandMoves ==
  ASSUME LinkTypeOK, UNCHANGED engineOnly,
         sampleUnwrapped \/ packetRefused \/ packetUnwrapped \/ frameRefused \/ frameReceived
           \/ packetDone
  PROVE  LinkTypeOK'
<1>1. /\ UNCHANGED <<ordered, time, rxQueue, air, last_boot_id, boot, taken, oldest, boot_at,
                     packet_seq, up>>
  BY DEF engineOnly, sourceVars, nodeVars, sampleUnwrapped, packetRefused, packetUnwrapped,
         frameRefused, frameReceived, packetDone, queueVars, metaVars
<1>2. unread' \in Seq(LinkSample) /\ frames' \in Seq(LinkFrame)
  <2>1. CASE sampleUnwrapped
    <3>1. Head(unread) \in LinkSample /\ Tail(unread) \in Seq(LinkSample)
      BY <2>1, ElementsHead DEF LinkTypeOK, sampleUnwrapped
    <3>2. pending_unwrap' \in LinkUnwrap
      BY <2>1, <3>1, LinkUnwrapTyped DEF LinkTypeOK, sampleUnwrapped, LinkSample
    <3>3. [sample |-> Head(unread), clock |-> pending_unwrap'.high] \in LinkFrame
      BY <3>1, <3>2 DEF LinkFrame, LinkUnwrap
    <3> QED
      BY <2>1, <3>1, <3>3, AppendProperties DEF LinkTypeOK, sampleUnwrapped
  <2>2. CASE packetRefused \/ packetDone
    BY <2>2, EmptySeq DEF packetRefused, packetDone, Done
  <2>3. CASE packetUnwrapped
    BY <2>3 DEF packetUnwrapped, LinkTypeOK
  <2>4. CASE frameRefused \/ frameReceived
    <3>1. frames # <<>> /\ frames' = Tail(frames) /\ unread' = unread
      BY <2>4 DEF frameRefused, frameReceived
    <3> QED
      BY <3>1, ElementsHead DEF LinkTypeOK
  <2> QED
    BY <2>1, <2>2, <2>3, <2>4
<1>3. pending_unwrap' \in LinkUnwrap /\ unwrap' \in LinkUnwrap
  <2>1. CASE sampleUnwrapped
    <3>1. Head(unread) \in LinkSample
      BY <2>1, ElementsHead DEF LinkTypeOK, sampleUnwrapped
    <3> QED
      BY <2>1, <3>1, LinkUnwrapTyped DEF LinkTypeOK, sampleUnwrapped, LinkSample, clockVars
  <2>2. CASE packetRefused \/ packetDone
    <3>1. NoUnwrap \in LinkUnwrap
      BY DEF NoUnwrap, LinkUnwrap
    <3>2. pending_unwrap' = NoUnwrap /\ unwrap' = unwrap
      BY <2>2 DEF packetRefused, packetDone, Done, clockVars
    <3> QED
      BY <3>1, <3>2 DEF LinkTypeOK
  <2>3. CASE packetUnwrapped
    BY <2>3 DEF packetUnwrapped, LinkTypeOK
  <2>4. CASE frameRefused \/ frameReceived
    BY <2>4 DEF frameRefused, frameReceived, LinkTypeOK, clockVars
  <2> QED
    BY <2>1, <2>2, <2>3, <2>4
<1>4. rx_good_frames' \in Nat /\ (rx_good_frames' > 0 => out'.sample \in LinkSample)
  <2>1. CASE frameReceived
    <3>1. Head(frames) \in LinkFrame
      BY <2>1, ElementsHead DEF frameReceived, LinkTypeOK
    <3>2. out'.sample = Head(frames).sample /\ rx_good_frames' = rx_good_frames + 1
      BY <2>1 DEF frameReceived
    <3> QED
      BY <3>1, <3>2 DEF LinkFrame, LinkTypeOK
  <2>2. CASE ~frameReceived
    BY <2>2 DEF sampleUnwrapped, packetRefused, packetUnwrapped, frameRefused, packetDone,
                frameVars, LinkTypeOK
  <2> QED
    BY <2>1, <2>2
<1> QED
  BY <1>1, <1>2, <1>3, <1>4 DEF LinkTypeOK

\* The packet loop() receives, and the queue it leaves.
LEMMA ReceiveTyped ==
  ASSUME LinkTypeOK, rxQueue # <<>>
  PROVE  /\ Head(rxQueue) \in Elements(rxQueue) /\ Head(rxQueue).packet \in LinkPacket
         /\ Tail(rxQueue) \in Seq(Received)
         /\ Elements(Tail(rxQueue)) \subseteq Elements(rxQueue)
<1>1. /\ Head(rxQueue) \in Elements(rxQueue) /\ Head(rxQueue) \in Received
      /\ Tail(rxQueue) \in Seq(Received) /\ Elements(Tail(rxQueue)) \subseteq Elements(rxQueue)
  BY ElementsHead DEF LinkTypeOK
<1> QED
  BY <1>1 DEF Received

LEMMA TypeReceives ==
  ASSUME LinkTypeOK, UNCHANGED engineOnly, handleMeta \/ handleSamples
  PROVE  LinkTypeOK'
<1>1. UNCHANGED <<ordered, time, air, boot, taken, oldest, boot_at, packet_seq, up, out,
                  rx_good_frames>>
  BY DEF engineOnly, sourceVars, nodeVars, handleMeta, handleSamples
<1>2. rxQueue # <<>> /\ rxQueue' = Tail(rxQueue)
  BY DEF handleMeta, handleSamples, Receive
<1>3. Head(rxQueue).packet \in LinkPacket /\ rxQueue' \in Seq(Received)
  BY <1>2, ReceiveTyped
<1>4. unwrap' \in LinkUnwrap
  <2>1. NoUnwrap \in LinkUnwrap
    BY DEF NoUnwrap, LinkUnwrap
  <2> QED
    BY <2>1 DEF handleMeta, handleSamples, SourceReboot, LinkTypeOK
<1>5. CASE handleMeta
  <2>1. last_boot_id' \in Nat
    BY <1>3, <1>5, LinkSamplesTyped DEF handleMeta
  <2>2. UNCHANGED <<unread, frames, pending_unwrap>>
    BY <1>5 DEF handleMeta, packetVars
  <2> QED
    BY <1>1, <1>3, <1>4, <2>1, <2>2 DEF LinkTypeOK
<1>6. CASE handleSamples
  <2>1. unread' \in Seq(LinkSample)
    BY <1>3, <1>6, LinkSamplesTyped DEF handleSamples
  <2>2. frames' \in Seq(LinkFrame)
    BY <1>6, EmptySeq DEF handleSamples
  <2>3. pending_unwrap' = unwrap' /\ last_boot_id' = last_boot_id
    BY <1>6 DEF handleSamples, metaVars
  <2> QED
    BY <1>1, <1>3, <1>4, <2>1, <2>2, <2>3 DEF LinkTypeOK
<1> QED
  BY <1>5, <1>6

LEMMA EngineUntouched ==
  ASSUME UNCHANGED engineVars
  PROVE  UNCHANGED <<time, rxQueue, unread, frames, pending_unwrap, unwrap, rx_good_frames, out,
                     last_boot_id, have_meta, have_source_frame, anchor, phase>>
  BY DEF engineVars, queueVars, packetVars, seqVars, metaVars, clockVars, frameVars

\* The bundle maybeSend() puts together.
LEMMA BundleTyped ==
  ASSUME LinkTypeOK, NEW count \in 1 .. MaxSent[ordered]
  PROVE  /\ [i \in 1 .. count |-> SampleOf(oldest + i - 1)] \in Seq(LinkSample)
         /\ Len([i \in 1 .. count |-> SampleOf(oldest + i - 1)]) = count
         /\ count \in Nat
<1>1. count \in Nat
  BY LinkConstants DEF LinkTypeOK
<1>2. \A i \in 1 .. count : SampleOf(oldest + i - 1) \in LinkSample
  <2> SUFFICES ASSUME NEW i \in 1 .. count PROVE SampleOf(oldest + i - 1) \in LinkSample
    OBVIOUS
  <2>1. oldest + i - 1 \in Nat
    BY <1>1 DEF LinkTypeOK
  <2> QED
    BY <2>1, SampleOfTyped DEF LinkTypeOK
<1>3. [i \in 1 .. count |-> SampleOf(oldest + i - 1)] \in [1 .. count -> LinkSample]
  BY <1>2
<1>4. \A f \in [1 .. count -> LinkSample] : f \in Seq(LinkSample) /\ Len(f) = count
  BY <1>1
<1> QED
  BY <1>1, <1>3, <1>4

LEMMA ToAirTyped ==
  ASSUME LinkTypeOK, NEW p \in LinkPacket, ToAir(p)
  PROVE  /\ air' = Append(air, [packet |-> p, sent_at |-> time, again |-> FALSE])
         /\ [packet |-> p, sent_at |-> time, again |-> FALSE] \in Underway
         /\ air' \in Seq(Underway) /\ packet_seq' \in Int
<1>1. packet_seq' \in Int
  BY LinkConstants DEF ToAir, LinkTypeOK
<1>2. [packet |-> p, sent_at |-> time, again |-> FALSE] \in Underway
  BY DEF Underway, LinkTypeOK
<1> QED
  BY <1>1, <1>2, AppendProperties DEF ToAir, LinkTypeOK

LEMMA TypeNode ==
  ASSUME LinkTypeOK, Node, UNCHANGED ordered
  PROVE  LinkTypeOK'
<1>1. UNCHANGED <<time, rxQueue, unread, frames, pending_unwrap, unwrap, rx_good_frames, out,
                  last_boot_id>>
  BY EngineUntouched DEF Node, sendSamples, sendMeta, dropHeld, stop, start
<1>2. CASE sendSamples
  <2>1. PICK count \in 1 .. MaxSent[ordered] :
          /\ HandOver(count)
          /\ ToAir([type |-> "SAMPLES", seq |-> packet_seq,
                    samples |-> [i \in 1 .. count |-> SampleOf(oldest + i - 1)]])
    BY <1>2 DEF sendSamples
  <2>2. [type |-> "SAMPLES", seq |-> packet_seq,
         samples |-> [i \in 1 .. count |-> SampleOf(oldest + i - 1)]] \in LinkPacket
    BY BundleTyped DEF LinkPacket, LinkTypeOK
  <2>3. air' \in Seq(Underway) /\ packet_seq' \in Int
    BY <2>1, <2>2, ToAirTyped
  <2>4. taken' \in Nat /\ oldest' \in Nat
    BY <2>1, BundleTyped DEF HandOver, LinkTypeOK
  <2>5. UNCHANGED <<boot, up, boot_at, meta_at>>
    BY <1>2 DEF sendSamples
  <2> QED
    BY <1>1, <2>3, <2>4, <2>5 DEF LinkTypeOK
<1>3. CASE sendMeta
  <2>1. [type |-> "META", seq |-> packet_seq, boot_id |-> boot] \in LinkPacket
    BY DEF LinkPacket, LinkTypeOK
  <2>2. air' \in Seq(Underway) /\ packet_seq' \in Int
    BY <1>3, <2>1, ToAirTyped DEF sendMeta
  <2> QED
    BY <1>1, <1>3, <2>2 DEF sendMeta, LinkTypeOK, sourceVars
<1>4. CASE dropHeld
  <2>1. taken' \in Nat /\ oldest' \in Nat
    BY <1>4 DEF dropHeld, GiveUp, Held, LinkTypeOK
  <2> QED
    BY <1>1, <1>4, <2>1 DEF dropHeld, nodeVars, LinkTypeOK
<1>5. CASE stop
  <2>1. air' \in Seq(Underway)
    BY <1>5, EmptySeq DEF stop, LinkTypeOK
  <2> QED
    BY <1>1, <1>5, <2>1 DEF stop, sourceVars, LinkTypeOK
<1>6. CASE start
  BY <1>1, <1>6 DEF start, LinkTypeOK
<1> QED
  BY <1>2, <1>3, <1>4, <1>5, <1>6 DEF Node

LEMMA AirMember ==
  ASSUME LinkTypeOK, NEW i \in 1 .. Len(air)
  PROVE  /\ air[i] \in Underway /\ air[i] \in Elements(air)
         /\ air[i].packet \in LinkPacket
<1>1. air[i] \in Underway
  BY ElementOfSeq DEF LinkTypeOK
<1> QED
  BY <1>1 DEF Underway, Elements

LEMMA TypeRest ==
  ASSUME LinkTypeOK, arrive \/ lose \/ passPeriod, UNCHANGED ordered
  PROVE  LinkTypeOK'
<1>1. UNCHANGED <<unread, frames, pending_unwrap, unwrap, rx_good_frames, out, last_boot_id,
                  boot, boot_at, packet_seq, up>>
  BY EngineUntouched DEF arrive, lose, passPeriod, notificationCB, nodeVars, packetVars,
     clockVars, frameVars, metaVars
<1>2. CASE arrive
  <2>1. PICK i \in 1 .. Len(air) :
          /\ notificationCB(air[i].packet)
          /\ \/ air' = Without(air, i)
             \/ air' = [air EXCEPT ![i].again = TRUE]
    BY <1>2 DEF arrive
  <2>2. rxQueue' \in Seq(Received)
    <3>1. [packet |-> air[i].packet, rx_time |-> time] \in Received
      BY AirMember DEF Received, LinkTypeOK
    <3> QED
      BY <2>1, <3>1, AppendProperties DEF notificationCB, LinkTypeOK
  <2>3. air' \in Seq(Underway)
    <3>1. air \in Seq(Underway)
      BY DEF LinkTypeOK
    <3>2. Without(air, i) \in Seq(Underway)
      BY <3>1, WithoutProperties
    <3>3. [air EXCEPT ![i].again = TRUE] \in Seq(Underway)
      <4>1. [air[i] EXCEPT !.again = TRUE] \in Underway
        BY AirMember DEF Underway
      <4>2. [air EXCEPT ![i].again = TRUE] = [air EXCEPT ![i] = [air[i] EXCEPT !.again = TRUE]]
        OBVIOUS
      <4> QED
        BY <3>1, <4>1, <4>2, ExceptSeq
    <3> QED
      BY <2>1, <3>2, <3>3
  <2>4. UNCHANGED <<time, taken, oldest>>
    BY <1>2 DEF arrive, notificationCB, sourceVars
  <2> QED
    BY <1>1, <2>2, <2>3, <2>4 DEF LinkTypeOK
<1>3. CASE lose
  <2>1. air' \in Seq(Underway)
    <3>1. air \in Seq(Underway)
      BY DEF LinkTypeOK
    <3> QED
      BY <1>3, <3>1, EmptySeq, WithoutProperties DEF lose
  <2>2. UNCHANGED <<time, rxQueue, taken, oldest>>
    BY <1>3, EngineUntouched DEF lose, sourceVars
  <2> QED
    BY <1>1, <2>1, <2>2 DEF LinkTypeOK
<1>4. CASE passPeriod
  <2>1. time' \in Int
    BY <1>4, LinkConstants DEF passPeriod, LinkTypeOK
  <2>2. taken' \in Nat /\ oldest' \in Nat
    BY <1>4 DEF passPeriod, Take, sourceVars, LinkTypeOK
  <2>3. UNCHANGED <<rxQueue, air>>
    BY <1>4 DEF passPeriod, queueVars
  <2> QED
    BY <1>1, <2>1, <2>2, <2>3 DEF LinkTypeOK
<1> QED
  BY <1>2, <1>3, <1>4

-----------------------------------------------------------------------------
(* The order, action by action.  LinkOrder is what is left to prove when    *)
(* the types are known.                                                     *)

LinkOrder == PlacesInOrder /\ StagesInOrder /\ AirInv /\ MetaInv /\ PhaseInv

\* Steps of loop() with a packet in hand: nothing comes or goes but in its hands.
handOnly == <<rxQueue, air, time, boot, taken, oldest, boot_at, up, ordered, last_boot_id, have_meta>>

LEMMA HandKeepsAir ==
  ASSUME LinkInv, UNCHANGED handOnly,
         Coming' \subseteq Coming, Delivered' \subseteq Delivered \cup Coming
  PROVE  /\ AirInv'
         /\ have_meta' => last_boot_id' <= boot' /\ \A s \in Coming' : last_boot_id' <= s.boot
<1>1. InAir' = InAir
  BY DEF InAir, handOnly
<1> QED
  BY <1>1 DEF LinkInv, AirInv, MetaInv, Sent, handOnly

LEMMA OrderInHand ==
  ASSUME LinkInv, UNCHANGED engineOnly,
         sampleUnwrapped \/ packetRefused \/ packetUnwrapped \/ frameRefused \/ packetDone
  PROVE  LinkOrder'
<1>1. /\ UNCHANGED <<handOnly, rx_good_frames, out, have_source_frame, anchor>>
  BY DEF engineOnly, sourceVars, nodeVars, sampleUnwrapped, packetRefused, packetUnwrapped,
         frameRefused, packetDone, queueVars, metaVars, frameVars, handOnly
<1>2. InQueue' = InQueue /\ InAir' = InAir /\ Delivered' = Delivered /\ ordered' = ordered
  BY <1>1 DEF InQueue, InAir, Delivered, handOnly
<1>3. LinkTypeOK /\ PlacesInOrder /\ StagesInOrder /\ MetaInv /\ PhaseInv
  BY DEF LinkInv
<1>4. /\ PhaseInv'
      /\ SortedFrames(ordered, frames') /\ Sorted(ordered, unread')
      /\ \E xU : Moves({}, xU, {}, {}, {})
  <2>1. CASE sampleUnwrapped
    <3>1. unread # <<>> /\ unread' = Tail(unread) /\ phase = "unwrap" /\ phase' = phase
      BY <2>1 DEF sampleUnwrapped
    <3>2. /\ Head(unread) \in Elements(unread) /\ Tail(unread) \in Seq(LinkSample)
          /\ Elements(Tail(unread)) \subseteq Elements(unread)
      BY <1>3, <3>1, ElementsHead DEF LinkTypeOK
    <3>3. Sorted(ordered, Tail(unread)) /\ AllBefore(ordered, {Head(unread)}, Elements(Tail(unread)))
      BY <1>3, <3>1, SortedTail DEF LinkTypeOK, PlacesInOrder
    <3> DEFINE f == [sample |-> Head(unread), clock |-> pending_unwrap'.high]
    <3>4. frames' = Append(frames, f) /\ f.sample = Head(unread)
      BY <2>1 DEF sampleUnwrapped
    <3>5. f \in LinkFrame
      <4>1. Head(unread) \in LinkSample
        BY <1>3, <3>1, ElementsHead DEF LinkTypeOK
      <4>2. pending_unwrap' \in LinkUnwrap
        BY <1>3, <2>1, <4>1, LinkUnwrapTyped DEF sampleUnwrapped, LinkTypeOK, LinkSample
      <4> QED
        BY <4>1, <4>2 DEF LinkFrame, LinkUnwrap
    <3>6. Elements(frames') = Elements(frames) \cup {f}
      BY <1>3, <3>4, <3>5, ElementsAppend DEF LinkTypeOK
    <3>7. InFrames' = InFrames \cup {Head(unread)} /\ InUnread' \subseteq InUnread
      BY <3>1, <3>2, <3>4, <3>6 DEF InFrames, InUnread
    <3>8. AllBefore(ordered, InFrames, {Head(unread)})
      BY <1>3, <3>2 DEF StagesInOrder, AllBefore, InUnread
    <3>9. SortedFrames(ordered, frames')
      <4>1. AllBefore(ordered, {g.sample : g \in Elements(frames)}, {f.sample})
        BY <3>4, <3>8 DEF InFrames
      <4> QED
        BY <1>3, <3>4, <3>5, <4>1, SortedFramesAppend DEF LinkTypeOK, PlacesInOrder
    <3>10. Moves({}, {Head(unread)}, {}, {}, {})
      BY <1>2, <3>1, <3>2, <3>3, <3>7 DEF Moves, AllBefore, InUnread
    <3>11. PhaseInv'
      BY <3>1 DEF PhaseInv
    <3> QED
      BY <3>1, <3>3, <3>9, <3>10, <3>11
  <2>2. CASE packetRefused \/ packetDone
    <3>1. frames' = <<>> /\ unread' = <<>>
      BY <2>2 DEF packetRefused, packetDone, Done
    <3>2. InFrames' = {} /\ InUnread' = {}
      BY <3>1, ElementsEmpty DEF InFrames, InUnread
    <3>3. Moves({}, {}, {}, {}, {})
      BY <1>2, <3>2 DEF Moves, AllBefore
    <3>4. SortedFrames(ordered, <<>>) /\ Sorted(ordered, <<>>)
      BY DEF SortedFrames, Sorted
    <3> QED
      BY <3>1, <3>3, <3>4 DEF PhaseInv
  <2>3. CASE packetUnwrapped
    <3>1. frames' = frames /\ unread' = unread /\ unread = <<>> /\ phase' = "frames"
      BY <2>3 DEF packetUnwrapped
    <3>2. InFrames' = InFrames /\ InUnread' = InUnread
      BY <3>1 DEF InFrames, InUnread
    <3>3. Moves({}, {}, {}, {}, {})
      BY <1>2, <3>2 DEF Moves, AllBefore
    <3> QED
      BY <1>3, <3>1, <3>3 DEF PhaseInv, PlacesInOrder
  <2>4. CASE frameRefused
    <3>1. /\ frames # <<>> /\ frames' = Tail(frames) /\ unread' = unread
          /\ phase = "frames" /\ phase' = phase
      BY <2>4 DEF frameRefused
    <3>2. Elements(frames') \subseteq Elements(frames) /\ SortedFrames(ordered, frames')
      BY <1>3, <3>1, ElementsHead, SortedFramesTail DEF LinkTypeOK, PlacesInOrder
    <3>3. InFrames' \subseteq InFrames /\ InUnread' = InUnread
      BY <3>1, <3>2 DEF InFrames, InUnread
    <3>4. Moves({}, {}, {}, {}, {})
      BY <1>2, <3>3 DEF Moves, AllBefore
    <3> QED
      BY <1>3, <3>1, <3>2, <3>4 DEF PhaseInv, PlacesInOrder
  <2> QED
    BY <2>1, <2>2, <2>3, <2>4
<1>5. PICK xU : Moves({}, xU, {}, {}, {})
  BY <1>4
<1>6. StagesInOrder'
  BY <1>2, <1>3, <1>5, StagesMoved
<1>7. Coming' \subseteq Coming /\ Delivered' \subseteq Delivered \cup Coming
  BY <1>5, ComingMoved
<1>8. PlacesInOrder'
  BY <1>1, <1>3, <1>4 DEF PlacesInOrder, handOnly
<1>9. AirInv' /\ MetaInv'
  <2>1. /\ AirInv'
        /\ have_meta' => last_boot_id' <= boot' /\ \A s \in Coming' : last_boot_id' <= s.boot
    BY <1>1, <1>7, HandKeepsAir
  <2>2. UNCHANGED <<have_source_frame, rx_good_frames, anchor, have_meta, last_boot_id, out>>
    BY <1>1 DEF handOnly
  <2> QED
    BY <1>3, <2>1, <2>2 DEF MetaInv
<1> QED
  BY <1>4, <1>6, <1>8, <1>9 DEF LinkOrder

LEMMA OrderFrameReceived ==
  ASSUME LinkInv, UNCHANGED engineOnly, frameReceived
  PROVE  LinkOrder'
<1> DEFINE s == Head(frames).sample
<1>1. UNCHANGED handOnly
  BY DEF engineOnly, sourceVars, nodeVars, frameReceived, queueVars, metaVars, handOnly
<1>2. /\ frames # <<>> /\ frames' = Tail(frames) /\ unread' = unread /\ phase = "frames"
      /\ phase' = phase /\ out'.sample = s /\ rx_good_frames' = rx_good_frames + 1
      /\ have_source_frame'
      /\ anchor' = IF have_source_frame THEN anchor
                   ELSE [sample |-> s, clock |-> Head(frames).clock, known |-> have_meta,
                         good |-> rx_good_frames, missing |-> missing_frames]
  BY DEF frameReceived
<1>3. LinkTypeOK /\ PlacesInOrder /\ StagesInOrder /\ MetaInv /\ PhaseInv
  BY DEF LinkInv
<1>4. /\ Head(frames) \in Elements(frames)
      /\ Elements(frames') \subseteq Elements(frames)
      /\ SortedFrames(ordered, frames')
      /\ AllBefore(ordered, {s}, {f.sample : f \in Elements(frames')})
  BY <1>2, <1>3, ElementsHead, SortedFramesTail DEF LinkTypeOK, PlacesInOrder
<1>5. InQueue' = InQueue /\ InAir' = InAir /\ InUnread' = InUnread /\ ordered' = ordered
  BY <1>1, <1>2 DEF InQueue, InAir, InUnread, handOnly
<1>6. Delivered' = {s} /\ s \in InFrames /\ InFrames' \subseteq InFrames
  BY <1>2, <1>3, <1>4 DEF Delivered, InFrames, LinkTypeOK
<1>7. AllBefore(ordered, {s}, InFrames')
  BY <1>4 DEF InFrames
<1>8. Moves({s}, {}, {}, {}, {})
  BY <1>5, <1>6, <1>7 DEF Moves, AllBefore
<1>9. StagesInOrder'
  BY <1>3, <1>5, <1>8, StagesMoved
<1>10. Coming' \subseteq Coming /\ Delivered' \subseteq Delivered \cup Coming
  BY <1>8, ComingMoved
<1>11. PlacesInOrder'
  BY <1>1, <1>2, <1>3, <1>4 DEF PlacesInOrder, handOnly
<1>12. /\ AirInv'
       /\ have_meta' => last_boot_id' <= boot' /\ \A t \in Coming' : last_boot_id' <= t.boot
  BY <1>1, <1>10, HandKeepsAir
<1>13. have_meta => last_boot_id <= s.boot
  BY <1>3, <1>6 DEF MetaInv, Coming
<1>14. have_source_frame' /\ anchor'.known => have_meta' /\ last_boot_id' <= out'.sample.boot
  <2>1. have_meta' = have_meta /\ last_boot_id' = last_boot_id
    BY <1>1 DEF handOnly
  <2>2. anchor'.known => have_meta
    BY <1>2, <1>3 DEF MetaInv
  <2> QED
    BY <1>2, <1>13, <2>1, <2>2
<1>15. MetaInv'
  BY <1>2, <1>3, <1>12, <1>14 DEF MetaInv, LinkTypeOK
<1>16. PhaseInv'
  BY <1>2, <1>3 DEF PhaseInv
<1> QED
  BY <1>9, <1>11, <1>12, <1>15, <1>16 DEF LinkOrder

\* loop() takes a packet from the queue.
LEMMA OrderReceives ==
  ASSUME LinkInv, LinkTypeOK', UNCHANGED engineOnly, handleMeta \/ handleSamples
  PROVE  LinkOrder'
<1> DEFINE p == Head(rxQueue).packet
           lost == LinkWasLost(Head(rxQueue).rx_time)
<1>1. /\ UNCHANGED <<ordered, time, air, boot, taken, oldest, boot_at, up, out, rx_good_frames,
                     anchor>>
  BY DEF engineOnly, sourceVars, nodeVars, handleMeta, handleSamples
<1>2. phase = "idle" /\ rxQueue # <<>> /\ rxQueue' = Tail(rxQueue)
  BY DEF handleMeta, handleSamples, Receive
<1>3. LinkTypeOK /\ PlacesInOrder /\ StagesInOrder /\ AirInv /\ MetaInv /\ PhaseInv
  BY DEF LinkInv
<1>4. frames = <<>> /\ unread = <<>>
  BY <1>2, <1>3 DEF PhaseInv
<1>5. /\ Head(rxQueue) \in Elements(rxQueue) /\ p \in LinkPacket
      /\ Elements(rxQueue') \subseteq Elements(rxQueue)
  BY <1>2, <1>3, ReceiveTyped
<1>6. /\ SortedPackets(ordered, rxQueue')
      /\ \A m \in Elements(rxQueue') : Precedes(ordered, p, m.packet)
  BY <1>2, <1>3, SortedPacketsTail DEF LinkTypeOK, PlacesInOrder
<1>7. InAir' = InAir /\ Delivered' = Delivered /\ InFrames = {} /\ InUnread = {}
  BY <1>1, <1>4, ElementsEmpty DEF InAir, Delivered, InFrames, InUnread
<1>8. InQueue' \subseteq InQueue /\ SamplesIn(p) \subseteq InQueue
  BY <1>5, SamplesOfPart, SamplesOfMember DEF InQueue
<1>9. AllBefore(ordered, SamplesIn(p), InQueue')
  BY <1>6 DEF Precedes, AllBefore, InQueue, SamplesOf
<1>10. /\ InFrames' = {} /\ frames' = <<>> /\ PhaseInv' /\ Sorted(ordered, unread')
       /\ InUnread' \subseteq SamplesIn(p)
  <2>1. CASE handleMeta
    <3>1. frames' = <<>> /\ unread' = <<>>
      BY <1>4, <2>1 DEF handleMeta, packetVars
    <3>2. Sorted(ordered, <<>>)
      BY DEF Sorted
    <3> QED
      BY <3>1, <3>2, ElementsEmpty DEF PhaseInv, InFrames, InUnread
  <2>2. CASE handleSamples
    <3>1. frames' = <<>> /\ unread' = p.samples /\ phase' = "unwrap" /\ p.type = "SAMPLES"
      BY <2>2 DEF handleSamples
    <3>2. Sorted(ordered, p.samples)
      BY <1>3, <1>5, <3>1 DEF PlacesInOrder, SortedPacket
    <3> QED
      BY <3>1, <3>2, ElementsEmpty DEF PhaseInv, InFrames, InUnread, SamplesIn
  <2> QED
    BY <2>1, <2>2
<1>11. Moves({}, {}, SamplesIn(p), {}, {})
  BY <1>7, <1>8, <1>9, <1>10 DEF Moves, AllBefore
<1>12. StagesInOrder'
  BY <1>1, <1>3, <1>11, StagesMoved
<1>13. Coming' \subseteq Coming /\ Delivered' \subseteq Delivered \cup Coming
  BY <1>11, ComingMoved
<1>14. PlacesInOrder'
  <2>1. SortedFrames(ordered, <<>>)
    BY DEF SortedFrames
  <2> QED
    BY <1>1, <1>3, <1>5, <1>6, <1>10, <2>1 DEF PlacesInOrder
<1>15. AirInv'
  BY <1>1, <1>3, <1>5, <1>7, <1>13 DEF AirInv, Sent
<1>16. MetaInv'
  <2>1. CASE handleMeta
    <3>1. /\ p.type = "META" /\ have_meta' = TRUE /\ last_boot_id' = p.boot_id
          /\ SourceReboot(lost \/ IsReboot(p))
      BY <2>1 DEF handleMeta
    <3>2. p.boot_id <= boot
      BY <1>3, <1>5, <3>1 DEF AirInv
    <3>3. \A s \in InQueue' : p.boot_id <= s.boot
      BY <1>6, <3>1 DEF Precedes, InQueue, SamplesOf
    <3>4. \A s \in InAir' : p.boot_id <= s.boot
      BY <1>3, <1>7, <3>2 DEF AirInv
    <3>5. InUnread' = {}
      BY <1>5, <1>10, <3>1, LinkSamplesTyped
    <3>6. \A s \in Coming' : last_boot_id' <= s.boot
      BY <1>10, <3>1, <3>3, <3>4, <3>5 DEF Coming
    <3>7. have_source_frame' => have_source_frame /\ ~IsReboot(p)
      BY <3>1 DEF SourceReboot
    <3>8. have_source_frame' /\ anchor.known => last_boot_id' = last_boot_id
      BY <1>3, <3>1, <3>7 DEF MetaInv, IsReboot
    <3> QED
      BY <1>1, <1>3, <3>1, <3>2, <3>6, <3>7, <3>8 DEF MetaInv
  <2>2. CASE handleSamples
    <3>1. have_meta' = have_meta /\ last_boot_id' = last_boot_id
      BY <2>2 DEF handleSamples, metaVars
    <3>2. have_source_frame' => have_source_frame
      BY <2>2 DEF handleSamples, SourceReboot
    <3> QED
      BY <1>1, <1>3, <1>13, <3>1, <3>2 DEF MetaInv
  <2> QED
    BY <2>1, <2>2
<1> QED
  BY <1>10, <1>12, <1>14, <1>15, <1>16 DEF LinkOrder

-----------------------------------------------------------------------------
(* The node. *)

LEMMA EngineKeepsPlaces ==
  ASSUME UNCHANGED engineVars
  PROVE  /\ InFrames' = InFrames /\ InUnread' = InUnread /\ InQueue' = InQueue
         /\ Delivered' = Delivered
         /\ PhaseInv' <=> PhaseInv
  BY EngineUntouched DEF InFrames, InUnread, InQueue, Delivered, PhaseInv

\* A packet is sent: p of the running boot, with samples not sent before.
LEMMA OrderSent ==
  ASSUME LinkInv, LinkTypeOK', UNCHANGED engineVars, UNCHANGED <<ordered, boot, up, boot_at>>,
         up, oldest' >= oldest, NEW p \in LinkPacket, ToAir(p),
         SortedPacket(ordered, p),
         p.type = "META" => p.boot_id = boot,
         \A s \in SamplesIn(p) :
           Genuine(s) /\ s.boot = boot /\ s.number >= oldest /\ s.number < oldest'
  PROVE  LinkOrder'
<1>1. LinkTypeOK /\ PlacesInOrder /\ StagesInOrder /\ AirInv /\ MetaInv /\ PhaseInv
  BY DEF LinkInv
<1> DEFINE e == [packet |-> p, sent_at |-> time, again |-> FALSE]
<1>2. air' = Append(air, e) /\ e \in Underway /\ e.packet = p /\ e.sent_at = time
  BY <1>1, ToAirTyped
<1> HIDE DEF e
<1>3. /\ Elements(air') = Elements(air) \cup {e}
      /\ InAir' = InAir \cup SamplesIn(p)
  <2>1. air \in Seq(Underway)
    BY <1>1 DEF LinkTypeOK
  <2>2. Elements(air') = Elements(air) \cup {e}
    BY <1>2, <2>1, ElementsAppend
  <2>3. SamplesOf(air') = SamplesOf(air) \cup SamplesIn(e.packet)
    BY <1>2, <2>1, SamplesOfAppend
  <2> QED
    BY <1>2, <2>2, <2>3 DEF InAir
<1>4. UNCHANGED <<time, rxQueue, unread, frames, rx_good_frames, out, last_boot_id, have_meta,
                  have_source_frame, anchor, phase>>
  BY EngineUntouched
<1>5. /\ InFrames' = InFrames /\ InUnread' = InUnread /\ InQueue' = InQueue
      /\ Delivered' = Delivered /\ PhaseInv'
  BY <1>1, EngineKeepsPlaces
<1>6. oldest \in Nat /\ oldest' \in Nat /\ boot \in Nat
  BY <1>1 DEF LinkTypeOK
<1>7. AllBefore(ordered, Delivered \cup Coming, SamplesIn(p))
  <2> SUFFICES ASSUME NEW s \in Delivered \cup Coming, NEW t \in SamplesIn(p)
               PROVE  Before(ordered, s, t)
    BY DEF AllBefore
  <2>1. s \in LinkSample /\ t \in LinkSample
    BY <1>1, ComingTyped, LinkSamplesTyped
  <2>2. Sent(s) /\ t.boot = boot /\ t.number >= oldest
    BY <1>1 DEF AirInv
  <2> QED
    BY <1>6, <2>1, <2>2 DEF Sent, Before, LinkSample
<1>8. Moves({}, {}, {}, {}, SamplesIn(p))
  BY <1>3, <1>5, <1>7 DEF Moves, AllBefore, Coming
<1>9. StagesInOrder'
  BY <1>1, <1>8, StagesMoved
<1>10. Coming' \subseteq Coming \cup SamplesIn(p)
  BY <1>8, ComingMoved
<1>11. PlacesInOrder'
  <2>1. ordered => SortedPackets(ordered, air')
    <3> SUFFICES ASSUME ordered PROVE SortedPackets(ordered, air')
      OBVIOUS
    <3>1. \A m \in Elements(air) : Precedes(ordered, m.packet, p)
      <4> SUFFICES ASSUME NEW m \in Elements(air) PROVE Precedes(ordered, m.packet, p)
        OBVIOUS
      <4>1. AllBefore(ordered, SamplesIn(m.packet), SamplesIn(p))
        <5>1. SamplesIn(m.packet) \subseteq InAir
          BY SamplesOfMember DEF InAir
        <5> QED
          BY <1>7, <5>1 DEF AllBefore, Coming
      <4>2. m.packet.type = "META" => \A t \in SamplesIn(p) : m.packet.boot_id <= t.boot
        BY <1>1, <1>6 DEF AirInv
      <4> QED
        BY <4>1, <4>2 DEF Precedes
    <3>2. SortedPackets(ordered, air)
      BY <1>1 DEF PlacesInOrder
    <3>3. air \in Seq(Underway)
      BY <1>1 DEF LinkTypeOK
    <3> QED
      BY <1>2, <3>1, <3>2, <3>3, SortedPacketsAppend
  <2>2. \A m \in Elements(air') : SortedPacket(ordered, m.packet)
    BY <1>1, <1>2, <1>3 DEF PlacesInOrder
  <2> QED
    BY <1>1, <1>4, <2>1, <2>2 DEF PlacesInOrder
<1>12. AirInv'
  <2>1. \A s \in Delivered' \cup Coming' : Sent(s)'
    <3> SUFFICES ASSUME NEW s \in Delivered \cup Coming \cup SamplesIn(p) PROVE Sent(s)'
      BY <1>5, <1>10
    <3>1. s \in LinkSample
      BY <1>1, ComingTyped, LinkSamplesTyped
    <3>2. CASE s \in Delivered \cup Coming
      <4>1. Sent(s)
        BY <1>1, <3>2 DEF AirInv
      <4> QED
        BY <1>6, <3>1, <4>1 DEF Sent, LinkSample
    <3>3. CASE s \in SamplesIn(p)
      BY <3>3 DEF Sent
    <3> QED
      BY <3>2, <3>3
  <2>2. \A s \in InAir' : s.boot = boot'
    BY <1>1, <1>3 DEF AirInv
  <2>3. \A m \in Elements(air') :
          /\ m.packet.type = "META" => m.packet.boot_id = boot'
          /\ m.sent_at <= time' /\ time' - m.sent_at <= MaxLatency
          /\ ~up' => m.sent_at <= boot_at'
    <3>1. time - time <= MaxLatency /\ time <= time
      <4>1. time \in Int /\ MaxLatency \in Nat
        BY <1>1, LinkConstants DEF LinkTypeOK
      <4> QED
        BY <4>1
    <3> QED
      BY <1>1, <1>2, <1>3, <1>4, <3>1 DEF AirInv
  <2> QED
    BY <1>1, <1>4, <2>1, <2>2, <2>3 DEF AirInv
<1>13. MetaInv'
  <2>1. have_meta' => \A s \in Coming' : last_boot_id' <= s.boot
    BY <1>1, <1>4, <1>10 DEF MetaInv
  <2> QED
    BY <1>1, <1>4, <2>1 DEF MetaInv
<1> QED
  BY <1>5, <1>9, <1>11, <1>12, <1>13 DEF LinkOrder

LEMMA OrderNode ==
  ASSUME LinkInv, LinkTypeOK', Node, UNCHANGED ordered
  PROVE  LinkOrder'
<1>1. LinkTypeOK /\ PlacesInOrder /\ StagesInOrder /\ AirInv /\ MetaInv /\ PhaseInv
  BY DEF LinkInv
<1>2. UNCHANGED engineVars
  BY DEF Node, sendSamples, sendMeta, dropHeld, stop, start
<1>3. UNCHANGED <<time, rxQueue, unread, frames, rx_good_frames, out, last_boot_id, have_meta,
                  have_source_frame, anchor, phase>>
  BY <1>2, EngineUntouched
<1>4. /\ InFrames' = InFrames /\ InUnread' = InUnread /\ InQueue' = InQueue
      /\ Delivered' = Delivered /\ PhaseInv'
  BY <1>1, <1>2, EngineKeepsPlaces
<1>5. boot \in Nat /\ oldest \in Nat /\ taken \in Nat
  BY <1>1 DEF LinkTypeOK
<1>6. CASE sendSamples
  <2>1. PICK count \in 1 .. MaxSent[ordered] :
          /\ HandOver(count)
          /\ ToAir([type |-> "SAMPLES", seq |-> packet_seq,
                    samples |-> [i \in 1 .. count |-> SampleOf(oldest + i - 1)]])
    BY <1>6 DEF sendSamples
  <2> DEFINE bundle == [i \in 1 .. count |-> SampleOf(oldest + i - 1)]
             p == [type |-> "SAMPLES", seq |-> packet_seq, samples |-> bundle]
  <2>2. bundle \in Seq(LinkSample) /\ Len(bundle) = count /\ count \in Nat
    BY <1>1, BundleTyped
  <2>3. p \in LinkPacket
    BY <1>1, <2>2 DEF LinkPacket, LinkTypeOK
  <2>4. \A i \in 1 .. count : bundle[i].boot = boot /\ bundle[i].number = oldest + i - 1
    BY DEF SampleOf
  <2>5. oldest' = oldest + count
    BY <2>1 DEF HandOver
  <2>6. p.type = "SAMPLES" /\ p.samples = bundle /\ SamplesIn(p) = Elements(bundle)
    BY DEF SamplesIn
  <2> HIDE DEF bundle, p
  <2>7. SortedPacket(ordered, p)
    <3>1. Sorted(ordered, bundle)
      <4> SUFFICES ASSUME NEW i \in 1 .. count, NEW j \in 1 .. count, i < j
                   PROVE  Before(ordered, bundle[i], bundle[j])
        BY <2>2 DEF Sorted
      <4>1. bundle[i].number < bundle[j].number
        BY <1>5, <2>2, <2>4
      <4> QED
        BY <2>4, <4>1 DEF Before
    <3>2. Run(bundle)
      <4> SUFFICES ASSUME NEW i \in 1 .. count
                   PROVE  /\ bundle[i].boot = bundle[1].boot
                          /\ bundle[i].number = bundle[1].number + (i - 1)
        BY <2>2 DEF Run
      <4>1. 1 \in 1 .. count
        BY <2>2
      <4> QED
        BY <1>5, <2>2, <2>4, <4>1
    <3>3. Len(bundle) <= MaxSent[ordered]
      <4>1. MaxSent[ordered] \in Nat
        BY <1>1, LinkConstants DEF LinkTypeOK
      <4> QED
        BY <2>2, <4>1
    <3> QED
      BY <2>6, <3>1, <3>2, <3>3 DEF SortedPacket
  <2>8. \A s \in SamplesIn(p) :
          Genuine(s) /\ s.boot = boot /\ s.number >= oldest /\ s.number < oldest'
    <3> SUFFICES ASSUME NEW i \in 1 .. count
                 PROVE  /\ Genuine(bundle[i]) /\ bundle[i].boot = boot
                        /\ bundle[i].number >= oldest /\ bundle[i].number < oldest'
      BY <2>2, <2>6 DEF Elements
    <3>1. Genuine(bundle[i])
      BY DEF bundle, Genuine, SampleOf
    <3> QED
      BY <1>5, <2>2, <2>4, <2>5, <3>1
  <2>9. UNCHANGED <<boot, up, boot_at>> /\ up /\ oldest' >= oldest
    BY <1>5, <1>6, <2>2, <2>5 DEF sendSamples
  <2>10. ToAir(p)
    BY <2>1 DEF p, bundle
  <2> QED
    BY <1>2, <2>3, <2>6, <2>7, <2>8, <2>9, <2>10, OrderSent
<1>7. CASE sendMeta
  <2> DEFINE p == [type |-> "META", seq |-> packet_seq, boot_id |-> boot]
  <2>1. p \in LinkPacket
    BY <1>1 DEF LinkPacket, LinkTypeOK
  <2>2. p.type = "META" /\ p.boot_id = boot /\ SamplesIn(p) = {} /\ SortedPacket(ordered, p)
    BY DEF SamplesIn, SortedPacket
  <2>3. ToAir(p) /\ UNCHANGED <<boot, up, boot_at, oldest>> /\ up
    BY <1>7 DEF sendMeta, sourceVars
  <2>4. oldest' >= oldest
    BY <1>5, <2>3
  <2> HIDE DEF p
  <2> QED
    BY <1>2, <2>1, <2>2, <2>3, <2>4, OrderSent
<1>8. CASE dropHeld \/ stop
  <2>1. /\ UNCHANGED boot /\ oldest' \in Nat /\ oldest' >= oldest
        /\ air' = air \/ (air' = <<>> /\ ~up')
        /\ \/ up' = up /\ boot_at' = boot_at /\ up
           \/ ~up' /\ boot_at' = time /\ boot < MaxBoots[ordered] /\ (ordered => air' = <<>>)
    <3>1. CASE dropHeld
      BY <1>5, <3>1 DEF dropHeld, GiveUp, Held, nodeVars
    <3>2. CASE stop
      <4>1. oldest' = oldest /\ boot' = boot /\ boot_at' = time /\ boot < MaxBoots[ordered]
        BY <3>2 DEF stop, sourceVars
      <4>2. up' = FALSE /\ air' = (IF ordered THEN <<>> ELSE air)
        BY <3>2 DEF stop
      <4>3. (air' = air \/ air' = <<>>) /\ (ordered => air' = <<>>)
        BY <4>2
      <4> QED
        BY <1>5, <4>1, <4>2, <4>3
    <3> QED
      BY <1>8, <3>1, <3>2
  <2>2. /\ Elements(air') \subseteq Elements(air)
        /\ InAir' \subseteq InAir
    <3>1. Elements(air') \subseteq Elements(air)
      BY <2>1, ElementsEmpty
    <3> QED
      BY <3>1, SamplesOfPart DEF InAir
  <2>3. Moves({}, {}, {}, {}, {})
    BY <1>4, <2>2 DEF Moves, AllBefore
  <2>4. StagesInOrder'
    BY <1>1, <2>3, StagesMoved
  <2>5. Coming' \subseteq Coming
    BY <2>3, ComingMoved
  <2>6. PlacesInOrder'
    <3>1. SortedPackets(ordered, <<>>)
      BY DEF SortedPackets
    <3> QED
      BY <1>1, <1>3, <2>1, <2>2, <3>1 DEF PlacesInOrder
  <2>7. \A s \in Delivered' \cup Coming' : Sent(s)'
    <3> SUFFICES ASSUME NEW s \in Delivered \cup Coming PROVE Sent(s)'
      BY <1>4, <2>5
    <3>1. s \in LinkSample /\ Sent(s)
      BY <1>1, ComingTyped DEF AirInv
    <3> QED
      BY <1>5, <2>1, <3>1 DEF Sent, LinkSample
  <2>8. AirInv'
    BY <1>1, <1>3, <2>1, <2>2, <2>7 DEF AirInv
  <2>9. MetaInv'
    BY <1>1, <1>3, <2>1, <2>5 DEF MetaInv
  <2> QED
    BY <1>4, <2>4, <2>6, <2>8, <2>9 DEF LinkOrder
<1>9. CASE start
  <2>1. /\ ~up /\ time >= boot_at + RestartTime /\ up' = TRUE /\ boot' = boot + 1
        /\ oldest' = 0 /\ air' = air
    BY <1>9 DEF start
  \* Nothing of the boot before is on its way any more.
  <2>2. air = <<>>
    <3>1. CASE ordered
      BY <1>1, <2>1, <3>1 DEF AirInv
    <3>2. CASE ~ordered
      <4>1. ordered = FALSE /\ FALSE \in Builds
        BY <1>1, <3>2, LinkConstants DEF LinkTypeOK
      <4>2. MaxBoots[FALSE] > 1
        <5>1. boot > 0 /\ boot < MaxBoots[ordered]
          BY <1>1, <2>1 DEF AirInv
        <5>2. MaxBoots[FALSE] \in Nat /\ boot < MaxBoots[FALSE]
          BY <4>1, <5>1, LinkConstants
        <5>3. \A b, n \in Nat : b > 0 /\ b < n => n > 1
          OBVIOUS
        <5> QED
          BY Zenon, <1>5, <5>1, <5>2, <5>3
      <4>3. MaxLatency < RestartTime
        BY <4>1, <4>2, RestartIsSlow
      <4>4. ASSUME NEW m \in Elements(air) PROVE FALSE
        <5>1. m \in Underway
          BY <1>1, ElementsTyped DEF LinkTypeOK
        <5>2. m.sent_at <= boot_at /\ time - m.sent_at <= MaxLatency
          BY <1>1, <2>1, <4>4 DEF AirInv
        <5>3. /\ m.sent_at \in Int /\ time \in Int /\ boot_at \in Int
              /\ MaxLatency \in Nat /\ RestartTime \in Nat
          BY <1>1, <5>1, LinkConstants DEF LinkTypeOK, Underway
        <5>4. time >= boot_at + RestartTime
          BY <2>1
        <5> QED
          BY <4>3, <5>2, <5>3, <5>4
      <4>5. air \in Seq(Underway)
        BY <1>1 DEF LinkTypeOK
      <4> QED
        BY <4>4, <4>5, ElementsHead
    <3> QED
      BY <3>1, <3>2
  <2>3. InAir = {} /\ InAir' = {} /\ Elements(air') = {}
    BY <2>1, <2>2, ElementsEmpty DEF InAir, SamplesOf
  <2>4. Moves({}, {}, {}, {}, {})
    BY <1>4, <2>3 DEF Moves, AllBefore
  <2>5. StagesInOrder'
    BY <1>1, <2>4, StagesMoved
  <2>6. Coming' \subseteq Coming
    BY <2>4, ComingMoved
  <2>7. PlacesInOrder'
    BY <1>1, <1>3, <2>1 DEF PlacesInOrder
  <2>8. \A s \in Delivered' \cup Coming' : Sent(s)'
    <3> SUFFICES ASSUME NEW s \in Delivered \cup Coming PROVE Sent(s)'
      BY <1>4, <2>6
    <3>1. s \in LinkSample /\ Sent(s)
      BY <1>1, ComingTyped DEF AirInv
    <3> QED
      BY <1>5, <2>1, <3>1 DEF Sent, LinkSample
  <2>9. \A m \in Elements(rxQueue') : m.packet.type = "META" => m.packet.boot_id <= boot'
    <3> SUFFICES ASSUME NEW m \in Elements(rxQueue), m.packet.type = "META"
                 PROVE  m.packet.boot_id <= boot'
      BY <1>3
    <3>1. m \in Received
      BY <1>1, ElementsTyped DEF LinkTypeOK
    <3>2. m.packet.boot_id \in Nat
      BY <3>1, LinkSamplesTyped DEF Received
    <3>3. m.packet.boot_id <= boot
      BY <1>1 DEF AirInv
    <3> QED
      BY <1>5, <2>1, <3>2, <3>3
  <2>10. AirInv'
    BY <1>5, <2>1, <2>3, <2>8, <2>9 DEF AirInv
  <2>11. MetaInv'
    <3>1. have_meta => last_boot_id <= boot + 1
      BY <1>1, <1>5 DEF MetaInv, LinkTypeOK
    <3> QED
      BY <1>1, <1>3, <2>1, <2>6, <3>1 DEF MetaInv
  <2> QED
    BY <1>4, <2>5, <2>7, <2>10, <2>11 DEF LinkOrder
<1> QED
  BY <1>6, <1>7, <1>8, <1>9 DEF Node

-----------------------------------------------------------------------------
(* The air. *)

\* The packets left in the air are packets that were there.
LEMMA AirLeft ==
  ASSUME LinkTypeOK, NEW i \in 1 .. Len(air),
         air' = Without(air, i) \/ air' = [air EXCEPT ![i].again = TRUE]
  PROVE  \A m \in Elements(air') : \E n \in Elements(air) :
           m.packet = n.packet /\ m.sent_at = n.sent_at
<1>0. air \in Seq(Underway)
  BY DEF LinkTypeOK
<1>1. CASE air' = Without(air, i)
  BY <1>0, <1>1, ElementsWithout
<1>2. CASE air' = [air EXCEPT ![i].again = TRUE]
  <2>1. Len(air') = Len(air)
    BY <1>0, <1>2, LenProperties
  <2>2. \A j \in 1 .. Len(air) : air'[j].packet = air[j].packet /\ air'[j].sent_at = air[j].sent_at
    <3> SUFFICES ASSUME NEW j \in 1 .. Len(air)
                 PROVE  air'[j].packet = air[j].packet /\ air'[j].sent_at = air[j].sent_at
      OBVIOUS
    <3>1. air[j] \in Underway /\ DOMAIN air = 1 .. Len(air)
      BY <1>0, ElementOfSeq, LenProperties
    <3>2. air'[j] = IF j = i THEN [air[i] EXCEPT !.again = TRUE] ELSE air[j]
      BY <1>2, <3>1
    <3> QED
      BY <3>1, <3>2 DEF Underway
  <2> QED
    BY <2>1, <2>2 DEF Elements
<1> QED
  BY <1>1, <1>2

LEMMA OrderArrive ==
  ASSUME LinkInv, LinkTypeOK', arrive, UNCHANGED ordered
  PROVE  LinkOrder'
<1>1. LinkTypeOK /\ PlacesInOrder /\ StagesInOrder /\ AirInv /\ MetaInv /\ PhaseInv
  BY DEF LinkInv
<1>2. PICK i \in 1 .. Len(air) :
        /\ ordered => i = 1
        /\ notificationCB(air[i].packet)
        /\ \/ air' = Without(air, i)
           \/ /\ ~ordered /\ air' = [air EXCEPT ![i].again = TRUE]
  BY DEF arrive
<1> DEFINE p == air[i].packet
           e == [packet |-> p, rx_time |-> time]
<1>3. UNCHANGED <<time, unread, frames, rx_good_frames, out, last_boot_id, have_meta,
                  have_source_frame, anchor, phase, boot, boot_at, up, oldest>>
  BY DEF arrive, notificationCB, packetVars, metaVars, frameVars, sourceVars, nodeVars
<1>4. /\ InFrames' = InFrames /\ InUnread' = InUnread /\ Delivered' = Delivered /\ PhaseInv'
  BY <1>1, <1>3 DEF InFrames, InUnread, Delivered, PhaseInv
<1>5. /\ air \in Seq(Underway) /\ rxQueue \in Seq(Received) /\ p \in LinkPacket
      /\ air[i] \in Elements(air) /\ e \in Received /\ e.packet = p
  BY <1>1, AirMember DEF LinkTypeOK, Received
<1>6. rxQueue' = Append(rxQueue, e) \/ rxQueue' = rxQueue
  BY <1>2 DEF notificationCB
<1> HIDE DEF e
<1>7. SamplesIn(p) \subseteq InAir
  BY <1>5, SamplesOfMember DEF InAir
<1>8. \A m \in Elements(air') : \E n \in Elements(air) :
        m.packet = n.packet /\ m.sent_at = n.sent_at
  BY <1>1, <1>2, AirLeft
<1>9. InAir' \subseteq InAir
  BY <1>8 DEF InAir, SamplesOf
<1>10. AllBefore(ordered, SamplesIn(p), InAir')
  <2>1. CASE ordered
    <3>1. i = 1 /\ air' = Without(air, 1)
      BY <1>2, <2>1
    <3>2. ASSUME NEW m \in Elements(air') PROVE AllBefore(ordered, SamplesIn(p), SamplesIn(m.packet))
      <4>1. PICK j \in 1 .. Len(air') : m = air'[j]
        BY DEF Elements
      <4>2. /\ Len(air') = Len(air) - 1
            /\ \A k \in 1 .. Len(air) - 1 : air'[k] = IF k < 1 THEN air[k] ELSE air[k + 1]
        BY <1>5, <3>1, WithoutProperties
      <4>3. Len(air) \in Nat
        BY <1>5, LenProperties
      <4>4. m = air[j + 1] /\ j + 1 \in 1 .. Len(air) /\ 1 < j + 1 /\ 1 \in 1 .. Len(air)
        BY <4>1, <4>2, <4>3
      <4>5. SortedPackets(ordered, air)
        BY <1>1, <2>1 DEF PlacesInOrder
      <4>6. Precedes(ordered, air[1].packet, air[j + 1].packet)
        BY <4>4, <4>5 DEF SortedPackets
      <4> QED
        BY <3>1, <4>4, <4>6 DEF Precedes
    <3> QED
      BY <3>2 DEF AllBefore, InAir, SamplesOf
  <2>2. CASE ~ordered
    <3>1. \A s \in SamplesIn(p), t \in InAir' : s.boot = t.boot
      BY <1>1, <1>7, <1>9 DEF AirInv
    <3> QED
      BY <2>2, <3>1 DEF AllBefore, Before
  <2> QED
    BY <2>1, <2>2
<1>11. /\ Elements(rxQueue') \subseteq Elements(rxQueue) \cup {e}
       /\ InQueue' \subseteq InQueue \cup SamplesIn(p)
  <2>1. CASE rxQueue' = rxQueue
    BY <2>1 DEF InQueue
  <2>2. CASE rxQueue' = Append(rxQueue, e)
    <3>1. Elements(rxQueue') = Elements(rxQueue) \cup {e}
      BY <1>5, <2>2, ElementsAppend
    <3>2. SamplesOf(rxQueue') = SamplesOf(rxQueue) \cup SamplesIn(e.packet)
      BY <1>5, <2>2, SamplesOfAppend
    <3> QED
      BY <1>5, <3>1, <3>2 DEF InQueue
  <2> QED
    BY <1>6, <2>1, <2>2
<1>12. Moves({}, {}, {}, SamplesIn(p), {})
  BY <1>4, <1>7, <1>9, <1>10, <1>11 DEF Moves, AllBefore
<1>13. StagesInOrder'
  BY <1>1, <1>12, StagesMoved
<1>14. Coming' \subseteq Coming
  BY <1>12, ComingMoved
<1>15. SortedPackets(ordered, rxQueue')
  <2>1. CASE rxQueue' = rxQueue
    BY <1>1, <2>1 DEF PlacesInOrder
  <2>2. CASE rxQueue' = Append(rxQueue, e)
    <3>1. ASSUME NEW m \in Elements(rxQueue) PROVE Precedes(ordered, m.packet, p)
      <4>1. SamplesIn(m.packet) \subseteq InQueue
        BY SamplesOfMember DEF InQueue
      <4>2. AllBefore(ordered, SamplesIn(m.packet), SamplesIn(p))
        BY <1>1, <1>7, <4>1 DEF StagesInOrder, AllBefore
      <4>3. m.packet.type = "META" => \A t \in SamplesIn(p) : m.packet.boot_id <= t.boot
        BY <1>1, <1>7 DEF AirInv
      <4> QED
        BY <4>2, <4>3 DEF Precedes
    <3>2. SortedPackets(ordered, rxQueue)
      BY <1>1 DEF PlacesInOrder
    <3> QED
      BY <1>5, <2>2, <3>1, <3>2, SortedPacketsAppend
  <2> QED
    BY <1>6, <2>1, <2>2
<1>16. ordered => SortedPackets(ordered, air')
  <2> SUFFICES ASSUME ordered PROVE SortedPackets(ordered, air')
    OBVIOUS
  <2>1. i = 1 /\ air' = Without(air, 1)
    BY <1>2
  <2>2. /\ Len(air') = Len(air) - 1
        /\ \A k \in 1 .. Len(air) - 1 : air'[k] = IF k < 1 THEN air[k] ELSE air[k + 1]
    BY <1>5, <2>1, WithoutProperties
  <2>3. Len(air) \in Nat /\ SortedPackets(ordered, air)
    BY <1>1, <1>5, LenProperties DEF PlacesInOrder
  <2> SUFFICES ASSUME NEW k \in 1 .. Len(air'), NEW l \in 1 .. Len(air'), k < l
               PROVE  Precedes(ordered, air'[k].packet, air'[l].packet)
    BY DEF SortedPackets
  <2>4. /\ k + 1 \in 1 .. Len(air) /\ l + 1 \in 1 .. Len(air) /\ k + 1 < l + 1
        /\ air'[k] = air[k + 1] /\ air'[l] = air[l + 1]
    BY <2>2, <2>3
  <2> QED
    BY <2>3, <2>4 DEF SortedPackets
<1>17. /\ \A m \in Elements(rxQueue') : SortedPacket(ordered, m.packet)
       /\ \A m \in Elements(air') : SortedPacket(ordered, m.packet)
  BY <1>1, <1>5, <1>8, <1>11 DEF PlacesInOrder
<1>18. PlacesInOrder'
  BY <1>1, <1>3, <1>15, <1>16, <1>17 DEF PlacesInOrder
<1>19. AirInv'
  <2>1. \A s \in Delivered' \cup Coming' : Sent(s)'
    BY <1>1, <1>3, <1>4, <1>14 DEF AirInv, Sent
  <2>2. \A s \in InAir' : s.boot = boot'
    BY <1>1, <1>3, <1>9 DEF AirInv
  <2>3. \A m \in Elements(air') :
          /\ m.packet.type = "META" => m.packet.boot_id = boot'
          /\ m.sent_at <= time' /\ time' - m.sent_at <= MaxLatency
          /\ ~up' => m.sent_at <= boot_at'
    BY <1>1, <1>3, <1>8 DEF AirInv
  <2>4. \A m \in Elements(rxQueue') : m.packet.type = "META" => m.packet.boot_id <= boot'
    <3>1. p.type = "META" => p.boot_id <= boot
      <4>1. p.type = "META" => p.boot_id = boot
        BY <1>1, <1>5 DEF AirInv
      <4>2. boot <= boot
        BY <1>1 DEF LinkTypeOK
      <4> QED
        BY <4>1, <4>2
    <3> QED
      BY <1>1, <1>3, <1>5, <1>11, <3>1 DEF AirInv
  <2>5. ~up /\ ordered => air' = <<>>
    <3>1. ~up /\ ordered => air = <<>>
      BY <1>1 DEF AirInv
    <3>2. air # <<>>
      BY DEF arrive
    <3> QED
      BY <3>1, <3>2
  <2> QED
    BY <1>1, <1>3, <2>1, <2>2, <2>3, <2>4, <2>5 DEF AirInv
<1>20. MetaInv'
  BY <1>1, <1>3, <1>14 DEF MetaInv
<1> QED
  BY <1>4, <1>13, <1>18, <1>19, <1>20 DEF LinkOrder

LEMMA AirShrinks ==
  ASSUME LinkTypeOK, lose \/ passPeriod
  PROVE  Elements(air') \subseteq Elements(air) /\ (ordered => air' = air \/ air' = <<>>)
<1>0. air \in Seq(Underway)
  BY DEF LinkTypeOK
<1>1. CASE lose
  <2>1. CASE ordered
    BY <1>1, <2>1, ElementsEmpty DEF lose
  <2>2. CASE ~ordered
    <3>1. PICK i \in 1 .. Len(air) : air' = Without(air, i)
      BY <1>1, <2>2 DEF lose
    <3> QED
      BY <1>0, <2>2, <3>1, ElementsWithout
  <2> QED
    BY <2>1, <2>2
<1>2. CASE passPeriod
  BY <1>2 DEF passPeriod
<1> QED
  BY <1>1, <1>2

LEMMA OrderRest ==
  ASSUME LinkInv, LinkTypeOK', lose \/ passPeriod, UNCHANGED ordered
  PROVE  LinkOrder'
<1>1. LinkTypeOK /\ PlacesInOrder /\ StagesInOrder /\ AirInv /\ MetaInv /\ PhaseInv
  BY DEF LinkInv
<1>2. UNCHANGED <<rxQueue, unread, frames, rx_good_frames, out, last_boot_id, have_meta,
                  have_source_frame, anchor, phase, boot, boot_at, up>>
  BY EngineUntouched DEF lose, passPeriod, nodeVars, queueVars, packetVars, metaVars, frameVars
<1>3. /\ InFrames' = InFrames /\ InUnread' = InUnread /\ InQueue' = InQueue
      /\ Delivered' = Delivered /\ PhaseInv'
  BY <1>1, <1>2 DEF InFrames, InUnread, InQueue, Delivered, PhaseInv
<1>4. air \in Seq(Underway) /\ oldest \in Nat
  BY <1>1 DEF LinkTypeOK
<1>5. oldest' \in Nat /\ oldest' >= oldest
  <2>1. oldest' = oldest \/ oldest' = oldest + 1
    BY DEF lose, passPeriod, Take, sourceVars
  <2> QED
    BY <1>4, <2>1
<1>6. Elements(air') \subseteq Elements(air) /\ (ordered => air' = air \/ air' = <<>>)
  BY <1>1, AirShrinks
<1>7. InAir' \subseteq InAir
  BY <1>6, SamplesOfPart DEF InAir
<1>8. Moves({}, {}, {}, {}, {})
  BY <1>3, <1>7 DEF Moves, AllBefore
<1>9. StagesInOrder'
  BY <1>1, <1>8, StagesMoved
<1>10. Coming' \subseteq Coming
  BY <1>8, ComingMoved
<1>11. PlacesInOrder'
  <2>1. SortedPackets(ordered, <<>>)
    BY DEF SortedPackets
  <2>2. \A m \in Elements(air') : SortedPacket(ordered, m.packet)
    BY <1>1, <1>6 DEF PlacesInOrder
  <2>3. ordered => SortedPackets(ordered, air')
    BY <1>1, <1>6, <2>1 DEF PlacesInOrder
  <2> QED
    BY <1>1, <1>2, <2>2, <2>3 DEF PlacesInOrder
<1>12. \A s \in Delivered' \cup Coming' : Sent(s)'
  <2> SUFFICES ASSUME NEW s \in Delivered \cup Coming PROVE Sent(s)'
    BY <1>3, <1>10
  <2>1. s \in LinkSample /\ Sent(s)
    BY <1>1, ComingTyped DEF AirInv
  <2> QED
    BY <1>2, <1>4, <1>5, <2>1 DEF Sent, LinkSample
<1>13. \A m \in Elements(air') : m.sent_at <= time' /\ time' - m.sent_at <= MaxLatency
  <2>1. CASE lose
    <3>1. time' = time
      BY <2>1, EngineUntouched DEF lose
    <3> QED
      BY <1>1, <1>6, <3>1 DEF AirInv
  <2>2. CASE passPeriod
    <3> SUFFICES ASSUME NEW i \in 1 .. Len(air)
                 PROVE  air[i].sent_at <= time' /\ time' - air[i].sent_at <= MaxLatency
      BY <2>2 DEF passPeriod, Elements
    <3>1. time' = time + Period /\ time + Period - air[i].sent_at <= MaxLatency
      BY <2>2 DEF passPeriod
    <3>2. air[i].sent_at <= time /\ air[i].sent_at \in Int /\ time \in Int /\ Period \in Nat
      BY <1>1, AirMember, LinkConstants DEF AirInv, LinkTypeOK, Underway
    <3> QED
      BY <3>1, <3>2
  <2> QED
    BY <2>1, <2>2
<1>14. ~up' /\ ordered => air' = <<>>
  BY <1>1, <1>2, <1>6 DEF AirInv
<1>15. AirInv'
  BY <1>1, <1>2, <1>6, <1>7, <1>12, <1>13, <1>14 DEF AirInv
<1>16. MetaInv'
  BY <1>1, <1>2, <1>10 DEF MetaInv
<1> QED
  BY <1>3, <1>9, <1>11, <1>15, <1>16 DEF LinkOrder

-----------------------------------------------------------------------------
LEMMA LinkInit == Init => LinkInv
<1> SUFFICES ASSUME Init PROVE LinkInv
  OBVIOUS
<1>1. /\ frames = <<>> /\ unread = <<>> /\ rxQueue = <<>> /\ air = <<>>
      /\ rx_good_frames = 0 /\ have_meta = FALSE /\ have_source_frame = FALSE
      /\ boot = 1 /\ up = TRUE /\ phase = "idle" /\ last_boot_id = 0
      /\ pending_unwrap = NoUnwrap /\ unwrap = NoUnwrap
  BY DEF Init, EngineInit, NodeInit
<1>2. /\ InFrames = {} /\ InUnread = {} /\ InQueue = {} /\ InAir = {} /\ Delivered = {}
      /\ Elements(air) = {} /\ Elements(rxQueue) = {}
  BY <1>1, ElementsEmpty DEF InFrames, InUnread, InQueue, InAir, SamplesOf, Delivered
<1>3. LinkTypeOK
  <2>1. NoUnwrap \in LinkUnwrap
    BY DEF NoUnwrap, LinkUnwrap
  <2>2. /\ time = 1 /\ taken = NodeAge /\ oldest = NodeAge /\ packet_seq = 0
        /\ ordered \in Builds
    BY DEF Init, EngineInit, NodeInit
  <2>3. boot_at \in Int
    <3>1. boot_at = 1 - NodeAge * Period
      BY DEF Init, NodeInit
    <3>2. NodeAge * Period \in Int
      BY LinkConstants
    <3> QED
      BY <3>1, <3>2
  <2> QED
    BY <1>1, <2>1, <2>2, <2>3, LinkConstants, EmptySeq DEF LinkTypeOK
<1>4. PlacesInOrder
  BY <1>1, <1>2 DEF PlacesInOrder, SortedFrames, Sorted, SortedPackets
<1>5. StagesInOrder
  BY <1>2 DEF StagesInOrder, AllBefore, Coming
<1>6. AirInv
  BY <1>1, <1>2 DEF AirInv, Coming
<1>7. MetaInv
  BY <1>1 DEF MetaInv
<1>8. PhaseInv
  BY <1>1 DEF PhaseInv
<1> QED
  BY <1>3, <1>4, <1>5, <1>6, <1>7, <1>8 DEF LinkInv

LEMMA LinkStep == LinkInv /\ [Next]_linkVars => LinkInv'
<1> SUFFICES ASSUME LinkInv, [Next]_linkVars PROVE LinkTypeOK' /\ (LinkTypeOK' => LinkOrder')
  BY DEF LinkInv, LinkOrder
<1>1. LinkTypeOK
  BY DEF LinkInv
<1>2. CASE S3 /\ UNCHANGED ordered
  <2>1. UNCHANGED engineOnly /\ handleRadioPacket
    BY <1>2 DEF S3, engineOnly
  <2>2. CASE handleMeta \/ handleSamples
    BY <1>1, <2>1, <2>2, TypeReceives, OrderReceives
  <2>3. CASE sampleUnwrapped \/ packetRefused \/ packetUnwrapped \/ frameRefused \/ packetDone
    BY <1>1, <2>1, <2>3, TypeHandMoves, OrderInHand
  <2>4. CASE frameReceived
    BY <1>1, <2>1, <2>4, TypeHandMoves, OrderFrameReceived
  <2> QED
    BY <2>1, <2>2, <2>3, <2>4 DEF handleRadioPacket
<1>3. CASE Node /\ UNCHANGED ordered
  BY <1>1, <1>3, TypeNode, OrderNode
<1>4. CASE arrive /\ UNCHANGED ordered
  BY <1>1, <1>4, TypeRest, OrderArrive
<1>5. CASE (lose \/ passPeriod) /\ UNCHANGED ordered
  BY <1>1, <1>5, TypeRest, OrderRest
<1>6. CASE UNCHANGED linkVars
  <2>1. UNCHANGED <<time, rxQueue, unread, frames, pending_unwrap, unwrap, rx_good_frames, out,
                    last_boot_id, have_meta, have_source_frame, anchor, phase, air, ordered,
                    boot, taken, oldest, boot_at, packet_seq, up>>
    BY <1>6, EngineUntouched DEF linkVars, sourceVars, nodeVars
  <2>2. LinkTypeOK'
    BY <1>1, <2>1 DEF LinkTypeOK
  <2>3. /\ InFrames' = InFrames /\ InUnread' = InUnread /\ InQueue' = InQueue
        /\ Delivered' = Delivered /\ InAir' = InAir /\ Coming' = Coming
    BY <2>1 DEF InFrames, InUnread, InQueue, Delivered, InAir, Coming
  <2>4. LinkOrder'
    BY <2>1, <2>3 DEF LinkInv, LinkOrder, PlacesInOrder, StagesInOrder, AirInv, Sent, MetaInv,
       PhaseInv
  <2> QED
    BY <2>2, <2>4
<1> QED
  BY <1>2, <1>3, <1>4, <1>5, <1>6 DEF Next

\* The frame a step delivers, and what it comes after.
LEMMA FrameDelivered ==
  ASSUME LinkInv, [Next]_linkVars, frameIn
  PROVE  /\ frameReceived
         /\ frames # <<>> /\ out'.sample = Head(frames).sample /\ out'.sample \in InFrames
         /\ out'.sample \in LinkSample
         /\ rx_good_frames > 0 => Before(ordered, out.sample, out'.sample)
<1>1. frameReceived
  BY EngineUntouched
     DEF frameIn, Next, S3, handleRadioPacket, Node, sendSamples, sendMeta, dropHeld, stop, start,
         arrive, lose, passPeriod, notificationCB, handleMeta, handleSamples, sampleUnwrapped,
         packetUnwrapped, packetDone, packetRefused, frameRefused, linkVars, frameVars
<1>2. frames # <<>> /\ out'.sample = Head(frames).sample
  BY <1>1 DEF frameReceived
<1>3. Head(frames) \in Elements(frames) /\ Head(frames) \in LinkFrame
  BY <1>2, ElementsHead DEF LinkInv, LinkTypeOK
<1>4. out'.sample \in InFrames /\ out'.sample \in LinkSample
  BY <1>2, <1>3 DEF InFrames, LinkFrame
<1>5. rx_good_frames > 0 => Before(ordered, out.sample, out'.sample)
  BY <1>4 DEF LinkInv, StagesInOrder, AllBefore, Delivered, Coming
<1> QED
  BY <1>1, <1>2, <1>4, <1>5

\* Once META of the node's boot has come, no frame of it joins an epoch in which
\* frames of a boot before were delivered, whatever is lost: over BLE, and over
\* datagrams that do not outlive the node's restart.
THEOREM MetaDetectsRestarts == Spec => MetaEndsTheKnownBoot
<1>1. ASSUME LinkInv, [Next]_linkVars
      PROVE  [frameIn /\ have_source_frame /\ anchor.known /\ last_boot_id = out'.sample.boot =>
                out.sample.boot = out'.sample.boot]_linkVars
  <2> SUFFICES ASSUME frameIn, have_source_frame, anchor.known, last_boot_id = out'.sample.boot
               PROVE  out.sample.boot = out'.sample.boot
    BY <1>1
  <2>1. rx_good_frames > 0 /\ last_boot_id <= out.sample.boot
    BY <1>1 DEF LinkInv, MetaInv
  <2>2. Before(ordered, out.sample, out'.sample) /\ out'.sample \in LinkSample
    BY <1>1, <2>1, FrameDelivered
  <2>3. out.sample \in LinkSample
    BY <1>1, <2>1 DEF LinkInv, LinkTypeOK
  <2> QED
    BY <2>1, <2>2, <2>3 DEF Before, LinkSample
<1> QED
  BY <1>1, LinkInit, LinkStep, PTL DEF Spec, MetaEndsTheKnownBoot

\* DATA never goes back to a boot before, and over BLE not to a frame before:
\* frames of one boot come in the order they were taken, each once.
NeverGoesBack ==
  [][frameIn /\ rx_good_frames > 0 => Before(ordered, out.sample, out'.sample)]_linkVars

\* It holds across lost links, refused packets and new epochs, with any number
\* of packets under way, whatever the widths of the clocks and numbers are.
THEOREM FramesNeverGoBack == Spec => NeverGoesBack
<1>1. LinkInv /\ [Next]_linkVars =>
        [frameIn /\ rx_good_frames > 0 => Before(ordered, out.sample, out'.sample)]_linkVars
  BY FrameDelivered
<1> QED
  BY <1>1, LinkInit, LinkStep, PTL DEF Spec, NeverGoesBack

-----------------------------------------------------------------------------
(***************************************************************************)
(* The node's clock as the engine unwraps it, and the losses it flags, as  *)
(* long as frames keep coming.                                             *)
(***************************************************************************)

(* Distances. *)

LEMMA WidthFacts ==
  /\ TickMod \in Nat \ {0} /\ IdMod \in Nat \ {0} /\ Period \in Nat \ {0}
  /\ \A o \in Builds : MaxSent[o] \in Nat /\ 4 * (Period * MaxSent[o]) < TickMod
  /\ TickMod <= 4 * (Period * IdMod)
  BY LinkConstants, WidthAssumption

\* Two numbers d apart are d apart modulo m too, or m more if d is negative.
LEMMA DistanceModulo ==
  ASSUME NEW m \in Nat \ {0}, NEW x \in Int, NEW y \in Int, -m < x - y, x - y < m
  PROVE  Modulo(x % m, y % m, m) = IF x - y >= 0 THEN x - y ELSE (x - y) + m
<1>1. PICK p \in Int, a \in 0 .. m - 1 : a = x % m /\ x = (m * p) + a
  BY Division
<1>2. PICK q \in Int, b \in 0 .. m - 1 : b = y % m /\ y = (m * q) + b
  BY Division
<1> DEFINE d == IF x - y >= 0 THEN x - y ELSE (x - y) + m
           k == IF x - y >= 0 THEN q - p ELSE q - p - 1
<1>3. m * p \in Int /\ m * q \in Int /\ d \in 0 .. m - 1 /\ k \in Int
  OBVIOUS
<1>4. m * (q - p) = (m * q) - (m * p) /\ m * (q - p - 1) = ((m * q) - (m * p)) - m
  <2>1. m * (q - p) = (m * q) - (m * p)
    BY Distribute
  <2>2. m * ((q - p) - 1) = (m * (q - p)) - (m * 1)
    BY <1>3, Distribute
  <2>3. m * 1 = m /\ (q - p) - 1 = q - p - 1
    OBVIOUS
  <2> QED
    BY <2>1, <2>2, <2>3
<1>5. a - b = (m * k) + d
  BY <1>1, <1>2, <1>3, <1>4
<1> HIDE DEF k, d
<1>6. ((m * k) + d) % m = d
  BY <1>3, Remainder
<1>7. Modulo(x % m, y % m, m) = d
  BY <1>1, <1>2, <1>5, <1>6 DEF Modulo
<1> QED
  BY <1>7 DEF d

\* Time between samples of a boot adds up, and follows their numbers.
LEMMA ApartFacts ==
  ASSUME NEW s \in LinkSample, NEW t \in LinkSample
  PROVE  /\ Apart(s, t) \in Int
         /\ Apart(t, s) = -Apart(s, t)
         /\ s.number <= t.number => Apart(s, t) >= 0
         /\ s.number < t.number => Apart(s, t) >= Period
         /\ Apart(s, t) >= 0 => s.number <= t.number
         /\ Apart(s, t) = (t.number + 1) * Period - (s.number + 1) * Period
<1> DEFINE d == t.number - s.number
<1>1. d \in Int /\ s.number \in Nat /\ t.number \in Nat /\ Period \in Nat \ {0}
  BY WidthFacts DEF LinkSample
<1>2. Apart(s, t) = Period * d /\ Apart(t, s) = Period * (0 - d)
  BY <1>1 DEF Apart
<1>3. Period * (0 - d) = (Period * 0) - (Period * d) /\ Period * d \in Int
  BY <1>1, Distribute
<1>4. d >= 0 => Period * d >= 0
  BY <1>1
<1>5. d > 0 => Period * d >= Period
  BY <1>1
<1>6. d < 0 => Period * d < 0
  BY <1>1
<1>7. (t.number + 1) * Period - (s.number + 1) * Period = Period * d
  BY <1>1
<1>8. /\ s.number <= t.number <=> d >= 0
      /\ s.number < t.number <=> d > 0
  BY <1>1
<1> HIDE DEF d
<1> DEFINE e == Period * d
<1>9. Period * 0 = 0
  BY <1>1
<1>10. /\ e \in Int /\ Apart(s, t) = e /\ Apart(t, s) = -e
       /\ (d >= 0 => e >= 0) /\ (d > 0 => e >= Period) /\ (d < 0 => e < 0)
  BY <1>2, <1>3, <1>4, <1>5, <1>6, <1>9
<1>11. (t.number + 1) * Period - (s.number + 1) * Period = e
  BY <1>7
<1> HIDE DEF e
<1> QED
  BY <1>1, <1>8, <1>10, <1>11

LEMMA ApartAdds ==
  ASSUME NEW s \in LinkSample, NEW t \in LinkSample, NEW u \in LinkSample
  PROVE  Apart(s, u) = Apart(s, t) + Apart(t, u)
<1>1. s.number \in Int /\ t.number \in Int /\ u.number \in Int /\ Period \in Int
  BY WidthFacts DEF LinkSample
<1> QED
  BY <1>1 DEF Apart

\* Samples in a row are a period apart each.
LEMMA ApartInRow ==
  ASSUME NEW s \in LinkSample, NEW t \in LinkSample, NEW k \in Int, t.number = s.number + k
  PROVE  Apart(s, t) = Period * k
<1>1. s.number \in Int /\ t.number \in Int /\ t.number - s.number = k
  BY DEF LinkSample
<1> QED
  BY <1>1 DEF Apart

\* A tick in front of the one before by less than half a turn, and only such a one,
\* is taken for what it is.
LEMMA TickFollows ==
  ASSUME NEW w \in LinkUnwrap, w.initialized,
         NEW u \in LinkSample, NEW s \in LinkSample, Genuine(u), Genuine(s),
         w.last = u.tick, Forward(w, s.tick),
         2 * Apart(u, s) < TickMod, 2 * Apart(s, u) < TickMod
  PROVE  /\ u.number <= s.number
         /\ Unwrap(w, s.tick).high = w.high + Apart(u, s)
<1> DEFINE x == (s.number + 1) * Period
           y == (u.number + 1) * Period
           d == Apart(u, s)
<1>1. TickMod \in Nat \ {0} /\ Period \in Nat /\ s.number \in Nat /\ u.number \in Nat
  BY WidthFacts DEF LinkSample
<1>2. x \in Int /\ y \in Int
  BY <1>1
<1>3. d \in Int /\ d = x - y /\ Apart(s, u) = -d /\ (d >= 0 => u.number <= s.number)
  BY ApartFacts
<1>4. s.tick = x % TickMod /\ u.tick = y % TickMod
  BY DEF Genuine
<1> HIDE DEF x, y, d
<1>5. -TickMod < x - y /\ x - y < TickMod
  BY <1>1, <1>3 DEF d
<1>6. Modulo(s.tick, w.last, TickMod) = IF d >= 0 THEN d ELSE d + TickMod
  <2>1. Modulo(x % TickMod, y % TickMod, TickMod) = IF x - y >= 0 THEN x - y ELSE (x - y) + TickMod
    BY <1>1, <1>2, <1>5, DistanceModulo
  <2> QED
    BY <1>3, <1>4, <2>1 DEF d
<1>7. 2 * Modulo(s.tick, w.last, TickMod) < TickMod
  BY DEF Forward
<1>8. d >= 0
  BY <1>1, <1>3, <1>6, <1>7 DEF d
<1>9. Unwrap(w, s.tick).high = w.high + Modulo(s.tick, w.last, TickMod)
  BY DEF Unwrap
<1> QED
  BY <1>3, <1>6, <1>8, <1>9 DEF d

\* frame_id of a frame less than a turn of the numbers ahead.
LEMMA NumberFollows ==
  ASSUME NEW u \in LinkSample, NEW s \in LinkSample, Genuine(u), Genuine(s),
         u.number <= s.number, 4 * Apart(u, s) < TickMod
  PROVE  Modulo(s.frame_id, u.frame_id, IdMod) = s.number - u.number
<1> DEFINE d == s.number - u.number
<1>1. d \in Nat /\ s.number \in Int /\ u.number \in Int /\ IdMod \in Nat \ {0} /\ Period \in Nat \ {0}
      /\ TickMod \in Nat
  BY WidthFacts DEF LinkSample
<1>2. 4 * (Period * d) < TickMod /\ TickMod <= 4 * (Period * IdMod)
  BY WidthFacts DEF Apart
<1>3. Period * d \in Int /\ Period * IdMod \in Int
  BY <1>1
<1>4. Period * d < Period * IdMod
  BY <1>1, <1>2, <1>3
<1>5. d >= IdMod => Period * d >= Period * IdMod
  BY <1>1
<1>6. d < IdMod
  BY <1>1, <1>3, <1>4, <1>5
<1>7. -IdMod < s.number - u.number /\ s.number - u.number < IdMod
  BY <1>1, <1>6
<1>8. Modulo(s.number % IdMod, u.number % IdMod, IdMod) =
        IF s.number - u.number >= 0 THEN s.number - u.number ELSE (s.number - u.number) + IdMod
  BY <1>1, <1>7, DistanceModulo
<1> QED
  BY <1>1, <1>8 DEF Genuine

-----------------------------------------------------------------------------
(* What the engine's memory of the last tick means. *)

\* w was left by sample u: no later than what is on its way, no earlier than the
\* last frame delivered, and true to the epoch's first frame.
Follows(w, u) ==
  /\ u \in LinkSample /\ Genuine(u)
  /\ w.initialized /\ w.last = u.tick
  /\ u.boot <= boot
  /\ \A s \in InUnread \cup InQueue : u.boot <= s.boot
  /\ have_source_frame =>
       /\ out.sample.boot <= u.boot
       /\ out.sample.boot = u.boot =>
            out.sample.number <= u.number /\ 4 * Apart(out.sample, u) < TickMod
       /\ anchor.sample.boot = u.boot => w.high - anchor.clock = Apart(anchor.sample, u)

\* Frame f, k places before the last one unwrapped, u.
EndsIn(f, w, u, k) ==
  /\ f.sample.boot = u.boot
  /\ u.number = f.sample.number + k
  /\ w.high - f.clock = Apart(f.sample, u)
  /\ have_source_frame /\ out.sample.boot = u.boot => out.sample.number <= f.sample.number

\* The epoch and its first and last frames,
EpochInv ==
  /\ epoch \in Nat /\ out.epoch \in Nat /\ out.epoch <= epoch
  /\ rx_good_frames = 0 => out.sample = NoSample
  /\ rx_good_frames > 0 /\ out.epoch = epoch => have_source_frame
  /\ have_source_frame =>
       /\ out.epoch = epoch
       /\ unwrap.initialized
       /\ anchor.sample \in LinkSample /\ anchor.clock \in Int
       /\ anchor.sample.boot <= out.sample.boot
       /\ last_source_frame_id = out.sample.frame_id

\* the packet in hand: the samples not yet unwrapped, in a row,
HandInv ==
  /\ Run(unread)
  /\ Len(frames) + Len(unread) <= MaxSent[ordered]
  /\ phase = "unwrap" /\ frames = <<>> => pending_unwrap = unwrap
  /\ phase = "frames" => pending_unwrap = unwrap

\* those that are, which end in the last one, and what follows it,
LastUnwrapped(u) ==
  /\ Follows(pending_unwrap, u)
  /\ \A i \in 1 .. Len(frames) : EndsIn(frames[i], pending_unwrap, u, Len(frames) - i)
  /\ \A i \in 1 .. Len(unread) : unread[i].boot = u.boot /\ unread[i].number = u.number + i

\* and the last one of the packet before.
UnwrapInv ==
  /\ unwrap.initialized => \E u \in LinkSample : Follows(unwrap, u)
  /\ frames # <<>> => \E u \in LinkSample : LastUnwrapped(u)

ClockInv == EpochInv /\ HandInv /\ UnwrapInv

\* What is on its way came from the air, and the node's boots are numbered.
LaterComes ==
  /\ boot' >= boot
  /\ InUnread' \cup InQueue' \subseteq InUnread \cup InQueue \cup InAir

LEMMA LaterMoved ==
  ASSUME LinkInv, [Next]_linkVars
  PROVE  LaterComes
<1>1. LinkTypeOK /\ AirInv /\ PhaseInv
  BY DEF LinkInv
<1>2. boot \in Nat
  BY <1>1 DEF LinkTypeOK
<1>3. CASE S3
  <2>1. boot' = boot /\ boot' >= boot
    BY <1>2, <1>3 DEF S3, nodeVars
  <2>2. CASE handleMeta \/ handleSamples
    <3>1. rxQueue # <<>> /\ rxQueue' = Tail(rxQueue)
      BY <2>2 DEF handleMeta, handleSamples, Receive
    <3>2. Head(rxQueue) \in Elements(rxQueue) /\ Elements(rxQueue') \subseteq Elements(rxQueue)
      BY <1>1, <3>1, ReceiveTyped
    <3>3. InQueue' \subseteq InQueue /\ SamplesIn(Head(rxQueue).packet) \subseteq InQueue
      BY <3>2, SamplesOfPart, SamplesOfMember DEF InQueue
    <3>4. InUnread' \subseteq InUnread \cup SamplesIn(Head(rxQueue).packet)
      BY <2>2 DEF handleMeta, handleSamples, packetVars, InUnread, SamplesIn
    <3> QED
      BY <2>1, <3>3, <3>4 DEF LaterComes
  <2>3. CASE sampleUnwrapped \/ packetRefused \/ packetUnwrapped \/ frameRefused \/ frameReceived
               \/ packetDone
    <3>1. rxQueue' = rxQueue
      BY <2>3 DEF sampleUnwrapped, packetRefused, packetUnwrapped, frameRefused, frameReceived,
         packetDone, queueVars
    <3>2. unread' = unread \/ unread' = <<>> \/ (unread # <<>> /\ unread' = Tail(unread))
      BY <2>3 DEF sampleUnwrapped, packetRefused, packetUnwrapped, frameRefused, frameReceived,
         packetDone, Done
    <3>3. Elements(unread') \subseteq Elements(unread)
      BY <1>1, <3>2, ElementsHead, ElementsEmpty DEF LinkTypeOK
    <3> QED
      BY <2>1, <3>1, <3>3 DEF LaterComes, InUnread, InQueue
  <2> QED
    BY <1>3, <2>2, <2>3 DEF S3, handleRadioPacket
<1>4. CASE Node
  <2>1. boot' >= boot
    BY <1>2, <1>4 DEF Node, sendSamples, sendMeta, dropHeld, stop, start, nodeVars
  <2>2. UNCHANGED engineVars
    BY <1>4 DEF Node, sendSamples, sendMeta, dropHeld, stop, start
  <2> QED
    BY <2>1, <2>2, EngineKeepsPlaces DEF LaterComes
<1>5. CASE arrive
  <2>1. PICK i \in 1 .. Len(air) : notificationCB(air[i].packet)
    BY <1>5 DEF arrive
  <2> DEFINE e == [packet |-> air[i].packet, rx_time |-> time]
  <2>2. rxQueue' = rxQueue \/ rxQueue' = Append(rxQueue, e)
    BY <2>1 DEF notificationCB
  <2>3. /\ air[i] \in Elements(air) /\ e \in Received /\ e.packet = air[i].packet
        /\ rxQueue \in Seq(Received)
    BY <1>1, AirMember DEF LinkTypeOK, Received
  <2>4. SamplesIn(e.packet) \subseteq InAir
    BY <2>3, SamplesOfMember DEF InAir
  <2> HIDE DEF e
  <2>5. InQueue' \subseteq InQueue \cup InAir
    <3>1. SamplesOf(Append(rxQueue, e)) = SamplesOf(rxQueue) \cup SamplesIn(e.packet)
      BY <2>3, SamplesOfAppend
    <3> QED
      BY <2>2, <2>4, <3>1 DEF InQueue
  <2>6. unread' = unread /\ boot' = boot
    BY <1>5 DEF arrive, notificationCB, packetVars, nodeVars
  <2> QED
    BY <1>2, <2>5, <2>6 DEF LaterComes, InUnread
<1>6. CASE lose \/ passPeriod \/ UNCHANGED linkVars
  <2>1. unread' = unread /\ rxQueue' = rxQueue /\ boot' = boot
    BY <1>6, EngineUntouched DEF lose, passPeriod, linkVars, packetVars, queueVars, nodeVars
  <2> QED
    BY <1>2, <2>1 DEF LaterComes, InUnread, InQueue
<1> QED
  BY <1>3, <1>4, <1>5, <1>6 DEF Next

\* As long as no frame is delivered, what followed goes on to.
LEMMA FollowsKept ==
  ASSUME LinkInv, LaterComes, boot' \in Nat, NEW w \in LinkUnwrap, NEW u, Follows(w, u),
         have_source_frame' => have_source_frame /\ out' = out /\ anchor' = anchor
  PROVE  Follows(w, u)'
<1>1. u \in LinkSample /\ u.boot <= boot /\ boot \in Nat /\ boot' >= boot
  BY DEF Follows, LinkInv, LinkTypeOK, LaterComes
<1>2. \A s \in InAir : s.boot = boot
  BY DEF LinkInv, AirInv
<1>3. \A s \in InUnread' \cup InQueue' : u.boot <= s.boot
  BY <1>1, <1>2 DEF LaterComes, Follows
<1>4. u.boot <= boot'
  BY <1>1 DEF LinkSample
<1> QED
  BY <1>3, <1>4 DEF Follows, Genuine, Apart

LEMMA UnwrapKept ==
  ASSUME LinkInv, LinkInv', LaterComes, NEW u \in LinkSample, Follows(unwrap, u), unwrap' = unwrap,
         have_source_frame' => have_source_frame /\ out' = out /\ anchor' = anchor
  PROVE  Follows(unwrap, u)'
<1>1. boot' \in Nat /\ unwrap \in LinkUnwrap
  BY DEF LinkInv, LinkTypeOK
<1>2. ASSUME NEW w \in LinkUnwrap, w = unwrap, w = unwrap' PROVE Follows(unwrap, u)'
  <2>1. Follows(w, u)'
    BY <1>1, <1>2, FollowsKept
  <2> QED
    BY <1>2, <2>1 DEF Follows
<1> QED
  BY <1>1, <1>2

LEMMA PendingKept ==
  ASSUME LinkInv, LinkInv', LaterComes, NEW u \in LinkSample, Follows(pending_unwrap, u),
         pending_unwrap' = pending_unwrap,
         have_source_frame' => have_source_frame /\ out' = out /\ anchor' = anchor
  PROVE  Follows(pending_unwrap, u)'
<1>1. boot' \in Nat /\ pending_unwrap \in LinkUnwrap
  BY DEF LinkInv, LinkTypeOK
<1>2. ASSUME NEW w \in LinkUnwrap, w = pending_unwrap, w = pending_unwrap'
      PROVE  Follows(pending_unwrap, u)'
  <2>1. Follows(w, u)'
    BY <1>1, <1>2, FollowsKept
  <2> QED
    BY <1>2, <2>1 DEF Follows
<1> QED
  BY <1>1, <1>2

\* Steps that leave the packet in hand and the epoch alone: those of the node, of
\* the air and of time.
LEMMA ClockSurroundings ==
  ASSUME LinkInv, LinkInv', ClockInv, LaterComes, ordered' = ordered,
         UNCHANGED <<packetVars, clockVars, frameVars, epoch>>
  PROVE  ClockInv'
<1>1. UNCHANGED <<phase, unread, frames, pending_unwrap, unwrap, have_source_frame,
                  last_source_frame_id, rx_good_frames, out, anchor, epoch>>
  BY DEF packetVars, clockVars, frameVars
<1>2. EpochInv' /\ HandInv'
  BY <1>1 DEF ClockInv, EpochInv, HandInv
<1>3. unwrap'.initialized => \E u \in LinkSample : Follows(unwrap, u)'
  BY <1>1, UnwrapKept DEF ClockInv, UnwrapInv
<1>4. frames' # <<>> => \E u \in LinkSample : LastUnwrapped(u)'
  <2> SUFFICES ASSUME frames # <<>> PROVE \E u \in LinkSample : LastUnwrapped(u)'
    BY <1>1
  <2>1. PICK u \in LinkSample : LastUnwrapped(u)
    BY DEF ClockInv, UnwrapInv
  <2>2. Follows(pending_unwrap, u)'
    BY <1>1, <2>1, PendingKept DEF LastUnwrapped
  <2>3. LastUnwrapped(u)'
    BY <1>1, <2>1, <2>2 DEF LastUnwrapped, EndsIn
  <2> QED
    BY <2>3
<1> QED
  BY <1>2, <1>3, <1>4 DEF ClockInv, UnwrapInv

\* loop() takes a packet from the queue: the epoch goes on, or all is forgotten.
LEMMA ClockReceives ==
  ASSUME LinkInv, LinkInv', ClockInv, LaterComes, ordered' = ordered,
         handleMeta \/ handleSamples
  PROVE  ClockInv'
<1>1. /\ UNCHANGED <<rx_good_frames, out, anchor, last_source_frame_id>>
      /\ phase = "idle" /\ rxQueue # <<>>
      /\ \E called \in BOOLEAN : SourceReboot(called)
  BY DEF handleMeta, handleSamples, Receive, LinkWasLost, IsReboot
<1>2. /\ frames = <<>> /\ unread = <<>> /\ LinkTypeOK
      /\ Head(rxQueue) \in Elements(rxQueue) /\ Head(rxQueue).packet \in LinkPacket
  BY <1>1, ReceiveTyped DEF LinkInv, PhaseInv
<1>3. \/ /\ epoch' = epoch /\ unwrap' = unwrap
         /\ have_source_frame' <=> have_source_frame
      \/ /\ epoch' = epoch + 1 /\ ~have_source_frame' /\ unwrap' = NoUnwrap
  <2>1. PICK called \in BOOLEAN : SourceReboot(called)
    BY <1>1
  <2> QED
    BY <2>1 DEF SourceReboot
<1>4. EpochInv'
  BY <1>1, <1>3 DEF ClockInv, EpochInv
<1>5. frames' = <<>> /\ HandInv'
  <2>1. CASE handleMeta
    BY <1>1, <1>2, <2>1 DEF handleMeta, packetVars, ClockInv, HandInv
  <2>2. CASE handleSamples
    <3>1. /\ frames' = <<>> /\ unread' = Head(rxQueue).packet.samples
          /\ pending_unwrap' = unwrap' /\ phase' = "unwrap" /\ Head(rxQueue).packet.type = "SAMPLES"
      BY <2>2 DEF handleSamples
    <3>2. Run(unread') /\ Len(unread') <= MaxSent[ordered']
      BY <1>2, <3>1 DEF LinkInv, PlacesInOrder, SortedPacket
    <3>3. Len(frames') = 0 /\ Len(unread') \in Nat
      BY <1>2, <3>1, LinkSamplesTyped
    <3> QED
      BY <3>1, <3>2, <3>3 DEF HandInv
  <2> QED
    BY <2>1, <2>2
<1>6. unwrap'.initialized => \E u \in LinkSample : Follows(unwrap, u)'
  <2>1. CASE unwrap' = unwrap /\ (have_source_frame' <=> have_source_frame)
    BY <1>1, <2>1, UnwrapKept DEF ClockInv, UnwrapInv
  <2>2. CASE unwrap' = NoUnwrap
    BY <2>2 DEF NoUnwrap
  <2> QED
    BY <1>3, <2>1, <2>2
<1> QED
  BY <1>4, <1>5, <1>6 DEF ClockInv, UnwrapInv

\* The packet is done with, or refused: the copy of the unwrapper is dropped.
LEMMA ClockDone ==
  ASSUME LinkInv, LinkInv', ClockInv, LaterComes, ordered' = ordered,
         packetRefused \/ packetDone
  PROVE  ClockInv'
<1>1. /\ UNCHANGED <<unwrap, have_source_frame, last_source_frame_id, rx_good_frames, out, anchor,
                     epoch>>
      /\ phase' = "idle" /\ frames' = <<>> /\ unread' = <<>>
  BY DEF packetRefused, packetDone, Done, clockVars, frameVars
<1>2. MaxSent[ordered] \in Nat
  BY LinkConstants DEF LinkInv, LinkTypeOK
<1>3. EpochInv'
  BY <1>1 DEF ClockInv, EpochInv
<1>4. HandInv'
  <2>1. Run(<<>>) /\ Len(<<>>) = 0
    BY DEF Run
  <2> QED
    BY <1>1, <1>2, <2>1 DEF HandInv
<1>5. unwrap'.initialized => \E u \in LinkSample : Follows(unwrap, u)'
  BY <1>1, UnwrapKept DEF ClockInv, UnwrapInv
<1> QED
  BY <1>1, <1>3, <1>4, <1>5 DEF ClockInv, UnwrapInv

\* All ticks of the packet went forward: the copy is kept.
LEMMA ClockPacketUnwrapped ==
  ASSUME LinkInv, LinkInv', ClockInv, LaterComes, ordered' = ordered, packetUnwrapped
  PROVE  ClockInv'
<1>1. /\ UNCHANGED <<have_source_frame, last_source_frame_id, rx_good_frames, out, anchor, epoch,
                     frames, unread, pending_unwrap>>
      /\ phase = "unwrap" /\ phase' = "frames" /\ unread = <<>> /\ unwrap' = pending_unwrap
  BY DEF packetUnwrapped, frameVars
<1>2. frames' # <<>> => \E u \in LinkSample : LastUnwrapped(u)'
  <2> SUFFICES ASSUME frames # <<>> PROVE \E u \in LinkSample : LastUnwrapped(u)'
    BY <1>1
  <2>1. PICK u \in LinkSample : LastUnwrapped(u)
    BY DEF ClockInv, UnwrapInv
  <2>2. Follows(pending_unwrap, u)'
    BY <1>1, <2>1, PendingKept DEF LastUnwrapped
  <2>3. LastUnwrapped(u)'
    BY <1>1, <2>1, <2>2 DEF LastUnwrapped, EndsIn
  <2> QED
    BY <2>3
<1>3. frames = <<>> => unwrap' = unwrap
  BY <1>1 DEF ClockInv, HandInv
<1>4. unwrap'.initialized => \E u \in LinkSample : Follows(unwrap, u)'
  <2>1. CASE frames = <<>>
    BY <1>1, <1>3, <2>1, UnwrapKept DEF ClockInv, UnwrapInv
  <2>2. CASE frames # <<>>
    <3>1. PICK u \in LinkSample : LastUnwrapped(u)'
      BY <1>1, <1>2, <2>2
    <3> QED
      BY <1>1, <3>1 DEF LastUnwrapped, Follows
  <2> QED
    BY <2>1, <2>2
<1>5. EpochInv'
  <2>1. have_source_frame => pending_unwrap.initialized
    <3>1. CASE frames = <<>>
      BY <1>1, <1>3, <3>1 DEF ClockInv, EpochInv
    <3>2. CASE frames # <<>>
      BY <3>2 DEF ClockInv, UnwrapInv, LastUnwrapped, Follows
    <3> QED
      BY <3>1, <3>2
  <2> QED
    BY <1>1, <2>1 DEF ClockInv, EpochInv
<1>6. HandInv'
  BY <1>1 DEF ClockInv, HandInv
<1> QED
  BY <1>2, <1>4, <1>5, <1>6 DEF ClockInv, UnwrapInv

\* The next sample is one more than the last one unwrapped of the same packet, and
\* no further from the last one of an earlier packet than frames keep coming.
LEMMA NextTick ==
  ASSUME LinkInv, ClockInv, FramesKeepComing, sampleUnwrapped,
         NEW s, s = Head(unread)
  PROVE  /\ s = unread[1] /\ s \in InUnread /\ s \in LinkSample /\ Genuine(s) /\ s.boot <= boot
         /\ \A u \in LinkSample : frames # <<>> /\ LastUnwrapped(u) =>
              /\ s.boot = u.boot /\ s.number = u.number + 1
              /\ pending_unwrap'.high = pending_unwrap.high + Apart(u, s)
         /\ have_source_frame =>
              /\ out.sample \in LinkSample /\ out.sample.boot <= s.boot
              /\ out.sample.boot = s.boot =>
                   \E u \in LinkSample :
                     /\ Follows(pending_unwrap, u)
                     /\ u.boot = s.boot /\ u.number <= s.number
                     /\ pending_unwrap'.high = pending_unwrap.high + Apart(u, s)
<1>1. /\ unread \in Seq(LinkSample) /\ unread # <<>> /\ phase = "unwrap"
      /\ Forward(pending_unwrap, s.tick) /\ pending_unwrap' = Unwrap(pending_unwrap, s.tick)
      /\ pending_unwrap \in LinkUnwrap /\ boot \in Nat /\ frames \in Seq(LinkFrame)
      /\ ordered \in Builds
  BY DEF LinkInv, LinkTypeOK, sampleUnwrapped
<1>2. s = unread[1] /\ s \in InUnread /\ s \in LinkSample /\ Len(unread) \in Nat /\ Len(unread) >= 1
  BY <1>1, ElementsHead, LenProperties DEF InUnread
<1>3. s \in Coming
  BY <1>2 DEF Coming
<1>4. Genuine(s) /\ s.boot <= boot
  <2>1. Sent(s)
    BY <1>3 DEF LinkInv, AirInv
  <2>2. s.boot \in Nat /\ boot \in Nat
    BY <1>1, <1>2 DEF LinkSample
  <2> QED
    BY <2>1, <2>2 DEF Sent
<1>5. ASSUME NEW u \in LinkSample, frames # <<>>, LastUnwrapped(u)
      PROVE  /\ s.boot = u.boot /\ s.number = u.number + 1
             /\ pending_unwrap'.high = pending_unwrap.high + Apart(u, s)
  <2>1. 1 \in 1 .. Len(unread)
    BY <1>2
  <2>2. s.boot = u.boot /\ s.number = u.number + 1 /\ Follows(pending_unwrap, u)
    BY <1>2, <1>5, <2>1 DEF LastUnwrapped
  <2>3. Apart(u, s) = Period * 1 /\ Period * 1 = Period
    BY <1>2, <2>2, ApartInRow, WidthFacts
  <2>4. Apart(s, u) = -Apart(u, s)
    BY <1>2, ApartFacts
  <2>5. 4 * Period < TickMod
    <3>1. Len(frames) \in Nat
      BY <1>1, LenProperties
    <3>2. MaxSent[ordered] \in Nat /\ MaxSent[ordered] >= 1
      BY <1>1, <1>2, <3>1, WidthFacts DEF ClockInv, HandInv
    <3>3. Period * MaxSent[ordered] >= Period
      BY <3>2, WidthFacts
    <3>4. 4 * (Period * MaxSent[ordered]) < TickMod
      BY <1>1, WidthFacts
    <3> DEFINE x == Period * MaxSent[ordered]
    <3>5. x \in Int
      BY <3>2, WidthFacts
    <3> HIDE DEF x
    <3> QED
      BY <3>3, <3>4, <3>5, WidthFacts DEF x
  <2>6. 2 * Apart(u, s) < TickMod /\ 2 * Apart(s, u) < TickMod
    BY <2>3, <2>4, <2>5, WidthFacts
  <2> QED
    BY <1>1, <1>2, <1>4, <2>2, <2>6, TickFollows DEF Follows
<1>6. ASSUME have_source_frame
      PROVE  out.sample \in LinkSample /\ out.sample.boot <= s.boot
  <2>1. rx_good_frames > 0 /\ out.sample \in LinkSample
    BY <1>6 DEF LinkInv, MetaInv, LinkTypeOK
  <2>2. Before(ordered, out.sample, s)
    BY <1>3, <2>1 DEF LinkInv, StagesInOrder, AllBefore, Delivered
  <2> QED
    BY <1>2, <2>1, <2>2 DEF Before, LinkSample
<1>7. ASSUME have_source_frame, out.sample.boot = s.boot
      PROVE  \E u \in LinkSample :
               /\ Follows(pending_unwrap, u)
               /\ u.boot = s.boot /\ u.number <= s.number
               /\ pending_unwrap'.high = pending_unwrap.high + Apart(u, s)
  <2>1. CASE frames # <<>>
    <3>1. PICK u \in LinkSample : LastUnwrapped(u)
      BY <2>1 DEF ClockInv, UnwrapInv
    <3>2. /\ s.boot = u.boot /\ s.number = u.number + 1
          /\ pending_unwrap'.high = pending_unwrap.high + Apart(u, s)
      BY <1>5, <2>1, <3>1
    <3>3. u.number <= s.number
      BY <3>2 DEF LinkSample
    <3> QED
      BY <3>1, <3>2, <3>3 DEF LastUnwrapped
  <2>2. CASE frames = <<>>
    <3>1. pending_unwrap = unwrap /\ unwrap.initialized
      BY <1>1, <1>7, <2>2 DEF ClockInv, HandInv, EpochInv
    <3>2. PICK u \in LinkSample : Follows(pending_unwrap, u)
      BY <3>1 DEF ClockInv, UnwrapInv
    <3>3. u.boot <= s.boot /\ out.sample.boot <= u.boot
      BY <1>2, <1>7, <3>2 DEF Follows
    <3>4. out.sample \in LinkSample
      BY <1>6, <1>7
    <3>5. u.boot = s.boot
      BY <1>2, <1>7, <3>3 DEF LinkSample
    <3>6. out.sample.number <= u.number /\ 4 * Apart(out.sample, u) < TickMod
      BY <1>7, <3>2, <3>5 DEF Follows
    <3>7. 4 * Apart(out.sample, s) < TickMod /\ 4 * Apart(s, out.sample) < TickMod
      <4>1. 1 \in 1 .. Len(unread)
        BY <1>2
      <4> QED
        BY <1>2, <1>7, <4>1 DEF FramesKeepComing
    <3>8. /\ Apart(u, s) = Apart(u, out.sample) + Apart(out.sample, s)
          /\ Apart(s, u) = Apart(s, out.sample) + Apart(out.sample, u)
      BY <1>2, <3>4, ApartAdds
    <3>9. /\ Apart(out.sample, u) \in Int /\ Apart(out.sample, u) >= 0
          /\ Apart(u, out.sample) = -Apart(out.sample, u)
          /\ Apart(out.sample, s) \in Int /\ Apart(s, out.sample) = -Apart(out.sample, s)
      BY <1>2, <3>4, <3>6, ApartFacts
    <3>10. 2 * Apart(u, s) < TickMod /\ 2 * Apart(s, u) < TickMod
      BY <3>6, <3>7, <3>8, <3>9, WidthFacts
    <3>11. u.number <= s.number /\ pending_unwrap'.high = pending_unwrap.high + Apart(u, s)
      BY <1>1, <1>2, <1>4, <3>2, <3>10, TickFollows DEF Follows
    <3> QED
      BY <3>2, <3>5, <3>11
  <2> QED
    BY <2>1, <2>2
<1> QED
  BY <1>2, <1>4, <1>5, <1>6, <1>7

LEMMA RunTail ==
  ASSUME NEW q \in Seq(LinkSample), q # <<>>, Run(q)
  PROVE  /\ Run(Tail(q)) /\ Len(Tail(q)) = Len(q) - 1
         /\ \A i \in 1 .. Len(Tail(q)) :
              Tail(q)[i].boot = Head(q).boot /\ Tail(q)[i].number = Head(q).number + i
<1>1. /\ Len(q) \in Nat /\ Len(q) >= 1 /\ Len(Tail(q)) = Len(q) - 1 /\ Head(q) = q[1]
      /\ \A i \in 1 .. Len(Tail(q)) : Tail(q)[i] = q[i + 1]
  BY HeadTailProperties, LenProperties
<1>2. q[1] \in LinkSample
  BY <1>1, ElementOfSeq
<1>3. \A i \in 1 .. Len(Tail(q)) :
        Tail(q)[i].boot = q[1].boot /\ Tail(q)[i].number = q[1].number + i
  <2> SUFFICES ASSUME NEW i \in 1 .. Len(Tail(q))
               PROVE  Tail(q)[i].boot = q[1].boot /\ Tail(q)[i].number = q[1].number + i
    OBVIOUS
  <2>1. i + 1 \in 1 .. Len(q) /\ (i + 1) - 1 = i
    BY <1>1
  <2> QED
    BY <1>1, <2>1 DEF Run
<1>4. Run(Tail(q))
  <2> SUFFICES ASSUME NEW i \in 1 .. Len(Tail(q))
               PROVE  /\ Tail(q)[i].boot = Tail(q)[1].boot
                      /\ Tail(q)[i].number = Tail(q)[1].number + (i - 1)
    BY DEF Run
  <2>1. 1 \in 1 .. Len(Tail(q)) /\ q[1].number \in Int
    BY <1>1, <1>2 DEF LinkSample
  <2>2. Tail(q)[i].number = q[1].number + i /\ Tail(q)[1].number = q[1].number + 1
    BY <1>3, <2>1
  <2> QED
    BY <1>3, <2>1, <2>2
<1> QED
  BY <1>1, <1>3, <1>4

\* A sample is unwrapped: the next one to follow.
LEMMA ClockSampleUnwrapped ==
  ASSUME LinkInv, LinkInv', ClockInv, LaterComes, FramesKeepComing, ordered' = ordered,
         sampleUnwrapped, NEW s, s = Head(unread)
  PROVE  ClockInv'
<1> DEFINE f == [sample |-> s, clock |-> pending_unwrap'.high]
<1>1. /\ UNCHANGED <<have_source_frame, last_source_frame_id, rx_good_frames, out, anchor, epoch,
                     unwrap, phase>>
      /\ phase = "unwrap" /\ unread # <<>> /\ unread' = Tail(unread)
      /\ frames' = Append(frames, f)
      /\ pending_unwrap' = Unwrap(pending_unwrap, s.tick)
  BY DEF sampleUnwrapped, frameVars, clockVars
<1>2. /\ unread \in Seq(LinkSample) /\ frames \in Seq(LinkFrame) /\ frames' \in Seq(LinkFrame)
      /\ pending_unwrap \in LinkUnwrap /\ pending_unwrap' \in LinkUnwrap
      /\ boot \in Nat /\ boot' \in Nat
  BY DEF LinkInv, LinkTypeOK
<1>3. /\ s = unread[1] /\ s \in InUnread /\ s \in LinkSample /\ Genuine(s) /\ s.boot <= boot
      /\ \A u \in LinkSample : frames # <<>> /\ LastUnwrapped(u) =>
           /\ s.boot = u.boot /\ s.number = u.number + 1
           /\ pending_unwrap'.high = pending_unwrap.high + Apart(u, s)
      /\ have_source_frame =>
           /\ out.sample \in LinkSample /\ out.sample.boot <= s.boot
           /\ out.sample.boot = s.boot =>
                \E u \in LinkSample :
                  /\ Follows(pending_unwrap, u)
                  /\ u.boot = s.boot /\ u.number <= s.number
                  /\ pending_unwrap'.high = pending_unwrap.high + Apart(u, s)
  BY NextTick
<1>4. /\ Run(unread') /\ Len(unread') = Len(unread) - 1
      /\ \A i \in 1 .. Len(unread') : unread'[i].boot = s.boot /\ unread'[i].number = s.number + i
  BY <1>1, <1>2, RunTail DEF ClockInv, HandInv
<1>5. /\ Len(frames) \in Nat /\ Len(frames') = Len(frames) + 1
      /\ \A i \in 1 .. Len(frames) : frames'[i] = frames[i]
      /\ frames'[Len(frames) + 1] = f /\ frames' # <<>>
  <2>1. f \in LinkFrame
    BY <1>2, <1>3 DEF LinkFrame, LinkUnwrap
  <2> HIDE DEF f
  <2> QED
    BY <1>1, <1>2, <2>1, AppendProperties, LenProperties
<1>6. f.sample = s /\ f.clock = pending_unwrap'.high
  OBVIOUS
<1> HIDE DEF f
<1>7. EpochInv'
  BY <1>1 DEF ClockInv, EpochInv
<1>8. HandInv'
  <2>1. Len(unread) \in Nat
    BY <1>2, LenProperties
  <2> QED
    BY <1>1, <1>4, <1>5, <2>1 DEF ClockInv, HandInv
<1>9. unwrap'.initialized => \E u \in LinkSample : Follows(unwrap, u)'
  BY <1>1, UnwrapKept DEF ClockInv, UnwrapInv
<1>10. Follows(pending_unwrap, s)'
  <2>1. \A t \in InUnread' \cup InQueue' : s.boot <= t.boot
    <3>1. \A t \in InUnread' : s.boot <= t.boot
      BY <1>3, <1>4 DEF InUnread, Elements, LinkSample
    <3>2. \A t \in InQueue : s.boot <= t.boot
      <4> SUFFICES ASSUME NEW t \in InQueue PROVE s.boot <= t.boot
        OBVIOUS
      <4>1. t \in LinkSample
        BY ComingTyped DEF LinkInv, Coming
      <4>2. Before(ordered, s, t)
        BY <1>3 DEF LinkInv, StagesInOrder, AllBefore
      <4> QED
        BY <1>3, <4>1, <4>2 DEF Before, LinkSample
    <3>3. InQueue' = InQueue
      BY DEF sampleUnwrapped, queueVars, InQueue
    <3> QED
      BY <3>1, <3>2, <3>3
  <2>2. s.boot <= boot'
    BY <1>2, <1>3 DEF LaterComes, LinkSample
  <2>3. pending_unwrap'.initialized /\ pending_unwrap'.last = s.tick
    BY <1>1 DEF Unwrap
  <2>4. ASSUME have_source_frame
        PROVE  /\ out.sample.boot <= s.boot
               /\ out.sample.boot = s.boot =>
                    out.sample.number <= s.number /\ 4 * Apart(out.sample, s) < TickMod
               /\ anchor.sample.boot = s.boot =>
                    pending_unwrap'.high - anchor.clock = Apart(anchor.sample, s)
    <3>1. /\ out.sample \in LinkSample /\ out.sample.boot <= s.boot
          /\ anchor.sample \in LinkSample /\ anchor.clock \in Int
          /\ anchor.sample.boot <= out.sample.boot
      BY <1>3, <2>4 DEF ClockInv, EpochInv
    <3>2. CASE out.sample.boot = s.boot
      <4>1. PICK u \in LinkSample :
              /\ Follows(pending_unwrap, u)
              /\ u.boot = s.boot /\ u.number <= s.number
              /\ pending_unwrap'.high = pending_unwrap.high + Apart(u, s)
        BY <1>3, <2>4, <3>2
      <4>2. out.sample.number <= s.number
        <5>1. out.sample.number <= u.number
          BY <2>4, <3>2, <4>1 DEF Follows
        <5> QED
          BY <1>3, <3>1, <4>1, <5>1 DEF LinkSample
      <4>3. 4 * Apart(out.sample, s) < TickMod
        <5>1. 1 \in 1 .. Len(unread)
          BY <1>1, <1>2
        <5> QED
          BY <1>3, <2>4, <3>2, <5>1 DEF FramesKeepComing
      <4>4. anchor.sample.boot = s.boot =>
              pending_unwrap'.high - anchor.clock = Apart(anchor.sample, s)
        <5> SUFFICES ASSUME anchor.sample.boot = s.boot
                     PROVE  pending_unwrap'.high - anchor.clock = Apart(anchor.sample, s)
          OBVIOUS
        <5>1. pending_unwrap.high - anchor.clock = Apart(anchor.sample, u)
          BY <2>4, <4>1 DEF Follows
        <5>2. Apart(anchor.sample, s) = Apart(anchor.sample, u) + Apart(u, s)
          BY <1>3, <3>1, ApartAdds
        <5>3. Apart(anchor.sample, u) \in Int /\ Apart(u, s) \in Int /\ pending_unwrap.high \in Int
          BY <1>2, <1>3, <3>1, ApartFacts DEF LinkUnwrap
        <5> QED
          BY <3>1, <4>1, <5>1, <5>2, <5>3
      <4> QED
        BY <3>1, <4>2, <4>3, <4>4
    <3>3. CASE out.sample.boot # s.boot
      BY <1>3, <3>1, <3>3 DEF LinkSample
    <3> QED
      BY <3>2, <3>3
  <2> QED
    BY <1>1, <1>3, <2>1, <2>2, <2>3, <2>4 DEF Follows, Genuine, Apart
<1>11. \A i \in 1 .. Len(frames') : EndsIn(frames[i], pending_unwrap, s, Len(frames) - i)'
  <2> SUFFICES ASSUME NEW i \in 1 .. Len(frames) + 1
               PROVE  EndsIn(frames[i], pending_unwrap, s, Len(frames) - i)'
    BY <1>5
  <2>1. CASE i = Len(frames) + 1
    <3>1. frames'[i] = f /\ Len(frames') - i = 0
      BY <1>5, <2>1
    <3>2. Apart(s, s) = 0 /\ pending_unwrap'.high - pending_unwrap'.high = 0
      <4>1. s.number - s.number = 0 /\ pending_unwrap'.high \in Int
        BY <1>2, <1>3 DEF LinkSample, LinkUnwrap
      <4>2. Period * 0 = 0
        BY WidthFacts
      <4> QED
        BY <4>1, <4>2 DEF Apart
    <3>3. have_source_frame' /\ out'.sample.boot = s.boot => out'.sample.number <= s.number
      BY <1>10 DEF Follows
    <3>4. s.number = s.number + 0
      BY <1>3 DEF LinkSample
    <3> QED
      BY <1>6, <3>1, <3>2, <3>3, <3>4 DEF EndsIn, Apart
  <2>2. CASE i # Len(frames) + 1
    <3>1. i \in 1 .. Len(frames) /\ frames # <<>> /\ frames'[i] = frames[i]
          /\ Len(frames') - i = (Len(frames) - i) + 1
      BY <1>5, <2>2
    <3>2. PICK u \in LinkSample : LastUnwrapped(u)
      BY <3>1 DEF ClockInv, UnwrapInv
    <3>3. /\ s.boot = u.boot /\ s.number = u.number + 1
          /\ pending_unwrap'.high = pending_unwrap.high + Apart(u, s)
      BY <1>3, <3>1, <3>2
    <3>4. EndsIn(frames[i], pending_unwrap, u, Len(frames) - i)
      BY <3>1, <3>2 DEF LastUnwrapped
    <3> DEFINE g == frames[i]
    <3>5. g \in LinkFrame /\ g.sample \in LinkSample /\ g.clock \in Int
      <4>1. g \in LinkFrame
        BY <1>2, <3>1, ElementOfSeq
      <4> QED
        BY <4>1 DEF LinkFrame
    <3>6. Apart(g.sample, s) = Apart(g.sample, u) + Apart(u, s)
      BY <1>3, <3>2, <3>5, ApartAdds
    <3>7. Apart(g.sample, u) \in Int /\ Apart(u, s) \in Int /\ pending_unwrap.high \in Int
      BY <1>2, <1>3, <3>2, <3>5, ApartFacts DEF LinkUnwrap
    <3>8. pending_unwrap'.high - g.clock = Apart(g.sample, s)
      BY <3>3, <3>4, <3>5, <3>6, <3>7 DEF EndsIn
    <3>9. s.number = g.sample.number + ((Len(frames) - i) + 1)
      <4>1. u.number = g.sample.number + (Len(frames) - i)
        BY <3>4 DEF EndsIn
      <4>2. g.sample.number \in Nat /\ Len(frames) - i \in Int
        BY <1>5, <3>1, <3>5 DEF LinkSample
      <4> HIDE DEF g
      <4> QED
        BY <3>3, <4>1, <4>2
    <3>10. g.sample.boot = s.boot
      BY <3>3, <3>4 DEF EndsIn
    <3>11. have_source_frame /\ out.sample.boot = s.boot => out.sample.number <= g.sample.number
      BY <3>3, <3>4 DEF EndsIn
    <3>12. frames'[i] = g
      BY <3>1
    <3> HIDE DEF g
    <3> QED
      BY <1>1, <3>1, <3>8, <3>9, <3>10, <3>11, <3>12 DEF EndsIn, Apart
  <2> QED
    BY <2>1, <2>2
<1>12. LastUnwrapped(s)'
  BY <1>4, <1>10, <1>11 DEF LastUnwrapped
<1> QED
  BY <1>3, <1>7, <1>8, <1>9, <1>12 DEF ClockInv, UnwrapInv

\* The packet in hand once all its ticks went forward, but for its first frame.
LEMMA FramesTail ==
  ASSUME LinkTypeOK, frames # <<>>, frames' = Tail(frames)
  PROVE  /\ Len(frames) \in Nat /\ Len(frames) >= 1 /\ Len(frames') = Len(frames) - 1
         /\ Head(frames) = frames[1] /\ frames[1] \in LinkFrame
         /\ \A i \in 1 .. Len(frames') : frames'[i] = frames[i + 1] /\ i + 1 \in 1 .. Len(frames)
<1>1. frames \in Seq(LinkFrame)
  BY DEF LinkTypeOK
<1>2. /\ Len(frames) \in Nat /\ Len(frames) >= 1 /\ Len(frames') = Len(frames) - 1
      /\ Head(frames) = frames[1] /\ \A i \in 1 .. Len(frames') : frames'[i] = frames[i + 1]
  BY <1>1, HeadTailProperties, LenProperties
<1>3. frames[1] \in LinkFrame
  BY <1>1, <1>2, ElementOfSeq
<1> QED
  BY <1>2, <1>3

\* A frame counted as a duplicate changes nothing else.
LEMMA ClockFrameRefused ==
  ASSUME LinkInv, LinkInv', ClockInv, LaterComes, ordered' = ordered, frameRefused
  PROVE  ClockInv'
<1>1. /\ UNCHANGED <<have_source_frame, last_source_frame_id, rx_good_frames, out, anchor, epoch,
                     unread, pending_unwrap, unwrap, phase>>
      /\ frames # <<>> /\ frames' = Tail(frames) /\ phase = "frames"
  BY DEF frameRefused, clockVars
<1>2. /\ Len(frames) \in Nat /\ Len(frames') = Len(frames) - 1
      /\ \A i \in 1 .. Len(frames') : frames'[i] = frames[i + 1] /\ i + 1 \in 1 .. Len(frames)
  BY <1>1, FramesTail DEF LinkInv
<1>3. EpochInv' /\ HandInv'
  <2>1. Len(unread) \in Nat /\ MaxSent[ordered] \in Nat
    BY LinkConstants, LenProperties DEF LinkInv, LinkTypeOK
  <2> QED
    BY <1>1, <1>2, <2>1 DEF ClockInv, EpochInv, HandInv
<1>4. unwrap'.initialized => \E u \in LinkSample : Follows(unwrap, u)'
  BY <1>1, UnwrapKept DEF ClockInv, UnwrapInv
<1>5. \E u \in LinkSample : LastUnwrapped(u)'
  <2>1. PICK u \in LinkSample : LastUnwrapped(u)
    BY <1>1 DEF ClockInv, UnwrapInv
  <2>2. Follows(pending_unwrap, u)'
    BY <1>1, <2>1, PendingKept DEF LastUnwrapped
  <2>3. \A i \in 1 .. Len(frames') :
          EndsIn(frames[i + 1], pending_unwrap, u, Len(frames) - (i + 1))
    BY <1>2, <2>1 DEF LastUnwrapped
  <2>4. \A i \in 1 .. Len(frames') : Len(frames) - (i + 1) = Len(frames') - i
    BY <1>2
  <2>5. \A i \in 1 .. Len(frames') : EndsIn(frames[i], pending_unwrap, u, Len(frames) - i)'
    BY <1>1, <1>2, <2>3, <2>4 DEF EndsIn
  <2>6. LastUnwrapped(u)'
    BY <1>1, <2>1, <2>2, <2>5 DEF LastUnwrapped
  <2> QED
    BY <2>6
<1> QED
  BY <1>3, <1>4, <1>5 DEF ClockInv, UnwrapInv

\* A frame is delivered: the last one unwrapped is less than a packet from it.
LEMMA ClockFrameReceived ==
  ASSUME LinkInv, LinkInv', ClockInv, LaterComes, ordered' = ordered, frameReceived,
         NEW f, f = Head(frames)
  PROVE  ClockInv'
<1>1. /\ UNCHANGED <<epoch, unread, pending_unwrap, unwrap, phase, rxQueue>>
      /\ frames # <<>> /\ frames' = Tail(frames) /\ phase = "frames"
      /\ rx_good_frames' = rx_good_frames + 1
      /\ last_source_frame_id' = f.sample.frame_id
      /\ have_source_frame'
      /\ out'.sample = f.sample /\ out'.epoch = epoch
      /\ have_source_frame => anchor' = anchor
      /\ ~have_source_frame => anchor'.sample = f.sample /\ anchor'.clock = f.clock
  BY DEF frameReceived, clockVars, queueVars
<1>2. /\ Len(frames) \in Nat /\ Len(frames) >= 1 /\ Len(frames') = Len(frames) - 1
      /\ f = frames[1] /\ f \in LinkFrame
      /\ \A i \in 1 .. Len(frames') : frames'[i] = frames[i + 1] /\ i + 1 \in 1 .. Len(frames)
  BY <1>1, FramesTail DEF LinkInv
<1>3. f.sample \in LinkSample /\ f.clock \in Int
  BY <1>2 DEF LinkFrame
<1>4. PICK u \in LinkSample : LastUnwrapped(u)
  BY <1>1 DEF ClockInv, UnwrapInv
<1>5. pending_unwrap = unwrap /\ Follows(pending_unwrap, u)
  BY <1>1, <1>4 DEF ClockInv, HandInv, LastUnwrapped
<1>6. EndsIn(f, pending_unwrap, u, Len(frames) - 1)
  BY <1>2, <1>4 DEF LastUnwrapped
<1>7. f.sample.boot = u.boot /\ u.number = f.sample.number + (Len(frames) - 1)
  BY <1>6 DEF EndsIn
<1>8. have_source_frame => out.sample \in LinkSample /\ out.sample.boot <= u.boot
  <2> SUFFICES ASSUME have_source_frame PROVE out.sample \in LinkSample /\ out.sample.boot <= u.boot
    OBVIOUS
  <2>1. rx_good_frames > 0
    BY DEF LinkInv, MetaInv
  <2> QED
    BY <1>5, <2>1 DEF LinkInv, LinkTypeOK, Follows
<1>9. anchor'.sample \in LinkSample /\ anchor'.clock \in Int /\ anchor'.sample.boot <= u.boot
  <2>1. CASE have_source_frame
    <3>1. anchor.sample \in LinkSample /\ anchor.clock \in Int
          /\ anchor.sample.boot <= out.sample.boot
      BY <2>1 DEF ClockInv, EpochInv
    <3>2. anchor' = anchor /\ out.sample \in LinkSample /\ out.sample.boot <= u.boot
      BY <1>1, <1>8, <2>1
    <3>3. anchor.sample.boot \in Nat /\ out.sample.boot \in Nat /\ u.boot \in Nat
      BY <3>1, <3>2 DEF LinkSample
    <3>4. anchor.sample.boot <= u.boot
      BY <3>1, <3>2, <3>3
    <3> QED
      BY <3>1, <3>2, <3>4
  <2>2. CASE ~have_source_frame
    BY <1>1, <1>3, <1>7, <2>2 DEF LinkSample
  <2> QED
    BY <2>1, <2>2
<1>10. EpochInv'
  <2>1. rx_good_frames' > 0 /\ rx_good_frames' # 0
    BY <1>1 DEF LinkInv, LinkTypeOK
  <2>2. epoch' \in Nat /\ out'.epoch \in Nat /\ out'.epoch <= epoch'
    BY <1>1 DEF ClockInv, EpochInv
  <2>3. unwrap'.initialized
    BY <1>1, <1>5 DEF Follows
  <2> QED
    BY <1>1, <1>7, <1>9, <2>1, <2>2, <2>3 DEF EpochInv
<1>11. HandInv'
  <2>1. Len(unread) \in Nat /\ MaxSent[ordered] \in Nat
    BY LinkConstants, LenProperties DEF LinkInv, LinkTypeOK
  <2> QED
    BY <1>1, <1>2, <2>1 DEF ClockInv, HandInv
<1>12. Follows(pending_unwrap, u)'
  <2>1. u.boot <= boot'
    <3>1. u.boot <= boot /\ boot' >= boot
      BY <1>5 DEF Follows, LaterComes
    <3>2. boot \in Nat /\ boot' \in Nat
      BY DEF LinkInv, LinkTypeOK
    <3>3. u.boot \in Nat
      BY <1>4 DEF LinkSample
    <3> QED
      BY <3>1, <3>2, <3>3
  <2>2. \A s \in InUnread' \cup InQueue' : u.boot <= s.boot
    BY <1>1, <1>5 DEF Follows, InUnread, InQueue
  <2>3. f.sample.number <= u.number
    BY <1>2, <1>3, <1>7 DEF LinkSample
  <2>4. 4 * Apart(f.sample, u) < TickMod
    <3>1. Apart(f.sample, u) = Period * (Len(frames) - 1)
      BY <1>2, <1>3, <1>4, <1>7, ApartInRow
    <3>2. /\ ordered \in Builds /\ MaxSent[ordered] \in Nat
          /\ 4 * (Period * MaxSent[ordered]) < TickMod
      BY WidthFacts DEF LinkInv, LinkTypeOK
    <3>3. Len(frames) - 1 <= MaxSent[ordered]
      <4>1. Len(unread) \in Nat
        BY LenProperties DEF LinkInv, LinkTypeOK
      <4> QED
        BY <1>2, <3>2, <4>1 DEF ClockInv, HandInv
    <3> DEFINE k == Len(frames) - 1
               x == Period * k
               y == Period * MaxSent[ordered]
    <3>4. k \in Int /\ k <= MaxSent[ordered]
      BY <1>2, <3>3
    <3> HIDE DEF k
    <3>5. x \in Int /\ y \in Int /\ x <= y
      BY <3>2, <3>4, WidthFacts
    <3>6. Apart(f.sample, u) = x /\ 4 * y < TickMod
      BY <3>1, <3>2 DEF k
    <3> HIDE DEF x, y
    <3> QED
      BY <3>5, <3>6, WidthFacts
  <2>5. anchor'.sample.boot = u.boot =>
          pending_unwrap.high - anchor'.clock = Apart(anchor'.sample, u)
    <3>1. CASE have_source_frame
      BY <1>1, <1>5, <3>1 DEF Follows
    <3>2. CASE ~have_source_frame
      BY <1>1, <1>6, <3>2 DEF EndsIn
    <3> QED
      BY <3>1, <3>2
  <2>6. u \in LinkSample /\ Genuine(u) /\ pending_unwrap'.initialized /\ pending_unwrap'.last = u.tick
    BY <1>1, <1>5 DEF Follows
  <2>7. out'.sample.boot <= u.boot
    BY <1>1, <1>3, <1>7 DEF LinkSample
  <2> QED
    BY <1>1, <2>1, <2>2, <2>3, <2>4, <2>5, <2>6, <2>7 DEF Follows, Genuine, Apart
<1>13. \A i \in 1 .. Len(frames') : EndsIn(frames[i], pending_unwrap, u, Len(frames) - i)'
  <2> SUFFICES ASSUME NEW i \in 1 .. Len(frames')
               PROVE  EndsIn(frames[i], pending_unwrap, u, Len(frames) - i)'
    OBVIOUS
  <2>1. i + 1 \in 1 .. Len(frames) /\ frames'[i] = frames[i + 1]
        /\ Len(frames') - i = Len(frames) - (i + 1)
    BY <1>2
  <2> DEFINE g == frames[i + 1]
  <2>2. EndsIn(g, pending_unwrap, u, Len(frames) - (i + 1))
    BY <1>4, <2>1 DEF LastUnwrapped
  <2>3. g.sample \in LinkSample
    <3>1. g \in LinkFrame
      BY <2>1, ElementOfSeq DEF LinkInv, LinkTypeOK
    <3> QED
      BY <3>1 DEF LinkFrame
  <2>4. frames'[i] = g
    BY <2>1
  <2> HIDE DEF g
  <2>5. g.sample.boot = u.boot /\ u.number = g.sample.number + (Len(frames) - (i + 1))
        /\ pending_unwrap.high - g.clock = Apart(g.sample, u)
    BY <2>2 DEF EndsIn
  <2>6. f.sample.number <= g.sample.number
    <3>1. f.sample.number \in Nat /\ g.sample.number \in Nat
      BY <1>3, <2>3 DEF LinkSample
    <3>2. u.number = f.sample.number + (Len(frames) - 1)
          /\ u.number = g.sample.number + (Len(frames) - (i + 1))
      BY <1>7, <2>5
    <3> QED
      BY <1>2, <3>1, <3>2
  <2> QED
    BY <1>1, <2>1, <2>4, <2>5, <2>6 DEF EndsIn, Apart
<1>14. \A i \in 1 .. Len(unread') : unread'[i].boot = u.boot /\ unread'[i].number = u.number + i
  BY <1>1, <1>4 DEF LastUnwrapped
<1>15. LastUnwrapped(u)'
  BY <1>12, <1>13, <1>14 DEF LastUnwrapped
<1>16. Follows(unwrap, u)'
  BY <1>1, <1>5, <1>12 DEF Follows
<1> QED
  BY <1>4, <1>10, <1>11, <1>15, <1>16 DEF ClockInv, UnwrapInv

LEMMA ClockInit == Init => ClockInv
<1> SUFFICES ASSUME Init PROVE ClockInv
  OBVIOUS
<1>1. /\ frames = <<>> /\ unread = <<>> /\ rx_good_frames = 0 /\ have_source_frame = FALSE
      /\ phase = "idle" /\ unwrap = NoUnwrap /\ epoch = 0
      /\ out.sample = NoSample /\ out.epoch = 0 /\ ordered \in Builds
  BY DEF Init, EngineInit, NoFrame
<1>2. EpochInv
  BY <1>1 DEF EpochInv
<1>3. HandInv
  <2>1. Run(<<>>) /\ Len(<<>>) = 0 /\ MaxSent[ordered] \in Nat
    BY <1>1, LinkConstants DEF Run
  <2> QED
    BY <1>1, <2>1 DEF HandInv
<1>4. UnwrapInv
  BY <1>1 DEF UnwrapInv, NoUnwrap
<1> QED
  BY <1>2, <1>3, <1>4 DEF ClockInv

LEMMA ClockStep == LinkInv /\ LinkInv' /\ ClockInv /\ FramesKeepComing /\ [Next]_linkVars => ClockInv'
<1> SUFFICES ASSUME LinkInv, LinkInv', ClockInv, FramesKeepComing, [Next]_linkVars PROVE ClockInv'
  OBVIOUS
<1>1. LaterComes
  BY LaterMoved
<1>2. ordered' = ordered
  BY DEF Next, linkVars
<1>3. CASE S3
  <2>1. handleRadioPacket
    BY <1>3 DEF S3
  <2>2. CASE handleMeta \/ handleSamples
    BY <1>1, <1>2, <2>2, ClockReceives
  <2>3. CASE sampleUnwrapped
    BY <1>1, <1>2, <2>3, ClockSampleUnwrapped
  <2>4. CASE packetRefused \/ packetDone
    BY <1>1, <1>2, <2>4, ClockDone
  <2>5. CASE packetUnwrapped
    BY <1>1, <1>2, <2>5, ClockPacketUnwrapped
  <2>6. CASE frameRefused
    BY <1>1, <1>2, <2>6, ClockFrameRefused
  <2>7. CASE frameReceived
    BY <1>1, <1>2, <2>7, ClockFrameReceived
  <2> QED
    BY <2>1, <2>2, <2>3, <2>4, <2>5, <2>6, <2>7 DEF handleRadioPacket
<1>4. CASE Node \/ arrive \/ lose \/ passPeriod \/ UNCHANGED linkVars
  <2>1. UNCHANGED <<packetVars, clockVars, frameVars, epoch>>
    BY <1>4 DEF Node, sendSamples, sendMeta, dropHeld, stop, start, arrive, notificationCB, lose,
       passPeriod, linkVars, engineVars
  <2> QED
    BY <1>1, <1>2, <2>1, ClockSurroundings
<1> QED
  BY <1>3, <1>4 DEF Next

LEMMA ClockTrue == LinkInv /\ ClockInv => ClockIsTrue
<1> SUFFICES ASSUME LinkInv, ClockInv, NEW i \in 1 .. Len(frames),
                    have_source_frame, frames[i].sample.boot = anchor.sample.boot
             PROVE  frames[i].clock - anchor.clock = Apart(anchor.sample, frames[i].sample)
  BY DEF ClockIsTrue
<1>1. frames \in Seq(LinkFrame) /\ pending_unwrap \in LinkUnwrap
  BY DEF LinkInv, LinkTypeOK
<1>2. frames[i] \in LinkFrame /\ frames # <<>>
  BY <1>1, ElementOfSeq
<1>3. PICK u \in LinkSample : LastUnwrapped(u)
  BY <1>2 DEF ClockInv, UnwrapInv
<1>4. EndsIn(frames[i], pending_unwrap, u, Len(frames) - i) /\ Follows(pending_unwrap, u)
  BY <1>3 DEF LastUnwrapped
<1> DEFINE s == frames[i].sample
           c == frames[i].clock
           a == anchor.sample
           h == pending_unwrap.high
<1>5. s \in LinkSample /\ c \in Int /\ h \in Int /\ a \in LinkSample /\ anchor.clock \in Int
  BY <1>1, <1>2 DEF LinkFrame, LinkUnwrap, ClockInv, EpochInv
<1>6. s.boot = u.boot /\ h - c = Apart(s, u)
  BY <1>4 DEF EndsIn
<1>7. h - anchor.clock = Apart(a, u)
  BY <1>4, <1>6 DEF Follows
<1>8. Apart(a, u) = Apart(a, s) + Apart(s, u) /\ Apart(a, s) \in Int /\ Apart(s, u) \in Int
  BY <1>3, <1>5, ApartAdds, ApartFacts
<1> DEFINE x == Apart(a, s)
           y == Apart(s, u)
           b == anchor.clock
<1> HIDE DEF s, c, a, h
<1>9. h - c = y /\ h - b = x + y /\ x \in Int /\ y \in Int /\ b \in Int
  BY <1>5, <1>6, <1>7, <1>8
<1> HIDE DEF x, y, b
<1>10. c - b = x
  BY <1>5, <1>9
<1> QED
  BY <1>10 DEF s, c, a, b, x

\* In an epoch a frame is delivered after the one before it, and what it says of
\* the frames in between is true.
LEMMA NextOfEpoch ==
  ASSUME LinkInv, ClockInv, [Next]_linkVars, frameIn, out.epoch = out'.epoch,
         rx_good_frames > 0, out.sample.boot = out'.sample.boot
  PROVE  /\ out.sample.number < out'.sample.number
         /\ out'.gap_flag <=> out'.sample.number > out.sample.number + 1
<1> DEFINE s == Head(frames).sample
           d == out.sample
<1>1. frameReceived /\ frames # <<>> /\ out'.sample = s /\ s \in InFrames /\ s \in LinkSample
  BY FrameDelivered
<1>2. /\ out'.epoch = epoch /\ out'.gap_flag = (Missed > 0) /\ ~IsDuplicate
  BY <1>1 DEF frameReceived
<1>3. rx_good_frames > 0 /\ have_source_frame /\ d \in LinkSample /\ d \in Delivered
      /\ last_source_frame_id = d.frame_id
  BY <1>2 DEF ClockInv, EpochInv, LinkInv, LinkTypeOK, Delivered
<1>4. Genuine(s) /\ Genuine(d)
  BY <1>1, <1>3 DEF LinkInv, AirInv, Sent, Coming
<1>5. PICK u \in LinkSample : LastUnwrapped(u)
  BY <1>1 DEF ClockInv, UnwrapInv
<1>6. s = frames[1].sample /\ 1 \in 1 .. Len(frames) /\ Len(frames) \in Nat
  BY <1>1, HeadTailProperties, LenProperties DEF LinkInv, LinkTypeOK
<1>7. EndsIn(frames[1], pending_unwrap, u, Len(frames) - 1) /\ Follows(pending_unwrap, u)
  BY <1>5, <1>6 DEF LastUnwrapped
<1>8. s.boot = u.boot /\ d.boot = s.boot /\ d.number <= s.number
      /\ u.number = s.number + (Len(frames) - 1)
  BY <1>1, <1>3, <1>6, <1>7 DEF EndsIn
<1>9. 4 * Apart(d, s) < TickMod
  <2>1. 4 * Apart(d, u) < TickMod
    BY <1>3, <1>7, <1>8 DEF Follows
  <2>2. Apart(d, u) = Apart(d, s) + Apart(s, u) /\ Apart(d, s) \in Int /\ Apart(s, u) \in Int
    BY <1>1, <1>3, <1>5, ApartAdds, ApartFacts
  <2>3. s.number <= u.number
    <3>1. s.number \in Nat
      BY <1>1 DEF LinkSample
    <3> QED
      BY <1>6, <1>8, <3>1
  <2>4. Apart(s, u) >= 0
    BY <1>1, <1>5, <2>3, ApartFacts
  <2> DEFINE x == Apart(d, s)
             y == Apart(s, u)
  <2>5. x \in Int /\ y \in Int /\ y >= 0 /\ 4 * (x + y) < TickMod
    BY <2>1, <2>2, <2>4
  <2> HIDE DEF x, y
  <2>6. 4 * x < TickMod
    BY <2>5, WidthFacts
  <2> QED
    BY <2>6 DEF x
<1>10. Modulo(s.frame_id, d.frame_id, IdMod) = s.number - d.number
  BY <1>1, <1>3, <1>4, <1>8, <1>9, NumberFollows
<1>11. Delta = s.number - d.number
  BY <1>3, <1>10 DEF Delta
<1>12. Delta # 0 /\ Missed = Delta - 1
  BY <1>2, <1>3 DEF IsDuplicate, Missed
<1>13. s.number \in Nat /\ d.number \in Nat
  BY <1>1, <1>3 DEF LinkSample
<1>14. d.number < s.number
  BY <1>8, <1>11, <1>12, <1>13
<1> HIDE DEF s, d
<1>15. Missed > 0 <=> s.number > d.number + 1
  BY <1>11, <1>12, <1>13
<1> QED
  BY <1>1, <1>2, <1>14, <1>15 DEF s, d

\* As long as frames keep coming, the unwrapped clock never misses a wrap of the
\* node's counter, across refused packets, lost links and restarts.
THEOREM ClockNeverMissesAWrap == Spec /\ []FramesKeepComing => []ClockIsTrue
BY LinkInit, LinkStep, ClockInit, ClockStep, ClockTrue, PTL DEF Spec

\* As long as frames keep coming, a frame is flagged exactly when one of its boot
\* before it was lost, though frame_id wraps.
THEOREM LossesAreFlagged == Spec /\ []FramesKeepComing => LossIsFlaggedInEpoch
<1>1. LinkInv /\ ClockInv /\ [Next]_linkVars =>
        [frameIn /\ SameBoot(out, out') /\ out.epoch = out'.epoch =>
           (out'.gap_flag <=> out'.sample.number > out.sample.number + 1)]_linkVars
  <2> SUFFICES ASSUME LinkInv, ClockInv, [Next]_linkVars, frameIn, SameBoot(out, out'),
                      out.epoch = out'.epoch
               PROVE  out'.gap_flag <=> out'.sample.number > out.sample.number + 1
    OBVIOUS
  <2>1. rx_good_frames # 0 /\ rx_good_frames \in Nat
    BY DEF SameBoot, ClockInv, EpochInv, LinkInv, LinkTypeOK
  <2>2. rx_good_frames > 0 /\ out.sample.boot = out'.sample.boot
    BY <2>1 DEF SameBoot
  <2> QED
    BY <2>2, NextOfEpoch
<1> QED
  BY <1>1, LinkInit, LinkStep, ClockInit, ClockStep, PTL DEF Spec, LossIsFlaggedInEpoch

-----------------------------------------------------------------------------
(***************************************************************************)
(* Packets that come late, over datagrams: what arrives after a silent     *)
(* link was sent after all that arrived before it.                         *)
(***************************************************************************)

\* What loop() has taken from the queue, and what of it is kept.
Past == Delivered \cup InFrames \cup InUnread

\* The samples of packet p were taken after all of S.
After(S, p) == AllBefore(TRUE, S, SamplesIn(p))

\* p and q came in this order, and boots are known in order.
InTurn(p, q) ==
  /\ p.rx_time <= q.rx_time
  /\ p.packet.type = "META" /\ q.packet.type = "META" => p.packet.boot_id <= q.packet.boot_id

TurnInv ==
  /\ last_link_us \in Int /\ last_link_us <= time
  /\ \A q \in Elements(rxQueue) : last_link_us <= q.rx_time /\ q.rx_time <= time
  /\ \A k, l \in 1 .. Len(rxQueue) : k < l => InTurn(rxQueue[k], rxQueue[l])
  /\ have_meta => last_boot_id > 0
  /\ \A q \in Elements(rxQueue) : q.packet.type = "META" =>
       q.packet.boot_id > 0 /\ (have_meta => last_boot_id <= q.packet.boot_id)

\* Sent after a packet was received, its samples were taken after those of that
\* packet; received a gap later, it was sent after.
LateInv ==
  /\ \A e \in Elements(air) : e.sent_at > last_link_us => After(Past, e.packet)
  /\ \A q \in Elements(rxQueue), e \in Elements(air) :
       e.sent_at > q.rx_time => After(SamplesIn(q.packet), e.packet)
  /\ \A q \in Elements(rxQueue) : q.rx_time - last_link_us > LinkGap => After(Past, q.packet)
  /\ \A p, q \in Elements(rxQueue) :
       q.rx_time - p.rx_time > LinkGap => After(SamplesIn(p.packet), q.packet)

\* An epoch that has not begun follows all that was delivered of the first boot.
FirstBootInv ==
  ~have_source_frame /\ rx_good_frames > 0 /\ out.sample.boot = 1 =>
    AllBefore(TRUE, Delivered, Coming)

LateComesInv == TurnInv /\ LateInv /\ FirstBootInv

\* What a step does with packets and with what was taken from the queue.
AirMoves ==
  \A e \in Elements(air') :
    \/ \E d \in Elements(air) : e.packet = d.packet /\ e.sent_at = d.sent_at
    \/ e.sent_at = time /\ After(Delivered \cup Coming, e.packet)

QueueMoves ==
  \A q \in Elements(rxQueue') :
    \/ q \in Elements(rxQueue)
    \/ q.rx_time = time /\ \E d \in Elements(air) : q.packet = d.packet

PastMoves ==
  \/ Past' \subseteq Past /\ last_link_us' = last_link_us
  \/ \E h \in Elements(rxQueue) :
       Past' \subseteq Past \cup SamplesIn(h.packet) /\ last_link_us' = h.rx_time

LEMMA AirTimes ==
  ASSUME LinkInv
  PROVE  /\ time \in Int /\ MaxLatency \in Nat /\ LinkGap \in Nat /\ MaxLatency <= LinkGap
         /\ \A e \in Elements(air) :
              e.sent_at \in Int /\ e.sent_at <= time /\ time - e.sent_at <= MaxLatency
         /\ \A q \in Elements(rxQueue) : q.rx_time \in Int
<1>1. \A e \in Elements(air) : e \in Underway
  BY ElementsTyped DEF LinkInv, LinkTypeOK
<1>2. \A q \in Elements(rxQueue) : q \in Received
  BY ElementsTyped DEF LinkInv, LinkTypeOK
<1>3. time \in Int /\ MaxLatency \in Nat /\ LinkGap \in Nat /\ MaxLatency <= LinkGap
  BY LinkConstants, ConstantFacts, GapIsLong DEF LinkInv, LinkTypeOK
<1> QED
  BY <1>1, <1>2, <1>3 DEF LinkInv, AirInv, Underway, Received

\* Whatever a step moves, and however late a packet is.
LEMMA LateKept ==
  ASSUME LinkInv, TurnInv, LateInv, AirMoves, QueueMoves, PastMoves
  PROVE  LateInv'
<1>1. /\ time \in Int /\ MaxLatency \in Nat /\ LinkGap \in Nat /\ MaxLatency <= LinkGap
      /\ \A e \in Elements(air) :
           e.sent_at \in Int /\ e.sent_at <= time /\ time - e.sent_at <= MaxLatency
      /\ \A q \in Elements(rxQueue) : q.rx_time \in Int /\ last_link_us <= q.rx_time
                                        /\ q.rx_time <= time
      /\ last_link_us \in Int
  BY AirTimes DEF TurnInv
<1>2. \A q \in Elements(rxQueue) : SamplesIn(q.packet) \subseteq Coming
  BY SamplesOfMember DEF Coming, InQueue
<1>3. Past \subseteq Delivered \cup Coming
  BY DEF Past, Coming
\* A packet received now, a gap after t, was sent after t.
<1>4. \A t \in Int, d \in Elements(air) : time - t > LinkGap => d.sent_at > t
  <2> SUFFICES ASSUME NEW t \in Int, NEW d \in Elements(air), time - t > LinkGap
               PROVE  d.sent_at > t
    OBVIOUS
  <2> DEFINE s == d.sent_at
  <2>1. s \in Int /\ time - s <= MaxLatency
    BY <1>1
  <2> HIDE DEF s
  <2>2. s > t
    BY <1>1, <2>1
  <2> QED
    BY <2>2 DEF s
<1>5. ASSUME NEW e \in Elements(air'), e.sent_at > last_link_us' PROVE After(Past', e.packet)
  <2>1. CASE e.sent_at = time /\ After(Delivered \cup Coming, e.packet)
    BY <1>2, <1>3, <2>1 DEF PastMoves, After, AllBefore
  <2>2. CASE \E d \in Elements(air) : e.packet = d.packet /\ e.sent_at = d.sent_at
    <3>1. PICK d \in Elements(air) : e.packet = d.packet /\ e.sent_at = d.sent_at
      BY <2>2
    <3>2. CASE Past' \subseteq Past /\ last_link_us' = last_link_us
      BY <1>5, <3>1, <3>2 DEF LateInv, After, AllBefore
    <3>3. CASE \E h \in Elements(rxQueue) :
                 Past' \subseteq Past \cup SamplesIn(h.packet) /\ last_link_us' = h.rx_time
      <4>1. PICK h \in Elements(rxQueue) :
              Past' \subseteq Past \cup SamplesIn(h.packet) /\ last_link_us' = h.rx_time
        BY <3>3
      <4>2. d.sent_at > h.rx_time /\ d.sent_at > last_link_us
        BY <1>1, <1>5, <3>1, <4>1
      <4>3. After(Past, d.packet) /\ After(SamplesIn(h.packet), d.packet)
        BY <4>2 DEF LateInv
      <4> QED
        BY <3>1, <4>1, <4>3 DEF After, AllBefore
    <3> QED
      BY <3>2, <3>3 DEF PastMoves
  <2> QED
    BY <2>1, <2>2 DEF AirMoves
<1>6. ASSUME NEW q \in Elements(rxQueue'), NEW e \in Elements(air'), e.sent_at > q.rx_time
      PROVE  After(SamplesIn(q.packet), e.packet)
  <2>1. e.sent_at <= time /\ e.sent_at \in Int
    BY <1>1 DEF AirMoves
  <2>2. q \in Elements(rxQueue)
    <3>1. q.rx_time # time
      BY <1>1, <1>6, <2>1
    <3> QED
      BY <3>1 DEF QueueMoves
  <2>3. CASE e.sent_at = time /\ After(Delivered \cup Coming, e.packet)
    BY <1>2, <2>2, <2>3 DEF After, AllBefore
  <2>4. CASE \E d \in Elements(air) : e.packet = d.packet /\ e.sent_at = d.sent_at
    BY <1>6, <2>2, <2>4 DEF LateInv
  <2> QED
    BY <2>3, <2>4 DEF AirMoves
<1>7. ASSUME NEW q \in Elements(rxQueue'), q.rx_time - last_link_us' > LinkGap
      PROVE  After(Past', q.packet)
  <2>1. CASE q \in Elements(rxQueue)
    <3>1. CASE Past' \subseteq Past /\ last_link_us' = last_link_us
      BY <1>7, <2>1, <3>1 DEF LateInv, After, AllBefore
    <3>2. CASE \E h \in Elements(rxQueue) :
                 Past' \subseteq Past \cup SamplesIn(h.packet) /\ last_link_us' = h.rx_time
      <4>1. PICK h \in Elements(rxQueue) :
              Past' \subseteq Past \cup SamplesIn(h.packet) /\ last_link_us' = h.rx_time
        BY <3>2
      <4>2. q.rx_time - h.rx_time > LinkGap /\ q.rx_time - last_link_us > LinkGap
        BY <1>1, <1>7, <2>1, <4>1
      <4>3. After(Past, q.packet) /\ After(SamplesIn(h.packet), q.packet)
        BY <2>1, <4>2 DEF LateInv
      <4> QED
        BY <4>1, <4>3 DEF After, AllBefore
    <3> QED
      BY <3>1, <3>2 DEF PastMoves
  <2>2. CASE q.rx_time = time /\ \E d \in Elements(air) : q.packet = d.packet
    <3>1. PICK d \in Elements(air) : q.packet = d.packet
      BY <2>2
    <3>2. CASE Past' \subseteq Past /\ last_link_us' = last_link_us
      <4>1. d.sent_at > last_link_us
        BY <1>1, <1>4, <1>7, <2>2, <3>2
      <4> QED
        BY <3>1, <3>2, <4>1 DEF LateInv, After, AllBefore
    <3>3. CASE \E h \in Elements(rxQueue) :
                 Past' \subseteq Past \cup SamplesIn(h.packet) /\ last_link_us' = h.rx_time
      <4>1. PICK h \in Elements(rxQueue) :
              Past' \subseteq Past \cup SamplesIn(h.packet) /\ last_link_us' = h.rx_time
        BY <3>3
      <4>2. d.sent_at > h.rx_time /\ d.sent_at > last_link_us
        BY <1>1, <1>4, <1>7, <2>2, <4>1
      <4>3. After(Past, d.packet) /\ After(SamplesIn(h.packet), d.packet)
        BY <4>2 DEF LateInv
      <4> QED
        BY <3>1, <4>1, <4>3 DEF After, AllBefore
    <3> QED
      BY <3>2, <3>3 DEF PastMoves
  <2> QED
    BY <2>1, <2>2 DEF QueueMoves
<1>8. ASSUME NEW p \in Elements(rxQueue'), NEW q \in Elements(rxQueue'),
             q.rx_time - p.rx_time > LinkGap
      PROVE  After(SamplesIn(p.packet), q.packet)
  <2>1. q.rx_time <= time /\ q.rx_time \in Int /\ p.rx_time \in Int
    BY <1>1 DEF QueueMoves
  <2>2. p.rx_time # time
    BY <1>1, <1>8, <2>1
  <2>3. p \in Elements(rxQueue)
    BY <2>2 DEF QueueMoves
  <2>4. CASE q \in Elements(rxQueue)
    BY <1>8, <2>3, <2>4 DEF LateInv
  <2>5. CASE q.rx_time = time /\ \E d \in Elements(air) : q.packet = d.packet
    <3>1. PICK d \in Elements(air) : q.packet = d.packet
      BY <2>5
    <3>2. d.sent_at > p.rx_time
      BY <1>4, <1>8, <2>1, <2>5
    <3> QED
      BY <2>3, <3>1, <3>2 DEF LateInv
  <2> QED
    BY <2>4, <2>5 DEF QueueMoves
<1> QED
  BY <1>5, <1>6, <1>7, <1>8 DEF LateInv, After

-----------------------------------------------------------------------------
(* The steps, one group after the other. *)

LEMMA TurnKept ==
  ASSUME TurnInv, UNCHANGED <<last_link_us, rxQueue, have_meta, last_boot_id>>,
         time \in Int, time' \in Int, time' >= time, \A q \in Elements(rxQueue) : q.rx_time \in Int
  PROVE  TurnInv'
<1>1. last_link_us' <= time'
  BY DEF TurnInv
<1>2. \A q \in Elements(rxQueue) : last_link_us <= q.rx_time /\ q.rx_time <= time'
  BY DEF TurnInv
<1> QED
  BY <1>1, <1>2 DEF TurnInv

\* What is new on the way was taken after what was delivered.
LEMMA FirstBootKept ==
  ASSUME FirstBootInv, have_source_frame => have_source_frame',
         UNCHANGED <<rx_good_frames, out>>, NEW new, Coming' \subseteq Coming \cup new,
         AllBefore(TRUE, Delivered, new)
  PROVE  FirstBootInv'
<1>1. Delivered' = Delivered
  BY DEF Delivered
<1> QED
  BY <1>1 DEF FirstBootInv, AllBefore

\* loop() goes on with the packet in hand.
LEMMA HandMoves ==
  ASSUME LinkInv, LinkInv',
         sampleUnwrapped \/ packetRefused \/ packetUnwrapped \/ frameRefused \/ packetDone
           \/ frameReceived
  PROVE  /\ InFrames' \cup InUnread' \subseteq InFrames \cup InUnread
         /\ Delivered' \subseteq Delivered \cup InFrames
<1>1. unread \in Seq(LinkSample) /\ frames \in Seq(LinkFrame)
  BY DEF LinkInv, LinkTypeOK
<1>2. CASE sampleUnwrapped
  <2> DEFINE f == [sample |-> Head(unread), clock |-> pending_unwrap'.high]
  <2>1. /\ unread # <<>> /\ unread' = Tail(unread) /\ frames' = Append(frames, f)
        /\ f.sample = Head(unread) /\ UNCHANGED <<rx_good_frames, out>>
    BY <1>2 DEF sampleUnwrapped, frameVars
  <2>2. /\ Head(unread) \in Elements(unread) /\ Head(unread) \in LinkSample
        /\ Elements(Tail(unread)) \subseteq Elements(unread)
    BY <1>1, <2>1, ElementsHead
  <2>3. f \in LinkFrame
    <3>1. pending_unwrap' \in LinkUnwrap
      BY DEF LinkInv, LinkTypeOK
    <3> QED
      BY <2>2, <3>1 DEF LinkFrame, LinkUnwrap
  <2> HIDE DEF f
  <2>4. Elements(frames') = Elements(frames) \cup {f}
    BY <1>1, <2>1, <2>3, ElementsAppend
  <2>5. InFrames' = InFrames \cup {Head(unread)}
    BY <2>1, <2>4 DEF InFrames
  <2> QED
    BY <2>1, <2>2, <2>5 DEF InUnread, Delivered
<1>3. CASE packetRefused \/ packetDone
  <2>1. frames' = <<>> /\ unread' = <<>> /\ UNCHANGED <<rx_good_frames, out>>
    BY <1>3 DEF packetRefused, packetDone, Done, frameVars
  <2> QED
    BY <2>1, ElementsEmpty DEF InFrames, InUnread, Delivered
<1>4. CASE packetUnwrapped
  BY <1>4 DEF packetUnwrapped, frameVars, InFrames, InUnread, Delivered
<1>5. CASE frameRefused \/ frameReceived
  <2>1. /\ frames # <<>> /\ frames' = Tail(frames) /\ unread' = unread
    BY <1>5 DEF frameRefused, frameReceived
  <2>2. Head(frames) \in Elements(frames) /\ Elements(frames') \subseteq Elements(frames)
    BY <1>1, <2>1, ElementsHead
  <2>3. (out' = out /\ rx_good_frames' = rx_good_frames) \/ out'.sample = Head(frames).sample
    BY <1>5 DEF frameRefused, frameReceived
  <2> QED
    BY <2>1, <2>2, <2>3 DEF InFrames, InUnread, Delivered
<1> QED
  BY <1>2, <1>3, <1>4, <1>5

LEMMA LateInHand ==
  ASSUME LinkInv, LinkInv', LateComesInv, UNCHANGED engineOnly,
         sampleUnwrapped \/ packetRefused \/ packetUnwrapped \/ frameRefused \/ packetDone
           \/ frameReceived
  PROVE  LateComesInv'
<1>1. UNCHANGED <<time, rxQueue, last_link_us, have_meta, last_boot_id, air>>
  BY DEF engineOnly, sampleUnwrapped, packetRefused, packetUnwrapped, frameRefused, packetDone,
     frameReceived, queueVars, metaVars
<1>2. LinkTypeOK /\ TurnInv /\ LateInv /\ FirstBootInv
  BY DEF LateComesInv, LinkInv
<1>3. Past' \subseteq Past /\ Coming' \subseteq Coming
  <2>1. InQueue' = InQueue /\ InAir' = InAir
    BY <1>1 DEF InQueue, InAir
  <2>2. /\ InFrames' \cup InUnread' \subseteq InFrames \cup InUnread
        /\ Delivered' \subseteq Delivered \cup InFrames
    BY HandMoves
  <2> QED
    BY <2>1, <2>2 DEF Past, Coming
<1>4. AirMoves /\ QueueMoves /\ PastMoves
  BY <1>1, <1>3 DEF AirMoves, QueueMoves, PastMoves
<1>5. LateInv'
  BY <1>2, <1>4, LateKept
<1>6. TurnInv'
  <2>1. time' >= time /\ time \in Int /\ time' \in Int
    BY <1>1, <1>2 DEF LinkTypeOK
  <2> QED
    BY <1>1, <1>2, <2>1, AirTimes, TurnKept
<1>7. FirstBootInv'
  <2>1. CASE frameReceived
    BY <2>1 DEF frameReceived, FirstBootInv
  <2>2. CASE ~frameReceived
    <3>1. UNCHANGED <<have_source_frame, rx_good_frames, out>>
      BY <2>2 DEF sampleUnwrapped, packetRefused, packetUnwrapped, frameRefused, packetDone, frameVars
    <3>2. AllBefore(TRUE, Delivered, {}) /\ Coming' \subseteq Coming \cup {}
      BY <1>3 DEF AllBefore
    <3> QED
      BY <1>2, <3>1, <3>2, FirstBootKept
  <2> QED
    BY <2>1, <2>2
<1> QED
  BY <1>5, <1>6, <1>7 DEF LateComesInv

\* Time passes, or packets are lost: what is left in the air was there.
LEMMA LateRest ==
  ASSUME LinkInv, LinkInv', LateComesInv, lose \/ passPeriod
  PROVE  LateComesInv'
<1>1. UNCHANGED <<rxQueue, last_link_us, have_meta, last_boot_id, unread, frames,
                  have_source_frame, rx_good_frames, out>>
  BY DEF lose, passPeriod, engineVars, queueVars, packetVars, metaVars, frameVars
<1>2. LinkTypeOK /\ TurnInv /\ LateInv /\ FirstBootInv
  BY DEF LateComesInv, LinkInv
<1>3. Elements(air') \subseteq Elements(air)
  BY <1>2, AirShrinks
<1>4. InAir' \subseteq InAir
  BY <1>3, SamplesOfPart DEF InAir
<1>5. Past' = Past /\ Coming' \subseteq Coming
  BY <1>1, <1>4 DEF Past, Coming, Delivered, InFrames, InUnread, InQueue
<1>6. LateInv'
  <2>1. AirMoves /\ QueueMoves /\ PastMoves
    BY <1>1, <1>3, <1>5 DEF AirMoves, QueueMoves, PastMoves
  <2> QED
    BY <1>2, <2>1, LateKept
<1>7. TurnInv'
  <2>1. time \in Int /\ time' \in Int
    BY DEF LinkInv, LinkTypeOK
  <2>2. time' = time \/ time' = time + Period
    BY DEF lose, passPeriod, engineVars
  <2>3. time' >= time
    BY <2>1, <2>2, WidthFacts
  <2> QED
    BY <1>1, <1>2, <2>1, <2>3, AirTimes, TurnKept
<1>8. AllBefore(TRUE, Delivered, {}) /\ Coming' \subseteq Coming \cup {}
  BY <1>5 DEF AllBefore
<1>9. FirstBootInv'
  BY <1>1, <1>2, <1>8, FirstBootKept
<1> QED
  BY <1>6, <1>7, <1>9 DEF LateComesInv

\* The node sends what it has not sent before.
LEMMA NodeSends ==
  ASSUME LinkInv, Node
  PROVE  \/ Elements(air') \subseteq Elements(air)
         \/ \E p : /\ air' = Append(air, [packet |-> p, sent_at |-> time, again |-> FALSE])
                   /\ p \in LinkPacket
                   /\ \A t \in SamplesIn(p) : t.boot = boot /\ t.number >= oldest
<1>1. LinkTypeOK
  BY DEF LinkInv
<1>2. CASE sendSamples
  <2>1. PICK count \in 1 .. MaxSent[ordered] :
          ToAir([type |-> "SAMPLES", seq |-> packet_seq,
                 samples |-> [i \in 1 .. count |-> SampleOf(oldest + i - 1)]])
    BY <1>2 DEF sendSamples
  <2> DEFINE bundle == [i \in 1 .. count |-> SampleOf(oldest + i - 1)]
             p == [type |-> "SAMPLES", seq |-> packet_seq, samples |-> bundle]
  <2>2. bundle \in Seq(LinkSample) /\ Len(bundle) = count /\ count \in Nat
    BY <1>1, BundleTyped
  <2>3. p \in LinkPacket
    BY <1>1, <2>2 DEF LinkPacket, LinkTypeOK
  <2>4. \A i \in 1 .. count : bundle[i].boot = boot /\ bundle[i].number = oldest + i - 1
    BY DEF SampleOf
  <2>5. SamplesIn(p) = Elements(bundle)
    BY DEF SamplesIn
  <2>6. air' = Append(air, [packet |-> p, sent_at |-> time, again |-> FALSE])
    BY <2>1 DEF ToAir
  <2> HIDE DEF bundle, p
  <2>7. oldest \in Nat
    BY <1>1 DEF LinkTypeOK
  <2>8. \A t \in SamplesIn(p) : t.boot = boot /\ t.number >= oldest
    <3> SUFFICES ASSUME NEW i \in 1 .. count PROVE bundle[i].boot = boot /\ bundle[i].number >= oldest
      BY <2>2, <2>5 DEF Elements
    <3> QED
      BY <2>2, <2>4, <2>7
  <2> QED
    BY <2>3, <2>6, <2>8
<1>3. CASE sendMeta
  <2> DEFINE p == [type |-> "META", seq |-> packet_seq, boot_id |-> boot]
  <2>1. p \in LinkPacket /\ SamplesIn(p) = {}
    BY <1>1 DEF LinkPacket, LinkTypeOK, SamplesIn
  <2>2. air' = Append(air, [packet |-> p, sent_at |-> time, again |-> FALSE])
    BY <1>3 DEF sendMeta, ToAir
  <2> HIDE DEF p
  <2> QED
    BY <2>1, <2>2
<1>4. CASE dropHeld \/ stop \/ start
  <2>1. air' = air \/ air' = <<>>
    BY <1>4 DEF dropHeld, stop, start
  <2> QED
    BY <2>1, ElementsEmpty
<1> QED
  BY <1>2, <1>3, <1>4 DEF Node

LEMMA LateNode ==
  ASSUME LinkInv, LinkInv', LateComesInv, Node
  PROVE  LateComesInv'
<1>1. UNCHANGED <<time, rxQueue, last_link_us, have_meta, last_boot_id, unread, frames,
                  have_source_frame, rx_good_frames, out>>
  BY DEF Node, sendSamples, sendMeta, dropHeld, stop, start, engineVars, queueVars, packetVars,
         metaVars, frameVars
<1>2. LinkTypeOK /\ AirInv /\ TurnInv /\ LateInv /\ FirstBootInv
  BY DEF LateComesInv, LinkInv
<1>3. \E new : /\ InAir' \subseteq InAir \cup new
               /\ AllBefore(TRUE, Delivered \cup Coming, new)
               /\ \A e \in Elements(air') :
                    e \in Elements(air) \/ (e.sent_at = time /\ SamplesIn(e.packet) = new)
  <2>1. CASE Elements(air') \subseteq Elements(air)
    <3>1. InAir' \subseteq InAir \cup {}
      BY <2>1, SamplesOfPart DEF InAir
    <3>2. AllBefore(TRUE, Delivered \cup Coming, {})
      BY DEF AllBefore
    <3> QED
      BY <2>1, <3>1, <3>2
  <2>2. CASE \E p : /\ air' = Append(air, [packet |-> p, sent_at |-> time, again |-> FALSE])
                    /\ p \in LinkPacket
                    /\ \A t \in SamplesIn(p) : t.boot = boot /\ t.number >= oldest
    <3>1. PICK p : /\ air' = Append(air, [packet |-> p, sent_at |-> time, again |-> FALSE])
                   /\ p \in LinkPacket
                   /\ \A t \in SamplesIn(p) : t.boot = boot /\ t.number >= oldest
      BY <2>2
    <3> DEFINE e == [packet |-> p, sent_at |-> time, again |-> FALSE]
    <3>2. /\ e \in Underway /\ e.packet = p /\ e.sent_at = time /\ air' = Append(air, e)
          /\ air \in Seq(Underway)
      BY <1>2, <3>1 DEF Underway, LinkTypeOK
    <3> HIDE DEF e
    <3>3. Elements(air') = Elements(air) \cup {e} /\ InAir' = InAir \cup SamplesIn(p)
      BY <3>2, ElementsAppend, SamplesOfAppend DEF InAir
    <3>4. AllBefore(TRUE, Delivered \cup Coming, SamplesIn(p))
      <4> SUFFICES ASSUME NEW s \in Delivered \cup Coming, NEW t \in SamplesIn(p)
                   PROVE  Before(TRUE, s, t)
        BY DEF AllBefore
      <4>1. s \in LinkSample /\ t \in LinkSample
        BY <1>2, <3>1, ComingTyped, LinkSamplesTyped
      <4>2. Sent(s) /\ t.boot = boot /\ t.number >= oldest
        BY <1>2, <3>1 DEF AirInv
      <4>3. boot \in Nat /\ oldest \in Nat
        BY <1>2 DEF LinkTypeOK
      <4> QED
        BY <4>1, <4>2, <4>3 DEF Sent, Before, LinkSample
    <3> QED
      BY <3>2, <3>3, <3>4
  <2> QED
    BY <2>1, <2>2, NodeSends
<1>4. PICK new : /\ InAir' \subseteq InAir \cup new
                 /\ AllBefore(TRUE, Delivered \cup Coming, new)
                 /\ \A e \in Elements(air') :
                      e \in Elements(air) \/ (e.sent_at = time /\ SamplesIn(e.packet) = new)
  BY <1>3
<1>5. Past' = Past /\ Coming' \subseteq Coming \cup new
  BY <1>1, <1>4 DEF Past, Coming, Delivered, InFrames, InUnread, InQueue
<1>6. LateInv'
  <2>1. AirMoves /\ QueueMoves /\ PastMoves
    BY <1>1, <1>4, <1>5 DEF AirMoves, QueueMoves, PastMoves, After
  <2> QED
    BY <1>2, <2>1, LateKept
<1>7. TurnInv'
  <2>1. time \in Int /\ time' \in Int /\ time' >= time
    BY <1>1, <1>2 DEF LinkTypeOK
  <2> QED
    BY <1>1, <1>2, <2>1, AirTimes, TurnKept
<1>8. FirstBootInv'
  <2>1. AllBefore(TRUE, Delivered, new)
    BY <1>4 DEF AllBefore
  <2> QED
    BY <1>1, <1>2, <1>5, <2>1, FirstBootKept
<1> QED
  BY <1>6, <1>7, <1>8 DEF LateComesInv

LEMMA TurnTail ==
  ASSUME NEW S, NEW s \in Seq(S), s # <<>>, \A k, l \in 1 .. Len(s) : k < l => InTurn(s[k], s[l])
  PROVE  /\ \A k, l \in 1 .. Len(Tail(s)) : k < l => InTurn(Tail(s)[k], Tail(s)[l])
         /\ \A q \in Elements(Tail(s)) : InTurn(Head(s), q)
<1>1. /\ Len(Tail(s)) = Len(s) - 1 /\ Len(s) \in Nat /\ Len(s) > 0 /\ Head(s) = s[1]
      /\ \A i \in 1 .. Len(Tail(s)) : Tail(s)[i] = s[i + 1]
  BY HeadTailProperties, LenProperties
<1>2. \A i \in 1 .. Len(Tail(s)) : i + 1 \in 1 .. Len(s) /\ 1 < i + 1 /\ 1 \in 1 .. Len(s)
  BY <1>1
<1>3. \A k, l \in 1 .. Len(Tail(s)) : k < l => InTurn(Tail(s)[k], Tail(s)[l])
  <2> SUFFICES ASSUME NEW k \in 1 .. Len(Tail(s)), NEW l \in 1 .. Len(Tail(s)), k < l
               PROVE  InTurn(Tail(s)[k], Tail(s)[l])
    OBVIOUS
  <2>1. k + 1 < l + 1
    OBVIOUS
  <2>2. InTurn(s[k + 1], s[l + 1])
    BY <1>2, <2>1
  <2> QED
    BY <1>1, <2>2
<1>4. ASSUME NEW i \in 1 .. Len(Tail(s)) PROVE InTurn(Head(s), Tail(s)[i])
  <2>1. InTurn(s[1], s[i + 1])
    BY <1>2
  <2> QED
    BY <1>1, <2>1
<1> QED
  BY <1>3, <1>4 DEF Elements

LEMMA TurnAppend ==
  ASSUME NEW S, NEW s \in Seq(S), NEW e \in S, \A q \in Elements(s) : InTurn(q, e),
         \A k, l \in 1 .. Len(s) : k < l => InTurn(s[k], s[l])
  PROVE  \A k, l \in 1 .. Len(Append(s, e)) : k < l => InTurn(Append(s, e)[k], Append(s, e)[l])
<1>1. /\ Len(Append(s, e)) = Len(s) + 1 /\ Len(s) \in Nat
      /\ \A i \in 1 .. Len(s) : Append(s, e)[i] = s[i]
      /\ Append(s, e)[Len(s) + 1] = e
  BY AppendProperties, LenProperties
<1> SUFFICES ASSUME NEW k \in 1 .. Len(Append(s, e)), NEW l \in 1 .. Len(Append(s, e)), k < l
             PROVE  InTurn(Append(s, e)[k], Append(s, e)[l])
  OBVIOUS
<1>2. k \in 1 .. Len(s) /\ (l \in 1 .. Len(s) \/ l = Len(s) + 1)
  BY <1>1
<1>3. CASE l \in 1 .. Len(s)
  BY <1>1, <1>2, <1>3
<1>4. CASE l = Len(s) + 1
  <2>1. s[k] \in Elements(s)
    BY <1>2 DEF Elements
  <2> QED
    BY <1>1, <1>2, <1>4, <2>1
<1> QED
  BY <1>2, <1>3, <1>4

\* A packet arrives: it is of the running boot, and the last in the queue.
LEMMA LateArrive ==
  ASSUME LinkInv, LinkInv', LateComesInv, arrive
  PROVE  LateComesInv'
<1>1. UNCHANGED <<time, last_link_us, have_meta, last_boot_id, unread, frames,
                  have_source_frame, rx_good_frames, out>>
  BY DEF arrive, notificationCB, packetVars, metaVars, frameVars
<1>2. LinkTypeOK /\ AirInv /\ MetaInv /\ TurnInv /\ LateInv /\ FirstBootInv
  BY DEF LateComesInv, LinkInv
<1>3. PICK i \in 1 .. Len(air) :
        /\ notificationCB(air[i].packet)
        /\ air' = Without(air, i) \/ air' = [air EXCEPT ![i].again = TRUE]
  BY DEF arrive
<1> DEFINE d == air[i]
           e == [packet |-> d.packet, rx_time |-> time]
<1>4. /\ d \in Elements(air) /\ d.packet \in LinkPacket /\ e \in Received
      /\ e.packet = d.packet /\ e.rx_time = time /\ rxQueue \in Seq(Received)
  BY <1>2, AirMember DEF LinkTypeOK, Received
<1>5. rxQueue' = rxQueue \/ rxQueue' = Append(rxQueue, e)
  BY <1>3 DEF notificationCB
<1> HIDE DEF d, e
<1>6. \A m \in Elements(air') : \E n \in Elements(air) :
        m.packet = n.packet /\ m.sent_at = n.sent_at
  BY <1>2, <1>3, AirLeft
<1>7. /\ Elements(rxQueue') \subseteq Elements(rxQueue) \cup {e}
      /\ InQueue' \subseteq InQueue \cup InAir
  <2>1. SamplesIn(e.packet) \subseteq InAir
    BY <1>4, SamplesOfMember DEF InAir
  <2>2. /\ Elements(Append(rxQueue, e)) = Elements(rxQueue) \cup {e}
        /\ SamplesOf(Append(rxQueue, e)) = SamplesOf(rxQueue) \cup SamplesIn(e.packet)
    BY <1>4, ElementsAppend, SamplesOfAppend
  <2> QED
    BY <1>5, <2>1, <2>2 DEF InQueue
<1>8. Past' = Past /\ Coming' \subseteq Coming
  <2>1. InAir' \subseteq InAir
    BY <1>6 DEF InAir, SamplesOf
  <2> QED
    BY <1>1, <1>7, <2>1 DEF Past, Coming, Delivered, InFrames, InUnread
<1>9. LateInv'
  <2>1. AirMoves /\ PastMoves
    BY <1>1, <1>6, <1>8 DEF AirMoves, PastMoves
  <2>2. QueueMoves
    BY <1>4, <1>7 DEF QueueMoves
  <2> QED
    BY <1>2, <2>1, <2>2, LateKept
<1>10. TurnInv'
  <2>1. e.packet.type = "META" =>
          e.packet.boot_id = boot /\ boot > 0 /\ (have_meta => last_boot_id <= boot)
    BY <1>2, <1>4 DEF AirInv, MetaInv
  <2>2. last_link_us <= e.rx_time /\ e.rx_time <= time
    BY <1>2, <1>4 DEF TurnInv, LinkTypeOK
  <2>3. \A q \in Elements(rxQueue) : InTurn(q, e)
    <3> SUFFICES ASSUME NEW q \in Elements(rxQueue) PROVE InTurn(q, e)
      OBVIOUS
    <3>1. q.rx_time <= e.rx_time
      BY <1>2, <1>4 DEF TurnInv
    <3>2. q.packet.type = "META" => q.packet.boot_id <= boot
      BY <1>2 DEF AirInv
    <3> QED
      BY <2>1, <3>1, <3>2 DEF InTurn
  <2>4. \A k, l \in 1 .. Len(rxQueue') : k < l => InTurn(rxQueue'[k], rxQueue'[l])
    <3>1. \A k, l \in 1 .. Len(rxQueue) : k < l => InTurn(rxQueue[k], rxQueue[l])
      BY <1>2 DEF TurnInv
    <3>2. \A k, l \in 1 .. Len(Append(rxQueue, e)) :
            k < l => InTurn(Append(rxQueue, e)[k], Append(rxQueue, e)[l])
      BY <1>4, <2>3, <3>1, TurnAppend
    <3> QED
      BY <1>5, <3>1, <3>2
  <2>5. \A q \in Elements(rxQueue') : last_link_us <= q.rx_time /\ q.rx_time <= time
    BY <1>2, <1>7, <2>2 DEF TurnInv
  <2>6. \A q \in Elements(rxQueue') : q.packet.type = "META" =>
          q.packet.boot_id > 0 /\ (have_meta => last_boot_id <= q.packet.boot_id)
    BY <1>2, <1>7, <2>1 DEF TurnInv
  <2> QED
    BY <1>1, <1>2, <2>4, <2>5, <2>6 DEF TurnInv, InTurn
<1>11. AllBefore(TRUE, Delivered, {}) /\ Coming' \subseteq Coming \cup {}
  BY <1>8 DEF AllBefore
<1>12. FirstBootInv'
  BY <1>1, <1>2, <1>11, FirstBootKept
<1> QED
  BY <1>9, <1>10, <1>12 DEF LateComesInv

\* What is on its way after a silent link, or META of another boot, follows all
\* that was delivered of the first boot.
LEMMA EpochFollows ==
  ASSUME LinkInv, TurnInv, LateInv, phase = "idle", rxQueue # <<>>, NEW h, h = Head(rxQueue),
         LinkWasLost(h.rx_time) \/ IsReboot(h.packet),
         out.sample.boot = 1, rx_good_frames > 0
  PROVE  /\ After(Delivered, h.packet)
         /\ \A q \in Elements(Tail(rxQueue)) : After(Delivered, q.packet)
         /\ \A e \in Elements(air) : After(Delivered, e.packet)
<1>1. LinkTypeOK /\ PlacesInOrder /\ AirInv /\ MetaInv /\ rxQueue \in Seq(Received)
  BY DEF LinkInv, LinkTypeOK
<1>2. /\ h \in Elements(rxQueue) /\ h.packet \in LinkPacket
      /\ Elements(Tail(rxQueue)) \subseteq Elements(rxQueue)
  BY <1>1, ReceiveTyped
<1>3. \A q \in Elements(Tail(rxQueue)) : InTurn(h, q)
  BY <1>1, TurnTail DEF TurnInv
<1>4. Delivered \subseteq Past
  BY DEF Past
<1>5. CASE LinkWasLost(h.rx_time)
  <2>1. /\ h.rx_time - last_link_us > LinkGap /\ h.rx_time \in Int /\ last_link_us \in Int
        /\ h.rx_time <= time /\ time \in Int /\ LinkGap \in Nat /\ MaxLatency \in Nat
        /\ MaxLatency <= LinkGap
    BY <1>2, <1>5, AirTimes DEF LinkWasLost, TurnInv
  <2>2. After(Delivered, h.packet)
    BY <1>2, <1>4, <2>1 DEF LateInv, After, AllBefore
  <2>3. ASSUME NEW q \in Elements(Tail(rxQueue)) PROVE After(Delivered, q.packet)
    <3>1. h.rx_time <= q.rx_time /\ q.rx_time \in Int
      BY <1>2, <1>3, AirTimes DEF InTurn
    <3>2. q.rx_time - last_link_us > LinkGap
      BY <2>1, <3>1
    <3> QED
      BY <1>2, <1>4, <3>2 DEF LateInv, After, AllBefore
  <2>4. ASSUME NEW e \in Elements(air) PROVE After(Delivered, e.packet)
    <3>1. e.sent_at \in Int /\ time - e.sent_at <= MaxLatency
      BY AirTimes
    <3>2. e.sent_at > last_link_us
      BY <2>1, <3>1
    <3> QED
      BY <1>4, <3>2 DEF LateInv, After, AllBefore
  <2> QED
    BY <2>2, <2>3, <2>4
<1>6. CASE IsReboot(h.packet)
  <2>1. h.packet.type = "META" /\ have_meta /\ last_boot_id # h.packet.boot_id
    BY <1>6 DEF IsReboot
  <2>2. h.packet.boot_id \in Nat /\ SamplesIn(h.packet) = {} /\ last_boot_id \in Nat
    BY <1>1, <1>2, <2>1, LinkSamplesTyped DEF LinkTypeOK
  <2>3. last_boot_id > 0 /\ last_boot_id <= h.packet.boot_id /\ h.packet.boot_id <= boot
    BY <1>1, <1>2, <2>1 DEF TurnInv, AirInv
  <2>4. h.packet.boot_id > 1
    BY <2>1, <2>2, <2>3
  <2>5. Delivered = {out.sample}
    BY DEF Delivered
  <2>6. After(Delivered, h.packet)
    BY <2>2 DEF After, AllBefore
  <2>7. ASSUME NEW q \in Elements(Tail(rxQueue)) PROVE After(Delivered, q.packet)
    <3> SUFFICES ASSUME NEW s \in SamplesIn(q.packet) PROVE Before(TRUE, out.sample, s)
      BY <2>5 DEF After, AllBefore
    <3>1. Precedes(ordered, h.packet, q.packet)
      BY <1>1, SortedPacketsTail DEF PlacesInOrder
    <3>2. h.packet.boot_id <= s.boot
      BY <2>1, <3>1 DEF Precedes
    <3>3. s.boot \in Nat
      <4>1. q \in Received
        BY <1>1, <1>2, ElementsTyped
      <4>2. s \in LinkSample
        BY <4>1, LinkSamplesTyped DEF Received
      <4> QED
        BY <4>2 DEF LinkSample
    <3> QED
      BY <2>2, <2>4, <3>2, <3>3 DEF Before
  <2>8. ASSUME NEW e \in Elements(air) PROVE After(Delivered, e.packet)
    <3> SUFFICES ASSUME NEW s \in SamplesIn(e.packet) PROVE Before(TRUE, out.sample, s)
      BY <2>5 DEF After, AllBefore
    <3>1. s.boot = boot /\ boot \in Nat
      BY <1>1, SamplesOfMember DEF AirInv, InAir, LinkTypeOK
    <3> QED
      BY <2>2, <2>3, <2>4, <3>1 DEF Before
  <2> QED
    BY <2>6, <2>7, <2>8
<1> QED
  BY <1>5, <1>6

LEMMA LateReceives ==
  ASSUME LinkInv, LinkInv', LateComesInv, UNCHANGED engineOnly, handleMeta \/ handleSamples,
         NEW h, h = Head(rxQueue)
  PROVE  LateComesInv'
<1>1. UNCHANGED <<time, air, rx_good_frames, out>>
  BY DEF engineOnly, handleMeta, handleSamples
<1>2. /\ phase = "idle" /\ rxQueue # <<>> /\ rxQueue' = Tail(rxQueue) /\ last_link_us' = h.rx_time
      /\ \/ h.packet.type = "META" /\ have_meta' /\ last_boot_id' = h.packet.boot_id
         \/ have_meta' = have_meta /\ last_boot_id' = last_boot_id
  <2>1. CASE handleMeta
    BY <2>1 DEF handleMeta, Receive
  <2>2. CASE handleSamples
    BY <2>2 DEF handleSamples, Receive, metaVars
  <2> QED
    BY <2>1, <2>2
<1>3. LinkTypeOK /\ TurnInv /\ LateInv /\ FirstBootInv /\ frames = <<>> /\ unread = <<>>
  BY <1>2 DEF LateComesInv, LinkInv, PhaseInv
<1>4. /\ h \in Elements(rxQueue) /\ h.packet \in LinkPacket
      /\ Elements(rxQueue') \subseteq Elements(rxQueue) /\ rxQueue \in Seq(Received)
  BY <1>2, <1>3, ReceiveTyped DEF LinkTypeOK
<1>5. Delivered' = Delivered /\ InFrames' = {} /\ InUnread' \subseteq SamplesIn(h.packet)
  <2>1. CASE handleMeta
    BY <1>1, <1>3, <2>1, ElementsEmpty DEF handleMeta, packetVars, Delivered, InFrames, InUnread
  <2>2. CASE handleSamples
    <3>1. frames' = <<>> /\ unread' = h.packet.samples /\ h.packet.type = "SAMPLES"
      BY <2>2 DEF handleSamples
    <3> QED
      BY <1>1, <3>1, ElementsEmpty DEF Delivered, InFrames, InUnread, SamplesIn
  <2> QED
    BY <2>1, <2>2
<1>6. LateInv'
  <2>1. AirMoves /\ QueueMoves
    BY <1>1, <1>4 DEF AirMoves, QueueMoves
  <2>2. PastMoves
    BY <1>2, <1>4, <1>5 DEF PastMoves, Past
  <2> QED
    BY <1>3, <2>1, <2>2, LateKept
<1>7. TurnInv'
  <2>1. /\ \A k, l \in 1 .. Len(rxQueue') : k < l => InTurn(rxQueue'[k], rxQueue'[l])
        /\ \A q \in Elements(rxQueue') : InTurn(h, q)
    BY <1>2, <1>3, <1>4, TurnTail DEF TurnInv
  <2>2. last_link_us' \in Int /\ last_link_us' <= time'
    BY <1>1, <1>2, <1>3, <1>4, AirTimes DEF TurnInv
  <2>3. \A q \in Elements(rxQueue') : last_link_us' <= q.rx_time /\ q.rx_time <= time'
    BY <1>1, <1>2, <1>3, <1>4, <2>1 DEF TurnInv, InTurn
  <2>4. have_meta' => last_boot_id' > 0
    BY <1>2, <1>3, <1>4 DEF TurnInv
  <2>5. \A q \in Elements(rxQueue') : q.packet.type = "META" =>
          q.packet.boot_id > 0 /\ (have_meta' => last_boot_id' <= q.packet.boot_id)
    BY <1>2, <1>3, <1>4, <2>1 DEF TurnInv, InTurn
  <2> QED
    BY <2>1, <2>2, <2>3, <2>4, <2>5 DEF TurnInv, InTurn
<1>8. FirstBootInv'
  <2> SUFFICES ASSUME ~have_source_frame', rx_good_frames > 0, out.sample.boot = 1
               PROVE  AllBefore(TRUE, Delivered, Coming')
    BY <1>1, <1>5 DEF FirstBootInv
  <2>1. CASE have_source_frame
    <3>1. LinkWasLost(h.rx_time) \/ IsReboot(h.packet)
      BY <2>1 DEF handleMeta, handleSamples, SourceReboot
    <3>2. /\ After(Delivered, h.packet)
          /\ \A q \in Elements(rxQueue') : After(Delivered, q.packet)
          /\ \A e \in Elements(air) : After(Delivered, e.packet)
      BY <1>2, <1>3, <3>1, EpochFollows
    <3> QED
      BY <1>1, <1>5, <3>2 DEF After, AllBefore, Coming, InQueue, InAir, SamplesOf
  <2>2. CASE ~have_source_frame
    <3>1. SamplesIn(h.packet) \subseteq InQueue /\ InQueue' \subseteq InQueue /\ InAir' = InAir
      BY <1>1, <1>4, SamplesOfMember, SamplesOfPart DEF InQueue, InAir
    <3>2. Coming' \subseteq Coming
      BY <1>5, <3>1 DEF Coming
    <3> QED
      BY <1>3, <2>2, <3>2 DEF FirstBootInv, AllBefore
  <2> QED
    BY <2>1, <2>2
<1> QED
  BY <1>6, <1>7, <1>8 DEF LateComesInv

LEMMA LateInit == Init => LateComesInv
<1> SUFFICES ASSUME Init PROVE LateComesInv
  OBVIOUS
<1>1. /\ rxQueue = <<>> /\ air = <<>> /\ have_meta = FALSE /\ rx_good_frames = 0
      /\ last_link_us = 0 /\ time = 1
  BY DEF Init, EngineInit
<1>2. Elements(air) = {} /\ Elements(rxQueue) = {}
  BY <1>1, ElementsEmpty
<1> QED
  BY <1>1, <1>2 DEF LateComesInv, TurnInv, LateInv, FirstBootInv

LEMMA LateStep == LinkInv /\ LinkInv' /\ LateComesInv /\ [Next]_linkVars => LateComesInv'
<1> SUFFICES ASSUME LinkInv, LinkInv', LateComesInv, [Next]_linkVars PROVE LateComesInv'
  OBVIOUS
<1>1. CASE S3 /\ UNCHANGED ordered
  <2>1. UNCHANGED engineOnly /\ handleRadioPacket
    BY <1>1 DEF S3, engineOnly
  <2>2. CASE handleMeta \/ handleSamples
    BY <2>1, <2>2, LateReceives
  <2>3. CASE sampleUnwrapped \/ packetRefused \/ packetUnwrapped \/ frameRefused \/ packetDone
               \/ frameReceived
    BY <2>1, <2>3, LateInHand
  <2> QED
    BY <2>1, <2>2, <2>3 DEF handleRadioPacket
<1>2. CASE UNCHANGED linkVars
  <2>1. UNCHANGED <<time, rxQueue, last_link_us, have_meta, last_boot_id, air, frames, unread, out,
                    rx_good_frames, have_source_frame>>
    BY <1>2 DEF linkVars, engineVars, queueVars, packetVars, metaVars, frameVars
  <2>2. LinkInv /\ TurnInv /\ LateInv /\ FirstBootInv
    BY DEF LateComesInv
  <2>3. Delivered' = Delivered /\ Past' = Past /\ Coming' = Coming
    BY <2>1 DEF Past, Coming, Delivered, InFrames, InUnread, InQueue, InAir
  <2>4. AirMoves /\ QueueMoves /\ PastMoves
    BY <2>1, <2>3 DEF AirMoves, QueueMoves, PastMoves
  <2>5. LateInv'
    BY <2>2, <2>4, LateKept
  <2>6. /\ time \in Int /\ time' \in Int /\ time' >= time
        /\ \A q \in Elements(rxQueue) : q.rx_time \in Int
    BY <2>1, AirTimes
  <2>7. TurnInv'
    BY <2>1, <2>2, <2>6, TurnKept
  <2>8. FirstBootInv'
    BY <2>1, <2>2, <2>3 DEF FirstBootInv
  <2> QED
    BY <2>5, <2>7, <2>8 DEF LateComesInv
<1> QED
  BY <1>1, <1>2, LateNode, LateArrive, LateRest DEF Next

\* A frame that begins an epoch while the boot the S3 came up with goes on follows all
\* that was delivered of it.
LEMMA NextOfFirstBoot ==
  ASSUME LinkInv, ClockInv, LateComesInv, [Next]_linkVars, frameIn, SameBoot(out, out'),
         out.epoch # out'.epoch, out.sample.boot = 1
  PROVE  out.sample.number < out'.sample.number
<1>1. frameReceived /\ out'.sample \in InFrames
  BY FrameDelivered
<1>2. out'.epoch = epoch
  BY <1>1 DEF frameReceived
<1>3. ~have_source_frame
  BY <1>2 DEF ClockInv, EpochInv
<1>4. rx_good_frames > 0 /\ out.sample \in Delivered
  <2>1. rx_good_frames # 0 /\ rx_good_frames \in Nat
    BY DEF SameBoot, ClockInv, EpochInv, LinkInv, LinkTypeOK
  <2> QED
    BY <2>1 DEF Delivered
<1>5. Before(TRUE, out.sample, out'.sample)
  BY <1>1, <1>3, <1>4 DEF LateComesInv, FirstBootInv, AllBefore, Coming
<1> QED
  BY <1>5 DEF Before, SameBoot

\* As long as frames keep coming, a frame is delivered once and in its turn: over BLE
\* always, over datagrams within an epoch and throughout the boot the S3 came up with.
THEOREM EachFrameComesOnce == Spec /\ []FramesKeepComing => DeliveredOnceInOrder
<1>1. LinkInv /\ ClockInv /\ LateComesInv /\ [Next]_linkVars =>
        [frameIn /\ SameBoot(out, out')
           /\ (ordered \/ out.epoch = out'.epoch \/ out.sample.boot = 1) =>
         out'.sample.number > out.sample.number]_linkVars
  <2> SUFFICES ASSUME LinkInv, ClockInv, LateComesInv, [Next]_linkVars, frameIn, SameBoot(out, out'),
                      ordered \/ out.epoch = out'.epoch \/ out.sample.boot = 1
               PROVE  out'.sample.number > out.sample.number
    OBVIOUS
  <2>1. rx_good_frames > 0 /\ out.sample \in LinkSample
    <3>1. rx_good_frames # 0 /\ rx_good_frames \in Nat
      BY DEF SameBoot, ClockInv, EpochInv, LinkInv, LinkTypeOK
    <3> QED
      BY <3>1 DEF LinkInv, LinkTypeOK
  <2>2. out.sample.number < out'.sample.number
    <3>1. CASE ordered
      <4>1. Before(ordered, out.sample, out'.sample) /\ out'.sample \in LinkSample
        BY <2>1, FrameDelivered
      <4>2. out.sample.boot = out'.sample.boot /\ out.sample.boot \in Nat
        BY <2>1 DEF SameBoot, LinkSample
      <4> QED
        BY <3>1, <4>1, <4>2 DEF Before
    <3>2. CASE out.epoch = out'.epoch
      BY <2>1, <3>2, NextOfEpoch DEF SameBoot
    <3>3. CASE out.epoch # out'.epoch /\ out.sample.boot = 1
      BY <3>3, NextOfFirstBoot
    <3> QED
      BY <3>1, <3>2, <3>3
  <2>3. out.sample.number \in Int /\ out'.sample.number \in Int
    BY <2>1, FrameDelivered DEF LinkSample
  <2> QED
    BY <2>2, <2>3
<1> QED
  BY <1>1, LinkInit, LinkStep, ClockInit, ClockStep, LateInit, LateStep, PTL
     DEF Spec, DeliveredOnceInOrder

-----------------------------------------------------------------------------
(***************************************************************************)
(* Time stamps of the boot the S3 came up with: how long a sample is under *)
(* way bounds the stamp it gets, and is less than what a link must be      *)
(* silent for to begin an epoch.                                           *)
(***************************************************************************)

\* A sample is held (24 of 5 ms) and in the air (the supervision timeout, 1.6 s, at
\* most), and a packet lasts, less long in all than the silence that ends an epoch, 5 s.
HoldIsShort ==
  \A ble \in Builds : Period * Capacity + MaxLatency + Period * MaxSent[ble] <= LinkGap

\* When sample s of the first boot was taken, and how long after it comes at most.
TakenAt(s) == 1 + Period * (s.number + 1 - NodeAge)
Hold == Period * Capacity
Late == Hold + MaxLatency

Within(s, at, delay) == s.boot = 1 => TakenAt(s) <= at /\ at <= TakenAt(s) + delay

Fresh(p, at, delay) ==
  p.type = "SAMPLES" => p.samples # <<>> /\ \A s \in SamplesIn(p) : Within(s, at, delay)

\* The node samples once a period, and holds the newest samples.
SamplingInv ==
  /\ oldest <= taken /\ taken - oldest <= Capacity
  /\ boot = 1 /\ up => time = 1 + Period * (taken - NodeAge)

PacketsFresh ==
  /\ \A e \in Elements(air) : Fresh(e.packet, e.sent_at, Hold)
  /\ \A q \in Elements(rxQueue) : Fresh(q.packet, q.rx_time, Late)

HandFresh ==
  /\ phase = "unwrap" => frames # <<>> \/ unread # <<>>
  /\ phase # "idle" => rx_time = last_link_us
  /\ \A s \in InFrames \cup InUnread : Within(s, rx_time, Late)
  /\ rx_good_frames > 0 /\ out.sample.boot = 1 => TakenAt(out.sample) <= last_link_us

\* t is later by the gap than what was delivered was taken.
Gap(t) == t > TakenAt(out.sample) + LinkGap

\* An epoch that has not begun: its clock is that of its first packet, and this
\* comes a gap after what was delivered.
BeginInv ==
  ~have_source_frame =>
    /\ last_mapped_time = 0
    /\ phase # "frames" => ~have_clock_offset
    /\ phase = "frames" => frames # <<>> /\ time_offset + unwrap.high = rx_time
    /\ rx_good_frames > 0 /\ out.sample.boot = 1 =>
         /\ boot = 1 => Gap(time)
         /\ \A q \in Elements(rxQueue) : \A s \in SamplesIn(q.packet) : s.boot = 1 => Gap(q.rx_time)
         /\ \A s \in InFrames \cup InUnread : s.boot = 1 => Gap(rx_time)

\* Samples of the first boot may still come out.
FirstBootLives == boot = 1 \/ \E s \in InFrames \cup InUnread \cup InQueue : s.boot = 1

\* The clock offset is no larger than the latest packet made it.
OffsetInv ==
  /\ time_offset \in Int /\ last_mapped_time \in Nat /\ out.sample_time \in Nat
  /\ have_source_frame =>
       /\ last_mapped_time = out.sample_time
       /\ FirstBootLives => time_offset + anchor.clock <= TakenAt(anchor.sample) + Late

StampInv ==
  rx_good_frames > 0 /\ out.sample.boot = 1 /\ out.sample_time # 0 =>
    out.sample_time <= TakenAt(out.sample) + Late

TimeInv == SamplingInv /\ PacketsFresh /\ HandFresh /\ BeginInv /\ OffsetInv /\ StampInv

-----------------------------------------------------------------------------
LEMMA HoldFacts ==
  /\ Period \in Nat \ {0} /\ Capacity \in Nat \ {0} /\ NodeAge \in Nat /\ MaxLatency \in Nat
  /\ LinkGap \in Nat /\ Hold \in Nat /\ Late \in Nat /\ Late = Hold + MaxLatency
<1>1. /\ Period \in Nat \ {0} /\ Capacity \in Nat \ {0} /\ NodeAge \in Nat /\ MaxLatency \in Nat
      /\ LinkGap \in Nat
  BY WidthFacts, LinkConstants, ConstantFacts, CapacityAssumption
<1>2. Hold \in Nat
  BY <1>1 DEF Hold
<1> QED
  BY <1>1, <1>2 DEF Late

LEMMA TakenAtFacts ==
  ASSUME NEW s \in LinkSample, NEW t \in LinkSample
  PROVE  /\ TakenAt(s) \in Int /\ TakenAt(t) \in Int
         /\ TakenAt(t) - TakenAt(s) = Apart(s, t)
         /\ s.number = t.number => TakenAt(s) = TakenAt(t)
         /\ s.number < t.number => TakenAt(s) < TakenAt(t)
<1>1. s.number \in Int /\ t.number \in Int /\ NodeAge \in Int /\ Period \in Nat \ {0}
  BY HoldFacts DEF LinkSample
<1> DEFINE n == s.number + 1 - NodeAge
           m == t.number + 1 - NodeAge
<1>2. n \in Int /\ m \in Int /\ m - n = t.number - s.number
  BY <1>1
<1> HIDE DEF n, m
<1>3. Period * (m - n) = (Period * m) - (Period * n) /\ Period * m \in Int /\ Period * n \in Int
  BY <1>1, <1>2, Distribute
<1>4. TakenAt(s) = 1 + Period * n /\ TakenAt(t) = 1 + Period * m
  BY DEF TakenAt, n, m
<1>5. Apart(s, t) = Period * (m - n)
  BY <1>2 DEF Apart
<1> DEFINE x == Period * m
           y == Period * n
<1>6. TakenAt(s) = 1 + y /\ TakenAt(t) = 1 + x /\ x \in Int /\ y \in Int /\ Apart(s, t) = x - y
  BY <1>3, <1>4, <1>5
<1> HIDE DEF x, y
<1>7. s.number < t.number => Apart(s, t) >= Period
  BY ApartFacts
<1>8. s.number < t.number => TakenAt(s) < TakenAt(t)
  BY <1>1, <1>6, <1>7
<1> QED
  BY <1>6, <1>8 DEF TakenAt

\* observeClock gives no more than its argument, or what it gave before.
LEMMA ObserveClockFacts ==
  ASSUME NEW p \in Int, time_offset \in Int
  PROVE  /\ observeClock(p) \in Int
         /\ ~have_clock_offset => observeClock(p) = p
         /\ \A b \in Int : time_offset <= b /\ p <= b => observeClock(p) <= b
<1>1. StepDown \in Nat /\ StepUp \in Nat
  BY ConstantFacts
<1> QED
  BY <1>1 DEF observeClock, Clamp

LEMMA MapTimeFacts ==
  ASSUME NEW c \in Int, NEW l \in Nat, time_offset \in Int
  PROVE  /\ mapTime(c, l) \in Nat
         /\ mapTime(c, l) >= c + time_offset
         /\ l # 0 => mapTime(c, l) > l
         /\ \A b \in Int : c + time_offset <= b /\ (l # 0 => l < b) /\ mapTime(c, l) # 0 =>
              mapTime(c, l) <= b
  BY DEF mapTime

LEMMA TimeNeverBack ==
  ASSUME LinkInv, [Next]_linkVars
  PROVE  time \in Int /\ time' \in Int /\ time' >= time
<1>1. time \in Int /\ Period \in Nat
  BY HoldFacts DEF LinkInv, LinkTypeOK
<1>2. time' = time \/ time' = time + Period
  BY DEF Next, S3, handleRadioPacket, Node, sendSamples, sendMeta, dropHeld, stop, start, arrive,
     lose, passPeriod, notificationCB, handleMeta, handleSamples, sampleUnwrapped, packetUnwrapped,
     packetDone, packetRefused, frameRefused, frameReceived, linkVars, engineVars
<1> QED
  BY <1>1, <1>2

-----------------------------------------------------------------------------
(* The node's sampling, and how old packets are. *)

LEMMA SamplingStep ==
  ASSUME LinkInv, SamplingInv, [Next]_linkVars
  PROVE  SamplingInv'
<1>1. /\ taken \in Nat /\ oldest \in Nat /\ boot \in Nat \ {0} /\ time \in Int
      /\ Period \in Nat \ {0} /\ Capacity \in Nat \ {0} /\ NodeAge \in Nat
  BY HoldFacts DEF LinkInv, LinkTypeOK
<1>2. CASE UNCHANGED <<sourceVars, boot, up, time>>
  BY <1>2 DEF SamplingInv, sourceVars
<1>3. CASE sendSamples \/ dropHeld
  <2>1. PICK count \in Int : 0 <= count /\ count <= Held /\ oldest' = oldest + count /\ taken' = taken
    <3>1. CASE sendSamples
      <4>1. PICK count \in 1 .. MaxSent[ordered] : HandOver(count)
        BY <3>1 DEF sendSamples
      <4>2. count \in Int /\ 0 <= count
        BY LinkConstants DEF LinkInv, LinkTypeOK
      <4> QED
        BY <4>1, <4>2 DEF HandOver
    <3>2. CASE dropHeld
      BY <1>1, <3>2 DEF dropHeld, GiveUp, Held
    <3> QED
      BY <1>3, <3>1, <3>2
  <2>2. UNCHANGED <<boot, up, time>>
    BY <1>3 DEF sendSamples, dropHeld, engineVars, nodeVars
  <2> QED
    BY <1>1, <2>1, <2>2 DEF SamplingInv, Held
<1>4. CASE stop
  BY <1>4 DEF stop, SamplingInv, sourceVars
<1>5. CASE start
  BY <1>1, <1>5 DEF start, SamplingInv
<1>6. CASE passPeriod
  <2>1. time' = time + Period /\ UNCHANGED <<boot, up>>
    BY <1>6 DEF passPeriod, nodeVars
  <2>2. CASE ~up
    BY <1>6, <2>1, <2>2 DEF passPeriod, SamplingInv, sourceVars
  <2>3. CASE up
    <3>1. Take
      BY <1>6, <2>3 DEF passPeriod
    <3>2. /\ taken' = taken + 1
          /\ oldest' = IF taken - oldest = Capacity THEN oldest + 1 ELSE oldest
      BY <3>1 DEF Take, Held
    <3>3. oldest' <= taken' /\ taken' - oldest' <= Capacity
      BY <1>1, <3>2 DEF SamplingInv
    <3>4. Period * ((taken - NodeAge) + 1) = (Period * (taken - NodeAge)) + Period
      BY <1>1
    <3>5. taken' - NodeAge = (taken - NodeAge) + 1
      BY <1>1, <3>2
    <3> DEFINE x == Period * (taken - NodeAge)
    <3>6. x \in Int /\ Period * (taken' - NodeAge) = x + Period
      BY <1>1, <3>4, <3>5
    <3>7. boot = 1 => time = 1 + x
      BY <2>3 DEF SamplingInv
    <3> HIDE DEF x
    <3>8. boot' = 1 => time' = 1 + Period * (taken' - NodeAge)
      BY <1>1, <2>1, <3>6, <3>7
    <3> QED
      BY <3>3, <3>8 DEF SamplingInv
  <2> QED
    BY <2>2, <2>3
<1>7. CASE S3 \/ sendMeta \/ arrive \/ lose \/ UNCHANGED linkVars
  BY <1>2, <1>7 DEF S3, handleRadioPacket, sendMeta, arrive, lose, notificationCB, handleMeta,
     handleSamples, sampleUnwrapped, packetUnwrapped, packetDone, packetRefused, frameRefused,
     frameReceived, linkVars, engineVars, nodeVars
<1> QED
  BY <1>3, <1>4, <1>5, <1>6, <1>7 DEF Next, Node

\* What the node sends is what it holds.
LEMMA SentFresh ==
  ASSUME LinkInv, SamplingInv, Node
  PROVE  \A e \in Elements(air') : e \in Elements(air) \/ Fresh(e.packet, e.sent_at, Hold)
<1>1. LinkTypeOK /\ AirInv /\ air \in Seq(Underway)
  BY DEF LinkInv, LinkTypeOK
<1>2. CASE sendSamples
  <2>1. PICK count \in 1 .. MaxSent[ordered] :
          /\ HandOver(count)
          /\ ToAir([type |-> "SAMPLES", seq |-> packet_seq,
                    samples |-> [i \in 1 .. count |-> SampleOf(oldest + i - 1)]])
    BY <1>2 DEF sendSamples
  <2> DEFINE bundle == [i \in 1 .. count |-> SampleOf(oldest + i - 1)]
             p == [type |-> "SAMPLES", seq |-> packet_seq, samples |-> bundle]
             e == [packet |-> p, sent_at |-> time, again |-> FALSE]
  <2>2. bundle \in Seq(LinkSample) /\ Len(bundle) = count /\ count \in Nat /\ count >= 1
    BY <1>1, BundleTyped
  <2>3. p \in LinkPacket /\ p.type = "SAMPLES" /\ p.samples = bundle
    BY <1>1, <2>2 DEF LinkPacket, LinkTypeOK
  <2>4. \A i \in 1 .. count : bundle[i].boot = boot /\ bundle[i].number = oldest + i - 1
    BY DEF SampleOf
  <2>5. air' = Append(air, e) /\ e \in Underway /\ e.packet = p /\ e.sent_at = time
    BY <1>1, <2>1, <2>3, ToAirTyped
  <2>6. up /\ count <= taken - oldest
    BY <1>2, <2>1 DEF sendSamples, HandOver, Held
  <2> HIDE DEF bundle, p, e
  <2>7. Elements(air') = Elements(air) \cup {e}
    BY <1>1, <2>5, ElementsAppend
  <2>8. ASSUME NEW s \in SamplesIn(p) PROVE Within(s, time, Hold)
    <3> SUFFICES ASSUME s.boot = 1 PROVE TakenAt(s) <= time /\ time <= TakenAt(s) + Hold
      BY DEF Within
    <3>1. PICK i \in 1 .. count : s = bundle[i]
      BY <2>2, <2>3 DEF SamplesIn, Elements
    <3>2. boot = 1 /\ s.number = oldest + i - 1
      BY <2>4, <3>1
    <3>3. time = 1 + Period * (taken - NodeAge)
      BY <2>6, <3>2 DEF SamplingInv
    <3> DEFINE n == s.number + 1 - NodeAge
               m == taken - NodeAge
    <3>4. /\ n \in Int /\ m \in Int /\ m - n >= 0 /\ m - n <= Capacity
          /\ Period \in Nat \ {0} /\ Capacity \in Nat
      BY <1>1, <2>2, <2>6, <3>2, HoldFacts DEF SamplingInv, LinkTypeOK
    <3>5. TakenAt(s) = 1 + Period * n /\ time = 1 + Period * m
      BY <3>3 DEF TakenAt
    <3> HIDE DEF n, m
    <3>6. Period * (m - n) = (Period * m) - (Period * n)
      BY <3>4, Distribute
    <3>7. Period * (m - n) >= 0
      BY <3>4
    <3>8. Period * (m - n) <= Period * Capacity
      BY <3>4
    <3>9. Period * m \in Int /\ Period * n \in Int /\ Period * Capacity \in Int
      BY <3>4
    <3> DEFINE x == Period * m
               y == Period * n
    <3>10. /\ x \in Int /\ y \in Int /\ x - y >= 0 /\ x - y <= Hold /\ Hold \in Nat
           /\ TakenAt(s) = 1 + y /\ time = 1 + x
      BY <3>5, <3>6, <3>7, <3>8, <3>9, HoldFacts DEF Hold
    <3> HIDE DEF x, y
    <3> QED
      BY <3>10
  <2>9. Fresh(e.packet, e.sent_at, Hold)
    <3>1. bundle # <<>>
      BY <2>2
    <3> QED
      BY <2>3, <2>5, <2>8, <3>1 DEF Fresh
  <2> QED
    BY <2>7, <2>9
<1>3. CASE sendMeta
  <2> DEFINE p == [type |-> "META", seq |-> packet_seq, boot_id |-> boot]
             e == [packet |-> p, sent_at |-> time, again |-> FALSE]
  <2>1. p \in LinkPacket /\ p.type = "META"
    BY <1>1 DEF LinkPacket, LinkTypeOK
  <2>2. ToAir(p)
    BY <1>3 DEF sendMeta
  <2>3. air' = Append(air, e) /\ e \in Underway /\ e.packet = p
    BY <1>1, <2>1, <2>2, ToAirTyped
  <2> HIDE DEF p, e
  <2>4. Elements(air') = Elements(air) \cup {e}
    BY <1>1, <2>3, ElementsAppend
  <2> QED
    BY <2>1, <2>3, <2>4 DEF Fresh
<1>4. CASE dropHeld \/ stop \/ start
  <2>1. air' = air \/ air' = <<>>
    BY <1>4 DEF dropHeld, stop, start
  <2> QED
    BY <2>1, ElementsEmpty
<1> QED
  BY <1>2, <1>3, <1>4 DEF Node

LEMMA FreshStep ==
  ASSUME LinkInv, SamplingInv, PacketsFresh, [Next]_linkVars
  PROVE  PacketsFresh' /\ QueueMoves
<1>1. LinkTypeOK /\ AirInv /\ rxQueue \in Seq(Received)
  BY DEF LinkInv, LinkTypeOK
<1>2. CASE Node
  <2>1. rxQueue' = rxQueue
    BY <1>2, EngineUntouched DEF Node, sendSamples, sendMeta, dropHeld, stop, start
  <2> QED
    BY <1>2, <2>1, SentFresh DEF PacketsFresh, QueueMoves
<1>3. CASE arrive
  <2>1. PICK i \in 1 .. Len(air) :
          /\ notificationCB(air[i].packet)
          /\ air' = Without(air, i) \/ air' = [air EXCEPT ![i].again = TRUE]
    BY <1>3 DEF arrive
  <2> DEFINE d == air[i]
             e == [packet |-> d.packet, rx_time |-> time]
  <2>2. /\ d \in Elements(air) /\ d.packet \in LinkPacket /\ e \in Received
        /\ e.packet = d.packet /\ e.rx_time = time
    BY <1>1, AirMember DEF LinkTypeOK, Received
  <2>3. rxQueue' = rxQueue \/ rxQueue' = Append(rxQueue, e)
    BY <2>1 DEF notificationCB
  <2> HIDE DEF d, e
  <2>4. Elements(rxQueue') \subseteq Elements(rxQueue) \cup {e}
    BY <1>1, <2>2, <2>3, ElementsAppend
  <2>5. \A m \in Elements(air') : \E n \in Elements(air) :
          m.packet = n.packet /\ m.sent_at = n.sent_at
    BY <1>1, <2>1, AirLeft
  <2>6. Fresh(e.packet, e.rx_time, Late)
    <3>1. Fresh(d.packet, d.sent_at, Hold)
      BY <2>2 DEF PacketsFresh
    <3>2. /\ d.sent_at \in Int /\ time \in Int /\ d.sent_at <= time
          /\ time - d.sent_at <= MaxLatency
      BY <2>2, AirTimes
    <3>3. ASSUME NEW s \in SamplesIn(d.packet), Within(s, d.sent_at, Hold)
          PROVE  Within(s, time, Late)
      <4>1. s \in LinkSample
        BY <2>2, LinkSamplesTyped
      <4>2. TakenAt(s) \in Int
        BY <4>1, TakenAtFacts
      <4> QED
        BY <3>2, <3>3, <4>2, HoldFacts DEF Within
    <3> QED
      BY <2>2, <3>1, <3>3 DEF Fresh
  <2> QED
    BY <2>2, <2>4, <2>5, <2>6 DEF PacketsFresh, QueueMoves
<1>4. CASE lose \/ passPeriod
  <2>1. Elements(air') \subseteq Elements(air) /\ rxQueue' = rxQueue
    BY <1>1, <1>4, AirShrinks, EngineUntouched DEF lose, passPeriod, queueVars
  <2> QED
    BY <2>1 DEF PacketsFresh, QueueMoves
<1>5. CASE S3
  <2>1. air' = air
    BY <1>5 DEF S3
  <2>2. rxQueue' = rxQueue \/ (rxQueue # <<>> /\ rxQueue' = Tail(rxQueue))
    BY <1>5 DEF S3, handleRadioPacket, handleMeta, handleSamples, Receive, sampleUnwrapped,
       packetUnwrapped, packetDone, packetRefused, frameRefused, frameReceived, queueVars
  <2>3. Elements(rxQueue') \subseteq Elements(rxQueue)
    BY <1>1, <2>2, ReceiveTyped
  <2> QED
    BY <2>1, <2>3 DEF PacketsFresh, QueueMoves
<1>6. CASE UNCHANGED linkVars
  <2>1. air' = air /\ rxQueue' = rxQueue
    BY <1>6, EngineUntouched DEF linkVars
  <2> QED
    BY <2>1 DEF PacketsFresh, QueueMoves
<1> QED
  BY <1>2, <1>3, <1>4, <1>5, <1>6 DEF Next

-----------------------------------------------------------------------------
(* The epoch's clock and the stamps it gives. *)

\* The sample unwrapped last bounds what may still come.
LEMMA LastLives ==
  ASSUME LinkInv, FirstBootLives, NEW u \in LinkSample, LastUnwrapped(u)
  PROVE  u.boot = 1
<1>1. boot \in Nat \ {0} /\ u.boot \in Nat \ {0} /\ frames \in Seq(LinkFrame)
  BY DEF LinkInv, LinkTypeOK, LinkSample
<1>2. u.boot <= boot /\ \A s \in InUnread \cup InQueue : u.boot <= s.boot
  BY DEF LastUnwrapped, Follows
<1>3. \A s \in InFrames : s.boot = u.boot
  BY DEF LastUnwrapped, EndsIn, InFrames, Elements
<1> QED
  BY <1>1, <1>2, <1>3 DEF FirstBootLives

\* It is the last one of the packet, and came with it.
LEMMA LastCame ==
  ASSUME LinkInv, TurnInv, HandFresh, phase # "idle", frames # <<>>,
         NEW u \in LinkSample, LastUnwrapped(u), u.boot = 1
  PROVE  rx_time \in Int /\ rx_time <= TakenAt(u) + Late
<1>1. Len(frames) \in Nat /\ Len(frames) \in 1 .. Len(frames) /\ frames \in Seq(LinkFrame)
  BY LenProperties, EmptySeq DEF LinkInv, LinkTypeOK
<1> DEFINE g == frames[Len(frames)].sample
<1>2. g \in InFrames /\ g \in LinkSample
  <2>1. frames[Len(frames)] \in Elements(frames) /\ frames[Len(frames)] \in LinkFrame
    BY <1>1, ElementOfSeq DEF Elements
  <2> QED
    BY <2>1 DEF InFrames, LinkFrame
<1>3. EndsIn(frames[Len(frames)], pending_unwrap, u, Len(frames) - Len(frames))
  BY <1>1 DEF LastUnwrapped
<1>4. g.boot = 1 /\ u.number = g.number + (Len(frames) - Len(frames))
  BY <1>3 DEF EndsIn
<1>5. g.number \in Nat /\ u.number \in Nat
  BY <1>2 DEF LinkSample
<1> HIDE DEF g
<1>6. u.number = g.number
  BY <1>1, <1>4, <1>5
<1>7. TakenAt(u) = TakenAt(g)
  BY <1>2, <1>6, TakenAtFacts
<1>8. rx_time <= TakenAt(g) + Late
  BY <1>2, <1>4 DEF HandFresh, Within
<1>9. rx_time \in Int
  BY DEF HandFresh, TurnInv
<1> QED
  BY <1>7, <1>8, <1>9

\* An epoch of the first boot began with it.
LEMMA AnchorLives ==
  ASSUME LinkInv, ClockInv, have_source_frame, NEW u \in LinkSample, u.boot = 1,
         out.sample.boot <= u.boot
  PROVE  /\ out.sample \in LinkSample /\ out.sample.boot = 1 /\ rx_good_frames > 0
         /\ anchor.sample \in LinkSample /\ anchor.sample.boot = 1 /\ anchor.clock \in Int
<1>1. out.sample \in LinkSample /\ rx_good_frames > 0
  BY DEF LinkInv, LinkTypeOK, MetaInv
<1>2. anchor.sample \in LinkSample /\ anchor.clock \in Int /\ anchor.sample.boot <= out.sample.boot
  BY DEF ClockInv, EpochInv
<1>3. out.sample.boot \in Nat \ {0} /\ anchor.sample.boot \in Nat \ {0}
  BY <1>1, <1>2 DEF LinkSample
<1> QED
  BY <1>1, <1>2, <1>3

\* What is not in hand moves.
LEMMA TimeSurroundings ==
  ASSUME LinkInv, LinkInv', [Next]_linkVars, HandFresh, BeginInv, OffsetInv, StampInv, QueueMoves,
         UNCHANGED <<packetVars, clockVars, frameVars, epoch, last_link_us>>
  PROVE  HandFresh' /\ BeginInv' /\ OffsetInv' /\ StampInv'
<1>1. UNCHANGED <<phase, unread, frames, rx_time, unwrap, have_clock_offset, time_offset,
                  have_source_frame, rx_good_frames, last_mapped_time, out, anchor, last_link_us>>
  BY DEF packetVars, clockVars, frameVars
<1>2. InFrames' = InFrames /\ InUnread' = InUnread
  BY <1>1 DEF InFrames, InUnread
<1>3. HandFresh' /\ StampInv'
  BY <1>1, <1>2 DEF HandFresh, StampInv, Within, TakenAt
<1>4. LaterComes
  BY LaterMoved
<1>5. /\ boot \in Nat \ {0} /\ boot' \in Nat \ {0} /\ boot' >= boot
      /\ \A s \in InAir : s.boot = boot
  BY <1>4 DEF LaterComes, LinkInv, LinkTypeOK, AirInv
<1>6. OffsetInv'
  <2>1. FirstBootLives' => FirstBootLives
    BY <1>2, <1>4, <1>5 DEF FirstBootLives, LaterComes
  <2> QED
    BY <1>1, <2>1 DEF OffsetInv, TakenAt
<1>7. BeginInv'
  <2>1. CASE have_source_frame
    BY <1>1, <2>1 DEF BeginInv
  <2>2. CASE ~(rx_good_frames > 0 /\ out.sample.boot = 1)
    BY <1>1, <2>2 DEF BeginInv
  <2>3. CASE ~have_source_frame /\ rx_good_frames > 0 /\ out.sample.boot = 1
    <3>1. TakenAt(out.sample) \in Int /\ LinkGap \in Nat
      BY <2>3, TakenAtFacts, HoldFacts DEF LinkInv, LinkTypeOK
    <3>2. boot = 1 => Gap(time) /\ Gap(time')
      BY <2>3, <3>1, TimeNeverBack DEF BeginInv, Gap
    <3>3. ASSUME NEW q \in Elements(rxQueue'), NEW s \in SamplesIn(q.packet), s.boot = 1
          PROVE  Gap(q.rx_time)
      <4>1. CASE q \in Elements(rxQueue)
        BY <2>3, <3>3, <4>1 DEF BeginInv
      <4>2. CASE q.rx_time = time /\ \E d \in Elements(air) : q.packet = d.packet
        <5>1. s \in InAir
          BY <3>3, <4>2, SamplesOfMember DEF InAir
        <5> QED
          BY <1>5, <3>2, <3>3, <4>2, <5>1
      <4> QED
        BY <4>1, <4>2 DEF QueueMoves
    <3>4. /\ boot' = 1 => Gap(time')
          /\ \A s \in InFrames \cup InUnread : s.boot = 1 => Gap(rx_time)
      BY <1>5, <2>3, <3>2 DEF BeginInv
    <3>5. /\ boot' = 1 => Gap(time)'
          /\ \A q \in Elements(rxQueue') : \A s \in SamplesIn(q.packet) :
               s.boot = 1 => Gap(q.rx_time)'
          /\ \A s \in InFrames' \cup InUnread' : s.boot = 1 => Gap(rx_time)'
      BY <1>1, <1>2, <3>3, <3>4 DEF Gap, TakenAt
    <3> QED
      BY <1>1, <3>5 DEF BeginInv
  <2> QED
    BY <2>1, <2>2, <2>3
<1> QED
  BY <1>3, <1>6, <1>7

\* loop() takes a packet: what begins an epoch comes a gap after what was delivered.
LEMMA TimeReceives ==
  ASSUME LinkInv, LinkInv', TurnInv, PacketsFresh, HandFresh, BeginInv, OffsetInv, StampInv,
         UNCHANGED engineOnly, handleMeta \/ handleSamples, NEW h, h = Head(rxQueue)
  PROVE  HandFresh' /\ BeginInv' /\ OffsetInv' /\ StampInv'
<1>1. /\ UNCHANGED <<time, boot, rx_good_frames, out, anchor, time_offset>>
      /\ phase = "idle" /\ rxQueue # <<>> /\ rxQueue' = Tail(rxQueue) /\ last_link_us' = h.rx_time
  <2>1. CASE handleMeta
    BY <2>1 DEF handleMeta, Receive, engineOnly, nodeVars
  <2>2. CASE handleSamples
    BY <2>2 DEF handleSamples, Receive, engineOnly, nodeVars
  <2> QED
    BY <2>1, <2>2
<1>2. LinkTypeOK /\ PlacesInOrder /\ AirInv /\ MetaInv /\ frames = <<>> /\ unread = <<>>
  BY <1>1 DEF LinkInv, PhaseInv
<1>3. /\ h \in Elements(rxQueue) /\ h.packet \in LinkPacket /\ rxQueue \in Seq(Received)
      /\ Elements(rxQueue') \subseteq Elements(rxQueue)
  BY <1>1, <1>2, ReceiveTyped DEF LinkTypeOK
<1>4. /\ h.rx_time \in Int /\ last_link_us \in Int /\ last_link_us <= h.rx_time /\ h.rx_time <= time
      /\ time \in Int /\ LinkGap \in Nat
  BY <1>3, AirTimes DEF TurnInv
\* The packet in hand.
<1>5. \/ /\ handleMeta /\ phase' = "idle" /\ InFrames' = {} /\ InUnread' = {}
      \/ /\ handleSamples /\ phase' = "unwrap" /\ rx_time' = h.rx_time
         /\ h.packet.type = "SAMPLES" /\ unread' = h.packet.samples
         /\ InFrames' = {} /\ InUnread' = SamplesIn(h.packet)
  <2>1. CASE handleMeta
    BY <1>1, <1>2, <2>1, ElementsEmpty DEF handleMeta, packetVars, InFrames, InUnread
  <2>2. CASE handleSamples
    <3>1. /\ frames' = <<>> /\ unread' = h.packet.samples /\ h.packet.type = "SAMPLES"
          /\ phase' = "unwrap" /\ rx_time' = h.rx_time
      BY <2>2 DEF handleSamples
    <3> QED
      BY <2>2, <3>1, ElementsEmpty DEF InFrames, InUnread, SamplesIn
  <2> QED
    BY <2>1, <2>2
<1>6. \A s \in InFrames' \cup InUnread' : s \in SamplesIn(h.packet) /\ rx_time' = h.rx_time
  BY <1>5
<1>7. HandFresh'
  <2>1. phase' = "unwrap" => unread' # <<>>
    BY <1>3, <1>5 DEF PacketsFresh, Fresh
  <2>2. phase' # "idle" => rx_time' = last_link_us'
    BY <1>1, <1>5
  <2>3. \A s \in InFrames' \cup InUnread' : Within(s, rx_time', Late)
    BY <1>3, <1>5 DEF PacketsFresh, Fresh
  <2>4. rx_good_frames > 0 /\ out.sample.boot = 1 => TakenAt(out.sample) <= last_link_us'
    <3> SUFFICES ASSUME rx_good_frames > 0, out.sample.boot = 1
                 PROVE  TakenAt(out.sample) <= last_link_us'
      OBVIOUS
    <3>1. TakenAt(out.sample) \in Int /\ TakenAt(out.sample) <= last_link_us
      BY <1>2, TakenAtFacts DEF LinkTypeOK, HandFresh
    <3> QED
      BY <1>1, <1>4, <3>1
  <2> QED
    BY <1>1, <2>1, <2>2, <2>3, <2>4 DEF HandFresh, Within, TakenAt
<1>8. StampInv'
  BY <1>1 DEF StampInv, TakenAt
\* What SourceReboot() forgets.
<1>9. \E called \in BOOLEAN :
        /\ SourceReboot(called)
        /\ called => LinkWasLost(h.rx_time) \/ IsReboot(h.packet)
  <2>1. CASE handleMeta
    BY <2>1 DEF handleMeta, LinkWasLost, IsReboot
  <2>2. CASE handleSamples
    BY <2>2 DEF handleSamples, LinkWasLost
  <2> QED
    BY <2>1, <2>2
<1>10. \/ /\ last_mapped_time' = last_mapped_time
          /\ have_source_frame' <=> have_source_frame
          /\ have_clock_offset' <=> have_clock_offset
       \/ /\ ~have_source_frame' /\ ~have_clock_offset' /\ last_mapped_time' = 0
          /\ LinkWasLost(h.rx_time) \/ IsReboot(h.packet)
  <2>1. PICK called \in BOOLEAN :
          /\ SourceReboot(called)
          /\ called => LinkWasLost(h.rx_time) \/ IsReboot(h.packet)
    BY <1>9
  <2> QED
    BY <2>1 DEF SourceReboot
<1>11. OffsetInv'
  <2>1. FirstBootLives' => FirstBootLives
    <3>1. InQueue' \subseteq InQueue /\ SamplesIn(h.packet) \subseteq InQueue
      BY <1>3, SamplesOfPart, SamplesOfMember DEF InQueue
    <3> QED
      BY <1>1, <1>6, <3>1 DEF FirstBootLives
  <2> QED
    BY <1>1, <1>10, <2>1 DEF OffsetInv, TakenAt
<1>12. BeginInv'
  <2> SUFFICES ASSUME ~have_source_frame' PROVE BeginInv'
    BY DEF BeginInv
  <2>1. last_mapped_time' = 0 /\ ~have_clock_offset' /\ phase' # "frames"
    BY <1>1, <1>5, <1>10 DEF BeginInv
  <2>2. ASSUME rx_good_frames > 0, out.sample.boot = 1
        PROVE  /\ boot = 1 => Gap(time)
               /\ \A q \in Elements(rxQueue') : \A s \in SamplesIn(q.packet) :
                    s.boot = 1 => Gap(q.rx_time)
               /\ \A s \in SamplesIn(h.packet) : s.boot = 1 => Gap(h.rx_time)
    <3>1. CASE ~have_source_frame
      BY <1>3, <2>2, <3>1 DEF BeginInv
    <3>2. CASE LinkWasLost(h.rx_time)
      <4>1. TakenAt(out.sample) \in Int /\ TakenAt(out.sample) <= last_link_us
        BY <1>2, <2>2, TakenAtFacts DEF LinkTypeOK, HandFresh
      <4>2. h.rx_time - last_link_us > LinkGap
        BY <3>2 DEF LinkWasLost
      <4>3. Gap(h.rx_time) /\ Gap(time)
        BY <1>4, <4>1, <4>2 DEF Gap
      <4>4. ASSUME NEW q \in Elements(rxQueue') PROVE Gap(q.rx_time)
        <5>1. h.rx_time <= q.rx_time
          BY <1>1, <1>3, <4>4, TurnTail DEF TurnInv, InTurn
        <5>2. q.rx_time \in Int
          BY <1>3, AirTimes
        <5> QED
          BY <1>4, <4>1, <4>2, <5>1, <5>2 DEF Gap
      <4> QED
        BY <4>3, <4>4
    <3>3. CASE IsReboot(h.packet)
      <4>1. h.packet.type = "META" /\ have_meta /\ last_boot_id # h.packet.boot_id
        BY <3>3 DEF IsReboot
      <4>2. h.packet.boot_id \in Nat /\ SamplesIn(h.packet) = {} /\ last_boot_id \in Nat
            /\ boot \in Nat
        BY <1>2, <1>3, <4>1, LinkSamplesTyped DEF LinkTypeOK
      <4>3. last_boot_id > 0 /\ last_boot_id <= h.packet.boot_id /\ h.packet.boot_id <= boot
        BY <1>2, <1>3, <4>1 DEF TurnInv, AirInv
      <4>4. h.packet.boot_id > 1 /\ boot # 1
        BY <4>1, <4>2, <4>3
      <4>5. ASSUME NEW q \in Elements(rxQueue'), NEW s \in SamplesIn(q.packet) PROVE s.boot # 1
        <5>1. Precedes(ordered, h.packet, q.packet)
          BY <1>1, <1>2, <1>3, SortedPacketsTail DEF PlacesInOrder
        <5>2. h.packet.boot_id <= s.boot
          BY <4>1, <4>5, <5>1 DEF Precedes
        <5> QED
          BY <4>2, <4>4, <5>2
      <4> QED
        BY <4>2, <4>4, <4>5
    <3> QED
      BY <1>10, <3>1, <3>2, <3>3
  <2>3. rx_good_frames > 0 /\ out.sample.boot = 1 =>
          /\ boot' = 1 => Gap(time)'
          /\ \A q \in Elements(rxQueue') : \A s \in SamplesIn(q.packet) :
               s.boot = 1 => Gap(q.rx_time)'
          /\ \A s \in InFrames' \cup InUnread' : s.boot = 1 => Gap(rx_time)'
    BY <1>1, <1>6, <2>2 DEF Gap, TakenAt
  <2> QED
    BY <1>1, <2>1, <2>3 DEF BeginInv
<1> QED
  BY <1>7, <1>8, <1>11, <1>12

\* loop() goes on with the packet in hand, and neither unwraps nor delivers.
LEMMA TimeInHand ==
  ASSUME LinkInv, LinkInv', HandFresh, BeginInv, OffsetInv, StampInv, UNCHANGED engineOnly,
         sampleUnwrapped \/ packetRefused \/ frameRefused \/ packetDone
  PROVE  HandFresh' /\ BeginInv' /\ OffsetInv' /\ StampInv'
<1>1. /\ UNCHANGED <<time, boot, rxQueue, last_link_us, rx_good_frames, out, anchor, time_offset,
                     unwrap, have_clock_offset, have_source_frame, last_mapped_time>>
      /\ \/ phase' = "unwrap" /\ phase = "unwrap" /\ frames' # <<>> /\ rx_time' = rx_time
         \/ phase' = "idle"
         \/ phase' = "frames" /\ phase = "frames" /\ have_source_frame /\ rx_time' = rx_time
      /\ phase = "frames" => have_source_frame
  <2>1. CASE sampleUnwrapped
    <3>1. /\ UNCHANGED <<time, boot, rxQueue, last_link_us, rx_good_frames, out, anchor, time_offset,
                         unwrap, have_clock_offset, have_source_frame, last_mapped_time, phase,
                         rx_time>>
          /\ phase = "unwrap"
          /\ frames' = Append(frames, [sample |-> Head(unread), clock |-> pending_unwrap'.high])
      BY <2>1 DEF sampleUnwrapped, engineOnly, nodeVars, queueVars, clockVars, frameVars
    <3>2. Len(frames) \in Nat /\ Len(frames') = Len(frames) + 1
      BY <3>1, LenProperties DEF LinkInv, LinkTypeOK
    <3>3. frames' # <<>>
      BY <3>2
    <3> QED
      BY <3>1, <3>3
  <2>2. CASE packetRefused
    BY <2>2 DEF packetRefused, Done, engineOnly, nodeVars, queueVars, clockVars
  <2>3. CASE frameRefused
    BY <2>3 DEF frameRefused, IsDuplicate, engineOnly, nodeVars, queueVars, clockVars
  <2>4. CASE packetDone
    BY <2>4 DEF packetDone, Done, engineOnly, nodeVars, queueVars, clockVars, frameVars, BeginInv
  <2> QED
    BY <2>1, <2>2, <2>3, <2>4
<1>2. InFrames' \cup InUnread' \subseteq InFrames \cup InUnread
  BY HandMoves
<1>3. phase' = "idle" => InFrames' = {} /\ InUnread' = {}
  BY ElementsEmpty DEF LinkInv, PhaseInv, InFrames, InUnread
<1>4. InQueue' = InQueue
  BY <1>1 DEF InQueue
<1>5. HandFresh'
  <2>1. \A s \in InFrames' \cup InUnread' : Within(s, rx_time, Late) /\ rx_time' = rx_time
    BY <1>1, <1>2, <1>3 DEF HandFresh
  <2> QED
    BY <1>1, <2>1 DEF HandFresh, Within, TakenAt
<1>6. StampInv' /\ OffsetInv'
  <2>1. FirstBootLives' => FirstBootLives
    BY <1>1, <1>2, <1>4 DEF FirstBootLives
  <2> QED
    BY <1>1, <2>1 DEF StampInv, OffsetInv, TakenAt
<1>7. BeginInv'
  <2> SUFFICES ASSUME ~have_source_frame' PROVE BeginInv'
    BY DEF BeginInv
  <2>1. phase' # "frames" /\ phase # "frames"
    BY <1>1
  <2>2. ASSUME rx_good_frames > 0, out.sample.boot = 1
        PROVE  \A s \in InFrames' \cup InUnread' : s.boot = 1 => Gap(rx_time) /\ rx_time' = rx_time
    BY <1>1, <1>2, <1>3, <2>2 DEF BeginInv
  <2>3. rx_good_frames > 0 /\ out.sample.boot = 1 =>
          /\ boot' = 1 => Gap(time)'
          /\ \A q \in Elements(rxQueue') : \A s \in SamplesIn(q.packet) :
               s.boot = 1 => Gap(q.rx_time)'
          /\ \A s \in InFrames' \cup InUnread' : s.boot = 1 => Gap(rx_time)'
    BY <1>1, <2>2 DEF BeginInv, Gap, TakenAt
  <2> QED
    BY <1>1, <2>1, <2>3 DEF BeginInv
<1> QED
  BY <1>5, <1>6, <1>7

\* The packet in hand is unwrapped, and moves the clock offset.
LEMMA TimePacketUnwrapped ==
  ASSUME LinkInv, LinkInv', ClockInv, TurnInv, HandFresh, BeginInv, OffsetInv, StampInv,
         UNCHANGED engineOnly, packetUnwrapped
  PROVE  HandFresh' /\ BeginInv' /\ OffsetInv' /\ StampInv'
<1>1. /\ UNCHANGED <<time, boot, rxQueue, last_link_us, rx_good_frames, out, anchor, rx_time, frames,
                     unread, pending_unwrap, have_source_frame, last_mapped_time>>
      /\ phase = "unwrap" /\ phase' = "frames" /\ unread = <<>>
      /\ unwrap' = pending_unwrap /\ time_offset' = observeClock(rx_time - pending_unwrap.high)
  BY DEF packetUnwrapped, engineOnly, nodeVars, queueVars, frameVars
<1>2. InFrames' = InFrames /\ InUnread' = InUnread /\ InQueue' = InQueue
  BY <1>1 DEF InFrames, InUnread, InQueue
<1>3. HandFresh' /\ StampInv'
  BY <1>1, <1>2 DEF HandFresh, StampInv, Within, TakenAt
<1>4. frames # <<>>
  BY <1>1 DEF HandFresh
<1>5. PICK u \in LinkSample : LastUnwrapped(u)
  BY <1>4 DEF ClockInv, UnwrapInv
<1> DEFINE r == rx_time
           w == pending_unwrap.high
           p == rx_time - pending_unwrap.high
<1>6. r \in Int /\ w \in Int /\ p \in Int /\ p = r - w /\ time_offset \in Int
  <2>1. r \in Int
    BY <1>1 DEF HandFresh, TurnInv
  <2>2. w \in Int
    BY DEF LinkInv, LinkTypeOK, LinkUnwrap
  <2>3. time_offset \in Int
    BY DEF OffsetInv
  <2> QED
    BY <2>1, <2>2, <2>3
<1>7. time_offset' = observeClock(p)
  BY <1>1
<1>8. /\ observeClock(p) \in Int
      /\ ~have_clock_offset => observeClock(p) = p
      /\ \A b \in Int : time_offset <= b /\ p <= b => observeClock(p) <= b
  BY <1>6, ObserveClockFacts
<1>9. ASSUME have_source_frame, FirstBootLives
      PROVE  time_offset' + anchor.clock <= TakenAt(anchor.sample) + Late
  <2>1. u.boot = 1
    BY <1>5, <1>9, LastLives
  <2>2. out.sample.boot <= u.boot
    BY <1>5, <1>9 DEF LastUnwrapped, Follows
  <2>3. anchor.sample \in LinkSample /\ anchor.sample.boot = 1 /\ anchor.clock \in Int
    BY <1>9, <2>1, <2>2, AnchorLives
  <2>4. w - anchor.clock = Apart(anchor.sample, u)
    BY <1>5, <1>9, <2>1, <2>3 DEF LastUnwrapped, Follows
  <2>5. r <= TakenAt(u) + Late
    BY <1>1, <1>4, <1>5, <2>1, LastCame
  <2>6. time_offset + anchor.clock <= TakenAt(anchor.sample) + Late
    BY <1>9 DEF OffsetInv
  <2>7. TakenAt(u) - TakenAt(anchor.sample) = Apart(anchor.sample, u)
        /\ TakenAt(u) \in Int /\ TakenAt(anchor.sample) \in Int
    BY <2>3, TakenAtFacts
  <2> DEFINE c == anchor.clock
             a == TakenAt(anchor.sample)
             v == TakenAt(u)
             b == a + Late - c
  <2>8. /\ c \in Int /\ a \in Int /\ v \in Int /\ Late \in Int
        /\ w - c = v - a /\ r <= v + Late /\ time_offset + c <= a + Late
    BY <2>3, <2>4, <2>5, <2>6, <2>7, HoldFacts
  <2> HIDE DEF c, a, v, r, w, p
  <2>9. b \in Int /\ time_offset <= b /\ p <= b
    BY <1>6, <2>8
  <2>10. observeClock(p) <= b
    BY <1>8, <2>9
  <2> HIDE DEF b
  <2>11. observeClock(p) + c <= a + Late
    BY <1>8, <2>8, <2>10 DEF b
  <2> QED
    BY <1>7, <2>11 DEF a, c
<1>10. OffsetInv'
  <2>1. FirstBootLives' => FirstBootLives
    BY <1>1, <1>2 DEF FirstBootLives
  <2>2. time_offset' \in Int
    BY <1>7, <1>8
  <2> QED
    BY <1>1, <1>9, <2>1, <2>2 DEF OffsetInv, TakenAt
<1>11. BeginInv'
  <2> SUFFICES ASSUME ~have_source_frame PROVE BeginInv'
    BY <1>1 DEF BeginInv
  <2>1. ~have_clock_offset
    BY <1>1 DEF BeginInv
  <2>2. time_offset' = r - w
    BY <1>6, <1>7, <1>8, <2>1
  <2>3. time_offset' + unwrap'.high = rx_time'
    BY <1>1, <1>6, <2>2
  <2>4. rx_good_frames > 0 /\ out.sample.boot = 1 =>
          /\ boot' = 1 => Gap(time)'
          /\ \A q \in Elements(rxQueue') : \A s \in SamplesIn(q.packet) :
               s.boot = 1 => Gap(q.rx_time)'
          /\ \A s \in InFrames' \cup InUnread' : s.boot = 1 => Gap(rx_time)'
    BY <1>1, <1>2 DEF BeginInv, Gap, TakenAt
  <2> QED
    BY <1>1, <1>4, <2>3, <2>4 DEF BeginInv
<1> QED
  BY <1>3, <1>10, <1>11

\* The clock of the next frame, and what the first frame of an epoch makes of it.
LEMMA OffsetOfFrame ==
  ASSUME LinkInv, ClockInv, TurnInv, HandFresh, BeginInv, OffsetInv,
         phase = "frames", frames # <<>>, NEW f, f = Head(frames), FirstBootLives
  PROVE  /\ f.sample \in LinkSample /\ f.sample.boot = 1 /\ f.clock \in Int
         /\ f.clock + time_offset <= TakenAt(f.sample) + Late
         /\ ~have_source_frame => f.clock + time_offset + Period * MaxSent[ordered] >= rx_time
<1>1. /\ Len(frames) \in Nat /\ 1 \in 1 .. Len(frames) /\ f = frames[1] /\ f \in LinkFrame
      /\ frames \in Seq(LinkFrame)
  <2>1. frames \in Seq(LinkFrame)
    BY DEF LinkInv, LinkTypeOK
  <2>2. Len(frames) \in Nat /\ Len(frames) >= 1 /\ f = frames[1]
    BY <2>1, HeadTailProperties, LenProperties
  <2> QED
    BY <2>1, <2>2, ElementOfSeq
<1>2. f.sample \in LinkSample /\ f.clock \in Int
  BY <1>1 DEF LinkFrame
<1>3. PICK u \in LinkSample : LastUnwrapped(u)
  BY DEF ClockInv, UnwrapInv
<1>4. u.boot = 1
  BY <1>3, LastLives
<1>5. EndsIn(f, pending_unwrap, u, Len(frames) - 1) /\ Follows(pending_unwrap, u)
  BY <1>1, <1>3 DEF LastUnwrapped
<1>6. /\ f.sample.boot = 1 /\ u.number = f.sample.number + (Len(frames) - 1)
      /\ pending_unwrap.high - f.clock = Apart(f.sample, u)
  BY <1>4, <1>5 DEF EndsIn
<1>7. time_offset \in Int /\ pending_unwrap.high \in Int /\ Late \in Nat
  BY HoldFacts DEF OffsetInv, LinkInv, LinkTypeOK, LinkUnwrap
<1> DEFINE c == f.clock
           a == TakenAt(f.sample)
           o == time_offset
<1>8. CASE have_source_frame
  <2>1. out.sample.boot <= u.boot
    BY <1>5, <1>8 DEF Follows
  <2>2. anchor.sample \in LinkSample /\ anchor.sample.boot = 1 /\ anchor.clock \in Int
    BY <1>4, <1>8, <2>1, AnchorLives
  <2>3. c - anchor.clock = Apart(anchor.sample, f.sample)
    BY <1>1, <1>6, <1>8, <2>2, ClockTrue DEF ClockIsTrue
  <2>4. o + anchor.clock <= TakenAt(anchor.sample) + Late
    BY <1>8 DEF OffsetInv
  <2>5. a - TakenAt(anchor.sample) = Apart(anchor.sample, f.sample)
        /\ a \in Int /\ TakenAt(anchor.sample) \in Int
    BY <1>2, <2>2, TakenAtFacts
  <2> DEFINE d == anchor.clock
             b == TakenAt(anchor.sample)
  <2>6. /\ c \in Int /\ a \in Int /\ o \in Int /\ d \in Int /\ b \in Int
        /\ c - d = a - b /\ o + d <= b + Late
    BY <1>2, <1>7, <2>2, <2>3, <2>4, <2>5
  <2> HIDE DEF a, b, c, d, o
  <2>7. c + o <= a + Late
    BY <1>7, <2>6
  <2> QED
    BY <1>2, <1>6, <1>8, <2>7 DEF a, c, o
<1>9. CASE ~have_source_frame
  <2>1. o + unwrap.high = rx_time /\ unwrap = pending_unwrap
    BY <1>9 DEF BeginInv, ClockInv, HandInv
  <2>2. rx_time \in Int /\ rx_time <= TakenAt(u) + Late
    BY <1>3, <1>4, LastCame
  <2>3. TakenAt(u) - a = Apart(f.sample, u) /\ a \in Int /\ TakenAt(u) \in Int
    BY <1>2, TakenAtFacts
  <2>4. Apart(f.sample, u) <= Period * MaxSent[ordered] /\ Period * MaxSent[ordered] \in Int
    <3>1. Apart(f.sample, u) = Period * (Len(frames) - 1)
      BY <1>1, <1>2, <1>6, ApartInRow
    <3>2. MaxSent[ordered] \in Nat /\ Period \in Nat
      BY LinkConstants DEF LinkInv, LinkTypeOK
    <3>3. Len(unread) \in Nat
      BY LenProperties DEF LinkInv, LinkTypeOK
    <3>4. Len(frames) - 1 \in Int /\ Len(frames) - 1 <= MaxSent[ordered]
      BY <1>1, <3>2, <3>3 DEF ClockInv, HandInv
    <3> DEFINE k == Len(frames) - 1
    <3> HIDE DEF k
    <3>5. Period * k <= Period * MaxSent[ordered]
      BY <3>2, <3>4 DEF k
    <3> QED
      BY <3>1, <3>2, <3>5 DEF k
  <2> DEFINE w == pending_unwrap.high
             v == TakenAt(u)
             m == Period * MaxSent[ordered]
  <2>5. /\ c \in Int /\ a \in Int /\ o \in Int /\ w \in Int /\ v \in Int /\ m \in Int /\ rx_time \in Int
        /\ o + w = rx_time /\ rx_time <= v + Late /\ w - c = v - a /\ v - a <= m
    BY <1>2, <1>6, <1>7, <2>1, <2>2, <2>3, <2>4
  <2> HIDE DEF a, c, o, w, v, m
  <2>6. c + o <= a + Late /\ c + o + m >= rx_time
    BY <1>7, <2>5
  <2> QED
    BY <1>2, <1>6, <2>6 DEF a, c, o, m
<1> QED
  BY <1>8, <1>9

\* A frame is delivered: its stamp.
LEMMA StampOfFrame ==
  ASSUME LinkInv, ClockInv, TimeInv, TurnInv, [Next]_linkVars, frameReceived, frameIn
  PROVE  /\ out'.sample_time \in Nat
         /\ have_source_frame /\ out.sample_time # 0 => out'.sample_time > out.sample_time
         /\ out'.sample.boot = 1 =>
              /\ out'.sample_time # 0 => out'.sample_time <= TakenAt(out'.sample) + Late
              /\ ~have_source_frame =>
                   out'.sample_time + Period * MaxSent[ordered] >= rx_time
<1> DEFINE f == Head(frames)
           t == mapTime(f.clock, last_mapped_time)
<1>1. /\ phase = "frames" /\ frames # <<>> /\ out'.sample = f.sample /\ out'.sample_time = t
      /\ out'.epoch = epoch
  BY DEF frameReceived
<1>2. f \in Elements(frames) /\ f \in LinkFrame
  BY <1>1, ElementsHead DEF LinkInv, LinkTypeOK
<1>3. f.sample \in InFrames /\ f.sample \in LinkSample /\ f.clock \in Int
  BY <1>2 DEF InFrames, LinkFrame
<1>4. HandFresh /\ BeginInv /\ OffsetInv /\ StampInv
  BY DEF TimeInv
<1>5. time_offset \in Int /\ last_mapped_time \in Nat
  BY <1>4 DEF OffsetInv
<1> HIDE DEF f
<1>6. /\ t \in Nat /\ t >= f.clock + time_offset
      /\ last_mapped_time # 0 => t > last_mapped_time
      /\ \A b \in Int : f.clock + time_offset <= b /\ (last_mapped_time # 0 => last_mapped_time < b)
                          /\ t # 0 => t <= b
  BY <1>3, <1>5, MapTimeFacts
<1> HIDE DEF t
<1>7. have_source_frame /\ out.sample_time # 0 => t > out.sample_time
  BY <1>4, <1>6 DEF OffsetInv
<1>8. ASSUME f.sample.boot = 1
      PROVE  /\ t # 0 => t <= TakenAt(f.sample) + Late
             /\ ~have_source_frame => t + Period * MaxSent[ordered] >= rx_time
  <2>1. FirstBootLives
    BY <1>3, <1>8 DEF FirstBootLives
  <2>2. /\ f.clock + time_offset <= TakenAt(f.sample) + Late
        /\ ~have_source_frame => f.clock + time_offset + Period * MaxSent[ordered] >= rx_time
    BY <1>1, <1>4, <2>1, OffsetOfFrame DEF f
  <2>3. TakenAt(f.sample) \in Int /\ Late \in Nat
    BY <1>3, TakenAtFacts, HoldFacts
  <2>4. last_mapped_time # 0 => last_mapped_time < TakenAt(f.sample) + Late
    <3> SUFFICES ASSUME last_mapped_time # 0 PROVE last_mapped_time < TakenAt(f.sample) + Late
      OBVIOUS
    <3>1. have_source_frame /\ last_mapped_time = out.sample_time
      BY <1>4 DEF BeginInv, OffsetInv
    <3>2. rx_good_frames > 0 /\ out.sample \in LinkSample
      BY <3>1 DEF LinkInv, MetaInv, LinkTypeOK
    <3>3. out.sample.boot = 1
      <4>1. Before(ordered, out.sample, f.sample)
        BY <1>1, <3>2, FrameDelivered
      <4>2. out.sample.boot \in Nat \ {0}
        BY <3>2 DEF LinkSample
      <4> QED
        BY <1>8, <4>1, <4>2 DEF Before
    <3>4. out.epoch = epoch
      BY <3>1 DEF ClockInv, EpochInv
    <3>5. out.sample.number < f.sample.number
      BY <1>1, <1>8, <3>2, <3>3, <3>4, NextOfEpoch
    <3>6. TakenAt(out.sample) < TakenAt(f.sample) /\ TakenAt(out.sample) \in Int
      BY <1>3, <3>2, <3>5, TakenAtFacts
    <3>7. last_mapped_time <= TakenAt(out.sample) + Late
      BY <1>4, <3>1, <3>2, <3>3 DEF StampInv
    <3> QED
      BY <1>5, <2>3, <3>6, <3>7
  <2> DEFINE b == TakenAt(f.sample) + Late
  <2>5. b \in Int /\ f.clock + time_offset <= b /\ (last_mapped_time # 0 => last_mapped_time < b)
    BY <2>2, <2>3, <2>4
  <2> HIDE DEF b
  <2>6. t # 0 => t <= b
    BY <1>6, <2>5
  <2>7. ~have_source_frame => t + Period * MaxSent[ordered] >= rx_time
    <3>1. Period * MaxSent[ordered] \in Int
      BY LinkConstants DEF LinkInv, LinkTypeOK
    <3>2. rx_time \in Int
      BY <1>1, <1>4 DEF HandFresh, TurnInv
    <3> DEFINE m == Period * MaxSent[ordered]
               x == f.clock + time_offset
    <3>3. x \in Int /\ m \in Int /\ t >= x /\ t \in Nat /\ (~have_source_frame => x + m >= rx_time)
      BY <1>3, <1>5, <1>6, <2>2, <3>1
    <3> HIDE DEF m, x
    <3> QED
      BY <3>2, <3>3 DEF m
  <2> QED
    BY <2>6, <2>7 DEF b
<1> QED
  BY <1>1, <1>6, <1>7, <1>8

\* A frame is delivered.
LEMMA TimeFrameReceived ==
  ASSUME LinkInv, LinkInv', ClockInv, TimeInv, TurnInv, [Next]_linkVars, UNCHANGED engineOnly,
         frameReceived
  PROVE  HandFresh' /\ BeginInv' /\ OffsetInv' /\ StampInv'
<1> DEFINE f == Head(frames)
<1>1. /\ UNCHANGED <<boot, rxQueue, last_link_us, rx_time, unread, time_offset>>
      /\ phase = "frames" /\ phase' = "frames" /\ frames # <<>>
      /\ have_source_frame' /\ last_mapped_time' = out'.sample_time
      /\ out'.sample = f.sample /\ rx_good_frames' = rx_good_frames + 1
      /\ anchor' = IF have_source_frame THEN anchor
                   ELSE [sample |-> f.sample, clock |-> f.clock, known |-> have_meta,
                         good |-> rx_good_frames, missing |-> missing_frames]
  BY DEF frameReceived, engineOnly, nodeVars, queueVars, clockVars
<1>2. HandFresh /\ BeginInv /\ OffsetInv /\ StampInv
  BY DEF TimeInv
<1>3. frameIn
  BY <1>1 DEF frameIn, LinkInv, LinkTypeOK
<1>4. f.sample \in InFrames /\ f.sample \in LinkSample
  <2>1. f \in Elements(frames) /\ f \in LinkFrame
    BY <1>1, ElementsHead DEF LinkInv, LinkTypeOK
  <2> QED
    BY <2>1 DEF InFrames, LinkFrame
<1>5. InFrames' \cup InUnread' \subseteq InFrames \cup InUnread /\ InQueue' = InQueue
  BY <1>1, HandMoves DEF InQueue
<1>6. FirstBootLives' => FirstBootLives
  BY <1>1, <1>5 DEF FirstBootLives
<1>7. HandFresh'
  <2>1. \A s \in InFrames' \cup InUnread' : Within(s, rx_time, Late)
    BY <1>2, <1>5 DEF HandFresh
  <2>2. f.sample.boot = 1 => TakenAt(f.sample) <= last_link_us
    BY <1>1, <1>2, <1>4 DEF HandFresh, Within
  <2>3. rx_time = last_link_us
    BY <1>1, <1>2 DEF HandFresh
  <2> HIDE DEF f
  <2> QED
    BY <1>1, <2>1, <2>2, <2>3 DEF HandFresh, Within, TakenAt
<1>8. StampInv' /\ out'.sample_time \in Nat
  <2>1. /\ out'.sample_time \in Nat
        /\ out'.sample.boot = 1 /\ out'.sample_time # 0 =>
             out'.sample_time <= TakenAt(out'.sample) + Late
    BY <1>3, StampOfFrame
  <2> QED
    BY <2>1 DEF StampInv, TakenAt
<1>9. OffsetInv'
  <2>1. ASSUME FirstBootLives
        PROVE  time_offset + anchor'.clock <= TakenAt(anchor'.sample) + Late
    <3>1. CASE have_source_frame
      BY <1>1, <1>2, <2>1, <3>1 DEF OffsetInv
    <3>2. CASE ~have_source_frame
      <4>1. anchor'.clock = f.clock /\ anchor'.sample = f.sample
        BY <1>1, <3>2
      <4>2. /\ f.clock \in Int /\ time_offset \in Int
            /\ f.clock + time_offset <= TakenAt(f.sample) + Late
        BY <1>1, <1>2, <2>1, OffsetOfFrame DEF OffsetInv
      <4> HIDE DEF f
      <4>3. time_offset + f.clock <= TakenAt(f.sample) + Late
        BY <4>2
      <4> QED
        BY <4>1, <4>3
    <3> QED
      BY <3>1, <3>2
  <2>2. time_offset \in Int
    BY <1>2 DEF OffsetInv
  <2> QED
    BY <1>1, <1>6, <1>8, <2>1, <2>2 DEF OffsetInv, TakenAt
<1>10. BeginInv'
  BY <1>1 DEF BeginInv
<1> QED
  BY <1>7, <1>8, <1>9, <1>10

LEMMA TimeInit == Init => TimeInv
<1> SUFFICES ASSUME Init PROVE TimeInv
  OBVIOUS
<1>1. /\ frames = <<>> /\ unread = <<>> /\ rxQueue = <<>> /\ air = <<>> /\ phase = "idle"
      /\ rx_good_frames = 0 /\ ~have_source_frame /\ ~have_clock_offset
      /\ time_offset = 0 /\ last_mapped_time = 0 /\ out.sample_time = 0
      /\ time = 1 /\ taken = NodeAge /\ oldest = NodeAge
  BY DEF Init, EngineInit, NodeInit, NoFrame
<1>2. /\ InFrames = {} /\ InUnread = {} /\ Elements(air) = {} /\ Elements(rxQueue) = {}
  BY <1>1, ElementsEmpty DEF InFrames, InUnread
<1>3. SamplingInv
  <2>1. Period * (NodeAge - NodeAge) = 0 /\ NodeAge - NodeAge = 0 /\ 0 <= Capacity
    BY HoldFacts
  <2> QED
    BY <1>1, <2>1, HoldFacts DEF SamplingInv
<1> QED
  BY <1>1, <1>2, <1>3 DEF TimeInv, PacketsFresh, HandFresh, BeginInv, OffsetInv, StampInv

LEMMA TimeStep ==
  LinkInv /\ LinkInv' /\ ClockInv /\ LateComesInv /\ TimeInv /\ [Next]_linkVars => TimeInv'
<1> SUFFICES ASSUME LinkInv, LinkInv', ClockInv, LateComesInv, TimeInv, [Next]_linkVars
             PROVE  TimeInv'
  OBVIOUS
<1>1. /\ SamplingInv /\ PacketsFresh /\ HandFresh /\ BeginInv /\ OffsetInv /\ StampInv
      /\ TurnInv
  BY DEF TimeInv, LateComesInv
<1>2. SamplingInv' /\ PacketsFresh' /\ QueueMoves
  BY <1>1, SamplingStep, FreshStep
<1>3. CASE S3 /\ UNCHANGED ordered
  <2>1. UNCHANGED engineOnly /\ handleRadioPacket
    BY <1>3 DEF S3, engineOnly
  <2>2. CASE handleMeta \/ handleSamples
    BY <1>1, <1>2, <2>1, <2>2, TimeReceives DEF TimeInv
  <2>3. CASE sampleUnwrapped \/ packetRefused \/ frameRefused \/ packetDone
    BY <1>1, <1>2, <2>1, <2>3, TimeInHand DEF TimeInv
  <2>4. CASE packetUnwrapped
    BY <1>1, <1>2, <2>1, <2>4, TimePacketUnwrapped DEF TimeInv
  <2>5. CASE frameReceived
    BY <1>1, <1>2, <2>1, <2>5, TimeFrameReceived DEF TimeInv
  <2> QED
    BY <2>1, <2>2, <2>3, <2>4, <2>5 DEF handleRadioPacket
<1>4. CASE Node \/ arrive \/ lose \/ passPeriod \/ UNCHANGED linkVars
  <2>1. UNCHANGED <<packetVars, clockVars, frameVars, epoch, last_link_us>>
    BY <1>4 DEF Node, sendSamples, sendMeta, dropHeld, stop, start, arrive, lose, passPeriod,
       notificationCB, linkVars, engineVars, queueVars
  <2> QED
    BY <1>1, <1>2, <2>1, TimeSurroundings DEF TimeInv
<1> QED
  BY <1>3, <1>4 DEF Next

\* A frame that begins an epoch while the first boot goes on.
LEMMA StampOfEpoch ==
  ASSUME HoldIsShort, LinkInv, ClockInv, LateComesInv, TimeInv, [Next]_linkVars, frameIn,
         ~have_source_frame, rx_good_frames > 0, out.sample.boot = 1, out'.sample.boot = 1,
         out.sample_time # 0
  PROVE  out'.sample_time > out.sample_time
<1>1. frameReceived /\ out'.sample \in InFrames /\ out.sample \in LinkSample
  BY FrameDelivered DEF LinkInv, LinkTypeOK
<1>2. TurnInv /\ HandFresh /\ BeginInv /\ OffsetInv /\ StampInv /\ phase = "frames"
  BY <1>1 DEF TimeInv, LateComesInv, frameReceived
<1>3. out'.sample_time \in Nat /\ out'.sample_time + Period * MaxSent[ordered] >= rx_time
  BY <1>1, <1>2, StampOfFrame
<1>4. rx_time > TakenAt(out.sample) + LinkGap
  BY <1>1, <1>2 DEF BeginInv, Gap
<1>5. out.sample_time <= TakenAt(out.sample) + Late
  BY <1>2 DEF StampInv
<1>6. Late + Period * MaxSent[ordered] <= LinkGap
  BY DEF HoldIsShort, Late, Hold, LinkInv, LinkTypeOK
<1>7. /\ Period * MaxSent[ordered] \in Int /\ TakenAt(out.sample) \in Int
      /\ Late \in Int /\ LinkGap \in Int
  <2>1. Period \in Nat /\ MaxSent[ordered] \in Nat
    BY LinkConstants, HoldFacts DEF LinkInv, LinkTypeOK
  <2> QED
    BY <1>1, <2>1, TakenAtFacts, HoldFacts
<1>8. rx_time \in Int /\ out.sample_time \in Int
  BY <1>2 DEF HandFresh, TurnInv, OffsetInv
<1> DEFINE m == Period * MaxSent[ordered]
           a == TakenAt(out.sample)
           t == out.sample_time
           u == out'.sample_time
<1>9. /\ m \in Int /\ a \in Int /\ t \in Int /\ u \in Int
      /\ u + m >= rx_time /\ rx_time > a + LinkGap /\ t <= a + Late /\ Late + m <= LinkGap
  BY <1>3, <1>4, <1>5, <1>6, <1>7, <1>8
<1> HIDE DEF m, a, t, u
<1>10. u > t
  BY <1>7, <1>8, <1>9
<1> QED
  BY <1>10 DEF t, u

\* As long as frames keep coming, and when a sample is under way less long than a link
\* must be silent to be taken for lost, sample_time_us strictly increases: in an epoch,
\* and through every epoch of the boot the S3 came up with, though each one takes
\* the node's clock anew.
THEOREM StampsKeepAdvancing ==
  ASSUME HoldIsShort
  PROVE  Spec /\ []FramesKeepComing => TimestampsKeepAdvancing
<1>1. LinkInv /\ ClockInv /\ LateComesInv /\ TimeInv /\ [Next]_linkVars =>
        [frameIn /\ (have_source_frame \/ (SameBoot(out, out') /\ out.sample.boot = 1)) =>
         out.sample_time = 0 \/ out'.sample_time > out.sample_time]_linkVars
  <2> SUFFICES ASSUME LinkInv, ClockInv, LateComesInv, TimeInv, [Next]_linkVars, frameIn,
                      have_source_frame \/ (SameBoot(out, out') /\ out.sample.boot = 1),
                      out.sample_time # 0
               PROVE  out'.sample_time > out.sample_time
    OBVIOUS
  <2>1. CASE have_source_frame
    <3>1. frameReceived /\ TurnInv
      BY FrameDelivered DEF LateComesInv
    <3> QED
      BY <2>1, <3>1, StampOfFrame
  <2>2. CASE ~have_source_frame
    <3>1. SameBoot(out, out') /\ out.sample.boot = 1
      BY <2>2
    <3>2. rx_good_frames # 0 /\ rx_good_frames \in Nat
      BY <3>1 DEF SameBoot, ClockInv, EpochInv, LinkInv, LinkTypeOK
    <3>3. rx_good_frames > 0 /\ out'.sample.boot = 1
      BY <3>1, <3>2 DEF SameBoot
    <3> QED
      BY <2>2, <3>1, <3>3, StampOfEpoch
  <2> QED
    BY <2>1, <2>2
<1> QED
  BY <1>1, LinkInit, LinkStep, ClockInit, ClockStep, LateInit, LateStep, TimeInit, TimeStep, PTL
     DEF Spec, TimestampsKeepAdvancing
=============================================================================
