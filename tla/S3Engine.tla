------------------------------ MODULE S3Engine ------------------------------
(***************************************************************************)
(* The receiving engine of the S3 base station, src/s3_engine.cpp: the     *)
(* queue between the radio callback and loop(), handleRadioPacket(), the   *)
(* unwrapping of the node's 32-bit clock, its translation to the S3's own  *)
(* time, and receiveFrame(), which numbers losses and emits DATA.          *)
(*                                                                         *)
(* EngineSpec lets any packets arrive in any order; RadioLink connects the *)
(* engine to the pen node.  parse_packet() has accepted the packets of     *)
(* this module: one it refuses changes a counter only.                     *)
(*                                                                         *)
(* The variables have the names of the fields of struct Engine.  Its       *)
(* numeric half (Mahony pose, adaptive filter, g_ble) reads these and      *)
(* changes none of them.                                                   *)
(***************************************************************************)
EXTENDS Integers, Sequences

CONSTANTS
  TickMod,     (* sensor_time_us32 counts modulo this: 2^32 *)
  IdMod,       (* frame_id counts modulo this: 2^32 *)
  SeqMod,      (* bundle_seq counts modulo this: 2^32 *)
  MaxFrameGap, (* MAX_ACCEPTED_FRAME_GAP = 10000 *)
  MaxSeqGap,   (* 10000 packets *)
  LinkGap,     (* 5000000 us without a packet invalidate the tick epoch *)
  Reject,      (* 1000000 us: a clock observation further off is ignored *)
  StepDown,    (* 250 us, the largest correction towards lower latency *)
  StepUp,      (* 20 us, the largest correction the other way *)
  QueueLength, (* TX_QUEUE_LENGTH = 16 *)
  Messages,    (* the packets that may arrive *)
  NoSample,    (* stands for a frame before the first one *)
  MaxTime      (* bound: the S3's clock stops here *)

ASSUME EngineAssumption ==
  /\ {TickMod, IdMod, SeqMod, QueueLength} \subseteq Nat \ {0}
  /\ {MaxFrameGap, MaxSeqGap, LinkGap, Reject, StepDown, StepUp, MaxTime} \subseteq Nat
  /\ MaxFrameGap < IdMod

\* What parse_packet() lets through: at most MAX_SAMPLES samples in a packet
\* is not needed below.
Sample32 == [frame_id : 0 .. IdMod - 1, tick : 0 .. TickMod - 1]
Packet ==
       [type : {"SAMPLES"}, seq : 0 .. SeqMod - 1, samples : Seq(Sample32)]
  \cup [type : {"META"}, seq : 0 .. SeqMod - 1, boot_id : Nat]

ASSUME MessagesAssumption == Messages \subseteq Packet

VARIABLES
  time,                 (* esp_timer_get_time() of the S3, 64 bits *)
  rxQueue,              (* rxQueue: [packet, rx_time], oldest first *)
  phase,                (* loop(): "idle", or with a packet "unwrap", "frames" *)
  unread,               (* samples of the packet in hand not yet unwrapped *)
  frames,               (* its samples unwrapped, with their clock_values *)
  pending_unwrap,       (* the local copy of unwrap they are unwrapped on *)
  rx_time,              (* msg.rx_time_s3_us of the packet in hand *)
  last_link_us,         (* last_link_us; 0 before the first packet *)
  have_packet_seq, last_packet_seq, transport_gaps,
  have_meta, last_boot_id,
  unwrap,               (* TickUnwrapper: [initialized, last, high] *)
  have_clock_offset, time_offset, last_mapped_time,
  have_source_frame, last_source_frame_id,
  rx_good_frames, missing_frames, duplicates,
  out,                  (* the last DATA payload assembled *)
  epoch,                (* history: number of sourceReboot() calls *)
  anchor                (* history: the epoch's first frame, and the counters then *)

queueVars  == <<rxQueue, last_link_us>>
packetVars == <<phase, unread, frames, pending_unwrap, rx_time>>
seqVars    == <<have_packet_seq, last_packet_seq, transport_gaps>>
metaVars   == <<have_meta, last_boot_id>>
clockVars  == <<unwrap, have_clock_offset, time_offset>>
frameVars  == <<have_source_frame, last_source_frame_id, rx_good_frames,
                missing_frames, duplicates, last_mapped_time, out, anchor>>
engineVars == <<time, queueVars, packetVars, seqVars, metaVars, clockVars, frameVars, epoch>>

Modulo(a, b, m) == (a - b) % m

NoUnwrap == [initialized |-> FALSE, last |-> 0, high |-> 0]
NoFrame  == [sample |-> NoSample, sample_time |-> 0, gap_flag |-> FALSE, epoch |-> 0]
NoAnchor == [sample |-> NoSample, clock |-> 0, known |-> FALSE,
             good |-> 0, missing |-> 0]

EngineInit ==
  /\ time = 1
  /\ rxQueue = <<>>
  /\ phase = "idle"
  /\ unread = <<>>
  /\ frames = <<>>
  /\ pending_unwrap = NoUnwrap
  /\ rx_time = 0
  /\ last_link_us = 0
  /\ have_packet_seq = FALSE
  /\ last_packet_seq = 0
  /\ transport_gaps = 0
  /\ have_meta = FALSE
  /\ last_boot_id = 0
  /\ unwrap = NoUnwrap
  /\ have_clock_offset = FALSE
  /\ time_offset = 0
  /\ last_mapped_time = 0
  /\ have_source_frame = FALSE
  /\ last_source_frame_id = 0
  /\ rx_good_frames = 0
  /\ missing_frames = 0
  /\ duplicates = 0
  /\ out = NoFrame
  /\ epoch = 0
  /\ anchor = NoAnchor

-----------------------------------------------------------------------------
\* notificationCB: runs in the NimBLE task.  A full queue loses the packet.
notificationCB(packet) ==
  /\ rxQueue' = IF Len(rxQueue) < QueueLength
                  THEN Append(rxQueue, [packet |-> packet, rx_time |-> time])
                  ELSE rxQueue
  /\ UNCHANGED <<time, packetVars, last_link_us, seqVars, metaVars, clockVars,
                 frameVars, epoch>>

-----------------------------------------------------------------------------
(* TickUnwrapper::unwrap.  Unwrap(u, t) is the state after tick t.         *)

Forward(u, tick) ==
  u.initialized => 2 * Modulo(tick, u.last, TickMod) < TickMod

\* Faulty variant: the wrap of the node's counter is taken for a step back.
UnwrapSigned(u, tick) ==
  [initialized |-> TRUE,
   last |-> tick,
   high |-> IF u.initialized THEN u.high + tick - u.last ELSE tick]

Unwrap(u, tick) ==
  [initialized |-> TRUE,
   last |-> tick,
   high |-> IF u.initialized THEN u.high + Modulo(tick, u.last, TickMod) ELSE tick]

-----------------------------------------------------------------------------
(* observeClock: follow the smallest latency, in bounded steps. *)

Clamp(x, low, high) == IF x < low THEN low ELSE IF x > high THEN high ELSE x

observeClock(proposed) ==
  LET error == proposed - time_offset IN
  IF ~have_clock_offset THEN proposed
  ELSE IF error > Reject \/ error < -Reject THEN time_offset
  ELSE time_offset + Clamp(error, -StepDown, StepUp)

\* Faulty variant: the mapped time follows the offset wherever it goes.
mapTimeUnclamped(clock, last) ==
  IF clock + time_offset < 0 THEN 0 ELSE clock + time_offset

\* mapTime: never at or before the time given to the frame before.
mapTime(clock, last) ==
  LET t == IF clock + time_offset < 0 THEN 0 ELSE clock + time_offset
  IN  IF last # 0 /\ t <= last THEN last + 1 ELSE t

-----------------------------------------------------------------------------
(* handleRadioPacket, up to the first receiveFrame(). *)

LinkWasLost(at) == last_link_us # 0 /\ at - last_link_us > LinkGap

\* Faulty variant: the boot_id is stored before it is compared.
IsRebootNever(packet) == FALSE

\* META of another boot than the one known.
IsReboot(packet) ==
  packet.type = "META" /\ have_meta /\ last_boot_id # packet.boot_id

\* What sourceReboot() forgets of the stream, when it is called.
SourceReboot(called) ==
  /\ epoch' = IF called THEN epoch + 1 ELSE epoch
  /\ have_source_frame' = (have_source_frame /\ ~called)
  /\ have_clock_offset' = (have_clock_offset /\ ~called)
  /\ last_mapped_time' = IF called THEN 0 ELSE last_mapped_time
  /\ unwrap' = IF called THEN NoUnwrap ELSE unwrap

\* bundle_seq: holes below MaxSeqGap are counted.  (After receiveMeta's
\* sourceReboot the number of the META packet itself is forgotten too.)
CountGaps(seq, known) ==
  LET delta == Modulo(seq, last_packet_seq, SeqMod) IN
  /\ transport_gaps' = IF known /\ delta > 1 /\ delta < MaxSeqGap
                         THEN transport_gaps + delta - 1 ELSE transport_gaps
  /\ last_packet_seq' = seq

\* xQueueReceive() by loop(), which has no packet in hand.
Receive ==
  /\ phase = "idle"
  /\ rxQueue # <<>>
  /\ rxQueue' = Tail(rxQueue)
  /\ last_link_us' = Head(rxQueue).rx_time

handleMeta ==
  LET packet == Head(rxQueue).packet
      lost == LinkWasLost(Head(rxQueue).rx_time)
  IN
  /\ Receive
  /\ packet.type = "META"
  /\ CountGaps(packet.seq, have_packet_seq /\ ~lost)
  /\ have_packet_seq' = ~IsReboot(packet)
  /\ have_meta' = TRUE
  /\ last_boot_id' = packet.boot_id
  /\ SourceReboot(lost \/ IsReboot(packet))
  /\ UNCHANGED <<time, packetVars, time_offset, last_source_frame_id,
                 rx_good_frames, missing_frames, duplicates, out, anchor>>

handleSamples ==
  LET packet == Head(rxQueue).packet
      lost == LinkWasLost(Head(rxQueue).rx_time)
  IN
  /\ Receive
  /\ packet.type = "SAMPLES"
  /\ CountGaps(packet.seq, have_packet_seq /\ ~lost)
  /\ have_packet_seq' = TRUE
  /\ SourceReboot(lost)
  /\ pending_unwrap' = unwrap'
  /\ unread' = packet.samples
  /\ frames' = <<>>
  /\ rx_time' = Head(rxQueue).rx_time
  /\ phase' = "unwrap"
  /\ UNCHANGED <<time, metaVars, time_offset, last_source_frame_id,
                 rx_good_frames, missing_frames, duplicates, out, anchor>>

-----------------------------------------------------------------------------
(* handleRadioPacket: the samples are unwrapped on a copy first, so that a *)
(* packet with a tick that goes backwards leaves the epoch as it was.      *)

sampleUnwrapped ==
  /\ phase = "unwrap"
  /\ unread # <<>>
  /\ Forward(pending_unwrap, Head(unread).tick)
  /\ pending_unwrap' = Unwrap(pending_unwrap, Head(unread).tick)
  /\ frames' = Append(frames, [sample |-> Head(unread), clock |-> pending_unwrap'.high])
  /\ unread' = Tail(unread)
  /\ UNCHANGED <<time, phase, rx_time, queueVars, seqVars, metaVars, clockVars,
                 frameVars, epoch>>

Done ==
  /\ phase' = "idle"
  /\ unread' = <<>>
  /\ frames' = <<>>
  /\ pending_unwrap' = NoUnwrap
  /\ rx_time' = 0

packetRefused ==
  /\ phase = "unwrap"
  /\ unread # <<>>
  /\ ~Forward(pending_unwrap, Head(unread).tick)
  /\ duplicates' = duplicates + 1
  /\ Done
  /\ UNCHANGED <<time, queueVars, seqVars, metaVars, clockVars, epoch,
                 have_source_frame, last_source_frame_id, rx_good_frames,
                 missing_frames, last_mapped_time, out, anchor>>

packetUnwrapped ==
  /\ phase = "unwrap"
  /\ unread = <<>>
  /\ unwrap' = pending_unwrap
  /\ time_offset' = observeClock(rx_time - pending_unwrap.high)
  /\ have_clock_offset' = TRUE
  /\ phase' = "frames"
  /\ UNCHANGED <<time, unread, frames, pending_unwrap, rx_time, queueVars, seqVars,
                 metaVars, frameVars, epoch>>

-----------------------------------------------------------------------------
(* receiveFrame, for the next sample of the packet in hand. *)

\* Faulty variant: the wrap of frame_id is taken for a step back.
DeltaSigned == Head(frames).sample.frame_id - last_source_frame_id

Delta == Modulo(Head(frames).sample.frame_id, last_source_frame_id, IdMod)

\* Faulty variant: the frame last delivered is accepted again.
IsDuplicateOnlyOld == have_source_frame /\ Delta > MaxFrameGap

IsDuplicate == have_source_frame /\ (Delta = 0 \/ Delta > MaxFrameGap)

\* Faulty variants: an off-by-one each way.
MissedOneMore == IF have_source_frame THEN Delta ELSE 0
MissedOneLess == IF have_source_frame /\ Delta > 2 THEN Delta - 2 ELSE 0

Missed == IF have_source_frame THEN Delta - 1 ELSE 0

frameRefused ==
  /\ phase = "frames"
  /\ frames # <<>>
  /\ IsDuplicate
  /\ duplicates' = duplicates + 1
  /\ frames' = Tail(frames)
  /\ UNCHANGED <<time, phase, unread, pending_unwrap, rx_time, queueVars, seqVars,
                 metaVars, clockVars, epoch, have_source_frame, last_source_frame_id, rx_good_frames,
                 missing_frames, last_mapped_time, out, anchor>>

frameReceived ==
  LET s == Head(frames).sample
      t == mapTime(Head(frames).clock, last_mapped_time)
  IN
  /\ phase = "frames"
  /\ frames # <<>>
  /\ ~IsDuplicate
  /\ frames' = Tail(frames)
  /\ missing_frames' = missing_frames + Missed
  /\ rx_good_frames' = rx_good_frames + 1
  /\ last_source_frame_id' = s.frame_id
  /\ have_source_frame' = TRUE
  /\ last_mapped_time' = t
  /\ out' = [sample |-> s, sample_time |-> t, gap_flag |-> Missed > 0, epoch |-> epoch]
  /\ anchor' = IF have_source_frame THEN anchor
               ELSE [sample |-> s, clock |-> Head(frames).clock,
                     known |-> have_meta,
                     good |-> rx_good_frames, missing |-> missing_frames]
  /\ UNCHANGED <<time, phase, unread, pending_unwrap, rx_time, queueVars, seqVars,
                 metaVars, clockVars, epoch, duplicates>>

packetDone ==
  /\ phase = "frames"
  /\ frames = <<>>
  /\ Done
  /\ UNCHANGED <<time, queueVars, seqVars, metaVars, clockVars, frameVars, epoch>>

handleRadioPacket ==
  \/ handleMeta \/ handleSamples
  \/ sampleUnwrapped \/ packetRefused \/ packetUnwrapped
  \/ frameRefused \/ frameReceived \/ packetDone

ClockTick ==
  /\ time < MaxTime
  /\ time' = time + 1
  /\ UNCHANGED <<queueVars, packetVars, seqVars, metaVars, clockVars, frameVars, epoch>>

EngineNext ==
  \/ \E packet \in Messages : notificationCB(packet)
  \/ handleRadioPacket
  \/ ClockTick

EngineSpec == EngineInit /\ [][EngineNext]_engineVars

-----------------------------------------------------------------------------
Unwrapped == [initialized : BOOLEAN, last : 0 .. TickMod - 1, high : Nat]

EngineTypeOK ==
  /\ time \in Nat
  /\ rxQueue \in Seq([packet : Packet, rx_time : Nat])
  /\ Len(rxQueue) <= QueueLength
  /\ phase \in {"idle", "unwrap", "frames"}
  /\ unread \in Seq(Sample32)
  /\ frames \in Seq([sample : Sample32, clock : Nat])
  /\ {pending_unwrap, unwrap} \subseteq Unwrapped
  /\ {rx_time, last_link_us, last_mapped_time} \subseteq Nat
  /\ have_packet_seq \in BOOLEAN
  /\ last_packet_seq \in 0 .. SeqMod - 1
  /\ {transport_gaps, rx_good_frames, missing_frames, duplicates, epoch} \subseteq Nat
  /\ have_meta \in BOOLEAN
  /\ last_boot_id \in Nat
  /\ have_clock_offset \in BOOLEAN
  /\ time_offset \in Int
  /\ have_source_frame \in BOOLEAN
  /\ last_source_frame_id \in 0 .. IdMod - 1
  /\ out \in [sample : Sample32 \cup {NoSample}, sample_time : Nat,
             gap_flag : BOOLEAN, epoch : Nat]
  /\ anchor \in [sample : Sample32 \cup {NoSample}, clock : Nat, known : BOOLEAN,
                good : Nat, missing : Nat]

frameIn == rx_good_frames' # rx_good_frames

\* Whatever arrives: in an epoch the frames delivered and the frames counted
\* missing add up to the frames the node numbered, from the first one on.
\* (README.md:148-149, "lost samples are flagged, never silently interpolated")
LossesAreCounted ==
  have_source_frame =>
    last_source_frame_id =
      (anchor.sample.frame_id + (rx_good_frames - anchor.good)
         + (missing_frames - anchor.missing) - 1) % IdMod

\* Whatever arrives: sample_time_us of DATA strictly increases in an epoch.
\* Zero, the code's "no frame yet", is also what a time before the S3's own
\* start is mapped to.
TimestampsAdvance ==
  [][frameIn /\ have_source_frame =>
       out.sample_time = 0 \/ out'.sample_time > out.sample_time]_engineVars
=============================================================================
