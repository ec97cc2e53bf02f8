----------------------------- MODULE RadioLink -----------------------------
(***************************************************************************)
(* The radio link from the pen node to the S3: the node as SampleSource    *)
(* promises it (C3Sender implements that), numbering its packets, sending  *)
(* META and restarting with a new boot_id; the air between; and the engine *)
(* of S3Engine.                                                            *)
(*                                                                         *)
(* The air is external.  Over BLE (ordered) notifications arrive once and  *)
(* in order, and all those under way are lost with the connection.  The    *)
(* Wi-Fi build sends the same packets as UDP datagrams, which are lost,    *)
(* duplicated and reordered one by one.  Either way a packet arrives       *)
(* within MaxLatency or not at all.                                        *)
(*                                                                         *)
(* One clock runs both boards: time is the S3's, and the node's tick       *)
(* counter is the time since its boot, modulo TickMod.                     *)
(***************************************************************************)
EXTENDS S3Engine, SampleSource

CONSTANTS
  Builds,       (* the radio of the build: TRUE is BLE, FALSE is UDP *)
  Period,       (* sampling period of the node *)
  MaxLatency,   (* longest time a packet is in the air *)
  RestartTime,  (* shortest time the node is down between two boots *)
  MetaPeriod,   (* the node sends META no more often than this, per radio *)
  NodeAge,      (* samples the node took before the S3 was switched on *)
  MaxAir,       (* bound: packets in the air *)
  MaxSent,      (* bound: samples in a packet, over either radio *)
  MaxBoots      (* bound: boots of the node, over either radio *)

ASSUME LinkAssumption ==
  /\ Builds \subseteq BOOLEAN
  /\ {Period, MaxLatency, RestartTime, NodeAge} \subseteq Nat
  /\ {MetaPeriod, MaxSent, MaxBoots} \subseteq [BOOLEAN -> Nat]

\* A node that starts again boots and joins the network before it sends:
\* datagrams from before the restart have arrived by then, or never do.
ASSUME RestartIsSlow ==
  FALSE \in Builds /\ MaxBoots[FALSE] > 1 => MaxLatency < RestartTime

\* A link is taken for lost when it was silent for longer than a packet may be
\* in the air (five seconds).
ASSUME GapIsLong == MaxLatency <= LinkGap

\* A packet spans far less than a turn of the tick counter (20 ms of 71 minutes),
\* and a quarter turn has no more samples than there are frame numbers.
ASSUME WidthAssumption ==
  /\ Period > 0
  /\ \A ble \in Builds : 4 * (Period * MaxSent[ble]) < TickMod
  /\ TickMod <= 4 * (Period * IdMod)

VARIABLES
  ordered,      (* the build's radio keeps packets in order: BLE *)
  boot,         (* state.boot_id: a number for the random one *)
  up,           (* the node runs *)
  boot_at,      (* when it was started, or stopped if it is down *)
  packet_seq,   (* state.packet_seq *)
  meta_at,      (* when META may be sent next *)
  air           (* packets under way, in the order they were sent *)

nodeVars == <<boot, up, boot_at, packet_seq, meta_at>>
linkVars == <<ordered, engineVars, sourceVars, nodeVars, air>>

NodeInit ==
  /\ boot = 1
  /\ up = TRUE
  /\ boot_at = 1 - NodeAge * Period
  /\ packet_seq = 0
  /\ meta_at = 1
  /\ taken = NodeAge
  /\ oldest = NodeAge
  /\ handed = 0
  /\ given_up = NodeAge

\* The S3 is switched on; the node has sampled for a while without a peer.
Init == EngineInit /\ NodeInit /\ air = <<>> /\ ordered \in Builds

-----------------------------------------------------------------------------
(* The node. *)

\* Frame n of the running boot; boot and number are what the frame really is.
SampleOf(n) ==
  [frame_id |-> n % IdMod, tick |-> ((n + 1) * Period) % TickMod,
   boot |-> boot, number |-> n]

ToAir(packet) ==
  /\ Len(air) < MaxAir
  /\ air' = Append(air, [packet |-> packet, sent_at |-> time, again |-> FALSE])
  /\ packet_seq' = (packet_seq + 1) % SeqMod

\* maybeSend: a bundle that notify() took.  (A META it refuses uses up its
\* number and is retried, the same as one lost in the air.)
sendSamples ==
  /\ up
  /\ \E count \in 1 .. MaxSent[ordered] :
       /\ HandOver(count)
       /\ ToAir([type |-> "SAMPLES", seq |-> packet_seq,
                 samples |-> [i \in 1 .. count |-> SampleOf(oldest + i - 1)]])
  /\ UNCHANGED <<engineVars, boot, up, boot_at, meta_at>>

sendMeta ==
  /\ up
  /\ time >= meta_at
  /\ meta_at' = time + MetaPeriod[ordered]
  /\ ToAir([type |-> "META", seq |-> packet_seq, boot_id |-> boot])
  /\ UNCHANGED <<engineVars, sourceVars, boot, up, boot_at>>

\* maybeSend without a link: what is held is dropped.
dropHeld ==
  /\ up
  /\ Held > 0
  /\ GiveUp(Held)
  /\ UNCHANGED <<engineVars, nodeVars, air>>

\* Power loss or a reset; over BLE the supervision timeout ends the connection.
stop ==
  /\ up
  /\ boot < MaxBoots[ordered]
  /\ up' = FALSE
  /\ boot_at' = time
  /\ air' = IF ordered THEN <<>> ELSE air
  /\ UNCHANGED <<engineVars, sourceVars, boot, packet_seq, meta_at>>

start ==
  /\ ~up
  /\ time >= boot_at + RestartTime
  /\ up' = TRUE
  /\ boot' = boot + 1
  /\ boot_at' = time
  /\ packet_seq' = 0
  /\ meta_at' = time
  /\ taken' = 0 /\ oldest' = 0 /\ handed' = 0 /\ given_up' = 0
  /\ UNCHANGED <<engineVars, air>>

Node == sendSamples \/ sendMeta \/ dropHeld \/ stop \/ start

-----------------------------------------------------------------------------
(* The air. *)

Without(s, i) == SubSeq(s, 1, i - 1) \o SubSeq(s, i + 1, Len(s))

\* A datagram arrives twice at most.
arrive ==
  /\ air # <<>>
  /\ \E i \in 1 .. Len(air) :
       /\ ordered => i = 1
       /\ notificationCB(air[i].packet)
       /\ \/ air' = Without(air, i)
          \/ /\ ~ordered /\ ~air[i].again
             /\ air' = [air EXCEPT ![i].again = TRUE]
  /\ UNCHANGED <<sourceVars, nodeVars>>

lose ==
  /\ air # <<>>
  /\ IF ordered THEN air' = <<>> ELSE \E i \in 1 .. Len(air) : air' = Without(air, i)
  /\ UNCHANGED <<engineVars, sourceVars, nodeVars>>

-----------------------------------------------------------------------------
\* A sampling period passes; the node, if it runs, takes a sample.
passPeriod ==
  /\ time + Period <= MaxTime
  /\ \A i \in 1 .. Len(air) : time + Period - air[i].sent_at <= MaxLatency
  /\ time' = time + Period
  /\ IF up THEN Take ELSE UNCHANGED sourceVars
  /\ UNCHANGED <<queueVars, packetVars, seqVars, metaVars, clockVars, frameVars,
                 epoch, nodeVars, air>>

S3 == handleRadioPacket /\ UNCHANGED <<sourceVars, nodeVars, air>>

\* loop() of the S3 handles one packet while the rest of the world waits: it
\* reads and writes nothing the others do, but for the room in rxQueue, which
\* it makes before it starts.
Next ==
  /\ \/ S3
     \/ phase = "idle" /\ (Node \/ arrive \/ lose \/ passPeriod)
  /\ UNCHANGED ordered

Spec == Init /\ [][Next]_linkVars

-----------------------------------------------------------------------------
SameBoot(f, g) == f.sample # NoSample /\ f.sample.boot = g.sample.boot

\* A frame is delivered at most once, and frames of one boot in the order they
\* were taken, through every loss, duplicate and reset of the epoch.  Datagrams
\* break that once, from the second boot on: META that comes after samples of its
\* own boot resets the epoch, and one of these that comes again is taken again.
DeliveredOnceInOrder ==
  [][frameIn /\ SameBoot(out, out')
       /\ (ordered \/ out.epoch = out'.epoch \/ out.sample.boot = 1) =>
     out'.sample.number > out.sample.number]_linkVars

\* sample_time_us of DATA strictly increases in an epoch, and for the boot the S3
\* came up with from one epoch to the next: a link is taken for lost after a longer
\* time than a sample is held and in the air.  (Zero, the code's "no frame yet",
\* is also what a time before the S3's own start is mapped to.)
TimestampsKeepAdvancing ==
  [][frameIn /\ (have_source_frame \/ (SameBoot(out, out') /\ out.sample.boot = 1)) =>
       out.sample_time = 0 \/ out'.sample_time > out.sample_time]_linkVars

\* README.md:149, "lost samples are flagged": in an epoch a frame carries
\* DROP_TX_BACKPRESSURE exactly when a frame of its boot before it was lost.
LossIsFlaggedInEpoch ==
  [][frameIn /\ SameBoot(out, out') /\ out.epoch = out'.epoch =>
       (out'.gap_flag <=> out'.sample.number > out.sample.number + 1)]_linkVars

\* The node's time between two samples of a boot.
Apart(s, t) == Period * (t.number - s.number)

\* The unwrapped clock measures the node's time without a missed wrap: two
\* frames of an epoch are as far apart as they were taken.
ClockIsTrue ==
  \A i \in 1 .. Len(frames) :
    have_source_frame /\ frames[i].sample.boot = anchor.sample.boot =>
      frames[i].clock - anchor.clock = Apart(anchor.sample, frames[i].sample)

\* What the last two depend on: in an epoch, a packet in hand has no sample taken
\* a quarter turn of the tick counter (18 minutes) from the frame delivered
\* last.  The node streams at 200 Hz or sleeps, and wakes with a reset, and a
\* silence of five seconds ends the epoch; but META alone would keep it alive.
FramesKeepComing ==
  \A i \in 1 .. Len(unread) :
    have_source_frame /\ unread[i].boot = out.sample.boot =>
      /\ 4 * Apart(out.sample, unread[i]) < TickMod
      /\ 4 * Apart(unread[i], out.sample) < TickMod

\* docs/PROTOCOL.md:42, "boot_id metadata detects restarts": once META of the
\* node's boot has come, its frames never join those of a boot before, in an
\* epoch that began when the S3 had a boot_id to compare with.
MetaEndsTheKnownBoot ==
  [][frameIn /\ have_source_frame /\ anchor.known /\ last_boot_id = out'.sample.boot =>
       out.sample.boot = out'.sample.boot]_linkVars
=============================================================================
