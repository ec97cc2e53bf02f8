------------------------------ MODULE C3Sender ------------------------------
(***************************************************************************)
(* The sending half of the C3 pen node, src/c3_node.cpp: the 200 Hz        *)
(* sampling schedule, the bounded FIFO of samples, maybeSend() and the     *)
(* NimBLE callbacks that change the link under it.                         *)
(*                                                                         *)
(* loop() is one thread.  Its program counter is pc:                       *)
(*   "loop"   top of loop(), about to sample if a sample is due            *)
(*   "check"  entering maybeSend(): reads the clock and the link           *)
(*   "batch"  the link was ready: about to build and notify one bundle     *)
(*   "meta"   about to build and notify META if it is due                  *)
(* The callbacks run in the NimBLE task, which preempts loop() anywhere,   *)
(* so they are enabled at every pc.                                        *)
(*                                                                         *)
(* Time is the 32-bit microsecond counter, as a counter modulo Modulus.    *)
(* The FIFO is the sequence of the samples held: the array fifo[], from    *)
(* fifo_head on, fifo_size of them.                                       *)
(***************************************************************************)
EXTENDS Integers, Sequences

CONSTANTS
  Modulus,     (* clock values: 2^32 in the code *)
  Period,      (* PERIOD_US, one sample *)
  FlushAge,    (* 20000 us: a partial bundle goes out at this age *)
  DropAge,     (* 100000 us: after it a failed send gives up one sample *)
  MetaPeriod,  (* 1000000 us between METAs *)
  MetaRetry,   (* 200000 us after a META that failed *)
  RingSize,    (* RING_SIZE = 24 *)
  MaxSamples,  (* MAX_SAMPLES = 4 in a bundle *)
  HeaderLen,   (* sizeof(Header) + 2 *)
  SampleLen,   (* sizeof(Sample) *)
  MetaLen,     (* sizeof(Meta) *)
  DefaultCap,  (* notification payload of a new connection: 23 - 3 bytes *)
  Caps,        (* payload sizes an ATT MTU exchange may end with *)
  MaxFrames,   (* bound: samples taken in a behaviour *)
  MaxStall,    (* bound: longest time one iteration of loop() takes *)
  MaxOutage,   (* bound: longest time maybeSend() finds no usable link *)
  ReconnectTime, (* environment: shortest time from onDisconnect to onConnect *)
  MaxNow       (* bound: the clock stops here; Modulus for never *)

ASSUME ClockAssumption ==
  /\ Modulus \in Nat \ {0}
  /\ {Period, FlushAge, DropAge, MetaPeriod, MetaRetry} \subseteq Nat
ASSUME SizeAssumption ==
  /\ RingSize \in Nat \ {0}
  /\ MaxSamples \in Nat \ {0}
  /\ SampleLen \in Nat \ {0}
  /\ {HeaderLen, MetaLen, DefaultCap} \subseteq Nat
  /\ Caps \subseteq Nat
ASSUME BoundAssumption ==
  {MaxFrames, MaxStall, MaxOutage, ReconnectTime, MaxNow} \subseteq Nat

VARIABLES
  now,              (* esp_timer_get_time(), truncated to uint32_t *)
  pc,               (* where loop() is *)
  send_now,         (* the argument of the running maybeSend(now) *)
  batch_max,        (* its local n: samples a bundle may carry *)
  next_sample,      (* state.next_sample *)
  next_meta,        (* state.next_meta *)
  frame_id,         (* state.frame_id *)
  sample_count,     (* state.sample_count *)
  transport_drops,  (* state.transport_drops *)
  fifo,             (* the samples held, oldest first *)
  fifo_oldest_at,   (* fifo_oldest_at *)
  ble_connected,    (* ble_connected, and ble_handle # 0xffff *)
  subscribed,       (* subscribed *)
  cap,              (* getPeerMTU(ble_handle) - 3 of the connection *)
  sent,             (* history: samples handed over to notify() *)
  lost_at,          (* history: frame_id at the last onDisconnect *)
  seen_down_at,     (* history: frame_id when maybeSend last saw no link *)
  stall,            (* history: time since loop() was last at its top *)
  outage,           (* history: time since maybeSend last found the link ready *)
  offline,          (* history: time since onDisconnect, up to ReconnectTime *)
  meta_wait         (* history: time META could pass but was not tried *)

clocks  == <<now, stall, outage, offline>>
sampler == <<next_sample, frame_id, sample_count>>
queue   == <<fifo, fifo_oldest_at, transport_drops, sent>>
link    == <<ble_connected, subscribed, cap, lost_at>>
locals  == <<send_now, batch_max>>
meta    == <<next_meta, meta_wait>>
vars    == <<clocks, sampler, queue, link, locals, meta, pc, seen_down_at>>

-----------------------------------------------------------------------------
(* Modular time. *)

\* now - since, in uint32_t arithmetic.
Age(t, since) == (t - since) % Modulus

\* static_cast<int32_t>(now - at) >= 0.
Due(t, at) == 2 * Age(t, at) < Modulus

Later(t, d) == (t + d) % Modulus

Lesser(a, b) == IF a <= b THEN a ELSE b

-----------------------------------------------------------------------------
(* The transport as maybeSend() sees it. *)

transportReady == subscribed /\ ble_connected

\* size of a SAMPLES packet of count samples, and of a META packet
BundleLen(count) == HeaderLen + count * SampleLen
MetaPacketLen == HeaderLen + MetaLen

\* The local "fit": whole samples of one bundle in the negotiated payload.
Fit == IF cap > HeaderLen THEN (cap - HeaderLen) \div SampleLen ELSE 0

\* transportSend(): re-reads the link; notify() itself may refuse.
MaySend(len) == transportReady /\ len <= cap

-----------------------------------------------------------------------------
(* The FIFO. *)

IsFull == Len(fifo) = RingSize

Sample(id, tick) == [frame_id |-> id, sensor_time |-> tick]

\* Faulty variant: an evicted sample is not counted.
fifoPushUncounted(s) ==
  /\ fifo' = Append(IF IsFull THEN Tail(fifo) ELSE fifo, s)
  /\ transport_drops' = transport_drops
  /\ fifo_oldest_at' = IF fifo = <<>> THEN now ELSE fifo_oldest_at

\* fifoPush: the oldest sample makes room for the newest one.
fifoPush(s) ==
  /\ fifo' = Append(IF IsFull THEN Tail(fifo) ELSE fifo, s)
  /\ transport_drops' = IF IsFull THEN transport_drops + 1 ELSE transport_drops
  /\ fifo_oldest_at' =
       IF fifo = <<>> \/ RingSize = 1 THEN now ELSE fifo_oldest_at

\* Faulty variant: an outage leaves the samples where they are.
fifoKept == UNCHANGED <<fifo, transport_drops>>

\* fifoClear: everything held is counted as dropped.
fifoClear ==
  /\ fifo' = <<>>
  /\ transport_drops' = transport_drops + Len(fifo)

\* fifoDrop: the oldest count samples leave; the age restarts at the new head.
fifoDrop(count) ==
  /\ fifo' = SubSeq(fifo, count + 1, Len(fifo))
  /\ fifo_oldest_at' = IF count < Len(fifo)
                         THEN fifo[count + 1].sensor_time
                         ELSE fifo_oldest_at

-----------------------------------------------------------------------------
\* The state setup() leaves: schedules armed, no peer.
Init ==
  /\ now = 0
  /\ pc = "loop"
  /\ send_now = 0
  /\ batch_max = 0
  /\ next_sample = Later(0, Period)
  /\ next_meta = Later(0, MetaPeriod)
  /\ frame_id = 0
  /\ sample_count = 0
  /\ transport_drops = 0
  /\ fifo = <<>>
  /\ fifo_oldest_at = 0
  /\ ble_connected = FALSE
  /\ subscribed = FALSE
  /\ cap = 0
  /\ sent = 0
  /\ lost_at = 0
  /\ seen_down_at = 0
  /\ stall = 0
  /\ outage = 0
  /\ offline = ReconnectTime
  /\ meta_wait = 0

-----------------------------------------------------------------------------
(* loop(): the sampling half. *)

SampleIsDue == sample_count < MaxFrames /\ Due(now, next_sample)

\* An iteration later than three periods restarts the schedule at now.
Overrun == Age(now, next_sample) > 3 * Period
SampleTick == IF Overrun THEN now ELSE next_sample

sampleSensors ==
  /\ pc = "loop"
  /\ SampleIsDue
  /\ next_sample' = Later(SampleTick, Period)
  /\ frame_id' = frame_id + 1
  /\ sample_count' = sample_count + 1
  /\ fifoPush(Sample(frame_id, SampleTick))
  /\ pc' = "check"
  /\ stall' = 0
  /\ UNCHANGED <<now, outage, offline, sent, link, locals, meta, seen_down_at>>

noSampleDue ==
  /\ pc = "loop"
  /\ ~SampleIsDue
  /\ pc' = "check"
  /\ stall' = 0
  /\ UNCHANGED <<now, outage, offline, sampler, queue, link, locals, meta, seen_down_at>>

-----------------------------------------------------------------------------
(* maybeSend(), called at the end of every iteration. *)

\* No peer, or an MTU too small for one sample: the FIFO is discarded and
\* maybeSend returns, so META is not tried either.
sendLinkDown ==
  /\ pc = "check"
  /\ ~transportReady \/ Fit = 0
  /\ fifoClear
  /\ seen_down_at' = frame_id
  /\ pc' = "loop"
  /\ UNCHANGED <<clocks, sampler, fifo_oldest_at, sent, link, locals, meta>>

sendLinkReady ==
  /\ pc = "check"
  /\ transportReady /\ Fit > 0
  /\ send_now' = now
  /\ batch_max' = Lesser(Fit, MaxSamples)
  /\ outage' = 0
  /\ pc' = "batch"
  /\ UNCHANGED <<now, stall, offline, sampler, queue, link, meta, seen_down_at>>

\* Faulty variant: only full bundles go out.
FullBundleIsDue == Len(fifo) >= batch_max

BundleIsDue ==
  \/ Len(fifo) >= batch_max
  \/ fifo # <<>> /\ Age(send_now, fifo_oldest_at) >= FlushAge

BundleSize == Lesser(Len(fifo), batch_max)

HeadIsStale == fifo # <<>> /\ Age(send_now, fifo_oldest_at) > DropAge

bundleSent ==
  /\ pc = "batch"
  /\ BundleIsDue
  /\ MaySend(BundleLen(BundleSize))
  /\ fifoDrop(BundleSize)
  /\ sent' = sent + BundleSize
  /\ pc' = "meta"
  /\ UNCHANGED <<clocks, sampler, transport_drops, link, locals, meta, seen_down_at>>

\* Faulty variant: the sample given up is not counted.
bundleRefusedUncounted ==
  /\ pc = "batch"
  /\ BundleIsDue
  /\ HeadIsStale
  /\ fifoDrop(1)
  /\ pc' = "meta"
  /\ UNCHANGED <<clocks, sampler, sent, transport_drops, link, locals, meta,
                 seen_down_at>>

\* notify() refused (or the link is gone) and the head is over age.
bundleRefusedStale ==
  /\ pc = "batch"
  /\ BundleIsDue
  /\ HeadIsStale
  /\ fifoDrop(1)
  /\ transport_drops' = transport_drops + 1
  /\ pc' = "meta"
  /\ UNCHANGED <<clocks, sampler, sent, link, locals, meta, seen_down_at>>

\* Nothing to send yet, or the refused bundle stays for the next iteration.
bundleKept ==
  /\ pc = "batch"
  /\ BundleIsDue => ~HeadIsStale
  /\ pc' = "meta"
  /\ UNCHANGED <<clocks, sampler, queue, link, locals, meta, seen_down_at>>

\* maybeSend() returns: its locals are gone.
Return ==
  /\ pc' = "loop"
  /\ send_now' = 0
  /\ batch_max' = 0

\* Faulty variant: the next META is armed one period late.
metaSentLate ==
  /\ pc = "meta"
  /\ Due(send_now, next_meta)
  /\ MaySend(MetaPacketLen)
  /\ next_meta' = Later(send_now, 2 * MetaPeriod)
  /\ meta_wait' = 0
  /\ Return
  /\ UNCHANGED <<clocks, sampler, queue, link, seen_down_at>>

metaSent ==
  /\ pc = "meta"
  /\ Due(send_now, next_meta)
  /\ MaySend(MetaPacketLen)
  /\ next_meta' = Later(send_now, MetaPeriod)
  /\ meta_wait' = 0
  /\ Return
  /\ UNCHANGED <<clocks, sampler, queue, link, seen_down_at>>

metaRefused ==
  /\ pc = "meta"
  /\ Due(send_now, next_meta)
  /\ next_meta' = Later(send_now, MetaRetry)
  /\ meta_wait' = 0
  /\ Return
  /\ UNCHANGED <<clocks, sampler, queue, link, seen_down_at>>

metaNotDue ==
  /\ pc = "meta"
  /\ ~Due(send_now, next_meta)
  /\ Return
  /\ UNCHANGED <<clocks, sampler, queue, link, meta, seen_down_at>>

Loop == \/ sampleSensors \/ noSampleDue
        \/ sendLinkDown \/ sendLinkReady
        \/ bundleSent \/ bundleRefusedStale \/ bundleKept
        \/ metaSent \/ metaRefused \/ metaNotDue

-----------------------------------------------------------------------------
(* The NimBLE task. *)

onConnect ==
  /\ ~ble_connected
  /\ offline >= ReconnectTime
  /\ ble_connected' = TRUE
  /\ cap' = DefaultCap
  /\ UNCHANGED <<clocks, sampler, queue, subscribed, lost_at, locals, meta,
                 pc, seen_down_at>>

\* The peer's MTU exchange, once in a connection.
mtuExchanged ==
  /\ ble_connected
  /\ cap = DefaultCap
  /\ cap' \in Caps
  /\ UNCHANGED <<clocks, sampler, queue, ble_connected, subscribed, lost_at,
                 locals, meta, pc, seen_down_at>>

onSubscribe ==
  /\ ble_connected
  /\ subscribed' = ~subscribed
  /\ meta_wait' = 0
  /\ UNCHANGED <<clocks, sampler, queue, ble_connected, cap, lost_at, locals,
                 next_meta, pc, seen_down_at>>

onDisconnect ==
  /\ ble_connected
  /\ ble_connected' = FALSE
  /\ subscribed' = FALSE
  /\ cap' = 0
  /\ lost_at' = frame_id
  /\ meta_wait' = 0
  /\ offline' = 0
  /\ UNCHANGED <<now, stall, outage, sampler, queue, locals, next_meta, pc, seen_down_at>>

Peer == onConnect \/ mtuExchanged \/ onSubscribe \/ onDisconnect

-----------------------------------------------------------------------------
(* The clock.  An iteration lasts at most MaxStall, an outage MaxOutage.   *)

MetaMayPass == MaySend(MetaPacketLen)

\* META is tried within one period of the last attempt, plus the two
\* iterations of loop() between which it falls due.
MetaLimit == MetaPeriod + 2 * MaxStall

Tick ==
  /\ now < MaxNow
  /\ stall < MaxStall
  /\ outage < MaxOutage
  /\ now' = Later(now, 1)
  /\ stall' = stall + 1
  /\ outage' = outage + 1
  /\ offline' = IF ble_connected THEN offline ELSE Lesser(offline + 1, ReconnectTime)
  /\ meta_wait' = IF MetaMayPass THEN Lesser(meta_wait + 1, MetaLimit + 1) ELSE 0
  /\ UNCHANGED <<sampler, queue, link, locals, next_meta, pc, seen_down_at>>

Next == Loop \/ Peer \/ Tick

\* loop() is never stopped and the hardware timer keeps counting; nothing is
\* assumed of the peer or of what notify() returns.
Fairness == WF_vars(Loop) /\ WF_vars(Tick)

Spec == Init /\ [][Next]_vars
FairSpec == Spec /\ Fairness

-----------------------------------------------------------------------------
Clock == 0 .. Modulus - 1

TypeOK ==
  /\ now \in Clock
  /\ pc \in {"loop", "check", "batch", "meta"}
  /\ send_now \in Clock
  /\ batch_max \in 0 .. MaxSamples
  /\ next_sample \in Clock
  /\ next_meta \in Clock
  /\ frame_id \in Nat
  /\ sample_count \in Nat
  /\ transport_drops \in Nat
  /\ fifo \in Seq([frame_id : Nat, sensor_time : Clock])
  /\ fifo_oldest_at \in Clock
  /\ ble_connected \in BOOLEAN
  /\ subscribed \in BOOLEAN
  /\ cap \in Nat
  /\ sent \in Nat
  /\ lost_at \in Nat
  /\ seen_down_at \in Nat
  /\ stall \in Nat
  /\ outage \in Nat
  /\ offline \in Nat
  /\ meta_wait \in Nat

\* Every sample ever taken is held, was handed to notify(), or is in the drop
\* counter META reports: no path through maybeSend and fifoPush loses one
\* silently (transport_drops of docs/PROTOCOL.md, "C3 sender ring drops").
DropsAreCounted ==
  sample_count = Len(fifo) + sent + transport_drops

\* The node keeps the promises of SampleSource: frames leave once, in order,
\* in bundles of at most MaxSamples, and every other frame is counted.
Source == INSTANCE SampleSource WITH
  Capacity <- RingSize, MaxBundle <- MaxSamples,
  taken <- frame_id, oldest <- frame_id - Len(fifo),
  handed <- sent, given_up <- transport_drops
ImplementsSource == Source!SourceSpec

\* What is held is the newest samples without a hole, oldest first, and no
\* more of them than the ring has slots.
HoldsNewestFrames ==
  /\ Len(fifo) <= RingSize
  /\ \A i \in 1 .. Len(fifo) :
       fifo[i].frame_id = frame_id - Len(fifo) + i - 1

\* A bundle never carries a sample taken before maybeSend last saw the link
\* down: what was held then was dropped, however the link came back since.
NoSampleOutlivesSeenOutage ==
  [][sent' # sent => fifo[1].frame_id >= seen_down_at]_vars

\* c3_node.cpp:539, "Never replay old movements after reconnection": a bundle
\* holds no sample taken before the last disconnection.  Only maybeSend clears
\* the FIFO, so this rests on a peer being slower to reconnect than two calls
\* of maybeSend are apart (SlowPeer).
SlowPeer == ReconnectTime > 2 * MaxStall
NeverReplaysOldMovements ==
  [][sent' # sent => fifo[1].frame_id >= lost_at]_vars

\* While META fits the link it is tried once per period (README.md:80,
\* "periodic status metadata").  This rests on an outage being shorter than half
\* of what the clock counts, and on no peer agreeing on a payload that carries
\* META but no sample: maybeSend returns at fit == 0, before it comes to META.
ShortOutage == 2 * MaxOutage < Modulus
MetaIsLonger ==
  /\ DefaultCap < MetaPacketLen
  /\ \A c \in Caps : MetaPacketLen <= c => BundleLen(1) <= c
MetaLimits == ShortOutage /\ MetaIsLonger /\ MetaRetry <= MetaPeriod
MetaIsPeriodic == meta_wait <= MetaLimit

\* Nothing stays in the FIFO for ever: whatever the peer does and however
\* often notify() refuses, a held sample is sent, evicted or dropped.
EveryFrameLeaves ==
  \A f \in 0 .. MaxFrames - 1 :
    (\E i \in 1 .. Len(fifo) : fifo[i].frame_id = f)
      ~> ~(\E i \in 1 .. Len(fifo) : fifo[i].frame_id = f)
=============================================================================
