--------------------------- MODULE C3SenderProofs ---------------------------
(***************************************************************************)
(* Proofs about C3Sender, for every value of its constants.                *)
(***************************************************************************)
EXTENDS C3Sender, SequenceTheorems, TLAPS

\* Modular time stays on the clock face: uint32_t arithmetic is closed.
LEMMA LaterInClock ==
  ASSUME NEW t \in Int, NEW d \in Int
  PROVE  Later(t, d) \in Clock
<1>1. Modulus \in Nat \ {0}
  BY ClockAssumption
<1>2. (t + d) % Modulus \in 0 .. Modulus - 1
  BY <1>1
<1> QED
  BY <1>2 DEF Later, Clock

Held == [frame_id : Nat, sensor_time : Clock]

\* fifoPush in terms of the sequence held: one longer until the ring is full,
\* then as long as before and moved up by one.
LEMMA PushShape ==
  ASSUME NEW q \in Seq(Held), NEW s \in Held, Len(q) <= RingSize
  PROVE  LET full == Len(q) = RingSize
             p    == Append(IF full THEN Tail(q) ELSE q, s)
         IN  /\ p \in Seq(Held)
             /\ Len(p) = IF full THEN RingSize ELSE Len(q) + 1
             /\ p[Len(p)] = s
             /\ \A i \in 1 .. Len(p) - 1 : p[i] = IF full THEN q[i + 1] ELSE q[i]
<1>1. RingSize \in Nat \ {0}
  BY SizeAssumption
<1>2. CASE Len(q) = RingSize
  <2>1. q # <<>>
    BY <1>1, <1>2
  <2>2. /\ Tail(q) \in Seq(Held)
        /\ Len(Tail(q)) = Len(q) - 1
        /\ \A i \in 1 .. Len(Tail(q)) : Tail(q)[i] = q[i + 1]
    BY <2>1, HeadTailProperties
  <2> QED
    BY <1>1, <1>2, <2>2, AppendProperties
<1>3. CASE Len(q) # RingSize
  BY <1>1, <1>3, AppendProperties
<1> QED
  BY <1>2, <1>3

\* fifoDrop in terms of the sequence held.
LEMMA DropShape ==
  ASSUME NEW q \in Seq(Held), NEW k \in 0 .. Len(q)
  PROVE  /\ SubSeq(q, k + 1, Len(q)) \in Seq(Held)
         /\ Len(SubSeq(q, k + 1, Len(q))) = Len(q) - k
         /\ \A i \in 1 .. Len(q) - k : SubSeq(q, k + 1, Len(q))[i] = q[k + i]
<1> QED
  BY SubSeqProperties

-----------------------------------------------------------------------------
\* The constants as the leaves below use them.
LEMMA ConstantFacts ==
  /\ Modulus \in Nat \ {0} /\ Period \in Nat /\ MetaPeriod \in Nat
  /\ MetaRetry \in Nat /\ RingSize \in Nat \ {0} /\ MaxSamples \in Nat \ {0}
  /\ HeaderLen \in Nat /\ SampleLen \in Nat \ {0} /\ DefaultCap \in Nat
  /\ Caps \subseteq Nat /\ MaxStall \in Nat /\ ReconnectTime \in Nat
  /\ 0 \in Clock /\ Clock \subseteq Int
<1>1. Modulus \in Nat \ {0} /\ Period \in Nat /\ MetaPeriod \in Nat /\ MetaRetry \in Nat
  BY ClockAssumption
<1>2. 0 \in Clock /\ Clock \subseteq Int
  BY <1>1 DEF Clock
<1> QED
  BY <1>1, <1>2, SizeAssumption, BoundAssumption

\* fifoPush keeps the FIFO's type, and replaces or adds one sample.
LEMMA PushStep ==
  ASSUME TypeOK, HoldsNewestFrames, NEW s \in Held, fifoPush(s)
  PROVE  /\ fifo' \in Seq(Held)
         /\ Len(fifo') = IF IsFull THEN RingSize ELSE Len(fifo) + 1
         /\ fifo'[Len(fifo')] = s
         /\ \A i \in 1 .. Len(fifo') - 1 :
              fifo'[i] = IF IsFull THEN fifo[i + 1] ELSE fifo[i]
<1>1. fifo \in Seq(Held) /\ Len(fifo) <= RingSize
  BY DEF TypeOK, Held, HoldsNewestFrames
<1>2. fifo' = Append(IF Len(fifo) = RingSize THEN Tail(fifo) ELSE fifo, s)
  BY DEF fifoPush, IsFull
<1> QED
  BY <1>1, <1>2, PushShape DEF IsFull

\* A bundle is never more than what is held, nor than MaxSamples.
LEMMA BundleFits ==
  ASSUME TypeOK
  PROVE  BundleSize \in 0 .. Len(fifo) /\ BundleSize <= MaxSamples
<1>1. fifo \in Seq(Held) /\ batch_max \in 0 .. MaxSamples
  BY DEF TypeOK, Held
<1>2. Len(fifo) \in Nat
  BY <1>1
<1> QED
  BY <1>1, <1>2, ConstantFacts DEF BundleSize, Lesser

-----------------------------------------------------------------------------
(* The inductive invariant.  Besides the properties it says that the two   *)
(* sample counters agree and that what is held is newer than the last time *)
(* maybeSend saw no link.                                                  *)

CountersAgree == frame_id = sample_count

HeldIsNewerThanSeenOutage == seen_down_at <= frame_id - Len(fifo)

IInv ==
  /\ TypeOK
  /\ CountersAgree
  /\ DropsAreCounted
  /\ HoldsNewestFrames
  /\ HeldIsNewerThanSeenOutage

\* The state setup() leaves satisfies the invariant.
LEMMA InitIInv == Init => IInv
<1> SUFFICES ASSUME Init PROVE IInv
  OBVIOUS
<1>1. Later(0, Period) \in Clock /\ Later(0, MetaPeriod) \in Clock
  BY ConstantFacts, LaterInClock
<1>2. TypeOK
  <2>1. fifo \in Seq([frame_id : Nat, sensor_time : Clock])
    BY DEF Init
  <2>2. pc \in {"loop", "check", "batch", "meta"} /\ batch_max \in 0 .. MaxSamples
    BY ConstantFacts DEF Init
  <2> QED
    BY <1>1, <2>1, <2>2, ConstantFacts DEF Init, TypeOK
<1>3. Len(fifo) = 0 /\ frame_id = 0 /\ sample_count = 0 /\ sent = 0
      /\ transport_drops = 0 /\ seen_down_at = 0
  BY DEF Init
<1> QED
  BY <1>2, <1>3, ConstantFacts
     DEF IInv, CountersAgree, DropsAreCounted, HoldsNewestFrames,
         HeldIsNewerThanSeenOutage

-----------------------------------------------------------------------------
(* One lemma per step of loop() that touches the FIFO or its counters.     *)

\* A new sample: the newest frame is added, the oldest counted when evicted.
LEMMA SampleStep == IInv /\ sampleSensors => IInv'
<1> SUFFICES ASSUME IInv, sampleSensors PROVE IInv'
  OBVIOUS
<1> USE DEF IInv
<1>1. TypeOK /\ HoldsNewestFrames /\ fifo \in Seq(Held) /\ Len(fifo) \in Nat
  BY DEF TypeOK, Held
<1>2. SampleTick \in Clock /\ Later(SampleTick, Period) \in Clock
  BY ConstantFacts, LaterInClock DEF TypeOK, SampleTick
<1>3. Sample(frame_id, SampleTick) \in Held
  BY <1>2 DEF Sample, Held, TypeOK
<1>4. fifoPush(Sample(frame_id, SampleTick))
  BY DEF sampleSensors
<1>5. /\ fifo' \in Seq(Held)
      /\ Len(fifo') = IF IsFull THEN RingSize ELSE Len(fifo) + 1
      /\ fifo'[Len(fifo')] = Sample(frame_id, SampleTick)
      /\ \A i \in 1 .. Len(fifo') - 1 :
           fifo'[i] = IF IsFull THEN fifo[i + 1] ELSE fifo[i]
  BY <1>1, <1>3, <1>4, PushStep
<1>6. TypeOK'
  <2>1. fifo_oldest_at' \in Clock /\ transport_drops' \in Nat
    BY <1>4 DEF fifoPush, TypeOK
  <2>2. /\ next_sample' \in Clock /\ frame_id' \in Nat /\ sample_count' \in Nat
        /\ pc' = "check" /\ stall' = 0
    BY <1>2 DEF sampleSensors, TypeOK
  <2> QED
    BY <1>5, <2>1, <2>2
       DEF TypeOK, Held, sampleSensors, link, locals, meta
<1>7. CountersAgree'
  BY DEF CountersAgree, sampleSensors
<1>8. DropsAreCounted'
  <2>1. sample_count' = sample_count + 1 /\ sent' = sent
    BY DEF sampleSensors
  <2>2. transport_drops' = IF IsFull THEN transport_drops + 1 ELSE transport_drops
    BY <1>4 DEF fifoPush
  <2>3. sample_count = Len(fifo) + sent + transport_drops
    BY DEF DropsAreCounted
  <2>4. {sample_count, sent, transport_drops} \subseteq Nat
    BY DEF TypeOK
  <2>5. IsFull <=> Len(fifo) = RingSize
    BY DEF IsFull
  <2> QED
    BY <1>1, <1>5, <2>1, <2>2, <2>3, <2>4, <2>5, ConstantFacts DEF DropsAreCounted
<1>9. HoldsNewestFrames'
  <2>1. Len(fifo') <= RingSize
    BY <1>1, <1>5, ConstantFacts DEF HoldsNewestFrames, IsFull
  <2>2. fifo'[Len(fifo')].frame_id = frame_id
    BY <1>5 DEF Sample
  <2>3. ASSUME NEW i \in 1 .. Len(fifo'), i # Len(fifo')
        PROVE  fifo'[i].frame_id = frame_id' - Len(fifo') + i - 1
    <3>1. i \in 1 .. Len(fifo') - 1
      BY <1>1, <1>5, <2>3, ConstantFacts
    <3> frame_id' = frame_id + 1 /\ frame_id \in Nat
      BY DEF sampleSensors, TypeOK
    <3>2. CASE IsFull
      <4>1. Len(fifo) = RingSize /\ Len(fifo') = RingSize /\ i + 1 \in 1 .. Len(fifo)
        BY <1>1, <1>5, <3>1, <3>2, ConstantFacts DEF IsFull
      <4>2. fifo[i + 1].frame_id = frame_id - Len(fifo) + (i + 1) - 1
        BY <4>1 DEF HoldsNewestFrames
      <4>3. fifo'[i] = fifo[i + 1]
        BY <1>5, <3>1, <3>2
      <4> QED
        BY <1>1, <3>1, <4>1, <4>2, <4>3, ConstantFacts
    <3>3. CASE ~IsFull
      <4>1. Len(fifo') = Len(fifo) + 1 /\ i \in 1 .. Len(fifo)
        BY <1>1, <1>5, <3>1, <3>3
      <4>2. fifo[i].frame_id = frame_id - Len(fifo) + i - 1
        BY <4>1 DEF HoldsNewestFrames
      <4>3. fifo'[i] = fifo[i]
        BY <1>5, <3>1, <3>3
      <4> QED
        BY <1>1, <3>1, <4>1, <4>2, <4>3
    <3> QED
      BY <3>2, <3>3
  <2>4. frame_id' = frame_id + 1 /\ Len(fifo') \in Nat \ {0}
    BY <1>1, <1>5, ConstantFacts DEF sampleSensors
  <2> QED
    BY <1>1, <2>1, <2>2, <2>3, <2>4 DEF HoldsNewestFrames, TypeOK
<1>10. HeldIsNewerThanSeenOutage'
  BY <1>1, <1>5, ConstantFacts
     DEF HeldIsNewerThanSeenOutage, HoldsNewestFrames, IsFull, sampleSensors, TypeOK
<1> QED
  BY <1>6, <1>7, <1>8, <1>9, <1>10

\* fifoDrop keeps what is held contiguous, whatever happens to the k frames.
LEMMA DropStep ==
  ASSUME IInv, NEW k \in 0 .. Len(fifo), fifoDrop(k), frame_id' = frame_id
  PROVE  /\ fifo' \in Seq(Held)
         /\ Len(fifo') = Len(fifo) - k
         /\ fifo_oldest_at' \in Clock
         /\ HoldsNewestFrames'
<1> USE DEF IInv
<1>1. fifo \in Seq(Held) /\ Len(fifo) \in Nat /\ k \in Nat /\ k <= Len(fifo)
  BY DEF TypeOK, Held
<1>2. /\ fifo' \in Seq(Held)
      /\ Len(fifo') = Len(fifo) - k
      /\ \A i \in 1 .. Len(fifo) - k : fifo'[i] = fifo[k + i]
  BY <1>1, DropShape DEF fifoDrop
<1>3. fifo_oldest_at' \in Clock
  <2>1. CASE k < Len(fifo)
    <3>1. fifo[k + 1] \in Held
      BY <1>1, <2>1
    <3> QED
      BY <2>1, <3>1 DEF fifoDrop, Held
  <2>2. CASE ~(k < Len(fifo))
    BY <2>2 DEF fifoDrop, TypeOK
  <2> QED
    BY <2>1, <2>2
<1>4. HoldsNewestFrames'
  <2>1. Len(fifo') <= RingSize
    BY <1>1, <1>2, ConstantFacts DEF HoldsNewestFrames
  <2>2. ASSUME NEW i \in 1 .. Len(fifo')
        PROVE  fifo'[i].frame_id = frame_id' - Len(fifo') + i - 1
    <3>1. k + i \in 1 .. Len(fifo) /\ fifo'[i] = fifo[k + i]
      BY <1>1, <1>2
    <3>2. fifo[k + i].frame_id = frame_id - Len(fifo) + (k + i) - 1
      BY <3>1 DEF HoldsNewestFrames
    <3> QED
      BY <1>1, <1>2, <3>1, <3>2 DEF TypeOK
  <2> QED
    BY <2>1, <2>2 DEF HoldsNewestFrames
<1> QED
  BY <1>2, <1>3, <1>4

\* maybeSend sees no usable link: everything held is dropped and counted.
LEMMA LinkDownStep == IInv /\ sendLinkDown => IInv'
<1> SUFFICES ASSUME IInv, sendLinkDown PROVE IInv'
  OBVIOUS
<1> USE DEF IInv
<1>1. fifo' = <<>> /\ transport_drops' = transport_drops + Len(fifo)
  BY DEF sendLinkDown, fifoClear
<1>2. fifo \in Seq(Held) /\ Len(fifo) \in Nat /\ fifo' \in Seq(Held) /\ Len(fifo') = 0
  BY <1>1 DEF TypeOK, Held
<1>3. TypeOK'
  BY <1>1, <1>2 DEF TypeOK, Held, sendLinkDown, clocks, sampler, link, locals, meta
<1>4. CountersAgree' /\ DropsAreCounted'
  BY <1>1, <1>2 DEF CountersAgree, DropsAreCounted, sendLinkDown, sampler, TypeOK
<1>5. HoldsNewestFrames' /\ HeldIsNewerThanSeenOutage'
  BY <1>2, ConstantFacts
     DEF HoldsNewestFrames, HeldIsNewerThanSeenOutage, sendLinkDown, sampler, TypeOK
<1> QED
  BY <1>3, <1>4, <1>5

\* A bundle handed to notify() moves from what is held to what was sent.
LEMMA SentStep == IInv /\ bundleSent => IInv'
<1> SUFFICES ASSUME IInv, bundleSent PROVE IInv'
  OBVIOUS
<1> USE DEF IInv
<1>1. BundleSize \in 0 .. Len(fifo) /\ fifoDrop(BundleSize) /\ frame_id' = frame_id
  BY BundleFits DEF bundleSent, sampler
<1>2. /\ fifo' \in Seq(Held) /\ Len(fifo') = Len(fifo) - BundleSize
      /\ fifo_oldest_at' \in Clock /\ HoldsNewestFrames'
  BY <1>1, DropStep
<1>3. Len(fifo) \in Nat /\ BundleSize \in Nat
  BY <1>1 DEF TypeOK
<1>4. sent' = sent + BundleSize /\ transport_drops' = transport_drops
      /\ sample_count' = sample_count /\ seen_down_at' = seen_down_at
  BY DEF bundleSent, sampler
<1>5. TypeOK'
  BY <1>2, <1>3, <1>4
     DEF TypeOK, Held, bundleSent, clocks, sampler, link, locals, meta
<1>6. CountersAgree' /\ DropsAreCounted' /\ HeldIsNewerThanSeenOutage'
  BY <1>1, <1>2, <1>3, <1>4
     DEF CountersAgree, DropsAreCounted, HeldIsNewerThanSeenOutage, TypeOK
<1> QED
  BY <1>2, <1>5, <1>6

\* A refused bundle whose head is over age gives up that one sample.
LEMMA RefusedStaleStep == IInv /\ bundleRefusedStale => IInv'
<1> SUFFICES ASSUME IInv, bundleRefusedStale PROVE IInv'
  OBVIOUS
<1> USE DEF IInv
<1>1. 1 \in 0 .. Len(fifo) /\ fifoDrop(1) /\ frame_id' = frame_id
  <2>1. fifo # <<>> /\ fifo \in Seq(Held)
    BY DEF bundleRefusedStale, HeadIsStale, TypeOK, Held
  <2>2. Len(fifo) \in Nat \ {0}
    BY <2>1
  <2> QED
    BY <2>2 DEF bundleRefusedStale, sampler
<1>2. /\ fifo' \in Seq(Held) /\ Len(fifo') = Len(fifo) - 1
      /\ fifo_oldest_at' \in Clock /\ HoldsNewestFrames'
  BY <1>1, DropStep
<1>3. Len(fifo) \in Nat
  BY DEF TypeOK
<1>4. sent' = sent /\ transport_drops' = transport_drops + 1
      /\ sample_count' = sample_count /\ seen_down_at' = seen_down_at
  BY DEF bundleRefusedStale, sampler
<1>5. TypeOK'
  BY <1>2, <1>3, <1>4
     DEF TypeOK, Held, bundleRefusedStale, clocks, sampler, link, locals, meta
<1>6. CountersAgree' /\ DropsAreCounted' /\ HeldIsNewerThanSeenOutage'
  BY <1>1, <1>2, <1>3, <1>4
     DEF CountersAgree, DropsAreCounted, HeldIsNewerThanSeenOutage, TypeOK
<1> QED
  BY <1>2, <1>5, <1>6

\* The FIFO, its counters and the sampling counters do not change.
QueueUntouched == UNCHANGED <<queue, sampler, seen_down_at>>

\* A step that leaves them alone keeps the invariant if it keeps the types.
LEMMA UntouchedStep == IInv /\ QueueUntouched /\ TypeOK' => IInv'
  BY DEF IInv, QueueUntouched, queue, sampler, CountersAgree, DropsAreCounted,
         HoldsNewestFrames, HeldIsNewerThanSeenOutage

-----------------------------------------------------------------------------
\* The type invariant is kept by the steps that do not touch the FIFO.
LEMMA QuietLoopStep ==
  ASSUME IInv, \/ noSampleDue \/ sendLinkReady \/ bundleKept
               \/ metaSent \/ metaRefused \/ metaNotDue
  PROVE  IInv'
<1> USE DEF IInv
<1>1. CASE noSampleDue
  <2>1. QueueUntouched
    BY <1>1 DEF noSampleDue, sampler, queue, QueueUntouched
  <2>2. TypeOK'
    BY <1>1 DEF TypeOK, noSampleDue, clocks, sampler, queue, link, locals, meta
  <2> QED
    BY <2>1, <2>2, UntouchedStep
<1>2. CASE sendLinkReady
  <2>1. QueueUntouched
    BY <1>2 DEF sendLinkReady, sampler, queue, QueueUntouched
  <2>2. Fit \in Nat
    BY <1>2, ConstantFacts DEF sendLinkReady, Fit, TypeOK
  <2>3. batch_max' \in 0 .. MaxSamples
    BY <1>2, <2>2, ConstantFacts DEF sendLinkReady, Lesser
  <2>4. TypeOK'
    BY <1>2, <2>3 DEF TypeOK, sendLinkReady, sampler, queue, link, meta
  <2> QED
    BY <2>1, <2>4, UntouchedStep
<1>3. CASE bundleKept
  <2>1. QueueUntouched
    BY <1>3 DEF bundleKept, sampler, queue, QueueUntouched
  <2>2. TypeOK'
    BY <1>3 DEF TypeOK, bundleKept, clocks, sampler, queue, link, locals, meta
  <2> QED
    BY <2>1, <2>2, UntouchedStep
<1>4. CASE metaSent \/ metaRefused \/ metaNotDue
  <2>1. QueueUntouched
    BY <1>4 DEF metaSent, metaRefused, metaNotDue, sampler, queue, QueueUntouched
  <2>2. next_meta' \in Clock
    <3>1. send_now \in Int /\ next_meta \in Clock
      BY ConstantFacts DEF TypeOK
    <3>2. Later(send_now, MetaPeriod) \in Clock /\ Later(send_now, MetaRetry) \in Clock
      BY <3>1, ConstantFacts, LaterInClock
    <3> QED
      BY <1>4, <3>1, <3>2 DEF metaSent, metaRefused, metaNotDue, meta
  <2>3. pc' = "loop" /\ send_now' = 0 /\ batch_max' = 0 /\ meta_wait' \in Nat
    BY <1>4 DEF metaSent, metaRefused, metaNotDue, Return, meta, TypeOK
  <2>4. UNCHANGED <<clocks, link>>
    BY <1>4 DEF metaSent, metaRefused, metaNotDue, clocks, link
  <2>5. 0 \in 0 .. MaxSamples
    BY ConstantFacts
  <2>6. TypeOK'
    BY <2>1, <2>2, <2>3, <2>4, <2>5, ConstantFacts
       DEF TypeOK, QueueUntouched, clocks, sampler, queue, link
  <2> QED
    BY <2>1, <2>6, UntouchedStep
<1> QED
  BY <1>1, <1>2, <1>3, <1>4

\* The peer and the clock touch neither the FIFO nor its counters.
LEMMA EnvironmentStep ==
  ASSUME IInv, Peer \/ Tick
  PROVE  QueueUntouched /\ IInv'
<1> USE DEF IInv
<1>1. QueueUntouched
  BY DEF Peer, onConnect, mtuExchanged, onSubscribe, onDisconnect, Tick,
         QueueUntouched, queue, sampler
<1>2. CASE Tick
  <2>1. Later(now, 1) \in Clock
    BY ConstantFacts, LaterInClock DEF TypeOK
  <2>2. Lesser(meta_wait + 1, MetaLimit + 1) \in Nat
        /\ Lesser(offline + 1, ReconnectTime) \in Nat
    BY ConstantFacts DEF TypeOK, Lesser, MetaLimit
  <2>3. TypeOK'
    BY <1>2, <2>1, <2>2 DEF TypeOK, Tick, sampler, queue, link, locals
  <2> QED
    BY <1>1, <2>3, UntouchedStep
<1>3. CASE onConnect
  BY <1>1, <1>3, UntouchedStep, ConstantFacts
     DEF TypeOK, onConnect, clocks, sampler, queue, locals, meta
<1>4. CASE mtuExchanged
  <2>1. cap' \in Nat
    BY <1>4, ConstantFacts DEF mtuExchanged
  <2>2. TypeOK'
    BY <1>4, <2>1 DEF TypeOK, mtuExchanged, clocks, sampler, queue, locals, meta
  <2> QED
    BY <1>1, <2>2, UntouchedStep
<1>5. CASE onSubscribe
  BY <1>1, <1>5, UntouchedStep
     DEF TypeOK, onSubscribe, clocks, sampler, queue, locals
<1>6. CASE onDisconnect
  BY <1>1, <1>6, UntouchedStep
     DEF TypeOK, onDisconnect, clocks, sampler, queue, locals
<1> QED
  BY <1>1, <1>2, <1>3, <1>4, <1>5, <1>6 DEF Peer

\* No step leaves the invariant.
LEMMA NextIInv == IInv /\ [Next]_vars => IInv'
<1> SUFFICES ASSUME IInv, [Next]_vars PROVE IInv'
  OBVIOUS
<1>1. CASE Loop
  BY <1>1, SampleStep, LinkDownStep, SentStep, RefusedStaleStep, QuietLoopStep
     DEF Loop
<1>2. CASE Peer \/ Tick
  BY <1>2, EnvironmentStep
<1>3. CASE UNCHANGED vars
  BY <1>3 DEF IInv, TypeOK, CountersAgree, DropsAreCounted, HoldsNewestFrames,
              HeldIsNewerThanSeenOutage, vars, clocks, sampler, queue, link,
              locals, meta
<1> QED
  BY <1>1, <1>2, <1>3 DEF Next

\* The invariant holds in every reachable state.
THEOREM Invariance == Spec => []IInv
  BY InitIInv, NextIInv, PTL DEF Spec

\* The node's state always has its type.
THEOREM TypeCorrect == Spec => []TypeOK
<1>1. IInv => TypeOK
  BY DEF IInv
<1> QED
  BY <1>1, Invariance, PTL

\* No sample is lost without being counted: maybeSend, fifoPush and fifoClear
\* between them account for every sample taken.
THEOREM DropsCounted == Spec => []DropsAreCounted
<1>1. IInv => DropsAreCounted
  BY DEF IInv
<1> QED
  BY <1>1, Invariance, PTL

\* The FIFO always holds the newest samples, contiguous and in order, in at
\* most RingSize slots.
THEOREM NewestHeld == Spec => []HoldsNewestFrames
<1>1. IInv => HoldsNewestFrames
  BY DEF IInv
<1> QED
  BY <1>1, Invariance, PTL

-----------------------------------------------------------------------------
(* Which steps hand samples over.                                          *)

\* Only bundleSent changes what was sent, and it sends at least one sample.
LEMMA OnlyBundlesSend ==
  ASSUME IInv, [Next]_vars, sent' # sent
  PROVE  bundleSent /\ BundleSize \in 1 .. Lesser(Len(fifo), MaxSamples)
<1>1. bundleSent
  <2>1. CASE Loop
    BY <2>1 DEF Loop, sampleSensors, noSampleDue, sendLinkDown, sendLinkReady,
                bundleRefusedStale, bundleKept, metaSent, metaRefused,
                metaNotDue, queue
  <2>2. CASE Peer \/ Tick
    BY <2>2, EnvironmentStep DEF QueueUntouched, queue
  <2>3. CASE UNCHANGED vars
    BY <2>3 DEF vars, queue
  <2> QED
    BY <2>1, <2>2, <2>3 DEF Next
<1>2. TypeOK /\ BundleSize \in 0 .. Len(fifo) /\ BundleSize <= MaxSamples
  BY BundleFits DEF IInv
<1>3. BundleSize # 0
  BY <1>1, <1>2 DEF bundleSent, TypeOK
<1> QED
  BY <1>1, <1>2, <1>3, ConstantFacts DEF Lesser, TypeOK

\* A bundle never carries a sample taken before maybeSend last saw the link
\* down (docs/PROTOCOL.md:18), whatever happened to the link since.
THEOREM NoneOutlivesSeenOutage == Spec => NoSampleOutlivesSeenOutage
<1>1. ASSUME IInv, [Next]_vars, sent' # sent
      PROVE  fifo[1].frame_id >= seen_down_at
  <2>1. 1 \in 1 .. Len(fifo) /\ Len(fifo) \in Nat
    <3>1. BundleSize \in 1 .. Lesser(Len(fifo), MaxSamples)
      BY <1>1, OnlyBundlesSend
    <3>2. Len(fifo) \in Nat
      BY <1>1 DEF IInv, TypeOK
    <3> QED
      BY <3>1, <3>2, ConstantFacts DEF Lesser
  <2>2. fifo[1].frame_id = frame_id - Len(fifo) + 1 - 1
    BY <1>1, <2>1 DEF IInv, HoldsNewestFrames
  <2> QED
    BY <1>1, <2>1, <2>2 DEF IInv, HeldIsNewerThanSeenOutage, TypeOK
<1>2. IInv /\ [Next]_vars => [sent' # sent => fifo[1].frame_id >= seen_down_at]_vars
  BY <1>1
<1> QED
  BY <1>2, Invariance, PTL DEF Spec, NoSampleOutlivesSeenOutage

-----------------------------------------------------------------------------
(* The node implements SampleSource.                                       *)

\* A step that leaves the FIFO alone is invisible to SampleSource.
LEMMA UntouchedIsStutter == QueueUntouched => UNCHANGED Source!sourceVars
  BY DEF QueueUntouched, queue, sampler, Source!sourceVars

\* Every step of the node is one step of SampleSource, or none.
LEMMA StepImplementsSource ==
  IInv /\ [Next]_vars => [Source!SourceNext]_(Source!sourceVars)
<1> SUFFICES ASSUME IInv, [Next]_vars PROVE [Source!SourceNext]_(Source!sourceVars)
  OBVIOUS
<1> USE DEF IInv
<1>0. /\ fifo \in Seq(Held) /\ Len(fifo) \in Nat /\ Len(fifo) <= RingSize
      /\ {frame_id, sent, transport_drops} \subseteq Nat
  BY DEF TypeOK, Held, HoldsNewestFrames
<1>1. CASE sampleSensors
  <2>1. IInv' /\ frame_id' = frame_id + 1 /\ sent' = sent
        /\ fifoPush(Sample(frame_id, SampleTick))
    BY <1>1, SampleStep DEF sampleSensors
  <2>2. fifo' = Append(IF IsFull THEN Tail(fifo) ELSE fifo, Sample(frame_id, SampleTick))
        /\ transport_drops' = IF IsFull THEN transport_drops + 1 ELSE transport_drops
    BY <2>1 DEF fifoPush
  <2>3. frame_id' - Len(fifo') = sent' + transport_drops'
    <3>1. CountersAgree' /\ DropsAreCounted' /\ TypeOK'
      BY <2>1
    <3>2. frame_id' = Len(fifo') + sent' + transport_drops'
      BY <3>1 DEF CountersAgree, DropsAreCounted
    <3>3. Len(fifo') \in Nat /\ {frame_id', sent', transport_drops'} \subseteq Nat
      BY <3>1 DEF TypeOK
    <3> QED
      BY <3>2, <3>3
  <2>4. frame_id - Len(fifo) = sent + transport_drops
    BY <1>0 DEF CountersAgree, DropsAreCounted
  <2>5. Source!Take
    BY <1>0, <2>1, <2>2, <2>3, <2>4, ConstantFacts
       DEF Source!Take, Source!Held, IsFull
  <2> QED
    BY <2>5 DEF Source!SourceNext
<1>2. CASE bundleSent
  <2>1. BundleSize \in 0 .. Len(fifo) /\ BundleSize <= MaxSamples /\ frame_id' = frame_id
        /\ sent' = sent + BundleSize /\ transport_drops' = transport_drops
    BY <1>2, BundleFits DEF bundleSent, sampler
  <2>2. Len(fifo') = Len(fifo) - BundleSize
    BY <1>2, <2>1, DropStep DEF bundleSent
  <2>3. CASE BundleSize = 0
    BY <1>0, <2>1, <2>2, <2>3 DEF Source!sourceVars
  <2>4. CASE BundleSize # 0
    <3>1. BundleSize \in 1 .. MaxSamples
      BY <1>0, <2>1, <2>4, ConstantFacts
    <3>2. Source!HandOver(BundleSize)
      BY <1>0, <2>1, <2>2 DEF Source!HandOver, Source!Held
    <3> QED
      BY <3>1, <3>2 DEF Source!SourceNext
  <2> QED
    BY <2>3, <2>4
<1>3. CASE bundleRefusedStale
  <2>1. fifo # <<>> /\ fifoDrop(1) /\ frame_id' = frame_id /\ sent' = sent
        /\ transport_drops' = transport_drops + 1
    BY <1>3 DEF bundleRefusedStale, HeadIsStale, sampler
  <2>2. 1 \in 0 .. Len(fifo) /\ 1 \in 1 .. RingSize
    BY <1>0, <2>1, ConstantFacts
  <2>3. Len(fifo') = Len(fifo) - 1
    BY <2>1, <2>2, DropStep
  <2>4. Source!GiveUp(1)
    BY <1>0, <2>1, <2>2, <2>3 DEF Source!GiveUp, Source!Held
  <2> QED
    BY <2>2, <2>4 DEF Source!SourceNext
<1>4. CASE sendLinkDown
  <2>1. fifo' = <<>> /\ transport_drops' = transport_drops + Len(fifo)
        /\ frame_id' = frame_id /\ sent' = sent
    BY <1>4 DEF sendLinkDown, fifoClear, sampler
  <2>2. Len(fifo') = 0
    BY <2>1
  <2>3. CASE Len(fifo) = 0
    BY <1>0, <2>1, <2>2, <2>3 DEF Source!sourceVars
  <2>4. CASE Len(fifo) # 0
    <3>1. Len(fifo) \in 1 .. RingSize
      BY <1>0, <2>4, ConstantFacts
    <3>2. Source!GiveUp(Len(fifo))
      BY <1>0, <2>1, <2>2 DEF Source!GiveUp, Source!Held
    <3> QED
      BY <3>1, <3>2 DEF Source!SourceNext
  <2> QED
    BY <2>3, <2>4
<1>5. CASE \/ noSampleDue \/ sendLinkReady \/ bundleKept
           \/ metaSent \/ metaRefused \/ metaNotDue
  <2>1. QueueUntouched
    BY <1>5 DEF noSampleDue, sendLinkReady, bundleKept, metaSent, metaRefused,
                metaNotDue, QueueUntouched, queue, sampler
  <2> QED
    BY <2>1, UntouchedIsStutter
<1>6. CASE Peer \/ Tick
  BY <1>6, EnvironmentStep, UntouchedIsStutter
<1>7. CASE UNCHANGED vars
  BY <1>7 DEF vars, queue, sampler, Source!sourceVars
<1> QED
  BY <1>1, <1>2, <1>3, <1>4, <1>5, <1>6, <1>7 DEF Next, Loop

\* The node keeps every promise of SampleSource.
THEOREM Implementation == Spec => ImplementsSource
<1>1. Init => Source!SourceInit
  <2> SUFFICES ASSUME Init PROVE Source!SourceInit
    OBVIOUS
  <2>1. Len(fifo) = 0 /\ frame_id = 0 /\ sent = 0 /\ transport_drops = 0
    BY DEF Init
  <2> QED
    BY <2>1 DEF Source!SourceInit
<1> QED
  BY <1>1, StepImplementsSource, Invariance, PTL
     DEF Spec, ImplementsSource, Source!SourceSpec

-----------------------------------------------------------------------------
(* Samples of before a disconnection.                                      *)

\* A step of loop() leaves nothing older than it finds, nothing older than the
\* next frame when it clears the FIFO, and the link as it is.
LEMMA HeldAdvances ==
  ASSUME IInv, Loop
  PROVE  /\ frame_id' - Len(fifo') >= frame_id - Len(fifo)
         /\ sendLinkDown => frame_id' - Len(fifo') = frame_id
         /\ frame_id' >= frame_id
         /\ UNCHANGED <<ble_connected, lost_at, offline>>
<1> USE DEF IInv
<1>1. Len(fifo) \in Nat /\ frame_id \in Nat /\ fifo \in Seq(Held)
  BY DEF TypeOK, Held
<1>2. UNCHANGED <<ble_connected, lost_at, offline>>
  BY DEF Loop, sampleSensors, noSampleDue, sendLinkDown, sendLinkReady, bundleSent,
         bundleRefusedStale, bundleKept, metaSent, metaRefused, metaNotDue, link, clocks
<1>3. CASE sampleSensors
  <2>1. SampleTick \in Clock
    BY <1>3, ConstantFacts DEF TypeOK, SampleTick
  <2>2. Sample(frame_id, SampleTick) \in Held
    BY <1>1, <2>1 DEF Sample, Held
  <2>3. fifoPush(Sample(frame_id, SampleTick)) /\ frame_id' = frame_id + 1 /\ pc = "loop"
    BY <1>3 DEF sampleSensors
  <2>4. Len(fifo') = IF IsFull THEN RingSize ELSE Len(fifo) + 1
    BY <2>2, <2>3, PushStep
  <2> QED
    BY <1>1, <1>2, <2>3, <2>4, ConstantFacts DEF IsFull, sendLinkDown
<1>4. CASE sendLinkDown
  <2>1. fifo' = <<>> /\ frame_id' = frame_id
    BY <1>4 DEF sendLinkDown, fifoClear, sampler
  <2>2. Len(fifo') = 0
    BY <2>1
  <2> QED
    BY <1>1, <1>2, <2>1, <2>2
<1>5. CASE bundleSent
  <2>1. BundleSize \in 0 .. Len(fifo) /\ fifoDrop(BundleSize) /\ frame_id' = frame_id
        /\ pc = "batch"
    BY <1>5, BundleFits DEF bundleSent, sampler
  <2>2. Len(fifo') = Len(fifo) - BundleSize
    BY <2>1, DropStep
  <2> QED
    BY <1>1, <1>2, <2>1, <2>2 DEF sendLinkDown
<1>6. CASE bundleRefusedStale
  <2>1. fifo # <<>> /\ fifoDrop(1) /\ frame_id' = frame_id /\ pc = "batch"
    BY <1>6 DEF bundleRefusedStale, HeadIsStale, sampler
  <2>2. 1 \in 0 .. Len(fifo)
    BY <1>1, <2>1
  <2>3. Len(fifo') = Len(fifo) - 1
    BY <2>1, <2>2, DropStep
  <2> QED
    BY <1>1, <1>2, <2>1, <2>3 DEF sendLinkDown
<1>7. CASE noSampleDue \/ sendLinkReady \/ bundleKept \/ metaSent \/ metaRefused \/ metaNotDue
  <2>1. fifo' = fifo /\ frame_id' = frame_id
    BY <1>7 DEF noSampleDue, sendLinkReady, bundleKept, metaSent, metaRefused, metaNotDue,
                sampler, queue
  <2>2. ~sendLinkDown
    BY <1>7 DEF noSampleDue, sendLinkReady, bundleKept, metaSent, metaRefused, metaNotDue,
                sendLinkDown
  <2> QED
    BY <1>1, <1>2, <2>1, <2>2
<1> QED
  BY <1>3, <1>4, <1>5, <1>6, <1>7 DEF Loop

HoldsLost == frame_id - Len(fifo) < lost_at

\* While such a sample is held the peer is still away, and has been for no
\* longer than this iteration, or the one before up to the next maybeSend().
ReplayInv ==
  /\ stall <= MaxStall
  /\ lost_at <= frame_id
  /\ HoldsLost => /\ ~ble_connected
                  /\ offline <= stall + (IF pc = "check" THEN MaxStall ELSE 0)

LEMMA ReplayStep ==
  ASSUME SlowPeer, IInv, ReplayInv, [Next]_vars
  PROVE  ReplayInv'
<1>1. /\ Len(fifo) \in Nat /\ frame_id \in Nat /\ lost_at \in Nat /\ stall \in Nat
      /\ offline \in Nat /\ MaxStall \in Nat /\ ReconnectTime \in Nat
  BY ConstantFacts DEF IInv, TypeOK
<1>2. Len(fifo') \in Nat /\ frame_id' \in Nat
  BY NextIInv DEF IInv, TypeOK
<1> USE DEF ReplayInv, HoldsLost
<1>3. CASE Loop
  <2>1. /\ frame_id' - Len(fifo') >= frame_id - Len(fifo)
        /\ sendLinkDown => frame_id' - Len(fifo') = frame_id
        /\ frame_id' >= frame_id
        /\ UNCHANGED <<ble_connected, lost_at, offline>>
    BY <1>3, HeldAdvances
  <2>2. CASE sampleSensors \/ noSampleDue
    <3>1. pc = "loop" /\ pc' = "check" /\ stall' = 0
      BY <2>2 DEF sampleSensors, noSampleDue
    <3> QED
      BY <1>1, <1>2, <2>1, <3>1
  <2>3. CASE sendLinkDown
    <3>1. stall' = stall
      BY <2>3 DEF sendLinkDown, clocks
    <3> QED
      BY <1>1, <1>2, <2>1, <2>3, <3>1
  <2>4. CASE sendLinkReady
    <3>1. stall' = stall /\ ble_connected
      BY <2>4 DEF sendLinkReady, transportReady
    <3> QED
      BY <1>1, <1>2, <2>1, <3>1
  <2>5. CASE bundleSent \/ bundleRefusedStale \/ bundleKept \/ metaSent \/ metaRefused \/ metaNotDue
    <3>1. stall' = stall /\ pc # "check" /\ pc' # "check"
      BY <2>5 DEF bundleSent, bundleRefusedStale, bundleKept, metaSent, metaRefused,
                  metaNotDue, Return, clocks
    <3> QED
      BY <1>1, <1>2, <2>1, <3>1
  <2> QED
    BY <1>3, <2>2, <2>3, <2>4, <2>5 DEF Loop
<1>4. CASE Peer \/ Tick
  <2>1. fifo' = fifo /\ frame_id' = frame_id
    BY <1>4, EnvironmentStep DEF QueueUntouched, queue, sampler
  <2>2. CASE Tick
    <3>1. /\ stall < MaxStall /\ stall' = stall + 1 /\ UNCHANGED <<ble_connected, lost_at, pc>>
          /\ offline' = IF ble_connected THEN offline ELSE Lesser(offline + 1, ReconnectTime)
      BY <2>2 DEF Tick, link
    <3> QED
      BY <1>1, <2>1, <3>1 DEF Lesser
  <2>3. CASE onConnect
    <3>1. /\ offline >= ReconnectTime /\ UNCHANGED <<stall, lost_at>>
      BY <2>3 DEF onConnect, clocks
    <3>2. ~HoldsLost
      BY <1>1, <3>1 DEF SlowPeer
    <3> QED
      BY <2>1, <3>1, <3>2
  <2>4. CASE mtuExchanged \/ onSubscribe
    BY <2>1, <2>4 DEF mtuExchanged, onSubscribe, clocks
  <2>5. CASE onDisconnect
    <3>1. ~ble_connected' /\ lost_at' = frame_id /\ offline' = 0 /\ UNCHANGED <<stall, pc>>
      BY <2>5 DEF onDisconnect
    <3> QED
      BY <1>1, <2>1, <3>1
  <2> QED
    BY <1>4, <2>2, <2>3, <2>4, <2>5 DEF Peer
<1>5. CASE UNCHANGED vars
  BY <1>5 DEF vars, clocks, sampler, queue, link
<1> QED
  BY <1>3, <1>4, <1>5 DEF Next

\* c3_node.cpp:539, "Never replay old movements after reconnection", for a peer
\* that is not back within two iterations of loop().
THEOREM OldMovementsAreNotReplayed ==
  ASSUME SlowPeer
  PROVE  Spec => NeverReplaysOldMovements
<1>1. Init => ReplayInv
  <2> SUFFICES ASSUME Init PROVE ReplayInv
    OBVIOUS
  <2>1. Len(fifo) = 0 /\ frame_id = 0 /\ lost_at = 0 /\ stall = 0
    BY DEF Init
  <2> QED
    BY <2>1, ConstantFacts DEF ReplayInv, HoldsLost
<1>2. IInv /\ ReplayInv /\ [Next]_vars => ReplayInv'
  BY ReplayStep
<1>3. ASSUME IInv, ReplayInv, [Next]_vars, sent' # sent
      PROVE  fifo[1].frame_id >= lost_at
  <2>1. bundleSent /\ BundleSize \in 1 .. Lesser(Len(fifo), MaxSamples)
    BY <1>3, OnlyBundlesSend
  <2>2. Len(fifo) \in Nat /\ frame_id \in Nat /\ lost_at \in Nat
    BY <1>3 DEF IInv, TypeOK
  <2>3. 1 \in 1 .. Len(fifo)
    BY <2>1, <2>2, ConstantFacts DEF Lesser
  <2>4. fifo[1].frame_id = frame_id - Len(fifo) + 1 - 1
    BY <1>3, <2>3 DEF IInv, HoldsNewestFrames
  <2>5. ble_connected
    BY <2>1 DEF bundleSent, MaySend, transportReady
  <2> QED
    BY <1>3, <2>2, <2>4, <2>5 DEF ReplayInv, HoldsLost
<1>4. IInv /\ ReplayInv /\ [Next]_vars => [sent' # sent => fifo[1].frame_id >= lost_at]_vars
  BY <1>3
<1> QED
  BY <1>1, <1>2, <1>4, Invariance, PTL DEF Spec, NeverReplaysOldMovements

-----------------------------------------------------------------------------
(* META, on a clock that wraps. *)

\* A remainder that is known, and one that is taken twice.
LEMMA Remainders ==
  ASSUME NEW m \in Nat \ {0}, NEW q \in Int, NEW r \in 0 .. m - 1
  PROVE  (m * q + r) % m = r
  OBVIOUS

LEMMA TwiceReduced ==
  ASSUME NEW m \in Nat \ {0}, NEW x \in Int, NEW b \in Int
  PROVE  ((x % m) + b) % m = (x + b) % m
<1>1. PICK q \in Int, r \in 0 .. m - 1 : r = x % m /\ x = m * q + r
  OBVIOUS
<1>2. PICK p \in Int, s \in 0 .. m - 1 : s = (r + b) % m /\ r + b = m * p + s
  OBVIOUS
<1>3. m * (q + p) = m * q + m * p /\ q + p \in Int
  OBVIOUS
<1>4. x + b = m * (q + p) + s
  <2>1. PICK u \in Int, v \in Int, w \in Int : u = m * q /\ v = m * p /\ w = m * (q + p)
    OBVIOUS
  <2>2. x = u + r /\ r + b = v + s /\ w = u + v
    BY <1>1, <1>2, <1>3, <2>1
  <2>3. x + b = w + s
    BY <2>2
  <2> QED
    BY <2>1, <2>3
<1>5. (m * (q + p) + s) % m = s
  BY <1>3, Remainders
<1> QED
  BY <1>1, <1>2, <1>4, <1>5

\* Two delays add up, and no delay leaves the clock where it is.
LEMMA LaterTwice ==
  ASSUME NEW t \in Int, NEW a \in Int, NEW b \in Int
  PROVE  Later(Later(t, a), b) = Later(t, a + b)
<1>1. Modulus \in Nat \ {0} /\ t + a \in Int /\ (t + a) + b = t + (a + b)
  BY ConstantFacts
<1>2. (((t + a) % Modulus) + b) % Modulus = ((t + a) + b) % Modulus
  BY <1>1, TwiceReduced
<1> QED
  BY <1>1, <1>2 DEF Later

LEMMA LaterNow == ASSUME NEW t \in Clock PROVE Later(t, 0) = t
<1>1. Modulus \in Nat \ {0} /\ t \in 0 .. Modulus - 1
  BY ConstantFacts DEF Clock
<1>2. Modulus * 0 + t = t /\ (Modulus * 0 + t) % Modulus = t
  BY <1>1, Remainders
<1> QED
  BY <1>1, <1>2 DEF Later

\* A deadline that was passed less than half a turn ago is due.
LEMMA PassedIsDue ==
  ASSUME NEW t \in Clock, NEW late \in Nat, 2 * late < Modulus
  PROVE  Due(t, Later(t, -late))
<1>1. Modulus \in Nat \ {0} /\ t \in Int
  BY ConstantFacts
<1> DEFINE at == Later(t, -late)
<1>2. at \in Int
  <2>1. -late \in Int
    OBVIOUS
  <2>2. at \in Clock
    BY <1>1, <2>1, LaterInClock
  <2> QED
    BY <2>2, ConstantFacts
<1>3. Later(at, late) = t
  <2>1. Later(at, late) = Later(t, 0)
    BY <1>1, LaterTwice
  <2> QED
    BY <2>1, LaterNow
<1>4. (at + late) % Modulus = t
  BY <1>3 DEF Later
<1>5. (((at + late) % Modulus) + (-at)) % Modulus = ((at + late) + (-at)) % Modulus
  <2>1. at + late \in Int /\ -at \in Int
    BY <1>2
  <2> QED
    BY <1>1, <2>1, TwiceReduced
<1>6. (t - at) % Modulus = late % Modulus
  <2>1. t + (-at) = t - at /\ (at + late) + (-at) = late
    BY <1>1, <1>2
  <2> QED
    BY <1>4, <1>5, <2>1
<1>7. late % Modulus = late
  <2>1. late \in 0 .. Modulus - 1 /\ Modulus * 0 + late = late
    BY <1>1
  <2> QED
    BY <1>1, <2>1, Remainders
<1> QED
  BY <1>6, <1>7 DEF Due, Age

\* META cannot pass over a connection whose payload was not agreed yet, nor
\* when maybeSend() leaves before it comes to META.
PayloadInv == ble_connected => cap \in Caps \cup {DefaultCap}

\* Between two calls of maybeSend() the deadline is ahead of the clock, or behind
\* by no more than the outage; in a call, so it is of the time the call began.
DeadlineInv ==
  /\ pc \in {"loop", "check"} =>
       \E d \in Int : next_meta = Later(now, d) /\ -outage <= d /\ meta_wait + d <= MetaPeriod
  /\ pc \in {"batch", "meta"} =>
       /\ now = Later(send_now, outage)
       /\ outage <= stall
       /\ \E d \in Int : /\ next_meta = Later(send_now, d) /\ -MaxOutage <= d
                         /\ meta_wait + d - outage <= MetaPeriod

\* META has waited for a period, this iteration, and before maybeSend() has
\* looked at it also for the iteration before.
WaitInv ==
  /\ stall <= MaxStall /\ outage <= MaxOutage
  /\ ~MetaMayPass => meta_wait = 0
  /\ meta_wait <= MetaPeriod + stall + (IF pc = "loop" THEN 0 ELSE MaxStall)

MetaInv == PayloadInv /\ DeadlineInv /\ WaitInv

LEMMA MetaNumbers ==
  ASSUME IInv
  PROVE  /\ now \in Clock /\ send_now \in Clock /\ next_meta \in Clock
         /\ now \in Int /\ send_now \in Int /\ next_meta \in Int
         /\ stall \in Nat /\ outage \in Nat /\ meta_wait \in Nat /\ cap \in Nat
         /\ MaxStall \in Nat /\ MaxOutage \in Nat /\ MetaPeriod \in Nat /\ MetaRetry \in Nat
         /\ pc \in {"loop", "check", "batch", "meta"}
  BY ConstantFacts, BoundAssumption DEF IInv, TypeOK

LEMMA MetaStart == ASSUME Init PROVE MetaInv
<1>1. next_meta = Later(now, MetaPeriod) /\ MetaPeriod \in Nat
  BY ConstantFacts DEF Init
<1> QED
  BY <1>1, ConstantFacts, BoundAssumption
     DEF Init, MetaInv, PayloadInv, DeadlineInv, WaitInv

\* maybeSend() leaves before META only when META does not pass.
LEMMA LeavesWithoutMeta ==
  ASSUME MetaIsLonger, IInv, PayloadInv, ~transportReady \/ Fit = 0
  PROVE  ~MetaMayPass
<1> SUFFICES ASSUME MetaMayPass PROVE FALSE
  OBVIOUS
<1>1. transportReady /\ ble_connected /\ MetaPacketLen <= cap
  BY DEF MetaMayPass, MaySend, transportReady
<1>2. DefaultCap \in Nat /\ HeaderLen \in Nat /\ MetaLen \in Nat /\ SampleLen \in Nat \ {0}
      /\ cap \in Nat
  BY ConstantFacts, SizeAssumption DEF IInv, TypeOK
<1>3. cap \in Caps
  BY <1>1, <1>2 DEF PayloadInv, MetaIsLonger, MetaPacketLen
<1>4. HeaderLen + SampleLen <= cap
  BY <1>1, <1>2, <1>3 DEF MetaIsLonger, BundleLen
<1>5. cap - HeaderLen >= SampleLen /\ cap > HeaderLen
  BY <1>2, <1>4
<1>6. (cap - HeaderLen) \div SampleLen # 0
  <2> DEFINE x == cap - HeaderLen
  <2>1. PICK q \in Int, r \in 0 .. SampleLen - 1 : q = x \div SampleLen /\ x = SampleLen * q + r
    BY <1>2
  <2>2. SampleLen * 0 = 0
    BY <1>2
  <2> QED
    BY <1>2, <1>5, <2>1, <2>2
<1> QED
  BY <1>1, <1>5, <1>6 DEF Fit

LEMMA SamplingMeta ==
  ASSUME IInv, MetaInv, sampleSensors \/ noSampleDue
  PROVE  MetaInv'
<1>1. /\ pc = "loop" /\ pc' = "check" /\ stall' = 0
      /\ UNCHANGED <<now, outage, next_meta, meta_wait, ble_connected, subscribed, cap>>
  BY DEF sampleSensors, noSampleDue, link, meta
<1>2. MetaMayPass' = MetaMayPass
  BY <1>1 DEF MetaMayPass, MaySend, transportReady
<1>3. DeadlineInv'
  BY <1>1 DEF MetaInv, DeadlineInv
<1> QED
  BY <1>1, <1>2, <1>3, MetaNumbers DEF MetaInv, PayloadInv, WaitInv

LEMMA LinkLooked ==
  ASSUME MetaIsLonger, IInv, MetaInv, sendLinkDown \/ sendLinkReady
  PROVE  MetaInv'
<1> USE DEF MetaInv
<1>1. CASE sendLinkDown
  <2>1. /\ pc = "check" /\ pc' = "loop"
        /\ UNCHANGED <<now, stall, outage, next_meta, meta_wait, ble_connected, subscribed, cap>>
    BY <1>1 DEF sendLinkDown, link, meta, clocks
  <2>2. MetaMayPass' = MetaMayPass
    BY <2>1 DEF MetaMayPass, MaySend, transportReady
  <2>3. meta_wait = 0
    BY <1>1, LeavesWithoutMeta DEF sendLinkDown, WaitInv
  <2>4. DeadlineInv'
    BY <2>1 DEF DeadlineInv
  <2> QED
    BY <2>1, <2>2, <2>3, <2>4, MetaNumbers DEF PayloadInv, WaitInv
<1>2. CASE sendLinkReady
  <2>1. /\ pc = "check" /\ pc' = "batch" /\ send_now' = now /\ outage' = 0
        /\ UNCHANGED <<now, stall, next_meta, meta_wait, ble_connected, subscribed, cap>>
    BY <1>2 DEF sendLinkReady, link, meta
  <2>2. MetaMayPass' = MetaMayPass
    BY <2>1 DEF MetaMayPass, MaySend, transportReady
  <2>3. PICK d \in Int : next_meta = Later(now, d) /\ -outage <= d /\ meta_wait + d <= MetaPeriod
    BY <2>1 DEF DeadlineInv
  <2>4. now = Later(now, 0)
    BY MetaNumbers, LaterNow
  <2>5. -MaxOutage <= d /\ meta_wait + d - 0 <= MetaPeriod
    BY <2>3, MetaNumbers DEF WaitInv
  <2>6. now' = Later(send_now', outage') /\ next_meta' = Later(send_now', d)
    BY <2>1, <2>3, <2>4
  <2>7. outage' <= stall' /\ meta_wait' + d - outage' <= MetaPeriod
    BY <2>1, <2>5, MetaNumbers
  <2>8. DeadlineInv'
    BY <2>1, <2>5, <2>6, <2>7 DEF DeadlineInv
  <2> QED
    BY <2>1, <2>2, <2>8, MetaNumbers DEF PayloadInv, WaitInv
<1> QED
  BY <1>1, <1>2

LEMMA BundleMeta ==
  ASSUME IInv, MetaInv, bundleSent \/ bundleRefusedStale \/ bundleKept
  PROVE  MetaInv'
<1>1. /\ pc = "batch" /\ pc' = "meta"
      /\ UNCHANGED <<now, stall, outage, send_now, next_meta, meta_wait, ble_connected,
                     subscribed, cap>>
  BY DEF bundleSent, bundleRefusedStale, bundleKept, link, meta, clocks, locals
<1>2. MetaMayPass' = MetaMayPass
  BY <1>1 DEF MetaMayPass, MaySend, transportReady
<1>3. DeadlineInv'
  BY <1>1 DEF MetaInv, DeadlineInv
<1> QED
  BY <1>1, <1>2, <1>3, MetaNumbers DEF MetaInv, PayloadInv, WaitInv

\* An attempt ends the wait, taken or refused; and without one the deadline was
\* still ahead when the call began.
LEMMA MetaLooked ==
  ASSUME MetaLimits, IInv, MetaInv, metaSent \/ metaRefused \/ metaNotDue
  PROVE  MetaInv'
<1> USE DEF MetaInv
<1>1. /\ pc = "meta" /\ pc' = "loop"
      /\ UNCHANGED <<now, stall, outage, ble_connected, subscribed, cap>>
  BY DEF metaSent, metaRefused, metaNotDue, Return, link, clocks
<1>2. MetaMayPass' = MetaMayPass
  BY <1>1 DEF MetaMayPass, MaySend, transportReady
<1>3. now = Later(send_now, outage) /\ outage <= stall
  BY <1>1 DEF DeadlineInv
<1>4. PICK d \in Int : /\ next_meta = Later(send_now, d) /\ -MaxOutage <= d
                       /\ meta_wait + d - outage <= MetaPeriod
  BY <1>1 DEF DeadlineInv
<1>5. ASSUME NEW k \in Int PROVE Later(now, k - outage) = Later(send_now, k)
  <2>1. outage \in Int /\ k - outage \in Int /\ outage + (k - outage) = k /\ send_now \in Int
    BY <1>5, MetaNumbers
  <2> QED
    BY <1>3, <2>1, LaterTwice
<1>6. CASE metaSent \/ metaRefused
  <2>1. PICK k \in {MetaPeriod, MetaRetry} : next_meta' = Later(send_now, k)
    BY <1>6 DEF metaSent, metaRefused
  <2>2. k \in Nat /\ k <= MetaPeriod /\ meta_wait' = 0
    BY <1>6, MetaNumbers DEF MetaLimits, metaSent, metaRefused
  <2>3. k - outage \in Int /\ -outage <= k - outage /\ 0 + (k - outage) <= MetaPeriod
    BY <2>2, MetaNumbers
  <2>4. next_meta' = Later(now, k - outage)
    BY <1>5, <2>1, <2>2
  <2>5. DeadlineInv'
    BY <1>1, <2>2, <2>3, <2>4 DEF DeadlineInv
  <2> QED
    BY <1>1, <1>2, <2>2, <2>5, MetaNumbers DEF PayloadInv, WaitInv
<1>7. CASE metaNotDue
  <2>1. ~Due(send_now, next_meta) /\ UNCHANGED <<next_meta, meta_wait>>
    BY <1>7 DEF metaNotDue, meta
  <2>2. d > 0
    <3> SUFFICES ASSUME d <= 0 PROVE FALSE
      OBVIOUS
    <3>1. -d \in Nat /\ 2 * (-d) < Modulus /\ -(-d) = d
      BY <1>4, MetaNumbers, ConstantFacts DEF MetaLimits, ShortOutage
    <3>2. Due(send_now, Later(send_now, d))
      BY <3>1, MetaNumbers, PassedIsDue
    <3> QED
      BY <1>4, <2>1, <3>2
  <2>3. d - outage \in Int /\ -outage <= d - outage /\ meta_wait + (d - outage) <= MetaPeriod
    BY <1>4, <2>2, MetaNumbers
  <2>4. next_meta' = Later(now, d - outage)
    BY <1>4, <1>5, <2>1
  <2>5. DeadlineInv'
    BY <1>1, <2>1, <2>3, <2>4 DEF DeadlineInv
  <2>6. meta_wait <= MetaPeriod + stall
    BY <1>3, <1>4, <2>2, MetaNumbers
  <2> QED
    BY <1>1, <1>2, <2>1, <2>5, <2>6, MetaNumbers DEF PayloadInv, WaitInv
<1> QED
  BY <1>6, <1>7

\* The peer: a change of the link starts the wait again.
LEMMA PeerMeta == ASSUME MetaIsLonger, IInv, MetaInv, Peer PROVE MetaInv'
<1> USE DEF MetaInv
<1>1. UNCHANGED <<now, stall, outage, send_now, next_meta, pc>>
  BY DEF Peer, onConnect, mtuExchanged, onSubscribe, onDisconnect, clocks, locals, meta
<1>2. meta_wait' = 0 /\ PayloadInv'
  <2>1. CASE onConnect
    <3>1. ~MetaMayPass
      BY <2>1 DEF onConnect, MetaMayPass, MaySend, transportReady
    <3> QED
      BY <2>1, <3>1 DEF onConnect, PayloadInv, WaitInv, meta
  <2>2. CASE mtuExchanged
    <3>1. ~MetaMayPass
      BY <2>2, SizeAssumption DEF mtuExchanged, MetaMayPass, MaySend, MetaIsLonger, MetaPacketLen
    <3> QED
      BY <2>2, <3>1 DEF mtuExchanged, PayloadInv, WaitInv, meta
  <2>3. CASE onSubscribe \/ onDisconnect
    BY <2>3 DEF onSubscribe, onDisconnect, PayloadInv
  <2> QED
    BY <2>1, <2>2, <2>3 DEF Peer
<1>3. DeadlineInv'
  <2>1. CASE pc \in {"loop", "check"}
    <3>1. PICK d \in Int : next_meta = Later(now, d) /\ -outage <= d /\ meta_wait + d <= MetaPeriod
      BY <2>1 DEF DeadlineInv
    <3>2. 0 + d <= MetaPeriod
      BY <3>1, MetaNumbers
    <3> QED
      BY <1>1, <1>2, <2>1, <3>1, <3>2 DEF DeadlineInv
  <2>2. CASE pc \in {"batch", "meta"}
    <3>1. PICK d \in Int : /\ next_meta = Later(send_now, d) /\ -MaxOutage <= d
                           /\ meta_wait + d - outage <= MetaPeriod
      BY <2>2 DEF DeadlineInv
    <3>2. 0 + d - outage <= MetaPeriod
      BY <3>1, MetaNumbers
    <3> QED
      BY <1>1, <1>2, <2>2, <3>1, <3>2 DEF DeadlineInv
  <2> QED
    BY <2>1, <2>2, MetaNumbers
<1> QED
  BY <1>1, <1>2, <1>3, MetaNumbers DEF WaitInv

LEMMA TickMeta == ASSUME IInv, MetaInv, Tick PROVE MetaInv'
<1> USE DEF MetaInv
<1>1. /\ stall < MaxStall /\ outage < MaxOutage
      /\ now' = Later(now, 1) /\ stall' = stall + 1 /\ outage' = outage + 1
      /\ UNCHANGED <<ble_connected, subscribed, cap, send_now, next_meta, pc>>
  BY DEF Tick, link, locals
<1>2. MetaMayPass' = MetaMayPass
  BY <1>1 DEF MetaMayPass, MaySend, transportReady
<1>3. meta_wait' \in Nat /\ meta_wait' <= meta_wait + 1 /\ (~MetaMayPass => meta_wait' = 0)
  BY MetaNumbers DEF Tick, Lesser, MetaLimit
<1>4. DeadlineInv'
  <2>1. CASE pc \in {"loop", "check"}
    <3>1. PICK d \in Int : next_meta = Later(now, d) /\ -outage <= d /\ meta_wait + d <= MetaPeriod
      BY <2>1 DEF DeadlineInv
    <3>2. d - 1 \in Int /\ 1 + (d - 1) = d /\ now \in Int
      BY <3>1, MetaNumbers
    <3>3. next_meta' = Later(now', d - 1)
      BY <1>1, <3>1, <3>2, LaterTwice
    <3>4. -(outage') <= d - 1 /\ meta_wait' + (d - 1) <= MetaPeriod
      BY <1>1, <1>3, <3>1, MetaNumbers
    <3> QED
      BY <1>1, <2>1, <3>2, <3>3, <3>4 DEF DeadlineInv
  <2>2. CASE pc \in {"batch", "meta"}
    <3>1. /\ now = Later(send_now, outage) /\ outage <= stall
          /\ \E d \in Int : /\ next_meta = Later(send_now, d) /\ -MaxOutage <= d
                            /\ meta_wait + d - outage <= MetaPeriod
      BY <2>2 DEF DeadlineInv
    <3>2. PICK d \in Int : /\ next_meta = Later(send_now, d) /\ -MaxOutage <= d
                           /\ meta_wait + d - outage <= MetaPeriod
      BY <3>1
    <3>3. now' = Later(send_now, outage')
      BY <1>1, <3>1, MetaNumbers, LaterTwice
    <3>4. outage' <= stall' /\ meta_wait' + d - outage' <= MetaPeriod
      BY <1>1, <1>3, <3>1, <3>2, MetaNumbers
    <3> QED
      BY <1>1, <2>2, <3>2, <3>3, <3>4 DEF DeadlineInv
  <2> QED
    BY <2>1, <2>2, MetaNumbers
<1>5. WaitInv'
  BY <1>1, <1>2, <1>3, MetaNumbers DEF WaitInv
<1> QED
  BY <1>1, <1>4, <1>5 DEF PayloadInv

\* README.md:80, "periodic status metadata": META that can pass is tried within
\* a period and two iterations, if no outage lasts for half a turn of the clock
\* and no payload carries META but no sample.
THEOREM MetaKeepsComing ==
  ASSUME MetaLimits
  PROVE  Spec => []MetaIsPeriodic
<1>1. Init => MetaInv
  BY MetaStart
<1>2. IInv /\ MetaInv /\ [Next]_vars => MetaInv'
  <2> SUFFICES ASSUME IInv, MetaInv, [Next]_vars PROVE MetaInv'
    OBVIOUS
  <2>1. CASE Loop
    BY <2>1, SamplingMeta, LinkLooked, BundleMeta, MetaLooked DEF Loop, MetaLimits
  <2>2. CASE Peer
    BY <2>2, PeerMeta DEF MetaLimits
  <2>3. CASE Tick
    BY <2>3, TickMeta
  <2>4. CASE UNCHANGED vars
    BY <2>4 DEF vars, clocks, link, locals, meta, MetaInv, PayloadInv, DeadlineInv, WaitInv,
                MetaMayPass, MaySend, transportReady
  <2> QED
    BY <2>1, <2>2, <2>3, <2>4 DEF Next
<1>3. IInv /\ MetaInv => MetaIsPeriodic
  <2> SUFFICES ASSUME IInv, MetaInv PROVE MetaIsPeriodic
    OBVIOUS
  <2> QED
    BY MetaNumbers DEF MetaInv, WaitInv, MetaIsPeriodic, MetaLimit
<1> QED
  BY <1>1, <1>2, <1>3, Invariance, PTL DEF Spec
=============================================================================
