--------------------------- MODULE FirmwareProofs ---------------------------
(***************************************************************************)
(* Proofs about the firmware's parts: the S3's BLE link, for any number of *)
(* disturbances and with the link ending anywhere, also between            *)
(* subscribe() and connected = true (BleCentral); the clock                *)
(* synchronisation over USB, whatever requests and answers are lost        *)
(* (UsbLink); the C3's sensors, across every wrap of its clock             *)
(* (C3Sensors).                                                            *)
(***************************************************************************)
EXTENDS BleCentral, UsbLink, C3Sensors, SequenceTheorems, TLAPS


\* The scan is off or about to be.
ScanEnds == scanning => stopping

\* A result stops the scan, and manageRadio() works on one result at a time.
OneResult ==
  /\ radio_at \in {"top", "connect", "discover", "subscribed", "after"}
  /\ shouldConnect => ScanEnds
  /\ radio_at # "top" => ~shouldConnect /\ ScanEnds

\* Once connected is set there is no attempt until it is cleared again.
Settled ==
  /\ connected => radio_at \in {"top", "after"} /\ ~shouldConnect /\ ScanEnds
  /\ (connected \/ radio_at = "subscribed") /\ linked /\ node_connected => node_subscribed

CentralInv == OneResult /\ Settled

LEMMA CentralInit == BleInit => CentralInv
  BY DEF BleInit, CentralInv, OneResult, Settled, ScanEnds

LEMMA CentralStep == CentralInv /\ [BleNext]_bleVars => CentralInv'
<1> SUFFICES ASSUME CentralInv, [BleNext]_bleVars PROVE CentralInv'
  OBVIOUS
<1> USE DEF CentralInv, OneResult, Settled, ScanEnds
<1>1. CASE takeResult
  BY <1>1 DEF takeResult, nodeVars
<1>2. CASE rescan
  BY <1>2 DEF rescan, nodeVars
<1>3. CASE connectSucceeds
  BY <1>3 DEF connectSucceeds
<1>4. CASE connectFails
  BY <1>4 DEF connectFails, centralVars, nodeVars
<1>5. CASE subscribeSucceeds
  BY <1>5 DEF subscribeSucceeds, centralVars
<1>6. CASE subscribeFails
  BY <1>6 DEF subscribeFails, nodeVars
<1>7. CASE setConnected
  BY <1>7 DEF setConnected, nodeVars
<1>8. CASE manageRadioDone
  BY <1>8 DEF manageRadioDone, nodeVars
<1>9. CASE onResult
  BY <1>9 DEF onResult, nodeVars
<1>10. CASE stopScan
  BY <1>10 DEF stopScan, nodeVars
<1>11. CASE onClientDisconnect
  BY <1>11 DEF onClientDisconnect, nodeVars
<1>12. CASE nodeDisconnect
  BY <1>12 DEF nodeDisconnect, centralVars
<1>13. CASE moveAway
  BY <1>13 DEF moveAway, centralVars, nodeVars
<1>14. CASE comeBack
  BY <1>14 DEF comeBack, centralVars, nodeVars
<1>15. CASE UNCHANGED bleVars
  BY <1>15 DEF bleVars, centralVars, nodeVars
<1> QED
  BY <1>1, <1>2, <1>3, <1>4, <1>5, <1>6, <1>7, <1>8, <1>9, <1>10, <1>11, <1>12, <1>13,
     <1>14, <1>15 DEF BleNext, manageRadio

\* A connection the S3 is content with, and both boards have, is subscribed on
\* the node and not disturbed by scanning, in every interleaving of loop()
\* with the callbacks of both boards.
THEOREM Content == BleSpec => []ContentMeansStreaming
<1>1. CentralInv => ContentMeansStreaming
  BY DEF CentralInv, Settled, ScanEnds, ContentMeansStreaming
<1> QED
  BY <1>1, CentralInit, CentralStep, PTL DEF BleSpec

-----------------------------------------------------------------------------
(* The synchronisation of the clocks. *)

\* A request is noted with its own time, and an answer repeats its request's.
Requests == {r \in [nonce : Nat, t0 : Nat] : r.t0 = r.nonce}
SyncAnswers ==
  {a \in [type : {"SYNC_RESP"}, nonce : Nat, host_tx : Nat, mine : BOOLEAN, boot : Nat] :
     a.host_tx = a.nonce}
PacketsToHost ==
  SyncAnswers \cup [type : {"HELLO"}, boot_id : Nat] \cup [type : {"DATA"}, boot : Nat]
Commands == [type : {"SYNC"}, nonce : Nat, mine : BOOLEAN] \cup [type : {"START"}]
Matched == [matched : {TRUE}, boot : Nat, rtt : RoundTrips]

UsbInv ==
  /\ boot \in Nat /\ node \in Nat /\ last_boot_id \in Nat
  /\ sync_nonce \in Nat
  /\ toHost \in Seq(PacketsToHost)
  /\ toBase \in Seq(Commands)
  /\ sync_sent \in Seq(Requests)
  /\ obs \in Seq(Matched)

\* UsbAssumption, constant by constant.
LEMMA UsbNumbers ==
  /\ NonceMod \in Nat \ {0}
  /\ PruneAbove \in Nat /\ PruneTo \in Nat /\ PruneTo <= PruneAbove
BY UsbAssumption

LEMMA UsbStart == ASSUME UsbInit PROVE UsbInv
<1>1. <<>> \in Seq(PacketsToHost) /\ <<>> \in Seq(Commands) /\ <<>> \in Seq(Requests)
      /\ <<>> \in Seq(Matched)
  BY EmptySeq
<1> QED
  BY <1>1 DEF UsbInit, Blank, UsbInv

\* A part of a sequence is a sequence of the same things.
LEMMA PartOf ==
  ASSUME NEW S, NEW s \in Seq(S), NEW m \in Int, NEW n \in Int, m >= 1, n <= Len(s)
  PROVE  SubSeq(s, m, n) \in Seq(S)
<1>1. \A i \in m .. n : s[i] \in S
  BY ElementOfSeq, LenProperties
<1> QED
  BY <1>1, SubSeqProperties

LEMMA RemoveAtPart ==
  ASSUME NEW S, NEW s \in Seq(S), NEW i \in 1 .. Len(s)
  PROVE  RemoveAt(s, i) \in Seq(S)
<1>1. Len(s) \in Nat
  BY LenProperties
<1>2. SubSeq(s, 1, i - 1) \in Seq(S) /\ SubSeq(s, i + 1, Len(s)) \in Seq(S)
  BY <1>1, PartOf
<1> QED
  BY <1>2, ConcatProperties DEF RemoveAt

\* usbWrite() adds a packet at the end, or none.
LEMMA WritesPacket ==
  ASSUME UsbInv, NEW packet \in PacketsToHost, usbWrite(packet)
  PROVE  toHost' \in Seq(PacketsToHost)
BY DEF UsbInv, usbWrite

LEMMA SendsHello == ASSUME UsbInv, sendHello PROVE toHost' \in Seq(PacketsToHost)
<1>1. [type |-> "HELLO", boot_id |-> last_boot_id] \in PacketsToHost
  BY DEF UsbInv, PacketsToHost
<1> QED
  BY <1>1, WritesPacket DEF sendHello, UsbInv

LEMMA BaseStep == ASSUME UsbInv, Base PROVE UsbInv'
<1> USE DEF hostVars, baseVars, clockVars
<1>1. CASE receiveMeta
  <2>1. [type |-> "HELLO", boot_id |-> node] \in PacketsToHost
    BY DEF UsbInv, PacketsToHost
  <2>2. toHost' \in Seq(PacketsToHost)
    BY <1>1, <2>1, WritesPacket DEF receiveMeta
  <2> QED
    BY <1>1, <2>2 DEF receiveMeta, UsbInv
<1>2. CASE helloDue
  BY <1>2, SendsHello DEF helloDue, UsbInv
<1>3. CASE receiveFrame
  <2>1. [type |-> "DATA", boot |-> boot] \in PacketsToHost
    BY DEF UsbInv, PacketsToHost
  <2>2. toHost' \in Seq(PacketsToHost)
    BY <1>3, <2>1, WritesPacket DEF receiveFrame
  <2> QED
    BY <1>3, <2>2 DEF receiveFrame, UsbInv
<1>4. CASE handleHostCommand
  <2> DEFINE command == Head(toBase)
  <2>1. command \in Commands /\ toBase' \in Seq(Commands)
    BY <1>4, HeadTailProperties DEF handleHostCommand, UsbInv
  <2>2. CASE command.type = "SYNC"
    <3>1. AnswerTo(command) \in PacketsToHost
      BY <2>1, <2>2 DEF Commands, AnswerTo, PacketsToHost, SyncAnswers, UsbInv
    <3>2. usbWrite(AnswerTo(command))
      BY <1>4, <2>2 DEF handleHostCommand
    <3> QED
      BY <1>4, <2>1, <3>1, <3>2, WritesPacket DEF handleHostCommand, UsbInv
  <2>3. CASE command.type # "SYNC"
    <3>1. sendHello
      BY <1>4, <2>3 DEF handleHostCommand
    <3> QED
      BY <1>4, <2>1, <3>1, SendsHello DEF handleHostCommand, UsbInv
  <2> QED
    BY <2>2, <2>3
<1>5. CASE baseRestarts
  <2>1. toHost' \in Seq(PacketsToHost)
    BY <1>5, PartOf DEF baseRestarts, UsbInv
  <2>2. toBase' \in Seq(Commands)
    BY <1>5, PartOf DEF baseRestarts, UsbInv
  <2> QED
    BY <1>5, <2>1, <2>2 DEF baseRestarts, UsbInv
<1>6. CASE nodeRestarts
  BY <1>6 DEF nodeRestarts, UsbInv
<1> QED
  BY <1>1, <1>2, <1>3, <1>4, <1>5, <1>6 DEF Base

\* The time that an answer is matched with is that of its request, also when
\* the request has been forgotten.
LEMMA MatchesRequest ==
  ASSUME UsbInv, NEW a \in SyncAnswers
  PROVE  AskedAt(a) = a.nonce /\ Without(a.nonce) \in Seq(Requests)
<1>1. CASE Entries(a.nonce) = {}
  BY <1>1 DEF AskedAt, Without, SyncAnswers, UsbInv
<1>2. CASE Entries(a.nonce) # {}
  <2> DEFINE i == CHOOSE i \in Entries(a.nonce) : TRUE
  <2>1. i \in Entries(a.nonce)
    BY <1>2
  <2>2. i \in 1 .. Len(sync_sent) /\ sync_sent[i].nonce = a.nonce
    BY <2>1 DEF Entries
  <2>3. sync_sent[i] \in Requests
    BY <2>2, ElementOfSeq DEF UsbInv
  <2>4. sync_sent[i].t0 = a.nonce
    BY <2>2, <2>3 DEF Requests
  <2>5. RemoveAt(sync_sent, i) \in Seq(Requests)
    BY <2>2, RemoveAtPart DEF UsbInv
  <2> QED
    BY <1>2, <2>4, <2>5 DEF AskedAt, Without
<1> QED
  BY <1>1, <1>2

LEMMA AddsMatched ==
  ASSUME UsbInv, NEW o \in Matched, add(o)
  PROVE  obs' \in Seq(Matched)
<1>1. Append(obs, o) \in Seq(Matched) /\ Len(Append(obs, o)) = Len(obs) + 1 /\ Len(obs) \in Nat
  BY AppendProperties, LenProperties DEF UsbInv
<1> Append(obs, o) # <<>>
  BY <1>1, EmptySeq
<1>2. Newest(Append(obs, o)) \in Seq(Matched)
  BY <1>1, HeadTailProperties DEF Newest
<1> QED
  BY <1>2 DEF add

LEMMA HostStep == ASSUME UsbInv, Host PROVE UsbInv'
<1> USE DEF baseVars, clockVars
<1>1. <<>> \in Seq(PacketsToHost) /\ <<>> \in Seq(Requests) /\ <<>> \in Seq(Matched)
  BY EmptySeq
<1>2. CASE openPort
  <2> DEFINE c(i) == IF toBase[i].type = "SYNC" THEN [toBase[i] EXCEPT !.mine = FALSE]
                     ELSE toBase[i]
  <2>1. Len(toBase) \in Nat /\ \A i \in 1 .. Len(toBase) : toBase[i] \in Commands
    BY LenProperties, ElementOfSeq DEF UsbInv
  <2>2. \A i \in 1 .. Len(toBase) : c(i) \in Commands
    BY <2>1 DEF Commands
  <2>3. [i \in 1 .. Len(toBase) |-> c(i)] \in Seq(Commands)
    BY <2>1, <2>2, IsASeq
  <2> QED
    BY <1>1, <1>2, <2>3 DEF openPort, NoSession, UsbInv
<1>3. CASE start
  <2>1. [type |-> "START"] \in Commands
    BY DEF Commands
  <2> QED
    BY <1>3, <2>1 DEF start, UsbInv
<1>4. CASE closePort
  BY <1>1, <1>4 DEF closePort, NoSession, UsbInv
<1>5. CASE send_sync
  <2> DEFINE nonce == (sync_nonce + 1) % NonceMod
             noted == Note(nonce)
  <2>1. nonce \in Nat
    BY UsbNumbers DEF UsbInv
  <2>2. [nonce |-> nonce, t0 |-> nonce] \in Requests
        /\ [type |-> "SYNC", nonce |-> nonce, mine |-> TRUE] \in Commands
    BY <2>1 DEF Requests, Commands
  <2>3. noted \in Seq(Requests)
    BY <2>2 DEF Note, UsbInv
  <2>4. Len(noted) \in Nat
    BY <2>3, LenProperties
  <2>5. Pruned(noted) \in Seq(Requests)
    BY <2>3, <2>4, UsbNumbers, PartOf DEF Pruned
  <2>6. sync_nonce' = nonce /\ sync_sent' \in {noted, Pruned(noted)}
        /\ (\/ toBase' = toBase
            \/ toBase' = Append(toBase, [type |-> "SYNC", nonce |-> nonce, mine |-> TRUE]))
        /\ UNCHANGED <<boot, node, last_boot_id, toHost, obs>>
    BY <1>5 DEF send_sync
  <2>7. toBase' \in Seq(Commands)
    <3>1. toBase \in Seq(Commands)
      BY DEF UsbInv
    <3>2. Append(toBase, [type |-> "SYNC", nonce |-> nonce, mine |-> TRUE]) \in Seq(Commands)
      BY <2>2, <3>1, AppendProperties
    <3> QED
      BY <2>6, <3>1, <3>2
  <2> HIDE DEF nonce, noted
  <2> QED
    BY <2>1, <2>3, <2>5, <2>6, <2>7 DEF UsbInv
<1>6. CASE consume_rx
  <2> DEFINE packet == Head(toHost)
  <2>1. packet \in PacketsToHost /\ toHost' \in Seq(PacketsToHost)
    BY <1>6, HeadTailProperties DEF consume_rx, UsbInv
  <2>2. UNCHANGED <<boot, node, last_boot_id, toBase, sync_nonce>>
    BY <1>6 DEF consume_rx
  <2>3. CASE readAnswer(packet)
    <3>1. packet \in SyncAnswers
      BY <2>1, <2>3 DEF readAnswer, PacketsToHost
    <3>2. AskedAt(packet) = packet.nonce /\ Without(packet.nonce) \in Seq(Requests)
      BY <3>1, MatchesRequest
    <3>3. PICK rtt \in RoundTrips :
            add([matched |-> packet.mine => AskedAt(packet) = packet.nonce,
                 boot |-> packet.boot, rtt |-> rtt])
      BY <2>3 DEF readAnswer
    <3>4. (packet.mine => AskedAt(packet) = packet.nonce) = TRUE /\ packet.boot \in Nat
      BY <3>1, <3>2 DEF SyncAnswers
    <3>5. [matched |-> packet.mine => AskedAt(packet) = packet.nonce,
           boot |-> packet.boot, rtt |-> rtt] \in Matched
      BY <3>4 DEF Matched
    <3>6. obs' \in Seq(Matched)
      BY <3>3, <3>5, AddsMatched
    <3>7. sync_sent' \in Seq(Requests)
      BY <2>3, <3>2 DEF readAnswer
    <3> QED
      BY <2>1, <2>2, <3>6, <3>7 DEF UsbInv
  <2>4. CASE readHello(packet)
    BY <1>1, <2>1, <2>2, <2>4 DEF readHello, UsbInv
  <2>5. CASE readData(packet)
    BY <2>1, <2>2, <2>5 DEF readData, UsbInv
  <2> QED
    BY <1>6, <2>3, <2>4, <2>5 DEF consume_rx
<1> QED
  BY <1>2, <1>3, <1>4, <1>5, <1>6 DEF Host

\* AnswersMatchRequests: whatever requests and answers are lost, late, pruned or
\* overtaken by a restart of the base, BrushSerial never takes the time of one
\* request for that of another (the clock's offset would be off by the difference).
THEOREM AnswersAreMatched == UsbSpec => []AnswersMatchRequests
<1>1. UsbInv /\ [UsbNext]_usbVars => UsbInv'
  <2>1. UsbInv /\ UNCHANGED usbVars => UsbInv'
    BY DEF UsbInv, usbVars, hostVars, baseVars, clockVars
  <2> QED
    BY <2>1, BaseStep, HostStep DEF UsbNext
<1>2. ASSUME UsbInv PROVE AnswersMatchRequests
  <2>1. \A i \in 1 .. Len(obs) : obs[i] \in Matched
    BY <1>2, ElementOfSeq DEF UsbInv
  <2> QED
    BY <2>1 DEF Matched, AnswersMatchRequests
<1> QED
  BY UsbStart, <1>1, <1>2, PTL DEF UsbSpec

-----------------------------------------------------------------------------
(* The sensors of the pen, on a clock that wraps. *)

\* A remainder that is known, and one that is not changed by a turn more.
LEMMA Remainders ==
  ASSUME NEW m \in Nat \ {0}, NEW q \in Int, NEW r \in 0 .. m - 1
  PROVE  (m * q + r) % m = r
  OBVIOUS

LEMMA SmallMod ==
  ASSUME NEW m \in Nat \ {0}, NEW x \in Int
  PROVE  /\ 0 <= x /\ x < m => x % m = x
         /\ -m <= x /\ x < 0 => x % m = x + m
         /\ (x + m) % m = x % m
         /\ x % m \in Nat /\ x % m < m
<1>1. PICK q \in Int, r \in 0 .. m - 1 : q = x \div m /\ r = x % m /\ x = m * q + r
  OBVIOUS
<1>2. m * (q + 1) = m * q + m
  OBVIOUS
<1>3. x + m = m * (q + 1) + r
  BY <1>1, <1>2
<1>4. (x + m) % m = r
  <2>1. q + 1 \in Int /\ (m * (q + 1) + r) % m = r
    BY Remainders
  <2> QED
    BY <1>3, <2>1
<1>5. ASSUME 0 <= x, x < m PROVE x % m = x
  <2>1. m * 0 + x = x /\ x \in 0 .. m - 1
    BY <1>5
  <2> QED
    BY <2>1, Remainders
<1>6. ASSUME -m <= x, x < 0 PROVE x % m = x + m
  <2>1. m * (-1) + (x + m) = x /\ x + m \in 0 .. m - 1
    BY <1>6
  <2> QED
    BY <2>1, Remainders
<1> QED
  BY <1>1, <1>4, <1>5, <1>6

\* SensorAssumption and WrapAssumption, constant by constant.
LEMMA SensorNumbers ==
  /\ ClockMod \in Nat \ {0} /\ ErrorLimit \in Nat \ {0}
  /\ ReadPeriod \in Nat /\ MaxStale \in Nat /\ Retry \in Nat /\ MaxLoop \in Nat
  /\ Standby \in Nat
  /\ 1 < ClockMod /\ MaxStale < ClockMod
  /\ 2 * MaxLoop < ClockMod
<1>1. /\ ClockMod \in Nat \ {0} /\ ErrorLimit \in Nat \ {0}
      /\ ReadPeriod \in Nat /\ MaxStale \in Nat /\ Retry \in Nat /\ MaxLoop \in Nat
      /\ Standby \in Nat
  BY SensorAssumption
<1>2. (2 * ErrorLimit + 1) * MaxLoop >= 2 * MaxLoop
  BY <1>1
<1> QED
  BY <1>1, <1>2, WrapAssumption

LEMMA ClockMods ==
  \A x \in Int :
    /\ 0 <= x /\ x < ClockMod => x % ClockMod = x
    /\ -ClockMod <= x /\ x < 0 => x % ClockMod = x + ClockMod
    /\ (x + ClockMod) % ClockMod = x % ClockMod
    /\ x % ClockMod \in Nat /\ x % ClockMod < ClockMod
BY SmallMod, SensorNumbers

\* A time that many ticks ahead of the clock, or behind it, stays where it is as
\* the clock ticks.
LEMMA PlusLater ==
  ASSUME NEW d \in Int, NEW now \in Nat, now < ClockMod
  PROVE  Plus(Plus(now, 1), d - 1) = Plus(now, d)
<1>1. CASE now + 1 < ClockMod
  <2>1. (now + 1) % ClockMod = now + 1
    BY <1>1, ClockMods, SensorNumbers
  <2> QED
    BY <2>1 DEF Plus
<1>2. CASE now + 1 = ClockMod
  <2>1. (now + 1) % ClockMod = 0
    BY <1>2, ClockMods, SensorNumbers
  <2>2. ((d - 1) + ClockMod) % ClockMod = (d - 1) % ClockMod
    <3>1. d - 1 \in Int
      OBVIOUS
    <3> QED
      BY <3>1, ClockMods
  <2>3. (d - 1) + ClockMod = now + d
    BY <1>2
  <2> QED
    BY <2>1, <2>2, <2>3 DEF Plus
<1> QED
  BY <1>1, <1>2, SensorNumbers

\* The time since is what has passed, if less than a turn of the clock has.
LEMMA PassedSince ==
  ASSUME NEW a \in Nat, a < ClockMod, NEW now \in Nat, now < ClockMod
  PROVE  Passed(now, Plus(now, -a)) = a
<1>1. CASE a <= now
  <2>1. (now - a) % ClockMod = now - a
    <3>1. now - a \in Int /\ 0 <= now - a /\ now - a < ClockMod
      BY <1>1, SensorNumbers
    <3> QED
      BY <3>1, ClockMods
  <2>2. now - (now - a) = a /\ a % ClockMod = a
    BY ClockMods, SensorNumbers
  <2> QED
    BY <2>1, <2>2 DEF Plus, Passed
<1>2. CASE a > now
  <2>1. (now - a) % ClockMod = now - a + ClockMod
    <3>1. now - a \in Int /\ -ClockMod <= now - a /\ now - a < 0
      BY <1>2, SensorNumbers
    <3> QED
      BY <3>1, ClockMods
  <2>2. now - (now - a + ClockMod) = a - ClockMod
    BY SensorNumbers
  <2>3. a - ClockMod \in Int /\ -ClockMod <= a - ClockMod /\ a - ClockMod < 0
    BY SensorNumbers
  <2>4. (a - ClockMod) % ClockMod = (a - ClockMod) + ClockMod
    BY <2>3, ClockMods
  <2> QED
    BY <2>1, <2>2, <2>4, SensorNumbers DEF Plus, Passed
<1> QED
  BY <1>1, <1>2

LoopSteps == {"top", "read hall", "check hall", "read imu", "check imu", "motion", "asleep"}

SensorType ==
  /\ t \in Nat /\ t < ClockMod
  /\ step \in LoopSteps
  /\ skipped \in BOOLEAN
  /\ ready \in [Sensors -> BOOLEAN]
  /\ last \in [Sensors -> Nat]
  /\ errors \in [Sensors -> Nat]
  /\ retry_at \in [Sensors -> Nat]
  /\ read_age \in [Sensors -> Nat]
  /\ down_for \in [Sensors -> Nat]
  /\ loop_time \in Nat /\ loop_time <= MaxLoop
  /\ sample \in [valid : SUBSET Sensors, age : [Sensors -> Nat]]
  /\ skipped => step \in {"top", "asleep"}
  /\ \A s \in Sensors : errors[s] < ErrorLimit

\* The deadline of a sensor that is down is that far ahead, or behind by no more
\* than an iteration of loop().
DownInv ==
  \A s \in Sensors : ~ready[s] =>
    /\ down_for[s] <= Retry + loop_time
    /\ retry_at[s] = Plus(t, Retry - down_for[s])

\* What may have passed since a reading, by the number of attempts that failed
\* since then and the place of loop() in the iteration.
Unread(n) == ReadPeriod + n * (2 * MaxLoop)
Before(s) == IF s = "hall" THEN {"read hall"} ELSE {"read hall", "check hall", "read imu"}
Since(s) ==
  IF step \in Before(s) THEN 2 * MaxLoop
  ELSE IF step = "top" /\ skipped THEN MaxLoop
  ELSE 0
AgeLimit(s) == Unread(IF ready[s] THEN errors[s] ELSE ErrorLimit) + Since(s) + loop_time

\* last and the true age of the reading agree as long as the sensor is not given
\* up.  Only a sensor that was lost just now is looked at without being ready.
InUse(s) == step # "asleep" /\ (ready[s] \/ step = AfterRead(s)) /\ last[s] # 0
AgeInv ==
  \A s \in Sensors : InUse(s) =>
    \E a \in Nat :
      /\ a <= AgeLimit(s)
      /\ last[s] = Plus(t, -a)
      /\ read_age[s] = AtMost(a, TooOld)

SensorInv == SensorType /\ DownInv /\ AgeInv /\ ValidIsRecent

\* Each further attempt adds two iterations, and no age comes near a wrap.
LEMMA UnreadGrows ==
  /\ \A n \in Nat : Unread(n) \in Nat /\ Unread(n + 1) = Unread(n) + 2 * MaxLoop
                    /\ Unread(n) >= ReadPeriod
  /\ \A n \in Nat : n < ErrorLimit => Unread(n) + 2 * MaxLoop <= Unread(ErrorLimit)
  /\ Unread(ErrorLimit) + MaxLoop < ClockMod
<1> DEFINE L == 2 * MaxLoop
<1>1. L \in Nat /\ ReadPeriod \in Nat /\ ErrorLimit \in Nat /\ MaxLoop \in Nat
  BY SensorNumbers
<1>2. \A n \in Nat : n * L \in Nat /\ (n + 1) * L = n * L + L
  BY <1>1
<1>3. \A n \in Nat : n < ErrorLimit => n * L + L <= ErrorLimit * L
  <2> TAKE n \in Nat
  <2> HAVE n < ErrorLimit
  <2>1. PICK k \in Nat : ErrorLimit = (n + 1) + k
    <3>1. ErrorLimit - (n + 1) \in Nat /\ ErrorLimit = (n + 1) + (ErrorLimit - (n + 1))
      BY <1>1
    <3> QED
      BY <3>1
  <2>2. ErrorLimit * L = (n + 1) * L + k * L
    BY <1>1, <2>1
  <2> QED
    BY <1>1, <1>2, <2>2
<1>4. (2 * ErrorLimit + 1) * MaxLoop = ErrorLimit * L + MaxLoop
  BY <1>1
<1>5. \A n \in Nat : Unread(n) = ReadPeriod + n * L
  BY DEF Unread
<1>6. ReadPeriod + (ErrorLimit * L + MaxLoop) < ClockMod
  BY <1>4, WrapAssumption
<1>7. ErrorLimit * L \in Nat
  BY <1>1
<1> HIDE DEF L
<1>8. \A n \in Nat : Unread(n) \in Nat /\ Unread(n + 1) = Unread(n) + L /\ Unread(n) >= ReadPeriod
  BY <1>1, <1>2, <1>5
<1>9. \A n \in Nat : n < ErrorLimit => Unread(n) + L <= Unread(ErrorLimit)
  BY <1>1, <1>2, <1>3, <1>5, <1>7
<1>10. Unread(ErrorLimit) + MaxLoop < ClockMod
  BY <1>1, <1>5, <1>6, <1>7, SensorNumbers
<1> QED
  BY <1>8, <1>9, <1>10 DEF L

\* An age within its limit is less than a turn of the clock.
LEMMA AgeInRange ==
  ASSUME SensorType, NEW s \in Sensors, InUse(s)
  PROVE  AgeLimit(s) \in Nat /\ AgeLimit(s) < ClockMod
<1>1. errors[s] \in Nat /\ errors[s] < ErrorLimit /\ loop_time \in Nat /\ loop_time <= MaxLoop
  BY DEF SensorType
<1>2. Since(s) \in {0, MaxLoop, 2 * MaxLoop}
  BY DEF Since
<1>3. ~ready[s] => Since(s) = 0
  BY DEF InUse, Since, AfterRead, Before, Sensors
<1>4. Unread(errors[s]) + 2 * MaxLoop <= Unread(ErrorLimit)
  BY <1>1, UnreadGrows
<1>5. Unread(errors[s]) \in Nat /\ Unread(ErrorLimit) \in Nat
  BY <1>1, UnreadGrows, SensorNumbers
<1> QED
  BY <1>1, <1>2, <1>3, <1>4, <1>5, UnreadGrows, SensorNumbers DEF AgeLimit

\* So the age that the code computes is the age.
LEMMA AgeIsTrue ==
  ASSUME SensorType, AgeInv, NEW s \in Sensors, InUse(s)
  PROVE  \E a \in Nat : /\ a <= AgeLimit(s) /\ last[s] = Plus(t, -a)
                        /\ read_age[s] = AtMost(a, TooOld) /\ SampleAge(t, last[s]) = a
<1>1. PICK a \in Nat : a <= AgeLimit(s) /\ last[s] = Plus(t, -a) /\ read_age[s] = AtMost(a, TooOld)
  BY DEF AgeInv
<1>2. a < ClockMod /\ t \in Nat /\ t < ClockMod /\ last[s] # 0
  BY <1>1, AgeInRange, SensorNumbers DEF SensorType, InUse
<1>3. Passed(t, Plus(t, -a)) = a
  BY <1>2, PassedSince
<1> QED
  BY <1>1, <1>2, <1>3 DEF SampleAge

LEMMA SensorsBooted ==
  /\ SensorInit => SensorInv
  /\ reset => SensorInv'
<1>1. Plus(1, Retry) \in Nat
  BY ClockMods, SensorNumbers DEF Plus
<1>2. TooOld \in Nat /\ ClockMod >= 1
  BY SensorNumbers DEF TooOld
<1>3. Plus(1, Retry) = Plus(1, Retry - 0)
  BY SensorNumbers
<1>4. [s \in Sensors |-> TooOld] \in [Sensors -> Nat] /\ NoSample \in [valid : SUBSET Sensors, age : [Sensors -> Nat]]
  BY <1>2 DEF NoSample
<1>5. ASSUME SensorInit PROVE SensorInv
  <2>1. SensorType
    <3>1. /\ t = 1 /\ step = "top" /\ skipped = FALSE /\ loop_time = 0
          /\ ready = [s \in Sensors |-> condition[s] # "dead"]
          /\ last = [s \in Sensors |-> 0] /\ errors = [s \in Sensors |-> 0]
          /\ retry_at = [s \in Sensors |-> Plus(1, Retry)]
          /\ read_age = [s \in Sensors |-> TooOld]
          /\ down_for = [s \in Sensors |-> 0] /\ sample = NoSample
      BY <1>5 DEF SensorInit
    <3>2. last \in [Sensors -> Nat] /\ errors \in [Sensors -> Nat]
          /\ retry_at \in [Sensors -> Nat] /\ down_for \in [Sensors -> Nat]
          /\ ready \in [Sensors -> BOOLEAN]
      BY <1>1, <3>1
    <3> HIDE DEF NoSample, TooOld
    <3> QED
      <4>1. read_age \in [Sensors -> Nat] /\ sample \in [valid : SUBSET Sensors, age : [Sensors -> Nat]]
        BY <1>4, <3>1
      <4>2. \A s \in Sensors : errors[s] < ErrorLimit
        BY <3>1, SensorNumbers
      <4>3. t \in Nat /\ t < ClockMod /\ loop_time \in Nat /\ loop_time <= MaxLoop
        BY <3>1, SensorNumbers
      <4> QED
        BY <3>1, <3>2, <4>1, <4>2, <4>3 DEF SensorType, LoopSteps
  <2>2. DownInv /\ AgeInv /\ ValidIsRecent
    BY <1>3, <1>5, SensorNumbers DEF SensorInit, DownInv, AgeInv, InUse, ValidIsRecent, NoSample
  <2> QED
    BY <2>1, <2>2 DEF SensorInv
<1>6. ASSUME reset PROVE SensorInv'
  <2>1. SensorType'
    <3>1. /\ t' = 1 /\ step' = "top" /\ skipped' = FALSE /\ loop_time' = 0
          /\ ready' = [s \in Sensors |-> condition[s] # "dead"]
          /\ last' = [s \in Sensors |-> 0] /\ errors' = [s \in Sensors |-> 0]
          /\ retry_at' = [s \in Sensors |-> Plus(1, Retry)]
          /\ read_age' = [s \in Sensors |-> TooOld]
          /\ down_for' = [s \in Sensors |-> 0] /\ sample' = NoSample
      BY <1>6 DEF reset, Booted
    <3>2. last' \in [Sensors -> Nat] /\ errors' \in [Sensors -> Nat]
          /\ retry_at' \in [Sensors -> Nat] /\ down_for' \in [Sensors -> Nat]
          /\ ready' \in [Sensors -> BOOLEAN]
      BY <1>1, <3>1
    <3> HIDE DEF NoSample, TooOld
    <3> QED
      <4>1. read_age' \in [Sensors -> Nat] /\ sample' \in [valid : SUBSET Sensors, age : [Sensors -> Nat]]
        BY <1>4, <3>1
      <4>2. \A s \in Sensors : errors[s]' < ErrorLimit
        BY <3>1, SensorNumbers
      <4>3. t' \in Nat /\ t' < ClockMod /\ loop_time' \in Nat /\ loop_time' <= MaxLoop
        BY <3>1, SensorNumbers
      <4> QED
        BY <3>1, <3>2, <4>1, <4>2, <4>3 DEF SensorType, LoopSteps
  <2>2. DownInv' /\ AgeInv' /\ ValidIsRecent'
    BY <1>3, <1>6, SensorNumbers DEF reset, Booted, DownInv, AgeInv, InUse, ValidIsRecent, NoSample
  <2> QED
    BY <2>1, <2>2 DEF SensorInv
<1> QED
  BY <1>5, <1>6

\* Of the steps of loop() and of the sensors' faults, most disturb nothing here:
\* the place of loop() moves on past no reading.
LEMMA QuietSteps ==
  ASSUME SensorInv,
         \/ fallAsleep \/ noteMotion \/ fault \/ UNCHANGED sensorVars
         \/ \E s \in Sensors : notReady(s)
  PROVE  SensorInv'
<1> USE DEF SensorInv, SensorType, DownInv, AgeInv, InUse, AgeLimit, ValidIsRecent, LoopSteps,
            Since, Before, AfterRead, AfterCheck, Sensors, sensors, motion, world
<1>1. CASE fallAsleep
  BY <1>1 DEF fallAsleep
<1>2. CASE noteMotion
  BY <1>2, SensorNumbers DEF noteMotion, NoSample, TooOld
<1>3. CASE fault
  BY <1>3 DEF fault
<1>4. CASE UNCHANGED sensorVars
  BY <1>4 DEF sensorVars
<1>5. ASSUME NEW s \in Sensors, notReady(s) PROVE SensorInv'
  BY <1>5 DEF notReady
<1> QED
  BY <1>1, <1>2, <1>3, <1>4, <1>5

LEMMA TimeAges == ASSUME SensorInv, passTime PROVE SensorInv'
<1>1. /\ t \in Nat /\ t < ClockMod /\ t' = Plus(t, 1)
      /\ loop_time \in Nat /\ loop_time < MaxLoop /\ loop_time' = loop_time + 1
      /\ UNCHANGED <<step, skipped, ready, last, errors, retry_at, sample>>
      /\ read_age' = [s \in Sensors |-> AtMost(read_age[s] + 1, TooOld)]
      /\ down_for' = [s \in Sensors |->
                        IF ready[s] THEN 0 ELSE AtMost(down_for[s] + 1, LongestDown + 1)]
  BY DEF passTime, SensorInv, SensorType
<1>2. t' \in Nat /\ t' < ClockMod
  BY <1>1, ClockMods DEF Plus
<1>3. TooOld \in Nat /\ LongestDown \in Nat
  BY SensorNumbers DEF TooOld, LongestDown
<1>4. \A n \in Nat, b \in Nat : AtMost(n, b) \in Nat
  BY DEF AtMost
<1>5. SensorType'
  <2> DEFINE r(s) == AtMost(read_age[s] + 1, TooOld)
             d(s) == IF ready[s] THEN 0 ELSE AtMost(down_for[s] + 1, LongestDown + 1)
  <2>1. \A s \in Sensors : read_age[s] \in Nat /\ down_for[s] \in Nat
    BY DEF SensorInv, SensorType
  <2>2. \A s \in Sensors : r(s) \in Nat /\ d(s) \in Nat
    <3>1. \A n \in Nat : AtMost(n + 1, TooOld) \in Nat /\ AtMost(n + 1, LongestDown + 1) \in Nat
      BY <1>3 DEF AtMost
    <3> QED
      BY <2>1, <3>1
  <2>3. read_age' = [s \in Sensors |-> r(s)] /\ down_for' = [s \in Sensors |-> d(s)]
    BY <1>1
  <2> HIDE DEF r, d
  <2>4. read_age' \in [Sensors -> Nat] /\ down_for' \in [Sensors -> Nat]
    BY <2>2, <2>3
  <2>5. SensorType
    BY DEF SensorInv
  <2> QED
    BY <1>1, <1>2, <2>4, <2>5, SensorNumbers DEF SensorType
<1>6. DownInv'
  <2> SUFFICES ASSUME NEW s \in Sensors, ~ready[s]
               PROVE  /\ down_for'[s] <= Retry + loop_time'
                      /\ retry_at[s] = Plus(t', Retry - down_for'[s])
    BY <1>1 DEF DownInv
  <2>1. /\ down_for[s] \in Nat /\ down_for[s] <= Retry + loop_time
        /\ retry_at[s] = Plus(t, Retry - down_for[s])
    BY DEF SensorInv, SensorType, DownInv
  <2>2. down_for'[s] = down_for[s] + 1
    BY <1>1, <2>1, SensorNumbers DEF AtMost, LongestDown
  <2>3. Retry - down_for[s] \in Int
    BY <2>1, SensorNumbers
  <2>4. Plus(t', (Retry - down_for[s]) - 1) = Plus(t, Retry - down_for[s])
    BY <1>1, <2>3, PlusLater
  <2>5. (Retry - down_for[s]) - 1 = Retry - down_for'[s]
    BY <2>1, <2>2, SensorNumbers
  <2> QED
    BY <1>1, <2>1, <2>2, <2>4, <2>5, SensorNumbers
<1>7. AgeInv'
  <2> SUFFICES ASSUME NEW s \in Sensors, InUse(s)
               PROVE  \E a \in Nat : /\ a <= AgeLimit(s)'
                                     /\ last[s] = Plus(t', -a)
                                     /\ read_age'[s] = AtMost(a, TooOld)
    BY <1>1 DEF AgeInv, InUse
  <2>1. PICK a \in Nat : /\ a <= AgeLimit(s) /\ last[s] = Plus(t, -a)
                         /\ read_age[s] = AtMost(a, TooOld)
    BY DEF SensorInv, AgeInv
  <2>2. AgeLimit(s)' = AgeLimit(s) + 1 /\ AgeLimit(s) \in Nat
    <3>1. AgeLimit(s) \in Nat
      BY AgeInRange DEF SensorInv
    <3>2. Since(s) \in Nat
      BY SensorNumbers DEF Since
    <3>3. Unread(IF ready[s] THEN errors[s] ELSE ErrorLimit) \in Nat
      BY UnreadGrows, SensorNumbers DEF SensorInv, SensorType
    <3>4. Since(s)' = Since(s)
      BY <1>1 DEF Since
    <3> QED
      BY <1>1, <3>1, <3>2, <3>3, <3>4 DEF AgeLimit
  <2>3. last[s] = Plus(t', -(a + 1))
    <3>1. -a \in Int /\ -a - 1 = -(a + 1)
      OBVIOUS
    <3> QED
      BY <1>1, <2>1, <3>1, PlusLater
  <2>4. read_age'[s] = AtMost(a + 1, TooOld)
    BY <1>1, <1>3, <2>1 DEF AtMost
  <2>5. a + 1 \in Nat /\ a + 1 <= AgeLimit(s)'
    BY <2>1, <2>2
  <2> QED
    BY <2>3, <2>4, <2>5
<1>8. ValidIsRecent'
  BY <1>1 DEF SensorInv, ValidIsRecent
<1> QED
  BY <1>5, <1>6, <1>7, <1>8 DEF SensorInv

\* A sensor that is down past the retry time is due, so that after the top of
\* loop() none is; one that starts has no reading yet.
LEMMA IterateKeeps == ASSUME SensorInv, iterate PROVE SensorInv'
<1>0. /\ loop_time' = 0 /\ loop_time \in Nat /\ loop_time <= MaxLoop
      /\ t' = t /\ t \in Nat /\ t < ClockMod
  BY DEF iterate, SensorInv, SensorType
<1>1. /\ step = "top" /\ sample' = sample /\ t' = t
      /\ \/ step' = "read hall" /\ skipped' = FALSE
         \/ step' = "top" /\ ~skipped /\ skipped' = TRUE
  BY DEF iterate
<1>2. /\ ready' = [s \in Sensors |-> ready[s] \/ s \in Starting]
      /\ last' = [s \in Sensors |-> LastOf(s)]
      /\ errors' = [s \in Sensors |-> IF s \in Starting THEN 0 ELSE errors[s]]
      /\ retry_at' = [s \in Sensors |-> IF s \in RetryDue THEN Plus(t, Retry) ELSE retry_at[s]]
      /\ read_age' = [s \in Sensors |-> IF s \in Starting THEN TooOld ELSE read_age[s]]
      /\ down_for' = [s \in Sensors |-> IF s \in RetryDue THEN 0 ELSE down_for[s]]
  BY DEF iterate, maybeRetrySensors
<1>3. Plus(t, Retry) \in Nat /\ TooOld \in Nat
  <2>1. t + Retry \in Int
    BY <1>0, SensorNumbers
  <2> QED
    BY <2>1, ClockMods, SensorNumbers DEF Plus, TooOld
<1>4. SensorType'
  <2>1. \A s \in Sensors : ready[s] \in BOOLEAN /\ last[s] \in Nat /\ errors[s] \in Nat
            /\ errors[s] < ErrorLimit /\ retry_at[s] \in Nat /\ read_age[s] \in Nat /\ down_for[s] \in Nat
    BY DEF SensorInv, SensorType
  <2>2. ready' \in [Sensors -> BOOLEAN]
    BY <1>2, <2>1
  <2>3. last' \in [Sensors -> Nat] /\ errors' \in [Sensors -> Nat]
    BY <1>2, <2>1 DEF LastOf
  <2>4. retry_at' \in [Sensors -> Nat] /\ down_for' \in [Sensors -> Nat]
    BY <1>2, <1>3, <2>1
  <2>5. read_age' \in [Sensors -> Nat]
    BY <1>2, <1>3, <2>1
  <2>6. \A s \in Sensors : errors'[s] < ErrorLimit
    BY <1>2, <2>1, SensorNumbers
  <2>7. sample \in [valid : SUBSET Sensors, age : [Sensors -> Nat]]
    BY DEF SensorInv, SensorType
  <2> QED
    <3>1. loop_time' \in Nat /\ loop_time' <= MaxLoop
      BY <1>0, SensorNumbers
    <3> QED
      BY <1>0, <1>1, <2>2, <2>3, <2>4, <2>5, <2>6, <2>7, <3>1 DEF SensorType, LoopSteps
<1>5. DownInv'
  <2> SUFFICES ASSUME NEW s \in Sensors, ~ready'[s]
               PROVE  /\ down_for'[s] <= Retry + loop_time'
                      /\ retry_at'[s] = Plus(t, Retry - down_for'[s])
    BY <1>1 DEF DownInv
  <2>1. /\ ~ready[s]
        /\ down_for[s] \in Nat /\ down_for[s] <= Retry + loop_time
        /\ retry_at[s] = Plus(t, Retry - down_for[s])
    BY <1>2 DEF SensorInv, SensorType, DownInv
  <2>2. CASE s \in RetryDue
    <3>1. down_for'[s] = 0 /\ retry_at'[s] = Plus(t, Retry)
      BY <1>2, <2>2
    <3>2. Retry - 0 = Retry
      BY SensorNumbers
    <3> QED
      BY <1>0, <3>1, <3>2, SensorNumbers
  <2>3. CASE s \notin RetryDue
    <3>1. ~IsDue(t, retry_at[s])
      BY <2>1, <2>3 DEF RetryDue
    <3>2. ASSUME down_for[s] >= Retry PROVE FALSE
      <4> DEFINE a == down_for[s] - Retry
      <4>1. a \in Nat /\ 2 * a < ClockMod /\ a < ClockMod /\ Retry - down_for[s] = -a
        BY <1>0, <2>1, <3>2, SensorNumbers
      <4>2. Passed(t, retry_at[s]) = a
        BY <1>0, <2>1, <4>1, PassedSince
      <4> QED
        BY <3>1, <4>1, <4>2 DEF IsDue
    <3>3. down_for'[s] = down_for[s] /\ retry_at'[s] = retry_at[s]
      BY <1>2, <2>3
    <3> QED
      BY <1>0, <2>1, <3>2, <3>3, SensorNumbers
  <2> QED
    BY <2>2, <2>3
<1>6. AgeInv'
  <2> SUFFICES ASSUME NEW s \in Sensors, InUse(s)'
               PROVE  \E a \in Nat : /\ a <= AgeLimit(s)'
                                     /\ last'[s] = Plus(t, -a)
                                     /\ read_age'[s] = AtMost(a, TooOld)
    BY <1>1 DEF AgeInv
  <2>1. s \notin Starting
    BY <1>2 DEF InUse, LastOf
  <2>2. ready'[s] /\ last'[s] # 0
    BY <1>1 DEF InUse, AfterRead
  <2>3. /\ ready'[s] = ready[s] /\ last'[s] = last[s] /\ errors'[s] = errors[s]
        /\ read_age'[s] = read_age[s]
    BY <1>2, <2>1 DEF LastOf, SensorInv, SensorType
  <2>4. InUse(s)
    BY <1>1, <2>2, <2>3 DEF InUse
  <2>5. PICK a \in Nat : a <= AgeLimit(s) /\ last[s] = Plus(t, -a)
                         /\ read_age[s] = AtMost(a, TooOld)
    BY <2>4 DEF SensorInv, AgeInv
  <2>6. AgeLimit(s) \in Nat /\ AgeLimit(s)' \in Nat /\ AgeLimit(s) <= AgeLimit(s)'
    <3>1. Unread(errors[s]) \in Nat
      BY UnreadGrows DEF SensorInv, SensorType
    <3>2. Since(s) + MaxLoop <= Since(s)' /\ Since(s) \in Nat /\ Since(s)' \in Nat
      <4>1. Since(s)' = IF step' = "top" THEN MaxLoop ELSE 2 * MaxLoop
        BY <1>1 DEF Since, Before, Sensors
      <4>2. Since(s) = IF skipped THEN MaxLoop ELSE 0
        BY <1>1 DEF Since, Before, Sensors
      <4>3. step' = "top" => ~skipped
        BY <1>1
      <4> QED
        BY <4>1, <4>2, <4>3, SensorNumbers
    <3>3. /\ AgeLimit(s) = Unread(errors[s]) + Since(s) + loop_time
          /\ AgeLimit(s)' = Unread(errors[s]) + Since(s)' + loop_time'
      BY <2>2, <2>3 DEF AgeLimit
    <3> QED
      BY <1>0, <3>1, <3>2, <3>3, SensorNumbers
  <2> QED
    BY <2>3, <2>5, <2>6
<1>7. ValidIsRecent'
  BY <1>1 DEF SensorInv, ValidIsRecent
<1> QED
  BY <1>4, <1>5, <1>6, <1>7 DEF SensorInv

\* A reading that was taken is of age 0, and one that failed is one attempt older.
LEMMA ReadKeeps ==
  ASSUME SensorInv, NEW s \in Sensors, readSucceeds(s) \/ readFails(s) \/ readNotDue(s)
  PROVE  SensorInv'
<1>0. /\ loop_time' = loop_time /\ loop_time \in Nat /\ loop_time <= MaxLoop
      /\ t' = t /\ t \in Nat /\ t < ClockMod
  BY DEF readSucceeds, readFails, readNotDue, SensorInv, SensorType, sensors
<1>1. /\ ready[s] /\ step' = AfterRead(s) /\ skipped' = skipped /\ sample' = sample
      /\ step = (IF s = "hall" THEN "read hall" ELSE "read imu")
      /\ ~skipped
  BY DEF readSucceeds, readFails, readNotDue, Reads, SensorInv, SensorType
<1>2. /\ errors[s] \in Nat /\ errors[s] < ErrorLimit /\ Unread(errors[s]) \in Nat
      /\ Unread(errors[s] + 1) = Unread(errors[s]) + 2 * MaxLoop
      /\ Unread(ErrorLimit) \in Nat /\ Unread(errors[s]) + 2 * MaxLoop <= Unread(ErrorLimit)
      /\ Unread(errors[s]) >= ReadPeriod /\ Unread(0) \in Nat
  BY UnreadGrows, SensorNumbers DEF SensorInv, SensorType
<1>3. AgeLimit(s) = Unread(errors[s]) + 2 * MaxLoop + loop_time
  BY <1>1 DEF AgeLimit, Since, Before, Sensors
<1>4. AgeLimit(s)' = Unread(IF ready'[s] THEN errors'[s] ELSE ErrorLimit) + 0 + loop_time
  BY <1>0, <1>1 DEF AgeLimit, Since, Before, Sensors, AfterRead
<1>5. ASSUME NEW r \in Sensors, r # s, InUse(r)',
             UNCHANGED <<ready[r], last[r], errors[r], read_age[r]>>
      PROVE  InUse(r) /\ AgeLimit(r)' = AgeLimit(r)
  <2>1. CASE s = "hall" /\ r = "imu"
    <3>1. Since(r)' = Since(r) /\ InUse(r)
      BY <1>1, <1>5, <2>1 DEF Since, Before, AfterRead, InUse
    <3> QED
      BY <1>0, <1>5, <3>1 DEF AgeLimit
  <2>2. CASE s = "imu" /\ r = "hall"
    <3>1. Since(r)' = Since(r) /\ InUse(r)
      BY <1>1, <1>5, <2>2 DEF Since, Before, AfterRead, InUse
    <3> QED
      BY <1>0, <1>5, <3>1 DEF AgeLimit
  <2> QED
    BY <1>5, <2>1, <2>2 DEF Sensors
<1>6. ASSUME NEW r \in Sensors, r # s, InUse(r)',
             UNCHANGED <<ready[r], last[r], errors[r], read_age[r]>>
      PROVE  \E a \in Nat : /\ a <= AgeLimit(r)' /\ last'[r] = Plus(t', -a)
                            /\ read_age'[r] = AtMost(a, TooOld)
  <2>1. InUse(r) /\ AgeLimit(r)' = AgeLimit(r)
    BY <1>5, <1>6
  <2> QED
    BY <1>0, <1>6, <2>1 DEF SensorInv, AgeInv
<1>7. SensorType
  BY DEF SensorInv
<1>11. ASSUME /\ ready' \in [Sensors -> BOOLEAN] /\ last' \in [Sensors -> Nat]
              /\ errors' \in [Sensors -> Nat] /\ retry_at' \in [Sensors -> Nat]
              /\ read_age' \in [Sensors -> Nat] /\ down_for' \in [Sensors -> Nat]
              /\ \A r \in Sensors : errors'[r] < ErrorLimit
       PROVE  SensorType'
  <2>1. step' \in LoopSteps /\ skipped' \in BOOLEAN /\ ~skipped'
    BY <1>1, <1>7 DEF AfterRead, LoopSteps, SensorType
  <2> QED
    BY <1>0, <1>1, <1>7, <1>11, <2>1 DEF SensorType
<1>8. CASE readSucceeds(s)
  <2>1. /\ last' = [last EXCEPT ![s] = t] /\ errors' = [errors EXCEPT ![s] = 0]
        /\ read_age' = [read_age EXCEPT ![s] = 0]
        /\ UNCHANGED <<ready, retry_at, down_for>>
    BY <1>8 DEF readSucceeds
  <2>2. SensorType'
    BY <1>0, <1>7, <1>11, <2>1, SensorNumbers DEF SensorType
  <2>3. DownInv'
    BY <1>0, <2>1 DEF SensorInv, DownInv
  <2>4. AgeInv'
    <3> SUFFICES ASSUME NEW r \in Sensors, InUse(r)'
                 PROVE  \E a \in Nat : /\ a <= AgeLimit(r)' /\ last'[r] = Plus(t', -a)
                                       /\ read_age'[r] = AtMost(a, TooOld)
      BY DEF AgeInv
    <3>1. CASE r # s
      <4>1. UNCHANGED <<ready[r], last[r], errors[r], read_age[r]>>
        BY <1>7, <2>1, <3>1 DEF SensorType
      <4> QED
        BY <1>6, <3>1, <4>1
    <3>2. CASE r = s
      <4>1. AgeLimit(s)' = Unread(0) + 0 + loop_time
        BY <1>1, <1>4, <1>7, <2>1 DEF SensorType
      <4>2. last'[s] = t /\ read_age'[s] = 0
        BY <1>7, <2>1 DEF SensorType
      <4>3. Plus(t, -0) = t /\ AtMost(0, TooOld) = 0
        BY <1>0, ClockMods, SensorNumbers DEF Plus, AtMost, TooOld
      <4> QED
        BY <1>0, <1>2, <3>2, <4>1, <4>2, <4>3
    <3> QED
      BY <3>1, <3>2
  <2> QED
    BY <1>1, <2>2, <2>3, <2>4 DEF SensorInv, ValidIsRecent
<1>9. CASE readFails(s)
  <2>1. UNCHANGED <<last, read_age>>
    BY <1>9 DEF readFails
  <2>2. CASE errors[s] + 1 < ErrorLimit
    <3>1. errors' = [errors EXCEPT ![s] = @ + 1] /\ UNCHANGED <<ready, retry_at, down_for>>
      BY <1>9, <2>2 DEF readFails
    <3>2. SensorType'
      BY <1>2, <1>7, <1>11, <2>1, <2>2, <3>1 DEF SensorType
    <3>3. DownInv'
      BY <1>0, <3>1 DEF SensorInv, DownInv
    <3>4. AgeInv'
      <4> SUFFICES ASSUME NEW r \in Sensors, InUse(r)'
                   PROVE  \E a \in Nat : /\ a <= AgeLimit(r)' /\ last'[r] = Plus(t', -a)
                                         /\ read_age'[r] = AtMost(a, TooOld)
        BY DEF AgeInv
      <4>1. CASE r # s
        <5>1. UNCHANGED <<ready[r], last[r], errors[r], read_age[r]>>
          BY <1>7, <2>1, <3>1, <4>1 DEF SensorType
        <5> QED
          BY <1>6, <4>1, <5>1
      <4>2. CASE r = s
        <5>1. InUse(s)
          BY <1>1, <2>1, <3>1, <4>2 DEF InUse, LoopSteps
        <5>2. AgeLimit(s)' = Unread(errors[s] + 1) + 0 + loop_time
          BY <1>1, <1>4, <1>7, <3>1 DEF SensorType
        <5>3. AgeLimit(s)' = AgeLimit(s)
          BY <1>0, <1>2, <1>3, <5>2, SensorNumbers
        <5> QED
          BY <1>0, <2>1, <4>2, <5>1, <5>3 DEF SensorInv, AgeInv
      <4> QED
        BY <4>1, <4>2
    <3> QED
      BY <1>1, <3>2, <3>3, <3>4 DEF SensorInv, ValidIsRecent
  <2>3. CASE ~(errors[s] + 1 < ErrorLimit)
    <3>1. /\ ready' = [ready EXCEPT ![s] = FALSE] /\ errors' = [errors EXCEPT ![s] = 0]
          /\ retry_at' = [retry_at EXCEPT ![s] = Plus(t, Retry)]
          /\ down_for' = [down_for EXCEPT ![s] = 0]
      BY <1>9, <2>3 DEF readFails, Lost
    <3>2. Plus(t, Retry) \in Nat /\ Retry - 0 = Retry
      <4>1. t + Retry \in Int
        BY <1>0, SensorNumbers
      <4> QED
        BY <4>1, ClockMods, SensorNumbers DEF Plus
    <3>3. SensorType'
      BY <1>7, <1>11, <2>1, <3>1, <3>2, SensorNumbers DEF SensorType
    <3>4. DownInv'
      <4> SUFFICES ASSUME NEW r \in Sensors, ~ready'[r]
                   PROVE  /\ down_for'[r] <= Retry + loop_time
                          /\ retry_at'[r] = Plus(t, Retry - down_for'[r])
        BY <1>0 DEF DownInv
      <4>1. CASE r # s
        BY <1>7, <3>1, <4>1 DEF SensorType, SensorInv, DownInv
      <4>2. CASE r = s
        BY <1>0, <1>7, <3>1, <3>2, <4>2, SensorNumbers DEF SensorType
      <4> QED
        BY <4>1, <4>2
    <3>5. AgeInv'
      <4> SUFFICES ASSUME NEW r \in Sensors, InUse(r)'
                   PROVE  \E a \in Nat : /\ a <= AgeLimit(r)' /\ last'[r] = Plus(t', -a)
                                         /\ read_age'[r] = AtMost(a, TooOld)
        BY DEF AgeInv
      <4>1. CASE r # s
        <5>1. UNCHANGED <<ready[r], last[r], errors[r], read_age[r]>>
          BY <1>7, <2>1, <3>1, <4>1 DEF SensorType
        <5> QED
          BY <1>6, <4>1, <5>1
      <4>2. CASE r = s
        <5>1. InUse(s)
          BY <1>1, <2>1, <4>2 DEF InUse
        <5>2. AgeLimit(s)' = Unread(ErrorLimit) + 0 + loop_time
          BY <1>4, <1>7, <3>1 DEF SensorType
        <5>3. AgeLimit(s) <= AgeLimit(s)'
          BY <1>0, <1>2, <1>3, <5>2, SensorNumbers
        <5>4. AgeLimit(s) \in Nat /\ AgeLimit(s)' \in Nat
          BY <1>0, <1>2, <1>3, <5>2, SensorNumbers
        <5>5. PICK a \in Nat : /\ a <= AgeLimit(s) /\ last[s] = Plus(t, -a)
                               /\ read_age[s] = AtMost(a, TooOld)
          BY <5>1 DEF SensorInv, AgeInv
        <5> QED
          BY <1>0, <2>1, <4>2, <5>3, <5>4, <5>5
      <4> QED
        BY <4>1, <4>2
    <3> QED
      BY <1>1, <3>3, <3>4, <3>5 DEF SensorInv, ValidIsRecent
  <2> QED
    BY <2>2, <2>3
<1>10. CASE readNotDue(s)
  <2>1. UNCHANGED <<ready, last, errors, retry_at, read_age, down_for>>
    BY <1>10 DEF readNotDue, sensors
  <2>2. SensorType' /\ DownInv'
    BY <1>0, <1>1, <1>7, <2>1 DEF SensorType, LoopSteps, AfterRead, SensorInv, DownInv
  <2>3. AgeInv'
    <3> SUFFICES ASSUME NEW r \in Sensors, InUse(r)'
                 PROVE  \E a \in Nat : /\ a <= AgeLimit(r)' /\ last'[r] = Plus(t', -a)
                                       /\ read_age'[r] = AtMost(a, TooOld)
      BY DEF AgeInv
    <3>1. CASE r # s
      BY <1>6, <2>1, <3>1
    <3>2. CASE r = s
      <4>1. InUse(s)
        BY <1>1, <2>1, <3>2 DEF InUse
      <4>2. PICK a \in Nat : /\ a <= AgeLimit(s) /\ last[s] = Plus(t, -a)
                             /\ read_age[s] = AtMost(a, TooOld) /\ SampleAge(t, last[s]) = a
        BY <1>7, <4>1, AgeIsTrue DEF SensorInv
      <4>3. a < ReadPeriod
        BY <1>10, <4>2, SensorNumbers DEF readNotDue, ShouldRead, SampleAge
      <4>4. a <= AgeLimit(s)'
        <5>1. AgeLimit(s)' = Unread(errors[s]) + 0 + loop_time
          BY <1>1, <1>4, <2>1
        <5> QED
          BY <1>0, <1>2, <4>3, <5>1, SensorNumbers
      <4> QED
        BY <1>0, <2>1, <3>2, <4>2, <4>4
    <3> QED
      BY <3>1, <3>2
  <2> QED
    BY <1>1, <2>2, <2>3 DEF SensorInv, ValidIsRecent
<1> QED
  BY <1>8, <1>9, <1>10

\* What a sample calls valid was read that recently.
LEMMA CheckKeeps == ASSUME SensorInv, NEW s \in Sensors, check(s) PROVE SensorInv'
<1>1. /\ step = AfterRead(s) /\ step' = AfterCheck(s)
      /\ UNCHANGED <<t, skipped, ready, last, errors, retry_at, read_age, down_for, loop_time>>
      /\ sample' = IF IsValid(s) THEN [sample EXCEPT !.valid = @ \cup {s}, !.age[s] = read_age[s]]
                   ELSE sample
  BY DEF check, sensors
<1>2. sample \in [valid : SUBSET Sensors, age : [Sensors -> Nat]]
      /\ read_age \in [Sensors -> Nat] /\ ~skipped
  BY <1>1 DEF SensorInv, SensorType, AfterRead
<1>3. SensorType'
  <2>1. sample' \in [valid : SUBSET Sensors, age : [Sensors -> Nat]]
    BY <1>1, <1>2
  <2>2. step' \in LoopSteps
    BY <1>1 DEF AfterCheck, LoopSteps
  <2> QED
    BY <1>1, <1>2, <2>1, <2>2 DEF SensorInv, SensorType
<1>4. DownInv'
  BY <1>1 DEF SensorInv, DownInv
<1>5. AgeInv'
  <2> SUFFICES ASSUME NEW r \in Sensors, InUse(r)'
               PROVE  InUse(r) /\ AgeLimit(r)' = AgeLimit(r)
    BY <1>1 DEF SensorInv, AgeInv
  <2>1. InUse(r)
    BY <1>1 DEF InUse, AfterRead, AfterCheck, Sensors
  <2>2. Since(r)' = Since(r)
    BY <1>1, <1>2 DEF Since, Before, AfterRead, AfterCheck, Sensors
  <2> QED
    BY <1>1, <2>1, <2>2 DEF AgeLimit
<1>6. ValidIsRecent'
  <2>1. ASSUME IsValid(s) PROVE read_age[s] <= MaxStale
    <3>1. SampleAge(t, last[s]) <= MaxStale
      BY <2>1 DEF IsValid
    <3>2. last[s] # 0
      BY <3>1, SensorNumbers DEF SampleAge
    <3>3. InUse(s)
      BY <1>1, <3>2 DEF InUse, AfterRead
    <3>4. PICK a \in Nat : read_age[s] = AtMost(a, TooOld) /\ SampleAge(t, last[s]) = a
      BY <3>3, AgeIsTrue DEF SensorInv
    <3> QED
      BY <3>1, <3>4, SensorNumbers DEF AtMost, TooOld
  <2>2. CASE IsValid(s)
    <3>1. sample'.valid = sample.valid \cup {s}
          /\ \A r \in Sensors : sample'.age[r] = IF r = s THEN read_age[s] ELSE sample.age[r]
      BY <1>1, <1>2, <2>2
    <3> QED
      BY <1>2, <2>1, <2>2, <3>1 DEF SensorInv, ValidIsRecent
  <2>3. CASE ~IsValid(s)
    BY <1>1, <2>3 DEF SensorInv, ValidIsRecent
  <2> QED
    BY <2>2, <2>3
<1> QED
  BY <1>3, <1>4, <1>5, <1>6 DEF SensorInv

THEOREM SensorInvHolds == SensorSpec => []SensorInv
<1>1. SensorInv /\ [SensorNext]_sensorVars => SensorInv'
  BY SensorsBooted, QuietSteps, TimeAges, IterateKeeps, ReadKeeps, CheckKeeps
     DEF SensorNext, SensorLoop
<1> QED
  BY SensorsBooted, <1>1, PTL DEF SensorSpec

\* ValidIsRecent, "wrap-safe for small ages" (brush_sensor_status.h:5): whatever
\* fails and comes back, and wherever the 32-bit clock wraps, what c3_node.cpp
\* calls valid was read since its sensor was started and no longer ago than
\* MAX_STALE_US.
THEOREM ValidReadingsAreRecent == SensorSpec => []ValidIsRecent
<1>1. SensorInv => ValidIsRecent
  BY DEF SensorInv
<1> QED
  BY <1>1, SensorInvHolds, PTL

\* SensorIsRetried: maybeRetrySensors() tries a lost sensor again within
\* SENSOR_RETRY_US and an iteration of loop(), wherever the clock wraps.
THEOREM SensorsAreRetried == SensorSpec => []SensorIsRetried
<1>1. ASSUME SensorInv PROVE SensorIsRetried
  <2> SUFFICES ASSUME NEW s \in Sensors, ~ready[s] PROVE down_for[s] <= LongestDown
    BY DEF SensorIsRetried
  <2>1. down_for[s] <= Retry + loop_time /\ down_for[s] \in Nat
        /\ loop_time \in Nat /\ loop_time <= MaxLoop
    BY <1>1 DEF SensorInv, DownInv, SensorType
  <2> QED
    BY <2>1, SensorNumbers DEF LongestDown
<1> QED
  BY <1>1, SensorInvHolds, PTL
=============================================================================
