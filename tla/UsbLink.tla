------------------------------ MODULE UsbLink ------------------------------
(***************************************************************************)
(* The serial line between the S3 base and the computer, in packets: what  *)
(* loop() of src/s3_engine.cpp writes and answers, and the reader thread   *)
(* of studio/brush_serial.py with its estimate of the base's clock.        *)
(*                                                                         *)
(* The line is a USB bridge, which stays plugged in while the base behind  *)
(* it starts again.  A DATA packet is a member of the recording's queue in *)
(* Capture; here it counts for the clock that its time is mapped with.     *)
(*                                                                         *)
(* Times are abstracted to what tells right from wrong: t0 of a request is *)
(* its nonce, an observation of the clock says whether it starts at the t0 *)
(* of the request it answers, and names the boot whose clock it shows.     *)
(* A fit through observations of two boots has a slope far from 1, and is  *)
(* refused.                                                                *)
(***************************************************************************)
EXTENDS Integers, Sequences, FiniteSets, SequencesExt

CONSTANTS
  LineLength,   (* packets the S3's transmit buffer has room for *)
  CommandLength,(* commands the S3's receive buffer has room for *)
  NonceMod,     (* the nonces count modulo this: 2^32 *)
  PruneAbove,   (* 64 requests without an answer are too many *)
  PruneTo,      (* ... and the 32 newest are kept *)
  MaxObs,       (* max_observations = 96 *)
  KeepMin,      (* 4 observations are enough to be synced *)
  KeepMax,      (* 32 observations are fitted at most *)
  RoundTrips,   (* round trips, which the observations are sorted by *)
  MaxRestarts   (* bound: restarts of the S3 and of the pen node *)

ASSUME UsbAssumption ==
  /\ {LineLength, CommandLength, NonceMod, PruneAbove, MaxObs, KeepMin} \subseteq Nat \ {0}
  /\ PruneTo \in 0 .. PruneAbove
  /\ KeepMax \in KeepMin .. MaxObs
  /\ RoundTrips \subseteq Nat
  /\ MaxRestarts \in Nat

VARIABLES
  attached,      (* there is a computer on the line *)
  boot,          (* the S3's start *)
  node,          (* boot_id of the pen node *)
  last_boot_id,  (* the S3's last_boot_id; 0: no META yet, have_meta is false *)
  stream_to_usb,
  toHost,        (* packets written by the S3, not yet read *)
  toBase,        (* commands written by the host, not yet processed *)
  running,       (* the reader thread runs, with the port open *)
  greeted,       (* start() has sent its commands *)
  sync_nonce,
  sync_sent,     (* _sync_sent: [nonce, t0], oldest first *)
  obs,           (* clock.obs: [matched, boot, rtt], oldest first *)
  fit,           (* the boot whose clock slope and offset stand for; 0: none *)
  synced,
  boot_id        (* _boot_id; 0: no HELLO yet *)

baseVars  == <<boot, node, last_boot_id, stream_to_usb>>
clockVars == <<obs, fit, synced>>
hostVars  == <<running, greeted, sync_nonce, sync_sent, clockVars, boot_id>>
usbVars   == <<attached, baseVars, toHost, toBase, hostVars>>

Blank ==
  /\ boot = 1 /\ node = 1 /\ last_boot_id = 0
  /\ stream_to_usb = TRUE
  /\ toHost = <<>> /\ toBase = <<>>
  /\ running = FALSE
  /\ greeted = FALSE
  /\ sync_nonce = 0
  /\ sync_sent = <<>>
  /\ obs = <<>> /\ fit = 0 /\ synced = FALSE
  /\ boot_id = 0

UsbInit == attached = TRUE /\ Blank

\* A base on a charger.
UsbUnused == attached = FALSE /\ Blank

-----------------------------------------------------------------------------
(* The S3 base.  Its commands wait while loop() is held up by a connect(). *)

\* usbWrite(): a packet there is no room for is dropped and counted.
usbWrite(packet) ==
  toHost' = IF Len(toHost) < LineLength THEN Append(toHost, packet) ELSE toHost

sendHello ==
  IF last_boot_id = 0 THEN UNCHANGED toHost
  ELSE usbWrite([type |-> "HELLO", boot_id |-> last_boot_id])

\* receiveMeta(): a first META, or one of a node that has started again.
receiveMeta ==
  /\ attached
  /\ last_boot_id # node
  /\ last_boot_id' = node
  /\ usbWrite([type |-> "HELLO", boot_id |-> node])
  /\ UNCHANGED <<attached, boot, node, stream_to_usb, toBase, hostVars>>

\* loop(): HELLO_INTERVAL_MS have passed.
helloDue ==
  /\ attached
  /\ sendHello
  /\ UNCHANGED <<attached, baseVars, toBase, hostVars>>

\* receiveFrame()
receiveFrame ==
  /\ attached
  /\ stream_to_usb
  /\ usbWrite([type |-> "DATA", boot |-> boot])
  /\ UNCHANGED <<attached, baseVars, toBase, hostVars>>

\* handleHostCommand(): the answer names the request and the time it was served at.
AnswerTo(command) ==
  [type |-> "SYNC_RESP", nonce |-> command.nonce, host_tx |-> command.nonce,
   mine |-> command.mine, boot |-> boot]

handleHostCommand ==
  LET command == Head(toBase) IN
  /\ attached
  /\ toBase # <<>>
  /\ toBase' = Tail(toBase)
  /\ CASE command.type = "SYNC" -> usbWrite(AnswerTo(command))
       [] OTHER -> sendHello
  /\ stream_to_usb' = (command.type = "START" \/ stream_to_usb)
  /\ UNCHANGED <<attached, boot, node, last_boot_id, hostVars>>

Restarts == (boot - 1) + (node - 1)

\* A reset or a brown-out of the S3.  The bridge keeps the port open, and what
\* has left a buffer already, in either direction.
baseRestarts ==
  /\ attached
  /\ Restarts < MaxRestarts
  /\ boot' = boot + 1
  /\ last_boot_id' = 0
  /\ stream_to_usb' = TRUE
  /\ \E n \in 0 .. Len(toHost) : toHost' = SubSeq(toHost, 1, n)
  /\ \E n \in 1 .. Len(toBase) + 1 : toBase' = SubSeq(toBase, n, Len(toBase))
  /\ UNCHANGED <<attached, node, hostVars>>

nodeRestarts ==
  /\ attached
  /\ Restarts < MaxRestarts
  /\ node' = node + 1
  /\ UNCHANGED <<attached, boot, last_boot_id, stream_to_usb, toHost, toBase, hostVars>>

Base == \/ receiveMeta \/ helloDue \/ receiveFrame \/ handleHostCommand
        \/ baseRestarts \/ nodeRestarts

-----------------------------------------------------------------------------
(* The host: BrushSerial. *)

\* A write that does not go through in 50 ms raises.
Room == Len(toBase) < CommandLength

NoSession ==
  /\ sync_nonce' = 0
  /\ sync_sent' = <<>>
  /\ obs' = <<>> /\ fit' = 0 /\ synced' = FALSE
  /\ boot_id' = 0

\* A new receiver.  Opening the port discards what was received on it, not what
\* the base has yet to read.
openPort ==
  /\ attached
  /\ ~running
  /\ running' = TRUE
  /\ greeted' = FALSE
  /\ toHost' = <<>>
  /\ toBase' = [i \in 1 .. Len(toBase) |->
                  IF toBase[i].type = "SYNC" THEN [toBase[i] EXCEPT !.mine = FALSE]
                  ELSE toBase[i]]
  /\ NoSession
  /\ UNCHANGED <<attached, baseVars>>

\* start(): START, beside the thread that runs already (and a PING before it,
\* with the same answer).
start ==
  /\ running
  /\ ~greeted
  /\ Room
  /\ greeted' = TRUE
  /\ toBase' = Append(toBase, [type |-> "START"])
  /\ UNCHANGED <<attached, baseVars, toHost, running, sync_nonce, sync_sent, clockVars,
                 boot_id>>

\* close(), after an error of the port or a request of the user.
closePort ==
  /\ running
  /\ running' = FALSE
  /\ greeted' = FALSE
  /\ NoSession
  /\ UNCHANGED <<attached, baseVars, toHost, toBase>>

\* Too many requests without an answer: the oldest are forgotten.
Pruned(sent) ==
  IF Len(sent) > PruneAbove THEN SubSeq(sent, Len(sent) - PruneTo + 1, Len(sent)) ELSE sent

\* A dict in the order of insertion, in which an entry keeps its place.
Entries(nonce) == {i \in 1 .. Len(sync_sent) : sync_sent[i].nonce = nonce}
Note(nonce) ==
  IF Entries(nonce) # {} THEN sync_sent
  ELSE Append(sync_sent, [nonce |-> nonce, t0 |-> nonce])
Without(nonce) ==
  IF Entries(nonce) = {} THEN sync_sent
  ELSE RemoveAt(sync_sent, CHOOSE i \in Entries(nonce) : TRUE)

\* send_sync().  A write that fails leaves the request noted.
send_sync ==
  LET nonce == (sync_nonce + 1) % NonceMod
      noted == Note(nonce)
  IN
  /\ running
  /\ sync_nonce' = nonce
  /\ IF Room
       THEN /\ toBase' = Append(toBase, [type |-> "SYNC", nonce |-> nonce, mine |-> TRUE])
            /\ sync_sent' = Pruned(noted)
       ELSE sync_sent' = noted /\ UNCHANGED toBase
  /\ UNCHANGED <<attached, baseVars, toHost, running, greeted, clockVars, boot_id>>

\* ClockDiscipline._fit(): the observations with the shortest round trips.
Shortest(seen) ==
  LET kept == LET most == Len(seen) \div 2
                  some == IF most > KeepMin THEN most ELSE KeepMin
              IN  IF some < KeepMax THEN some ELSE KeepMax
      Before(i, j) == seen[i].rtt < seen[j].rtt \/ (seen[i].rtt = seen[j].rtt /\ i < j)
      Rank(i) == Cardinality({j \in 1 .. Len(seen) : Before(j, i)})
  IN  {i \in 1 .. Len(seen) : Rank(i) < kept}

\* Faulty variant: the observations with the shortest round trips stay for ever.
NewestKeepingBest(seen) ==
  IF Len(seen) <= MaxObs THEN seen
  ELSE RemoveAt(seen, CHOOSE i \in 1 .. Len(seen) : \A j \in 1 .. Len(seen) : seen[j].rtt <= seen[i].rtt)

\* deque(maxlen): the oldest observation makes room.
Newest(seen) == IF Len(seen) <= MaxObs THEN seen ELSE Tail(seen)

\* ClockDiscipline.add()
add(observation) ==
  LET seen == Newest(Append(obs, observation))
      good == Shortest(seen)
      boots == {seen[i].boot : i \in good}
  IN
  /\ obs' = seen
  /\ IF Cardinality(good) = 1
       THEN fit' = observation.boot /\ synced' = FALSE
       ELSE IF Cardinality(boots) = 1
       THEN fit' \in boots /\ synced' = (Cardinality(good) >= KeepMin)
       ELSE UNCHANGED <<fit, synced>>

\* Faulty variant: the answers are taken in the order of the requests.
AskedAtInOrder(answer) == IF sync_sent = <<>> THEN answer.host_tx ELSE Head(sync_sent).t0

\* _sync_sent.pop(nonce, host_tx_ns)
AskedAt(answer) ==
  IF Entries(answer.nonce) = {} THEN answer.host_tx
  ELSE sync_sent[CHOOSE i \in Entries(answer.nonce) : TRUE].t0

\* _handle_packet(SYNC_RESP)
readAnswer(packet) ==
  /\ packet.type = "SYNC_RESP"
  /\ \E rtt \in RoundTrips :
       add([matched |-> packet.mine => AskedAt(packet) = packet.nonce,
            boot |-> packet.boot, rtt |-> rtt])
  /\ sync_sent' = Without(packet.nonce)
  /\ UNCHANGED boot_id

\* _handle_packet(HELLO): a pen that has started again also resets the clock.
readHello(packet) ==
  /\ packet.type = "HELLO"
  /\ IF boot_id \notin {0, packet.boot_id}
       THEN obs' = <<>> /\ fit' = 0 /\ synced' = FALSE
       ELSE UNCHANGED clockVars
  /\ boot_id' = packet.boot_id
  /\ UNCHANGED sync_sent

\* _decode_data(): the time of the sample on the host's clock.
readData(packet) ==
  /\ packet.type = "DATA"
  /\ UNCHANGED <<sync_sent, clockVars, boot_id>>

\* _consume_rx() and _handle_packet(), for the next packet.
consume_rx ==
  LET packet == Head(toHost) IN
  /\ running
  /\ toHost # <<>>
  /\ toHost' = Tail(toHost)
  /\ readAnswer(packet) \/ readHello(packet) \/ readData(packet)
  /\ UNCHANGED <<attached, baseVars, toBase, running, greeted, sync_nonce>>

answerRead == consume_rx /\ Head(toHost).type = "SYNC_RESP"

Host == openPort \/ start \/ closePort \/ send_sync \/ consume_rx

UsbNext == Base \/ Host

UsbSpec == UsbInit /\ [][UsbNext]_usbVars

-----------------------------------------------------------------------------
\* However many requests or answers are lost, late or forgotten: an observation
\* starts at the time of the request that it answers.  (An answer to a request
\* of an earlier session may be taken for one of this session.)
AnswersMatchRequests ==
  \A i \in 1 .. Len(obs) : obs[i].matched

\* A base that starts again goes unnoticed, but its clock is learnt in the end:
\* while the port stays open and answers keep arriving, as one does a second,
\* samples come to be mapped with the clock that stamped them, and stay so.
ClockRecovers ==
  <>[]running /\ []<><<answerRead>>_usbVars => <>[](synced /\ fit = boot)
=============================================================================
