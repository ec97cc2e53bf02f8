------------------------------ MODULE FrameShm ------------------------------
(***************************************************************************)
(* The camera's frames in shared memory, hp60c_v13/: FrameWriter.publish() *)
(* and write_worker() of the worker process, Reader.try_get_latest() of    *)
(* the reading process, and what the supervisor does to the mapping when   *)
(* it starts a worker again.  There is no lock: two frame slots and the    *)
(* worker block carry sequence counters, odd while they are written.       *)
(*                                                                         *)
(* A step is one access that another process can see apart from the next   *)
(* one.  The fields of the worker block are in two groups, "front"         *)
(* (generation to packet_id) and "back" (active_slot and flags), written   *)
(* and read in this order.  The contents of a frame are not modelled: what *)
(* lies in memory is the number, in order of publication, of the packet it *)
(* belongs to.  A worker may be killed between any two of its steps.       *)
(***************************************************************************)
EXTENDS Integers, Sequences

CONSTANTS
  FieldCount,     (* 1 is RGB, 2 is depth, 3 is the point cloud *)
  Offers,         (* the sets of fields the camera may come up with *)
  MaxPackets,     (* bound: packets published in a behaviour *)
  MaxEvents       (* bound: workers and supervisors started again, and heartbeats *)

ASSUME ShmAssumption ==
  /\ FieldCount \in Nat \ {0}
  /\ Offers \subseteq SUBSET (1 .. FieldCount) \ {{}}
  /\ {MaxPackets, MaxEvents} \subseteq Nat

Fields == 1 .. FieldCount
Slots  == {0, 1}
NoSlot == 2     (* 0xFFFFFFFF *)

VARIABLES
  sup_generation, (* SUP_GENERATION, of the supervisor's block *)
  supervisors,    (* supervisors started so far *)
  block,          (* the worker block: [seq, front, back] *)
  slots,          (* the two frame slots, headers and payload *)
  wpc,            (* where the worker is; "off" when there is none *)
  writer,         (* its FrameWriter: [generation, packet_id] *)
  slot,           (* publish(): the slot it is filling *)
  todo,           (* publish(): fields still to be copied *)
  pending,        (* write_worker(): what it is going to store *)
  log,            (* history: the packets published, in order *)
  committed,      (* history: how many of them the block has named *)
  beats,          (* history: heartbeats *)
  inherited,      (* history: packets published under earlier supervisors *)
  rpc,            (* where try_get_latest() is; "idle" outside *)
  reader,         (* its local variables *)
  last            (* last_packet: what it returned before *)

mapping   == <<block, slots>>
producer  == <<wpc, writer, slot, todo, pending>>
history   == <<log, committed, beats>>
reading   == <<rpc, reader, last>>
framesVars ==  <<sup_generation, supervisors, inherited, mapping, producer, history, reading>>

Odd(n) == n % 2 = 1

NextOdd(n) == IF Odd(n) THEN n + 2 ELSE n + 1

\* The least of a set of fields: they are copied in this order.
IsNext(f, set) == f \in set /\ \A g \in set : f <= g

EmptyBlock(g) ==
  [seq |-> 0,
   front |-> [generation |-> g, state |-> "DETACHED", packet_id |-> 0],
   back |-> [active_slot |-> NoSlot, flags |-> {}]]

EmptySlot ==
  [seq |-> 0, generation |-> 0, packet_id |-> 0, sized |-> {},
   payload |-> [f \in Fields |-> 0]]

NoReader ==
  [generation |-> 0, seq |-> 0, front |-> EmptyBlock(0).front,
   back |-> EmptyBlock(0).back, again |-> FALSE, slot |-> NoSlot, header |-> EmptySlot,
   before |-> 0, todo |-> {}, payload |-> [f \in Fields |-> 0], since |-> 0]

Nothing ==
  [generation |-> 0, packet_id |-> 0, fields |-> {},
   payload |-> [f \in Fields |-> 0], since |-> 0]

NoWrite == [front |-> EmptyBlock(0).front, back |-> EmptyBlock(0).back]

\* setup_shared_memory() and the first spawn() are done; the worker is not yet
\* at its first write_worker().
FramesInit ==
  /\ sup_generation = 1
  /\ supervisors = 1
  /\ block = EmptyBlock(1)
  /\ slots = [s \in Slots |-> EmptySlot]
  /\ wpc = "start"
  /\ writer = [generation |-> 1, packet_id |-> 0]
  /\ slot = NoSlot
  /\ todo = {}
  /\ pending = NoWrite
  /\ log = <<>>
  /\ committed = 0
  /\ beats = 0
  /\ inherited = 0
  /\ rpc = "idle"
  /\ reader = NoReader
  /\ last = Nothing

Events == (sup_generation - 1) + (supervisors - 1) + beats

-----------------------------------------------------------------------------
(* The worker: write_worker(), in four steps. *)

BeginBlock(front, back) ==
  /\ block' = [block EXCEPT !.seq = NextOdd(@)]
  /\ pending' = [front |-> front, back |-> back]
  /\ wpc' = "front"

storeFront ==
  /\ wpc = "front"
  /\ block' = [block EXCEPT !.front = pending.front]
  /\ wpc' = "back"
  /\ UNCHANGED <<sup_generation, supervisors, inherited, slots, writer, slot, todo, pending, history, reading>>

storeBack ==
  /\ wpc = "back"
  /\ block' = [block EXCEPT !.back = pending.back]
  /\ wpc' = "even"
  /\ UNCHANGED <<sup_generation, supervisors, inherited, slots, writer, slot, todo, pending, history, reading>>

storeEven ==
  /\ wpc = "even"
  /\ block' = [block EXCEPT !.seq = @ + 1]
  /\ wpc' = IF block.front.state \in {"STOPPING", "ERROR"} THEN "off" ELSE "loop"
  /\ committed' = IF block.front.packet_id > 0 THEN Len(log) ELSE committed
  /\ pending' = NoWrite
  /\ UNCHANGED <<sup_generation, supervisors, inherited, slots, writer, slot, todo, log, beats, reading>>

\* main(), before the loop.
writeFirst ==
  /\ wpc = "start"
  /\ BeginBlock([generation |-> writer.generation, state |-> "STARTING",
                 packet_id |-> block.front.packet_id],
                block.back)
  /\ UNCHANGED <<sup_generation, supervisors, inherited, slots, writer, slot, todo, history, reading>>

\* The loop of main(): a heartbeat every 100 ms, with or without frames.
writeHeartbeat ==
  /\ wpc = "loop"
  /\ Events < MaxEvents
  /\ beats' = beats + 1
  /\ BeginBlock([generation |-> writer.generation,
                 state |-> IF writer.packet_id > 0 THEN "ONLINE" ELSE "STARTING",
                 packet_id |-> block.front.packet_id],
                block.back)
  /\ UNCHANGED <<sup_generation, supervisors, inherited, slots, writer, slot, todo, log, committed, reading>>

\* stop_requested(), or an exception.
writeLast ==
  /\ wpc = "loop"
  /\ \E state \in {"STOPPING", "ERROR"} :
       BeginBlock([generation |-> writer.generation, state |-> state,
                   packet_id |-> block.front.packet_id],
                  block.back)
  /\ UNCHANGED <<sup_generation, supervisors, inherited, slots, writer, slot, todo, history, reading>>

-----------------------------------------------------------------------------
(* The worker: publish(). *)

\* Faulty variant: the slot readers are sent to is filled.
FreeSlotActive == IF block.back.active_slot \in Slots THEN block.back.active_slot ELSE 0

FreeSlot == IF block.back.active_slot \in Slots THEN 1 - block.back.active_slot ELSE 0

beginPublish ==
  /\ wpc = "loop"
  /\ Len(log) < MaxPackets
  /\ \E fields \in Offers :
       /\ todo' = fields
       /\ log' = Append(log, [generation |-> writer.generation,
                              packet_id |-> writer.packet_id + 1,
                              fields |-> fields])
  /\ writer' = [writer EXCEPT !.packet_id = @ + 1]
  /\ slot' = FreeSlot
  /\ slots' = [slots EXCEPT ![FreeSlot].seq = NextOdd(@)]
  /\ wpc' = "header"
  /\ UNCHANGED <<sup_generation, supervisors, inherited, block, pending, committed, beats, reading>>

\* The sizes of fields left out stay what they were.
storeHeader ==
  /\ wpc = "header"
  /\ slots' = [slots EXCEPT ![slot].generation = writer.generation,
                            ![slot].packet_id = writer.packet_id,
                            ![slot].sized = @ \cup todo]
  /\ wpc' = "payload"
  /\ UNCHANGED <<sup_generation, supervisors, inherited, block, writer, slot, todo, pending, history, reading>>

storeField ==
  /\ wpc = "payload"
  /\ \E f \in Fields :
       /\ IsNext(f, todo)
       /\ slots' = [slots EXCEPT ![slot].payload[f] = Len(log)]
       /\ todo' = todo \ {f}
  /\ UNCHANGED <<sup_generation, supervisors, inherited, block, wpc, writer, slot, pending, history, reading>>

commitSlot ==
  /\ wpc = "payload"
  /\ todo = {}
  /\ slots' = [slots EXCEPT ![slot].seq = @ + 1]
  /\ wpc' = "publish"
  /\ UNCHANGED <<sup_generation, supervisors, inherited, block, writer, slot, todo, pending, history, reading>>

publishSlot ==
  /\ wpc = "publish"
  /\ BeginBlock([generation |-> writer.generation, state |-> "ONLINE",
                 packet_id |-> writer.packet_id],
                [active_slot |-> slot, flags |-> log[Len(log)].fields])
  /\ slot' = NoSlot
  /\ UNCHANGED <<sup_generation, supervisors, inherited, slots, writer, todo, history, reading>>

ShmWorker ==
  \/ storeFront \/ storeBack \/ storeEven
  \/ writeFirst \/ writeHeartbeat \/ writeLast
  \/ beginPublish \/ storeHeader \/ storeField \/ commitSlot \/ publishSlot

-----------------------------------------------------------------------------
(* The supervisor. *)

WorkerGone ==
  /\ slot' = NoSlot
  /\ todo' = {}
  /\ pending' = NoWrite

\* The worker dies, or _stop_worker() terminates it, wherever it is.
killWorker ==
  /\ wpc \notin {"off", "reset"}
  /\ wpc' = "off"
  /\ WorkerGone
  /\ UNCHANGED <<sup_generation, supervisors, inherited, mapping, writer, history, reading>>

\* spawn(): reset_worker_block(), which sets the counter back to zero...
resetWorkerBlock ==
  /\ wpc = "off"
  /\ Events < MaxEvents
  /\ block' = EmptyBlock(sup_generation + 1)
  /\ wpc' = "reset"
  /\ UNCHANGED <<sup_generation, supervisors, inherited, slots, writer, slot, todo, pending, history, reading>>

\* ... then write_supervisor() and Popen().
startWorker ==
  /\ wpc = "reset"
  /\ sup_generation' = sup_generation + 1
  /\ writer' = [generation |-> sup_generation + 1, packet_id |-> 0]
  /\ wpc' = "start"
  /\ UNCHANGED <<supervisors, inherited, mapping, slot, todo, pending, history, reading>>

\* Another supervisor takes over the mapping, which the reader keeps open, when
\* the one before is gone: orphan terminated, everything zero, first spawn().
\* That takes longer than a call of try_get_latest().
newSupervisor ==
  /\ Events < MaxEvents
  /\ rpc = "idle"
  /\ supervisors' = supervisors + 1
  /\ inherited' = Len(log)
  /\ sup_generation' = 1
  /\ block' = EmptyBlock(1)
  /\ slots' = [s \in Slots |-> EmptySlot]
  /\ writer' = [generation |-> 1, packet_id |-> 0]
  /\ wpc' = "start"
  /\ WorkerGone
  /\ UNCHANGED <<history, reading>>

ShmSupervisor == killWorker \/ resetWorkerBlock \/ startWorker \/ newSupervisor

-----------------------------------------------------------------------------
(* The reader: try_get_latest(). *)

shared == <<sup_generation, supervisors, inherited, mapping, producer, history>>

\* It returns None.
GiveUp == rpc' = "idle" /\ reader' = NoReader /\ UNCHANGED last

readSupervisor ==
  /\ rpc = "idle"
  /\ reader' = [NoReader EXCEPT !.generation = sup_generation, !.since = committed]
  /\ rpc' = "seq"
  /\ UNCHANGED <<shared, last>>

\* read_worker(): three attempts, the number of which is left open here.
RetryOrGiveUp == (rpc' = "seq" /\ UNCHANGED <<reader, last>>) \/ GiveUp

readSeq ==    \* an attempt that finds it odd does nothing, or was the third
  /\ rpc = "seq"
  /\ IF Odd(block.seq) THEN GiveUp
     ELSE rpc' = "front" /\ reader' = [reader EXCEPT !.seq = block.seq] /\ UNCHANGED last
  /\ UNCHANGED shared

readFront ==
  /\ rpc = "front"
  /\ reader' = [reader EXCEPT !.front = block.front]
  /\ rpc' = "back"
  /\ UNCHANGED <<shared, last>>

readBack ==
  /\ rpc = "back"
  /\ reader' = [reader EXCEPT !.back = block.back]
  /\ rpc' = "even"
  /\ UNCHANGED <<shared, last>>

readEven ==
  /\ rpc = "even"
  /\ IF block.seq = reader.seq
       THEN /\ rpc' = IF reader.again THEN "locked" ELSE "check"
            /\ reader' = [reader EXCEPT !.seq = 0]
            /\ UNCHANGED last
       ELSE RetryOrGiveUp
  /\ UNCHANGED shared

\* A packet of the current worker is on offer.  (One too old is refused too.)
IsOffered ==
  /\ reader.generation = reader.front.generation
  /\ reader.front.state = "ONLINE"
  /\ reader.front.packet_id > 0

\* Faulty variant: any packet of the worker counts as the one kept.
IsCachedByGeneration ==
  last # Nothing /\ last.generation = reader.generation

IsCached ==
  /\ last # Nothing
  /\ last.generation = reader.generation
  /\ last.packet_id = reader.front.packet_id

refusePacket ==
  /\ rpc = "check"
  /\ GiveUp
  /\ UNCHANGED shared

returnCached ==
  /\ rpc = "check"
  /\ IsOffered /\ IsCached
  /\ last' = [last EXCEPT !.since = reader.since]
  /\ rpc' = "idle"
  /\ reader' = NoReader
  /\ UNCHANGED shared

takeOffer ==
  /\ rpc = "check"
  /\ IsOffered /\ ~IsCached
  /\ reader.back.active_slot \in Slots
  /\ reader' = [reader EXCEPT !.slot = reader.back.active_slot]
  /\ rpc' = "headerSeq"
  /\ UNCHANGED <<shared, last>>

TheSlot == slots[reader.slot]

\* read_slot_header()
readHeaderSeq ==
  /\ rpc = "headerSeq"
  /\ IF Odd(TheSlot.seq) THEN GiveUp
     ELSE rpc' = "header" /\ reader' = [reader EXCEPT !.seq = TheSlot.seq] /\ UNCHANGED last
  /\ UNCHANGED shared

readHeader ==
  /\ rpc = "header"
  /\ reader' = [reader EXCEPT !.header = [TheSlot EXCEPT !.payload = NoReader.payload]]
  /\ rpc' = "headerEven"
  /\ UNCHANGED <<shared, last>>

readHeaderEven ==
  /\ rpc = "headerEven"
  /\ IF /\ TheSlot.seq = reader.seq
        /\ reader.header.generation = reader.generation
        /\ reader.header.packet_id = reader.front.packet_id
       THEN /\ rpc' = "before"
            /\ reader' = [reader EXCEPT !.seq = 0]
            /\ UNCHANGED last
       ELSE GiveUp
  /\ UNCHANGED shared

\* seq_before, then the worker block once more into the same variables.
readBefore ==
  /\ rpc = "before"
  /\ IF Odd(TheSlot.seq) THEN GiveUp
     ELSE /\ rpc' = "seq"
          /\ reader' = [reader EXCEPT !.before = TheSlot.seq, !.again = TRUE,
                                      !.front = NoReader.front, !.back = NoReader.back]
          /\ UNCHANGED last
  /\ UNCHANGED shared

\* The block read again still names the packet whose header was read.
StillOffered ==
  /\ reader.front.generation = reader.header.generation
  /\ reader.front.packet_id = reader.header.packet_id
  /\ reader.back.active_slot = reader.slot

\* Faulty variant: the packet named the first time is taken for granted.
checkLockedNothing ==
  /\ rpc = "locked"
  /\ rpc' = "copy"
  /\ reader' = [reader EXCEPT !.todo = reader.back.flags \cap reader.header.sized]
  /\ UNCHANGED <<shared, last>>

checkLocked ==
  /\ rpc = "locked"
  /\ IF StillOffered
       THEN /\ rpc' = "copy"
            /\ reader' = [reader EXCEPT !.todo = reader.back.flags \cap reader.header.sized]
            /\ UNCHANGED last
       ELSE GiveUp
  /\ UNCHANGED shared

copyField ==
  /\ rpc = "copy"
  /\ \E f \in Fields :
       /\ IsNext(f, reader.todo)
       /\ reader' = [reader EXCEPT !.payload[f] = TheSlot.payload[f], !.todo = @ \ {f}]
  /\ UNCHANGED <<shared, rpc, last>>

IsUntouched == TheSlot.seq = reader.before

returnPacket ==
  /\ rpc = "copy"
  /\ reader.todo = {}
  /\ IF IsUntouched
       THEN /\ last' = [generation |-> reader.generation,
                        packet_id |-> reader.header.packet_id,
                        fields |-> reader.back.flags,
                        payload |-> reader.payload, since |-> reader.since]
            /\ rpc' = "idle"
            /\ reader' = NoReader
       ELSE GiveUp
  /\ UNCHANGED shared

Reader ==
  \/ readSupervisor
  \/ readSeq \/ readFront \/ readBack \/ readEven
  \/ refusePacket \/ returnCached \/ takeOffer
  \/ readHeaderSeq \/ readHeader \/ readHeaderEven
  \/ readBefore \/ checkLocked \/ copyField \/ returnPacket

-----------------------------------------------------------------------------
FramesNext == ShmWorker \/ ShmSupervisor \/ Reader

FramesSpec == FramesInit /\ [][FramesNext]_framesVars

-----------------------------------------------------------------------------
\* The two slots are what keeps a reader from waiting for the worker: whenever
\* the worker block can be read and names a packet, that packet lies complete
\* in the slot it names, even while the worker fills the other one, and after
\* it was killed anywhere.
ActiveSlotIsComplete ==
  ~Odd(block.seq) /\ block.front.packet_id > 0 =>
    LET s == slots[block.back.active_slot] IN
    /\ ~Odd(s.seq)
    /\ s.generation = block.front.generation
    /\ s.packet_id = block.front.packet_id
    /\ block.back.flags \subseteq s.sized
    /\ \A f, g \in block.back.flags : s.payload[f] = s.payload[g]

\* publish(), "Atomic publish": a packet try_get_latest() returns is one that
\* was published, with just its fields, all of them of this packet.
NeverTorn ==
  last # Nothing =>
    \E i \in 1 .. Len(log) :
      /\ log[i] = [generation |-> last.generation, packet_id |-> last.packet_id,
                   fields |-> last.fields]
      /\ \A f \in last.fields : last.payload[f] = i

\* It is no older than the newest packet readers could see when
\* try_get_latest() was called, the cached one included: so from call to call,
\* through any number of workers, what it returns never goes back in time.
IsLatest ==
  last # Nothing => \A f \in last.fields : last.payload[f] >= last.since

\* It does not go back among the packets of one supervisor, however many
\* workers that starts and kills.
IsLatestOfSupervisor ==
  last # Nothing =>
    \A f \in last.fields : last.payload[f] >= last.since \/ last.payload[f] <= inherited
=============================================================================
