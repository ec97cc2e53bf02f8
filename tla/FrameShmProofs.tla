--------------------------- MODULE FrameShmProofs ---------------------------
(***************************************************************************)
(* Proofs about FrameShm, for any number of fields, packets, workers and   *)
(* supervisors: the double buffering of publish() is correct wherever the  *)
(* worker is killed, and what try_get_latest() returns is whole and no     *)
(* older than what could be read when it was called.                       *)
(***************************************************************************)
EXTENDS FrameShm, SequenceTheorems, TLAPS

Storing == {"front", "back", "even"}
Filling == {"header", "payload", "publish"}

States == {"DETACHED", "STARTING", "ONLINE", "STOPPING", "ERROR"}

Front == [generation : Nat, state : States, packet_id : Nat]
Back  == [active_slot : Slots \cup {NoSlot}, flags : SUBSET Fields]
Slot  == [seq : Nat, generation : Nat, packet_id : Nat, sized : SUBSET Fields,
          payload : [Fields -> Nat]]
Entry == [generation : Nat, packet_id : Nat, fields : SUBSET Fields]

MappingType ==
  /\ sup_generation \in Nat
  /\ block \in [seq : Nat, front : Front, back : Back]
  /\ slots \in [Slots -> Slot]
  /\ writer \in [generation : Nat, packet_id : Nat]
  /\ pending \in [front : Front, back : Back]
  /\ log \in Seq(Entry)
  /\ todo \subseteq Fields
  /\ wpc \in {"start", "loop", "off", "reset"} \cup Storing \cup Filling

\* The packet front and back name lies complete in its slot.
Complete(front, back) ==
  front.packet_id > 0 =>
    /\ back.active_slot \in Slots
    /\ ~Odd(slots[back.active_slot].seq)
    /\ slots[back.active_slot].generation = front.generation
    /\ slots[back.active_slot].packet_id = front.packet_id
    /\ back.flags \subseteq slots[back.active_slot].sized
    /\ \A f, g \in back.flags :
         slots[back.active_slot].payload[f] = slots[back.active_slot].payload[g]

\* What the block says when it can be read.
BlockInv == ~Odd(block.seq) => Complete(block.front, block.back)

\* write_worker(): what it is about to say, and how far it has got.
StoringInv ==
  wpc \in Storing =>
    /\ Odd(block.seq)
    /\ Complete(pending.front, pending.back)
    /\ pending.front.generation = writer.generation
    /\ wpc # "front" => block.front = pending.front
    /\ wpc = "even" => block.back = pending.back

\* Outside of write_worker() the block can be read, and is this worker's.
RunningInv ==
  /\ wpc \in {"start", "loop"} \cup Filling =>
       ~Odd(block.seq) /\ block.front.generation = writer.generation
  /\ wpc = "reset" =>
       ~Odd(block.seq) /\ block.front.generation = sup_generation + 1

Newest == log[Len(log)].fields

\* publish(): it fills a slot the block does not name.
FillingInv ==
  wpc \in Filling =>
    /\ slot \in Slots
    /\ log # <<>>
    /\ block.front.packet_id > 0 => slot # block.back.active_slot
    /\ wpc = "header" => todo = Newest
    /\ wpc = "payload" => Odd(slots[slot].seq)
    /\ wpc = "header" => Odd(slots[slot].seq)
    /\ wpc = "publish" => todo = {} /\ ~Odd(slots[slot].seq)
    /\ wpc # "header" =>
         /\ slots[slot].generation = writer.generation
         /\ slots[slot].packet_id = writer.packet_id
         /\ Newest \subseteq slots[slot].sized
         /\ \A f \in Newest \ todo : slots[slot].payload[f] = Len(log)

ShmInv == MappingType /\ BlockInv /\ StoringInv /\ RunningInv /\ FillingInv

LEMMA Parity ==
  ASSUME NEW n \in Nat
  PROVE  /\ NextOdd(n) \in Nat /\ Odd(NextOdd(n))
         /\ Odd(n) => ~Odd(n + 1)
  BY DEF Odd, NextOdd

LEMMA FieldsFact == FieldCount \in Nat \ {0} /\ Fields \subseteq Nat
  BY ShmAssumption DEF Fields

LEMMA EmptyTyped ==
  ASSUME NEW g \in Nat
  PROVE  /\ EmptyBlock(g) \in [seq : Nat, front : Front, back : Back]
         /\ ~Odd(EmptyBlock(g).seq)
         /\ EmptyBlock(g).front.generation = g
         /\ EmptyBlock(g).front.packet_id = 0
         /\ NoWrite \in [front : Front, back : Back]
         /\ EmptySlot \in Slot
<1>1. \A n \in Nat : EmptyBlock(n).front \in Front /\ EmptyBlock(n).back \in Back
  BY DEF EmptyBlock, Front, Back, States
<1>2. EmptyBlock(g) \in [seq : Nat, front : Front, back : Back]
  BY DEF EmptyBlock, Front, Back, States
<1>3. NoWrite \in [front : Front, back : Back]
  BY <1>1 DEF NoWrite
<1>4. EmptySlot \in Slot
  BY DEF EmptySlot, Slot
<1>5. ~Odd(EmptyBlock(g).seq) /\ EmptyBlock(g).front.generation = g
      /\ EmptyBlock(g).front.packet_id = 0
  BY DEF EmptyBlock, Odd
<1> QED
  BY <1>2, <1>3, <1>4, <1>5

LEMMA ShmInit == FramesInit => ShmInv
<1> SUFFICES ASSUME FramesInit PROVE ShmInv
  OBVIOUS
<1>1. MappingType
  BY EmptyTyped, EmptySeq DEF FramesInit, MappingType
<1>2. BlockInv /\ RunningInv
  BY EmptyTyped DEF FramesInit, BlockInv, Complete, RunningInv
<1>3. StoringInv /\ FillingInv
  BY DEF FramesInit, StoringInv, FillingInv, Storing, Filling
<1> QED
  BY <1>1, <1>2, <1>3 DEF ShmInv

-----------------------------------------------------------------------------
(* write_worker(). *)

LEMMA BeginBlockInv ==
  ASSUME ShmInv, NEW front \in Front, NEW back \in Back, BeginBlock(front, back),
         Complete(front, back), front.generation = writer.generation,
         UNCHANGED <<sup_generation, slots, writer, log, todo>>
  PROVE  ShmInv'
<1>1. /\ block' = [block EXCEPT !.seq = NextOdd(@)]
      /\ pending' = [front |-> front, back |-> back] /\ wpc' = "front"
  BY DEF BeginBlock
<1>2. block.seq \in Nat
  BY DEF ShmInv, MappingType
<1>3. block'.seq = NextOdd(block.seq) /\ NextOdd(block.seq) \in Nat /\ Odd(NextOdd(block.seq))
  BY <1>1, <1>2, Parity DEF ShmInv, MappingType
<1>4. MappingType'
  BY <1>1, <1>3 DEF ShmInv, MappingType, Storing
<1>5. BlockInv' /\ RunningInv' /\ FillingInv'
  BY <1>1, <1>3 DEF BlockInv, RunningInv, FillingInv, Filling
<1>6. StoringInv'
  BY <1>1, <1>3 DEF StoringInv, Complete
<1> QED
  BY <1>4, <1>5, <1>6 DEF ShmInv

\* Every write but the one of publish() says of the packet what the block said.
LEMMA SameBlockInv ==
  ASSUME ShmInv, wpc \in {"start", "loop"}, NEW state \in States,
         BeginBlock([generation |-> writer.generation, state |-> state,
                     packet_id |-> block.front.packet_id], block.back),
         UNCHANGED <<sup_generation, slots, writer, log, todo>>
  PROVE  ShmInv'
<1> DEFINE front == [generation |-> writer.generation, state |-> state,
                     packet_id |-> block.front.packet_id]
<1>1. front \in Front /\ block.back \in Back
  BY DEF ShmInv, MappingType, Front
<1>2. ~Odd(block.seq) /\ block.front.generation = writer.generation
  BY DEF ShmInv, RunningInv
<1>3. Complete(front, block.back)
  BY <1>2 DEF ShmInv, BlockInv, Complete
<1>4. front.generation = writer.generation
  OBVIOUS
<1> HIDE DEF front
<1> QED
  BY <1>1, <1>3, <1>4, BeginBlockInv DEF front

LEMMA StoreFrontInv == ASSUME ShmInv, storeFront PROVE ShmInv'
<1>1. /\ wpc = "front" /\ block' = [block EXCEPT !.front = pending.front] /\ wpc' = "back"
      /\ UNCHANGED <<sup_generation, slots, writer, slot, todo, pending, log>>
  BY DEF storeFront, history
<1>2. block'.seq = block.seq /\ block'.front = pending.front /\ Odd(block.seq)
  BY <1>1 DEF ShmInv, MappingType, StoringInv, Storing
<1>3. MappingType'
  BY <1>1 DEF ShmInv, MappingType, Storing
<1>4. BlockInv' /\ RunningInv' /\ FillingInv'
  BY <1>1, <1>2 DEF BlockInv, RunningInv, FillingInv, Filling
<1>5. StoringInv'
  BY <1>1, <1>2 DEF ShmInv, StoringInv, Storing, Complete
<1> QED
  BY <1>3, <1>4, <1>5 DEF ShmInv

LEMMA StoreBackInv == ASSUME ShmInv, storeBack PROVE ShmInv'
<1>1. /\ wpc = "back" /\ block' = [block EXCEPT !.back = pending.back] /\ wpc' = "even"
      /\ UNCHANGED <<sup_generation, slots, writer, slot, todo, pending, log>>
  BY DEF storeBack, history
<1>2. block'.seq = block.seq /\ block'.front = block.front /\ block'.back = pending.back
      /\ Odd(block.seq)
  BY <1>1 DEF ShmInv, MappingType, StoringInv, Storing
<1>3. MappingType'
  BY <1>1 DEF ShmInv, MappingType, Storing
<1>4. BlockInv' /\ RunningInv' /\ FillingInv'
  BY <1>1, <1>2 DEF BlockInv, RunningInv, FillingInv, Filling
<1>5. StoringInv'
  BY <1>1, <1>2 DEF ShmInv, StoringInv, Storing, Complete
<1> QED
  BY <1>3, <1>4, <1>5 DEF ShmInv

LEMMA StoreEvenInv == ASSUME ShmInv, storeEven PROVE ShmInv'
<1>1. /\ wpc = "even" /\ block' = [block EXCEPT !.seq = @ + 1] /\ wpc' \in {"off", "loop"}
      /\ pending' = NoWrite
      /\ UNCHANGED <<sup_generation, slots, writer, slot, todo, log>>
  BY DEF storeEven
<1>2. /\ block.seq \in Nat /\ Odd(block.seq)
      /\ block.front = pending.front /\ block.back = pending.back
      /\ Complete(pending.front, pending.back) /\ pending.front.generation = writer.generation
  BY <1>1 DEF ShmInv, MappingType, StoringInv, Storing
<1>3. block'.seq = block.seq + 1 /\ block'.front = block.front /\ block'.back = block.back
  BY <1>1 DEF ShmInv, MappingType
<1>4. ~Odd(block'.seq)
  BY <1>2, <1>3, Parity
<1>5. MappingType'
  <2>1. block.seq + 1 \in Nat /\ block \in [seq : Nat, front : Front, back : Back]
    BY <1>2 DEF ShmInv, MappingType
  <2>2. block' \in [seq : Nat, front : Front, back : Back]
    BY <1>1, <2>1
  <2>3. NoWrite \in [front : Front, back : Back]
    BY EmptyTyped
  <2> QED
    BY <1>1, <2>2, <2>3 DEF ShmInv, MappingType
<1>6. BlockInv'
  BY <1>1, <1>2, <1>3 DEF BlockInv, Complete
<1>7. RunningInv' /\ StoringInv' /\ FillingInv'
  BY <1>1, <1>2, <1>3, <1>4 DEF RunningInv, StoringInv, FillingInv, Storing, Filling
<1> QED
  BY <1>5, <1>6, <1>7 DEF ShmInv

LEMMA WritesInv ==
  ASSUME ShmInv, writeFirst \/ writeHeartbeat \/ writeLast
  PROVE  ShmInv'
<1>1. CASE writeFirst
  BY <1>1, SameBlockInv DEF writeFirst, history, States
<1>2. CASE writeHeartbeat
  <2>1. (IF writer.packet_id > 0 THEN "ONLINE" ELSE "STARTING") \in States
    BY DEF States
  <2> QED
    BY <1>2, <2>1, SameBlockInv DEF writeHeartbeat
<1>3. CASE writeLast
  BY <1>3, SameBlockInv DEF writeLast, history, States
<1> QED
  BY <1>1, <1>2, <1>3

-----------------------------------------------------------------------------
(* publish(). *)

\* What happens in the slot the block does not name changes nothing about the
\* packet it names.
LEMMA OtherSlotKept ==
  ASSUME ShmInv, NEW s \in Slots, ~Odd(block.seq),
         block.front.packet_id > 0 => s # block.back.active_slot,
         \A r \in Slots \ {s} : slots'[r] = slots[r],
         UNCHANGED block
  PROVE  BlockInv'
<1>1. Complete(block.front, block.back)
  BY DEF ShmInv, BlockInv
<1> QED
  BY <1>1 DEF BlockInv, Complete

LEMMA BeginPublishInv == ASSUME ShmInv, beginPublish PROVE ShmInv'
<1>1. PICK fields \in Offers :
        /\ todo' = fields
        /\ log' = Append(log, [generation |-> writer.generation,
                               packet_id |-> writer.packet_id + 1, fields |-> fields])
  BY DEF beginPublish
<1>2. /\ wpc = "loop" /\ writer' = [writer EXCEPT !.packet_id = @ + 1]
      /\ slot' = FreeSlot /\ slots' = [slots EXCEPT ![FreeSlot].seq = NextOdd(@)]
      /\ wpc' = "header" /\ UNCHANGED <<sup_generation, block, pending>>
  BY DEF beginPublish
<1>3. /\ FreeSlot \in Slots /\ FreeSlot # block.back.active_slot
  BY DEF FreeSlot, Slots
<1>4. fields \subseteq Fields
  BY ShmAssumption DEF Fields
<1>5. ~Odd(block.seq) /\ block.front.generation = writer.generation
  BY <1>2 DEF ShmInv, RunningInv
<1>6. /\ slots[FreeSlot] \in Slot /\ slots[FreeSlot].seq \in Nat
  BY <1>3 DEF ShmInv, MappingType, Slot
<1>7. /\ NextOdd(slots[FreeSlot].seq) \in Nat /\ Odd(NextOdd(slots[FreeSlot].seq))
  BY <1>6, Parity
<1>8. /\ slots' \in [Slots -> Slot] /\ Odd(slots'[FreeSlot].seq)
      /\ \A r \in Slots \ {FreeSlot} : slots'[r] = slots[r]
  BY <1>2, <1>3, <1>6, <1>7 DEF ShmInv, MappingType, Slot
<1>9. /\ log' \in Seq(Entry) /\ log' # <<>> /\ log'[Len(log')].fields = fields
  <2>1. [generation |-> writer.generation, packet_id |-> writer.packet_id + 1,
         fields |-> fields] \in Entry
    BY <1>4 DEF ShmInv, MappingType, Entry
  <2>2. log \in Seq(Entry)
    BY DEF ShmInv, MappingType
  <2> QED
    BY <1>1, <2>1, <2>2, AppendProperties
<1>10. MappingType'
  BY <1>1, <1>2, <1>4, <1>8, <1>9 DEF ShmInv, MappingType, Filling
<1>11. BlockInv'
  BY <1>2, <1>3, <1>5, <1>8, OtherSlotKept
<1>12. RunningInv' /\ StoringInv'
  <2>1. writer'.generation = writer.generation
    BY <1>2 DEF ShmInv, MappingType
  <2> QED
    BY <1>2, <1>5, <2>1 DEF RunningInv, StoringInv, Storing, Filling
<1>13. FillingInv'
  BY <1>1, <1>2, <1>3, <1>8, <1>9 DEF FillingInv, Newest
<1> QED
  BY <1>10, <1>11, <1>12, <1>13 DEF ShmInv

\* The stores into the slot that is being filled: header, then field by field.
LEMMA FillStep ==
  ASSUME ShmInv, wpc \in {"header", "payload"}, NEW s \in Slot,
         slots' = [slots EXCEPT ![slot] = s],
         UNCHANGED <<sup_generation, block, writer, pending, log>>,
         todo' \subseteq Fields, wpc' \in Filling
  PROVE  /\ MappingType' /\ BlockInv' /\ StoringInv' /\ RunningInv'
         /\ slot \in Slots /\ slots'[slot] = s
<1>1. /\ slot \in Slots /\ (block.front.packet_id > 0 => slot # block.back.active_slot)
      /\ ~Odd(block.seq)
  BY DEF ShmInv, FillingInv, RunningInv, Filling
<1>2. /\ slots' \in [Slots -> Slot] /\ slots'[slot] = s
      /\ \A r \in Slots \ {slot} : slots'[r] = slots[r]
  BY <1>1 DEF ShmInv, MappingType
<1>3. MappingType'
  BY <1>2 DEF ShmInv, MappingType, Filling
<1>4. BlockInv'
  BY <1>1, <1>2, OtherSlotKept
<1>5. RunningInv' /\ StoringInv'
  BY DEF ShmInv, RunningInv, StoringInv, Storing, Filling
<1> QED
  BY <1>1, <1>2, <1>3, <1>4, <1>5

LEMMA StoreHeaderInv == ASSUME ShmInv, storeHeader PROVE ShmInv'
<1> DEFINE s == [slots[slot] EXCEPT !.generation = writer.generation,
                                    !.packet_id = writer.packet_id,
                                    !.sized = @ \cup todo]
<1>1. /\ wpc = "header" /\ wpc' = "payload"
      /\ UNCHANGED <<sup_generation, block, writer, slot, todo, pending, log>>
  BY DEF storeHeader, history
<1>2. slot \in Slots /\ slots[slot] \in Slot /\ todo = Newest /\ Odd(slots[slot].seq) /\ log # <<>>
      /\ (block.front.packet_id > 0 => slot # block.back.active_slot)
  BY <1>1 DEF ShmInv, MappingType, FillingInv, Filling
<1>3. s \in Slot
  BY <1>2 DEF ShmInv, MappingType, Slot
<1>4. /\ s.seq = slots[slot].seq /\ s.generation = writer.generation
      /\ s.packet_id = writer.packet_id /\ todo \subseteq s.sized
  BY <1>2 DEF Slot
<1>5. slots' = [slots EXCEPT ![slot] = s]
  BY <1>2 DEF storeHeader, ShmInv, MappingType, Slot
<1> HIDE DEF s
<1>6. MappingType' /\ BlockInv' /\ StoringInv' /\ RunningInv' /\ slots'[slot] = s
  BY <1>1, <1>3, <1>5, FillStep DEF Filling, ShmInv, MappingType
<1>7. FillingInv'
  BY <1>1, <1>2, <1>4, <1>6 DEF FillingInv, Newest
<1> QED
  BY <1>6, <1>7 DEF ShmInv

LEMMA StoreFieldInv == ASSUME ShmInv, storeField PROVE ShmInv'
<1>1. PICK f \in Fields :
        /\ slots' = [slots EXCEPT ![slot].payload[f] = Len(log)]
        /\ todo' = todo \ {f}
  BY DEF storeField
<1> DEFINE s == [slots[slot] EXCEPT !.payload[f] = Len(log)]
<1>2. /\ wpc = "payload" /\ wpc' = "payload"
      /\ UNCHANGED <<sup_generation, block, writer, slot, pending, log>>
  BY DEF storeField, history
<1>3. /\ slot \in Slots /\ slots[slot] \in Slot /\ log # <<>> /\ Odd(slots[slot].seq)
      /\ (block.front.packet_id > 0 => slot # block.back.active_slot)
      /\ slots[slot].generation = writer.generation
      /\ slots[slot].packet_id = writer.packet_id
      /\ Newest \subseteq slots[slot].sized
      /\ \A g \in Newest \ todo : slots[slot].payload[g] = Len(log)
  BY <1>2 DEF ShmInv, MappingType, FillingInv, Filling
<1>4. Len(log) \in Nat /\ todo \subseteq Fields /\ Newest \subseteq Fields
  <2>1. log \in Seq(Entry) /\ todo \subseteq Fields
    BY DEF ShmInv, MappingType
  <2>2. Len(log) \in 1 .. Len(log) /\ Len(log) \in Nat
    BY <1>3, <2>1, EmptySeq, LenProperties
  <2>3. log[Len(log)] \in Entry
    BY <2>1, <2>2, ElementOfSeq
  <2> QED
    BY <2>1, <2>2, <2>3 DEF Newest, Entry
<1>5. s \in Slot
  BY <1>3, <1>4 DEF Slot
<1>6. /\ s.seq = slots[slot].seq /\ s.generation = slots[slot].generation
      /\ s.packet_id = slots[slot].packet_id /\ s.sized = slots[slot].sized
      /\ \A g \in Fields : s.payload[g] = IF g = f THEN Len(log) ELSE slots[slot].payload[g]
  BY <1>3 DEF Slot
<1>7. slots' = [slots EXCEPT ![slot] = s]
  BY <1>1, <1>3 DEF ShmInv, MappingType, Slot
<1> HIDE DEF s
<1>8. MappingType' /\ BlockInv' /\ StoringInv' /\ RunningInv' /\ slots'[slot] = s
  BY <1>1, <1>2, <1>4, <1>5, <1>7, FillStep DEF Filling
<1>9. \A g \in Newest \ todo' : s.payload[g] = Len(log)
  BY <1>1, <1>3, <1>4, <1>6
<1>10. FillingInv'
  BY <1>2, <1>3, <1>6, <1>8, <1>9 DEF FillingInv, Newest
<1> QED
  BY <1>8, <1>10 DEF ShmInv

LEMMA CommitSlotInv == ASSUME ShmInv, commitSlot PROVE ShmInv'
<1> DEFINE s == [slots[slot] EXCEPT !.seq = @ + 1]
<1>1. /\ wpc = "payload" /\ wpc' = "publish" /\ todo = {}
      /\ UNCHANGED <<sup_generation, block, writer, slot, todo, pending, log>>
  BY DEF commitSlot, history
<1>2. /\ slot \in Slots /\ slots[slot] \in Slot /\ log # <<>> /\ Odd(slots[slot].seq)
      /\ (block.front.packet_id > 0 => slot # block.back.active_slot)
      /\ slots[slot].generation = writer.generation
      /\ slots[slot].packet_id = writer.packet_id
      /\ Newest \subseteq slots[slot].sized
      /\ \A g \in Newest \ todo : slots[slot].payload[g] = Len(log)
  BY <1>1 DEF ShmInv, MappingType, FillingInv, Filling
<1>3. slots[slot].seq \in Nat
  BY <1>2 DEF Slot
<1>4. s \in Slot /\ ~Odd(s.seq)
  BY <1>2, <1>3, Parity DEF Slot
<1>5. /\ s.generation = slots[slot].generation /\ s.packet_id = slots[slot].packet_id
      /\ s.sized = slots[slot].sized /\ s.payload = slots[slot].payload
  BY <1>2 DEF Slot
<1>6. slots' = [slots EXCEPT ![slot] = s]
  BY <1>2 DEF commitSlot, ShmInv, MappingType, Slot
<1> HIDE DEF s
<1>7. MappingType' /\ BlockInv' /\ StoringInv' /\ RunningInv' /\ slots'[slot] = s
  BY <1>1, <1>4, <1>6, FillStep DEF Filling
<1>8. FillingInv'
  BY <1>1, <1>2, <1>4, <1>5, <1>7 DEF FillingInv, Newest
<1> QED
  BY <1>7, <1>8 DEF ShmInv

LEMMA PublishSlotInv == ASSUME ShmInv, publishSlot PROVE ShmInv'
<1> DEFINE front == [generation |-> writer.generation, state |-> "ONLINE",
                     packet_id |-> writer.packet_id]
           back  == [active_slot |-> slot, flags |-> Newest]
<1>1. /\ wpc = "publish" /\ BeginBlock(front, back)
      /\ UNCHANGED <<sup_generation, slots, writer, log, todo>>
  BY DEF publishSlot, history, Newest
<1>2. /\ slot \in Slots /\ log # <<>> /\ todo = {} /\ ~Odd(slots[slot].seq)
      /\ slots[slot].generation = writer.generation
      /\ slots[slot].packet_id = writer.packet_id
      /\ Newest \subseteq slots[slot].sized
      /\ \A g \in Newest \ todo : slots[slot].payload[g] = Len(log)
  BY <1>1 DEF ShmInv, FillingInv, Filling
<1>3. front \in Front
  BY DEF ShmInv, MappingType, Front, States
<1>4. back \in Back
  <2>1. slots[slot] \in Slot
    BY <1>2 DEF ShmInv, MappingType
  <2>2. Newest \subseteq Fields
    BY <1>2, <2>1 DEF Slot
  <2> QED
    BY <1>2, <2>2 DEF Back
<1>5. Complete(front, back)
  BY <1>2 DEF Complete
<1>6. front.generation = writer.generation
  OBVIOUS
<1> HIDE DEF front, back
<1> QED
  BY <1>1, <1>3, <1>4, <1>5, <1>6, BeginBlockInv

-----------------------------------------------------------------------------
(* The supervisor, and the whole. *)

LEMMA SupervisorInv == ASSUME ShmInv, ShmSupervisor PROVE ShmInv'
<1>1. CASE killWorker
  <2>1. /\ wpc' = "off" /\ todo' = {} /\ pending' = NoWrite
        /\ UNCHANGED <<sup_generation, block, slots, writer, log>>
    BY <1>1 DEF killWorker, WorkerGone, mapping, history
  <2>2. MappingType'
    BY <2>1, EmptyTyped DEF ShmInv, MappingType
  <2>3. BlockInv' /\ StoringInv' /\ RunningInv' /\ FillingInv'
    BY <2>1 DEF ShmInv, BlockInv, Complete, StoringInv, RunningInv, FillingInv, Storing, Filling
  <2> QED
    BY <2>2, <2>3 DEF ShmInv
<1>2. CASE resetWorkerBlock
  <2>1. /\ wpc' = "reset" /\ block' = EmptyBlock(sup_generation + 1)
        /\ UNCHANGED <<sup_generation, slots, writer, todo, pending, log>>
    BY <1>2 DEF resetWorkerBlock, history
  <2>2. sup_generation + 1 \in Nat
    BY DEF ShmInv, MappingType
  <2>3. MappingType'
    BY <2>1, <2>2, EmptyTyped DEF ShmInv, MappingType
  <2>4. BlockInv' /\ StoringInv' /\ RunningInv' /\ FillingInv'
    BY <2>1, <2>2, EmptyTyped DEF BlockInv, Complete, StoringInv, RunningInv, FillingInv,
       Storing, Filling
  <2> QED
    BY <2>3, <2>4 DEF ShmInv
<1>3. CASE startWorker
  <2>1. /\ wpc = "reset" /\ wpc' = "start" /\ sup_generation' = sup_generation + 1
        /\ writer' = [generation |-> sup_generation + 1, packet_id |-> 0]
        /\ UNCHANGED <<block, slots, todo, pending, log>>
    BY <1>3 DEF startWorker, mapping, history
  <2>2. MappingType'
    BY <2>1 DEF ShmInv, MappingType
  <2>3. BlockInv' /\ StoringInv' /\ RunningInv' /\ FillingInv'
    BY <2>1 DEF ShmInv, BlockInv, Complete, StoringInv, RunningInv, FillingInv, Storing, Filling
  <2> QED
    BY <2>2, <2>3 DEF ShmInv
<1>4. CASE newSupervisor
  <2>1. /\ sup_generation' = 1 /\ block' = EmptyBlock(1) /\ slots' = [s \in Slots |-> EmptySlot]
        /\ writer' = [generation |-> 1, packet_id |-> 0] /\ wpc' = "start"
        /\ todo' = {} /\ pending' = NoWrite /\ UNCHANGED log
    BY <1>4 DEF newSupervisor, WorkerGone, history
  <2>2. MappingType'
    BY <2>1, EmptyTyped DEF ShmInv, MappingType
  <2>3. BlockInv' /\ StoringInv' /\ RunningInv' /\ FillingInv'
    BY <2>1, EmptyTyped DEF BlockInv, Complete, StoringInv, RunningInv, FillingInv, Storing, Filling
  <2> QED
    BY <2>2, <2>3 DEF ShmInv
<1> QED
  BY <1>1, <1>2, <1>3, <1>4 DEF ShmSupervisor

LEMMA SharedKept == ASSUME ShmInv, UNCHANGED shared PROVE ShmInv'
<1>1. UNCHANGED <<sup_generation, block, slots, wpc, writer, slot, todo, pending, log>>
  BY DEF shared, mapping, producer, history
<1> QED
  BY <1>1 DEF ShmInv, MappingType, BlockInv, Complete, StoringInv, RunningInv, FillingInv, Newest

LEMMA ReaderStoresNothing == ASSUME Reader PROVE UNCHANGED shared
  BY DEF Reader, readSupervisor, readSeq, readFront, readBack, readEven, refusePacket, returnCached,
         takeOffer, readHeaderSeq, readHeader, readHeaderEven, readBefore, checkLocked,
         copyField, returnPacket

LEMMA ShmStep == ShmInv /\ [FramesNext]_framesVars => ShmInv'
<1> SUFFICES ASSUME ShmInv, [FramesNext]_framesVars PROVE ShmInv'
  OBVIOUS
<1>1. CASE ShmWorker
  BY <1>1, StoreFrontInv, StoreBackInv, StoreEvenInv, WritesInv, BeginPublishInv,
     StoreHeaderInv, StoreFieldInv, CommitSlotInv, PublishSlotInv DEF ShmWorker
<1>2. CASE ShmSupervisor
  BY <1>2, SupervisorInv
<1>3. CASE Reader
  BY <1>3, ReaderStoresNothing, SharedKept
<1>4. CASE UNCHANGED framesVars
  BY <1>4, SharedKept DEF framesVars, shared
<1> QED
  BY <1>1, <1>2, <1>3, <1>4 DEF FramesNext

\* Whenever the worker block can be read, the packet it names lies complete in
\* the slot it names: in every interleaving, and with the worker killed at any
\* point of write_worker() and publish() and started again.
THEOREM DoubleBuffering == FramesSpec => []ActiveSlotIsComplete
<1>1. ShmInv => ActiveSlotIsComplete
  BY DEF ShmInv, BlockInv, Complete, ActiveSlotIsComplete
<1> QED
  BY <1>1, ShmInit, ShmStep, PTL DEF FramesSpec

-----------------------------------------------------------------------------
(* The packets of the current supervisor. *)

Recent == {i \in 1 .. Len(log) : i > inherited}

\* A header, a front of the block or a writer names the packet of that number.
Names(x, i) == x.generation = log[i].generation /\ x.packet_id = log[i].packet_id
SameNames(x, y) == x.generation = y.generation /\ x.packet_id = y.packet_id

\* That packet lies complete in the slot.
Holds(s, i) ==
  /\ ~Odd(slots[s].seq)
  /\ Names(slots[s], i)
  /\ log[i].fields \subseteq slots[s].sized
  /\ \A f \in log[i].fields : slots[s].payload[f] = i

\* Under one supervisor a generation and a packet_id are those of one packet.
LogInv ==
  /\ inherited \in Nat /\ inherited <= Len(log)
  /\ committed \in Nat /\ committed <= Len(log)
  /\ writer.generation = sup_generation
  /\ \A i \in Recent :
       /\ log[i].packet_id > 0
       /\ log[i].generation <= writer.generation
       /\ log[i].generation = writer.generation => log[i].packet_id <= writer.packet_id
  /\ \A i, j \in Recent : SameNames(log[i], log[j]) => i = j

\* What the worker is at is the newest packet.
NewestInv ==
  /\ wpc \in Filling => Len(log) \in Recent /\ Names(writer, Len(log))
  /\ wpc \in {"start", "loop"} /\ block.front.packet_id > 0 =>
       Len(log) \in Recent /\ Names(block.front, Len(log))
  /\ wpc \in Storing /\ pending.front.packet_id > 0 =>
       Len(log) \in Recent /\ Names(pending.front, Len(log))

\* An even slot holds a packet, and no other slot the same one.
SlotInv ==
  /\ \A s \in Slots : ~Odd(slots[s].seq) /\ slots[s].packet_id > 0 =>
       \E i \in Recent : Holds(s, i) /\ (wpc \in {"header", "payload"} => i < Len(log))
  /\ \A r, s \in Slots :
       /\ ~Odd(slots[r].seq) /\ slots[r].packet_id > 0
       /\ ~Odd(slots[s].seq) /\ SameNames(slots[r], slots[s])
       => r = s

\* What the halves of the block say is true, each of them by itself, also in the
\* middle of write_worker() and after a worker was killed there.
FrontInv ==
  block.front.packet_id > 0 =>
    /\ \E i \in Recent : Names(block.front, i) /\ committed <= i
    /\ \E s \in Slots : ~Odd(slots[s].seq) /\ SameNames(slots[s], block.front)

BackHeld(back) ==
  back.active_slot \in Slots =>
    \E i \in Recent : Holds(back.active_slot, i) /\ back.flags = log[i].fields

BackInv ==
  /\ BackHeld(block.back)
  /\ wpc \in Storing => BackHeld(pending.back)
  /\ wpc \in Filling => slot # block.back.active_slot

PacketInv == LogInv /\ NewestInv /\ SlotInv /\ FrontInv /\ BackInv

-----------------------------------------------------------------------------
(* What a reader knows. *)

ReaderPlaces == {"idle", "seq", "front", "back", "even", "check", "headerSeq", "header",
                 "headerEven", "before", "locked", "copy"}

ReaderType ==
  /\ rpc \in ReaderPlaces
  /\ reader \in [generation : Nat, seq : Nat, front : Front, back : Back, again : BOOLEAN,
                 slot : Slots \cup {NoSlot}, header : Slot, before : Nat,
                 todo : SUBSET Fields, payload : [Fields -> Nat], since : Nat]
  /\ rpc \in {"locked", "copy"} => reader.again
  /\ rpc \in {"idle", "check", "headerSeq", "header", "headerEven", "before"} => ~reader.again
  /\ rpc \in {"headerSeq", "header", "headerEven", "before"} \/ reader.again => reader.slot \in Slots
  /\ last \in [generation : Nat, packet_id : Nat, fields : SUBSET Fields,
               payload : [Fields -> Nat], since : Nat]

\* The block named a packet that was not older than the call.
OfferedInv ==
  rpc # "idle" =>
    /\ reader.since <= committed
    /\ reader.front.packet_id > 0 =>
         \E i \in Recent : Names(reader.front, i) /\ reader.since <= i

\* read_slot_header()
HeaderReadInv ==
  /\ rpc \in {"headerSeq", "header", "headerEven"} => reader.front.packet_id > 0
  /\ rpc \in {"header", "headerEven"} =>
       ~Odd(reader.seq) /\ reader.seq <= slots[reader.slot].seq
  /\ rpc = "headerEven" /\ slots[reader.slot].seq = reader.seq =>
       SameNames(reader.header, slots[reader.slot]) /\ reader.header.sized = slots[reader.slot].sized

\* The header is one of a packet that was complete in this slot, and in no other.
WithHeader == rpc = "before" \/ reader.again
HeaderInv ==
  WithHeader =>
    /\ reader.header.generation = reader.generation
    /\ \E i \in Recent :
         Names(reader.header, i) /\ (wpc \in {"header", "payload"} => i < Len(log))
    /\ \A s \in Slots : ~Odd(slots[s].seq) /\ SameNames(slots[s], reader.header) =>
         s = reader.slot /\ slots[s].sized = reader.header.sized

\* As long as the slot is untouched, it holds what both halves of the block say.
IsKept == reader.again /\ slots[reader.slot].seq = reader.before
KeptInv ==
  /\ reader.again => ~Odd(reader.before) /\ reader.before <= slots[reader.slot].seq
  /\ IsKept /\ SameNames(reader.front, reader.header) =>
       SameNames(slots[reader.slot], reader.header)
  /\ IsKept /\ reader.back.active_slot = reader.slot =>
       \E i \in Recent : Holds(reader.slot, i) /\ reader.back.flags = log[i].fields

CopyInv ==
  rpc = "copy" =>
    /\ StillOffered
    /\ reader.todo \subseteq reader.back.flags
    /\ IsKept => \A f \in (reader.back.flags \cap reader.header.sized) \ reader.todo :
                   reader.payload[f] = slots[reader.slot].payload[f]

\* What was returned was published, and was not old then, or is of an earlier
\* supervisor.
LastInv ==
  last # Nothing =>
    \E i \in 1 .. Len(log) :
      /\ log[i] = [generation |-> last.generation, packet_id |-> last.packet_id,
                   fields |-> last.fields]
      /\ \A f \in last.fields : last.payload[f] = i
      /\ last.since <= i \/ i <= inherited

ReaderInv == ReaderType /\ OfferedInv /\ HeaderReadInv /\ HeaderInv /\ KeptInv /\ CopyInv /\ LastInv

FrameInv == ShmInv /\ PacketInv /\ ReaderInv

-----------------------------------------------------------------------------
(* The worker and the supervisor keep the packets in order. *)

LEMMA PacketInit == ASSUME FramesInit PROVE PacketInv
<1>1. log = <<>> /\ Len(log) = 0 /\ Recent = {}
  BY DEF FramesInit, Recent
<1>2. LogInv /\ NewestInv
  BY <1>1 DEF FramesInit, LogInv, NewestInv, Filling, Storing, EmptyBlock
<1>3. SlotInv /\ FrontInv /\ BackInv
  BY DEF FramesInit, SlotInv, FrontInv, BackInv, BackHeld, Filling, Storing, EmptyBlock, EmptySlot,
     Slots, NoSlot
<1> QED
  BY <1>2, <1>3 DEF PacketInv

\* Where neither the slots nor the list of packets change.
LEMMA SlotsKept ==
  ASSUME UNCHANGED <<slots, log, inherited>>
  PROVE  /\ Recent' = Recent
         /\ \A s, i : Holds(s, i)' <=> Holds(s, i)
         /\ \A x, i : Names(x, i) => x.generation = log'[i].generation /\ x.packet_id = log'[i].packet_id
         /\ SlotInv /\ (wpc' \notin {"header", "payload"} \/ wpc' = wpc) => SlotInv'
<1>1. Recent' = Recent
  BY DEF Recent
<1>2. \A s, i : Holds(s, i)' <=> Holds(s, i)
  BY DEF Holds, Names
<1> QED
  BY <1>1, <1>2 DEF Names, SlotInv, SameNames

\* write_worker() begins.
LEMMA BeginBlockPackets ==
  ASSUME ShmInv, PacketInv, wpc \notin Storing, NEW front \in Front, NEW back \in Back,
         BeginBlock(front, back), BackHeld(back),
         front.packet_id > 0 => Len(log) \in Recent /\ Names(front, Len(log)),
         UNCHANGED <<sup_generation, inherited, slots, writer, log, committed>>
  PROVE  PacketInv'
<1>1. /\ block'.front = block.front /\ block'.back = block.back
      /\ pending' = [front |-> front, back |-> back] /\ wpc' = "front"
  BY DEF BeginBlock, ShmInv, MappingType
<1>2. Recent' = Recent /\ SlotInv'
  BY <1>1, SlotsKept DEF PacketInv
<1>3. LogInv'
  BY <1>2 DEF PacketInv, LogInv, SameNames
<1>4. NewestInv'
  BY <1>1, <1>2 DEF NewestInv, Names, Filling, Storing
<1>5. FrontInv'
  BY <1>1, <1>2 DEF PacketInv, FrontInv, Names, SameNames
<1>6. BackInv'
  BY <1>1, <1>2 DEF PacketInv, BackInv, BackHeld, Holds, Names, Filling
<1> QED
  BY <1>2, <1>3, <1>4, <1>5, <1>6 DEF PacketInv

LEMMA SameBlockPackets ==
  ASSUME ShmInv, PacketInv, wpc \in {"start", "loop"}, NEW state \in States,
         BeginBlock([generation |-> writer.generation, state |-> state,
                     packet_id |-> block.front.packet_id], block.back),
         UNCHANGED <<sup_generation, inherited, slots, writer, log, committed>>
  PROVE  PacketInv'
<1> DEFINE front == [generation |-> writer.generation, state |-> state,
                     packet_id |-> block.front.packet_id]
<1>1. front \in Front /\ block.back \in Back
  BY DEF ShmInv, MappingType, Front
<1>2. block.front.generation = writer.generation
  BY DEF ShmInv, RunningInv
<1>3. front.packet_id > 0 => Len(log) \in Recent /\ Names(front, Len(log))
  BY <1>2 DEF PacketInv, NewestInv, Names
<1>4. BackHeld(block.back)
  BY DEF PacketInv, BackInv
<1>5. wpc \notin Storing
  BY DEF Storing
<1> HIDE DEF front
<1> QED
  BY <1>1, <1>3, <1>4, <1>5, BeginBlockPackets DEF front

LEMMA StorePackets ==
  ASSUME ShmInv, PacketInv, storeFront \/ storeBack \/ storeEven
  PROVE  PacketInv'
<1>1. /\ wpc \in Storing /\ wpc' \notin Filling
      /\ UNCHANGED <<sup_generation, inherited, slots, writer, log>>
  BY DEF storeFront, storeBack, storeEven, history, Storing, Filling
<1>2. Recent' = Recent /\ SlotInv'
  BY <1>1, SlotsKept DEF PacketInv, Filling
<1>3. log \in Seq(Entry) /\ Len(log) \in Nat
  BY LenProperties DEF ShmInv, MappingType
<1>4. CASE storeFront
  <2>1. /\ wpc = "front" /\ wpc' = "back"
        /\ block'.front = pending.front /\ block'.back = block.back
        /\ UNCHANGED <<pending, committed>>
    BY <1>4 DEF storeFront, history, ShmInv, MappingType
  <2>2. LogInv' /\ NewestInv'
    BY <1>1, <1>2, <2>1 DEF PacketInv, LogInv, NewestInv, Names, SameNames, Storing, Filling
  <2>3. FrontInv'
    <3> SUFFICES ASSUME pending.front.packet_id > 0
                 PROVE  /\ \E i \in Recent : Names(pending.front, i) /\ committed <= i
                        /\ \E s \in Slots : ~Odd(slots[s].seq) /\ SameNames(slots[s], pending.front)
      BY <1>1, <1>2, <2>1 DEF FrontInv, Names, SameNames
    <3>1. Len(log) \in Recent /\ Names(pending.front, Len(log)) /\ committed <= Len(log)
      BY <1>1 DEF PacketInv, NewestInv, LogInv
    <3>2. Complete(pending.front, pending.back)
      BY <1>1 DEF ShmInv, StoringInv
    <3> QED
      BY <3>1, <3>2 DEF Complete, SameNames
  <2>4. BackInv'
    BY <1>1, <1>2, <2>1 DEF PacketInv, BackInv, BackHeld, Holds, Names, Storing, Filling
  <2> QED
    BY <1>2, <2>2, <2>3, <2>4 DEF PacketInv
<1>5. CASE storeBack
  <2>1. /\ wpc = "back" /\ wpc' = "even"
        /\ block'.front = block.front /\ block'.back = pending.back
        /\ UNCHANGED <<pending, committed>>
    BY <1>5 DEF storeBack, history, ShmInv, MappingType
  <2>2. LogInv' /\ NewestInv'
    BY <1>1, <1>2, <2>1 DEF PacketInv, LogInv, NewestInv, Names, SameNames, Storing, Filling
  <2>3. FrontInv'
    BY <1>1, <1>2, <2>1 DEF PacketInv, FrontInv, Names, SameNames
  <2>4. BackInv'
    BY <1>1, <1>2, <2>1 DEF PacketInv, BackInv, BackHeld, Holds, Names, Storing, Filling
  <2> QED
    BY <1>2, <2>2, <2>3, <2>4 DEF PacketInv
<1>6. CASE storeEven
  <2>1. /\ wpc = "even" /\ wpc' \in {"off", "loop"}
        /\ block'.front = block.front /\ block'.back = block.back
        /\ committed' = IF block.front.packet_id > 0 THEN Len(log) ELSE committed
        /\ block.front = pending.front
    BY <1>6 DEF storeEven, ShmInv, MappingType, StoringInv, Storing
  <2>2. block.front.packet_id > 0 => Len(log) \in Recent /\ Names(block.front, Len(log))
    BY <1>1, <2>1 DEF PacketInv, NewestInv
  <2>3. LogInv'
    BY <1>1, <1>2, <1>3, <2>1 DEF PacketInv, LogInv, SameNames
  <2>4. NewestInv'
    BY <1>1, <1>2, <2>1, <2>2 DEF NewestInv, Names, Storing, Filling
  <2>5. FrontInv'
    <3> SUFFICES ASSUME block.front.packet_id > 0
                 PROVE  /\ \E i \in Recent : Names(block.front, i) /\ Len(log) <= i
                        /\ \E s \in Slots : ~Odd(slots[s].seq) /\ SameNames(slots[s], block.front)
      BY <1>1, <1>2, <2>1 DEF FrontInv, Names, SameNames
    <3>1. \E s \in Slots : ~Odd(slots[s].seq) /\ SameNames(slots[s], block.front)
      BY DEF PacketInv, FrontInv
    <3> QED
      BY <1>3, <2>2, <3>1
  <2>6. BackInv'
    BY <1>1, <1>2, <2>1 DEF PacketInv, BackInv, BackHeld, Holds, Names, Storing, Filling
  <2> QED
    BY <1>2, <2>3, <2>4, <2>5, <2>6 DEF PacketInv
<1> QED
  BY <1>4, <1>5, <1>6

LEMMA WritePackets ==
  ASSUME ShmInv, PacketInv, writeFirst \/ writeHeartbeat \/ writeLast
  PROVE  PacketInv'
<1>1. CASE writeFirst
  BY <1>1, SameBlockPackets DEF writeFirst, history, States
<1>2. CASE writeHeartbeat
  <2>1. (IF writer.packet_id > 0 THEN "ONLINE" ELSE "STARTING") \in States
    BY DEF States
  <2> QED
    BY <1>2, <2>1, SameBlockPackets DEF writeHeartbeat
<1>3. CASE writeLast
  BY <1>3, SameBlockPackets DEF writeLast, history, States
<1> QED
  BY <1>1, <1>2, <1>3

LEMMA PublishPackets == ASSUME ShmInv, PacketInv, publishSlot PROVE PacketInv'
<1> DEFINE front == [generation |-> writer.generation, state |-> "ONLINE",
                     packet_id |-> writer.packet_id]
           back  == [active_slot |-> slot, flags |-> Newest]
<1>1. /\ wpc = "publish" /\ BeginBlock(front, back)
      /\ UNCHANGED <<sup_generation, inherited, slots, writer, log, committed>>
  BY DEF publishSlot, history, Newest
<1>2. /\ slot \in Slots /\ ~Odd(slots[slot].seq) /\ todo = {}
      /\ slots[slot].generation = writer.generation /\ slots[slot].packet_id = writer.packet_id
      /\ Newest \subseteq slots[slot].sized
      /\ \A f \in Newest : slots[slot].payload[f] = Len(log)
      /\ log # <<>>
  BY <1>1 DEF ShmInv, FillingInv, Filling
<1>3. Len(log) \in Recent /\ Names(writer, Len(log))
  BY <1>1 DEF PacketInv, NewestInv, Filling
<1>4. Newest \subseteq Fields
  <2>1. log \in Seq(Entry) /\ Len(log) \in 1 .. Len(log)
    BY <1>2, <1>3 DEF ShmInv, MappingType, Recent
  <2>2. log[Len(log)] \in Entry
    BY <2>1, ElementOfSeq
  <2> QED
    BY <2>2 DEF Newest, Entry
<1>5. front \in Front /\ back \in Back
  BY <1>2, <1>4 DEF ShmInv, MappingType, Front, Back, States
<1>6. front.packet_id > 0 => Len(log) \in Recent /\ Names(front, Len(log))
  BY <1>3 DEF Names
<1>7. BackHeld(back)
  <2>1. Holds(slot, Len(log))
    BY <1>2, <1>3 DEF Holds, Names, Newest
  <2> QED
    BY <1>3, <2>1 DEF BackHeld, Newest
<1>8. wpc \notin Storing
  BY <1>1 DEF Storing
<1> HIDE DEF front, back
<1> QED
  BY <1>1, <1>5, <1>6, <1>7, <1>8, BeginBlockPackets

LEMMA BeginPackets == ASSUME ShmInv, PacketInv, beginPublish PROVE PacketInv'
<1>1. PICK fields \in Offers :
        log' = Append(log, [generation |-> writer.generation,
                            packet_id |-> writer.packet_id + 1, fields |-> fields])
  BY DEF beginPublish
<1> DEFINE e == [generation |-> writer.generation, packet_id |-> writer.packet_id + 1,
                 fields |-> fields]
           n == Len(log)
<1>2. /\ wpc = "loop" /\ writer' = [writer EXCEPT !.packet_id = @ + 1]
      /\ slot' = FreeSlot /\ slots' = [slots EXCEPT ![FreeSlot].seq = NextOdd(@)]
      /\ wpc' = "header" /\ UNCHANGED <<sup_generation, inherited, block, pending, committed>>
  BY DEF beginPublish
<1>3. /\ FreeSlot \in Slots /\ FreeSlot # block.back.active_slot
  BY DEF FreeSlot, Slots
<1>4. /\ slots \in [Slots -> Slot] /\ slots[FreeSlot].seq \in Nat /\ slots[FreeSlot] \in Slot
  BY <1>3 DEF ShmInv, MappingType, Slot
<1>5. Odd(slots'[FreeSlot].seq) /\ \A s \in Slots \ {FreeSlot} : slots'[s] = slots[s]
  BY <1>2, <1>3, <1>4, Parity DEF Slot
<1>6. /\ log \in Seq(Entry) /\ n \in Nat /\ inherited \in Nat /\ inherited <= n
      /\ writer.generation \in Nat /\ writer.packet_id \in Nat
      /\ writer'.generation = writer.generation /\ writer'.packet_id = writer.packet_id + 1
  BY <1>2 DEF ShmInv, MappingType, PacketInv, LogInv
<1>7. e \in Entry
  <2>1. fields \subseteq Fields
    BY ShmAssumption DEF Fields
  <2> QED
    BY <1>6, <2>1 DEF Entry
<1>8. /\ Len(log') = n + 1 /\ log'[n + 1] = e /\ \A i \in 1 .. n : log'[i] = log[i]
  BY <1>1, <1>6, <1>7, AppendProperties
<1>9. e.generation = writer.generation /\ e.packet_id = writer.packet_id + 1
  OBVIOUS
<1>10. /\ Recent' = Recent \cup {n + 1}
       /\ \A i \in Recent : i \in Nat /\ i <= n /\ log'[i] = log[i] /\ log[i] \in Entry
  <2>1. \A i \in Recent : i \in 1 .. n
    BY DEF Recent
  <2>2. \A i \in 1 .. n : log[i] \in Entry
    BY <1>6, ElementOfSeq
  <2> QED
    BY <1>2, <1>6, <1>8, <2>1, <2>2 DEF Recent
<1> HIDE DEF e, n
<1>11. LogInv'
  <2>1. \A i \in Recent : /\ log[i].packet_id > 0 /\ log[i].generation <= writer.generation
                          /\ log[i].generation = writer.generation =>
                               log[i].packet_id <= writer.packet_id
    BY DEF PacketInv, LogInv
  <2>2. \A i \in Recent : log[i].generation \in Nat /\ log[i].packet_id \in Nat
    BY <1>10 DEF Entry
  <2>3. \A i \in Recent : ~SameNames(log[i], e)
    BY <1>6, <1>9, <2>1, <2>2 DEF SameNames
  <2>4. \A i, j \in Recent : SameNames(log[i], log[j]) => i = j
    BY DEF PacketInv, LogInv
  <2>5. \A i, j \in Recent' : SameNames(log'[i], log'[j]) => i = j
    BY <1>8, <1>10, <2>3, <2>4 DEF SameNames
  <2>6. \A i \in Recent' : /\ log'[i].packet_id > 0 /\ log'[i].generation <= writer'.generation
                           /\ log'[i].generation = writer'.generation =>
                                log'[i].packet_id <= writer'.packet_id
    BY <1>6, <1>8, <1>9, <1>10, <2>1, <2>2
  <2>7. /\ inherited' \in Nat /\ inherited' <= Len(log')
        /\ committed' \in Nat /\ committed' <= Len(log') /\ writer'.generation = sup_generation'
    BY <1>2, <1>6, <1>8 DEF PacketInv, LogInv, n
  <2> QED
    BY <2>5, <2>6, <2>7 DEF LogInv, SameNames
<1>12. NewestInv'
  BY <1>2, <1>6, <1>8, <1>9, <1>10 DEF NewestInv, Names, Storing
<1>13. \A s \in Slots \ {FreeSlot} : \A i \in Recent : Holds(s, i) => Holds(s, i)'
  BY <1>5, <1>10 DEF Holds, Names
<1>14. SlotInv'
  <2>1. ASSUME NEW s \in Slots, ~Odd(slots'[s].seq), slots'[s].packet_id > 0
        PROVE  \E i \in Recent' : Holds(s, i)' /\ i < Len(log')
    <3>1. s # FreeSlot /\ slots'[s] = slots[s]
      BY <1>5, <2>1
    <3>2. PICK i \in Recent : Holds(s, i)
      BY <2>1, <3>1 DEF PacketInv, SlotInv
    <3>3. i \in Recent' /\ i < Len(log')
      BY <1>6, <1>8, <1>10 DEF n
    <3> QED
      BY <1>13, <3>1, <3>2, <3>3
  <2>2. ASSUME NEW r \in Slots, NEW s \in Slots, ~Odd(slots'[r].seq), slots'[r].packet_id > 0,
               ~Odd(slots'[s].seq), SameNames(slots'[r], slots'[s])
        PROVE  r = s
    <3>1. slots'[r] = slots[r] /\ slots'[s] = slots[s]
      BY <1>5, <2>2
    <3> QED
      BY <2>2, <3>1 DEF PacketInv, SlotInv
  <2> QED
    BY <2>1, <2>2 DEF SlotInv, SameNames
<1>15. FrontInv'
  <2> SUFFICES ASSUME block.front.packet_id > 0
               PROVE  /\ \E i \in Recent' : /\ block.front.generation = log'[i].generation
                                            /\ block.front.packet_id = log'[i].packet_id
                                            /\ committed <= i
                      /\ \E s \in Slots : ~Odd(slots'[s].seq) /\ SameNames(slots'[s], block.front)
    BY <1>2 DEF FrontInv, Names, SameNames
  <2>1. Complete(block.front, block.back)
    BY <1>2 DEF ShmInv, RunningInv, BlockInv
  <2>2. /\ block.back.active_slot \in Slots \ {FreeSlot}
        /\ ~Odd(slots[block.back.active_slot].seq)
        /\ SameNames(slots[block.back.active_slot], block.front)
    BY <1>3, <2>1 DEF Complete, SameNames
  <2>3. PICK i \in Recent : Names(block.front, i) /\ committed <= i
    BY DEF PacketInv, FrontInv
  <2> QED
    BY <1>5, <1>10, <2>2, <2>3 DEF Names
<1>16. BackInv'
  <2>1. BackHeld(block.back)
    BY DEF PacketInv, BackInv
  <2>2. BackHeld(block.back)'
    <3> SUFFICES ASSUME block.back.active_slot \in Slots
                 PROVE  \E i \in Recent' : Holds(block.back.active_slot, i)' /\ block.back.flags = log'[i].fields
      BY <1>2 DEF BackHeld
    <3>1. PICK i \in Recent : Holds(block.back.active_slot, i) /\ block.back.flags = log[i].fields
      BY <2>1 DEF BackHeld
    <3>2. Holds(block.back.active_slot, i)'
      <4>1. \A s \in Slots \ {FreeSlot} : Holds(s, i) => Holds(s, i)'
        BY <1>13
      <4> QED
        BY <1>2, <1>3, <1>5, <1>10, <3>1 DEF Holds, Names
    <3> QED
      BY <1>2, <1>10, <3>1, <3>2
  <2> QED
    BY <1>2, <1>3, <2>2 DEF BackInv, Storing
<1> QED
  BY <1>11, <1>12, <1>14, <1>15, <1>16 DEF PacketInv

\* The stores into the slot being filled.
LEMMA FillPackets ==
  ASSUME ShmInv, PacketInv, wpc \in {"header", "payload"}, wpc' = "payload",
         Odd(slots'[slot].seq), \A s \in Slots \ {slot} : slots'[s] = slots[s],
         UNCHANGED <<sup_generation, inherited, block, writer, slot, pending, log, committed>>
  PROVE  PacketInv'
<1>1. Recent' = Recent
  BY DEF Recent
<1>2. LogInv' /\ NewestInv'
  BY <1>1 DEF PacketInv, LogInv, NewestInv, SameNames, Names, Storing, Filling
<1>3. slot \in Slots /\ Odd(slots[slot].seq) /\ slot # block.back.active_slot
  BY DEF ShmInv, FillingInv, PacketInv, BackInv, Filling
<1>4. \A s \in Slots \ {slot} : \A i : Holds(s, i) => Holds(s, i)'
  BY DEF Holds, Names
<1>5. SlotInv'
  BY <1>1, <1>4 DEF PacketInv, SlotInv, SameNames
<1>6. FrontInv'
  BY <1>1, <1>3 DEF PacketInv, FrontInv, Names, SameNames
<1>7. BackInv'
  <2>1. BackHeld(block.back)'
    <3> SUFFICES ASSUME block.back.active_slot \in Slots
                 PROVE  \E i \in Recent : Holds(block.back.active_slot, i)' /\ block.back.flags = log[i].fields
      BY <1>1 DEF BackHeld
    <3>1. PICK i \in Recent : Holds(block.back.active_slot, i) /\ block.back.flags = log[i].fields
      BY DEF PacketInv, BackInv, BackHeld
    <3>2. Holds(block.back.active_slot, i)'
      BY <1>3, <1>4, <3>1 DEF Holds, Names
    <3> QED
      BY <3>1, <3>2
  <2> QED
    BY <1>3, <2>1 DEF BackInv, Storing
<1> QED
  BY <1>2, <1>5, <1>6, <1>7 DEF PacketInv

LEMMA StoreHeaderPackets == ASSUME ShmInv, PacketInv, storeHeader PROVE PacketInv'
<1>1. /\ wpc = "header" /\ wpc' = "payload"
      /\ slots' = [slots EXCEPT ![slot].generation = writer.generation,
                                ![slot].packet_id = writer.packet_id,
                                ![slot].sized = @ \cup todo]
      /\ UNCHANGED <<sup_generation, inherited, block, writer, slot, pending, log, committed>>
  BY DEF storeHeader, history
<1>2. slot \in Slots /\ Odd(slots[slot].seq) /\ slots \in [Slots -> Slot] /\ slots[slot] \in Slot
  BY <1>1 DEF ShmInv, MappingType, FillingInv, Filling
<1>3. slots'[slot].seq = slots[slot].seq /\ \A s \in Slots \ {slot} : slots'[s] = slots[s]
  BY <1>1, <1>2 DEF Slot
<1> QED
  BY <1>1, <1>2, <1>3, FillPackets

LEMMA StoreFieldPackets == ASSUME ShmInv, PacketInv, storeField PROVE PacketInv'
<1>1. /\ wpc = "payload" /\ wpc' = "payload"
      /\ \E f \in Fields : slots' = [slots EXCEPT ![slot].payload[f] = Len(log)]
      /\ UNCHANGED <<sup_generation, inherited, block, writer, slot, pending, log, committed>>
  BY DEF storeField, history
<1>2. slot \in Slots /\ Odd(slots[slot].seq) /\ slots \in [Slots -> Slot] /\ slots[slot] \in Slot
  BY <1>1 DEF ShmInv, MappingType, FillingInv, Filling
<1>3. slots'[slot].seq = slots[slot].seq /\ \A s \in Slots \ {slot} : slots'[s] = slots[s]
  BY <1>1, <1>2 DEF Slot
<1> QED
  BY <1>1, <1>2, <1>3, FillPackets

\* The slot becomes even, and holds the newest packet.
LEMMA CommitStep ==
  ASSUME ShmInv, PacketInv, commitSlot
  PROVE  /\ slot \in Slots /\ \A s \in Slots \ {slot} : slots'[s] = slots[s]
         /\ slots' = [slots EXCEPT ![slot].seq = @ + 1]
         /\ Odd(slots[slot].seq) /\ ~Odd(slots'[slot].seq)
         /\ SameNames(slots'[slot], writer) /\ slots'[slot].sized = slots[slot].sized
         /\ Len(log) \in Recent /\ Names(writer, Len(log)) /\ Holds(slot, Len(log))'
         /\ slots[slot].seq \in Nat /\ slots'[slot].seq = slots[slot].seq + 1
<1>1. /\ wpc = "payload" /\ todo = {} /\ slots' = [slots EXCEPT ![slot].seq = @ + 1]
      /\ UNCHANGED log
  BY DEF commitSlot, history
<1>2. /\ slot \in Slots /\ Odd(slots[slot].seq)
      /\ slots[slot].generation = writer.generation /\ slots[slot].packet_id = writer.packet_id
      /\ Newest \subseteq slots[slot].sized
      /\ \A f \in Newest : slots[slot].payload[f] = Len(log)
  BY <1>1 DEF ShmInv, FillingInv, Filling
<1>3. slots \in [Slots -> Slot] /\ slots[slot] \in Slot /\ slots[slot].seq \in Nat
  BY <1>2 DEF ShmInv, MappingType, Slot
<1>4. ~Odd(slots[slot].seq + 1)
  BY <1>2, <1>3, Parity
<1>5. /\ slots'[slot].seq = slots[slot].seq + 1 /\ slots'[slot].payload = slots[slot].payload
      /\ slots'[slot].sized = slots[slot].sized
      /\ SameNames(slots'[slot], writer) /\ \A s \in Slots \ {slot} : slots'[s] = slots[s]
  BY <1>1, <1>2, <1>3 DEF Slot, SameNames
<1>6. Len(log) \in Recent /\ Names(writer, Len(log))
  BY <1>1 DEF PacketInv, NewestInv, Filling
<1>7. Holds(slot, Len(log))'
  <2>1. ~Odd(slots'[slot].seq)
    BY <1>4, <1>5
  <2>2. slot' = slot
    BY DEF commitSlot
  <2> QED
    BY <1>1, <1>2, <1>5, <1>6, <2>1, <2>2 DEF Holds, Names, SameNames, Newest
<1> QED
  BY <1>1, <1>2, <1>3, <1>4, <1>5, <1>6, <1>7

LEMMA CommitPackets == ASSUME ShmInv, PacketInv, commitSlot PROVE PacketInv'
<1>1. /\ wpc = "payload" /\ wpc' = "publish"
      /\ UNCHANGED <<sup_generation, inherited, block, writer, slot, pending, log, committed>>
  BY DEF commitSlot, history
<1>2. /\ slot \in Slots /\ \A s \in Slots \ {slot} : slots'[s] = slots[s]
      /\ Odd(slots[slot].seq) /\ ~Odd(slots'[slot].seq) /\ SameNames(slots'[slot], writer)
      /\ Len(log) \in Recent /\ Names(writer, Len(log)) /\ Holds(slot, Len(log))'
  BY CommitStep
<1>3. slot # block.back.active_slot
  BY <1>1 DEF PacketInv, BackInv, Filling
<1>4. Recent' = Recent
  BY <1>1 DEF Recent
<1>5. LogInv' /\ NewestInv'
  BY <1>1, <1>4 DEF PacketInv, LogInv, NewestInv, SameNames, Names, Storing, Filling
<1>6. \A s \in Slots \ {slot} : \A i : Holds(s, i) => Holds(s, i)'
  BY <1>1, <1>2 DEF Holds, Names
<1>7. \A s \in Slots \ {slot} : ~Odd(slots[s].seq) /\ slots[s].packet_id > 0 =>
        \E i \in Recent : Holds(s, i) /\ i < Len(log)
  BY <1>1 DEF PacketInv, SlotInv
<1>8. \A i \in Recent : i \in Nat /\ i <= Len(log)
  BY DEF Recent
<1>9. \A s \in Slots \ {slot} : ~Odd(slots[s].seq) /\ slots[s].packet_id > 0 =>
        ~SameNames(slots[s], slots'[slot])
  <2> SUFFICES ASSUME NEW s \in Slots \ {slot}, ~Odd(slots[s].seq), slots[s].packet_id > 0,
                      SameNames(slots[s], slots'[slot])
               PROVE  FALSE
    OBVIOUS
  <2>1. PICK i \in Recent : Holds(s, i) /\ i < Len(log)
    BY <1>7
  <2>2. SameNames(log[i], log[Len(log)])
    BY <1>2, <2>1 DEF Holds, Names, SameNames
  <2> QED
    BY <1>2, <1>8, <2>1, <2>2 DEF PacketInv, LogInv
<1>10. SlotInv'
  <2>1. ASSUME NEW s \in Slots, ~Odd(slots'[s].seq), slots'[s].packet_id > 0
        PROVE  \E i \in Recent : Holds(s, i)'
    <3>1. CASE s = slot
      <4>1. Holds(slot, Len(log))'
        BY <1>2
      <4> QED
        BY <1>1, <1>2, <3>1, <4>1
    <3>2. CASE s # slot
      BY <1>2, <1>6, <1>7, <2>1, <3>2
    <3> QED
      BY <3>1, <3>2
  <2>2. ASSUME NEW r \in Slots, NEW s \in Slots, ~Odd(slots'[r].seq), slots'[r].packet_id > 0,
               ~Odd(slots'[s].seq), SameNames(slots'[r], slots'[s])
        PROVE  r = s
    <3>1. CASE r # slot /\ s # slot
      BY <1>2, <2>2, <3>1 DEF PacketInv, SlotInv
    <3>2. CASE r = slot /\ s # slot
      <4>1. slots[s].packet_id > 0 /\ SameNames(slots[s], slots'[slot]) /\ ~Odd(slots[s].seq)
        BY <1>2, <2>2, <3>2 DEF SameNames
      <4> QED
        BY <1>9, <3>2, <4>1
    <3>3. CASE r # slot /\ s = slot
      <4>1. slots[r].packet_id > 0 /\ SameNames(slots[r], slots'[slot]) /\ ~Odd(slots[r].seq)
        BY <1>2, <2>2, <3>3
      <4> QED
        BY <1>9, <3>3, <4>1
    <3> QED
      BY <3>1, <3>2, <3>3
  <2> QED
    BY <1>1, <1>4, <2>1, <2>2 DEF SlotInv, SameNames
<1>11. FrontInv'
  BY <1>1, <1>2, <1>4 DEF PacketInv, FrontInv, Names, SameNames
<1>12. BackInv'
  <2>1. BackHeld(block.back)'
    <3> SUFFICES ASSUME block.back.active_slot \in Slots
                 PROVE  \E i \in Recent : Holds(block.back.active_slot, i)' /\ block.back.flags = log[i].fields
      BY <1>1, <1>4 DEF BackHeld
    <3>1. PICK i \in Recent : Holds(block.back.active_slot, i) /\ block.back.flags = log[i].fields
      BY DEF PacketInv, BackInv, BackHeld
    <3>2. Holds(block.back.active_slot, i)'
      BY <1>1, <1>2, <1>3, <1>6, <3>1 DEF Holds, Names
    <3> QED
      BY <3>1, <3>2
  <2> QED
    BY <1>1, <1>3, <2>1 DEF BackInv, Storing
<1> QED
  BY <1>5, <1>10, <1>11, <1>12 DEF PacketInv

LEMMA SupervisorPackets == ASSUME ShmInv, PacketInv, ShmSupervisor PROVE PacketInv'
<1>1. CASE killWorker
  <2>1. /\ wpc' = "off"
        /\ UNCHANGED <<sup_generation, inherited, block, slots, writer, log, committed>>
    BY <1>1 DEF killWorker, mapping, history
  <2>2. Recent' = Recent /\ SlotInv'
    BY <2>1, SlotsKept DEF PacketInv
  <2>3. LogInv' /\ NewestInv' /\ FrontInv' /\ BackInv'
    BY <2>1, <2>2 DEF PacketInv, LogInv, NewestInv, FrontInv, BackInv, BackHeld, Holds, Names,
       SameNames, Storing, Filling
  <2> QED
    BY <2>2, <2>3 DEF PacketInv
<1>2. CASE resetWorkerBlock
  <2>1. /\ wpc' = "reset" /\ block' = EmptyBlock(sup_generation + 1)
        /\ UNCHANGED <<sup_generation, inherited, slots, writer, log, committed>>
    BY <1>2 DEF resetWorkerBlock, history
  <2>2. Recent' = Recent /\ SlotInv'
    BY <2>1, SlotsKept DEF PacketInv
  <2>3. block'.front.packet_id = 0 /\ block'.back.active_slot \notin Slots
    BY <2>1 DEF EmptyBlock, Slots, NoSlot
  <2>4. LogInv' /\ NewestInv' /\ FrontInv' /\ BackInv'
    BY <2>1, <2>2, <2>3 DEF PacketInv, LogInv, NewestInv, FrontInv, BackInv, BackHeld,
       SameNames, Storing, Filling
  <2> QED
    BY <2>2, <2>4 DEF PacketInv
<1>3. CASE startWorker
  <2>1. /\ wpc = "reset" /\ wpc' = "start" /\ sup_generation' = sup_generation + 1
        /\ writer' = [generation |-> sup_generation + 1, packet_id |-> 0]
        /\ UNCHANGED <<inherited, block, slots, log, committed>>
    BY <1>3 DEF startWorker, mapping, history
  <2>2. Recent' = Recent /\ SlotInv'
    BY <2>1, SlotsKept DEF PacketInv
  <2>3. \A i \in Recent : log[i].generation \in Nat /\ log[i].generation < sup_generation + 1
    <3>1. \A i \in Recent : i \in 1 .. Len(log)
      BY DEF Recent
    <3>2. \A i \in Recent : log[i] \in Entry
      BY <3>1, ElementOfSeq DEF ShmInv, MappingType
    <3>3. \A i \in Recent : log[i].generation \in Nat
      BY <3>2 DEF Entry
    <3>4. \A i \in Recent : log[i].generation <= sup_generation
      BY DEF PacketInv, LogInv
    <3>5. sup_generation \in Nat
      BY DEF ShmInv, MappingType
    <3> QED
      BY <3>3, <3>4, <3>5
  <2>4. LogInv'
    BY <2>1, <2>2, <2>3 DEF PacketInv, LogInv, SameNames
  <2>5. block.front.packet_id \in Nat /\ ~(block.front.packet_id > 0)
    <3>1. block.front.generation = sup_generation + 1 /\ block.front.packet_id \in Nat
      BY <2>1 DEF ShmInv, MappingType, RunningInv, Front
    <3> QED
      BY <2>3, <3>1 DEF PacketInv, FrontInv, Names
  <2>6. NewestInv' /\ FrontInv' /\ BackInv'
    BY <2>1, <2>2, <2>5 DEF PacketInv, NewestInv, FrontInv, BackInv, BackHeld, Holds, Names,
       Storing, Filling
  <2> QED
    BY <2>2, <2>4, <2>6 DEF PacketInv
<1>4. CASE newSupervisor
  <2>1. /\ wpc' = "start" /\ sup_generation' = 1 /\ block' = EmptyBlock(1)
        /\ slots' = [s \in Slots |-> EmptySlot] /\ inherited' = Len(log)
        /\ writer' = [generation |-> 1, packet_id |-> 0] /\ UNCHANGED <<log, committed>>
    BY <1>4 DEF newSupervisor, history
  <2>2. Len(log) \in Nat /\ committed \in Nat /\ committed <= Len(log)
    BY LenProperties DEF ShmInv, MappingType, PacketInv, LogInv
  <2>3. Recent' = {}
    BY <2>1, <2>2 DEF Recent
  <2>4. LogInv'
    BY <2>1, <2>2, <2>3 DEF LogInv
  <2>5. block'.front.packet_id = 0 /\ block'.back.active_slot \notin Slots
    BY <2>1 DEF EmptyBlock, Slots, NoSlot
  <2>6. SlotInv'
    <3>1. \A s \in Slots : slots'[s].packet_id = 0
      BY <2>1 DEF EmptySlot
    <3> QED
      BY <3>1 DEF SlotInv
  <2>7. NewestInv' /\ FrontInv' /\ BackInv'
    BY <2>1, <2>5 DEF NewestInv, FrontInv, BackInv, BackHeld, Storing, Filling
  <2> QED
    BY <2>4, <2>6, <2>7 DEF PacketInv
<1> QED
  BY <1>1, <1>2, <1>3, <1>4 DEF ShmSupervisor

LEMMA PacketStep ==
  ASSUME ShmInv, PacketInv, ShmWorker \/ ShmSupervisor
  PROVE  PacketInv'
BY StorePackets, WritePackets, BeginPackets, StoreHeaderPackets, StoreFieldPackets, CommitPackets,
   PublishPackets, SupervisorPackets DEF ShmWorker

LEMMA PacketKept == ASSUME PacketInv, UNCHANGED shared PROVE PacketInv'
<1>1. UNCHANGED <<sup_generation, inherited, block, slots, wpc, writer, slot, pending, log, committed>>
  BY DEF shared, mapping, producer, history
<1>2. Recent' = Recent
  BY <1>1 DEF Recent
<1> QED
  BY <1>1, <1>2 DEF PacketInv, LogInv, NewestInv, SlotInv, FrontInv, BackInv, BackHeld, Holds, Names,
     SameNames

-----------------------------------------------------------------------------
(* What the worker does behind a reader's back. *)

\* Packets are only added, and the packets of earlier supervisors only grow.
LEMMA LogGrows ==
  ASSUME ShmInv, PacketInv, ShmWorker \/ ShmSupervisor
  PROVE  /\ Len(log) \in Nat /\ Len(log') \in Nat /\ Len(log) <= Len(log')
         /\ \A i \in 1 .. Len(log) : log'[i] = log[i]
         /\ inherited <= Len(log) /\ inherited \in Nat /\ inherited' \in Nat
         /\ inherited <= inherited'
         /\ committed \in Nat /\ committed' \in Nat /\ committed <= committed'
         /\ UNCHANGED reading
<1>1. Len(log) \in Nat /\ inherited \in Nat /\ inherited <= Len(log)
      /\ committed \in Nat /\ committed <= Len(log)
  BY LenProperties DEF ShmInv, MappingType, PacketInv, LogInv
<1>2. CASE beginPublish
  <2>1. PICK fields \in Offers :
          log' = Append(log, [generation |-> writer.generation,
                              packet_id |-> writer.packet_id + 1, fields |-> fields])
    BY <1>2 DEF beginPublish
  <2>2. [generation |-> writer.generation, packet_id |-> writer.packet_id + 1, fields |-> fields]
           \in Entry
    BY ShmAssumption DEF Fields, ShmInv, MappingType, Entry
  <2>3. Len(log') = Len(log) + 1 /\ \A i \in 1 .. Len(log) : log'[i] = log[i]
    BY <2>1, <2>2, AppendProperties DEF ShmInv, MappingType
  <2> QED
    BY <1>1, <1>2, <2>3 DEF beginPublish
<1>3. CASE newSupervisor
  BY <1>1, <1>3 DEF newSupervisor, history
<1>4. CASE storeEven
  BY <1>1, <1>4 DEF storeEven
<1>5. CASE storeFront \/ storeBack \/ writeFirst \/ writeHeartbeat \/ writeLast \/ storeHeader
           \/ storeField \/ commitSlot \/ publishSlot \/ killWorker \/ resetWorkerBlock \/ startWorker
  BY <1>1, <1>5 DEF storeFront, storeBack, writeFirst, writeHeartbeat, writeLast, storeHeader,
     storeField, commitSlot, publishSlot, killWorker, resetWorkerBlock, startWorker, history
<1> QED
  BY <1>2, <1>3, <1>4, <1>5 DEF ShmWorker, ShmSupervisor

\* While a call of try_get_latest() runs, the counter of a slot only grows, a
\* slot whose even counter is the same is the same, and one that becomes even
\* holds the newest packet.
SlotsGrow ==
  /\ \A s \in Slots :
       /\ slots[s].seq \in Nat /\ slots'[s].seq \in Nat /\ slots[s].seq <= slots'[s].seq
       /\ slots'[s].seq = slots[s].seq /\ ~Odd(slots[s].seq) => slots'[s] = slots[s]
       /\ ~Odd(slots'[s].seq) =>
            \/ slots'[s] = slots[s]
            \/ wpc = "payload" /\ Len(log) \in Recent /\ Names(slots'[s], Len(log))
  /\ inherited' = inherited
  /\ wpc' \in {"header", "payload"} =>
       wpc \in {"header", "payload"} \/ Len(log') = Len(log) + 1

LEMMA SlotSteps ==
  ASSUME ShmInv, PacketInv, ShmWorker \/ ShmSupervisor, rpc # "idle"
  PROVE  SlotsGrow
<1>1. slots \in [Slots -> Slot] /\ \A s \in Slots : slots[s] \in Slot /\ slots[s].seq \in Nat
  BY DEF ShmInv, MappingType, Slot
<1>2. CASE beginPublish
  <2>1. FreeSlot \in Slots /\ slots' = [slots EXCEPT ![FreeSlot].seq = NextOdd(@)]
        /\ inherited' = inherited
    BY <1>2 DEF beginPublish, FreeSlot, Slots
  <2>2. /\ NextOdd(slots[FreeSlot].seq) \in Nat /\ Odd(NextOdd(slots[FreeSlot].seq))
        /\ slots[FreeSlot].seq < NextOdd(slots[FreeSlot].seq)
    BY <1>1, <2>1, Parity DEF NextOdd
  <2>3. slots'[FreeSlot].seq = NextOdd(slots[FreeSlot].seq)
        /\ \A s \in Slots \ {FreeSlot} : slots'[s] = slots[s]
    BY <1>1, <2>1 DEF Slot
  <2>4. \A s \in Slots :
          /\ slots[s].seq \in Nat /\ slots'[s].seq \in Nat /\ slots[s].seq <= slots'[s].seq
          /\ slots'[s].seq = slots[s].seq /\ ~Odd(slots[s].seq) => slots'[s] = slots[s]
          /\ ~Odd(slots'[s].seq) => slots'[s] = slots[s]
    BY <1>1, <2>1, <2>2, <2>3
  <2>5. Len(log') = Len(log) + 1
    <3>1. PICK fields \in Offers :
            log' = Append(log, [generation |-> writer.generation,
                                packet_id |-> writer.packet_id + 1, fields |-> fields])
      BY <1>2 DEF beginPublish
    <3>2. [generation |-> writer.generation, packet_id |-> writer.packet_id + 1, fields |-> fields]
             \in Entry
      BY ShmAssumption DEF Fields, ShmInv, MappingType, Entry
    <3> QED
      BY <3>1, <3>2, AppendProperties DEF ShmInv, MappingType
  <2> QED
    BY <2>1, <2>4, <2>5 DEF SlotsGrow
<1>3. CASE storeHeader \/ storeField
  <2>1. /\ slot \in Slots /\ Odd(slots[slot].seq) /\ wpc \in {"header", "payload"}
        /\ inherited' = inherited
    BY <1>3 DEF storeHeader, storeField, ShmInv, FillingInv, Filling
  <2>2. slots'[slot].seq = slots[slot].seq /\ \A s \in Slots \ {slot} : slots'[s] = slots[s]
    BY <1>1, <1>3, <2>1 DEF storeHeader, storeField, Slot
  <2> QED
    BY <1>1, <2>1, <2>2 DEF SlotsGrow
<1>4. CASE commitSlot
  <2>1. /\ slot \in Slots /\ \A s \in Slots \ {slot} : slots'[s] = slots[s]
        /\ slots[slot].seq \in Nat /\ slots'[slot].seq = slots[slot].seq + 1
        /\ SameNames(slots'[slot], writer) /\ Len(log) \in Recent /\ Names(writer, Len(log))
    BY <1>4, CommitStep
  <2>2. wpc = "payload" /\ wpc' = "publish" /\ inherited' = inherited
    BY <1>4 DEF commitSlot
  <2>3. Names(slots'[slot], Len(log))
    BY <2>1 DEF SameNames, Names
  <2>4. \A s \in Slots :
          /\ slots[s].seq \in Nat /\ slots'[s].seq \in Nat /\ slots[s].seq <= slots'[s].seq
          /\ slots'[s].seq = slots[s].seq => slots'[s] = slots[s]
    BY <1>1, <2>1
  <2> QED
    BY <2>1, <2>2, <2>3, <2>4 DEF SlotsGrow
<1>5. CASE newSupervisor
  BY <1>5 DEF newSupervisor
<1>6. CASE storeFront \/ storeBack \/ storeEven \/ writeFirst \/ writeHeartbeat \/ writeLast
           \/ publishSlot \/ killWorker \/ resetWorkerBlock \/ startWorker
  <2>1. UNCHANGED <<slots, inherited>> /\ wpc' \notin {"header", "payload"}
    BY <1>6 DEF storeFront, storeBack, storeEven, writeFirst, writeHeartbeat, writeLast,
       publishSlot, killWorker, resetWorkerBlock, startWorker, mapping, BeginBlock
  <2> QED
    BY <1>1, <2>1 DEF SlotsGrow
<1> QED
  BY <1>2, <1>3, <1>4, <1>5, <1>6 DEF ShmWorker, ShmSupervisor

LEMMA LastKept ==
  ASSUME ShmInv, PacketInv, ReaderInv, ShmWorker \/ ShmSupervisor
  PROVE  LastInv'
<1> SUFFICES ASSUME last # Nothing
             PROVE  \E i \in 1 .. Len(log') :
                      /\ log'[i] = [generation |-> last.generation, packet_id |-> last.packet_id,
                                    fields |-> last.fields]
                      /\ \A f \in last.fields : last.payload[f] = i
                      /\ last.since <= i \/ i <= inherited'
  BY LogGrows DEF LastInv, reading
<1>1. PICK i \in 1 .. Len(log) :
        /\ log[i] = [generation |-> last.generation, packet_id |-> last.packet_id,
                     fields |-> last.fields]
        /\ \A f \in last.fields : last.payload[f] = i
        /\ last.since <= i \/ i <= inherited
  BY DEF ReaderInv, LastInv
<1>2. i \in 1 .. Len(log') /\ (i <= inherited => i <= inherited') /\ log'[i] = log[i]
  BY LogGrows
<1> QED
  BY <1>1, <1>2

LEMMA ReaderKept ==
  ASSUME ShmInv, PacketInv, ReaderInv, ShmWorker \/ ShmSupervisor
  PROVE  ReaderInv'
<1>1. UNCHANGED <<rpc, reader, last>>
  BY LogGrows DEF reading
<1>2. ReaderType' /\ LastInv'
  BY <1>1, LastKept DEF ReaderInv, ReaderType
<1>3. CASE rpc = "idle"
  <2>1. ~reader.again
    BY <1>3 DEF ReaderInv, ReaderType
  <2> QED
    BY <1>1, <1>2, <1>3, <2>1 DEF ReaderInv, OfferedInv, HeaderReadInv, HeaderInv, WithHeader, KeptInv,
       IsKept, CopyInv
<1>4. CASE rpc # "idle"
  <2>1. SlotsGrow
    BY <1>4, SlotSteps
  <2>2. /\ \A i \in Recent : i \in Nat /\ i <= Len(log) /\ i \in Recent' /\ log'[i] = log[i]
        /\ Len(log) \in Nat /\ Len(log') \in Nat /\ Len(log) <= Len(log')
        /\ committed \in Nat /\ committed' \in Nat /\ committed <= committed'
    BY <2>1, LogGrows DEF Recent, SlotsGrow
  <2>3. /\ reader.slot \in Slots \/ ~(rpc \in {"headerSeq", "header", "headerEven", "before"}
                                       \/ reader.again)
        /\ reader.seq \in Nat /\ reader.before \in Nat /\ reader.since \in Nat
    BY DEF ReaderInv, ReaderType
  <2>4. OfferedInv'
    <3>1. reader.since <= committed'
      BY <1>4, <2>2, <2>3 DEF ReaderInv, OfferedInv
    <3>2. ASSUME reader.front.packet_id > 0
          PROVE  \E i \in Recent' : /\ reader.front.generation = log'[i].generation
                                    /\ reader.front.packet_id = log'[i].packet_id
                                    /\ reader.since <= i
      BY <1>4, <2>2, <3>2 DEF ReaderInv, OfferedInv, Names
    <3> QED
      BY <1>1, <3>1, <3>2 DEF OfferedInv, Names
  <2>5. HeaderReadInv'
    <3>1. rpc \in {"header", "headerEven"} =>
            /\ ~Odd(reader.seq) /\ reader.seq <= slots'[reader.slot].seq
            /\ slots'[reader.slot].seq = reader.seq =>
                 /\ slots[reader.slot].seq = reader.seq
                 /\ slots'[reader.slot] = slots[reader.slot]
      BY <2>1, <2>3 DEF ReaderInv, HeaderReadInv, SlotsGrow
    <3> QED
      BY <1>1, <3>1 DEF ReaderInv, HeaderReadInv, SameNames
  <2>6. HeaderInv'
    <3> SUFFICES ASSUME WithHeader
                 PROVE  /\ reader.header.generation = reader.generation
                        /\ \E i \in Recent' :
                             /\ reader.header.generation = log'[i].generation
                             /\ reader.header.packet_id = log'[i].packet_id
                             /\ wpc' \in {"header", "payload"} => i < Len(log')
                        /\ \A s \in Slots : ~Odd(slots'[s].seq) /\ SameNames(slots'[s], reader.header) =>
                             s = reader.slot /\ slots'[s].sized = reader.header.sized
      BY <1>1 DEF HeaderInv, WithHeader, Names, SameNames
    <3>1. PICK i \in Recent :
            Names(reader.header, i) /\ (wpc \in {"header", "payload"} => i < Len(log))
      BY DEF ReaderInv, HeaderInv
    <3>2. wpc' \in {"header", "payload"} => i < Len(log')
      BY <2>1, <2>2, <3>1 DEF SlotsGrow
    <3>3. ASSUME NEW s \in Slots, ~Odd(slots'[s].seq), SameNames(slots'[s], reader.header)
          PROVE  s = reader.slot /\ slots'[s].sized = reader.header.sized
      <4>1. ASSUME wpc = "payload", Len(log) \in Recent, Names(slots'[s], Len(log))
            PROVE  FALSE
        <5>1. SameNames(log[i], log[Len(log)])
          BY <3>1, <3>3, <4>1 DEF Names, SameNames
        <5>2. i = Len(log)
          BY <4>1, <5>1 DEF PacketInv, LogInv
        <5> QED
          BY <2>2, <3>1, <4>1, <5>2
      <4>2. slots'[s] = slots[s]
        BY <2>1, <3>3, <4>1 DEF SlotsGrow
      <4> QED
        BY <3>3, <4>2 DEF ReaderInv, HeaderInv
    <3> QED
      BY <2>2, <3>1, <3>2, <3>3 DEF ReaderInv, HeaderInv, Names
  <2>7. ASSUME reader.again
        PROVE  /\ ~Odd(reader.before) /\ reader.before <= slots'[reader.slot].seq
               /\ slots'[reader.slot].seq = reader.before =>
                    IsKept /\ slots'[reader.slot] = slots[reader.slot]
    BY <2>1, <2>3, <2>7 DEF ReaderInv, KeptInv, IsKept, SlotsGrow
  <2>8. KeptInv'
    <3>1. IsKept' => IsKept /\ slots'[reader.slot] = slots[reader.slot] /\ reader.again
      BY <1>1, <2>7 DEF IsKept
    <3>2. ASSUME IsKept', reader.back.active_slot = reader.slot
          PROVE  \E i \in Recent' : Holds(reader.slot, i)' /\ reader.back.flags = log'[i].fields
      <4>1. PICK i \in Recent : Holds(reader.slot, i) /\ reader.back.flags = log[i].fields
        BY <3>1, <3>2 DEF ReaderInv, KeptInv
      <4> QED
        BY <1>1, <2>2, <3>1, <3>2, <4>1 DEF Holds, Names
    <3> QED
      BY <1>1, <2>7, <3>1, <3>2 DEF ReaderInv, KeptInv, SameNames
  <2>9. CopyInv'
    <3>1. IsKept' => IsKept /\ slots'[reader.slot] = slots[reader.slot]
      BY <1>1, <2>7 DEF IsKept
    <3> QED
      BY <1>1, <3>1 DEF ReaderInv, CopyInv, StillOffered
  <2> QED
    BY <1>2, <2>4, <2>5, <2>6, <2>8, <2>9 DEF ReaderInv
<1> QED
  BY <1>3, <1>4

-----------------------------------------------------------------------------
(* The reader's own steps. *)

\* A call is over, whatever it returned.
LEMMA CallEnds ==
  ASSUME rpc' = "idle", reader' = NoReader, LastInv',
         last' \in [generation : Nat, packet_id : Nat, fields : SUBSET Fields,
                    payload : [Fields -> Nat], since : Nat]
  PROVE  ReaderInv'
<1>1. NoReader \in [generation : Nat, seq : Nat, front : Front, back : Back, again : BOOLEAN,
                    slot : Slots \cup {NoSlot}, header : Slot, before : Nat,
                    todo : SUBSET Fields, payload : [Fields -> Nat], since : Nat]
  <2>1. 0 \in Nat /\ EmptyBlock(0).front \in Front /\ EmptyBlock(0).back \in Back /\ EmptySlot \in Slot
    BY EmptyTyped DEF EmptyBlock, Front, Back, States
  <2> QED
    BY <2>1 DEF NoReader
<1>2. NoReader.again = FALSE
  BY DEF NoReader
<1>3. ReaderType'
  BY <1>1, <1>2 DEF ReaderType, ReaderPlaces
<1> QED
  BY <1>2, <1>3 DEF ReaderInv, OfferedInv, HeaderReadInv, HeaderInv, WithHeader, KeptInv, IsKept, CopyInv

LEMMA GivesUp == ASSUME ReaderInv, UNCHANGED shared, GiveUp PROVE ReaderInv'
<1>1. rpc' = "idle" /\ reader' = NoReader /\ last' = last /\ UNCHANGED <<log, inherited>>
  BY DEF GiveUp, shared, history
<1>2. LastInv'
  BY <1>1 DEF ReaderInv, LastInv
<1> QED
  BY <1>1, <1>2, CallEnds DEF ReaderInv, ReaderType

\* What a reader's step leaves alone.
LEMMA ReaderSees ==
  ASSUME UNCHANGED shared
  PROVE  /\ UNCHANGED <<sup_generation, inherited, block, slots, wpc, log, committed>>
         /\ Recent' = Recent
         /\ \A s, i : Holds(s, i)' <=> Holds(s, i)
<1>1. UNCHANGED <<sup_generation, inherited, block, slots, wpc, log, committed>>
  BY DEF shared, mapping, producer, history
<1> QED
  BY <1>1 DEF Recent, Holds, Names

LEMMA ReadSupervisorInv == ASSUME ShmInv, PacketInv, ReaderInv, readSupervisor PROVE ReaderInv'
<1>1. /\ reader' = [NoReader EXCEPT !.generation = sup_generation, !.since = committed]
      /\ rpc' = "seq" /\ UNCHANGED <<shared, last>>
  BY DEF readSupervisor
<1>2. UNCHANGED <<log, committed, inherited>>
  BY <1>1, ReaderSees
<1>3. sup_generation \in Nat /\ committed \in Nat
  BY DEF ShmInv, MappingType, PacketInv, LogInv
<1>4. NoReader \in [generation : Nat, seq : Nat, front : Front, back : Back, again : BOOLEAN,
                    slot : Slots \cup {NoSlot}, header : Slot, before : Nat,
                    todo : SUBSET Fields, payload : [Fields -> Nat], since : Nat]
  <2>1. 0 \in Nat /\ EmptyBlock(0).front \in Front /\ EmptyBlock(0).back \in Back /\ EmptySlot \in Slot
    BY EmptyTyped DEF EmptyBlock, Front, Back, States
  <2> QED
    BY <2>1 DEF NoReader
<1>5. reader'.again = FALSE /\ reader'.since = committed /\ reader'.front.packet_id = 0
  BY <1>1 DEF NoReader, EmptyBlock
<1>6. ReaderType'
  BY <1>1, <1>3, <1>4, <1>5 DEF ReaderInv, ReaderType, ReaderPlaces
<1>7. LastInv'
  BY <1>1, <1>2 DEF ReaderInv, LastInv
<1> QED
  BY <1>1, <1>2, <1>3, <1>5, <1>6, <1>7 DEF ReaderInv, OfferedInv, HeaderReadInv, HeaderInv, WithHeader,
     KeptInv, IsKept, CopyInv

\* Remembering a counter of the worker block changes nothing else.
LEMMA SeqRead ==
  ASSUME ReaderInv, UNCHANGED <<shared, last>>, rpc \in {"seq", "even"},
         rpc' \in {"seq", "front", "check", "locked"}, rpc' \in {"check"} => ~reader.again,
         rpc' = "locked" => reader.again,
         \/ reader' = reader
         \/ \E n \in Nat : reader' = [reader EXCEPT !.seq = n]
  PROVE  ReaderInv'
<1>1. UNCHANGED <<sup_generation, inherited, block, slots, wpc, log, committed>> /\ Recent' = Recent
      /\ \A s, i : Holds(s, i)' <=> Holds(s, i)
  BY ReaderSees
<1>2. /\ reader'.front = reader.front /\ reader'.back = reader.back /\ reader'.header = reader.header
      /\ reader'.slot = reader.slot /\ reader'.before = reader.before /\ reader'.again = reader.again
      /\ reader'.since = reader.since /\ reader'.generation = reader.generation
  BY DEF ReaderInv, ReaderType
<1>3. ReaderType'
  BY DEF ReaderInv, ReaderType, ReaderPlaces
<1>4. OfferedInv'
  BY <1>1, <1>2 DEF ReaderInv, OfferedInv, Names
<1>5. HeaderReadInv' /\ CopyInv' /\ LastInv'
  BY <1>1 DEF ReaderInv, HeaderReadInv, CopyInv, LastInv
<1>6. HeaderInv'
  BY <1>1, <1>2 DEF ReaderInv, HeaderInv, WithHeader, Names, SameNames
<1>7. KeptInv'
  BY <1>1, <1>2 DEF ReaderInv, KeptInv, IsKept, SameNames
<1> QED
  BY <1>3, <1>4, <1>5, <1>6, <1>7 DEF ReaderInv

\* read_worker()
LEMMA ReadWorkerInv ==
  ASSUME ShmInv, PacketInv, ReaderInv, readSeq \/ readFront \/ readBack \/ readEven
  PROVE  ReaderInv'
<1>1. UNCHANGED shared
  BY DEF readSeq, readFront, readBack, readEven
<1>2. UNCHANGED <<sup_generation, inherited, block, slots, wpc, log, committed>> /\ Recent' = Recent
  BY <1>1, ReaderSees
<1>3. block \in [seq : Nat, front : Front, back : Back]
  BY DEF ShmInv, MappingType
<1>4. CASE GiveUp
  BY <1>1, <1>4, GivesUp
<1>5. CASE readSeq /\ ~GiveUp
  <2>1. rpc = "seq" /\ rpc' = "front" /\ reader' = [reader EXCEPT !.seq = block.seq] /\ last' = last
    BY <1>5 DEF readSeq
  <2>2. block.seq \in Nat
    BY <1>3
  <2> QED
    BY <1>1, <2>1, <2>2, SeqRead
<1>6. CASE readFront
  <2>1. rpc = "front" /\ rpc' = "back" /\ reader' = [reader EXCEPT !.front = block.front] /\ last' = last
    BY <1>6 DEF readFront
  <2>2. ReaderType'
    BY <1>3, <2>1 DEF ReaderInv, ReaderType, ReaderPlaces
  <2>3. reader'.front = block.front /\ reader'.back = reader.back /\ reader'.header = reader.header
        /\ reader'.slot = reader.slot /\ reader'.before = reader.before /\ reader'.again = reader.again
        /\ reader'.since = reader.since /\ reader'.generation = reader.generation
    BY <2>1 DEF ReaderInv, ReaderType
  <2>4. reader.since \in Nat /\ committed \in Nat /\ reader.since <= committed
    BY <2>1 DEF ReaderInv, ReaderType, OfferedInv, PacketInv, LogInv
  <2>5. \A i \in Recent : i \in Nat /\ log[i].packet_id > 0
    BY DEF Recent, PacketInv, LogInv
  <2>6. OfferedInv'
    <3>1. ASSUME block.front.packet_id > 0
          PROVE  \E i \in Recent : Names(block.front, i) /\ reader.since <= i
      <4>1. PICK i \in Recent : Names(block.front, i) /\ committed <= i
        BY <3>1 DEF PacketInv, FrontInv
      <4> QED
        BY <2>4, <2>5, <4>1
    <3> QED
      BY <1>2, <2>3, <2>4, <3>1 DEF OfferedInv, Names
  <2>7. HeaderReadInv' /\ CopyInv' /\ LastInv'
    BY <1>2, <2>1 DEF ReaderInv, HeaderReadInv, CopyInv, LastInv
  <2>8. HeaderInv'
    BY <1>2, <2>1, <2>3 DEF ReaderInv, HeaderInv, WithHeader, Names, SameNames
  <2>9. KeptInv'
    <3>1. ASSUME reader.again, SameNames(block.front, reader.header)
          PROVE  SameNames(slots[reader.slot], reader.header)
      <4>1. PICK i \in Recent : Names(reader.header, i)
        BY <3>1 DEF ReaderInv, HeaderInv, WithHeader
      <4>2. block.front.packet_id > 0
        BY <2>5, <3>1, <4>1 DEF Names, SameNames
      <4>3. PICK s \in Slots : ~Odd(slots[s].seq) /\ SameNames(slots[s], block.front)
        BY <4>2 DEF PacketInv, FrontInv
      <4>4. SameNames(slots[s], reader.header)
        BY <3>1, <4>3 DEF SameNames
      <4> QED
        BY <3>1, <4>3, <4>4 DEF ReaderInv, HeaderInv, WithHeader
    <3> QED
      BY <1>2, <2>3, <3>1 DEF ReaderInv, KeptInv, IsKept, SameNames, Holds, Names
  <2> QED
    BY <2>2, <2>6, <2>7, <2>8, <2>9 DEF ReaderInv
<1>7. CASE readBack
  <2>1. rpc = "back" /\ rpc' = "even" /\ reader' = [reader EXCEPT !.back = block.back] /\ last' = last
    BY <1>7 DEF readBack
  <2>2. ReaderType'
    BY <1>3, <2>1 DEF ReaderInv, ReaderType, ReaderPlaces
  <2>3. reader'.front = reader.front /\ reader'.back = block.back /\ reader'.header = reader.header
        /\ reader'.slot = reader.slot /\ reader'.before = reader.before /\ reader'.again = reader.again
        /\ reader'.since = reader.since /\ reader'.generation = reader.generation
    BY <2>1 DEF ReaderInv, ReaderType
  <2>4. OfferedInv' /\ HeaderReadInv' /\ CopyInv' /\ LastInv'
    BY <1>2, <2>1, <2>3 DEF ReaderInv, OfferedInv, HeaderReadInv, CopyInv, LastInv, Names
  <2>5. HeaderInv'
    BY <1>2, <2>1, <2>3 DEF ReaderInv, HeaderInv, WithHeader, Names, SameNames
  <2>6. KeptInv'
    <3>1. ASSUME reader.again, block.back.active_slot = reader.slot
          PROVE  \E i \in Recent : Holds(reader.slot, i) /\ block.back.flags = log[i].fields
      <4>1. block.back.active_slot \in Slots
        BY <3>1 DEF ReaderInv, ReaderType
      <4> QED
        BY <3>1, <4>1 DEF PacketInv, BackInv, BackHeld
    <3> QED
      BY <1>2, <2>3, <3>1 DEF ReaderInv, KeptInv, IsKept, SameNames, Holds, Names
  <2> QED
    BY <2>2, <2>4, <2>5, <2>6 DEF ReaderInv
<1>8. CASE readEven /\ ~GiveUp
  <2>1. rpc = "even" /\ last' = last
    BY <1>8 DEF readEven, RetryOrGiveUp
  <2>2. CASE rpc' = "seq" /\ reader' = reader
    BY <1>1, <2>1, <2>2, SeqRead
  <2>3. CASE rpc' = (IF reader.again THEN "locked" ELSE "check") /\ reader' = [reader EXCEPT !.seq = 0]
    BY <1>1, <2>1, <2>3, SeqRead
  <2> QED
    BY <1>8, <2>2, <2>3 DEF readEven, RetryOrGiveUp
<1> QED
  BY <1>4, <1>5, <1>6, <1>7, <1>8

LEMMA ReturnCachedInv == ASSUME ShmInv, PacketInv, ReaderInv, returnCached PROVE ReaderInv'
<1>1. /\ rpc = "check" /\ IsOffered /\ IsCached /\ last' = [last EXCEPT !.since = reader.since]
      /\ rpc' = "idle" /\ reader' = NoReader /\ UNCHANGED shared
  BY DEF returnCached
<1>2. UNCHANGED <<log, inherited>>
  BY <1>1, ReaderSees
<1>3. /\ last \in [generation : Nat, packet_id : Nat, fields : SUBSET Fields,
                   payload : [Fields -> Nat], since : Nat]
      /\ reader.since \in Nat
  BY DEF ReaderInv, ReaderType
<1>4. /\ last' \in [generation : Nat, packet_id : Nat, fields : SUBSET Fields,
                    payload : [Fields -> Nat], since : Nat]
      /\ last'.generation = last.generation /\ last'.packet_id = last.packet_id
      /\ last'.fields = last.fields /\ last'.payload = last.payload /\ last'.since = reader.since
  BY <1>1, <1>3
<1>5. PICK i \in 1 .. Len(log) :
        /\ log[i] = [generation |-> last.generation, packet_id |-> last.packet_id,
                     fields |-> last.fields]
        /\ \A f \in last.fields : last.payload[f] = i
  BY <1>1 DEF ReaderInv, LastInv, IsCached
<1>6. inherited \in Nat
  BY DEF PacketInv, LogInv
<1>7. ASSUME i > inherited PROVE reader.since <= i
  <2>1. i \in Recent
    BY <1>5, <1>7 DEF Recent
  <2>2. PICK j \in Recent : Names(reader.front, j) /\ reader.since <= j
    BY <1>1 DEF ReaderInv, OfferedInv, IsOffered
  <2>3. SameNames(log[i], log[j])
    BY <1>1, <1>5, <2>2 DEF IsCached, IsOffered, Names, SameNames
  <2> QED
    BY <2>1, <2>2, <2>3 DEF PacketInv, LogInv
<1>8. reader.since <= i \/ i <= inherited
  BY <1>5, <1>6, <1>7
<1>9. LastInv'
  BY <1>2, <1>4, <1>5, <1>8 DEF LastInv
<1> QED
  BY <1>1, <1>4, <1>9, CallEnds

LEMMA TakeOfferInv == ASSUME ReaderInv, takeOffer PROVE ReaderInv'
<1>1. /\ rpc = "check" /\ IsOffered /\ reader.back.active_slot \in Slots
      /\ reader' = [reader EXCEPT !.slot = reader.back.active_slot]
      /\ rpc' = "headerSeq" /\ UNCHANGED <<shared, last>>
  BY DEF takeOffer
<1>2. UNCHANGED <<sup_generation, inherited, block, slots, wpc, log, committed>> /\ Recent' = Recent
  BY <1>1, ReaderSees
<1>3. ReaderType'
  BY <1>1 DEF ReaderInv, ReaderType, ReaderPlaces
<1>4. reader'.again = FALSE /\ reader'.since = reader.since /\ reader'.front = reader.front
  BY <1>1 DEF ReaderInv, ReaderType
<1> QED
  BY <1>1, <1>2, <1>3, <1>4 DEF ReaderInv, OfferedInv, HeaderReadInv, HeaderInv, WithHeader, KeptInv, IsKept,
     CopyInv, LastInv, Names, IsOffered

\* read_slot_header()
LEMMA ReadHeaderInv ==
  ASSUME ShmInv, PacketInv, ReaderInv, readHeaderSeq \/ readHeader \/ readHeaderEven
  PROVE  ReaderInv'
<1>1. UNCHANGED shared
  BY DEF readHeaderSeq, readHeader, readHeaderEven
<1>2. UNCHANGED <<sup_generation, inherited, block, slots, wpc, log, committed>> /\ Recent' = Recent
  BY <1>1, ReaderSees
<1>3. CASE GiveUp
  BY <1>1, <1>3, GivesUp
<1>4. ASSUME ~GiveUp
      PROVE  /\ reader.slot \in Slots /\ slots[reader.slot] \in Slot /\ slots[reader.slot].seq \in Nat
             /\ reader.again = FALSE /\ reader.front.packet_id > 0 /\ last' = last
             /\ reader.since \in Nat
  <2>1. rpc \in {"headerSeq", "header", "headerEven"} /\ last' = last
    BY <1>4 DEF readHeaderSeq, readHeader, readHeaderEven
  <2>2. reader.slot \in Slots /\ reader.again = FALSE /\ reader.front.packet_id > 0 /\ reader.since \in Nat
    BY <2>1 DEF ReaderInv, ReaderType, HeaderReadInv
  <2> QED
    BY <2>1, <2>2 DEF ShmInv, MappingType, Slot
<1>5. CASE readHeaderSeq /\ ~GiveUp
  <2>1. /\ rpc = "headerSeq" /\ rpc' = "header" /\ reader' = [reader EXCEPT !.seq = TheSlot.seq]
        /\ ~Odd(TheSlot.seq)
    BY <1>5 DEF readHeaderSeq
  <2>2. ReaderType'
    BY <1>4, <1>5, <2>1 DEF ReaderInv, ReaderType, ReaderPlaces, TheSlot
  <2>3. reader'.front = reader.front /\ reader'.since = reader.since /\ reader'.again = FALSE
        /\ reader'.slot = reader.slot /\ reader'.seq = slots[reader.slot].seq
    BY <1>4, <1>5, <2>1 DEF ReaderInv, ReaderType, TheSlot
  <2>4. OfferedInv' /\ LastInv' /\ CopyInv' /\ HeaderInv' /\ KeptInv'
    BY <1>2, <1>4, <1>5, <2>1, <2>3 DEF ReaderInv, OfferedInv, LastInv, CopyInv, HeaderInv, WithHeader,
       KeptInv, IsKept, Names
  <2>5. HeaderReadInv'
    BY <1>2, <1>4, <1>5, <2>1, <2>3 DEF HeaderReadInv, TheSlot
  <2> QED
    BY <2>2, <2>4, <2>5 DEF ReaderInv
<1>6. CASE readHeader
  <2> DEFINE h == [TheSlot EXCEPT !.payload = NoReader.payload]
  <2>1. rpc = "header" /\ rpc' = "headerEven" /\ reader' = [reader EXCEPT !.header = h] /\ last' = last
    BY <1>6 DEF readHeader
  <2>2. reader.slot \in Slots /\ slots[reader.slot] \in Slot /\ reader.again = FALSE
        /\ reader.front.packet_id > 0
    BY <2>1 DEF ReaderInv, ReaderType, HeaderReadInv, ShmInv, MappingType
  <2>3. h \in Slot /\ SameNames(h, slots[reader.slot]) /\ h.sized = slots[reader.slot].sized
    BY <2>2 DEF Slot, NoReader, TheSlot, SameNames
  <2> HIDE DEF h
  <2>4. ReaderType'
    BY <2>1, <2>3 DEF ReaderInv, ReaderType, ReaderPlaces
  <2>5. reader'.front = reader.front /\ reader'.since = reader.since /\ reader'.again = FALSE
        /\ reader'.slot = reader.slot /\ reader'.seq = reader.seq /\ reader'.header = h
    BY <2>1, <2>2 DEF ReaderInv, ReaderType
  <2>6. OfferedInv' /\ LastInv' /\ CopyInv' /\ HeaderInv' /\ KeptInv'
    BY <1>2, <2>1, <2>5 DEF ReaderInv, OfferedInv, LastInv, CopyInv, HeaderInv, WithHeader,
       KeptInv, IsKept, Names
  <2>7. HeaderReadInv'
    BY <1>2, <2>1, <2>2, <2>3, <2>5 DEF ReaderInv, HeaderReadInv, SameNames
  <2> QED
    BY <2>4, <2>6, <2>7 DEF ReaderInv
<1>7. CASE readHeaderEven /\ ~GiveUp
  <2>1. /\ rpc = "headerEven" /\ rpc' = "before" /\ reader' = [reader EXCEPT !.seq = 0]
        /\ slots[reader.slot].seq = reader.seq
        /\ reader.header.generation = reader.generation
        /\ reader.header.packet_id = reader.front.packet_id
    BY <1>7 DEF readHeaderEven, TheSlot
  <2>2. ReaderType'
    BY <1>4, <1>7, <2>1 DEF ReaderInv, ReaderType, ReaderPlaces
  <2>3. reader'.front = reader.front /\ reader'.since = reader.since /\ reader'.again = FALSE
        /\ reader'.slot = reader.slot /\ reader'.header = reader.header
        /\ reader'.generation = reader.generation
    BY <1>4, <1>7, <2>1 DEF ReaderInv, ReaderType
  <2>4. OfferedInv' /\ LastInv' /\ CopyInv' /\ KeptInv' /\ HeaderReadInv'
    BY <1>2, <1>4, <1>7, <2>1, <2>3 DEF ReaderInv, OfferedInv, LastInv, CopyInv, HeaderReadInv,
       KeptInv, IsKept, Names
  <2>5. /\ ~Odd(slots[reader.slot].seq) /\ SameNames(reader.header, slots[reader.slot])
        /\ reader.header.sized = slots[reader.slot].sized /\ slots[reader.slot].packet_id > 0
    BY <1>4, <1>7, <2>1 DEF ReaderInv, HeaderReadInv, SameNames
  <2>6. \E i \in Recent : Names(reader.header, i) /\ (wpc \in {"header", "payload"} => i < Len(log))
    <3>1. PICK i \in Recent : Holds(reader.slot, i) /\ (wpc \in {"header", "payload"} => i < Len(log))
      BY <1>4, <1>7, <2>5 DEF PacketInv, SlotInv
    <3> QED
      BY <2>5, <3>1 DEF Holds, Names, SameNames
  <2>7. \A s \in Slots : ~Odd(slots[s].seq) /\ SameNames(slots[s], reader.header) =>
          s = reader.slot /\ slots[s].sized = reader.header.sized
    <3> SUFFICES ASSUME NEW s \in Slots, ~Odd(slots[s].seq), SameNames(slots[s], reader.header)
                 PROVE  s = reader.slot
      BY <2>5
    <3>1. SameNames(slots[reader.slot], slots[s])
      BY <2>5 DEF SameNames
    <3> QED
      BY <1>4, <1>7, <2>5, <3>1 DEF PacketInv, SlotInv
  <2>8. HeaderInv'
    BY <1>2, <2>1, <2>3, <2>6, <2>7 DEF HeaderInv, Names, SameNames
  <2> QED
    BY <2>2, <2>4, <2>8 DEF ReaderInv
<1> QED
  BY <1>3, <1>5, <1>6, <1>7

\* seq_before.
LEMMA ReadBeforeInv == ASSUME ShmInv, PacketInv, ReaderInv, readBefore PROVE ReaderInv'
<1>1. UNCHANGED shared
  BY DEF readBefore
<1>2. UNCHANGED <<sup_generation, inherited, block, slots, wpc, log, committed>> /\ Recent' = Recent
  BY <1>1, ReaderSees
<1>3. CASE GiveUp
  BY <1>1, <1>3, GivesUp
<1>4. CASE ~GiveUp
  <2>1. /\ rpc = "before" /\ rpc' = "seq" /\ ~Odd(TheSlot.seq) /\ last' = last
        /\ reader' = [reader EXCEPT !.before = TheSlot.seq, !.again = TRUE,
                                    !.front = NoReader.front, !.back = NoReader.back]
    BY <1>4 DEF readBefore
  <2>2. reader.slot \in Slots /\ slots[reader.slot] \in Slot /\ TheSlot.seq \in Nat
    BY <2>1 DEF ReaderInv, ReaderType, ShmInv, MappingType, Slot, TheSlot
  <2>3. NoReader.front \in Front /\ NoReader.back \in Back /\ NoReader.front.packet_id = 0
        /\ NoReader.back.active_slot = NoSlot
    BY EmptyTyped DEF NoReader, EmptyBlock, Front, Back, States
  <2>4. ReaderType'
    BY <2>1, <2>2, <2>3 DEF ReaderInv, ReaderType, ReaderPlaces
  <2>5. /\ reader'.front.packet_id = 0 /\ reader'.back.active_slot = NoSlot
        /\ reader'.before = slots[reader.slot].seq /\ reader'.slot = reader.slot
        /\ reader'.header = reader.header /\ reader'.generation = reader.generation
        /\ reader'.since = reader.since
    BY <2>1, <2>3 DEF ReaderInv, ReaderType, TheSlot
  <2>6. OfferedInv' /\ LastInv' /\ CopyInv' /\ HeaderReadInv'
    BY <1>2, <2>1, <2>5 DEF ReaderInv, OfferedInv, LastInv, CopyInv, HeaderReadInv
  <2>7. HeaderInv'
    BY <1>2, <2>1, <2>5 DEF ReaderInv, HeaderInv, WithHeader, Names, SameNames
  <2>8. reader.header.packet_id > 0
    <3>1. PICK i \in Recent : Names(reader.header, i)
      BY <2>1 DEF ReaderInv, HeaderInv, WithHeader
    <3> QED
      BY <3>1 DEF Names, PacketInv, LogInv
  <2>9. KeptInv'
    <3>1. ~SameNames(reader'.front, reader'.header)
      BY <2>5, <2>8 DEF SameNames
    <3>2. reader'.back.active_slot # reader'.slot
      BY <2>2, <2>5 DEF Slots, NoSlot
    <3>3. ~Odd(reader'.before) /\ reader'.before <= slots'[reader'.slot].seq
      BY <1>2, <2>1, <2>2, <2>5 DEF TheSlot
    <3> QED
      BY <3>1, <3>2, <3>3 DEF KeptInv, SameNames
  <2> QED
    BY <2>4, <2>6, <2>7, <2>9 DEF ReaderInv
<1> QED
  BY <1>3, <1>4

\* The check of the locked packet, and the copying of its fields.
LEMMA CopyFieldsInv ==
  ASSUME ShmInv, PacketInv, ReaderInv, checkLocked \/ copyField
  PROVE  ReaderInv'
<1>1. UNCHANGED shared
  BY DEF checkLocked, copyField
<1>2. UNCHANGED <<sup_generation, inherited, block, slots, wpc, log, committed>> /\ Recent' = Recent
      /\ \A s, i : Holds(s, i)' <=> Holds(s, i)
  BY <1>1, ReaderSees
<1>3. CASE GiveUp
  BY <1>1, <1>3, GivesUp
<1>4. ASSUME rpc' = "copy", last' = last, NEW fields \in SUBSET Fields, NEW payload \in [Fields -> Nat],
             reader' = [reader EXCEPT !.todo = fields, !.payload = payload],
             rpc \in {"locked", "copy"}, StillOffered, fields \subseteq reader.back.flags,
             IsKept => \A f \in (reader.back.flags \cap reader.header.sized) \ fields :
                         payload[f] = slots[reader.slot].payload[f]
      PROVE  ReaderInv'
  <2>1. ReaderType'
    BY <1>4 DEF ReaderInv, ReaderType, ReaderPlaces
  <2>2. /\ reader'.front = reader.front /\ reader'.back = reader.back /\ reader'.header = reader.header
        /\ reader'.slot = reader.slot /\ reader'.before = reader.before /\ reader'.again = reader.again
        /\ reader'.since = reader.since /\ reader'.generation = reader.generation
        /\ reader'.todo = fields /\ reader'.payload = payload
    BY <1>4 DEF ReaderInv, ReaderType
  <2>3. OfferedInv'
    BY <1>2, <1>4, <2>2 DEF ReaderInv, OfferedInv, Names
  <2>4. HeaderReadInv' /\ LastInv'
    BY <1>2, <1>4 DEF ReaderInv, HeaderReadInv, LastInv
  <2>5. HeaderInv'
    <3>1. WithHeader
      BY <1>4 DEF ReaderInv, ReaderType, WithHeader
    <3> QED
      BY <1>2, <2>2, <3>1 DEF ReaderInv, HeaderInv, Names, SameNames
  <2>6. KeptInv'
    BY <1>2, <2>2 DEF ReaderInv, KeptInv, IsKept, SameNames
  <2>7. CopyInv'
    BY <1>2, <1>4, <2>2 DEF CopyInv, StillOffered, IsKept
  <2> QED
    BY <2>1, <2>3, <2>4, <2>5, <2>6, <2>7 DEF ReaderInv
<1>5. /\ reader.todo \in SUBSET Fields /\ reader.payload \in [Fields -> Nat]
      /\ reader.back \in Back /\ reader.header \in Slot
  BY DEF ReaderInv, ReaderType
<1>6. CASE checkLocked /\ ~GiveUp
  <2> DEFINE fields == reader.back.flags \cap reader.header.sized
  <2>1. /\ rpc = "locked" /\ rpc' = "copy" /\ reader' = [reader EXCEPT !.todo = fields] /\ last' = last
        /\ StillOffered
    BY <1>6 DEF checkLocked
  <2>2. fields \in SUBSET Fields /\ fields \subseteq reader.back.flags
    BY <1>5 DEF Back
  <2>3. reader' = [reader EXCEPT !.todo = fields, !.payload = reader.payload]
    BY <1>5, <2>1 DEF ReaderInv, ReaderType
  <2> QED
    BY <1>4, <1>5, <2>1, <2>2, <2>3
<1>7. CASE copyField
  <2>1. PICK f \in Fields :
          /\ IsNext(f, reader.todo)
          /\ reader' = [reader EXCEPT !.payload[f] = TheSlot.payload[f], !.todo = @ \ {f}]
    BY <1>7 DEF copyField
  <2> DEFINE fields == reader.todo \ {f}
             payload == [reader.payload EXCEPT ![f] = TheSlot.payload[f]]
  <2>2. rpc = "copy" /\ rpc' = "copy" /\ last' = last
    BY <1>7 DEF copyField
  <2>3. reader.again /\ reader.slot \in Slots /\ StillOffered /\ reader.todo \subseteq reader.back.flags
    BY <2>2 DEF ReaderInv, ReaderType, CopyInv
  <2>4. TheSlot.payload[f] \in Nat
    BY <2>3 DEF ShmInv, MappingType, Slot, TheSlot
  <2>5. fields \in SUBSET Fields /\ fields \subseteq reader.back.flags /\ payload \in [Fields -> Nat]
    BY <1>5, <2>3, <2>4
  <2>6. reader' = [reader EXCEPT !.todo = fields, !.payload = payload]
    BY <1>5, <2>1 DEF ReaderInv, ReaderType
  <2>7. IsKept => \A g \in (reader.back.flags \cap reader.header.sized) \ fields :
                    payload[g] = slots[reader.slot].payload[g]
    BY <1>5, <2>2 DEF ReaderInv, CopyInv, TheSlot, Back
  <2> QED
    BY <1>4, <2>2, <2>3, <2>5, <2>6, <2>7
<1> QED
  BY <1>3, <1>6, <1>7

LEMMA ReturnPacketInv == ASSUME ShmInv, PacketInv, ReaderInv, returnPacket PROVE ReaderInv'
<1>1. UNCHANGED shared
  BY DEF returnPacket
<1>2. UNCHANGED <<log, inherited>>
  BY <1>1, ReaderSees
<1>3. CASE GiveUp
  BY <1>1, <1>3, GivesUp
<1>4. CASE ~GiveUp
  <2>1. /\ rpc = "copy" /\ reader.todo = {} /\ slots[reader.slot].seq = reader.before
        /\ last' = [generation |-> reader.generation, packet_id |-> reader.header.packet_id,
                    fields |-> reader.back.flags, payload |-> reader.payload, since |-> reader.since]
        /\ rpc' = "idle" /\ reader' = NoReader
    BY <1>4 DEF returnPacket, IsUntouched, TheSlot
  <2>2. reader.again /\ IsKept /\ StillOffered /\ reader.slot \in Slots
    BY <2>1 DEF ReaderInv, ReaderType, CopyInv, IsKept
  <2>3. \A f \in reader.back.flags \cap reader.header.sized :
          reader.payload[f] = slots[reader.slot].payload[f]
    BY <2>1, <2>2 DEF ReaderInv, CopyInv
  <2>4. SameNames(slots[reader.slot], reader.header)
    BY <2>2 DEF ReaderInv, KeptInv, StillOffered, SameNames
  <2>5. PICK i \in Recent : Holds(reader.slot, i) /\ reader.back.flags = log[i].fields
    BY <2>2 DEF ReaderInv, KeptInv, StillOffered
  <2>6. i \in 1 .. Len(log) /\ log[i] \in Entry /\ log[i].packet_id > 0
    BY <2>5, ElementOfSeq DEF Recent, ShmInv, MappingType, PacketInv, LogInv
  <2>7. Names(reader.header, i) /\ reader.header.generation = reader.generation
    BY <2>2, <2>4, <2>5 DEF Holds, Names, SameNames, ReaderInv, HeaderInv, WithHeader
  <2>8. slots[reader.slot].sized = reader.header.sized
    BY <2>2, <2>4, <2>5 DEF Holds, ReaderInv, HeaderInv, WithHeader
  <2>9. \A f \in log[i].fields : reader.payload[f] = i
    BY <2>3, <2>5, <2>8 DEF Holds
  <2>10. reader.since <= i
    <3>1. reader.front.packet_id > 0 /\ Names(reader.front, i)
      BY <2>2, <2>6, <2>7 DEF StillOffered, Names
    <3>2. PICK j \in Recent : Names(reader.front, j) /\ reader.since <= j
      BY <2>1, <3>1 DEF ReaderInv, OfferedInv
    <3>3. SameNames(log[i], log[j])
      BY <3>1, <3>2 DEF Names, SameNames
    <3> QED
      BY <2>5, <3>2, <3>3 DEF PacketInv, LogInv
  <2>11. log[i] = [generation |-> reader.generation, packet_id |-> reader.header.packet_id,
                   fields |-> reader.back.flags]
    BY <2>5, <2>6, <2>7 DEF Entry, Names
  <2>12. LastInv'
    BY <1>2, <2>1, <2>5, <2>6, <2>9, <2>10, <2>11 DEF LastInv
  <2>13. last' \in [generation : Nat, packet_id : Nat, fields : SUBSET Fields,
                    payload : [Fields -> Nat], since : Nat]
    BY <2>1 DEF ReaderInv, ReaderType, Slot, Back
  <2> QED
    BY <2>1, <2>12, <2>13, CallEnds
<1> QED
  BY <1>3, <1>4

LEMMA ReaderStep == ASSUME ShmInv, PacketInv, ReaderInv, Reader PROVE ReaderInv'
<1>1. CASE refusePacket
  BY <1>1, GivesUp DEF refusePacket
<1>2. CASE ~refusePacket
  BY <1>2, ReadSupervisorInv, ReadWorkerInv, ReturnCachedInv, TakeOfferInv, ReadHeaderInv, ReadBeforeInv,
     CopyFieldsInv, ReturnPacketInv DEF Reader
<1> QED
  BY <1>1, <1>2

LEMMA FrameInit == FramesInit => FrameInv
<1> SUFFICES ASSUME FramesInit PROVE FrameInv
  OBVIOUS
<1>1. NoReader \in [generation : Nat, seq : Nat, front : Front, back : Back, again : BOOLEAN,
                    slot : Slots \cup {NoSlot}, header : Slot, before : Nat,
                    todo : SUBSET Fields, payload : [Fields -> Nat], since : Nat]
  <2>1. 0 \in Nat /\ EmptyBlock(0).front \in Front /\ EmptyBlock(0).back \in Back /\ EmptySlot \in Slot
    BY EmptyTyped DEF EmptyBlock, Front, Back, States
  <2> QED
    BY <2>1 DEF NoReader
<1>2. rpc = "idle" /\ reader = NoReader /\ last = Nothing /\ NoReader.again = FALSE
  BY DEF FramesInit, NoReader
<1>3. Nothing \in [generation : Nat, packet_id : Nat, fields : SUBSET Fields,
                   payload : [Fields -> Nat], since : Nat]
  BY DEF Nothing
<1>4. ReaderType
  BY <1>1, <1>2, <1>3 DEF ReaderType, ReaderPlaces
<1>5. ReaderInv
  BY <1>2, <1>4 DEF ReaderInv, OfferedInv, HeaderReadInv, HeaderInv, WithHeader, KeptInv, IsKept,
     CopyInv, LastInv
<1> QED
  BY <1>5, ShmInit, PacketInit DEF FrameInv

LEMMA FrameStep == FrameInv /\ [FramesNext]_framesVars => FrameInv'
<1> SUFFICES ASSUME FrameInv, [FramesNext]_framesVars PROVE FrameInv'
  OBVIOUS
<1>1. ShmInv /\ PacketInv /\ ReaderInv /\ ShmInv'
  BY ShmStep DEF FrameInv
<1>2. CASE ShmWorker \/ ShmSupervisor
  BY <1>1, <1>2, PacketStep, ReaderKept DEF FrameInv
<1>3. CASE Reader
  BY <1>1, <1>3, ReaderStoresNothing, PacketKept, ReaderStep DEF FrameInv
<1>4. CASE UNCHANGED framesVars
  <2>1. UNCHANGED shared /\ UNCHANGED <<rpc, reader, last>>
    BY <1>4 DEF framesVars, shared, reading
  <2>2. PacketInv'
    BY <1>1, <2>1, PacketKept
  <2>3. UNCHANGED <<sup_generation, inherited, block, slots, wpc, log, committed>> /\ Recent' = Recent
        /\ \A s, i : Holds(s, i)' <=> Holds(s, i)
    BY <2>1, ReaderSees
  <2>4. ReaderType' /\ OfferedInv' /\ HeaderReadInv' /\ HeaderInv'
    BY <1>1, <2>1, <2>3 DEF ReaderInv, ReaderType, OfferedInv, HeaderReadInv, HeaderInv, WithHeader, Names,
       SameNames
  <2>5. KeptInv' /\ CopyInv' /\ LastInv'
    BY <1>1, <2>1, <2>3 DEF ReaderInv, KeptInv, IsKept, CopyInv, StillOffered, LastInv, SameNames
  <2> QED
    BY <1>1, <2>2, <2>4, <2>5 DEF FrameInv, ReaderInv
<1> QED
  BY <1>2, <1>3, <1>4 DEF FramesNext

\* The three facts of the inductive invariant FrameInv, put together.
THEOREM FrameInvHolds == FramesSpec => []FrameInv
  BY FrameInit, FrameStep, PTL DEF FramesSpec

\* A packet try_get_latest() returns is one that was published, with just its
\* fields, all of them of this packet: whatever the worker stored in between,
\* and wherever it was killed and another one or another supervisor started.
THEOREM PacketsAreWhole == FramesSpec => []NeverTorn
<1>1. FrameInv => NeverTorn
  BY DEF FrameInv, ReaderInv, LastInv, NeverTorn
<1> QED
  BY <1>1, FrameInvHolds, PTL

\* What it returns is no older than the newest packet that could be seen when it
\* was called, unless it is one kept from an earlier supervisor.
THEOREM PacketsAreLatest == FramesSpec => []IsLatestOfSupervisor
<1>1. FrameInv => IsLatestOfSupervisor
  BY DEF FrameInv, ReaderInv, LastInv, IsLatestOfSupervisor
<1> QED
  BY <1>1, FrameInvHolds, PTL
=============================================================================
