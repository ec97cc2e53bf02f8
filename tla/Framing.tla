------------------------------ MODULE Framing -------------------------------
(***************************************************************************)
(* BRUSH-V1 on the wire: COBS packets between zero delimiters, as          *)
(* src/brush_protocol.cpp and studio/brush_serial.py make and take them,   *)
(* with processHostCommands() of the S3 and _consume_rx() of the host.     *)
(* The line is opened in the middle of whatever is sent, and has noise.    *)
(*                                                                         *)
(* A byte is a number up to Block, which is 0xFF: the code of a full       *)
(* block.  A packet is its raw bytes, header, payload and CRC; the CRC     *)
(* tells one from anything else.  Buffers are large enough for a packet    *)
(* (272 for 256), so that the encoders never fail for want of room.        *)
(***************************************************************************)
EXTENDS Integers, Sequences, SequencesExt

CONSTANTS
  Block,       (* 0xFF *)
  Packets,     (* bound: raw packets that are sent *)
  BaseBuffer,  (* sizeof(hostRxBuf) = MAX_WIRE_PACKET *)
  HostBuffer,  (* 4096: the host gives up on so much without a delimiter *)
  MaxBytes     (* bound: bytes on the line in a behaviour, at which packets begin *)

ASSUME FramingAssumption ==
  /\ Block \in Nat \ {0, 1}
  /\ Packets \subseteq Seq(0 .. Block) \ {<<>>}
  /\ {BaseBuffer, HostBuffer, MaxBytes} \subseteq Nat

VARIABLES
  toward,     (* "base" or "host": the direction *)
  sending,    (* bytes of the packet under way that are still to come *)
  is_whole,   (* it began after a delimiter *)
  raw_sent,   (* the packet under way *)
  came,       (* bound: bytes so far *)
  at_start,   (* the last byte was a delimiter *)
  rx_buf,     (* hostRxBuf and hostRxLen, or _rx_buf *)
  expected,   (* history: whole packets that have come, not taken yet *)
  taken       (* history: what the receiver took of them, when it last looked *)

framingVars == <<toward, sending, is_whole, raw_sent, came, at_start, rx_buf, expected, taken>>

-----------------------------------------------------------------------------
(* COBS: cobs_encode() and cobs_decode(), the same in both languages.      *)

\* One byte more; the code of the block it ends is written at its start.
Encoded(e, b) ==
  IF b = 0
    THEN [out |-> Append([e.out EXCEPT ![e.block] = e.code], 0),
          block |-> Len(e.out) + 1, code |-> 1]
  ELSE IF e.code + 1 = Block
    THEN [out |-> Append(Append([e.out EXCEPT ![e.block] = Block], b), 0),
          block |-> Len(e.out) + 2, code |-> 1]
  ELSE [e EXCEPT !.out = Append(@, b), !.code = @ + 1]

cobs_encode(raw) ==
  LET e == FoldLeft(Encoded, [out |-> <<0>>, block |-> 1, code |-> 1], raw)
  IN  [e.out EXCEPT ![e.block] = e.code]

Bad == <<>>

\* Faulty variant: a full block stands for a zero at its end, too.
EndsInZeroAlways(code) == TRUE

EndsInZero(code) == code # Block

cobs_decode(wire) ==
  LET n == Len(wire)
      from[i \in 1 .. n + 1] ==
        IF i = n + 1 THEN [good |-> TRUE, out |-> <<>>]
        ELSE LET code == wire[i]
                 next == i + code
             IN  IF code = 0 \/ next > n + 1 THEN [good |-> FALSE, out |-> <<>>]
                 ELSE [good |-> from[next].good,
                       out |-> SubSeq(wire, i + 1, next - 1)
                               \o (IF EndsInZero(code) /\ next <= n THEN <<0>> ELSE <<>>)
                               \o from[next].out]
  IN  IF from[1].good THEN from[1].out ELSE Bad

\* validate_raw_packet(), parse_raw_packet(): length, magic and CRC.
Accepts(raw) == raw \in Packets

-----------------------------------------------------------------------------
(* The line. *)

FramingBlank ==
  /\ sending = <<>> /\ is_whole = FALSE /\ raw_sent = <<>>
  /\ at_start = FALSE
  /\ rx_buf = <<>>
  /\ expected = <<>> /\ taken = <<>>

FramingInit == toward \in {"base", "host"} /\ came = 0 /\ FramingBlank

\* Nothing is on the line.
LineUnused == toward = "host" /\ came = MaxBytes /\ FramingBlank

build_packet ==
  /\ sending = <<>>
  /\ came < MaxBytes
  /\ \E raw \in Packets :
       /\ raw_sent' = raw
       /\ sending' = Append(cobs_encode(raw), 0)
  /\ is_whole' = at_start
  /\ UNCHANGED <<toward, came, at_start, rx_buf, expected, taken>>

-----------------------------------------------------------------------------
(* The receivers, for the next byte.                                       *)

\* processHostCommands().  What is too long is dropped, and its tail read on as
\* if it were the start of a packet.
processHostCommands(b) ==
  IF b = 0
    THEN /\ rx_buf' = <<>>
         /\ taken' = IF rx_buf # <<>> /\ Accepts(cobs_decode(rx_buf))
                       THEN <<cobs_decode(rx_buf)>> ELSE <<>>
    ELSE /\ rx_buf' = IF Len(rx_buf) < BaseBuffer THEN Append(rx_buf, b) ELSE <<>>
         /\ taken' = <<>>

\* The packets before the delimiters of a buffer, and what follows the last one.
Split(bytes) ==
  FoldLeft(LAMBDA s, b : IF b = 0 THEN [whole |-> Append(s.whole, s.rest), rest |-> <<>>]
                         ELSE [s EXCEPT !.rest = Append(@, b)],
           [whole |-> <<>>, rest |-> <<>>], bytes)

\* _consume_rx(), which is called with whatever a read returned.
consume_rx_bytes(bytes) ==
  LET s == Split(bytes)
      good == SelectSeq(s.whole, LAMBDA wire : wire # <<>> /\ Accepts(cobs_decode(wire)))
  IN
  /\ taken' = [k \in DOMAIN good |-> cobs_decode(good[k])]
  /\ rx_buf' = IF Len(s.rest) > HostBuffer THEN <<>> ELSE s.rest

\* The host takes each byte at once or with the next ones; what it has taken is
\* compared with what was to be taken.
Arrives(b) ==
  \/ /\ toward = "base"
     /\ processHostCommands(b)
  \/ /\ toward = "host"
     /\ \/ consume_rx_bytes(Append(rx_buf, b))
        \/ Len(rx_buf) < 2 * MaxBytes /\ rx_buf' = Append(rx_buf, b) /\ taken' = <<>>

\* Whole packets not yet taken, one of which may have ended with this byte.
Due == IF sending # <<>> /\ Len(sending) = 1 /\ is_whole THEN Append(expected, raw_sent) ELSE expected

\* The receiver looks at its buffer when no delimiter is left in it.
Looked == \A i \in DOMAIN rx_buf' : rx_buf'[i] # 0

packetByte ==
  /\ sending # <<>>
  /\ Arrives(Head(sending))
  /\ sending' = Tail(sending)
  /\ at_start' = (Head(sending) = 0)
  /\ expected' = IF Looked THEN <<>> ELSE Due
  /\ UNCHANGED <<toward, is_whole, raw_sent, came>>

noiseByte ==
  /\ sending = <<>>
  /\ came < MaxBytes
  /\ came' = came + 1
  /\ \E b \in 0 .. Block :
       /\ Arrives(b)
       /\ at_start' = (b = 0)
  /\ expected' = IF Looked THEN <<>> ELSE Due
  /\ UNCHANGED <<toward, sending, is_whole, raw_sent>>

FramingNext == build_packet \/ packetByte \/ noiseByte

FramingSpec == FramingInit /\ [][FramingNext]_framingVars

-----------------------------------------------------------------------------
\* Whatever was on the line before, and however the host's reads cut it up: a
\* packet that comes whole after a delimiter is taken, and is what was sent.
WholePacketsAreTaken ==
  [][Looked => \A k \in DOMAIN Due : \E j \in DOMAIN taken' : taken'[j] = Due[k]]_framingVars
=============================================================================
