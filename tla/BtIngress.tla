----------------------------- MODULE BtIngress -----------------------------
(***************************************************************************)
(* apps/bt/bt_ingress.c: the ring of encoded packets between the Bluetooth *)
(* callback task (the only producer) and the decode worker (the only       *)
(* consumer).  Both operations are split where the other thread can        *)
(* interleave: at the stores of the cursors and between the header and the *)
(* data of a slot.                                                         *)
(*                                                                         *)
(* A packet is identified by its position in the sound: two packets belong *)
(* together exactly when their positions follow each other.  A packet lost *)
(* on the air and a change of the stream's state each take a position of   *)
(* their own, so what comes after them does not follow what came before.   *)
(* silent keeps the positions of the media that the queue never hears of.  *)
(***************************************************************************)
EXTENDS Integers

CONSTANTS
  QueuePackets,  \* EAF_BT_QUEUE_PACKETS: packets the ring holds
  CursorTurns,   \* turns of the ring after which the cursors wrap
  SequenceSpan,  \* sequence numbers wrap after this many packets
  MaxPosition    \* bound: positions of the sound

(* Eight packets and cursors of 32 bits; sequence numbers of 16 bits. *)
ASSUME IngressAssumption ==
  /\ QueuePackets \in Nat /\ QueuePackets >= 1
  /\ CursorTurns \in Nat /\ CursorTurns >= 2
  /\ SequenceSpan \in Nat /\ SequenceSpan >= 2
  /\ MaxPosition \in Nat

VARIABLES
  slots,             \* the ring: each slot's header, its mark and its data
  read_cursor,       \* next slot to pop; written by the consumer
  write_cursor,      \* next slot to fill; written by the producer
  expected_sequence, \* sequence number that follows the last packet received
  have_sequence,     \* a packet has been received
  discontinuity,     \* the next packet queued does not follow the last one queued
  rpc,               \* producer: "idle", "data" or "publish" (in eaf_bt_sbc_receive)
  ppc,               \* consumer: "idle", "data" or "publish" (in eaf_bt_ingress_pop)
  packet,            \* consumer: the packet popped last
  position,          \* the source: position of the next packet
  sequence,          \* the source: sequence number of the next packet
  lost,              \* the source: packets lost since one was received
  published,         \* history: packets queued so far
  taken,             \* history: packets popped so far
  tail,              \* history: position of the packet queued last
  previous,          \* history: position of the packet popped before packet
  silent             \* history: positions left out before they reach the queue

ringVars == <<slots, read_cursor, write_cursor>>
receiveVars == <<expected_sequence, have_sequence, discontinuity, rpc>>
popVars == <<ppc, packet, previous>>
sourceVars == <<position, sequence, lost>>
ingressVars == <<ringVars, receiveVars, popVars, sourceVars, published, taken, tail, silent>>

(* The cursors count modulo this: 2^32 in the code. *)
CursorSpan == CursorTurns * QueuePackets

NoPacket == [head |-> 0, mark |-> FALSE, data |-> 0]

(* eaf_bt_ingress_init; the source may begin with any sequence number. *)
IngressInit ==
  /\ slots = [s \in 0..(QueuePackets - 1) |-> NoPacket]
  /\ read_cursor = 0 /\ write_cursor = 0
  /\ expected_sequence = 0 /\ have_sequence = FALSE /\ discontinuity = FALSE
  /\ rpc = "idle" /\ ppc = "idle" /\ packet = NoPacket
  /\ position = 1 /\ sequence \in 0..(SequenceSpan - 1) /\ lost = 0
  /\ published = 0 /\ taken = 0 /\ tail = 0 /\ previous = 0 /\ silent = {}

Queued == (write_cursor - read_cursor) % CursorSpan
WriteSlot == write_cursor % QueuePackets
ReadSlot == read_cursor % QueuePackets
----------------------------------------------------------------------------
(* The source and the stack. *)

(* The sound goes on behind a packet that is lost, refused or queued. *)
Onward ==
  /\ position' = position + 1
  /\ sequence' = (sequence + 1) % SequenceSpan

(* A packet is lost on the air.  A loss as long as the sequence numbers    *)
(* are wide cannot be seen in them: 65,536 packets are minutes of sound.   *)
Lose ==
  /\ rpc = "idle" /\ position < MaxPosition /\ lost + 1 < SequenceSpan
  /\ Onward
  /\ lost' = lost + 1
  /\ UNCHANGED <<ringVars, receiveVars, popVars, published, taken, tail, silent>>

(* Media is left out before eaf_bt_sbc_receive is called: no mark is set   *)
(* and no sequence number used.                                            *)
Skip ==
  /\ rpc = "idle" /\ position < MaxPosition
  /\ position' = position + 1
  /\ silent' = silent \cup {position}
  /\ UNCHANGED <<ringVars, receiveVars, popVars, sequence, lost, published, taken, tail>>

(* What the bindings do on every change of the stream's state.  The source *)
(* may number the packets of the new stream as it likes.                   *)
MarkDiscontinuity ==
  /\ rpc = "idle" /\ position < MaxPosition
  /\ discontinuity' = TRUE
  /\ position' = position + 1
  /\ sequence' \in 0..(SequenceSpan - 1)
  /\ UNCHANGED <<ringVars, expected_sequence, have_sequence, rpc, popVars, lost,
                 published, taken, tail, silent>>
----------------------------------------------------------------------------
(* eaf_bt_sbc_receive, on the callback task. *)

(* No payload, a bad length, or a header of a fragment or of no frames. *)
ReceiveInvalid ==
  /\ rpc = "idle" /\ position < MaxPosition
  /\ discontinuity' = TRUE
  /\ Onward
  /\ UNCHANGED <<ringVars, expected_sequence, have_sequence, rpc, popVars, lost,
                 published, taken, tail, silent>>

(* Plausible mistake: the sequence number is not compared. *)
Gap_Never == FALSE

Gap == have_sequence /\ sequence # expected_sequence

NoteSequence ==
  /\ expected_sequence' = (sequence + 1) % SequenceSpan
  /\ have_sequence' = TRUE

(* "overflow drops the entire new packet" *)
ReceiveFull ==
  /\ rpc = "idle" /\ position < MaxPosition
  /\ Queued = QueuePackets
  /\ NoteSequence
  /\ discontinuity' = TRUE
  /\ Onward
  /\ lost' = 0
  /\ UNCHANGED <<ringVars, rpc, popVars, published, taken, tail, silent>>

(* The slot's header: sequence, length, frame count and discontinuity. *)
ReceiveHeader ==
  /\ rpc = "idle" /\ position < MaxPosition
  /\ Queued # QueuePackets
  /\ NoteSequence
  /\ slots' = [slots EXCEPT ![WriteSlot].head = position,
                            ![WriteSlot].mark = Gap \/ discontinuity]
  /\ rpc' = "data"
  /\ UNCHANGED <<read_cursor, write_cursor, discontinuity, popVars, sourceVars,
                 published, taken, tail, silent>>

ReceiveData ==
  /\ rpc = "data"
  /\ slots' = [slots EXCEPT ![WriteSlot].data = position]
  /\ rpc' = "publish"
  /\ UNCHANGED <<read_cursor, write_cursor, expected_sequence, have_sequence,
                 discontinuity, popVars, sourceVars, published, taken, tail, silent>>

ReceivePublish ==
  /\ rpc = "publish"
  /\ discontinuity' = FALSE
  /\ write_cursor' = (write_cursor + 1) % CursorSpan
  /\ published' = published + 1
  /\ tail' = position
  /\ Onward
  /\ lost' = 0
  /\ rpc' = "idle"
  /\ UNCHANGED <<slots, read_cursor, expected_sequence, have_sequence, popVars, taken, silent>>

Receive == ReceiveFull \/ ReceiveHeader \/ ReceiveData \/ ReceivePublish
----------------------------------------------------------------------------
(* eaf_bt_ingress_pop, on the decode worker.  With equal cursors it        *)
(* returns false and changes nothing.                                      *)

PopHeader ==
  /\ ppc = "idle" /\ read_cursor # write_cursor
  /\ packet' = [packet EXCEPT !.head = slots[ReadSlot].head, !.mark = slots[ReadSlot].mark]
  /\ previous' = packet.head
  /\ ppc' = "data"
  /\ UNCHANGED <<ringVars, receiveVars, sourceVars, published, taken, tail, silent>>

PopData ==
  /\ ppc = "data"
  /\ packet' = [packet EXCEPT !.data = slots[ReadSlot].data]
  /\ ppc' = "publish"
  /\ UNCHANGED <<ringVars, receiveVars, previous, sourceVars, published, taken, tail, silent>>

PopPublish ==
  /\ ppc = "publish"
  /\ read_cursor' = (read_cursor + 1) % CursorSpan
  /\ taken' = taken + 1
  /\ ppc' = "idle"
  /\ UNCHANGED <<slots, write_cursor, receiveVars, packet, previous, sourceVars,
                 published, tail, silent>>

Pop == PopHeader \/ PopData \/ PopPublish
----------------------------------------------------------------------------
IngressNext == Lose \/ Skip \/ MarkDiscontinuity \/ ReceiveInvalid \/ Receive \/ Pop

IngressSpec == IngressInit /\ [][IngressNext]_ingressVars
----------------------------------------------------------------------------
(* docs/embedded.md: "malformed/fragmented SBC payloads are rejected; the  *)
(* next accepted packet carries discontinuity".  A packet that does not    *)
(* follow the packet popped before it says so, whatever kept the ones      *)
(* between them away.                                                      *)
BreaksAreMarked == previous # 0 => packet.mark \/ packet.head = previous + 1

(* Nothing lies between two positions but what the queue never heard of. *)
Unbroken(a, b) == (a + 1)..(b - 1) \subseteq silent

(* A packet without a mark follows the packet popped before it: between    *)
(* the two no packet that the sequence numbers can miss was lost on the    *)
(* air, none was refused by eaf_bt_sbc_receive as malformed, none dropped  *)
(* by a full queue, and the stream's state did not change.  Media left out *)
(* before that call (Skip) is all that may be missing.  Packets are popped *)
(* once and in order, and a popped packet's data is its own.               *)
PacketsFollow ==
  /\ previous # 0 => /\ previous < packet.head
                     /\ packet.mark \/ Unbroken(previous, packet.head)
  /\ ppc # "data" => packet.data = packet.head
----------------------------------------------------------------------------
(* The inductive invariant behind PacketsFollow. *)

Packet == [head : 0..MaxPosition, mark : BOOLEAN, data : 0..MaxPosition]

IngressTypeOK ==
  /\ slots \in [0..(QueuePackets - 1) -> Packet]
  /\ read_cursor \in 0..(CursorSpan - 1) /\ write_cursor \in 0..(CursorSpan - 1)
  /\ expected_sequence \in 0..(SequenceSpan - 1)
  /\ have_sequence \in BOOLEAN /\ discontinuity \in BOOLEAN
  /\ rpc \in {"idle", "data", "publish"} /\ ppc \in {"idle", "data", "publish"}
  /\ packet \in Packet
  /\ position \in 1..(MaxPosition + 1) /\ sequence \in 0..(SequenceSpan - 1)
  /\ lost \in 0..(SequenceSpan - 1)
  /\ published \in Nat /\ taken \in Nat
  /\ tail \in 0..MaxPosition /\ previous \in 0..MaxPosition /\ silent \subseteq Nat

(* Each cursor stands for a count; the queue fits. *)
CursorsOK ==
  /\ write_cursor = published % CursorSpan /\ read_cursor = taken % CursorSpan
  /\ taken <= published /\ published - taken <= QueuePackets
  /\ rpc # "idle" => published - taken < QueuePackets
  /\ ppc # "idle" => taken < published

Slot(i) == slots[i % QueuePackets]

(* The queued packets are whole, and each follows the one before or says   *)
(* that it does not.                                                       *)
Follows(p, before) == before < p.head /\ (before = 0 \/ p.mark \/ Unbroken(before, p.head))

(* The packet before the oldest one in the queue. *)
Before == IF ppc = "idle" THEN packet.head ELSE previous

QueueOK ==
  /\ \A i \in taken..(published - 1) : Slot(i).data = Slot(i).head
  /\ taken < published => Follows(Slot(taken), Before)
  /\ \A i \in (taken + 1)..(published - 1) : Follows(Slot(i), Slot(i - 1).head)
  /\ tail = IF taken < published THEN Slot(published - 1).head ELSE Before

(* What the producer knows of the sound: the numbers run from the packet   *)
(* queued last to the next one, unless the discontinuity is remembered.    *)
ProducerOK ==
  /\ tail < position
  /\ ~discontinuity /\ ~have_sequence => tail = 0
  /\ ~discontinuity /\ have_sequence /\ rpc = "idle" =>
       /\ lost = 0 => Unbroken(tail, position)
       /\ sequence = (expected_sequence + lost) % SequenceSpan
  /\ rpc # "idle" => position <= MaxPosition /\ Slot(published).head = position
                       /\ Follows(Slot(published), tail)
  /\ rpc = "publish" => Slot(published).data = position
  /\ rpc # "idle" => have_sequence /\ expected_sequence = (sequence + 1) % SequenceSpan

(* A pop in progress reads the oldest packet of the queue. *)
ConsumerOK ==
  /\ ppc # "idle" => /\ packet.head = Slot(taken).head /\ packet.mark = Slot(taken).mark
  /\ ppc = "publish" => packet.data = Slot(taken).data

IngressInv ==
  /\ IngressTypeOK /\ CursorsOK /\ QueueOK /\ ProducerOK /\ ConsumerOK /\ PacketsFollow
=============================================================================
