-------------------------- MODULE BtSpeakerProofs --------------------------
(***************************************************************************)
(* The packet queue keeps the sound together for every length of the ring, *)
(* width of the cursors and width of the sequence numbers: the inductive   *)
(* invariant IngressInv of BtIngress.tla and what follows from it.  Then   *)
(* the whole speaker, for every size of its queues: its steps are steps of *)
(* the packet queue, so what is proved of the queue holds in it; the codec *)
(* never carries its history over a break that the queue knows of; and a   *)
(* peer erased from the flash does not come back to it by itself.          *)
(***************************************************************************)
EXTENDS BtSpeaker, RingArithmetic, FiniteSetTheorems

LEMMA SpanFacts == CursorSpan \in Nat /\ CursorSpan > 0 /\ QueuePackets < CursorSpan
<1>1. CursorTurns * QueuePackets >= 2 * QueuePackets
  BY IngressAssumption, SMT
<1>2. CursorTurns * QueuePackets \in Nat
  BY IngressAssumption, SMT
<1> QED BY <1>1, <1>2, IngressAssumption DEF CursorSpan

(* The unsigned difference of the cursors is the number of queued packets. *)
LEMMA QueuedIs ==
  ASSUME IngressTypeOK, CursorsOK
  PROVE  Queued = published - taken
<1>1. taken \in Nat /\ published \in Nat
  BY DEF IngressTypeOK
<1>2. taken <= published /\ published - taken < CursorSpan
  BY <1>1, SpanFacts, IngressAssumption DEF CursorsOK
<1>3. ((published % CursorSpan) - (taken % CursorSpan)) % CursorSpan = published - taken
  BY <1>1, <1>2, SpanFacts, ModDistance
<1> QED BY <1>3 DEF Queued, CursorsOK

(* The slots the cursors point at. *)
LEMMA SlotsAre ==
  ASSUME IngressTypeOK, CursorsOK
  PROVE  /\ WriteSlot = published % QueuePackets
         /\ ReadSlot = taken % QueuePackets
<1>1. /\ QueuePackets \in Nat /\ QueuePackets > 0
      /\ CursorTurns \in Nat /\ CursorTurns > 0
  BY IngressAssumption
<1>2. taken \in Nat /\ published \in Nat
  BY DEF IngressTypeOK
<1>3. (published % (CursorTurns * QueuePackets)) % QueuePackets = published % QueuePackets
  BY <1>1, <1>2, ModMod
<1>4. (taken % (CursorTurns * QueuePackets)) % QueuePackets = taken % QueuePackets
  BY <1>1, <1>2, ModMod
<1> QED BY <1>3, <1>4 DEF WriteSlot, ReadSlot, CursorsOK, CursorSpan

LEMMA SlotRange ==
  ASSUME NEW i \in Nat
  PROVE  i % QueuePackets \in 0..(QueuePackets - 1)
  BY IngressAssumption, DivMod

LEMMA CursorAdvance ==
  ASSUME NEW p \in Nat
  PROVE  /\ ((p % CursorSpan) + 1) % CursorSpan = (p + 1) % CursorSpan
         /\ (p + 1) % CursorSpan \in 0..(CursorSpan - 1)
<1>1. ((p % CursorSpan) + 1) % CursorSpan = (p + 1) % CursorSpan
  <2>1. p \in Int /\ 1 \in Int
    OBVIOUS
  <2> QED BY <2>1, SpanFacts, ModAdd
<1>2. (p + 1) % CursorSpan \in 0..(CursorSpan - 1)
  BY SpanFacts, DivMod
<1> QED BY <1>1, <1>2

(* Sequence numbers: where the next one lies, and that fewer losses than   *)
(* there are numbers cannot bring back the number expected.                *)
LEMMA SequenceAdvance ==
  ASSUME NEW e \in 0..(SequenceSpan - 1), NEW n \in 0..(SequenceSpan - 1)
  PROVE  /\ (e + 1) % SequenceSpan \in 0..(SequenceSpan - 1)
         /\ (((e + n) % SequenceSpan) + 1) % SequenceSpan = (e + (n + 1)) % SequenceSpan
         /\ (e + 0) % SequenceSpan = e
         /\ (e + n) % SequenceSpan = e => n = 0
<1>1. SequenceSpan \in Nat /\ SequenceSpan > 0 /\ SequenceSpan >= 2
  BY IngressAssumption
<1>2. e \in Nat /\ n \in Nat /\ e + n \in Nat /\ n < SequenceSpan /\ e < SequenceSpan
  BY <1>1
<1>3. (e + 1) % SequenceSpan \in 0..(SequenceSpan - 1)
  BY <1>1, <1>2, DivMod
<1>4. (((e + n) % SequenceSpan) + 1) % SequenceSpan = ((e + n) + 1) % SequenceSpan
  <2>1. e + n \in Int /\ 1 \in Int
    BY <1>2
  <2> QED BY <1>1, <2>1, ModAdd
<1>5. (e + n) + 1 = e + (n + 1)
  BY <1>2
<1>6. (e + 0) % SequenceSpan = e
  <2>1. e + 0 \in Int /\ 0 \in Int /\ e + 0 = SequenceSpan * 0 + e
    BY <1>1, <1>2
  <2> QED BY <1>1, <2>1, ModOf
<1>7. ASSUME (e + n) % SequenceSpan = e PROVE n = 0
  <2>1. e <= e + n /\ (e + n) - e < SequenceSpan /\ (e + n) - e = n
    BY <1>2
  <2>2. (((e + n) % SequenceSpan) - (e % SequenceSpan)) % SequenceSpan = (e + n) - e
    BY <1>1, <1>2, <2>1, ModDistance
  <2>3. e % SequenceSpan = e
    BY <1>2, <1>6
  <2>4. (e - e) % SequenceSpan = n
    BY <1>7, <2>1, <2>2, <2>3
  <2>5. (e - e) % SequenceSpan = 0
    <3>1. e - e \in Int /\ 0 \in Int /\ e - e = SequenceSpan * 0 + 0 /\ 0 \in 0..(SequenceSpan - 1)
      BY <1>1, <1>2
    <3> QED BY <1>1, <3>1, ModOf
  <2> QED BY <2>4, <2>5
<1> QED BY <1>3, <1>4, <1>5, <1>6, <1>7

LEMMA InitInv == IngressInit => IngressInv
<1> SUFFICES ASSUME IngressInit PROVE IngressInv
  OBVIOUS
<1>1. IngressTypeOK
  <2>1. 0 \in 0..(CursorSpan - 1) /\ 0 \in 0..(SequenceSpan - 1) /\ 0 \in 0..MaxPosition
        /\ 1 \in 1..(MaxPosition + 1)
    BY SpanFacts, IngressAssumption
  <2> QED BY <2>1 DEF IngressInit, IngressTypeOK, NoPacket, Packet
<1>2. CursorsOK
  <2>1. 0 % CursorSpan = 0
    BY SpanFacts, SMT
  <2> QED BY <2>1, IngressAssumption DEF IngressInit, CursorsOK
<1>3. QueueOK
  BY DEF IngressInit, QueueOK, Before, NoPacket
<1>4. ProducerOK /\ ConsumerOK /\ PacketsFollow
  BY DEF IngressInit, ProducerOK, ConsumerOK, PacketsFollow, NoPacket
<1> QED BY <1>1, <1>2, <1>3, <1>4 DEF IngressInv

----------------------------------------------------------------------------
(* What lies together stays together when more is left out. *)
LEMMA FollowsKept ==
  ASSUME silent \subseteq silent', NEW p, NEW b, Follows(p, b)
  PROVE  b < p.head /\ (b = 0 \/ p.mark \/ (b + 1)..(p.head - 1) \subseteq silent')
  BY DEF Follows, Unbroken

(* The losses and refusals change neither the ring nor the consumer. *)
LEMMA QueueKept ==
  ASSUME QueueOK, UNCHANGED <<slots, taken, published, tail, ppc, packet, previous>>,
         silent \subseteq silent'
  PROVE  QueueOK'
<1>1. \A i : Slot(i)' = Slot(i)
  BY DEF Slot
<1>2. Before' = Before
  BY DEF Before
<1>3. taken < published => Follows(Slot(taken), Before)'
  BY <1>1, <1>2, FollowsKept DEF QueueOK, Follows, Unbroken
<1>4. \A i \in (taken + 1)..(published - 1) : Follows(Slot(i), Slot(i - 1).head)'
  BY <1>1, FollowsKept DEF QueueOK, Follows, Unbroken
<1> QED BY <1>1, <1>2, <1>3, <1>4 DEF QueueOK

(* The queue is as it was when the slots of its packets are. *)
LEMMA QueueSame ==
  ASSUME QueueOK, published \in Nat, taken \in Nat, taken <= published,
         UNCHANGED <<taken, published, tail, ppc, packet, previous, silent>>,
         \A i \in taken..(published - 1) : Slot(i)' = Slot(i)
  PROVE  QueueOK'
<1>1. Before' = Before
  BY DEF Before
<1>2. \A i \in taken..(published - 1) : Slot(i)'.data = Slot(i)'.head
  BY DEF QueueOK
<1>3. ASSUME taken < published PROVE Follows(Slot(taken), Before)'
  <2>1. Slot(taken)' = Slot(taken)
    BY <1>3
  <2> QED BY <1>1, <1>3, <2>1 DEF QueueOK, Follows, Unbroken
<1>4. ASSUME NEW i \in (taken + 1)..(published - 1)
      PROVE  Follows(Slot(i), Slot(i - 1).head)'
  <2>1. i \in taken..(published - 1) /\ i - 1 \in taken..(published - 1)
    OBVIOUS
  <2>2. Slot(i)' = Slot(i) /\ Slot(i - 1)' = Slot(i - 1)
    BY <2>1
  <2>3. Follows(Slot(i), Slot(i - 1).head)
    BY DEF QueueOK
  <2> QED BY <2>2, <2>3 DEF Follows, Unbroken
<1>5. tail' = IF taken < published THEN Slot(published - 1)'.head ELSE Before'
  <2>1. taken < published => published - 1 \in taken..(published - 1)
    OBVIOUS
  <2> QED BY <1>1, <2>1 DEF QueueOK
<1> QED BY <1>2, <1>3, <1>4, <1>5 DEF QueueOK

LEMMA ConsumerKept ==
  ASSUME ConsumerOK, PacketsFollow, UNCHANGED <<slots, taken, popVars>>,
         silent \subseteq silent'
  PROVE  ConsumerOK' /\ PacketsFollow'
  BY DEF ConsumerOK, PacketsFollow, Unbroken, Slot, popVars

LEMMA LoseInv == ASSUME IngressInv, Lose PROVE IngressInv'
<1> USE DEF IngressInv
<1>1. /\ UNCHANGED <<slots, read_cursor, write_cursor, expected_sequence, have_sequence,
                     discontinuity, rpc, ppc, packet, previous, published, taken, tail,
                     silent>>
      /\ rpc = "idle" /\ position < MaxPosition /\ lost + 1 < SequenceSpan
      /\ position' = position + 1 /\ sequence' = (sequence + 1) % SequenceSpan /\ lost' = lost + 1
  BY DEF Lose, Onward, ringVars, receiveVars, popVars
<1>2. /\ (sequence + 1) % SequenceSpan \in 0..(SequenceSpan - 1)
      /\ (((expected_sequence + lost) % SequenceSpan) + 1) % SequenceSpan
           = (expected_sequence + (lost + 1)) % SequenceSpan
  BY SequenceAdvance DEF IngressTypeOK
<1>3. IngressTypeOK'
  BY <1>1, <1>2, IngressAssumption DEF IngressTypeOK
<1>4. CursorsOK' /\ QueueOK' /\ ConsumerOK' /\ PacketsFollow'
  BY <1>1, QueueKept, ConsumerKept DEF CursorsOK, popVars
<1>5. ProducerOK'
  BY <1>1, <1>2, IngressAssumption DEF ProducerOK, IngressTypeOK
<1> QED BY <1>3, <1>4, <1>5

(* Media left out before it reaches the queue lies behind what is queued. *)
LEMMA SkipInv == ASSUME IngressInv, Skip PROVE IngressInv'
<1> USE DEF IngressInv
<1>1. /\ UNCHANGED <<slots, read_cursor, write_cursor, expected_sequence, have_sequence,
                     discontinuity, rpc, ppc, packet, previous, published, taken, tail,
                     sequence, lost>>
      /\ rpc = "idle" /\ position < MaxPosition
      /\ position' = position + 1 /\ silent' = silent \cup {position}
  BY DEF Skip, ringVars, receiveVars, popVars
<1>2. silent \subseteq silent'
  BY <1>1
<1>3. IngressTypeOK'
  BY <1>1, IngressAssumption DEF IngressTypeOK
<1>4. CursorsOK' /\ QueueOK' /\ ConsumerOK' /\ PacketsFollow'
  BY <1>1, <1>2, QueueKept, ConsumerKept DEF CursorsOK, popVars
<1>5. ProducerOK'
  <2>1. position \in Nat /\ tail \in Nat
    BY DEF IngressTypeOK
  <2>2. Unbroken(tail, position) => Unbroken(tail, position)'
    BY <1>1, <2>1 DEF Unbroken
  <2> QED BY <1>1, <2>1, <2>2 DEF ProducerOK
<1> QED BY <1>3, <1>4, <1>5

(* A change of the stream's state, or a packet refused: the discontinuity is remembered. *)
LEMMA MarkInv == ASSUME IngressInv, MarkDiscontinuity \/ ReceiveInvalid PROVE IngressInv'
<1> USE DEF IngressInv
<1>1. /\ UNCHANGED <<slots, read_cursor, write_cursor, expected_sequence, have_sequence,
                     rpc, ppc, packet, previous, published, taken, tail, lost, silent>>
      /\ rpc = "idle" /\ position < MaxPosition /\ discontinuity' = TRUE
      /\ position' = position + 1
  BY DEF MarkDiscontinuity, ReceiveInvalid, Onward, ringVars, popVars
<1>2. sequence' \in 0..(SequenceSpan - 1)
  BY SequenceAdvance, IngressAssumption DEF MarkDiscontinuity, ReceiveInvalid, Onward, IngressTypeOK
<1>3. IngressTypeOK'
  BY <1>1, <1>2, IngressAssumption DEF IngressTypeOK
<1>4. CursorsOK' /\ QueueOK' /\ ConsumerOK' /\ PacketsFollow'
  BY <1>1, QueueKept, ConsumerKept DEF CursorsOK, popVars
<1>5. ProducerOK'
  BY <1>1, IngressAssumption DEF ProducerOK, IngressTypeOK
<1> QED BY <1>3, <1>4, <1>5

LEMMA FullInv == ASSUME IngressInv, ReceiveFull PROVE IngressInv'
<1> USE DEF IngressInv
<1>1. /\ UNCHANGED <<slots, read_cursor, write_cursor, rpc, ppc, packet, previous,
                     published, taken, tail, silent>>
      /\ rpc = "idle" /\ position < MaxPosition /\ discontinuity' = TRUE
      /\ expected_sequence' = (sequence + 1) % SequenceSpan /\ have_sequence' = TRUE
      /\ position' = position + 1 /\ sequence' = (sequence + 1) % SequenceSpan /\ lost' = 0
  BY DEF ReceiveFull, NoteSequence, Onward, ringVars, popVars
<1>2. (sequence + 1) % SequenceSpan \in 0..(SequenceSpan - 1)
  BY SequenceAdvance, IngressAssumption DEF IngressTypeOK
<1>3. IngressTypeOK'
  BY <1>1, <1>2, IngressAssumption DEF IngressTypeOK
<1>4. CursorsOK' /\ QueueOK' /\ ConsumerOK' /\ PacketsFollow'
  BY <1>1, QueueKept, ConsumerKept DEF CursorsOK, popVars
<1>5. ProducerOK'
  BY <1>1, IngressAssumption DEF ProducerOK, IngressTypeOK
<1> QED BY <1>3, <1>4, <1>5
(* The header goes into a slot that no queued packet occupies, and carries *)
(* the discontinuity unless the packet follows the one queued last.        *)
LEMMA HeaderInv == ASSUME IngressInv, ReceiveHeader PROVE IngressInv'
<1> USE DEF IngressInv
<1> DEFINE w == published % QueuePackets
<1>1. /\ UNCHANGED <<read_cursor, write_cursor, discontinuity, ppc, packet, previous,
                     position, sequence, lost, published, taken, tail, silent>>
      /\ rpc = "idle" /\ rpc' = "data" /\ position < MaxPosition
      /\ expected_sequence' = (sequence + 1) % SequenceSpan /\ have_sequence' = TRUE
  BY DEF ReceiveHeader, NoteSequence, ringVars, popVars, sourceVars
<1>2. /\ slots' = [slots EXCEPT ![w].head = position, ![w].mark = Gap \/ discontinuity]
      /\ published - taken # QueuePackets
  BY SlotsAre, QueuedIs DEF ReceiveHeader
<1>3. /\ published \in Nat /\ taken \in Nat /\ taken <= published
      /\ published - taken < QueuePackets /\ QueuePackets \in Nat /\ QueuePackets > 0
      /\ w \in 0..(QueuePackets - 1)
  <2>1. published \in Nat /\ taken \in Nat
    BY DEF IngressTypeOK
  <2>2. taken <= published /\ published - taken <= QueuePackets
    BY DEF CursorsOK
  <2>3. w \in 0..(QueuePackets - 1)
    BY <2>1, SlotRange
  <2> HIDE DEF w
  <2> QED BY <1>2, <2>1, <2>2, <2>3, IngressAssumption
<1>4. (Gap \/ discontinuity) \in BOOLEAN /\ position \in 0..MaxPosition
  BY <1>1, IngressAssumption DEF Gap, IngressTypeOK
<1>5. /\ slots' \in [0..(QueuePackets - 1) -> Packet]
      /\ slots'[w].head = position /\ slots'[w].mark = (Gap \/ discontinuity)
      /\ \A s \in 0..(QueuePackets - 1) : s # w => slots'[s] = slots[s]
  <2> HIDE DEF w
  <2> QED BY <1>2, <1>3, <1>4 DEF IngressTypeOK, Packet
<1>6. \A i \in taken..(published - 1) : Slot(i)' = Slot(i)
  <2> SUFFICES ASSUME NEW i \in taken..(published - 1) PROVE Slot(i)' = Slot(i)
    OBVIOUS
  <2>1. i \in Nat /\ i < published /\ published - i < QueuePackets
    BY <1>3
  <2>2. i % QueuePackets # w
    BY <1>3, <2>1, SlotsDistinct
  <2>3. i % QueuePackets \in 0..(QueuePackets - 1)
    BY <2>1, SlotRange
  <2> QED BY <1>5, <2>2, <2>3 DEF Slot
<1>7. Slot(published)'.head = position /\ Slot(published)'.mark = (Gap \/ discontinuity)
  BY <1>1, <1>5 DEF Slot
<1>8. (sequence + 1) % SequenceSpan \in 0..(SequenceSpan - 1)
  BY SequenceAdvance DEF IngressTypeOK
<1>9. IngressTypeOK'
  BY <1>1, <1>5, <1>8, IngressAssumption DEF IngressTypeOK
<1>10. CursorsOK'
  BY <1>1, <1>3 DEF CursorsOK
<1>11. QueueOK'
  BY <1>1, <1>3, <1>6, QueueSame
<1>12. ProducerOK'
  <2>1. tail < position /\ tail \in Nat /\ position \in Nat
    BY DEF ProducerOK, IngressTypeOK
  <2>2. ASSUME ~Gap, ~discontinuity PROVE tail = 0 \/ Unbroken(tail, position)
    <3>1. CASE ~have_sequence
      BY <2>2, <3>1 DEF ProducerOK
    <3>2. CASE have_sequence
      <4>1. /\ lost = 0 => Unbroken(tail, position)
            /\ expected_sequence = (expected_sequence + lost) % SequenceSpan
        BY <1>1, <2>2, <3>2 DEF ProducerOK, Gap
      <4>2. lost = 0
        BY <4>1, SequenceAdvance DEF IngressTypeOK
      <4> QED BY <2>1, <4>1, <4>2
    <3> QED BY <3>1, <3>2
  <2>3. Follows(Slot(published)', tail)
    BY <1>7, <2>1, <2>2 DEF Follows
  <2>4. Follows(Slot(published), tail)'
    BY <1>1, <2>3 DEF Follows, Unbroken
  <2> QED BY <1>1, <1>7, <2>1, <2>4, IngressAssumption DEF ProducerOK
<1>13. ConsumerOK' /\ PacketsFollow'
  <2>1. ppc # "idle" => taken \in taken..(published - 1)
    BY <1>3 DEF CursorsOK
  <2>2. ppc # "idle" => Slot(taken)' = Slot(taken)
    BY <1>1, <1>6, <2>1
  <2> QED BY <1>1, <2>2 DEF ConsumerOK, PacketsFollow, Unbroken
<1> QED BY <1>9, <1>10, <1>11, <1>12, <1>13
LEMMA DataInv == ASSUME IngressInv, ReceiveData PROVE IngressInv'
<1> USE DEF IngressInv
<1> DEFINE w == published % QueuePackets
<1>1. /\ UNCHANGED <<read_cursor, write_cursor, discontinuity, ppc, packet, previous,
                     expected_sequence, have_sequence, position, sequence, lost,
                     published, taken, tail, silent>>
      /\ rpc = "data" /\ rpc' = "publish"
  BY DEF ReceiveData, ringVars, popVars, sourceVars
<1>2. slots' = [slots EXCEPT ![w].data = position]
  BY SlotsAre DEF ReceiveData
<1>3. /\ published \in Nat /\ taken \in Nat /\ taken <= published
      /\ published - taken < QueuePackets /\ QueuePackets \in Nat /\ QueuePackets > 0
      /\ w \in 0..(QueuePackets - 1)
  <2>1. published \in Nat /\ taken \in Nat
    BY DEF IngressTypeOK
  <2>2. taken <= published /\ published - taken < QueuePackets
    BY <1>1 DEF CursorsOK
  <2>3. w \in 0..(QueuePackets - 1)
    BY <2>1, SlotRange
  <2> HIDE DEF w
  <2> QED BY <2>1, <2>2, <2>3, IngressAssumption
<1>4. position \in 0..MaxPosition
  BY <1>1, IngressAssumption DEF ProducerOK, IngressTypeOK
<1>5. /\ slots' \in [0..(QueuePackets - 1) -> Packet]
      /\ slots'[w].head = slots[w].head /\ slots'[w].mark = slots[w].mark
      /\ slots'[w].data = position
      /\ \A s \in 0..(QueuePackets - 1) : s # w => slots'[s] = slots[s]
  <2> HIDE DEF w
  <2> QED BY <1>2, <1>3, <1>4 DEF IngressTypeOK, Packet
<1>6. \A i \in taken..(published - 1) : Slot(i)' = Slot(i)
  <2> SUFFICES ASSUME NEW i \in taken..(published - 1) PROVE Slot(i)' = Slot(i)
    OBVIOUS
  <2>1. i \in Nat /\ i < published /\ published - i < QueuePackets
    BY <1>3
  <2>2. i % QueuePackets # w
    BY <1>3, <2>1, SlotsDistinct
  <2>3. i % QueuePackets \in 0..(QueuePackets - 1)
    BY <2>1, SlotRange
  <2> QED BY <1>5, <2>2, <2>3 DEF Slot
<1>7. /\ Slot(published)'.head = Slot(published).head
      /\ Slot(published)'.mark = Slot(published).mark
      /\ Slot(published)'.data = position
  BY <1>1, <1>5 DEF Slot
<1>8. IngressTypeOK' /\ CursorsOK'
  BY <1>1, <1>3, <1>5 DEF IngressTypeOK, CursorsOK
<1>9. QueueOK'
  BY <1>1, <1>3, <1>6, QueueSame
<1>10. ProducerOK'
  <2>1. Follows(Slot(published), tail)
    BY <1>1 DEF ProducerOK
  <2>2. Follows(Slot(published), tail)'
    BY <1>1, <1>7, <2>1 DEF Follows, Unbroken
  <2> QED BY <1>1, <1>7, <2>2, IngressAssumption DEF ProducerOK
<1>11. ConsumerOK' /\ PacketsFollow'
  <2>1. ppc # "idle" => taken \in taken..(published - 1)
    BY <1>3 DEF CursorsOK
  <2>2. ppc # "idle" => Slot(taken)' = Slot(taken)
    BY <1>1, <1>6, <2>1
  <2> QED BY <1>1, <2>2 DEF ConsumerOK, PacketsFollow, Unbroken
<1> QED BY <1>8, <1>9, <1>10, <1>11

(* The packet joins the queue as its newest. *)
LEMMA PublishInv == ASSUME IngressInv, ReceivePublish PROVE IngressInv'
<1> USE DEF IngressInv
<1>1. /\ UNCHANGED <<slots, read_cursor, ppc, packet, previous,
                     expected_sequence, have_sequence, taken, silent>>
      /\ rpc = "publish" /\ rpc' = "idle" /\ discontinuity' = FALSE
      /\ write_cursor' = (write_cursor + 1) % CursorSpan /\ published' = published + 1
      /\ tail' = position /\ position' = position + 1 /\ lost' = 0
      /\ sequence' = (sequence + 1) % SequenceSpan
  BY DEF ReceivePublish, Onward, popVars
<1>2. /\ published \in Nat /\ taken \in Nat /\ taken <= published
      /\ published - taken < QueuePackets /\ QueuePackets \in Nat
  BY <1>1, IngressAssumption DEF IngressTypeOK, CursorsOK
<1>3. /\ position <= MaxPosition /\ Slot(published).head = position
      /\ Follows(Slot(published), tail) /\ Slot(published).data = position
      /\ have_sequence /\ expected_sequence = (sequence + 1) % SequenceSpan
  BY <1>1 DEF ProducerOK
<1>4. /\ write_cursor' = (published + 1) % CursorSpan
      /\ write_cursor' \in 0..(CursorSpan - 1)
  BY <1>1, <1>2, CursorAdvance DEF CursorsOK
<1>5. /\ (sequence + 1) % SequenceSpan \in 0..(SequenceSpan - 1)
      /\ (expected_sequence + 0) % SequenceSpan = expected_sequence
  <2>1. 0 \in 0..(SequenceSpan - 1)
    BY IngressAssumption
  <2> QED BY <2>1, SequenceAdvance DEF IngressTypeOK
<1>6. IngressTypeOK'
  <2>1. position \in 0..MaxPosition /\ position + 1 \in 1..(MaxPosition + 1)
        /\ 0 \in 0..(SequenceSpan - 1)
    BY <1>3, IngressAssumption DEF IngressTypeOK
  <2>2. published + 1 \in Nat
    BY <1>2
  <2> QED BY <1>1, <1>4, <1>5, <2>1, <2>2 DEF IngressTypeOK
<1>7. CursorsOK'
  BY <1>1, <1>2, <1>4 DEF CursorsOK
<1>8. \A i : Slot(i)' = Slot(i)
  BY <1>1 DEF Slot
<1>9. QueueOK'
  <2>1. \A i \in taken..published : Slot(i)'.data = Slot(i)'.head
    BY <1>2, <1>3, <1>8 DEF QueueOK
  <2>2. Before' = Before
    BY <1>1 DEF Before
  <2>3. Follows(Slot(taken), Before)
    <3>1. CASE taken < published
      BY <3>1 DEF QueueOK
    <3>2. CASE taken = published
      BY <1>2, <1>3, <3>2 DEF QueueOK
    <3> QED BY <1>2, <3>1, <3>2
  <2>4. Follows(Slot(taken), Before)'
    BY <1>1, <1>8, <2>2, <2>3 DEF Follows, Unbroken
  <2>5. \A i \in (taken + 1)..published : Follows(Slot(i), Slot(i - 1).head)'
    <3> SUFFICES ASSUME NEW i \in (taken + 1)..published
                 PROVE  Follows(Slot(i), Slot(i - 1).head)'
      OBVIOUS
    <3>1. CASE i < published
      <4>1. Follows(Slot(i), Slot(i - 1).head)
        BY <1>2, <3>1 DEF QueueOK
      <4> QED BY <1>1, <1>8, <4>1 DEF Follows, Unbroken
    <3>2. CASE i = published
      <4>1. tail = Slot(i - 1).head
        BY <1>2, <3>2 DEF QueueOK
      <4>2. Follows(Slot(i), Slot(i - 1).head)
        BY <1>3, <3>2, <4>1
      <4> QED BY <1>1, <1>8, <4>2 DEF Follows, Unbroken
    <3> QED BY <1>2, <3>1, <3>2
  <2>6. taken' < published' /\ published' - 1 = published
    BY <1>1, <1>2
  <2>7. \A i : i = published => tail' = Slot(i)'.head
    BY <1>1, <1>3, <1>8
  <2>8. tail' = Slot(published - 1)'.head
    BY <2>6, <2>7
  <2> QED BY <1>1, <2>1, <2>4, <2>5, <2>6, <2>8 DEF QueueOK
<1>10. ProducerOK'
  BY <1>1, <1>3, <1>5, IngressAssumption DEF ProducerOK, IngressTypeOK, Unbroken
<1>11. ConsumerOK' /\ PacketsFollow'
  BY <1>1, ConsumerKept DEF popVars
<1> QED BY <1>6, <1>7, <1>9, <1>10, <1>11
(* The consumer: the packet it takes follows the one it took before. *)
LEMMA PopHeaderInv == ASSUME IngressInv, PopHeader PROVE IngressInv'
<1> USE DEF IngressInv
<1>1. /\ UNCHANGED <<slots, read_cursor, write_cursor, expected_sequence, have_sequence,
                     discontinuity, rpc, position, sequence, lost, published, taken, tail,
                     silent>>
      /\ ppc = "idle" /\ ppc' = "data" /\ read_cursor # write_cursor
      /\ previous' = packet.head
  BY DEF PopHeader, ringVars, receiveVars, sourceVars
<1>2. packet' = [packet EXCEPT !.head = Slot(taken).head, !.mark = Slot(taken).mark]
  BY SlotsAre DEF PopHeader, Slot
<1>3. taken \in Nat /\ published \in Nat /\ taken < published
  <2>1. taken # published
    BY <1>1 DEF CursorsOK
  <2> QED BY <2>1 DEF IngressTypeOK, CursorsOK
<1>4. Slot(taken) \in Packet
  BY <1>3, SlotRange DEF IngressTypeOK, Slot
<1>5. /\ packet' \in Packet
      /\ packet'.head = Slot(taken).head /\ packet'.mark = Slot(taken).mark
  BY <1>2, <1>4 DEF IngressTypeOK, Packet
<1>6. \A i : Slot(i)' = Slot(i)
  BY <1>1 DEF Slot
<1>7. packet.head \in 0..MaxPosition
  BY DEF IngressTypeOK, Packet
<1>8. IngressTypeOK'
  BY <1>1, <1>5, <1>7 DEF IngressTypeOK
<1>9. CursorsOK'
  BY <1>1, <1>3 DEF CursorsOK
<1>10. Before' = Before /\ Before = packet.head
  BY <1>1 DEF Before
<1>11. Follows(Slot(taken), packet.head)
  BY <1>3, <1>10 DEF QueueOK
<1>12. QueueOK'
  BY <1>1, <1>6, <1>10 DEF QueueOK, Follows, Unbroken
<1>13. ProducerOK'
  BY <1>1, <1>6 DEF ProducerOK, Follows, Unbroken
<1>14. ConsumerOK'
  BY <1>1, <1>5, <1>6 DEF ConsumerOK
<1>15. PacketsFollow'
  BY <1>1, <1>5, <1>7, <1>11 DEF PacketsFollow, Follows, Unbroken
<1> QED BY <1>8, <1>9, <1>12, <1>13, <1>14, <1>15

LEMMA PopDataInv == ASSUME IngressInv, PopData PROVE IngressInv'
<1> USE DEF IngressInv
<1>1. /\ UNCHANGED <<slots, read_cursor, write_cursor, expected_sequence, have_sequence,
                     discontinuity, rpc, position, sequence, lost, published, taken, tail,
                     previous, silent>>
      /\ ppc = "data" /\ ppc' = "publish"
  BY DEF PopData, ringVars, receiveVars, sourceVars
<1>2. packet' = [packet EXCEPT !.data = Slot(taken).data]
  BY SlotsAre DEF PopData, Slot
<1>3. taken \in Nat /\ published \in Nat /\ taken < published
  BY <1>1 DEF IngressTypeOK, CursorsOK
<1>4. Slot(taken) \in Packet /\ Slot(taken).data = Slot(taken).head
  <2>1. Slot(taken) \in Packet
    BY <1>3, SlotRange DEF IngressTypeOK, Slot
  <2>2. taken \in taken..(published - 1)
    BY <1>3
  <2> QED BY <2>1, <2>2 DEF QueueOK
<1>5. /\ packet' \in Packet
      /\ packet'.head = packet.head /\ packet'.mark = packet.mark
      /\ packet'.data = Slot(taken).data
  BY <1>2, <1>4 DEF IngressTypeOK, Packet
<1>6. \A i : Slot(i)' = Slot(i)
  BY <1>1 DEF Slot
<1>7. IngressTypeOK' /\ CursorsOK'
  BY <1>1, <1>5 DEF IngressTypeOK, CursorsOK
<1>8. Before' = Before
  BY <1>1 DEF Before
<1>9. QueueOK'
  BY <1>1, <1>6, <1>8 DEF QueueOK, Follows, Unbroken
<1>10. ProducerOK'
  BY <1>1, <1>6 DEF ProducerOK, Follows, Unbroken
<1>11. ConsumerOK'
  BY <1>1, <1>5, <1>6 DEF ConsumerOK
<1>12. PacketsFollow'
  <2>1. packet.head = Slot(taken).head
    BY <1>1 DEF ConsumerOK
  <2> QED BY <1>1, <1>4, <1>5, <2>1 DEF PacketsFollow, Unbroken
<1> QED BY <1>7, <1>9, <1>10, <1>11, <1>12

LEMMA PopPublishInv == ASSUME IngressInv, PopPublish PROVE IngressInv'
<1> USE DEF IngressInv
<1>1. /\ UNCHANGED <<slots, write_cursor, expected_sequence, have_sequence, discontinuity,
                     rpc, packet, previous, position, sequence, lost, published, tail,
                     silent>>
      /\ ppc = "publish" /\ ppc' = "idle" /\ taken' = taken + 1
      /\ read_cursor' = (read_cursor + 1) % CursorSpan
  BY DEF PopPublish, receiveVars, sourceVars
<1>2. /\ taken \in Nat /\ published \in Nat /\ taken < published
      /\ published - taken <= QueuePackets /\ QueuePackets \in Nat
  BY <1>1, IngressAssumption DEF IngressTypeOK, CursorsOK
<1>3. /\ read_cursor' = (taken + 1) % CursorSpan
      /\ read_cursor' \in 0..(CursorSpan - 1)
  BY <1>1, <1>2, CursorAdvance DEF CursorsOK
<1>4. \A i : Slot(i)' = Slot(i)
  BY <1>1 DEF Slot
<1>5. IngressTypeOK'
  BY <1>1, <1>2, <1>3 DEF IngressTypeOK
<1>6. CursorsOK'
  BY <1>1, <1>2, <1>3 DEF CursorsOK
<1>7. Before' = Slot(taken).head
  BY <1>1 DEF Before, ConsumerOK
<1>8. QueueOK'
  <2>1. \A i \in (taken + 1)..(published - 1) : Slot(i)'.data = Slot(i)'.head
    BY <1>2, <1>4 DEF QueueOK
  <2>2. taken + 1 < published => Follows(Slot(taken + 1), Slot(taken).head)
    <3>1. taken + 1 < published => taken + 1 \in (taken + 1)..(published - 1)
      BY <1>2
    <3>2. (taken + 1) - 1 = taken
      BY <1>2
    <3> QED BY <3>1, <3>2 DEF QueueOK
  <2>3. \A i : i = taken + 1 => Slot(i)' = Slot(taken + 1)
    BY <1>4
  <2>4. taken' < published' => Follows(Slot(taken), Before)'
    BY <1>1, <1>7, <2>2, <2>3 DEF Follows, Unbroken
  <2>5. \A i \in (taken + 2)..(published - 1) : Follows(Slot(i), Slot(i - 1).head)'
    <3> SUFFICES ASSUME NEW i \in (taken + 2)..(published - 1)
                 PROVE  Follows(Slot(i), Slot(i - 1).head)'
      OBVIOUS
    <3>1. i \in (taken + 1)..(published - 1)
      BY <1>2
    <3>2. Follows(Slot(i), Slot(i - 1).head)
      BY <3>1 DEF QueueOK
    <3> QED BY <1>1, <1>4, <3>2 DEF Follows, Unbroken
  <2>6. tail = IF taken + 1 < published THEN Slot(published - 1).head ELSE Slot(taken).head
    <3>1. tail = Slot(published - 1).head
      BY <1>2 DEF QueueOK
    <3>2. ~(taken + 1 < published) => published - 1 = taken
      BY <1>2
    <3> QED BY <3>1, <3>2
  <2>7. tail' = IF taken' < published' THEN Slot(published - 1)'.head ELSE Before'
    <3>1. \A i : i = published - 1 => Slot(i)' = Slot(published - 1)
      BY <1>4
    <3>2. Slot(published - 1)' = Slot(published - 1)
      BY <1>1, <3>1
    <3> QED BY <1>1, <1>7, <2>6, <3>2
  <2>8. taken' + 1 = taken + 2 /\ published' = published
    BY <1>1, <1>2
  <2> QED BY <1>1, <2>1, <2>4, <2>5, <2>7, <2>8 DEF QueueOK
<1>9. ProducerOK'
  BY <1>1, <1>4 DEF ProducerOK, Follows, Unbroken
<1>10. ConsumerOK' /\ PacketsFollow'
  BY <1>1 DEF ConsumerOK, PacketsFollow, Unbroken
<1> QED BY <1>5, <1>6, <1>8, <1>9, <1>10
----------------------------------------------------------------------------
LEMMA NextInv == IngressInv /\ [IngressNext]_ingressVars => IngressInv'
<1> SUFFICES ASSUME IngressInv, [IngressNext]_ingressVars PROVE IngressInv'
  OBVIOUS
<1>1. CASE Lose
  BY <1>1, LoseInv
<1>2. CASE MarkDiscontinuity \/ ReceiveInvalid
  BY <1>2, MarkInv
<1>3. CASE Receive
  BY <1>3, FullInv, HeaderInv, DataInv, PublishInv DEF Receive
<1>4. CASE Pop
  BY <1>4, PopHeaderInv, PopDataInv, PopPublishInv DEF Pop
<1>5. CASE Skip
  BY <1>5, SkipInv
<1>6. CASE UNCHANGED ingressVars
  <2>1. UNCHANGED <<slots, read_cursor, write_cursor, expected_sequence, have_sequence,
                    discontinuity, rpc, ppc, packet, previous, position, sequence, lost,
                    published, taken, tail, silent>>
    BY <1>6 DEF ingressVars, ringVars, receiveVars, popVars, sourceVars
  <2>2. IngressTypeOK' /\ CursorsOK'
    BY <2>1 DEF IngressInv, IngressTypeOK, CursorsOK
  <2>3. QueueOK' /\ ConsumerOK' /\ PacketsFollow'
    BY <2>1, QueueKept, ConsumerKept DEF IngressInv, popVars
  <2>4. ProducerOK'
    BY <2>1 DEF IngressInv, ProducerOK, Slot, Follows, Unbroken
  <2> QED BY <2>2, <2>3, <2>4 DEF IngressInv
<1> QED BY <1>1, <1>2, <1>3, <1>4, <1>5, <1>6 DEF IngressNext

(* eaf_bt_sbc_receive and eaf_bt_ingress_pop: whatever is lost on the air, *)
(* refused or dropped by a full queue, and however the two threads         *)
(* interleave, a packet popped carries the discontinuity or follows the    *)
(* one popped before it but for media left out before eaf_bt_sbc_receive,  *)
(* and its data is its own.                                                *)
THEOREM IngressFollows == IngressSpec => []PacketsFollow
<1>1. IngressInv => PacketsFollow
  BY DEF IngressInv
<1> QED BY <1>1, InitInv, NextInv, PTL DEF IngressSpec

(* bt_ingress.c: the packets in the ring are whole and in order, and       *)
(* there are never more of them than the ring has slots.                   *)
THEOREM IngressInvariant == IngressSpec => []IngressInv
  BY InitInv, NextInv, PTL DEF IngressSpec
----------------------------------------------------------------------------
(* Every step of the speaker is a step of the packet queue or leaves the   *)
(* queue alone.                                                            *)
LEMMA MediaStep ==
  ASSUME mediaVars' = mediaVars PROVE ingressVars' = ingressVars
  BY DEF mediaVars

LEMMA LinkStep ==
  ASSUME NEW a, NEW b, NEW c, StateChange(a, b, c)
  PROVE  MarkDiscontinuity /\ UNCHANGED <<workerVars, decoderVars>>
  BY DEF StateChange

LEMMA CallbackStep ==
  ASSUME Callback PROVE IngressNext \/ UNCHANGED ingressVars
<1>1. CASE Sound
  <2>1. CASE AudioPacket \/ AudioCopied \/ AudioDropped \/ AudioLost
    BY <2>1 DEF AudioPacket, AudioCopied, AudioDropped, AudioLost, IngressNext, Receive
  <2>2. CASE AudioConfig \/ \E started \in BOOLEAN : AudioState(started)
    BY <2>2, LinkStep DEF AudioConfig, AudioState, IngressNext
  <2> QED BY <1>1, <2>1, <2>2 DEF Sound
<1>2. CASE Connecting \/ Connected \/ Disconnected
  BY <1>2, LinkStep
  DEF Connecting, Connected, Disconnected, LinkConnecting, LinkConnected, Configure, LinkDown,
      IngressNext
<1>3. CASE MetadataAcquire \/ MetadataPost \/ Notification
  BY <1>3, MediaStep DEF MetadataAcquire, MetadataPost, Notification
<1>4. ASSUME NEW ok \in BOOLEAN, Authenticated(ok) \/ BondRemoved(ok)
      PROVE  UNCHANGED ingressVars
  BY <1>4 DEF Authenticated, BondRemoved
<1> QED BY <1>1, <1>2, <1>3, <1>4 DEF Callback

LEMMA WorkerStep ==
  ASSUME Decode PROVE IngressNext \/ UNCHANGED ingressVars
<1>1. CASE StepPop \/ StepPopped
  BY <1>1 DEF StepPop, StepPopped, IngressNext, Pop
<1>2. CASE \/ DecodeTake \/ DecodeStatus \/ DecodeLevel \/ StepFlush \/ StepNoPacket
           \/ StepFrame \/ StepReject \/ DecodeCheck
  BY <1>2 DEF DecodeTake, DecodeStatus, DecodeLevel, StepFlush, StepNoPacket, StepFrame,
              StepReject, DecodeCheck
<1> QED BY <1>1, <1>2 DEF Decode

LEMMA ControlStep ==
  ASSUME Control \/ Time \/ speaker_command PROVE UNCHANGED ingressVars
  BY MediaStep
  DEF Control, ControlEvent, ControlTimeout, TickLink, TickRest, Time, speaker_command

LEMMA SpeakerStep == [Next]_vars => [IngressNext]_ingressVars
<1> SUFFICES ASSUME [Next]_vars PROVE IngressNext \/ UNCHANGED ingressVars
  OBVIOUS
<1>1. CASE Callback
  BY <1>1, CallbackStep
<1>2. CASE Worker
  BY <1>2, WorkerStep DEF Worker
<1>3. CASE Player
  BY <1>3 DEF Player, Output
<1>4. CASE Control \/ Time \/ speaker_command
  BY <1>4, ControlStep
<1>5. CASE UNCHANGED vars
  BY <1>5, MediaStep DEF vars
<1> QED BY <1>1, <1>2, <1>3, <1>4, <1>5 DEF Next

(* eaf_bt_sbc_receive and eaf_bt_ingress_pop as the speaker's four tasks   *)
(* call them implement the packet queue by itself.                         *)
THEOREM SpeakerImplementsIngress == Spec => IngressSpec
<1>1. Init => IngressInit
  BY DEF Init, MediaInit
<1> QED BY <1>1, SpeakerStep, PTL DEF Spec, IngressSpec

(* In the whole speaker a packet popped carries the discontinuity          *)
(* (bt_ingress.c) or follows the one popped before it but for the media    *)
(* that audio_data_cb of the ESP-IDF binding leaves out.                   *)
THEOREM SpeakerFollows == Spec => []PacketsFollow
  BY SpeakerImplementsIngress, IngressFollows, PTL
----------------------------------------------------------------------------
(* Forgetting a peer: what may be in the flash afterwards. *)
LEMMA ForgetStep == ForgetInv /\ [Next]_vars => ForgetInv'
<1> SUFFICES ASSUME ForgetInv, [Next]_vars PROVE ForgetInv'
  OBVIOUS
<1> USE DEF ForgetInv
<1>1. ASSUME UNCHANGED <<speakerVars, settingsVars>> PROVE ForgetInv'
  BY <1>1 DEF speakerVars, settingsVars
<1>2. CASE Callback
  <2>1. UNCHANGED <<speakerVars, settingsVars>>
    BY <1>2 DEF Callback, Sound, Connecting, Connected, Disconnected, MetadataAcquire,
                MetadataPost, Notification, Authenticated, BondRemoved, controlVars
  <2> QED BY <1>1, <2>1
<1>3. CASE Worker \/ Player \/ speaker_command \/ UNCHANGED vars
  BY <1>1, <1>3 DEF Worker, Player, speaker_command, vars, controlVars
<1>4. CASE Time \/ ControlTimeout
  <2>1. UNCHANGED <<speakerVars, nvs, saved, erased, noticed>>
    BY <1>4 DEF Time, ControlTimeout, settingsVars
  <2> QED BY <2>1 DEF speakerVars
<1>5. CASE ControlEvent
  <2>1. PICK e : handle_event(e)
    BY <1>5 DEF ControlEvent
  <2>2. CASE speaker_begin_forget
    <3>1. have_peer' = FALSE
      BY <2>2 DEF speaker_begin_forget
    <3>2. erased' => nvs' = NoPeer /\ saved' = NoPeer
      BY <2>2 DEF speaker_begin_forget, speaker_nvs_forget_peer
    <3> QED BY <3>1, <3>2
  <2>3. CASE ~speaker_begin_forget
    <3>1. UNCHANGED <<speakerVars, nvs, saved, erased, noticed>>
      BY <2>1, <2>3 DEF handle_event, settingsVars
    <3> QED BY <3>1 DEF speakerVars
  <2> QED BY <2>2, <2>3
<1>6. CASE TickLink
  <2>1. UNCHANGED <<forgetting, nvs, saved, erased>>
    BY <1>6 DEF TickLink, speakerVars
  <2>2. \/ UNCHANGED <<have_peer, last_peer, noticed>>
        \/ last_peer' = peer /\ noticed' = noticed \cup {peer}
    BY <1>6 DEF TickLink, speakerVars
  <2> QED BY <2>1, <2>2
<1>7. CASE TickRest
  <2>1. UNCHANGED <<have_peer, last_peer, erased, noticed>>
    BY <1>7 DEF TickRest
  <2>2. forgetting' => forgetting
    BY <1>7 DEF TickRest, speaker_gap_tick
  <2>3. /\ nvs' = nvs \/ (nvs' = last_peer /\ have_peer /\ ~forgetting')
        /\ saved' = saved \/ saved' = nvs'
    BY <1>7 DEF TickRest, speaker_nvs_tick, save_settings
  <2> QED BY <2>1, <2>2, <2>3
<1> QED BY <1>2, <1>3, <1>4, <1>5, <1>6, <1>7 DEF Next, Control

(* speaker_begin_forget, speaker_nvs_forget_peer and save_settings: after  *)
(* a forget that could erase the peer, no order of events, commands,       *)
(* timers, link changes and failing calls writes one while the speaker     *)
(* forgets, nor ever a peer that the control task has not remembered       *)
(* since.                                                                  *)
THEOREM SpeakerForgets == Spec => []ForgetIsSaved
<1>1. Init => ForgetInv
  BY DEF Init, ForgetInv
<1>2. ForgetInv => ForgetIsSaved
  BY DEF ForgetInv, ForgetIsSaved
<1> QED BY <1>1, <1>2, ForgetStep, PTL DEF Spec
----------------------------------------------------------------------------
(* The history of the codec. *)

LEMMA HistoryInit == Init => HistoryInv
  BY MediaAssumption
  DEF Init, MediaInit, IngressInit, HistoryInv, HistoryContinuous

(* What leaves the codec, the packet in hand and the pop alone. *)
LEMMA HistoryKept ==
  ASSUME HistoryInv, UNCHANGED <<ppc, packet, previous, frames_left, history>>,
         silent \subseteq silent', dpc' = dpc \/ ppc = "idle"
  PROVE  HistoryInv'
<1>1. \A a, b : Unbroken(a, b) => Unbroken(a, b)'
  BY DEF Unbroken
<1>2. HistoryContinuous'
  BY <1>1 DEF HistoryInv, HistoryContinuous, Unbroken
<1>3. history # <<>> /\ frames_left = PacketFrames =>
        Latest'[1] < packet'.data /\ Unbroken(Latest[1], packet.data)'
  BY <1>1 DEF HistoryInv, Latest, Unbroken
<1> QED BY <1>2, <1>3 DEF HistoryInv, Latest, Before

(* A reset of the codec, with no pop in progress. *)
LEMMA HistoryReset ==
  ASSUME HistoryInv, UNCHANGED <<ppc, packet>>, ppc = "idle",
         history' = <<>>, frames_left' = 0
  PROVE  HistoryInv'
<1>1. PacketFrames \in Nat \ {0}
  BY MediaAssumption
<1> QED BY <1>1 DEF HistoryInv, HistoryContinuous

(* The two readings of a pop. *)
LEMMA HistoryPop ==
  ASSUME HistoryInv, PopHeader \/ PopData, dpc = "next", UNCHANGED dpc,
         frames_left = 0, UNCHANGED <<frames_left, history>>
  PROVE  HistoryInv'
<1>1. Before' = Before
  BY DEF PopHeader, PopData, Before
<1>2. PacketFrames \in Nat \ {0} /\ silent' = silent
  BY MediaAssumption DEF PopHeader, PopData
<1>3. HistoryContinuous'
  BY <1>2 DEF HistoryInv, HistoryContinuous, Unbroken
<1> QED BY <1>1, <1>2, <1>3 DEF HistoryInv, Latest

(* The end of a pop: without a discontinuity the packet follows the one    *)
(* whose last frame the codec remembers.                                   *)
LEMMA HistoryPopped ==
  ASSUME IngressInv, HistoryInv, StepPopped
  PROVE  HistoryInv'
<1>1. /\ ppc = "publish" /\ ppc' = "idle" /\ UNCHANGED <<packet, dpc, silent>> /\ dpc = "next"
      /\ frames_left' = PacketFrames
      /\ history' = IF packet.mark THEN <<>> ELSE history
  BY DEF StepPopped, PopPublish, workerVars
<1>2. PacketFrames \in Nat \ {0}
  BY MediaAssumption
<1>3. /\ packet.head \in Nat /\ packet.data = packet.head /\ previous \in Nat
      /\ packet.mark \in BOOLEAN
  BY <1>1 DEF IngressInv, IngressTypeOK, Packet, PacketsFollow
<1>4. previous < packet.head
  <2>1. taken < published
    BY <1>1 DEF IngressInv, CursorsOK
  <2>2. Follows(Slot(taken), previous) /\ packet.head = Slot(taken).head
    BY <1>1, <2>1 DEF IngressInv, QueueOK, ConsumerOK, Before
  <2> QED BY <2>2 DEF Follows
<1>5. Before = previous /\ Before' = packet.head
  BY <1>1 DEF Before
<1>6. CASE packet.mark
  BY <1>1, <1>2, <1>3, <1>4, <1>6 DEF HistoryInv, HistoryContinuous
<1>7. CASE ~packet.mark
  <2>1. history' = history
    BY <1>1, <1>7
  <2>2. ASSUME history # <<>>
        PROVE  Latest = <<previous, PacketFrames>> /\ Unbroken(previous, packet.data)
    <3>1. previous # 0 /\ Latest = <<previous, PacketFrames>>
      BY <1>1, <1>5, <2>2 DEF HistoryInv
    <3>2. Unbroken(previous, packet.head)
      BY <1>7, <3>1 DEF IngressInv, PacketsFollow
    <3> QED BY <1>3, <3>1, <3>2
  <2>3. ASSUME history' # <<>>
        PROVE  /\ Latest'[2] = PacketFrames /\ Latest'[1] < packet'.data
               /\ Unbroken(Latest[1], packet.data)'
    <3>1. Latest' = <<previous, PacketFrames>>
      BY <2>1, <2>2, <2>3 DEF Latest
    <3>2. Latest'[1] = previous /\ Latest'[2] = PacketFrames
      BY <3>1
    <3> QED BY <1>1, <1>3, <1>4, <2>1, <2>2, <2>3, <3>2 DEF Unbroken
  <2>4. packet.head # 0
    BY <1>3, <1>4
  <2>5. HistoryContinuous'
    BY <1>1, <2>1 DEF HistoryInv, HistoryContinuous, Unbroken
  <2> QED BY <1>1, <1>2, <1>3, <1>5, <2>1, <2>3, <2>4, <2>5 DEF HistoryInv
<1> QED BY <1>3, <1>6, <1>7

(* A frame: it comes directly behind the one the codec remembers. *)
LEMMA HistoryFrame ==
  ASSUME IngressInv, HistoryInv, StepFrame
  PROVE  HistoryInv'
<1>1. /\ ppc = "idle" /\ UNCHANGED <<ppc, packet, previous, silent>> /\ frames_left > 0
      /\ history' = IF history = <<>> THEN <<InHand>> ELSE <<Latest, InHand>>
      /\ frames_left' = frames_left - 1
  BY DEF StepFrame, Latest, ingressVars, popVars
<1>2. PacketFrames \in Nat \ {0} /\ frames_left \in 1..PacketFrames
  BY <1>1, MediaAssumption DEF HistoryInv
<1>3. packet.data \in Nat /\ packet.data # 0 /\ packet.data = packet.head
  BY <1>1, <1>2 DEF IngressInv, IngressTypeOK, Packet, PacketsFollow, HistoryInv
<1>4. Before' = packet.data
  BY <1>1, <1>3 DEF Before
<1> DEFINE n == PacketFrames + 1 - frames_left
<1>5. n \in 1..PacketFrames /\ InHand = <<packet.data, n>> /\ InHand \in Nat \X Nat
  BY <1>2, <1>3 DEF InHand
<1>6. /\ history' \in Seq(Nat \X Nat) /\ history' # <<>> /\ Len(history') \in {1, 2}
      /\ Latest' = <<packet.data, n>>
  <2>1. CASE history = <<>>
    BY <1>1, <1>5, <2>1 DEF Latest
  <2>2. CASE history # <<>>
    <3>1. history \in Seq(Nat \X Nat) /\ Len(history) \in {1, 2}
      BY <2>2 DEF HistoryInv
    <3>2. Latest \in Nat \X Nat
      BY <3>1 DEF Latest
    <3>3. history' = <<Latest, InHand>>
      BY <1>1, <2>2
    <3> QED BY <1>5, <3>2, <3>3 DEF Latest
  <2> QED BY <2>1, <2>2
<1>7. HistoryContinuous'
  <2>1. CASE history = <<>>
    BY <1>1, <2>1 DEF HistoryContinuous
  <2>2. CASE history # <<>>
    <3>1. history' = <<Latest, <<packet.data, n>> >>
      BY <1>1, <1>5, <2>2
    <3>2. CASE frames_left = PacketFrames
      <4>1. /\ Latest[2] = PacketFrames /\ n = 1
            /\ Latest[1] < packet.data /\ Unbroken(Latest[1], packet.data)
        BY <1>2, <2>2, <3>2 DEF HistoryInv
      <4>2. history'[1] = Latest /\ history'[2][1] = packet.data /\ history'[2][2] = n
        BY <3>1
      <4> QED BY <1>1, <4>1, <4>2 DEF HistoryContinuous, Unbroken
    <3>3. CASE frames_left # PacketFrames
      <4>1. Latest = <<packet.data, PacketFrames - frames_left>>
        BY <1>2, <2>2, <3>3 DEF HistoryInv
      <4>2. (PacketFrames - frames_left) + 1 = n
        BY <1>2
      <4> QED BY <3>1, <4>1, <4>2 DEF HistoryContinuous
    <3> QED BY <3>2, <3>3
  <2> QED BY <2>1, <2>2
<1>8. frames_left' \in 0..(PacketFrames - 1) /\ n = PacketFrames - frames_left'
  BY <1>1, <1>2
<1> HIDE DEF n
<1>9. /\ frames_left' = 0 => Latest' = <<Before', PacketFrames>>
      /\ frames_left' # PacketFrames
      /\ Latest' = <<packet'.data, PacketFrames - frames_left'>>
  BY <1>1, <1>2, <1>4, <1>6, <1>8
<1> QED BY <1>1, <1>2, <1>3, <1>4, <1>6, <1>7, <1>8, <1>9 DEF HistoryInv

(* No callback and no step of the control task or of the output touches    *)
(* the codec or a pop.                                                     *)
LEMMA OthersKeep ==
  ASSUME Callback \/ Player \/ Control \/ Time \/ speaker_command \/ UNCHANGED vars
  PROVE  /\ UNCHANGED <<ppc, packet, previous, frames_left, history, dpc>>
         /\ silent \subseteq silent'
<1> USE DEF popVars, workerVars, decoderVars
<1>1. CASE AudioPacket \/ AudioCopied \/ AudioDropped \/ AudioLost
  BY <1>1 DEF AudioPacket, AudioCopied, AudioDropped, AudioLost, ReceiveInvalid, ReceiveFull,
              ReceiveHeader, ReceiveData, ReceivePublish, Lose, Skip
<1>2. ASSUME MarkDiscontinuity, UNCHANGED <<workerVars, decoderVars>>
      PROVE  UNCHANGED <<ppc, packet, previous, frames_left, history, dpc, silent>>
  BY <1>2 DEF MarkDiscontinuity
<1>3. CASE \/ AudioConfig \/ (\E started \in BOOLEAN : AudioState(started))
           \/ LinkConnecting \/ LinkConnected \/ LinkDown
  BY <1>2, <1>3, LinkStep DEF AudioConfig, AudioState, LinkConnecting, LinkConnected, LinkDown
<1>4. ASSUME UNCHANGED <<ingressVars, workerVars, decoderVars>>
      PROVE  UNCHANGED <<ppc, packet, previous, frames_left, history, dpc, silent>>
  BY <1>4 DEF ingressVars
<1>5. CASE MetadataAcquire \/ MetadataPost \/ Notification
  BY <1>4, <1>5 DEF MetadataAcquire, MetadataPost, Notification, mediaVars
<1>6. CASE \E ok \in BOOLEAN : Authenticated(ok) \/ BondRemoved(ok)
  BY <1>4, <1>6 DEF Authenticated, BondRemoved
<1>7. CASE Player
  BY <1>4, <1>7 DEF Player, Output
<1>8. CASE Control \/ Time \/ speaker_command \/ UNCHANGED vars
  BY <1>4, <1>8 DEF Control, ControlEvent, ControlTimeout, TickLink, TickRest, Time,
                    speaker_command, vars, mediaVars
<1>9. CASE Configure
  BY <1>4, <1>9 DEF Configure
<1> QED BY <1>1, <1>3, <1>5, <1>6, <1>7, <1>8, <1>9
        DEF Callback, Sound, Connecting, Connected, Disconnected

LEMMA HistoryNext == IngressInv /\ HistoryInv /\ [Next]_vars => HistoryInv'
<1> SUFFICES ASSUME IngressInv, HistoryInv, [Next]_vars PROVE HistoryInv'
  OBVIOUS
<1>1. CASE Callback \/ Player \/ Control \/ Time \/ speaker_command \/ UNCHANGED vars
  BY <1>1, OthersKeep, HistoryKept
<1>2. CASE Decode
  <2>1. dpc # "next" => ppc = "idle"
    BY DEF HistoryInv
  <2>2. CASE DecodeTake \/ DecodeLevel \/ StepFlush \/ StepNoPacket \/ DecodeCheck
    <3>1. UNCHANGED <<ppc, packet, previous, silent, frames_left, history>> /\ ppc = "idle"
      BY <2>1, <2>2 DEF DecodeTake, DecodeLevel, StepFlush, StepNoPacket, DecodeCheck,
                        ingressVars, popVars, decoderVars
    <3> QED BY <3>1, HistoryKept
  <2>3. CASE DecodeStatus
    <3>1. UNCHANGED <<ppc, packet, previous, silent>> /\ ppc = "idle"
      BY <2>1, <2>3 DEF DecodeStatus, ingressVars, popVars
    <3>2. \/ history' = <<>> /\ frames_left' = 0
          \/ UNCHANGED <<frames_left, history>>
      BY <2>3 DEF DecodeStatus, eaf_bt_decoder_reset, decoderVars
    <3> QED BY <3>1, <3>2, HistoryReset, HistoryKept
  <2>4. CASE StepReject
    <3>1. /\ UNCHANGED <<ppc, packet, previous>> /\ ppc = "idle"
          /\ history' = <<>> /\ frames_left' = 0
      BY <2>4 DEF StepReject, ingressVars, popVars
    <3> QED BY <3>1, HistoryReset
  <2>5. CASE StepPop
    BY <2>5, HistoryPop DEF StepPop, workerVars, decoderVars
  <2> QED BY <1>2, <2>2, <2>3, <2>4, <2>5, HistoryPopped, HistoryFrame DEF Decode
<1> QED BY <1>1, <1>2 DEF Next, Worker

(* eaf_bt_decoder_step: two frames decoded without a reset between them    *)
(* are neighbours in the sound but for media left out by audio_data_cb,    *)
(* for every size of packets, queue and reservoir and every interleaving   *)
(* of callbacks, worker, output and control task.                          *)
THEOREM SpeakerHistory == Spec => []HistoryContinuous
<1>1. Spec => []IngressInv
  BY SpeakerImplementsIngress, IngressInvariant, PTL
<1>2. HistoryInv => HistoryContinuous
  BY DEF HistoryInv
<1> QED BY <1>1, <1>2, HistoryInit, HistoryNext, PTL DEF Spec
----------------------------------------------------------------------------
(* The text slots of the metadata events. *)

LEMMA OwnCells ==
  ASSUME NEW S, NEW q \in Seq(S)
  PROVE  q \in Seq({q[i] : i \in DOMAIN q})
<1> DEFINE C == {q[i] : i \in DOMAIN q}
<1>1. Len(q) \in Nat /\ DOMAIN q = 1..Len(q) /\ q = [i \in 1..Len(q) |-> q[i]]
  OBVIOUS
<1>2. \A i \in 1..Len(q) : q[i] \in C
  BY <1>1
<1> HIDE DEF C
<1>3. q \in Seq(C)
  BY <1>1, <1>2
<1> QED BY <1>3 DEF C

(* The queue of events after an Append and after a Tail. *)
LEMMA Appended ==
  ASSUME events \in Seq({events[i] : i \in DOMAIN events}),
         NEW e, events' = Append(events, e)
  PROVE  /\ events' \in Seq({events'[i] : i \in DOMAIN events'})
         /\ Len(events) \in Nat /\ DOMAIN events = 1..Len(events)
         /\ DOMAIN events' = 1..(Len(events) + 1)
         /\ \A i \in 1..Len(events) : events'[i] = events[i]
         /\ events'[Len(events) + 1] = e
<1> DEFINE C == {events[i] : i \in DOMAIN events}
           D == C \cup {e}
<1>1. \A x \in C : x \in D
  OBVIOUS
<1>2. events \in Seq(C) /\ e \in D
  OBVIOUS
<1> HIDE DEF C, D
<1>3. events \in Seq(D)
  BY <1>1, <1>2
<1>4. /\ events' \in Seq(D)
      /\ Len(events) \in Nat /\ DOMAIN events = 1..Len(events)
      /\ Len(events') = Len(events) + 1
      /\ DOMAIN events' = 1..Len(events')
      /\ \A i \in 1..Len(events) : events'[i] = events[i]
      /\ events'[Len(events) + 1] = e
  BY <1>2, <1>3
<1>5. events' \in Seq({events'[i] : i \in DOMAIN events'})
  BY <1>4, OwnCells
<1> QED BY <1>4, <1>5

LEMMA Removed ==
  ASSUME events \in Seq({events[i] : i \in DOMAIN events}),
         events # <<>>, events' = Tail(events)
  PROVE  /\ events' \in Seq({events'[i] : i \in DOMAIN events'})
         /\ Len(events) \in Nat \ {0} /\ DOMAIN events = 1..Len(events)
         /\ DOMAIN events' = 1..(Len(events) - 1)
         /\ \A i \in 1..(Len(events) - 1) : events'[i] = events[i + 1]
         /\ Head(events) = events[1]
<1> DEFINE C == {events[i] : i \in DOMAIN events}
<1>1. events \in Seq(C)
  OBVIOUS
<1> HIDE DEF C
<1>2. /\ events' \in Seq(C)
      /\ Len(events) \in Nat \ {0} /\ DOMAIN events = 1..Len(events)
      /\ Len(events') = Len(events) - 1
      /\ DOMAIN events' = 1..Len(events')
      /\ \A i \in 1..(Len(events) - 1) : events'[i] = events[i + 1]
      /\ Head(events) = events[1]
  BY <1>1
<1>3. events' \in Seq(C)
  BY <1>2
<1>4. \A q \in Seq(C) : q \in Seq({q[i] : i \in DOMAIN q})
  BY OwnCells
<1>5. events' \in Seq({events'[i] : i \in DOMAIN events'})
  BY <1>3, <1>4
<1> QED BY <1>2, <1>5

(* An event without a slot joins the queue, or finds it full. *)
LEMMA SlotsPlain ==
  ASSUME SlotsInv, UNCHANGED <<used, text>>,
         NEW e, e.kind # "METADATA",
         events' = Append(events, e) \/ events' = events
  PROVE  SlotsInv'
<1>1. CASE events' = events
  BY <1>1 DEF SlotsInv, Holds
<1>2. CASE events' = Append(events, e)
  <2> DEFINE n == Len(events)
  <2>1. /\ events' \in Seq({events'[i] : i \in DOMAIN events'})
        /\ n \in Nat /\ DOMAIN events = 1..n /\ DOMAIN events' = 1..(n + 1)
        /\ \A i \in 1..n : events'[i] = events[i]
        /\ events'[n + 1] = e
    BY <1>2, Appended DEF SlotsInv
  <2> HIDE DEF n
  <2>2. ASSUME NEW i \in 1..(n + 1)
        PROVE  i \in 1..n \/ events'[i].kind # "METADATA"
    BY <2>1
  <2>3. ASSUME NEW i, NEW s PROVE Holds(i, s)' <=> Holds(i, s)
    BY <2>1, <2>2 DEF Holds
  <2>4. \A i \in DOMAIN events' : events'[i].kind = "METADATA" => events'[i].payload \in used
    BY <2>1, <2>2 DEF SlotsInv
  <2>5. \A i, s : Holds(i, s) => i \in DOMAIN events
    BY DEF Holds
  <2> QED BY <2>1, <2>3, <2>4, <2>5 DEF SlotsInv
<1> QED BY <1>1, <1>2

LEMMA SlotsAcquire ==
  ASSUME SlotsInv, MetadataAcquire
  PROVE  SlotsInv'
<1>1. text = 0 /\ events' = events
  BY DEF MetadataAcquire, CallbackIdle
<1>2. PICK s \in (1..TextSlots) \ used : used' = used \cup {s} /\ text' = s
  BY DEF MetadataAcquire
<1>3. s # 0
  BY SpeakerAssumption
<1>4. \A i, t : Holds(i, t)' <=> Holds(i, t)
  BY <1>1 DEF Holds
<1>5. \A i \in DOMAIN events : ~Holds(i, s)
  BY <1>2 DEF SlotsInv, Holds
<1>6. \A i, t : Holds(i, t) => t # s
  BY <1>5 DEF Holds
<1>7. \A t \in used : t # text
  BY <1>1, SpeakerAssumption DEF SlotsInv
<1> QED BY <1>1, <1>2, <1>3, <1>4, <1>5, <1>6, <1>7 DEF SlotsInv

(* The slot passes from the callback to the event, or back to the free     *)
(* ones when the queue is full.                                            *)
LEMMA SlotsPost ==
  ASSUME SlotsInv, MetadataPost
  PROVE  SlotsInv'
<1> DEFINE e == [kind |-> "METADATA", payload |-> text]
           n == Len(events)
<1>1. text # 0 /\ text' = 0 /\ text \in used
  BY DEF MetadataPost, SlotsInv
<1>2. \A s \in used : s # 0
  BY SpeakerAssumption DEF SlotsInv
<1>3. CASE Len(events) < EventSlots
  <2>1. events' = Append(events, e) /\ used' = used
    BY <1>3 DEF MetadataPost, Post
  <2>2. e.kind = "METADATA" /\ e.payload = text
    OBVIOUS
  <2> HIDE DEF e
  <2>3. /\ events' \in Seq({events'[i] : i \in DOMAIN events'})
        /\ n \in Nat /\ DOMAIN events = 1..n /\ DOMAIN events' = 1..(n + 1)
        /\ \A i \in 1..n : events'[i] = events[i]
        /\ events'[n + 1] = e
    BY <2>1, Appended DEF SlotsInv
  <2> HIDE DEF n
  <2>4. \A i, s : Holds(i, s)' <=> Holds(i, s) \/ (i = n + 1 /\ s = text)
    <3> TAKE i, s
    <3>1. CASE i \in 1..n
      BY <2>3, <3>1 DEF Holds
    <3>2. CASE i = n + 1
      BY <2>2, <2>3, <3>2 DEF Holds
    <3>3. CASE i \notin 1..(n + 1)
      BY <2>3, <3>3 DEF Holds
    <3> QED BY <2>3, <3>1, <3>2, <3>3
  <2>5. \A i, s : Holds(i, s) => i \in DOMAIN events /\ s # text
    BY DEF Holds, SlotsInv
  <2>6. \A i, s : Holds(i, s)' => s \in used
    BY SMTT(30), <1>1, <2>4 DEF SlotsInv, Holds
  <2>7. \A i \in DOMAIN events' : events'[i].kind = "METADATA" => events'[i].payload \in used'
    BY <2>1, <2>6 DEF Holds
  <2>8. \A i \in DOMAIN events' : ~Holds(i, text)'
    BY <1>1, <1>2, <2>6 DEF Holds
  <2>9. \A i, j \in DOMAIN events', s \in used' : Holds(i, s)' /\ Holds(j, s)' => i = j
    BY <2>1, <2>4, <2>5 DEF SlotsInv
  <2>10. \A s \in used' : \E i \in DOMAIN events' : Holds(i, s)'
    <3> SUFFICES ASSUME NEW s \in used PROVE \E i \in DOMAIN events' : Holds(i, s)'
      BY <2>1
    <3>1. CASE s = text
      BY <2>3, <2>4, <3>1
    <3>2. CASE s # text
      <4>1. PICK i \in DOMAIN events : Holds(i, s)
        BY <3>2 DEF SlotsInv
      <4>2. Holds(i, s)' /\ i \in DOMAIN events'
        BY <2>3, <2>4, <4>1
      <4> QED BY <4>2
    <3> QED BY <3>1, <3>2
  <2> QED BY <1>1, <2>1, <2>3, <2>7, <2>8, <2>9, <2>10 DEF SlotsInv
<1>4. CASE ~(Len(events) < EventSlots)
  <2>1. events' = events /\ used' = used \ {text}
    BY <1>4 DEF MetadataPost, Post
  <2>2. \A i, s : Holds(i, s)' <=> Holds(i, s)
    BY <2>1 DEF Holds
  <2>3. \A i, s : Holds(i, s) => i \in DOMAIN events /\ s # text /\ s \in used
    BY DEF Holds, SlotsInv
  <2>4. \A i \in DOMAIN events : events[i].kind = "METADATA" => events[i].payload \in used'
    BY <2>1, <2>3 DEF Holds
  <2>5. \A i \in DOMAIN events' : ~Holds(i, text)'
    BY <1>1, <1>2, <2>2, <2>3 DEF Holds
  <2> QED BY <1>1, <2>1, <2>2, <2>3, <2>4, <2>5 DEF SlotsInv
<1> QED BY <1>3, <1>4

(* The control task takes an event; a metadata event frees its slot. *)
LEMMA SlotsControl ==
  ASSUME SlotsInv, ControlEvent
  PROVE  SlotsInv'
<1> DEFINE e == Head(events)
           n == Len(events)
<1>1. /\ events # <<>> /\ events' = Tail(events) /\ text' = text
      /\ used' = IF e.kind = "METADATA" THEN used \ {e.payload} ELSE used
  BY DEF ControlEvent
<1>2. /\ events' \in Seq({events'[i] : i \in DOMAIN events'})
      /\ n \in Nat \ {0} /\ DOMAIN events = 1..n /\ DOMAIN events' = 1..(n - 1)
      /\ \A i \in 1..(n - 1) : events'[i] = events[i + 1]
      /\ e = events[1]
  BY <1>1, Removed DEF SlotsInv
<1> HIDE DEF e, n
<1>3. \A i \in 1..(n - 1) : \A s : Holds(i, s)' <=> Holds(i + 1, s)
  BY <1>2 DEF Holds
<1>4. \A i \in 1..(n - 1) : i + 1 \in DOMAIN events /\ i + 1 # 1
  BY <1>2
<1>5. \A i, s : Holds(i, s) => i \in DOMAIN events /\ s # text /\ s \in used
  BY DEF Holds, SlotsInv
<1>6. \A i \in DOMAIN events' : \A s : Holds(i, s)' => s \in used'
  <2> SUFFICES ASSUME NEW i \in 1..(n - 1), NEW s, Holds(i + 1, s) PROVE s \in used'
    BY <1>2, <1>3
  <2>1. s \in used
    BY <1>5
  <2>2. ASSUME e.kind = "METADATA" PROVE e.payload # s
    <3>1. Holds(1, e.payload) /\ 1 \in DOMAIN events
      BY <1>2, <2>2 DEF Holds
    <3> QED BY <1>4, <2>1, <3>1 DEF SlotsInv
  <2> QED BY <1>1, <2>1, <2>2
<1>7. \A i \in DOMAIN events' : events'[i].kind = "METADATA" => events'[i].payload \in used'
  BY <1>6 DEF Holds
<1>8. \A i \in DOMAIN events' : ~Holds(i, text)'
  BY <1>1, <1>2, <1>3, <1>5
<1>9. \A i, j \in DOMAIN events', s \in used' : Holds(i, s)' /\ Holds(j, s)' => i = j
  <2> TAKE i, j \in DOMAIN events', s \in used'
  <2> HAVE Holds(i, s)' /\ Holds(j, s)'
  <2>1. i \in 1..(n - 1) /\ j \in 1..(n - 1)
    BY <1>2
  <2>2. Holds(i + 1, s) /\ Holds(j + 1, s)
    BY <1>3, <2>1
  <2>3. i + 1 = j + 1
    BY <1>5, <2>2 DEF SlotsInv
  <2> QED BY <1>2, <2>1, <2>3
<1>10. \A s \in used' : s = text' \/ \E i \in DOMAIN events' : Holds(i, s)'
  <2> SUFFICES ASSUME NEW s \in used', s # text PROVE \E i \in DOMAIN events' : Holds(i, s)'
    BY <1>1
  <2>1. PICK j \in 1..n : Holds(j, s)
    BY <1>1, <1>2 DEF SlotsInv
  <2>2. j # 1
    BY <1>1, <1>2, <2>1 DEF Holds
  <2>3. j - 1 \in 1..(n - 1) /\ (j - 1) + 1 = j
    BY <1>2, <2>1, <2>2
  <2>4. Holds(j - 1, s)'
    BY <1>3, <2>1, <2>3
  <2> QED BY <1>2, <2>3, <2>4
<1>11. used' \subseteq 1..TextSlots /\ (text' # 0 => text' \in used')
  <2>1. e.kind = "METADATA" => Holds(1, e.payload)
    BY <1>2 DEF Holds
  <2> QED BY <1>1, <1>5, <2>1 DEF SlotsInv
<1> QED BY <1>2, <1>7, <1>8, <1>9, <1>10, <1>11 DEF SlotsInv

LEMMA SlotsNext == SlotsInv /\ [Next]_vars => SlotsInv'
<1> SUFFICES ASSUME SlotsInv, [Next]_vars PROVE SlotsInv'
  OBVIOUS
<1>1. ASSUME UNCHANGED queueVars PROVE SlotsInv'
  BY <1>1 DEF queueVars, SlotsInv, Holds
<1>2. CASE Callback
  <2>1. CASE Sound \/ Connecting \/ Connected \/ Disconnected
    BY <1>1, <2>1 DEF Sound, Connecting, Connected, Disconnected, controlVars
  <2>2. CASE Notification
    <3>1. PICK kind \in {"INFO", "VOLUME"} : Post(Event(kind))
      BY <2>2 DEF Notification
    <3>2. UNCHANGED <<used, text>> /\ Event(kind).kind # "METADATA"
      BY <2>2, <3>1 DEF Notification, Event
    <3> QED BY <3>1, <3>2, SlotsPlain DEF Post
  <2>3. ASSUME NEW ok \in BOOLEAN, Authenticated(ok) PROVE SlotsInv'
    <3> DEFINE e == [kind |-> IF ok THEN "INFO" ELSE "REFUSED", payload |-> peer]
    <3>1. UNCHANGED <<used, text>> /\ Post(e)
      BY <2>3 DEF Authenticated
    <3>2. e.kind # "METADATA"
      OBVIOUS
    <3> HIDE DEF e
    <3> QED BY <3>1, <3>2, SlotsPlain DEF Post
  <2>4. ASSUME NEW ok \in BOOLEAN, BondRemoved(ok) PROVE SlotsInv'
    <3>1. UNCHANGED <<used, text>> /\ Post(Event("INFO"))
      BY <2>4 DEF BondRemoved
    <3>2. Event("INFO").kind # "METADATA"
      BY DEF Event
    <3> QED BY <3>1, <3>2, SlotsPlain DEF Post
  <2> QED BY <1>2, <2>1, <2>2, <2>3, <2>4, SlotsAcquire, SlotsPost DEF Callback
<1>3. CASE speaker_command
  <2>1. PICK c \in {"VOLUME", "PAIR", "DISCONNECT", "FORGET"} :
          events' = Append(events, Event(c))
    BY <1>3 DEF speaker_command
  <2>2. UNCHANGED <<used, text>> /\ Event(c).kind # "METADATA"
    BY <1>3, <2>1 DEF speaker_command, Event
  <2> QED BY <2>1, <2>2, SlotsPlain
<1>4. CASE ControlTimeout \/ TickLink \/ Time \/ Worker \/ Player \/ UNCHANGED vars
  BY <1>1, <1>4 DEF ControlTimeout, TickLink, Time, Worker, Player, controlVars, vars
<1>5. CASE TickRest
  <2>1. UNCHANGED <<events, used, text>>
    BY <1>5 DEF TickRest
  <2> QED BY <2>1 DEF SlotsInv, Holds
<1> QED BY <1>2, <1>3, <1>4, <1>5, SlotsControl DEF Next, Control

LEMMA SlotsInit == Init => SlotsInv
<1> SUFFICES ASSUME Init PROVE SlotsInv
  OBVIOUS
<1>1. events = <<>> /\ used = {} /\ text = 0
  BY DEF Init
<1>2. DOMAIN events = {} /\ events \in Seq({})
  BY <1>1
<1>3. {events[i] : i \in DOMAIN events} = {}
  BY <1>2
<1> QED BY <1>1, <1>2, <1>3 DEF SlotsInv, Holds

(* One owner for every slot in use, and none for a free one. *)
LEMMA SlotsCount == SlotsInv => SlotsOwned
<1> DEFINE owners(s) ==
      {i \in DOMAIN events : events[i].kind = "METADATA" /\ events[i].payload = s}
<1> SUFFICES ASSUME SlotsInv, NEW s \in 1..TextSlots
    PROVE Cardinality(owners(s)) + (IF text = s THEN 1 ELSE 0) = (IF s \in used THEN 1 ELSE 0)
  BY DEF SlotsOwned
<1>1. \A i : i \in owners(s) <=> Holds(i, s)
  BY DEF Holds
<1>2. s # 0
  BY SpeakerAssumption
<1> HIDE DEF owners
<1>3. CASE owners(s) = {}
  <2>1. Cardinality(owners(s)) = 0
    BY <1>3, FS_EmptySet
  <2>2. (text = s) <=> (s \in used)
    BY <1>1, <1>2, <1>3 DEF SlotsInv
  <2> QED BY <2>1, <2>2
<1>4. CASE owners(s) # {}
  <2>1. PICK i : i \in owners(s)
    BY <1>4
  <2>2. Holds(i, s) /\ i \in DOMAIN events /\ s \in used /\ text # s
    BY <1>1, <2>1 DEF SlotsInv, Holds
  <2>3. owners(s) = {i}
    BY <1>1, <2>1, <2>2 DEF SlotsInv, Holds
  <2>4. Cardinality(owners(s)) = 1
    BY <2>3, FS_Singleton
  <2> QED BY <2>2, <2>4
<1> QED BY <1>3, <1>4

(* ct_cb, speaker_post and control_task: every text slot in use has one    *)
(* owner, for every number of slots and every length of the event queue.   *)
THEOREM SpeakerSlots == Spec => []SlotsOwned
  BY SlotsInit, SlotsNext, SlotsCount, PTL DEF Spec
----------------------------------------------------------------------------
(* The decoded sound on its way to the output. *)

Run(b, n) == [i \in 1..n |-> b + i]

LEMMA RunIs ==
  ASSUME NEW b \in Nat, NEW n \in Nat
  PROVE  Run(b, n) \in Seq(Nat) /\ Len(Run(b, n)) = n /\ \A i \in 1..n : Run(b, n)[i] = b + i
  BY DEF Run

(* A sequence with n frames after b behind it. *)
Grows(q, r, b, n) ==
  /\ r \in Seq(Nat) /\ Len(r) = Len(q) + n
  /\ \A i \in 1..Len(q) : r[i] = q[i]
  /\ \A i \in 1..n : r[Len(q) + i] = b + i

LEMMA Grown ==
  ASSUME NEW q \in Seq(Nat), NEW b \in Nat, NEW n \in Nat
  PROVE  Grows(q, q \o Run(b, n), b, n)
<1>1. \A s \in Seq(Nat) :
        /\ q \o s \in Seq(Nat) /\ Len(q \o s) = Len(q) + Len(s)
        /\ \A i \in 1..Len(q) : (q \o s)[i] = q[i]
        /\ \A i \in 1..Len(s) : (q \o s)[Len(q) + i] = s[i]
  OBVIOUS
<1> DEFINE s == Run(b, n)
<1>2. /\ s \in Seq(Nat) /\ Len(s) = n
      /\ \A i \in 1..n : s[i] = b + i
  BY RunIs
<1> HIDE DEF s
<1>3. Grows(q, q \o s, b, n)
  BY <1>1, <1>2 DEF Grows
<1> QED BY <1>3 DEF s

LEMMA Neighbour ==
  ASSUME NEW x \in Nat PROVE NextOf(x, x + 1)
  BY DEF NextOf

LEMMA EmptyQueue ==
  ASSUME NEW q \in Seq(Nat)
  PROVE  Len(q) \in Nat /\ (q = <<>> <=> Len(q) = 0)
  OBVIOUS

LEMMA SizesOK ==
  /\ PcmFrames \in Nat \ {0} /\ ReservoirFrames \in Nat /\ BlockFrames \in Nat \ {0}
<1>1. PcmFrames \in Nat \ {0} /\ ReservoirFrames \in Nat
  BY MediaAssumption
<1>2. BlockFrames \in 1..(ReservoirFrames \div 2)
  BY MediaAssumption
<1> QED BY <1>1, <1>2

LEMMA SendingIs ==
  ASSUME PcmTypeOK
  PROVE  /\ Sending \in Nat \ {0} /\ pending - sent \in Nat
         /\ Sending - 1 = decoded - pending + sent
         /\ pending = sent => Sending = decoded + 1
  BY DEF PcmTypeOK, Sending

LEMMA UnsentIs ==
  ASSUME PcmTypeOK
  PROVE  Unsent = Run(Sending - 1, pending - sent)
<1>1. /\ decoded \in Nat /\ pending \in Nat /\ sent \in Nat
  BY DEF PcmTypeOK
<1>2. \A i \in 1..(pending - sent) : decoded - pending + sent + i = Sending - 1 + i
  BY <1>1, SendingIs
<1> QED BY <1>2 DEF Unsent, Run

(* The worker hands the next n frames to the reservoir. *)
LEMMA PcmGrow ==
  ASSUME PcmInv, PcmTypeOK', NEW n \in Nat, UNCHANGED <<heard, discarded>>,
         Grows(queue, queue', Sending - 1, n), Sending' = Sending + n
  PROVE  PcmInv'
<1> DEFINE L == Len(queue)
           b == Sending - 1
<1>1. queue \in Seq(Nat) /\ L \in Nat /\ (queue = <<>> <=> L = 0)
  BY EmptyQueue DEF PcmInv, PcmTypeOK
<1>2. b \in Nat /\ Sending = b + 1
  BY SendingIs DEF PcmInv
<1>3. /\ queue' \in Seq(Nat) /\ Len(queue') = L + n
      /\ \A i \in 1..L : queue'[i] = queue[i]
      /\ \A i \in 1..n : queue'[L + i] = b + i
  BY DEF Grows
<1>4. queue' = <<>> <=> L + n = 0
  BY <1>3, EmptyQueue
<1>6. Sending' = b + n + 1
  BY <1>1, <1>2
<1>7. /\ \A i \in 1..(L - 1) : NextOf(queue[i], queue[i + 1])
      /\ NextOf(heard, IF queue = <<>> THEN b + 1 ELSE queue[1])
      /\ queue # <<>> => NextOf(queue[L], b + 1)
  BY <1>2 DEF PcmInv
<1> HIDE DEF L, b
<1>8. ASSUME NEW i \in 1..(L + n - 1) PROVE NextOf(queue'[i], queue'[i + 1])
  <2>1. CASE i < L
    <3>1. i \in 1..(L - 1) /\ i \in 1..L /\ i + 1 \in 1..L
      BY <1>1, <2>1
    <3> QED BY <1>3, <1>7, <3>1
  <2>2. CASE i = L
    <3>1. i \in 1..L /\ 1 \in 1..n /\ queue # <<>>
      BY <1>1, <2>2
    <3> QED BY <1>3, <1>7, <2>2, <3>1
  <2>3. CASE i > L
    <3> DEFINE k == i - L
    <3>1. k \in 1..n /\ k + 1 \in 1..n /\ i = L + k /\ i + 1 = L + (k + 1)
      BY <1>1, <2>3
    <3> HIDE DEF k
    <3>2. queue'[i] = b + k /\ queue'[i + 1] = b + (k + 1)
      BY <1>3, <3>1
    <3>3. b + k \in Nat /\ b + (k + 1) = (b + k) + 1
      BY <1>2, <3>1
    <3>4. NextOf(b + k, (b + k) + 1)
      BY <3>3, Neighbour
    <3> QED BY <3>2, <3>3, <3>4
  <2> QED BY <1>1, <2>1, <2>2, <2>3
<1>9. NextOf(heard, IF queue' = <<>> THEN Sending' ELSE queue'[1])
  <2>1. CASE L # 0
    <3>1. 1 \in 1..L /\ queue' # <<>> /\ queue # <<>>
      BY <1>1, <1>4, <2>1
    <3> QED BY <1>3, <1>7, <3>1
  <2>2. CASE L = 0 /\ n # 0
    <3>1. 1 \in 1..n /\ queue' # <<>> /\ queue = <<>> /\ L + 1 = 1
      BY <1>1, <1>4, <2>2
    <3>2. queue'[1] = b + 1
      BY <1>3, <3>1
    <3> QED BY <1>7, <3>1, <3>2
  <2>3. CASE L = 0 /\ n = 0
    <3>1. queue' = <<>> /\ queue = <<>> /\ Sending' = b + 1
      BY <1>1, <1>2, <1>4, <1>6, <2>3
    <3> QED BY <1>7, <3>1
  <2> QED BY <2>1, <2>2, <2>3
<1>10. ASSUME queue' # <<>> PROVE NextOf(queue'[Len(queue')], Sending')
  <2>1. CASE n # 0
    <3>1. n \in 1..n /\ Len(queue') = L + n
      BY <1>3, <2>1
    <3>2. b + n \in Nat /\ Sending' = (b + n) + 1
      BY <1>2, <1>6
    <3> QED BY <1>3, <3>1, <3>2, Neighbour
  <2>2. CASE n = 0
    <3>1. L # 0 /\ L \in 1..L /\ Len(queue') = L /\ queue # <<>> /\ Sending' = b + 1
      BY <1>1, <1>2, <1>3, <1>4, <1>6, <1>10, <2>2
    <3> QED BY <1>3, <1>7, <3>1
  <2> QED BY <2>1, <2>2
<1>11. \A i \in 1..(Len(queue') - 1) : NextOf(queue'[i], queue'[i + 1])
  <2>1. Len(queue') - 1 = L + n - 1
    BY <1>1, <1>3
  <2> QED BY <1>8, <2>1, Zenon
<1> QED BY <1>9, <1>10, <1>11 DEF PcmInv, NextOf

(* What leaves the sound between codec and output alone. *)
LEMMA PcmKept ==
  ASSUME PcmInv, UNCHANGED <<pending, sent, decoded, discarded, heard, queue>>,
         dpc' = "next" => dpc = "next"
  PROVE  PcmInv'
  BY DEF PcmInv, PcmTypeOK, Sending, NextOf

(* The reservoir takes what the worker kept of the last frame, or a part   *)
(* of it.                                                                  *)
LEMMA PcmFlush ==
  ASSUME PcmInv, StepFlush
  PROVE  PcmInv'
<1> DEFINE n == Taken(pending - sent)
           u == pending - sent
<1>1. PcmTypeOK /\ queue \in Seq(Nat) /\ Len(queue) \in Nat /\ Len(queue) <= ReservoirFrames
  BY EmptyQueue DEF PcmInv, PcmTypeOK
<1>2. /\ decoded \in Nat /\ pending \in 0..decoded /\ sent \in 0..pending
      /\ u \in Nat /\ Sending - 1 \in Nat /\ Sending \in Nat
  BY <1>1, SendingIs DEF PcmTypeOK
<1>3. n \in 0..u /\ Len(queue) + n <= ReservoirFrames
  BY <1>1, <1>2, SizesOK DEF Taken
<1>4. UNCHANGED <<decoded, discarded, heard>>
  BY DEF StepFlush
<1>5. \/ sent + n < pending /\ sent' = sent + n /\ dpc' = "check" /\ pending' = pending
      \/ ~(sent + n < pending) /\ pending' = 0 /\ sent' = 0 /\ dpc' = "next"
  BY DEF StepFlush
<1>6. queue' = queue \o SubSeq(Unsent, 1, n)
  BY DEF StepFlush, Fifo!Write
<1>7. SubSeq(Unsent, 1, n) = Run(Sending - 1, n)
  <2> DEFINE b == Sending - 1
  <2>1. Unsent = Run(b, u)
    BY <1>1, UnsentIs
  <2> HIDE DEF b, n, u
  <2>2. b \in Nat
    BY <1>2 DEF b
  <2>3. SubSeq(Run(b, u), 1, n) = Run(b, n)
    BY <1>2, <1>3, <2>2 DEF Run
  <2> QED BY <2>1, <2>3 DEF b
<1>8. Grows(queue, queue', Sending - 1, n)
  <2> DEFINE b == Sending - 1
  <2>1. b \in Nat /\ n \in Nat /\ queue' = queue \o Run(b, n)
    BY <1>2, <1>3, <1>6, <1>7
  <2> HIDE DEF b, n
  <2>2. Grows(queue, queue \o Run(b, n), b, n)
    BY <1>1, <2>1, Grown
  <2> QED BY <2>1, <2>2 DEF b
<1> HIDE DEF n
<1>9. Sending' = Sending + n
  <2>1. CASE sent + n < pending
    BY <1>2, <1>3, <1>4, <1>5, <2>1 DEF Sending
  <2>2. CASE ~(sent + n < pending)
    <3>1. n = pending - sent
      BY <1>2, <1>3, <2>2
    <3> QED BY <1>2, <1>4, <1>5, <2>2, <3>1 DEF Sending
  <2> QED BY <2>1, <2>2
<1>10. queue' \in Seq(Nat) /\ Len(queue') = Len(queue) + n
  BY <1>8 DEF Grows
<1>11. pending' \in 0..decoded /\ sent' \in 0..pending' /\ (dpc' = "next" => pending' = 0)
  BY <1>2, <1>3, <1>5
<1>12. PcmTypeOK'
  BY <1>1, <1>2, <1>3, <1>4, <1>10, <1>11 DEF PcmTypeOK
<1>13. n \in Nat
  BY <1>2, <1>3
<1> QED BY <1>4, <1>8, <1>9, <1>12, <1>13, PcmGrow

(* A frame is decoded; the reservoir takes all or a part of it. *)
LEMMA PcmFrame ==
  ASSUME PcmInv, StepFrame
  PROVE  PcmInv'
<1> DEFINE n == Taken(PcmFrames)
<1>1. /\ PcmTypeOK /\ queue \in Seq(Nat) /\ Len(queue) \in Nat
      /\ Len(queue) <= ReservoirFrames /\ decoded \in Nat
  BY EmptyQueue DEF PcmInv, PcmTypeOK
<1>2. n \in 0..PcmFrames /\ Len(queue) + n <= ReservoirFrames
  BY <1>1, SizesOK DEF Taken
<1>3. /\ dpc = "next" /\ dpc' = "check" /\ UNCHANGED <<discarded, heard>>
      /\ decoded' = decoded + PcmFrames /\ pending' = PcmFrames /\ sent' = n
  BY DEF StepFrame
<1>4. queue' = queue \o [i \in 1..n |-> decoded + i]
  BY DEF StepFrame, Fifo!Write
<1>5. pending = 0 /\ sent = 0 /\ Sending = decoded + 1 /\ Sending - 1 = decoded
  BY <1>1, <1>3 DEF PcmTypeOK, Sending
<1> HIDE DEF n
<1>6. n \in Nat
  BY <1>2, SizesOK
<1>7. Grows(queue, queue', decoded, n)
  <2>1. Grows(queue, queue \o Run(decoded, n), decoded, n)
    BY <1>1, <1>6, Grown
  <2>2. queue' = queue \o Run(decoded, n)
    BY <1>4 DEF Run
  <2> QED BY <2>1, <2>2
<1>8. queue' \in Seq(Nat) /\ Len(queue') = Len(queue) + n
  BY <1>7 DEF Grows
<1>9. Sending' = Sending + n
  BY <1>1, <1>3, <1>5, <1>6, SizesOK DEF Sending
<1>10. /\ decoded' \in Nat /\ pending' \in 0..decoded' /\ sent' \in 0..pending'
       /\ dpc' # "next"
  BY <1>1, <1>2, <1>3, SizesOK
<1>11. heard' \in Nat /\ discarded' \subseteq Nat /\ Len(queue') <= ReservoirFrames
  BY <1>1, <1>2, <1>3, <1>8 DEF PcmTypeOK
<1>12. PcmTypeOK'
  BY <1>8, <1>10, <1>11 DEF PcmTypeOK
<1>13. Grows(queue, queue', Sending - 1, n)
  BY <1>5, <1>7
<1> QED BY <1>3, <1>6, <1>9, <1>12, <1>13, PcmGrow

(* The reset after a disconnection: what was not sent is discarded. *)
LEMMA PcmReset ==
  ASSUME PcmInv, eaf_bt_decoder_reset, UNCHANGED <<heard, queue>>
  PROVE  PcmInv'
<1>1. /\ PcmTypeOK /\ decoded \in Nat /\ pending \in 0..decoded /\ sent \in 0..pending
      /\ Sending \in Nat \ {0} /\ pending - sent \in Nat
      /\ queue \in Seq(Nat) /\ Len(queue) \in Nat
  BY SendingIs, EmptyQueue DEF PcmInv, PcmTypeOK
<1>2. pending' = 0 /\ sent' = 0 /\ decoded' = decoded
  BY DEF eaf_bt_decoder_reset
<1>3. Sending <= decoded + 1 /\ Sending' = decoded + 1
  BY <1>1, <1>2 DEF Sending
<1>4. {Unsent[i] : i \in DOMAIN Unsent} = Sending..decoded
  <2>1. DOMAIN Unsent = 1..(pending - sent)
    BY DEF Unsent
  <2>2. \A i \in 1..(pending - sent) : Unsent[i] = Sending - 1 + i /\ Unsent[i] \in Sending..decoded
    BY <1>1 DEF Unsent, Sending
  <2>3. \A x \in Sending..decoded : \E i \in 1..(pending - sent) : x = Sending - 1 + i
    <3> TAKE x \in Sending..decoded
    <3> DEFINE i == x + 1 - Sending
    <3>1. i \in 1..(pending - sent) /\ x = Sending - 1 + i
      BY <1>1 DEF Sending
    <3> QED BY <3>1
  <2> QED BY <2>1, <2>2, <2>3
<1>5. discarded' = discarded \cup Sending..decoded
  BY <1>4 DEF eaf_bt_decoder_reset
<1>6. ASSUME NEW a \in Nat, NEW b \in Nat, NextOf(a, b) PROVE NextOf(a, b)'
  BY <1>5, <1>6 DEF NextOf
<1>7. ASSUME NEW a \in Nat, NextOf(a, Sending)
      PROVE  a < decoded + 1 /\ (a + 1)..((decoded + 1) - 1) \subseteq discarded'
  BY <1>1, <1>3, <1>5, <1>7 DEF NextOf
<1>8. \A i \in 1..Len(queue) : queue[i] \in Nat
  BY <1>1
<1>9. PcmTypeOK'
  BY <1>1, <1>2, <1>5 DEF PcmTypeOK
<1>10. \A i \in 1..(Len(queue) - 1) : NextOf(queue[i], queue[i + 1])'
  <2> TAKE i \in 1..(Len(queue) - 1)
  <2>1. i \in 1..Len(queue) /\ i + 1 \in 1..Len(queue)
    BY <1>1
  <2>2. NextOf(queue[i], queue[i + 1])
    BY DEF PcmInv
  <2> QED BY <1>5, <1>8, <2>1, <2>2 DEF NextOf
<1>11. queue = <<>> => NextOf(heard, Sending)'
  <2> HAVE queue = <<>>
  <2>1. NextOf(heard, Sending) /\ heard \in Nat
    BY <1>1 DEF PcmInv, PcmTypeOK
  <2> QED BY <1>3, <1>7, <2>1 DEF NextOf
<1>12. queue # <<>> => NextOf(heard, queue[1])' /\ NextOf(queue[Len(queue)], Sending)'
  <2> HAVE queue # <<>>
  <2>1. heard \in Nat /\ 1 \in 1..Len(queue) /\ Len(queue) \in 1..Len(queue)
    BY <1>1, EmptyQueue DEF PcmTypeOK
  <2>2. NextOf(heard, queue[1]) /\ NextOf(queue[Len(queue)], Sending)
    BY DEF PcmInv
  <2>3. NextOf(heard, queue[1])'
    BY <1>5, <2>2 DEF NextOf
  <2>4. NextOf(queue[Len(queue)], Sending)'
    BY <1>3, <1>7, <1>8, <2>1, <2>2 DEF NextOf
  <2> QED BY <2>3, <2>4
<1> QED BY <1>9, <1>10, <1>11, <1>12 DEF PcmInv, NextOf

(* The output takes the first k frames of the reservoir. *)
LEMMA PcmPulled ==
  ASSUME NEW q \in Seq(Nat), NEW k \in 0..Len(q)
  PROVE  /\ SubSeq(q, k + 1, Len(q)) \in Seq(Nat)
         /\ Len(SubSeq(q, k + 1, Len(q))) = Len(q) - k
         /\ \A i \in 1..(Len(q) - k) : SubSeq(q, k + 1, Len(q))[i] = q[k + i]
         /\ SubSeq(q, 1, k) \in Seq(Nat) /\ Len(SubSeq(q, 1, k)) = k
         /\ k # 0 => SubSeq(q, 1, k)[k] = q[k]
  OBVIOUS

LEMMA PullTakes ==
  ASSUME PcmInv, Output
  PROVE  \E k \in 0..Len(queue) :
           /\ queue' \in Seq(Nat) /\ Len(queue') = Len(queue) - k
           /\ \A i \in 1..(Len(queue) - k) : queue'[i] = queue[k + i]
           /\ heard' = IF k = 0 THEN heard ELSE queue[k]
<1>1. queue \in Seq(Nat) /\ Len(queue) \in Nat
  BY EmptyQueue DEF PcmInv, PcmTypeOK
<1>2. heard' = IF out' = <<>> THEN heard ELSE out'[Len(out')]
  BY DEF Output
<1>3. BlockFrames \in Nat
  BY SizesOK
<1>4. ASSUME NEW k \in 0..Len(queue), Fifo!Deliver(k)
      PROVE  /\ queue' \in Seq(Nat) /\ Len(queue') = Len(queue) - k
             /\ \A i \in 1..(Len(queue) - k) : queue'[i] = queue[k + i]
             /\ heard' = IF k = 0 THEN heard ELSE queue[k]
  <2>1. out' = SubSeq(queue, 1, k) /\ queue' = SubSeq(queue, k + 1, Len(queue))
    BY <1>4 DEF Fifo!Deliver
  <2>2. /\ queue' \in Seq(Nat) /\ Len(queue') = Len(queue) - k
        /\ \A i \in 1..(Len(queue) - k) : queue'[i] = queue[k + i]
    BY <1>1, <2>1, PcmPulled
  <2>3. out' \in Seq(Nat) /\ Len(out') = k /\ (k # 0 => out'[k] = queue[k])
    BY <1>1, <2>1, PcmPulled
  <2>4. out' = <<>> <=> k = 0
    BY <2>3, EmptyQueue
  <2> QED BY <1>2, <2>2, <2>3, <2>4
<1>5. ASSUME queue' = queue, out' = <<>>
      PROVE  /\ queue' \in Seq(Nat) /\ Len(queue') = Len(queue) - 0
             /\ \A i \in 1..(Len(queue) - 0) : queue'[i] = queue[0 + i]
             /\ heard' = heard
  BY <1>1, <1>2, <1>5
<1>6. 0 \in 0..Len(queue) /\ Len(queue) \in 0..Len(queue)
  BY <1>1
<1>7. CASE Fifo!PullFinished(BlockFrames)
  <2>1. PICK k \in 0..BlockFrames : k <= Len(queue) /\ Fifo!Deliver(k)
    BY <1>7 DEF Fifo!PullFinished
  <2>2. k \in 0..Len(queue)
    BY <1>1, <1>3, <2>1
  <2> QED BY <1>4, <2>1, <2>2
<1>8. CASE Fifo!PullFull(BlockFrames)
  <2>1. BlockFrames \in 0..Len(queue) /\ Fifo!Deliver(BlockFrames)
    BY <1>1, <1>3, <1>8 DEF Fifo!PullFull
  <2> QED BY <1>4, <2>1
<1>9. CASE Fifo!PullShort(BlockFrames)
  <2>1. Fifo!Deliver(Len(queue))
    BY <1>9 DEF Fifo!PullShort
  <2> QED BY <1>4, <1>6, <2>1
<1>10. CASE Fifo!PullSilence(BlockFrames)
  <2>1. queue' = queue /\ out' = <<>>
    BY <1>10 DEF Fifo!PullSilence
  <2> QED BY <1>5, <1>6, <2>1
<1> QED BY <1>7, <1>8, <1>9, <1>10 DEF Output, Fifo!Pull

LEMMA PcmPull ==
  ASSUME PcmInv, Output
  PROVE  PcmInv'
<1> DEFINE L == Len(queue)
<1>1. /\ PcmTypeOK /\ queue \in Seq(Nat) /\ L \in Nat /\ (queue = <<>> <=> L = 0)
      /\ L <= ReservoirFrames
  BY EmptyQueue DEF PcmInv, PcmTypeOK
<1>2. PICK k \in 0..L :
           /\ queue' \in Seq(Nat) /\ Len(queue') = L - k
           /\ \A i \in 1..(L - k) : queue'[i] = queue[k + i]
           /\ heard' = IF k = 0 THEN heard ELSE queue[k]
  BY PullTakes
<1>3. UNCHANGED <<pending, sent, decoded, discarded, dpc>>
  BY DEF Output, decoderVars, workerVars
<1>4. Sending' = Sending
  BY <1>3 DEF Sending
<1>5. queue' = <<>> <=> k = L
  BY <1>1, <1>2, EmptyQueue
<1>6. /\ \A i \in 1..(L - 1) : NextOf(queue[i], queue[i + 1])
      /\ NextOf(heard, IF queue = <<>> THEN Sending ELSE queue[1])
      /\ queue # <<>> => NextOf(queue[L], Sending)
  BY DEF PcmInv
<1>7. \A i \in 1..L : queue[i] \in Nat
  BY <1>1
<1> HIDE DEF L
<1>8. PcmTypeOK'
  <2>1. heard' \in Nat
    BY <1>1, <1>2, <1>7 DEF PcmTypeOK
  <2>2. Len(queue') <= ReservoirFrames
    BY <1>1, <1>2, SizesOK
  <2> QED BY <1>1, <1>2, <1>3, <2>1, <2>2 DEF PcmTypeOK
<1>9. ASSUME NEW i \in 1..(Len(queue') - 1) PROVE NextOf(queue'[i], queue'[i + 1])
  <2>1. /\ i \in 1..(L - k) /\ i + 1 \in 1..(L - k)
        /\ k + i \in 1..(L - 1) /\ k + (i + 1) = (k + i) + 1
    BY <1>1, <1>2
  <2>2. queue'[i] = queue[k + i] /\ queue'[i + 1] = queue[(k + i) + 1]
    BY SMTT(30), <1>2, <2>1
  <2> QED BY <1>6, <2>1, <2>2
<1>10. NextOf(heard', IF queue' = <<>> THEN Sending ELSE queue'[1])
  <2>1. CASE k = L
    <3>1. CASE L = 0
      BY <1>1, <1>2, <1>5, <1>6, <2>1, <3>1
    <3>2. CASE L # 0
      BY <1>1, <1>2, <1>5, <1>6, <2>1, <3>2
    <3> QED BY <3>1, <3>2
  <2>2. CASE k # L
    <3>1. 1 \in 1..(L - k) /\ queue'[1] = queue[k + 1] /\ queue' # <<>> /\ queue # <<>>
      BY <1>1, <1>2, <1>5, <2>2
    <3>2. CASE k = 0
      BY <1>2, <1>6, <3>1, <3>2
    <3>3. CASE k # 0
      <4>1. k \in 1..(L - 1)
        BY <1>1, <2>2, <3>3
      <4> QED BY <1>2, <1>6, <3>1, <3>3, <4>1
    <3> QED BY <3>2, <3>3
  <2> QED BY <2>1, <2>2
<1>11. ASSUME queue' # <<>> PROVE NextOf(queue'[Len(queue')], Sending)
  <2>1. L - k \in 1..(L - k) /\ k + (L - k) = L /\ queue # <<>>
    BY <1>1, <1>2, <1>5, <1>11
  <2>2. queue'[Len(queue')] = queue[L]
    BY <1>2, <2>1
  <2> QED BY <1>6, <2>1, <2>2
<1> QED BY <1>3, <1>4, <1>8, <1>9, <1>10, <1>11 DEF PcmInv, NextOf

(* No callback and no step of the control task touches the decoded sound. *)
LEMMA OthersKeepPcm ==
  ASSUME Callback \/ Control \/ Time \/ speaker_command \/ UNCHANGED vars
  PROVE  UNCHANGED <<pending, sent, decoded, discarded, heard, queue, dpc>>
<1> USE DEF workerVars, decoderVars, reservoirVars
<1>1. ASSUME UNCHANGED <<workerVars, decoderVars, heard, reservoirVars>>
      PROVE  UNCHANGED <<pending, sent, decoded, discarded, heard, queue, dpc>>
  BY <1>1
<1>2. CASE AudioPacket \/ AudioCopied \/ AudioDropped \/ AudioLost \/ Configure
  BY <1>1, <1>2 DEF AudioPacket, AudioCopied, AudioDropped, AudioLost, Configure
<1>3. CASE \/ AudioConfig \/ (\E started \in BOOLEAN : AudioState(started))
           \/ LinkConnecting \/ LinkConnected \/ LinkDown
  BY <1>1, <1>3
  DEF AudioConfig, AudioState, LinkConnecting, LinkConnected, LinkDown, StateChange
<1>4. CASE MetadataAcquire \/ MetadataPost \/ Notification
  BY <1>1, <1>4 DEF MetadataAcquire, MetadataPost, Notification, mediaVars
<1>5. CASE \E ok \in BOOLEAN : Authenticated(ok) \/ BondRemoved(ok)
  BY <1>1, <1>5 DEF Authenticated, BondRemoved
<1>6. CASE Control \/ Time \/ speaker_command \/ UNCHANGED vars
  BY <1>1, <1>6 DEF Control, ControlEvent, ControlTimeout, TickLink, TickRest, Time,
                    speaker_command, vars, mediaVars
<1> QED BY <1>2, <1>3, <1>4, <1>5, <1>6
        DEF Callback, Sound, Connecting, Connected, Disconnected

LEMMA PcmNext == PcmInv /\ [Next]_vars => PcmInv'
<1> SUFFICES ASSUME PcmInv, [Next]_vars PROVE PcmInv'
  OBVIOUS
<1>1. CASE Callback \/ Control \/ Time \/ speaker_command \/ UNCHANGED vars
  BY <1>1, OthersKeepPcm, PcmKept
<1>2. CASE Player
  BY <1>2, PcmPull DEF Player
<1>3. CASE Decode
  <2> USE DEF decoderVars, reservoirVars, workerVars
  <2>1. CASE \/ DecodeTake \/ DecodeLevel \/ StepNoPacket \/ StepPop \/ StepPopped
             \/ DecodeCheck
    <3>1. /\ UNCHANGED <<pending, sent, decoded, discarded, heard, queue>>
          /\ dpc' = "next" => dpc = "next"
      BY <2>1 DEF DecodeTake, DecodeLevel, StepNoPacket, StepPop, StepPopped, DecodeCheck
    <3> QED BY <3>1, PcmKept
  <2>2. CASE DecodeStatus
    <3>1. UNCHANGED <<heard, queue>> /\ dpc' # "next"
      BY <2>2 DEF DecodeStatus
    <3>2. CASE was_connected /\ ~connected
      BY <2>2, <3>1, <3>2, PcmReset DEF DecodeStatus
    <3>3. CASE ~(was_connected /\ ~connected)
      <4>1. UNCHANGED <<pending, sent, decoded, discarded>>
        BY <2>2, <3>3 DEF DecodeStatus
      <4> QED BY <3>1, <4>1, PcmKept
    <3> QED BY <3>2, <3>3
  <2>3. CASE StepReject
    <3>1. /\ dpc = "next" /\ dpc' = "wait" /\ pending' = 0 /\ sent' = 0
          /\ UNCHANGED <<decoded, discarded, heard, queue>>
      BY <2>3 DEF StepReject
    <3>2. pending = 0 /\ sent = 0
      BY <3>1 DEF PcmInv, PcmTypeOK
    <3> QED BY <3>1, <3>2, PcmKept
  <2> QED BY <1>3, <2>1, <2>2, <2>3, PcmFlush, PcmFrame DEF Decode
<1> QED BY <1>1, <1>2, <1>3 DEF Next, Worker

LEMMA PcmInit == Init => PcmInv
<1> SUFFICES ASSUME Init PROVE PcmInv
  OBVIOUS
<1>1. /\ decoded = 0 /\ pending = 0 /\ sent = 0 /\ heard = 0 /\ discarded = {}
      /\ dpc = "wait" /\ queue = <<>>
  BY DEF Init, MediaInit, Fifo!Init
<1>2. queue \in Seq(Nat) /\ Len(queue) = 0
  BY <1>1
<1> QED BY <1>1, <1>2, SizesOK DEF PcmInv, PcmTypeOK, Sending, NextOf

(* Frames played, queued and still to be sent, one behind the other. *)
LEMMA PcmChain == PcmInv => PcmInOrder
<1> SUFFICES ASSUME PcmInv PROVE PcmInOrder
  OBVIOUS
<1> DEFINE L == Len(queue)
           u == pending - sent
           b == Sending - 1
           front == <<heard>> \o queue
           pcm == front \o Unsent
           next(i) == IF i = Len(pcm) THEN decoded + 1 ELSE pcm[i + 1]
<1>1. /\ PcmTypeOK /\ queue \in Seq(Nat) /\ L \in Nat /\ (queue = <<>> <=> L = 0)
      /\ heard \in Nat /\ decoded \in Nat
  BY EmptyQueue DEF PcmInv, PcmTypeOK
<1>2. b \in Nat /\ u \in Nat /\ Sending = b + 1 /\ decoded = b + u
  BY <1>1, SendingIs DEF PcmTypeOK
<1>3. /\ \A i \in 1..(L - 1) : NextOf(queue[i], queue[i + 1])
      /\ NextOf(heard, IF queue = <<>> THEN b + 1 ELSE queue[1])
      /\ queue # <<>> => NextOf(queue[L], b + 1)
  BY <1>2 DEF PcmInv
<1>4. Unsent = Run(b, u)
  BY <1>1, UnsentIs
<1>5. /\ front \in Seq(Nat) /\ Len(front) = L + 1 /\ front[1] = heard
      /\ \A i \in 1..L : front[i + 1] = queue[i]
  <2>1. <<heard>> \in Seq(Nat) /\ Len(<<heard>>) = 1 /\ <<heard>>[1] = heard
    BY <1>1
  <2> QED BY <1>1, <2>1
<1> HIDE DEF front, b, u, L
<1>6. Grows(front, front \o Run(b, u), b, u)
  BY <1>2, <1>5, Grown
<1>7. /\ Len(pcm) = L + 1 + u
      /\ \A i \in 1..(L + 1) : pcm[i] = front[i]
      /\ \A i \in 1..u : pcm[L + 1 + i] = b + i
      /\ DOMAIN pcm = 1..(L + 1 + u)
  <2>1. Grows(front, pcm, b, u)
    BY <1>4, <1>6
  <2> HIDE DEF pcm
  <2>2. pcm \in Seq(Nat) /\ Len(pcm) = L + 1 + u
    BY <1>5, <2>1 DEF Grows
  <2>3. DOMAIN pcm = 1..Len(pcm)
    BY <2>2
  <2> QED BY <1>5, <2>1, <2>2, <2>3 DEF Grows
<1> HIDE DEF pcm
<1>8. \A i \in 1..(L + 1 + u) : NextOf(pcm[i], next(i))
  <2> SUFFICES ASSUME NEW i \in 1..(L + 1 + u) PROVE NextOf(pcm[i], next(i))
    OBVIOUS
  <2>1. next(L + 1) = b + 1
    <3>1. CASE u = 0
      BY <1>1, <1>2, <1>7, <3>1
    <3>2. CASE u # 0
      <4>1. 1 \in 1..u /\ L + 1 # Len(pcm)
        BY <1>1, <1>2, <1>7, <3>2
      <4> QED BY <1>7, <4>1
    <3> QED BY <3>1, <3>2
  <2>2. CASE i <= L
    <3>1. /\ i \in 1..(L + 1) /\ i + 1 \in 1..(L + 1) /\ i # Len(pcm) /\ i \in 1..L
          /\ queue # <<>>
      BY <1>1, <1>2, <1>7, <2>2
    <3>2. pcm[i] = front[i] /\ next(i) = queue[i]
      BY <1>5, <1>7, <3>1
    <3>3. CASE i = 1
      BY <1>3, <1>5, <3>1, <3>2, <3>3
    <3>4. CASE i # 1
      <4>1. i - 1 \in 1..(L - 1) /\ i - 1 \in 1..L /\ (i - 1) + 1 = i
        BY <1>1, <3>1, <3>4
      <4>2. front[i] = queue[i - 1]
        BY <1>5, <4>1
      <4> QED BY <1>3, <3>2, <4>1, <4>2
    <3> QED BY <3>3, <3>4
  <2>3. CASE i = L + 1
    <3>1. pcm[i] = front[L + 1] /\ next(i) = b + 1
      BY <1>1, <1>7, <2>1, <2>3
    <3>2. CASE L = 0
      BY <1>1, <1>3, <1>5, <3>1, <3>2
    <3>3. CASE L # 0
      <4>1. L \in 1..L /\ queue # <<>>
        BY <1>1, <3>3
      <4> QED BY <1>3, <1>5, <3>1, <4>1
    <3> QED BY <3>2, <3>3
  <2>4. CASE i > L + 1
    <3> DEFINE j == i - (L + 1)
    <3>1. j \in 1..u /\ i = L + 1 + j
      BY <1>1, <1>2, <2>4
    <3> HIDE DEF j
    <3>2. pcm[i] = b + j /\ b + j \in Nat
      BY <1>2, <1>7, <3>1
    <3>3. next(i) = (b + j) + 1
      <4>1. CASE j = u
        BY <1>1, <1>2, <1>7, <3>1, <4>1
      <4>2. CASE j # u
        <5>1. j + 1 \in 1..u /\ i + 1 = L + 1 + (j + 1) /\ i # Len(pcm)
          BY <1>1, <1>2, <1>7, <3>1, <4>2
        <5>2. pcm[i + 1] = b + (j + 1)
          BY <1>7, <5>1
        <5> QED BY <1>2, <3>1, <5>1, <5>2
      <4> QED BY <4>1, <4>2
    <3>4. NextOf(b + j, (b + j) + 1)
      BY <3>2, Neighbour
    <3> QED BY <3>2, <3>3, <3>4
  <2> QED BY <1>1, <2>2, <2>3, <2>4
<1> HIDE DEF next
<1>9. \A i \in DOMAIN pcm :
        /\ pcm[i] < next(i)
        /\ (pcm[i] + 1)..(next(i) - 1) \subseteq discarded
  BY <1>7, <1>8 DEF NextOf
<1> QED BY <1>9 DEF PcmInOrder, next, pcm, front

(* eaf_bt_decoder_step and output_entry: every decoded PCM frame goes to   *)
(* the output once and in order, for every size of a frame, a block and    *)
(* the reservoir, and whatever part of a frame the reservoir takes.        *)
THEOREM SpeakerPcm == Spec => []PcmInOrder
  BY PcmInit, PcmNext, PcmChain, PTL DEF Spec
=============================================================================
