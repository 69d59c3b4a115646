--------------------------- MODULE ReservoirProofs ---------------------------
(***************************************************************************)
(* The ring is safe for every capacity, watermark, cursor width and stream *)
(* length: the inductive invariant IInv of Reservoir.tla and what follows. *)
(***************************************************************************)
EXTENDS Reservoir, RingArithmetic

LEMMA SpanFacts == CursorSpan \in Nat /\ CursorSpan > 0 /\ Capacity < CursorSpan
<1>1. CursorTurns * Capacity >= 2 * Capacity
  BY ReservoirAssumption, SMT
<1>2. CursorTurns * Capacity \in Nat
  BY ReservoirAssumption, SMT
<1> QED BY <1>1, <1>2, ReservoirAssumption DEF CursorSpan

(* The unsigned difference of the cursors is the number of queued frames,  *)
(* however often the cursors have wrapped.                                 *)
LEMMA QueuedIs ==
  ASSUME TypeOK, CursorsOK
  PROVE  Queued = sent - frames_read
<1>1. frames_read \in Nat /\ sent \in Nat
  BY ReservoirAssumption DEF TypeOK
<1>2. frames_read <= sent /\ sent - frames_read < CursorSpan
  BY <1>1, SpanFacts, ReservoirAssumption DEF CursorsOK
<1>3. ((sent % CursorSpan) - (frames_read % CursorSpan)) % CursorSpan = sent - frames_read
  BY <1>1, <1>2, SpanFacts, ModDistance
<1> QED BY <1>3 DEF Queued, CursorsOK

(* A copy that starts at a cursor runs through the slots of the positions  *)
(* that follow.                                                            *)
LEMMA SlotIs ==
  ASSUME NEW p \in Nat, NEW i \in Nat
  PROVE  Slot(p % CursorSpan, i) = (p + i) % Capacity
<1>1. (p % CursorSpan) % Capacity = p % Capacity
  <2>1. Capacity \in Nat /\ Capacity > 0 /\ CursorTurns \in Nat /\ CursorTurns > 0
    BY ReservoirAssumption
  <2>2. (p % (CursorTurns * Capacity)) % Capacity = p % Capacity
    BY <2>1, ModMod
  <2> QED BY <2>2 DEF CursorSpan
<1>2. ((p % Capacity) + i) % Capacity = (p + i) % Capacity
  <2>1. Capacity \in Nat /\ Capacity > 0 /\ p \in Int /\ i \in Int
    BY ReservoirAssumption
  <2> QED BY <2>1, ModAdd
<1> QED BY <1>1, <1>2 DEF Slot

(* A slot number. *)
LEMMA SlotRange ==
  ASSUME NEW p \in Nat
  PROVE  p % Capacity \in 0..(Capacity - 1)
  BY ReservoirAssumption, DivMod

LEMMA CursorAdvance ==
  ASSUME NEW p \in Nat, NEW k \in Nat
  PROVE  /\ ((p % CursorSpan) + k) % CursorSpan = (p + k) % CursorSpan
         /\ (p + k) % CursorSpan \in 0..(CursorSpan - 1)
<1>1. ((p % CursorSpan) + k) % CursorSpan = (p + k) % CursorSpan
  <2>1. p \in Int /\ k \in Int
    OBVIOUS
  <2> QED BY <2>1, SpanFacts, ModAdd
<1>2. (p + k) % CursorSpan \in 0..(CursorSpan - 1)
  BY SpanFacts, DivMod
<1> QED BY <1>1, <1>2

LEMMA InitIInv == Init => IInv
<1> SUFFICES ASSUME Init PROVE IInv
  OBVIOUS
<1>1. TypeOK
  <2>1. 0 \in 0..(CursorSpan - 1)
    BY SpanFacts
  <2> QED BY <2>1, ReservoirAssumption DEF Init, TypeOK
<1>2. CursorsOK
  <2>1. 0 % CursorSpan = 0
    BY SpanFacts, SMT
  <2> QED BY <2>1, ReservoirAssumption DEF Init, CursorsOK
<1>3. StorageOK
  BY DEF Init, StorageOK, Copied
<1>4. ProducerOK /\ ConsumerOK /\ BlockInOrder /\ EosOK
  BY DEF Init, ProducerOK, ConsumerOK, BlockInOrder, EosOK
<1> QED BY <1>1, <1>2, <1>3, <1>4 DEF IInv
----------------------------------------------------------------------------
(* The producer's steps. *)

LEMMA WriteBeginIInv ==
  ASSUME IInv, NEW n \in 1..Capacity, WriteBegin(n)
  PROVE  IInv'
<1> USE ReservoirAssumption
<1> USE DEF WriteBegin, consVars
<1>1. Queued = sent - frames_read
  BY QueuedIs DEF IInv
<1>2. /\ pframes' = Min(n, Capacity - (sent - frames_read))
      /\ pframes' \in 0..Capacity /\ pframes' <= n
      /\ pframes' <= Capacity - (sent - frames_read)
  BY <1>1 DEF IInv, TypeOK, CursorsOK, Free, Min
<1>3. TypeOK'
  BY <1>2 DEF IInv, TypeOK
<1>4. CursorsOK'
  BY DEF IInv, CursorsOK
<1>5. ProducerOK'
  BY SMTT(30), <1>2 DEF IInv, ProducerOK, TypeOK
<1>6. StorageOK'
  BY DEF IInv, StorageOK, Copied
<1>7. ConsumerOK' /\ BlockInOrder' /\ EosOK'
  BY DEF IInv, ConsumerOK, BlockInOrder, EosOK
<1> QED BY <1>3, <1>4, <1>5, <1>6, <1>7 DEF IInv

LEMMA WriteCopyIInv ==
  ASSUME IInv, WriteCopy
  PROVE  IInv'
<1> USE ReservoirAssumption
<1> USE DEF WriteCopy, consVars
<1> DEFINE p == sent + pcopied
<1>1. /\ sent \in Nat /\ pcopied \in Nat /\ p \in Nat /\ pframes \in Nat
      /\ frames_read \in Nat /\ pcopied < pframes
      /\ p < MaxFrames /\ p - frames_read < Capacity /\ frames_read <= p
  BY DEF IInv, TypeOK, ProducerOK, CursorsOK
<1>2. Slot(write_cursor, pcopied) = p % Capacity /\ p % Capacity \in 0..(Capacity - 1)
  BY <1>1, SlotIs, SlotRange DEF IInv, CursorsOK
<1>3. storage' = [storage EXCEPT ![p % Capacity] = p + 1] /\ p + 1 \in 0..MaxFrames
  BY <1>1, <1>2
<1>4. TypeOK'
  <2>1. storage' \in [0..(Capacity - 1) -> 0..MaxFrames]
    BY <1>2, <1>3 DEF IInv, TypeOK
  <2>2. pcopied' \in 0..pframes'
    BY <1>1
  <2> QED BY <2>1, <2>2 DEF IInv, TypeOK
<1>5. CursorsOK' /\ ProducerOK'
  BY DEF IInv, CursorsOK, ProducerOK
<1>6. StorageOK'
  <2>0. Copied' = pcopied + 1 /\ sent' + Copied' - 1 = p
    BY <1>1 DEF Copied
  <2> SUFFICES ASSUME NEW i \in frames_read..p
               PROVE  storage'[i % Capacity] = i + 1
    BY <2>0 DEF StorageOK
  <2>1. i \in Nat /\ i % Capacity \in 0..(Capacity - 1) /\ i <= p
    BY <1>1, SlotRange
  <2>2. CASE i = p
    BY <2>1, <2>2, <1>2, <1>3 DEF IInv, TypeOK
  <2>3. CASE i < p
    <3>1. Capacity \in Nat /\ Capacity > 0 /\ p - i < Capacity
      BY <1>1, <2>1, <2>3
    <3>2. i % Capacity # p % Capacity
      BY <1>1, <2>1, <2>3, <3>1, SlotsDistinct
    <3>3. storage[i % Capacity] = i + 1
      BY <1>1, <2>1, <2>3 DEF IInv, StorageOK, Copied
    <3> QED BY <2>1, <3>2, <3>3, <1>3 DEF IInv, TypeOK
  <2> QED BY <1>1, <2>1, <2>2, <2>3
<1>7. ConsumerOK' /\ BlockInOrder' /\ EosOK'
  BY DEF IInv, ConsumerOK, BlockInOrder, EosOK
<1> QED BY <1>4, <1>5, <1>6, <1>7 DEF IInv

LEMMA WritePublishIInv ==
  ASSUME IInv, WritePublish
  PROVE  IInv'
<1> USE ReservoirAssumption
<1> USE DEF WritePublish, consVars
<1>1. /\ sent \in Nat /\ pframes \in Nat /\ frames_read \in Nat /\ ~finished
      /\ sent' = sent + pframes /\ sent' <= MaxFrames
      /\ sent' - frames_read <= Capacity /\ frames_read <= sent
  BY DEF IInv, TypeOK, ProducerOK, CursorsOK
<1>2. /\ write_cursor' = (sent + pframes) % CursorSpan
      /\ write_cursor' \in 0..(CursorSpan - 1)
  BY <1>1, CursorAdvance DEF IInv, CursorsOK
<1>3. TypeOK'
  BY <1>1, <1>2 DEF IInv, TypeOK
<1>4. CursorsOK'
  BY <1>1, <1>2 DEF IInv, CursorsOK, CursorSpan
<1>5. ProducerOK'
  BY DEF ProducerOK
<1>6. StorageOK'
  BY <1>1 DEF IInv, StorageOK, Copied
<1>7. ConsumerOK' /\ BlockInOrder'
  BY <1>1 DEF IInv, ConsumerOK, BlockInOrder, TypeOK
<1>8. EosOK'
  BY <1>1 DEF IInv, EosOK
<1> QED BY <1>3, <1>4, <1>5, <1>6, <1>7, <1>8 DEF IInv

LEMMA FinishIInv ==
  ASSUME IInv, Finish
  PROVE  IInv'
<1> USE DEF Finish, consVars, prodVars
<1>1. TypeOK' /\ CursorsOK' /\ StorageOK'
  BY DEF IInv, TypeOK, CursorsOK, StorageOK, Copied
<1>2. ProducerOK' /\ ConsumerOK' /\ BlockInOrder' /\ EosOK'
  BY DEF IInv, ProducerOK, ConsumerOK, BlockInOrder, EosOK
<1> QED BY <1>1, <1>2 DEF IInv
----------------------------------------------------------------------------
(* The consumer's steps. *)

LEMMA PullFinishedFlagIInv ==
  ASSUME IInv, NEW n \in 1..MaxPull, PullFinishedFlag(n)
  PROVE  IInv'
<1> USE ReservoirAssumption
<1> USE DEF PullFinishedFlag, prodVars
<1>1. TypeOK' /\ CursorsOK' /\ StorageOK'
  BY DEF IInv, TypeOK, CursorsOK, StorageOK, Copied
<1>2. ProducerOK' /\ ConsumerOK' /\ BlockInOrder' /\ EosOK'
  BY DEF IInv, ProducerOK, ConsumerOK, BlockInOrder, EosOK
<1> QED BY <1>1, <1>2 DEF IInv

LEMMA PullCursorsIInv ==
  ASSUME IInv, PullCursors
  PROVE  IInv'
<1> USE ReservoirAssumption
<1> USE DEF PullCursors, prodVars
<1> DEFINE q == sent - frames_read
<1>1. /\ Queued = q /\ q \in 0..Capacity /\ sent \in Nat /\ frames_read \in Nat
      /\ cn \in 0..MaxPull
  BY QueuedIs DEF IInv, TypeOK, CursorsOK
<1>a. ctake' \in 0..Capacity /\ ctake' <= q /\ frames_read + ctake' <= sent
  BY <1>1 DEF Decide, Min
<1>2. /\ state' \in {"PREBUFFERING", "STREAMING", "UNDERRUN", "DRAINED"}
      /\ flags' \in SUBSET {"EOS", "UNDERRUN", "SILENCE"} /\ wake' \in BOOLEAN
  BY <1>1 DEF Decide, Min, IInv, TypeOK
<1>3. underruns' \in 0..MaxUnderruns
  BY <1>1 DEF Decide, IInv, TypeOK, ConsumerOK
<1>4. TypeOK'
  <2>1. block' \in Seq(0..MaxFrames) /\ Len(block') = 0
    OBVIOUS
  <2> QED BY <1>a, <1>2, <1>3, <2>1 DEF IInv, TypeOK
<1>5. CursorsOK' /\ ProducerOK' /\ StorageOK'
  BY DEF IInv, CursorsOK, ProducerOK, StorageOK, Copied
<1>6. ConsumerOK' /\ BlockInOrder'
  <2>1. ConsumerOK'
    BY <1>a DEF IInv, ConsumerOK
  <2>2. Len(block') = 0
    OBVIOUS
  <2>3. BlockInOrder'
    BY <2>2 DEF BlockInOrder
  <2> QED BY <2>1, <2>3
<1>7. EosOK'
  <2> SUFFICES ASSUME "EOS" \in flags' PROVE finished /\ sent = frames_read + ctake'
    BY DEF EosOK
  <2>1. cfin /\ q <= cn
    BY <1>1 DEF Decide
  <2>2. ctake' = q
    BY <1>1, <2>1 DEF Decide, Min
  <2> QED BY <1>1, <2>1, <2>2 DEF IInv, ConsumerOK
<1> QED BY <1>4, <1>5, <1>6, <1>7 DEF IInv

LEMMA PullCopyIInv ==
  ASSUME IInv, PullCopy
  PROVE  IInv'
<1> USE ReservoirAssumption
<1> USE DEF PullCopy, prodVars
<1> DEFINE k == Len(block)
           f == storage[Slot(read_cursor, k)]
<1>1. /\ k \in Nat /\ k < ctake /\ frames_read \in Nat /\ sent \in Nat
      /\ frames_read + k < sent /\ block \in Seq(0..MaxFrames) /\ ctake \in Nat
  BY DEF IInv, TypeOK, ConsumerOK
<1>2. f = frames_read + k + 1 /\ f \in 0..MaxFrames
  <2>1. Slot(read_cursor, k) = (frames_read + k) % Capacity
    BY <1>1, SlotIs DEF IInv, CursorsOK
  <2>2. frames_read + k \in frames_read..(sent + Copied - 1)
    BY <1>1 DEF IInv, TypeOK, Copied
  <2> QED BY SMTT(30), <1>1, <2>1, <2>2 DEF IInv, StorageOK, TypeOK
<1>3. /\ block' = Append(block, f) /\ block' \in Seq(0..MaxFrames)
      /\ Len(block') = k + 1 /\ block'[k + 1] = f
      /\ \A i \in 1..k : block'[i] = block[i]
  <2> HIDE DEF f
  <2>1. block' = Append(block, f)
    BY DEF f
  <2> QED BY <1>1, <1>2, <2>1
<1>4. TypeOK'
  BY <1>1, <1>3 DEF IInv, TypeOK
<1>5. BlockInOrder'
  <2> SUFFICES ASSUME NEW i \in 1..(k + 1) PROVE block'[i] = frames_read + i
    BY <1>1, <1>3 DEF BlockInOrder
  <2>1. CASE i = k + 1
    BY <1>1, <1>2, <1>3, <2>1
  <2>2. CASE i \in 1..k
    BY <1>1, <1>3, <2>2 DEF IInv, BlockInOrder
  <2> QED BY <1>1, <2>1, <2>2
<1>6. CursorsOK' /\ ProducerOK' /\ StorageOK' /\ ConsumerOK' /\ EosOK'
  BY DEF IInv, CursorsOK, ProducerOK, StorageOK, Copied, ConsumerOK, EosOK
<1> QED BY <1>4, <1>5, <1>6 DEF IInv

LEMMA PullPublishIInv ==
  ASSUME IInv, PullPublish
  PROVE  IInv'
<1> USE ReservoirAssumption
<1> USE DEF PullPublish, prodVars
<1>1. /\ frames_read \in Nat /\ sent \in Nat /\ ctake \in Nat /\ pframes \in Nat
      /\ frames_read' = frames_read + ctake /\ frames_read' <= sent
      /\ sent - frames_read <= Capacity /\ sent <= MaxFrames
  BY DEF IInv, TypeOK, ConsumerOK, CursorsOK
<1>2. /\ read_cursor' = (frames_read + ctake) % CursorSpan
      /\ read_cursor' \in 0..(CursorSpan - 1)
  BY <1>1, CursorAdvance DEF IInv, CursorsOK
<1>3. TypeOK'
  BY <1>1, <1>2 DEF IInv, TypeOK
<1>4. CursorsOK'
  BY <1>1, <1>2 DEF IInv, CursorsOK, CursorSpan
<1>5. ProducerOK'
  BY <1>1 DEF IInv, ProducerOK
<1>6. StorageOK'
  <2>1. Copied \in Nat /\ Copied' = Copied
    BY DEF IInv, TypeOK, Copied
  <2> SUFFICES ASSUME NEW i \in frames_read'..(sent + Copied - 1)
               PROVE  storage[i % Capacity] = i + 1
    BY <2>1 DEF StorageOK
  <2>2. i \in frames_read..(sent + Copied - 1)
    BY <1>1, <2>1
  <2> QED BY <2>2 DEF IInv, StorageOK
<1>7. ConsumerOK' /\ EosOK'
  BY <1>1 DEF IInv, ConsumerOK, EosOK
<1>8. BlockInOrder'
  BY <1>1 DEF IInv, BlockInOrder
<1> QED BY <1>3, <1>4, <1>5, <1>6, <1>7, <1>8 DEF IInv

LEMMA ResetIInv ==
  ASSUME IInv, Reset
  PROVE  IInv'
<1> USE ReservoirAssumption
<1> USE DEF Reset, prodVars
<1>1. TypeOK'
  <2>1. 0 \in 0..(CursorSpan - 1)
    BY SpanFacts
  <2>2. block' \in Seq(0..MaxFrames) /\ Len(block') = 0
    OBVIOUS
  <2>3. storage' \in [0..(Capacity - 1) -> 0..MaxFrames]
    OBVIOUS
  <2>4. /\ ppc' \in {"idle", "copy"} /\ pframes' \in 0..Capacity /\ pcopied' \in 0..pframes'
        /\ cpc' \in {"idle", "cursors", "copy"} /\ cn' \in 0..MaxPull
    BY DEF IInv, TypeOK
  <2> QED BY <2>1, <2>2, <2>3, <2>4 DEF TypeOK
<1>2. CursorsOK'
  <2>1. 0 % CursorSpan = 0
    BY SpanFacts, SMT
  <2> QED BY <2>1 DEF CursorsOK, CursorSpan
<1>3. StorageOK' /\ ProducerOK'
  BY DEF StorageOK, ProducerOK, Copied
<1>4. ConsumerOK' /\ BlockInOrder' /\ EosOK'
  BY DEF ConsumerOK, BlockInOrder, EosOK
<1> QED BY <1>1, <1>2, <1>3, <1>4 DEF IInv

LEMMA StutterIInv ==
  ASSUME IInv, UNCHANGED vars
  PROVE  IInv'
  BY DEF vars, prodVars, consVars, IInv, TypeOK, CursorsOK, ProducerOK, StorageOK,
         Copied, ConsumerOK, BlockInOrder, EosOK
----------------------------------------------------------------------------
(* Every reachable state of the ring satisfies the inductive invariant     *)
(* (eaf_reservoir_write, _finish, _pull and _reset in any interleaving).   *)
THEOREM ReservoirInvariant == Spec => []IInv
<1>1. Init => IInv
  BY InitIInv
<1>2. IInv /\ [Next]_vars => IInv'
  <2> SUFFICES ASSUME IInv, [Next]_vars PROVE IInv'
    OBVIOUS
  <2>1. CASE \E n \in 1..Capacity : WriteBegin(n)
    BY <2>1, WriteBeginIInv
  <2>2. CASE WriteCopy
    BY <2>2, WriteCopyIInv
  <2>3. CASE WritePublish
    BY <2>3, WritePublishIInv
  <2>4. CASE Finish
    BY <2>4, FinishIInv
  <2>5. CASE \E n \in 1..MaxPull : PullFinishedFlag(n)
    BY <2>5, PullFinishedFlagIInv
  <2>6. CASE PullCursors
    BY <2>6, PullCursorsIInv
  <2>7. CASE PullCopy
    BY <2>7, PullCopyIInv
  <2>8. CASE PullPublish
    BY <2>8, PullPublishIInv
  <2>9. CASE Reset
    BY <2>9, ResetIInv
  <2>10. CASE UNCHANGED vars
    BY <2>10, StutterIInv
  <2> QED BY <2>1, <2>2, <2>3, <2>4, <2>5, <2>6, <2>7, <2>8, <2>9, <2>10
          DEF Next, Producer, Consumer, PullLoads
<1> QED BY <1>1, <1>2, PTL DEF Spec

(* The variables of the ring keep their types.                             *)
THEOREM ReservoirTypeCorrect == Spec => []TypeOK
<1>1. IInv => TypeOK
  BY DEF IInv
<1> QED BY <1>1, ReservoirInvariant, PTL

(* The producer never overwrites a frame that is still queued or under the *)
(* consumer's copy, although its read cursor may be stale.                 *)
THEOREM ReservoirNoOverwrite == Spec => []NoOverwrite
<1>1. IInv => NoOverwrite
  <2> SUFFICES ASSUME IInv, ppc = "copy", pcopied < pframes,
                      NEW i \in frames_read..(sent - 1)
               PROVE  i % Capacity # Slot(write_cursor, pcopied)
    BY DEF NoOverwrite
  <2> DEFINE p == sent + pcopied
  <2>1. /\ sent \in Nat /\ pcopied \in Nat /\ p \in Nat /\ i \in Nat /\ frames_read \in Nat
        /\ Capacity \in Nat /\ Capacity > 0 /\ i < p /\ p - i < Capacity
    BY ReservoirAssumption DEF IInv, TypeOK, ProducerOK
  <2>2. Slot(write_cursor, pcopied) = p % Capacity
    BY <2>1, SlotIs DEF IInv, CursorsOK
  <2>3. i % Capacity # p % Capacity
    BY <2>1, SlotsDistinct
  <2> QED BY <2>2, <2>3
<1> QED BY <1>1, ReservoirInvariant, PTL

(* The consumer's block always holds the next frames of the source stream, *)
(* in order, with none missing and none repeated.                          *)
THEOREM ReservoirInOrder == Spec => []BlockInOrder
<1>1. IInv => BlockInOrder
  BY DEF IInv
<1> QED BY <1>1, ReservoirInvariant, PTL

(* A block flagged EOS is returned only after every published frame: the   *)
(* finished flag is loaded before the cursors.                             *)
THEOREM ReservoirEosIsComplete == Spec => []EosIsComplete
<1>1. IInv => EosIsComplete
  BY DEF IInv, EosOK, EosIsComplete, TypeOK
<1> QED BY <1>1, ReservoirInvariant, PTL
----------------------------------------------------------------------------
(* The ring implements the atomic FIFO. *)

LEMMA AbsForms == IInv => AbsIs
<1> SUFFICES ASSUME IInv PROVE AbsIs
  OBVIOUS
<1> USE ReservoirAssumption
<1>1. /\ frames_read \in Nat /\ sent \in Nat /\ ctake \in Nat /\ Taken \in Nat /\ Len(block) \in Nat
      /\ frames_read + Taken <= sent /\ read_cursor = frames_read % CursorSpan
      /\ Len(block) <= ctake /\ (cpc # "copy" => Len(block) = ctake)
      /\ (cpc = "copy" => Taken = ctake) /\ block \in Seq(0..MaxFrames)
  BY DEF IInv, TypeOK, CursorsOK, ConsumerOK, Taken
<1>2. ASSUME NEW k \in Nat, frames_read + k < sent
      PROVE  storage[Slot(read_cursor, k)] = frames_read + k + 1
  <2>1. Slot(read_cursor, k) = (frames_read + k) % Capacity
    BY <1>1, SlotIs
  <2>2. frames_read + k \in frames_read..(sent + Copied - 1)
    BY <1>1, <1>2 DEF IInv, TypeOK, Copied
  <2> QED BY <2>1, <2>2 DEF IInv, StorageOK
<1>3. AbsQueue = Stretch(frames_read + Taken, sent - frames_read - Taken)
  <2> SUFFICES ASSUME NEW i \in 1..(sent - frames_read - Taken)
               PROVE  storage[Slot(read_cursor, Taken + i - 1)] = frames_read + Taken + i
    BY DEF AbsQueue, Stretch
  <2>1. Taken + i - 1 \in Nat /\ frames_read + (Taken + i - 1) < sent
    BY <1>1
  <2>2. storage[Slot(read_cursor, Taken + i - 1)] = frames_read + (Taken + i - 1) + 1
    BY <1>2, <2>1
  <2> QED BY <1>1, <2>2
<1>4. AbsOut = Stretch(IF cpc = "copy" THEN frames_read ELSE frames_read - ctake, ctake)
  <2> DEFINE first == IF cpc = "copy" THEN frames_read ELSE frames_read - ctake
             rest == [i \in 1..(ctake - Len(block)) |-> storage[Slot(read_cursor, Len(block) + i - 1)]]
  <2>1. first \in Int /\ \A i \in 1..Len(block) : block[i] = first + i
    BY <1>1 DEF IInv, BlockInOrder
  <2>2. rest = [i \in 1..(ctake - Len(block)) |-> first + Len(block) + i]
    <3> SUFFICES ASSUME NEW i \in 1..(ctake - Len(block))
                 PROVE  storage[Slot(read_cursor, Len(block) + i - 1)] = first + Len(block) + i
      OBVIOUS
    <3>1. cpc = "copy" /\ first = frames_read
      BY <1>1
    <3>2. Len(block) + i - 1 \in Nat /\ frames_read + (Len(block) + i - 1) < sent
      BY <1>1, <3>1
    <3>3. storage[Slot(read_cursor, Len(block) + i - 1)] = frames_read + (Len(block) + i - 1) + 1
      BY <1>2, <3>2
    <3> QED BY <1>1, <3>1, <3>3
  <2>3. block \o rest = [i \in 1..ctake |-> first + i]
    <3> HIDE DEF first, rest
    <3> QED BY <1>1, <2>1, <2>2
  <2> QED BY <2>3 DEF AbsOut, Stretch
<1> QED BY <1>3, <1>4 DEF AbsIs

LEMMA AbsFormsNext == (IInv => AbsIs)'
  BY AbsForms, PTL

LEMMA StretchEmpty ==
  ASSUME NEW a \in Int
  PROVE  Stretch(a, 0) = <<>>
  BY DEF Stretch

LEMMA StretchCut ==
  ASSUME NEW a \in Int, NEW n \in Nat, NEW k \in 0..n
  PROVE  /\ Len(Stretch(a, n)) = n /\ Stretch(a, n) \in Seq(Int)
         /\ SubSeq(Stretch(a, n), 1, k) = Stretch(a, k)
         /\ SubSeq(Stretch(a, n), k + 1, n) = Stretch(a + k, n - k)
  BY DEF Stretch

LEMMA InitPull == Init => PullOK
  BY DEF Init, PullOK

LEMMA NextPull == IInv /\ PullOK /\ [Next]_vars => PullOK'
<1> SUFFICES ASSUME IInv, PullOK, [Next]_vars PROVE PullOK'
  OBVIOUS
<1> USE DEF PullOK
<1>1. CASE Producer \/ UNCHANGED vars
  BY <1>1 DEF Producer, WriteBegin, WriteCopy, WritePublish, Finish, consVars, vars
<1>2. CASE Reset
  BY <1>2 DEF Reset
<1>3. ASSUME NEW n \in 1..MaxPull, PullFinishedFlag(n) PROVE PullOK'
  BY <1>3, ReservoirAssumption DEF PullFinishedFlag
<1>4. CASE PullCursors
  <2>1. state' = "DRAINED" => cfin \/ state = "DRAINED"
    BY <1>4 DEF PullCursors, Decide
  <2> QED BY <1>4, <2>1 DEF PullCursors, IInv, ConsumerOK
<1>5. CASE PullCopy \/ PullPublish
  BY <1>5 DEF PullCopy, PullPublish
<1> QED BY <1>1, <1>2, <1>3, <1>4, <1>5 DEF Next, Consumer, PullLoads

(* Steps that the FIFO does not see: the copies, and the loads before the  *)
(* cursors.                                                                *)
LEMMA HiddenSteps ==
  ASSUME IInv, IInv', AbsIs, AbsIs',
         \/ \E n \in 1..Capacity : WriteBegin(n)
         \/ WriteCopy \/ PullCopy
         \/ \E n \in 1..MaxPull : PullFinishedFlag(n)
         \/ UNCHANGED vars
  PROVE  UNCHANGED Fifo!fifoVars
<1> USE DEF WriteBegin, WriteCopy, PullCopy, PullFinishedFlag, prodVars, consVars, vars
<1>1. UNCHANGED <<state, flags, wake, sent, frames_read, ctake, Taken>>
  BY DEF Taken
<1>2. AbsFinished' = AbsFinished
  BY DEF AbsFinished, IInv, TypeOK
<1>3. (cpc = "copy") = (cpc' = "copy")
  OBVIOUS
<1>4. AbsQueue' = AbsQueue /\ AbsOut' = AbsOut
  BY <1>1, <1>3 DEF AbsIs
<1> QED BY <1>1, <1>2, <1>4 DEF Fifo!fifoVars

(* A write takes effect when it stores the write cursor. *)
LEMMA PublishIsWrite ==
  ASSUME IInv, IInv', AbsIs, AbsIs', WritePublish
  PROVE  Fifo!WriteSome
<1> USE ReservoirAssumption
<1> DEFINE a == frames_read + Taken
           n == sent - frames_read - Taken
<1>1. /\ sent \in Nat /\ frames_read \in Nat /\ Taken \in Nat /\ pframes \in Nat
      /\ a \in Nat /\ n \in Nat /\ ~finished /\ a + n = sent
      /\ n + pframes <= Capacity /\ sent + pframes <= MaxFrames
  <2>1. /\ sent \in Nat /\ frames_read \in Nat /\ Taken \in Nat /\ pframes \in Nat
        /\ ~finished /\ frames_read + Taken <= sent
        /\ sent + pframes - frames_read <= Capacity /\ sent + pframes <= MaxFrames
    BY DEF WritePublish, IInv, TypeOK, CursorsOK, ProducerOK, ConsumerOK, Taken
  <2> QED BY <2>1
<1>2. /\ UNCHANGED <<state, flags, wake, frames_read, ctake, cpc, finished, cfin, Taken>>
      /\ sent' = sent + pframes
  BY DEF WritePublish, consVars, Taken
<1>3. AbsQueue = Stretch(a, n) /\ AbsQueue' = Stretch(a, n + pframes)
  <2>1. sent' - frames_read' - Taken' = n + pframes /\ frames_read' + Taken' = a
    BY <1>1, <1>2
  <2> QED BY <2>1 DEF AbsIs
<1>4. AbsOut' = AbsOut /\ AbsFinished' = AbsFinished /\ ~AbsFinished
  BY <1>1, <1>2 DEF AbsIs, AbsFinished
<1> HIDE DEF a, n
<1>5. /\ Len(AbsQueue) = n /\ Len(AbsQueue') = n + pframes
      /\ SubSeq(AbsQueue', n + 1, n + pframes) = Stretch(a + n, pframes)
  <2>1. n + pframes \in Nat /\ n \in 0..(n + pframes) /\ n + pframes - n = pframes
        /\ n \in 0..n
    BY <1>1
  <2>2. Len(Stretch(a, n)) = n /\ Len(Stretch(a, n + pframes)) = n + pframes
    BY <1>1, <2>1, StretchCut
  <2>3. SubSeq(Stretch(a, n + pframes), n + 1, n + pframes) = Stretch(a + n, n + pframes - n)
    BY <1>1, <2>1 DEF Stretch
  <2> QED BY <1>3, <2>1, <2>2, <2>3
<1>6. Len(Stretch(a + n, pframes)) = pframes /\ AbsQueue' = AbsQueue \o Stretch(a + n, pframes)
  <2>1. a + n \in Int /\ 0 \in 0..pframes
    BY <1>1
  <2>2. Len(Stretch(a + n, pframes)) = pframes
    BY <1>1, <2>1, StretchCut
  <2>3. Stretch(a, n) \o Stretch(a + n, pframes) = Stretch(a, n + pframes)
    BY <1>1 DEF Stretch
  <2> QED BY <1>3, <2>2, <2>3
<1>7. AbsQueue' \in Seq(1..MaxFrames)
  <2>1. \A i \in 1..(n + pframes) : a + i \in 1..MaxFrames
    BY <1>1
  <2> QED BY <1>1, <1>3, <2>1 DEF Stretch
<1> QED BY <1>1, <1>2, <1>4, <1>5, <1>6, <1>7 DEF Fifo!WriteSome, Fifo!Write

(* The end of stream takes effect at once, or after the pull under way. *)
LEMMA FinishIsFinish ==
  ASSUME IInv, AbsIs, AbsIs', Finish
  PROVE  Fifo!Finish \/ UNCHANGED Fifo!fifoVars
<1>1. UNCHANGED <<state, flags, wake, sent, frames_read, ctake, cpc, cfin, Taken>> /\ finished'
  BY DEF Finish, consVars, Taken
<1>2. AbsQueue' = AbsQueue /\ AbsOut' = AbsOut
  BY <1>1 DEF AbsIs
<1>3. AbsFinished' = TRUE \/ AbsFinished' = AbsFinished
  BY <1>1 DEF AbsFinished, Finish
<1> QED BY <1>1, <1>2, <1>3 DEF Fifo!Finish, Fifo!fifoVars

LEMMA PublishIsFinish ==
  ASSUME IInv, AbsIs, AbsIs', PullPublish
  PROVE  Fifo!Finish \/ UNCHANGED Fifo!fifoVars
<1>1. /\ UNCHANGED <<state, flags, wake, sent, ctake, cfin, finished>> /\ frames_read' = frames_read + ctake
      /\ cpc = "copy" /\ cpc' = "idle" /\ Taken = ctake /\ Taken' = 0
  BY DEF PullPublish, Taken
<1>2. frames_read \in Nat /\ sent \in Nat /\ ctake \in Nat /\ finished \in BOOLEAN /\ cfin \in BOOLEAN
  BY ReservoirAssumption DEF IInv, TypeOK
<1>3. AbsQueue' = AbsQueue /\ AbsOut' = AbsOut
  <2>1. /\ frames_read' + 0 = frames_read + ctake
        /\ sent - frames_read' - 0 = sent - frames_read - ctake
        /\ frames_read' - ctake = frames_read
    BY <1>1, <1>2
  <2> QED BY <1>1, <2>1 DEF AbsIs
<1>4. AbsFinished' = TRUE \/ AbsFinished' = AbsFinished
  BY <1>1, <1>2 DEF AbsFinished
<1> QED BY <1>1, <1>3, <1>4 DEF Fifo!Finish, Fifo!fifoVars

LEMMA ResetIsReset ==
  ASSUME IInv, AbsIs', Reset
  PROVE  Fifo!Reset
<1>1. /\ frames_read' = 0 /\ sent' = 0 /\ Taken' = 0 /\ ctake' = 0 /\ cpc' = "idle" /\ finished' = FALSE
      /\ state' = "PREBUFFERING" /\ flags' = {} /\ wake' = FALSE
  BY DEF Reset, Taken
<1>2. AbsQueue' = <<>> /\ AbsOut' = <<>>
  BY <1>1, StretchEmpty DEF AbsIs
<1>3. AbsFinished' = FALSE
  BY <1>1 DEF AbsFinished
<1> QED BY <1>1, <1>2, <1>3 DEF Fifo!Reset

(* A pull happens when it loads the cursors: what it then decides is what  *)
(* the FIFO allows for the frames queued at that moment.                   *)
LEMMA CursorsArePull ==
  ASSUME IInv, PullOK, AbsIs, AbsIs', PullCursors
  PROVE  \E n \in 1..Capacity : Fifo!Pull(n)
<1> USE ReservoirAssumption
<1> DEFINE q == sent - frames_read
           take == ctake'
<1>1. /\ sent \in Nat /\ frames_read \in Nat /\ q \in Nat /\ cn \in 1..Capacity
      /\ finished \in BOOLEAN /\ cfin \in BOOLEAN /\ (cfin => finished) /\ Queued = q
      /\ state \in {"PREBUFFERING", "STREAMING", "UNDERRUN", "DRAINED"}
      /\ (state = "DRAINED" => cfin)
  BY QueuedIs DEF PullCursors, IInv, TypeOK, CursorsOK, ConsumerOK, PullOK
<1>2. Decide(cfin, q) /\ UNCHANGED <<sent, frames_read, finished, cfin>>
  BY <1>1 DEF PullCursors
<1>3. take \in 0..q /\ take = IF cfin \/ Streams(q) THEN Min(q, cn) ELSE 0
  BY <1>1, <1>2 DEF Decide, Min
<1>4. /\ AbsQueue = Stretch(frames_read, q) /\ AbsQueue' = Stretch(frames_read + take, q - take)
      /\ AbsOut' = Stretch(frames_read, take)
  <2>1. Taken = 0 /\ Taken' = take /\ cpc' = "copy"
    BY DEF PullCursors, Taken
  <2>2. frames_read + 0 = frames_read /\ sent - frames_read - 0 = q
    BY <1>1
  <2> QED BY <1>2, <2>1, <2>2 DEF AbsIs
<1>5. AbsFinished = cfin /\ AbsFinished' = cfin
  BY <1>1, <1>2 DEF AbsFinished, PullCursors
<1>6. Len(AbsQueue) = q /\ Len(AbsQueue') = q - take
  <2>1. frames_read + take \in Int /\ q - take \in Nat
    BY <1>1, <1>3
  <2> HIDE DEF q, take
  <2>2. Len(Stretch(frames_read, q)) = q /\ Len(Stretch(frames_read + take, q - take)) = q - take
    BY <1>1, <2>1 DEF Stretch
  <2> QED BY <1>4, <2>2
<1>7. Fifo!Deliver(take)
  <2> HIDE DEF q, take
  <2>0. frames_read \in Int /\ q \in Nat /\ take \in 0..q
    BY <1>1, <1>3
  <2>1. /\ SubSeq(Stretch(frames_read, q), 1, take) = Stretch(frames_read, take)
        /\ SubSeq(Stretch(frames_read, q), take + 1, q) = Stretch(frames_read + take, q - take)
    BY <2>0, StretchCut
  <2> QED BY <1>4, <1>6, <2>1 DEF Fifo!Deliver
<1>8. AbsQueue' = <<>> <=> q = take
  <2> HIDE DEF q, take
  <2>1. q = take => AbsQueue' = <<>>
    <3>1. q = take => q - take = 0 /\ frames_read + take \in Int
      BY <1>1
    <3> QED BY <1>4, <3>1, StretchEmpty
  <2>2. AbsQueue' = <<>> => Len(AbsQueue') = 0
    OBVIOUS
  <2> QED BY <1>1, <1>3, <1>6, <2>1, <2>2
<1> HIDE DEF q, take
<1>9. CASE cfin
  <2>1. /\ take = Min(q, cn) /\ wake' = FALSE
        /\ state' = IF q <= cn THEN "DRAINED" ELSE "STREAMING"
        /\ flags' = (IF take = 0 THEN {"SILENCE"} ELSE {}) \cup (IF q <= cn THEN {"EOS"} ELSE {})
    BY <1>2, <1>3, <1>9 DEF Decide, take
  <2>2. /\ take \in 0..cn /\ (take = cn \/ (take < cn /\ take = q)) /\ take <= q
        /\ (q <= cn <=> q = take)
    BY <1>1, <2>1 DEF Min
  <2>3. Fifo!PullFinished(cn)
    BY <1>5, <1>6, <1>7, <1>8, <1>9, <2>1, <2>2 DEF Fifo!PullFinished
  <2> QED BY <1>1, <1>5, <2>3 DEF Fifo!Pull
<1>10. CASE ~cfin /\ Streams(q) /\ cn <= q
  <2>1. take = cn
    BY <1>1, <1>3, <1>10 DEF Min
  <2>2. state' = "STREAMING" /\ flags' = {} /\ wake' = (q - take < BackpressureLow)
    BY <1>1, <1>2, <1>10, <2>1 DEF Decide, take
  <2>3. Fifo!PullFull(cn)
    BY <1>5, <1>6, <1>7, <1>10, <2>1, <2>2 DEF Fifo!PullFull, Fifo!Prebuffered, Streams
  <2> QED BY <1>1, <1>5, <2>3 DEF Fifo!Pull
<1>11. CASE ~cfin /\ Streams(q) /\ cn > q
  <2>1. take = q /\ q - take = 0 /\ take < cn
    BY <1>1, <1>3, <1>11 DEF Min
  <2>2. state' = "UNDERRUN" /\ flags' = {"UNDERRUN"} /\ wake' = (0 < BackpressureLow)
    BY <1>1, <1>2, <1>11, <2>1 DEF Decide, take
  <2>3. state # "PREBUFFERING"
    BY <1>1, <1>11 DEF Streams
  <2>4. Fifo!PullShort(cn)
    BY <1>5, <1>6, <1>7, <1>11, <2>1, <2>2, <2>3 DEF Fifo!PullShort
  <2> QED BY <1>1, <1>5, <2>4 DEF Fifo!Pull
<1>12. CASE ~cfin /\ ~Streams(q)
  <2>1. take = 0 /\ q - take = q /\ state = "PREBUFFERING" /\ frames_read + take = frames_read
    BY <1>1, <1>3, <1>12 DEF Streams
  <2>2. UNCHANGED state /\ flags' = {"SILENCE"} /\ wake' = (q < BackpressureLow)
    BY <1>1, <1>2, <1>12, <2>1 DEF Decide, take
  <2>3. AbsQueue' = AbsQueue /\ AbsOut' = <<>>
    BY <1>1, <1>4, <2>1, StretchEmpty
  <2>4. Fifo!PullSilence(cn)
    BY <1>5, <1>6, <1>12, <2>1, <2>2, <2>3 DEF Fifo!PullSilence, Fifo!Prebuffered, Streams
  <2> QED BY <1>1, <1>5, <2>4 DEF Fifo!Pull
<1> QED BY <1>1, <1>9, <1>10, <1>11, <1>12

LEMMA StepSimulates ==
  IInv /\ IInv' /\ PullOK /\ AbsIs /\ AbsIs' /\ [Next]_vars => [Fifo!Next]_(Fifo!fifoVars)
<1> SUFFICES ASSUME IInv, IInv', PullOK, AbsIs, AbsIs', [Next]_vars
             PROVE  Fifo!Next \/ UNCHANGED Fifo!fifoVars
  OBVIOUS
<1>1. CASE Producer
  BY <1>1, HiddenSteps, PublishIsWrite, FinishIsFinish DEF Producer, Fifo!Next
<1>2. CASE Consumer
  BY <1>2, HiddenSteps, CursorsArePull, PublishIsFinish DEF Consumer, PullLoads, Fifo!Next
<1>3. CASE Reset
  BY <1>3, ResetIsReset DEF Fifo!Next
<1>4. CASE UNCHANGED vars
  BY <1>4, HiddenSteps
<1> QED BY <1>1, <1>2, <1>3, <1>4 DEF Next

LEMMA InitSimulates == Init => Fifo!Init
<1> SUFFICES ASSUME Init PROVE Fifo!Init
  OBVIOUS
<1>1. /\ frames_read = 0 /\ sent = 0 /\ Taken = 0 /\ ctake = 0 /\ cpc = "idle" /\ finished = FALSE
      /\ state = "PREBUFFERING" /\ flags = {} /\ wake = FALSE
  BY DEF Init, Taken
<1>2. AbsQueue = <<>> /\ AbsOut = <<>>
  BY <1>1, InitIInv, AbsForms, StretchEmpty DEF AbsIs
<1>3. AbsFinished = FALSE
  BY <1>1 DEF AbsFinished
<1> QED BY <1>1, <1>2, <1>3 DEF Fifo!Init

(* The lock-free ring implements the atomic FIFO, for every capacity,      *)
(* watermark and cursor width: whatever producer and consumer do between   *)
(* the loads, the copies and the stores of eaf_reservoir_write and _pull,  *)
(* each call looks as if it had happened in one step.                      *)
THEOREM ReservoirImplementsFifo == Spec => ImplementsFifo
<1>1. Init => PullOK /\ Fifo!Init
  BY InitPull, InitSimulates
<1>2. Spec => []IInv
  BY ReservoirInvariant
<1>3. IInv /\ PullOK /\ [Next]_vars => PullOK'
  BY NextPull
<1>4. IInv => AbsIs
  BY AbsForms
<1>5. IInv /\ IInv' /\ PullOK /\ AbsIs /\ AbsIs' /\ [Next]_vars => [Fifo!Next]_(Fifo!fifoVars)
  BY StepSimulates
<1> QED BY <1>1, <1>2, <1>3, <1>4, <1>5, PTL DEF Spec, ImplementsFifo, Fifo!Spec
=============================================================================
