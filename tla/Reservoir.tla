------------------------------ MODULE Reservoir ------------------------------
(***************************************************************************)
(* core/eaf_reservoir.c: the lock-free ring of PCM frames between one      *)
(* producer thread and one consumer (audio) thread.  Both operations are   *)
(* split where another thread can interleave: at every atomic load and     *)
(* store of a cursor or of the finished flag, and between the frames of    *)
(* the two memory copies.  The atomics are release/acquire                 *)
(* (hal/common/hal_atomic_c11.c) and each has a single writer, so an       *)
(* interleaving of these steps is what the C11 model allows.               *)
(*                                                                         *)
(* A frame is identified by its position in the source stream: 1, 2, ...   *)
(***************************************************************************)
EXTENDS Integers, Sequences

CONSTANTS
  Capacity,        \* frames the ring holds
  HighWatermark,   \* frames needed to leave PREBUFFERING
  CursorTurns,     \* turns of the ring after which the cursors wrap
  MaxPull,         \* bound: largest block a consumer asks for
  MaxFrames,       \* bound: length of the source stream between two resets
  MaxUnderruns     \* bound: underruns counted between two resets

(* What eaf_reservoir_init accepts.  The capacity is a power of two of at  *)
(* most 2^31, so it divides 2^32 into at least two turns of the ring.      *)
ASSUME ReservoirAssumption ==
  /\ Capacity \in Nat /\ Capacity >= 2
  /\ HighWatermark \in 1..Capacity
  /\ CursorTurns \in Nat /\ CursorTurns >= 2
  /\ MaxPull \in 1..Capacity
  /\ MaxFrames \in Nat /\ MaxUnderruns \in Nat

VARIABLES
  storage,      \* the ring: slot -> frame (0: never written)
  read_cursor,  \* next slot to pull, modulo CursorSpan; written by the consumer
  write_cursor, \* next slot to fill, modulo CursorSpan; written by the producer
  finished,     \* end of stream published
  state,        \* consumer's state machine
  underruns,    \* short blocks since the last reset
  frames_read,  \* frames pulled since the last reset
  sent,         \* history: frames published since the last reset
  ppc,          \* producer: "idle" or "copy" (inside eaf_reservoir_write)
  pframes,      \* producer: frames this write accepts
  pcopied,      \* producer: frames copied so far
  cpc,          \* consumer: "idle", "cursors" or "copy" (inside eaf_reservoir_pull)
  cn,           \* consumer: frames asked for
  cfin,         \* consumer: finished as loaded at entry
  ctake,        \* consumer: frames this pull takes
  block,        \* consumer: frames copied into the caller's buffer
  flags,        \* consumer: flags of the block
  wake          \* consumer: the pull wakes the producer

prodVars == <<ppc, pframes, pcopied>>
consVars == <<cpc, cn, cfin, ctake, block, flags, wake>>
vars == <<storage, read_cursor, write_cursor, finished, state, underruns,
          frames_read, sent, prodVars, consVars>>

(* The cursors count modulo this: 2^32 in the code. *)
CursorSpan == CursorTurns * Capacity

Min(a, b) == IF a < b THEN a ELSE b

BackpressureLow == Capacity \div 2

Init ==
  /\ storage = [s \in 0..(Capacity - 1) |-> 0]
  /\ read_cursor = 0 /\ write_cursor = 0
  /\ finished = FALSE
  /\ state = "PREBUFFERING"
  /\ underruns = 0 /\ frames_read = 0 /\ sent = 0
  /\ ppc = "idle" /\ pframes = 0 /\ pcopied = 0
  /\ cpc = "idle" /\ cn = 0 /\ cfin = FALSE /\ ctake = 0
  /\ block = <<>> /\ flags = {} /\ wake = FALSE

(* Plausible mistake: a distance that forgets that the cursors wrap. *)
Queued_NoWrap == IF write_cursor >= read_cursor THEN write_cursor - read_cursor ELSE 0

(* write - read in unsigned arithmetic. *)
Queued == (write_cursor - read_cursor) % CursorSpan

(* Slot of the i-th frame (from 0) of a copy that begins at a cursor: the  *)
(* masked cursor, then on to slot 0 with the second memcpy.                *)
Slot(cursor, i) == ((cursor % Capacity) + i) % Capacity
----------------------------------------------------------------------------
(* The producer. *)

(* Plausible mistake: one frame too many is taken to be free. *)
Free_OffByOne == Capacity + 1 - Queued

Free == Capacity - Queued

(* eaf_reservoir_write up to the copy: both cursors loaded, the offer      *)
(* clamped to the free space.  (A write after finish returns 0.)           *)
WriteBegin(n) ==
  /\ ppc = "idle" /\ ~finished
  /\ sent + n <= MaxFrames
  /\ pframes' = Min(n, Free)
  /\ pcopied' = 0
  /\ ppc' = "copy"
  /\ UNCHANGED <<storage, read_cursor, write_cursor, finished, state, underruns,
                 frames_read, sent, consVars>>

WriteCopy ==
  /\ ppc = "copy" /\ pcopied < pframes
  /\ storage' = [storage EXCEPT ![Slot(write_cursor, pcopied)] = sent + pcopied + 1]
  /\ pcopied' = pcopied + 1
  /\ UNCHANGED <<read_cursor, write_cursor, finished, state, underruns, frames_read,
                 sent, ppc, pframes, consVars>>

WritePublish ==
  /\ ppc = "copy" /\ pcopied = pframes
  /\ write_cursor' = (write_cursor + pframes) % CursorSpan
  /\ sent' = sent + pframes
  /\ ppc' = "idle"
  /\ UNCHANGED <<storage, read_cursor, finished, state, underruns, frames_read,
                 pframes, pcopied, consVars>>

(* eaf_reservoir_finish, called by the producer between two writes. *)
Finish ==
  /\ ppc = "idle" /\ ~finished
  /\ finished' = TRUE
  /\ UNCHANGED <<storage, read_cursor, write_cursor, state, underruns, frames_read,
                 sent, prodVars, consVars>>
----------------------------------------------------------------------------
(* The consumer. *)

(* finished is loaded before the cursors. *)
PullFinishedFlag(n) ==
  /\ cpc = "idle" /\ underruns < MaxUnderruns
  /\ cpc' = "cursors"
  /\ cn' = n
  /\ cfin' = finished
  /\ UNCHANGED <<storage, read_cursor, write_cursor, finished, state, underruns,
                 frames_read, sent, prodVars, ctake, block, flags, wake>>

Streams(available) ==
  \/ state \in {"STREAMING", "UNDERRUN"}
  \/ state = "PREBUFFERING" /\ available >= HighWatermark /\ available >= cn

(* The consumer's private state after the cursors are loaded: how many     *)
(* frames the block takes, its flags, the next state, and whether the      *)
(* producer is woken.                                                      *)
Decide(fin, available) ==
  LET take == IF fin \/ Streams(available) THEN Min(available, cn) ELSE 0
      short == ~fin /\ Streams(available) /\ take < cn
  IN /\ ctake' = take
     /\ state' = IF fin THEN IF available <= cn THEN "DRAINED" ELSE "STREAMING"
                 ELSE IF short THEN "UNDERRUN"
                 ELSE IF Streams(available) THEN "STREAMING"
                 ELSE state
     /\ flags' = IF fin THEN (IF take = 0 THEN {"SILENCE"} ELSE {})
                               \cup (IF available <= cn THEN {"EOS"} ELSE {})
                 ELSE IF short THEN {"UNDERRUN"}
                 ELSE IF Streams(available) THEN {}
                 ELSE {"SILENCE"}
     /\ underruns' = IF short THEN underruns + 1 ELSE underruns
     /\ wake' = (~fin /\ available - take < BackpressureLow)

PullCursors ==
  /\ cpc = "cursors"
  /\ Decide(cfin, Queued)
  /\ block' = <<>>
  /\ cpc' = "copy"
  /\ UNCHANGED <<storage, read_cursor, write_cursor, finished, frames_read, sent,
                 prodVars, cn, cfin>>

(* Plausible mistake: the two loads swapped (the level waits in ctake). *)
PullLoads_Swapped ==
  \/ \E n \in 1..MaxPull :
       /\ cpc = "idle" /\ underruns < MaxUnderruns
       /\ cpc' = "cursors"
       /\ cn' = n
       /\ ctake' = Queued
       /\ UNCHANGED <<storage, read_cursor, write_cursor, finished, state, underruns,
                      frames_read, sent, prodVars, cfin, block, flags, wake>>
  \/ /\ cpc = "cursors"
     /\ Decide(finished, ctake)
     /\ block' = <<>>
     /\ cpc' = "copy"
     /\ UNCHANGED <<storage, read_cursor, write_cursor, finished, frames_read, sent,
                    prodVars, cn, cfin>>

(* "Acquire EOF before the cursor: observing EOF must include the final    *)
(* write."                                                                 *)
PullLoads == (\E n \in 1..MaxPull : PullFinishedFlag(n)) \/ PullCursors

PullCopy ==
  /\ cpc = "copy" /\ Len(block) < ctake
  /\ block' = Append(block, storage[Slot(read_cursor, Len(block))])
  /\ UNCHANGED <<storage, read_cursor, write_cursor, finished, state, underruns,
                 frames_read, sent, prodVars, cpc, cn, cfin, ctake, flags, wake>>

PullPublish ==
  /\ cpc = "copy" /\ Len(block) = ctake
  /\ read_cursor' = (read_cursor + ctake) % CursorSpan
  /\ frames_read' = frames_read + ctake
  /\ cpc' = "idle"
  /\ UNCHANGED <<storage, write_cursor, finished, state, underruns, sent, prodVars,
                 cn, cfin, ctake, block, flags, wake>>
----------------------------------------------------------------------------
(* eaf_reservoir_reset, "only while both endpoints are quiescent".  The    *)
(* ring is not cleared by the code; what it still holds belongs to no      *)
(* frame of the next stream, hence 0.                                      *)
Reset ==
  /\ ppc = "idle" /\ cpc = "idle"
  /\ storage' = [s \in 0..(Capacity - 1) |-> 0]
  /\ read_cursor' = 0 /\ write_cursor' = 0
  /\ finished' = FALSE
  /\ state' = "PREBUFFERING"
  /\ underruns' = 0 /\ frames_read' = 0 /\ sent' = 0
  /\ cfin' = FALSE /\ ctake' = 0 /\ block' = <<>> /\ flags' = {} /\ wake' = FALSE
  /\ UNCHANGED <<prodVars, cpc, cn>>

Producer == (\E n \in 1..Capacity : WriteBegin(n)) \/ WriteCopy \/ WritePublish \/ Finish
Consumer == PullLoads \/ PullCopy \/ PullPublish
Next == Producer \/ Consumer \/ Reset

Spec == Init /\ [][Next]_vars
----------------------------------------------------------------------------
TypeOK ==
  /\ storage \in [0..(Capacity - 1) -> 0..MaxFrames]
  /\ read_cursor \in 0..(CursorSpan - 1) /\ write_cursor \in 0..(CursorSpan - 1)
  /\ finished \in BOOLEAN
  /\ state \in {"PREBUFFERING", "STREAMING", "UNDERRUN", "DRAINED"}
  /\ underruns \in 0..MaxUnderruns
  /\ frames_read \in 0..MaxFrames /\ sent \in 0..MaxFrames
  /\ ppc \in {"idle", "copy"} /\ pframes \in 0..Capacity /\ pcopied \in 0..pframes
  /\ cpc \in {"idle", "cursors", "copy"} /\ cn \in 0..MaxPull
  /\ cfin \in BOOLEAN /\ ctake \in 0..Capacity
  /\ block \in Seq(0..MaxFrames) /\ Len(block) <= ctake
  /\ flags \in SUBSET {"EOS", "UNDERRUN", "SILENCE"} /\ wake \in BOOLEAN

(* The producer never overwrites a frame the consumer has not yet handed   *)
(* back, even though it works from a read cursor loaded before the copy:   *)
(* the slot it is about to fill is none of the queued frames' slots, those *)
(* under the consumer's own copy included.                                 *)
NoOverwrite ==
  ppc = "copy" /\ pcopied < pframes =>
    \A i \in frames_read..(sent - 1) :
      i % Capacity # Slot(write_cursor, pcopied)

(* No frame is lost, duplicated, reordered or torn: the frames in the      *)
(* caller's block are exactly the next ones of the source stream.          *)
BlockInOrder ==
  LET first == IF cpc = "copy" THEN frames_read ELSE frames_read - ctake
  IN \A i \in 1..Len(block) : block[i] = first + i

(* A block that carries EOS is the last one: the producer had finished and *)
(* every frame it published has been pulled.                               *)
EosIsComplete ==
  cpc = "idle" /\ "EOS" \in flags => finished /\ frames_read = sent

----------------------------------------------------------------------------
(* The inductive invariant behind the three properties above. *)

(* Each cursor stands for a position of the stream; the queue fits. *)
CursorsOK ==
  /\ write_cursor = sent % CursorSpan /\ read_cursor = frames_read % CursorSpan
  /\ frames_read <= sent /\ sent - frames_read <= Capacity

(* A write in progress was clamped to space that is still free. *)
ProducerOK ==
  ppc = "copy" => /\ ~finished
                  /\ sent + pframes <= MaxFrames
                  /\ sent + pframes - frames_read <= Capacity

Copied == IF ppc = "copy" THEN pcopied ELSE 0

(* Every queued frame, and every frame copied but not yet published, is in *)
(* its slot.                                                               *)
StorageOK ==
  \A i \in frames_read..(sent + Copied - 1) : storage[i % Capacity] = i + 1

(* A pull in progress takes frames that are there. *)
ConsumerOK ==
  /\ cfin => finished
  /\ cpc = "copy" => frames_read + ctake <= sent
  /\ cpc = "cursors" => underruns < MaxUnderruns
  /\ cpc # "copy" => Len(block) = ctake /\ ctake <= frames_read

(* EOS is decided only when this pull leaves nothing queued. *)
EosOK ==
  "EOS" \in flags =>
    finished /\ sent = frames_read + (IF cpc = "copy" THEN ctake ELSE 0)

IInv ==
  /\ TypeOK /\ CursorsOK /\ ProducerOK /\ StorageOK
  /\ ConsumerOK /\ BlockInOrder /\ EosOK
----------------------------------------------------------------------------
(* Refinement: between PullCursors and PullPublish the abstract pull has   *)
(* happened already, so the taken frames left the abstract queue; an end   *)
(* of stream published during a pull that did not see it takes effect when *)
(* that pull is over.                                                      *)
Taken == IF cpc = "copy" THEN ctake ELSE 0
AbsQueue ==
  [i \in 1..(sent - frames_read - Taken) |-> storage[Slot(read_cursor, Taken + i - 1)]]
AbsOut ==
  block \o [i \in 1..(ctake - Len(block)) |->
              storage[Slot(read_cursor, Len(block) + i - 1)]]

AbsFinished == finished /\ (cpc = "idle" \/ cfin)

Fifo == INSTANCE PcmFifo WITH
  Frame <- 1..MaxFrames, queue <- AbsQueue, out <- AbsOut, finished <- AbsFinished

(* What the refinement needs besides IInv: a pull asks for something, and  *)
(* a drained ring is one whose end every later pull has seen.              *)
PullOK ==
  /\ cpc = "cursors" => cn >= 1
  /\ state = "DRAINED" => finished /\ (cpc # "idle" => cfin)

(* Under IInv the mapped sequences are stretches of the stream. *)
Stretch(first, n) == [i \in 1..n |-> first + i]

AbsIs ==
  /\ AbsQueue = Stretch(frames_read + Taken, sent - frames_read - Taken)
  /\ AbsOut = Stretch(IF cpc = "copy" THEN frames_read ELSE frames_read - ctake, ctake)

(* The ring implements the atomic FIFO: each pull returns what it would    *)
(* have returned had it run alone at the moment it loaded the cursors, and *)
(* each write takes effect when it stores the write cursor.                *)
ImplementsFifo == Fifo!Spec
=============================================================================
