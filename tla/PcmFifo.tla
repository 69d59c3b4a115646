------------------------------- MODULE PcmFifo -------------------------------
(***************************************************************************)
(* What the PCM reservoir promises its two endpoints: a bounded FIFO of    *)
(* frames with one producer and one consumer, in which every operation is  *)
(* one step.  Reservoir.tla is shown to implement it, and the components   *)
(* that sit on both sides of a reservoir use these actions as they are.    *)
(***************************************************************************)
EXTENDS Naturals, Sequences

CONSTANTS
  Frame,          \* the PCM frames
  Capacity,       \* frames the ring holds
  HighWatermark,  \* frames needed to leave PREBUFFERING
  BackpressureLow \* below this level a pull wakes the producer

VARIABLES
  queue,    \* accepted frames not pulled yet, oldest first
  finished, \* the producer has published end of stream
  state,    \* PREBUFFERING, STREAMING, UNDERRUN or DRAINED
  out,      \* the frames in the block the last pull returned (the rest is padding)
  flags,    \* the flags of that block
  wake      \* that pull called wake_producer

fifoVars == <<queue, finished, state, out, flags, wake>>

Init ==
  /\ queue = <<>> /\ out = <<>>
  /\ finished = FALSE /\ wake = FALSE
  /\ state = "PREBUFFERING"
  /\ flags = {}

(* eaf_reservoir_write: any part of the offer that fits may be taken (the  *)
(* producer's view of the free space may lag behind the consumer).         *)
Write(frames) ==
  /\ ~finished
  /\ Len(queue) + Len(frames) <= Capacity
  /\ queue' = queue \o frames
  /\ UNCHANGED <<finished, state, out, flags, wake>>

Finish ==
  /\ finished' = TRUE
  /\ UNCHANGED <<queue, state, out, flags, wake>>

Deliver(k) ==
  /\ out' = SubSeq(queue, 1, k)
  /\ queue' = SubSeq(queue, k + 1, Len(queue))

(* A pull after end of stream: the block that empties the queue, and no    *)
(* other, carries EOS.                                                     *)
PullFinished(n) ==
  /\ finished
  /\ \E k \in 0..n :
       /\ k = n \/ (k < n /\ k = Len(queue))
       /\ k <= Len(queue)
       /\ Deliver(k)
       /\ state' = IF queue' = <<>> THEN "DRAINED" ELSE "STREAMING"
       /\ flags' = (IF k = 0 THEN {"SILENCE"} ELSE {})
                     \cup (IF queue' = <<>> THEN {"EOS"} ELSE {})
  /\ wake' = FALSE

Prebuffered(n) == Len(queue) >= HighWatermark /\ Len(queue) >= n

(* A whole block of frames. *)
PullFull(n) ==
  /\ ~finished
  /\ state # "PREBUFFERING" \/ Prebuffered(n)
  /\ n <= Len(queue)
  /\ Deliver(n)
  /\ state' = "STREAMING"
  /\ flags' = {}
  /\ wake' = (Len(queue') < BackpressureLow)

(* A mid-stream shortfall: what is queued is played, never dropped. *)
PullShort(n) ==
  /\ ~finished
  /\ state # "PREBUFFERING"
  /\ n > Len(queue)
  /\ Deliver(Len(queue))
  /\ state' = "UNDERRUN"
  /\ flags' = {"UNDERRUN"}
  /\ wake' = (0 < BackpressureLow)

(* Silence until the watermark is reached. *)
PullSilence(n) ==
  /\ ~finished
  /\ state = "PREBUFFERING" /\ ~Prebuffered(n)
  /\ out' = <<>>
  /\ flags' = {"SILENCE"}
  /\ wake' = (Len(queue) < BackpressureLow)
  /\ UNCHANGED <<queue, state>>

Pull(n) ==
  /\ PullFinished(n) \/ PullFull(n) \/ PullShort(n) \/ PullSilence(n)
  /\ UNCHANGED finished

(* Plausible mistake: the cursors survive a reset. *)
Reset_KeepQueue ==
  /\ out' = <<>>
  /\ finished' = FALSE /\ wake' = FALSE
  /\ state' = "PREBUFFERING"
  /\ flags' = {}
  /\ UNCHANGED queue

Reset ==
  /\ queue' = <<>> /\ out' = <<>>
  /\ finished' = FALSE /\ wake' = FALSE
  /\ state' = "PREBUFFERING"
  /\ flags' = {}

(* Some frames are appended; which ones is the producer's choice. *)
WriteSome ==
  /\ Write(SubSeq(queue', Len(queue) + 1, Len(queue')))
  /\ queue' \in Seq(Frame)

Next ==
  \/ WriteSome
  \/ Finish
  \/ \E n \in 1..Capacity : Pull(n)
  \/ Reset

Spec == Init /\ [][Next]_fifoVars
=============================================================================
