--------------------------- MODULE SendspinPlayer ---------------------------
(***************************************************************************)
(* apps/sendspin/sendspin_player.c: PCM or compressed chunks become stereo *)
(* frames for the output, block by block; what the output does not take is *)
(* dropped and counted.  The calls are operators on a state s with the     *)
(* fields player, worker and dec to their outcomes.                        *)
(*                                                                         *)
(* player.handed (history) counts the frames that were meant for the       *)
(* output since the stream began: those of the blocks that were offered to *)
(* it, and those of the blocks behind a refused one.                       *)
(***************************************************************************)
EXTENDS Integers, DecodeWorker

CONSTANTS
  ChunkFrames,    \* EAF_SENDPIN_PLAYER_CHUNK_FRAMES
  DecodeSteps,    \* EAF_SENDPIN_DECODE_STEPS
  HasDecoder,     \* eaf_sendspin_player_set_decoder was called
  RateControl     \* eaf_sendspin_player_set_rate_control was called

PlayerZero ==
  [active |-> FALSE, compressed |-> FALSE, rate |-> 0, resampling |-> FALSE,
   frames_written |-> 0, frames_dropped |-> 0, handed |-> 0]

(* board_write: eaf_board_output_write takes what the reservoir has room for. *)
board_write(n) == 0 .. n

(* The frames a block of count becomes: update_rate bounds the ratio, so   *)
(* that a block gains or loses at most one frame.                          *)
Produced(s, count) ==
  IF s.player.resampling THEN {count - 1, count, count + 1} ELSE {count}

Counted(s, produce, written) ==
  [s EXCEPT !.player.frames_written = s.player.frames_written + written,
            !.player.frames_dropped = s.player.frames_dropped + (produce - written),
            !.player.handed = s.player.handed + produce]

(* queue_block: [s, full], full when the output took all that was produced. *)
queue_block(s, count) ==
  UNION {{[s |-> Counted(s, produce, written), full |-> written = produce] :
            written \in board_write(produce)} : produce \in Produced(s, count)}

(* The loop over the blocks of a buffer, which a block that is not taken   *)
(* whole ends; left counts the frames of the blocks that did not get       *)
(* their turn.                                                             *)
QueuePass(l) ==
  LET count == Min({l.left, ChunkFrames})
  IN IF l.left = 0 \/ ~l.full THEN {l}
     ELSE {[s |-> o.s, full |-> o.full, left |-> l.left - count] : o \in queue_block(l.s, count)}

QueueBlocks(s, frames) == Loop(frames, [s |-> s, full |-> TRUE, left |-> frames], QueuePass)

(* The blocks that follow a refused one: the frames are gone. *)
Skipped(s, left) == [s EXCEPT !.player.handed = s.player.handed + left]

(* Plausible mistake: those of a decoded buffer are not counted either. *)
Refused_Uncounted(s, left) == Skipped(s, left)

(* Those of a decoded buffer are counted as dropped. *)
Refused(s, left) ==
  [s EXCEPT !.player.handed = s.player.handed + left,
            !.player.frames_dropped = s.player.frames_dropped + left]

(* The worker's sink: reports the whole buffer as taken. *)
decode_sink(s, frames) ==
  {[s |-> Refused(l.s, l.left), taken |-> frames] : l \in QueueBlocks(s, frames)}

Step(s) == eaf_decode_worker_step(s, decode_sink)

(* The first loop of write_compressed: left units are still to be fed; a   *)
(* step makes room when the worker cannot take any.                        *)
PushPass(l) ==
  LET n == IF eaf_decode_worker_can_push(l.w) THEN Consumed(l.w, l.left) ELSE 0
  IN IF ~l.ok \/ l.left = 0 THEN {l}
     ELSE IF n > 0
     THEN {[l EXCEPT !.w = eaf_decode_worker_push(l.w, l.left), !.left = l.left - n]}
     ELSE {[ok |-> o.ok, w |-> o.w, left |-> l.left] : o \in Step(l.w)}

PushInput(s, length) == Loop(DecodeSteps, [ok |-> TRUE, w |-> s, left |-> length], PushPass)

(* The second: more until a step has brought nothing. *)
DrainPass(l) ==
  IF ~l.ok \/ ~l.more THEN {l}
  ELSE {[ok |-> o.ok, w |-> o.w,
         more |-> ~(o.w.worker.written = l.w.worker.written /\ eaf_decode_worker_can_push(o.w))] :
          o \in Step(l.w)}

DrainOutput(s) == Loop(DecodeSteps, [ok |-> TRUE, w |-> s, more |-> TRUE], DrainPass)

(* The outcomes of a loop. *)
Outcome(loops) == {[ok |-> l.ok, w |-> l.w] : l \in loops}

write_compressed(s, length) ==
  Then(Outcome(PushInput(s, length)), LAMBDA t : Outcome(DrainOutput(t)))

(* One chunk of length frames or input units; drop_late is not set.  PCM   *)
(* behind a refused block is left without being counted.                   *)
eaf_sendspin_player_write(s, length, synchronized) ==
  LET u == [s EXCEPT !.player.resampling = RateControl /\ synchronized]
  IN CASE ~s.player.active -> Failed(s)
       [] s.player.active /\ s.player.compressed -> write_compressed(u, length)
       [] OTHER -> UNION {Done(Skipped(l.s, l.left)) : l \in QueueBlocks(u, length)}
----------------------------------------------------------------------------
(* Plausible mistake: the stream before is not closed. *)
eaf_sendspin_player_finish_Open(s) == eaf_decode_worker_close(s)

eaf_sendspin_player_finish(s) ==
  [eaf_decode_worker_close(s) EXCEPT !.player.active = FALSE, !.player.compressed = FALSE]

Playable(start) ==
  /\ start.channels \in {1, 2} /\ start.rate # 0
  /\ IF start.codec = "pcm" THEN start.bits \in {16, 24, 32}
     ELSE start.codec # "unknown" /\ HasDecoder

eaf_sendspin_player_begin(s, start) ==
  LET begun == [eaf_decode_worker_close(s) EXCEPT
                  !.player = [PlayerZero EXCEPT !.active = TRUE, !.rate = start.rate]]
      opened == {IF o.ok THEN [o EXCEPT !.w.player.compressed = TRUE]
                 ELSE [o EXCEPT !.w.player.active = FALSE] : o \in eaf_decode_worker_open(begun)}
  IN CASE s.player.active \/ ~Playable(start) -> Failed(s)
       [] ~s.player.active /\ Playable(start) /\ start.codec = "pcm" -> Done(begun)
       [] OTHER -> opened
=============================================================================
