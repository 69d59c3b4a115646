---------------------------- MODULE DecodeWorker ----------------------------
(***************************************************************************)
(* core/eaf_decoder.c and core/eaf_dec_input.c with the adapter of         *)
(* apps/decoders/dec_flac.c: the worker pulls decoded frames from the      *)
(* adapter and hands them to a sink, which may take only some.             *)
(*                                                                         *)
(* The calls are operators on a state s with the fields worker (the worker *)
(* of eaf_decode_worker_t) and dec (the adapter: input units in the ring,  *)
(* started once the library has opened the stream).  Sink(s, n) is the set *)
(* of [s, taken] the sink callback can produce when it is handed n frames. *)
(***************************************************************************)
EXTENDS Integers, FiniteSetsExt, Outcomes

CONSTANTS
  InputUnits,     \* capacity of the adapter's input ring
  HeaderUnits,    \* EAF_DEC_FLAC_HEADER_MIN
  ScratchFrames   \* scratch_frames

WorkerZero == [open |-> FALSE, pending |-> 0, sent |-> 0, written |-> 0]
DecoderZero == [input |-> 0, started |-> FALSE]

(* eaf_decoder_open and flac_open; the stream's format was validated. *)
eaf_decode_worker_open(s) ==
  Failed(s) \cup
  Done([s EXCEPT !.dec = DecoderZero, !.worker = [WorkerZero EXCEPT !.open = TRUE]])

eaf_decode_worker_can_push(s) == s.worker.open /\ s.worker.pending = s.worker.sent

(* eaf_dec_input_push: what fits. *)
eaf_dec_input_push(dec, n) == Min({n, InputUnits - dec.input})

(* What the worker consumes of n units; none while frames are pending. *)
Consumed(s, n) == IF s.worker.pending > s.worker.sent THEN 0 ELSE eaf_dec_input_push(s.dec, n)

eaf_decode_worker_push(s, n) == [s EXCEPT !.dec.input = @ + Consumed(s, n)]

(* flac_pull: [ok, dec, frames].  The library decodes some of the input,   *)
(* a frame from each unit; a stream it cannot open empties the ring.       *)
flac_pull(dec) ==
  IF ~dec.started /\ dec.input < HeaderUnits
  THEN {[ok |-> TRUE, dec |-> dec, frames |-> 0]}
  ELSE (IF dec.started THEN {}
        ELSE {[ok |-> FALSE, dec |-> [dec EXCEPT !.input = 0], frames |-> 0]})
       \cup {[ok |-> TRUE, dec |-> [started |-> TRUE, input |-> dec.input - n], frames |-> n] :
               n \in 0 .. Min({dec.input, ScratchFrames})}

drain(s, Sink(_, _)) ==
  {[o.s EXCEPT !.worker.sent = @ + o.taken, !.worker.written = @ + o.taken] :
     o \in Sink(s, s.worker.pending - s.worker.sent)}

(* Frames that are pending go first; then one buffer is pulled.  An error  *)
(* resets the adapter.                                                     *)
eaf_decode_worker_step(s, Sink(_, _)) ==
  LET Pulled(o) ==
        IF ~o.ok THEN Failed([s EXCEPT !.worker.pending = 0, !.worker.sent = 0, !.dec = DecoderZero])
        ELSE LET u == [s EXCEPT !.worker.pending = o.frames, !.worker.sent = 0, !.dec = o.dec]
             IN IF o.frames = 0 THEN Done(u) ELSE UNION {Done(v) : v \in drain(u, Sink)}
  IN CASE ~s.worker.open -> Failed(s)
       [] s.worker.open /\ s.worker.pending > s.worker.sent -> UNION {Done(v) : v \in drain(s, Sink)}
       [] OTHER -> UNION {Pulled(o) : o \in flac_pull(s.dec)}

eaf_decode_worker_close(s) ==
  [s EXCEPT !.worker.open = FALSE, !.worker.pending = 0, !.worker.sent = 0, !.dec = DecoderZero]
=============================================================================
