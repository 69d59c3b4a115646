---------------------------- MODULE BoardOutput ----------------------------
(***************************************************************************)
(* platform/esp32_output/board_output.c: the audio worker of a board and   *)
(* the transport thread that starts, feeds, pauses, releases, replaces and *)
(* stops its streams.  They share the reservoir (PcmFifo) and the atomics  *)
(* quit, run_gate, pause_request, pause_ack, failed and done.  The         *)
(* pipeline is reduced to its lifecycle (Pipeline.tla has the rest).       *)
(*                                                                         *)
(* A frame is <<track, position in the track>>.                            *)
(***************************************************************************)
EXTENDS Integers, Sequences

CONSTANTS
  Capacity, HighWatermark, BlockFrames, \* reservoir and block
  Failures,    \* whether sink, node, thread and pause calls may fail
  MaxTracks,   \* bound: streams set up
  MaxFrames,   \* bound: frames written per stream
  MaxPauses    \* bound: pause and unpause requests

ASSUME OutputAssumption ==
  /\ {Capacity, HighWatermark, BlockFrames, MaxTracks, MaxFrames} \subseteq Nat \ {0}
  /\ HighWatermark <= Capacity /\ BlockFrames <= Capacity
  /\ Failures \in BOOLEAN /\ MaxPauses \in Nat

VARIABLES
  queue, finished, state, out, flags, wake, \* the reservoir
  pipe, completed,  \* the pipeline
  active,           \* the owner has something to stop
  impl,             \* audio.impl: the worker has not been joined
  quit, run_gate, pause_request, pause_ack, failed, done, \* the atomics
  thr,              \* worker's place in consume()
  tpc,              \* transport's place
  cont,             \* transport: a start follows the stop ("start", "replace")
  held,             \* transport: the start leaves the worker gated
  want,             \* transport: the pause asked for
  promised,         \* history: a pause has returned EAF_OK and still stands
  track, accepted, heard, \* history: stream, frames written, frames committed
  pauses            \* bound

fifo == <<queue, finished, state, out, flags, wake>>
graph == <<pipe, completed>>
thread == <<active, impl>>
transport == <<tpc, cont, held, want, promised>>
history == <<track, accepted, heard>>
vars == <<fifo, graph, thread, quit, run_gate, pause_request, pause_ack, failed, done,
          thr, transport, history, pauses>>

Fifo == INSTANCE PcmFifo WITH
  Frame <- (1..MaxTracks) \X (1..MaxFrames), BackpressureLow <- Capacity \div 2

Init ==
  /\ Fifo!Init
  /\ pipe = "UNINITIALIZED" /\ completed = FALSE
  /\ active = FALSE /\ impl = FALSE
  /\ quit = FALSE /\ run_gate = FALSE /\ pause_request = FALSE /\ pause_ack = FALSE
  /\ failed = FALSE /\ done = FALSE
  /\ thr = "none"
  /\ tpc = "idle" /\ cont = "none" /\ held = FALSE /\ want = FALSE /\ promised = FALSE
  /\ track = 0 /\ accepted = 0 /\ heard = <<>> /\ pauses = 0

MayFail == IF Failures THEN {TRUE, FALSE} ELSE {FALSE}
----------------------------------------------------------------------------
(* The worker, consume(). *)

WorkerKeeps ==
  UNCHANGED <<fifo, graph, thread, quit, run_gate, pause_request, transport, history, pauses>>

(* It sleeps until the gate opens. *)
WorkerGate ==
  /\ thr = "gate" /\ (run_gate \/ quit)
  /\ thr' = "loop"
  /\ WorkerKeeps /\ UNCHANGED <<pause_ack, failed, done>>

WorkerLoop ==
  /\ thr = "loop"
  /\ thr' = IF quit THEN "exit" ELSE IF pause_request THEN "pausing" ELSE "process"
  /\ WorkerKeeps /\ UNCHANGED <<pause_ack, failed, done>>

(* sink_pause_hook(true) *)
WorkerPausing ==
  /\ thr = "pausing"
  /\ \E fails \in MayFail :
       failed' = (failed \/ fails) /\ thr' = IF fails THEN "exit" ELSE "ack"
  /\ WorkerKeeps /\ UNCHANGED <<pause_ack, done>>

WorkerAck ==
  /\ thr = "ack"
  /\ pause_ack' = TRUE /\ thr' = "paused"
  /\ WorkerKeeps /\ UNCHANGED <<failed, done>>

(* Plausible mistake: a paused worker does not look at quit. *)
WorkerPaused_NoQuit ==
  /\ thr = "paused" /\ ~pause_request
  /\ thr' = "resuming"
  /\ WorkerKeeps /\ UNCHANGED <<pause_ack, failed, done>>

(* Plausible mistake: only quit ends a pause. *)
WorkerPaused_QuitOnly ==
  /\ thr = "paused" /\ quit
  /\ thr' = "resuming"
  /\ WorkerKeeps /\ UNCHANGED <<pause_ack, failed, done>>

WorkerPaused ==
  /\ thr = "paused" /\ (~pause_request \/ quit)
  /\ thr' = "resuming"
  /\ WorkerKeeps /\ UNCHANGED <<pause_ack, failed, done>>

(* sink_pause_hook(false) *)
WorkerResuming ==
  /\ thr = "resuming"
  /\ \E fails \in MayFail :
       failed' = (failed \/ fails) /\ thr' = IF fails THEN "exit" ELSE "unack"
  /\ WorkerKeeps /\ UNCHANGED <<pause_ack, done>>

(* Plausible mistake: after a pause the next block follows at once. *)
WorkerUnack_NoRecheck ==
  /\ thr = "unack"
  /\ pause_ack' = FALSE /\ thr' = "process"
  /\ WorkerKeeps /\ UNCHANGED <<failed, done>>

WorkerUnack ==
  /\ thr = "unack"
  /\ pause_ack' = FALSE /\ thr' = "loop"
  /\ WorkerKeeps /\ UNCHANGED <<failed, done>>

(* eaf_pipeline_process: no buffer to fill, or a block that fails or is     *)
(* committed; the last one ends the stream.                                *)
ProcessFails == failed' = TRUE /\ thr' = "exit" /\ UNCHANGED <<completed, heard>>

WorkerProcess ==
  /\ thr = "process"
  /\ \/ (Failures \/ pipe # "RUNNING") /\ ProcessFails /\ UNCHANGED fifo
     \/ /\ pipe = "RUNNING"
        /\ Fifo!Pull(BlockFrames)
        /\ \/ Failures /\ ProcessFails
           \/ /\ heard' = heard \o out'
              /\ completed' = ("EOS" \in flags')
              /\ thr' = IF completed' THEN "exit" ELSE "loop"
              /\ UNCHANGED failed
  /\ UNCHANGED <<pipe, thread, quit, run_gate, pause_request, pause_ack, done, transport,
                 track, accepted, pauses>>

(* Plausible mistake: done is set only at the end of the stream. *)
WorkerExit_EofOnly ==
  /\ thr = "exit"
  /\ done' = completed /\ thr' = "gone"
  /\ WorkerKeeps /\ UNCHANGED <<pause_ack, failed>>

WorkerExit ==
  /\ thr = "exit"
  /\ done' = TRUE /\ thr' = "gone"
  /\ WorkerKeeps /\ UNCHANGED <<pause_ack, failed>>

Worker ==
  \/ WorkerGate \/ WorkerLoop \/ WorkerPausing \/ WorkerAck \/ WorkerPaused
  \/ WorkerResuming \/ WorkerUnack \/ WorkerProcess \/ WorkerExit
----------------------------------------------------------------------------
(* The transport thread: eaf_board_output_stop. *)

Return == tpc' = "idle" /\ cont' = "none" /\ held' = FALSE

(* Plausible mistake: the worker is told to quit but not joined. *)
StopQuit_NoJoin ==
  /\ tpc = "stop"
  /\ quit' = TRUE /\ tpc' = "teardown"
  /\ UNCHANGED <<fifo, graph, thread, run_gate, pause_request, pause_ack, failed, done, thr,
                 cont, held, want, promised, history, pauses>>

StopQuit ==
  /\ tpc = "stop"
  /\ quit' = TRUE /\ tpc' = IF impl THEN "join" ELSE "teardown"
  /\ UNCHANGED <<fifo, graph, thread, run_gate, pause_request, pause_ack, failed, done, thr,
                 cont, held, want, promised, history, pauses>>

StopJoin ==
  /\ tpc = "join" /\ thr = "gone"
  /\ impl' = FALSE /\ thr' = "none" /\ tpc' = "teardown"
  /\ UNCHANGED <<fifo, graph, active, quit, run_gate, pause_request, pause_ack, failed, done,
                 cont, held, want, promised, history, pauses>>

(* A join that fails keeps everything. *)
StopJoinFails ==
  /\ tpc = "join" /\ Failures
  /\ failed' = TRUE
  /\ Return
  /\ UNCHANGED <<fifo, graph, thread, quit, run_gate, pause_request, pause_ack, done, thr,
                 want, promised, history, pauses>>

(* What comes after the stop: nothing, or the start that asked for it. *)
AfterStop(stillActive) ==
  IF cont # "none" /\ ~stillActive
  THEN tpc' = "setup" /\ UNCHANGED <<cont, held>>
  ELSE Return

(* Plausible mistake: the owner forgets an output it could not tear down. *)
StopTeardown_Forget ==
  /\ tpc = "teardown"
  /\ \E p \in {"UNINITIALIZED"} \cup IF Failures THEN {pipe, "RECOVERY"} ELSE {} :
       /\ pipe' = p
       /\ active' = FALSE
       /\ failed' = (failed \/ p # "UNINITIALIZED")
       /\ AfterStop(FALSE)
  /\ UNCHANGED <<fifo, completed, impl, quit, run_gate, pause_request, pause_ack, done, thr,
                 want, promised, history, pauses>>

(* eaf_pipeline_stop, then eaf_pipeline_deinit; if either fails, the       *)
(* output stays active so that stop can be tried again.                    *)
StopTeardown ==
  /\ tpc = "teardown"
  /\ \E stopFails \in MayFail, deinitFails \in MayFail :
       LET halted == pipe \in {"RUNNING", "RECOVERY"} /\ stopFails
           ok == ~halted /\ ~deinitFails
       IN /\ pipe' = IF halted THEN pipe ELSE IF deinitFails THEN "RECOVERY" ELSE "UNINITIALIZED"
          /\ completed' = (completed /\ ~ok)
          /\ active' = ~ok
          /\ failed' = (failed \/ ~ok)
          /\ AfterStop(~ok)
  /\ UNCHANGED <<fifo, impl, quit, run_gate, pause_request, pause_ack, done, thr,
                 want, promised, history, pauses>>
----------------------------------------------------------------------------
(* eaf_board_output_start. *)

(* Setting up or creating the thread failed: the pipeline is released; if  *)
(* that fails too, there is something to stop.                             *)
StartFails ==
  /\ Failures
  /\ \E cleanupFails \in BOOLEAN :
       /\ pipe' = IF cleanupFails THEN "RECOVERY" ELSE "UNINITIALIZED"
       /\ active' = cleanupFails
       /\ failed' = IF cleanupFails THEN TRUE ELSE failed
  /\ Return

(* reservoir_init, pipeline_init and configure. *)
StartSetup ==
  /\ tpc = "setup" /\ track < MaxTracks
  /\ Fifo!Reset
  /\ track' = track + 1 /\ accepted' = 0 /\ heard' = <<>>
  /\ \/ pipe' = "CONFIGURED" /\ tpc' = "create" /\ UNCHANGED <<active, failed, cont, held>>
     \/ StartFails
  /\ UNCHANGED <<completed, impl, quit, run_gate, pause_request, pause_ack, done, thr, want,
                 promised, pauses>>

(* The atomics are reset, the worker is created. *)
StartCreate ==
  /\ tpc = "create"
  /\ quit' = FALSE /\ run_gate' = FALSE /\ pause_request' = FALSE /\ pause_ack' = FALSE
  /\ done' = FALSE
  /\ \/ /\ failed' = FALSE /\ impl' = TRUE /\ active' = TRUE
        /\ thr' = "gate" /\ tpc' = "begin" /\ UNCHANGED <<pipe, cont, held>>
     \/ /\ Failures
        /\ \E cleanupFails \in BOOLEAN :
             /\ pipe' = IF cleanupFails THEN "RECOVERY" ELSE "UNINITIALIZED"
             /\ active' = cleanupFails /\ failed' = cleanupFails
        /\ Return
        /\ UNCHANGED <<impl, thr>>
  /\ UNCHANGED <<fifo, completed, want, promised, history, pauses>>

(* eaf_pipeline_start, which resets the reservoir; then the gate. *)
StartBegin ==
  /\ tpc = "begin"
  /\ Fifo!Reset /\ completed' = FALSE
  /\ \E fails \in MayFail, stopFails \in MayFail :
       IF fails
       THEN /\ pipe' = IF stopFails THEN "RECOVERY" ELSE "STOPPED"
            /\ tpc' = "stop" /\ cont' = "none" /\ held' = FALSE
            /\ UNCHANGED run_gate
       ELSE pipe' = "RUNNING" /\ run_gate' = ~held /\ Return
  /\ UNCHANGED <<thread, quit, pause_request, pause_ack, failed, done, thr, want, promised,
                 history, pauses>>
----------------------------------------------------------------------------
(* The calls.  A finished stream is reaped by start, any by replace. *)

Call(place, follow, h) ==
  /\ tpc = "idle"
  /\ tpc' = place /\ cont' = follow /\ held' = h /\ promised' = FALSE
  /\ UNCHANGED <<fifo, graph, thread, quit, run_gate, pause_request, pause_ack, failed, done,
                 thr, want, history, pauses>>

CallStop == active /\ Call("stop", "none", FALSE)

CallStart(h) ==
  /\ track < MaxTracks
  /\ \/ ~active /\ Call("setup", "start", h)
     \/ active /\ done /\ Call("stop", "start", h)

CallReplace(h) ==
  /\ track < MaxTracks
  /\ Call(IF active THEN "stop" ELSE "setup", "replace", h)

(* request_pause: before the gate opens the transport answers for the      *)
(* worker.                                                                 *)
CallPause(paused) ==
  /\ tpc = "idle" /\ active
  /\ pauses < MaxPauses /\ pauses' = pauses + 1
  /\ pause_request' = paused /\ want' = paused
  /\ IF run_gate
     THEN tpc' = "waiting" /\ promised' = FALSE /\ UNCHANGED pause_ack
     ELSE pause_ack' = paused /\ promised' = paused /\ UNCHANGED tpc
  /\ UNCHANGED <<fifo, graph, thread, quit, run_gate, failed, done, thr, cont, held, history>>

PauseAnswered ==
  /\ tpc = "waiting" /\ (pause_ack = want \/ done)
  /\ tpc' = "idle" /\ promised' = (want /\ ~failed)
  /\ UNCHANGED <<fifo, graph, thread, quit, run_gate, pause_request, pause_ack, failed, done,
                 thr, cont, held, want, history, pauses>>

(* The 1.5 s are over: the request stands, and may be answered later. *)
PauseTimeout ==
  /\ tpc = "waiting" /\ pause_ack # want /\ ~done
  /\ tpc' = "idle"
  /\ UNCHANGED <<fifo, graph, thread, quit, run_gate, pause_request, pause_ack, failed, done,
                 thr, cont, held, want, promised, history, pauses>>

(* Called once for an output that was started held (lms_client.c).         *)
CallRelease ==
  /\ tpc = "idle" /\ active /\ ~failed /\ ~run_gate
  /\ pause_request' = FALSE /\ pause_ack' = FALSE /\ run_gate' = TRUE /\ promised' = FALSE
  /\ UNCHANGED <<fifo, graph, thread, quit, failed, done, thr, tpc, cont, held, want, history,
                 pauses>>

(* The transport feeds the stream it started. *)
CallWrite ==
  /\ tpc = "idle" /\ active /\ impl /\ pipe = "RUNNING" /\ accepted < MaxFrames
  /\ Fifo!Write(<< <<track, accepted + 1>> >>)
  /\ accepted' = accepted + 1
  /\ UNCHANGED <<graph, thread, quit, run_gate, pause_request, pause_ack, failed, done, thr,
                 transport, track, heard, pauses>>

CallFinish ==
  /\ tpc = "idle" /\ active /\ impl /\ pipe = "RUNNING" /\ ~finished
  /\ Fifo!Finish
  /\ UNCHANGED <<graph, thread, quit, run_gate, pause_request, pause_ack, failed, done, thr,
                 transport, history, pauses>>

TransportCall ==
  \/ CallStop \/ CallRelease \/ CallWrite \/ CallFinish
  \/ \E h \in BOOLEAN : CallStart(h) \/ CallReplace(h)
  \/ \E paused \in BOOLEAN : CallPause(paused)

TransportGoesOn ==
  \/ StopQuit \/ StopJoin \/ StopTeardown \/ StartSetup \/ StartCreate \/ StartBegin
  \/ PauseAnswered

Next ==
  Worker \/ TransportCall \/ TransportGoesOn \/ PauseTimeout \/ StopJoinFails

(* The worker is scheduled, and the transport goes on with a call it has   *)
(* begun; that it gives up on a pause or on a join is not assumed.         *)
Spec == Init /\ [][Next]_vars /\ WF_vars(Worker) /\ WF_vars(TransportGoesOn)
----------------------------------------------------------------------------
(* "No graph access until START has reset the reservoir and enabled        *)
(* output", nor after stop has begun to take it apart: while the transport *)
(* reconfigures the graph, the worker is gone or held at the gate.         *)
GraphExclusive ==
  /\ tpc \in {"setup", "create", "teardown"} => thr = "none"
  /\ tpc = "begin" => thr = "gate"
  /\ thr = "process" => pipe = "RUNNING"

(* A pause that was granted is kept: no block is processed until the       *)
(* transport unpauses, releases, stops or starts, even when an earlier     *)
(* request timed out and its answer came late.                             *)
PauseIsKept == promised => thr # "process"

(* Nothing of an old track reaches the new one, and nothing of the track   *)
(* is lost or reordered, as long as no failure is reported.                *)
TrackIntact ==
  tpc \notin {"create", "begin"} /\ ~failed /\ active /\ impl =>
    heard \o queue = [i \in 1..accepted |-> <<track, i>>]

(* The owner never forgets resources: between calls, a worker not joined   *)
(* or a pipeline not released means that stop can be called again.         *)
NothingForgotten == tpc = "idle" /\ (impl \/ pipe # "UNINITIALIZED") => active

(* The inductive invariant behind these.  The atomics are Boolean;         *)
OutputTypeOK ==
  /\ active \in BOOLEAN /\ impl \in BOOLEAN /\ quit \in BOOLEAN /\ run_gate \in BOOLEAN
  /\ pause_request \in BOOLEAN /\ pause_ack \in BOOLEAN /\ failed \in BOOLEAN
  /\ done \in BOOLEAN /\ promised \in BOOLEAN /\ want \in BOOLEAN /\ held \in BOOLEAN
  /\ thr \in {"none", "gate", "loop", "pausing", "ack", "paused", "resuming", "unack",
              "process", "exit", "gone"}
  /\ tpc \in {"idle", "waiting", "stop", "join", "teardown", "setup", "create", "begin"}

(* what each place of the transport knows of the stream;                   *)
TransportOK ==
  /\ tpc \in {"setup", "create", "teardown"} => ~impl
  /\ tpc \in {"setup", "create"} => ~active
  /\ tpc \in {"waiting", "stop", "join", "teardown", "begin"} => active
  /\ tpc = "begin" => thr = "gate" /\ ~quit /\ ~run_gate /\ ~pause_ack
  /\ tpc = "join" => quit
  /\ tpc = "waiting" => run_gate /\ pause_request = want
  /\ promised => tpc = "idle" /\ pause_request
  /\ ~active => ~impl /\ (tpc = "create" \/ pipe = "UNINITIALIZED")

(* and what the worker's place says: before the gate opens only quit moves *)
(* it, it looks at the graph only while that runs, and an acknowledged     *)
(* pause holds it back.                                                    *)
WorkerOK ==
  /\ impl = (thr # "none")
  /\ ~run_gate => thr \in {"none", "gate", "loop", "exit", "gone"} /\ (thr = "loop" => quit)
  /\ thr \notin {"none", "exit", "gone"} /\ run_gate /\ ~quit => pipe = "RUNNING"
  /\ tpc \in {"idle", "waiting"} /\ impl /\ ~quit => pipe = "RUNNING"
  /\ thr = "process" => pipe = "RUNNING"
  /\ pause_ack /\ run_gate => thr \in {"none", "paused", "resuming", "unack", "exit", "gone"}
  /\ done => thr \in {"none", "gone"}

OutputInv ==
  OutputTypeOK /\ TransportOK /\ WorkerOK /\ GraphExclusive /\ PauseIsKept /\ NothingForgotten

(* And behind TrackIntact: a stream under construction has no history yet. *)
AnyFrame == Nat \X Nat

StreamInv ==
  /\ queue \in Seq(AnyFrame) /\ heard \in Seq(AnyFrame)
  /\ accepted \in Nat /\ track \in Nat
  /\ tpc \in {"create", "begin"} => heard = <<>> /\ accepted = 0
  /\ TrackIntact

(* stop always returns: wherever the worker is (gated, paused, between two *)
(* blocks), it notices quit.                                               *)
StopReturns == tpc = "join" ~> tpc # "join"

(* A pause request is answered, if only by the worker's end; the timeout   *)
(* is not needed for that.                                                 *)
PauseAnswers == tpc = "waiting" ~> tpc # "waiting"

(* A finished stream that was released plays out unless it is paused or    *)
(* stopped.                                                                *)
PlaysOut ==
  (finished /\ run_gate /\ impl /\ pipe = "RUNNING") ~> (done \/ pause_request \/ quit)
=============================================================================
