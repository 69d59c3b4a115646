------------------------------ MODULE Pipeline ------------------------------
(***************************************************************************)
(* core/eaf_graph.c: the lifecycle of a pipeline of nodes and the I2S sink *)
(* of I2sSink.tla, one action per call of its single owner, while the      *)
(* driver plays.  Calls compose the outcomes of the calls they make.       *)
(***************************************************************************)
EXTENDS I2sSink

CONSTANT Nodes   \* config.node_count

ASSUME PipelineAssumption == Nodes \in Nat

VARIABLES
  pipe,   \* eaf_pipeline_t; fits: a sink block holds block_frames
  core,   \* eaf_i2s_core_t
  dev,    \* the I2S driver
  ok      \* the last call returned EAF_OK

vars == <<pipe, core, dev, ok>>

World == [pipe |-> pipe, core |-> core, dev |-> dev]

PipeZero ==
  [state |-> "UNINITIALIZED", initialized_nodes |-> 0, sink_initialized |-> FALSE,
   sink_ready |-> FALSE, completed |-> FALSE, fits |-> TRUE]

Init ==
  /\ pipe = PipeZero
  /\ core = CoreInit
  /\ \E b \in Backend : dev = DevInit(b)
  /\ ok = TRUE
----------------------------------------------------------------------------
(* Plausible mistake: nodes are released although the sink still runs. *)
Release_Always(w) ==
  {[o EXCEPT !.w.pipe.sink_initialized = FALSE, !.w.pipe.sink_ready = FALSE,
             !.w.pipe.initialized_nodes = 0] :
     o \in IF w.pipe.sink_initialized THEN CoreDelete(w) ELSE Done(w)}

(* release(): the sink, then the nodes; a sink that cannot be released     *)
(* keeps everything and asks for recovery.                                 *)
Release(w) ==
  UNION {IF o.ok
         THEN Done([o.w EXCEPT !.pipe = [@ EXCEPT !.sink_initialized = FALSE,
                                                  !.sink_ready = FALSE,
                                                  !.initialized_nodes = 0]])
         ELSE Failed([o.w EXCEPT !.pipe = [@ EXCEPT !.sink_ready = FALSE,
                                                    !.state = "RECOVERY"]]) :
           o \in IF w.pipe.sink_initialized THEN CoreDelete(w) ELSE Done(w)}

(* Whatever the cleanup returns, the call has failed. *)
Refused(outcomes) == UNION {Failed(o.w) : o \in outcomes}

PipelineInit(w) ==
  IF w.pipe.state # "UNINITIALIZED" THEN Failed(w)
  ELSE Done([w EXCEPT !.pipe.state = "INITIALIZED"])

(* How many nodes there may be when one of them fails. *)
Reached == IF Nodes = 0 THEN {} ELSE 0..Nodes

(* Nodes are initialised in order; when one fails or offers a format the   *)
(* next cannot take, those before it are released.                         *)
ConfigureNodes(w) ==
  Done([w EXCEPT !.pipe.initialized_nodes = Nodes])
    \cup UNION {Refused(Release([f.w EXCEPT !.pipe.initialized_nodes = n])) :
                  f \in Faulty(w), n \in Reached}

(* "Partial init must also be cleaned up." *)
ConfigureSink(w, fits) ==
  UNION {IF o.ok
         THEN Done([o.w EXCEPT !.pipe = [@ EXCEPT !.sink_ready = TRUE, !.fits = fits,
                                                  !.state = "CONFIGURED"]])
         ELSE Refused(Release(o.w)) :
           o \in CoreConfigure([w EXCEPT !.pipe.sink_initialized = TRUE])}

PipelineConfigure(w, fits) ==
  IF w.pipe.state \notin {"INITIALIZED", "STOPPED", "CONFIGURED"} THEN Failed(w)
  ELSE Then(Release(w),
         LAMBDA released :
           Then(ConfigureNodes([released EXCEPT !.pipe.state = "INITIALIZED"]),
             LAMBDA ready : ConfigureSink(ready, fits)))

(* After the sink has stopped, a node that fails to reset is reported but  *)
(* changes nothing.                                                        *)
PipelineStop(w) ==
  IF w.pipe.state \notin {"RUNNING", "RECOVERY"} THEN Failed(w)
  ELSE Then(CoreStop(w),
         LAMBDA stopped :
           LET u == [stopped EXCEPT
                       !.pipe.state = IF w.pipe.sink_ready THEN "STOPPED" ELSE "INITIALIZED"]
           IN Done(u) \cup Faulty(u))

(* A failed START is stopped at once. *)
PipelineStart(w) ==
  IF w.pipe.state \notin {"CONFIGURED", "STOPPED"} THEN Failed(w)
  ELSE UNION {IF o.ok THEN Done([o.w EXCEPT !.pipe.state = "RUNNING"])
              ELSE Refused(PipelineStop([o.w EXCEPT !.pipe.state = "RECOVERY"])) :
                o \in CoreStart([w EXCEPT !.pipe.completed = FALSE])}

(* acquire, pull (which ends the stream when eos), nodes, commit.  A block *)
(* a node failed on is committed as silence, without the end of stream.    *)
PipelineProcess(w, eos) ==
  IF w.pipe.state # "RUNNING" \/ w.pipe.completed THEN Failed(w)
  ELSE Then(CoreAcquire(w),
         LAMBDA got :
           IF ~got.pipe.fits THEN Failed(got)
           ELSE Then(CoreCommit(got, eos),
                  LAMBDA u : Done(IF eos THEN [u EXCEPT !.pipe.completed = TRUE] ELSE u))
                \cup UNION {Refused(CoreCommit(f.w, FALSE)) : f \in Faulty(got)})

PipelineDeinit(w) ==
  IF w.pipe.state = "RUNNING" THEN Failed(w)
  ELSE Then(Release(w), LAMBDA released : Done([released EXCEPT !.pipe = PipeZero]))
----------------------------------------------------------------------------
Becomes(outcomes) ==
  \E o \in outcomes :
    pipe' = o.w.pipe /\ core' = o.w.core /\ dev' = o.w.dev /\ ok' = o.ok

CallInit == Becomes(PipelineInit(World))
CallConfigure == \E fits \in BOOLEAN : Becomes(PipelineConfigure(World, fits))
CallStart == Becomes(PipelineStart(World))
CallProcess == \E eos \in BOOLEAN : Becomes(PipelineProcess(World, eos))
CallPause == \E paused \in BOOLEAN : Becomes(CorePause(World, paused))
CallStop == Becomes(PipelineStop(World))
CallDeinit == Becomes(PipelineDeinit(World))

DriverPlays ==
  /\ dev.on /\ dev.queued > 0
  /\ dev' = Played(World).dev
  /\ UNCHANGED <<pipe, core, ok>>

Next ==
  \/ CallInit \/ CallConfigure \/ CallStart \/ CallProcess \/ CallPause
  \/ CallStop \/ CallDeinit \/ DriverPlays

(* An owner in recovery retries. *)
Spec == Init /\ [][Next]_vars /\ WF_vars(pipe.state = "RECOVERY" /\ CallDeinit)
----------------------------------------------------------------------------
(* Whatever fails, a DMA block is with the core, with the driver or free:  *)
(* none is lost, freed twice or handed out twice.                          *)
BlocksConserved ==
  LET held == IF core.held THEN 1 ELSE 0
  IN IF dev.backend = "zephyr" THEN dev.free + dev.queued + held = Slots
                               ELSE dev.free + held = 1

(* "Failure retains ownership" (eaf_hal.h), success does not: outside of   *)
(* RUNNING and RECOVERY the clock is off, the driver has no block and the  *)
(* core holds none.  "EOS must finish a bounded driver-queue drain before  *)
(* success": a stream counts as completed only when nothing of it is       *)
(* queued any more.                                                        *)
StoppedIsQuiet ==
  /\ pipe.state \notin {"RUNNING", "RECOVERY"} =>
       ~dev.on /\ dev.queued = 0 /\ ~core.held /\ ~core.running
  /\ pipe.completed => dev.queued = 0 /\ ~dev.on

(* Nodes and sink come and go in order, whatever failed and was retried   *)
(* before: a pipeline that may be started or runs has all its nodes and a  *)
(* configured sink, nodes stay as long as the sink may use them, and a     *)
(* pipeline that was released has released everything.                     *)
ReleasedInOrder ==
  /\ pipe.state \in {"CONFIGURED", "RUNNING", "STOPPED"} =>
       /\ pipe.initialized_nodes = Nodes /\ pipe.sink_initialized /\ pipe.sink_ready
       /\ core.configured /\ dev.chan
  /\ core.configured => pipe.sink_initialized /\ pipe.initialized_nodes = Nodes
  /\ pipe.state = "UNINITIALIZED" /\ dev.backend = "esp_idf" => ~dev.chan

(* The driver is never asked for what it would refuse: enabling twice,     *)
(* writing while disabled, deleting while enabled, a second channel.       *)
DriverInOrder == ~dev.misuse

(* The inductive invariant behind the four: whatever state a call leaves,  *)
(* sink_ready stands for nodes and sink that are there, and a core runs    *)
(* only in RUNNING and RECOVERY.                                           *)
PipeType ==
  [state : {"UNINITIALIZED", "INITIALIZED", "CONFIGURED", "RUNNING", "STOPPED", "RECOVERY"},
   initialized_nodes : 0..Nodes, sink_initialized : BOOLEAN, sink_ready : BOOLEAN,
   completed : BOOLEAN, fits : BOOLEAN]

WorldType == [pipe : PipeType, core : CoreType, dev : DevType]

PipeOK(w) ==
  /\ w \in WorldType /\ SinkOK(w)
  /\ w.core.running => w.pipe.state \in {"RUNNING", "RECOVERY"}
  /\ w.pipe.completed => w.dev.queued = 0 /\ ~w.dev.on
  /\ w.core.configured => w.pipe.sink_initialized /\ w.pipe.initialized_nodes = Nodes
  /\ w.pipe.sink_ready => w.core.configured
  /\ w.pipe.state \in {"CONFIGURED", "RUNNING", "STOPPED"} => w.pipe.sink_ready
  /\ w.pipe.state = "UNINITIALIZED" => ~w.core.configured

PipelineInv == PipeOK(World)

(* "Deinit also handles partial init/start": the driver is not called      *)
(* before it has a device.                                                 *)
DriverHasDevice == ~dev.unbound

(* Recovery ends: once the driver works again, retrying deinit leaves      *)
(* RECOVERY, from whatever partial failure led there.                      *)
Recovers == (pipe.state = "RECOVERY" /\ ~dev.unbound) ~> (pipe.state # "RECOVERY")
=============================================================================
