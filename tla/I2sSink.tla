------------------------------- MODULE I2sSink -------------------------------
(***************************************************************************)
(* hal/common/sink_i2s_core.c over its two backends: ESP-IDF               *)
(* (hal/esp_idf/sink_i2s_esp_idf.c, one static block that a write copies)  *)
(* and Zephyr (hal/zephyr/sink_i2s_zephyr.c, a slab of blocks that a write *)
(* hands to the driver).                                                   *)
(*                                                                         *)
(* A call is an operator from the world w = [core, dev, ...] to the set of *)
(* its outcomes [ok, w]: every driver call in it may fail, as long as      *)
(* w.dev.faults lasts, and each failure leaves what the code had done.     *)
(***************************************************************************)
EXTENDS Integers, Outcomes

CONSTANTS
  Slots,      \* blocks of the Zephyr slab, descriptors of the ESP-IDF ring
  MaxFaults   \* bound: driver and node calls that fail

ASSUME SinkAssumption == Slots \in Nat \ {0} /\ MaxFaults \in Nat

Backend == {"esp_idf", "zephyr"}

CoreInit == [configured |-> FALSE, running |-> FALSE, started |-> FALSE,
             paused |-> FALSE, held |-> FALSE]

(* chan: the ESP-IDF channel exists, the Zephyr device is bound.           *)
(* on: the clock runs; queued: blocks the driver has; free: blocks nobody  *)
(* has; unbound: the driver was called without a device; misuse: it was    *)
(* called in a state in which the ESP-IDF driver refuses the call.         *)
DevInit(backend) ==
  [backend |-> backend, chan |-> FALSE, on |-> FALSE, queued |-> 0,
   free |-> IF backend = "zephyr" THEN Slots ELSE 1,
   faults |-> MaxFaults, unbound |-> FALSE, misuse |-> FALSE]

Zephyr(w) == w.dev.backend = "zephyr"
----------------------------------------------------------------------------
(* A driver call that fails. *)
Faulty(w) == IF w.dev.faults > 0 THEN Failed([w EXCEPT !.dev.faults = @ - 1]) ELSE {}
----------------------------------------------------------------------------
(* The backends and the drivers below them. *)

Misused(w, wrong) == [w EXCEPT !.dev.misuse = @ \/ (~Zephyr(w) /\ wrong)]

(* A new channel, deleted again when it cannot be initialised. *)
EspConfigure(w) ==
  Faulty(w) \cup Done([Misused(w, w.dev.chan) EXCEPT !.dev.chan = TRUE])

(* The device is bound, unless there is none; one that is not ready or     *)
(* refuses its configuration stays bound.                                  *)
ZephyrConfigure(w) ==
  LET bound == [w EXCEPT !.dev.chan = TRUE]
  IN Done(bound) \cup Faulty(bound) \cup Faulty([w EXCEPT !.dev.chan = FALSE])

EspEnable(w) == Faulty(w) \cup Done([Misused(w, w.dev.on) EXCEPT !.dev.on = TRUE])

ZephyrStart(w) == Faulty(w) \cup Done([w EXCEPT !.dev.on = TRUE])

(* The driver copies the block at core->dma, so the buffer is free again. *)
EspWrite(w) ==
  LET asked == Misused(w, ~w.dev.chan \/ ~w.dev.on)
      taken == [asked EXCEPT !.dev = [asked.dev EXCEPT !.queued = @ + 1, !.free = @ + 1]]
  IN Faulty(asked) \cup (IF w.dev.queued < Slots THEN Done(taken) ELSE Failed(asked))

(* The driver takes the block itself. *)
ZephyrWrite(w) == Faulty(w) \cup Done([w EXCEPT !.dev.queued = @ + 1])

(* All the driver's blocks are given back. *)
Emptied(w) ==
  [w EXCEPT !.dev = [w.dev EXCEPT !.queued = 0,
                                  !.free = @ + IF Zephyr(w) THEN w.dev.queued ELSE 0]]

(* A wait as long as the DMA ring can play. *)
EspDrain(w) == Faulty(w) \cup Done(Emptied(w))

(* I2S_TRIGGER_DRAIN, after which the clock stops; then every slot is      *)
(* waited for, the one the core holds included.                            *)
ZephyrDrain(w) ==
  Faulty(w) \cup (IF w.core.held THEN Failed(w)
                  ELSE Done([Emptied(w) EXCEPT !.dev.on = FALSE]))

EspDisable(w) == Faulty(w) \cup Done([w EXCEPT !.dev.on = FALSE])

EspDelete(w) ==
  IF w.dev.chan
  THEN Faulty(w) \cup Done([Misused(w, w.dev.on) EXCEPT !.dev.chan = FALSE])
  ELSE Done(w)

(* I2S_TRIGGER_DROP on zephyr_ctx.device. *)
ZephyrDrop(w) ==
  IF w.dev.chan
  THEN Faulty(w) \cup Done([Emptied(w) EXCEPT !.dev.on = FALSE])
  ELSE Failed([w EXCEPT !.dev.unbound = TRUE])

(* The driver plays a block. *)
Played(w) ==
  [w EXCEPT !.dev = [w.dev EXCEPT !.queued = @ - 1,
                                  !.free = @ + IF Zephyr(w) THEN 1 ELSE 0]]
----------------------------------------------------------------------------
(* The shared state machine. *)

CoreDrain(w) ==
  IF ~w.core.started THEN Done(w)
  ELSE Then(IF Zephyr(w) THEN ZephyrDrain(w) ELSE EspDrain(w),
         LAMBDA drained : Then(IF Zephyr(w) THEN Done(drained) ELSE EspDisable(drained),
           LAMBDA off : Done([off EXCEPT !.core.started = FALSE])))

CorePause(w, paused) ==
  IF ~w.core.running \/ w.core.held THEN Failed(w)
  ELSE IF w.core.paused = paused THEN Done(w)
  ELSE Then(IF paused THEN CoreDrain(w) ELSE Done(w),
         LAMBDA u : Done([u EXCEPT !.core.paused = paused]))

(* core_init; a format the core does not take is a refusal. *)
CoreConfigure(w) ==
  IF w.core.configured \/ w.core.running THEN Failed(w)
  ELSE Faulty(w) \cup
       Then(IF Zephyr(w) THEN ZephyrConfigure(w) ELSE EspConfigure(w),
         LAMBDA u : Done([u EXCEPT !.core = [@ EXCEPT !.held = FALSE, !.configured = TRUE]]))

CoreStart(w) ==
  IF ~w.core.configured \/ w.core.running THEN Failed(w)
  ELSE Done([w EXCEPT !.core = [@ EXCEPT !.paused = FALSE, !.running = TRUE,
                                         !.started = FALSE, !.held = FALSE]])

CoreAcquire(w) ==
  IF ~w.core.running \/ w.core.paused \/ w.core.held THEN Failed(w)
  ELSE IF w.dev.free = 0 THEN Failed(w)      \* the slab's 20 ms are over
  ELSE Done([w EXCEPT !.core.held = TRUE, !.dev.free = @ - 1])

(* Plausible mistake: the clock is enabled for every block. *)
CommitEnable_Always(w) ==
  IF Zephyr(w) THEN Done(w)
  ELSE Then(EspEnable(w), LAMBDA u : Done([u EXCEPT !.core.started = TRUE]))

CommitEnable(w) ==
  IF w.core.started \/ Zephyr(w) THEN Done(w)
  ELSE Then(EspEnable(w), LAMBDA u : Done([u EXCEPT !.core.started = TRUE]))

(* Ownership is transferred only on a complete write. *)
CommitWrite(w) ==
  Then(IF Zephyr(w) THEN ZephyrWrite(w) ELSE EspWrite(w),
    LAMBDA u : Done([u EXCEPT !.core.held = FALSE]))

CommitStart(w) ==
  IF w.core.started THEN Done(w)
  ELSE Then(ZephyrStart(w), LAMBDA u : Done([u EXCEPT !.core.started = TRUE]))

CommitEnd(w, eos) == IF eos THEN CoreDrain(w) ELSE Done(w)

CoreCommit(w, eos) ==
  IF ~w.core.running \/ ~w.core.held THEN Failed(w)
  ELSE Then(CommitEnable(w),
         LAMBDA enabled : Then(CommitWrite(enabled),
           LAMBDA written : Then(CommitStart(written),
             LAMBDA going : CommitEnd(going, eos))))

(* Plausible mistake: the uncommitted block is forgotten. *)
StopHeld_Forgotten(w) == [w EXCEPT !.core.held = FALSE]

StopHeld(w) ==
  IF w.core.held THEN [w EXCEPT !.core.held = FALSE, !.dev.free = @ + 1] ELSE w

(* Plausible mistake: a failed drain does not keep the core from stopping. *)
StopDriver_IgnoreError(w) ==
  Then({[o EXCEPT !.ok = TRUE] : o \in CoreDrain(w)},
    LAMBDA u : IF Zephyr(w) THEN ZephyrDrop(u) ELSE Done(u))

StopDriver(w) ==
  Then(CoreDrain(w), LAMBDA u : IF Zephyr(w) THEN ZephyrDrop(u) ELSE Done(u))

(* Plausible mistake: stopping a core that does not run is an error. *)
CoreStop_RunningOnly(w) ==
  IF ~w.core.running THEN Failed(w)
  ELSE Then(StopDriver(StopHeld(w)),
         LAMBDA u : Done([u EXCEPT !.core = [@ EXCEPT !.running = FALSE, !.paused = FALSE]]))

CoreStop(w) ==
  Then(StopDriver(StopHeld(w)),
    LAMBDA u : Done([u EXCEPT !.core = [@ EXCEPT !.running = FALSE, !.paused = FALSE]]))

(* core_deinit *)
CoreDelete(w) ==
  Then(CoreStop(w),
    LAMBDA stopped : Then(IF Zephyr(w) THEN Done(stopped) ELSE EspDelete(stopped),
      LAMBDA u : Done([u EXCEPT !.core.configured = FALSE])))
----------------------------------------------------------------------------
(* What every call of the core keeps, also where it fails halfway; the     *)
(* pipeline's inductive invariant (Pipeline.tla) rests on it.              *)

CoreType ==
  [configured : BOOLEAN, running : BOOLEAN, started : BOOLEAN, paused : BOOLEAN,
   held : BOOLEAN]

DevType ==
  [backend : Backend, chan : BOOLEAN, on : BOOLEAN, queued : Nat, free : Nat,
   faults : Nat, unbound : BOOLEAN, misuse : BOOLEAN]

(* Every block is with the core, with the driver or free. *)
Conserved(w) ==
  LET held == IF w.core.held THEN 1 ELSE 0
  IN IF Zephyr(w) THEN w.dev.free + w.dev.queued + held = Slots
                  ELSE w.dev.free + held = 1

(* started stands for the clock, configured for the channel; only a core   *)
(* that runs has blocks or the clock, and on ESP-IDF only the clock has    *)
(* blocks to play.                                                         *)
SinkOK(w) ==
  /\ w.core \in CoreType /\ w.dev \in DevType
  /\ w.core.running => w.core.configured
  /\ w.core.started => w.core.running
  /\ w.dev.on = w.core.started
  /\ ~w.core.running => ~w.core.held /\ w.dev.queued = 0
  /\ ~Zephyr(w) /\ ~w.core.started => w.dev.queued = 0
  /\ w.core.configured => w.dev.chan
  /\ ~Zephyr(w) /\ w.dev.chan => w.core.configured
  /\ Conserved(w)
  /\ ~w.dev.misuse
=============================================================================
