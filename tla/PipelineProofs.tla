--------------------------- MODULE PipelineProofs ---------------------------
(***************************************************************************)
(* The pipeline over its I2S sink, for every number of nodes, of blocks    *)
(* and of calls that fail.                                                 *)
(*                                                                         *)
(* A lemma XDoes says of every outcome of the call X what the calls above  *)
(* it need to know.                                                        *)
(***************************************************************************)
EXTENDS Pipeline, TLAPS

LEMMA SetDev ==
  ASSUME NEW w \in WorldType, NEW d \in DevType
  PROVE  /\ [w EXCEPT !.dev = d] \in WorldType
         /\ [w EXCEPT !.dev = d].pipe = w.pipe
         /\ [w EXCEPT !.dev = d].core = w.core
         /\ [w EXCEPT !.dev = d].dev = d
  BY DEF WorldType

LEMMA SetCore ==
  ASSUME NEW w \in WorldType, NEW k \in CoreType
  PROVE  /\ [w EXCEPT !.core = k] \in WorldType
         /\ [w EXCEPT !.core = k].pipe = w.pipe
         /\ [w EXCEPT !.core = k].core = k
         /\ [w EXCEPT !.core = k].dev = w.dev
  BY DEF WorldType

LEMMA SetPipe ==
  ASSUME NEW w \in WorldType, NEW p \in PipeType
  PROVE  /\ [w EXCEPT !.pipe = p] \in WorldType
         /\ [w EXCEPT !.pipe = p].pipe = p
         /\ [w EXCEPT !.pipe = p].core = w.core
         /\ [w EXCEPT !.pipe = p].dev = w.dev
  BY DEF WorldType

LEMMA Parts ==
  ASSUME NEW w \in WorldType
  PROVE  w.pipe \in PipeType /\ w.core \in CoreType /\ w.dev \in DevType
  BY DEF WorldType

(* Nothing but the count of faults and the unbound mark differs. *)
Still(w, u) ==
  /\ u \in WorldType /\ u.pipe = w.pipe /\ u.core = w.core
  /\ u.dev.backend = w.dev.backend /\ u.dev.chan = w.dev.chan /\ u.dev.on = w.dev.on
  /\ u.dev.queued = w.dev.queued /\ u.dev.free = w.dev.free
  /\ u.dev.misuse = w.dev.misuse

LEMMA StillOK ==
  ASSUME NEW w \in WorldType, NEW u, Still(w, u)
  PROVE  /\ u \in WorldType /\ Zephyr(u) = Zephyr(w) /\ Conserved(u) = Conserved(w)
         /\ SinkOK(w) => SinkOK(u)
         /\ PipeOK(w) => PipeOK(u)
<1>1. u \in WorldType /\ u.core \in CoreType /\ u.dev \in DevType
  BY Parts DEF Still
<1>2. Zephyr(u) = Zephyr(w)
  BY DEF Still, Zephyr
<1>3. Conserved(u) = Conserved(w)
  BY <1>2 DEF Still, Conserved
<1>4. SinkOK(w) => SinkOK(u)
  BY <1>1, <1>2, <1>3 DEF SinkOK, Still
<1>5. PipeOK(w) => PipeOK(u)
  BY <1>1, <1>4 DEF PipeOK, Still
<1> QED BY <1>1, <1>2, <1>3, <1>4, <1>5

(* A driver call that fails costs a fault. *)
LEMMA FaultyDoes ==
  ASSUME NEW w \in WorldType, NEW o \in Faulty(w)
  PROVE  ~o.ok /\ Still(w, o.w)
<1> DEFINE d == [w.dev EXCEPT !.faults = @ - 1]
<1>1. w.dev.faults > 0 /\ o = [ok |-> FALSE, w |-> [w EXCEPT !.dev = d]]
  BY DEF Faulty, Failed
<1>2. w.dev \in DevType
  BY Parts
<1>3. /\ d \in DevType /\ d.backend = w.dev.backend /\ d.chan = w.dev.chan /\ d.on = w.dev.on
      /\ d.queued = w.dev.queued /\ d.free = w.dev.free /\ d.misuse = w.dev.misuse
  BY <1>1, <1>2 DEF DevType
<1> HIDE DEF d
<1> QED BY <1>1, <1>3, SetDev DEF Still

LEMMA FaultyOK ==
  ASSUME NEW w \in WorldType, NEW o \in Faulty(w), SinkOK(w)
  PROVE  SinkOK(o.w)
  BY FaultyDoes, StillOK

LEMMA EmptiedIs ==
  ASSUME NEW w \in WorldType
  PROVE  /\ Emptied(w) \in WorldType /\ Emptied(w).pipe = w.pipe /\ Emptied(w).core = w.core
         /\ Emptied(w).dev.queued = 0
         /\ Emptied(w).dev.free = w.dev.free + (IF Zephyr(w) THEN w.dev.queued ELSE 0)
         /\ Emptied(w).dev.backend = w.dev.backend /\ Emptied(w).dev.chan = w.dev.chan
         /\ Emptied(w).dev.on = w.dev.on /\ Emptied(w).dev.misuse = w.dev.misuse
<1> DEFINE x == IF Zephyr(w) THEN w.dev.queued ELSE 0
           e == [w.dev EXCEPT !.queued = 0]
           d == [e EXCEPT !.free = w.dev.free + x]
<1>1. w.dev \in DevType
  BY Parts
<1>2. x \in Nat /\ w.dev.free + x \in Nat
  BY <1>1 DEF DevType
<1>3. Emptied(w) = [w EXCEPT !.dev = d]
  BY DEF Emptied
<1> HIDE DEF x
<1>4. /\ e \in DevType /\ e.queued = 0 /\ e.backend = w.dev.backend /\ e.chan = w.dev.chan
      /\ e.on = w.dev.on /\ e.misuse = w.dev.misuse
  BY <1>1 DEF DevType
<1> HIDE DEF e
<1>5. /\ d \in DevType /\ d.queued = 0 /\ d.free = w.dev.free + x
      /\ d.backend = e.backend /\ d.chan = e.chan /\ d.on = e.on /\ d.misuse = e.misuse
  BY <1>2, <1>4 DEF DevType
<1> HIDE DEF d
<1> QED BY <1>3, <1>4, <1>5, SetDev DEF x

(* One field of the core, or of the driver, set. *)
LEMMA SetStarted ==
  ASSUME NEW w \in WorldType, NEW b \in BOOLEAN
  PROVE  LET u == [w EXCEPT !.core.started = b] IN
         /\ u \in WorldType /\ u.pipe = w.pipe /\ u.dev = w.dev /\ u.core.started = b
         /\ u.core.configured = w.core.configured /\ u.core.running = w.core.running
         /\ u.core.paused = w.core.paused /\ u.core.held = w.core.held
<1> DEFINE k == [w.core EXCEPT !.started = b]
<1>1. [w EXCEPT !.core.started = b] = [w EXCEPT !.core = k]
  OBVIOUS
<1>2. /\ k \in CoreType /\ k.started = b /\ k.configured = w.core.configured
      /\ k.running = w.core.running /\ k.paused = w.core.paused /\ k.held = w.core.held
  BY Parts DEF CoreType
<1> DEFINE u == [w EXCEPT !.core.started = b]
<1>3. u \in WorldType /\ u.pipe = w.pipe /\ u.dev = w.dev /\ u.core = k
  BY <1>1, <1>2, SetCore
<1> HIDE DEF u, k
<1> QED BY <1>2, <1>3 DEF u

LEMMA SetHeld ==
  ASSUME NEW w \in WorldType, NEW b \in BOOLEAN
  PROVE  LET u == [w EXCEPT !.core.held = b] IN
         /\ u \in WorldType /\ u.pipe = w.pipe /\ u.dev = w.dev /\ u.core.held = b
         /\ u.core.configured = w.core.configured /\ u.core.running = w.core.running
         /\ u.core.paused = w.core.paused /\ u.core.started = w.core.started
<1> DEFINE k == [w.core EXCEPT !.held = b]
<1>1. [w EXCEPT !.core.held = b] = [w EXCEPT !.core = k]
  OBVIOUS
<1>2. /\ k \in CoreType /\ k.held = b /\ k.configured = w.core.configured
      /\ k.running = w.core.running /\ k.paused = w.core.paused
      /\ k.started = w.core.started
  BY Parts DEF CoreType
<1> DEFINE u == [w EXCEPT !.core.held = b]
<1>3. u \in WorldType /\ u.pipe = w.pipe /\ u.dev = w.dev /\ u.core = k
  BY <1>1, <1>2, SetCore
<1> HIDE DEF u, k
<1> QED BY <1>2, <1>3 DEF u

LEMMA SetPaused ==
  ASSUME NEW w \in WorldType, NEW b \in BOOLEAN
  PROVE  LET u == [w EXCEPT !.core.paused = b] IN
         /\ u \in WorldType /\ u.pipe = w.pipe /\ u.dev = w.dev
         /\ u.core.configured = w.core.configured /\ u.core.running = w.core.running
         /\ u.core.started = w.core.started /\ u.core.held = w.core.held
<1> DEFINE k == [w.core EXCEPT !.paused = b]
<1>1. [w EXCEPT !.core.paused = b] = [w EXCEPT !.core = k]
  OBVIOUS
<1>2. /\ k \in CoreType /\ k.configured = w.core.configured /\ k.running = w.core.running
      /\ k.held = w.core.held /\ k.started = w.core.started
  BY Parts DEF CoreType
<1> DEFINE u == [w EXCEPT !.core.paused = b]
<1>3. u \in WorldType /\ u.pipe = w.pipe /\ u.dev = w.dev /\ u.core = k
  BY <1>1, <1>2, SetCore
<1> HIDE DEF u, k
<1> QED BY <1>2, <1>3 DEF u

LEMMA SetConfigured ==
  ASSUME NEW w \in WorldType, NEW b \in BOOLEAN
  PROVE  LET u == [w EXCEPT !.core.configured = b] IN
         /\ u \in WorldType /\ u.pipe = w.pipe /\ u.dev = w.dev /\ u.core.configured = b
         /\ u.core.paused = w.core.paused /\ u.core.running = w.core.running
         /\ u.core.started = w.core.started /\ u.core.held = w.core.held
<1> DEFINE k == [w.core EXCEPT !.configured = b]
<1>1. [w EXCEPT !.core.configured = b] = [w EXCEPT !.core = k]
  OBVIOUS
<1>2. /\ k \in CoreType /\ k.configured = b /\ k.running = w.core.running
      /\ k.paused = w.core.paused /\ k.held = w.core.held /\ k.started = w.core.started
  BY Parts DEF CoreType
<1> DEFINE u == [w EXCEPT !.core.configured = b]
<1>3. u \in WorldType /\ u.pipe = w.pipe /\ u.dev = w.dev /\ u.core = k
  BY <1>1, <1>2, SetCore
<1> HIDE DEF u, k
<1> QED BY <1>2, <1>3 DEF u

LEMMA SetOn ==
  ASSUME NEW w \in WorldType, NEW b \in BOOLEAN
  PROVE  LET u == [w EXCEPT !.dev.on = b] IN
         /\ u \in WorldType /\ u.pipe = w.pipe /\ u.core = w.core /\ u.dev.on = b
         /\ u.dev.backend = w.dev.backend /\ u.dev.chan = w.dev.chan
         /\ u.dev.queued = w.dev.queued /\ u.dev.free = w.dev.free
         /\ u.dev.misuse = w.dev.misuse
<1> DEFINE d == [w.dev EXCEPT !.on = b]
<1>1. [w EXCEPT !.dev.on = b] = [w EXCEPT !.dev = d]
  OBVIOUS
<1>2. /\ d \in DevType /\ d.on = b /\ d.backend = w.dev.backend /\ d.chan = w.dev.chan
      /\ d.queued = w.dev.queued /\ d.free = w.dev.free /\ d.misuse = w.dev.misuse
  BY Parts DEF DevType
<1> DEFINE u == [w EXCEPT !.dev.on = b]
<1>3. u \in WorldType /\ u.pipe = w.pipe /\ u.core = w.core /\ u.dev = d
  BY <1>1, <1>2, SetDev
<1> HIDE DEF u, d
<1> QED BY <1>2, <1>3 DEF u

LEMMA SetChan ==
  ASSUME NEW w \in WorldType, NEW b \in BOOLEAN
  PROVE  LET u == [w EXCEPT !.dev.chan = b] IN
         /\ u \in WorldType /\ u.pipe = w.pipe /\ u.core = w.core /\ u.dev.chan = b
         /\ u.dev.backend = w.dev.backend /\ u.dev.on = w.dev.on
         /\ u.dev.queued = w.dev.queued /\ u.dev.free = w.dev.free
         /\ u.dev.misuse = w.dev.misuse
<1> DEFINE d == [w.dev EXCEPT !.chan = b]
<1>1. [w EXCEPT !.dev.chan = b] = [w EXCEPT !.dev = d]
  OBVIOUS
<1>2. /\ d \in DevType /\ d.chan = b /\ d.backend = w.dev.backend /\ d.on = w.dev.on
      /\ d.queued = w.dev.queued /\ d.free = w.dev.free /\ d.misuse = w.dev.misuse
  BY Parts DEF DevType
<1> DEFINE u == [w EXCEPT !.dev.chan = b]
<1>3. u \in WorldType /\ u.pipe = w.pipe /\ u.core = w.core /\ u.dev = d
  BY <1>1, <1>2, SetDev
<1> HIDE DEF u, d
<1> QED BY <1>2, <1>3 DEF u

(* A call that the driver does not refuse. *)
LEMMA NotMisused ==
  ASSUME NEW w \in WorldType, NEW wrong \in BOOLEAN, Zephyr(w) \/ ~wrong
  PROVE  Still(w, Misused(w, wrong))
<1> DEFINE b == w.dev.misuse \/ (~Zephyr(w) /\ wrong)
           d == [w.dev EXCEPT !.misuse = b]
<1>1. Misused(w, wrong) = [w EXCEPT !.dev = d]
  BY DEF Misused
<1>2. w.dev.misuse \in BOOLEAN /\ b = w.dev.misuse
  BY Parts DEF DevType
<1> HIDE DEF b
<1>3. /\ d \in DevType /\ d.misuse = b /\ d.backend = w.dev.backend /\ d.chan = w.dev.chan
      /\ d.on = w.dev.on /\ d.queued = w.dev.queued /\ d.free = w.dev.free
  BY <1>2, Parts DEF DevType
<1> HIDE DEF d
<1> QED BY <1>1, <1>2, <1>3, SetDev DEF Still
----------------------------------------------------------------------------
(* The calls of the core. *)

(* The sink is in order, and the pipeline around it is what it was. *)
Kept(w, u) ==
  /\ u \in WorldType /\ SinkOK(u) /\ u.pipe = w.pipe /\ u.dev.backend = w.dev.backend

Quiet(w) == w.dev.queued = 0 /\ ~w.dev.on

LEMMA StillKept ==
  ASSUME NEW w \in WorldType, SinkOK(w), NEW u, Still(w, u)
  PROVE  Kept(w, u) /\ u.core = w.core /\ (Quiet(w) => Quiet(u))
  BY StillOK DEF Still, Kept, Quiet

(* What a drain has done when it succeeds. *)
Drained(w, u) ==
  /\ u \in WorldType /\ u.pipe = w.pipe /\ u.dev.backend = w.dev.backend
  /\ u.dev.queued = 0
  /\ u.dev.free = w.dev.free + (IF Zephyr(w) THEN w.dev.queued ELSE 0)
  /\ u.dev.chan = w.dev.chan /\ u.dev.misuse = w.dev.misuse
  /\ ~u.dev.on /\ ~u.core.started
  /\ u.core.configured = w.core.configured /\ u.core.running = w.core.running
  /\ u.core.held = w.core.held

LEMMA DrainedKept ==
  ASSUME NEW w \in WorldType, SinkOK(w), NEW u, Drained(w, u)
  PROVE  Kept(w, u)
<1>1. u.core \in CoreType /\ u.dev \in DevType /\ w.core \in CoreType /\ w.dev \in DevType
  BY Parts DEF Drained
<1>2. Zephyr(u) = Zephyr(w)
  BY DEF Drained, Zephyr
<1>3. Conserved(u)
  <2>1. Conserved(w) /\ w.dev.free \in Nat /\ w.dev.queued \in Nat
    BY <1>1 DEF SinkOK, DevType
  <2>2. CASE Zephyr(w)
    BY <1>2, <2>1, <2>2, SinkAssumption DEF Conserved, Drained
  <2>3. CASE ~Zephyr(w)
    BY <1>2, <2>1, <2>3 DEF Conserved, Drained
  <2> QED BY <2>2, <2>3
<1>4. u.dev.on = FALSE /\ u.core.started = FALSE
  BY <1>1 DEF Drained, CoreType, DevType
<1>5. SinkOK(u)
  BY <1>1, <1>2, <1>3, <1>4 DEF SinkOK, Drained
<1> QED BY <1>5 DEF Kept, Drained

(* The end of a drain: the clock is off, and started says so. *)
LEMMA OffDrained ==
  ASSUME NEW w \in WorldType, NEW e \in WorldType, e.pipe = w.pipe, e.core = w.core,
         e.dev.queued = 0, e.dev.backend = w.dev.backend, e.dev.chan = w.dev.chan,
         e.dev.free = w.dev.free + (IF Zephyr(w) THEN w.dev.queued ELSE 0),
         e.dev.misuse = w.dev.misuse
  PROVE  Drained(w, [[e EXCEPT !.dev.on = FALSE] EXCEPT !.core.started = FALSE])
<1> DEFINE x == [e EXCEPT !.dev.on = FALSE]
           y == [x EXCEPT !.core.started = FALSE]
<1>1. /\ x \in WorldType /\ x.pipe = e.pipe /\ x.core = e.core /\ x.dev.on = FALSE
      /\ x.dev.backend = e.dev.backend /\ x.dev.chan = e.dev.chan
      /\ x.dev.queued = e.dev.queued /\ x.dev.free = e.dev.free
      /\ x.dev.misuse = e.dev.misuse
  BY SetOn
<1> HIDE DEF x
<1>2. /\ y \in WorldType /\ y.pipe = x.pipe /\ y.dev = x.dev /\ y.core.started = FALSE
      /\ y.core.configured = x.core.configured /\ y.core.running = x.core.running
      /\ y.core.held = x.core.held
  BY <1>1, SetStarted
<1> HIDE DEF y
<1>3. Drained(w, y)
  BY <1>1, <1>2 DEF Drained
<1> QED BY <1>3 DEF x, y

LEMMA DrainDoes ==
  ASSUME NEW w \in WorldType, SinkOK(w), NEW o \in CoreDrain(w)
  PROVE  /\ Kept(w, o.w)
         /\ o.w.core.configured = w.core.configured /\ o.w.core.running = w.core.running
         /\ o.w.core.held = w.core.held /\ o.w.dev.chan = w.dev.chan
         /\ Quiet(w) => Quiet(o.w)
         /\ o.ok => ~o.w.core.started
         /\ o.ok /\ w.core.started => Quiet(o.w)
<1>1. CASE ~w.core.started
  <2>1. CoreDrain(w) = Done(w)
    BY <1>1 DEF CoreDrain
  <2>2. o.ok /\ o.w = w
    BY <2>1 DEF Done
  <2> QED BY <1>1, <2>2 DEF Kept
<1>2. ASSUME ~o.ok, Still(w, o.w) PROVE
         /\ Kept(w, o.w)
         /\ o.w.core.configured = w.core.configured /\ o.w.core.running = w.core.running
         /\ o.w.core.held = w.core.held /\ o.w.dev.chan = w.dev.chan
         /\ Quiet(w) => Quiet(o.w)
  BY <1>2, StillKept DEF Still
<1>3. ASSUME Drained(w, o.w), w.core.started PROVE
         /\ Kept(w, o.w)
         /\ o.w.core.configured = w.core.configured /\ o.w.core.running = w.core.running
         /\ o.w.core.held = w.core.held /\ o.w.dev.chan = w.dev.chan
         /\ Quiet(o.w) /\ ~o.w.core.started
  BY <1>3, DrainedKept DEF Drained, Quiet
<1>4. CASE w.core.started /\ Zephyr(w)
  <2>1. \/ o \in ZephyrDrain(w) /\ ~o.ok
        \/ \E p \in ZephyrDrain(w) :
             p.ok /\ o = [ok |-> TRUE, w |-> [p.w EXCEPT !.core.started = FALSE]]
    BY <1>4 DEF CoreDrain, Then, Done
  <2>2. CASE o \in ZephyrDrain(w) /\ ~o.ok
    <3>1. o \in Faulty(w) \/ o.w = w
      BY <2>2 DEF ZephyrDrain, Failed, Done
    <3>2. Still(w, w)
      BY DEF Still
    <3>3. Still(w, o.w)
      BY <3>1, <3>2, FaultyDoes
    <3> QED BY <1>2, <2>2, <3>3
  <2>3. ASSUME NEW p \in ZephyrDrain(w), p.ok,
               o = [ok |-> TRUE, w |-> [p.w EXCEPT !.core.started = FALSE]]
        PROVE  Drained(w, o.w)
    <3> DEFINE e == Emptied(w)
               x == [e EXCEPT !.dev.on = FALSE]
               y == [x EXCEPT !.core.started = FALSE]
    <3>1. p \in Faulty(w) \/ p \in Failed(w) \/ p \in Done(x)
      BY DEF ZephyrDrain
    <3>2. Drained(w, y)
      BY EmptiedIs, OffDrained
    <3> HIDE DEF e, x
    <3>3. p.w = x
      BY <2>3, <3>1, FaultyDoes DEF Done, Failed
    <3>4. o.w = y
      BY <2>3, <3>3
    <3> QED BY <3>2, <3>4
  <2> QED BY <1>2, <1>3, <1>4, <2>1, <2>2, <2>3
<1>5. CASE w.core.started /\ ~Zephyr(w)
  <2>1. \/ o \in EspDrain(w) /\ ~o.ok
        \/ \E p \in EspDrain(w) :
             /\ p.ok
             /\ \/ o \in EspDisable(p.w) /\ ~o.ok
                \/ \E q \in EspDisable(p.w) :
                     q.ok /\ o = [ok |-> TRUE, w |-> [q.w EXCEPT !.core.started = FALSE]]
    BY <1>5 DEF CoreDrain, Then, Done
  <2>2. CASE o \in EspDrain(w) /\ ~o.ok
    <3>1. Still(w, o.w)
      BY <2>2, FaultyDoes DEF EspDrain, Done
    <3> QED BY <1>2, <2>2, <3>1
  <2>3. ASSUME NEW p \in EspDrain(w), p.ok PROVE p.w = Emptied(w)
    BY <2>3, FaultyDoes DEF EspDrain, Done
  <2> DEFINE e == Emptied(w)
  <2>4. /\ e \in WorldType /\ e.pipe = w.pipe /\ e.core = w.core
        /\ e.dev.on = w.dev.on /\ e.dev.queued = 0
        /\ e.dev.backend = w.dev.backend /\ e.dev.chan = w.dev.chan
        /\ e.dev.free = w.dev.free /\ e.dev.misuse = w.dev.misuse
    BY <1>5, EmptiedIs, Parts DEF DevType
  <2> HIDE DEF e
  <2>5. SinkOK(e)
    <3>1. Zephyr(e) = Zephyr(w) /\ e.dev \in DevType
      BY <2>4, Parts DEF Zephyr
    <3> QED BY <1>5, <2>4, <3>1 DEF SinkOK, Conserved
  <2>6. CASE o \in EspDisable(e) /\ ~o.ok
    <3>1. Still(e, o.w)
      BY <2>4, <2>6, FaultyDoes DEF EspDisable, Done
    <3>2. Kept(e, o.w) /\ o.w.core = e.core /\ o.w.dev.chan = e.dev.chan
      BY <2>4, <2>5, <3>1, StillKept DEF Still
    <3>3. ~Quiet(w)
      BY <1>5 DEF Quiet, SinkOK
    <3> QED BY <2>4, <2>6, <3>2, <3>3 DEF Kept
  <2>7. ASSUME NEW q \in EspDisable(e), q.ok,
               o = [ok |-> TRUE, w |-> [q.w EXCEPT !.core.started = FALSE]]
        PROVE  Drained(w, o.w)
    <3> DEFINE x == [e EXCEPT !.dev.on = FALSE]
               y == [x EXCEPT !.core.started = FALSE]
    <3>1. q \in Faulty(e) \/ q \in Done(x)
      BY DEF EspDisable
    <3>2. Drained(w, y)
      <4>1. e.dev.free = w.dev.free + (IF Zephyr(w) THEN w.dev.queued ELSE 0)
        BY EmptiedIs DEF e
      <4> QED BY <2>4, <4>1, OffDrained
    <3> HIDE DEF x
    <3>3. q.w = x
      BY <2>4, <2>7, <3>1, FaultyDoes DEF Done
    <3>4. o.w = y
      BY <2>7, <3>3
    <3> QED BY <3>2, <3>4
  <2>8. ASSUME NEW p \in EspDrain(w), p.ok, o \in EspDisable(p.w), ~o.ok
        PROVE  o \in EspDisable(e) /\ ~o.ok
    BY <2>3, <2>8 DEF e
  <2>9. ASSUME NEW p \in EspDrain(w), p.ok, NEW q \in EspDisable(p.w), q.ok,
               o = [ok |-> TRUE, w |-> [q.w EXCEPT !.core.started = FALSE]]
        PROVE  Drained(w, o.w)
    BY <2>3, <2>7, <2>9 DEF e
  <2> QED BY <1>3, <1>5, <2>1, <2>2, <2>6, <2>8, <2>9
<1> QED BY <1>1, <1>4, <1>5

LEMMA StopHeldIs ==
  ASSUME NEW w \in WorldType, SinkOK(w)
  PROVE  LET v == StopHeld(w) IN
         /\ Kept(w, v) /\ ~v.core.held /\ (Quiet(w) => Quiet(v))
         /\ v.core.configured = w.core.configured /\ v.core.running = w.core.running
         /\ v.core.started = w.core.started /\ v.dev.chan = w.dev.chan
<1>1. CASE ~w.core.held
  <2>1. StopHeld(w) = w
    BY <1>1 DEF StopHeld
  <2> QED BY <1>1, <2>1 DEF Kept
<1>2. CASE w.core.held
  <2> DEFINE u == [w EXCEPT !.core.held = FALSE]
             d == [w.dev EXCEPT !.free = @ + 1]
             v == [u EXCEPT !.dev = d]
  <2>1. StopHeld(w) = v
    BY <1>2 DEF StopHeld, WorldType
  <2>2. /\ u \in WorldType /\ u.pipe = w.pipe /\ u.dev = w.dev /\ u.core.held = FALSE
        /\ u.core.configured = w.core.configured /\ u.core.running = w.core.running
        /\ u.core.started = w.core.started
    BY SetHeld
  <2>3. /\ d \in DevType /\ d.free = w.dev.free + 1 /\ d.backend = w.dev.backend
        /\ d.chan = w.dev.chan /\ d.on = w.dev.on /\ d.queued = w.dev.queued
        /\ d.misuse = w.dev.misuse
    BY Parts DEF DevType
  <2> HIDE DEF u, d
  <2>4. v \in WorldType /\ v.pipe = u.pipe /\ v.core = u.core /\ v.dev = d
    BY <2>2, <2>3, SetDev
  <2> HIDE DEF v
  <2>5. Zephyr(v) = Zephyr(w)
    BY <2>3, <2>4 DEF Zephyr
  <2>6. w.dev.free \in Nat /\ w.dev.queued \in Nat /\ Conserved(w)
    BY Parts DEF DevType, SinkOK
  <2>7. Conserved(v)
    <3>1. CASE Zephyr(w)
      BY <1>2, <2>2, <2>3, <2>4, <2>5, <2>6, <3>1, SinkAssumption DEF Conserved
    <3>2. CASE ~Zephyr(w)
      BY <1>2, <2>2, <2>3, <2>4, <2>5, <2>6, <3>2 DEF Conserved
    <3> QED BY <3>1, <3>2
  <2>8. v.core \in CoreType /\ v.dev \in DevType
    BY <2>4, Parts
  <2>9. SinkOK(v)
    BY <2>2, <2>3, <2>4, <2>5, <2>7, <2>8 DEF SinkOK
  <2> QED BY <2>1, <2>2, <2>3, <2>4, <2>9 DEF Kept, Quiet
<1> QED BY <1>1, <1>2

LEMMA UnboundStill ==
  ASSUME NEW w \in WorldType
  PROVE  Still(w, [w EXCEPT !.dev.unbound = TRUE])
<1> DEFINE d == [w.dev EXCEPT !.unbound = TRUE]
<1>1. [w EXCEPT !.dev.unbound = TRUE] = [w EXCEPT !.dev = d]
  OBVIOUS
<1>2. /\ d \in DevType /\ d.backend = w.dev.backend /\ d.chan = w.dev.chan
      /\ d.on = w.dev.on /\ d.queued = w.dev.queued /\ d.free = w.dev.free
      /\ d.misuse = w.dev.misuse
  BY Parts DEF DevType
<1> DEFINE u == [w EXCEPT !.dev.unbound = TRUE]
<1>3. u \in WorldType /\ u.pipe = w.pipe /\ u.core = w.core /\ u.dev = d
  BY <1>1, <1>2, SetDev
<1> HIDE DEF d, u
<1>4. Still(w, u)
  BY <1>2, <1>3 DEF Still
<1> QED BY <1>4 DEF u

(* I2S_TRIGGER_DROP, once the core counts the clock as off. *)
LEMMA DropDoes ==
  ASSUME NEW w \in WorldType, SinkOK(w), ~w.core.started, NEW o \in ZephyrDrop(w)
  PROVE  \/ ~o.ok /\ Still(w, o.w)
         \/ o.ok /\ Drained(w, o.w)
<1> DEFINE e == Emptied(w)
           x == [e EXCEPT !.dev.on = FALSE]
<1>1. o \in Faulty(w) \/ o \in Failed([w EXCEPT !.dev.unbound = TRUE]) \/ o \in Done(x)
  BY DEF ZephyrDrop
<1>2. CASE o \in Failed([w EXCEPT !.dev.unbound = TRUE])
  BY <1>2, UnboundStill DEF Failed
<1>3. CASE o \in Done(x)
  <2>1. /\ e \in WorldType /\ e.pipe = w.pipe /\ e.core = w.core /\ e.dev.queued = 0
        /\ e.dev.backend = w.dev.backend /\ e.dev.chan = w.dev.chan
        /\ e.dev.free = w.dev.free + (IF Zephyr(w) THEN w.dev.queued ELSE 0)
        /\ e.dev.misuse = w.dev.misuse
    BY EmptiedIs
  <2> HIDE DEF e
  <2>2. /\ x \in WorldType /\ x.pipe = e.pipe /\ x.core = e.core /\ x.dev.on = FALSE
        /\ x.dev.backend = e.dev.backend /\ x.dev.chan = e.dev.chan
        /\ x.dev.queued = e.dev.queued /\ x.dev.free = e.dev.free
        /\ x.dev.misuse = e.dev.misuse
    BY <2>1, SetOn
  <2> HIDE DEF x
  <2>3. o.ok /\ o.w = x
    BY <1>3 DEF Done
  <2> QED BY <2>1, <2>2, <2>3 DEF Drained
<1> HIDE DEF x
<1> QED BY <1>1, <1>2, <1>3, FaultyDoes

LEMMA StopDriverDoes ==
  ASSUME NEW w \in WorldType, SinkOK(w), NEW o \in StopDriver(w)
  PROVE  /\ Kept(w, o.w)
         /\ o.w.core.configured = w.core.configured /\ o.w.core.held = w.core.held
         /\ o.w.dev.chan = w.dev.chan
         /\ Quiet(w) => Quiet(o.w)
         /\ o.ok => ~o.w.core.started /\ Quiet(o.w)
<1>1. \/ o \in CoreDrain(w) /\ ~o.ok
      \/ \E p \in CoreDrain(w) :
           /\ p.ok
           /\ \/ Zephyr(w) /\ o \in ZephyrDrop(p.w)
              \/ ~Zephyr(w) /\ o \in Done(p.w)
  BY DEF StopDriver, Then
<1>2. CASE o \in CoreDrain(w) /\ ~o.ok
  BY <1>2, DrainDoes
<1>3. ASSUME NEW p \in CoreDrain(w), p.ok, Zephyr(w), o \in ZephyrDrop(p.w)
      PROVE  /\ Kept(w, o.w)
             /\ o.w.core.configured = w.core.configured /\ o.w.core.held = w.core.held
             /\ o.w.dev.chan = w.dev.chan
             /\ Quiet(w) => Quiet(o.w)
             /\ o.ok => ~o.w.core.started /\ Quiet(o.w)
  <2>1. /\ Kept(w, p.w) /\ ~p.w.core.started
        /\ p.w.core.configured = w.core.configured /\ p.w.core.held = w.core.held
        /\ p.w.dev.chan = w.dev.chan /\ (Quiet(w) => Quiet(p.w))
    BY <1>3, DrainDoes
  <2>2. p.w \in WorldType /\ SinkOK(p.w)
    BY <2>1 DEF Kept
  <2>3. \/ ~o.ok /\ Still(p.w, o.w)
        \/ o.ok /\ Drained(p.w, o.w)
    BY <1>3, <2>1, <2>2, DropDoes
  <2>4. CASE ~o.ok /\ Still(p.w, o.w)
    <3>1. Kept(p.w, o.w) /\ o.w.core = p.w.core /\ (Quiet(p.w) => Quiet(o.w))
      BY <2>2, <2>4, StillKept
    <3> QED BY <2>1, <2>4, <3>1 DEF Kept, Still
  <2>5. CASE o.ok /\ Drained(p.w, o.w)
    <3>1. Kept(p.w, o.w)
      BY <2>2, <2>5, DrainedKept
    <3> QED BY <2>1, <2>5, <3>1 DEF Kept, Drained, Quiet
  <2> QED BY <2>3, <2>4, <2>5
<1>4. ASSUME NEW p \in CoreDrain(w), p.ok, ~Zephyr(w), o \in Done(p.w)
      PROVE  /\ Kept(w, o.w)
             /\ o.w.core.configured = w.core.configured /\ o.w.core.held = w.core.held
             /\ o.w.dev.chan = w.dev.chan
             /\ ~o.w.core.started /\ Quiet(o.w)
  <2>1. /\ Kept(w, p.w) /\ ~p.w.core.started
        /\ p.w.core.configured = w.core.configured /\ p.w.core.held = w.core.held
        /\ p.w.dev.chan = w.dev.chan
    BY <1>4, DrainDoes
  <2>2. o.w = p.w
    BY <1>4 DEF Done
  <2>3. ~Zephyr(p.w)
    BY <1>4, <2>1 DEF Kept, Zephyr
  <2>4. Quiet(p.w)
    BY <2>1, <2>3 DEF Kept, SinkOK, Quiet
  <2> QED BY <2>1, <2>2, <2>4
<1> QED BY <1>1, <1>2, <1>3, <1>4

(* core_stop on any core, also one that does not run. *)
LEMMA StopDoes ==
  ASSUME NEW w \in WorldType, SinkOK(w), NEW o \in CoreStop(w)
  PROVE  /\ Kept(w, o.w)
         /\ o.w.core.configured = w.core.configured /\ o.w.dev.chan = w.dev.chan
         /\ Quiet(w) => Quiet(o.w)
         /\ o.ok => ~o.w.core.running
<1> DEFINE v == StopHeld(w)
<1>1. /\ Kept(w, v) /\ ~v.core.held /\ (Quiet(w) => Quiet(v))
      /\ v.core.configured = w.core.configured /\ v.dev.chan = w.dev.chan
  BY StopHeldIs
<1>2. \/ o \in StopDriver(v) /\ ~o.ok
      \/ \E p \in StopDriver(v) :
           p.ok /\ o \in Done([p.w EXCEPT !.core = [p.w.core EXCEPT !.running = FALSE,
                                                                    !.paused = FALSE]])
  BY DEF CoreStop, Then
<1> HIDE DEF v
<1>3. v \in WorldType /\ SinkOK(v)
  BY <1>1 DEF Kept
<1>4. CASE o \in StopDriver(v) /\ ~o.ok
  <2>1. Kept(v, o.w) /\ o.w.core.configured = v.core.configured
        /\ o.w.dev.chan = v.dev.chan /\ (Quiet(v) => Quiet(o.w))
    BY <1>3, <1>4, StopDriverDoes
  <2> QED BY <1>1, <1>4, <2>1 DEF Kept
<1>5. ASSUME NEW p \in StopDriver(v), p.ok,
             o \in Done([p.w EXCEPT !.core = [p.w.core EXCEPT !.running = FALSE,
                                                              !.paused = FALSE]])
      PROVE  /\ Kept(w, o.w) /\ Quiet(o.w) /\ ~o.w.core.running
             /\ o.w.core.configured = w.core.configured /\ o.w.dev.chan = w.dev.chan
  <2> DEFINE u == p.w
             k == [u.core EXCEPT !.running = FALSE]
             l == [k EXCEPT !.paused = FALSE]
             y == [u EXCEPT !.core = l]
  <2>1. /\ Kept(v, u) /\ ~u.core.started /\ Quiet(u) /\ u.core.held = v.core.held
        /\ u.core.configured = v.core.configured /\ u.dev.chan = v.dev.chan
    BY <1>3, <1>5, StopDriverDoes
  <2>2. o.w = y
    BY <1>5 DEF Done
  <2> HIDE DEF u
  <2>3. u \in WorldType /\ SinkOK(u) /\ u.core \in CoreType /\ u.dev \in DevType
    BY <2>1, Parts DEF Kept
  <2>4. /\ k \in CoreType /\ k.running = FALSE /\ k.configured = u.core.configured
        /\ k.held = u.core.held /\ k.started = u.core.started
    BY <2>3 DEF CoreType
  <2> HIDE DEF k
  <2>5. /\ l \in CoreType /\ l.running = k.running /\ l.configured = k.configured
        /\ l.held = k.held /\ l.started = k.started
    BY <2>4 DEF CoreType
  <2> HIDE DEF l
  <2>6. y \in WorldType /\ y.pipe = u.pipe /\ y.core = l /\ y.dev = u.dev
    BY <2>3, <2>5, SetCore
  <2> HIDE DEF y
  <2>7. Zephyr(y) = Zephyr(u) /\ Conserved(y)
    BY <2>3, <2>4, <2>5, <2>6 DEF Zephyr, Conserved, SinkOK
  <2>8. SinkOK(y)
    BY <1>1, <2>1, <2>3, <2>4, <2>5, <2>6, <2>7 DEF SinkOK, Quiet
  <2> QED BY <1>1, <2>1, <2>2, <2>4, <2>5, <2>6, <2>8 DEF Kept, Quiet
<1> QED BY <1>2, <1>4, <1>5

(* core_deinit: the channel goes only after the core has stopped. *)
LEMMA DeleteDoes ==
  ASSUME NEW w \in WorldType, SinkOK(w), NEW o \in CoreDelete(w)
  PROVE  /\ Kept(w, o.w)
         /\ Quiet(w) => Quiet(o.w)
         /\ o.ok => ~o.w.core.configured
         /\ ~o.ok => o.w.core.configured = w.core.configured
<1>1. \/ o \in CoreStop(w) /\ ~o.ok
      \/ \E p \in CoreStop(w) :
           /\ p.ok
           /\ \/ Zephyr(w) /\ o \in Done([p.w EXCEPT !.core.configured = FALSE])
              \/ ~Zephyr(w) /\ o \in EspDelete(p.w) /\ ~o.ok
              \/ /\ ~Zephyr(w)
                 /\ \E q \in EspDelete(p.w) :
                      q.ok /\ o \in Done([q.w EXCEPT !.core.configured = FALSE])
  BY DEF CoreDelete, Then, Done
<1>2. CASE o \in CoreStop(w) /\ ~o.ok
  BY <1>2, StopDoes
<1>3. ASSUME NEW p \in CoreStop(w), p.ok
      PROVE  /\ Kept(w, p.w) /\ ~p.w.core.running /\ Quiet(p.w)
             /\ p.w.core.configured = w.core.configured
  <2>1. /\ Kept(w, p.w) /\ ~p.w.core.running /\ p.w.core.configured = w.core.configured
    BY <1>3, StopDoes
  <2> QED BY <2>1 DEF Kept, SinkOK, Quiet
(* Whatever is left, a stopped core without a channel is in order. *)
<1>4. ASSUME NEW u \in WorldType, SinkOK(u), ~u.core.running, Zephyr(u) \/ ~u.dev.chan,
             o \in Done([u EXCEPT !.core.configured = FALSE])
      PROVE  Kept(u, o.w) /\ Quiet(o.w) /\ ~o.w.core.configured /\ o.ok
  <2> DEFINE y == [u EXCEPT !.core.configured = FALSE]
  <2>1. /\ y \in WorldType /\ y.pipe = u.pipe /\ y.dev = u.dev /\ y.core.configured = FALSE
        /\ y.core.running = u.core.running /\ y.core.started = u.core.started
        /\ y.core.held = u.core.held
    BY SetConfigured
  <2>2. o.ok /\ o.w = y
    BY <1>4 DEF Done
  <2> HIDE DEF y
  <2>3. Zephyr(y) = Zephyr(u) /\ Conserved(y) /\ y.core \in CoreType /\ y.dev \in DevType
    BY <1>4, <2>1, Parts DEF Zephyr, Conserved, SinkOK
  <2>4. SinkOK(y)
    BY <1>4, <2>1, <2>3 DEF SinkOK
  <2>5. Quiet(y)
    BY <1>4, <2>1 DEF SinkOK, Quiet
  <2> QED BY <2>1, <2>2, <2>4, <2>5 DEF Kept
<1>5. ASSUME NEW p \in CoreStop(w), p.ok, Zephyr(w),
             o \in Done([p.w EXCEPT !.core.configured = FALSE])
      PROVE  Kept(w, o.w) /\ Quiet(o.w) /\ ~o.w.core.configured /\ o.ok
  <2>1. Kept(w, p.w) /\ ~p.w.core.running
    BY <1>3, <1>5
  <2>2. p.w \in WorldType /\ SinkOK(p.w) /\ Zephyr(p.w)
    BY <1>5, <2>1 DEF Kept, Zephyr
  <2>3. Kept(p.w, o.w) /\ Quiet(o.w) /\ ~o.w.core.configured /\ o.ok
    BY <1>4, <1>5, <2>1, <2>2
  <2> QED BY <2>1, <2>3 DEF Kept
<1>6. ASSUME NEW p \in CoreStop(w), p.ok, ~Zephyr(w), NEW q \in EspDelete(p.w)
      PROVE  /\ ~q.ok => Kept(w, q.w) /\ Quiet(q.w)
             /\ ~q.ok => q.w.core.configured = w.core.configured
             /\ q.ok => \A r \in Done([q.w EXCEPT !.core.configured = FALSE]) :
                          Kept(w, r.w) /\ Quiet(r.w) /\ ~r.w.core.configured /\ r.ok
  <2> DEFINE s == p.w
             m == Misused(s, s.dev.on)
             x == [m EXCEPT !.dev.chan = FALSE]
  <2>1. Kept(w, s) /\ ~s.core.running /\ Quiet(s) /\ s.core.configured = w.core.configured
    BY <1>3, <1>6
  <2>2. q \in Faulty(s) \/ q \in Done(x) \/ (~s.dev.chan /\ q \in Done(s))
    BY <1>6 DEF EspDelete
  <2> HIDE DEF s
  <2>3. s \in WorldType /\ SinkOK(s) /\ ~Zephyr(s) /\ s.dev.on \in BOOLEAN /\ ~s.dev.on
    BY <1>6, <2>1, Parts DEF Kept, Zephyr, Quiet, DevType
  <2>4. CASE q \in Faulty(s)
    <3>1. ~q.ok /\ Still(s, q.w)
      BY <2>3, <2>4, FaultyDoes
    <3>2. Kept(s, q.w) /\ q.w.core = s.core /\ Quiet(q.w)
      BY <2>1, <2>3, <3>1, StillKept
    <3> QED BY <2>1, <3>1, <3>2 DEF Kept
  <2>5. ASSUME NEW y \in WorldType, y.pipe = s.pipe, y.dev.backend = s.dev.backend,
               ~y.dev.chan, y.core = s.core, y.dev.queued = s.dev.queued,
               y.dev.free = s.dev.free, y.dev.on = s.dev.on, y.dev.misuse = s.dev.misuse
        PROVE  \A r \in Done([y EXCEPT !.core.configured = FALSE]) :
                 Kept(w, r.w) /\ Quiet(r.w) /\ ~r.w.core.configured /\ r.ok
    <3> TAKE r \in Done([y EXCEPT !.core.configured = FALSE])
    <3> DEFINE z == [y EXCEPT !.core.configured = FALSE]
    <3>1. /\ z \in WorldType /\ z.pipe = y.pipe /\ z.dev = y.dev /\ z.core.configured = FALSE
          /\ z.core.running = y.core.running /\ z.core.started = y.core.started
          /\ z.core.held = y.core.held
      BY <2>5, SetConfigured
    <3>2. r.ok /\ r.w = z
      BY DEF Done
    <3> HIDE DEF z
    <3>3. /\ Zephyr(z) = Zephyr(s) /\ Conserved(z)
          /\ z.core \in CoreType /\ z.dev \in DevType
      BY <2>3, <2>5, <3>1, Parts DEF Zephyr, Conserved, SinkOK
    <3>4. SinkOK(z)
      BY <2>1, <2>3, <2>5, <3>1, <3>3 DEF SinkOK
    <3> QED BY <2>1, <2>5, <3>1, <3>2, <3>4 DEF Kept, Quiet
  <2>6. CASE q \in Done(x)
    <3>1. Still(s, m)
      BY <2>3, NotMisused
    <3>2. m \in WorldType
      BY <3>1 DEF Still
    <3> HIDE DEF m
    <3>3. /\ x \in WorldType /\ x.pipe = m.pipe /\ x.core = m.core /\ x.dev.chan = FALSE
          /\ x.dev.backend = m.dev.backend /\ x.dev.on = m.dev.on
          /\ x.dev.queued = m.dev.queued /\ x.dev.free = m.dev.free
          /\ x.dev.misuse = m.dev.misuse
      BY <3>2, SetChan
    <3> HIDE DEF x
    <3>4. q.ok /\ q.w = x
      BY <2>6 DEF Done
    <3> QED BY <2>5, <3>1, <3>3, <3>4 DEF Still
  <2>7. CASE ~s.dev.chan /\ q \in Done(s)
    <3>1. q.ok /\ q.w = s
      BY <2>7 DEF Done
    <3> QED BY <2>3, <2>5, <2>7, <3>1
  <2> QED BY <2>2, <2>4, <2>6, <2>7
<1> QED BY <1>1, <1>2, <1>5, <1>6

(* core_init *)
LEMMA ConfigureDoes ==
  ASSUME NEW w \in WorldType, SinkOK(w), NEW o \in CoreConfigure(w)
  PROVE  /\ Kept(w, o.w)
         /\ Quiet(w) => Quiet(o.w)
         /\ o.w.core.running = w.core.running
         /\ o.ok => o.w.core.configured
         /\ ~o.ok => o.w.core.configured = w.core.configured
<1>1. \/ o \in Failed(w) \/ o \in Faulty(w)
      \/ /\ ~w.core.configured /\ ~w.core.running
         /\ \/ ~Zephyr(w) /\ o \in EspConfigure(w) /\ ~o.ok
            \/ Zephyr(w) /\ o \in ZephyrConfigure(w) /\ ~o.ok
            \/ /\ ~Zephyr(w)
               /\ \E q \in EspConfigure(w) : q.ok /\
                    o \in Done([q.w EXCEPT !.core = [q.w.core EXCEPT !.held = FALSE,
                                                                     !.configured = TRUE]])
            \/ /\ Zephyr(w)
               /\ \E q \in ZephyrConfigure(w) : q.ok /\
                    o \in Done([q.w EXCEPT !.core = [q.w.core EXCEPT !.held = FALSE,
                                                                     !.configured = TRUE]])
  BY DEF CoreConfigure, Then
<1>2. CASE o \in Failed(w) \/ o \in Faulty(w)
  <2>1. ~o.ok /\ Still(w, o.w)
    BY <1>2, FaultyDoes DEF Failed, Still
  <2> QED BY <2>1, StillKept
<1> DEFINE b == [w EXCEPT !.dev.chan = TRUE]
           c == [w EXCEPT !.dev.chan = FALSE]
           m == Misused(w, w.dev.chan)
           n == [m EXCEPT !.dev.chan = TRUE]
(* The driver's part leaves the core alone; only the channel may differ. *)
<1> DEFINE Bound(u) ==
      /\ u \in WorldType /\ u.pipe = w.pipe /\ u.core = w.core
      /\ u.dev.backend = w.dev.backend /\ u.dev.on = w.dev.on
      /\ u.dev.queued = w.dev.queued /\ u.dev.free = w.dev.free
      /\ u.dev.misuse = w.dev.misuse
<1>3. Bound(b) /\ b.dev.chan = TRUE /\ Bound(c)
  BY SetChan
<1>4. ASSUME ~w.core.configured, ~Zephyr(w) PROVE Bound(n) /\ n.dev.chan = TRUE
  <2>1. w.dev.chan \in BOOLEAN /\ ~w.dev.chan
    BY <1>4, Parts DEF SinkOK, DevType
  <2>2. Still(w, m)
    BY <2>1, NotMisused
  <2>3. m \in WorldType
    BY <2>2 DEF Still
  <2> HIDE DEF m
  <2>4. /\ n \in WorldType /\ n.pipe = m.pipe /\ n.core = m.core /\ n.dev.chan = TRUE
        /\ n.dev.backend = m.dev.backend /\ n.dev.on = m.dev.on
        /\ n.dev.queued = m.dev.queued /\ n.dev.free = m.dev.free
        /\ n.dev.misuse = m.dev.misuse
    BY <2>3, SetChan
  <2> HIDE DEF n
  <2> QED BY <2>2, <2>4 DEF Still
<1>5. ASSUME NEW q \in EspConfigure(w), ~w.core.configured, ~Zephyr(w)
      PROVE  \/ ~q.ok /\ Still(w, q.w)
             \/ q.ok /\ Bound(q.w) /\ q.w.dev.chan = TRUE
  <2>1. q \in Faulty(w) \/ q \in Done(n)
    BY <1>5 DEF EspConfigure
  <2>2. Bound(n) /\ n.dev.chan = TRUE
    BY <1>4, <1>5
  <2> HIDE DEF n
  <2> QED BY <2>1, <2>2, FaultyDoes DEF Done
<1>6. ASSUME NEW q \in ZephyrConfigure(w)
      PROVE  Bound(q.w) /\ (q.ok => q.w.dev.chan = TRUE)
  <2>1. q \in Done(b) \/ q \in Faulty(b) \/ q \in Faulty(c)
    BY <1>6 DEF ZephyrConfigure
  <2> HIDE DEF b, c
  <2>2. q \in Done(b) => q.w = b
    BY DEF Done
  <2>3. q \in Faulty(b) => Still(b, q.w) /\ ~q.ok
    BY <1>3, FaultyDoes
  <2>4. q \in Faulty(c) => Still(c, q.w) /\ ~q.ok
    BY <1>3, FaultyDoes
  <2> QED BY <1>3, <2>1, <2>2, <2>3, <2>4 DEF Still
<1> HIDE DEF b, c, m, n
<1>7. ASSUME NEW u, Bound(u), ~w.core.configured, ~w.core.running, Zephyr(w)
      PROVE  Kept(w, u) /\ (Quiet(w) => Quiet(u)) /\ u.core = w.core
  <2>1. /\ Zephyr(u) = Zephyr(w) /\ Conserved(u)
        /\ u.core \in CoreType /\ u.dev \in DevType
    BY <1>7, Parts DEF Zephyr, Conserved, SinkOK
  <2>2. SinkOK(u)
    BY <1>7, <2>1 DEF SinkOK
  <2> QED BY <1>7, <2>2 DEF Kept, Quiet
<1>8. ASSUME NEW u, Bound(u), u.dev.chan = TRUE, ~w.core.configured, ~w.core.running,
             o \in Done([u EXCEPT !.core = [u.core EXCEPT !.held = FALSE,
                                                          !.configured = TRUE]])
      PROVE  /\ Kept(w, o.w) /\ (Quiet(w) => Quiet(o.w)) /\ o.ok
             /\ o.w.core.configured /\ o.w.core.running = w.core.running
  <2> DEFINE k == [u.core EXCEPT !.held = FALSE]
             l == [k EXCEPT !.configured = TRUE]
             y == [u EXCEPT !.core = l]
  <2>1. o.ok /\ o.w = y
    BY <1>8 DEF Done
  <2>2. u \in WorldType /\ u.core \in CoreType /\ u.dev \in DevType
    BY <1>8, Parts
  <2>3. /\ k \in CoreType /\ k.held = FALSE /\ k.running = u.core.running
        /\ k.started = u.core.started
    BY <2>2 DEF CoreType
  <2> HIDE DEF k
  <2>4. /\ l \in CoreType /\ l.configured = TRUE /\ l.held = k.held
        /\ l.running = k.running /\ l.started = k.started
    BY <2>3 DEF CoreType
  <2> HIDE DEF l
  <2>5. y \in WorldType /\ y.pipe = u.pipe /\ y.core = l /\ y.dev = u.dev
    BY <2>2, <2>4, SetCore
  <2> HIDE DEF y
  <2>6. w.core \in CoreType /\ w.core.held = FALSE
    BY <1>8, Parts DEF SinkOK, CoreType
  <2>7. /\ Zephyr(y) = Zephyr(w) /\ Conserved(y)
        /\ y.core \in CoreType /\ y.dev \in DevType
    BY <1>8, <2>3, <2>4, <2>5, <2>6, Parts DEF Zephyr, Conserved, SinkOK
  <2>8. SinkOK(y)
    BY <1>8, <2>3, <2>4, <2>5, <2>7 DEF SinkOK
  <2> QED BY <1>8, <2>1, <2>3, <2>4, <2>5, <2>8 DEF Kept, Quiet
<1> HIDE DEF Bound
<1>9. CASE ~Zephyr(w) /\ o \in EspConfigure(w) /\ ~o.ok /\ ~w.core.configured
  <2>1. Still(w, o.w)
    BY <1>5, <1>9
  <2> QED BY <1>9, <2>1, StillKept
<1>10. CASE /\ Zephyr(w) /\ o \in ZephyrConfigure(w) /\ ~o.ok
            /\ ~w.core.configured /\ ~w.core.running
  BY <1>6, <1>7, <1>10
<1> QED BY <1>1, <1>2, <1>5, <1>6, <1>8, <1>9, <1>10

LEMMA StartDoes ==
  ASSUME NEW w \in WorldType, SinkOK(w), NEW o \in CoreStart(w)
  PROVE  /\ Kept(w, o.w) /\ (Quiet(w) => Quiet(o.w))
         /\ o.w.core.configured = w.core.configured
         /\ ~o.ok => o.w.core.running = w.core.running
<1> DEFINE k == [w.core EXCEPT !.paused = FALSE]
           l == [k EXCEPT !.running = TRUE]
           m == [l EXCEPT !.started = FALSE]
           n == [m EXCEPT !.held = FALSE]
           y == [w EXCEPT !.core = n]
<1>1. \/ o \in Failed(w)
      \/ w.core.configured /\ ~w.core.running /\ o \in Done(y)
  BY DEF CoreStart
<1>2. CASE o \in Failed(w)
  BY <1>2 DEF Failed, Kept
<1>3. CASE w.core.configured /\ ~w.core.running /\ o \in Done(y)
  <2>1. o.ok /\ o.w = y
    BY <1>3 DEF Done
  <2>2. w.core \in CoreType /\ w.dev \in DevType
    BY Parts
  <2>3. k \in CoreType /\ k.configured = w.core.configured
    BY <2>2 DEF CoreType
  <2> HIDE DEF k
  <2>4. l \in CoreType /\ l.configured = k.configured /\ l.running = TRUE
    BY <2>3 DEF CoreType
  <2> HIDE DEF l
  <2>5. /\ m \in CoreType /\ m.configured = l.configured /\ m.running = l.running
        /\ m.started = FALSE
    BY <2>4 DEF CoreType
  <2> HIDE DEF m
  <2>6. /\ n \in CoreType /\ n.configured = m.configured /\ n.running = m.running
        /\ n.started = m.started /\ n.held = FALSE
    BY <2>5 DEF CoreType
  <2> HIDE DEF n
  <2>7. y \in WorldType /\ y.pipe = w.pipe /\ y.core = n /\ y.dev = w.dev
    BY <2>6, SetCore
  <2> HIDE DEF y
  <2>8. w.core.held = FALSE /\ w.dev.on = FALSE /\ w.dev.queued = 0
    BY <1>3, <2>2 DEF SinkOK, CoreType, DevType
  <2>9. Zephyr(y) = Zephyr(w) /\ Conserved(y)
    BY <2>6, <2>7, <2>8 DEF Zephyr, Conserved, SinkOK
  <2>10. SinkOK(y)
    BY <1>3, <2>2, <2>3, <2>4, <2>5, <2>6, <2>7, <2>8, <2>9 DEF SinkOK
  <2> QED BY <2>1, <2>3, <2>4, <2>5, <2>6, <2>7, <2>10 DEF Kept, Quiet
<1> QED BY <1>1, <1>2, <1>3

LEMMA AcquireDoes ==
  ASSUME NEW w \in WorldType, SinkOK(w), NEW o \in CoreAcquire(w)
  PROVE  /\ Kept(w, o.w) /\ (Quiet(w) => Quiet(o.w))
         /\ o.w.core.configured = w.core.configured
<1> DEFINE u == [w EXCEPT !.core.held = TRUE]
           d == [w.dev EXCEPT !.free = @ - 1]
           v == [u EXCEPT !.dev = d]
<1>1. \/ o \in Failed(w)
      \/ w.core.running /\ ~w.core.held /\ w.dev.free # 0 /\ o \in Done(v)
  BY DEF CoreAcquire, WorldType
<1>2. CASE o \in Failed(w)
  BY <1>2 DEF Failed, Kept
<1>3. CASE w.core.running /\ ~w.core.held /\ w.dev.free # 0 /\ o \in Done(v)
  <2>1. o.ok /\ o.w = v
    BY <1>3 DEF Done
  <2>2. w.core \in CoreType /\ w.dev \in DevType
    BY Parts
  <2>3. /\ u \in WorldType /\ u.pipe = w.pipe /\ u.dev = w.dev /\ u.core.held = TRUE
        /\ u.core.configured = w.core.configured /\ u.core.running = w.core.running
        /\ u.core.started = w.core.started
    BY SetHeld
  <2>4. /\ d \in DevType /\ d.free = w.dev.free - 1 /\ d.backend = w.dev.backend
        /\ d.chan = w.dev.chan /\ d.on = w.dev.on /\ d.queued = w.dev.queued
        /\ d.misuse = w.dev.misuse
    BY <1>3, <2>2 DEF DevType
  <2> HIDE DEF u, d
  <2>5. v \in WorldType /\ v.pipe = u.pipe /\ v.core = u.core /\ v.dev = d
    BY <2>3, <2>4, SetDev
  <2> HIDE DEF v
  <2>6. Zephyr(v) = Zephyr(w)
    BY <2>4, <2>5 DEF Zephyr
  <2>7. w.dev.free \in Nat /\ w.dev.queued \in Nat /\ Conserved(w)
    BY <2>2 DEF DevType, SinkOK
  <2>8. Conserved(v)
    <3>1. CASE Zephyr(w)
      BY <1>3, <2>3, <2>4, <2>5, <2>6, <2>7, <3>1, SinkAssumption DEF Conserved
    <3>2. CASE ~Zephyr(w)
      BY <1>3, <2>3, <2>4, <2>5, <2>6, <2>7, <3>2 DEF Conserved
    <3> QED BY <3>1, <3>2
  <2>9. v.core \in CoreType /\ v.dev \in DevType
    BY <2>5, Parts
  <2>10. SinkOK(v)
    BY <1>3, <2>3, <2>4, <2>5, <2>6, <2>8, <2>9 DEF SinkOK
  <2> QED BY <2>1, <2>3, <2>4, <2>5, <2>10 DEF Kept, Quiet
<1> HIDE DEF v
<1> QED BY <1>1, <1>2, <1>3

(* The clock before the first block on ESP-IDF. *)
LEMMA EnableDoes ==
  ASSUME NEW w \in WorldType, SinkOK(w), w.core.running, NEW o \in CommitEnable(w)
  PROVE  /\ Kept(w, o.w)
         /\ o.w.core.configured = w.core.configured /\ o.w.core.running = w.core.running
         /\ o.w.core.held = w.core.held
         /\ o.ok => Zephyr(w) \/ o.w.core.started
<1>1. CASE w.core.started \/ Zephyr(w)
  <2>1. CommitEnable(w) = Done(w)
    BY <1>1 DEF CommitEnable
  <2>2. o.ok /\ o.w = w
    BY <2>1 DEF Done
  <2> QED BY <1>1, <2>2 DEF Kept
<1>2. CASE ~(w.core.started \/ Zephyr(w))
  <2>1. \/ o \in EspEnable(w) /\ ~o.ok
        \/ \E q \in EspEnable(w) : q.ok /\ o \in Done([q.w EXCEPT !.core.started = TRUE])
    BY <1>2 DEF CommitEnable, Then
  <2> DEFINE m == Misused(w, w.dev.on)
             x == [m EXCEPT !.dev.on = TRUE]
             y == [x EXCEPT !.core.started = TRUE]
  <2>2. w.core \in CoreType /\ w.dev \in DevType
    BY Parts
  <2>3. w.dev.on \in BOOLEAN /\ ~w.dev.on /\ w.core.started = FALSE
    BY <1>2, <2>2 DEF SinkOK, DevType, CoreType
  <2>4. Still(w, m)
    BY <2>3, NotMisused
  <2>5. \A q \in EspEnable(w) : q \in Faulty(w) \/ q \in Done(x)
    BY DEF EspEnable
  <2>6. m \in WorldType
    BY <2>4 DEF Still
  <2> HIDE DEF m
  <2>7. /\ x \in WorldType /\ x.pipe = m.pipe /\ x.core = m.core /\ x.dev.on = TRUE
        /\ x.dev.backend = m.dev.backend /\ x.dev.chan = m.dev.chan
        /\ x.dev.queued = m.dev.queued /\ x.dev.free = m.dev.free
        /\ x.dev.misuse = m.dev.misuse
    BY <2>6, SetOn
  <2> HIDE DEF x
  <2>8. /\ y \in WorldType /\ y.pipe = x.pipe /\ y.dev = x.dev /\ y.core.started = TRUE
        /\ y.core.configured = x.core.configured /\ y.core.running = x.core.running
        /\ y.core.held = x.core.held
    BY <2>7, SetStarted
  <2> HIDE DEF y
  <2>9. /\ Zephyr(y) = Zephyr(w) /\ Conserved(y)
        /\ y.core \in CoreType /\ y.dev \in DevType
    BY <2>4, <2>7, <2>8, Parts DEF Zephyr, Conserved, SinkOK, Still
  <2>10. SinkOK(y)
    BY <1>2, <2>4, <2>7, <2>8, <2>9 DEF SinkOK, Still
  <2>11. CASE o \in EspEnable(w) /\ ~o.ok
    <3>1. Still(w, o.w)
      BY <2>5, <2>11, FaultyDoes DEF Done
    <3> QED BY <2>11, <3>1, StillKept
  <2>12. ASSUME NEW q \in EspEnable(w), q.ok, o \in Done([q.w EXCEPT !.core.started = TRUE])
         PROVE  o.w = y
    <3>1. q.w = x
      BY <2>5, <2>12, FaultyDoes DEF Done
    <3> QED BY <2>12, <3>1 DEF Done, y
  <2> QED BY <2>1, <2>4, <2>7, <2>8, <2>10, <2>11, <2>12 DEF Kept, Still
<1> QED BY <1>1, <1>2

(* The block passes from the core to the driver, or is copied by it. *)
LEMMA WriteDoes ==
  ASSUME NEW w \in WorldType, SinkOK(w), w.core.running, w.core.held,
         Zephyr(w) \/ w.core.started, NEW o \in CommitWrite(w)
  PROVE  /\ Kept(w, o.w)
         /\ o.w.core.configured = w.core.configured /\ o.w.core.running = w.core.running
         /\ o.w.core.started = w.core.started
<1>1. w.core \in CoreType /\ w.dev \in DevType /\ w.dev.free \in Nat /\ w.dev.queued \in Nat
  BY Parts DEF DevType
<1>2. Conserved(w)
  BY DEF SinkOK
(* The block has gone, and the account of blocks is right. *)
<1>3. ASSUME NEW u \in WorldType, u.pipe = w.pipe, u.core = w.core,
             u.dev.backend = w.dev.backend, u.dev.chan = w.dev.chan, u.dev.on = w.dev.on,
             u.dev.misuse = w.dev.misuse, u.dev.queued = w.dev.queued + 1,
             u.dev.free = IF Zephyr(w) THEN w.dev.free ELSE w.dev.free + 1,
             o \in Done([u EXCEPT !.core.held = FALSE])
      PROVE  /\ Kept(w, o.w)
             /\ o.w.core.configured = w.core.configured
             /\ o.w.core.running = w.core.running /\ o.w.core.started = w.core.started
  <2> DEFINE y == [u EXCEPT !.core.held = FALSE]
  <2>1. /\ y \in WorldType /\ y.pipe = u.pipe /\ y.dev = u.dev /\ y.core.held = FALSE
        /\ y.core.configured = u.core.configured /\ y.core.running = u.core.running
        /\ y.core.started = u.core.started
    BY SetHeld
  <2>2. o.w = y
    BY <1>3 DEF Done
  <2> HIDE DEF y
  <2>3. Zephyr(y) = Zephyr(w) /\ y.core \in CoreType /\ y.dev \in DevType
    BY <1>3, <2>1, Parts DEF Zephyr
  <2>4. Conserved(y)
    <3>1. CASE Zephyr(w)
      BY <1>1, <1>2, <1>3, <2>1, <2>3, <3>1, SinkAssumption DEF Conserved
    <3>2. CASE ~Zephyr(w)
      BY <1>1, <1>2, <1>3, <2>1, <2>3, <3>2 DEF Conserved
    <3> QED BY <3>1, <3>2
  <2>5. SinkOK(y)
    BY <1>3, <2>1, <2>3, <2>4 DEF SinkOK
  <2> QED BY <1>3, <2>1, <2>2, <2>5 DEF Kept
<1>4. CASE Zephyr(w)
  <2>1. \/ o \in ZephyrWrite(w) /\ ~o.ok
        \/ \E q \in ZephyrWrite(w) : q.ok /\ o \in Done([q.w EXCEPT !.core.held = FALSE])
    BY <1>4 DEF CommitWrite, Then
  <2> DEFINE d == [w.dev EXCEPT !.queued = @ + 1]
             x == [w EXCEPT !.dev = d]
  <2>2. \A q \in ZephyrWrite(w) : q \in Faulty(w) \/ q \in Done(x)
    BY DEF ZephyrWrite
  <2>3. /\ d \in DevType /\ d.queued = w.dev.queued + 1 /\ d.free = w.dev.free
        /\ d.backend = w.dev.backend /\ d.chan = w.dev.chan /\ d.on = w.dev.on
        /\ d.misuse = w.dev.misuse
    BY <1>1 DEF DevType
  <2> HIDE DEF d
  <2>4. x \in WorldType /\ x.pipe = w.pipe /\ x.core = w.core /\ x.dev = d
    BY <2>3, SetDev
  <2> HIDE DEF x
  <2>5. CASE o \in ZephyrWrite(w) /\ ~o.ok
    <3>1. Still(w, o.w)
      BY <2>2, <2>5, FaultyDoes DEF Done
    <3> QED BY <3>1, StillKept
  <2>6. ASSUME NEW q \in ZephyrWrite(w), q.ok PROVE q.w = x
    BY <2>2, <2>6, FaultyDoes DEF Done
  <2> QED BY <1>3, <1>4, <2>1, <2>3, <2>4, <2>5, <2>6
<1>5. CASE ~Zephyr(w)
  <2>1. \/ o \in EspWrite(w) /\ ~o.ok
        \/ \E q \in EspWrite(w) : q.ok /\ o \in Done([q.w EXCEPT !.core.held = FALSE])
    BY <1>5 DEF CommitWrite, Then
  <2> DEFINE wrong == ~w.dev.chan \/ ~w.dev.on
             a == Misused(w, wrong)
             d == [a.dev EXCEPT !.queued = @ + 1]
             e == [d EXCEPT !.free = a.dev.free + 1]
             x == [a EXCEPT !.dev = e]
  <2>2. \A q \in EspWrite(w) : q \in Faulty(a) \/ q \in Done(x) \/ q \in Failed(a)
    BY DEF EspWrite
  <2>3. ~wrong /\ wrong \in BOOLEAN
    BY <1>5 DEF SinkOK
  <2>4. Still(w, a)
    BY <2>3, NotMisused
  <2> HIDE DEF wrong, a
  <2>5. a \in WorldType /\ a.dev \in DevType
    BY <2>4, Parts DEF Still
  <2>6. /\ d \in DevType /\ d.queued = a.dev.queued + 1
        /\ d.backend = a.dev.backend /\ d.chan = a.dev.chan /\ d.on = a.dev.on
        /\ d.misuse = a.dev.misuse
    BY <2>5 DEF DevType
  <2>7. a.dev.free + 1 \in Nat
    BY <2>5 DEF DevType
  <2> HIDE DEF d
  <2>8. /\ e \in DevType /\ e.queued = d.queued /\ e.free = a.dev.free + 1
        /\ e.backend = d.backend /\ e.chan = d.chan /\ e.on = d.on /\ e.misuse = d.misuse
    BY <2>6, <2>7 DEF DevType
  <2> HIDE DEF e
  <2>9. x \in WorldType /\ x.pipe = a.pipe /\ x.core = a.core /\ x.dev = e
    BY <2>5, <2>8, SetDev
  <2> HIDE DEF x
  <2>10. CASE o \in EspWrite(w) /\ ~o.ok
    <3>1. Still(a, o.w)
      BY <2>2, <2>5, <2>10, FaultyDoes DEF Done, Failed, Still
    <3>2. Still(w, o.w)
      BY <2>4, <3>1 DEF Still
    <3> QED BY <3>2, StillKept
  <2>11. ASSUME NEW q \in EspWrite(w), q.ok PROVE q.w = x
    BY <2>2, <2>5, <2>11, FaultyDoes DEF Done, Failed
  <2>12. /\ x.pipe = w.pipe /\ x.core = w.core
         /\ x.dev.backend = w.dev.backend /\ x.dev.chan = w.dev.chan /\ x.dev.on = w.dev.on
         /\ x.dev.misuse = w.dev.misuse /\ x.dev.queued = w.dev.queued + 1
         /\ x.dev.free = w.dev.free + 1
    BY <2>4, <2>6, <2>8, <2>9 DEF Still
  <2> QED BY <1>3, <1>5, <2>1, <2>9, <2>10, <2>11, <2>12
<1> QED BY <1>4, <1>5

(* The trigger after the first block on Zephyr. *)
LEMMA TriggerDoes ==
  ASSUME NEW w \in WorldType, SinkOK(w), w.core.running, Zephyr(w) \/ w.core.started,
         NEW o \in CommitStart(w)
  PROVE  /\ Kept(w, o.w)
         /\ o.w.core.configured = w.core.configured /\ o.w.core.running = w.core.running
         /\ o.ok => o.w.core.started
<1>1. CASE w.core.started
  <2>1. CommitStart(w) = Done(w)
    BY <1>1 DEF CommitStart
  <2>2. o.ok /\ o.w = w
    BY <2>1 DEF Done
  <2> QED BY <1>1, <2>2 DEF Kept
<1>2. CASE ~w.core.started
  <2>1. \/ o \in ZephyrStart(w) /\ ~o.ok
        \/ \E q \in ZephyrStart(w) : q.ok /\ o \in Done([q.w EXCEPT !.core.started = TRUE])
    BY <1>2 DEF CommitStart, Then
  <2> DEFINE x == [w EXCEPT !.dev.on = TRUE]
             y == [x EXCEPT !.core.started = TRUE]
  <2>2. \A q \in ZephyrStart(w) : q \in Faulty(w) \/ q \in Done(x)
    BY DEF ZephyrStart
  <2>3. /\ x \in WorldType /\ x.pipe = w.pipe /\ x.core = w.core /\ x.dev.on = TRUE
        /\ x.dev.backend = w.dev.backend /\ x.dev.chan = w.dev.chan
        /\ x.dev.queued = w.dev.queued /\ x.dev.free = w.dev.free
        /\ x.dev.misuse = w.dev.misuse
    BY SetOn
  <2> HIDE DEF x
  <2>4. /\ y \in WorldType /\ y.pipe = x.pipe /\ y.dev = x.dev /\ y.core.started = TRUE
        /\ y.core.configured = x.core.configured /\ y.core.running = x.core.running
        /\ y.core.held = x.core.held
    BY <2>3, SetStarted
  <2> HIDE DEF y
  <2>5. /\ Zephyr(y) = Zephyr(w) /\ Conserved(y)
        /\ y.core \in CoreType /\ y.dev \in DevType
    BY <2>3, <2>4, Parts DEF Zephyr, Conserved, SinkOK
  <2>6. SinkOK(y)
    BY <1>2, <2>3, <2>4, <2>5 DEF SinkOK
  <2>7. CASE o \in ZephyrStart(w) /\ ~o.ok
    <3>1. Still(w, o.w)
      BY <2>2, <2>7, FaultyDoes DEF Done
    <3> QED BY <2>7, <3>1, StillKept
  <2>8. ASSUME NEW q \in ZephyrStart(w), q.ok, o \in Done([q.w EXCEPT !.core.started = TRUE])
        PROVE  o.w = y
    <3>1. q.w = x
      BY <2>2, <2>8, FaultyDoes DEF Done
    <3> QED BY <2>8, <3>1 DEF Done, y
  <2> QED BY <2>1, <2>3, <2>4, <2>6, <2>7, <2>8 DEF Kept
<1> QED BY <1>1, <1>2

(* core_commit: the end of a stream counts only when it has been played. *)
LEMMA CommitDoes ==
  ASSUME NEW w \in WorldType, SinkOK(w), NEW eos \in BOOLEAN, NEW o \in CoreCommit(w, eos)
  PROVE  /\ Kept(w, o.w)
         /\ o.w.core.configured = w.core.configured /\ o.w.core.running = w.core.running
         /\ o.ok /\ eos => Quiet(o.w)
<1>1. CASE ~w.core.running \/ ~w.core.held
  <2>1. CoreCommit(w, eos) = Failed(w)
    BY <1>1 DEF CoreCommit
  <2>2. ~o.ok /\ o.w = w
    BY <2>1 DEF Failed
  <2> QED BY <2>2 DEF Kept
<1>2. CASE w.core.running /\ w.core.held
  <2>1. \/ o \in CommitEnable(w) /\ ~o.ok
        \/ \E p \in CommitEnable(w) :
             /\ p.ok
             /\ \/ o \in CommitWrite(p.w) /\ ~o.ok
                \/ \E q \in CommitWrite(p.w) :
                     /\ q.ok
                     /\ \/ o \in CommitStart(q.w) /\ ~o.ok
                        \/ \E r \in CommitStart(q.w) : r.ok /\ o \in CommitEnd(r.w, eos)
    BY <1>2 DEF CoreCommit, Then
  <2>2. CASE o \in CommitEnable(w) /\ ~o.ok
    BY <1>2, <2>2, EnableDoes
  <2>3. ASSUME NEW p \in CommitEnable(w), p.ok
        PROVE  /\ Kept(w, p.w) /\ p.w \in WorldType /\ SinkOK(p.w)
               /\ p.w.core.configured = w.core.configured
               /\ p.w.core.running = w.core.running /\ p.w.core.held
               /\ Zephyr(p.w) \/ p.w.core.started
    <3>1. /\ Kept(w, p.w) /\ p.w.core.configured = w.core.configured
          /\ p.w.core.running = w.core.running /\ p.w.core.held = w.core.held
          /\ Zephyr(w) \/ p.w.core.started
      BY <1>2, <2>3, EnableDoes
    <3> QED BY <1>2, <3>1 DEF Kept, Zephyr
  <2>4. ASSUME NEW p \in CommitEnable(w), p.ok, NEW q \in CommitWrite(p.w)
        PROVE  /\ Kept(w, q.w) /\ q.w \in WorldType /\ SinkOK(q.w)
               /\ q.w.core.configured = w.core.configured
               /\ q.w.core.running = w.core.running
               /\ Zephyr(q.w) \/ q.w.core.started
    <3>1. /\ Kept(w, p.w) /\ p.w \in WorldType /\ SinkOK(p.w)
          /\ p.w.core.configured = w.core.configured
          /\ p.w.core.running = w.core.running /\ p.w.core.held
          /\ Zephyr(p.w) \/ p.w.core.started
      BY <2>3, <2>4
    <3>2. /\ Kept(p.w, q.w) /\ q.w.core.configured = p.w.core.configured
          /\ q.w.core.running = p.w.core.running /\ q.w.core.started = p.w.core.started
      BY <1>2, <2>4, <3>1, WriteDoes
    <3> QED BY <3>1, <3>2 DEF Kept, Zephyr
  <2>5. ASSUME NEW p \in CommitEnable(w), p.ok, NEW q \in CommitWrite(p.w), q.ok,
               NEW r \in CommitStart(q.w)
        PROVE  /\ Kept(w, r.w) /\ r.w \in WorldType /\ SinkOK(r.w)
               /\ r.w.core.configured = w.core.configured
               /\ r.w.core.running = w.core.running
               /\ r.ok => r.w.core.started
    <3>1. /\ Kept(w, q.w) /\ q.w \in WorldType /\ SinkOK(q.w)
          /\ q.w.core.configured = w.core.configured
          /\ q.w.core.running = w.core.running
          /\ Zephyr(q.w) \/ q.w.core.started
      BY <2>4, <2>5
    <3>2. /\ Kept(q.w, r.w) /\ r.w.core.configured = q.w.core.configured
          /\ r.w.core.running = q.w.core.running /\ (r.ok => r.w.core.started)
      BY <1>2, <2>5, <3>1, TriggerDoes
    <3> QED BY <3>1, <3>2 DEF Kept
  <2>6. ASSUME NEW p \in CommitEnable(w), p.ok, NEW q \in CommitWrite(p.w), q.ok,
               NEW r \in CommitStart(q.w), r.ok, o \in CommitEnd(r.w, eos)
        PROVE  /\ Kept(w, o.w)
               /\ o.w.core.configured = w.core.configured
               /\ o.w.core.running = w.core.running
               /\ o.ok /\ eos => Quiet(o.w)
    <3>1. /\ Kept(w, r.w) /\ r.w \in WorldType /\ SinkOK(r.w)
          /\ r.w.core.configured = w.core.configured
          /\ r.w.core.running = w.core.running /\ r.w.core.started
      BY <2>5, <2>6
    <3>2. CASE eos
      <4>1. o \in CoreDrain(r.w)
        BY <2>6, <3>2 DEF CommitEnd
      <4>2. /\ Kept(r.w, o.w) /\ o.w.core.configured = r.w.core.configured
            /\ o.w.core.running = r.w.core.running /\ (o.ok => Quiet(o.w))
        BY <3>1, <4>1, DrainDoes
      <4> QED BY <3>1, <4>2 DEF Kept
    <3>3. CASE ~eos
      <4>1. o.w = r.w
        BY <2>6, <3>3 DEF CommitEnd, Done
      <4> QED BY <3>1, <3>3, <4>1
    <3> QED BY <3>2, <3>3
  <2> QED BY <2>1, <2>2, <2>4, <2>5, <2>6
<1> QED BY <1>1, <1>2

LEMMA PauseDoes ==
  ASSUME NEW w \in WorldType, SinkOK(w), NEW paused \in BOOLEAN, NEW o \in CorePause(w, paused)
  PROVE  /\ Kept(w, o.w) /\ (Quiet(w) => Quiet(o.w))
         /\ o.w.core.configured = w.core.configured /\ o.w.core.running = w.core.running
<1>1. \/ o \in Failed(w) \/ o \in Done(w)
      \/ o \in CoreDrain(w) /\ ~o.ok
      \/ \E q \in CoreDrain(w) : o \in Done([q.w EXCEPT !.core.paused = paused])
      \/ o \in Done([w EXCEPT !.core.paused = paused])
  BY DEF CorePause, Then, Done
<1>2. CASE o \in Failed(w) \/ o \in Done(w)
  BY <1>2 DEF Failed, Done, Kept
<1>3. CASE o \in CoreDrain(w) /\ ~o.ok
  BY <1>3, DrainDoes
<1>4. ASSUME NEW u \in WorldType, SinkOK(u), o \in Done([u EXCEPT !.core.paused = paused])
      PROVE  /\ Kept(u, o.w) /\ (Quiet(u) => Quiet(o.w))
             /\ o.w.core.configured = u.core.configured
             /\ o.w.core.running = u.core.running
  <2> DEFINE y == [u EXCEPT !.core.paused = paused]
  <2>1. /\ y \in WorldType /\ y.pipe = u.pipe /\ y.dev = u.dev
        /\ y.core.configured = u.core.configured /\ y.core.running = u.core.running
        /\ y.core.started = u.core.started /\ y.core.held = u.core.held
    BY SetPaused
  <2>2. o.w = y
    BY <1>4 DEF Done
  <2> HIDE DEF y
  <2>3. /\ Zephyr(y) = Zephyr(u) /\ Conserved(y)
        /\ y.core \in CoreType /\ y.dev \in DevType
    BY <1>4, <2>1, Parts DEF Zephyr, Conserved, SinkOK
  <2>4. SinkOK(y)
    BY <1>4, <2>1, <2>3 DEF SinkOK
  <2> QED BY <2>1, <2>2, <2>4 DEF Kept, Quiet
<1>5. ASSUME NEW q \in CoreDrain(w), o \in Done([q.w EXCEPT !.core.paused = paused])
      PROVE  /\ Kept(w, o.w) /\ (Quiet(w) => Quiet(o.w))
             /\ o.w.core.configured = w.core.configured
             /\ o.w.core.running = w.core.running
  <2>1. /\ Kept(w, q.w) /\ (Quiet(w) => Quiet(q.w))
        /\ q.w.core.configured = w.core.configured /\ q.w.core.running = w.core.running
    BY DrainDoes
  <2>2. q.w \in WorldType /\ SinkOK(q.w)
    BY <2>1 DEF Kept
  <2>3. /\ Kept(q.w, o.w) /\ (Quiet(q.w) => Quiet(o.w))
        /\ o.w.core.configured = q.w.core.configured
        /\ o.w.core.running = q.w.core.running
    BY <1>4, <1>5, <2>2
  <2> QED BY <2>1, <2>3 DEF Kept
<1> QED BY <1>1, <1>2, <1>3, <1>4, <1>5
----------------------------------------------------------------------------
(* The calls of the pipeline. *)

(* One field of the pipeline set. *)
LEMMA SetState ==
  ASSUME NEW p \in PipeType, NEW s \in {"UNINITIALIZED", "INITIALIZED", "CONFIGURED",
                                        "RUNNING", "STOPPED", "RECOVERY"}
  PROVE  LET q == [p EXCEPT !.state = s] IN
         /\ q \in PipeType /\ q.state = s /\ q.initialized_nodes = p.initialized_nodes
         /\ q.sink_initialized = p.sink_initialized /\ q.sink_ready = p.sink_ready
         /\ q.completed = p.completed /\ q.fits = p.fits
  BY DEF PipeType

LEMMA SetNodes ==
  ASSUME NEW p \in PipeType, NEW n \in 0..Nodes
  PROVE  LET q == [p EXCEPT !.initialized_nodes = n] IN
         /\ q \in PipeType /\ q.state = p.state /\ q.initialized_nodes = n
         /\ q.sink_initialized = p.sink_initialized /\ q.sink_ready = p.sink_ready
         /\ q.completed = p.completed /\ q.fits = p.fits
  BY DEF PipeType

LEMMA SetInitialized ==
  ASSUME NEW p \in PipeType, NEW b \in BOOLEAN
  PROVE  LET q == [p EXCEPT !.sink_initialized = b] IN
         /\ q \in PipeType /\ q.state = p.state /\ q.initialized_nodes = p.initialized_nodes
         /\ q.sink_initialized = b /\ q.sink_ready = p.sink_ready
         /\ q.completed = p.completed /\ q.fits = p.fits
  BY DEF PipeType

LEMMA SetReady ==
  ASSUME NEW p \in PipeType, NEW b \in BOOLEAN
  PROVE  LET q == [p EXCEPT !.sink_ready = b] IN
         /\ q \in PipeType /\ q.state = p.state /\ q.initialized_nodes = p.initialized_nodes
         /\ q.sink_initialized = p.sink_initialized /\ q.sink_ready = b
         /\ q.completed = p.completed /\ q.fits = p.fits
  BY DEF PipeType

LEMMA SetCompleted ==
  ASSUME NEW p \in PipeType, NEW b \in BOOLEAN
  PROVE  LET q == [p EXCEPT !.completed = b] IN
         /\ q \in PipeType /\ q.state = p.state /\ q.initialized_nodes = p.initialized_nodes
         /\ q.sink_initialized = p.sink_initialized /\ q.sink_ready = p.sink_ready
         /\ q.completed = b /\ q.fits = p.fits
  BY DEF PipeType

LEMMA SetFits ==
  ASSUME NEW p \in PipeType, NEW b \in BOOLEAN
  PROVE  LET q == [p EXCEPT !.fits = b] IN
         /\ q \in PipeType /\ q.state = p.state /\ q.initialized_nodes = p.initialized_nodes
         /\ q.sink_initialized = p.sink_initialized /\ q.sink_ready = p.sink_ready
         /\ q.completed = p.completed /\ q.fits = b
  BY DEF PipeType

(* A change of the pipeline alone leaves the sink in order. *)
LEMMA PipeOnly ==
  ASSUME NEW w \in WorldType, SinkOK(w), NEW p \in PipeType
  PROVE  LET u == [w EXCEPT !.pipe = p] IN
         /\ u \in WorldType /\ SinkOK(u) /\ u.pipe = p /\ u.core = w.core /\ u.dev = w.dev
<1> DEFINE u == [w EXCEPT !.pipe = p]
<1>1. u \in WorldType /\ u.pipe = p /\ u.core = w.core /\ u.dev = w.dev
  BY SetPipe
<1> HIDE DEF u
<1>2. SinkOK(u)
  BY <1>1 DEF SinkOK, Conserved, Zephyr
<1> QED BY <1>1, <1>2 DEF u

(* What release() leaves. *)
Released(w, u) ==
  /\ u \in WorldType /\ SinkOK(u)
  /\ u.pipe.completed = w.pipe.completed /\ (Quiet(w) => Quiet(u))
  /\ ~u.pipe.sink_ready

LEMMA ReleaseDoes ==
  ASSUME NEW w \in WorldType, SinkOK(w), w.core.configured => w.pipe.sink_initialized,
         NEW o \in Release(w)
  PROVE  /\ Released(w, o.w)
         /\ o.ok => /\ ~o.w.core.configured /\ ~o.w.core.running
                    /\ ~o.w.pipe.sink_initialized /\ o.w.pipe.state = w.pipe.state
         /\ ~o.ok => /\ o.w.pipe.state = "RECOVERY"
                     /\ o.w.core.configured = w.core.configured
                     /\ o.w.pipe.sink_initialized = w.pipe.sink_initialized
                     /\ o.w.pipe.initialized_nodes = w.pipe.initialized_nodes
<1> DEFINE calls == IF w.pipe.sink_initialized THEN CoreDelete(w) ELSE Done(w)
           a(v) == [v.pipe EXCEPT !.sink_initialized = FALSE]
           b(v) == [a(v) EXCEPT !.sink_ready = FALSE]
           c(v) == [b(v) EXCEPT !.initialized_nodes = 0]
           d(v) == [v.pipe EXCEPT !.sink_ready = FALSE]
           e(v) == [d(v) EXCEPT !.state = "RECOVERY"]
           x(v) == [v EXCEPT !.pipe = c(v)]
           y(v) == [v EXCEPT !.pipe = e(v)]
<1>1. ASSUME NEW p \in calls
      PROVE  /\ p.w \in WorldType /\ SinkOK(p.w) /\ p.w.pipe = w.pipe
             /\ Quiet(w) => Quiet(p.w)
             /\ p.ok => ~p.w.core.configured
             /\ ~p.ok => p.w.core.configured = w.core.configured
  <2>1. CASE w.pipe.sink_initialized
    BY <2>1, <1>1, DeleteDoes DEF Kept
  <2>2. CASE ~w.pipe.sink_initialized
    BY <2>2, <1>1 DEF Done
  <2> QED BY <2>1, <2>2
<1>2. PICK p \in calls : \/ p.ok /\ o \in Done(x(p.w))
                         \/ ~p.ok /\ o \in Failed(y(p.w))
  BY DEF Release
<1> HIDE DEF calls
<1> DEFINE v == p.w
<1>3. /\ v \in WorldType /\ SinkOK(v) /\ v.pipe = w.pipe /\ v.pipe \in PipeType
      /\ Quiet(w) => Quiet(v)
  BY <1>1, <1>2, Parts
<1>4. CASE p.ok /\ o \in Done(x(v))
  <2>1. o.ok /\ o.w = x(v) /\ ~v.core.configured /\ ~v.core.running
    BY <1>1, <1>3, <1>4 DEF Done, SinkOK
  <2> HIDE DEF v, x
  <2>2. 0 \in 0..Nodes
    BY PipelineAssumption
  <2>3. /\ a(v) \in PipeType /\ a(v).state = w.pipe.state /\ ~a(v).sink_initialized
        /\ a(v).completed = w.pipe.completed
    BY <1>3, SetInitialized
  <2> HIDE DEF a
  <2>4. /\ b(v) \in PipeType /\ b(v).state = w.pipe.state /\ ~b(v).sink_initialized
        /\ b(v).completed = w.pipe.completed /\ ~b(v).sink_ready
    BY <2>3, SetReady
  <2> HIDE DEF b
  <2>5. /\ c(v) \in PipeType /\ c(v).state = w.pipe.state /\ ~c(v).sink_initialized
        /\ c(v).completed = w.pipe.completed /\ ~c(v).sink_ready
    BY <2>2, <2>4, SetNodes
  <2> HIDE DEF c
  <2>6. /\ x(v) \in WorldType /\ SinkOK(x(v)) /\ x(v).pipe = c(v)
        /\ x(v).core = v.core /\ x(v).dev = v.dev
    BY <1>3, <2>5, PipeOnly DEF x
  <2> QED BY <1>3, <2>1, <2>5, <2>6 DEF Released, Quiet
<1>5. CASE ~p.ok /\ o \in Failed(y(v))
  <2>1. ~o.ok /\ o.w = y(v) /\ v.core.configured = w.core.configured
    BY <1>1, <1>5 DEF Failed
  <2> HIDE DEF v, y
  <2>2. /\ d(v) \in PipeType /\ ~d(v).sink_ready /\ d(v).completed = w.pipe.completed
        /\ d(v).initialized_nodes = w.pipe.initialized_nodes
        /\ d(v).sink_initialized = w.pipe.sink_initialized
    BY <1>3, SetReady
  <2> HIDE DEF d
  <2>3. /\ e(v) \in PipeType /\ ~e(v).sink_ready /\ e(v).completed = w.pipe.completed
        /\ e(v).initialized_nodes = w.pipe.initialized_nodes
        /\ e(v).sink_initialized = w.pipe.sink_initialized /\ e(v).state = "RECOVERY"
    BY <2>2, SetState
  <2> HIDE DEF e
  <2>4. /\ y(v) \in WorldType /\ SinkOK(y(v)) /\ y(v).pipe = e(v)
        /\ y(v).core = v.core /\ y(v).dev = v.dev
    BY <1>3, <2>3, PipeOnly DEF y
  <2> QED BY <1>3, <2>1, <2>3, <2>4 DEF Released, Quiet
<1> QED BY <1>2, <1>4, <1>5

(* A pipeline that has been released, and may be configured. *)
Blank(w) ==
  /\ w \in WorldType /\ SinkOK(w) /\ (w.pipe.completed => Quiet(w))
  /\ ~w.core.configured /\ ~w.core.running
  /\ ~w.pipe.sink_initialized /\ ~w.pipe.sink_ready

LEMMA BlankOK ==
  ASSUME NEW w, Blank(w), w.pipe.state \notin {"CONFIGURED", "RUNNING", "STOPPED"}
  PROVE  PipeOK(w)
  BY DEF Blank, PipeOK, Quiet

(* release(), from any state in which the sink is accounted for. *)
LEMMA ReleaseKeeps ==
  ASSUME NEW w \in WorldType, SinkOK(w), w.pipe.completed => Quiet(w),
         w.core.configured => w.pipe.sink_initialized /\ w.pipe.initialized_nodes = Nodes,
         NEW o \in Release(w)
  PROVE  /\ o.ok => Blank(o.w) /\ o.w.pipe.state = w.pipe.state
         /\ ~o.ok => PipeOK(o.w)
<1>1. /\ Released(w, o.w)
      /\ o.ok => /\ ~o.w.core.configured /\ ~o.w.core.running
                 /\ ~o.w.pipe.sink_initialized /\ o.w.pipe.state = w.pipe.state
      /\ ~o.ok => /\ o.w.pipe.state = "RECOVERY"
                  /\ o.w.core.configured = w.core.configured
                  /\ o.w.pipe.sink_initialized = w.pipe.sink_initialized
                  /\ o.w.pipe.initialized_nodes = w.pipe.initialized_nodes
  BY ReleaseDoes
<1>2. /\ o.w \in WorldType /\ SinkOK(o.w) /\ (o.w.pipe.completed => Quiet(o.w))
      /\ ~o.w.pipe.sink_ready
  BY <1>1 DEF Released
<1>3. o.ok => Blank(o.w)
  BY <1>1, <1>2 DEF Blank
<1>4. ~o.ok => PipeOK(o.w)
  BY <1>1, <1>2 DEF PipeOK, Quiet
<1> QED BY <1>1, <1>3, <1>4

(* Nodes are there or, after a failure, released again. *)
LEMMA NodesDo ==
  ASSUME NEW w, Blank(w), w.pipe.state = "INITIALIZED", NEW o \in ConfigureNodes(w)
  PROVE  /\ o.ok => /\ Blank(o.w) /\ o.w.pipe.state = "INITIALIZED"
                    /\ o.w.pipe.initialized_nodes = Nodes
         /\ ~o.ok => PipeOK(o.w)
<1>1. Nodes \in 0..Nodes
  BY PipelineAssumption
<1> DEFINE at(v, n) == [v EXCEPT !.pipe = [v.pipe EXCEPT !.initialized_nodes = n]]
<1>2. ASSUME NEW v, Blank(v), v.pipe.state = "INITIALIZED", NEW n \in 0..Nodes
      PROVE  /\ Blank(at(v, n)) /\ at(v, n).pipe.state = "INITIALIZED"
             /\ at(v, n).pipe.initialized_nodes = n
  <2> DEFINE p == [v.pipe EXCEPT !.initialized_nodes = n]
  <2>1. v \in WorldType /\ SinkOK(v) /\ v.pipe \in PipeType
    BY <1>2, Parts DEF Blank
  <2>2. /\ p \in PipeType /\ p.state = v.pipe.state /\ p.initialized_nodes = n
        /\ p.sink_initialized = v.pipe.sink_initialized
        /\ p.sink_ready = v.pipe.sink_ready /\ p.completed = v.pipe.completed
    BY <2>1, SetNodes
  <2> HIDE DEF p
  <2> DEFINE u == [v EXCEPT !.pipe = p]
  <2>3. u \in WorldType /\ SinkOK(u) /\ u.pipe = p /\ u.core = v.core /\ u.dev = v.dev
    BY <2>1, <2>2, PipeOnly
  <2> HIDE DEF u
  <2>4. /\ Blank(u) /\ u.pipe.state = "INITIALIZED" /\ u.pipe.initialized_nodes = n
    BY <1>2, <2>2, <2>3 DEF Blank, Quiet
  <2> QED BY <2>4 DEF u, p
<1>3. \/ o \in Done(at(w, Nodes))
      \/ \E f \in Faulty(w) : \E n \in 0..Nodes : \E r \in Release(at(f.w, n)) : o \in Failed(r.w)
  <2>1. Reached \subseteq 0..Nodes
    BY DEF Reached
  <2>2. \/ o \in Done(at(w, Nodes))
        \/ \E f \in Faulty(w), n \in Reached : \E r \in Release(at(f.w, n)) : o \in Failed(r.w)
    BY DEF ConfigureNodes, Refused
  <2> QED BY <2>1, <2>2
<1> HIDE DEF at
<1>4. CASE o \in Done(at(w, Nodes))
  <2>1. o.ok /\ o.w = at(w, Nodes)
    BY <1>4 DEF Done
  <2> QED BY <1>1, <1>2, <2>1
<1>5. ASSUME NEW f \in Faulty(w), NEW n \in 0..Nodes, NEW r \in Release(at(f.w, n)),
             o \in Failed(r.w)
      PROVE  ~o.ok /\ PipeOK(o.w)
  <2>1. ~o.ok /\ o.w = r.w
    BY <1>5 DEF Failed
  <2>2. Blank(f.w) /\ f.w.pipe.state = "INITIALIZED"
    <3>1. w \in WorldType /\ SinkOK(w)
      BY DEF Blank
    <3>2. Still(w, f.w)
      BY <3>1, FaultyDoes
    <3>3. SinkOK(f.w)
      BY <3>1, <3>2, StillOK
    <3> QED BY <3>2, <3>3 DEF Blank, Still, Quiet
  <2>3. Blank(at(f.w, n)) /\ at(f.w, n).pipe.state = "INITIALIZED"
    BY <1>2, <2>2
  <2>4. /\ r.ok => Blank(r.w) /\ r.w.pipe.state = "INITIALIZED"
        /\ ~r.ok => PipeOK(r.w)
    BY <2>3, ReleaseKeeps DEF Blank
  <2> QED BY <2>1, <2>4, BlankOK
<1> QED BY <1>3, <1>4, <1>5

LEMMA SinkDoes ==
  ASSUME NEW w, Blank(w), w.pipe.state = "INITIALIZED", w.pipe.initialized_nodes = Nodes,
         NEW fits \in BOOLEAN, NEW o \in ConfigureSink(w, fits)
  PROVE  PipeOK(o.w)
<1> DEFINE i == [w.pipe EXCEPT !.sink_initialized = TRUE]
           u == [w EXCEPT !.pipe = i]
<1>1. w \in WorldType /\ SinkOK(w) /\ w.pipe \in PipeType
  BY Parts DEF Blank
<1>2. /\ i \in PipeType /\ i.state = w.pipe.state
      /\ i.initialized_nodes = w.pipe.initialized_nodes /\ i.sink_initialized
      /\ i.sink_ready = w.pipe.sink_ready /\ i.completed = w.pipe.completed
  BY <1>1, SetInitialized
<1>3. \E p \in CoreConfigure(u) :
        \/ /\ p.ok
           /\ o \in Done([p.w EXCEPT !.pipe = [p.w.pipe EXCEPT !.sink_ready = TRUE,
                                                    !.fits = fits, !.state = "CONFIGURED"]])
        \/ ~p.ok /\ \E r \in Release(p.w) : o \in Failed(r.w)
  <2>1. u = [w EXCEPT !.pipe.sink_initialized = TRUE]
    OBVIOUS
  <2> HIDE DEF u
  <2> DEFINE y(v) == [v EXCEPT !.pipe = [v.pipe EXCEPT !.sink_ready = TRUE, !.fits = fits,
                                                       !.state = "CONFIGURED"]]
             part(p) == IF p.ok THEN Done(y(p.w)) ELSE Refused(Release(p.w))
  <2>2. o \in UNION {part(p) : p \in CoreConfigure(u)}
    BY <2>1 DEF ConfigureSink
  <2> HIDE DEF y, part
  <2>3. \E p \in CoreConfigure(u) : o \in part(p)
    BY <2>2
  <2>4. \E p \in CoreConfigure(u) :
          \/ p.ok /\ o \in Done(y(p.w))
          \/ ~p.ok /\ o \in Refused(Release(p.w))
    BY <2>3 DEF part
  <2> QED BY <2>4 DEF Refused, y
<1> HIDE DEF i
<1>4. u \in WorldType /\ SinkOK(u) /\ u.pipe = i /\ u.core = w.core /\ u.dev = w.dev
  BY <1>1, <1>2, PipeOnly
<1> HIDE DEF u
<1>5. ASSUME NEW p \in CoreConfigure(u)
      PROVE  /\ p.w \in WorldType /\ SinkOK(p.w) /\ p.w.pipe = i
             /\ p.w.pipe.completed => Quiet(p.w)
             /\ ~p.w.core.running /\ (p.ok => p.w.core.configured)
             /\ ~p.ok => ~p.w.core.configured
  <2>1. /\ Kept(u, p.w) /\ (Quiet(u) => Quiet(p.w)) /\ p.w.core.running = u.core.running
        /\ p.ok => p.w.core.configured
        /\ ~p.ok => p.w.core.configured = u.core.configured
    BY <1>4, <1>5, ConfigureDoes
  <2> QED BY <2>1, <1>2, <1>4 DEF Kept, Blank, Quiet
<1>6. ASSUME NEW p \in CoreConfigure(u), p.ok,
             o \in Done([p.w EXCEPT !.pipe = [p.w.pipe EXCEPT !.sink_ready = TRUE,
                                                  !.fits = fits, !.state = "CONFIGURED"]])
      PROVE  PipeOK(o.w)
  <2> DEFINE a == [p.w.pipe EXCEPT !.sink_ready = TRUE]
             b == [a EXCEPT !.fits = fits]
             c == [b EXCEPT !.state = "CONFIGURED"]
             y == [p.w EXCEPT !.pipe = c]
  <2>1. o.w = y
    BY <1>6 DEF Done
  <2>2. /\ a \in PipeType /\ a.initialized_nodes = Nodes /\ a.sink_initialized
        /\ a.sink_ready /\ a.completed = p.w.pipe.completed
    BY ZenonT(40), <1>2, <1>5, SetReady
  <2> HIDE DEF a
  <2>3. /\ b \in PipeType /\ b.initialized_nodes = Nodes /\ b.sink_initialized
        /\ b.sink_ready /\ b.completed = p.w.pipe.completed
    BY <2>2, SetFits
  <2> HIDE DEF b
  <2>4. /\ c \in PipeType /\ c.initialized_nodes = Nodes /\ c.sink_initialized
        /\ c.sink_ready /\ c.completed = p.w.pipe.completed /\ c.state = "CONFIGURED"
    <3>1. /\ c \in PipeType /\ c.state = "CONFIGURED"
          /\ c.initialized_nodes = b.initialized_nodes
          /\ c.sink_initialized = b.sink_initialized /\ c.sink_ready = b.sink_ready
          /\ c.completed = b.completed
      BY <2>3, SetState
    <3> HIDE DEF c
    <3> QED BY <2>3, <3>1
  <2> HIDE DEF c
  <2>5. y \in WorldType /\ SinkOK(y) /\ y.pipe = c /\ y.core = p.w.core /\ y.dev = p.w.dev
    BY <1>5, <2>4, PipeOnly
  <2> HIDE DEF y
  <2>6. PipeOK(y)
    BY <1>5, <1>6, <2>4, <2>5 DEF PipeOK, Quiet
  <2> QED BY <2>1, <2>6
<1>7. ASSUME NEW p \in CoreConfigure(u), ~p.ok, NEW r \in Release(p.w), o \in Failed(r.w)
      PROVE  PipeOK(o.w)
  <2>1. o.w = r.w
    BY <1>7 DEF Failed
  <2>2. /\ r.ok => Blank(r.w) /\ r.w.pipe.state = p.w.pipe.state
        /\ ~r.ok => PipeOK(r.w)
    BY <1>5, <1>7, ReleaseKeeps
  <2> QED BY <1>2, <1>5, <2>1, <2>2, BlankOK
<1> QED BY <1>3, <1>6, <1>7

LEMMA PipelineConfigureKeeps ==
  ASSUME NEW w, PipeOK(w), NEW fits \in BOOLEAN, NEW o \in PipelineConfigure(w, fits)
  PROVE  PipeOK(o.w)
<1> DEFINE fresh(v) == [v EXCEPT !.pipe.state = "INITIALIZED"]
<1>1. w \in WorldType /\ SinkOK(w) /\ (w.pipe.completed => Quiet(w))
  BY DEF PipeOK, Quiet
<1>2. \/ o \in Failed(w)
      \/ o \in Release(w) /\ ~o.ok
      \/ \E p \in Release(w) :
           /\ p.ok
           /\ \/ o \in ConfigureNodes(fresh(p.w)) /\ ~o.ok
              \/ \E q \in ConfigureNodes(fresh(p.w)) : q.ok /\ o \in ConfigureSink(q.w, fits)
  <2> DEFINE Rest(v) == Then(ConfigureNodes(fresh(v)),
                             LAMBDA ready : ConfigureSink(ready, fits))
  <2>1. o \in Failed(w) \/ o \in Then(Release(w), Rest)
    BY DEF PipelineConfigure
  <2>2. \/ o \in Failed(w)
        \/ o \in Release(w) /\ ~o.ok
        \/ \E p \in Release(w) : p.ok /\ o \in Rest(p.w)
    <3> HIDE DEF Rest
    <3> QED BY <2>1 DEF Then
  <2> HIDE DEF fresh
  <2> QED BY <2>2 DEF Then
<1> HIDE DEF fresh
<1>3. CASE o \in Failed(w)
  BY <1>3 DEF Failed
<1>4. CASE o \in Release(w) /\ ~o.ok
  BY <1>1, <1>4, ReleaseKeeps DEF PipeOK
<1>5. ASSUME NEW p \in Release(w), p.ok
      PROVE  Blank(fresh(p.w)) /\ fresh(p.w).pipe.state = "INITIALIZED"
  <2> DEFINE v == p.w
             s == [v.pipe EXCEPT !.state = "INITIALIZED"]
             u == [v EXCEPT !.pipe = s]
  <2>1. Blank(v)
    BY <1>1, <1>5, ReleaseKeeps DEF PipeOK
  <2> HIDE DEF v
  <2>2. fresh(v) = u
    BY DEF fresh
  <2>3. v \in WorldType /\ SinkOK(v) /\ v.pipe \in PipeType
    BY <2>1, Parts DEF Blank
  <2>4. /\ s \in PipeType /\ s.state = "INITIALIZED"
        /\ s.sink_initialized = v.pipe.sink_initialized
        /\ s.sink_ready = v.pipe.sink_ready /\ s.completed = v.pipe.completed
    BY <2>3, SetState
  <2> HIDE DEF s
  <2>5. u \in WorldType /\ SinkOK(u) /\ u.pipe = s /\ u.core = v.core /\ u.dev = v.dev
    BY <2>3, <2>4, PipeOnly
  <2> HIDE DEF u
  <2>6. Blank(u) /\ u.pipe.state = "INITIALIZED"
    BY <2>1, <2>4, <2>5 DEF Blank, Quiet
  <2> QED BY <2>2, <2>6 DEF v
<1>6. ASSUME NEW p \in Release(w), p.ok, o \in ConfigureNodes(fresh(p.w)), ~o.ok
      PROVE  PipeOK(o.w)
  BY <1>5, <1>6, NodesDo
<1>7. ASSUME NEW p \in Release(w), p.ok, NEW q \in ConfigureNodes(fresh(p.w)), q.ok,
             o \in ConfigureSink(q.w, fits)
      PROVE  PipeOK(o.w)
  <2>1. Blank(q.w) /\ q.w.pipe.state = "INITIALIZED" /\ q.w.pipe.initialized_nodes = Nodes
    BY <1>5, <1>7, NodesDo
  <2> QED BY <1>7, <2>1, SinkDoes
<1> QED BY <1>2, <1>3, <1>4, <1>6, <1>7

LEMMA PipelineInitKeeps ==
  ASSUME NEW w, PipeOK(w), NEW o \in PipelineInit(w)
  PROVE  PipeOK(o.w)
<1> DEFINE s == [w.pipe EXCEPT !.state = "INITIALIZED"]
           u == [w EXCEPT !.pipe = s]
<1>1. w \in WorldType /\ SinkOK(w) /\ w.pipe \in PipeType
  BY Parts DEF PipeOK
<1>2. o \in Failed(w) \/ (w.pipe.state = "UNINITIALIZED" /\ o \in Done(u))
  <2>1. u = [w EXCEPT !.pipe.state = "INITIALIZED"]
    OBVIOUS
  <2> HIDE DEF u
  <2> QED BY <2>1 DEF PipelineInit
<1>3. /\ s \in PipeType /\ s.state = "INITIALIZED"
      /\ s.initialized_nodes = w.pipe.initialized_nodes
      /\ s.sink_initialized = w.pipe.sink_initialized
      /\ s.sink_ready = w.pipe.sink_ready /\ s.completed = w.pipe.completed
  BY <1>1, SetState
<1> HIDE DEF s
<1>4. u \in WorldType /\ SinkOK(u) /\ u.pipe = s /\ u.core = w.core /\ u.dev = w.dev
  BY <1>1, <1>3, PipeOnly
<1> HIDE DEF u
<1>5. CASE o \in Failed(w)
  BY <1>5 DEF Failed
<1>6. CASE w.pipe.state = "UNINITIALIZED" /\ o \in Done(u)
  <2>1. o.w = u
    BY <1>6 DEF Done
  <2>2. ~w.core.running /\ ~w.core.configured /\ ~w.pipe.sink_ready
    BY <1>6 DEF PipeOK, SinkOK
  <2>3. PipeOK(u)
    BY <1>3, <1>4, <2>2 DEF PipeOK
  <2> QED BY <2>1, <2>3
<1> QED BY <1>2, <1>5, <1>6

(* Stopping moves only the state, and that only after the sink stopped. *)
LEMMA PipelineStopKeeps ==
  ASSUME NEW w, PipeOK(w), NEW o \in PipelineStop(w)
  PROVE  PipeOK(o.w)
<1> DEFINE next == IF w.pipe.sink_ready THEN "STOPPED" ELSE "INITIALIZED"
           s(v) == [v.pipe EXCEPT !.state = next]
           at(v) == [v EXCEPT !.pipe = s(v)]
<1>1. w \in WorldType /\ SinkOK(w)
  BY DEF PipeOK
<1>2. \/ o \in Failed(w)
      \/ /\ w.pipe.state \in {"RUNNING", "RECOVERY"}
         /\ \/ o \in CoreStop(w) /\ ~o.ok
            \/ \E p \in CoreStop(w) : p.ok /\ (o \in Done(at(p.w)) \/ o \in Faulty(at(p.w)))
  BY DEF PipelineStop, Then
<1>3. CASE o \in Failed(w)
  BY <1>3 DEF Failed
<1>4. CASE w.pipe.state \in {"RUNNING", "RECOVERY"} /\ o \in CoreStop(w) /\ ~o.ok
  <2>1. /\ Kept(w, o.w) /\ (Quiet(w) => Quiet(o.w))
        /\ o.w.core.configured = w.core.configured
    BY <1>1, <1>4, StopDoes
  <2> QED BY <1>4, <2>1 DEF PipeOK, Kept, Quiet
<1>5. ASSUME w.pipe.state \in {"RUNNING", "RECOVERY"}, NEW p \in CoreStop(w), p.ok,
             o \in Done(at(p.w)) \/ o \in Faulty(at(p.w))
      PROVE  PipeOK(o.w)
  <2> DEFINE v == p.w
  <2>1. /\ Kept(w, v) /\ (Quiet(w) => Quiet(v))
        /\ v.core.configured = w.core.configured /\ ~v.core.running
    BY <1>1, <1>5, StopDoes
  <2>2. v \in WorldType /\ SinkOK(v) /\ v.pipe = w.pipe /\ v.pipe \in PipeType
    BY <2>1, Parts DEF Kept
  <2>3. next \in {"STOPPED", "INITIALIZED"} /\ (next = "STOPPED" => w.pipe.sink_ready)
    OBVIOUS
  <2>4. o \in Done(at(v)) \/ o \in Faulty(at(v))
    BY <1>5
  <2> HIDE DEF v, next
  <2>5. next \in {"UNINITIALIZED", "INITIALIZED", "CONFIGURED", "RUNNING", "STOPPED",
                  "RECOVERY"}
    BY <2>3
  <2>6. LET q == [v.pipe EXCEPT !.state = next] IN
         /\ q \in PipeType /\ q.state = next
         /\ q.initialized_nodes = v.pipe.initialized_nodes
         /\ q.sink_initialized = v.pipe.sink_initialized
         /\ q.sink_ready = v.pipe.sink_ready /\ q.completed = v.pipe.completed
    <3> HIDE DEF s, at
    <3> QED BY ZenonT(40), <2>2, <2>5, SetState
  <2>7. /\ s(v) \in PipeType /\ s(v).state = next
        /\ s(v).initialized_nodes = w.pipe.initialized_nodes
        /\ s(v).sink_initialized = w.pipe.sink_initialized
        /\ s(v).sink_ready = w.pipe.sink_ready /\ s(v).completed = w.pipe.completed
    BY <2>2, <2>6
  <2> HIDE DEF s
  <2>8. /\ at(v) \in WorldType /\ SinkOK(at(v)) /\ at(v).pipe = s(v)
        /\ at(v).core = v.core /\ at(v).dev = v.dev
    BY <2>2, <2>7, PipeOnly
  <2> HIDE DEF at
  <2>9. PipeOK(at(v))
    BY <2>1, <2>3, <2>7, <2>8 DEF PipeOK, Quiet
  <2>10. o \in Faulty(at(v)) => Still(at(v), o.w)
    BY <2>8, FaultyDoes
  <2>11. o \in Done(at(v)) => o.w = at(v)
    BY DEF Done
  <2> QED BY <2>4, <2>8, <2>9, <2>10, <2>11, StillOK
<1> QED BY <1>2, <1>3, <1>4, <1>5

LEMMA PipelineStartKeeps ==
  ASSUME NEW w, PipeOK(w), NEW o \in PipelineStart(w)
  PROVE  PipeOK(o.w)
<1> DEFINE c == [w.pipe EXCEPT !.completed = FALSE]
           u == [w EXCEPT !.pipe = c]
           to(v, s) == [v EXCEPT !.pipe.state = s]
<1>1. w \in WorldType /\ SinkOK(w) /\ w.pipe \in PipeType
  BY Parts DEF PipeOK
<1>2. \/ o \in Failed(w)
      \/ /\ w.pipe.state \in {"CONFIGURED", "STOPPED"}
         /\ \E p \in CoreStart(u) :
              \/ p.ok /\ o \in Done(to(p.w, "RUNNING"))
              \/ ~p.ok /\ \E q \in PipelineStop(to(p.w, "RECOVERY")) : o \in Failed(q.w)
  <2>1. u = [w EXCEPT !.pipe.completed = FALSE]
    OBVIOUS
  <2> HIDE DEF u
  <2> DEFINE part(p) == IF p.ok THEN Done(to(p.w, "RUNNING"))
                        ELSE Refused(PipelineStop(to(p.w, "RECOVERY")))
  <2>2. \/ o \in Failed(w)
        \/ /\ w.pipe.state \in {"CONFIGURED", "STOPPED"}
           /\ o \in UNION {part(p) : p \in CoreStart(u)}
    BY <2>1 DEF PipelineStart
  <2> HIDE DEF to, part
  <2>3. \/ o \in Failed(w)
        \/ /\ w.pipe.state \in {"CONFIGURED", "STOPPED"}
           /\ \E p \in CoreStart(u) : o \in part(p)
    BY <2>2
  <2> QED BY <2>3 DEF part, Refused
<1>3. /\ c \in PipeType /\ c.state = w.pipe.state
      /\ c.initialized_nodes = w.pipe.initialized_nodes
      /\ c.sink_initialized = w.pipe.sink_initialized /\ c.sink_ready = w.pipe.sink_ready
      /\ ~c.completed
  BY <1>1, SetCompleted
<1> HIDE DEF c
<1>4. u \in WorldType /\ SinkOK(u) /\ u.pipe = c /\ u.core = w.core /\ u.dev = w.dev
  BY <1>1, <1>3, PipeOnly
<1> HIDE DEF u
<1>5. CASE o \in Failed(w)
  BY <1>5 DEF Failed
<1>6. ASSUME w.pipe.state \in {"CONFIGURED", "STOPPED"}, NEW p \in CoreStart(u),
             NEW s \in {"RUNNING", "RECOVERY"}
      PROVE  PipeOK(to(p.w, s))
  <2> DEFINE v == p.w
             n == [v.pipe EXCEPT !.state = s]
             y == [v EXCEPT !.pipe = n]
  <2>1. Kept(u, v) /\ v.core.configured = u.core.configured
    BY <1>4, <1>6, StartDoes
  <2>2. to(v, s) = y
    OBVIOUS
  <2> HIDE DEF v, to
  <2>3. v \in WorldType /\ SinkOK(v) /\ v.pipe = c /\ v.pipe \in PipeType
    BY <1>4, <2>1, Parts DEF Kept
  <2>4. s \in {"UNINITIALIZED", "INITIALIZED", "CONFIGURED", "RUNNING", "STOPPED",
               "RECOVERY"}
    BY <1>6
  <2>5. /\ n \in PipeType /\ n.state = s /\ n.initialized_nodes = c.initialized_nodes
        /\ n.sink_initialized = c.sink_initialized /\ n.sink_ready = c.sink_ready
        /\ n.completed = c.completed
    <3>1. LET q == [v.pipe EXCEPT !.state = s] IN
          /\ q \in PipeType /\ q.state = s
          /\ q.initialized_nodes = v.pipe.initialized_nodes
          /\ q.sink_initialized = v.pipe.sink_initialized
          /\ q.sink_ready = v.pipe.sink_ready /\ q.completed = v.pipe.completed
      <4> HIDE DEF n, y
      <4> QED BY ZenonT(40), <2>3, <2>4, SetState
    <3> QED BY <2>3, <3>1
  <2> HIDE DEF n
  <2>6. y \in WorldType /\ SinkOK(y) /\ y.pipe = n /\ y.core = v.core /\ y.dev = v.dev
    BY <2>3, <2>5, PipeOnly
  <2> HIDE DEF y
  <2>7. /\ w.pipe.sink_ready /\ w.core.configured
        /\ w.pipe.sink_initialized /\ w.pipe.initialized_nodes = Nodes
    BY <1>6 DEF PipeOK
  <2>8. PipeOK(y)
    BY <1>3, <1>4, <1>6, <2>1, <2>5, <2>6, <2>7 DEF PipeOK
  <2> QED BY <2>2, <2>8 DEF v
<1> HIDE DEF to
<1>7. ASSUME w.pipe.state \in {"CONFIGURED", "STOPPED"}, NEW p \in CoreStart(u),
             o \in Done(to(p.w, "RUNNING"))
      PROVE  PipeOK(o.w)
  BY <1>6, <1>7 DEF Done
<1>8. ASSUME w.pipe.state \in {"CONFIGURED", "STOPPED"}, NEW p \in CoreStart(u),
             NEW q \in PipelineStop(to(p.w, "RECOVERY")), o \in Failed(q.w)
      PROVE  PipeOK(o.w)
  <2>1. PipeOK(to(p.w, "RECOVERY"))
    BY <1>6, <1>8
  <2>2. PipeOK(q.w)
    BY <2>1, PipelineStopKeeps
  <2> QED BY <1>8, <2>2 DEF Failed
<1> QED BY <1>2, <1>5, <1>7, <1>8

(* Only a drained end of stream completes the pipeline. *)
LEMMA PipelineProcessKeeps ==
  ASSUME NEW w, PipeOK(w), NEW eos \in BOOLEAN, NEW o \in PipelineProcess(w, eos)
  PROVE  PipeOK(o.w)
<1> DEFINE ended(v) == IF eos THEN [v EXCEPT !.pipe.completed = TRUE] ELSE v
           Rest(got) == IF ~got.pipe.fits THEN Failed(got)
                        ELSE Then(CoreCommit(got, eos), LAMBDA u : Done(ended(u)))
                             \cup UNION {Refused(CoreCommit(f.w, FALSE)) : f \in Faulty(got)}
<1>1. w \in WorldType /\ SinkOK(w)
  BY DEF PipeOK
<1>2. \/ o \in Failed(w)
      \/ /\ w.pipe.state = "RUNNING" /\ ~w.pipe.completed
         /\ \/ o \in CoreAcquire(w) /\ ~o.ok
            \/ \E p \in CoreAcquire(w) : p.ok /\ o \in Rest(p.w)
  <2>1. \/ o \in Failed(w)
        \/ /\ w.pipe.state = "RUNNING" /\ ~w.pipe.completed
           /\ o \in Then(CoreAcquire(w), Rest)
    BY DEF PipelineProcess
  <2> HIDE DEF Rest
  <2> QED BY <2>1 DEF Then
<1>3. ASSUME NEW got,
             o \in Rest(got)
      PROVE  \/ o.w = got
             \/ \E p \in CoreCommit(got, eos) : o.w = p.w
             \/ \E p \in CoreCommit(got, eos) : p.ok /\ o.w = ended(p.w)
             \/ \E f \in Faulty(got) : \E p \in CoreCommit(f.w, FALSE) : o.w = p.w
  <2> HIDE DEF ended
  <2>1. \/ o \in Failed(got)
        \/ o \in Then(CoreCommit(got, eos), LAMBDA u : Done(ended(u)))
        \/ \E f \in Faulty(got) : o \in Refused(CoreCommit(f.w, FALSE))
    BY <1>3
  <2> HIDE DEF Rest
  <2>2. CASE o \in Failed(got)
    <3>1. o.w = got
      BY <2>2 DEF Failed
    <3> QED BY <3>1
  <2>3. CASE o \in Then(CoreCommit(got, eos), LAMBDA u : Done(ended(u)))
    <3>1. \/ o \in CoreCommit(got, eos)
          \/ \E p \in CoreCommit(got, eos) : p.ok /\ o \in Done(ended(p.w))
      BY <2>3 DEF Then
    <3>2. ASSUME NEW p \in CoreCommit(got, eos), o \in Done(ended(p.w))
          PROVE  o.w = ended(p.w)
      BY <3>2 DEF Done
    <3> QED BY <3>1, <3>2
  <2>4. CASE \E f \in Faulty(got) : o \in Refused(CoreCommit(f.w, FALSE))
    <3>1. \E f \in Faulty(got) : \E p \in CoreCommit(f.w, FALSE) : o \in Failed(p.w)
      BY <2>4 DEF Refused
    <3>2. ASSUME NEW f \in Faulty(got), NEW p \in CoreCommit(f.w, FALSE), o \in Failed(p.w)
          PROVE  o.w = p.w
      BY <3>2 DEF Failed
    <3> QED BY <3>1, <3>2
  <2> QED BY <2>1, <2>2, <2>3, <2>4
<1> HIDE DEF Rest
(* Whatever the sink did, a running pipeline stays in order. *)
<1>4. ASSUME w.pipe.state = "RUNNING", NEW u, Kept(w, u), ~w.pipe.completed \/ Quiet(u),
             u.core.configured = w.core.configured
      PROVE  PipeOK(u)
  BY <1>4 DEF PipeOK, Kept, Quiet
<1>5. CASE o \in Failed(w)
  BY <1>5 DEF Failed
<1>6. ASSUME w.pipe.state = "RUNNING", ~w.pipe.completed, NEW p \in CoreAcquire(w)
      PROVE  /\ PipeOK(p.w) /\ Kept(w, p.w) /\ p.w.core.configured = w.core.configured
             /\ p.w \in WorldType /\ SinkOK(p.w)
  BY <1>1, <1>4, <1>6, AcquireDoes DEF Kept
(* A commit of what was acquired. *)
<1>7. ASSUME w.pipe.state = "RUNNING", ~w.pipe.completed, NEW g \in WorldType, SinkOK(g),
             Kept(w, g), g.core.configured = w.core.configured,
             NEW e \in BOOLEAN, NEW p \in CoreCommit(g, e)
      PROVE  /\ PipeOK(p.w) /\ Kept(w, p.w) /\ (p.ok /\ e => Quiet(p.w))
             /\ p.w.core.configured = w.core.configured
  <2>1. /\ Kept(g, p.w) /\ p.w.core.configured = g.core.configured
        /\ p.ok /\ e => Quiet(p.w)
    BY <1>7, CommitDoes
  <2>2. Kept(w, p.w) /\ p.w.core.configured = w.core.configured
    BY <1>7, <2>1 DEF Kept
  <2> QED BY <1>4, <1>7, <2>1, <2>2
<1>8. ASSUME w.pipe.state = "RUNNING", ~w.pipe.completed, NEW g \in WorldType, SinkOK(g),
             Kept(w, g), g.core.configured = w.core.configured,
             NEW p \in CoreCommit(g, eos), p.ok
      PROVE  PipeOK(ended(p.w))
  <2>1. CASE ~eos
    <3>1. ended(p.w) = p.w
      BY <2>1
    <3> QED BY <1>7, <1>8, <3>1
  <2>2. CASE eos
    <3> DEFINE v == p.w
               c == [v.pipe EXCEPT !.completed = TRUE]
               y == [v EXCEPT !.pipe = c]
    <3>1. ended(v) = y
      BY <2>2
    <3>2. PipeOK(v) /\ Kept(w, v) /\ Quiet(v)
      BY <1>7, <1>8, <2>2
    <3> HIDE DEF v, ended
    <3>3. v \in WorldType /\ SinkOK(v) /\ v.pipe \in PipeType
      BY <3>2, Parts DEF PipeOK
    <3>4. /\ c \in PipeType /\ c.state = v.pipe.state
          /\ c.initialized_nodes = v.pipe.initialized_nodes
          /\ c.sink_initialized = v.pipe.sink_initialized
          /\ c.sink_ready = v.pipe.sink_ready
      BY <3>3, SetCompleted
    <3> HIDE DEF c
    <3>5. y \in WorldType /\ SinkOK(y) /\ y.pipe = c /\ y.core = v.core /\ y.dev = v.dev
      BY <3>3, <3>4, PipeOnly
    <3> HIDE DEF y
    <3>6. PipeOK(y)
      BY <3>2, <3>4, <3>5 DEF PipeOK, Quiet
    <3> QED BY <3>1, <3>6 DEF v
  <2> QED BY <2>1, <2>2
<1> HIDE DEF ended
<1>9. ASSUME w.pipe.state = "RUNNING", ~w.pipe.completed, NEW p \in CoreAcquire(w),
             NEW f \in Faulty(p.w)
      PROVE  /\ f.w \in WorldType /\ SinkOK(f.w) /\ Kept(w, f.w)
             /\ f.w.core.configured = w.core.configured
  <2>1. /\ Kept(w, p.w) /\ p.w.core.configured = w.core.configured
        /\ p.w \in WorldType /\ SinkOK(p.w)
    BY <1>6, <1>9
  <2>2. Kept(p.w, f.w) /\ f.w.core = p.w.core
    BY <1>9, <2>1, FaultyDoes, StillKept
  <2> QED BY <2>1, <2>2 DEF Kept
<1>10. ASSUME w.pipe.state = "RUNNING", ~w.pipe.completed, NEW p \in CoreAcquire(w),
              o \in Rest(p.w)
       PROVE  PipeOK(o.w)
  <2>1. /\ PipeOK(p.w) /\ Kept(w, p.w) /\ p.w.core.configured = w.core.configured
        /\ p.w \in WorldType /\ SinkOK(p.w)
    BY <1>6, <1>10
  <2>2. \A q \in CoreCommit(p.w, eos) : PipeOK(q.w) /\ (q.ok => PipeOK(ended(q.w)))
    BY <1>7, <1>8, <1>10, <2>1
  <2>3. \A f \in Faulty(p.w) : \A q \in CoreCommit(f.w, FALSE) : PipeOK(q.w)
    BY <1>7, <1>9, <1>10
  <2> QED BY <1>3, <1>10, <2>1, <2>2, <2>3
<1> QED BY <1>2, <1>5, <1>6, <1>10

LEMMA PipelineDeinitKeeps ==
  ASSUME NEW w, PipeOK(w), NEW o \in PipelineDeinit(w)
  PROVE  PipeOK(o.w)
<1> DEFINE zero(v) == [v EXCEPT !.pipe = PipeZero]
<1>1. w \in WorldType /\ SinkOK(w) /\ (w.pipe.completed => Quiet(w))
  BY DEF PipeOK, Quiet
<1>2. \/ o \in Failed(w)
      \/ o \in Release(w) /\ ~o.ok
      \/ \E p \in Release(w) : p.ok /\ o \in Done(zero(p.w))
  BY DEF PipelineDeinit, Then
<1>3. CASE o \in Failed(w)
  BY <1>3 DEF Failed
<1>4. CASE o \in Release(w) /\ ~o.ok
  BY <1>1, <1>4, ReleaseKeeps DEF PipeOK
<1>5. ASSUME NEW p \in Release(w), p.ok, o \in Done(zero(p.w))
      PROVE  PipeOK(o.w)
  <2> DEFINE v == p.w
             y == [v EXCEPT !.pipe = PipeZero]
  <2>1. o.w = y
    BY <1>5 DEF Done
  <2>2. Blank(v)
    BY <1>1, <1>5, ReleaseKeeps DEF PipeOK
  <2> HIDE DEF v
  <2>3. /\ PipeZero \in PipeType /\ PipeZero.state = "UNINITIALIZED" /\ ~PipeZero.completed
        /\ ~PipeZero.sink_initialized /\ ~PipeZero.sink_ready
    BY PipelineAssumption DEF PipeZero, PipeType
  <2>4. /\ y \in WorldType /\ SinkOK(y) /\ y.pipe = PipeZero
        /\ y.core = v.core /\ y.dev = v.dev
    BY <2>2, <2>3, PipeOnly DEF Blank
  <2> HIDE DEF y
  <2>5. Blank(y) /\ y.pipe.state = "UNINITIALIZED"
    BY <2>2, <2>3, <2>4 DEF Blank
  <2> QED BY <2>1, <2>5, BlankOK
<1> QED BY <1>2, <1>3, <1>4, <1>5
----------------------------------------------------------------------------
(* The steps. *)

LEMMA WorldIs ==
  World.pipe = pipe /\ World.core = core /\ World.dev = dev
  BY DEF World

(* Where a call leads is a world that is in order. *)
LEMMA Becoming ==
  ASSUME NEW outcomes, PipelineInv, \A o \in outcomes : PipeOK(o.w), Becomes(outcomes)
  PROVE  PipelineInv'
<1>1. PICK o \in outcomes :
        pipe' = o.w.pipe /\ core' = o.w.core /\ dev' = o.w.dev /\ ok' = o.ok
  BY DEF Becomes
<1>2. PipeOK(o.w) /\ o.w \in WorldType
  BY DEF PipeOK
<1>3. o.w = [pipe |-> o.w.pipe, core |-> o.w.core, dev |-> o.w.dev]
  BY <1>2 DEF WorldType
<1>4. World' = o.w
  BY <1>1, <1>3 DEF World
<1> QED BY <1>2, <1>4 DEF PipelineInv

LEMMA PauseKeeps ==
  ASSUME NEW w, PipeOK(w), NEW paused \in BOOLEAN, NEW o \in CorePause(w, paused)
  PROVE  PipeOK(o.w)
<1>1. w \in WorldType /\ SinkOK(w)
  BY DEF PipeOK
<1>2. /\ Kept(w, o.w) /\ (Quiet(w) => Quiet(o.w))
      /\ o.w.core.configured = w.core.configured /\ o.w.core.running = w.core.running
  BY <1>1, PauseDoes
<1> QED BY <1>2 DEF PipeOK, Kept, Quiet

(* A block that has been played is free again. *)
LEMMA PlayedKeeps ==
  ASSUME NEW w, PipeOK(w), w.dev.on, w.dev.queued > 0
  PROVE  PipeOK(Played(w))
<1> DEFINE x == IF Zephyr(w) THEN 1 ELSE 0
           d == [w.dev EXCEPT !.queued = @ - 1]
           e == [d EXCEPT !.free = w.dev.free + x]
           y == [w EXCEPT !.dev = e]
<1>1. w \in WorldType /\ SinkOK(w) /\ w.core \in CoreType /\ w.dev \in DevType
  BY Parts DEF PipeOK
<1>2. w.dev.free \in Nat /\ w.dev.queued \in Nat /\ x \in Nat /\ w.dev.free + x \in Nat
  BY <1>1 DEF DevType
<1>3. Played(w) = y
  BY DEF Played
<1>4. x = IF Zephyr(w) THEN 1 ELSE 0
  OBVIOUS
<1> HIDE DEF x
<1>5. /\ d \in DevType /\ d.queued = w.dev.queued - 1 /\ d.backend = w.dev.backend
      /\ d.chan = w.dev.chan /\ d.on = w.dev.on /\ d.misuse = w.dev.misuse
  <2> DEFINE n == w.dev.queued - 1
  <2>1. n \in Nat /\ d = [w.dev EXCEPT !.queued = n]
    BY <1>2
  <2> HIDE DEF n, d
  <2>2. /\ d \in DevType /\ d.queued = n /\ d.backend = w.dev.backend
        /\ d.chan = w.dev.chan /\ d.on = w.dev.on /\ d.misuse = w.dev.misuse
    BY <1>1, <2>1 DEF DevType
  <2> QED BY <2>2 DEF n
<1> HIDE DEF d
<1>6. /\ e \in DevType /\ e.queued = d.queued /\ e.free = w.dev.free + x
      /\ e.backend = d.backend /\ e.chan = d.chan /\ e.on = d.on /\ e.misuse = d.misuse
  BY <1>2, <1>5 DEF DevType
<1> HIDE DEF e
<1>7. y \in WorldType /\ y.pipe = w.pipe /\ y.core = w.core /\ y.dev = e
  BY <1>1, <1>6, SetDev
<1> HIDE DEF y
<1>8. Zephyr(y) = Zephyr(w)
  BY <1>5, <1>6, <1>7 DEF Zephyr
<1>9. Conserved(y)
  <2>1. Conserved(w)
    BY <1>1 DEF SinkOK
  <2>2. CASE Zephyr(w)
    BY <1>2, <1>4, <1>5, <1>6, <1>7, <1>8, <2>1, <2>2, SinkAssumption DEF Conserved
  <2>3. CASE ~Zephyr(w)
    BY <1>2, <1>4, <1>6, <1>7, <1>8, <2>1, <2>3 DEF Conserved
  <2> QED BY <2>2, <2>3
<1>10. w.core.started /\ w.core.running /\ ~w.pipe.completed
  BY <1>1, <1>2 DEF PipeOK, SinkOK
<1>11. SinkOK(y)
  BY <1>1, <1>5, <1>6, <1>7, <1>8, <1>9, <1>10 DEF SinkOK
<1>12. PipeOK(y)
  BY <1>7, <1>10, <1>11 DEF PipeOK
<1> QED BY <1>3, <1>12

LEMMA PipelineStarts == Init => PipelineInv
<1> SUFFICES ASSUME Init PROVE PipelineInv
  OBVIOUS
<1>1. PICK b \in Backend : dev = DevInit(b)
  BY DEF Init
<1>2. /\ dev \in DevType /\ dev.on = FALSE /\ dev.chan = FALSE /\ dev.queued = 0
      /\ dev.misuse = FALSE /\ dev.free = IF dev.backend = "zephyr" THEN Slots ELSE 1
  BY <1>1, SinkAssumption DEF DevInit, DevType
<1>3. /\ core \in CoreType /\ ~core.configured /\ ~core.running /\ core.started = FALSE
      /\ ~core.held
  BY DEF Init, CoreInit, CoreType
<1>4. /\ pipe \in PipeType /\ pipe.state = "UNINITIALIZED" /\ ~pipe.completed
      /\ ~pipe.sink_initialized /\ ~pipe.sink_ready
  BY PipelineAssumption DEF Init, PipeZero, PipeType
<1>5. World \in WorldType
  BY <1>2, <1>3, <1>4 DEF World, WorldType
<1>6. Zephyr(World) = (dev.backend = "zephyr") /\ Conserved(World)
  BY <1>2, <1>3, WorldIs, SinkAssumption DEF Zephyr, Conserved
<1>7. SinkOK(World)
  BY <1>2, <1>3, <1>6, WorldIs DEF SinkOK
<1> QED BY <1>3, <1>4, <1>5, <1>7, WorldIs DEF PipelineInv, PipeOK

LEMMA PipelineSteps == PipelineInv /\ [Next]_vars => PipelineInv'
<1> SUFFICES ASSUME PipelineInv, [Next]_vars PROVE PipelineInv'
  OBVIOUS
<1>0. PipeOK(World)
  BY DEF PipelineInv
<1>1. CASE CallInit
  BY <1>0, <1>1, PipelineInitKeeps, Becoming DEF CallInit
<1>2. ASSUME NEW fits \in BOOLEAN, Becomes(PipelineConfigure(World, fits)) PROVE PipelineInv'
  BY <1>0, <1>2, PipelineConfigureKeeps, Becoming
<1>3. CASE CallStart
  BY <1>0, <1>3, PipelineStartKeeps, Becoming DEF CallStart
<1>4. ASSUME NEW eos \in BOOLEAN, Becomes(PipelineProcess(World, eos)) PROVE PipelineInv'
  BY <1>0, <1>4, PipelineProcessKeeps, Becoming
<1>5. ASSUME NEW paused \in BOOLEAN, Becomes(CorePause(World, paused)) PROVE PipelineInv'
  BY <1>0, <1>5, PauseKeeps, Becoming
<1>6. CASE CallStop
  BY <1>0, <1>6, PipelineStopKeeps, Becoming DEF CallStop
<1>7. CASE CallDeinit
  BY <1>0, <1>7, PipelineDeinitKeeps, Becoming DEF CallDeinit
<1>8. CASE DriverPlays
  <2>1. PipeOK(Played(World))
    BY <1>0, <1>8, WorldIs, PlayedKeeps DEF DriverPlays
  <2>2. Played(World) = [pipe |-> pipe, core |-> core, dev |-> Played(World).dev]
    BY DEF Played, World
  <2>3. World' = Played(World)
    BY <1>8, <2>2 DEF DriverPlays, World
  <2> QED BY <2>1, <2>3 DEF PipelineInv
<1>9. CASE UNCHANGED vars
  BY <1>0, <1>9 DEF vars, PipelineInv, World
<1> QED BY <1>1, <1>2, <1>3, <1>4, <1>5, <1>6, <1>7, <1>8, <1>9
     DEF Next, CallConfigure, CallProcess, CallPause

(* Every call of a pipeline, however it fails halfway, and every block the *)
(* driver plays leave the sink's bookkeeping, the pipeline's and the       *)
(* driver's state in agreement.                                            *)
THEOREM PipelineInvariant == Spec => []PipelineInv
<1>1. Init => PipelineInv
  BY PipelineStarts
<1>2. PipelineInv /\ [Next]_vars => PipelineInv'
  BY PipelineSteps
<1> QED BY <1>1, <1>2, PTL DEF Spec

(* No failure of the driver or of a node loses a DMA block, frees it twice *)
(* or hands it out twice, whatever the owner calls next.                   *)
THEOREM PipelineBlocks == Spec => []BlocksConserved
<1>1. PipelineInv => BlocksConserved
  BY WorldIs DEF PipelineInv, PipeOK, SinkOK, Conserved, Zephyr, BlocksConserved
<1> QED BY <1>1, PipelineInvariant, PTL

(* Outside of RUNNING and RECOVERY the driver is silent and nobody holds a *)
(* block, and a completed stream has been played.                          *)
THEOREM PipelineQuiet == Spec => []StoppedIsQuiet
<1>1. PipelineInv => StoppedIsQuiet
  <2> SUFFICES ASSUME PipelineInv PROVE StoppedIsQuiet
    OBVIOUS
  <2>1. /\ core.running => pipe.state \in {"RUNNING", "RECOVERY"}
        /\ pipe.completed => dev.queued = 0 /\ ~dev.on
    BY WorldIs DEF PipelineInv, PipeOK
  <2>2. ~core.running => ~core.held /\ dev.queued = 0 /\ ~core.started
    BY WorldIs DEF PipelineInv, PipeOK, SinkOK
  <2>3. dev.on = core.started
    BY WorldIs DEF PipelineInv, PipeOK, SinkOK
  <2> QED BY <2>1, <2>2, <2>3 DEF StoppedIsQuiet
<1> QED BY <1>1, PipelineInvariant, PTL

(* Nodes and sink are there whenever a pipeline may run, outlive each      *)
(* other in the order release() relies on, and are gone after deinit.      *)
THEOREM PipelineReleases == Spec => []ReleasedInOrder
<1>1. PipelineInv => ReleasedInOrder
  <2> SUFFICES ASSUME PipelineInv PROVE ReleasedInOrder
    OBVIOUS
  <2>1. /\ core.configured => pipe.sink_initialized /\ pipe.initialized_nodes = Nodes
        /\ pipe.sink_ready => core.configured
        /\ pipe.state \in {"CONFIGURED", "RUNNING", "STOPPED"} => pipe.sink_ready
        /\ pipe.state = "UNINITIALIZED" => ~core.configured
    BY WorldIs DEF PipelineInv, PipeOK
  <2>2. /\ core.configured => dev.chan
        /\ dev.backend # "zephyr" /\ dev.chan => core.configured
    BY WorldIs DEF PipelineInv, PipeOK, SinkOK, Zephyr
  <2> QED BY <2>1, <2>2 DEF ReleasedInOrder
<1> QED BY <1>1, PipelineInvariant, PTL

(* The ESP-IDF driver is never called in a state in which it refuses. *)
THEOREM PipelineDriver == Spec => []DriverInOrder
<1>1. PipelineInv => DriverInOrder
  BY WorldIs DEF PipelineInv, PipeOK, SinkOK, DriverInOrder
<1> QED BY <1>1, PipelineInvariant, PTL
=============================================================================
