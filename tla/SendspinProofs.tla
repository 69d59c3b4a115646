--------------------------- MODULE SendspinProofs ---------------------------
(***************************************************************************)
(* What the Sendspin client, player and decode worker keep, for every size *)
(* of buffer, block and message.                                           *)
(*                                                                         *)
(* The loops of the code are Loop of Outcomes.tla, a recursive function;   *)
(* that it exists, and what its passes keep, is proved for each of them by *)
(* induction over the number of passes (NatSet).                           *)
(***************************************************************************)
EXTENDS Sendspin, WellFoundedInduction, TLAPS

(* Induction: a set with 0 and with the successors of its numbers has them *)
(* all.                                                                    *)
LEMMA NatSet ==
  ASSUME NEW T, 0 \in T, \A n \in Nat : n \in T => n + 1 \in T
  PROVE  Nat \subseteq T
<1> SUFFICES ASSUME Nat \ T # {} PROVE FALSE
  OBVIOUS
<1>1. PICK x \in Nat \ T : \A y \in Nat \ T : ~(<<y, x>> \in OpToRel(<, Nat))
  <2>1. Nat \ T \subseteq Nat
    OBVIOUS
  <2> QED BY <2>1, NatLessThanWellFounded, WFMin, Zenon
<1>2. \A y \in Nat \ T : ~(y < x)
  BY <1>1 DEF OpToRel
<1> QED BY <1>2

(* A function on an interval can be extended by one. *)
LEMMA Extended ==
  ASSUME NEW g, NEW m \in Nat, NEW v
  PROVE  \E h : \A i \in 0 .. m + 1 : h[i] = IF i = m + 1 THEN v ELSE g[i]
<1> WITNESS [i \in 0 .. m + 1 |-> IF i = m + 1 THEN v ELSE g[i]]
<1> QED OBVIOUS
LEMMA MinOfTwo ==
  ASSUME NEW a \in Int, NEW b \in Int
  PROVE  Min({a, b}) \in {a, b} /\ Min({a, b}) <= a /\ Min({a, b}) <= b
<1>1. \E x \in {a, b} : \A y \in {a, b} : x <= y
  OBVIOUS
<1> QED BY <1>1 DEF Min

LEMMA Sizes ==
  /\ ChunkFrames \in Nat \ {0} /\ DecodeSteps \in Nat \ {0} /\ InputUnits \in Nat \ {0}
  /\ ScratchFrames \in Nat \ {0} /\ WireUnits \in Nat \ {0} /\ HttpUnits \in Nat \ {0}
  /\ MessageUnits \in Nat \ {0}
  BY SendspinAssumption
----------------------------------------------------------------------------
(* sendspin_player.c: the blocks of a buffer. *)

(* Only the player's counters move, and those together. *)
Counting(s, t) ==
  /\ StateOK(t)
  /\ t.client = s.client /\ t.rx = s.rx /\ t.board = s.board /\ t.worker = s.worker
  /\ t.dec = s.dec /\ t.net = s.net /\ t.owed = s.owed /\ t.misheard = s.misheard
  /\ t.player.active = s.player.active /\ t.player.compressed = s.player.compressed
  /\ t.player.rate = s.player.rate
  /\ Tallied(s.player) => Tallied(t.player)

LEMMA CountingWhole ==
  ASSUME NEW s, StateOK(s)
  PROVE  Counting(s, s)
BY DEF Counting

LEMMA CountingChain ==
  ASSUME NEW s, NEW t, NEW u, Counting(s, t), Counting(t, u)
  PROVE  Counting(s, u)
BY DEF Counting

(* A state whose counters were raised. *)
LEMMA Raised ==
  ASSUME NEW s, StateOK(s), NEW w \in Nat, NEW d \in Nat, NEW t,
         t = [s EXCEPT !.player.frames_written = s.player.frames_written + w,
                       !.player.frames_dropped = s.player.frames_dropped + d,
                       !.player.handed = s.player.handed + (w + d)]
  PROVE  Counting(s, t)
<1> DEFINE p == [s.player EXCEPT !.frames_written = s.player.frames_written + w,
                                 !.frames_dropped = s.player.frames_dropped + d,
                                 !.handed = s.player.handed + (w + d)]
<1>1. PlayerOK(s.player)
  BY DEF StateOK
<1>2. t = [s EXCEPT !.player = p]
  BY DEF StateOK, PlayerOK
<1>3. /\ PlayerOK(p) /\ p.active = s.player.active /\ p.compressed = s.player.compressed
      /\ p.rate = s.player.rate
      /\ Tallied(s.player) => Tallied(p)
  <2>1. /\ p.active = s.player.active /\ p.compressed = s.player.compressed
        /\ p.rate = s.player.rate /\ p.resampling = s.player.resampling
        /\ p.frames_written = s.player.frames_written + w
        /\ p.frames_dropped = s.player.frames_dropped + d
        /\ p.handed = s.player.handed + (w + d)
        /\ DOMAIN p = DOMAIN s.player
    BY <1>1 DEF PlayerOK
  <2>2. /\ p.frames_written \in Nat /\ p.frames_dropped \in Nat /\ p.handed \in Nat
        /\ Tallied(s.player) => Tallied(p)
    <3> HIDE DEF p
    <3> QED BY <2>1, <1>1 DEF PlayerOK, Tallied
  <2>3. p \in [active : BOOLEAN, compressed : BOOLEAN, rate : {s.player.rate}, resampling : BOOLEAN,
              frames_written : Nat, frames_dropped : Nat, handed : Nat]
    BY <1>1, <2>1, <2>2 DEF PlayerOK
  <2> HIDE DEF p
  <2> QED BY <2>1, <2>2, <2>3, <1>1 DEF PlayerOK
<1> HIDE DEF p
<1>4. t.player = p
  BY <1>2 DEF StateOK
<1> QED BY <1>2, <1>3, <1>4 DEF StateOK, Counting

LEMMA QueueBlockCounts ==
  ASSUME NEW s, StateOK(s), NEW count \in Nat, count >= 1, NEW o \in queue_block(s, count)
  PROVE  o.full \in BOOLEAN /\ Counting(s, o.s) /\ (~o.full => o.s.player.frames_dropped > 0)
<1>1. PICK produce \in Produced(s, count) : \E written \in board_write(produce) :
        o = [s |-> Counted(s, produce, written), full |-> written = produce]
  BY DEF queue_block
<1>2. PICK written \in board_write(produce) :
        o = [s |-> Counted(s, produce, written), full |-> written = produce]
  BY <1>1
<1>3. produce \in Nat
  BY DEF Produced
<1>4. written \in Nat /\ produce - written \in Nat /\ produce = written + (produce - written)
  BY <1>3 DEF board_write
<1>5. Counting(s, o.s)
  BY <1>2, <1>4, Raised DEF Counted
<1>6. o.s.player.frames_dropped = s.player.frames_dropped + (produce - written)
  BY <1>2 DEF Counted, StateOK, PlayerOK
<1>7. s.player.frames_dropped \in Nat
  BY DEF StateOK, PlayerOK
<1>8. o.full \in BOOLEAN /\ (written = produce => o.full)
  BY <1>2
<1>9. ~o.full => o.s.player.frames_dropped > 0
  <2>1. ~o.full => produce - written > 0
    BY <1>3, <1>4, <1>8 DEF board_write
  <2>2. o.s.player.frames_dropped \in Nat
    BY <1>5 DEF Counting, StateOK, PlayerOK
  <2> QED BY <1>4, <1>6, <1>7, <2>1, <2>2
<1> QED BY <1>5, <1>8, <1>9

(* A loop of queue_block that began in s. *)
QueueOK(s, l) ==
  /\ l \in [s : {l.s}, full : BOOLEAN, left : Nat] /\ Counting(s, l.s)
  /\ ~l.full => l.s.player.frames_dropped > 0

QueueLoop(n, start) == Loop(n, start, QueuePass)
QueuePasses(loops) == UNION {QueuePass(l) : l \in loops}

(* The loop is a function of the number of passes. *)
QueueRun(f, n, start) ==
  /\ f[0] = {start} /\ f[n] = QueueLoop(n, start)
  /\ \A i \in 0 .. n : i > 0 => f[i] = QueuePasses(f[i - 1])

LEMMA QueueUnrolled ==
  ASSUME NEW n \in Nat, NEW start
  PROVE  \E f : QueueRun(f, n, start)
<1> DEFINE Is(f, i) == f[i] = IF i = 0 THEN {start} ELSE QueuePasses(f[i - 1])
           All(f) == f = [i \in 0 .. n |-> IF i = 0 THEN {start} ELSE QueuePasses(f[i - 1])]
           T == {k \in Nat : \E f : \A i \in 0 .. k : Is(f, i)}
<1>1. 0 \in T
  <2>1. \A i \in 0 .. 0 : Is([j \in {0} |-> {start}], i)
    OBVIOUS
  <2> QED BY <2>1
<1>2. \A k \in Nat : k \in T => k + 1 \in T
  <2> SUFFICES ASSUME NEW k \in Nat, NEW g, \A i \in 0 .. k : Is(g, i) PROVE k + 1 \in T
    OBVIOUS
  <2>1. PICK h : \A i \in 0 .. k + 1 : h[i] = IF i = k + 1 THEN QueuePasses(g[k]) ELSE g[i]
    BY Extended
  <2>2. \A i \in 0 .. k + 1 : Is(h, i)
    BY <2>1
  <2> QED BY <2>2
<1>3. PICK f : \A i \in 0 .. n : Is(f, i)
  <2> HIDE DEF T
  <2>1. n \in T
    BY <1>1, <1>2, NatSet
  <2> QED BY <2>1 DEF T
<1> DEFINE d == [i \in 0 .. n |-> f[i]]
<1>4. All(d)
  <2>1. \A i \in 0 .. n : d[i] = IF i = 0 THEN {start} ELSE QueuePasses(d[i - 1])
    <3> SUFFICES ASSUME NEW i \in 0 .. n
                 PROVE  f[i] = IF i = 0 THEN {start} ELSE QueuePasses(d[i - 1])
      OBVIOUS
    <3>1. i # 0 => i - 1 \in 0 .. n
      OBVIOUS
    <3> QED BY <1>3, <3>1
  <2> QED BY <2>1
<1> DEFINE c == CHOOSE f1 : All(f1)
           e == [i \in 0 .. n |-> IF i = 0 THEN {start} ELSE QueuePasses(c[i - 1])]
<1>5. All(c)
  <2> HIDE DEF All
  <2> QED BY <1>4
<1>6. QueueLoop(n, start) = c[n]
  BY DEF QueueLoop, Loop, QueuePasses
<1> HIDE DEF c
<1>7. \A i \in 0 .. n : e[i] = IF i = 0 THEN {start} ELSE QueuePasses(c[i - 1])
  OBVIOUS
<1>8. c = e
  BY <1>5, Zenon
<1> HIDE DEF e
<1>9. QueueRun(c, n, start)
  BY <1>6, <1>7, <1>8 DEF QueueRun
<1> QED BY <1>9

(* A pass over blocks that are all taken leaves fewer of them. *)
Fewer(l, m) == m.full => l.full /\ (m.left < l.left \/ m.left = 0)

(* What a pass keeps, the loop keeps, and it ends. *)
LEMMA QueueKeeps ==
  ASSUME NEW s, NEW n \in Nat, NEW start, QueueOK(s, start), start.left <= n,
         \A l : QueueOK(s, l) => \A m \in QueuePass(l) : QueueOK(s, m) /\ Fewer(l, m)
  PROVE  \A l \in QueueLoop(n, start) : QueueOK(s, l) /\ (l.full => l.left = 0)
<1>0. PICK f : QueueRun(f, n, start)
  BY QueueUnrolled
<1>1. /\ f[0] = {start} /\ f[n] = QueueLoop(n, start)
      /\ \A i \in 0 .. n : i > 0 => f[i] = QueuePasses(f[i - 1])
  BY <1>0 DEF QueueRun
<1> DEFINE Far(l, k) == QueueOK(s, l) /\ (l.full => l.left <= n - k)
           T == {k \in Nat : k <= n => \A l \in f[k] : Far(l, k)}
<1>2. 0 \in T
  BY <1>1
<1>3. \A k \in Nat : k \in T => k + 1 \in T
  <2> SUFFICES ASSUME NEW k \in Nat, \A l \in f[k] : Far(l, k), k + 1 <= n,
                      NEW m \in f[k + 1]
               PROVE  Far(m, k + 1)
    OBVIOUS
  <2>1. f[k + 1] = QueuePasses(f[k])
    BY <1>1
  <2>2. PICK l \in f[k] : m \in QueuePass(l)
    BY <2>1 DEF QueuePasses
  <2>3. QueueOK(s, l) /\ (l.full => l.left <= n - k) /\ QueueOK(s, m) /\ Fewer(l, m)
    BY <2>2
  <2>4. l.left \in Nat /\ m.left \in Nat
    BY <2>3 DEF QueueOK
  <2> QED BY <2>3, <2>4 DEF Fewer
<1> HIDE DEF T
<1>4. n \in T
  BY <1>2, <1>3, NatSet
<1>5. \A l \in f[n] : QueueOK(s, l) /\ (l.full => l.left <= 0)
  BY <1>4 DEF T
<1> QED BY <1>1, <1>5 DEF QueueOK

(* A block loop moves counters only. *)
LEMMA QueueBlocksCount ==
  ASSUME NEW s, StateOK(s), NEW frames \in Nat
  PROVE  \A l \in QueueBlocks(s, frames) :
           /\ l.left \in Nat /\ Counting(s, l.s)
           /\ l.left > 0 => l.s.player.frames_dropped > 0
<1> DEFINE start == [s |-> s, full |-> TRUE, left |-> frames]
<1>1. QueueOK(s, start)
  BY CountingWhole DEF QueueOK
<1>2. \A l : QueueOK(s, l) => \A m \in QueuePass(l) : QueueOK(s, m) /\ Fewer(l, m)
  <2> SUFFICES ASSUME NEW l, QueueOK(s, l), NEW m \in QueuePass(l)
               PROVE  QueueOK(s, m) /\ Fewer(l, m)
    OBVIOUS
  <2> DEFINE count == Min({l.left, ChunkFrames})
  <2>1. CASE l.left = 0 \/ ~l.full
    BY <2>1 DEF QueuePass, Fewer
  <2>2. CASE ~(l.left = 0 \/ ~l.full)
    <3>1. l.left \in Nat /\ l.left >= 1
      BY <2>2 DEF QueueOK
    <3>2. count \in Nat /\ count >= 1 /\ l.left - count \in Nat
      <4>0. l.left \in Int /\ ChunkFrames \in Int
        BY <3>1, Sizes
      <4>1. count \in {l.left, ChunkFrames} /\ count <= l.left
        BY <4>0, MinOfTwo
      <4> HIDE DEF count
      <4> QED BY <4>1, <3>1, Sizes
    <3>3. PICK o \in queue_block(l.s, count) :
            m = [s |-> o.s, full |-> o.full, left |-> l.left - count]
      BY <2>2 DEF QueuePass
    <3>4. o.full \in BOOLEAN /\ Counting(l.s, o.s) /\ (~o.full => o.s.player.frames_dropped > 0)
      <4>1. StateOK(l.s)
        BY DEF QueueOK, Counting
      <4> HIDE DEF count
      <4> QED BY <4>1, <3>2, QueueBlockCounts
    <3>5. Counting(s, o.s)
      BY <3>4, CountingChain DEF QueueOK
    <3> HIDE DEF count
    <3>6. QueueOK(s, m)
      BY <3>2, <3>3, <3>4, <3>5 DEF QueueOK
    <3>7. Fewer(l, m)
      BY <2>2, <3>1, <3>2, <3>3 DEF Fewer
    <3> QED BY <3>6, <3>7
  <2> QED BY <2>1, <2>2
<1>3. \A l \in QueueLoop(frames, start) : QueueOK(s, l) /\ (l.full => l.left = 0)
  <2>1. start.left <= frames
    OBVIOUS
  <2> HIDE DEF start
  <2> QED BY <1>1, <1>2, <2>1, QueueKeeps
<1> HIDE DEF start
<1> QED BY <1>3 DEF QueueBlocks, QueueLoop, QueueOK, start

(* The worker's sink takes the whole buffer and counts all of it. *)
LEMMA DecodeSinkCounts ==
  ASSUME NEW s, StateOK(s), NEW frames \in Nat, NEW o \in decode_sink(s, frames)
  PROVE  o.taken = frames /\ Counting(s, o.s)
<1>1. PICK l \in QueueBlocks(s, frames) : o = [s |-> Refused(l.s, l.left), taken |-> frames]
  BY DEF decode_sink
<1>2. l.left \in Nat /\ Counting(s, l.s)
  BY QueueBlocksCount
<1>3. Counting(l.s, Refused(l.s, l.left))
  <2> DEFINE p == [l.s.player EXCEPT !.handed = l.s.player.handed + l.left,
                                     !.frames_dropped = l.s.player.frames_dropped + l.left]
  <2>1. StateOK(l.s) /\ PlayerOK(l.s.player)
    BY <1>2 DEF Counting, StateOK
  <2>2. Refused(l.s, l.left) = [l.s EXCEPT !.player = p]
    BY <2>1 DEF Refused, StateOK, PlayerOK
  <2>3. /\ p.active = l.s.player.active /\ p.compressed = l.s.player.compressed
        /\ p.rate = l.s.player.rate /\ p.resampling = l.s.player.resampling
        /\ p.frames_written = l.s.player.frames_written
        /\ p.frames_dropped = l.s.player.frames_dropped + l.left
        /\ p.handed = l.s.player.handed + l.left
    BY <2>1 DEF PlayerOK
  <2>4. PlayerOK(p)
    <3>1. p.frames_dropped \in Nat /\ p.handed \in Nat
      BY <1>2, <2>1, <2>3 DEF PlayerOK
    <3>2. p \in [active : BOOLEAN, compressed : BOOLEAN, rate : {l.s.player.rate},
                resampling : BOOLEAN, frames_written : Nat, frames_dropped : Nat, handed : Nat]
      BY <2>1, <2>3, <3>1 DEF PlayerOK
    <3> HIDE DEF p
    <3> QED BY <2>3, <3>2 DEF PlayerOK
  <2> HIDE DEF p
  <2>5. Tallied(l.s.player) => Tallied(p)
    BY <1>2, <2>1, <2>3 DEF PlayerOK, Tallied
  <2> QED BY <2>1, <2>2, <2>3, <2>4, <2>5 DEF StateOK, Counting
<1> QED BY <1>1, <1>2, <1>3, CountingChain
----------------------------------------------------------------------------
(* eaf_decoder.c: a step of the worker. *)

WorkerType == [open : BOOLEAN, pending : Nat, sent : Nat, written : Nat]
DecoderType == [input : Nat, started : BOOLEAN]

(* Only player, worker and decoder move: no stream begins or ends, and     *)
(* every frame is accounted for.                                           *)
Playing(s, t) ==
  /\ StateOK(t) /\ FramesOK(t)
  /\ t.client = s.client /\ t.rx = s.rx /\ t.board = s.board
  /\ t.net = s.net /\ t.owed = s.owed /\ t.misheard = s.misheard
  /\ t.player.active = s.player.active /\ t.player.compressed = s.player.compressed
  /\ t.player.rate = s.player.rate /\ t.worker.open = s.worker.open

LEMMA PlayingWhole ==
  ASSUME NEW s, StateOK(s), FramesOK(s)
  PROVE  Playing(s, s)
BY DEF Playing

LEMMA PlayingChain ==
  ASSUME NEW s, NEW t, NEW u, Playing(s, t), Playing(t, u)
  PROVE  Playing(s, u)
BY DEF Playing

(* A state with another worker and decoder. *)
SetWorker(s, k, d) == [s EXCEPT !.worker = k, !.dec = d]

LEMMA WithWorker ==
  ASSUME NEW s, StateOK(s), NEW k \in WorkerType, NEW d \in DecoderType
  PROVE  LET t == SetWorker(s, k, d) IN
         /\ StateOK(t) /\ t.worker = k /\ t.dec = d
         /\ t.client = s.client /\ t.rx = s.rx /\ t.board = s.board /\ t.player = s.player
         /\ t.net = s.net /\ t.owed = s.owed /\ t.misheard = s.misheard
<1> DEFINE t == SetWorker(s, k, d)
<1>1. /\ t.worker = k /\ t.dec = d
      /\ t.client = s.client /\ t.rx = s.rx /\ t.board = s.board /\ t.player = s.player
      /\ t.net = s.net /\ t.owed = s.owed /\ t.misheard = s.misheard
  BY DEF StateOK, SetWorker
<1>2. t \in [client : {s.client}, rx : {s.rx}, board : {s.board}, player : {s.player},
             worker : WorkerType, dec : DecoderType, net : {s.net}, owed : {s.owed},
             misheard : {s.misheard}]
  BY <1>1 DEF StateOK, SetWorker
<1> HIDE DEF t
<1>3. StateOK(t)
  BY <1>1, <1>2 DEF StateOK, WorkerType, DecoderType
<1> QED BY <1>1, <1>3 DEF t

LEMMA FlacPullIs ==
  ASSUME NEW d \in DecoderType, NEW o \in flac_pull(d)
  PROVE  o.ok \in BOOLEAN /\ o.frames \in Nat /\ o.dec \in DecoderType
<1>0. d.input \in Nat /\ d.started \in BOOLEAN
  BY DEF DecoderType
<1>1. CASE o = [ok |-> TRUE, dec |-> d, frames |-> 0]
  BY <1>1
<1>2. CASE ~d.started /\ o = [ok |-> FALSE, dec |-> [d EXCEPT !.input = 0], frames |-> 0]
  BY <1>2 DEF DecoderType
<1> DEFINE most == Min({d.input, ScratchFrames})
<1>3. most \in Nat /\ most <= d.input
  <2>1. d.input \in Int /\ ScratchFrames \in Int
    BY <1>0, Sizes
  <2>2. most \in {d.input, ScratchFrames} /\ most <= d.input
    BY <2>1, MinOfTwo
  <2> HIDE DEF most
  <2> QED BY <2>2, <1>0, Sizes
<1>4. ASSUME NEW n \in 0 .. most,
             o = [ok |-> TRUE, dec |-> [started |-> TRUE, input |-> d.input - n], frames |-> n]
      PROVE  o.ok \in BOOLEAN /\ o.frames \in Nat /\ o.dec \in DecoderType
  <2> HIDE DEF most
  <2>1. n \in Nat /\ d.input - n \in Nat
    BY <1>0, <1>3
  <2> QED BY <1>4, <2>1 DEF DecoderType
<1> QED BY <1>1, <1>2, <1>4 DEF flac_pull

(* Handing on what is pending. *)
LEMMA DrainPlays ==
  ASSUME NEW s, StateOK(s), s.worker.sent = 0,
         Tallied(s.player),
         NEW v \in drain(s, decode_sink)
  PROVE  Playing(s, v)
<1> DEFINE n == s.worker.pending - s.worker.sent
<1>1. n \in Nat /\ n = s.worker.pending
  BY DEF StateOK
<1>2. PICK o \in decode_sink(s, n) :
        v = [o.s EXCEPT !.worker.sent = o.s.worker.sent + o.taken,
                        !.worker.written = o.s.worker.written + o.taken]
  BY DEF drain
<1> HIDE DEF n
<1>3. o.taken = n /\ Counting(s, o.s)
  BY <1>1, DecodeSinkCounts
<1> DEFINE k == [o.s.worker EXCEPT !.sent = o.s.worker.sent + o.taken,
                                   !.written = o.s.worker.written + o.taken]
<1>4. StateOK(o.s) /\ o.s.worker \in WorkerType /\ o.s.dec \in DecoderType /\ o.s.worker = s.worker
  BY <1>3 DEF Counting, StateOK, WorkerType, DecoderType
<1>5. v = SetWorker(o.s, k, o.s.dec)
  BY <1>2, <1>4 DEF StateOK, WorkerType, SetWorker
<1>6. k.open = s.worker.open /\ k.pending = n /\ k.sent = n /\ k \in WorkerType
  <2>1. /\ k.open = s.worker.open /\ k.pending = s.worker.pending /\ k.sent = 0 + n
        /\ k.written = s.worker.written + n
    BY <1>3, <1>4 DEF WorkerType
  <2>2. k.sent = n /\ k.sent \in Nat /\ k.written \in Nat
    BY <1>1, <1>4, <2>1 DEF WorkerType
  <2> QED BY <1>1, <1>4, <2>1, <2>2 DEF WorkerType
<1> HIDE DEF k
<1>7. /\ StateOK(v) /\ v.worker = k
      /\ v.client = o.s.client /\ v.rx = o.s.rx /\ v.board = o.s.board /\ v.player = o.s.player
      /\ v.net = o.s.net /\ v.owed = o.s.owed /\ v.misheard = o.s.misheard
  BY <1>4, <1>5, <1>6, WithWorker
<1>8. Tallied(o.s.player)
  BY <1>3 DEF Counting
<1> QED BY <1>3, <1>6, <1>7, <1>8 DEF Playing, FramesOK, Counting

(* A step of the worker, whether it decodes, fails or has nothing to do. *)
LEMMA StepPlays ==
  ASSUME NEW s, StateOK(s), FramesOK(s), NEW o \in Step(s)
  PROVE  o.ok \in BOOLEAN /\ Playing(s, o.w)
<1> DEFINE Unread == [s EXCEPT !.worker.pending = 0, !.worker.sent = 0, !.dec = DecoderZero]
           Pulled(p) == [s EXCEPT !.worker.pending = p.frames, !.worker.sent = 0, !.dec = p.dec]
<1>1. s.worker \in WorkerType /\ s.dec \in DecoderType
  BY DEF StateOK, WorkerType, DecoderType
<1>2. CASE ~s.worker.open
  <2>1. o = [ok |-> FALSE, w |-> s]
    BY <1>2 DEF Step, eaf_decode_worker_step, Failed
  <2> QED BY <2>1, PlayingWhole
<1>3. CASE s.worker.open
  <2>1. PICK p \in flac_pull(s.dec) :
          o \in IF ~p.ok THEN Failed(Unread)
                ELSE IF p.frames = 0 THEN Done(Pulled(p))
                ELSE UNION {Done(v) : v \in drain(Pulled(p), decode_sink)}
    <3>1. ~(s.worker.pending > s.worker.sent)
      BY <1>1 DEF FramesOK, WorkerType
    <3> QED BY <1>3, <3>1 DEF Step, eaf_decode_worker_step
  <2>2. p.ok \in BOOLEAN /\ p.frames \in Nat /\ p.dec \in DecoderType
    BY <1>1, FlacPullIs
  <2> DEFINE Put(n, d) == [s EXCEPT !.worker.pending = n, !.worker.sent = 0, !.dec = d]
  <2>3. ASSUME NEW n \in Nat, NEW d \in DecoderType, NEW t, t = Put(n, d)
        PROVE  /\ StateOK(t) /\ t.worker.pending = n /\ t.worker.sent = 0
               /\ t.worker.open = s.worker.open
               /\ t.client = s.client /\ t.rx = s.rx /\ t.board = s.board /\ t.player = s.player
               /\ t.net = s.net /\ t.owed = s.owed /\ t.misheard = s.misheard
    <3> DEFINE k == [s.worker EXCEPT !.pending = n, !.sent = 0]
    <3>1. t = SetWorker(s, k, d)
      BY <1>1, <2>3 DEF StateOK, WorkerType, SetWorker
    <3>2. k \in WorkerType /\ k.pending = n /\ k.sent = 0 /\ k.open = s.worker.open
      BY <1>1 DEF WorkerType
    <3> HIDE DEF k
    <3> QED BY <3>1, <3>2, WithWorker
  <2>4. CASE ~p.ok
    <3>1. o = [ok |-> FALSE, w |-> Unread]
      BY <2>1, <2>4 DEF Failed
    <3>2. DecoderZero \in DecoderType
      BY DEF DecoderZero, DecoderType
    <3>3. Unread = Put(0, DecoderZero)
      OBVIOUS
    <3> HIDE DEF Unread, Put
    <3>4. Playing(s, Unread)
      BY <2>3, <3>2, <3>3 DEF Playing, FramesOK
    <3> QED BY <3>1, <3>4
  <2>5. CASE p.ok /\ p.frames = 0
    <3>1. o = [ok |-> TRUE, w |-> Pulled(p)]
      BY <2>1, <2>5 DEF Done
    <3> DEFINE t == Pulled(p)
    <3>2. t = Put(0, p.dec)
      BY <2>5
    <3> HIDE DEF t, Pulled, Put
    <3>3. Playing(s, t)
      BY <2>2, <2>3, <3>2 DEF Playing, FramesOK
    <3> QED BY <3>1, <3>3 DEF t
  <2>6. CASE p.ok /\ p.frames # 0
    <3> DEFINE t == Pulled(p)
    <3>1. PICK v \in drain(t, decode_sink) : o = [ok |-> TRUE, w |-> v]
      BY <2>1, <2>6 DEF Done
    <3>2. t = Put(p.frames, p.dec)
      OBVIOUS
    <3> HIDE DEF t, Pulled, Put
    <3>3. /\ StateOK(t) /\ t.worker.sent = 0 /\ t.worker.open = s.worker.open
          /\ t.client = s.client /\ t.rx = s.rx /\ t.board = s.board /\ t.player = s.player
          /\ t.net = s.net /\ t.owed = s.owed /\ t.misheard = s.misheard
      BY <2>2, <2>3, <3>2
    <3>4. Playing(t, v)
      BY <3>1, <3>3, DrainPlays DEF FramesOK
    <3> QED BY <3>1, <3>3, <3>4 DEF Playing
  <2> QED BY <2>2, <2>4, <2>5, <2>6
<1> QED BY <1>1, <1>2, <1>3 DEF WorkerType

----------------------------------------------------------------------------
(* write_compressed: its two loops, begun in s. *)

PushOK(s, l) == l \in [ok : BOOLEAN, w : {l.w}, left : Nat] /\ Playing(s, l.w)

PushLoop(n, start) == Loop(n, start, PushPass)
PushPasses(loops) == UNION {PushPass(l) : l \in loops}

(* The loop is a function of the number of passes. *)
PushRun(f, n, start) ==
  /\ f[0] = {start} /\ f[n] = PushLoop(n, start)
  /\ \A i \in 0 .. n : i > 0 => f[i] = PushPasses(f[i - 1])

LEMMA PushUnrolled ==
  ASSUME NEW n \in Nat, NEW start
  PROVE  \E f : PushRun(f, n, start)
<1> DEFINE Is(f, i) == f[i] = IF i = 0 THEN {start} ELSE PushPasses(f[i - 1])
           All(f) == f = [i \in 0 .. n |-> IF i = 0 THEN {start} ELSE PushPasses(f[i - 1])]
           T == {k \in Nat : \E f : \A i \in 0 .. k : Is(f, i)}
<1>1. 0 \in T
  <2>1. \A i \in 0 .. 0 : Is([j \in {0} |-> {start}], i)
    OBVIOUS
  <2> QED BY <2>1
<1>2. \A k \in Nat : k \in T => k + 1 \in T
  <2> SUFFICES ASSUME NEW k \in Nat, NEW g, \A i \in 0 .. k : Is(g, i) PROVE k + 1 \in T
    OBVIOUS
  <2>1. PICK h : \A i \in 0 .. k + 1 : h[i] = IF i = k + 1 THEN PushPasses(g[k]) ELSE g[i]
    BY Extended
  <2>2. \A i \in 0 .. k + 1 : Is(h, i)
    BY <2>1
  <2> QED BY <2>2
<1>3. PICK f : \A i \in 0 .. n : Is(f, i)
  <2> HIDE DEF T
  <2>1. n \in T
    BY <1>1, <1>2, NatSet
  <2> QED BY <2>1 DEF T
<1> DEFINE d == [i \in 0 .. n |-> f[i]]
<1>4. All(d)
  <2>1. \A i \in 0 .. n : d[i] = IF i = 0 THEN {start} ELSE PushPasses(d[i - 1])
    <3> SUFFICES ASSUME NEW i \in 0 .. n
                 PROVE  f[i] = IF i = 0 THEN {start} ELSE PushPasses(d[i - 1])
      OBVIOUS
    <3>1. i # 0 => i - 1 \in 0 .. n
      OBVIOUS
    <3> QED BY <1>3, <3>1
  <2> QED BY <2>1
<1> DEFINE c == CHOOSE f1 : All(f1)
           e == [i \in 0 .. n |-> IF i = 0 THEN {start} ELSE PushPasses(c[i - 1])]
<1>5. All(c)
  <2> HIDE DEF All
  <2> QED BY <1>4
<1>6. PushLoop(n, start) = c[n]
  BY DEF PushLoop, Loop, PushPasses
<1> HIDE DEF c
<1>7. \A i \in 0 .. n : e[i] = IF i = 0 THEN {start} ELSE PushPasses(c[i - 1])
  OBVIOUS
<1>8. c = e
  BY <1>5, Zenon
<1> HIDE DEF e
<1>9. PushRun(c, n, start)
  BY <1>6, <1>7, <1>8 DEF PushRun
<1> QED BY <1>9

(* What a pass keeps, the loop keeps. *)
LEMMA PushKeeps ==
  ASSUME NEW s, NEW n \in Nat, NEW start, PushOK(s, start),
         \A l : PushOK(s, l) => \A m \in PushPass(l) : PushOK(s, m)
  PROVE  \A l \in PushLoop(n, start) : PushOK(s, l)
<1>0. PICK f : PushRun(f, n, start)
  BY PushUnrolled
<1>1. /\ f[0] = {start} /\ f[n] = PushLoop(n, start)
      /\ \A i \in 0 .. n : i > 0 => f[i] = PushPasses(f[i - 1])
  BY <1>0 DEF PushRun
<1> DEFINE T == {k \in Nat : k <= n => \A l \in f[k] : PushOK(s, l)}
<1>2. 0 \in T
  BY <1>1
<1>3. \A k \in Nat : k \in T => k + 1 \in T
  <2> SUFFICES ASSUME NEW k \in Nat, \A l \in f[k] : PushOK(s, l), k + 1 <= n,
                      NEW m \in f[k + 1]
               PROVE  PushOK(s, m)
    OBVIOUS
  <2>1. f[k + 1] = PushPasses(f[k])
    BY <1>1
  <2>2. PICK l \in f[k] : m \in PushPass(l)
    BY <2>1 DEF PushPasses
  <2> QED BY <2>2
<1> HIDE DEF T
<1>4. n \in T
  BY <1>2, <1>3, NatSet
<1> QED BY <1>1, <1>4 DEF T

LEMMA PushInputPlays ==
  ASSUME NEW s, StateOK(s), FramesOK(s), NEW length \in Nat
  PROVE  \A l \in PushInput(s, length) : l.ok \in BOOLEAN /\ Playing(s, l.w)
<1> DEFINE start == [ok |-> TRUE, w |-> s, left |-> length]
<1>1. PushOK(s, start)
  BY PlayingWhole DEF PushOK
<1>2. \A l : PushOK(s, l) => \A m \in PushPass(l) : PushOK(s, m)
  <2> SUFFICES ASSUME NEW l, PushOK(s, l), NEW m \in PushPass(l) PROVE PushOK(s, m)
    OBVIOUS
  <2> DEFINE n == IF eaf_decode_worker_can_push(l.w) THEN Consumed(l.w, l.left) ELSE 0
  <2>1. StateOK(l.w) /\ FramesOK(l.w) /\ Playing(s, l.w) /\ l.left \in Nat /\ l.ok \in BOOLEAN
    BY DEF PushOK, Playing
  <2>2. CASE ~l.ok \/ l.left = 0
    BY <2>2 DEF PushPass
  <2>3. CASE ~(~l.ok \/ l.left = 0) /\ n > 0
    <3>1. m = [l EXCEPT !.w = eaf_decode_worker_push(l.w, l.left), !.left = l.left - n]
      BY <2>3 DEF PushPass
    <3>2. n = Consumed(l.w, l.left)
      BY <2>3
    <3>3. n = Min({l.left, InputUnits - l.w.dec.input})
      BY <2>3, <3>2 DEF Consumed, eaf_dec_input_push
    <3>4. l.w.dec.input \in Nat /\ l.w.worker \in WorkerType /\ l.w.dec \in DecoderType
      BY <2>1 DEF StateOK, WorkerType, DecoderType
    <3>5. l.left \in Int /\ InputUnits - l.w.dec.input \in Int
      BY <2>1, <3>4, Sizes
    <3>6. n \in Int /\ n <= l.left
      <4>1. n \in {l.left, InputUnits - l.w.dec.input} /\ n <= l.left
        BY <3>3, <3>5, MinOfTwo
      <4> HIDE DEF n
      <4> QED BY <3>5, <4>1
    <3> DEFINE d == [l.w.dec EXCEPT !.input = l.w.dec.input + n]
    <3>7. eaf_decode_worker_push(l.w, l.left) = SetWorker(l.w, l.w.worker, d)
      BY <2>1, <3>2 DEF eaf_decode_worker_push, SetWorker, StateOK
    <3>8. d \in DecoderType
      <4> HIDE DEF n
      <4>1. l.w.dec.input + n \in Nat
        BY <2>3, <3>4, <3>6
      <4> QED BY <3>4, <4>1 DEF DecoderType
    <3>9. Playing(l.w, SetWorker(l.w, l.w.worker, d))
      <4> HIDE DEF d
      <4> QED BY <2>1, <3>4, <3>8, WithWorker DEF Playing, FramesOK
    <3>10. l.left - n \in Nat
      <4> HIDE DEF n
      <4> QED BY <2>1, <3>6
    <3>11. Playing(s, SetWorker(l.w, l.w.worker, d))
      BY <2>1, <3>9, PlayingChain
    <3>12. m.w = SetWorker(l.w, l.w.worker, d) /\ m.ok = l.ok /\ m.left = l.left - n
           /\ m \in [ok : BOOLEAN, w : {m.w}, left : Nat]
      <4> HIDE DEF n, d
      <4> QED BY <3>1, <3>7, <3>10 DEF PushOK
    <3> HIDE DEF n, d
    <3> QED BY <3>11, <3>12 DEF PushOK
  <2>4. CASE ~(~l.ok \/ l.left = 0) /\ ~(n > 0)
    <3>1. PICK o \in Step(l.w) : m = [ok |-> o.ok, w |-> o.w, left |-> l.left]
      BY <2>4 DEF PushPass
    <3>2. o.ok \in BOOLEAN /\ Playing(s, o.w)
      BY <2>1, StepPlays, PlayingChain
    <3> QED BY <2>1, <3>1, <3>2 DEF PushOK
  <2> QED BY <2>2, <2>3, <2>4
<1> HIDE DEF start
<1>3. \A l \in PushLoop(DecodeSteps, start) : PushOK(s, l)
  BY <1>1, <1>2, PushKeeps, Sizes
<1> QED BY <1>3 DEF PushInput, PushLoop, PushOK, start

DrainOK(s, l) == l.ok \in BOOLEAN /\ Playing(s, l.w)

DrainLoop(n, start) == Loop(n, start, DrainPass)
DrainPasses(loops) == UNION {DrainPass(l) : l \in loops}

(* The loop is a function of the number of passes. *)
DrainRun(f, n, start) ==
  /\ f[0] = {start} /\ f[n] = DrainLoop(n, start)
  /\ \A i \in 0 .. n : i > 0 => f[i] = DrainPasses(f[i - 1])

LEMMA DrainUnrolled ==
  ASSUME NEW n \in Nat, NEW start
  PROVE  \E f : DrainRun(f, n, start)
<1> DEFINE Is(f, i) == f[i] = IF i = 0 THEN {start} ELSE DrainPasses(f[i - 1])
           All(f) == f = [i \in 0 .. n |-> IF i = 0 THEN {start} ELSE DrainPasses(f[i - 1])]
           T == {k \in Nat : \E f : \A i \in 0 .. k : Is(f, i)}
<1>1. 0 \in T
  <2>1. \A i \in 0 .. 0 : Is([j \in {0} |-> {start}], i)
    OBVIOUS
  <2> QED BY <2>1
<1>2. \A k \in Nat : k \in T => k + 1 \in T
  <2> SUFFICES ASSUME NEW k \in Nat, NEW g, \A i \in 0 .. k : Is(g, i) PROVE k + 1 \in T
    OBVIOUS
  <2>1. PICK h : \A i \in 0 .. k + 1 : h[i] = IF i = k + 1 THEN DrainPasses(g[k]) ELSE g[i]
    BY Extended
  <2>2. \A i \in 0 .. k + 1 : Is(h, i)
    BY <2>1
  <2> QED BY <2>2
<1>3. PICK f : \A i \in 0 .. n : Is(f, i)
  <2> HIDE DEF T
  <2>1. n \in T
    BY <1>1, <1>2, NatSet
  <2> QED BY <2>1 DEF T
<1> DEFINE d == [i \in 0 .. n |-> f[i]]
<1>4. All(d)
  <2>1. \A i \in 0 .. n : d[i] = IF i = 0 THEN {start} ELSE DrainPasses(d[i - 1])
    <3> SUFFICES ASSUME NEW i \in 0 .. n
                 PROVE  f[i] = IF i = 0 THEN {start} ELSE DrainPasses(d[i - 1])
      OBVIOUS
    <3>1. i # 0 => i - 1 \in 0 .. n
      OBVIOUS
    <3> QED BY <1>3, <3>1
  <2> QED BY <2>1
<1> DEFINE c == CHOOSE f1 : All(f1)
           e == [i \in 0 .. n |-> IF i = 0 THEN {start} ELSE DrainPasses(c[i - 1])]
<1>5. All(c)
  <2> HIDE DEF All
  <2> QED BY <1>4
<1>6. DrainLoop(n, start) = c[n]
  BY DEF DrainLoop, Loop, DrainPasses
<1> HIDE DEF c
<1>7. \A i \in 0 .. n : e[i] = IF i = 0 THEN {start} ELSE DrainPasses(c[i - 1])
  OBVIOUS
<1>8. c = e
  BY <1>5, Zenon
<1> HIDE DEF e
<1>9. DrainRun(c, n, start)
  BY <1>6, <1>7, <1>8 DEF DrainRun
<1> QED BY <1>9

(* What a pass keeps, the loop keeps. *)
LEMMA DrainKeeps ==
  ASSUME NEW s, NEW n \in Nat, NEW start, DrainOK(s, start),
         \A l : DrainOK(s, l) => \A m \in DrainPass(l) : DrainOK(s, m)
  PROVE  \A l \in DrainLoop(n, start) : DrainOK(s, l)
<1>0. PICK f : DrainRun(f, n, start)
  BY DrainUnrolled
<1>1. /\ f[0] = {start} /\ f[n] = DrainLoop(n, start)
      /\ \A i \in 0 .. n : i > 0 => f[i] = DrainPasses(f[i - 1])
  BY <1>0 DEF DrainRun
<1> DEFINE T == {k \in Nat : k <= n => \A l \in f[k] : DrainOK(s, l)}
<1>2. 0 \in T
  BY <1>1
<1>3. \A k \in Nat : k \in T => k + 1 \in T
  <2> SUFFICES ASSUME NEW k \in Nat, \A l \in f[k] : DrainOK(s, l), k + 1 <= n,
                      NEW m \in f[k + 1]
               PROVE  DrainOK(s, m)
    OBVIOUS
  <2>1. f[k + 1] = DrainPasses(f[k])
    BY <1>1
  <2>2. PICK l \in f[k] : m \in DrainPass(l)
    BY <2>1 DEF DrainPasses
  <2> QED BY <2>2
<1> HIDE DEF T
<1>4. n \in T
  BY <1>2, <1>3, NatSet
<1> QED BY <1>1, <1>4 DEF T

LEMMA DrainOutputPlays ==
  ASSUME NEW s, StateOK(s), FramesOK(s)
  PROVE  \A l \in DrainOutput(s) : l.ok \in BOOLEAN /\ Playing(s, l.w)
<1> DEFINE start == [ok |-> TRUE, w |-> s, more |-> TRUE]
<1>1. DrainOK(s, start)
  BY PlayingWhole DEF DrainOK
<1>2. \A l : DrainOK(s, l) => \A m \in DrainPass(l) : DrainOK(s, m)
  <2> SUFFICES ASSUME NEW l, DrainOK(s, l), NEW m \in DrainPass(l) PROVE DrainOK(s, m)
    OBVIOUS
  <2>1. CASE ~l.ok \/ ~l.more
    BY <2>1 DEF DrainPass
  <2>2. CASE ~(~l.ok \/ ~l.more)
    <3>1. PICK o \in Step(l.w) : m.ok = o.ok /\ m.w = o.w
      BY <2>2 DEF DrainPass
    <3>2. o.ok \in BOOLEAN /\ Playing(s, o.w)
      <4>1. StateOK(l.w) /\ FramesOK(l.w)
        BY DEF DrainOK, Playing
      <4>2. o.ok \in BOOLEAN /\ Playing(l.w, o.w)
        BY <4>1, StepPlays
      <4> QED BY <4>2, PlayingChain DEF DrainOK
    <3> QED BY <3>1, <3>2 DEF DrainOK
  <2> QED BY <2>1, <2>2
<1> HIDE DEF start
<1>3. \A l \in DrainLoop(DecodeSteps, start) : DrainOK(s, l)
  BY <1>1, <1>2, DrainKeeps, Sizes
<1> QED BY <1>3 DEF DrainOutput, DrainLoop, DrainOK, start

LEMMA WriteCompressedPlays ==
  ASSUME NEW s, StateOK(s), FramesOK(s), NEW length \in Nat, NEW o \in write_compressed(s, length)
  PROVE  o.ok \in BOOLEAN /\ Playing(s, o.w)
<1>1. \A u \in Outcome(PushInput(s, length)) : u.ok \in BOOLEAN /\ Playing(s, u.w)
  BY PushInputPlays DEF Outcome
<1>2. CASE o \in Outcome(PushInput(s, length))
  BY <1>1, <1>2
<1>3. CASE \E u \in Outcome(PushInput(s, length)) : o \in Outcome(DrainOutput(u.w))
  <2>1. PICK u \in Outcome(PushInput(s, length)) : o \in Outcome(DrainOutput(u.w))
    BY <1>3
  <2>2. PICK l \in DrainOutput(u.w) : o = [ok |-> l.ok, w |-> l.w]
    BY <2>1 DEF Outcome
  <2>3. StateOK(u.w) /\ FramesOK(u.w) /\ Playing(s, u.w)
    BY <1>1, <2>1 DEF Playing
  <2>4. l.ok \in BOOLEAN /\ Playing(u.w, l.w)
    BY <2>3, DrainOutputPlays
  <2> QED BY <2>2, <2>3, <2>4, PlayingChain
<1> QED BY <1>2, <1>3 DEF write_compressed, Then

----------------------------------------------------------------------------
(* sendspin_player.c: write, finish, begin. *)

SetPlayer(s, p) == [s EXCEPT !.player = p]

LEMMA WithPlayer ==
  ASSUME NEW s, StateOK(s), NEW p, PlayerOK(p)
  PROVE  LET t == SetPlayer(s, p) IN
         /\ StateOK(t) /\ t.player = p
         /\ t.client = s.client /\ t.rx = s.rx /\ t.board = s.board /\ t.worker = s.worker
         /\ t.dec = s.dec /\ t.net = s.net /\ t.owed = s.owed /\ t.misheard = s.misheard
<1> DEFINE t == SetPlayer(s, p)
<1>1. /\ t.player = p
      /\ t.client = s.client /\ t.rx = s.rx /\ t.board = s.board /\ t.worker = s.worker
      /\ t.dec = s.dec /\ t.net = s.net /\ t.owed = s.owed /\ t.misheard = s.misheard
  BY DEF StateOK, SetPlayer
<1>2. t \in [client : {s.client}, rx : {s.rx}, board : {s.board}, player : {p},
             worker : {s.worker}, dec : {s.dec}, net : {s.net}, owed : {s.owed},
             misheard : {s.misheard}]
  BY <1>1 DEF StateOK, SetPlayer
<1> HIDE DEF t
<1>3. StateOK(t)
  BY <1>1, <1>2 DEF StateOK
<1> QED BY <1>1, <1>3 DEF t

LEMMA CountingPlays ==
  ASSUME NEW s, NEW t, StateOK(s), FramesOK(s), Counting(s, t)
  PROVE  Playing(s, t)
BY DEF Counting, FramesOK, Playing

(* PCM behind a refused block. *)
LEMMA SkippedCounts ==
  ASSUME NEW s, StateOK(s), ~s.player.compressed, NEW left \in Nat,
         left > 0 => s.player.frames_dropped > 0
  PROVE  Counting(s, Skipped(s, left))
<1> DEFINE p == [s.player EXCEPT !.handed = s.player.handed + left]
<1>1. PlayerOK(s.player)
  BY DEF StateOK
<1>2. Skipped(s, left) = SetPlayer(s, p)
  BY <1>1 DEF Skipped, SetPlayer, StateOK, PlayerOK
<1>3. /\ p.active = s.player.active /\ p.compressed = s.player.compressed
      /\ p.rate = s.player.rate /\ p.resampling = s.player.resampling
      /\ p.frames_written = s.player.frames_written /\ p.frames_dropped = s.player.frames_dropped
      /\ p.handed = s.player.handed + left
  BY <1>1 DEF PlayerOK
<1>4. PlayerOK(p)
  <2>1. p.handed \in Nat
    BY <1>1, <1>3 DEF PlayerOK
  <2>2. p \in [active : BOOLEAN, compressed : BOOLEAN, rate : {s.player.rate},
               resampling : BOOLEAN, frames_written : Nat, frames_dropped : Nat, handed : Nat]
    BY <1>1, <1>3, <2>1 DEF PlayerOK
  <2> HIDE DEF p
  <2> QED BY <1>3, <2>2 DEF PlayerOK
<1> HIDE DEF p
<1>5. Tallied(s.player) => Tallied(p)
  BY <1>1, <1>3 DEF PlayerOK, Tallied
<1> QED BY <1>2, <1>3, <1>4, <1>5, WithPlayer DEF Counting

LEMMA WritePlays ==
  ASSUME NEW s, StateOK(s), FramesOK(s), NEW length \in Nat, NEW synchronized \in BOOLEAN,
         NEW o \in eaf_sendspin_player_write(s, length, synchronized)
  PROVE  Playing(s, o.w)
<1> DEFINE r == RateControl /\ synchronized
           p == [s.player EXCEPT !.resampling = r]
           u == SetPlayer(s, p)
<1>1. PlayerOK(s.player) /\ r \in BOOLEAN
  BY SendspinAssumption DEF StateOK
<1>2. u = [s EXCEPT !.player.resampling = r]
  BY DEF StateOK, SetPlayer
<1>3. /\ p.active = s.player.active /\ p.compressed = s.player.compressed /\ p.rate = s.player.rate
      /\ p.frames_written = s.player.frames_written /\ p.frames_dropped = s.player.frames_dropped
      /\ p.handed = s.player.handed /\ p.resampling = r
  BY <1>1 DEF PlayerOK
<1>4. PlayerOK(p)
  <2>1. p \in [active : BOOLEAN, compressed : BOOLEAN, rate : {s.player.rate},
               resampling : BOOLEAN, frames_written : Nat, frames_dropped : Nat, handed : Nat]
    BY <1>1, <1>3 DEF PlayerOK
  <2> HIDE DEF p
  <2> QED BY <1>3, <2>1 DEF PlayerOK
<1>5. StateOK(u) /\ FramesOK(u) /\ Playing(s, u)
  <2> HIDE DEF p
  <2> QED BY <1>3, <1>4, WithPlayer DEF FramesOK, Playing, Tallied
<1>6. CASE ~s.player.active
  BY <1>6, PlayingWhole DEF eaf_sendspin_player_write, Failed
<1>7. CASE s.player.active /\ s.player.compressed
  <2>1. o \in write_compressed(u, length)
    BY <1>2, <1>7 DEF eaf_sendspin_player_write
  <2> HIDE DEF u
  <2> QED BY <1>5, <2>1, WriteCompressedPlays, PlayingChain
<1>8. CASE s.player.active /\ ~s.player.compressed
  <2>1. PICK l \in QueueBlocks(u, length) : o \in Done(Skipped(l.s, l.left))
    BY <1>2, <1>8 DEF eaf_sendspin_player_write
  <2>0. ~u.player.compressed
    BY <1>5, <1>8 DEF Playing
  <2> HIDE DEF u
  <2>2. Playing(u, Skipped(l.s, l.left))
    <3>1. /\ l.left \in Nat /\ Counting(u, l.s)
          /\ l.left > 0 => l.s.player.frames_dropped > 0
      BY <1>5, QueueBlocksCount
    <3>2. StateOK(l.s) /\ ~l.s.player.compressed
      BY <2>0, <3>1 DEF Counting
    <3>3. Counting(u, Skipped(l.s, l.left))
      BY <3>1, <3>2, SkippedCounts, CountingChain
    <3> QED BY <1>5, <3>3, CountingPlays
  <2>3. o.w = Skipped(l.s, l.left)
    BY <2>1 DEF Done
  <2> QED BY <1>5, <2>2, <2>3, PlayingChain
<1> QED BY <1>1, <1>6, <1>7, <1>8 DEF PlayerOK

(* Nothing plays, and the rest is as it was. *)
Halted(s, t) ==
  /\ StateOK(t) /\ FramesOK(t) /\ ~t.player.active
  /\ t.client = s.client /\ t.rx = s.rx /\ t.board = s.board
  /\ t.net = s.net /\ t.owed = s.owed /\ t.misheard = s.misheard

LEMMA WorkerCloses ==
  ASSUME NEW s, StateOK(s)
  PROVE  LET t == eaf_decode_worker_close(s) IN
         /\ StateOK(t) /\ t.player = s.player /\ ~t.worker.open
         /\ t.worker.pending = 0 /\ t.worker.sent = 0
         /\ t.client = s.client /\ t.rx = s.rx /\ t.board = s.board
         /\ t.net = s.net /\ t.owed = s.owed /\ t.misheard = s.misheard
<1> DEFINE k == [s.worker EXCEPT !.open = FALSE, !.pending = 0, !.sent = 0]
<1>1. s.worker \in WorkerType /\ DecoderZero \in DecoderType
  BY DEF StateOK, WorkerType, DecoderZero, DecoderType
<1>2. eaf_decode_worker_close(s) = SetWorker(s, k, DecoderZero)
  BY <1>1 DEF eaf_decode_worker_close, SetWorker, StateOK, WorkerType
<1>3. k \in WorkerType /\ ~k.open /\ k.pending = 0 /\ k.sent = 0
  BY <1>1 DEF WorkerType
<1> HIDE DEF k
<1> QED BY <1>1, <1>2, <1>3, WithWorker

LEMMA FinishHalts ==
  ASSUME NEW s, StateOK(s), FramesOK(s)
  PROVE  Halted(s, eaf_sendspin_player_finish(s))
<1> DEFINE t == eaf_decode_worker_close(s)
           p == [t.player EXCEPT !.active = FALSE, !.compressed = FALSE]
<1>1. /\ StateOK(t) /\ t.player = s.player /\ ~t.worker.open
      /\ t.worker.pending = 0 /\ t.worker.sent = 0
      /\ t.client = s.client /\ t.rx = s.rx /\ t.board = s.board
      /\ t.net = s.net /\ t.owed = s.owed /\ t.misheard = s.misheard
  BY WorkerCloses
<1> HIDE DEF t
<1>2. PlayerOK(t.player)
  BY <1>1 DEF StateOK
<1>3. eaf_sendspin_player_finish(s) = SetPlayer(t, p)
  BY <1>1, <1>2 DEF eaf_sendspin_player_finish, SetPlayer, StateOK, PlayerOK, t
<1>4. /\ ~p.active /\ ~p.compressed /\ p.rate = t.player.rate
      /\ p.frames_written = t.player.frames_written /\ p.frames_dropped = t.player.frames_dropped
      /\ p.handed = t.player.handed /\ p.resampling = t.player.resampling
  BY <1>2 DEF PlayerOK
<1>5. PlayerOK(p)
  <2>1. p \in [active : BOOLEAN, compressed : BOOLEAN, rate : {t.player.rate},
               resampling : BOOLEAN, frames_written : Nat, frames_dropped : Nat, handed : Nat]
    BY <1>2, <1>4 DEF PlayerOK
  <2> HIDE DEF p
  <2> QED BY <1>4, <2>1 DEF PlayerOK
<1> HIDE DEF p
<1>6. Tallied(p)
  BY <1>1, <1>4 DEF FramesOK, Tallied
<1> QED BY <1>1, <1>3, <1>4, <1>5, <1>6, WithPlayer DEF Halted, FramesOK

(* A stream that plays, in the format of its start. *)
Sounding(s, t, start) ==
  /\ StateOK(t) /\ FramesOK(t) /\ t.player.active
  /\ t.client = s.client /\ t.rx = s.rx /\ t.board = s.board
  /\ t.net = s.net /\ t.owed = s.owed /\ t.misheard = s.misheard
  /\ t.player.rate = start.rate
  /\ t.player.compressed <=> start.codec # "pcm"
  /\ t.player.compressed <=> t.worker.open

(* It begins in the format of its start, or not at all. *)
LEMMA BeginSounds ==
  ASSUME NEW s, StateOK(s), FramesOK(s), ~s.player.active, NEW start,
         NEW o \in eaf_sendspin_player_begin(s, start)
  PROVE  /\ o.ok \in BOOLEAN
         /\ o.ok => Sounding(s, o.w, start)
         /\ ~o.ok => Halted(s, o.w)
<1> DEFINE t == eaf_decode_worker_close(s)
           p == [PlayerZero EXCEPT !.active = TRUE, !.rate = start.rate]
           begun == SetPlayer(t, p)
<1>1. /\ StateOK(t) /\ ~t.worker.open
      /\ t.worker.pending = 0 /\ t.worker.sent = 0
      /\ t.client = s.client /\ t.rx = s.rx /\ t.board = s.board
      /\ t.net = s.net /\ t.owed = s.owed /\ t.misheard = s.misheard
  BY WorkerCloses
<1>2. begun = [eaf_decode_worker_close(s) EXCEPT
                 !.player = [PlayerZero EXCEPT !.active = TRUE, !.rate = start.rate]]
  BY DEF SetPlayer
<1>3. /\ p.active /\ ~p.compressed /\ p.rate = start.rate
      /\ p.frames_written = 0 /\ p.frames_dropped = 0 /\ p.handed = 0
      /\ PlayerOK(p)
  BY DEF PlayerZero, PlayerOK
<1>4. /\ StateOK(begun) /\ begun.player = p /\ begun.worker = t.worker
      /\ begun.client = s.client /\ begun.rx = s.rx /\ begun.board = s.board
      /\ begun.net = s.net /\ begun.owed = s.owed /\ begun.misheard = s.misheard
  <2> HIDE DEF p, t
  <2> QED BY <1>1, <1>3, WithPlayer
<1> HIDE DEF p, t
<1>5. CASE ~Playable(start)
  <2>1. o = [ok |-> FALSE, w |-> s]
    BY <1>5 DEF eaf_sendspin_player_begin, Failed
  <2> QED BY <2>1 DEF Halted
<1>6. CASE Playable(start) /\ start.codec = "pcm"
  <2>1. o = [ok |-> TRUE, w |-> begun]
    BY <1>2, <1>6 DEF eaf_sendspin_player_begin, Done
  <2> HIDE DEF begun
  <2>2. Sounding(s, begun, start)
    BY <1>1, <1>3, <1>4, <1>6 DEF Sounding, FramesOK, Tallied
  <2> QED BY <2>1, <2>2
<1>7. CASE Playable(start) /\ start.codec # "pcm"
  <2>1. PICK q \in eaf_decode_worker_open(begun) :
          o = IF q.ok THEN [q EXCEPT !.w.player.compressed = TRUE]
              ELSE [q EXCEPT !.w.player.active = FALSE]
    BY <1>2, <1>7 DEF eaf_sendspin_player_begin
  <2> HIDE DEF begun
  <2> DEFINE k == [WorkerZero EXCEPT !.open = TRUE]
             v == SetWorker(begun, k, DecoderZero)
             on == [p EXCEPT !.compressed = TRUE]
             off == [p EXCEPT !.active = FALSE]
  <2>2. k \in WorkerType /\ DecoderZero \in DecoderType /\ k.open /\ k.pending = 0 /\ k.sent = 0
    BY DEF WorkerZero, DecoderZero, WorkerType, DecoderType
  <2>3. /\ StateOK(v) /\ v.worker = k /\ v.player = p
        /\ v.client = s.client /\ v.rx = s.rx /\ v.board = s.board
        /\ v.net = s.net /\ v.owed = s.owed /\ v.misheard = s.misheard
    <3> HIDE DEF k
    <3> QED BY <1>4, <2>2, WithWorker
  <2>4. q = [ok |-> FALSE, w |-> begun] \/ q = [ok |-> TRUE, w |-> v]
    BY DEF eaf_decode_worker_open, Failed, Done, SetWorker
  <2>5. /\ PlayerOK(on) /\ on.active /\ on.compressed /\ on.rate = start.rate
        /\ on.frames_written = 0 /\ on.frames_dropped = 0 /\ on.handed = 0
        /\ PlayerOK(off) /\ ~off.active
        /\ off.frames_written = 0 /\ off.frames_dropped = 0 /\ off.handed = 0
    BY DEF p, PlayerZero, PlayerOK
  <2> HIDE DEF k, v, on, off
  <2>6. CASE q = [ok |-> TRUE, w |-> v]
    <3>1. o = [ok |-> TRUE, w |-> SetPlayer(v, on)]
      BY <2>1, <2>3, <2>6 DEF SetPlayer, on, StateOK
    <3>2. Sounding(s, SetPlayer(v, on), start)
      BY <1>7, <2>2, <2>3, <2>5, WithPlayer DEF Sounding, FramesOK, Tallied
    <3> QED BY <3>1, <3>2
  <2>7. CASE q = [ok |-> FALSE, w |-> begun]
    <3>1. o = [ok |-> FALSE, w |-> SetPlayer(begun, off)]
      BY <2>1, <1>4, <2>7 DEF SetPlayer, off, StateOK
    <3>2. Halted(s, SetPlayer(begun, off))
      BY <1>1, <1>4, <2>5, WithPlayer DEF Halted, FramesOK, Tallied
    <3> QED BY <3>1, <3>2
  <2> QED BY <2>4, <2>6, <2>7
<1> QED BY <1>5, <1>6, <1>7

----------------------------------------------------------------------------
(* Sequences of anything. *)

LEMMA SeqIs ==
  ASSUME NEW S, NEW x \in Seq(S)
  PROVE  IsSeq(x)
<1> DEFINE T == {x[i] : i \in DOMAIN x}
<1>1. Len(x) \in Nat /\ DOMAIN x = 1 .. Len(x) /\ x = [i \in 1 .. Len(x) |-> x[i]]
  OBVIOUS
<1>2. \A i \in 1 .. Len(x) : x[i] \in T
  BY <1>1
<1> HIDE DEF T
<1>3. x \in [1 .. Len(x) -> T]
  BY <1>1, <1>2
<1>4. x \in Seq(T)
  BY <1>1, <1>3
<1> QED BY <1>4 DEF IsSeq, T

LEMMA SeqHas ==
  ASSUME NEW x, IsSeq(x)
  PROVE  Len(x) \in Nat /\ DOMAIN x = 1 .. Len(x)
<1> DEFINE T == {x[i] : i \in DOMAIN x}
<1>1. x \in Seq(T)
  BY DEF IsSeq
<1> HIDE DEF T
<1> QED BY <1>1

LEMMA SeqIn ==
  ASSUME NEW x, IsSeq(x), NEW S, \A i \in 1 .. Len(x) : x[i] \in S
  PROVE  x \in Seq(S)
<1> DEFINE T == {x[i] : i \in DOMAIN x}
<1>1. x \in Seq(T)
  BY DEF IsSeq
<1> HIDE DEF T
<1>2. Len(x) \in Nat /\ x \in [1 .. Len(x) -> S]
  BY <1>1
<1> QED BY <1>2

LEMMA SeqCat ==
  ASSUME NEW x, IsSeq(x), NEW y, IsSeq(y)
  PROVE  /\ IsSeq(x \o y) /\ Len(x \o y) = Len(x) + Len(y)
         /\ \A i \in 1 .. Len(x) + Len(y) :
              (x \o y)[i] = IF i <= Len(x) THEN x[i] ELSE y[i - Len(x)]
<1> DEFINE T == {x[i] : i \in DOMAIN x} \cup {y[i] : i \in DOMAIN y}
<1>1. x \in Seq(T) /\ y \in Seq(T)
  <2>1. /\ \A i \in 1 .. Len(x) : x[i] \in T
        /\ \A i \in 1 .. Len(y) : y[i] \in T
    BY SeqHas
  <2> HIDE DEF T
  <2> QED BY <2>1, SeqIn
<1> HIDE DEF T
<1>2. x \o y \in Seq(T) /\ Len(x \o y) = Len(x) + Len(y)
  BY <1>1
<1>3. \A i \in 1 .. Len(x) + Len(y) :
        (x \o y)[i] = IF i <= Len(x) THEN x[i] ELSE y[i - Len(x)]
  BY <1>1
<1> QED BY <1>2, <1>3, SeqIs

LEMMA SeqPart ==
  ASSUME NEW x, IsSeq(x), NEW a \in Nat, a >= 1, NEW b \in Nat, b <= Len(x)
  PROVE  LET n == IF a <= b THEN b - a + 1 ELSE 0 IN
         /\ IsSeq(SubSeq(x, a, b)) /\ Len(SubSeq(x, a, b)) = n
         /\ \A i \in 1 .. n : SubSeq(x, a, b)[i] = x[a + i - 1]
<1> DEFINE T == {x[i] : i \in DOMAIN x}
<1>1. x \in Seq(T)
  BY DEF IsSeq
<1>4. Len(x) \in Nat
  BY SeqHas
<1> HIDE DEF T
<1>2. SubSeq(x, a, b) \in Seq(T)
  BY <1>1, <1>4
<1>3. LET n == IF a <= b THEN b - a + 1 ELSE 0 IN
      /\ Len(SubSeq(x, a, b)) = n
      /\ \A i \in 1 .. n : SubSeq(x, a, b)[i] = x[a + i - 1]
  BY <1>1, <1>4
<1> QED BY <1>2, <1>3, SeqIs

LEMMA UnitsPart ==
  ASSUME NEW x, Units(x), NEW a \in Nat, a >= 1, NEW b \in Nat, b <= Len(x)
  PROVE  Units(SubSeq(x, a, b))
<1> DEFINE y == SubSeq(x, a, b)
           n == IF a <= b THEN b - a + 1 ELSE 0
<1>0. IsSeq(x) /\ Len(x) \in Nat /\ DOMAIN x = 1 .. Len(x)
  BY SeqHas DEF Units
<1>1. IsSeq(y) /\ Len(y) = n /\ \A i \in 1 .. n : y[i] = x[a + i - 1]
  BY <1>0, SeqPart
<1>2. DOMAIN y = 1 .. n
  BY <1>1, SeqHas
<1> HIDE DEF y
<1>3. \A i \in DOMAIN y : \E j \in DOMAIN x : y[i] = x[j]
  <2> SUFFICES ASSUME NEW i \in 1 .. n PROVE a + i - 1 \in DOMAIN x /\ y[i] = x[a + i - 1]
    BY <1>2
  <2>1. a + i - 1 \in 1 .. Len(x)
    BY <1>0
  <2> QED BY <2>1, <1>0, <1>1
<1> QED BY <1>1, <1>3 DEF Units, y

LEMMA UnitsCat ==
  ASSUME NEW x, Units(x), NEW y, Units(y)
  PROVE  Units(x \o y)
<1> DEFINE z == x \o y
<1>0. /\ IsSeq(x) /\ Len(x) \in Nat /\ DOMAIN x = 1 .. Len(x)
      /\ IsSeq(y) /\ Len(y) \in Nat /\ DOMAIN y = 1 .. Len(y)
  BY SeqHas DEF Units
<1>1. /\ IsSeq(z) /\ Len(z) = Len(x) + Len(y)
      /\ \A i \in 1 .. Len(x) + Len(y) : z[i] = IF i <= Len(x) THEN x[i] ELSE y[i - Len(x)]
  BY <1>0, SeqCat
<1>2. DOMAIN z = 1 .. Len(x) + Len(y)
  BY <1>1, SeqHas
<1> HIDE DEF z
<1>3. \A i \in DOMAIN z : (\E j \in DOMAIN x : z[i] = x[j]) \/ (\E j \in DOMAIN y : z[i] = y[j])
  <2> SUFFICES ASSUME NEW i \in 1 .. Len(x) + Len(y)
               PROVE  (\E j \in DOMAIN x : z[i] = x[j]) \/ (\E j \in DOMAIN y : z[i] = y[j])
    BY <1>2
  <2>1. i <= Len(x) => i \in DOMAIN x
    BY <1>0
  <2>2. ~(i <= Len(x)) => i - Len(x) \in DOMAIN y
    BY <1>0
  <2> QED BY <1>1, <2>1, <2>2
<1> QED BY <1>1, <1>3 DEF Units, z

----------------------------------------------------------------------------
(* The wire: what is still to be sent. *)

Unflushed(w, o) == SubSeq(w, o + 1, Len(w))

LEMMA SeqSame ==
  ASSUME NEW S, NEW x \in Seq(S), NEW y \in Seq(S), Len(x) = Len(y),
         \A i \in 1 .. Len(x) : x[i] = y[i]
  PROVE  x = y
OBVIOUS

LEMMA UnflushedIs ==
  ASSUME NEW S, NEW w \in Seq(S), NEW o \in Nat, o <= Len(w)
  PROVE  /\ Unflushed(w, o) \in Seq(S) /\ Len(Unflushed(w, o)) = Len(w) - o
         /\ \A i \in 1 .. Len(w) - o : Unflushed(w, o)[i] = w[o + i]
BY DEF Unflushed

LEMMA UnflushedMore ==
  ASSUME NEW S, NEW w \in Seq(S), NEW o \in Nat, o <= Len(w), NEW e \in Seq(S)
  PROVE  Unflushed(w \o e, o) = Unflushed(w, o) \o e
<1> DEFINE x == Unflushed(w \o e, o)
           y == Unflushed(w, o) \o e
<1>1. /\ w \o e \in Seq(S) /\ Len(w \o e) = Len(w) + Len(e) /\ Len(w) \in Nat /\ Len(e) \in Nat
      /\ \A i \in 1 .. Len(w) + Len(e) : (w \o e)[i] = IF i <= Len(w) THEN w[i] ELSE e[i - Len(w)]
  OBVIOUS
<1>2. /\ x \in Seq(S) /\ Len(x) = Len(w) + Len(e) - o
      /\ \A i \in 1 .. Len(w) + Len(e) - o : x[i] = (w \o e)[o + i]
  <2> DEFINE v == w \o e
  <2>1. v \in Seq(S) /\ Len(v) = Len(w) + Len(e) /\ o <= Len(v)
    BY <1>1
  <2> HIDE DEF v
  <2>2. /\ Unflushed(v, o) \in Seq(S) /\ Len(Unflushed(v, o)) = Len(v) - o
        /\ \A i \in 1 .. Len(v) - o : Unflushed(v, o)[i] = v[o + i]
    BY <2>1, UnflushedIs
  <2> QED BY <2>1, <2>2 DEF v
<1>3. /\ Unflushed(w, o) \in Seq(S) /\ Len(Unflushed(w, o)) = Len(w) - o
      /\ \A i \in 1 .. Len(w) - o : Unflushed(w, o)[i] = w[o + i]
  BY UnflushedIs
<1>4. /\ y \in Seq(S) /\ Len(y) = Len(w) - o + Len(e)
      /\ \A i \in 1 .. Len(w) - o + Len(e) :
           y[i] = IF i <= Len(w) - o THEN Unflushed(w, o)[i] ELSE e[i - (Len(w) - o)]
  <2> DEFINE v == Unflushed(w, o)
  <2>1. v \in Seq(S) /\ Len(v) = Len(w) - o
    BY <1>3
  <2> HIDE DEF v
  <2>2. /\ v \o e \in Seq(S) /\ Len(v \o e) = Len(v) + Len(e)
        /\ \A i \in 1 .. Len(v) + Len(e) :
             (v \o e)[i] = IF i <= Len(v) THEN v[i] ELSE e[i - Len(v)]
    <3>1. IsSeq(v) /\ IsSeq(e)
      BY <2>1, SeqIs
    <3>2. v \o e \in Seq(S)
      BY <2>1
    <3>3. /\ Len(v \o e) = Len(v) + Len(e)
          /\ \A i \in 1 .. Len(v) + Len(e) :
               (v \o e)[i] = IF i <= Len(v) THEN v[i] ELSE e[i - Len(v)]
      BY <3>1, SeqCat, Zenon
    <3> QED BY <3>2, <3>3, Zenon
  <2> QED BY <2>1, <2>2 DEF v
<1>5. \A i \in 1 .. Len(w) + Len(e) - o : x[i] = y[i]
  <2> SUFFICES ASSUME NEW i \in 1 .. Len(w) + Len(e) - o PROVE x[i] = y[i]
    OBVIOUS
  <2> HIDE DEF x, y
  <2>1. /\ i \in 1 .. Len(w) - o + Len(e) /\ o + i \in 1 .. Len(w) + Len(e)
        /\ i <= Len(w) - o => i \in 1 .. Len(w) - o
        /\ i <= Len(w) - o <=> o + i <= Len(w)
        /\ i - (Len(w) - o) = o + i - Len(w)
    BY <1>1
  <2>2. x[i] = IF o + i <= Len(w) THEN w[o + i] ELSE e[o + i - Len(w)]
    BY <1>1, <1>2, <2>1
  <2>3. y[i] = IF o + i <= Len(w) THEN w[o + i] ELSE e[o + i - Len(w)]
    BY <1>3, <1>4, <2>1
  <2> QED BY <2>2, <2>3
<1>6. Len(x) = Len(y)
  BY <1>1, <1>2, <1>4
<1> HIDE DEF x, y
<1>7. x = y
  BY <1>1, <1>2, <1>4, <1>5, <1>6
<1> QED BY <1>7 DEF x, y

LEMMA UnflushedLess ==
  ASSUME NEW S, NEW w \in Seq(S), NEW o \in Nat, NEW n \in Nat, o + n <= Len(w)
  PROVE  /\ SubSeq(w, o + 1, o + n) \in Seq(S) /\ Len(SubSeq(w, o + 1, o + n)) = n
         /\ IsPrefix(SubSeq(w, o + 1, o + n), Unflushed(w, o))
         /\ SubSeq(Unflushed(w, o), n + 1, Len(Unflushed(w, o))) = Unflushed(w, o + n)
<1> DEFINE u == Unflushed(w, o)
           a == SubSeq(w, o + 1, o + n)
           b == SubSeq(u, n + 1, Len(u))
           c == Unflushed(w, o + n)
           p == SubSeq(u, 1, n)
<1>0. Len(w) \in Nat /\ o <= Len(w) /\ o + n \in Nat
  OBVIOUS
<1>1. u \in Seq(S) /\ Len(u) = Len(w) - o /\ \A i \in 1 .. Len(w) - o : u[i] = w[o + i]
  BY <1>0, UnflushedIs
<1>2. c \in Seq(S) /\ Len(c) = Len(w) - (o + n) /\ \A i \in 1 .. Len(w) - (o + n) : c[i] = w[o + n + i]
  BY <1>0, UnflushedIs
<1>3. a \in Seq(S) /\ Len(a) = n /\ \A i \in 1 .. n : a[i] = w[o + i]
  BY <1>0
<1> HIDE DEF u, c, a
<1>4. b \in Seq(S) /\ Len(b) = Len(w) - (o + n) /\ \A i \in 1 .. Len(w) - (o + n) : b[i] = u[n + i]
  BY <1>0, <1>1
<1>5. p \in Seq(S) /\ Len(p) = n /\ \A i \in 1 .. n : p[i] = u[i]
  BY <1>0, <1>1
<1> HIDE DEF b, p
<1>6. \A i \in 1 .. Len(w) - (o + n) : b[i] = c[i]
  <2> SUFFICES ASSUME NEW i \in 1 .. Len(w) - (o + n) PROVE b[i] = c[i]
    OBVIOUS
  <2>1. n + i \in 1 .. Len(w) - o /\ o + (n + i) = o + n + i
    BY <1>0
  <2> QED BY <1>1, <1>2, <1>4, <2>1
<1>7. b = c
  BY <1>2, <1>4, <1>6, SeqSame
<1>8. \A i \in 1 .. n : a[i] = p[i]
  <2> SUFFICES ASSUME NEW i \in 1 .. n PROVE a[i] = p[i]
    OBVIOUS
  <2>1. i \in 1 .. Len(w) - o
    BY <1>0
  <2> QED BY <1>1, <1>3, <1>5, <2>1
<1>9. a = p
  BY <1>3, <1>5, <1>8
<1>10. Len(a) <= Len(u) /\ SubSeq(a, 1, Len(a)) = a
  BY <1>0, <1>1, <1>3
<1>11. IsPrefix(a, u)
  BY <1>3, <1>9, <1>10 DEF IsPrefix, p
<1> QED BY <1>3, <1>7, <1>11 DEF a, b, c, u

----------------------------------------------------------------------------
(* The records of the state, field by field. *)

Put(s, c, r, b, n, o, m) ==
  [s EXCEPT !.client = c, !.rx = r, !.board = b, !.net = n, !.owed = o, !.misheard = m]

LEMMA PutIs ==
  ASSUME NEW s, StateOK(s), NEW c, ClientOK(c), NEW r, RxOK(r), NEW b, BoardOK(b),
         NEW n, NetOK(n), NEW o, NEW m
  PROVE  LET t == Put(s, c, r, b, n, o, m) IN
         /\ StateOK(t) /\ t.client = c /\ t.rx = r /\ t.board = b /\ t.net = n
         /\ t.owed = o /\ t.misheard = m
         /\ t.player = s.player /\ t.worker = s.worker /\ t.dec = s.dec
<1> DEFINE t == Put(s, c, r, b, n, o, m)
<1>1. /\ t.client = c /\ t.rx = r /\ t.board = b /\ t.net = n
      /\ t.owed = o /\ t.misheard = m
      /\ t.player = s.player /\ t.worker = s.worker /\ t.dec = s.dec
  BY DEF StateOK, Put
<1>2. t \in [client : {c}, rx : {r}, board : {b}, player : {s.player},
             worker : {s.worker}, dec : {s.dec}, net : {n}, owed : {o}, misheard : {m}]
  BY <1>1 DEF StateOK, Put
<1> HIDE DEF t
<1>3. StateOK(t)
  BY <1>1, <1>2 DEF StateOK
<1> QED BY <1>1, <1>3 DEF t

Parts(s) == ClientOK(s.client) /\ RxOK(s.rx) /\ BoardOK(s.board) /\ PlayerOK(s.player) /\ NetOK(s.net)

LEMMA PartsOK ==
  ASSUME NEW s, StateOK(s)
  PROVE  Parts(s)
BY DEF StateOK, Parts

OutType(out) == out \in [running : BOOLEAN, rate : {out.rate}, failed : BOOLEAN]

BoardOf(h, cur, level, muted, gain, out) ==
  [have_stream |-> h, current |-> cur, level |-> level, muted |-> muted, gain |-> gain, out |-> out]

LEMMA BoardIs ==
  ASSUME NEW h \in BOOLEAN, NEW cur, NEW level, NEW muted, NEW gain, NEW out, OutType(out)
  PROVE  LET b == BoardOf(h, cur, level, muted, gain, out) IN
         /\ BoardOK(b) /\ b.have_stream = h /\ b.current = cur /\ b.level = level
         /\ b.muted = muted /\ b.gain = gain /\ b.out = out
BY DEF BoardOf, BoardOK, OutType

LEMMA BoardHas ==
  ASSUME NEW b, BoardOK(b)
  PROVE  /\ b = BoardOf(b.have_stream, b.current, b.level, b.muted, b.gain, b.out)
         /\ b.have_stream \in BOOLEAN /\ OutType(b.out)
         /\ b.out.running \in BOOLEAN /\ b.out.failed \in BOOLEAN
BY DEF BoardOf, BoardOK, OutType

ClientOf(state, shaken, notified, active, stream, sync, delay, wire, offset, http) ==
  [state |-> state, handshaken |-> shaken, notified |-> notified, stream_active |-> active,
   stream |-> stream, synchronized |-> sync, delay |-> delay, wire |-> wire, offset |-> offset,
   http |-> http]

LEMMA ClientIs ==
  ASSUME NEW state \in {"closed", "http", "ws"}, NEW shaken \in BOOLEAN, NEW notified \in BOOLEAN,
         NEW active \in BOOLEAN, NEW stream, NEW sync \in BOOLEAN, NEW delay,
         NEW wire \in Seq(WireUnit), NEW offset \in Nat, NEW http \in Nat, offset <= Len(wire)
  PROVE  LET c == ClientOf(state, shaken, notified, active, stream, sync, delay, wire, offset, http) IN
         /\ ClientOK(c) /\ c.state = state /\ c.handshaken = shaken /\ c.notified = notified
         /\ c.stream_active = active /\ c.stream = stream /\ c.synchronized = sync
         /\ c.delay = delay /\ c.wire = wire /\ c.offset = offset /\ c.http = http
BY DEF ClientOf, ClientOK

LEMMA ClientHas ==
  ASSUME NEW c, ClientOK(c)
  PROVE  /\ c = ClientOf(c.state, c.handshaken, c.notified, c.stream_active, c.stream, c.synchronized,
                         c.delay, c.wire, c.offset, c.http)
         /\ c.state \in {"closed", "http", "ws"} /\ c.handshaken \in BOOLEAN /\ c.notified \in BOOLEAN
         /\ c.stream_active \in BOOLEAN /\ c.synchronized \in BOOLEAN
         /\ c.wire \in Seq(WireUnit) /\ c.offset \in Nat /\ c.offset <= Len(c.wire)
         /\ c.http \in Nat
BY DEF ClientOf, ClientOK

NetOf(inbox, stage, due, torn, asked, streaming, closed) ==
  [inbox |-> inbox, stage |-> stage, due |-> due, torn |-> torn, asked |-> asked,
   streaming |-> streaming, closed |-> closed]

LEMMA NetIs ==
  ASSUME NEW inbox, Units(inbox), NEW stage, NEW due \in Seq(WireUnit), NEW torn \in BOOLEAN,
         NEW asked, NEW streaming, NEW closed
  PROVE  LET n == NetOf(inbox, stage, due, torn, asked, streaming, closed) IN
         /\ NetOK(n) /\ n.inbox = inbox /\ n.stage = stage /\ n.due = due /\ n.torn = torn
         /\ n.asked = asked /\ n.streaming = streaming /\ n.closed = closed
BY DEF NetOf, NetOK

LEMMA NetHas ==
  ASSUME NEW n, NetOK(n)
  PROVE  /\ n = NetOf(n.inbox, n.stage, n.due, n.torn, n.asked, n.streaming, n.closed)
         /\ Units(n.inbox) /\ n.due \in Seq(WireUnit) /\ n.torn \in BOOLEAN
BY DEF NetOf, NetOK

----------------------------------------------------------------------------
(* main.c: the callbacks. *)

(* What holds while the output is being changed. *)
Sound(s) == StateOK(s) /\ WireOK(s) /\ FramesOK(s)

LEMMA VolumeKeeps ==
  ASSUME NEW s, Kept(s)
  PROVE  Kept(apply_volume(s)) /\ apply_volume(s).client = s.client
<1> DEFINE g == IF s.board.muted THEN 0 ELSE s.board.level
           b == BoardOf(s.board.have_stream, s.board.current, s.board.level, s.board.muted, g,
                        s.board.out)
<1>1. StateOK(s) /\ Parts(s)
  BY PartsOK DEF Kept
<1>2. s.board = BoardOf(s.board.have_stream, s.board.current, s.board.level, s.board.muted,
                        s.board.gain, s.board.out)
  BY <1>1, BoardHas DEF Parts
<1>3. BoardOK(b) /\ b.have_stream = s.board.have_stream /\ b.current = s.board.current
      /\ b.out = s.board.out
  <2> HIDE DEF g
  <2>1. s.board.have_stream \in BOOLEAN /\ OutType(s.board.out)
    BY <1>1, BoardHas DEF Parts
  <2> QED BY <2>1, BoardIs
<1>4. [s.board EXCEPT !.gain = g] = b
  <2> HIDE DEF g
  <2> QED BY <1>2 DEF BoardOf
<1>5. apply_volume(s) = Put(s, s.client, s.rx, b, s.net, s.owed, s.misheard)
  <2>1. apply_volume(s) = [s EXCEPT !.board = [s.board EXCEPT !.gain = g]]
    BY <1>1 DEF apply_volume
  <2> HIDE DEF b, g
  <2> QED BY <1>1, <1>4, <2>1 DEF Put, StateOK
<1> HIDE DEF b
<1>6. LET t == apply_volume(s) IN
      /\ StateOK(t) /\ t.client = s.client /\ t.board = b /\ t.net = s.net
      /\ t.player = s.player /\ t.worker = s.worker
  BY <1>1, <1>3, <1>5, PutIs DEF Parts
<1> QED BY <1>3, <1>6 DEF Kept, WireOK, AudioOK, FramesOK

(* The board with another output, or another answer to have_stream. *)
SetBoard(s, h, cur, out) ==
  Put(s, s.client, s.rx, BoardOf(h, cur, s.board.level, s.board.muted, s.board.gain, out), s.net,
      s.owed, s.misheard)

LEMMA SetBoardIs ==
  ASSUME NEW s, StateOK(s), NEW h \in BOOLEAN, NEW cur, NEW out, OutType(out)
  PROVE  LET t == SetBoard(s, h, cur, out) IN
         /\ StateOK(t) /\ t.client = s.client /\ t.rx = s.rx /\ t.net = s.net
         /\ t.owed = s.owed /\ t.misheard = s.misheard
         /\ t.player = s.player /\ t.worker = s.worker /\ t.dec = s.dec
         /\ t.board.have_stream = h /\ t.board.current = cur /\ t.board.out = out
         /\ t.board.level = s.board.level /\ t.board.muted = s.board.muted
         /\ t.board.gain = s.board.gain
<1> DEFINE b == BoardOf(h, cur, s.board.level, s.board.muted, s.board.gain, out)
<1>1. /\ BoardOK(b) /\ b.have_stream = h /\ b.current = cur /\ b.out = out
      /\ b.level = s.board.level /\ b.muted = s.board.muted /\ b.gain = s.board.gain
  BY BoardIs
<1> HIDE DEF b
<1>2. Parts(s)
  BY PartsOK
<1> QED BY <1>1, <1>2, PutIs DEF SetBoard, Parts, b

Changed(s, t) == Sound(t) /\ t.client = s.client /\ ~t.player.active

SetHave(s, h) == [s EXCEPT !.board.have_stream = h]
SetOut(s, out) == [s EXCEPT !.board.out = out]

LEMMA SetHaveIs ==
  ASSUME NEW s, StateOK(s), NEW h
  PROVE  SetHave(s, h) = SetBoard(s, h, s.board.current, s.board.out)
<1>0. BoardOK(s.board)
  BY PartsOK DEF Parts
<1> DEFINE b == [s.board EXCEPT !.have_stream = h]
<1>1. b = BoardOf(h, s.board.current, s.board.level, s.board.muted, s.board.gain, s.board.out)
  BY <1>0 DEF BoardOf, BoardOK
<1>2. SetHave(s, h) = [s EXCEPT !.board = b]
  BY DEF SetHave, StateOK
<1> HIDE DEF b
<1>3. [s EXCEPT !.board = b] = Put(s, s.client, s.rx, b, s.net, s.owed, s.misheard)
  BY DEF Put, StateOK
<1> QED BY <1>1, <1>2, <1>3 DEF SetBoard

LEMMA SetOutIs ==
  ASSUME NEW s, StateOK(s), NEW out
  PROVE  SetOut(s, out) = SetBoard(s, s.board.have_stream, s.board.current, out)
<1>0. BoardOK(s.board)
  BY PartsOK DEF Parts
<1> DEFINE b == [s.board EXCEPT !.out = out]
<1>1. b = BoardOf(s.board.have_stream, s.board.current, s.board.level, s.board.muted, s.board.gain, out)
  BY <1>0 DEF BoardOf, BoardOK
<1>2. SetOut(s, out) = [s EXCEPT !.board = b]
  BY DEF SetOut, StateOK
<1> HIDE DEF b
<1>3. [s EXCEPT !.board = b] = Put(s, s.client, s.rx, b, s.net, s.owed, s.misheard)
  BY DEF Put, StateOK
<1> QED BY <1>1, <1>2, <1>3 DEF SetBoard

LEMMA HaveIs ==
  ASSUME NEW s, Sound(s), NEW h \in BOOLEAN
  PROVE  LET t == SetHave(s, h) IN
         /\ Sound(t)
         /\ t.client = s.client /\ t.player = s.player /\ t.worker = s.worker
         /\ t.board.have_stream = h /\ t.board.current = s.board.current
         /\ t.board.out = s.board.out
<1>0. StateOK(s) /\ BoardOK(s.board)
  BY PartsOK DEF Sound, Parts
<1>1. OutType(s.board.out)
  BY <1>0, BoardHas
<1>2. SetHave(s, h) = SetBoard(s, h, s.board.current, s.board.out)
  BY <1>0, SetHaveIs
<1> QED BY <1>0, <1>1, <1>2, SetBoardIs DEF Sound, WireOK, FramesOK

LEMMA ReplaceChanges ==
  ASSUME NEW s, Sound(s), ~s.player.active, NEW rate, NEW o \in OutputReplace(s, rate)
  PROVE  /\ Changed(s, o.w) /\ o.w.board.current = s.board.current
         /\ o.ok => o.w.board.out.rate = rate
<1> DEFINE Out(out) == SetBoard(s, s.board.have_stream, s.board.current, out)
           bad == [Silence EXCEPT !.failed = TRUE]
           on == [running |-> TRUE, rate |-> rate, failed |-> FALSE]
<1>0. StateOK(s) /\ BoardOK(s.board)
  BY PartsOK DEF Sound, Parts
<1>1. ASSUME NEW out, OutType(out)
      PROVE  /\ Changed(s, Out(out)) /\ Out(out).board.current = s.board.current
             /\ Out(out).board.out = out
  <2>1. s.board.have_stream \in BOOLEAN
    BY <1>0, BoardHas
  <2> QED BY <1>0, <1>1, <2>1, SetBoardIs DEF Changed, Sound, WireOK, FramesOK
<1>2. OutType(Silence) /\ OutType(bad) /\ OutType(on) /\ on.rate = rate
  BY DEF OutType, Silence
<1>3. /\ [s EXCEPT !.board.out = Silence] = Out(Silence)
      /\ [s EXCEPT !.board.out = bad] = Out(bad)
      /\ [s EXCEPT !.board.out = on] = Out(on)
  <2> HIDE DEF bad, on
  <2> QED BY <1>0, SetOutIs DEF SetOut
<1>4. CASE o = [ok |-> FALSE, w |-> s]
  BY <1>4 DEF Changed
<1> HIDE DEF Out, bad, on
<1>5. CASE o = [ok |-> FALSE, w |-> Out(Silence)]
  BY <1>1, <1>2, <1>5
<1>6. CASE o = [ok |-> FALSE, w |-> Out(bad)]
  BY <1>1, <1>2, <1>6
<1>7. CASE o = [ok |-> TRUE, w |-> Out(on)]
  BY <1>1, <1>2, <1>7
<1>8. \/ o = [ok |-> FALSE, w |-> s] \/ o = [ok |-> FALSE, w |-> Out(Silence)]
      \/ o = [ok |-> FALSE, w |-> Out(bad)] \/ o = [ok |-> TRUE, w |-> Out(on)]
  BY <1>3 DEF OutputReplace, Failed, Done, bad, on
<1> QED BY <1>4, <1>5, <1>6, <1>7, <1>8

LEMMA StartOutputKeeps ==
  ASSUME NEW s, Sound(s), NEW start, s.board.current = start, NEW t \in start_output(s, start)
  PROVE  Kept(t) /\ t.client = s.client
<1> DEFINE f == eaf_sendspin_player_finish(s)
           g == SetHave(f, FALSE)
           Begin(u) == eaf_sendspin_player_begin(u, start)
<1>1. Halted(s, f) /\ Sound(f)
  BY FinishHalts DEF Sound, Halted, WireOK
<1>2. Sound(g) /\ g.client = s.client /\ ~g.player.active /\ g.board.current = start
  <2> HIDE DEF f
  <2>1. /\ Sound(SetHave(f, FALSE)) /\ SetHave(f, FALSE).client = f.client
        /\ SetHave(f, FALSE).player = f.player
        /\ SetHave(f, FALSE).board.current = f.board.current
    BY <1>1, HaveIs, Zenon
  <2> QED BY <1>1, <2>1 DEF Halted
<1>3. PICK o \in Then(OutputReplace(g, start.rate), Begin) :
        t = IF o.ok THEN apply_volume(SetHave(o.w, TRUE)) ELSE o.w
  BY DEF start_output, SetHave
<1> HIDE DEF f, g
<1>4. \A q \in OutputReplace(g, start.rate) :
        /\ Changed(s, q.w) /\ q.w.board.current = start
        /\ q.ok => q.w.board.out.rate = start.rate
  BY <1>2, ReplaceChanges DEF Changed
<1>5. CASE o \in OutputReplace(g, start.rate) /\ ~o.ok
  <2>1. Changed(s, o.w) /\ t = o.w
    BY <1>3, <1>4, <1>5
  <2> QED BY <2>1 DEF Changed, Sound, Kept, AudioOK
<1>6. CASE \E q \in OutputReplace(g, start.rate) : q.ok /\ o \in Begin(q.w)
  <2>1. PICK q \in OutputReplace(g, start.rate) : q.ok /\ o \in Begin(q.w)
    BY <1>6
  <2>2. /\ Changed(s, q.w) /\ q.w.board.current = start /\ q.w.board.out.rate = start.rate
    BY <1>4, <2>1
  <2>3. (o.ok => Sounding(q.w, o.w, start)) /\ (~o.ok => Halted(q.w, o.w))
    BY <2>1, <2>2, BeginSounds DEF Changed, Sound
  <2>4. CASE ~o.ok
    <3>1. t = o.w /\ Halted(q.w, o.w)
      BY <1>3, <2>3, <2>4
    <3> QED BY <2>2, <3>1 DEF Changed, Halted, Sound, Kept, WireOK, AudioOK
  <2>5. CASE o.ok
    <3> DEFINE v == SetHave(o.w, TRUE)
    <3>1. Sounding(q.w, o.w, start) /\ Sound(o.w) /\ o.w.client = s.client
      BY <2>2, <2>3, <2>5 DEF Sounding, Sound, Changed, WireOK
    <3>2. /\ Sound(v)
          /\ v.client = s.client /\ v.player = o.w.player /\ v.worker = o.w.worker
          /\ v.board.have_stream /\ v.board.current = start /\ v.board.out.rate = start.rate
      <4>1. /\ Sound(v)
            /\ v.client = o.w.client /\ v.player = o.w.player /\ v.worker = o.w.worker
            /\ v.board.have_stream = TRUE /\ v.board.current = o.w.board.current
            /\ v.board.out = o.w.board.out
        BY <3>1, HaveIs, Zenon
      <4> HIDE DEF v
      <4> QED BY <2>2, <3>1, <4>1 DEF Sounding
    <3>3. t = apply_volume(v)
      BY <1>3, <2>5
    <3> HIDE DEF v
    <3>4. Kept(v)
      BY <3>1, <3>2 DEF Sounding, Sound, Kept, AudioOK
    <3> QED BY <3>2, <3>3, <3>4, VolumeKeeps
  <2> QED BY <2>4, <2>5
<1>7. \/ o \in OutputReplace(g, start.rate) /\ ~o.ok
      \/ \E q \in OutputReplace(g, start.rate) : q.ok /\ o \in Begin(q.w)
  BY <1>3 DEF Then
<1> QED BY <1>5, <1>6, <1>7

LEMMA OnStreamStartKeeps ==
  ASSUME NEW s, Kept(s), NEW start, NEW t \in on_stream_start(s, start)
  PROVE  Kept(t) /\ t.client = s.client
<1> DEFINE b == [s.board EXCEPT !.current = start]
           u == SetBoard(s, s.board.have_stream, start, s.board.out)
<1>0. StateOK(s) /\ BoardOK(s.board)
  BY PartsOK DEF Kept, Parts
<1>1. b = BoardOf(s.board.have_stream, start, s.board.level, s.board.muted, s.board.gain, s.board.out)
  BY <1>0 DEF BoardOf, BoardOK
<1>2. [s EXCEPT !.board.current = start] = u
  <2>1. [s EXCEPT !.board.current = start] = [s EXCEPT !.board = b]
    BY <1>0 DEF StateOK
  <2> HIDE DEF b
  <2>2. [s EXCEPT !.board = b] = Put(s, s.client, s.rx, b, s.net, s.owed, s.misheard)
    BY <1>0 DEF Put, StateOK
  <2> QED BY <1>1, <2>1, <2>2 DEF SetBoard
<1>3. t \in start_output(u, start)
  BY <1>2 DEF on_stream_start
<1> HIDE DEF u, b
<1>4. Sound(u) /\ u.board.current = start /\ u.client = s.client
  <2>1. s.board.have_stream \in BOOLEAN /\ OutType(s.board.out)
    BY <1>0, BoardHas
  <2> QED BY <1>0, <2>1, SetBoardIs DEF u, Kept, Sound, WireOK, FramesOK
<1> QED BY <1>3, <1>4, StartOutputKeeps

LEMMA OnStreamClearKeeps ==
  ASSUME NEW s, Kept(s), NEW clear, NEW t \in on_stream_clear(s, clear)
  PROVE  Kept(t) /\ t.client = s.client
<1>1. CASE t = s
  BY <1>1
<1>2. CASE t \in start_output(s, s.board.current)
  BY <1>2, StartOutputKeeps DEF Kept, Sound
<1> QED BY <1>1, <1>2 DEF on_stream_clear

SetEnded(s, h) == [s EXCEPT !.board.have_stream = h, !.board.out.running = h]

SetRunning(out, h) == [out EXCEPT !.running = h]

LEMMA SetEndedBoard ==
  ASSUME NEW s, StateOK(s), NEW h
  PROVE  SetEnded(s, h) = SetBoard(s, h, s.board.current, SetRunning(s.board.out, h))
<1> DEFINE out == SetRunning(s.board.out, h)
           b == [s.board EXCEPT !.have_stream = h, !.out = out]
<1>1. BoardOK(s.board)
  BY PartsOK DEF Parts
<1>2. SetEnded(s, h) = [s EXCEPT !.board = b]
  BY <1>1 DEF StateOK, BoardOK, SetEnded, SetRunning
<1> HIDE DEF out
<1>3. ASSUME NEW x
      PROVE  [s.board EXCEPT !.have_stream = h, !.out = x] =
               BoardOf(h, s.board.current, s.board.level, s.board.muted, s.board.gain, x)
  <2> DEFINE y == [s.board EXCEPT !.have_stream = h, !.out = x]
  <2>1. y \in [have_stream : {h}, current : {s.board.current}, level : {s.board.level},
           muted : {s.board.muted}, gain : {s.board.gain}, out : {x}]
    BY <1>1 DEF BoardOK
  <2> HIDE DEF y
  <2>2. y = BoardOf(h, s.board.current, s.board.level, s.board.muted, s.board.gain, x)
    BY <2>1 DEF BoardOf
  <2> QED BY <2>2 DEF y
<1>4. b = BoardOf(h, s.board.current, s.board.level, s.board.muted, s.board.gain, out)
  BY <1>3
<1> HIDE DEF b
<1>5. [s EXCEPT !.board = b] = Put(s, s.client, s.rx, b, s.net, s.owed, s.misheard)
  BY DEF Put, StateOK
<1> QED BY <1>2, <1>4, <1>5 DEF SetBoard, out

LEMMA SetEndedIs ==
  ASSUME NEW s, StateOK(s), NEW h \in BOOLEAN
  PROVE  LET t == SetEnded(s, h) IN
         /\ StateOK(t) /\ t.client = s.client /\ t.net = s.net
         /\ t.player = s.player /\ t.worker = s.worker
<1>1. BoardOK(s.board)
  BY PartsOK DEF Parts
<1>2. OutType(SetRunning(s.board.out, h))
  BY <1>1 DEF BoardOK, OutType, SetRunning
<1>3. SetEnded(s, h) = SetBoard(s, h, s.board.current, SetRunning(s.board.out, h))
  BY SetEndedBoard
<1> QED BY <1>2, <1>3, SetBoardIs

LEMMA OnStreamEndKeeps ==
  ASSUME NEW s, Kept(s), NEW end
  PROVE  Kept(on_stream_end(s, end)) /\ on_stream_end(s, end).client = s.client
<1> DEFINE f == eaf_sendspin_player_finish(s)
           t == SetEnded(f, FALSE)
<1>1. Halted(s, f) /\ StateOK(f)
  BY FinishHalts DEF Kept, Halted
<1> HIDE DEF f
<1>2. StateOK(t) /\ t.client = f.client /\ t.net = f.net /\ t.player = f.player /\ t.worker = f.worker
  BY <1>1, SetEndedIs, Zenon
<1>3. on_stream_end(s, end) = IF end THEN t ELSE s
  BY DEF on_stream_end, SetEnded, f
<1> HIDE DEF t
<1>4. Kept(t) /\ t.client = s.client
  BY <1>1, <1>2 DEF Halted, Kept, WireOK, AudioOK, FramesOK
<1> QED BY <1>3, <1>4

LEMMA OnAudioKeeps ==
  ASSUME NEW s, Kept(s), NEW frames \in Nat, NEW t \in on_audio(s, frames)
  PROVE  Kept(t) /\ t.client = s.client
<1>1. PICK o \in eaf_sendspin_player_write(s, frames, s.client.synchronized) : t = o.w
  BY DEF on_audio
<1>2. s.client.synchronized \in BOOLEAN
  BY PartsOK, ClientHas DEF Kept, Parts
<1>3. Playing(s, t)
  BY <1>1, <1>2, WritePlays DEF Kept
<1> QED BY <1>3 DEF Playing, Kept, WireOK, AudioOK, FramesOK

SetLevel(s, level) == [s EXCEPT !.board.level = level]
SetMuted(s, muted) == [s EXCEPT !.board.muted = muted]

LEMMA LevelKeeps ==
  ASSUME NEW s, Kept(s), NEW level
  PROVE  Kept(SetLevel(s, level)) /\ SetLevel(s, level).client = s.client
<1> DEFINE b == [s.board EXCEPT !.level = level]
<1>0. StateOK(s) /\ BoardOK(s.board) /\ Parts(s)
  BY PartsOK DEF Kept, Parts
<1>1. b = BoardOf(s.board.have_stream, s.board.current, level, s.board.muted, s.board.gain, s.board.out)
  BY <1>0 DEF BoardOf, BoardOK
<1>2. SetLevel(s, level) = [s EXCEPT !.board = b]
  BY <1>0 DEF StateOK, SetLevel
<1> HIDE DEF b
<1>3. [s EXCEPT !.board = b] = Put(s, s.client, s.rx, b, s.net, s.owed, s.misheard)
  BY <1>0 DEF Put, StateOK
<1>4. BoardOK(b) /\ b.have_stream = s.board.have_stream /\ b.current = s.board.current /\ b.out = s.board.out
  <2>1. s.board.have_stream \in BOOLEAN /\ OutType(s.board.out)
    BY <1>0, BoardHas
  <2> QED BY <1>1, <2>1, BoardIs
<1> DEFINE t == SetLevel(s, level)
<1>5. /\ StateOK(t) /\ t.client = s.client /\ t.board = b /\ t.net = s.net
      /\ t.player = s.player /\ t.worker = s.worker
  BY <1>0, <1>2, <1>3, <1>4, PutIs DEF Parts
<1> HIDE DEF t
<1>6. Kept(t) /\ t.client = s.client
  BY <1>4, <1>5 DEF Kept, WireOK, AudioOK, FramesOK
<1> QED BY <1>6 DEF t

LEMMA MutedKeeps ==
  ASSUME NEW s, Kept(s), NEW muted
  PROVE  Kept(SetMuted(s, muted)) /\ SetMuted(s, muted).client = s.client
<1> DEFINE b == [s.board EXCEPT !.muted = muted]
<1>0. StateOK(s) /\ BoardOK(s.board) /\ Parts(s)
  BY PartsOK DEF Kept, Parts
<1>1. b = BoardOf(s.board.have_stream, s.board.current, s.board.level, muted, s.board.gain, s.board.out)
  BY <1>0 DEF BoardOf, BoardOK
<1>2. SetMuted(s, muted) = [s EXCEPT !.board = b]
  BY <1>0 DEF StateOK, SetMuted
<1> HIDE DEF b
<1>3. [s EXCEPT !.board = b] = Put(s, s.client, s.rx, b, s.net, s.owed, s.misheard)
  BY <1>0 DEF Put, StateOK
<1>4. BoardOK(b) /\ b.have_stream = s.board.have_stream /\ b.current = s.board.current /\ b.out = s.board.out
  <2>1. s.board.have_stream \in BOOLEAN /\ OutType(s.board.out)
    BY <1>0, BoardHas
  <2> QED BY <1>1, <2>1, BoardIs
<1> DEFINE t == SetMuted(s, muted)
<1>5. /\ StateOK(t) /\ t.client = s.client /\ t.board = b /\ t.net = s.net
      /\ t.player = s.player /\ t.worker = s.worker
  BY <1>0, <1>2, <1>3, <1>4, PutIs DEF Parts
<1> HIDE DEF t
<1>6. Kept(t) /\ t.client = s.client
  BY <1>4, <1>5 DEF Kept, WireOK, AudioOK, FramesOK
<1> QED BY <1>6 DEF t

LEMMA OnCommandKeeps ==
  ASSUME NEW s, Kept(s), NEW command
  PROVE  Kept(on_command(s, command)) /\ on_command(s, command).client = s.client
<1>1. \A l : Kept(apply_volume(SetLevel(s, l))) /\ apply_volume(SetLevel(s, l)).client = s.client
  BY LevelKeeps, VolumeKeeps, Zenon
<1>2. \A m : Kept(apply_volume(SetMuted(s, m))) /\ apply_volume(SetMuted(s, m)).client = s.client
  BY MutedKeeps, VolumeKeeps, Zenon
<1>3. \/ on_command(s, command) = apply_volume(SetLevel(s, command.volume))
      \/ on_command(s, command) = apply_volume(SetMuted(s, command.muted))
      \/ on_command(s, command) = s
  BY Zenon DEF on_command, SetLevel, SetMuted
<1> QED BY <1>1, <1>2, <1>3, Zenon

----------------------------------------------------------------------------
(* sendspin_client.c: sending. *)

(* Client, receiver and socket change; what is due is what is not sent. *)
LEMMA PutKeeps ==
  ASSUME NEW s, Kept(s), NEW c, ClientOK(c), NEW r, RxOK(r), NEW n, NetOK(n), NEW o, NEW m,
         ~n.torn, c.state # "closed" => n.due = Unflushed(c.wire, c.offset)
  PROVE  LET t == Put(s, c, r, s.board, n, o, m) IN
         /\ Kept(t) /\ t.client = c /\ t.rx = r /\ t.net = n /\ t.owed = o /\ t.misheard = m
         /\ t.board = s.board
<1> DEFINE t == Put(s, c, r, s.board, n, o, m)
<1>1. StateOK(s) /\ BoardOK(s.board)
  BY PartsOK DEF Kept, Parts
<1>2. /\ StateOK(t) /\ t.client = c /\ t.rx = r /\ t.board = s.board /\ t.net = n
      /\ t.owed = o /\ t.misheard = m
      /\ t.player = s.player /\ t.worker = s.worker
  BY <1>1, PutIs
<1> HIDE DEF t
<1>3. Kept(t)
  BY <1>2 DEF Kept, WireOK, AudioOK, FramesOK, Unflushed
<1> QED BY <1>2, <1>3 DEF t

LEMMA KeptHas ==
  ASSUME NEW s, Kept(s)
  PROVE  /\ StateOK(s) /\ Parts(s) /\ ClientOK(s.client) /\ RxOK(s.rx) /\ NetOK(s.net)
         /\ ~s.net.torn /\ s.client.wire \in Seq(WireUnit) /\ s.client.offset \in Nat
         /\ s.client.offset <= Len(s.client.wire)
         /\ s.client.state # "closed" => s.net.due = Unflushed(s.client.wire, s.client.offset)
<1>1. StateOK(s) /\ Parts(s)
  BY PartsOK DEF Kept
<1>2. ClientOK(s.client) /\ RxOK(s.rx) /\ NetOK(s.net)
  BY <1>1 DEF Parts
<1> QED BY <1>1, <1>2, ClientHas DEF Kept, WireOK, Unflushed

SetClient(s, c) == [s EXCEPT !.client = c]

LEMMA SetClientIs ==
  ASSUME NEW s, StateOK(s), NEW c
  PROVE  SetClient(s, c) = Put(s, c, s.rx, s.board, s.net, s.owed, s.misheard)
BY DEF StateOK, SetClient, Put

(* The client's fields that no frame changes. *)
Queued(s, t) ==
  /\ Kept(t) /\ t.client.state = s.client.state /\ t.client.stream = s.client.stream
  /\ t.client.stream_active = s.client.stream_active

WireOf(c, w, o) == [c EXCEPT !.wire = w, !.offset = o]

LEMMA WireOfIs ==
  ASSUME NEW k, ClientOK(k), NEW w \in Seq(WireUnit), NEW o \in Nat, o <= Len(w)
  PROVE  LET c == WireOf(k, w, o) IN
         /\ ClientOK(c) /\ c.wire = w /\ c.offset = o
         /\ c.state = k.state /\ c.stream = k.stream /\ c.stream_active = k.stream_active
<1> DEFINE c == WireOf(k, w, o)
           d == ClientOf(k.state, k.handshaken, k.notified, k.stream_active, k.stream,
                         k.synchronized, k.delay, w, o, k.http)
<1>1. c = d
  <2>1. c \in [state : {k.state}, handshaken : {k.handshaken}, notified : {k.notified},
               stream_active : {k.stream_active}, stream : {k.stream},
               synchronized : {k.synchronized}, delay : {k.delay}, wire : {w}, offset : {o},
               http : {k.http}]
    BY DEF ClientOK, WireOf
  <2> HIDE DEF c
  <2> QED BY <2>1 DEF ClientOf
<1>2. /\ ClientOK(d) /\ d.wire = w /\ d.offset = o /\ d.state = k.state /\ d.stream = k.stream
      /\ d.stream_active = k.stream_active
  <2>1. /\ k.state \in {"closed", "http", "ws"} /\ k.handshaken \in BOOLEAN /\ k.notified \in BOOLEAN
        /\ k.stream_active \in BOOLEAN /\ k.synchronized \in BOOLEAN /\ k.http \in Nat
    BY ClientHas
  <2> QED BY <2>1, ClientIs
<1> HIDE DEF c, d
<1> QED BY <1>1, <1>2 DEF c

DueOf(n, due, torn, stage, asked) ==
  [n EXCEPT !.due = due, !.torn = torn, !.stage = stage, !.asked = asked]

LEMMA DueOfIs ==
  ASSUME NEW n, NetOK(n), NEW due \in Seq(WireUnit), NEW torn \in BOOLEAN, NEW stage, NEW asked
  PROVE  LET v == DueOf(n, due, torn, stage, asked) IN
         NetOK(v) /\ v.due = due /\ v.torn = torn /\ v.inbox = n.inbox
<1> DEFINE v == DueOf(n, due, torn, stage, asked)
           d == NetOf(n.inbox, stage, due, torn, asked, n.streaming, n.closed)
<1>1. v = d
  <2>1. v \in [inbox : {n.inbox}, stage : {stage}, due : {due}, torn : {torn}, asked : {asked},
               streaming : {n.streaming}, closed : {n.closed}]
    BY DEF NetOK, DueOf
  <2> HIDE DEF v
  <2> QED BY <2>1 DEF NetOf
<1>2. NetOK(d) /\ d.due = due /\ d.torn = torn /\ d.inbox = n.inbox
  BY NetHas, NetIs
<1> HIDE DEF v, d
<1> QED BY <1>1, <1>2 DEF v

LEMMA OnWireIs ==
  ASSUME NEW m \in Queueable
  PROVE  OnWire(m) \in Seq(WireUnit) /\ Len(OnWire(m)) \in 1 .. 2
<1>1. <<m, 1>> \in WireUnit /\ <<m, 2>> \in WireUnit
  <2>1. 1 \in 1 .. 2 /\ 2 \in 1 .. 2
    OBVIOUS
  <2> QED BY <2>1, Zenon DEF WireUnit
<1>2. CASE m \in {"time", "pong"}
  BY <1>1, <1>2 DEF OnWire
<1>3. CASE m \notin {"time", "pong"}
  BY <1>1, <1>3 DEF OnWire
<1> QED BY <1>2, <1>3

QueueWith(s, m) == [s EXCEPT !.client.wire = @ \o OnWire(m), !.net.due = @ \o OnWire(m)]

LEMMA QueueWithIs ==
  ASSUME NEW s, Kept(s), NEW m \in Queueable
  PROVE  Queued(s, QueueWith(s, m))
<1> DEFINE e == OnWire(m)
           w == s.client.wire \o e
           d == s.net.due \o e
           c == WireOf(s.client, w, s.client.offset)
           n == DueOf(s.net, d, s.net.torn, s.net.stage, s.net.asked)
<1>0. /\ StateOK(s) /\ Parts(s) /\ ClientOK(s.client) /\ RxOK(s.rx) /\ NetOK(s.net)
      /\ ~s.net.torn /\ s.client.wire \in Seq(WireUnit) /\ s.client.offset \in Nat
      /\ s.client.offset <= Len(s.client.wire)
      /\ s.client.state # "closed" => s.net.due = Unflushed(s.client.wire, s.client.offset)
  BY KeptHas
<1>1. e \in Seq(WireUnit)
  BY OnWireIs
<1>2. s.net.due \in Seq(WireUnit) /\ s.net.torn \in BOOLEAN
  BY <1>0, NetHas
<1>3. QueueWith(s, m) = Put(s, c, s.rx, s.board, n, s.owed, s.misheard)
  <2>1. [s.client EXCEPT !.wire = w] = c
    <3> HIDE DEF w
    <3> QED BY <1>0 DEF WireOf, ClientOK
  <2>2. [s.net EXCEPT !.due = d] = n
    <3> HIDE DEF d
    <3> QED BY <1>0 DEF DueOf, NetOK
  <2>3. QueueWith(s, m) = [s EXCEPT !.client = [s.client EXCEPT !.wire = w],
                                    !.net = [s.net EXCEPT !.due = d]]
    <3> HIDE DEF e
    <3> QED BY <1>0 DEF QueueWith, StateOK, e
  <2> HIDE DEF w, d, c, n
  <2> QED BY <1>0, <2>1, <2>2, <2>3 DEF Put, StateOK
<1> HIDE DEF e
<1>4. /\ w \in Seq(WireUnit) /\ s.client.offset <= Len(w)
      /\ d \in Seq(WireUnit)
  BY <1>0, <1>1, <1>2
<1>5. s.client.state # "closed" => d = Unflushed(w, s.client.offset)
  <2>1. Unflushed(s.client.wire \o e, s.client.offset) = Unflushed(s.client.wire, s.client.offset) \o e
    BY <1>0, <1>1, UnflushedMore
  <2> QED BY <1>0, <2>1
<1> HIDE DEF w, d
<1>6. /\ ClientOK(c) /\ c.wire = w /\ c.offset = s.client.offset
      /\ c.state = s.client.state /\ c.stream = s.client.stream
      /\ c.stream_active = s.client.stream_active
  BY <1>0, <1>4, WireOfIs
<1>7. NetOK(n) /\ n.due = d /\ n.torn = s.net.torn
  BY <1>0, <1>2, <1>4, DueOfIs
<1> HIDE DEF c, n
<1>8. c.state # "closed" => n.due = Unflushed(c.wire, c.offset)
  BY <1>5, <1>6, <1>7
<1>9. ~n.torn
  BY <1>0, <1>7
<1>10. LET t == Put(s, c, s.rx, s.board, n, s.owed, s.misheard) IN Kept(t) /\ t.client = c
  BY <1>0, <1>6, <1>7, <1>8, <1>9, PutKeeps
<1> QED BY <1>3, <1>6, <1>10 DEF Queued

SetWire(s, w, o) == [s EXCEPT !.client.wire = w, !.client.offset = o]

LEMMA SetWireIs ==
  ASSUME NEW s, Kept(s), NEW w \in Seq(WireUnit), NEW o \in Nat, o <= Len(w),
         s.client.state # "closed" => s.net.due = Unflushed(w, o)
  PROVE  Queued(s, SetWire(s, w, o))
<1> DEFINE c == WireOf(s.client, w, o)
<1>0. /\ StateOK(s) /\ ClientOK(s.client) /\ RxOK(s.rx) /\ NetOK(s.net) /\ ~s.net.torn
  BY KeptHas
<1>1. SetWire(s, w, o) = Put(s, c, s.rx, s.board, s.net, s.owed, s.misheard)
  <2>1. SetWire(s, w, o) = [s EXCEPT !.client = c]
    BY <1>0 DEF SetWire, WireOf, StateOK
  <2> HIDE DEF c
  <2> QED BY <1>0, <2>1 DEF Put, StateOK
<1>2. /\ ClientOK(c) /\ c.wire = w /\ c.offset = o
      /\ c.state = s.client.state /\ c.stream = s.client.stream
      /\ c.stream_active = s.client.stream_active
  BY <1>0, WireOfIs
<1> HIDE DEF c
<1>3. LET t == Put(s, c, s.rx, s.board, s.net, s.owed, s.misheard) IN Kept(t) /\ t.client = c
  BY <1>0, <1>2, PutKeeps
<1> QED BY <1>1, <1>2, <1>3 DEF Queued

LEMMA QueueFrameQueues ==
  ASSUME NEW s, Kept(s), NEW m \in Queueable, NEW o \in queue_frame(s, m)
  PROVE  Queued(s, o.w)
<1> DEFINE w == s.client.wire
           p == SubSeq(w, s.client.offset + 1, Len(w))
           v == SetWire(s, p, 0)
<1>0. /\ w \in Seq(WireUnit) /\ s.client.offset \in Nat /\ s.client.offset <= Len(w)
      /\ s.client.state # "closed" => s.net.due = Unflushed(w, s.client.offset)
  BY KeptHas
<1>1. p = Unflushed(w, s.client.offset) /\ p \in Seq(WireUnit)
  BY <1>0, UnflushedIs DEF Unflushed
<1>2. PICK u : (u = s \/ u = v) /\ o.w \in {u, QueueWith(u, m)}
  <2> DEFINE u == IF s.client.offset > 0 /\ Len(w) + Len(OnWire(m)) > WireUnits THEN v ELSE s
  <2>1. o \in IF Len(u.client.wire) + Len(OnWire(m)) > WireUnits THEN Failed(u)
              ELSE Done(QueueWith(u, m))
    BY Zenon DEF queue_frame, QueueWith, SetWire
  <2>2. o.w \in {u, QueueWith(u, m)}
    BY <2>1 DEF Failed, Done
  <2> QED BY <2>2
<1> HIDE DEF w, p, v
<1>3. p = Unflushed(p, 0) /\ 0 <= Len(p)
  BY <1>1 DEF Unflushed
<1>4. Queued(s, v)
  BY <1>0, <1>1, <1>3, SetWireIs DEF v
<1>5. Queued(s, u)
  BY <1>2, <1>4 DEF Queued
<1>6. Queued(u, QueueWith(u, m))
  BY <1>5, QueueWithIs DEF Queued
<1> QED BY <1>2, <1>5, <1>6 DEF Queued

LEMMA SentKeeps ==
  ASSUME NEW s, Kept(s), s.client.state # "closed", NEW n \in Nat, n <= Unsent(s)
  PROVE  LET t == Sent(s, n) IN
         /\ Queued(s, t) /\ t.client.wire = s.client.wire /\ t.client.offset = s.client.offset + n
<1> DEFINE w == s.client.wire
           o == s.client.offset
           a == SubSeq(w, o + 1, o + n)
           Has(m) == \E i \in DOMAIN a : a[i] = <<m, 2>>
           due == SubSeq(s.net.due, Len(a) + 1, Len(s.net.due))
           torn == s.net.torn \/ ~IsPrefix(a, s.net.due)
           stage == IF Has("hello") THEN "greeted" ELSE IF Has("upgrade") THEN "respond" ELSE s.net.stage
           asked == s.net.asked \/ Has("time")
           v == DueOf(s.net, due, torn, stage, asked)
           c == WireOf(s.client, w, o + n)
<1>0. /\ StateOK(s) /\ Parts(s) /\ ClientOK(s.client) /\ RxOK(s.rx) /\ NetOK(s.net)
      /\ ~s.net.torn /\ w \in Seq(WireUnit) /\ o \in Nat /\ o <= Len(w)
      /\ s.net.due = Unflushed(w, o)
  BY KeptHas
<1>1. o + n \in Nat /\ o + n <= Len(w)
  BY <1>0 DEF Unsent
<1>2. Receives(s.net, a) = v
  BY Zenon DEF Receives, DueOf
<1>3. Sent(s, n) = Put(s, c, s.rx, s.board, v, s.owed, s.misheard)
  <2>1. Sent(s, n) = [s EXCEPT !.net = v, !.client = [s.client EXCEPT !.offset = o + n]]
    <3> HIDE DEF v, a
    <3> QED BY <1>0, <1>2 DEF Sent, StateOK, a
  <2>2. [s.client EXCEPT !.offset = o + n] = c
    BY <1>0 DEF WireOf, ClientOK
  <2> HIDE DEF v, c
  <2> QED BY <1>0, <2>1, <2>2 DEF Put, StateOK
<1>4. Len(a) = n /\ IsPrefix(a, Unflushed(w, o))
      /\ SubSeq(Unflushed(w, o), n + 1, Len(Unflushed(w, o))) = Unflushed(w, o + n)
  BY <1>0, <1>1, UnflushedLess
<1>5. due = Unflushed(w, o + n) /\ due \in Seq(WireUnit)
  <2>1. due = Unflushed(w, o + n)
    BY <1>0, <1>4
  <2> QED BY <2>1, <1>0, <1>1, UnflushedIs
<1>6. torn = FALSE
  BY <1>0, <1>4
<1> HIDE DEF due, torn, stage, asked, a, w, o
<1>7. /\ ClientOK(c) /\ c.wire = w /\ c.offset = o + n
      /\ c.state = s.client.state /\ c.stream = s.client.stream
      /\ c.stream_active = s.client.stream_active
  BY <1>0, <1>1, WireOfIs
<1>8. NetOK(v) /\ v.due = due /\ v.torn = torn
  <2>1. torn \in BOOLEAN
    BY <1>6
  <2> QED BY <1>0, <1>5, <2>1, DueOfIs
<1> HIDE DEF c, v
<1>9. v.due = Unflushed(c.wire, c.offset) /\ ~v.torn
  BY <1>5, <1>6, <1>7, <1>8
<1>10. LET t == Put(s, c, s.rx, s.board, v, s.owed, s.misheard) IN Kept(t) /\ t.client = c
  BY <1>0, <1>7, <1>8, <1>9, PutKeeps
<1> QED BY <1>3, <1>7, <1>10 DEF Queued, w, o

LEMMA FlushKeeps ==
  ASSUME NEW s, Kept(s), s.client.state # "closed", NEW f \in flush(s)
  PROVE  Queued(s, f.s)
<1> DEFINE k == Unsent(s)
           t == Sent(s, k)
<1>0. /\ s.client.wire \in Seq(WireUnit) /\ s.client.offset \in Nat
      /\ s.client.offset <= Len(s.client.wire)
  BY KeptHas
<1>1. k \in Nat /\ s.client.offset + k = Len(s.client.wire)
  BY <1>0 DEF Unsent
<1>2. CASE f.s = SetWire(t, <<>>, 0)
  <2> HIDE DEF k
  <2>1. /\ Queued(s, t) /\ t.client.wire = s.client.wire
        /\ t.client.offset = Len(s.client.wire)
    BY <1>1, SentKeeps DEF k
  <2> HIDE DEF t
  <2>2. t.client.state # "closed" /\ Kept(t)
    BY <2>1 DEF Queued
  <2>3. t.net.due = Unflushed(t.client.wire, t.client.offset)
    BY <2>2, KeptHas
  <2>4. t.net.due = Unflushed(<<>>, 0)
    <3>1. Unflushed(s.client.wire, Len(s.client.wire)) = <<>> /\ Unflushed(<<>>, 0) = <<>>
      BY <1>0 DEF Unflushed
    <3> QED BY <2>1, <2>3, <3>1
  <2>5. <<>> \in Seq(WireUnit) /\ 0 <= Len(<<>>) /\ 0 \in Nat
    OBVIOUS
  <2>6. Queued(t, SetWire(t, <<>>, 0))
    BY <2>2, <2>4, <2>5, SetWireIs
  <2> QED BY <1>2, <2>1, <2>6 DEF Queued
<1>3. ASSUME NEW n \in 0 .. k - 1, f.s = Sent(s, n) PROVE Queued(s, f.s)
  <2>1. n \in Nat /\ n <= Unsent(s)
    BY <1>1
  <2> QED BY <1>3, <2>1, SentKeeps
<1>4. CASE f.s = s
  BY <1>4 DEF Queued
<1>5. \/ f.s = SetWire(t, <<>>, 0) \/ (\E n \in 0 .. k - 1 : f.s = Sent(s, n)) \/ f.s = s
  BY DEF flush, SetWire
<1> QED BY <1>2, <1>3, <1>4, <1>5

LEMMA SendTimeKeeps ==
  ASSUME NEW s, Kept(s), NEW t \in send_time(s)
  PROVE  Queued(s, t)
<1>1. PICK o \in queue_frame(s, "time") : t = o.w
  BY DEF send_time
<1>2. "time" \in Queueable
  BY DEF Queueable
<1> QED BY <1>1, <1>2, QueueFrameQueues, Zenon

(* The client's other fields. *)
LEMMA ClientKeeps ==
  ASSUME NEW s, Kept(s), NEW c, ClientOK(c), c.wire = s.client.wire, c.offset = s.client.offset,
         c.state # "closed" => s.client.state # "closed"
  PROVE  LET t == SetClient(s, c) IN
         Kept(t) /\ t.client = c /\ t.board = s.board /\ t.net = s.net /\ t.rx = s.rx
<1>0. /\ StateOK(s) /\ ClientOK(s.client) /\ RxOK(s.rx) /\ NetOK(s.net) /\ ~s.net.torn
      /\ s.client.state # "closed" => s.net.due = Unflushed(s.client.wire, s.client.offset)
  BY KeptHas
<1>1. SetClient(s, c) = Put(s, c, s.rx, s.board, s.net, s.owed, s.misheard)
  BY <1>0, SetClientIs
<1>2. c.state # "closed" => s.net.due = Unflushed(c.wire, c.offset)
  BY <1>0
<1>3. LET t == Put(s, c, s.rx, s.board, s.net, s.owed, s.misheard) IN
      Kept(t) /\ t.client = c /\ t.board = s.board /\ t.net = s.net /\ t.rx = s.rx
  BY <1>0, <1>2, PutKeeps
<1> QED BY <1>1, <1>3

Good(s) == Kept(s) /\ Listed(s)
Fine(o) == Kept(o.w) /\ (o.ok => Listed(o.w))

(* The two truth values as constants of the SMT backend. *)
LEMMA Truths == \E no \in BOOLEAN, yes \in BOOLEAN : no = FALSE /\ yes = TRUE
OBVIOUS

SetClosed(s, no, yes) ==
  [s EXCEPT !.client.state = "closed", !.client.handshaken = no, !.client.stream_active = no,
            !.client.notified = yes]

LEMMA SetClosedIs ==
  ASSUME NEW s, StateOK(s), NEW no, NEW yes
  PROVE  SetClosed(s, no, yes) =
           SetClient(s, ClientOf("closed", no, yes, no, s.client.stream, s.client.synchronized,
                                 s.client.delay, s.client.wire, s.client.offset, s.client.http))
<1> DEFINE k == s.client
           d == [k EXCEPT !.state = "closed", !.handshaken = no, !.stream_active = no,
                          !.notified = yes]
<1>0. ClientOK(k)
  BY PartsOK DEF Parts
<1>1. d \in [state : {"closed"}, handshaken : {no}, notified : {yes}, stream_active : {no},
             stream : {k.stream}, synchronized : {k.synchronized}, delay : {k.delay},
             wire : {k.wire}, offset : {k.offset}, http : {k.http}]
  BY <1>0 DEF ClientOK
<1>2. SetClosed(s, no, yes) = SetClient(s, d)
  BY <1>0 DEF SetClosed, SetClient, StateOK
<1> HIDE DEF d
<1>3. d = ClientOf("closed", no, yes, no, k.stream, k.synchronized, k.delay, k.wire, k.offset, k.http)
  BY <1>1 DEF ClientOf
<1> QED BY <1>2, <1>3

LEMMA NotifyKeeps ==
  ASSUME NEW s, Kept(s)
  PROVE  Good(notify_closed(s)) /\ notify_closed(s).client.state = "closed"
<1>0. PICK no \in BOOLEAN, yes \in BOOLEAN : no = FALSE /\ yes = TRUE
  BY Truths
<1> DEFINE t == SetClosed(s, no, yes)
<1>1. notify_closed(s) = t
  BY <1>0, Zenon DEF notify_closed, SetClosed
<1>2. s.client.synchronized \in BOOLEAN /\ StateOK(s)
  BY KeptHas, ClientHas
<1>3. Kept(t) /\ t.client.state = "closed" /\ t.client.stream_active = no
  <2> DEFINE c == ClientOf("closed", no, yes, no, s.client.stream, s.client.synchronized,
                           s.client.delay, s.client.wire, s.client.offset, s.client.http)
  <2>1. t = SetClient(s, c)
    BY <1>2, SetClosedIs
  <2>2. Kept(SetClient(s, c)) /\ SetClient(s, c).client = c /\ c.state = "closed" /\ c.stream_active = no
    <3>1. /\ ClientOK(c) /\ c.state = "closed" /\ c.stream_active = no /\ c.wire = s.client.wire
          /\ c.offset = s.client.offset
      <4>1. /\ s.client.wire \in Seq(WireUnit) /\ s.client.offset \in Nat
            /\ s.client.offset <= Len(s.client.wire) /\ s.client.http \in Nat
        BY KeptHas, ClientHas
      <4> QED BY <1>2, <4>1, ClientIs
    <3> HIDE DEF c
    <3> QED BY <3>1, ClientKeeps
  <2> HIDE DEF c, t
  <2> QED BY <2>1, <2>2
<1> HIDE DEF t
<1> QED BY <1>0, <1>1, <1>3 DEF Good, Listed

LEMMA FailKeeps ==
  ASSUME NEW s, Kept(s), NEW o \in fail(s)
  PROVE  Good(o.w) /\ ~o.ok
BY NotifyKeeps DEF fail, Failed

LEMMA OrFailKeeps ==
  ASSUME NEW outcomes, \A q \in outcomes : Fine(q), NEW o \in OrFail(outcomes)
  PROVE  Good(o.w) /\ (o.ok => o \in outcomes)
<1>1. PICK q \in outcomes : o \in IF q.ok THEN {q} ELSE fail(q.w)
  BY DEF OrFail
<1>2. CASE q.ok
  BY <1>1, <1>2 DEF Fine, Good
<1>3. CASE ~q.ok
  BY <1>1, <1>3, FailKeeps DEF Fine
<1> QED BY <1>2, <1>3

(* One field of the client changes. *)

SetShaken(s, v) == [s EXCEPT !.client.handshaken = v]

LEMMA SetShakenKeeps ==
  ASSUME NEW s, Kept(s), NEW v \in BOOLEAN
  PROVE  LET t == SetShaken(s, v) IN
         /\ Kept(t) /\ t.client.handshaken = v /\ t.board = s.board /\ t.net = s.net /\ t.rx = s.rx
         /\ t.client.state = s.client.state /\ t.client.stream = s.client.stream /\ t.client.stream_active = s.client.stream_active
<1> DEFINE k == s.client
           c == [k EXCEPT !.handshaken = v]
<1>0. StateOK(s) /\ ClientOK(k)
  BY KeptHas
<1>1. SetShaken(s, v) = SetClient(s, c)
  BY <1>0 DEF SetShaken, SetClient, StateOK
<1>2. c \in [state : {k.state}, handshaken : {v}, notified : {k.notified}, stream_active :
             {k.stream_active}, stream : {k.stream}, synchronized :
             {k.synchronized}, delay : {k.delay}, wire : {k.wire}, offset :
             {k.offset}, http : {k.http}]
  BY <1>0 DEF ClientOK
<1> HIDE DEF c
<1>3. ClientOK(c)
  BY <1>0, <1>2 DEF ClientOK
<1>4. c.handshaken = v /\ c.state = k.state /\ c.stream = k.stream /\ c.stream_active = k.stream_active /\ c.wire = k.wire /\ c.offset = k.offset
  BY <1>2
<1> QED BY <1>1, <1>3, <1>4, ClientKeeps

SetSync(s, v) == [s EXCEPT !.client.synchronized = v]

LEMMA SetSyncKeeps ==
  ASSUME NEW s, Kept(s), NEW v \in BOOLEAN
  PROVE  LET t == SetSync(s, v) IN
         /\ Kept(t) /\ t.client.synchronized = v /\ t.board = s.board /\ t.net = s.net /\ t.rx = s.rx
         /\ t.client.state = s.client.state /\ t.client.stream = s.client.stream /\ t.client.stream_active = s.client.stream_active
<1> DEFINE k == s.client
           c == [k EXCEPT !.synchronized = v]
<1>0. StateOK(s) /\ ClientOK(k)
  BY KeptHas
<1>1. SetSync(s, v) = SetClient(s, c)
  BY <1>0 DEF SetSync, SetClient, StateOK
<1>2. c \in [state : {k.state}, handshaken : {k.handshaken}, notified : {k.notified},
             stream_active : {k.stream_active}, stream : {k.stream},
             synchronized : {v}, delay : {k.delay}, wire : {k.wire}, offset :
             {k.offset}, http : {k.http}]
  BY <1>0 DEF ClientOK
<1> HIDE DEF c
<1>3. ClientOK(c)
  BY <1>0, <1>2 DEF ClientOK
<1>4. c.synchronized = v /\ c.state = k.state /\ c.stream = k.stream /\ c.stream_active = k.stream_active /\ c.wire = k.wire /\ c.offset = k.offset
  BY <1>2
<1> QED BY <1>1, <1>3, <1>4, ClientKeeps

SetStream(s, v) == [s EXCEPT !.client.stream = v]

LEMMA SetStreamKeeps ==
  ASSUME NEW s, Kept(s), NEW v
  PROVE  LET t == SetStream(s, v) IN
         /\ Kept(t) /\ t.client.stream = v /\ t.board = s.board /\ t.net = s.net /\ t.rx = s.rx
         /\ t.client.state = s.client.state /\ t.client.stream_active = s.client.stream_active
<1> DEFINE k == s.client
           c == [k EXCEPT !.stream = v]
<1>0. StateOK(s) /\ ClientOK(k)
  BY KeptHas
<1>1. SetStream(s, v) = SetClient(s, c)
  BY <1>0 DEF SetStream, SetClient, StateOK
<1>2. c \in [state : {k.state}, handshaken : {k.handshaken}, notified : {k.notified},
             stream_active : {k.stream_active}, stream : {v}, synchronized :
             {k.synchronized}, delay : {k.delay}, wire : {k.wire}, offset :
             {k.offset}, http : {k.http}]
  BY <1>0 DEF ClientOK
<1> HIDE DEF c
<1>3. ClientOK(c)
  BY <1>0, <1>2 DEF ClientOK
<1>4. c.stream = v /\ c.state = k.state /\ c.stream_active = k.stream_active /\ c.wire = k.wire /\ c.offset = k.offset
  BY <1>2
<1> QED BY <1>1, <1>3, <1>4, ClientKeeps

SetActive(s, v) == [s EXCEPT !.client.stream_active = v]

LEMMA SetActiveKeeps ==
  ASSUME NEW s, Kept(s), NEW v \in BOOLEAN
  PROVE  LET t == SetActive(s, v) IN
         /\ Kept(t) /\ t.client.stream_active = v /\ t.board = s.board /\ t.net = s.net /\ t.rx = s.rx
         /\ t.client.state = s.client.state /\ t.client.stream = s.client.stream
<1> DEFINE k == s.client
           c == [k EXCEPT !.stream_active = v]
<1>0. StateOK(s) /\ ClientOK(k)
  BY KeptHas
<1>1. SetActive(s, v) = SetClient(s, c)
  BY <1>0 DEF SetActive, SetClient, StateOK
<1>2. c \in [state : {k.state}, handshaken : {k.handshaken}, notified : {k.notified},
             stream_active : {v}, stream : {k.stream}, synchronized :
             {k.synchronized}, delay : {k.delay}, wire : {k.wire}, offset :
             {k.offset}, http : {k.http}]
  BY <1>0 DEF ClientOK
<1> HIDE DEF c
<1>3. ClientOK(c)
  BY <1>0, <1>2 DEF ClientOK
<1>4. c.stream_active = v /\ c.state = k.state /\ c.stream = k.stream /\ c.wire = k.wire /\ c.offset = k.offset
  BY <1>2
<1> QED BY <1>1, <1>3, <1>4, ClientKeeps

SetDelay(s, v) == [s EXCEPT !.client.delay = v]

LEMMA SetDelayKeeps ==
  ASSUME NEW s, Kept(s), NEW v
  PROVE  LET t == SetDelay(s, v) IN
         /\ Kept(t) /\ t.client.delay = v /\ t.board = s.board /\ t.net = s.net /\ t.rx = s.rx
         /\ t.client.state = s.client.state /\ t.client.stream = s.client.stream /\ t.client.stream_active = s.client.stream_active
<1> DEFINE k == s.client
           c == [k EXCEPT !.delay = v]
<1>0. StateOK(s) /\ ClientOK(k)
  BY KeptHas
<1>1. SetDelay(s, v) = SetClient(s, c)
  BY <1>0 DEF SetDelay, SetClient, StateOK
<1>2. c \in [state : {k.state}, handshaken : {k.handshaken}, notified : {k.notified},
             stream_active : {k.stream_active}, stream : {k.stream},
             synchronized : {k.synchronized}, delay : {v}, wire : {k.wire},
             offset : {k.offset}, http : {k.http}]
  BY <1>0 DEF ClientOK
<1> HIDE DEF c
<1>3. ClientOK(c)
  BY <1>0, <1>2 DEF ClientOK
<1>4. c.delay = v /\ c.state = k.state /\ c.stream = k.stream /\ c.stream_active = k.stream_active /\ c.wire = k.wire /\ c.offset = k.offset
  BY <1>2
<1> QED BY <1>1, <1>3, <1>4, ClientKeeps

SetHttp(s, v) == [s EXCEPT !.client.http = v]

LEMMA SetHttpKeeps ==
  ASSUME NEW s, Kept(s), NEW v \in Nat
  PROVE  LET t == SetHttp(s, v) IN
         /\ Kept(t) /\ t.client.http = v /\ t.board = s.board /\ t.net = s.net /\ t.rx = s.rx
         /\ t.client.state = s.client.state /\ t.client.stream = s.client.stream /\ t.client.stream_active = s.client.stream_active
<1> DEFINE k == s.client
           c == [k EXCEPT !.http = v]
<1>0. StateOK(s) /\ ClientOK(k)
  BY KeptHas
<1>1. SetHttp(s, v) = SetClient(s, c)
  BY <1>0 DEF SetHttp, SetClient, StateOK
<1>2. c \in [state : {k.state}, handshaken : {k.handshaken}, notified : {k.notified},
             stream_active : {k.stream_active}, stream : {k.stream},
             synchronized : {k.synchronized}, delay : {k.delay}, wire :
             {k.wire}, offset : {k.offset}, http : {v}]
  BY <1>0 DEF ClientOK
<1> HIDE DEF c
<1>3. ClientOK(c)
  BY <1>0, <1>2 DEF ClientOK
<1>4. c.http = v /\ c.state = k.state /\ c.stream = k.stream /\ c.stream_active = k.stream_active /\ c.wire = k.wire /\ c.offset = k.offset
  BY <1>2
<1> QED BY <1>1, <1>3, <1>4, ClientKeeps

SetWs(s, v) == [s EXCEPT !.client.state = v]

LEMMA SetWsKeeps ==
  ASSUME NEW s, Kept(s), NEW v \in {"ws"}, s.client.state # "closed"
  PROVE  LET t == SetWs(s, v) IN
         /\ Kept(t) /\ t.client.state = v /\ t.board = s.board /\ t.net = s.net /\ t.rx = s.rx
         /\ t.client.stream = s.client.stream /\ t.client.stream_active = s.client.stream_active
<1> DEFINE k == s.client
           c == [k EXCEPT !.state = v]
<1>0. StateOK(s) /\ ClientOK(k)
  BY KeptHas
<1>1. SetWs(s, v) = SetClient(s, c)
  BY <1>0 DEF SetWs, SetClient, StateOK
<1>2. c \in [state : {v}, handshaken : {k.handshaken}, notified : {k.notified},
             stream_active : {k.stream_active}, stream : {k.stream},
             synchronized : {k.synchronized}, delay : {k.delay}, wire :
             {k.wire}, offset : {k.offset}, http : {k.http}]
  BY <1>0 DEF ClientOK
<1> HIDE DEF c
<1>3. ClientOK(c)
  BY <1>0, <1>2 DEF ClientOK
<1>4. c.state = v /\ c.stream = k.stream /\ c.stream_active = k.stream_active /\ c.wire = k.wire /\ c.offset = k.offset
  BY <1>2
<1> QED BY <1>1, <1>3, <1>4, ClientKeeps

----------------------------------------------------------------------------
(* sendspin_client.c: receiving. *)

LEMMA FineDone ==
  ASSUME NEW t, Good(t), NEW o \in Done(t)
  PROVE  Fine(o) /\ o.w = t
BY DEF Done, Good, Fine

LEMMA FineQueued ==
  ASSUME NEW s, Good(s), NEW t, Queued(s, t)
  PROVE  Good(t)
BY DEF Good, Queued, Listed

LEMMA HelloKeeps ==
  ASSUME NEW s, Good(s), NEW hello, NEW o \in on_server_hello(s, hello)
  PROVE  Fine(o)
<1> DEFINE Rest(t) == UNION {Done(u) : u \in send_time(SetShaken(t, TRUE))}
<1>1. CASE o = [ok |-> FALSE, w |-> s]
  BY <1>1 DEF Good, Fine
<1>2. CASE o \in Then(queue_frame(s, "state"), Rest)
  <2>0. "state" \in Queueable
    BY DEF Queueable
  <2>1. \A q \in queue_frame(s, "state") : Good(q.w)
    BY <2>0, QueueFrameQueues, FineQueued, Zenon DEF Good
  <2>2. CASE o \in queue_frame(s, "state")
    BY <2>1, <2>2 DEF Good, Fine
  <2>3. ASSUME NEW q \in queue_frame(s, "state"), o \in Rest(q.w) PROVE Fine(o)
    <3> DEFINE v == SetShaken(q.w, TRUE)
    <3>1. PICK u \in send_time(v) : o \in Done(u)
      BY <2>3
    <3>2. TRUE \in BOOLEAN /\ Kept(q.w)
      BY <2>1 DEF Good
    <3>3. /\ Kept(v) /\ v.client.state = q.w.client.state
          /\ v.client.stream = q.w.client.stream
          /\ v.client.stream_active = q.w.client.stream_active
      BY <3>2, SetShakenKeeps, Zenon
    <3> HIDE DEF v
    <3>4. Good(v)
      BY <2>1, <3>3 DEF Good, Listed
    <3>5. Good(u)
      BY <3>3, <3>4, SendTimeKeeps, FineQueued
    <3> QED BY <3>1, <3>5 DEF Done, Good, Fine
  <2> QED BY <1>2, <2>2, <2>3 DEF Then
<1> QED BY <1>1, <1>2 DEF on_server_hello, Failed, SetShaken

LEMMA OnStartKeeps ==
  ASSUME NEW s, Good(s), NEW r, NEW o \in OnStreamStart(s, r)
  PROVE  Fine(o)
<1> DEFINE start == [codec |-> r.codec, rate |-> r.rate, channels |-> r.channels, bits |-> r.bits]
           u == SetStream(s, start)
           v == SetActive(u, TRUE)
<1>0. Kept(u) /\ u.client.stream = start
  <2> HIDE DEF start
  <2> QED BY SetStreamKeeps DEF Good
<1>1. CASE ~client_supports_codec(r.codec)
  <2>1. o = [ok |-> FALSE, w |-> u]
    BY <1>1 DEF OnStreamStart, Failed, SetStream
  <2> HIDE DEF u
  <2> QED BY <1>0, <2>1 DEF Fine
<1>2. CASE client_supports_codec(r.codec)
  <2>1. PICK t \in on_stream_start(v, start) : o \in Done(t)
    BY <1>2 DEF OnStreamStart, SetStream, SetActive
  <2>2. Kept(v) /\ v.client.stream = start
    <3> HIDE DEF start, u
    <3> QED BY <1>0, SetActiveKeeps, Zenon
  <2>3. start.codec = r.codec
    OBVIOUS
  <2> HIDE DEF start, v, u
  <2>4. Kept(t) /\ t.client = v.client
    BY <2>1, <2>2, OnStreamStartKeeps
  <2> QED BY <1>2, <2>1, <2>2, <2>3, <2>4 DEF Done, Fine, Listed
<1> QED BY <1>1, <1>2

LEMMA CommandKeeps ==
  ASSUME NEW s, Good(s), NEW r, NEW o \in OnCommand(s, r)
  PROVE  Fine(o)
<1> DEFINE v == SetDelay(s, r.delay)
<1>1. Good(v)
  BY SetDelayKeeps DEF Good, Listed
<1>2. PICK u : (u = s \/ u = v) /\ o \in Done(on_command(u, r))
  <2> DEFINE u == IF r.command = "set_static_delay" /\ r.delay >= 0 THEN v ELSE s
  <2>1. o \in Done(on_command(u, r))
    BY Zenon DEF OnCommand, SetDelay
  <2> QED BY <2>1, Zenon
<1> HIDE DEF v
<1>3. Good(u)
  BY <1>1, <1>2
<1>4. Kept(on_command(u, r)) /\ on_command(u, r).client = u.client
  BY <1>3, OnCommandKeeps DEF Good
<1> QED BY <1>2, <1>3, <1>4 DEF Done, Fine, Good, Listed

LEMMA TimeKeeps ==
  ASSUME NEW s, Good(s), NEW t \in eaf_sendspin_time_filter_exchange(s)
  PROVE  Good(t)
<1> DEFINE v == SetSync(s, TRUE)
<1>1. t = s \/ t = v
  BY DEF eaf_sendspin_time_filter_exchange, SetSync
<1>2. Kept(s) /\ TRUE \in BOOLEAN
  BY DEF Good
<1>3. /\ Kept(v) /\ v.client.stream = s.client.stream
      /\ v.client.stream_active = s.client.stream_active
  BY <1>2, SetSyncKeeps, Zenon
<1> HIDE DEF v
<1> QED BY <1>1, <1>3 DEF Good, Listed

LEMMA DispatchKeeps ==
  ASSUME NEW s, Good(s), NEW r, NEW o \in dispatch_text(s, r)
  PROVE  Fine(o)
<1> DEFINE v == SetActive(s, FALSE)
<1>0. Kept(s) /\ FALSE \in BOOLEAN
  BY DEF Good
<1>1. CASE o \in Failed(s) \/ o \in Done(s)
  BY <1>1 DEF Failed, Done, Good, Fine
<1>2. CASE o \in on_server_hello(s, r)
  BY <1>2, HelloKeeps
<1>3. CASE o \in UNION {Done(t) : t \in eaf_sendspin_time_filter_exchange(s)}
  BY <1>3, TimeKeeps DEF Done, Good, Fine
<1>4. CASE o \in OnStreamStart(s, r)
  BY <1>4, OnStartKeeps
<1>5. CASE o \in UNION {Done(t) : t \in on_stream_clear(s, r.player)}
  <2>1. PICK t \in on_stream_clear(s, r.player) : o \in Done(t)
    BY <1>5
  <2>2. Kept(t) /\ t.client = s.client
    BY <1>0, <2>1, OnStreamClearKeeps
  <2> QED BY <2>1, <2>2 DEF Done, Good, Fine, Listed
<1>6. CASE o \in Done(on_stream_end(v, r.player))
  <2>1. Kept(v) /\ v.client.stream_active = FALSE
    BY <1>0, SetActiveKeeps, Zenon
  <2> HIDE DEF v
  <2>2. Kept(on_stream_end(v, r.player)) /\ on_stream_end(v, r.player).client = v.client
    BY <2>1, OnStreamEndKeeps
  <2> QED BY <1>6, <2>1, <2>2 DEF Done, Fine, Listed
<1>7. CASE o \in OnCommand(s, r)
  BY <1>7, CommandKeeps
<1>8. \/ o \in Failed(s) \/ o \in Done(s) \/ o \in on_server_hello(s, r)
      \/ o \in UNION {Done(t) : t \in eaf_sendspin_time_filter_exchange(s)}
      \/ o \in OnStreamStart(s, r)
      \/ o \in UNION {Done(t) : t \in on_stream_clear(s, r.player)}
      \/ o \in Done(on_stream_end(v, r.player)) \/ o \in OnCommand(s, r)
  BY DEF dispatch_text, SetActive
<1> QED BY <1>1, <1>2, <1>3, <1>4, <1>5, <1>6, <1>7, <1>8

LEMMA HeardKeeps ==
  ASSUME NEW s, Good(s), NEW r
  PROVE  Good(Heard(s, r))
<1> DEFINE m == s.owed = <<>> \/ Head(s.owed) # r
           o == IF s.owed = <<>> THEN s.owed ELSE Tail(s.owed)
           t == Put(s, s.client, s.rx, s.board, s.net, o, m)
<1>0. /\ Kept(s) /\ StateOK(s) /\ ClientOK(s.client) /\ RxOK(s.rx) /\ NetOK(s.net) /\ ~s.net.torn
      /\ s.client.state # "closed" => s.net.due = Unflushed(s.client.wire, s.client.offset)
  BY KeptHas DEF Good
<1>1. Heard(s, r) = t
  <2>1. Heard(s, r) = [s EXCEPT !.misheard = m, !.owed = o]
    BY <1>0, Zenon DEF Heard
  <2> HIDE DEF m, o
  <2> QED BY <1>0, <2>1 DEF Put, StateOK
<1>2. Kept(t) /\ t.client = s.client
  <2> HIDE DEF m, o
  <2> QED BY <1>0, PutKeeps
<1> HIDE DEF t
<1> QED BY <1>1, <1>2 DEF Good, Listed

LEMMA DeliverKeeps ==
  ASSUME NEW s, Good(s), NEW op, NEW r, op = "binary" /\ r.cb = "audio" => Len(r.data) \in Nat,
         NEW o \in Deliver(s, op, r)
  PROVE  Fine(o)
<1>0. Kept(s)
  BY DEF Good
<1>1. CASE o \in queue_frame(s, "pong")
  <2>1. "pong" \in Queueable
    BY DEF Queueable
  <2>2. Queued(s, o.w)
    BY <1>0, <1>1, <2>1, QueueFrameQueues, Zenon
  <2> QED BY <2>2, FineQueued DEF Good, Fine
<1>2. CASE o \in Done(notify_closed(s))
  BY <1>0, <1>2, NotifyKeeps DEF Done, Good, Fine
<1>3. CASE o \in dispatch_text(s, r)
  BY <1>3, DispatchKeeps
<1>4. CASE /\ op = "binary" /\ r.cb = "audio"
           /\ o \in UNION {Done(t) : t \in on_audio(s, FramesPerUnit * Len(r.data))}
  <2> DEFINE n == FramesPerUnit * Len(r.data)
  <2>1. n \in Nat
    BY <1>4 DEF FramesPerUnit
  <2> HIDE DEF n
  <2>2. PICK t \in on_audio(s, n) : o \in Done(t)
    BY <1>4 DEF n
  <2>3. Kept(t) /\ t.client = s.client
    BY <1>0, <2>1, <2>2, OnAudioKeeps
  <2> QED BY <2>2, <2>3 DEF Done, Good, Fine, Listed
<1>5. CASE o \in Done(s)
  BY <1>5 DEF Done, Good, Fine
<1> QED BY <1>1, <1>2, <1>3, <1>4, <1>5 DEF Deliver

LEMMA MessageKeeps ==
  ASSUME NEW s, Good(s), NEW msg, IsSeq(msg.body), NEW o \in on_message(s, msg)
  PROVE  Fine(o)
<1>1. PICK r \in Reading(msg) : o \in Deliver(Heard(s, r), msg.op, r)
  BY DEF on_message
<1>2. Good(Heard(s, r))
  BY HeardKeeps
<1>3. msg.op = "binary" /\ r.cb = "audio" => Len(r.data) \in Nat
  <2> SUFFICES ASSUME msg.op = "binary", r.cb = "audio" PROVE Len(r.data) \in Nat
    OBVIOUS
  <2>1. r \in IF msg.body # <<>> /\ msg.body[1].k = "audio"
              THEN {[cb |-> "audio", data |-> Tail(msg.body)]} ELSE {[cb |-> "ignore"]}
    BY <1>1 DEF Reading
  <2>2. msg.body # <<>> /\ r.data = Tail(msg.body)
    <3> DEFINE x == Tail(msg.body)
               p == msg.body # <<>> /\ msg.body[1].k = "audio"
    <3>1. r \in IF p THEN {[cb |-> "audio", data |-> x]} ELSE {[cb |-> "ignore"]}
      BY <2>1
    <3>2. p => msg.body # <<>>
      OBVIOUS
    <3> HIDE DEF x, p
    <3>3. CASE p
      BY <3>1, <3>2, <3>3 DEF x
    <3>4. CASE ~p
      BY <3>1, <3>4
    <3> QED BY <3>3, <3>4
  <2> DEFINE b == msg.body
             T == {b[i] : i \in DOMAIN b}
  <2>3. b \in Seq(T)
    BY DEF IsSeq
  <2> HIDE DEF b, T
  <2>4. b # <<>> => Len(Tail(b)) \in Nat
    BY <2>3
  <2> QED BY <2>2, <2>4 DEF b
<1> QED BY <1>1, <1>2, <1>3, DeliverKeeps

----------------------------------------------------------------------------
(* sendspin_ws.c: the receiver. *)

RxOf(header, needed, op, fin, ready, length, used, frag, mop, message, control) ==
  [header |-> header, needed |-> needed, op |-> op, fin |-> fin, ready |-> ready,
   length |-> length, used |-> used, fragmenting |-> frag, message_op |-> mop,
   message |-> message, control |-> control]

(* What a buffer can take of a frame. *)
RoomFor(op, message, control) ==
  IF op \in Control THEN ControlUnits - Len(control) ELSE MessageUnits - Len(message)

Fits(message, control) ==
  /\ IsSeq(message) /\ Len(message) <= MessageUnits
  /\ IsSeq(control) /\ Len(control) <= ControlUnits

LEMMA RxIs ==
  ASSUME NEW header \in Nat, NEW needed \in Nat, NEW op, NEW fin, NEW ready \in BOOLEAN,
         NEW length \in Nat, NEW used \in Nat, NEW frag, NEW mop, NEW message, NEW control,
         Fits(message, control), header <= needed, ready => header > 0,
         ready => used <= length /\ length - used <= RoomFor(op, message, control)
  PROVE  LET r == RxOf(header, needed, op, fin, ready, length, used, frag, mop, message, control) IN
         /\ RxOK(r) /\ r.header = header /\ r.needed = needed /\ r.op = op /\ r.ready = ready
         /\ r.length = length /\ r.used = used /\ r.message = message /\ r.control = control
<1> DEFINE r == RxOf(header, needed, op, fin, ready, length, used, frag, mop, message, control)
<1>1. /\ r.header = header /\ r.needed = needed /\ r.op = op /\ r.ready = ready /\ r.fin = fin
      /\ r.length = length /\ r.used = used /\ r.message = message /\ r.control = control
      /\ r.fragmenting = frag /\ r.message_op = mop
  BY DEF RxOf
<1>2. r \in [header : Nat, needed : Nat, op : {op}, fin : {fin}, ready : BOOLEAN,
             length : Nat, used : Nat, fragmenting : {frag}, message_op : {mop},
             message : {message}, control : {control}]
  BY DEF RxOf
<1> HIDE DEF r
<1>3. Room(r) = RoomFor(op, message, control)
  BY <1>1 DEF Room, RoomFor
<1>4. RxOK(r)
  BY <1>1, <1>2, <1>3 DEF RxOK, Fits
<1> QED BY <1>1, <1>4 DEF r

LEMMA RxHas ==
  ASSUME NEW r, RxOK(r)
  PROVE  /\ r.header \in Nat /\ r.needed \in Nat /\ r.ready \in BOOLEAN /\ r.length \in Nat
         /\ r.used \in Nat /\ Fits(r.message, r.control) /\ r.header <= r.needed
         /\ r.ready => r.header > 0
         /\ r.ready => r.used <= r.length /\ r.length - r.used <= RoomFor(r.op, r.message, r.control)
<1>1. Room(r) = RoomFor(r.op, r.message, r.control)
  BY DEF Room, RoomFor
<1> QED BY <1>1 DEF RxOK, Fits

LEMMA RoomIs ==
  ASSUME NEW message, NEW control, Fits(message, control), NEW op
  PROVE  /\ RoomFor(op, message, control) \in Nat /\ ControlUnits \in Nat /\ MessageUnits \in Nat
         /\ Len(message) \in Nat /\ Len(control) \in Nat
<1>1. ControlUnits \in Nat /\ MessageUnits \in Nat
  BY SendspinAssumption
<1>2. Len(message) \in Nat /\ Len(control) \in Nat
  BY SeqHas DEF Fits
<1> QED BY <1>1, <1>2 DEF RoomFor, Fits

LEMMA EmptyFits ==
  ASSUME NEW message, NEW control, Fits(message, control)
  PROVE  Fits(<<>>, control) /\ Fits(message, <<>>) /\ Fits(<<>>, <<>>)
<1>1. IsSeq(<<>>) /\ Len(<<>>) = 0
  <2>1. <<>> \in Seq({})
    OBVIOUS
  <2> QED BY <2>1, SeqIs
<1>2. ControlUnits \in Nat /\ MessageUnits \in Nat
  BY SendspinAssumption
<1> QED BY <1>1, <1>2 DEF Fits

LEMMA InitRxOK == RxOK(eaf_sendspin_ws_rx_init)
<1>1. Fits(<<>>, <<>>)
  <2>1. IsSeq(<<>>) /\ Len(<<>>) = 0
    <3>1. <<>> \in Seq({})
      OBVIOUS
    <3> QED BY <3>1, SeqIs
  <2>2. ControlUnits \in Nat /\ MessageUnits \in Nat
    BY SendspinAssumption
  <2> QED BY <2>1, <2>2 DEF Fits
<1>2. PICK no \in BOOLEAN, yes \in BOOLEAN : no = FALSE /\ yes = TRUE
  BY Truths
<1>3. RxOK(RxOf(0, 0, "none", no, no, 0, 0, no, "none", <<>>, <<>>))
  BY <1>1, <1>2, RxIs
<1> QED BY <1>2, <1>3 DEF eaf_sendspin_ws_rx_init, RxOf

WithHeader(r, n, op, fin, len) == [r EXCEPT !.header = 1, !.needed = n, !.op = op, !.fin = fin, !.length = len]

LEMMA WithHeaderIs ==
  ASSUME NEW r, RxOK(r), NEW n, NEW op, NEW fin, NEW len
  PROVE  WithHeader(r, n, op, fin, len) =
           RxOf(1, n, op, fin, r.ready, len, r.used, r.fragmenting, r.message_op,
                r.message, r.control)
<1> DEFINE x == WithHeader(r, n, op, fin, len)
<1>1. x \in [header : {1}, needed : {n}, op : {op}, fin : {fin}, ready : {r.ready}, length :
             {len}, used : {r.used}, fragmenting : {r.fragmenting}, message_op :
             {r.message_op}, message : {r.message}, control : {r.control}]
  BY DEF RxOK, WithHeader
<1> HIDE DEF x
<1>2. x = RxOf(1, n, op, fin, r.ready, len, r.used, r.fragmenting, r.message_op,
                r.message, r.control)
  BY <1>1 DEF RxOf
<1> QED BY <1>2 DEF x

WithRead(r, n) == [r EXCEPT !.header = n]

LEMMA WithReadIs ==
  ASSUME NEW r, RxOK(r), NEW n
  PROVE  WithRead(r, n) =
           RxOf(n, r.needed, r.op, r.fin, r.ready, r.length, r.used, r.fragmenting,
                r.message_op, r.message, r.control)
<1> DEFINE x == WithRead(r, n)
<1>1. x \in [header : {n}, needed : {r.needed}, op : {r.op}, fin : {r.fin}, ready : {r.ready},
             length : {r.length}, used : {r.used}, fragmenting : {r.fragmenting},
             message_op : {r.message_op}, message : {r.message}, control :
             {r.control}]
  BY DEF RxOK, WithRead
<1> HIDE DEF x
<1>2. x = RxOf(n, r.needed, r.op, r.fin, r.ready, r.length, r.used, r.fragmenting,
                r.message_op, r.message, r.control)
  BY <1>1 DEF RxOf
<1> QED BY <1>2 DEF x

WithMessage(r, m, op) == [r EXCEPT !.message = m, !.message_op = op]

LEMMA WithMessageIs ==
  ASSUME NEW r, RxOK(r), NEW m, NEW op
  PROVE  WithMessage(r, m, op) =
           RxOf(r.header, r.needed, r.op, r.fin, r.ready, r.length, r.used,
                r.fragmenting, op, m, r.control)
<1> DEFINE x == WithMessage(r, m, op)
<1>1. x \in [header : {r.header}, needed : {r.needed}, op : {r.op}, fin : {r.fin}, ready :
             {r.ready}, length : {r.length}, used : {r.used}, fragmenting :
             {r.fragmenting}, message_op : {op}, message : {m}, control :
             {r.control}]
  BY DEF RxOK, WithMessage
<1> HIDE DEF x
<1>2. x = RxOf(r.header, r.needed, r.op, r.fin, r.ready, r.length, r.used,
                r.fragmenting, op, m, r.control)
  BY <1>1 DEF RxOf
<1> QED BY <1>2 DEF x

WithControl(r, c) == [r EXCEPT !.control = c]

LEMMA WithControlIs ==
  ASSUME NEW r, RxOK(r), NEW c
  PROVE  WithControl(r, c) =
           RxOf(r.header, r.needed, r.op, r.fin, r.ready, r.length, r.used,
                r.fragmenting, r.message_op, r.message, c)
<1> DEFINE x == WithControl(r, c)
<1>1. x \in [header : {r.header}, needed : {r.needed}, op : {r.op}, fin : {r.fin}, ready :
             {r.ready}, length : {r.length}, used : {r.used}, fragmenting :
             {r.fragmenting}, message_op : {r.message_op}, message : {r.message},
             control : {c}]
  BY DEF RxOK, WithControl
<1> HIDE DEF x
<1>2. x = RxOf(r.header, r.needed, r.op, r.fin, r.ready, r.length, r.used,
                r.fragmenting, r.message_op, r.message, c)
  BY <1>1 DEF RxOf
<1> QED BY <1>2 DEF x

WithReady(r, yes, used) == [r EXCEPT !.ready = yes, !.used = used]

LEMMA WithReadyIs ==
  ASSUME NEW r, RxOK(r), NEW yes, NEW used
  PROVE  WithReady(r, yes, used) =
           RxOf(r.header, r.needed, r.op, r.fin, yes, r.length, used, r.fragmenting,
                r.message_op, r.message, r.control)
<1> DEFINE x == WithReady(r, yes, used)
<1>1. x \in [header : {r.header}, needed : {r.needed}, op : {r.op}, fin : {r.fin}, ready :
             {yes}, length : {r.length}, used : {used}, fragmenting :
             {r.fragmenting}, message_op : {r.message_op}, message : {r.message},
             control : {r.control}]
  BY DEF RxOK, WithReady
<1> HIDE DEF x
<1>2. x = RxOf(r.header, r.needed, r.op, r.fin, yes, r.length, used, r.fragmenting,
                r.message_op, r.message, r.control)
  BY <1>1 DEF RxOf
<1> QED BY <1>2 DEF x

WithTaken(r, used, m, c) == [r EXCEPT !.used = used, !.message = m, !.control = c]

LEMMA WithTakenIs ==
  ASSUME NEW r, RxOK(r), NEW used, NEW m, NEW c
  PROVE  WithTaken(r, used, m, c) =
           RxOf(r.header, r.needed, r.op, r.fin, r.ready, r.length, used,
                r.fragmenting, r.message_op, m, c)
<1> DEFINE x == WithTaken(r, used, m, c)
<1>1. x \in [header : {r.header}, needed : {r.needed}, op : {r.op}, fin : {r.fin}, ready :
             {r.ready}, length : {r.length}, used : {used}, fragmenting :
             {r.fragmenting}, message_op : {r.message_op}, message : {m}, control :
             {c}]
  BY DEF RxOK, WithTaken
<1> HIDE DEF x
<1>2. x = RxOf(r.header, r.needed, r.op, r.fin, r.ready, r.length, used,
                r.fragmenting, r.message_op, m, c)
  BY <1>1 DEF RxOf
<1> QED BY <1>2 DEF x

LEMMA HeaderKeeps ==
  ASSUME NEW r, RxOK(r), r.header = 0, NEW u, u.k = "h" => {u.len, u.ext} \subseteq Nat,
         NEW x \in HeaderBytes(r, u)
  PROVE  RxOK(x)
<1>1. PICK f \in Headers(u) : x = WithHeader(r, 1 + f.ext, f.op, f.fin, f.len)
  BY DEF HeaderBytes, WithHeader
<1>2. f.ext \in Nat /\ f.len \in Nat
  <2>1. CASE u.k = "h"
    BY <2>1 DEF Headers
  <2>2. CASE u.k # "h"
    <3>1. f \in [op : {"text", "binary", "close", "reserved"}, fin : {TRUE}, ext : {0}, len : {0, 1}]
      BY <1>1, <2>2 DEF Headers
    <3>2. f.ext \in {0} /\ f.len \in {0, 1}
      BY <3>1
    <3> QED BY <3>2
  <2> QED BY <2>1, <2>2
<1>3. x = RxOf(1, 1 + f.ext, f.op, f.fin, r.ready, f.len, r.used, r.fragmenting, r.message_op,
               r.message, r.control)
  BY <1>1, WithHeaderIs
<1>4. ~r.ready /\ r.ready \in BOOLEAN /\ r.used \in Nat /\ Fits(r.message, r.control)
  BY RxHas
<1>5. 1 + f.ext \in Nat /\ 1 <= 1 + f.ext
  BY <1>2
<1> QED BY <1>2, <1>3, <1>4, <1>5, RxIs

LEMMA ReadKeeps ==
  ASSUME NEW r, RxOK(r), r.header > 0
  PROVE  LET x == WithRead(r, r.needed) IN RxOK(x) /\ x.header > 0 /\ x.ready = r.ready
<1> DEFINE x == WithRead(r, r.needed)
<1>1. x = RxOf(r.needed, r.needed, r.op, r.fin, r.ready, r.length, r.used, r.fragmenting,
               r.message_op, r.message, r.control)
  BY WithReadIs
<1>2. /\ r.header \in Nat /\ r.needed \in Nat /\ r.ready \in BOOLEAN /\ r.length \in Nat
      /\ r.used \in Nat /\ Fits(r.message, r.control) /\ r.header <= r.needed
      /\ r.ready => r.used <= r.length /\ r.length - r.used <= RoomFor(r.op, r.message, r.control)
  BY RxHas
<1>3. r.needed > 0 /\ r.needed <= r.needed
  BY <1>2
<1> HIDE DEF x
<1> QED BY <1>1, <1>2, <1>3, RxIs DEF x

LEMMA TargetKeeps ==
  ASSUME NEW r, RxOK(r), ~r.ready
  PROVE  LET x == Target(r) IN
         RxOK(x) /\ ~x.ready /\ x.header = r.header /\ x.length = r.length /\ x.op = r.op
<1>0. /\ r.header \in Nat /\ r.needed \in Nat /\ r.ready \in BOOLEAN /\ r.length \in Nat
      /\ r.used \in Nat /\ Fits(r.message, r.control) /\ r.header <= r.needed
  BY RxHas
<1>1. CASE Target(r) = WithMessage(r, <<>>, r.op)
  <2>1. Target(r) = RxOf(r.header, r.needed, r.op, r.fin, r.ready, r.length, r.used, r.fragmenting,
                         r.op, <<>>, r.control)
    BY <1>1, WithMessageIs
  <2>2. Fits(<<>>, r.control)
    BY <1>0, EmptyFits
  <2> QED BY <1>0, <2>1, <2>2, RxIs
<1>2. CASE Target(r) = WithControl(r, <<>>)
  <2>1. Target(r) = RxOf(r.header, r.needed, r.op, r.fin, r.ready, r.length, r.used, r.fragmenting,
                         r.message_op, r.message, <<>>)
    BY <1>2, WithControlIs
  <2>2. Fits(r.message, <<>>)
    BY <1>0, EmptyFits
  <2> QED BY <1>0, <2>1, <2>2, RxIs
<1>3. CASE Target(r) = r
  BY <1>3
<1> QED BY <1>1, <1>2, <1>3 DEF Target, WithMessage, WithControl

LEMMA BeginKeeps ==
  ASSUME NEW r, RxOK(r), ~r.ready, r.header > 0, NEW o \in begin_frame(r)
  PROVE  RxOK(o.w) /\ (o.ok => o.w.ready)
<1> DEFINE t == Target(r)
<1>1. RxOK(t) /\ ~t.ready /\ t.header = r.header /\ t.length = r.length /\ t.op = r.op
  BY TargetKeeps
<1>2. CASE o = [ok |-> FALSE, w |-> r]
  BY <1>2
<1>3. CASE o = [ok |-> FALSE, w |-> t]
  BY <1>1, <1>3
<1>4. CASE ~(r.length > Room(t)) /\ o = [ok |-> TRUE, w |-> WithReady(t, TRUE, 0)]
  <2> HIDE DEF t
  <2>0. PICK no \in BOOLEAN, yes \in BOOLEAN : no = FALSE /\ yes = TRUE
    BY Truths
  <2>1. /\ t.header \in Nat /\ t.needed \in Nat /\ t.length \in Nat
        /\ Fits(t.message, t.control) /\ t.header <= t.needed
    BY <1>1, RxHas
  <2>2. Room(t) = RoomFor(t.op, t.message, t.control) /\ RoomFor(t.op, t.message, t.control) \in Nat
    BY <2>1, RoomIs DEF Room, RoomFor
  <2>3. 0 <= t.length /\ t.length - 0 <= RoomFor(t.op, t.message, t.control) /\ t.header > 0
    BY <1>1, <1>4, <2>1, <2>2
  <2> DEFINE x == RxOf(t.header, t.needed, t.op, t.fin, yes, t.length, 0, t.fragmenting,
                       t.message_op, t.message, t.control)
  <2>4. RxOK(x) /\ x.ready = yes
    BY <2>1, <2>3, RxIs
  <2>5. WithReady(t, yes, 0) = x
    BY <1>1, WithReadyIs
  <2> HIDE DEF x
  <2>6. o = [ok |-> TRUE, w |-> x]
    BY <1>4, <2>0, <2>5, Zenon
  <2> QED BY <2>0, <2>4, <2>6
<1>5. \/ o = [ok |-> FALSE, w |-> r] \/ o = [ok |-> FALSE, w |-> t]
      \/ ~(r.length > Room(t)) /\ o = [ok |-> TRUE, w |-> WithReady(t, TRUE, 0)]
  BY DEF begin_frame, Failed, Done, WithReady
<1> QED BY <1>2, <1>3, <1>4, <1>5

LEMMA TakeIs ==
  ASSUME NEW r, RxOK(r), r.ready, NEW units, IsSeq(units)
  PROVE  /\ Take(r, units) \in Nat /\ Take(r, units) <= Len(units)
         /\ Take(r, units) <= r.length - r.used
<1>1. r.length \in Nat /\ r.used \in Nat /\ r.used <= r.length
  BY RxHas
<1>2. Len(units) \in Nat
  BY SeqHas
<1> DEFINE a == Len(units)
           b == r.length - r.used
           m == Min({a, b})
<1>3. a \in Int /\ b \in Int /\ a \in Nat /\ b \in Nat
  BY <1>1, <1>2
<1> HIDE DEF a, b
<1>4. m \in {a, b} /\ m <= a /\ m <= b
  BY <1>3, MinOfTwo
<1> HIDE DEF m
<1>5. m \in Nat /\ m <= a /\ m <= b
  BY <1>3, <1>4
<1> QED BY <1>5 DEF Take, m, a, b

LEMMA TakenKeeps ==
  ASSUME NEW r, RxOK(r), NEW used \in Nat, NEW message, NEW control,
         Fits(message, control), used <= r.length,
         r.length - used <= RoomFor(r.op, message, control)
  PROVE  RxOK(WithTaken(r, used, message, control))
<1>0. /\ r.header \in Nat /\ r.needed \in Nat /\ r.ready \in BOOLEAN /\ r.length \in Nat
      /\ r.header <= r.needed /\ (r.ready => r.header > 0)
  BY RxHas
<1>1. WithTaken(r, used, message, control) =
        RxOf(r.header, r.needed, r.op, r.fin, r.ready, r.length, used, r.fragmenting,
             r.message_op, message, control)
  BY WithTakenIs
<1> QED BY <1>0, <1>1, RxIs

LEMMA PayloadKeeps ==
  ASSUME NEW r, RxOK(r), r.ready, NEW units, IsSeq(units), Len(units) <= r.length - r.used
  PROVE  RxOK(TakePayload(r, units))
<1>0. /\ r.header \in Nat /\ r.needed \in Nat /\ r.ready \in BOOLEAN /\ r.length \in Nat
      /\ r.used \in Nat /\ Fits(r.message, r.control) /\ r.header <= r.needed /\ r.header > 0
      /\ r.used <= r.length /\ r.length - r.used <= RoomFor(r.op, r.message, r.control)
  BY RxHas
<1>1. Len(units) \in Nat
  BY SeqHas
<1>2. /\ ControlUnits \in Nat /\ MessageUnits \in Nat /\ Len(r.message) \in Nat
      /\ Len(r.control) \in Nat
  BY <1>0, RoomIs
<1> DEFINE used == r.used + Len(units)
<1>3. used \in Nat /\ used <= r.length /\ r.length - used = (r.length - r.used) - Len(units)
  BY <1>0, <1>1
<1>4. CASE r.op \in Control
  <2> DEFINE c == r.control \o units
  <2>1. IsSeq(c) /\ Len(c) = Len(r.control) + Len(units)
    BY <1>0, SeqCat DEF Fits
  <2>2. TakePayload(r, units) = WithTaken(r, used, r.message, c)
    <3>1. TakePayload(r, units) = [[r EXCEPT !.used = used] EXCEPT !.control = c]
      BY <1>4 DEF TakePayload, RxOK
    <3> HIDE DEF used, c
    <3> QED BY <3>1 DEF WithTaken, RxOK
  <2> HIDE DEF used, c
  <2>3. RoomFor(r.op, r.message, r.control) = ControlUnits - Len(r.control)
        /\ RoomFor(r.op, r.message, c) = ControlUnits - Len(c)
    BY <1>4 DEF RoomFor
  <2>4. Fits(r.message, c) /\ r.length - used <= RoomFor(r.op, r.message, c)
    <3>1. Len(c) <= ControlUnits /\ r.length - used <= ControlUnits - Len(c)
      BY <1>0, <1>1, <1>2, <1>3, <2>1, <2>3
    <3> QED BY <1>0, <2>1, <2>3, <3>1 DEF Fits
  <2> QED BY <1>3, <2>2, <2>4, TakenKeeps
<1>5. CASE r.op \notin Control
  <2> DEFINE m == r.message \o units
  <2>1. IsSeq(m) /\ Len(m) = Len(r.message) + Len(units)
    BY <1>0, SeqCat DEF Fits
  <2>2. TakePayload(r, units) = WithTaken(r, used, m, r.control)
    <3>1. TakePayload(r, units) = [[r EXCEPT !.used = used] EXCEPT !.message = m]
      BY <1>5 DEF TakePayload, RxOK
    <3> HIDE DEF used, m
    <3> QED BY <3>1 DEF WithTaken, RxOK
  <2> HIDE DEF used, m
  <2>3. RoomFor(r.op, r.message, r.control) = MessageUnits - Len(r.message)
        /\ RoomFor(r.op, m, r.control) = MessageUnits - Len(m)
    BY <1>5 DEF RoomFor
  <2>4. Fits(m, r.control) /\ r.length - used <= RoomFor(r.op, m, r.control)
    <3>1. Len(m) <= MessageUnits /\ r.length - used <= MessageUnits - Len(m)
      BY <1>0, <1>1, <1>2, <1>3, <2>1, <2>3
    <3> QED BY <1>0, <2>1, <2>3, <3>1 DEF Fits
  <2> QED BY <1>3, <2>2, <2>4, TakenKeeps
<1> QED BY <1>4, <1>5

LEMMA NextFrameKeeps ==
  ASSUME NEW r, RxOK(r)
  PROVE  RxOK(NextFrame(r))
<1> DEFINE m == [eaf_sendspin_ws_rx_init EXCEPT !.fragmenting = TRUE, !.message_op = r.message_op,
                                                !.message = r.message]
<1>1. CASE NextFrame(r) = m
  <2>1. PICK no \in BOOLEAN, yes \in BOOLEAN : no = FALSE /\ yes = TRUE
    BY Truths
  <2>2. Fits(r.message, <<>>)
    BY RxHas, EmptyFits
  <2>3. RxOK(RxOf(0, 0, "none", no, no, 0, 0, yes, r.message_op, r.message, <<>>))
    <3>1. ASSUME NEW message, NEW mop, Fits(message, <<>>)
          PROVE  RxOK(RxOf(0, 0, "none", no, no, 0, 0, yes, mop, message, <<>>))
      <4>1. /\ 0 \in Nat /\ 0 <= 0 /\ (no => 0 > 0)
            /\ no => 0 <= 0 /\ 0 - 0 <= RoomFor("none", message, <<>>)
        BY <2>1
      <4> QED BY <2>1, <3>1, <4>1, RxIs, ZenonT(90)
    <3> QED BY <2>2, <3>1
  <2>4. m = RxOf(0, 0, "none", no, no, 0, 0, yes, r.message_op, r.message, <<>>)
    <3>1. m = RxOf(0, 0, "none", FALSE, FALSE, 0, 0, TRUE, r.message_op, r.message, <<>>)
      <4>1. m \in [header : {0}, needed : {0}, op : {"none"}, fin : {FALSE}, ready : {FALSE},
                   length : {0}, used : {0}, fragmenting : {TRUE}, message_op : {r.message_op},
                   message : {r.message}, control : {<<>>}]
        BY DEF eaf_sendspin_ws_rx_init
      <4> HIDE DEF m
      <4> QED BY <4>1 DEF RxOf
    <3> QED BY <2>1, <3>1, Zenon
  <2> QED BY <1>1, <2>3, <2>4
<1>2. CASE NextFrame(r) = eaf_sendspin_ws_rx_init
  BY <1>2, InitRxOK
<1> QED BY <1>1, <1>2 DEF NextFrame

SetRx(s, r) == [s EXCEPT !.rx = r]
SetRefused(s, r, m) == [s EXCEPT !.rx = r, !.misheard = m]

LEMMA RxKeeps ==
  ASSUME NEW s, Good(s), NEW r, RxOK(r), NEW m
  PROVE  /\ Good(SetRx(s, r)) /\ SetRx(s, r).rx = r
         /\ Good(SetRefused(s, r, m)) /\ SetRefused(s, r, m).rx = r
<1>0. /\ Kept(s) /\ StateOK(s) /\ ClientOK(s.client) /\ NetOK(s.net) /\ ~s.net.torn
      /\ s.client.state # "closed" => s.net.due = Unflushed(s.client.wire, s.client.offset)
  BY KeptHas DEF Good
<1>1. SetRx(s, r) = Put(s, s.client, r, s.board, s.net, s.owed, s.misheard)
  BY <1>0 DEF SetRx, Put, StateOK
<1>2. SetRefused(s, r, m) = Put(s, s.client, r, s.board, s.net, s.owed, m)
  BY <1>0 DEF SetRefused, Put, StateOK
<1>3. \A x : LET t == Put(s, s.client, r, s.board, s.net, s.owed, x) IN
             Kept(t) /\ t.client = s.client /\ t.rx = r
  BY <1>0, PutKeeps
<1> QED BY <1>1, <1>2, <1>3 DEF Good, Listed

LEMMA FeedPayloadKeeps ==
  ASSUME NEW s, Good(s), s.rx.ready, NEW units, Units(units), NEW l \in FeedPayload(s, units)
  PROVE  Fine(l) /\ Units(l.left)
<1> DEFINE take == Take(s.rx, units)
           p == SubSeq(units, 1, take)
           u == SetRx(s, TakePayload(s.rx, p))
           called == IF Completes(u.rx) THEN on_message(u, Completed(u.rx)) ELSE Done(u)
           Rest(t) == Done(SetRx(t, NextFrame(t.rx)))
           ended == IF FrameComplete(u.rx) THEN Then(called, Rest) ELSE Done(u)
           left == SubSeq(units, take + 1, Len(units))
<1>0. RxOK(s.rx) /\ IsSeq(units) /\ Len(units) \in Nat
  BY KeptHas, SeqHas DEF Good, Units
<1>1. take \in Nat /\ take <= Len(units) /\ take <= s.rx.length - s.rx.used
  BY <1>0, TakeIs
<1>2. PICK o \in ended : l = [ok |-> o.ok, w |-> o.w, left |-> left]
  BY DEF FeedPayload, SetRx
<1> HIDE DEF take
<1>3. IsSeq(p) /\ Len(p) = take
  <2>0. 1 \in Nat /\ 1 >= 1
    OBVIOUS
  <2>1. IsSeq(p) /\ Len(p) = IF 1 <= take THEN take - 1 + 1 ELSE 0
    BY <1>0, <1>1, <2>0, SeqPart, Zenon
  <2> HIDE DEF p
  <2> QED BY <1>1, <2>1
<1>4. Units(left)
  <2>1. take + 1 \in Nat /\ take + 1 >= 1 /\ Len(units) <= Len(units)
    BY <1>0, <1>1
  <2> QED BY <1>0, <2>1, UnitsPart
<1> HIDE DEF p, left
<1>5. RxOK(TakePayload(s.rx, p))
  BY <1>0, <1>1, <1>3, PayloadKeeps
<1>6. Good(u) /\ RxOK(u.rx)
  BY <1>5, RxKeeps
<1> HIDE DEF u
<1>7. \A q \in called : Fine(q)
  <2>1. CASE Completes(u.rx)
    <3> DEFINE msg == Completed(u.rx)
    <3>1. IsSeq(msg.body)
      <4>1. IsSeq(u.rx.message) /\ IsSeq(u.rx.control)
        BY <1>6, RxHas DEF Fits
      <4> QED BY <4>1 DEF Completed
    <3> HIDE DEF msg
    <3>2. called = on_message(u, msg)
      BY <2>1 DEF msg
    <3> QED BY <1>6, <3>1, <3>2, MessageKeeps
  <2>2. CASE ~Completes(u.rx)
    <3>1. called = Done(u)
      BY <2>2
    <3> QED BY <1>6, <3>1, FineDone
  <2> QED BY <2>1, <2>2
<1> HIDE DEF called
<1>8. Fine(o)
  <2>1. CASE o \in Done(u)
    BY <1>6, <2>1, FineDone
  <2>2. CASE o \in called
    BY <1>7, <2>2
  <2>3. ASSUME NEW q \in called, q.ok, o \in Rest(q.w) PROVE Fine(o)
    <3>1. Good(q.w) /\ RxOK(q.w.rx)
      BY <1>7, <2>3, KeptHas DEF Fine, Good
    <3>2. RxOK(NextFrame(q.w.rx))
      BY <3>1, NextFrameKeeps
    <3>3. Good(SetRx(q.w, NextFrame(q.w.rx)))
      BY <3>1, <3>2, RxKeeps
    <3> QED BY <2>3, <3>3, FineDone
  <2> QED BY <1>2, <2>1, <2>2, <2>3 DEF Then
<1> QED BY <1>2, <1>4, <1>8 DEF Fine

LEMMA BegunKeeps ==
  ASSUME NEW s, Good(s), s.rx.header > 0, NEW o \in Begun(s)
  PROVE  Good(o.w) /\ (o.ok => o.w.rx.ready)
<1>0. RxOK(s.rx)
  BY KeptHas DEF Good
<1>1. CASE s.rx.ready
  BY <1>1 DEF Begun, Done
<1>2. CASE ~s.rx.ready
  <2>1. PICK q \in begin_frame(s.rx) :
          o = [ok |-> q.ok, w |-> SetRefused(s, q.w, ~q.ok /\ ~TooLarge(s))]
    BY <1>2 DEF Begun, SetRefused
  <2>2. RxOK(q.w) /\ (q.ok => q.w.ready)
    BY <1>0, <1>2, BeginKeeps
  <2> DEFINE m == ~q.ok /\ ~TooLarge(s)
             v == SetRefused(s, q.w, m)
  <2>3. Good(v) /\ v.rx = q.w
    <3> HIDE DEF m
    <3> QED BY <2>2, RxKeeps
  <2>4. o.ok = q.ok /\ o.w = v
    BY <2>1
  <2> HIDE DEF v
  <2> QED BY <2>2, <2>3, <2>4
<1> QED BY <1>1, <1>2

----------------------------------------------------------------------------
(* eaf_sendspin_ws_rx_feed: the loop over what was received. *)

FeedOK(l) == l \in [ok : {l.ok}, w : {l.w}, left : {l.left}] /\ Fine(l) /\ Units(l.left)

FeedLoop(n, start) == Loop(n, start, FeedPass)
FeedPasses(loops) == UNION {FeedPass(l) : l \in loops}

(* The loop is a function of the number of passes. *)
FeedRun(f, n, start) ==
  /\ f[0] = {start} /\ f[n] = FeedLoop(n, start)
  /\ \A i \in 0 .. n : i > 0 => f[i] = FeedPasses(f[i - 1])

LEMMA FeedUnrolled ==
  ASSUME NEW n \in Nat, NEW start
  PROVE  \E f : FeedRun(f, n, start)
<1> DEFINE Is(f, i) == f[i] = IF i = 0 THEN {start} ELSE FeedPasses(f[i - 1])
           All(f) == f = [i \in 0 .. n |-> IF i = 0 THEN {start} ELSE FeedPasses(f[i - 1])]
           T == {k \in Nat : \E f : \A i \in 0 .. k : Is(f, i)}
<1>1. 0 \in T
  <2>1. \A i \in 0 .. 0 : Is([j \in {0} |-> {start}], i)
    OBVIOUS
  <2> QED BY <2>1
<1>2. \A k \in Nat : k \in T => k + 1 \in T
  <2> SUFFICES ASSUME NEW k \in Nat, NEW g, \A i \in 0 .. k : Is(g, i) PROVE k + 1 \in T
    OBVIOUS
  <2>1. PICK h : \A i \in 0 .. k + 1 : h[i] = IF i = k + 1 THEN FeedPasses(g[k]) ELSE g[i]
    BY Extended
  <2>2. \A i \in 0 .. k + 1 : Is(h, i)
    BY <2>1
  <2> QED BY <2>2
<1>3. PICK f : \A i \in 0 .. n : Is(f, i)
  <2> HIDE DEF T
  <2>1. n \in T
    BY <1>1, <1>2, NatSet
  <2> QED BY <2>1 DEF T
<1> DEFINE d == [i \in 0 .. n |-> f[i]]
<1>4. All(d)
  <2>1. \A i \in 0 .. n : d[i] = IF i = 0 THEN {start} ELSE FeedPasses(d[i - 1])
    <3> SUFFICES ASSUME NEW i \in 0 .. n
                 PROVE  f[i] = IF i = 0 THEN {start} ELSE FeedPasses(d[i - 1])
      OBVIOUS
    <3>1. i # 0 => i - 1 \in 0 .. n
      OBVIOUS
    <3> QED BY <1>3, <3>1
  <2> QED BY <2>1
<1> DEFINE c == CHOOSE f1 : All(f1)
           e == [i \in 0 .. n |-> IF i = 0 THEN {start} ELSE FeedPasses(c[i - 1])]
<1>5. All(c)
  <2> HIDE DEF All
  <2> QED BY <1>4
<1>6. FeedLoop(n, start) = c[n]
  BY DEF FeedLoop, Loop, FeedPasses
<1> HIDE DEF c
<1>7. \A i \in 0 .. n : e[i] = IF i = 0 THEN {start} ELSE FeedPasses(c[i - 1])
  OBVIOUS
<1>8. c = e
  BY <1>5, Zenon
<1> HIDE DEF e
<1>9. FeedRun(c, n, start)
  BY <1>6, <1>7, <1>8 DEF FeedRun
<1> QED BY <1>9

(* What a pass keeps, the loop keeps. *)
LEMMA FeedKeeps ==
  ASSUME NEW n \in Nat, NEW start, FeedOK(start),
         \A l : FeedOK(l) => \A m \in FeedPass(l) : FeedOK(m)
  PROVE  \A l \in FeedLoop(n, start) : FeedOK(l)
<1>0. PICK f : FeedRun(f, n, start)
  BY FeedUnrolled
<1>1. /\ f[0] = {start} /\ f[n] = FeedLoop(n, start)
      /\ \A i \in 0 .. n : i > 0 => f[i] = FeedPasses(f[i - 1])
  BY <1>0 DEF FeedRun
<1> DEFINE T == {k \in Nat : k <= n => \A l \in f[k] : FeedOK(l)}
<1>2. 0 \in T
  BY <1>1
<1>3. \A k \in Nat : k \in T => k + 1 \in T
  <2> SUFFICES ASSUME NEW k \in Nat, \A l \in f[k] : FeedOK(l), k + 1 <= n,
                      NEW m \in f[k + 1]
               PROVE  FeedOK(m)
    OBVIOUS
  <2>1. f[k + 1] = FeedPasses(f[k])
    BY <1>1
  <2>2. PICK l \in f[k] : m \in FeedPass(l)
    BY <2>1 DEF FeedPasses
  <2> QED BY <2>2
<1> HIDE DEF T
<1>4. n \in T
  BY <1>2, <1>3, NatSet
<1> QED BY <1>1, <1>4 DEF T

LEMMA FeedOf ==
  ASSUME NEW ok, NEW w, NEW left, Kept(w), ok => Listed(w), Units(left)
  PROVE  FeedOK([ok |-> ok, w |-> w, left |-> left])
<1> DEFINE l == [ok |-> ok, w |-> w, left |-> left]
<1>1. l \in [ok : {ok}, w : {w}, left : {left}] /\ l.ok = ok /\ l.w = w /\ l.left = left
  OBVIOUS
<1> HIDE DEF l
<1>2. FeedOK(l)
  BY <1>1 DEF FeedOK, Fine
<1> QED BY <1>2 DEF l

LEMMA FeedPassKeeps ==
  ASSUME NEW l, FeedOK(l), NEW m \in FeedPass(l)
  PROVE  FeedOK(m)
<1> DEFINE r == l.w.rx
           read == SetRx(l.w, WithRead(r, r.needed))
           rest == SubSeq(l.left, r.needed - r.header + 1, Len(l.left))
<1>0. l \in [ok : {l.ok}, w : {l.w}, left : {l.left}] /\ Fine(l) /\ Units(l.left)
  BY DEF FeedOK
<1>1. StateOK(l.w) /\ RxOK(r) /\ Kept(l.w) /\ r.header \in Nat /\ r.needed \in Nat /\ r.header <= r.needed
  BY <1>0, KeptHas, RxHas DEF Fine
<1>2. IsSeq(l.left) /\ Len(l.left) \in Nat /\ DOMAIN l.left = 1 .. Len(l.left)
  BY <1>0, SeqHas DEF Units
<1>3. CASE ~l.ok \/ l.left = <<>>
  BY <1>3 DEF FeedPass
<1>4. CASE ~(~l.ok \/ l.left = <<>>) /\ r.header = 0
  <2>0. Good(l.w) /\ Listed(l.w)
    BY <1>0, <1>4 DEF Fine, Good
  <2>1. PICK x \in HeaderBytes(r, Head(l.left)) : m = [l EXCEPT !.w.rx = x, !.left = Tail(l.left)]
    BY <1>4 DEF FeedPass
  <2>2. Len(l.left) > 0 /\ Head(l.left) = l.left[1] /\ Tail(l.left) = SubSeq(l.left, 2, Len(l.left))
    BY <1>2, <1>4 DEF IsSeq
  <2>3. Units(Tail(l.left))
    <3>1. 2 \in Nat /\ 2 >= 1 /\ Len(l.left) <= Len(l.left)
      BY <1>2
    <3>2. Units(SubSeq(l.left, 2, Len(l.left)))
      BY <1>0, <1>2, <3>1, UnitsPart, Zenon
    <3> QED BY <2>2, <3>2
  <2>4. RxOK(x)
    <3>1. l.left[1].k = "h" => {l.left[1].len, l.left[1].ext} \subseteq Nat
      BY <1>0, <1>2, <2>2 DEF Units
    <3> QED BY <1>1, <1>4, <2>1, <2>2, <3>1, HeaderKeeps
  <2>5. Good(SetRx(l.w, x))
    BY <2>0, <2>4, RxKeeps
  <2> DEFINE t == Tail(l.left)
             w == SetRx(l.w, x)
  <2>6. m = [ok |-> l.ok, w |-> w, left |-> t]
    <3>1. m \in [ok : {l.ok}, w : {w}, left : {t}]
      <4> HIDE DEF t
      <4> QED BY <1>0, <1>1, <2>1 DEF SetRx, t
    <3> HIDE DEF t, w
    <3> QED BY <3>1
  <2>7. Kept(w) /\ Listed(w)
    BY <2>5 DEF Good
  <2> HIDE DEF t, w
  <2> QED BY <2>3, <2>6, <2>7, FeedOf DEF t
<1>5. CASE ~(~l.ok \/ l.left = <<>>) /\ r.header # 0
  <2>0. Good(l.w)
    BY <1>0, <1>5 DEF Fine, Good
  <2>1. RxOK(WithRead(r, r.needed)) /\ WithRead(r, r.needed).header > 0
    BY <1>1, <1>5, ReadKeeps
  <2>2. Good(read) /\ read.rx.header > 0
    BY <2>0, <2>1, RxKeeps
  <2>3. read = [l.w EXCEPT !.rx.header = r.needed]
    BY <1>1 DEF SetRx, WithRead, StateOK
  <2>4. Units(rest)
    <3>1. r.needed - r.header + 1 \in Nat /\ r.needed - r.header + 1 >= 1 /\ Len(l.left) <= Len(l.left)
      BY <1>1, <1>2
    <3> QED BY <1>0, <1>2, <3>1, UnitsPart
  <2> HIDE DEF read, rest
  <2>5. PICK o \in Begun(read) :
          m \in IF o.ok THEN FeedPayload(o.w, rest) ELSE {[ok |-> FALSE, w |-> o.w, left |-> rest]}
    BY <1>5, <2>3 DEF FeedPass, rest
  <2>6. Good(o.w) /\ (o.ok => o.w.rx.ready)
    BY <2>2, BegunKeeps
  <2>7. CASE o.ok
    <3>1. m \in FeedPayload(o.w, rest)
      BY <2>5, <2>7
    <3>2. Fine(m) /\ Units(m.left)
      BY <2>4, <2>6, <2>7, <3>1, FeedPayloadKeeps
    <3>3. m \in [ok : {m.ok}, w : {m.w}, left : {m.left}]
      <4>1. PICK ok, w, left : m = [ok |-> ok, w |-> w, left |-> left]
        BY <3>1, Zenon DEF FeedPayload
      <4> QED BY <4>1
    <3> QED BY <3>2, <3>3 DEF FeedOK
  <2>8. CASE ~o.ok
    <3>1. m = [ok |-> FALSE, w |-> o.w, left |-> rest]
      BY <2>5, <2>8
    <3>2. Kept(o.w) /\ Listed(o.w)
      BY <2>6 DEF Good
    <3>3. PICK no \in BOOLEAN, yes \in BOOLEAN : no = FALSE /\ yes = TRUE
      BY Truths
    <3>4. FeedOK([ok |-> no, w |-> o.w, left |-> rest])
      BY <2>4, <3>2, FeedOf
    <3> QED BY <3>1, <3>3, <3>4, Zenon
  <2> QED BY <2>7, <2>8
<1> QED BY <1>3, <1>4, <1>5

LEMMA FeedsKeep ==
  ASSUME NEW s, Good(s), NEW units, Units(units), NEW o \in eaf_sendspin_ws_rx_feed(s, units)
  PROVE  Fine(o)
<1> DEFINE start == [ok |-> TRUE, w |-> s, left |-> units]
           n == 2 * Len(units)
<1>1. FeedOK(start)
  <2>1. PICK no \in BOOLEAN, yes \in BOOLEAN : no = FALSE /\ yes = TRUE
    BY Truths
  <2>2. FeedOK([ok |-> yes, w |-> s, left |-> units])
    BY FeedOf DEF Good
  <2> QED BY <2>1, <2>2, Zenon
<1>2. \A l : FeedOK(l) => \A m \in FeedPass(l) : FeedOK(m)
  BY FeedPassKeeps
<1>3. n \in Nat
  <2>1. Len(units) \in Nat
    BY SeqHas DEF Units
  <2> QED BY <2>1
<1>4. eaf_sendspin_ws_rx_feed(s, units) = Outcome(FeedLoop(n, start))
  BY DEF eaf_sendspin_ws_rx_feed, FeedLoop
<1> HIDE DEF start, n
<1>5. \A l \in FeedLoop(n, start) : FeedOK(l)
  BY <1>1, <1>2, <1>3, FeedKeeps
<1>6. PICK l \in FeedLoop(n, start) : o = [ok |-> l.ok, w |-> l.w]
  BY <1>4 DEF Outcome
<1> QED BY <1>5, <1>6 DEF FeedOK, Fine

----------------------------------------------------------------------------
(* The socket and the steps of the client. *)

InboxOf(n, x) == [n EXCEPT !.inbox = x]

LEMMA InboxOfIs ==
  ASSUME NEW n, NetOK(n), NEW x, Units(x)
  PROVE  LET v == InboxOf(n, x) IN NetOK(v) /\ v.due = n.due /\ v.torn = n.torn /\ v.inbox = x
<1> DEFINE v == InboxOf(n, x)
           d == NetOf(x, n.stage, n.due, n.torn, n.asked, n.streaming, n.closed)
<1>1. v = d
  <2>1. v \in [inbox : {x}, stage : {n.stage}, due : {n.due}, torn : {n.torn}, asked : {n.asked},
               streaming : {n.streaming}, closed : {n.closed}]
    BY DEF NetOK, InboxOf
  <2> HIDE DEF v
  <2> QED BY <2>1 DEF NetOf
<1>2. NetOK(d) /\ d.due = n.due /\ d.torn = n.torn /\ d.inbox = x
  BY NetHas, NetIs
<1> HIDE DEF v, d
<1> QED BY <1>1, <1>2 DEF v

SetNet(s, n, o) == [s EXCEPT !.net = n, !.owed = o]

LEMMA NetKeeps ==
  ASSUME NEW s, Good(s), NEW n, NetOK(n), NEW o, ~n.torn,
         s.client.state # "closed" => n.due = s.net.due
  PROVE  LET t == SetNet(s, n, o) IN
         Good(t) /\ t.client = s.client /\ t.rx = s.rx /\ t.net = n /\ t.board = s.board
<1>0. /\ Kept(s) /\ StateOK(s) /\ ClientOK(s.client) /\ RxOK(s.rx)
      /\ s.client.state # "closed" => s.net.due = Unflushed(s.client.wire, s.client.offset)
  BY KeptHas DEF Good
<1>1. SetNet(s, n, o) = Put(s, s.client, s.rx, s.board, n, o, s.misheard)
  BY <1>0 DEF SetNet, Put, StateOK
<1> DEFINE t == Put(s, s.client, s.rx, s.board, n, o, s.misheard)
<1>2. Kept(t) /\ t.client = s.client /\ t.rx = s.rx /\ t.net = n /\ t.board = s.board
  BY <1>0, PutKeeps
<1> QED BY <1>1, <1>2 DEF Good, Listed

LEMMA ReceivedKeeps ==
  ASSUME NEW s, Good(s), NEW n \in Nat, n <= Len(s.net.inbox)
  PROVE  /\ Good(Taken(s, n)) /\ Taken(s, n).client = s.client /\ Taken(s, n).rx = s.rx
         /\ Units(SubSeq(s.net.inbox, 1, n))
<1>0. StateOK(s) /\ NetOK(s.net) /\ ~s.net.torn /\ Units(s.net.inbox)
  BY KeptHas, NetHas DEF Good
<1>1. IsSeq(s.net.inbox) /\ Len(s.net.inbox) \in Nat
  BY <1>0, SeqHas DEF Units
<1> DEFINE x == SubSeq(s.net.inbox, n + 1, Len(s.net.inbox))
           v == InboxOf(s.net, x)
<1>2. Units(x)
  <2>1. n + 1 \in Nat /\ n + 1 >= 1 /\ Len(s.net.inbox) <= Len(s.net.inbox)
    BY <1>1
  <2> QED BY <1>0, <1>1, <2>1, UnitsPart
<1>3. Units(SubSeq(s.net.inbox, 1, n))
  <2>1. 1 \in Nat /\ 1 >= 1
    OBVIOUS
  <2> QED BY <1>0, <2>1, UnitsPart, Zenon
<1>4. Taken(s, n) = SetNet(s, v, s.owed)
  <2> HIDE DEF x
  <2> QED BY <1>0 DEF Taken, SetNet, InboxOf, StateOK, NetOK, x
<1> HIDE DEF x
<1>5. NetOK(v) /\ v.due = s.net.due /\ v.torn = s.net.torn
  BY <1>0, <1>2, InboxOfIs
<1> HIDE DEF v
<1> DEFINE t == SetNet(s, v, s.owed)
<1>6. Good(t) /\ t.client = s.client /\ t.rx = s.rx
  BY <1>0, <1>5, NetKeeps
<1> QED BY <1>3, <1>4, <1>6

LEMMA GoodHttp ==
  ASSUME NEW s, Good(s), NEW v \in Nat
  PROVE  Good(SetHttp(s, v)) /\ SetHttp(s, v).client.state = s.client.state
<1> DEFINE t == SetHttp(s, v)
<1>1. /\ Kept(t) /\ t.client.state = s.client.state /\ t.client.stream = s.client.stream
      /\ t.client.stream_active = s.client.stream_active
  BY SetHttpKeeps DEF Good
<1> HIDE DEF t
<1>2. Good(t)
  BY <1>1 DEF Good, Listed
<1> QED BY <1>1, <1>2 DEF t

LEMMA GoodWs ==
  ASSUME NEW s, Good(s), s.client.state # "closed"
  PROVE  Good(SetWs(s, "ws"))
<1> DEFINE t == SetWs(s, "ws")
<1>0. "ws" \in {"ws"}
  OBVIOUS
<1>1. /\ Kept(t) /\ t.client.stream = s.client.stream
      /\ t.client.stream_active = s.client.stream_active
  BY <1>0, SetWsKeeps, Zenon DEF Good
<1> HIDE DEF t
<1>2. Good(t)
  BY <1>1 DEF Good, Listed
<1> QED BY <1>2 DEF t

(* The hello behind the response to the upgrade. *)
LEMMA UpgradedKeeps ==
  ASSUME NEW u, Good(u), u.client.state # "closed",
         NEW o \in Then(OrFail(queue_frame(u, "hello")), LAMBDA t : Done(SetWs(t, "ws")))
  PROVE  Good(o.w)
<1>0. "hello" \in Queueable
  BY DEF Queueable
<1>1. \A q \in queue_frame(u, "hello") : Queued(u, q.w)
  BY <1>0, QueueFrameQueues, Zenon DEF Good
<1>2. \A q \in queue_frame(u, "hello") : Fine(q)
  <2> SUFFICES ASSUME NEW q \in queue_frame(u, "hello") PROVE Fine(q)
    OBVIOUS
  <2>1. Good(q.w)
    BY <1>1, FineQueued
  <2> QED BY <2>1 DEF Fine, Good
<1> DEFINE outcomes == queue_frame(u, "hello")
<1> HIDE DEF outcomes
<1>3. \A q \in OrFail(outcomes) : Good(q.w) /\ (q.ok => q \in outcomes)
  BY <1>2, OrFailKeeps DEF outcomes
<1>4. CASE o \in OrFail(outcomes)
  BY <1>3, <1>4
<1>5. ASSUME NEW q \in OrFail(outcomes), q.ok, o \in Done(SetWs(q.w, "ws")) PROVE Good(o.w)
  <2>1. Good(q.w) /\ q \in outcomes
    BY <1>3, <1>5
  <2>2. q.w.client.state # "closed"
    BY <1>1, <2>1 DEF Queued, outcomes
  <2>3. Good(SetWs(q.w, "ws"))
    BY <2>1, <2>2, GoodWs
  <2> QED BY <1>5, <2>3, FineDone
<1> QED BY <1>4, <1>5 DEF Then, outcomes

(* A read of n units of the response. *)
StepResponse(s, n) ==
  LET u == [Taken(s, n) EXCEPT !.client.http = @ + n]
      units == SubSeq(s.net.inbox, 1, n)
  IN IF \E i \in 1..n : units[i].last
     THEN IF \E i \in 1..n : units[i].last /\ units[i].status = 101
          THEN Then(OrFail(queue_frame(u, "hello")), LAMBDA t : Done([t EXCEPT !.client.state = "ws"]))
          ELSE fail(u)
     ELSE IF u.client.http = HttpUnits THEN fail(u) ELSE Done(u)

LEMMA StepHttpKeeps ==
  ASSUME NEW s, Good(s), s.client.state # "closed", NEW o \in StepHttp(s)
  PROVE  Good(o.w)
<1> DEFINE room == Min({HttpUnits - s.client.http, Len(s.net.inbox)})
<1>0. s.client.http \in Nat /\ Len(s.net.inbox) \in Nat /\ HttpUnits \in Nat
  BY KeptHas, ClientHas, NetHas, SeqHas, SendspinAssumption DEF Good, Units
<1>1. CASE o \in Done(s)
  BY <1>1, FineDone
<1>2. CASE o \in fail(s)
  BY <1>2, FailKeeps DEF Good
<1>3. ASSUME NEW n \in 1 .. Len(s.net.inbox),
             LET u == SetHttp(Taken(s, n), Taken(s, n).client.http + n) IN
             \/ o \in Then(OrFail(queue_frame(u, "hello")), LAMBDA t : Done(SetWs(t, "ws")))
             \/ o \in fail(u) \/ o \in Done(u)
      PROVE  Good(o.w)
  <2> DEFINE t == Taken(s, n)
             u == SetHttp(t, t.client.http + n)
  <2>1. Good(t) /\ t.client = s.client
    <3>1. n \in Nat /\ n <= Len(s.net.inbox)
      BY <1>0
    <3> QED BY <3>1, ReceivedKeeps
  <2>2. Good(u) /\ u.client.state # "closed"
    <3>1. t.client.http + n \in Nat
      BY <1>0, <2>1
    <3> QED BY <2>1, <3>1, GoodHttp
  <2>3. \/ o \in Then(OrFail(queue_frame(u, "hello")), LAMBDA v : Done(SetWs(v, "ws")))
        \/ o \in fail(u) \/ o \in Done(u)
    BY <1>3
  <2> HIDE DEF u
  <2>4. CASE o \in Then(OrFail(queue_frame(u, "hello")), LAMBDA v : Done(SetWs(v, "ws")))
    BY <2>2, <2>4, UpgradedKeeps
  <2>5. CASE o \in fail(u)
    BY <2>2, <2>5, FailKeeps DEF Good
  <2>6. CASE o \in Done(u)
    BY <2>2, <2>6, FineDone
  <2> QED BY <2>3, <2>4, <2>5, <2>6
<1>4. room \in Int /\ room <= Len(s.net.inbox)
  <2> DEFINE a == HttpUnits - s.client.http
             b == Len(s.net.inbox)
  <2>1. a \in Int /\ b \in Int
    BY <1>0
  <2> HIDE DEF a, b
  <2>2. Min({a, b}) \in {a, b} /\ Min({a, b}) <= b
    BY <2>1, MinOfTwo
  <2> QED BY <2>1, <2>2 DEF a, b
<1>5. ASSUME NEW n \in 1 .. room, o \in StepResponse(s, n) PROVE Good(o.w)
  <2>1. n \in 1 .. Len(s.net.inbox)
    <3> HIDE DEF room
    <3> QED BY <1>0, <1>4
  <2> DEFINE t == Taken(s, n)
             u == SetHttp(t, t.client.http + n)
  <2>2. \/ o \in Then(OrFail(queue_frame(u, "hello")), LAMBDA v : Done(SetWs(v, "ws")))
        \/ o \in fail(u) \/ o \in Done(u)
    <3>1. [Taken(s, n) EXCEPT !.client.http = @ + n] = u
      BY DEF SetHttp
    <3> HIDE DEF u, t
    <3> QED BY <1>5, <3>1 DEF StepResponse, SetWs
  <2> QED BY <1>3, <2>1, <2>2
<1> HIDE DEF room
<1>6. StepHttp(s) = Done(s) \cup fail(s) \cup UNION {StepResponse(s, n) : n \in 1 .. room}
  BY Zenon DEF StepHttp, StepResponse, room
<1> QED BY <1>1, <1>2, <1>5, <1>6

LEMMA ReadsKeep ==
  ASSUME NEW t, Good(t), NEW n \in 1 .. Len(t.net.inbox),
         NEW o \in OrFail(eaf_sendspin_ws_rx_feed(Taken(t, n), SubSeq(t.net.inbox, 1, n)))
  PROVE  Good(o.w)
<1>0. Len(t.net.inbox) \in Nat
  BY KeptHas, NetHas, SeqHas DEF Good, Units
<1>1. n \in Nat /\ n <= Len(t.net.inbox)
  BY <1>0
<1> DEFINE u == Taken(t, n)
           units == SubSeq(t.net.inbox, 1, n)
<1>2. Good(u) /\ Units(units)
  BY <1>1, ReceivedKeeps
<1> DEFINE outcomes == eaf_sendspin_ws_rx_feed(u, units)
<1> HIDE DEF u, units
<1>3. \A q \in outcomes : Fine(q)
  BY <1>2, FeedsKeep
<1> HIDE DEF outcomes
<1> QED BY <1>3, OrFailKeeps DEF outcomes, u, units

LEMMA StepFramesKeeps ==
  ASSUME NEW s, Good(s), NEW o \in StepFrames(s)
  PROVE  Good(o.w)
<1> DEFINE timed == {s} \cup IF s.client.handshaken THEN send_time(s) ELSE {}
           Fed(t, n) == OrFail(eaf_sendspin_ws_rx_feed(Taken(t, n), SubSeq(t.net.inbox, 1, n)))
<1>1. PICK t \in timed : \/ o \in Done(t) \/ o \in fail(t)
                         \/ \E n \in 1 .. Len(t.net.inbox) : o \in Fed(t, n)
  <2> DEFINE Reads(t) == Done(t) \cup fail(t) \cup UNION {Fed(t, n) : n \in 1 .. Len(t.net.inbox)}
  <2>1. StepFrames(s) = UNION {Reads(t) : t \in timed}
    BY DEF StepFrames
  <2> HIDE DEF Reads, timed
  <2>2. PICK t \in timed : o \in Reads(t)
    BY <2>1
  <2> HIDE DEF Fed
  <2>3. o \in Done(t) \cup fail(t) \cup UNION {Fed(t, n) : n \in 1 .. Len(t.net.inbox)}
    BY <2>2 DEF Reads
  <2> QED BY <2>3
<1>2. Good(t)
  <2>1. t = s \/ t \in send_time(s)
    BY <1>1
  <2>2. t \in send_time(s) => Good(t)
    BY SendTimeKeeps, FineQueued DEF Good
  <2> QED BY <2>1, <2>2
<1>3. CASE o \in Done(t)
  BY <1>2, <1>3, FineDone
<1>4. CASE o \in fail(t)
  BY <1>2, <1>4, FailKeeps DEF Good
<1>5. ASSUME NEW n \in 1 .. Len(t.net.inbox), o \in Fed(t, n) PROVE Good(o.w)
  BY <1>2, <1>5, ReadsKeep
<1> QED BY <1>1, <1>3, <1>4, <1>5

LEMMA StepKeeps ==
  ASSUME NEW s, Good(s), NEW o \in eaf_sendspin_client_step(s)
  PROVE  Good(o.w)
<1>1. CASE s.client.state = "closed"
  BY <1>1 DEF eaf_sendspin_client_step, Failed
<1>2. CASE s.client.state # "closed"
  <2>1. PICK f \in flush(s) : \/ o \in Done(f.s) \/ o \in fail(f.s)
                              \/ o \in StepHttp(f.s) \/ o \in StepFrames(f.s)
    BY <1>2 DEF eaf_sendspin_client_step
  <2>2. Queued(s, f.s)
    BY <1>2, FlushKeeps DEF Good
  <2>3. Good(f.s) /\ f.s.client.state # "closed"
    BY <1>2, <2>2, FineQueued DEF Queued
  <2>4. CASE o \in Done(f.s)
    BY <2>3, <2>4, FineDone
  <2>5. CASE o \in fail(f.s)
    BY <2>3, <2>5, FailKeeps DEF Good
  <2>6. CASE o \in StepHttp(f.s)
    BY <2>3, <2>6, StepHttpKeeps
  <2>7. CASE o \in StepFrames(f.s)
    BY <2>3, <2>7, StepFramesKeeps
  <2> QED BY <2>1, <2>4, <2>5, <2>6, <2>7
<1> QED BY <1>1, <1>2

----------------------------------------------------------------------------
(* main.c: connecting, and leaving the loop. *)

LEMMA EmptyUnits == Units(<<>>) /\ <<>> \in Seq(WireUnit) /\ Len(<<>>) = 0
<1>1. <<>> \in Seq({}) /\ <<>> \in Seq(WireUnit) /\ Len(<<>>) = 0 /\ DOMAIN <<>> = {}
  OBVIOUS
<1>2. IsSeq(<<>>)
  BY <1>1, SeqIs
<1> QED BY <1>1, <1>2 DEF Units

(* A socket that is new, with what is due. *)
LEMMA NewNet ==
  ASSUME NEW due \in Seq(WireUnit)
  PROVE  LET n == [NetZero EXCEPT !.due = due] IN NetOK(n) /\ ~n.torn /\ n.due = due
<1> DEFINE n == [NetZero EXCEPT !.due = due]
<1>1. PICK no \in BOOLEAN, yes \in BOOLEAN : no = FALSE /\ yes = TRUE
  BY Truths
<1> DEFINE d == NetOf(<<>>, "upgrade", due, no, no, no, no)
<1>2. n = d
  <2>1. n = NetOf(<<>>, "upgrade", due, FALSE, FALSE, FALSE, FALSE)
    <3>1. n \in [inbox : {<<>>}, stage : {"upgrade"}, due : {due}, torn : {FALSE}, asked : {FALSE},
                 streaming : {FALSE}, closed : {FALSE}]
      BY DEF NetZero
    <3> HIDE DEF n
    <3> QED BY <3>1 DEF NetOf
  <2> QED BY <1>1, <2>1, Zenon
<1>3. NetOK(d) /\ d.torn = no /\ d.due = due
  BY EmptyUnits, NetIs
<1> HIDE DEF n, d
<1> QED BY <1>1, <1>2, <1>3 DEF n

LEMMA NetZeroOK == NetOK(NetZero) /\ ~NetZero.torn
<1>1. NetZero = [NetZero EXCEPT !.due = <<>>]
  BY DEF NetZero
<1>2. <<>> \in Seq(WireUnit)
  BY EmptyUnits
<1>3. LET n == [NetZero EXCEPT !.due = <<>>] IN NetOK(n) /\ ~n.torn
  BY <1>2, NewNet, Zenon
<1> QED BY <1>1, <1>3, Zenon

LEMMA HangupKeeps ==
  ASSUME NEW s, Good(s)
  PROVE  Good(Hangup(s))
<1>1. CASE s.client.state = "closed"
  <2>1. Hangup(s) = SetNet(s, NetZero, <<>>)
    BY <1>1 DEF Hangup, SetNet
  <2>2. Good(SetNet(s, NetZero, <<>>))
    BY <1>1, NetZeroOK, NetKeeps
  <2> QED BY <2>1, <2>2
<1>2. CASE s.client.state # "closed"
  BY <1>2 DEF Hangup
<1> QED BY <1>1, <1>2

ConnectWith(s, wire, no, n) ==
  [s EXCEPT !.client.wire = wire, !.client.offset = 0, !.client.http = 0,
            !.client.notified = no, !.client.state = "http", !.net = n, !.owed = <<>>]

LEMMA ConnectWithIs ==
  ASSUME NEW s, StateOK(s), NEW wire, NEW no, NEW n
  PROVE  ConnectWith(s, wire, no, n) =
           Put(s, ClientOf("http", s.client.handshaken, no, s.client.stream_active, s.client.stream,
                           s.client.synchronized, s.client.delay, wire, 0, 0),
               s.rx, s.board, n, <<>>, s.misheard)
<1> DEFINE k == s.client
           c == [k EXCEPT !.wire = wire, !.offset = 0, !.http = 0, !.notified = no, !.state = "http"]
<1>1. ClientOK(k)
  BY DEF StateOK
<1>2. c = ClientOf("http", k.handshaken, no, k.stream_active, k.stream, k.synchronized, k.delay,
                   wire, 0, 0)
  <2>1. c \in [state : {"http"}, handshaken : {k.handshaken}, notified : {no},
               stream_active : {k.stream_active}, stream : {k.stream},
               synchronized : {k.synchronized}, delay : {k.delay}, wire : {wire}, offset : {0},
               http : {0}]
    BY <1>1 DEF ClientOK
  <2> HIDE DEF c
  <2> QED BY <2>1 DEF ClientOf
<1>3. ConnectWith(s, wire, no, n) = [s EXCEPT !.client = c, !.net = n, !.owed = <<>>]
  BY <1>1 DEF ConnectWith, StateOK, ClientOK
<1> HIDE DEF c
<1>4. [s EXCEPT !.client = c, !.net = n, !.owed = <<>>] =
        Put(s, c, s.rx, s.board, n, <<>>, s.misheard)
  BY DEF Put, StateOK
<1> QED BY <1>2, <1>3, <1>4

LEMMA ConnectKeeps ==
  ASSUME NEW s, Good(s)
  PROVE  Good(eaf_sendspin_client_connect(s))
<1>0. /\ Kept(s) /\ StateOK(s) /\ ClientOK(s.client) /\ RxOK(s.rx)
  BY KeptHas DEF Good
<1>1. PICK no \in BOOLEAN, yes \in BOOLEAN : no = FALSE /\ yes = TRUE
  BY Truths
<1> DEFINE wire == OnWire("upgrade")
           n == [NetZero EXCEPT !.due = wire]
           c == ClientOf("http", s.client.handshaken, no, s.client.stream_active, s.client.stream,
                         s.client.synchronized, s.client.delay, wire, 0, 0)
           t == Put(s, c, s.rx, s.board, n, <<>>, s.misheard)
<1>2. wire \in Seq(WireUnit) /\ Len(wire) \in Nat
  <2>1. "upgrade" \in Queueable
    BY DEF Queueable
  <2>2. wire \in Seq(WireUnit)
    BY <2>1, OnWireIs, Zenon
  <2> HIDE DEF wire
  <2> QED BY <2>2
<1>3. eaf_sendspin_client_connect(s) = t
  <2>1. eaf_sendspin_client_connect(s) = ConnectWith(s, wire, no, n)
    BY <1>1, Zenon DEF eaf_sendspin_client_connect, ConnectWith
  <2> HIDE DEF wire, n
  <2> QED BY <1>0, <2>1, ConnectWithIs
<1> HIDE DEF wire
<1>4. NetOK(n) /\ ~n.torn /\ n.due = wire
  BY <1>2, NewNet
<1> HIDE DEF n
<1>5. /\ ClientOK(c) /\ c.wire = wire /\ c.offset = 0 /\ c.stream = s.client.stream
      /\ c.stream_active = s.client.stream_active
  <2>1. /\ s.client.handshaken \in BOOLEAN /\ s.client.stream_active \in BOOLEAN
        /\ s.client.synchronized \in BOOLEAN
    BY <1>0, ClientHas
  <2>2. "http" \in {"closed", "http", "ws"} /\ 0 \in Nat /\ 0 <= Len(wire)
    BY <1>2
  <2> QED BY <1>1, <1>2, <2>1, <2>2, ClientIs
<1> HIDE DEF c
<1>6. n.due = Unflushed(c.wire, c.offset)
  <2>1. Unflushed(wire, 0) = wire
    BY <1>2 DEF Unflushed
  <2> QED BY <1>4, <1>5, <2>1
<1>7. Kept(t) /\ t.client = c
  BY <1>0, <1>4, <1>5, <1>6, PutKeeps
<1> HIDE DEF t
<1>8. Good(t)
  BY <1>5, <1>7 DEF Good, Listed
<1> QED BY <1>3, <1>8

LEMMA OutKeeps ==
  ASSUME NEW s, Good(s), NEW out, OutType(out), s.player.active => out.rate = s.board.out.rate
  PROVE  Good(SetOut(s, out))
<1>0. StateOK(s) /\ BoardOK(s.board) /\ s.board.have_stream \in BOOLEAN
  BY KeptHas, BoardHas DEF Good, Parts
<1>1. SetOut(s, out) = SetBoard(s, s.board.have_stream, s.board.current, out)
  BY <1>0, SetOutIs
<1> DEFINE t == SetBoard(s, s.board.have_stream, s.board.current, out)
<1>2. /\ StateOK(t) /\ t.client = s.client /\ t.net = s.net
      /\ t.player = s.player /\ t.worker = s.worker
      /\ t.board.have_stream = s.board.have_stream /\ t.board.current = s.board.current
      /\ t.board.out = out
  BY <1>0, SetBoardIs
<1> HIDE DEF t
<1>3. Good(t)
  BY <1>2 DEF Good, Kept, Listed, WireOK, AudioOK, FramesOK
<1> QED BY <1>1, <1>3 DEF t

LEMMA FinishKeeps ==
  ASSUME NEW s, Good(s)
  PROVE  LET f == eaf_sendspin_player_finish(s) IN Good(f) /\ ~f.player.active
<1> DEFINE f == eaf_sendspin_player_finish(s)
<1>1. Halted(s, f)
  BY FinishHalts DEF Good, Kept
<1> HIDE DEF f
<1>2. Good(f) /\ ~f.player.active
  BY <1>1 DEF Good, Halted, Kept, Listed, WireOK, AudioOK
<1> QED BY <1>2 DEF f

LEMMA StopKeeps ==
  ASSUME NEW s, Good(s), ~s.player.active, NEW t \in OutputStop(s)
  PROVE  Good(t)
<1>0. StateOK(s) /\ BoardOK(s.board) /\ OutType(s.board.out)
  BY KeptHas, BoardHas DEF Good, Parts
<1> DEFINE quiet == [Silence EXCEPT !.failed = s.board.out.failed]
           stuck == [s.board.out EXCEPT !.running = FALSE, !.failed = TRUE]
<1>1. OutType(quiet) /\ OutType(stuck)
  BY <1>0 DEF OutType, Silence
<1>2. t = SetOut(s, quiet) \/ t = SetOut(s, stuck)
  BY <1>0 DEF OutputStop, SetOut, StateOK, BoardOK
<1> HIDE DEF quiet, stuck
<1> QED BY <1>1, <1>2, OutKeeps

----------------------------------------------------------------------------
(* The inductive invariant. *)

LEMMA BecomeIs ==
  ASSUME NEW s, StateOK(s), Become(s)
  PROVE  State' = s
<1>1. s \in [client : {s.client}, rx : {s.rx}, board : {s.board}, player : {s.player},
             worker : {s.worker}, dec : {s.dec}, net : {s.net}, owed : {s.owed},
             misheard : {s.misheard}]
  BY DEF StateOK
<1> QED BY <1>1 DEF State, Become

LEMMA GoodBecomes ==
  ASSUME NEW s, Good(s), Become(s)
  PROVE  SendspinInv'
<1>1. State' = s
  BY BecomeIs, KeptHas DEF Good
<1>2. Kept(State') /\ Listed(State')
  BY <1>1 DEF Good
<1> QED BY <1>2 DEF SendspinInv

LEMMA InvHas == SendspinInv => Good(State)
BY DEF SendspinInv, Good

LEMMA UnchangedKeeps == SendspinInv /\ UNCHANGED vars => SendspinInv'
<1> SUFFICES ASSUME SendspinInv, UNCHANGED vars PROVE SendspinInv'
  OBVIOUS
<1>1. State' = State
  BY DEF vars, State
<1>2. Kept(State') /\ Listed(State')
  BY <1>1 DEF SendspinInv
<1> QED BY <1>2 DEF SendspinInv

LEMMA ConnectInv == SendspinInv /\ Connect => SendspinInv'
BY InvHas, ConnectKeeps, GoodBecomes DEF Connect

LEMMA ClientStepInv == SendspinInv /\ ClientStep => SendspinInv'
<1> SUFFICES ASSUME SendspinInv, NEW o \in eaf_sendspin_client_step(State), Become(Hangup(o.w))
             PROVE  SendspinInv'
  BY DEF ClientStep
<1>1. Good(o.w)
  BY InvHas, StepKeeps
<1> QED BY <1>1, HangupKeeps, GoodBecomes

LEMMA LeaveInv == SendspinInv /\ Leave => SendspinInv'
<1> DEFINE f == eaf_sendspin_player_finish(notify_closed(State))
<1> SUFFICES ASSUME SendspinInv, NEW s \in OutputStop(f), Become(Hangup(s))
             PROVE  SendspinInv'
  BY DEF Leave
<1>1. Good(notify_closed(State))
  BY InvHas, NotifyKeeps DEF Good
<1>2. Good(f) /\ ~f.player.active
  BY <1>1, FinishKeeps
<1> HIDE DEF f
<1>3. Good(s)
  BY <1>2, StopKeeps
<1> QED BY <1>3, HangupKeeps, GoodBecomes

LEMMA OutputFailsInv == SendspinInv /\ OutputFails => SendspinInv'
<1> SUFFICES ASSUME SendspinInv, OutputFails PROVE SendspinInv'
  OBVIOUS
<1> DEFINE out == [board.out EXCEPT !.failed = TRUE]
<1>1. Good(State) /\ StateOK(State) /\ State.board = board /\ BoardOK(board) /\ OutType(board.out)
  BY InvHas, KeptHas, BoardHas DEF Good, State, Parts
<1>2. OutType(out) /\ out.rate = board.out.rate
  BY <1>1 DEF OutType
<1>3. Become(SetOut(State, out))
  BY <1>1 DEF OutputFails, Become, SetOut, State, BoardOK
<1> HIDE DEF out
<1>4. Good(SetOut(State, out))
  BY <1>1, <1>2, OutKeeps
<1> QED BY <1>3, <1>4, GoodBecomes

LEMMA InitInv == Init => SendspinInv
<1> SUFFICES ASSUME Init PROVE SendspinInv
  OBVIOUS
<1>1. ClientOK(client)
  BY EmptyUnits DEF Init, ClientOK
<1>2. RxOK(rx) /\ NetOK(net) /\ ~net.torn
  BY InitRxOK, NetZeroOK DEF Init
<1>3. BoardOK(board)
  BY DEF Init, BoardOK, Silence
<1>4. PlayerOK(player) /\ ~player.active /\ Tallied(player)
  BY DEF Init, PlayerOK, PlayerZero, Tallied
<1>5. /\ worker \in [open : BOOLEAN, pending : Nat, sent : Nat, written : Nat]
      /\ dec \in [input : Nat, started : BOOLEAN] /\ worker.pending = worker.sent
  BY DEF Init, WorkerZero, DecoderZero
<1>6. client.state = "closed" /\ ~client.stream_active
  BY DEF Init
<1>7. /\ State.client = client /\ State.rx = rx /\ State.board = board /\ State.player = player
      /\ State.worker = worker /\ State.dec = dec /\ State.net = net
      /\ State \in [client : {client}, rx : {rx}, board : {board}, player : {player},
                    worker : {worker}, dec : {dec}, net : {net}, owed : {State.owed},
                    misheard : {State.misheard}]
  BY DEF State
<1>8. StateOK(State)
  BY <1>1, <1>2, <1>3, <1>4, <1>5, <1>7 DEF StateOK
<1> QED BY <1>2, <1>4, <1>5, <1>6, <1>7, <1>8
     DEF SendspinInv, Kept, Listed, WireOK, AudioOK, FramesOK

----------------------------------------------------------------------------
(* The server's steps: what it puts into the socket are units. *)

LEMMA PlainUnits ==
  ASSUME NEW S, NEW x \in Seq(S), \A u \in S : u.k # "h"
  PROVE  Units(x)
<1>1. IsSeq(x)
  BY SeqIs
<1>2. \A i \in DOMAIN x : x[i] \in S
  OBVIOUS
<1> QED BY <1>1, <1>2 DEF Units

LEMMA PlainPair ==
  ASSUME NEW a, NEW b, a.k # "h", b.k # "h"
  PROVE  Units(<<a>>) /\ Units(<<a, b>>)
<1> DEFINE x == <<a>>
           y == <<a, b>>
           S == {a, b}
<1>1. x \in Seq(S) /\ y \in Seq(S) /\ \A u \in S : u.k # "h"
  OBVIOUS
<1> HIDE DEF x, y, S
<1>2. Units(x) /\ Units(y)
  BY <1>1, PlainUnits
<1> QED BY <1>2 DEF x, y

LEMMA FrameUnits ==
  ASSUME NEW op, NEW fin, NEW ext \in Nat, NEW body, Units(body)
  PROVE  Units(Frame(op, fin, ext, body))
<1> DEFINE h == [k |-> "h", op |-> op, fin |-> fin, ext |-> ext, len |-> Len(body)]
           x == IF ext = 1 THEN <<[k |-> "x"]>> ELSE <<>>
<1>1. Len(body) \in Nat
  BY SeqHas DEF Units
<1>2. Units(<<h>>)
  <2>1. h.len = Len(body) /\ h.ext = ext
    OBVIOUS
  <2> HIDE DEF h
  <2>2. IsSeq(<<h>>)
    <3>1. <<h>> \in Seq({h})
      OBVIOUS
    <3> QED BY <3>1, SeqIs
  <2>3. DOMAIN <<h>> = {1} /\ <<h>>[1] = h
    OBVIOUS
  <2> QED BY <1>1, <2>1, <2>2, <2>3 DEF Units
<1>3. Units(x)
  <2>1. Units(<<[k |-> "x"]>>)
    <3> DEFINE u == [k |-> "x"]
    <3>1. u.k # "h"
      OBVIOUS
    <3> HIDE DEF u
    <3>2. Units(<<u>>)
      BY <3>1, PlainPair
    <3> QED BY <3>2 DEF u
  <2> QED BY <2>1, EmptyUnits
<1> HIDE DEF h, x
<1>4. Units(<<h>> \o x)
  BY <1>2, <1>3, UnitsCat
<1>5. Units((<<h>> \o x) \o body)
  BY <1>4, UnitsCat
<1> QED BY <1>5 DEF Frame, h, x

LEMMA FramesUnits ==
  ASSUME NEW m, NEW cut \in CutsOf(m), NEW op, NEW body, Units(body), Len(body) = 2
  PROVE  Units(Frames(cut, op, body))
<1>1. cut \in {"whole", "extended", "cut", "tail"}
  BY DEF CutsOf
<1>2. \A fin : Units(Frame(op, fin, 0, body)) /\ Units(Frame(op, fin, 1, body))
  BY FrameUnits
<1>3. \A o, fin : Units(Frame(o, fin, 0, <<>>))
  BY FrameUnits, EmptyUnits
<1>4. CASE cut = "whole" \/ cut = "extended"
  BY <1>2, <1>4 DEF Frames
<1>5. CASE cut = "cut"
  <2>1. Units(SubSeq(body, 1, 1)) /\ Units(SubSeq(body, 2, 2))
    <3>1. 1 \in Nat /\ 2 \in Nat /\ 1 >= 1 /\ 2 >= 1 /\ 1 <= Len(body) /\ 2 <= Len(body)
      OBVIOUS
    <3> QED BY <3>1, UnitsPart, Zenon
  <2> DEFINE a == SubSeq(body, 1, 1)
             b == SubSeq(body, 2, 2)
             p == Frame(op, FALSE, 0, a)
             q == Frame("ping", TRUE, 0, <<>>)
             r == Frame("cont", TRUE, 0, b)
  <2>2. \A o, fin : Units(Frame(o, fin, 0, a)) /\ Units(Frame(o, fin, 0, b))
    <3> HIDE DEF a, b
    <3> QED BY <2>1, FrameUnits DEF a, b
  <2>3. Units(p) /\ Units(q) /\ Units(r)
    BY <1>3, <2>2
  <2>4. Frames(cut, op, body) = (p \o q) \o r
    BY <1>5 DEF Frames
  <2> HIDE DEF p, q, r
  <2>5. Units(p \o q)
    BY <2>3, UnitsCat
  <2> QED BY <2>3, <2>4, <2>5, UnitsCat
<1>6. CASE cut = "tail"
  <2> DEFINE p == Frame(op, FALSE, 0, body)
             q == Frame("cont", TRUE, 0, <<>>)
  <2>1. Frames(cut, op, body) = p \o q
    BY <1>6 DEF Frames
  <2>2. Units(p) /\ Units(q)
    BY <1>2, <1>3
  <2> HIDE DEF p, q
  <2> QED BY <2>1, <2>2, UnitsCat
<1> QED BY <1>1, <1>4, <1>5, <1>6

LEMMA TextUnits ==
  ASSUME NEW m, NEW form
  PROVE  Units(TextBody(m, form)) /\ Len(TextBody(m, form)) = 2
<1> DEFINE a == TextUnit(m, form, 1)
           b == TextUnit(m, form, 2)
<1>1. a.k # "h" /\ b.k # "h"
  BY DEF TextUnit
<1> HIDE DEF a, b
<1>2. Len(<<a, b>>) = 2
  OBVIOUS
<1>3. Units(<<a, b>>)
  BY <1>1, PlainPair
<1> QED BY <1>2, <1>3 DEF TextBody, a, b

LEMMA AudioUnits == Units(AudioBody) /\ Len(AudioBody) = 2
<1> DEFINE a == [k |-> "audio"]
           b == [k |-> "samples"]
<1>1. a.k # "h" /\ b.k # "h"
  OBVIOUS
<1> HIDE DEF a, b
<1>2. Len(<<a, b>>) = 2
  OBVIOUS
<1>3. Units(<<a, b>>)
  BY <1>1, PlainPair
<1> QED BY <1>2, <1>3 DEF AudioBody, a, b

(* The server's fields of the socket. *)
ServerOf(n, stage, asked, streaming, closed) ==
  [n EXCEPT !.stage = stage, !.asked = asked, !.streaming = streaming, !.closed = closed]

LEMMA ServerOfIs ==
  ASSUME NEW n, NetOK(n), NEW stage, NEW asked, NEW streaming, NEW closed
  PROVE  LET v == ServerOf(n, stage, asked, streaming, closed) IN
         NetOK(v) /\ v.inbox = n.inbox /\ v.due = n.due /\ v.torn = n.torn
<1> DEFINE v == ServerOf(n, stage, asked, streaming, closed)
           d == NetOf(n.inbox, stage, n.due, n.torn, asked, streaming, closed)
<1>1. v = d
  <2>1. v \in [inbox : {n.inbox}, stage : {stage}, due : {n.due}, torn : {n.torn}, asked : {asked},
               streaming : {streaming}, closed : {closed}]
    BY DEF NetOK, ServerOf
  <2> HIDE DEF v
  <2> QED BY <2>1 DEF NetOf
<1>2. NetOK(d) /\ d.inbox = n.inbox /\ d.due = n.due /\ d.torn = n.torn
  BY NetHas, NetIs
<1> HIDE DEF v, d
<1> QED BY <1>1, <1>2 DEF v

LEMMA SaysKeeps ==
  ASSUME SendspinInv, NEW units, Units(units), NEW meanings, NEW stage, NEW asked, NEW streaming,
         NEW closed, Says(units, meanings, ServerOf(net, stage, asked, streaming, closed))
  PROVE  SendspinInv'
<1> DEFINE n == ServerOf(net, stage, asked, streaming, closed)
           v == InboxOf(n, n.inbox \o units)
           o == owed \o meanings
<1>0. Good(State) /\ NetOK(net) /\ ~net.torn /\ State.net = net /\ State.owed = owed
  BY InvHas, KeptHas DEF Good, State
<1>1. NetOK(n) /\ n.inbox = net.inbox /\ n.due = net.due /\ n.torn = net.torn
  BY <1>0, ServerOfIs
<1>2. net' = v /\ owed' = o
      /\ UNCHANGED <<client, rx, board, player, worker, dec, misheard>>
  BY DEF Says, ServerKeeps, InboxOf
<1> HIDE DEF n, o
<1>3. Units(n.inbox \o units)
  BY <1>0, <1>1, NetHas, UnitsCat
<1>4. NetOK(v) /\ v.due = n.due /\ v.torn = n.torn
  BY <1>1, <1>3, InboxOfIs
<1> HIDE DEF v
<1>5. Good(SetNet(State, v, o))
  BY <1>0, <1>1, <1>4, NetKeeps
<1>6. Become(SetNet(State, v, o))
  BY <1>2 DEF Become, SetNet, State
<1> QED BY <1>5, <1>6, GoodBecomes

LEMMA ResponseUnits ==
  ASSUME NEW long \in Nat, NEW status
  PROVE  Units([i \in 1 .. long + 1 |-> [k |-> "http", last |-> FALSE]]
                 \o <<[k |-> "http", last |-> TRUE, status |-> status]>>)
<1> DEFINE a == [k |-> "http", last |-> FALSE]
           b == [k |-> "http", last |-> TRUE, status |-> status]
           x == [i \in 1 .. long + 1 |-> a]
<1>1. a.k # "h" /\ b.k # "h"
  OBVIOUS
<1> HIDE DEF a, b
<1>2. Units(x)
  <2>1. x \in Seq({a})
    OBVIOUS
  <2> HIDE DEF x
  <2> QED BY <1>1, <2>1, PlainUnits
<1> HIDE DEF x
<1>3. Units(<<b>>)
  BY <1>1, PlainPair
<1>4. Units(x \o <<b>>)
  BY <1>2, <1>3, UnitsCat
<1> QED BY <1>4 DEF x, a, b

LEMMA RespondsInv == SendspinInv /\ ServerResponds => SendspinInv'
<1> DEFINE u(long, status) == [i \in 1 .. long + 1 |-> [k |-> "http", last |-> FALSE]]
                                \o <<[k |-> "http", last |-> TRUE, status |-> status]>>
<1>1. \A status : \A long \in Nat : Units(u(long, status))
  BY ResponseUnits
<1> SUFFICES ASSUME SendspinInv, ServerResponds PROVE SendspinInv'
  OBVIOUS
<1> HIDE DEF u
<1>2. PICK status \in {101, 403}, long \in {0, HttpUnits} :
        Says(u(long, status), <<>>, [net EXCEPT !.stage = "responded"])
  BY DEF ServerResponds, u
<1>3. long \in Nat
  BY SendspinAssumption
<1>4. [net EXCEPT !.stage = "responded"] = ServerOf(net, "responded", net.asked, net.streaming, net.closed)
  BY InvHas, KeptHas DEF Good, State, NetOK, ServerOf
<1>5. Says(u(long, status), <<>>, ServerOf(net, "responded", net.asked, net.streaming, net.closed))
  BY <1>2, <1>4
<1> QED BY <1>1, <1>3, <1>5, SaysKeeps

LEMMA GreetsInv == SendspinInv /\ ServerGreets => SendspinInv'
<1> SUFFICES ASSUME SendspinInv, NEW m \in Hellos, NEW cut \in CutsOf(m),
                    Says(Frames(cut, "text", TextBody(m, FormOf(cut))), Meant(cut, Texts[m].means),
                         [net EXCEPT !.stage = "ready"])
             PROVE  SendspinInv'
  BY DEF ServerGreets
<1> DEFINE u == Frames(cut, "text", TextBody(m, FormOf(cut)))
           o == Meant(cut, Texts[m].means)
<1>1. Units(u)
  BY TextUnits, FramesUnits
<1>2. [net EXCEPT !.stage = "ready"] = ServerOf(net, "ready", net.asked, net.streaming, net.closed)
  BY InvHas, KeptHas DEF Good, State, NetOK, ServerOf
<1> HIDE DEF u, o
<1>3. Says(u, o, ServerOf(net, "ready", net.asked, net.streaming, net.closed))
  BY <1>2 DEF u, o
<1> QED BY <1>1, <1>3, SaysKeeps

LEMMA TellsInv == SendspinInv /\ ServerTells => SendspinInv'
<1> SUFFICES ASSUME SendspinInv, NEW m, NEW cut \in CutsOf(m),
                    Says(Frames(cut, "text", TextBody(m, FormOf(cut))), Meant(cut, Texts[m].means),
                         [net EXCEPT !.asked = @ /\ m # "time",
                                     !.streaming = IF m \in Starts THEN TRUE ELSE @ /\ m # "end"])
             PROVE  SendspinInv'
  BY DEF ServerTells
<1> DEFINE u == Frames(cut, "text", TextBody(m, FormOf(cut)))
           o == Meant(cut, Texts[m].means)
           a == net.asked /\ m # "time"
           b == IF m \in Starts THEN TRUE ELSE net.streaming /\ m # "end"
<1>1. Units(u)
  BY TextUnits, FramesUnits
<1> HIDE DEF u, o
<1>2. Says(u, o, [net EXCEPT !.asked = a, !.streaming = b])
  BY DEF u, o
<1> HIDE DEF a, b
<1>3. [net EXCEPT !.asked = a, !.streaming = b] = ServerOf(net, net.stage, a, b, net.closed)
  BY InvHas, KeptHas DEF Good, State, NetOK, ServerOf
<1>4. Says(u, o, ServerOf(net, net.stage, a, b, net.closed))
  BY <1>2, <1>3
<1> QED BY <1>1, <1>4, SaysKeeps

(* Nothing of the server changes but what is in the socket. *)
LEMMA SaysOnly ==
  ASSUME SendspinInv, NEW units, Units(units), NEW meanings, Says(units, meanings, net)
  PROVE  SendspinInv'
<1>1. net = ServerOf(net, net.stage, net.asked, net.streaming, net.closed)
  <2>1. NetOK(net)
    BY InvHas, KeptHas DEF Good, State
  <2>2. net = NetOf(net.inbox, net.stage, net.due, net.torn, net.asked, net.streaming, net.closed)
    BY <2>1, NetHas
  <2> DEFINE v == ServerOf(net, net.stage, net.asked, net.streaming, net.closed)
  <2>3. v \in [inbox : {net.inbox}, stage : {net.stage}, due : {net.due}, torn : {net.torn},
               asked : {net.asked}, streaming : {net.streaming}, closed : {net.closed}]
    BY <2>1 DEF NetOK, ServerOf
  <2> HIDE DEF v
  <2>4. v = NetOf(net.inbox, net.stage, net.due, net.torn, net.asked, net.streaming, net.closed)
    BY <2>3 DEF NetOf
  <2> QED BY <2>2, <2>4 DEF v
<1>2. Says(units, meanings, ServerOf(net, net.stage, net.asked, net.streaming, net.closed))
  BY <1>1
<1> QED BY <1>2, SaysKeeps

LEMMA PlaysInv == SendspinInv /\ ServerPlays => SendspinInv'
<1> SUFFICES ASSUME SendspinInv, NEW cut \in CutsOf("audio"),
                    Says(Frames(cut, "binary", AudioBody),
                         Meant(cut, [cb |-> "audio", data |-> Tail(AudioBody)]), net)
             PROVE  SendspinInv'
  BY DEF ServerPlays
<1> DEFINE u == Frames(cut, "binary", AudioBody)
           o == Meant(cut, [cb |-> "audio", data |-> Tail(AudioBody)])
<1>1. Units(u)
  BY AudioUnits, FramesUnits
<1> HIDE DEF u, o
<1>2. Says(u, o, net)
  BY DEF u, o
<1> QED BY <1>1, <1>2, SaysOnly

LEMMA ControlsInv == SendspinInv /\ ServerControls => SendspinInv'
<1> SUFFICES ASSUME SendspinInv, ServerControls PROVE SendspinInv'
  OBVIOUS
<1> DEFINE id == [k |-> "id"]
           large == [i \in 1 .. MessageUnits + 1 |-> id]
<1>1. id.k # "h"
  OBVIOUS
<1>2. Units(<<id>>) /\ Units(large)
  <2> HIDE DEF id
  <2>1. Units(<<id>>)
    BY <1>1, PlainPair
  <2>2. large \in Seq({id})
    <3>1. MessageUnits + 1 \in Nat
      BY SendspinAssumption
    <3> QED BY <3>1
  <2> HIDE DEF large
  <2>3. Units(large)
    BY <1>1, <2>2, PlainUnits
  <2> QED BY <2>1, <2>3
<1>3. ASSUME NEW op, Says(Frame(op, TRUE, 0, <<>>), <<[cb |-> op]>>, net) PROVE SendspinInv'
  <2> DEFINE u == Frame(op, TRUE, 0, <<>>)
             o == <<[cb |-> op]>>
  <2>1. Units(u)
    BY EmptyUnits, FrameUnits
  <2> HIDE DEF u, o
  <2>2. Says(u, o, net)
    BY <1>3 DEF u, o
  <2> QED BY <2>1, <2>2, SaysOnly
<1>4. CASE Says(Frame("close", TRUE, 0, <<id>>), <<[cb |-> "close"]>>, [net EXCEPT !.closed = TRUE])
  <2> DEFINE u == Frame("close", TRUE, 0, <<id>>)
             o == <<[cb |-> "close"]>>
  <2>1. Units(u)
    <3> HIDE DEF id
    <3>1. \A op, fin : Units(Frame(op, fin, 0, <<id>>))
      BY <1>2, FrameUnits
    <3> QED BY <3>1
  <2>2. [net EXCEPT !.closed = TRUE] = ServerOf(net, net.stage, net.asked, net.streaming, TRUE)
    BY InvHas, KeptHas DEF Good, State, NetOK, ServerOf
  <2> HIDE DEF u, o
  <2>3. PICK no \in BOOLEAN, yes \in BOOLEAN : no = FALSE /\ yes = TRUE
    BY Truths
  <2>4. Says(u, o, ServerOf(net, net.stage, net.asked, net.streaming, yes))
    BY <1>4, <2>2, <2>3, Zenon DEF u, o
  <2> QED BY <2>1, <2>4, SaysKeeps
<1>5. CASE Says(Frame("text", TRUE, 1, large), <<[cb |-> "large"]>>, net)
  <2> DEFINE u == Frame("text", TRUE, 1, large)
             o == <<[cb |-> "large"]>>
  <2>1. Units(u)
    <3> HIDE DEF large
    <3>1. \A op, fin : Units(Frame(op, fin, 1, large))
      BY <1>2, FrameUnits
    <3> QED BY <3>1
  <2> HIDE DEF u, o
  <2>2. Says(u, o, net)
    BY <1>5 DEF u, o
  <2> QED BY <2>1, <2>2, SaysOnly
<1> QED BY <1>3, <1>4, <1>5 DEF ServerControls

----------------------------------------------------------------------------
LEMMA NextInv == SendspinInv /\ [Next]_vars => SendspinInv'
<1> SUFFICES ASSUME SendspinInv, [Next]_vars PROVE SendspinInv'
  OBVIOUS
<1>1. CASE Connect
  BY <1>1, ConnectInv
<1>2. CASE ClientStep
  BY <1>2, ClientStepInv
<1>3. CASE LeaveLoop
  <2>1. State' = State
    BY <1>3 DEF LeaveLoop, State
  <2>2. Kept(State') /\ Listed(State')
    BY <2>1 DEF SendspinInv
  <2> QED BY <2>2 DEF SendspinInv
<1>4. CASE Leave
  BY <1>4, LeaveInv
<1>5. CASE OutputFails
  BY <1>5, OutputFailsInv
<1>6. CASE Ended
  BY <1>6, UnchangedKeeps DEF Ended
<1>7. CASE ServerResponds
  BY <1>7, RespondsInv
<1>8. CASE ServerGreets
  BY <1>8, GreetsInv
<1>9. CASE ServerTells
  BY <1>9, TellsInv
<1>10. CASE ServerPlays
  BY <1>10, PlaysInv
<1>11. CASE ServerControls
  BY <1>11, ControlsInv
<1>12. CASE UNCHANGED vars
  BY <1>12, UnchangedKeeps
<1> QED BY <1>1, <1>2, <1>3, <1>4, <1>5, <1>6, <1>7, <1>8, <1>9, <1>10, <1>11, <1>12 DEF Next

(* The inductive invariant: the types of what the properties read, the     *)
(* receiver's room for the rest of the frame that has begun, the bytes due *)
(* to the server, the format of what plays and the frames it counts, over  *)
(* every step of the client, of main and of the server.                    *)
THEOREM SendspinInvariant == Spec => []SendspinInv
BY InitInv, NextInv, PTL DEF Spec

(* Whatever flush could send at a time and whenever queue_frame made room, *)
(* the server receives the client's frames whole, once and in order, for   *)
(* every size of the buffer.                                               *)
THEOREM SendspinWireIntact == Spec => []WireIntact
<1>1. SendspinInv => WireIntact
  BY DEF SendspinInv, Kept, WireOK, WireIntact, State
<1> QED BY <1>1, SendspinInvariant, PTL

(* eaf_sendspin_ws_rx_feed copies no more into the message and the control *)
(* buffer than they hold, for every length a header claims and every way   *)
(* the bytes are cut into reads.                                           *)
THEOREM SendspinReceiveFits == Spec => []ReceiveFits
<1>1. SendspinInv => ReceiveFits
  BY DEF SendspinInv, Kept, StateOK, RxOK, ReceiveFits, State
<1> QED BY <1>1, SendspinInvariant, PTL

(* While the player takes chunks, the output runs at the rate of the last  *)
(* stream and the worker decodes exactly what is compressed (start_output, *)
(* on_stream_clear, on_stream_end, across failures and connections).       *)
THEOREM SendspinAudioInFormat == Spec => []AudioInFormat
<1>1. SendspinInv => AudioInFormat
  <2> SUFFICES ASSUME SendspinInv PROVE AudioInFormat
    OBVIOUS
  <2>1. AudioOK(State) /\ StateOK(State)
    BY DEF SendspinInv, Kept
  <2>2. /\ State.player = player /\ State.board = board /\ State.worker = worker
        /\ player.compressed \in BOOLEAN /\ worker.open \in BOOLEAN
    BY <2>1 DEF StateOK, PlayerOK, State
  <2> QED BY <2>1, <2>2 DEF AudioOK, AudioInFormat
<1> QED BY <1>1, SendspinInvariant, PTL

(* The player's counters tell of every loss, for every length of a chunk:  *)
(* all frames of a compressed stream are counted, those of a PCM stream    *)
(* until a block is refused, none is counted twice, and the worker keeps   *)
(* none it decoded (queue_block, decode_sink, eaf_sendspin_player_write,   *)
(* eaf_decode_worker_step).                                                *)
THEOREM SendspinFramesAccounted == Spec => []FramesAccounted
<1>1. SendspinInv => FramesAccounted
  BY DEF SendspinInv, Kept, FramesOK, FramesAccounted, State
<1> QED BY <1>1, SendspinInvariant, PTL

----------------------------------------------------------------------------
(* What the hello lists.  A text occurs in the texts it is written into. *)

Within(x, y) ==
  \E k \in Nat : k + Len(x) <= Len(y) /\ \A j \in 1 .. Len(x) : y[k + j] = x[j]

LEMMA WithinSelf == ASSUME NEW x, IsSeq(x) PROVE Within(x, x)
<1>1. Len(x) \in Nat
  BY SeqHas
<1>2. 0 \in Nat /\ 0 + Len(x) <= Len(x) /\ \A j \in 1 .. Len(x) : x[0 + j] = x[j]
  BY <1>1
<1> QED BY <1>2 DEF Within

LEMMA WithinTrans ==
  ASSUME NEW x, NEW y, NEW z, IsSeq(x), IsSeq(y), IsSeq(z), Within(x, y), Within(y, z)
  PROVE  Within(x, z)
<1>0. Len(x) \in Nat /\ Len(y) \in Nat /\ Len(z) \in Nat
  BY SeqHas
<1>1. PICK k \in Nat : k + Len(x) <= Len(y) /\ \A j \in 1 .. Len(x) : y[k + j] = x[j]
  BY DEF Within
<1>2. PICK i \in Nat : i + Len(y) <= Len(z) /\ \A j \in 1 .. Len(y) : z[i + j] = y[j]
  BY DEF Within
<1>3. i + k \in Nat /\ (i + k) + Len(x) <= Len(z)
  BY <1>0, <1>1, <1>2
<1>4. \A j \in 1 .. Len(x) : z[(i + k) + j] = x[j]
  <2> SUFFICES ASSUME NEW j \in 1 .. Len(x) PROVE z[(i + k) + j] = x[j]
    OBVIOUS
  <2>1. k + j \in 1 .. Len(y) /\ (i + k) + j = i + (k + j)
    BY <1>0, <1>1
  <2>2. z[i + (k + j)] = y[k + j] /\ y[k + j] = x[j]
    BY <1>1, <1>2, <2>1
  <2> QED BY <2>1, <2>2
<1> DEFINE h == i + k
<1> HIDE DEF h
<1>5. h \in Nat /\ h + Len(x) <= Len(z) /\ \A j \in 1 .. Len(x) : z[h + j] = x[j]
  BY <1>3, <1>4 DEF h
<1> QED BY <1>5 DEF Within

LEMMA WithinCat ==
  ASSUME NEW x, NEW y, IsSeq(x), IsSeq(y)
  PROVE  IsSeq(x \o y) /\ Within(x, x \o y) /\ Within(y, x \o y)
<1> DEFINE z == x \o y
<1>0. Len(x) \in Nat /\ Len(y) \in Nat
  BY SeqHas
<1>1. /\ IsSeq(z) /\ Len(z) = Len(x) + Len(y)
      /\ \A i \in 1 .. Len(x) + Len(y) : z[i] = IF i <= Len(x) THEN x[i] ELSE y[i - Len(x)]
  BY SeqCat
<1> HIDE DEF z
<1>2. Within(x, z)
  <2>1. 0 \in Nat /\ 0 + Len(x) <= Len(z) /\ \A j \in 1 .. Len(x) : z[0 + j] = x[j]
    BY <1>0, <1>1
  <2> QED BY <2>1 DEF Within
<1>3. Within(y, z)
  <2>1. Len(x) \in Nat /\ Len(x) + Len(y) <= Len(z)
    BY <1>0, <1>1
  <2>2. \A j \in 1 .. Len(y) : z[Len(x) + j] = y[j]
    <3> SUFFICES ASSUME NEW j \in 1 .. Len(y) PROVE z[Len(x) + j] = y[j]
      OBVIOUS
    <3>1. Len(x) + j \in 1 .. Len(x) + Len(y) /\ ~(Len(x) + j <= Len(x)) /\ (Len(x) + j) - Len(x) = j
      BY <1>0
    <3> QED BY <1>1, <3>1
  <2> QED BY <2>1, <2>2 DEF Within
<1> QED BY <1>1, <1>2, <1>3 DEF z

(* FlattenSeq is a function of the number of parts. *)
LEMMA FlattenUnrolled ==
  ASSUME NEW parts, NEW n \in Nat, n > 0, Len(parts) = n
  PROVE  \E f : /\ f[1] = parts[1] /\ f[n] = FlattenSeq(parts)
                /\ \A i \in 1 .. n : i > 1 => f[i] = f[i - 1] \o parts[i]
<1> DEFINE Is(f, i) == f[i] = IF i = 1 THEN parts[i] ELSE f[i - 1] \o parts[i]
           All(f) == f = [i \in 1 .. n |-> IF i = 1 THEN parts[i] ELSE f[i - 1] \o parts[i]]
           T == {k \in Nat : \E f : \A i \in 1 .. k : Is(f, i)}
<1>1. 0 \in T
  <2>1. \A i \in 1 .. 0 : Is([j \in {0} |-> 0], i)
    OBVIOUS
  <2> QED BY <2>1
<1>2. \A k \in Nat : k \in T => k + 1 \in T
  <2> SUFFICES ASSUME NEW k \in Nat, NEW g, \A i \in 1 .. k : Is(g, i) PROVE k + 1 \in T
    OBVIOUS
  <2> DEFINE last == IF k + 1 = 1 THEN parts[k + 1] ELSE g[k] \o parts[k + 1]
             h == [i \in 1 .. k + 1 |-> IF i = k + 1 THEN last ELSE g[i]]
  <2> HIDE DEF last
  <2>1. \A i \in 1 .. k + 1 : h[i] = IF i = k + 1 THEN last ELSE g[i]
    OBVIOUS
  <2> HIDE DEF h
  <2>2. \A i \in 1 .. k + 1 : Is(h, i)
    <3> SUFFICES ASSUME NEW i \in 1 .. k + 1 PROVE Is(h, i)
      OBVIOUS
    <3>1. CASE i = k + 1
      <4>1. k + 1 # 1 => h[k] = g[k] /\ (k + 1) - 1 = k
        BY <2>1
      <4> QED BY <2>1, <3>1, <4>1 DEF last
    <3>2. CASE i # k + 1
      <4>1. i \in 1 .. k /\ h[i] = g[i] /\ (i # 1 => i - 1 \in 1 .. k + 1 /\ i - 1 # k + 1)
        BY <2>1, <3>2
      <4>2. i # 1 => h[i - 1] = g[i - 1]
        BY <2>1, <4>1
      <4> QED BY <4>1, <4>2
    <3> QED BY <3>1, <3>2
  <2> QED BY <2>2
<1>3. PICK f : \A i \in 1 .. n : Is(f, i)
  <2> HIDE DEF T
  <2>1. n \in T
    BY <1>1, <1>2, NatSet
  <2> QED BY <2>1 DEF T
<1> DEFINE d == [i \in 1 .. n |-> f[i]]
<1>4. All(d)
  <2>1. \A i \in 1 .. n : d[i] = IF i = 1 THEN parts[i] ELSE d[i - 1] \o parts[i]
    <3> SUFFICES ASSUME NEW i \in 1 .. n
                 PROVE  f[i] = IF i = 1 THEN parts[i] ELSE d[i - 1] \o parts[i]
      OBVIOUS
    <3>1. i # 1 => i - 1 \in 1 .. n
      OBVIOUS
    <3> QED BY <1>3, <3>1
  <2> QED BY <2>1
<1> DEFINE c == CHOOSE f1 : All(f1)
           e == [i \in 1 .. n |-> IF i = 1 THEN parts[i] ELSE c[i - 1] \o parts[i]]
<1>5. All(c)
  <2> HIDE DEF All
  <2> QED BY <1>4
<1>6. FlattenSeq(parts) = c[n]
  BY DEF FlattenSeq
<1> HIDE DEF c
<1>7. \A i \in 1 .. n : e[i] = IF i = 1 THEN parts[i] ELSE c[i - 1] \o parts[i]
  OBVIOUS
<1>8. c = e
  BY <1>5, Zenon
<1> HIDE DEF e
<1>9. c[1] = parts[1]
  <2>1. 1 \in 1 .. n
    OBVIOUS
  <2> QED BY <1>7, <1>8, <2>1
<1>10. \A i \in 1 .. n : i > 1 => c[i] = c[i - 1] \o parts[i]
  <2> SUFFICES ASSUME NEW i \in 1 .. n, i > 1 PROVE c[i] = c[i - 1] \o parts[i]
    OBVIOUS
  <2>1. i # 1
    OBVIOUS
  <2>2. e[i] = c[i - 1] \o parts[i]
    BY <1>7, <2>1, Zenon
  <2> QED BY <1>8, <2>2, Zenon
<1> QED BY <1>6, <1>9, <1>10

(* Every part occurs in the whole. *)
LEMMA FlattenWithin ==
  ASSUME NEW parts, IsSeq(parts), \A i \in 1 .. Len(parts) : IsSeq(parts[i])
  PROVE  /\ IsSeq(FlattenSeq(parts))
         /\ \A i \in 1 .. Len(parts) : Within(parts[i], FlattenSeq(parts))
<1> DEFINE n == Len(parts)
<1>0. n \in Nat
  BY SeqHas
<1>1. CASE n = 0
  <2>1. FlattenSeq(parts) = parts
    BY <1>1 DEF FlattenSeq
  <2> QED BY <1>1, <2>1
<1>2. CASE n # 0
  <2> HIDE DEF n
  <2>0. n > 0 /\ Len(parts) = n
    BY <1>0, <1>2 DEF n
  <2>1. PICK f : /\ f[1] = parts[1] /\ f[n] = FlattenSeq(parts)
                 /\ \A i \in 1 .. n : i > 1 => f[i] = f[i - 1] \o parts[i]
    BY <1>0, <2>0, FlattenUnrolled
  <2>2. \A i \in 1 .. n : IsSeq(parts[i])
    BY <2>0
  <2> DEFINE Ok(k) == IsSeq(f[k]) /\ \A i \in 1 .. k : Within(parts[i], f[k])
             T == {k \in Nat : k \in 1 .. n => Ok(k)}
  <2>3. 0 \in T
    BY <1>0
  <2>4. \A k \in Nat : k \in T => k + 1 \in T
    <3> SUFFICES ASSUME NEW k \in Nat, k \in 1 .. n => Ok(k), k + 1 \in 1 .. n PROVE Ok(k + 1)
      OBVIOUS
    <3>1. CASE k = 0
      <4>1. f[1] = parts[1] /\ IsSeq(parts[1]) /\ Within(parts[1], parts[1])
        BY <2>1, <2>2, <3>1, WithinSelf
      <4> QED BY <3>1, <4>1
    <3>2. CASE k # 0
      <4>1. k \in 1 .. n /\ k + 1 > 1 /\ (k + 1) - 1 = k
        BY <1>0, <3>2
      <4>2. Ok(k) /\ f[k + 1] = f[k] \o parts[k + 1] /\ IsSeq(parts[k + 1])
        BY <2>1, <2>2, <4>1
      <4> DEFINE p == f[k]
                 q == parts[k + 1]
                 z == p \o q
      <4>3. IsSeq(z) /\ Within(p, z) /\ Within(q, z) /\ IsSeq(p) /\ f[k + 1] = z
        BY <4>2, WithinCat
      <4> HIDE DEF z
      <4>4. ASSUME NEW i \in 1 .. k + 1 PROVE Within(parts[i], z)
        <5>1. CASE i = k + 1
          BY <4>3, <5>1
        <5>2. CASE i # k + 1
          <6>1. i \in 1 .. k /\ i \in 1 .. n
            BY <1>0, <4>1, <5>2
          <6>2. Within(parts[i], p) /\ IsSeq(parts[i])
            BY <2>2, <4>2, <6>1
          <6> QED BY <4>3, <6>2, WithinTrans
        <5> QED BY <5>1, <5>2
      <4> QED BY <4>3, <4>4
    <3> QED BY <3>1, <3>2
  <2> HIDE DEF T
  <2>5. n \in T
    BY <1>0, <2>3, <2>4, NatSet
  <2>6. Ok(n)
    BY <1>0, <2>0, <2>5 DEF T
  <2> QED BY <2>0, <2>1, <2>6
<1> QED BY <1>1, <1>2

(* What a function on 1 .. n is as a sequence. *)
LEMMA FunSeq ==
  ASSUME NEW f, NEW n \in Nat, f = [i \in 1 .. n |-> f[i]]
  PROVE  IsSeq(f) /\ Len(f) = n
<1> DEFINE T == {f[i] : i \in 1 .. n}
<1>1. \A i \in 1 .. n : f[i] \in T
  OBVIOUS
<1> HIDE DEF T
<1>2. f \in [1 .. n -> T]
  BY <1>1
<1>3. f \in Seq(T) /\ Len(f) = n
  BY <1>2
<1> QED BY <1>3, SeqIs

LEMMA OneSeq == ASSUME NEW a PROVE IsSeq(<<a>>) /\ Len(<<a>>) = 1 /\ <<a>>[1] = a
<1>1. <<a>> \in Seq({a})
  OBVIOUS
<1> QED BY <1>1, SeqIs

LEMMA TwoSeq == ASSUME NEW a, NEW b
                PROVE  IsSeq(<<a, b>>) /\ Len(<<a, b>>) = 2 /\ <<a, b>>[1] = a /\ <<a, b>>[2] = b
<1>1. <<a, b>> \in Seq({a, b})
  OBVIOUS
<1> QED BY <1>1, SeqIs

LEMMA ThreeSeq == ASSUME NEW a, NEW b, NEW c
                  PROVE  /\ IsSeq(<<a, b, c>>) /\ Len(<<a, b, c>>) = 3
                         /\ <<a, b, c>>[1] = a /\ <<a, b, c>>[2] = b /\ <<a, b, c>>[3] = c
<1>1. <<a, b, c>> \in Seq({a, b, c})
  OBVIOUS
<1> QED BY <1>1, SeqIs

LEMMA SixSeq == ASSUME NEW a, NEW b, NEW c, NEW d, NEW e, NEW f
                PROVE  LET s == <<a, b, c, d, e, f>> IN
                       /\ IsSeq(s) /\ Len(s) = 6 /\ s[1] = a /\ s[2] = b /\ s[3] = c
                       /\ s[4] = d /\ s[5] = e /\ s[6] = f
<1>1. <<a, b, c, d, e, f>> \in Seq({a, b, c, d, e, f})
  OBVIOUS
<1>2. IsSeq(<<a, b, c, d, e, f>>)
  BY <1>1, SeqIs
<1> QED BY <1>1, <1>2

LEMMA Tokens == /\ \A x : IsSeq(Tok(x)) /\ Len(Tok(x)) = 1
                /\ \A x : IsSeq(Str(x)) /\ Len(Str(x)) = 1 /\ Str(x)[1].t = "str" /\ Str(x)[1].v = x
                /\ \A x : IsSeq(Num(x))
<1>1. ASSUME NEW x PROVE IsSeq(Tok(x)) /\ Len(Tok(x)) = 1
  BY OneSeq DEF Tok
<1>2. ASSUME NEW x PROVE IsSeq(Str(x)) /\ Len(Str(x)) = 1 /\ Str(x)[1].t = "str" /\ Str(x)[1].v = x
  BY OneSeq DEF Str
<1>3. ASSUME NEW x PROVE IsSeq(Num(x))
  BY OneSeq DEF Num
<1> QED BY <1>1, <1>2, <1>3

(* Joined, Arr and Obj hold the texts they are made of. *)
LEMMA JoinedHas ==
  ASSUME NEW parts, IsSeq(parts), \A i \in 1 .. Len(parts) : IsSeq(parts[i])
  PROVE  /\ IsSeq(Joined(parts))
         /\ \A i \in 1 .. Len(parts) : Within(parts[i], Joined(parts))
<1> DEFINE n == Len(parts)
           Part(i) == IF i = 1 THEN parts[i] ELSE Tok(",") \o parts[i]
           q == [i \in 1 .. n |-> Part(i)]
<1>0. n \in Nat /\ DOMAIN parts = 1 .. n
  BY SeqHas
<1>1. Joined(parts) = FlattenSeq(q)
  BY <1>0 DEF Joined
<1>2. ASSUME NEW i \in 1 .. n PROVE IsSeq(Part(i)) /\ Within(parts[i], Part(i))
  <2> DEFINE w == Tok(",")
             x == parts[i]
  <2>1. IsSeq(w) /\ IsSeq(x)
    BY Tokens
  <2>2. IsSeq(w \o x) /\ Within(x, w \o x) /\ Within(x, x)
    <3> HIDE DEF w, x
    <3> QED BY <2>1, WithinCat, WithinSelf
  <2> QED BY <2>1, <2>2
<1>3. q = [i \in 1 .. n |-> q[i]] /\ \A i \in 1 .. n : q[i] = Part(i)
  OBVIOUS
<1>4. IsSeq(q) /\ Len(q) = n
  <2> HIDE DEF q, n
  <2> QED BY <1>0, <1>3, FunSeq
<1> HIDE DEF q, Part
<1>5. \A i \in 1 .. Len(q) : IsSeq(q[i])
  BY <1>2, <1>3, <1>4
<1>6. IsSeq(FlattenSeq(q)) /\ \A i \in 1 .. Len(q) : Within(q[i], FlattenSeq(q))
  BY <1>4, <1>5, FlattenWithin
<1>7. ASSUME NEW i \in 1 .. n PROVE Within(parts[i], FlattenSeq(q))
  <2>1. /\ IsSeq(parts[i]) /\ IsSeq(q[i]) /\ Within(parts[i], q[i])
        /\ Within(q[i], FlattenSeq(q))
    BY <1>2, <1>3, <1>4, <1>6
  <2> QED BY <1>6, <2>1, WithinTrans
<1> QED BY <1>1, <1>6, <1>7

LEMMA ArrHas ==
  ASSUME NEW elements, IsSeq(elements), \A i \in 1 .. Len(elements) : IsSeq(elements[i])
  PROVE  /\ IsSeq(Arr(elements))
         /\ \A i \in 1 .. Len(elements) : Within(elements[i], Arr(elements))
<1> DEFINE x == Tok("[")
           y == Joined(elements)
           z == Tok("]")
<1>1. IsSeq(x) /\ IsSeq(z)
  BY Tokens
<1>2. IsSeq(y) /\ \A i \in 1 .. Len(elements) : Within(elements[i], y)
  BY JoinedHas
<1>3. Arr(elements) = (x \o y) \o z
  BY DEF Arr
<1> HIDE DEF x, y, z
<1>4. IsSeq(x \o y) /\ Within(y, x \o y)
  BY <1>1, <1>2, WithinCat
<1>5. IsSeq((x \o y) \o z) /\ Within(x \o y, (x \o y) \o z)
  BY <1>1, <1>4, WithinCat
<1>6. Within(y, (x \o y) \o z)
  BY <1>2, <1>4, <1>5, WithinTrans
<1>7. ASSUME NEW i \in 1 .. Len(elements) PROVE Within(elements[i], (x \o y) \o z)
  BY <1>2, <1>5, <1>6, WithinTrans
<1> QED BY <1>3, <1>5, <1>7

Member(k, v) == Str(k) \o Tok(":") \o v

LEMMA MemberHas ==
  ASSUME NEW k, NEW v, IsSeq(v)
  PROVE  IsSeq(Member(k, v)) /\ Within(v, Member(k, v))
<1> DEFINE x == Str(k)
           y == Tok(":")
<1>1. IsSeq(x) /\ IsSeq(y) /\ Member(k, v) = (x \o y) \o v
  BY Tokens DEF Member
<1> HIDE DEF x, y
<1>2. IsSeq(x \o y)
  BY <1>1, WithinCat
<1> QED BY <1>1, <1>2, WithinCat

LEMMA ObjHas ==
  ASSUME NEW members, IsSeq(members), \A i \in 1 .. Len(members) : IsSeq(members[i][2])
  PROVE  /\ IsSeq(Obj(members))
         /\ \A i \in 1 .. Len(members) :
              /\ Within(Member(members[i][1], members[i][2]), Obj(members))
              /\ Within(members[i][2], Obj(members))
<1> DEFINE n == Len(members)
           q == [i \in 1 .. n |-> Member(members[i][1], members[i][2])]
           x == Tok("{")
           y == Joined(q)
           z == Tok("}")
<1>0. n \in Nat /\ DOMAIN members = 1 .. n
  BY SeqHas
<1>1. Obj(members) = (x \o y) \o z
  BY <1>0 DEF Obj, Member
<1>2. \A i \in 1 .. n : /\ IsSeq(Member(members[i][1], members[i][2]))
                        /\ Within(members[i][2], Member(members[i][1], members[i][2]))
  BY MemberHas
<1>3. q = [i \in 1 .. n |-> q[i]] /\ \A i \in 1 .. n : q[i] = Member(members[i][1], members[i][2])
  OBVIOUS
<1>4. IsSeq(q) /\ Len(q) = n
  <2> HIDE DEF q, n
  <2> QED BY <1>0, <1>3, FunSeq
<1> HIDE DEF q
<1>5. IsSeq(x) /\ IsSeq(z)
  BY Tokens
<1>6. IsSeq(y) /\ \A i \in 1 .. n : Within(q[i], y)
  BY <1>2, <1>3, <1>4, JoinedHas
<1> HIDE DEF x, y, z
<1>7. IsSeq(x \o y) /\ Within(y, x \o y)
  BY <1>5, <1>6, WithinCat
<1>8. IsSeq((x \o y) \o z) /\ Within(x \o y, (x \o y) \o z)
  BY <1>5, <1>7, WithinCat
<1>9. Within(y, (x \o y) \o z)
  BY <1>6, <1>7, <1>8, WithinTrans
<1>10. ASSUME NEW i \in 1 .. n
       PROVE  Within(q[i], (x \o y) \o z) /\ Within(members[i][2], (x \o y) \o z)
  <2>1. IsSeq(q[i]) /\ IsSeq(members[i][2]) /\ Within(q[i], y) /\ Within(members[i][2], q[i])
    BY <1>2, <1>3, <1>6
  <2>2. Within(q[i], (x \o y) \o z)
    BY <1>6, <1>8, <1>9, <2>1, WithinTrans
  <2> QED BY <1>8, <2>1, <2>2, WithinTrans
<1> QED BY <1>1, <1>3, <1>8, <1>10

LEMMA FormatHas ==
  ASSUME NEW f
  PROVE  /\ IsSeq(write_format(f))
         /\ Within(Member("codec", Str(f.codec)), write_format(f))
<1> DEFINE a == <<"codec", Str(f.codec)>>
           b == <<"channels", Num(f.channels)>>
           c == <<"sample_rate", Num(f.rate)>>
           d == <<"bit_depth", Num(f.bits)>>
           base == <<a, b, c>>
           extra == IF f.codec = "pcm" /\ f.bits # 0 THEN <<d>> ELSE <<>>
           m == base \o extra
<1>1. write_format(f) = Obj(m)
  BY DEF write_format
<1>2. IsSeq(a[2]) /\ IsSeq(b[2]) /\ IsSeq(c[2]) /\ IsSeq(d[2]) /\ a[1] = "codec" /\ a[2] = Str(f.codec)
  BY Tokens, TwoSeq
<1> HIDE DEF a, b, c, d
<1>3. IsSeq(base) /\ Len(base) = 3 /\ base[1] = a /\ base[2] = b /\ base[3] = c
  BY ThreeSeq
<1>4. IsSeq(extra) /\ Len(extra) \in Nat /\ \A i \in 1 .. Len(extra) : extra[i] = d
  <2>1. IsSeq(<<d>>) /\ Len(<<d>>) = 1 /\ <<d>>[1] = d
    BY OneSeq
  <2>2. IsSeq(<<>>) /\ Len(<<>>) = 0
    BY EmptyUnits DEF Units
  <2> QED BY <2>1, <2>2
<1> HIDE DEF base, extra
<1>5. /\ IsSeq(m) /\ Len(m) = 3 + Len(extra)
      /\ \A i \in 1 .. 3 + Len(extra) : m[i] = IF i <= 3 THEN base[i] ELSE extra[i - 3]
  <2>1. /\ IsSeq(m) /\ Len(m) = Len(base) + Len(extra)
        /\ \A i \in 1 .. Len(base) + Len(extra) :
             m[i] = IF i <= Len(base) THEN base[i] ELSE extra[i - Len(base)]
    BY <1>3, <1>4, SeqCat
  <2> HIDE DEF m
  <2> QED BY <1>3, <2>1
<1> HIDE DEF m
<1>6. ASSUME NEW i \in 1 .. Len(m) PROVE IsSeq(m[i][2])
  <2>1. CASE i <= 3
    <3>1. i \in {1, 2, 3} /\ m[i] = base[i]
      BY <1>4, <1>5, <2>1
    <3> QED BY <1>2, <1>3, <3>1
  <2>2. CASE ~(i <= 3)
    <3>1. i - 3 \in 1 .. Len(extra) /\ m[i] = extra[i - 3]
      BY <1>4, <1>5, <2>2
    <3> QED BY <1>2, <1>4, <3>1
  <2> QED BY <1>4, <1>5, <2>1, <2>2
<1>7. 1 \in 1 .. Len(m) /\ m[1] = a
  BY <1>3, <1>4, <1>5
<1>8. IsSeq(Obj(m)) /\ Within(Member(m[1][1], m[1][2]), Obj(m))
  BY <1>5, <1>6, <1>7, ObjHas
<1> QED BY <1>1, <1>2, <1>7, <1>8

(* The formats the hello lists. *)
ListedFormats ==
  LET Named(f) == IF f.codec \in Codecs THEN <<f>> ELSE <<>>
      named == FlattenSeq([i \in DOMAIN Formats |-> Named(Formats[i])])
  IN IF named = <<>> THEN <<Fallback>> ELSE named

LEMMA FormatIsListed ==
  ASSUME NEW c, client_supports_codec(c), c # "unknown"
  PROVE  IsSeq(ListedFormats) /\ \E i \in 1 .. Len(ListedFormats) : ListedFormats[i].codec = c
<1> DEFINE F == [codec : Codecs \cup {"unknown"}, rate : Nat, channels : Nat, bits : Nat]
           n == Len(Formats)
           Named(f) == IF f.codec \in Codecs THEN <<f>> ELSE <<>>
           parts == [i \in 1 .. n |-> Named(Formats[i])]
           named == FlattenSeq(parts)
<1>1. /\ Formats \in Seq(F) /\ Fallback.codec = "pcm"
      /\ n \in Nat /\ DOMAIN Formats = 1 .. n
      /\ \A i \in 1 .. n : Formats[i].codec \in Codecs \cup {"unknown"}
  <2>1. Formats \in Seq(F) /\ Fallback.codec = "pcm"
    BY SendspinAssumption
  <2>2. \A f \in F : f.codec \in Codecs \cup {"unknown"}
    OBVIOUS
  <2> HIDE DEF F
  <2> QED BY <2>1, <2>2
<1>2. ListedFormats = IF named = <<>> THEN <<Fallback>> ELSE named
  BY <1>1 DEF ListedFormats
<1>3. parts = [i \in 1 .. n |-> parts[i]] /\ \A i \in 1 .. n : parts[i] = Named(Formats[i])
  OBVIOUS
<1>4. IsSeq(parts) /\ Len(parts) = n
  <2> HIDE DEF parts, n
  <2> QED BY <1>1, <1>3, FunSeq
<1> HIDE DEF parts
<1>5. ASSUME NEW i \in 1 .. n
      PROVE  /\ IsSeq(parts[i])
             /\ Formats[i].codec \in Codecs => parts[i] = <<Formats[i]>>
  <2>1. IsSeq(<<>>)
    BY EmptyUnits DEF Units
  <2>2. parts[i] = IF Formats[i].codec \in Codecs THEN <<Formats[i]>> ELSE <<>>
    BY <1>3
  <2> QED BY <2>1, <2>2, OneSeq
<1>6. IsSeq(named) /\ \A i \in 1 .. n : Within(parts[i], named)
  BY <1>4, <1>5, FlattenWithin
<1>7. CASE Formats = <<>>
  <2>1. n = 0 /\ c = "pcm"
    BY <1>7 DEF client_supports_codec
  <2>2. named = parts
    BY <1>4, <2>1 DEF FlattenSeq
  <2>3. parts = <<>>
    <3>1. parts \in Seq({}) /\ <<>> \in Seq({}) /\ Len(<<>>) = 0
      BY <1>4, <2>1, SeqIn
    <3> QED BY <1>4, <2>1, <3>1, SeqSame
  <2>4. ListedFormats = <<Fallback>>
    BY <1>2, <2>2, <2>3
  <2>5. /\ IsSeq(ListedFormats) /\ 1 \in 1 .. Len(ListedFormats)
        /\ ListedFormats[1] = Fallback
    BY <2>4, OneSeq
  <2> QED BY <1>1, <2>1, <2>5
<1>8. CASE Formats # <<>>
  <2>1. PICK i \in 1 .. n : Formats[i].codec = c
    BY <1>1, <1>8 DEF client_supports_codec
  <2>0. Formats[i].codec \in Codecs
    BY <1>1, <2>1
  <2>2. Within(parts[i], named) /\ parts[i] = <<Formats[i]>> /\ Len(parts[i]) = 1 /\ parts[i][1] = Formats[i]
    BY <1>5, <1>6, <2>0, OneSeq
  <2> HIDE DEF named
  <2>3. PICK k \in Nat : k + 1 <= Len(named) /\ named[k + 1] = Formats[i]
    BY <2>2 DEF Within
  <2>4. Len(named) \in Nat /\ k + 1 \in 1 .. Len(named) /\ named # <<>>
    BY <1>6, <2>3, SeqHas, EmptyUnits
  <2>5. ListedFormats = named
    BY <1>2, <2>4
  <2> QED BY <1>6, <2>1, <2>3, <2>4, <2>5
<1> QED BY <1>7, <1>8

(* Every codec with a name that client_supports_codec accepts is one the   *)
(* hello lists.                                                            *)
LEMMA SupportedIsAdvertised ==
  ASSUME NEW c, client_supports_codec(c), c # "unknown"
  PROVE  c \in Advertised
<1> DEFINE formats == [i \in DOMAIN ListedFormats |-> write_format(ListedFormats[i])]
           array == Arr(formats)
           s1 == <<"supported_formats", array>>
           s2 == <<"buffer_capacity", Num(0)>>
           commands == Arr(<<Str("volume"), Str("mute")>>)
           s3 == <<"supported_commands", commands>>
           support == Obj(<<s1, s2, s3>>)
           i1 == <<"product_name", Str("name")>>
           i2 == <<"manufacturer", Str("EAF")>>
           i3 == <<"software_version", Str("phase2")>>
           info == Obj(<<i1, i2, i3>>)
           roles == Arr(<<Str("player@v1")>>)
           p1 == <<"client_id", Str("id")>>
           p2 == <<"name", Str("name")>>
           p3 == <<"version", Num(1)>>
           p4 == <<"supported_roles", roles>>
           p5 == <<"device_info", info>>
           p6 == <<"player@v1_support", support>>
           payload == Obj(<<p1, p2, p3, p4, p5, p6>>)
           h1 == <<"payload", payload>>
           h2 == <<"type", Str("client/hello")>>
           hello == Obj(<<h1, h2>>)
           item == Member("codec", Str(c))
<1>1. eaf_sendspin_build_client_hello(Formats, Fallback) = hello
  BY DEF eaf_sendspin_build_client_hello, ListedFormats
<1>2. /\ h1[2] = payload /\ h2[2] = Str("client/hello") /\ p1[2] = Str("id") /\ p2[2] = Str("name")
      /\ p3[2] = Num(1) /\ p4[2] = roles /\ p5[2] = info /\ p6[2] = support
      /\ i1[2] = Str("name") /\ i2[2] = Str("EAF") /\ i3[2] = Str("phase2")
      /\ s1[2] = array /\ s2[2] = Num(0) /\ s3[2] = commands
  BY TwoSeq
<1> HIDE DEF h1, h2, p1, p2, p3, p4, p5, p6, i1, i2, i3, s1, s2, s3
<1>3. IsSeq(item)
  BY Tokens, MemberHas
<1>4. PICK j \in 1 .. Len(ListedFormats) : ListedFormats[j].codec = c
  BY FormatIsListed
<1>5. IsSeq(ListedFormats) /\ Len(ListedFormats) \in Nat /\ DOMAIN ListedFormats = 1 .. Len(ListedFormats)
  BY FormatIsListed, SeqHas
<1>6. IsSeq(array) /\ Within(item, array)
  <2> DEFINE n == Len(ListedFormats)
  <2>1. /\ formats = [i \in 1 .. n |-> formats[i]]
        /\ \A i \in 1 .. n : formats[i] = write_format(ListedFormats[i])
    BY <1>5
  <2>2. IsSeq(formats) /\ Len(formats) = n
    <3> HIDE DEF formats, n
    <3> QED BY <1>5, <2>1, FunSeq DEF n
  <2> HIDE DEF formats
  <2>3. \A i \in 1 .. Len(formats) : IsSeq(formats[i])
    BY <2>1, <2>2, FormatHas
  <2>4. IsSeq(array) /\ Within(formats[j], array)
    BY <2>2, <2>3, ArrHas
  <2>5. Within(item, formats[j])
    BY <1>4, <2>1, FormatHas
  <2> HIDE DEF array, item
  <2> QED BY <1>3, <2>2, <2>3, <2>4, <2>5, WithinTrans
<1> HIDE DEF array, item
<1>7. IsSeq(commands)
  <2> DEFINE x == Str("volume")
             y == Str("mute")
  <2>1. IsSeq(x) /\ IsSeq(y)
    BY Tokens
  <2> HIDE DEF x, y
  <2>2. IsSeq(<<x, y>>) /\ Len(<<x, y>>) = 2 /\ <<x, y>>[1] = x /\ <<x, y>>[2] = y
    BY TwoSeq
  <2> DEFINE z == <<x, y>>
  <2> HIDE DEF z
  <2>3. IsSeq(z) /\ \A i \in 1 .. Len(z) : IsSeq(z[i])
    BY <2>1, <2>2 DEF z
  <2>4. IsSeq(Arr(z))
    BY <2>3, ArrHas
  <2> QED BY <2>4 DEF z, x, y
<1> HIDE DEF commands
<1>8. IsSeq(support) /\ Within(array, support)
  <2> DEFINE z == <<s1, s2, s3>>
  <2>1. IsSeq(z) /\ Len(z) = 3 /\ z[1] = s1 /\ z[2] = s2 /\ z[3] = s3
    BY ThreeSeq
  <2> HIDE DEF z
  <2>2. \A i \in 1 .. Len(z) : IsSeq(z[i][2])
    BY <1>2, <1>6, <1>7, <2>1, Tokens
  <2>3. IsSeq(Obj(z)) /\ Within(z[1][2], Obj(z))
    BY <2>1, <2>2, ObjHas
  <2> QED BY <1>2, <2>1, <2>3 DEF z
<1> HIDE DEF support
<1>9. IsSeq(info)
  <2> DEFINE z == <<i1, i2, i3>>
  <2>1. IsSeq(z) /\ Len(z) = 3 /\ z[1] = i1 /\ z[2] = i2 /\ z[3] = i3
    BY ThreeSeq
  <2> HIDE DEF z
  <2>2. \A i \in 1 .. Len(z) : IsSeq(z[i][2])
    BY <1>2, <2>1, Tokens
  <2>3. IsSeq(Obj(z))
    BY <2>1, <2>2, ObjHas
  <2> QED BY <2>3 DEF z
<1> HIDE DEF info
<1>10. IsSeq(roles)
  <2> DEFINE x == Str("player@v1")
             z == <<x>>
  <2>1. IsSeq(x)
    BY Tokens
  <2> HIDE DEF x
  <2>2. IsSeq(z) /\ Len(z) = 1 /\ z[1] = x
    BY OneSeq
  <2> HIDE DEF z
  <2>3. \A i \in 1 .. Len(z) : IsSeq(z[i])
    BY <2>1, <2>2
  <2>4. IsSeq(Arr(z))
    BY <2>2, <2>3, ArrHas
  <2> QED BY <2>4 DEF z, x
<1> HIDE DEF roles
<1>11. IsSeq(payload) /\ Within(support, payload)
  <2> DEFINE z == <<p1, p2, p3, p4, p5, p6>>
  <2>1. IsSeq(z) /\ Len(z) = 6
    BY SixSeq
  <2>2. z[1] = p1 /\ z[2] = p2 /\ z[3] = p3 /\ z[4] = p4 /\ z[5] = p5 /\ z[6] = p6
    BY SixSeq
  <2> HIDE DEF z
  <2>3. ASSUME NEW i \in 1 .. Len(z) PROVE IsSeq(z[i][2])
    <3>1. i \in {1, 2, 3, 4, 5, 6}
      BY <2>1
    <3> QED BY <1>2, <1>8, <1>9, <1>10, <2>2, <3>1, Tokens
  <2>4. 6 \in 1 .. Len(z)
    BY <2>1
  <2>5. IsSeq(Obj(z)) /\ Within(z[6][2], Obj(z))
    BY <2>1, <2>3, <2>4, ObjHas
  <2> QED BY <1>2, <2>2, <2>5 DEF z
<1> HIDE DEF payload
<1>12. IsSeq(hello) /\ Within(payload, hello)
  <2> DEFINE z == <<h1, h2>>
  <2>1. IsSeq(z) /\ Len(z) = 2 /\ z[1] = h1 /\ z[2] = h2
    BY TwoSeq
  <2> HIDE DEF z
  <2>2. \A i \in 1 .. Len(z) : IsSeq(z[i][2])
    BY <1>2, <1>11, <2>1, Tokens
  <2>3. IsSeq(Obj(z)) /\ Within(z[1][2], Obj(z))
    BY <2>1, <2>2, ObjHas
  <2> QED BY <1>2, <2>1, <2>3 DEF z
<1> HIDE DEF hello
<1>13. Within(item, hello)
  <2>1. Within(item, support)
    BY <1>3, <1>6, <1>8, WithinTrans
  <2>2. Within(item, payload)
    BY <1>3, <1>8, <1>11, <2>1, WithinTrans
  <2> QED BY <1>3, <1>11, <1>12, <2>2, WithinTrans
<1>14. Len(item) = 3 /\ item[1].t = "str" /\ item[1].v = "codec" /\ item[3].v = c
  <2> DEFINE x == Str("codec")
             y == Tok(":")
             z == Str(c)
  <2>1. /\ IsSeq(x) /\ Len(x) = 1 /\ x[1].t = "str" /\ x[1].v = "codec" /\ IsSeq(y) /\ Len(y) = 1
        /\ IsSeq(z) /\ Len(z) = 1 /\ z[1].v = c
    BY Tokens
  <2>2. item = (x \o y) \o z
    BY DEF item, Member
  <2> HIDE DEF x, y, z
  <2> DEFINE q == x \o y
  <2>3. IsSeq(q) /\ Len(q) = 2 /\ q[1] = x[1]
    <3>1. /\ IsSeq(q) /\ Len(q) = Len(x) + Len(y)
          /\ \A i \in 1 .. Len(x) + Len(y) : q[i] = IF i <= Len(x) THEN x[i] ELSE y[i - Len(x)]
      BY <2>1, SeqCat
    <3> HIDE DEF q
    <3> QED BY <2>1, <3>1
  <2> HIDE DEF q
  <2>4. Len(q \o z) = 3 /\ (q \o z)[1] = q[1] /\ (q \o z)[3] = z[1]
    <3> DEFINE r == q \o z
    <3>1. /\ Len(r) = Len(q) + Len(z)
          /\ \A i \in 1 .. Len(q) + Len(z) : r[i] = IF i <= Len(q) THEN q[i] ELSE z[i - Len(q)]
      BY <2>1, <2>3, SeqCat
    <3> HIDE DEF r
    <3>2. Len(r) = 3 /\ r[1] = q[1] /\ r[3] = z[1]
      BY <2>1, <2>3, <3>1
    <3> QED BY <3>2 DEF r
  <2> QED BY <2>1, <2>2, <2>3, <2>4 DEF q
<1>15. PICK k \in Nat : k + 3 <= Len(hello) /\ hello[k + 1] = item[1] /\ hello[k + 3] = item[3]
  BY <1>13, <1>14 DEF Within
<1>16. /\ k + 3 \in 3 .. Len(hello) /\ (k + 3) - 2 = k + 1
       /\ hello[k + 1].t = "str" /\ hello[k + 1].v = "codec" /\ hello[k + 3].v = c
  BY <1>12, <1>14, <1>15, SeqHas
<1> QED BY <1>1, <1>16 DEF Advertised

(* A stream in a codec that has a name is active only when the hello named *)
(* it: client_supports_codec accepts none of these that                    *)
(* eaf_sendspin_build_client_hello leaves out, for every list of formats,  *)
(* with entries without a codec and the scalar fallback of an empty list.  *)
THEOREM SendspinStreamWasAdvertised == Spec => []StreamWasAdvertised
<1>1. SendspinInv => StreamWasAdvertised
  BY SupportedIsAdvertised DEF SendspinInv, Listed, State, StreamWasAdvertised
<1> QED BY <1>1, SendspinInvariant, PTL
=============================================================================
