---------------------------- MODULE PlayerProofs ----------------------------
(***************************************************************************)
(* The file player is safe for every source, block and reservoir size, any *)
(* number of commands, seeks and restarts, and whatever call fails: the    *)
(* inductive invariant PlayerInv of Player.tla and what follows.           *)
(***************************************************************************)
EXTENDS Player, TLAPS

LEMMA Sizes ==
  /\ Total \in Nat /\ Capacity \in Nat /\ SeekTargets \subseteq 0..Total
  /\ -1 \in -1..Total
  BY PlayerAssumption

LEMMA Empty ==
  /\ <<>> \in Seq(Int) /\ Len(<<>>) = 0
  /\ <<>> \in Seq(SeekTargets \cup {STOP, GAIN})
  OBVIOUS

LEMMA Cut ==
  ASSUME NEW s \in Seq(Int), NEW k \in 0..Len(s)
  PROVE  /\ SubSeq(s, 1, k) \in Seq(Int) /\ Len(SubSeq(s, 1, k)) = k
         /\ SubSeq(s, k + 1, Len(s)) \in Seq(Int)
         /\ Len(SubSeq(s, k + 1, Len(s))) = Len(s) - k
  OBVIOUS

LEMMA HeadTail ==
  ASSUME NEW S, NEW s \in Seq(S), s # <<>>
  PROVE  Head(s) \in S /\ Tail(s) \in Seq(S)
  OBVIOUS

(* Cutting a run of frames gives two runs ...                              *)
LEMMA RunCut ==
  ASSUME NEW s \in Seq(Int), NEW first \in Int, IsRun(s, first),
         NEW k \in 0..Len(s)
  PROVE  IsRun(SubSeq(s, 1, k), first) /\ IsRun(SubSeq(s, k + 1, Len(s)), first + k)
  BY DEF IsRun

LEMMA Concat ==
  ASSUME NEW s \in Seq(Int), NEW t \in Seq(Int)
  PROVE  s \o t \in Seq(Int) /\ Len(s \o t) = Len(s) + Len(t)
  OBVIOUS

(* ... and two runs that meet make one. *)
LEMMA RunJoin ==
  ASSUME NEW s \in Seq(Int), NEW t \in Seq(Int), NEW first \in Int,
         IsRun(s, first), IsRun(t, first + Len(s))
  PROVE  IsRun(s \o t, first)
  BY DEF IsRun

(* A read of the source delivers a run. *)
LEMMA FramesRun ==
  ASSUME NEW first \in Int, NEW n \in Nat
  PROVE  /\ Frames(first, n) \in Seq(Int) /\ Len(Frames(first, n)) = n
         /\ IsRun(Frames(first, n), first)
  BY DEF Frames, IsRun

LEMMA EmptyRun ==
  ASSUME NEW first \in Int
  PROVE  IsRun(<<>>, first)
  BY DEF IsRun
----------------------------------------------------------------------------
LEMMA InitInv == Init => PlayerInv
<1> SUFFICES ASSUME Init PROVE PlayerInv
  OBVIOUS
<1>1. PlayerTypeOK
  BY PlayerAssumption DEF Init, Fifo!Init, PlayerTypeOK
<1>2. ThreadOK /\ BeginOK /\ ChainOK /\ BufferOK /\ CommitOK
  BY DEF Init, ThreadOK, BeginOK, ChainOK, BufferOK, CommitOK, Live
<1>3. PlayedContiguous /\ CompletedIsComplete
  BY DEF Init, PlayedContiguous, CompletedIsComplete
<1> QED BY <1>1, <1>2, <1>3 DEF PlayerInv

(* Steps of the producer that change only its place. *)
LEMMA PlaceInv ==
  ASSUME PlayerInv,
         SemTake \/ SemClear \/ SemTimeout \/ ProduceGate \/ ProduceLoop
           \/ ProduceBackpressure \/ ProduceRecheck \/ ProduceWritten
  PROVE  PlayerInv'
<1> USE DEF PlayerInv, fifo, shared, life, sem, owner, bounds, history, Goto, WaitThen
<1>1. PlayerTypeOK'
  BY DEF PlayerTypeOK, SemTake, SemClear, SemTimeout, ProduceGate, ProduceLoop,
         ProduceBackpressure, ProduceRecheck, ProduceWritten
<1>2. ThreadOK'
  BY SMTT(30) DEF PlayerTypeOK, ThreadOK, Gated, SemTake, SemClear, SemTimeout, ProduceGate, ProduceLoop,
         ProduceBackpressure, ProduceRecheck, ProduceWritten
<1>3. BufferOK'
  BY SMTT(30) DEF PlayerTypeOK, ThreadOK, ChainOK, BufferOK, Live, Looping, SemTake, SemClear, SemTimeout,
         ProduceGate, ProduceLoop, ProduceBackpressure, ProduceRecheck, ProduceWritten
<1>4. BeginOK' /\ ChainOK' /\ CommitOK' /\ PlayedContiguous' /\ CompletedIsComplete'
  <2>1. UNCHANGED <<fifo, pipe, completed, shared, life, ended, dbuf, pos, owner, history>>
    BY DEF SemTake, SemClear, SemTimeout, ProduceGate, ProduceLoop,
         ProduceBackpressure, ProduceRecheck, ProduceWritten
  <2> QED BY <2>1 DEF BeginOK, ChainOK, CommitOK, PlayedContiguous, CompletedIsComplete, Live,
                      InHand, IsRun
<1> QED BY <1>1, <1>2, <1>3, <1>4

(* A read puts the next frames of the source into the empty decode buffer. *)
LEMMA ReadInv ==
  ASSUME PlayerInv, ProduceRead
  PROVE  PlayerInv'
<1> USE DEF PlayerInv, ProduceRead, fifo, shared, life, sem, owner, bounds, history
<1>1. PICK n \in 1..Least(DecodeFrames, Total - pos) : dbuf' = Frames(pos, n) /\ pos' = pos + n
  OBVIOUS
<1>2. /\ pos \in 0..Total /\ n \in Nat /\ pos' \in 0..Total /\ pos + n = pos'
      /\ dbuf' \in Seq(Int) /\ Len(dbuf') = n /\ IsRun(dbuf', pos)
  <2>1. pos \in 0..Total /\ Total \in Nat /\ DecodeFrames \in Nat
    BY PlayerAssumption DEF PlayerTypeOK
  <2>2. n \in Nat /\ n <= Total - pos
    BY <2>1 DEF Least
  <2>3. pos' \in 0..Total /\ pos + n = pos'
    BY <1>1, <2>1, <2>2
  <2>4. dbuf' \in Seq(Int) /\ Len(dbuf') = n /\ IsRun(dbuf', pos)
    BY <1>1, <2>1, <2>2, FramesRun
  <2> QED BY <2>1, <2>2, <2>3, <2>4
<1>3. PlayerTypeOK' /\ ThreadOK'
  BY <1>2 DEF PlayerTypeOK, ThreadOK, Gated
<1>4. opc # "startpipe"
  BY DEF ThreadOK, Gated
<1>5. ChainOK'
  <2> SUFFICES ASSUME Live PROVE ChainOK'
    BY DEF ChainOK, Live
  <2>1. dbuf = <<>> /\ Len(dbuf) = 0
    BY DEF BufferOK, PlayerTypeOK
  <2>2. pos' - Len(dbuf') = pos
    BY <1>2
  <2>3. /\ Len(played) \in Nat /\ Len(queue) \in Nat /\ base \in Nat /\ InHand \in Nat
    BY DEF PlayerTypeOK, InHand
  <2>4. InHand' = InHand
    BY DEF InHand
  <2>5. /\ handle /\ ~quit /\ base + Len(played) + InHand + Len(queue) = pos
        /\ opc = "commit" => IsRun(out, base + Len(played))
        /\ IsRun(queue, base + Len(played) + InHand)
    BY <1>2, <2>1, <2>3 DEF ChainOK
  <2> QED BY <1>2, <2>2, <2>3, <2>4, <2>5 DEF ChainOK
<1>6. BufferOK'
  BY DEF BufferOK, Live, Looping
<1>7. BeginOK' /\ CommitOK' /\ PlayedContiguous' /\ CompletedIsComplete'
  BY <1>4 DEF BeginOK, CommitOK, PlayedContiguous, CompletedIsComplete
<1> QED BY <1>3, <1>5, <1>6, <1>7

LEMMA EndInv ==
  ASSUME PlayerInv, ProduceEnd \/ ProduceError
  PROVE  PlayerInv'
<1> USE DEF PlayerInv, ProduceEnd, ProduceError, Fifo!Finish, fifo, shared, life, sem, owner,
            bounds, history
<1>1. PlayerTypeOK' /\ ThreadOK'
  BY DEF PlayerTypeOK, ThreadOK, Gated
<1>2. opc # "startpipe"
  BY DEF ThreadOK, Gated
<1>3. ChainOK'
  BY DEF ChainOK, Live, InHand, IsRun
<1>4. BufferOK'
  BY DEF BufferOK, Live, Looping
<1>5. BeginOK' /\ CommitOK' /\ PlayedContiguous' /\ CompletedIsComplete'
  BY <1>2 DEF BeginOK, CommitOK, PlayedContiguous, CompletedIsComplete
<1> QED BY <1>1, <1>3, <1>4, <1>5

(* A write moves frames from the front of the decode buffer to the end of  *)
(* the queue.                                                              *)
LEMMA WriteInv ==
  ASSUME PlayerInv, ProduceWrite
  PROVE  PlayerInv'
<1> USE DEF PlayerInv, fifo, shared, life, sem, owner, bounds, history
<1> DEFINE n == Least(Len(dbuf), Capacity - Len(queue))
<1>1. CASE n = 0
  <2>1. thr = "write" /\ WaitThen("write")
    BY <1>1 DEF ProduceWrite
  <2> USE <2>1 DEF WaitThen
  <2>2. PlayerTypeOK' /\ ThreadOK' /\ BufferOK'
    BY DEF PlayerTypeOK, ThreadOK, Gated, BufferOK, Live, Looping
  <2>3. BeginOK' /\ ChainOK' /\ CommitOK' /\ PlayedContiguous' /\ CompletedIsComplete'
    BY DEF BeginOK, ChainOK, CommitOK, PlayedContiguous, CompletedIsComplete, Live, InHand, IsRun
  <2> QED BY <2>2, <2>3
<1>2. CASE n # 0
  <2> DEFINE a == SubSeq(dbuf, 1, n)
             b == SubSeq(dbuf, n + 1, Len(dbuf))
  <2>1. /\ thr = "write" /\ ~finished /\ Len(queue) + Len(a) <= Capacity
        /\ queue' = queue \o a /\ dbuf' = b
        /\ UNCHANGED <<finished, state, out, flags, wake, pipe, completed, shared, life, thr,
                       resume, ended, pos, owner, commands, history>>
    BY <1>2 DEF ProduceWrite, Fifo!Write
  <2>2. /\ dbuf \in Seq(Int) /\ queue \in Seq(Int) /\ Len(dbuf) \in Nat /\ Len(queue) \in Nat
        /\ n \in 0..Len(dbuf) /\ pos \in Nat /\ base \in Nat /\ Len(played) \in Nat
        /\ Len(out) \in Nat
    BY SMTT(30), PlayerAssumption DEF PlayerTypeOK, Least
  <2>3. a \in Seq(Int) /\ b \in Seq(Int) /\ Len(a) = n /\ Len(b) = Len(dbuf) - n
    BY <2>2, Cut
  <2> HIDE DEF n, a, b
  <2>4. PlayerTypeOK'
    <3>1. queue' \in Seq(Int) /\ dbuf' \in Seq(Int) /\ Len(queue') = Len(queue) + Len(a)
      BY <2>1, <2>2, <2>3, Concat
    <3> QED BY <2>1, <3>1 DEF PlayerTypeOK
  <2>5. ThreadOK' /\ opc # "startpipe"
    <3>1. ~Gated
      BY <2>1 DEF Gated
    <3>2. Gated' = Gated
      BY <2>1 DEF Gated
    <3> QED BY <2>1, <3>1, <3>2 DEF ThreadOK
  <2>6. ASSUME Live
        PROVE  ChainOK'
    <3> DEFINE first == pos - Len(dbuf)
               heard == base + Len(played)
    <3>1. /\ handle /\ ~quit /\ heard + InHand + Len(queue) = first
          /\ opc = "commit" => IsRun(out, heard)
          /\ IsRun(queue, heard + InHand) /\ IsRun(dbuf, first) /\ InHand \in Nat
      <4>1. InHand \in Nat
        BY <2>2 DEF InHand
      <4> QED BY <2>2, <2>6, <4>1 DEF ChainOK
    <3>2. IsRun(a, first) /\ IsRun(b, first + n)
      BY <2>2, <3>1, RunCut DEF a, b
    <3>3. IsRun(queue', heard + InHand) /\ Len(queue') = Len(queue) + n
      <4>1. heard + InHand \in Int /\ IsRun(a, heard + InHand + Len(queue))
        BY <2>2, <3>1, <3>2
      <4> QED BY <2>1, <2>2, <2>3, <3>1, <4>1, RunJoin, Concat
    <3>4. pos' - Len(dbuf') = first + n
      BY <2>1, <2>2, <2>3
    <3>5. InHand' = InHand
      BY <2>1 DEF InHand
    <3>6. heard' = heard /\ handle' /\ ~quit' /\ opc' = opc /\ out' = out
      BY <2>1, <3>1
    <3>7. heard' + InHand' + Len(queue') + Len(dbuf') = pos'
      <4>1. heard + InHand + Len(queue) = pos - Len(dbuf) /\ InHand \in Nat
        BY <3>1
      <4>2. heard + InHand + (Len(queue) + n) + (Len(dbuf) - n) = pos
        BY SMTT(30), <2>2, <4>1
      <4>3. pos' = pos /\ Len(dbuf') = Len(dbuf) - n
        BY <2>1, <2>3
      <4> QED BY <3>3, <3>5, <3>6, <4>2, <4>3
    <3>8. IsRun(out, heard)' = IsRun(out, heard)
      BY <2>1, <3>6 DEF IsRun
    <3> QED BY <2>1, <3>1, <3>2, <3>3, <3>4, <3>5, <3>6, <3>7, <3>8 DEF ChainOK
  <2>7. BufferOK'
    BY <2>1 DEF BufferOK, Live, Looping
  <2>8. BeginOK' /\ CommitOK' /\ PlayedContiguous' /\ CompletedIsComplete'
    BY <2>1, <2>5 DEF BeginOK, CommitOK, PlayedContiguous, CompletedIsComplete
  <2> QED BY <2>1, <2>4, <2>5, <2>6, <2>7, <2>8 DEF ChainOK, Live
<1> QED BY <1>1, <1>2
----------------------------------------------------------------------------
(* The owner's steps.  Most of them leave the stream alone, and end or     *)
(* begin it.                                                               *)

LEMMA QuietInv ==
  ASSUME PlayerInv, PlayerTypeOK', ThreadOK', ~Live',
         opc' \notin {"startpipe", "commit"},
         opc # "startpipe" \/ ~completed',
         UNCHANGED <<completed, history>>
  PROVE  PlayerInv'
<1>1. BeginOK' /\ ChainOK' /\ BufferOK' /\ CommitOK'
  BY DEF BeginOK, ChainOK, BufferOK, CommitOK
<1>2. PlayedContiguous' /\ CompletedIsComplete'
  BY DEF PlayerInv, PlayedContiguous, CompletedIsComplete, history
<1> QED BY <1>1, <1>2 DEF PlayerInv

LEMMA CallInv ==
  ASSUME PlayerInv, OwnerStop \/ OwnerDeinit \/ OwnerInit \/ \E f \in SeekTargets : OwnerSeek(f)
  PROVE  PlayerInv'
<1> USE DEF fifo, shared, life, sem, producer, owner, bounds, history, OwnerStop, OwnerDeinit,
            OwnerInit, OwnerSeek, BeginSeek
<1>1. PlayerTypeOK'
  <2>1. target' \in -1..Total
    BY Sizes DEF PlayerInv, PlayerTypeOK
  <2>2. commands' \in Seq(SeekTargets \cup {STOP, GAIN})
    BY Empty DEF PlayerInv, PlayerTypeOK
  <2>3. opc' \in {"idle", "stop"}
    OBVIOUS
  <2> QED BY <2>1, <2>2, <2>3 DEF PlayerInv, PlayerTypeOK
<1>2. ThreadOK'
  BY DEF PlayerInv, PlayerTypeOK, ThreadOK, Gated
<1>3. ~Live'
  BY DEF Live
<1> QED BY <1>1, <1>2, <1>3, QuietInv

LEMMA StartThreadInv ==
  ASSUME PlayerInv, opc \in {"idle", "restart"}, CanStart, StartThread
  PROVE  PlayerInv'
<1> USE DEF fifo, sem, history, StartThread, CanStart, Return
<1>1. PlayerTypeOK'
  <2>1. target' \in -1..Total /\ base' \in 0..Total
    BY Sizes DEF PlayerInv, PlayerTypeOK
  <2>2. dbuf' \in Seq(Int) /\ played' \in Seq(Int)
    BY Empty DEF PlayerInv, PlayerTypeOK
  <2>3. opc' \in {"idle", "startpipe"} /\ (thr' = thr \/ thr' = "gate")
    OBVIOUS
  <2> QED BY <2>1, <2>2, <2>3 DEF PlayerInv, PlayerTypeOK
<1>2. ThreadOK'
  BY DEF PlayerInv, PlayerTypeOK, ThreadOK, Gated
<1>3. BeginOK' /\ CommitOK' /\ ~Live'
  BY DEF BeginOK, CommitOK, Live
<1>4. ChainOK' /\ BufferOK'
  BY <1>3 DEF ChainOK, BufferOK
<1>5. PlayedContiguous' /\ CompletedIsComplete'
  BY DEF PlayerInv, PlayedContiguous, CompletedIsComplete
<1> QED BY <1>1, <1>2, <1>3, <1>4, <1>5 DEF PlayerInv

(* eaf_pipeline_start empties the reservoir; the stream begins at base. *)
LEMMA StartPipelineInv ==
  ASSUME PlayerInv, StartPipeline
  PROVE  PlayerInv'
<1> USE DEF shared, life, sem, producer, bounds, history, StartPipeline, Fifo!Reset
<1>1. PlayerTypeOK'
  BY Sizes DEF PlayerInv, PlayerTypeOK
<1>2. ThreadOK'
  BY DEF PlayerInv, PlayerTypeOK, ThreadOK, Gated
<1>3. BeginOK' /\ CommitOK' /\ CompletedIsComplete'
  BY DEF BeginOK, CommitOK, CompletedIsComplete
<1>4. PlayedContiguous'
  BY DEF PlayerInv, PlayedContiguous
<1>5. ASSUME Live'
      PROVE  ChainOK' /\ BufferOK'
  <2>1. handle /\ Gated /\ ~quit /\ opc' = "startgate"
    BY <1>5 DEF PlayerInv, ThreadOK, Live
  <2>2. played = <<>> /\ dbuf = <<>> /\ ~ended /\ base = pos /\ pos \in Int
    BY DEF PlayerInv, BeginOK, PlayerTypeOK
  <2>3. InHand' = 0
    BY <2>1 DEF InHand
  <2>4. ChainOK'
    BY <2>1, <2>2, <2>3, Empty, EmptyRun DEF ChainOK
  <2>5. BufferOK'
    BY <2>2 DEF BufferOK
  <2> QED BY <2>4, <2>5
<1>6. ChainOK' /\ BufferOK'
  BY <1>5 DEF ChainOK, BufferOK
<1> QED BY <1>1, <1>2, <1>3, <1>4, <1>6 DEF PlayerInv

LEMMA StartGateInv ==
  ASSUME PlayerInv, StartGate
  PROVE  PlayerInv'
<1> USE DEF fifo, life, producer, bounds, history, StartGate, Give, Return
<1>1. PlayerTypeOK'
  BY Sizes DEF PlayerInv, PlayerTypeOK
<1>2. ThreadOK'
  BY DEF PlayerInv, PlayerTypeOK, ThreadOK, Gated
<1>3. Live' => Live
  BY DEF Live
<1>4. ChainOK' /\ BufferOK'
  BY <1>3 DEF PlayerInv, ChainOK, BufferOK, InHand, IsRun, Looping
<1>5. BeginOK' /\ CommitOK' /\ PlayedContiguous' /\ CompletedIsComplete'
  BY DEF PlayerInv, BeginOK, CommitOK, PlayedContiguous, CompletedIsComplete
<1> QED BY <1>1, <1>2, <1>4, <1>5 DEF PlayerInv

(* Stopping, in all its ways, and a start that failed. *)
LEMMA StopInv ==
  ASSUME PlayerInv,
         StartQuit \/ StopPipeline \/ StopFail \/ StopQuit \/ Join \/ JoinFails \/ StepIdle
  PROVE  PlayerInv'
<1> USE DEF fifo, shared, life, sem, producer, bounds, history, StartQuit, StopPipeline, StopFail,
            StopQuit, Join, JoinFails, StepIdle, Give, Return, Stopped
<1>1. PlayerTypeOK'
  BY Sizes DEF PlayerInv, PlayerTypeOK
<1>2. ThreadOK'
  BY DEF PlayerInv, PlayerTypeOK, ThreadOK, Gated
<1>3. ~Live'
  BY DEF PlayerInv, ThreadOK, Live
<1> QED BY <1>1, <1>2, <1>3, QuietInv

LEMMA SeekInv ==
  ASSUME PlayerInv, Seek
  PROVE  PlayerInv'
<1> USE DEF fifo, shared, life, sem, bounds, history, Seek, Fifo!Reset, Return
<1>1. PlayerTypeOK'
  <2>1. target' \in -1..Total /\ pos' \in 0..Total
    BY Sizes DEF PlayerInv, PlayerTypeOK, ThreadOK
  <2>2. queue' \in Seq(Int) /\ Len(queue') <= Capacity /\ out' \in Seq(Int)
    <3>1. UNCHANGED <<queue, out>> \/ (queue' = <<>> /\ out' = <<>>)
      OBVIOUS
    <3>2. CASE UNCHANGED <<queue, out>>
      BY <3>2 DEF PlayerInv, PlayerTypeOK
    <3>3. CASE queue' = <<>> /\ out' = <<>>
      <4>1. Len(queue') = 0 /\ Capacity \in Nat
        BY <3>3, Sizes, Empty
      <4> QED BY <3>3, <4>1, Empty
    <3> QED BY <3>1, <3>2, <3>3
  <2>3. opc' \in {"idle", "process", "restart"}
    OBVIOUS
  <2> QED BY <2>1, <2>2, <2>3 DEF PlayerInv, PlayerTypeOK
<1>2. ThreadOK'
  BY DEF PlayerInv, PlayerTypeOK, ThreadOK, Gated
<1>3. ~Live'
  BY DEF PlayerInv, ThreadOK, Live
<1> QED BY <1>1, <1>2, <1>3, QuietInv

(* A step of the player: a command is taken, and the stream stays as it is *)
(* or is about to be stopped.                                              *)
LEMMA StepInv ==
  ASSUME PlayerInv, (ret # "ERR" /\ OwnerStep) \/ StepFailed
  PROVE  PlayerInv'
<1> USE DEF fifo, shared, life, sem, producer, bounds, history, OwnerStep, StepFailed, BeginSeek,
            StopWith, Return
<1>1. PlayerTypeOK'
  <2>0. commands \in Seq(SeekTargets \cup {STOP, GAIN}) /\ target \in -1..Total
    BY DEF PlayerInv, PlayerTypeOK
  <2>1. commands' \in Seq(SeekTargets \cup {STOP, GAIN})
    <3>1. commands' \in {commands, <<>>} \/ (commands # <<>> /\ commands' = Tail(commands))
      OBVIOUS
    <3> QED BY <2>0, <3>1, Empty, HeadTail
  <2>2. target' \in -1..Total
    <3>1. CASE target' \in {target, -1}
      BY <2>0, <3>1, Sizes
    <3>2. CASE /\ commands # <<>> /\ Head(commands) \notin {STOP, GAIN}
               /\ target' = Head(commands)
      <4>1. Head(commands) \in SeekTargets
        BY <2>0, <3>2, HeadTail
      <4>2. target' \in 0..Total /\ Total \in Nat
        BY <3>2, <4>1, Sizes
      <4> QED BY <4>2
    <3> QED BY <3>1, <3>2
  <2>3. opc' \in {"idle", "process", "stop"}
    OBVIOUS
  <2> QED BY <2>1, <2>2, <2>3 DEF PlayerInv, PlayerTypeOK
<1>2. ThreadOK'
  BY DEF PlayerInv, PlayerTypeOK, ThreadOK, Gated
<1>3. (Live' => Live) /\ opc # "commit" /\ opc' # "commit"
  BY DEF Live
<1>4. ChainOK' /\ BufferOK'
  BY <1>3 DEF PlayerInv, ChainOK, BufferOK, InHand, IsRun, Looping
<1>5. BeginOK' /\ CommitOK' /\ PlayedContiguous' /\ CompletedIsComplete'
  BY DEF PlayerInv, BeginOK, CommitOK, PlayedContiguous, CompletedIsComplete
<1> QED BY <1>1, <1>2, <1>4, <1>5 DEF PlayerInv

(* What a pull does: it cuts a block from the front of the queue, perhaps  *)
(* an empty one, and EOS means that nothing is left.                       *)
LEMMA PullCuts ==
  ASSUME queue \in Seq(Int), Fifo!Pull(BlockFrames)
  PROVE  /\ finished' = finished
         /\ \E k \in 0..Len(queue) : out' = SubSeq(queue, 1, k)
                                    /\ queue' = SubSeq(queue, k + 1, Len(queue))
         /\ "EOS" \in flags' => finished /\ queue' = <<>>
<1> USE DEF Fifo!Pull
<1>0. BlockFrames \in Nat
  BY PlayerAssumption
<1>1. CASE Fifo!PullFinished(BlockFrames)
  <2>1. finished /\ finished' = finished
    BY <1>1 DEF Fifo!PullFinished
  <2>2. PICK k \in 0..BlockFrames :
           /\ k <= Len(queue) /\ Fifo!Deliver(k)
           /\ flags' = (IF k = 0 THEN {"SILENCE"} ELSE {})
                         \cup (IF queue' = <<>> THEN {"EOS"} ELSE {})
    BY <1>1 DEF Fifo!PullFinished
  <2>3. k \in 0..Len(queue)
    BY <1>0, <2>2
  <2>4. "EOS" \in flags' => queue' = <<>>
    BY <2>2
  <2> QED BY <2>1, <2>2, <2>3, <2>4 DEF Fifo!Deliver
<1>2. CASE Fifo!PullFull(BlockFrames)
  <2>1. BlockFrames \in 0..Len(queue)
    BY <1>0, <1>2 DEF Fifo!PullFull
  <2> QED BY <1>2, <2>1 DEF Fifo!PullFull, Fifo!Deliver
<1>3. CASE Fifo!PullShort(BlockFrames)
  <2>1. Len(queue) \in 0..Len(queue)
    OBVIOUS
  <2> QED BY <1>3, <2>1 DEF Fifo!PullShort, Fifo!Deliver
<1>4. CASE Fifo!PullSilence(BlockFrames)
  <2>1. SubSeq(queue, 1, 0) = <<>> /\ SubSeq(queue, 0 + 1, Len(queue)) = queue
    OBVIOUS
  <2>2. 0 \in 0..Len(queue)
    OBVIOUS
  <2> QED BY <1>4, <2>1, <2>2 DEF Fifo!PullSilence
<1> QED BY <1>1, <1>2, <1>3, <1>4

LEMMA PullInv ==
  ASSUME PlayerInv, StepPull
  PROVE  PlayerInv'
<1> USE DEF shared, life, sem, producer, bounds, history
<1>0. /\ opc = "process" /\ pipe = "RUNNING"
      /\ UNCHANGED <<pipe, completed, shared, life, sem, producer, commands, bounds, history>>
  BY DEF StepPull
<1>1. CASE UNCHANGED fifo /\ \E r \in {"EOF", "ERR"} : StopWith(r)
  <2> USE <1>0, <1>1 DEF fifo, StopWith
  <2>1. PlayerTypeOK' /\ ThreadOK' /\ ~Live'
    BY DEF PlayerInv, PlayerTypeOK, ThreadOK, Gated, Live
  <2> QED BY <2>1, QuietInv
<1>2. CASE /\ ~completed /\ Fifo!Pull(BlockFrames)
           /\ opc' = "commit" /\ UNCHANGED <<rc, target, restart, instep, closing, ret>>
  <2> USE <1>0, <1>2
  <2>1. queue \in Seq(Int) /\ Len(queue) <= Capacity
    BY DEF PlayerInv, PlayerTypeOK
  <2>2. PICK k \in 0..Len(queue) : /\ out' = SubSeq(queue, 1, k)
                                  /\ queue' = SubSeq(queue, k + 1, Len(queue))
    BY <2>1, PullCuts
  <2>3. finished' = finished /\ ("EOS" \in flags' => finished' /\ queue' = <<>>)
    BY <2>1, PullCuts
  <2>4. /\ out' \in Seq(Int) /\ queue' \in Seq(Int)
        /\ Len(out') = k /\ Len(queue') = Len(queue) - k /\ Len(queue') <= Capacity
    <3>1. Capacity \in Nat
      BY Sizes
    <3> QED BY <2>1, <2>2, Cut, <3>1
  <2>5. PlayerTypeOK' /\ ThreadOK'
    BY <2>4 DEF PlayerInv, PlayerTypeOK, ThreadOK, Gated
  <2>6. ChainOK'
    <3> DEFINE first == base + Len(played)
    <3>1. /\ handle /\ ~quit /\ first + Len(queue) + Len(dbuf) = pos
          /\ IsRun(queue, first) /\ IsRun(dbuf, pos - Len(dbuf))
          /\ first \in Int /\ Len(dbuf) \in Nat /\ pos \in Int /\ Len(queue) \in Nat
      <4>1. Live /\ InHand = 0
        BY DEF Live, InHand
      <4>2. /\ first \in Int /\ Len(dbuf) \in Nat /\ pos \in Int /\ Len(queue) \in Nat
            /\ first + 0 = first
        BY DEF PlayerInv, PlayerTypeOK
      <4> QED BY <4>1, <4>2 DEF PlayerInv, ChainOK
    <3>2. IsRun(out', first) /\ IsRun(queue', first + k)
      BY <2>1, <2>2, <3>1, RunCut
    <3>3. InHand' = k
      BY <2>4 DEF InHand
    <3>4. first + k + Len(queue') + Len(dbuf) = pos
      BY <2>4, <3>1
    <3> QED BY <3>1, <3>2, <3>3, <3>4 DEF ChainOK
  <2>7. BufferOK'
    BY <2>3 DEF PlayerInv, BufferOK, Live, Looping
  <2>8. BeginOK' /\ CommitOK' /\ PlayedContiguous' /\ CompletedIsComplete'
    BY <2>3 DEF PlayerInv, BeginOK, CommitOK, PlayedContiguous, CompletedIsComplete
  <2> QED BY <2>5, <2>6, <2>7, <2>8 DEF PlayerInv
<1> QED BY <1>1, <1>2 DEF StepPull

(* The block in hand is played next; with EOS it was the last of the       *)
(* source.  One that fails is lost, and the stream with it.                *)
LEMMA CommitInv ==
  ASSUME PlayerInv, StepCommit
  PROVE  PlayerInv'
<1> USE DEF fifo, shared, life, sem, producer, bounds, history
<1>0. /\ opc = "commit"
      /\ UNCHANGED <<fifo, pipe, shared, life, producer, commands, bounds, base>>
  BY DEF StepCommit
<1>1. CASE StopWith("ERR") /\ UNCHANGED <<completed, played>>
  <2> USE <1>0, <1>1 DEF StopWith
  <2>1. PlayerTypeOK' /\ ThreadOK' /\ ~Live'
    BY DEF PlayerInv, PlayerTypeOK, ThreadOK, Gated, Live
  <2> QED BY <2>1, QuietInv
<1>2. CASE /\ played' = played \o out /\ completed' = ("EOS" \in flags)
           /\ IF "EOS" \in flags THEN StopWith("EOF") ELSE Return("OK")
  <2> DEFINE heard == base + Len(played)
  <2>1. /\ played \in Seq(Int) /\ out \in Seq(Int) /\ base \in Nat /\ pos \in Nat
        /\ Len(dbuf) \in Nat /\ Len(queue) \in Nat /\ Len(played) \in Nat /\ Len(out) \in Nat
    BY DEF PlayerInv, PlayerTypeOK
  <2>2. /\ handle /\ ~quit /\ heard + Len(out) + Len(queue) + Len(dbuf) = pos
        /\ IsRun(out, heard) /\ IsRun(queue, heard + Len(out))
        /\ IsRun(dbuf, pos - Len(dbuf)) /\ Live
    <3>1. Live /\ InHand = Len(out)
      BY <1>0 DEF PlayerInv, CommitOK, Live, InHand
    <3> QED BY <1>0, <3>1 DEF PlayerInv, ChainOK
  <2>3. /\ played' \in Seq(Int) /\ Len(played') = Len(played) + Len(out)
        /\ base' + Len(played') = heard + Len(out)
    <3>1. played' \in Seq(Int) /\ Len(played') = Len(played) + Len(out)
      BY <1>2, <2>1, Concat
    <3> QED BY <1>0, <2>1, <3>1
  <2>4. opc' \in {"stop", "idle"} /\ target' \in {target, -1}
    BY <1>2 DEF StopWith, Return
  <2>5. PlayerTypeOK'
    <3>1. target' \in -1..Total
      BY <2>4, Sizes DEF PlayerInv, PlayerTypeOK
    <3> QED BY <1>0, <2>3, <2>4, <3>1 DEF PlayerInv, PlayerTypeOK
  <2>6. ThreadOK'
    BY <1>0, <2>4 DEF PlayerInv, ThreadOK, Gated
  <2>7. ChainOK'
    <3>1. InHand' = 0
      BY <2>4 DEF InHand
    <3>2. base' + Len(played') + 0 + Len(queue') + Len(dbuf') = pos'
      BY <1>0, <2>1, <2>2, <2>3
    <3>3. IsRun(queue', base' + Len(played') + 0) /\ IsRun(dbuf', pos' - Len(dbuf'))
      BY <1>0, <2>1, <2>2, <2>3
    <3> QED BY <1>0, <2>2, <2>4, <3>1, <3>2, <3>3 DEF ChainOK
  <2>8. BufferOK'
    BY <1>0, <2>2 DEF PlayerInv, BufferOK, Looping
  <2>9. BeginOK' /\ CommitOK'
    BY <2>4 DEF BeginOK, CommitOK
  <2>10. PlayedContiguous'
    <3>1. IsRun(played, base)
      BY DEF PlayerInv, PlayedContiguous, IsRun
    <3>2. IsRun(played \o out, base)
      BY <2>1, <2>2, <3>1, RunJoin
    <3> QED BY <1>0, <1>2, <3>2 DEF PlayedContiguous, IsRun
  <2>11. CompletedIsComplete'
    <3> SUFFICES ASSUME "EOS" \in flags PROVE heard + Len(out) = Total
      BY <1>2, <2>3 DEF CompletedIsComplete
    <3>1. finished /\ queue = <<>> /\ pos = Total
      BY <1>0, <2>2 DEF PlayerInv, CommitOK, BufferOK
    <3>2. dbuf = <<>>
      BY <2>2, <3>1 DEF PlayerInv, BufferOK, Looping
    <3> QED BY <2>1, <2>2, <3>1, <3>2, Empty
  <2> QED BY <2>5, <2>6, <2>7, <2>8, <2>9, <2>10, <2>11 DEF PlayerInv
<1> QED BY <1>1, <1>2 DEF StepCommit

LEMMA SubmitInv ==
  ASSUME PlayerInv, NEW c \in SeekTargets \cup {STOP, GAIN}, Submit(c)
  PROVE  PlayerInv'
<1> USE DEF Submit, fifo, shared, life, producer, owner, history
<1>1. commands' \in Seq(SeekTargets \cup {STOP, GAIN})
  BY DEF PlayerInv, PlayerTypeOK
<1>2. PlayerTypeOK' /\ ThreadOK'
  BY <1>1 DEF PlayerInv, PlayerTypeOK, ThreadOK, Gated
<1>3. ChainOK' /\ BufferOK'
  BY DEF PlayerInv, ChainOK, BufferOK, Live, InHand, IsRun, Looping
<1>4. BeginOK' /\ CommitOK' /\ PlayedContiguous' /\ CompletedIsComplete'
  BY DEF PlayerInv, BeginOK, CommitOK, PlayedContiguous, CompletedIsComplete
<1> QED BY <1>2, <1>3, <1>4 DEF PlayerInv

LEMMA StutterInv ==
  ASSUME PlayerInv, UNCHANGED vars
  PROVE  PlayerInv'
<1> USE DEF vars, fifo, shared, life, sem, producer, owner, bounds, history
<1>0. PlayerTypeOK' /\ ThreadOK'
  BY DEF PlayerInv, PlayerTypeOK, ThreadOK, Gated
<1>1. ChainOK' /\ BufferOK'
  BY DEF PlayerInv, ChainOK, BufferOK, Live, InHand, IsRun, Looping
<1>2. BeginOK' /\ CommitOK' /\ PlayedContiguous' /\ CompletedIsComplete'
  BY DEF PlayerInv, BeginOK, CommitOK, PlayedContiguous, CompletedIsComplete
<1> QED BY <1>0, <1>1, <1>2 DEF PlayerInv

LEMMA NextInv == PlayerInv /\ [Next]_vars => PlayerInv'
<1> SUFFICES ASSUME PlayerInv, [Next]_vars PROVE PlayerInv'
  OBVIOUS
<1>1. CASE Produce \/ SemTimeout
  BY <1>1, PlaceInv, ReadInv, EndInv, WriteInv DEF Produce
<1>2. CASE OwnerCall
  <2>1. CASE OwnerStart
    BY <2>1, StartThreadInv DEF OwnerStart
  <2>2. CASE ret # "ERR" /\ OwnerStep
    BY <2>2, StepInv
  <2> QED BY <1>2, <2>1, <2>2, CallInv DEF OwnerCall
<1>3. CASE OwnerGoesOn
  <2>1. CASE SeekRestart
    BY <2>1, StartThreadInv DEF SeekRestart
  <2> QED BY <1>3, <2>1, StartPipelineInv, StartGateInv, StopInv, SeekInv, StepInv, PullInv,
             CommitInv DEF OwnerGoesOn
<1>4. CASE Control
  BY <1>4, SubmitInv DEF Control
<1>5. CASE UNCHANGED vars
  BY <1>5, StutterInv
<1> QED BY <1>1, <1>2, <1>3, <1>4, <1>5 DEF Next
----------------------------------------------------------------------------
(* eaf_player.c in any interleaving of owner, producer and control thread: *)
(* every frame of a stream that plays is accounted for, in order, and the  *)
(* handle stands for the thread.                                           *)
THEOREM PlayerInvariant == Spec => []PlayerInv
  BY InitInv, NextInv, PTL DEF Spec

(* What the sink gets after a start is the source from the position it had *)
(* then, in order and without a gap, across seeks, restarts and failures.  *)
THEOREM PlayerContiguous == Spec => []PlayedContiguous
<1>1. PlayerInv => PlayedContiguous
  BY DEF PlayerInv
<1> QED BY <1>1, PlayerInvariant, PTL

(* eaf_player_step reports the end of the stream only after the last frame *)
(* of the source was committed.                                            *)
THEOREM PlayerCompletes == Spec => []CompletedIsComplete
<1>1. PlayerInv => CompletedIsComplete
  BY DEF PlayerInv
<1> QED BY <1>1, PlayerInvariant, PTL

(* Wherever the owner resets the reservoir, the producer is joined or held *)
(* at its gate ("only while both endpoints are quiescent").                *)
THEOREM PlayerResetQuiescent == Spec => []ResetQuiescent
<1>1. PlayerInv => ResetQuiescent
  BY DEF PlayerInv, ThreadOK, Gated, ResetQuiescent
<1> QED BY <1>1, PlayerInvariant, PTL

(* No producer outlives its handle or the player.                          *)
THEOREM PlayerNoOrphan == Spec => []NoOrphan
<1>1. PlayerInv => NoOrphan
  BY DEF PlayerInv, ThreadOK, NoOrphan
<1> QED BY <1>1, PlayerInvariant, PTL
=============================================================================
