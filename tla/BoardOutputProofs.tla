------------------------- MODULE BoardOutputProofs -------------------------
(***************************************************************************)
(* The board's output keeps the graph to one user, its pauses and its      *)
(* resources, for every size of reservoir and block, any number of tracks  *)
(* and pauses, and whatever fails: the inductive invariant OutputInv of    *)
(* BoardOutput.tla.  The gain mailbox of the same file is coherent and     *)
(* never stale: the inductive invariant MailboxInv of GainMailbox.tla.     *)
(***************************************************************************)
EXTENDS BoardOutput, GainMailbox, TLAPS

(* The parts of the invariant, to be expanded together. *)
LEMMA InitInv == Init => OutputInv
  BY DEF Init, OutputInv, OutputTypeOK, TransportOK, WorkerOK, GraphExclusive, PauseIsKept,
         NothingForgotten

LEMMA WorkerKeepsInv ==
  ASSUME OutputInv, Worker
  PROVE  OutputInv'
<1> USE DEF OutputInv, OutputTypeOK, TransportOK, WorkerOK, GraphExclusive, PauseIsKept,
            NothingForgotten
<1> USE DEF WorkerKeeps, thread, transport, graph
<1>1. CASE WorkerGate
  BY <1>1 DEF WorkerGate
<1>2. CASE WorkerLoop
  BY <1>2 DEF WorkerLoop
<1>3. CASE WorkerPausing
  BY <1>3 DEF WorkerPausing, MayFail
<1>4. CASE WorkerAck
  BY <1>4 DEF WorkerAck
<1>5. CASE WorkerPaused
  BY <1>5 DEF WorkerPaused
<1>6. CASE WorkerResuming
  BY <1>6 DEF WorkerResuming, MayFail
<1>7. CASE WorkerUnack
  BY <1>7 DEF WorkerUnack
<1>8. CASE WorkerExit
  BY <1>8 DEF WorkerExit
<1>9. CASE WorkerProcess
  BY <1>9 DEF WorkerProcess, ProcessFails
<1> QED BY <1>1, <1>2, <1>3, <1>4, <1>5, <1>6, <1>7, <1>8, <1>9 DEF Worker

LEMMA StopKeepsInv ==
  ASSUME OutputInv, StopQuit \/ StopJoin \/ StopJoinFails \/ StopTeardown
  PROVE  OutputInv'
<1> USE DEF OutputInv, OutputTypeOK, TransportOK, WorkerOK, GraphExclusive, PauseIsKept,
            NothingForgotten
<1> USE DEF thread, transport, graph, Return
<1>1. CASE StopQuit
  BY ZenonT(40), <1>1 DEF StopQuit
<1>2. CASE StopJoin
  BY <1>2 DEF StopJoin
<1>3. CASE StopJoinFails
  BY <1>3 DEF StopJoinFails
<1>4. CASE StopTeardown
  BY <1>4 DEF StopTeardown, AfterStop, MayFail
<1> QED BY <1>1, <1>2, <1>3, <1>4

LEMMA StartKeepsInv ==
  ASSUME OutputInv, StartSetup \/ StartCreate \/ StartBegin
  PROVE  OutputInv'
<1> USE DEF OutputInv, OutputTypeOK, TransportOK, WorkerOK, GraphExclusive, PauseIsKept,
            NothingForgotten
<1> USE DEF thread, transport, graph, history, Return
<1>1. CASE StartSetup
  <2>1. /\ tpc = "setup"
        /\ UNCHANGED <<impl, quit, run_gate, pause_request, pause_ack, done, thr, want, promised>>
    BY <1>1 DEF StartSetup
  <2>2. \/ pipe' = "CONFIGURED" /\ tpc' = "create" /\ UNCHANGED <<active, failed, held>>
        \/ StartFails
    BY <1>1 DEF StartSetup
  <2>3. CASE pipe' = "CONFIGURED" /\ tpc' = "create" /\ UNCHANGED <<active, failed, held>>
    BY <2>1, <2>3
  <2>4. CASE StartFails
    <3>1. PICK cleanupFails \in BOOLEAN :
            /\ pipe' = IF cleanupFails THEN "RECOVERY" ELSE "UNINITIALIZED"
            /\ active' = cleanupFails
            /\ failed' = IF cleanupFails THEN TRUE ELSE failed
      BY <2>4 DEF StartFails
    <3>2. tpc' = "idle" /\ held' = FALSE
      BY <2>4 DEF StartFails
    <3> QED BY <2>1, <3>1, <3>2
  <2> QED BY <2>2, <2>3, <2>4
<1>2. CASE StartCreate
  <2>1. /\ tpc = "create"
        /\ quit' = FALSE /\ run_gate' = FALSE /\ pause_request' = FALSE /\ pause_ack' = FALSE
        /\ done' = FALSE
        /\ UNCHANGED <<want, promised>>
    BY <1>2 DEF StartCreate
  <2>2. \/ /\ failed' = FALSE /\ impl' = TRUE /\ active' = TRUE
           /\ thr' = "gate" /\ tpc' = "begin" /\ UNCHANGED <<pipe, held>>
        \/ \E cleanupFails \in BOOLEAN :
             /\ pipe' = IF cleanupFails THEN "RECOVERY" ELSE "UNINITIALIZED"
             /\ active' = cleanupFails /\ failed' = cleanupFails
             /\ tpc' = "idle" /\ held' = FALSE /\ UNCHANGED <<impl, thr>>
    BY <1>2 DEF StartCreate
  <2>3. CASE /\ failed' = FALSE /\ impl' = TRUE /\ active' = TRUE
             /\ thr' = "gate" /\ tpc' = "begin" /\ UNCHANGED <<pipe, held>>
    BY <2>1, <2>3
  <2>4. ASSUME NEW cleanupFails \in BOOLEAN,
               /\ pipe' = IF cleanupFails THEN "RECOVERY" ELSE "UNINITIALIZED"
               /\ active' = cleanupFails /\ failed' = cleanupFails
               /\ tpc' = "idle" /\ held' = FALSE /\ UNCHANGED <<impl, thr>>
        PROVE  OutputInv'
    BY <2>1, <2>4
  <2> QED BY <2>2, <2>3, <2>4
<1>3. CASE StartBegin
  BY <1>3 DEF StartBegin, MayFail
<1> QED BY <1>1, <1>2, <1>3

LEMMA CallKeepsInv ==
  ASSUME OutputInv, TransportCall
  PROVE  OutputInv'
<1> USE DEF OutputInv, OutputTypeOK, TransportOK, WorkerOK, GraphExclusive, PauseIsKept,
            NothingForgotten
<1> USE DEF thread, transport, graph
<1>1. CASE CallStop
  BY ZenonT(40), <1>1 DEF CallStop, Call
<1>2. ASSUME NEW h \in BOOLEAN, CallStart(h) PROVE OutputInv'
  <2>1. /\ tpc = "idle" /\ promised' = FALSE /\ held' = h
        /\ (tpc' = "stop" /\ active) \/ (tpc' = "setup" /\ ~active)
        /\ UNCHANGED <<pipe, active, impl, quit, run_gate, pause_request, pause_ack, failed,
                       done, thr, want>>
    BY <1>2 DEF CallStart, Call
  <2>2. held' \in BOOLEAN
    BY <2>1
  <2>3. CASE tpc' = "stop" /\ active
    BY ZenonT(40), <2>1, <2>2, <2>3
  <2>4. CASE tpc' = "setup" /\ ~active
    BY <2>1, <2>2, <2>4
  <2> QED BY <2>1, <2>3, <2>4
<1>3. ASSUME NEW h \in BOOLEAN, CallReplace(h) PROVE OutputInv'
  <2>1. /\ tpc = "idle" /\ promised' = FALSE /\ held' = h
        /\ (tpc' = "stop" /\ active) \/ (tpc' = "setup" /\ ~active)
        /\ UNCHANGED <<pipe, active, impl, quit, run_gate, pause_request, pause_ack, failed,
                       done, thr, want>>
    BY <1>3 DEF CallReplace, Call
  <2>2. held' \in BOOLEAN
    BY <2>1
  <2>3. CASE tpc' = "stop" /\ active
    BY ZenonT(40), <2>1, <2>2, <2>3
  <2>4. CASE tpc' = "setup" /\ ~active
    BY <2>1, <2>2, <2>4
  <2> QED BY <2>1, <2>3, <2>4
<1>4. ASSUME NEW paused \in BOOLEAN, CallPause(paused) PROVE OutputInv'
  BY ZenonT(40), <1>4 DEF CallPause
<1>5. CASE CallRelease
  BY <1>5 DEF CallRelease
<1>6. CASE CallWrite
  <2>1. UNCHANGED <<pipe, active, impl, quit, run_gate, pause_request, pause_ack, failed, done,
                    thr, tpc, held, want, promised>>
    BY <1>6 DEF CallWrite
  <2> QED BY <2>1
<1>7. CASE CallFinish
  <2>1. UNCHANGED <<pipe, active, impl, quit, run_gate, pause_request, pause_ack, failed, done,
                    thr, tpc, held, want, promised>>
    BY <1>7 DEF CallFinish
  <2> QED BY <2>1
<1> QED BY <1>1, <1>2, <1>3, <1>4, <1>5, <1>6, <1>7 DEF TransportCall

LEMMA PauseKeepsInv ==
  ASSUME OutputInv, PauseAnswered \/ PauseTimeout
  PROVE  OutputInv'
<1> USE DEF OutputInv, OutputTypeOK, TransportOK, WorkerOK, GraphExclusive, PauseIsKept,
            NothingForgotten
<1> USE DEF thread, graph
<1>1. CASE PauseAnswered
  BY <1>1 DEF PauseAnswered
<1>2. CASE PauseTimeout
  BY <1>2 DEF PauseTimeout
<1> QED BY <1>1, <1>2

LEMMA NextInv == OutputInv /\ [Next]_vars => OutputInv'
<1> SUFFICES ASSUME OutputInv, [Next]_vars PROVE OutputInv'
  OBVIOUS
<1>1. CASE UNCHANGED vars
  BY <1>1 DEF vars, thread, graph, transport, OutputInv, OutputTypeOK, TransportOK, WorkerOK,
              GraphExclusive, PauseIsKept, NothingForgotten
<1>2. CASE Next
  BY <1>2, WorkerKeepsInv, StopKeepsInv, StartKeepsInv, CallKeepsInv, PauseKeepsInv
     DEF Next, TransportGoesOn
<1> QED BY <1>1, <1>2

(* consume() and the calls of board_output.c: the places of worker and     *)
(* transport, the handle, the pipeline and the atomics always fit.         *)
THEOREM OutputInvariant == Spec => []OutputInv
  BY InitInv, NextInv, PTL DEF Spec

(* "No graph access until START has reset the reservoir and enabled        *)
(* output", nor while stop or start take the graph apart.                  *)
THEOREM OutputGraphExclusive == Spec => []GraphExclusive
<1>1. OutputInv => GraphExclusive
  BY DEF OutputInv
<1> QED BY <1>1, OutputInvariant, PTL

(* A pause that request_pause has granted holds until the transport ends   *)
(* it, whatever answers to earlier requests arrive.                        *)
THEOREM OutputPauseIsKept == Spec => []PauseIsKept
<1>1. OutputInv => PauseIsKept
  BY DEF OutputInv
<1> QED BY <1>1, OutputInvariant, PTL

(* eaf_board_output_stop can be called again for as long as a worker was   *)
(* not joined or a pipeline not released.                                  *)
THEOREM OutputNothingForgotten == Spec => []NothingForgotten
<1>1. OutputInv => NothingForgotten
  BY DEF OutputInv
<1> QED BY <1>1, OutputInvariant, PTL
----------------------------------------------------------------------------
(* The history of the stream. *)

LEMMA OnceWritten ==
  ASSUME NEW h \in Seq(AnyFrame), NEW q \in Seq(AnyFrame), NEW f \in AnyFrame
  PROVE  /\ q \o <<f>> \in Seq(AnyFrame)
         /\ h \o (q \o <<f>>) = Append(h \o q, f)
  OBVIOUS

LEMMA SameSeq ==
  ASSUME NEW s \in Seq(AnyFrame), NEW t \in Seq(AnyFrame), Len(s) = Len(t),
         \A i \in 1..Len(s) : s[i] = t[i]
  PROVE  s = t
  OBVIOUS

LEMMA Split ==
  ASSUME NEW q \in Seq(AnyFrame), NEW k \in 0..Len(q)
  PROVE  /\ SubSeq(q, 1, k) \in Seq(AnyFrame) /\ SubSeq(q, k + 1, Len(q)) \in Seq(AnyFrame)
         /\ SubSeq(q, 1, k) \o SubSeq(q, k + 1, Len(q)) = q
<1> DEFINE a == SubSeq(q, 1, k)
           b == SubSeq(q, k + 1, Len(q))
<1>1. a \in Seq(AnyFrame) /\ Len(a) = k /\ \A i \in 1..k : a[i] = q[i]
  OBVIOUS
<1>2. b \in Seq(AnyFrame) /\ Len(b) = Len(q) - k /\ \A i \in 1..(Len(q) - k) : b[i] = q[k + i]
  OBVIOUS
<1> HIDE DEF a, b
<1>3. a \o b \in Seq(AnyFrame) /\ Len(a \o b) = Len(q)
  BY SMTT(30), <1>1, <1>2
<1>4. ASSUME NEW i \in 1..Len(q) PROVE (a \o b)[i] = q[i]
  <2>1. CASE i <= k
    BY SMTT(30), <1>1, <1>2, <2>1
  <2>2. CASE i > k
    <3>1. (a \o b)[i] = b[i - k]
      BY <1>1, <1>2, <2>2
    <3>2. i - k \in 1..(Len(q) - k) /\ k + (i - k) = i
      BY <2>2
    <3> QED BY <1>2, <3>1, <3>2
  <2>3. k \in Int /\ i \in Int
    OBVIOUS
  <2>4. i <= k \/ i > k
    BY <2>3
  <2> QED BY <2>1, <2>2, <2>4, Zenon
<1>5. a \o b = q
  BY <1>3, <1>4, SameSeq
<1> QED BY <1>1, <1>2, <1>5 DEF a, b

LEMMA Associative ==
  ASSUME NEW h \in Seq(AnyFrame), NEW a \in Seq(AnyFrame), NEW b \in Seq(AnyFrame)
  PROVE  (h \o a) \o b = h \o (a \o b)
  OBVIOUS

(* What is moved from the queue to the sink leaves the whole as it was.    *)
LEMMA OnceHeard ==
  ASSUME NEW h \in Seq(AnyFrame), NEW q \in Seq(AnyFrame), NEW k \in 0..Len(q)
  PROVE  /\ h \o SubSeq(q, 1, k) \in Seq(AnyFrame) /\ SubSeq(q, k + 1, Len(q)) \in Seq(AnyFrame)
         /\ (h \o SubSeq(q, 1, k)) \o SubSeq(q, k + 1, Len(q)) = h \o q
<1> DEFINE a == SubSeq(q, 1, k)
           b == SubSeq(q, k + 1, Len(q))
<1>1. a \in Seq(AnyFrame) /\ b \in Seq(AnyFrame) /\ a \o b = q
  BY Split
<1> HIDE DEF a, b
<1>2. h \o a \in Seq(AnyFrame)
  BY <1>1
<1>3. (h \o a) \o b = h \o (a \o b)
  BY ZenonT(40), <1>1, Associative
<1> QED BY <1>1, <1>2, <1>3 DEF a, b

LEMMA NextFrame ==
  ASSUME NEW n \in Nat, NEW t \in Nat
  PROVE  Append([i \in 1..n |-> <<t, i>>], <<t, n + 1>>) = [i \in 1..(n + 1) |-> <<t, i>>]
  OBVIOUS

(* A pull cuts a block, perhaps an empty one, from the front of the queue. *)
LEMMA PullCuts ==
  ASSUME queue \in Seq(AnyFrame), Fifo!Pull(BlockFrames)
  PROVE  \E k \in 0..Len(queue) : out' = SubSeq(queue, 1, k)
                                /\ queue' = SubSeq(queue, k + 1, Len(queue))
<1> USE DEF Fifo!Pull
<1>0. BlockFrames \in Nat
  BY OutputAssumption
<1>1. CASE Fifo!PullFinished(BlockFrames)
  <2>1. PICK k \in 0..BlockFrames : k <= Len(queue) /\ Fifo!Deliver(k)
    BY <1>1 DEF Fifo!PullFinished
  <2>2. k \in 0..Len(queue)
    BY <1>0, <2>1
  <2> QED BY <2>1, <2>2 DEF Fifo!Deliver
<1>2. CASE Fifo!PullFull(BlockFrames)
  <2>1. BlockFrames \in 0..Len(queue)
    BY <1>0, <1>2 DEF Fifo!PullFull
  <2> QED BY <1>2, <2>1 DEF Fifo!PullFull, Fifo!Deliver
<1>3. CASE Fifo!PullShort(BlockFrames)
  <2>1. Len(queue) \in 0..Len(queue)
    OBVIOUS
  <2> QED BY <1>3, <2>1 DEF Fifo!PullShort, Fifo!Deliver
<1>4. CASE Fifo!PullSilence(BlockFrames)
  <2>1. SubSeq(queue, 1, 0) = <<>> /\ SubSeq(queue, 0 + 1, Len(queue)) = queue
    OBVIOUS
  <2>2. 0 \in 0..Len(queue)
    OBVIOUS
  <2> QED BY <1>4, <2>1, <2>2 DEF Fifo!PullSilence
<1> QED BY <1>1, <1>2, <1>3, <1>4

LEMMA InitStream == Init => StreamInv
<1> SUFFICES ASSUME Init PROVE StreamInv
  OBVIOUS
<1>1. queue = <<>> /\ heard = <<>> /\ accepted = 0 /\ track = 0 /\ ~active
  BY DEF Init, Fifo!Init
<1>2. <<>> \in Seq(AnyFrame)
  OBVIOUS
<1> QED BY <1>1, <1>2 DEF StreamInv, TrackIntact

(* A block goes from the queue to the sink; one that is lost is reported. *)
LEMMA ProcessStream ==
  ASSUME OutputInv, StreamInv, WorkerProcess
  PROVE  StreamInv'
<1>1. /\ thr = "process" /\ tpc \notin {"create", "begin"}
      /\ UNCHANGED <<active, impl, tpc, track, accepted>>
  BY DEF OutputInv, GraphExclusive, WorkerProcess, thread, transport
<1>2. /\ queue \in Seq(AnyFrame) /\ heard \in Seq(AnyFrame)
      /\ accepted \in Nat /\ track \in Nat
  BY DEF StreamInv
<1>3. CASE UNCHANGED fifo /\ ProcessFails
  BY <1>1, <1>2, <1>3 DEF StreamInv, TrackIntact, ProcessFails, fifo
<1>4. CASE Fifo!Pull(BlockFrames) /\ ProcessFails
  <2>1. queue' \in Seq(AnyFrame)
    BY <1>2, <1>4, PullCuts, Split
  <2>2. failed' = TRUE /\ heard' = heard
    BY <1>4 DEF ProcessFails
  <2> QED BY <1>1, <1>2, <2>1, <2>2 DEF StreamInv, TrackIntact
<1>5. CASE Fifo!Pull(BlockFrames) /\ heard' = heard \o out' /\ UNCHANGED failed
  <2>1. PICK k \in 0..Len(queue) : /\ out' = SubSeq(queue, 1, k)
                                  /\ queue' = SubSeq(queue, k + 1, Len(queue))
    BY <1>2, <1>5, PullCuts
  <2>2. /\ heard' \in Seq(AnyFrame) /\ queue' \in Seq(AnyFrame)
        /\ heard' \o queue' = heard \o queue
    BY <1>2, <1>5, <2>1, OnceHeard
  <2> QED BY <1>1, <1>2, <1>5, <2>2 DEF StreamInv, TrackIntact
<1> QED BY <1>3, <1>4, <1>5 DEF WorkerProcess

LEMMA WriteStream ==
  ASSUME OutputInv, StreamInv, CallWrite
  PROVE  StreamInv'
<1> DEFINE f == <<track, accepted + 1>>
<1>1. /\ tpc = "idle" /\ queue' = queue \o <<f>> /\ accepted' = accepted + 1
      /\ UNCHANGED <<active, impl, failed, tpc, track, heard>>
  BY DEF CallWrite, Fifo!Write, thread, transport
<1>2. /\ queue \in Seq(AnyFrame) /\ heard \in Seq(AnyFrame)
      /\ accepted \in Nat /\ track \in Nat /\ f \in AnyFrame
  BY DEF StreamInv, AnyFrame
<1>3. queue' \in Seq(AnyFrame) /\ heard \o queue' = Append(heard \o queue, f)
  <2> HIDE DEF f
  <2> QED BY <1>1, <1>2, OnceWritten
<1>4. TrackIntact'
  <2> SUFFICES ASSUME ~failed, active, impl
               PROVE  heard \o queue' = [i \in 1..(accepted + 1) |-> <<track, i>>]
    BY <1>1 DEF TrackIntact
  <2>1. heard \o queue = [i \in 1..accepted |-> <<track, i>>]
    BY <1>1 DEF StreamInv, TrackIntact
  <2> QED BY <1>2, <1>3, <2>1, NextFrame
<1> QED BY <1>1, <1>2, <1>3, <1>4 DEF StreamInv

(* Setting up and beginning a stream empty queue and history. *)
LEMMA BeginStream ==
  ASSUME OutputInv, StreamInv, StartSetup \/ StartBegin
  PROVE  StreamInv'
<1>0. <<>> \in Seq(AnyFrame)
  OBVIOUS
<1>1. CASE StartSetup
  <2>1. /\ queue' = <<>> /\ heard' = <<>> /\ accepted' = 0 /\ track' = track + 1
        /\ impl' = impl /\ ~impl
    BY <1>1 DEF StartSetup, Fifo!Reset, OutputInv, TransportOK
  <2> QED BY <1>0, <2>1 DEF StreamInv, TrackIntact
<1>2. CASE StartBegin
  <2>1. /\ tpc = "begin" /\ queue' = <<>>
        /\ UNCHANGED <<heard, accepted, track>> /\ tpc' \in {"stop", "idle"}
    BY <1>2 DEF StartBegin, Fifo!Reset, Return, history
  <2>2. heard' = <<>> /\ accepted' = 0 /\ track' \in Nat
    BY <2>1 DEF StreamInv
  <2>3. <<>> \o <<>> = [i \in 1..0 |-> <<track', i>>]
    OBVIOUS
  <2> QED BY <1>0, <2>1, <2>2, <2>3 DEF StreamInv, TrackIntact
<1> QED BY <1>1, <1>2

LEMMA NextStream == OutputInv /\ StreamInv /\ [Next]_vars => StreamInv'
<1> SUFFICES ASSUME OutputInv, StreamInv, [Next]_vars PROVE StreamInv'
  OBVIOUS
<1>1. CASE WorkerProcess \/ CallWrite \/ StartSetup \/ StartBegin
  BY <1>1, ProcessStream, WriteStream, BeginStream
<1>2. CASE StartCreate
  <2>1. /\ tpc = "create" /\ UNCHANGED <<queue, heard, accepted, track>>
        /\ tpc' = "begin" \/ impl' = impl
    BY <1>2 DEF StartCreate, fifo, history
  <2> QED BY <2>1 DEF StreamInv, TrackIntact, OutputInv, TransportOK
<1>3. ASSUME UNCHANGED <<queue, heard, accepted, track>>,
             tpc \notin {"create", "begin"}, tpc' \notin {"create", "begin"},
             ~failed' => ~failed, impl' => impl, active' => active
      PROVE  StreamInv'
  BY <1>3 DEF StreamInv, TrackIntact
<1>4. ASSUME UNCHANGED <<queue, heard, accepted, track, tpc>>,
             ~failed' => ~failed, impl' => impl, active' => active
      PROVE  StreamInv'
  BY <1>4 DEF StreamInv, TrackIntact
<1>5. CASE Worker /\ ~WorkerProcess
  <2>1. UNCHANGED <<queue, heard, accepted, track, tpc, active, impl>>
    BY <1>5 DEF Worker, WorkerKeeps, WorkerGate, WorkerLoop, WorkerPausing, WorkerAck, WorkerPaused,
                WorkerResuming, WorkerUnack, WorkerExit, fifo, thread, transport, history
  <2>2. ~failed' => ~failed
    BY <1>5 DEF Worker, WorkerGate, WorkerLoop, WorkerPausing, WorkerAck, WorkerPaused,
                WorkerResuming, WorkerUnack, WorkerExit
  <2> QED BY <1>4, <2>1, <2>2
<1>6. CASE CallRelease \/ CallFinish \/ \E paused \in BOOLEAN : CallPause(paused)
  <2>1. /\ UNCHANGED <<queue, heard, accepted, track, active, impl, failed>>
        /\ tpc = "idle" /\ tpc' \in {"idle", "waiting"}
    BY <1>6 DEF CallRelease, CallFinish, CallPause, Fifo!Finish, fifo, thread, transport, history
  <2> QED BY <1>3, <2>1
<1>7. CASE CallStop \/ \E h \in BOOLEAN : CallStart(h) \/ CallReplace(h)
  <2>1. /\ UNCHANGED <<queue, heard, accepted, track, active, impl, failed>>
        /\ tpc = "idle" /\ tpc' \in {"stop", "setup"}
    BY <1>7 DEF CallStop, CallStart, CallReplace, Call, fifo, thread, history
  <2> QED BY <1>3, <2>1
<1>8. CASE StopQuit \/ StopJoin \/ StopJoinFails \/ PauseAnswered \/ PauseTimeout
  <2>1. /\ UNCHANGED <<queue, heard, accepted, track, active>> /\ (~failed' => ~failed)
        /\ (impl' => impl) /\ tpc \in {"stop", "join", "waiting"}
        /\ tpc' \in {"join", "teardown", "idle"}
    BY <1>8 DEF StopQuit, StopJoin, StopJoinFails, PauseAnswered, PauseTimeout, Return, fifo, thread,
                history
  <2> QED BY <1>3, <2>1
<1>9. CASE StopTeardown
  <2>1. /\ UNCHANGED <<queue, heard, accepted, track, impl>> /\ (~failed' => ~failed)
        /\ tpc = "teardown" /\ tpc' \in {"setup", "idle"}
    BY <1>9 DEF StopTeardown, AfterStop, Return, fifo, history
  <2>2. active
    BY <2>1 DEF OutputInv, TransportOK
  <2> QED BY <1>3, <2>1, <2>2
<1>10. CASE UNCHANGED vars
  BY <1>4, <1>10 DEF vars, fifo, thread, transport, history
<1> QED BY <1>1, <1>2, <1>5, <1>6, <1>7, <1>8, <1>9, <1>10
        DEF Next, TransportCall, TransportGoesOn

(* Nothing of an old track reaches the new one, and nothing of the track   *)
(* is lost or reordered, unless a failure is reported: the frames written  *)
(* are those committed and those still queued, in order.                   *)
THEOREM OutputTrackIntact == Spec => []TrackIntact
<1>1. Init => OutputInv /\ StreamInv
  BY InitInv, InitStream
<1>2. OutputInv /\ StreamInv /\ [Next]_vars => OutputInv' /\ StreamInv'
  BY NextInv, NextStream
<1>3. StreamInv => TrackIntact
  BY DEF StreamInv
<1> QED BY <1>1, <1>2, <1>3, PTL DEF Spec
----------------------------------------------------------------------------
(* The gain mailbox, for any number of updates. *)

(* The initial mailbox satisfies the invariant. *)
LEMMA InitMailbox == MailboxInit => MailboxInv
BY MailboxAssumption DEF MailboxInit, MailboxInv, MailboxTypeOK, WriterInv, ReaderInv

(* A step of set_volume keeps the invariant: the first makes the sequence  *)
(* number differ from what any read in progress has loaded.                *)
LEMMA SetVolumeKeepsMailbox == MailboxInv /\ SetVolume => MailboxInv'
<1> SUFFICES ASSUME MailboxInv, SetVolume PROVE MailboxInv'
  OBVIOUS
<1> USE MailboxAssumption DEF MailboxInv, MailboxTypeOK, WriterInv, ReaderInv, writer, reader
<1>1. CASE SetBegin
  BY <1>1 DEF SetBegin
<1>2. CASE SetLeft
  BY <1>2 DEF SetLeft
<1>3. CASE SetRight
  BY <1>3 DEF SetRight
<1>4. CASE SetEnd
  BY <1>4 DEF SetEnd
<1> QED
  BY <1>1, <1>2, <1>3, <1>4 DEF SetVolume

(* A step of apply_volume keeps the invariant: the pair it stores was      *)
(* loaded under an even number that has not changed since.                 *)
LEMMA ApplyVolumeKeepsMailbox == MailboxInv /\ ApplyVolume => MailboxInv'
<1> SUFFICES ASSUME MailboxInv, ApplyVolume PROVE MailboxInv'
  OBVIOUS
<1> USE MailboxAssumption DEF MailboxInv, MailboxTypeOK, WriterInv, ReaderInv, writer, reader
<1>1. CASE ApplyBegin
  BY <1>1 DEF ApplyBegin
<1>2. CASE ApplyLeft
  BY <1>2 DEF ApplyLeft
<1>3. CASE ApplyRight
  BY <1>3 DEF ApplyRight
<1>4. CASE ApplyEnd
  BY <1>4 DEF ApplyEnd
<1> QED
  BY <1>1, <1>2, <1>3, <1>4 DEF ApplyVolume

(* MailboxInv holds in every state of the mailbox. *)
THEOREM MailboxInvariant == MailboxSpec => []MailboxInv
<1>1. MailboxInit => MailboxInv
  BY InitMailbox
<1>2. MailboxInv /\ [MailboxNext]_mailbox => MailboxInv'
  <2> SUFFICES ASSUME MailboxInv, [MailboxNext]_mailbox PROVE MailboxInv'
    OBVIOUS
  <2>1. CASE SetVolume
    BY <2>1, SetVolumeKeepsMailbox
  <2>2. CASE ApplyVolume
    BY <2>2, ApplyVolumeKeepsMailbox
  <2>3. CASE UNCHANGED mailbox
    BY <2>3 DEF mailbox, writer, reader, MailboxInv, MailboxTypeOK, WriterInv, ReaderInv
  <2> QED
    BY <2>1, <2>2, <2>3 DEF MailboxNext
<1> QED
  BY <1>1, <1>2, PTL DEF MailboxSpec

(* The worker never applies the gains of two different calls of            *)
(* set_volume.                                                             *)
THEOREM MailboxCoherent == MailboxSpec => []Coherent
<1>1. MailboxInv => Coherent
  BY DEF MailboxInv, ReaderInv, Coherent
<1> QED
  BY <1>1, MailboxInvariant, PTL

(* Gains that change become those of the last call of set_volume, which    *)
(* has ended.                                                              *)
THEOREM MailboxNeverStale == MailboxSpec => NeverStale
<1> DEFINE Fresh == gain0' # gain0 \/ gain1' # gain1 =>
                      wpc = "idle" /\ gain0' = set /\ gain1' = set
<1>1. MailboxInv /\ [MailboxNext]_mailbox => Fresh
  <2> SUFFICES ASSUME MailboxInv, [MailboxNext]_mailbox PROVE Fresh
    OBVIOUS
  <2>1. CASE ApplyEnd
    <3>1. CASE before = gain_sequence
      <4>1. wpc = "idle"
        BY <2>1, <3>1 DEF ApplyEnd, MailboxInv, MailboxTypeOK, WriterInv, ReaderInv
      <4> QED
        BY <2>1, <3>1, <4>1 DEF ApplyEnd, MailboxInv, ReaderInv
    <3>2. CASE before # gain_sequence
      BY <2>1, <3>2 DEF ApplyEnd
    <3> QED
      BY <3>1, <3>2
  <2>2. CASE UNCHANGED <<gain0, gain1>>
    BY <2>2
  <2> QED
    BY <2>1, <2>2 DEF MailboxNext, SetVolume, ApplyVolume, SetBegin, SetLeft, SetRight, SetEnd,
         ApplyBegin, ApplyLeft, ApplyRight, mailbox, reader
<1> QED
  BY <1>1, MailboxInvariant, PTL DEF MailboxSpec, NeverStale
=============================================================================
