------------------------------ MODULE LmsClient ------------------------------
(***************************************************************************)
(* apps/lms/lms_client.c: the transport thread's LMS client.  A step sends *)
(* what is queued for the server, handles the commands it has received and *)
(* pumps the HTTP body through a byte ring and a chunk of frames into the  *)
(* output callbacks.  The output (its contract is that of BoardOutput.tla) *)
(* plays concurrently; with start_buffered it is held until released.      *)
(*                                                                         *)
(* Calls are operators from w = [c, out, h] to their outcomes.  A failed   *)
(* one ends in eaf_lms_client_close, so what it left in the client matters *)
(* only where close and the next stream do not reset it.  A byte is        *)
(* <<stream, position>>; pcm is the chunk's bytes, a frame FrameBytes.     *)
(***************************************************************************)
EXTENDS Integers, Sequences, FiniteSetsExt, Outcomes

CONSTANTS
  FrameBytes,     \* width * num_channels
  PcmFrames,      \* EAF_LMS_PCM_FRAMES
  IngressBytes,   \* EAF_LMS_INGRESS_BYTES
  RxBytes,        \* sizeof(rx)
  Capacity, Preferred, \* output: frames it holds, its own startup reserve
  Thresholds,     \* stream_bytes a server may ask for
  TxMessages,     \* messages that fit in tx
  MaxStreams,     \* bound: streams started
  MaxBody         \* bound: body bytes per stream

ASSUME LmsAssumption ==
  /\ {FrameBytes, PcmFrames, IngressBytes, RxBytes, Capacity, Preferred,
      TxMessages, MaxStreams, MaxBody} \subseteq Nat \ {0}
  /\ Preferred <= Capacity /\ Thresholds \subseteq Nat

VARIABLES
  c,        \* eaf_lms_client_t
  out,      \* the output behind the callbacks
  h,        \* history: the stream and what was received, delivered and reported
  place,    \* in eaf_lms_client_step: "idle" (outside), "recv" (control socket)
  buffered  \* the callbacks have start_buffered and release

vars == <<c, out, h, place, buffered>>

World == [c |-> c, out |-> out, h |-> h]

(* stop_stream; ingress and tail are not reset. *)
StreamZero(k) ==
  [k EXCEPT !.http = FALSE, !.streaming = FALSE, !.output_released = FALSE,
            !.output_paused = FALSE, !.input_eof = FALSE, !.eof_sent = FALSE,
            !.prefill_frames = 0, !.ready_frames = 0, !.pcm = <<>>, !.pcm_sent = 0,
            !.body_done = FALSE, !.wait_cont = FALSE, !.wait_start = FALSE,
            !.ready_sent = FALSE, !.started_sent = FALSE]

ClientZero ==
  [control |-> FALSE, tx |-> 0, http |-> FALSE, streaming |-> FALSE,
   output_released |-> FALSE, output_paused |-> FALSE, input_eof |-> FALSE,
   eof_sent |-> FALSE, prefill_frames |-> 0, ready_frames |-> 0, pcm |-> <<>>,
   pcm_sent |-> 0, body_done |-> FALSE, wait_cont |-> FALSE, wait_start |-> FALSE,
   ready_sent |-> FALSE, started_sent |-> FALSE, headers_done |-> FALSE,
   has_length |-> FALSE, remaining |-> 0, request_sent |-> FALSE, tail |-> <<>>,
   ingress |-> <<>>]

(* misuse: a callback was called when its contract forbids it. *)
OutputZero ==
  [active |-> FALSE, held |-> FALSE, paused |-> FALSE, finished |-> FALSE,
   played |-> FALSE, queued |-> 0, misuse |-> FALSE]

(* residue: bytes in the ring when the stream started; told: which of Once *)
(* the stream has sent; twice: one was sent again; refused: a report was   *)
(* turned down.                                                            *)
HistoryZero ==
  [stream |-> 0, residue |-> <<>>, received |-> 0, delivered |-> <<>>, told |-> {},
   twice |-> FALSE, refused |-> FALSE]

Init ==
  /\ c = ClientZero /\ out = OutputZero /\ h = HistoryZero
  /\ place = "idle" /\ buffered \in BOOLEAN
----------------------------------------------------------------------------
(* The output callbacks. *)

Misused(w, wrong) == [w EXCEPT !.out.misuse = @ \/ wrong]

OutStart(w) ==
  LET started == [OutputZero EXCEPT !.active = TRUE, !.held = buffered,
                                    !.misuse = w.out.misuse \/ w.out.active]
  IN Failed(w) \cup Done([w EXCEPT !.out = started])

OutStop(w) ==
  [w EXCEPT !.out = [OutputZero EXCEPT !.misuse = w.out.misuse],
            !.h = [HistoryZero EXCEPT !.stream = w.h.stream, !.twice = w.h.twice,
                                      !.refused = w.h.refused]]

(* As many of the frames as the reservoir has room for. *)
OutPcm(w, bytes) ==
  [Misused(w, ~w.out.active \/ w.out.finished) EXCEPT
     !.out.queued = @ + Len(bytes) \div FrameBytes, !.h.delivered = @ \o bytes]

OutEof(w) == [Misused(w, ~w.out.active \/ w.out.finished) EXCEPT !.out.finished = TRUE]

OutPause(w, paused) ==
  Failed(w) \cup Done([Misused(w, ~w.out.active) EXCEPT !.out.paused = paused])

(* Only a held output is released, with its reserve or all there is. *)
OutRelease(w) ==
  LET early == ~w.out.held \/ (w.out.queued < w.c.ready_frames /\ ~w.out.finished)
  IN Failed(w) \cup
     Done([Misused(w, ~w.out.active \/ early) EXCEPT !.out.held = FALSE, !.out.paused = FALSE])

Play ==
  /\ out.active /\ ~out.held /\ ~out.paused /\ out.queued > 0
  /\ out' = [out EXCEPT !.queued = @ - 1, !.played = TRUE]
  /\ UNCHANGED <<c, h, place, buffered>>
----------------------------------------------------------------------------
(* Messages to the server. *)

(* Events that a stream has at most one of. *)
Once == {"STMc", "STMl", "STMs", "STMd"}

(* enqueue: tx has a fixed size. *)
Enqueue(w) == IF w.c.tx < TxMessages THEN Done([w EXCEPT !.c.tx = @ + 1]) ELSE Failed(w)

Status(w, event) ==
  Then(Enqueue(w),
    LAMBDA u : Done([u EXCEPT !.h.twice = @ \/ event \in w.h.told,
                              !.h.told = @ \cup (Once \cap {event})]))

StopStream(w) ==
  LET stopped == IF w.c.streaming THEN OutStop(w) ELSE w
  IN [stopped EXCEPT !.c = StreamZero(stopped.c)]

Close(w) == [StopStream(w) EXCEPT !.c.control = FALSE, !.c.tx = 0]
----------------------------------------------------------------------------
(* Commands. *)

(* Plausible mistake: the request is not clamped to the capacity. *)
BufferLimit_Unclamped(stream_bytes) ==
  LET stream == (stream_bytes + FrameBytes - 1) \div FrameBytes
  IN Max({stream, Preferred})

(* eaf_lms_buffer_limits: ready_frames.  The output threshold enters the   *)
(* maximum as the stream threshold does and is left out.                   *)
BufferLimit(stream_bytes) ==
  LET stream == (stream_bytes + FrameBytes - 1) \div FrameBytes
  IN Min({Max({stream, Preferred}), Capacity})

(* strm s.  A stream that is not supported, cannot be connected or cannot  *)
(* be started ends the session.  (Limits outside 1..Capacity would too;    *)
(* BufferLimit gives none.)                                                *)
StrmStart(w, autostart, stream_bytes) ==
  LET stopped == StopStream(w)
      Streaming(u) ==
        [u EXCEPT
           !.c = [u.c EXCEPT
             !.http = TRUE, !.streaming = TRUE, !.headers_done = FALSE, !.has_length = FALSE,
             !.wait_cont = autostart >= 2, !.wait_start = autostart \in {0, 2},
             !.tail = <<>>, !.request_sent = FALSE,
             !.ready_frames = IF buffered THEN BufferLimit(stream_bytes) ELSE 0],
           !.h = [u.h EXCEPT !.stream = u.h.stream + 1, !.residue = u.c.ingress]]
  IN Failed(stopped) \cup
     Then(OutStart(stopped), LAMBDA u : Status(Streaming(u), "STMc"))

StrmStop(w) == Status(StopStream(w), "STMf")

(* strm u: the initial start, which pump and service_buffered carry out,   *)
(* or the end of a pause.                                                  *)
StrmUnpause(w) ==
  IF ~w.c.streaming \/ w.c.wait_cont \/ (w.c.wait_start /\ ~w.c.ready_sent) THEN Failed(w)
  ELSE Then(IF w.c.wait_start THEN Done([w EXCEPT !.c.wait_start = FALSE])
                              ELSE OutPause(w, FALSE),
         LAMBDA u : Status([u EXCEPT !.c.output_paused = FALSE], "STMr"))

StrmPause(w) ==
  IF ~w.c.streaming THEN Failed(w)
  ELSE Then(OutPause(w, TRUE),
         LAMBDA u : Status([u EXCEPT !.c.output_paused = TRUE], "STMp"))

StrmTime(w) == Status(w, "STMt")

(* A cont that asks for metadata or looping is not supported. *)
Cont(w) ==
  IF ~w.c.streaming \/ ~w.c.wait_cont THEN Done(w)
  ELSE Failed(w) \cup Done([w EXCEPT !.c.wait_cont = FALSE])

(* audg hands the gains to the output (GainMailbox.tla); other opcodes are *)
(* ignored; a malformed or unsupported command ends the session.           *)
OtherCommand(w) == Done(w) \cup Failed(w)

Command(w) ==
  (UNION {StrmStop(w), StrmUnpause(w), StrmPause(w), StrmTime(w), Cont(w), OtherCommand(w)})
    \cup IF w.h.stream = MaxStreams THEN {}
         ELSE UNION {StrmStart(w, a, t) : a \in 0..3, t \in Thresholds}
----------------------------------------------------------------------------
(* From the ring to the output. *)

(* Plausible mistake: the bytes of an unfinished frame are dropped. *)
IngressDecode_NoTail(w) ==
  LET n == Min({PcmFrames, Len(w.c.ingress) \div FrameBytes})
  IN [w EXCEPT !.c.pcm = SubSeq(w.c.ingress, 1, n * FrameBytes), !.c.pcm_sent = 0,
               !.c.ingress = IF n = PcmFrames
                             THEN SubSeq(@, n * FrameBytes + 1, Len(@)) ELSE <<>>]

(* An empty chunk is filled; what does not make a frame stays in tail,     *)
(* what does not fit in the chunk stays in the ring.                       *)
IngressDecode(w) ==
  LET bytes == w.c.tail \o w.c.ingress
      n == Min({PcmFrames, Len(bytes) \div FrameBytes})
      rest == SubSeq(bytes, n * FrameBytes + 1, Len(bytes))
  IN [w EXCEPT !.c.pcm = SubSeq(bytes, 1, n * FrameBytes), !.c.pcm_sent = 0,
               !.c.tail = IF n = PcmFrames THEN <<>> ELSE rest,
               !.c.ingress = IF n = PcmFrames THEN rest ELSE <<>>]

Unsent(w) == SubSeq(w.c.pcm, w.c.pcm_sent * FrameBytes + 1, Len(w.c.pcm))

FlushPcm(w) ==
  LET wrote == Min({Len(Unsent(w)) \div FrameBytes, Capacity - w.out.queued})
      counted == buffered /\ ~w.c.output_released
      sent == OutPcm(w, SubSeq(Unsent(w), 1, wrote * FrameBytes))
  IN IF Unsent(w) = <<>> THEN Done(w)
     ELSE IF counted /\ wrote > Capacity - w.c.prefill_frames THEN Failed(sent)
     ELSE Done([sent EXCEPT !.c.pcm_sent = @ + wrote,
                            !.c.prefill_frames = IF counted THEN @ + wrote ELSE @])

(* The chunk is drained, and refilled and drained once more. *)
DrainChunk(w) ==
  Then(FlushPcm(w),
    LAMBDA u : IF Unsent(u) = <<>> THEN FlushPcm(IngressDecode(u)) ELSE Done(u))

TellReady(w) ==
  IF w.c.ready_sent THEN Done(w)
  ELSE Then(Status(w, "STMl"), LAMBDA u : Done([u EXCEPT !.c.ready_sent = TRUE]))

(* Plausible mistake: the output is released once more at the end. *)
ReleaseOutput_AtEnd(w) ==
  IF w.c.wait_start \/ w.c.output_paused \/ (w.c.output_released /\ ~w.c.input_eof) THEN Done(w)
  ELSE Then(OutRelease(w), LAMBDA u : Done([u EXCEPT !.c.output_released = TRUE]))

ReleaseOutput(w) ==
  IF w.c.wait_start \/ w.c.output_paused \/ w.c.output_released THEN Done(w)
  ELSE Then(OutRelease(w), LAMBDA u : Done([u EXCEPT !.c.output_released = TRUE]))

TellEnd(w) ==
  IF ~w.c.input_eof \/ ~w.c.output_released \/ w.c.eof_sent THEN Done(w)
  ELSE Then(Status(w, "STMd"), LAMBDA u : Done([u EXCEPT !.c.eof_sent = TRUE]))

(* Ready is a reserve the output has accepted, or all of a short stream. *)
ServiceBuffered(w) ==
  IF ~buffered \/ w.c.wait_cont \/ (w.c.prefill_frames < w.c.ready_frames /\ ~w.c.input_eof)
  THEN Done(w)
  ELSE Then(IF w.c.wait_start THEN TellReady(w) ELSE Done(w),
         LAMBDA u : Then(ReleaseOutput(u), LAMBDA v : TellEnd(v)))
----------------------------------------------------------------------------
(* From the HTTP socket to the ring. *)

(* Content-Length is accounted for when bytes arrive. *)
IngressFill(w, n) ==
  LET bytes == [i \in 1..n |-> <<w.h.stream, w.h.received + i>>]
      left == w.c.remaining - n
  IN IF n = 0 THEN Done(w)
     ELSE IF n > IngressBytes - Len(w.c.ingress) \/ (w.c.has_length /\ left < 0) THEN Failed(w)
     ELSE Done([w EXCEPT !.c.ingress = @ \o bytes, !.h.received = @ + n,
                         !.c.remaining = IF w.c.has_length THEN left ELSE @,
                         !.c.body_done = IF w.c.has_length THEN left = 0 ELSE @])

(* headers(), without and with a Content-Length. *)
Headers(w) ==
  LET parsed == {[w EXCEPT !.c.headers_done = TRUE]} \cup
        {[w EXCEPT !.c.headers_done = TRUE, !.c.has_length = TRUE, !.c.remaining = length,
                   !.c.body_done = (length = 0)] : length \in 0..MaxBody}
  IN Failed(w) \cup UNION {Enqueue(u) : u \in parsed}

(* The last read of the headers may bring the first bytes of the body. *)
HttpData(w) ==
  LET most == Min({RxBytes, IngressBytes - Len(w.c.ingress), MaxBody - w.h.received})
  IN IF w.c.headers_done THEN UNION {IngressFill(w, n) : n \in 1..most}
     ELSE Done(w) \cup
          Then(Headers(w), LAMBDA u : UNION {IngressFill(u, n) : n \in 0..most})

(* Plausible mistake: a body that breaks off ends like a complete one. *)
HttpEof_Truncated(w) ==
  IF ~w.c.headers_done THEN Failed(w) ELSE Done([w EXCEPT !.c.body_done = TRUE])

HttpEof(w) ==
  IF ~w.c.headers_done \/ (w.c.has_length /\ w.c.remaining > 0) THEN Failed(w)
  ELSE Done([w EXCEPT !.c.body_done = TRUE])

(* A send or a receive may do nothing (EAF_AGAIN) or fail. *)
HttpIo(w) ==
  Done(w) \cup Failed(w) \cup
    IF ~w.c.request_sent THEN Done([w EXCEPT !.c.request_sent = TRUE])
    ELSE HttpData(w) \cup HttpEof(w)

Complete(w) == w.c.body_done /\ w.c.ingress = <<>> /\ Unsent(w) = <<>>

(* The body ends with a whole frame; the output is told, then the server. *)
EndInput(w) ==
  IF w.c.tail # <<>> THEN Failed(w)
  ELSE LET ended == [OutEof(w) EXCEPT !.c.input_eof = TRUE, !.c.http = FALSE]
       IN IF buffered THEN ServiceBuffered(ended) ELSE Status(ended, "STMd")

(* Without a held output a stream that waits for its start keeps its bytes. *)
KeepsBytes(w) ==
  /\ ~buffered /\ w.c.headers_done /\ w.c.wait_start
  /\ w.c.pcm # <<>> \/ w.c.ingress # <<>> \/ w.c.body_done

PumpHttp(w) ==
  IF ~w.c.streaming THEN Done(w)
  ELSE Then(ServiceBuffered(w), LAMBDA u :
         IF ~u.c.http \/ (u.c.headers_done /\ u.c.wait_cont) THEN Done(u)
         ELSE IF KeepsBytes(u) THEN TellReady(u)
         ELSE Then(DrainChunk(u), LAMBDA v :
                IF Complete(v) THEN EndInput(v)
                ELSE IF v.c.body_done \/ Len(v.c.ingress) >= IngressBytes THEN Done(v)
                ELSE HttpIo(v)))
----------------------------------------------------------------------------
(* The transport thread. *)

Becomes(w) == c' = w.c /\ out' = w.out /\ h' = w.h

(* A step that fails closes the client. *)
Continue(outcomes, next) ==
  /\ UNCHANGED buffered
  /\ \E o \in outcomes :
       IF o.ok THEN Becomes(o.w) /\ place' = next
               ELSE Becomes(Close(o.w)) /\ place' = "idle"

(* HELO is the first message; the owner connects again after every close. *)
Connect ==
  /\ place = "idle" /\ ~c.control
  /\ Continue(Done([World EXCEPT !.c.control = TRUE, !.c.tx = 1]), "idle")

StepSend ==
  /\ place = "idle" /\ c.control
  /\ Continue(Failed(World) \cup UNION {Done([World EXCEPT !.c.tx = n]) : n \in 0..c.tx}, "recv")

(* One packet of what was received; a read may hold several. *)
StepCommand ==
  /\ place = "recv"
  /\ Continue(Command(World), "recv")

StepPump ==
  /\ place = "recv"
  /\ Continue(PumpHttp(World), "idle")

(* eaf_lms_client_report_playback, as the owner's loop calls it; it closes *)
(* the client when the report is refused.                                  *)
ReportPlayback(w) ==
  IF ~w.c.streaming \/ (w.c.started_sent /\ ~w.out.played)
  THEN Failed([w EXCEPT !.h.refused = TRUE])
  ELSE IF w.out.played /\ ~w.c.started_sent
  THEN Then(Status(w, "STMs"), LAMBDA u : Done([u EXCEPT !.c.started_sent = TRUE]))
  ELSE Status(w, "STMt")

Report ==
  /\ place = "idle" /\ c.control /\ out.active /\ ~c.wait_cont /\ ~c.wait_start
  /\ Continue(ReportPlayback(World), "idle")

(* The network is gone, or the owner ends. *)
Disconnect ==
  /\ place = "idle" /\ c.control
  /\ Continue(Failed(World), "idle")

Next == Play \/ Connect \/ StepSend \/ StepCommand \/ StepPump \/ Report \/ Disconnect

(* A step returns (what WF_vars(StepPump) says, but cheaper to check), and *)
(* the owner of an open session steps again.  The output plays at the      *)
(* latest when it is full or has the end of the stream (PcmFifo.tla).      *)
Fairness ==
  /\ []<>(place = "idle")
  /\ []<>(place = "recv" \/ ~c.control)
  /\ WF_vars(Play /\ (out.queued = Capacity \/ out.finished))

Spec == Init /\ [][Next]_vars /\ Fairness
----------------------------------------------------------------------------
(* Nothing is lost, duplicated or reordered between the HTTP socket and    *)
(* the output callback, whatever the sizes in which bytes arrive, frames   *)
(* complete and the output accepts them (pump_http, ingress_fill,          *)
(* ingress_decode, flush_pcm): what the output has, then the rest of the   *)
(* chunk, the tail and the ring are what was in the ring when the stream   *)
(* started followed by all that was received.                              *)
BytesConserved ==
  c.streaming =>
    h.delivered \o Unsent(World) \o c.tail \o c.ingress
      = h.residue \o [i \in 1..h.received |-> <<h.stream, i>>]

(* The callbacks' contract (eaf_lms_client.h): a stream is started on a    *)
(* stopped output only, gets no PCM and no second end after its end, and   *)
(* is released once, when it is held and has its reserve or its end        *)
(* (what BoardOutput.tla assumes); and outside a step there is an HTTP     *)
(* socket only for a stream, a stream only in a session, and an output     *)
(* running exactly for a stream.                                           *)
OutputContract ==
  /\ ~out.misuse
  /\ out.active = c.streaming
  /\ (c.http => c.streaming) /\ (c.streaming => c.control)

(* What the server is told of a stream happened, and it is told once: STMl *)
(* when a buffered output has its reserve or the end, STMs when it has     *)
(* been heard, STMd when the body is complete to its Content-Length and    *)
(* every byte was handed over, the output running; and the owner's         *)
(* reports are never refused (main.c and play_lms.c disconnect then).      *)
StatusHonest ==
  /\ ~h.twice /\ ~h.refused
  /\ c.streaming /\ "STMl" \in h.told /\ buffered =>
       c.input_eof \/ c.prefill_frames >= c.ready_frames
  /\ c.streaming /\ "STMs" \in h.told => out.played
  /\ c.streaming /\ "STMd" \in h.told =>
       /\ out.finished /\ ~out.held
       /\ c.has_length => c.remaining = 0
       /\ Len(h.delivered) = Len(h.residue) + h.received

(* A stream whose body is in and which the server has let start comes to   *)
(* its end: the held output is released although the reserve asked for may *)
(* exceed what it can hold, and STMd is sent, unless the stream is paused, *)
(* stopped or fails (service_buffered, eaf_lms_buffer_limits).             *)
Ending ==
  /\ c.streaming /\ c.body_done /\ ~c.wait_cont /\ ~c.wait_start /\ ~c.output_paused
  /\ out.paused => out.held

EndIsTold == Ending ~> (~Ending \/ "STMd" \in h.told)

(* No PCM reaches a held output before the server's cont (the contract of  *)
(* start_buffered in eaf_lms_client.h).                                    *)
PcmAfterCont == buffered /\ c.streaming /\ c.wait_cont => h.delivered = <<>>

(* When the client counts an output that is not held as running (the       *)
(* server was told STMr), it is not paused (strm u in command).            *)
ResumeResumes == c.streaming /\ ~c.output_paused /\ ~out.held => ~out.paused
----------------------------------------------------------------------------
(* The inductive invariant: the types, and what relates the client, the    *)
(* output and the history.  Sane is what a call that fails leaves behind   *)
(* and eaf_lms_client_close needs.                                         *)

Byte == Nat \X Nat
TxRange == 0..TxMessages
FrameRange == 0..Capacity

ClientType ==
  [control : BOOLEAN, tx : TxRange, http : BOOLEAN, streaming : BOOLEAN,
   output_released : BOOLEAN, output_paused : BOOLEAN, input_eof : BOOLEAN,
   eof_sent : BOOLEAN, prefill_frames : Nat, ready_frames : FrameRange, pcm : Seq(Byte),
   pcm_sent : Nat, body_done : BOOLEAN, wait_cont : BOOLEAN, wait_start : BOOLEAN,
   ready_sent : BOOLEAN, started_sent : BOOLEAN, headers_done : BOOLEAN,
   has_length : BOOLEAN, remaining : Nat, request_sent : BOOLEAN, tail : Seq(Byte),
   ingress : Seq(Byte)]

OutputType ==
  [active : BOOLEAN, held : BOOLEAN, paused : BOOLEAN, finished : BOOLEAN,
   played : BOOLEAN, queued : FrameRange, misuse : BOOLEAN]

HistoryType ==
  [stream : Nat, residue : Seq(Byte), received : Nat, delivered : Seq(Byte),
   told : SUBSET Once, twice : BOOLEAN, refused : BOOLEAN]

WorldType == [c : ClientType, out : OutputType, h : HistoryType]

(* The output runs for a stream, and nothing of a stream outlives it. *)
Sane(w) ==
  /\ w \in WorldType
  /\ ~w.out.misuse /\ ~w.h.twice /\ ~w.h.refused
  /\ w.out.active <=> w.c.streaming
  /\ ~w.c.streaming => w.h.told = {} /\ w.h.delivered = <<>> /\ w.h.received = 0

(* The output is in the state the client's flags say, and a held one has   *)
(* exactly the frames counted.                                             *)
OutputOK(w) ==
  /\ w.c.http <=> w.c.streaming /\ ~w.c.input_eof
  /\ w.c.streaming =>
       /\ w.out.finished <=> w.c.input_eof
       /\ w.out.held <=> buffered /\ ~w.c.output_released
       /\ w.c.output_released => buffered
       /\ w.out.held => w.out.queued = w.c.prefill_frames

(* Each event of Once has a flag that says it was sent. *)
TellsOK(w) ==
  w.c.streaming =>
    /\ "STMl" \in w.h.told <=> w.c.ready_sent
    /\ w.c.ready_sent /\ buffered => w.c.input_eof \/ w.c.prefill_frames >= w.c.ready_frames
    /\ "STMs" \in w.h.told <=> w.c.started_sent
    /\ w.c.started_sent => w.out.played
    /\ "STMd" \in w.h.told <=> w.c.input_eof /\ (w.c.eof_sent \/ ~buffered)
    /\ w.c.eof_sent => w.c.input_eof /\ w.c.output_released

(* A body that is done is complete, and at its end nothing is left of it. *)
BodyOK(w) ==
  w.c.streaming =>
    /\ w.c.body_done /\ w.c.has_length => w.c.remaining = 0
    /\ w.c.input_eof =>
         w.c.body_done /\ Unsent(w) = <<>> /\ w.c.tail = <<>> /\ w.c.ingress = <<>>

BytesOK(w) ==
  w.c.streaming =>
    w.h.delivered \o Unsent(w) \o w.c.tail \o w.c.ingress
      = w.h.residue \o [i \in 1..w.h.received |-> <<w.h.stream, i>>]

Good(w) == Sane(w) /\ OutputOK(w) /\ TellsOK(w) /\ BodyOK(w) /\ BytesOK(w)

LmsInv ==
  /\ Good(World)
  /\ place \in {"idle", "recv"} /\ buffered \in BOOLEAN
  /\ c.streaming \/ place = "recv" => c.control
=============================================================================
