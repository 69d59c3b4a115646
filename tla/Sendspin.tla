------------------------------ MODULE Sendspin ------------------------------
(***************************************************************************)
(* apps/sendspin/sendspin_client.c under platform/esp32_sendspin/src/      *)
(* main.c, with a server at the other end of the socket: the upgrade, the  *)
(* handshake, the messages, the streams they start, clear and end, and     *)
(* reconnection.                                                           *)
(*                                                                         *)
(* The calls are operators on the state s, the record of the variables, to *)
(* their outcomes; a step of the client is one action.  The server only    *)
(* says what the protocol allows it to say.                                *)
(***************************************************************************)
EXTENDS SendspinServer, SendspinPlayer

CONSTANTS
  Formats, Fallback,   \* the codecs of the configuration; the scalar format
  WireUnits,           \* EAF_SENDPIN_WIRE_BYTES
  HttpUnits,           \* EAF_SENDPIN_HTTP_BYTES
  InboxUnits,          \* bound: units the socket holds
  MaxConnections, MaxMessages   \* bounds: whole behaviour

ASSUME SendspinAssumption ==
  /\ {MessageUnits, ControlUnits, WireUnits, HttpUnits, InboxUnits, MaxConnections} \subseteq Nat \ {0}
  /\ {ChunkFrames, DecodeSteps, InputUnits, HeaderUnits, ScratchFrames} \subseteq Nat \ {0}
  /\ HeaderUnits <= InputUnits /\ WireUnits >= 4 /\ MaxMessages \in Nat
  /\ Formats \in Seq([codec : Codecs \cup {"unknown"}, rate : Nat, channels : Nat, bits : Nat])
  /\ Fallback.codec = "pcm" /\ HasDecoder \in BOOLEAN /\ RateControl \in BOOLEAN

VARIABLES
  pc,         \* main: "offline", "online" in the loop, "leave" behind it, "ended"
  client,     \* eaf_sendspin_client_t
  rx,         \* client.rx
  board,      \* main: have_stream, current_stream, the volume and the output
  player, worker, dec,
  net,        \* the socket and the server behind it
  owed,       \* history: what the server has said and the client not dispatched
  misheard,   \* history: the last message dispatched or refused was not that
  clean,      \* history: the connection began with an idle receive buffer
  limits      \* bounds used up

vars == <<pc, client, rx, board, player, worker, dec, net, owed, misheard, clean, limits>>

State ==
  [client |-> client, rx |-> rx, board |-> board, player |-> player, worker |-> worker,
   dec |-> dec, net |-> net, owed |-> owed, misheard |-> misheard]

Become(s) ==
  /\ client' = s.client /\ rx' = s.rx /\ board' = s.board /\ player' = s.player
  /\ worker' = s.worker /\ dec' = s.dec /\ net' = s.net /\ owed' = s.owed
  /\ misheard' = s.misheard

NoStream == [codec |-> "none", rate |-> 0, channels |-> 0, bits |-> 0]
Silence == [running |-> FALSE, rate |-> 0, failed |-> FALSE]

(* stage: how far the server has heard the client; due: what the client    *)
(* has queued for it and it has not received.                              *)
NetZero ==
  [inbox |-> <<>>, stage |-> "upgrade", due |-> <<>>, torn |-> FALSE, asked |-> FALSE,
   streaming |-> FALSE, closed |-> FALSE]

Init ==
  /\ pc = "offline"
  /\ client = [state |-> "closed", handshaken |-> FALSE, notified |-> FALSE,
               stream_active |-> FALSE, stream |-> NoStream, synchronized |-> FALSE, delay |-> 0,
               wire |-> <<>>, offset |-> 0, http |-> 0]
  /\ rx = eaf_sendspin_ws_rx_init
  /\ board = [have_stream |-> FALSE, current |-> NoStream, level |-> 100, muted |-> FALSE,
              gain |-> 100, out |-> Silence]
  /\ player = PlayerZero /\ worker = WorkerZero /\ dec = DecoderZero
  /\ net = NetZero /\ owed = <<>> /\ misheard = FALSE
  /\ clean = TRUE /\ limits = [connections |-> 0, messages |-> 0]
----------------------------------------------------------------------------
(* main.c: the callbacks. *)

apply_volume(s) == [s EXCEPT !.board.gain = IF s.board.muted THEN 0 ELSE s.board.level]

(* eaf_board_output_replace: the old stream is stopped and a new one       *)
(* started, or one of the two fails; either may leave failed set.          *)
OutputReplace(s, rate) ==
  IF rate = 0 THEN Failed(s)
  ELSE Failed([s EXCEPT !.board.out = Silence])
       \cup Failed([s EXCEPT !.board.out = [Silence EXCEPT !.failed = TRUE]])
       \cup Done([s EXCEPT !.board.out = [running |-> TRUE, rate |-> rate, failed |-> FALSE]])

(* eaf_board_output_stop: fails, and keeps the stream, when the worker or  *)
(* the pipeline does not stop.                                             *)
OutputStop(s) ==
  {[s EXCEPT !.board.out = [Silence EXCEPT !.failed = s.board.out.failed]]}
  \cup IF s.board.out.rate = 0 THEN {}
       ELSE {[s EXCEPT !.board.out.running = FALSE, !.board.out.failed = TRUE]}

start_output(s, start) ==
  LET finished == [eaf_sendspin_player_finish(s) EXCEPT !.board.have_stream = FALSE]
      begun == Then(OutputReplace(finished, start.rate),
                    LAMBDA t : eaf_sendspin_player_begin(t, start))
  IN {IF o.ok THEN apply_volume([o.w EXCEPT !.board.have_stream = TRUE]) ELSE o.w : o \in begun}

on_stream_start(s, start) == start_output([s EXCEPT !.board.current = start], start)

on_audio(s, frames) ==
  {o.w : o \in eaf_sendspin_player_write(s, frames, s.client.synchronized)}

on_stream_end(s, end_player) ==
  IF end_player
  THEN [eaf_sendspin_player_finish(s) EXCEPT !.board.have_stream = FALSE, !.board.out.running = FALSE]
  ELSE s

on_stream_clear(s, clear_player) ==
  IF clear_player /\ s.board.have_stream THEN start_output(s, s.board.current) ELSE {s}

on_command(s, command) ==
  CASE command.command = "volume" /\ command.volume >= 0 ->
         apply_volume([s EXCEPT !.board.level = command.volume])
    [] command.command = "mute" -> apply_volume([s EXCEPT !.board.muted = command.muted])
    [] OTHER -> s
----------------------------------------------------------------------------
(* sendspin_client.c: sending.  A long frame is two units, so that a       *)
(* partial send may cut it.                                                *)

OnWire(m) == IF m \in {"time", "pong"} THEN <<<<m, 2>>>> ELSE <<<<m, 1>>, <<m, 2>>>>

(* What was sent makes room when the frame would not fit behind it. *)
queue_frame(s, m) ==
  LET c == s.client
      pending == SubSeq(c.wire, c.offset + 1, Len(c.wire))
      u == IF c.offset > 0 /\ Len(c.wire) + Len(OnWire(m)) > WireUnits
           THEN [s EXCEPT !.client.wire = pending, !.client.offset = 0] ELSE s
  IN IF Len(u.client.wire) + Len(OnWire(m)) > WireUnits THEN Failed(u)
     ELSE Done([u EXCEPT !.client.wire = @ \o OnWire(m), !.net.due = @ \o OnWire(m)])

(* The server receives some units. *)
Receives(n, units) ==
  LET Has(m) == \E i \in DOMAIN units : units[i] = <<m, 2>>
  IN [n EXCEPT !.due = SubSeq(n.due, Len(units) + 1, Len(n.due)),
               !.torn = n.torn \/ ~IsPrefix(units, n.due),
               !.stage = IF Has("hello") THEN "greeted" ELSE IF Has("upgrade") THEN "respond" ELSE n.stage,
               !.asked = n.asked \/ Has("time")]

(* hal_tcp_send of the next n units. *)
Sent(s, n) ==
  [s EXCEPT !.net = Receives(s.net, SubSeq(s.client.wire, s.client.offset + 1, s.client.offset + n)),
            !.client.offset = s.client.offset + n]

Unsent(s) == Len(s.client.wire) - s.client.offset

(* Plausible mistake: a send that would block forgets what it has sent. *)
flush_Restart(s) ==
  {[rc |-> "ok", s |-> [Sent(s, Unsent(s)) EXCEPT !.client.wire = <<>>, !.client.offset = 0]]}
  \cup {[rc |-> "again", s |-> [Sent(s, n) EXCEPT !.client.offset = 0]] : n \in 0 .. Unsent(s) - 1}
  \cup IF Unsent(s) = 0 THEN {} ELSE {[rc |-> "error", s |-> s]}

(* All is sent, or some of it until the send would block or fails. *)
flush(s) ==
  {[rc |-> "ok", s |-> [Sent(s, Unsent(s)) EXCEPT !.client.wire = <<>>, !.client.offset = 0]]}
  \cup {[rc |-> "again", s |-> Sent(s, n)] : n \in 0 .. Unsent(s) - 1}
  \cup IF Unsent(s) = 0 THEN {} ELSE {[rc |-> "error", s |-> s]}

(* The frame is left out when it does not fit. *)
send_time(s) == {o.w : o \in queue_frame(s, "time")}

(* The socket is open exactly while state is not "closed". *)
notify_closed(s) ==
  [s EXCEPT !.client.state = "closed", !.client.handshaken = FALSE, !.client.stream_active = FALSE,
            !.client.notified = TRUE]

fail(s) == Failed(notify_closed(s))

(* if (rc) return fail(client); *)
OrFail(outcomes) == UNION {IF o.ok THEN {o} ELSE fail(o.w) : o \in outcomes}
----------------------------------------------------------------------------
(* sendspin_client.c: receiving. *)

(* Plausible mistake: any codec that has a name. *)
client_supports_codec_Named(codec) == codec # "unknown"

client_supports_codec(codec) ==
  IF Formats = <<>> THEN codec = "pcm" ELSE \E i \in DOMAIN Formats : Formats[i].codec = codec

on_server_hello(s, hello) ==
  IF ~hello.player THEN Failed(s)
  ELSE Then(queue_frame(s, "state"), LAMBDA t :
         UNION {Done(u) : u \in send_time([t EXCEPT !.client.handshaken = TRUE])})

(* eaf_sendspin_time_filter_exchange: the second measurement synchronizes; *)
(* they are not counted here, so that any of them may.                     *)
eaf_sendspin_time_filter_exchange(s) == {s, [s EXCEPT !.client.synchronized = TRUE]}

OnStreamStart(s, r) ==
  LET start == [codec |-> r.codec, rate |-> r.rate, channels |-> r.channels, bits |-> r.bits]
      u == [s EXCEPT !.client.stream = start]
  IN IF ~client_supports_codec(r.codec) THEN Failed(u)
     ELSE UNION {Done(t) : t \in on_stream_start([u EXCEPT !.client.stream_active = TRUE], start)}

OnCommand(s, r) ==
  LET u == IF r.command = "set_static_delay" /\ r.delay >= 0
           THEN [s EXCEPT !.client.delay = r.delay] ELSE s
  IN Done(on_command(u, r))

dispatch_text(s, r) ==
  CASE r.cb = "reject" -> Failed(s)
    [] r.cb = "ready" -> on_server_hello(s, r)
    [] r.cb = "time" -> UNION {Done(t) : t \in eaf_sendspin_time_filter_exchange(s)}
    [] r.cb = "stream_start" -> OnStreamStart(s, r)
    [] r.cb = "stream_clear" -> UNION {Done(t) : t \in on_stream_clear(s, r.player)}
    [] r.cb = "stream_end" -> Done(on_stream_end([s EXCEPT !.client.stream_active = FALSE], r.player))
    [] r.cb = "command" -> OnCommand(s, r)
    [] OTHER -> Done(s)

(* What a WebSocket message amounts to. *)
Reading(msg) ==
  CASE msg.op = "text" -> ReadText(msg.body)
    [] msg.op = "binary" ->
         IF msg.body # <<>> /\ msg.body[1].k = "audio"
         THEN {[cb |-> "audio", data |-> Tail(msg.body)]} ELSE {[cb |-> "ignore"]}
    [] OTHER -> {[cb |-> msg.op]}

(* History: the message is compared with the first one owed. *)
Heard(s, r) ==
  [s EXCEPT !.misheard = s.owed = <<>> \/ Head(s.owed) # r,
            !.owed = IF @ = <<>> THEN @ ELSE Tail(@)]

FramesPerUnit == 2

Deliver(s, op, r) ==
  CASE op = "ping" -> queue_frame(s, "pong")
    [] op = "close" -> Done(notify_closed(s))
    [] op = "text" -> dispatch_text(s, r)
    [] op = "binary" /\ r.cb = "audio" ->
         UNION {Done(t) : t \in on_audio(s, FramesPerUnit * Len(r.data))}
    [] OTHER -> Done(s)

on_message(s, msg) == UNION {Deliver(Heard(s, r), msg.op, r) : r \in Reading(msg)}

(* The end of a pass, from the payload on: s with what is left of units. *)
FeedPayload(s, units) ==
  LET take == Take(s.rx, units)
      u == [s EXCEPT !.rx = TakePayload(s.rx, SubSeq(units, 1, take))]
      called == IF Completes(u.rx) THEN on_message(u, Completed(u.rx)) ELSE Done(u)
      ended == IF FrameComplete(u.rx)
               THEN Then(called, LAMBDA t : Done([t EXCEPT !.rx = NextFrame(t.rx)])) ELSE Done(u)
  IN {[ok |-> o.ok, w |-> o.w, left |-> SubSeq(units, take + 1, Len(units))] : o \in ended}

TooLarge(s) == s.owed # <<>> /\ Head(s.owed).cb = "large"

(* The frame begins when its header is there, or has begun before. *)
Begun(s) ==
  IF s.rx.ready THEN Done(s)
  ELSE {[ok |-> o.ok, w |-> [s EXCEPT !.rx = o.w, !.misheard = ~o.ok /\ ~TooLarge(s)]] :
          o \in begin_frame(s.rx)}

(* One pass of the loop over the units that are left.  A frame that has no *)
(* payload and no extended header waits for the next byte.                 *)
FeedPass(l) ==
  LET r == l.w.rx
      read == [l.w EXCEPT !.rx.header = r.needed]
      rest == SubSeq(l.left, r.needed - r.header + 1, Len(l.left))
  IN IF ~l.ok \/ l.left = <<>> THEN {l}
     ELSE IF r.header = 0
     THEN {[l EXCEPT !.w.rx = x, !.left = Tail(l.left)] : x \in HeaderBytes(r, Head(l.left))}
     ELSE UNION {IF o.ok THEN FeedPayload(o.w, rest) ELSE {[ok |-> FALSE, w |-> o.w, left |-> rest]} :
                   o \in Begun(read)}

(* Two passes take a unit or more: a pass that takes none ends a frame. *)
eaf_sendspin_ws_rx_feed(s, units) ==
  Outcome(Loop(2 * Len(units), [ok |-> TRUE, w |-> s, left |-> units], FeedPass))
----------------------------------------------------------------------------
(* hal_tcp_recv of n units. *)
Taken(s, n) == [s EXCEPT !.net.inbox = SubSeq(@, n + 1, Len(@))]

(* The response ends with the unit that holds the empty line; what came    *)
(* with it is dropped.                                                     *)
StepHttp(s) ==
  LET room == Min({HttpUnits - s.client.http, Len(s.net.inbox)})
      Response(n) ==
        LET u == [Taken(s, n) EXCEPT !.client.http = @ + n]
            units == SubSeq(s.net.inbox, 1, n)
        IN IF \E i \in 1..n : units[i].last
           THEN IF \E i \in 1..n : units[i].last /\ units[i].status = 101
                THEN Then(OrFail(queue_frame(u, "hello")), LAMBDA t : Done([t EXCEPT !.client.state = "ws"]))
                ELSE fail(u)
           ELSE IF u.client.http = HttpUnits THEN fail(u) ELSE Done(u)
  IN Done(s) \cup fail(s) \cup UNION {Response(n) : n \in 1 .. room}

(* A time request may be due; then one read. *)
StepFrames(s) ==
  LET timed == {s} \cup IF s.client.handshaken THEN send_time(s) ELSE {}
      Read(t) ==
        Done(t) \cup fail(t)
        \cup UNION {OrFail(eaf_sendspin_ws_rx_feed(Taken(t, n), SubSeq(t.net.inbox, 1, n))) :
                      n \in 1 .. Len(t.net.inbox)}
  IN UNION {Read(t) : t \in timed}

eaf_sendspin_client_step(s) ==
  IF s.client.state = "closed" THEN Failed(s)
  ELSE UNION {CASE f.rc = "again" -> Done(f.s)
                [] f.rc = "error" -> fail(f.s)
                [] OTHER -> IF f.s.client.state = "http" THEN StepHttp(f.s) ELSE StepFrames(f.s) :
              f \in flush(s)}

(* The receive buffer and the time filter are kept. *)
eaf_sendspin_client_connect(s) ==
  [s EXCEPT !.client.wire = OnWire("upgrade"), !.client.offset = 0, !.client.http = 0,
            !.client.notified = FALSE, !.client.state = "http",
            !.net = [NetZero EXCEPT !.due = OnWire("upgrade")], !.owed = <<>>]
----------------------------------------------------------------------------
(* main.c: the loop. *)

Connect ==
  /\ pc = "offline" /\ limits.connections < MaxConnections
  /\ Become(eaf_sendspin_client_connect(State))
  /\ pc' = "online" /\ clean' = (rx = eaf_sendspin_ws_rx_init)
  /\ limits' = [limits EXCEPT !.connections = @ + 1]

(* With the socket goes what was in it. *)
Hangup(s) ==
  IF s.client.state = "closed" THEN [s EXCEPT !.net = NetZero, !.owed = <<>>] ELSE s

ClientStep ==
  /\ pc = "online"
  /\ \E o \in eaf_sendspin_client_step(State) :
       Become(Hangup(o.w)) /\ pc' = IF o.ok THEN "online" ELSE "leave"
  /\ UNCHANGED <<clean, limits>>

(* Wi-Fi is gone, or the output has failed. *)
LeaveLoop ==
  /\ pc = "online"
  /\ pc' = "leave"
  /\ UNCHANGED <<client, rx, board, player, worker, dec, net, owed, misheard, clean, limits>>

(* Behind the loop: close, finish, stop; a failed output ends the program. *)
Leave ==
  /\ pc = "leave"
  /\ \E s \in OutputStop(eaf_sendspin_player_finish(notify_closed(State))) :
       Become(Hangup(s)) /\ pc' = IF s.board.out.failed THEN "ended" ELSE "offline"
  /\ UNCHANGED <<clean, limits>>

(* The output's worker meets an error. *)
OutputFails ==
  /\ board.out.running /\ ~board.out.failed
  /\ board' = [board EXCEPT !.out.failed = TRUE]
  /\ UNCHANGED <<pc, client, rx, player, worker, dec, net, owed, misheard, clean, limits>>

(* It returned, or the bound on connections is reached. *)
Ended ==
  /\ \/ pc = "ended"
     \/ pc = "offline" /\ limits.connections = MaxConnections
  /\ UNCHANGED vars
----------------------------------------------------------------------------
(* The server. *)

ServerKeeps == UNCHANGED <<pc, client, rx, board, player, worker, dec, misheard, clean>>

Says(units, meanings, n) ==
  /\ client.state # "closed" /\ ~net.closed
  /\ Len(net.inbox) + Len(units) <= InboxUnits
  /\ net' = [n EXCEPT !.inbox = @ \o units]
  /\ owed' = owed \o meanings
  /\ ServerKeeps

(* After the greeting, within the bound. *)
Ready == net.stage = "ready" /\ limits.messages < MaxMessages

(* The response to the upgrade, in two pieces or in one more than fits. *)
ServerResponds ==
  /\ net.stage = "respond"
  /\ \E status \in {101, 403}, long \in {0, HttpUnits} :
       Says([i \in 1 .. long + 1 |-> [k |-> "http", last |-> FALSE]]
              \o <<[k |-> "http", last |-> TRUE, status |-> status]>>,
            <<>>, [net EXCEPT !.stage = "responded"])
  /\ UNCHANGED limits

ServerGreets ==
  /\ net.stage = "greeted"
  /\ \E m \in Hellos : \E cut \in CutsOf(m) :
       Says(Frames(cut, "text", TextBody(m, FormOf(cut))), Meant(cut, Texts[m].means),
            [net EXCEPT !.stage = "ready"])
  /\ UNCHANGED limits

(* clear and end belong to a stream, time answers a request. *)
ServerTells ==
  /\ Ready
  /\ \E m \in DOMAIN Texts \ Hellos : \E cut \in CutsOf(m) :
       /\ m = "time" => net.asked
       /\ m \in {"clear", "end", "end_other"} => net.streaming
       /\ Says(Frames(cut, "text", TextBody(m, FormOf(cut))), Meant(cut, Texts[m].means),
               [net EXCEPT !.asked = @ /\ m # "time",
                           !.streaming = IF m \in Starts THEN TRUE ELSE @ /\ m # "end"])
  /\ limits' = [limits EXCEPT !.messages = @ + 1]

ServerPlays ==
  /\ Ready /\ net.streaming
  /\ \E cut \in CutsOf("audio") :
       Says(Frames(cut, "binary", AudioBody), Meant(cut, [cb |-> "audio", data |-> Tail(AudioBody)]), net)
  /\ limits' = [limits EXCEPT !.messages = @ + 1]

(* An empty ping, a pong, a close, or a message the client has no room for. *)
ServerControls ==
  /\ Ready
  /\ \/ \E op \in {"ping", "pong"} : Says(Frame(op, TRUE, 0, <<>>), <<[cb |-> op]>>, net)
     \/ Says(Frame("close", TRUE, 0, <<[k |-> "id"]>>), <<[cb |-> "close"]>>, [net EXCEPT !.closed = TRUE])
     \/ Says(Frame("text", TRUE, 1, [i \in 1 .. MessageUnits + 1 |-> [k |-> "id"]]), <<[cb |-> "large"]>>, net)
  /\ limits' = [limits EXCEPT !.messages = @ + 1]

Next ==
  \/ Connect \/ ClientStep \/ LeaveLoop \/ Leave \/ OutputFails \/ Ended
  \/ ServerResponds \/ ServerGreets \/ ServerTells \/ ServerPlays \/ ServerControls

Spec == Init /\ [][Next]_vars
----------------------------------------------------------------------------
(* On a connection that began with an idle receive buffer, every message   *)
(* is dispatched once, in the order of the server, as what the server      *)
(* meant, and only one that does not fit is refused: reassembly from       *)
(* fragments and chunks with control frames in between, the JSON scanner   *)
(* and the parsers (ws_rx_feed, dispatch_text).                            *)
HeardAsMeant == clean => ~misheard

(* Whatever flush could send at a time, the server receives the client's   *)
(* frames whole, once and in order, and nothing of the last connection.    *)
WireIntact ==
  /\ ~net.torn
  /\ client.state # "closed" =>
       net.due = SubSeq(client.wire, client.offset + 1, Len(client.wire))

(* The buffers of the receiver hold what is copied into them: fragments,   *)
(* control frames between them and frames left from a connection before    *)
(* never add up to more (begin_frame checks the length of a frame once,    *)
(* the copies follow over many calls of eaf_sendspin_ws_rx_feed).          *)
ReceiveFits == Len(rx.message) <= MessageUnits /\ Len(rx.control) <= ControlUnits

(* The codecs the built client/hello lists. *)
Advertised ==
  LET d == eaf_sendspin_build_client_hello(Formats, Fallback)
  IN {d[p].v : p \in {q \in 3 .. Len(d) : d[q - 2].t = "str" /\ d[q - 2].v = "codec"}}

(* An active stream of a codec the client knows was in the hello the       *)
(* server has, whatever the configured formats: client_supports_codec and  *)
(* eaf_sendspin_build_client_hello read the list each in its own way.      *)
(* Only the builder leaves out the entries without a codec, so that a list *)
(* with such an entry admits the streams of codecs that no one knows; for  *)
(* them the claim of client_supports_codec does not hold.                  *)
StreamWasAdvertised ==
  client.stream_active /\ client.stream.codec # "unknown" => client.stream.codec \in Advertised

(* While the player takes chunks, the output runs at the rate of the       *)
(* stream that was started last, and the chunks are decoded exactly when   *)
(* that stream is compressed (start_output, stream/clear and stream/end    *)
(* across starts that fail and connections that end).                      *)
AudioInFormat ==
  player.active =>
    /\ board.have_stream /\ board.current.rate = player.rate
    /\ board.out.rate = player.rate
    /\ player.compressed = (board.current.codec # "pcm") /\ player.compressed = worker.open

(* Of the frames handed to the player none is counted twice, and those of  *)
(* a compressed stream are all counted as written or dropped.  Those of a  *)
(* PCM stream are as long as no block was refused: the PCM loop of         *)
(* eaf_sendspin_player_write leaves the chunk at a block that was refused  *)
(* in part, and the frames behind it are in neither counter.               *)
Tallied(p) ==
  LET counted == p.frames_written + p.frames_dropped
  IN /\ counted <= p.handed
     /\ (p.compressed \/ p.frames_dropped = 0) => counted = p.handed

(* The counters tell of every loss (queue_block, decode_sink,              *)
(* eaf_sendspin_player_write), and no decoded frame is left behind in the  *)
(* worker (eaf_decode_worker_step).                                        *)
FramesAccounted == Tallied(player) /\ worker.pending = worker.sent
----------------------------------------------------------------------------
(* The inductive invariant.  A record has the fields its code has; a value *)
(* no property looks at may be anything.                                   *)

IsSeq(x) == x \in Seq({x[i] : i \in DOMAIN x})

Queueable == {"upgrade", "hello", "state", "time", "pong"}

WireUnit == Queueable \X (1..2)

ClientOK(c) ==
  /\ c \in [state : {"closed", "http", "ws"}, handshaken : BOOLEAN, notified : BOOLEAN,
            stream_active : BOOLEAN, stream : {c.stream}, synchronized : BOOLEAN,
            delay : {c.delay}, wire : Seq(WireUnit), offset : Nat, http : Nat]
  /\ c.offset <= Len(c.wire)

BoardOK(b) ==
  b \in [have_stream : BOOLEAN, current : {b.current}, level : {b.level}, muted : {b.muted},
         gain : {b.gain}, out : [running : BOOLEAN, rate : {b.out.rate}, failed : BOOLEAN]]

PlayerOK(p) ==
  p \in [active : BOOLEAN, compressed : BOOLEAN, rate : {p.rate}, resampling : BOOLEAN,
         frames_written : Nat, frames_dropped : Nat, handed : Nat]

RxOK(r) ==
  /\ r \in [header : Nat, needed : Nat, op : {r.op}, fin : {r.fin}, ready : BOOLEAN,
            length : Nat, used : Nat, fragmenting : {r.fragmenting},
            message_op : {r.message_op}, message : {r.message}, control : {r.control}]
  /\ IsSeq(r.message) /\ Len(r.message) <= MessageUnits
  /\ IsSeq(r.control) /\ Len(r.control) <= ControlUnits
  /\ r.header <= r.needed /\ (r.ready => r.header > 0)
  /\ r.ready => r.used <= r.length /\ r.length - r.used <= Room(r)

(* Units of the wire; a header says how long its frame is. *)
Units(x) == IsSeq(x) /\ \A i \in DOMAIN x : x[i].k = "h" => {x[i].len, x[i].ext} \subseteq Nat

NetOK(n) ==
  /\ n \in [inbox : {n.inbox}, stage : {n.stage}, due : Seq(WireUnit), torn : BOOLEAN,
            asked : {n.asked}, streaming : {n.streaming}, closed : {n.closed}]
  /\ Units(n.inbox)

StateOK(s) ==
  /\ s \in [client : {s.client}, rx : {s.rx}, board : {s.board}, player : {s.player},
            worker : [open : BOOLEAN, pending : Nat, sent : Nat, written : Nat],
            dec : [input : Nat, started : BOOLEAN], net : {s.net}, owed : {s.owed},
            misheard : {s.misheard}]
  /\ ClientOK(s.client) /\ RxOK(s.rx) /\ BoardOK(s.board) /\ PlayerOK(s.player) /\ NetOK(s.net)

WireOK(s) ==
  /\ ~s.net.torn
  /\ s.client.state # "closed" =>
       s.net.due = SubSeq(s.client.wire, s.client.offset + 1, Len(s.client.wire))

AudioOK(s) ==
  s.player.active =>
    /\ s.board.have_stream /\ s.board.current.rate = s.player.rate
    /\ s.board.out.rate = s.player.rate
    /\ s.player.compressed <=> s.board.current.codec # "pcm"
    /\ s.player.compressed <=> s.worker.open

FramesOK(s) == Tallied(s.player) /\ s.worker.pending = s.worker.sent

(* What every call keeps, also one that fails. *)
Kept(s) == StateOK(s) /\ WireOK(s) /\ AudioOK(s) /\ FramesOK(s)

(* A stream/start that is refused leaves its format behind and fails. *)
Listed(s) == s.client.stream_active => client_supports_codec(s.client.stream.codec)

SendspinInv == Kept(State) /\ Listed(State)
=============================================================================
