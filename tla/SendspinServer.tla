--------------------------- MODULE SendspinServer ---------------------------
(***************************************************************************)
(* The Sendspin server as the client meets it: the documents it writes,    *)
(* what each of them means, and the WebSocket frames that carry them.  Not *)
(* code of the repository; the documents have the fields the parsers of    *)
(* sendspin_protocol.c read, and others beside them.                       *)
(***************************************************************************)
EXTENDS SendspinMessages, SendspinWs

Blank == Tok("ws")

(* The payload first and no blanks, or the type first and blanks between   *)
(* the tokens of the outer object.  (skip_object accepts no blank after a  *)
(* comma, so a nested object that is skipped never has one.)               *)
Written(form, type, payload) ==
  IF form = "compact" THEN Obj(<<<<"payload", payload>>, <<"type", Str(type)>>>>)
  ELSE Tok("{") \o Blank \o Str("type") \o Tok(":") \o Blank \o Str(type) \o Blank \o Tok(",")
         \o Blank \o Str("payload") \o Blank \o Tok(":") \o Blank \o payload \o Blank \o Tok("}")

(* A member no parser knows, with an object and an array inside. *)
Extra == <<"artwork", Obj(<<<<"channels", Arr(<<Obj(<<<<"codec", Str("jpeg")>>>>), Num(1)>>)>>>>)>>

Roles(names) == <<"roles", Arr([i \in DOMAIN names |-> Str(names[i])])>>
Hello(roles) ==
  Obj(<<<<"server_id", Str("s")>>, <<"active_roles", Arr([i \in DOMAIN roles |-> Str(roles[i])])>>>>)
Start(f) ==
  Obj(<<Extra, <<"player", Obj(<<<<"codec", Str(f.codec)>>, <<"sample_rate", Num(f.rate)>>,
                                <<"channels", Num(f.channels)>>, <<"bit_depth", Num(f.bits)>>>>)>>>>)
Command(name, value) == Obj(<<<<"player", Obj(<<<<"command", Str(name)>>, value>>)>>>>)

PcmFormat == [codec |-> "pcm", rate |-> 48, channels |-> 2, bits |-> 16]
FlacFormat == [codec |-> "flac", rate |-> 44, channels |-> 2, bits |-> 16]
OpusFormat == [codec |-> "opus", rate |-> 48, channels |-> 2, bits |-> 16]
AacFormat == [codec |-> "aac", rate |-> 44, channels |-> 2, bits |-> 16]

(* A message's type and payload, and the callback it is meant to cause.    *)
(* The client has no name for a codec it does not know.                    *)
StartOf(f) ==
  [type |-> "stream/start", payload |-> Start(f),
   means |-> [cb |-> "stream_start", rate |-> f.rate,
              codec |-> IF f.codec \in Codecs THEN f.codec ELSE "unknown",
              channels |-> f.channels, bits |-> f.bits]]
CommandOf(name, value, volume, muted, delay) ==
  [type |-> "server/command", payload |-> Command(name, value),
   means |-> [cb |-> "command", command |-> name, volume |-> volume, muted |-> muted,
              delay |-> delay]]

Texts ==
  [hello |-> [type |-> "server/hello", payload |-> Hello(<<"controller@v1", "player@v1">>),
              means |-> [cb |-> "ready", player |-> TRUE]],
   hello_without |-> [type |-> "server/hello", payload |-> Hello(<<"controller@v1">>),
              means |-> [cb |-> "ready", player |-> FALSE]],
   time |-> [type |-> "server/time",
             payload |-> Obj(<<<<"client_transmitted", Num(1)>>, <<"server_received", Num(2)>>,
                               <<"server_transmitted", Num(3)>>>>),
             means |-> [cb |-> "time"]],
   start_pcm |-> StartOf(PcmFormat),
   start_flac |-> StartOf(FlacFormat),
   start_opus |-> StartOf(OpusFormat),
   start_aac |-> StartOf(AacFormat),
   clear |-> [type |-> "stream/clear", payload |-> Obj(<<Extra, Roles(<<"visualizer", "player">>)>>),
              means |-> [cb |-> "stream_clear", player |-> TRUE]],
   end |-> [type |-> "stream/end", payload |-> Obj(<<Extra>>),
            means |-> [cb |-> "stream_end", player |-> TRUE]],
   end_other |-> [type |-> "stream/end", payload |-> Obj(<<Roles(<<"visualizer">>)>>),
                  means |-> [cb |-> "stream_end", player |-> FALSE]],
   group |-> [type |-> "group/update", payload |-> Obj(<<<<"playback_state", Str("playing")>>>>),
              means |-> [cb |-> "group_update", state |-> "playing"]],
   volume |-> CommandOf("volume", <<"volume", Num(30)>>, 30, FALSE, -1),
   mute |-> CommandOf("mute", <<"mute", Lit("true")>>, -1, TRUE, -1),
   delay |-> CommandOf("set_static_delay", <<"static_delay_ms", Num(5)>>, -1, FALSE, 5),
   other |-> [type |-> "server/other", payload |-> Obj(<<Extra>>), means |-> [cb |-> "ignore"]]]

Starts == {"start_pcm", "start_flac", "start_opus", "start_aac"}
Hellos == {"hello", "hello_without"}
Forms == {"compact", "spaced"}

Documents ==
  [m \in DOMAIN Texts |-> [f \in Forms |-> Loaded(Written(f, Texts[m].type, Texts[m].payload))]]

(* What the client's parsers make of every document. *)
Readings == [m \in DOMAIN Texts |-> [f \in Forms |-> ReadMessage(Documents[m][f])]]

(* A document travels in two halves. *)
TextUnit(m, form, i) == [k |-> "text", m |-> m, form |-> form, i |-> i]
TextBody(m, form) == <<TextUnit(m, form, 1), TextUnit(m, form, 2)>>

(* Halves that do not belong together, or none: nothing or an error. *)
ReadText(body) ==
  IF Len(body) = 2 /\ body[1].k = "text" /\ body = TextBody(body[1].m, body[1].form)
  THEN {Readings[body[1].m][body[1].form]}
  ELSE {[cb |-> "ignore"], Reject}

(* A chunk of audio: type byte and timestamp, then the samples. *)
AudioBody == <<[k |-> "audio"], [k |-> "samples"]>>
----------------------------------------------------------------------------
(* The frames of a message: whole, with an extended length, cut in two     *)
(* with an empty ping in between, or cut with nothing in the last fragment.*)
Frames(cut, op, body) ==
  CASE cut = "whole" -> Frame(op, TRUE, 0, body)
    [] cut = "extended" -> Frame(op, TRUE, 1, body)
    [] cut = "cut" -> Frame(op, FALSE, 0, SubSeq(body, 1, 1)) \o Frame("ping", TRUE, 0, <<>>)
                        \o Frame("cont", TRUE, 0, SubSeq(body, 2, 2))
    [] cut = "tail" -> Frame(op, FALSE, 0, body) \o Frame("cont", TRUE, 0, <<>>)

(* How a message comes: every way is one that some kind of message takes. *)
CutsOf(m) ==
  CASE m \in {"audio", "start_pcm"} -> {"whole", "cut"}
    [] m \in {"start_flac", "group", "volume"} -> {"extended"}
    [] m \in {"end", "other"} -> {"tail"}
    [] OTHER -> {"whole"}

(* A long document is one with blanks. *)
FormOf(cut) == IF cut = "extended" THEN "spaced" ELSE "compact"

(* What those frames mean to the client, in order. *)
Meant(cut, meaning) == (IF cut = "cut" THEN <<[cb |-> "ping"]>> ELSE <<>>) \o <<meaning>>
=============================================================================
