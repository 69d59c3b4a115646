-------------------------- MODULE SendspinMessages --------------------------
(***************************************************************************)
(* apps/sendspin/sendspin_protocol.c: the messages, on top of the scanner. *)
(* A parser takes a document to the callback it amounts to; Reject is any  *)
(* error the parser returns.  The builders write documents.                *)
(***************************************************************************)
EXTENDS SendspinJson, SequencesExt

Reject == [cb |-> "reject"]

(* The common prologue: the position of the payload object, or Bad. *)
PayloadAt(d, found) == IF found.rc = "ok" /\ At(d, found.p) = "{" THEN found.p ELSE Bad
Payload(d) == PayloadAt(d, eaf_sendspin_json_get(d, <<"payload">>))

(* payload.player, read with the other fields of the payload. *)
PlayerAt(d, fields) ==
  IF fields.ok /\ FieldType(d, fields, "player") = "{" THEN fields.at["player"] ELSE Bad
PlayerObject(d, others) == PlayerAt(d, scan_fields(d, Payload(d), {"player"} \cup others, {}))

ServerHello(d, fields) ==
  IF fields.ok /\ "active_roles" \in DOMAIN fields.at
  THEN [cb |-> "ready", player |-> parse_array_membership(d, fields.at["active_roles"], "player@v1")]
  ELSE Reject

eaf_sendspin_parse_server_hello(d) ==
  ServerHello(d, scan_fields(d, Payload(d),
                   {"active_roles", "server_id", "name", "connection_reason", "version"},
                   {"active_roles"}))

Times == {"client_transmitted", "server_received", "server_transmitted"}

ServerTime(d, fields) ==
  IF fields.ok /\ \A k \in Times : FieldType(d, fields, k) = "int" THEN [cb |-> "time"] ELSE Reject

eaf_sendspin_parse_server_time(d) == ServerTime(d, scan_fields(d, Payload(d), Times, {}))

Codecs == {"pcm", "flac", "opus", "mp3", "vorbis"}

codec_from_value(d, fields) ==
  IF FieldType(d, fields, "codec") = "str" /\ FieldValue(d, fields, "codec") \in Codecs
  THEN FieldValue(d, fields, "codec")
  ELSE "unknown"

Numbers == {"sample_rate", "channels", "bit_depth"}

(* channels and bit_depth are cut to 8 bits. *)
StreamStart(d, fields) ==
  IF /\ fields.ok /\ "codec" \in DOMAIN fields.at
     /\ \A k \in Numbers : FieldType(d, fields, k) = "int"
  THEN [cb |-> "stream_start", codec |-> codec_from_value(d, fields),
        rate |-> FieldValue(d, fields, "sample_rate"),
        channels |-> FieldValue(d, fields, "channels") % 256,
        bits |-> FieldValue(d, fields, "bit_depth") % 256]
  ELSE Reject

eaf_sendspin_parse_stream_start(d) ==
  StreamStart(d, scan_fields(d, PlayerObject(d, {"server_transmitted"}),
                             Numbers \cup {"codec", "codec_header"}, {}))

(* Without a payload, or without roles, the end is meant for the player. *)
StreamEnd(d, found, fields) ==
  CASE found.rc = "absent" -> [cb |-> "stream_end", player |-> TRUE]
    [] found.rc # "absent" /\ fields.ok ->
         [cb |-> "stream_end",
          player |-> \/ "roles" \notin DOMAIN fields.at
                     \/ parse_array_membership(d, fields.at["roles"], "player")]
    [] OTHER -> Reject

eaf_sendspin_parse_stream_end(d) ==
  StreamEnd(d, eaf_sendspin_json_get(d, <<"payload">>),
            scan_fields(d, Payload(d), {"server_transmitted", "roles"}, {"roles"}))

(* What cannot be read is left out; the update itself is never refused. *)
GroupUpdate(d, fields) ==
  [cb |-> "group_update",
   state |-> IF fields.ok /\ FieldType(d, fields, "playback_state") = "str"
             THEN FieldValue(d, fields, "playback_state") ELSE "none"]

eaf_sendspin_parse_group_update(d) ==
  GroupUpdate(d, scan_fields(d, Payload(d), {"playback_state", "group_id"}, {}))

Number(d, fields, key) == IF FieldType(d, fields, key) = "int" THEN FieldValue(d, fields, key) ELSE -1

CommandName(d, fields) ==
  IF /\ FieldType(d, fields, "command") = "str"
     /\ FieldValue(d, fields, "command") \in {"volume", "mute", "set_static_delay"}
  THEN FieldValue(d, fields, "command") ELSE "unknown"

ServerCommand(d, fields) ==
  IF fields.ok /\ "command" \in DOMAIN fields.at
  THEN [cb |-> "command", command |-> CommandName(d, fields),
        volume |-> Number(d, fields, "volume"), delay |-> Number(d, fields, "static_delay_ms"),
        muted |-> FieldType(d, fields, "mute") = "lit" /\ FieldValue(d, fields, "mute") = "true"]
  ELSE Reject

eaf_sendspin_parse_server_command(d) ==
  ServerCommand(d, scan_fields(d, PlayerObject(d, {}),
                               {"command", "volume", "mute", "static_delay_ms"}, {}))
----------------------------------------------------------------------------
(* stream/clear is read by dispatch_text itself. *)
StreamClear(d, roles) ==
  [cb |-> "stream_clear",
   player |-> IF roles.rc = "ok" THEN parse_array_membership(d, roles.p, "player") ELSE TRUE]

(* dispatch_text: what a text message amounts to; "ignore" is none of these. *)
MessageType(d, type) == IF type.rc = "ok" /\ At(d, type.p) = "str" THEN Word(d, type.p) ELSE "none"

ReadAs(d, name) ==
  CASE name = "server/hello" -> eaf_sendspin_parse_server_hello(d)
    [] name = "server/time" -> eaf_sendspin_parse_server_time(d)
    [] name = "stream/start" -> eaf_sendspin_parse_stream_start(d)
    [] name = "stream/clear" -> StreamClear(d, eaf_sendspin_json_get(d, <<"payload", "roles">>))
    [] name = "stream/end" -> eaf_sendspin_parse_stream_end(d)
    [] name = "group/update" -> eaf_sendspin_parse_group_update(d)
    [] name = "server/command" -> eaf_sendspin_parse_server_command(d)
    [] OTHER -> [cb |-> "ignore"]

ReadMessage(d) ==
  ReadAs(d, MessageType(d, eaf_sendspin_json_get(d, <<"type">>)))
----------------------------------------------------------------------------
(* Writing documents: wr_char, wr_json_string, wr_i64, wr_lit. *)

Tok(t) == <<[t |-> t, v |-> ""]>>
Str(s) == <<[t |-> "str", v |-> s]>>
Num(n) == <<[t |-> "int", v |-> n]>>
Lit(s) == <<[t |-> "lit", v |-> s]>>

Joined(parts) ==
  FlattenSeq([i \in DOMAIN parts |-> IF i = 1 THEN parts[i] ELSE Tok(",") \o parts[i]])
Obj(members) ==
  Tok("{") \o Joined([i \in DOMAIN members |-> Str(members[i][1]) \o Tok(":") \o members[i][2]])
    \o Tok("}")
Arr(elements) == Tok("[") \o Joined(elements) \o Tok("]")

(* bit_depth is written for PCM only. *)
write_format(f) ==
  Obj(<<<<"codec", Str(f.codec)>>, <<"channels", Num(f.channels)>>, <<"sample_rate", Num(f.rate)>>>>
      \o IF f.codec = "pcm" /\ f.bits # 0 THEN <<<<"bit_depth", Num(f.bits)>>>> ELSE <<>>)

(* formats in preference order, those with a name; the scalar PCM format   *)
(* when there is none.                                                     *)
eaf_sendspin_build_client_hello(formats, fallback) ==
  LET Named(f) == IF f.codec \in Codecs THEN <<f>> ELSE <<>>
      named == FlattenSeq([i \in DOMAIN formats |-> Named(formats[i])])
      listed == IF named = <<>> THEN <<fallback>> ELSE named
  IN Obj(<<<<"payload",
        Obj(<<<<"client_id", Str("id")>>, <<"name", Str("name")>>, <<"version", Num(1)>>,
              <<"supported_roles", Arr(<<Str("player@v1")>>)>>,
              <<"device_info", Obj(<<<<"product_name", Str("name")>>,
                 <<"manufacturer", Str("EAF")>>, <<"software_version", Str("phase2")>>>>)>>,
              <<"player@v1_support", Obj(<<
                 <<"supported_formats", Arr([i \in DOMAIN listed |-> write_format(listed[i])])>>,
                 <<"buffer_capacity", Num(0)>>,
                 <<"supported_commands", Arr(<<Str("volume"), Str("mute")>>)>>>>)>>>>)>>,
      <<"type", Str("client/hello")>>>>)
=============================================================================
