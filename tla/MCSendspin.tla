----------------------------- MODULE MCSendspin -----------------------------
EXTENDS Sendspin

(* An entry without a codec, as in tests/test_sendspin_protocol.c. *)
NoCodec == [codec |-> "unknown", rate |-> 0, channels |-> 0, bits |-> 0]

MCFormats == <<FlacFormat, NoCodec, PcmFormat>>
MCFallback == PcmFormat
=============================================================================
