----------------------------- MODULE SendspinWs -----------------------------
(***************************************************************************)
(* apps/sendspin/sendspin_ws.c: the receive side of the WebSocket.  The    *)
(* byte stream is a sequence of units: "h" for the two fixed header bytes  *)
(* (nothing is looked at before both are there), one "x" for the extended  *)
(* length and mask bytes of a frame that has them, and payload units.  rx  *)
(* is eaf_sendspin_ws_rx_t; a field the next frame sets is cleared.        *)
(***************************************************************************)
EXTENDS Integers, Sequences, FiniteSetsExt, Outcomes

CONSTANTS
  MessageUnits,   \* message_capacity
  ControlUnits    \* sizeof(rx->control)

Control == {"close", "ping", "pong"}
Data == {"text", "binary"}

(* eaf_sendspin_ws_encode and the server's encoder: the units of a frame. *)
Frame(op, fin, ext, body) ==
  <<[k |-> "h", op |-> op, fin |-> fin, ext |-> ext, len |-> Len(body)]>>
    \o (IF ext = 1 THEN <<[k |-> "x"]>> ELSE <<>>) \o body

eaf_sendspin_ws_rx_init ==
  [header |-> 0, needed |-> 0, op |-> "none", fin |-> FALSE, ready |-> FALSE,
   length |-> 0, used |-> 0, fragmenting |-> FALSE, message_op |-> "none",
   message |-> <<>>, control |-> <<>>]

(* What two bytes say when read as a header.  Bytes that are none, met     *)
(* when a connection starts inside a frame of the last one, say anything.  *)
Headers(u) ==
  IF u.k = "h" THEN {u}
  ELSE [op : {"text", "binary", "close", "reserved"}, fin : {TRUE}, ext : {0}, len : {0, 1}]

(* header_used < 2: the fixed bytes give the rest of the header. *)
HeaderBytes(rx, u) ==
  {[rx EXCEPT !.header = 1, !.needed = 1 + f.ext, !.op = f.op, !.fin = f.fin, !.length = f.len] :
     f \in Headers(u)}

(* A data frame starts a message, a control frame has its own buffer. *)
Target(rx) ==
  CASE rx.op \in Data -> [rx EXCEPT !.message = <<>>, !.message_op = rx.op]
    [] rx.op \in Control -> [rx EXCEPT !.control = <<>>]
    [] OTHER -> rx

Room(rx) ==
  IF rx.op \in Control THEN ControlUnits - Len(rx.control) ELSE MessageUnits - Len(rx.message)

(* A continuation needs a message to go on with, a new message must not    *)
(* interrupt one, and the payload must fit.                                *)
begin_frame(rx) ==
  CASE \/ rx.op = "cont" /\ ~rx.fragmenting
       \/ rx.op \in Data /\ rx.fragmenting
       \/ rx.op \notin Data \cup Control \cup {"cont"} -> Failed(rx)
    [] OTHER -> IF rx.length > Room(Target(rx)) THEN Failed(Target(rx))
                ELSE Done([Target(rx) EXCEPT !.ready = TRUE, !.used = 0])

(* Plausible mistake: a pass takes all there is. *)
Take_All(rx, units) == Len(units)

(* How much of units belongs to the frame. *)
Take(rx, units) == Min({Len(units), rx.length - rx.used})

(* The payload bytes of this pass, unmasked into the buffer. *)
TakePayload(rx, units) ==
  LET taken == [rx EXCEPT !.used = @ + Len(units)]
  IN IF rx.op \in Control THEN [taken EXCEPT !.control = @ \o units]
     ELSE [taken EXCEPT !.message = @ \o units]

FrameComplete(rx) == rx.ready /\ rx.used = rx.length

(* The callback's opcode and payload, when this frame completes a message. *)
Completes(rx) == rx.op \in Control \/ rx.fin
Completed(rx) ==
  IF rx.op \in Control THEN [op |-> rx.op, body |-> rx.control]
  ELSE [op |-> rx.message_op, body |-> rx.message]

(* Plausible mistake: a control frame between two fragments ends them. *)
NextFrame_ControlEnds(rx) ==
  IF Completes(rx) THEN eaf_sendspin_ws_rx_init
  ELSE [eaf_sendspin_ws_rx_init EXCEPT !.fragmenting = TRUE, !.message_op = rx.message_op,
                                       !.message = rx.message]

(* After the callback: ready for the next header.  A message of which more *)
(* is to come is kept.                                                     *)
NextFrame(rx) ==
  LET more == IF rx.op \in Control THEN rx.fragmenting ELSE ~rx.fin
  IN IF more
     THEN [eaf_sendspin_ws_rx_init EXCEPT !.fragmenting = TRUE, !.message_op = rx.message_op,
                                          !.message = rx.message]
     ELSE eaf_sendspin_ws_rx_init
=============================================================================
