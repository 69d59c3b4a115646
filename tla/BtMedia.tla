------------------------------ MODULE BtMedia ------------------------------
(***************************************************************************)
(* The sound's way through the Bluetooth speaker: the callbacks of the     *)
(* A2DP binding (hal/esp_idf/bt_a2dp_esp_idf.c and its twin                *)
(* hal/zephyr/bt_a2dp_zephyr.c) fill the packet queue, the decode worker   *)
(* (apps/bt/bt_decoder.c, driven by platform/esp_idf_bt main.c) empties it *)
(* into the PCM reservoir, and the output task plays the reservoir.  Four  *)
(* tasks take part; the fourth, the control task, is in BtSpeaker.tla.     *)
(*                                                                         *)
(* The actions here say nothing of the control task's variables:           *)
(* BtSpeaker.tla adds that they stay.                                      *)
(***************************************************************************)
EXTENDS BtIngress, Sequences, FiniteSets

CONSTANTS
  PacketFrames,     \* SBC frames in a packet
  PcmFrames,        \* PCM frames an SBC frame decodes to
  ReservoirFrames,  \* capacity of the reservoir
  BlockFrames,      \* PCM frames the output pulls at a time
  Budgets           \* bounds: each says which binding runs and how much happens

(* start_audio sets the watermark to half the capacity, which is where a   *)
(* pull begins to wake the decoder.  A block must fit into that half       *)
(* (Kconfig: 128 of 4,096 frames): of a larger one the output would wait   *)
(* for frames that nothing asks the decoder for.                           *)
ASSUME MediaAssumption ==
  /\ PacketFrames \in 1..15
  /\ PcmFrames \in 1..128
  /\ ReservoirFrames \in Nat /\ BlockFrames \in 1..(ReservoirFrames \div 2)
  /\ \A b \in Budgets : /\ b.binding \in {"esp_idf", "zephyr"}
                        /\ b.packets + b.faults + 2 * b.events < MaxPosition

BackpressureLow == ReservoirFrames \div 2
BackpressureHigh == ReservoirFrames - ReservoirFrames \div 10

VARIABLES
  budget,                         \* what may still happen
  connected, connecting, streaming, \* the binding's status
  woken,                          \* the decode task's notification
  dpc,                            \* decode task: where it is in decode_entry
  was_connected,                  \* decode task: the status it saw last
  before,                         \* decode task: the level before the step
  frames_left, pending, sent,     \* the decoder
  history,                        \* the codec: the frames it decoded last since its reset
  decoded,                        \* history: PCM frames decoded so far
  discarded,                      \* history: PCM frames a reset threw away
  heard,                          \* history: the PCM frame played last
  queue, finished, state, out, flags, wake  \* the reservoir

linkVars == <<connected, connecting, streaming>>
workerVars == <<dpc, was_connected, before>>
decoderVars == <<frames_left, pending, sent, history, decoded, discarded>>
reservoirVars == <<queue, finished, state, out, flags, wake>>
mediaVars == <<ingressVars, budget, linkVars, woken, workerVars, decoderVars, heard,
               reservoirVars>>

(* The reservoir is never finished in this application. *)
Fifo == INSTANCE PcmFifo WITH
  Frame <- Nat, Capacity <- ReservoirFrames, HighWatermark <- ReservoirFrames \div 2

(* start_audio and eaf_bt_esp_idf_register; the ESP-IDF binding numbers    *)
(* the packets itself, from 1.                                             *)
MediaInit ==
  /\ IngressInit
  /\ budget \in Budgets
  /\ sequence = 1
  /\ connected = FALSE /\ connecting = FALSE /\ streaming = FALSE
  /\ woken = FALSE /\ dpc = "wait" /\ was_connected = FALSE /\ before = 0
  /\ frames_left = 0 /\ pending = 0 /\ sent = 0
  /\ history = <<>> /\ decoded = 0 /\ discarded = {} /\ heard = 0
  /\ Fifo!Init

Spend(what) ==
  /\ budget[what] > 0
  /\ budget' = [budget EXCEPT ![what] = @ - 1]
----------------------------------------------------------------------------
(* The binding, on the stack's callback task. *)

(* audio_data_cb and receive: media counts only while streaming.  What     *)
(* eaf_bt_sbc_receive refuses behind ESP-IDF is media without data: the    *)
(* rest of the malformed media does not get there.                         *)
AudioPacket ==
  /\ streaming
  /\ Spend("packets")
  /\ ReceiveInvalid \/ ReceiveFull \/ ReceiveHeader
  /\ UNCHANGED <<linkVars, woken, workerVars, decoderVars, heard, reservoirVars>>

AudioCopied ==
  /\ ReceiveData \/ ReceivePublish
  /\ UNCHANGED <<budget, linkVars, woken, workerVars, decoderVars, heard, reservoirVars>>

(* audio_data_cb leaves out media of no or too many frames, or too long,   *)
(* without a word to the queue, and numbers on.  What was lost on the air  *)
(* looks the same to it.                                                   *)
AudioDropped ==
  /\ streaming /\ budget.binding = "esp_idf"
  /\ Spend("faults")
  /\ Skip
  /\ UNCHANGED <<linkVars, woken, workerVars, decoderVars, heard, reservoirVars>>

(* Only Zephyr hands on the source's sequence numbers. *)
AudioLost ==
  /\ streaming /\ budget.binding = "zephyr"
  /\ Spend("packets")
  /\ Lose
  /\ UNCHANGED <<linkVars, woken, workerVars, decoderVars, heard, reservoirVars>>

(* What every event of a2d_cb, and every stream operation of the Zephyr    *)
(* binding, does: the status, the mark and the notification.  (configured  *)
(* only names the notification, and on_event ignores the name.)  The       *)
(* ESP-IDF binding numbers on; behind Zephyr's a source may begin anew.    *)
StateChange(is_connected, is_connecting, is_streaming) ==
  /\ MarkDiscontinuity
  /\ sequence' \in (IF budget.binding = "esp_idf" THEN {sequence} ELSE {sequence, 0})
  /\ connected' = is_connected /\ connecting' = is_connecting /\ streaming' = is_streaming
  /\ woken' = TRUE
  /\ UNCHANGED <<workerVars, decoderVars, heard, reservoirVars>>

(* ESP_A2D_AUDIO_CFG_EVT, ESP_A2D_AUDIO_STATE_EVT; configured, started and *)
(* suspended.  A codec the check refuses is streamed all the same.         *)
AudioConfig == connected /\ Spend("events") /\ StateChange(TRUE, FALSE, FALSE)
AudioState(started) == connected /\ Spend("events") /\ StateChange(TRUE, FALSE, started)

(* ESP_A2D_CONNECTION_STATE_EVT. *)
LinkConnecting ==
  /\ budget.binding = "esp_idf" /\ ~connected /\ ~connecting
  /\ Spend("events") /\ StateChange(FALSE, TRUE, FALSE)
LinkConnected ==
  /\ budget.binding = "esp_idf" /\ ~connected
  /\ Spend("events") /\ StateChange(TRUE, FALSE, FALSE)

(* Zephyr's configure gives the one stream to the peer; that is all        *)
(* connected means there.  A second peer (EBUSY) or a codec that validate  *)
(* refuses changes nothing, and so does reconfigure.                       *)
Configure ==
  /\ budget.binding = "zephyr" /\ ~connected
  /\ Spend("events")
  /\ connected' = TRUE
  /\ UNCHANGED <<ingressVars, connecting, streaming, woken, workerVars, decoderVars, heard,
                 reservoirVars>>

(* The connection's end; released. *)
LinkDown ==
  (connected \/ connecting) /\ StateChange(FALSE, FALSE, FALSE) /\ UNCHANGED budget
----------------------------------------------------------------------------
(* The decode worker: decode_entry, eaf_bt_decoder_step and _reset. *)

DecodeTake ==
  /\ dpc = "wait" /\ woken
  /\ woken' = FALSE
  /\ dpc' = "status"
  /\ UNCHANGED <<ingressVars, budget, linkVars, was_connected, before, decoderVars, heard,
                 reservoirVars>>

(* The PCM frames decoded and not accepted yet are the last ones decoded. *)
Unsent == [i \in 1..(pending - sent) |-> decoded - pending + sent + i]

eaf_bt_decoder_reset ==
  /\ frames_left' = 0 /\ pending' = 0 /\ sent' = 0
  /\ history' = <<>>
  /\ discarded' = discarded \cup {Unsent[i] : i \in DOMAIN Unsent}
  /\ UNCHANGED decoded

DecodeStatus ==
  /\ dpc = "status"
  /\ IF was_connected /\ ~connected THEN eaf_bt_decoder_reset ELSE UNCHANGED decoderVars
  /\ was_connected' = connected
  /\ dpc' = IF streaming THEN "loop" ELSE "wait"
  /\ UNCHANGED <<ingressVars, budget, linkVars, woken, before, heard, reservoirVars>>

DecodeLevel ==
  /\ dpc = "loop"
  /\ before' = Len(queue)
  /\ dpc' = "flush"
  /\ UNCHANGED <<ingressVars, budget, linkVars, woken, was_connected, decoderVars, heard,
                 reservoirVars>>

(* What eaf_reservoir_write takes of an offer of n frames. *)
Taken(n) == IF n <= ReservoirFrames - Len(queue) THEN n ELSE ReservoirFrames - Len(queue)

(* Plausible mistake: what the reservoir refused is not kept. *)
StepFlush_Forget ==
  /\ dpc = "flush"
  /\ Fifo!Write(SubSeq(Unsent, 1, Taken(pending - sent)))
  /\ pending' = 0 /\ sent' = 0
  /\ dpc' = "next"
  /\ UNCHANGED <<ingressVars, budget, linkVars, woken, was_connected, before, frames_left,
                 history, decoded, discarded, heard>>

(* "Retains partial PCM writes across backpressure": nothing new is        *)
(* decoded before the last frame is through.                               *)
StepFlush ==
  /\ dpc = "flush"
  /\ LET n == Taken(pending - sent)
     IN /\ Fifo!Write(SubSeq(Unsent, 1, n))
        /\ IF sent + n < pending
           THEN /\ sent' = sent + n /\ dpc' = "check"
                /\ UNCHANGED pending
           ELSE pending' = 0 /\ sent' = 0 /\ dpc' = "next"
  /\ UNCHANGED <<ingressVars, budget, linkVars, woken, was_connected, before, frames_left,
                 history, decoded, discarded, heard>>

StepNoPacket ==
  /\ dpc = "next" /\ frames_left = 0
  /\ ppc = "idle" /\ read_cursor = write_cursor
  /\ dpc' = "check"
  /\ UNCHANGED <<ingressVars, budget, linkVars, woken, was_connected, before, decoderVars,
                 heard, reservoirVars>>

StepPop ==
  /\ dpc = "next" /\ frames_left = 0
  /\ PopHeader \/ PopData
  /\ UNCHANGED <<budget, linkVars, woken, workerVars, decoderVars, heard, reservoirVars>>

(* Plausible mistake: the codec keeps its history over a discontinuity. *)
StepPopped_KeepHistory ==
  /\ dpc = "next"
  /\ PopPublish
  /\ frames_left' = PacketFrames
  /\ UNCHANGED <<budget, linkVars, woken, workerVars, pending, sent, history, decoded,
                 discarded, heard, reservoirVars>>

(* The end of the pop, and the reset that a discontinuity asks for.  (The  *)
(* OI codec's reset clears its memory before anything that could fail.)    *)
StepPopped ==
  /\ dpc = "next"
  /\ PopPublish
  /\ frames_left' = PacketFrames
  /\ history' = IF packet.mark THEN <<>> ELSE history
  /\ UNCHANGED <<budget, linkVars, woken, workerVars, pending, sent, decoded, discarded,
                 heard, reservoirVars>>

(* The frame in hand: which packet's data it is, and its number in it. *)
InHand == <<packet.data, PacketFrames + 1 - frames_left>>

(* The codec decodes a frame: all of the PCM is offered to the reservoir.  *)
StepFrame ==
  /\ dpc = "next" /\ ppc = "idle" /\ frames_left > 0
  /\ history' = IF history = <<>> THEN <<InHand>> ELSE <<history[Len(history)], InHand>>
  /\ frames_left' = frames_left - 1
  /\ decoded' = decoded + PcmFrames
  /\ pending' = PcmFrames
  /\ LET n == Taken(PcmFrames)
     IN sent' = n /\ Fifo!Write([i \in 1..n |-> decoded + i])
  /\ dpc' = "check"
  /\ UNCHANGED <<ingressVars, budget, linkVars, woken, was_connected, before, discarded,
                 heard>>

(* reject: the codec fails, what it says of the frame is out of range or   *)
(* of the wrong format, or the packet does not end where its frames do.    *)
(* "Errors drop remaining packet and reset history".                       *)
StepReject ==
  /\ dpc = "next" /\ ppc = "idle" /\ frames_left > 0
  /\ Spend("faults")
  /\ history' = <<>> /\ frames_left' = 0 /\ pending' = 0 /\ sent' = 0
  /\ dpc' = "wait"
  /\ UNCHANGED <<ingressVars, linkVars, woken, was_connected, before, decoded,
                 discarded, heard, reservoirVars>>

(* "Stop when the reservoir is full or the ingress has no more work."  The *)
(* output may have pulled in between, so an unchanged level proves neither. *)
DecodeCheck ==
  /\ dpc = "check"
  /\ dpc' = IF Len(queue) >= BackpressureHigh \/ Len(queue) = before THEN "wait" ELSE "loop"
  /\ before' = 0
  /\ UNCHANGED <<ingressVars, budget, linkVars, woken, was_connected, decoderVars,
                 heard, reservoirVars>>

Decode ==
  \/ DecodeTake \/ DecodeStatus \/ DecodeLevel
  \/ StepFlush \/ StepNoPacket \/ StepPop \/ StepPopped \/ StepFrame \/ StepReject
  \/ DecodeCheck
----------------------------------------------------------------------------
(* output_entry: the output's blocks pace the loop. *)

(* Plausible mistake: the decoder is woken only when the level falls below *)
(* the low mark.                                                           *)
Output_WakeOnEdge ==
  /\ Fifo!Pull(BlockFrames)
  /\ heard' = IF out' = <<>> THEN heard ELSE out'[Len(out')]
  /\ woken' = (woken \/ (wake' /\ Len(queue) >= BackpressureLow))
  /\ UNCHANGED <<ingressVars, budget, linkVars, workerVars, decoderVars>>

Output ==
  /\ Fifo!Pull(BlockFrames)
  /\ heard' = IF out' = <<>> THEN heard ELSE out'[Len(out')]
  /\ woken' = (woken \/ wake')
  /\ UNCHANGED <<ingressVars, budget, linkVars, workerVars, decoderVars>>
----------------------------------------------------------------------------
(* The codec never carries its history over a break the queue knows of:    *)
(* two frames it decodes without a reset in between are neighbours, in one *)
(* packet, or the last frame and the first of two packets between which    *)
(* nothing was lost, dropped by a full queue, refused or reconfigured, and *)
(* that however callbacks and worker interleave.  Only media left out      *)
(* before it reaches the queue (AudioDropped) may be missing between them. *)
HistoryContinuous ==
  Len(history) = 2 =>
    \/ history[2] = <<history[1][1], history[1][2] + 1>>
    \/ /\ history[1][2] = PacketFrames /\ history[2][2] = 1
       /\ history[1][1] < history[2][1] /\ Unbroken(history[1][1], history[2][1])

(* The inductive invariant behind HistoryContinuous: the frame decoded     *)
(* last is the one before the frame in hand or, between packets, the last  *)
(* frame of the packet decoded last; a pop is in progress only then.       *)
Latest == history[Len(history)]

HistoryInv ==
  /\ frames_left \in 0..PacketFrames
  /\ history = <<>> \/ Len(history) \in {1, 2}
  /\ history \in Seq(Nat \X Nat)
  /\ ppc # "idle" => frames_left = 0 /\ dpc = "next"
  /\ frames_left # 0 => packet.data # 0
  /\ history # <<>> => Before # 0
  /\ history # <<>> /\ frames_left = 0 => Latest = <<Before, PacketFrames>>
  /\ history # <<>> /\ frames_left = PacketFrames =>
       /\ Latest[2] = PacketFrames
       /\ Latest[1] < packet.data /\ Unbroken(Latest[1], packet.data)
  /\ history # <<>> /\ frames_left \in 1..(PacketFrames - 1) =>
       Latest = <<packet.data, PacketFrames - frames_left>>
  /\ HistoryContinuous

(* Every decoded PCM frame goes to the output once and in order, also when *)
(* the reservoir takes only a part of a write and the worker comes back    *)
(* for the rest after a wait.  The only frames missing are those that the  *)
(* reset after a disconnection discards.                                   *)
PcmInOrder ==
  LET pcm == <<heard>> \o queue \o Unsent
      next(i) == IF i = Len(pcm) THEN decoded + 1 ELSE pcm[i + 1]
  IN \A i \in DOMAIN pcm :
       /\ pcm[i] < next(i)
       /\ (pcm[i] + 1)..(next(i) - 1) \subseteq discarded

(* The inductive invariant behind PcmInOrder: frames that lie next to each *)
(* other in the reservoir, the last of them and the frame the worker sends *)
(* next, and the frame played and the first of them, have only discarded   *)
(* frames between them.                                                    *)
NextOf(a, b) == a < b /\ (a + 1)..(b - 1) \subseteq discarded

Sending == decoded + 1 - (pending - sent)

PcmTypeOK ==
  /\ decoded \in Nat /\ pending \in 0..decoded /\ sent \in 0..pending
  /\ heard \in Nat /\ discarded \subseteq Nat
  /\ queue \in Seq(Nat) /\ Len(queue) <= ReservoirFrames
  /\ dpc = "next" => pending = 0

PcmInv ==
  /\ PcmTypeOK
  /\ \A i \in 1..(Len(queue) - 1) : NextOf(queue[i], queue[i + 1])
  /\ NextOf(heard, IF queue = <<>> THEN Sending ELSE queue[1])
  /\ queue # <<>> => NextOf(queue[Len(queue)], Sending)

(* The queue does not go stale: while the stream lasts, packets that wait  *)
(* are decoded, although no callback wakes the worker for a packet.  The   *)
(* output wakes it, as long as it finds the reservoir less than half full. *)
PacketsAreDecoded ==
  (streaming /\ read_cursor # write_cursor) ~> (~streaming \/ read_cursor = write_cursor)
=============================================================================
