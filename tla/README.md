# A TLA+ verification of the Embedded Audio Framework

The framework plays PCM on Linux, Zephyr and ESP-IDF boards. A *producer* (a file decoder, an
LMS or Sendspin client, a Bluetooth receiver) writes frames into a lock-free *reservoir*; a
*pipeline* pulls one block at a time, passes it through nodes and commits it to a *sink*. The
code runs on several threads, uses no locks on the audio path, and treats every driver call as
one that may fail. Those three facts are what this project models.

## Inventory

| Component | State | Operations | What makes it correct |
| --- | --- | --- | --- |
| Reservoir (`core/eaf_reservoir.c`) | ring, two wrapping cursors, `finished`, consumer state | init, reset, write, finish, pull | frames are delivered once, in order, whole; EOS is last |
| File player (`apps/player/eaf_player.c`) | `gate`, `quit`, `failed`, thread handle, semaphore, command queue | init, start, step, seek, stop, command, deinit, producer thread | contiguous playback across seeks; no orphan thread; no lost wake-up |
| Pipeline (`core/eaf_graph.c`) | lifecycle state, nodes and sink initialised, `completed` | init, configure, start, process, stop, deinit | partial failures are undone or retained for a retry |
| I2S core and backends (`hal/common/sink_i2s_core.c`, `hal/esp_idf`, `hal/zephyr`) | `configured`, `running`, `started`, `paused`, `held` | the sink interface, drain, pause | a DMA block has one owner; the driver is called in order |
| Board output (`platform/esp32_output/board_output.c`) | `active`, worker handle, six atomics | start (held or not), release, write, finish, pause, replace, stop, worker | the graph has one user; a granted pause holds; tracks do not mix |
| Gain mailbox (same file) | sequence number, two gains | set_volume, apply_volume | no mixed pair, no outdated pair |
| Command queue (`core/eaf_control.c`) | small ring | push, pop | bounded, in order |
| LMS client (`apps/lms`) | stream, its gates (`wait_cont`, `wait_start`), prefill, ingress ring, chunk, transmit buffer | connect, step (send, commands, pump), report, close | no byte lost between socket and output; callbacks within their contract; status messages true and sent once |
| Decode worker (`core/eaf_decoder.c`) | pending and sent frames | open, push, step, reset, close | undelivered frames are kept or counted as dropped |
| Sendspin client (`apps/sendspin/sendspin_client.c`, `sendspin_ws.c`, `sendspin_protocol.c`) | connection, transmit buffer, receive buffer of a frame and of a message, stream | connect, step (flush, upgrade, frames), messages, close | messages survive any cut and mean what the server meant; frames are sent whole |
| Sendspin player (`sendspin_player.c`, `platform/esp32_sendspin`) | active, compressed, counters | begin, write, finish and the board's callbacks | audio is played in the format of its own stream; no loss of frames goes without the counters telling of one |
| Bluetooth sound (`apps/bt`, `hal/*/bt_a2dp_*`, `main.c` of `platform/esp_idf_bt`) | packet ring, decoder position, PCM not yet accepted | receive, pop, step, reset, output | breaks in the sound reach the codec; PCM is in order; packets do not wait for ever |
| Bluetooth control (`speaker*.c`) | event queue, text slots, link as noticed, forgetting, settings | callbacks, commands, events, tick | slots and events have one owner; a peer that was erased from flash does not come back by itself; the speaker stays reachable |
| ALSA and null sinks, DSP nodes, codecs, board support | see `PROJECT.json` | | |

Components interact through calls (player -> pipeline -> sink -> driver), through shared memory
(reservoir, atomics, mailbox, command queue) and through callbacks (a pull wakes the producer;
the board's pause hook; the clients' output callbacks; the Bluetooth stack's events). The hard
behaviours are the interleavings of the two or three threads around start, seek, pause and
stop; the failure of one call in the middle of a sequence; the semaphore that merges hints; and
byte streams and radio packets that are cut, lost or left over from an earlier connection.

## Modules

* **PcmFifo** - abstract specification of the reservoir: a bounded queue whose operations are
  atomic. `Write` may take any part of the offer that fits,
  `PullFinished`/`PullFull`/`PullShort`/`PullSilence` are the four exits of
  `eaf_reservoir_pull`.
* **Reservoir** - the ring itself. `eaf_reservoir_write` is `WriteBegin` (cursors loaded, offer
  clamped), one `WriteCopy` per frame of the two `memcpy`s and `WritePublish`.
  `eaf_reservoir_pull` is `PullFinishedFlag`, `PullCursors` (which also decides flags and next
  state, private to the consumer), one `PullCopy` per frame and `PullPublish`. Cursors count
  modulo `CursorTurns * Capacity`, which stands for 2^32 = (2^32 / capacity) * capacity. The
  atomics are release/acquire and each has one writer, so interleaving their accesses is
  adequate.
* **Player** - producer thread, owner thread and control thread. Program places are strings
  (`thr` in `produce()`, `opc` in the owner's call). `SemTake` and `SemClear` are the two
  halves of `hal_sem_take`, `Give` is `hal_sem_give`. The reservoir is `PcmFifo`, instantiated.
  **PlayerProofs** - its four invariants, proved.
* **Outcomes** - a C call as the set of its outcomes, the early return on failure, and a loop
  (`Loop`) as a recursive function of the passes made.
* **I2sSink** - the I2S core over both backends as operators: a call maps a state of core,
  driver and pipeline to the set of its outcomes, in which every driver call may fail while
  `MaxFaults` lasts. `Then` sequences calls and returns early on failure, as the C code does.
* **Pipeline** - composes `I2sSink` into the pipeline's calls, one action per call, with the
  driver playing in between. **PipelineProofs** - its four invariants, proved: a lemma for every
  call of core, backend and pipeline, composed as the calls are.
* **BoardOutput** - audio worker and transport thread over `PcmFifo`.
* **GainMailbox** - the volume mailbox, one atomic access per step (`MailboxSpec`).
  **BoardOutputProofs** - the four invariants of the output and those of its mailbox, proved.
* **LmsClient** - the LMS client's step: `StepSend`, one `StepCommand` per packet received,
  `StepPump`; `Report` is the owner's report loop (`main.c`, `play_lms.c`). The functions of
  `lms_client.c` are operators on outcomes, as in `I2sSink`; a failure ends in `Close`. A body
  byte is named by its stream and position, a frame is `FrameBytes` of them, and a read may
  bring any number, none, the end or an error. `buffered` chooses at the start between
  `start_buffered`/`release` and plain `start`. The output is reduced to what the callbacks
  show of `BoardOutput`: held, paused, level, end, started. **LmsClientProofs** - its three
  invariants, proved: a lemma for every function, composed as the calls are.
* **SendspinJson** - the JSON scanner of `sendspin_protocol.c` over a text of tokens: skipping
  values, `scan_fields`, `descend` and `eaf_sendspin_json_get`, as recursive functions of the
  position. **SendspinMessages** - the parsers on top of it, and the builder of client/hello.
* **SendspinWs** - the frame receiver of `sendspin_ws.c`. A unit of the wire is the two fixed
  bytes of a header, an extended length, or a piece of payload.
* **DecodeWorker** - `eaf_decode_worker_t` over the FLAC adapter; **SendspinPlayer** - the
  player's PCM and compressed paths over it, with the output as a sink that takes any part of a
  block. Calls are operators on outcomes, as in `I2sSink`.
* **SendspinServer** - the server, external: the documents it writes (with and without blanks,
  with members nobody asked for), what they mean, and the frames that carry them.
* **Sendspin** - composes the five: `Connect`, `ClientStep` (one `eaf_sendspin_client_step`,
  with every cut of what is sent and received), `Leave` and the actions of the server. The
  owner is `platform/esp32_sendspin/src/main.c`. **SendspinProofs** - its invariants other than
  `HeardAsMeant`, proved: a lemma for every function of receiver, client, player and worker.
* **BtIngress** - the packet ring of `bt_ingress.c`. `eaf_bt_sbc_receive` is `ReceiveInvalid`,
  `ReceiveFull` or `ReceiveHeader`, `ReceiveData`, `ReceivePublish`; `eaf_bt_ingress_pop` is
  `PopHeader`, `PopData`, `PopPublish`. A packet is named by its position in the sound; `Skip` is
  media that a binding keeps from the queue, and `silent` remembers its position.
* **BtMedia** - adds the A2DP bindings of ESP-IDF and Zephyr, the decoder (`bt_decoder.c`), the
  decode worker and the output task (`main.c`), over `PcmFifo`. `AudioDropped` is what
  `audio_data_cb` leaves out. ESP-IDF tells of a link with connection events (`LinkConnecting`,
  `LinkConnected`); Zephyr's `configure` (`Configure`) only gives the stream away and neither
  marks nor notifies.
* **BtSpeaker** - adds the control task and the stack's other callbacks (`speaker.c`,
  `speaker_gap.c`, `speaker_avrcp.c`, `speaker_nvs.c`). NVS is what was set through the handle
  (`nvs`) and what is in flash (`saved`). Opening, setting, erasing and committing may each fail,
  which the code logs at most; what is set and not committed reaches the flash or not.
* **RingArithmetic** - lemmas on `%` (slots of distinct positions, wrapping distance).
* **ReservoirProofs** (the ring's invariants and its refinement of `PcmFifo`) and
  **BtSpeakerProofs** (the packet ring and all invariants of the speaker) - theorems.
* **MC\*** - model-checking modules; each `.cfg` gives the constants.

Operators named `X_Y` with a comment "Plausible mistake" are wrong variants of `X`. No
specification uses them; they show, by replacing `X`, that a property can fail.

## Runs

| Run | Bounds | Shows |
| --- | --- | --- |
| `reservoir` | capacity 4, watermark 2, cursors wrap after 8, blocks up to 3, 12 frames, 2 underruns | the stream is longer than the cursor range, so writes and pulls straddle both wraps; whole blocks in order, honest EOS, and refinement of `PcmFifo` |
| `player` | 4 frames, decode and block 2, capacity 3, backpressure 3/1, 2 starts, 2 commands or seeks, all failures | contiguity, completion, quiescent reset, no orphan |
| `player_live` | 7 frames, capacity 4, no failures | playback ends, stop returns |
| `pipeline` | 2 nodes, 3 blocks, 3 faults, both backends | ownership, quiescence, order of release, order of driver calls, recovery |
| `pipeline_zephyr_device` | same | expected violation, see Findings |
| `board_output` | capacity 2, 2 tracks of 3 frames, 3 pause requests, all failures; the mailbox with 4 volume changes | exclusive graph, kept pauses, intact tracks, nothing forgotten, progress; no mixed and no outdated pair of gains, delivery |
| `lms_client` | 2 streams of 4 bytes in frames of 2, ring 4, reads of 3, chunk and output of 2 frames, 2 messages to send, thresholds below and above the capacity, all failures | conservation of bytes, the callbacks' contract, honest status messages, an end for every stream |
| `lms_cont`, `lms_resume` | same | expected violations, see Findings |
| `sendspin` | 2 connections, 3 messages, each cut in every way, messages of 2 units, wire of 4, inbox of 5, input ring and FLAC header of 3, buffers of 2 frames, blocks of 1, 3 decode steps, FLAC and PCM advertised with an entry without a codec between them | messages heard as meant, frames sent whole, the receiver's buffers never overrun, of the known codecs only advertised ones, audio in its format, no uncounted loss before a counted one |
| `bluetooth` | queue of 2, cursors wrap after 4, sequence numbers modulo 3, 2 frames a packet, 3 PCM frames a frame, reservoir 4, blocks of 2, in four mixes of packets, faults and changes of the stream; 1 event slot, 2 text slots, 2 peers, 2 changes of the link, 2 events, commands or failures with settings that can be opened, 3 without (`MCBluetooth.tla`) | breaks the queue hears of reach the codec, PCM in order, packets are decoded; slots owned, an erased peer stays erased until it is remembered anew, reachable again |
| `bluetooth_unmarked` | the mixes of the sound | expected violation, see Findings |

The bounds are the least at which the interesting cases occur: three faults let a call, its
cleanup and the retry fail; two tracks or streams let one leak into the next; a threshold above
the capacity makes the held output wait for its clamp; three pause requests let a timed-out
request be followed by its opposite and by a third; a capacity that is not a multiple of the
decode size makes writes partial; two starts and two seeks let every stop be followed by a
restart. A Sendspin message is two units, so that it can be fragmented with a control frame
inside, and a third does not fit; a chunk that becomes more blocks than the output takes leaves
some of them refused; the second connection can begin inside a frame of the first. The
Bluetooth numbers let cursors and sequence numbers wrap while the queue is full, a decoded
frame meet a reservoir with room for a part of it, an event meet a full queue, and two bonds be
removed one after the other with a failure in between. The sound and the control task share
only the state of the link, so that a mix explores one with the other at rest; likewise the board
output and its mailbox, which share nothing (`part` in `MCBoardOutput`).

`CHECK_DEADLOCK FALSE` appears once: a board output that nobody calls has nothing to do when
the bounds are used up.

### Fairness

* `player_live`: weak fairness of the producer, of the owner inside a call and of the owner's
  step loop (`play_file.c`). The semaphore's 20 ms timeout may fire but is *not* assumed to:
  the properties hold without it, so a wake-up is never lost and the timeout is a mere safety
  net.
* `board_output`: weak fairness of the worker and of the transport inside a call. That a pause
  times out or that a join fails is not assumed. In the mailbox, a begun `set_volume` ends and
  the worker keeps processing blocks.
* `pipeline`: an owner in RECOVERY retries `deinit`; faults are finite in number.
* `lms_client`: a step returns and the owner of an open session steps again (both owners loop
  with a short sleep); the output plays when it is full or has the end. Neither the server nor
  the network is assumed to do anything.
* `bluetooth`: weak fairness of the worker, the output (paced by its
  blocks), the control task (which wakes every 100 ms) and the clock; and the stack finishes what
  it began: a callback, a connection that is coming up, a disconnection it accepted, the removal
  of a bond. That a removal succeeds at the first try, that a disconnection is accepted, or that
  packets and peers keep coming, is not assumed.
* `sendspin` checks safety only.

### Assumptions about callers and drivers

* The reservoir has one producer and one consumer and is reset only when both are quiescent
  (`eaf_reservoir.h`); that the player respects this is the property `ResetQuiescent`.
* After an error the player's owner stops, seeks or closes but does not step again, as
  `play_file.c` and the contract of `commit_buf` in `eaf_hal.h` demand. (A block that failed in
  the sink is not played; stepping on would leave a gap.)
* `eaf_board_output_release` is called once per held stream: `OutputContract` of `LmsClient`.
  Calling it while a pause is acknowledged clears `pause_ack` under a paused worker, and a
  following pause is then answered only by its timeout.
* `eaf_board_output_stop` quiesces the output (`NothingForgotten` covers its failures, after
  which the LMS owner ends).
* Drivers: ESP-IDF copies a block, Zephyr takes it; a call that fails changes nothing in the
  driver; drain and drop give all blocks back. Transmit underruns inside the Zephyr driver are
  not modelled.
* The gain sequence number is not wrapped: a read spans fewer than 2^31 updates.
* Sendspin: the server writes JSON without blanks inside nested objects (see Observations); the
  formats are FLAC, an entry without a codec and PCM, with a decoder, as in the repository's
  tests, while the board's own `main.c` configures PCM only. The time filter may synchronize at
  any exchange.
* Bluetooth: all callbacks of the stack run on one task; a peer can connect only while the
  speaker is connectable; fewer packets in a row are lost than a sequence number can count.
  Output blocks are at most half the reservoir (`MediaAssumption`), which `Kconfig` does not
  enforce: with larger ones the output waits for a level that the producer, stopped by
  backpressure, need not reach. The repository has no Zephyr application, so the Zephyr binding
  runs below the ESP-IDF worker.

## Proofs

Proved by TLAPS for all values of the constants that the named assumptions allow:

* `ReservoirTypeCorrect`, `ReservoirNoOverwrite`, `ReservoirInOrder` and
  `ReservoirEosIsComplete` follow from `ReservoirInvariant` (`IInv` in `Reservoir`). None of
  them is inductive alone. `CursorsOK` ties each cursor to a position of the stream;
  `ProducerOK` says that the space a write was clamped to is still free although the read
  cursor it used is old (the consumer only ever adds space); `StorageOK` says that every queued
  frame, and every frame copied but not published, is in its slot; `ConsumerOK` that a pull
  under way takes frames which are there; `EosOK` that EOS was decided on a queue this pull
  empties. The steps that touch storage need that distinct positions less than a capacity apart
  have distinct slots, and the ones that compute a level that the wrapped difference of the
  cursors is the true one: both are lemmas of `RingArithmetic`. The assumption is
  `ReservoirAssumption`: what `eaf_reservoir_init` accepts.
* `ReservoirImplementsFifo`: the ring refines `PcmFifo` under the mapping of `Reservoir`. A write
  is the abstract write at its publication, a pull the abstract pull at the moment it loads the
  cursors: from then on the frames it will copy belong to the block, not to the queue. `AbsIs`
  (from `IInv`) says which stretch of the stream the mapped queue and block are, so that a step
  of the ring becomes arithmetic on two bounds; `PullOK` adds that a drained ring is one whose
  end every later pull has seen.
* `PlayerContiguous`, `PlayerCompletes`, `PlayerResetQuiescent` and `PlayerNoOrphan` follow from
  `PlayerInvariant` (`PlayerInv` in `Player`), from `PlayerAssumption`. Contiguity relates four
  places a frame can be in, so the invariant follows it through them: `ChainOK` says that what was
  played, the block in hand, the queue and the decode buffer are one run of the source up to its
  position; `BufferOK` that the decode buffer is empty except during a write and that the end of
  the source is published after its last frame; `CommitOK` that a block with EOS leaves nothing
  behind it. They hold while the stream is `Live`: after a failure or during a stop and restart
  the frames in hand mean nothing, and `BeginOK` says from what a stream begins anew. `ThreadOK`
  ties the producer's place to handle, gate and quit flag for every place of the owner;
  `NoOrphan` and `ResetQuiescent` are read off it.
* `PipelineBlocks`, `PipelineQuiet`, `PipelineReleases` and `PipelineDriver` follow from
  `PipelineInvariant` (`PipelineInv` in `Pipeline`), from `SinkAssumption` and
  `PipelineAssumption` (there is a block; the graph may be without nodes). `SinkOK` is what every
  call of the core keeps, also where it fails halfway: `started` stands for the clock and
  `configured` for the channel, and only a core that runs has blocks. `PipeOK` adds the pipeline:
  `sink_ready` stands for nodes and sink that are there, a core runs only in RUNNING and
  RECOVERY, a completed stream is quiet. The proof composes like the code: a lemma says what
  every outcome of a call does to the world, and the lemma of a caller cites it at each of its
  early returns.
* `LmsBytesConserved`, `LmsOutputContract` and `LmsStatusHonest` follow from `LmsInvariant`
  (`LmsInv` in `LmsClient`), from `LmsAssumption`. A call may fail anywhere and its caller then
  closes, so the invariant has two layers. `Sane` is what every outcome keeps, also one that
  stops halfway: no callback was misused, no event told twice, and the output runs exactly for a
  stream; it is all that `Close` needs to restore the rest. `Good` is what a successful call
  leaves. `OutputOK` says that the output is held exactly while it is buffered and not yet
  released, holds the frames that were counted, and is finished exactly at the end of the input:
  without it a release, a write or an end may be a misuse. `TellsOK` gives every event the flag
  that says it was sent, so that it is sent once, and what is true from then on; `BodyOK` says
  that a body which is done is complete and that at the end nothing is left of it; `BytesOK` is
  the conservation itself. Each function has a lemma on all its outcomes; `BufferLimitInRange`
  (the threshold is between one frame and the capacity) is what makes the reserve reachable.
* `SendspinWireIntact`, `SendspinReceiveFits`, `SendspinAudioInFormat`, `SendspinFramesAccounted`
  and `SendspinStreamWasAdvertised` follow from `SendspinInvariant` (`SendspinInv` in
  `Sendspin`), from `SendspinAssumption` (sizes are positive, the transmit buffer takes the
  longest frame, and the scalar format is PCM; the list of formats is any, entries without a
  codec included). Again there are two layers: `Kept` holds after every outcome, `Listed` (the
  codec of an active stream is a supported one) only after a success, because a refused
  stream/start leaves its format behind and the connection is then closed. `WireOK` says that
  what is due to the server is the part of the transmit buffer behind its offset, through partial
  sends, compaction and reconnection. `RxOK` is what makes the buffers safe: `begin_frame` checks
  a length once and the payload is copied over many calls, so the invariant says that the rest of
  the frame under way still fits - fragments before it and control frames in between included -
  and that it survives a reconnection, which does not reset the receiver. `AudioOK` ties player,
  worker and output to the stream across failed starts. `FramesOK` counts: all frames of a
  compressed stream, and of a PCM stream all up to the first refused block (see
  Observations). The
  loops of the code (feeding a chunk, queueing the blocks of a chunk, pushing and draining a
  decoder) are proved by induction over the passes: the set of the pass counts with which a loop
  keeps the invariant holds 0 and with n also n + 1 (`NatSet`). For the last theorem a text is
  shown to occur in each text it is written into (`Within`, through `FlattenSeq`, `Joined`, `Arr`
  and `Obj`), so that the codec of every supported format is a member "codec" of the hello.
* `MailboxCoherent` and `MailboxNeverStale` follow from `MailboxInvariant`: the sequence number
  is twice the number of updates, odd during one, and whatever was loaded under an even number
  that has not changed since is the pair of the last update.
* `IngressInvariant` (`IngressInv` in `BtIngress`) and with it `IngressFollows`, from
  `IngressAssumption` (sizes are positive, the cursors count more than one turn). `PacketsFollow`
  speaks of the packet in the consumer's hand and the one before it; it is inductive only with
  `CursorsOK` (each cursor stands for a count, and the counts are never further apart than the
  ring is long), `QueueOK` (the queued packets form a chain, each following the one before or
  marked), `ProducerOK` (either the discontinuity is remembered, or the next sequence number is
  off from the expected one by exactly what was lost, and where nothing was lost only silent
  positions lie behind the packet queued last) and `ConsumerOK`. That one packet follows another
  is `Unbroken`: what the queue was never told of may lie between them and nothing else, which is
  all the ring can promise. Behind the Zephyr binding, which leaves nothing out, that is nothing
  at all. The same lemmas of `RingArithmetic` as for the reservoir turn cursors into counts and
  slots.
* `SpeakerImplementsIngress`: the whole speaker implements the packet ring, step by step: every
  action of a callback, of the worker, of the output or of the control task is one of the ring
  or leaves it alone. `SpeakerFollows` carries the ring's property over.
* `SpeakerHistory`: `HistoryContinuous` rests on `IngressInv` and on `HistoryInv` (in
  `BtMedia`), which says where the frame decoded last stands: just before the frame in hand or,
  between packets, at the end of the packet popped last.
* `SpeakerForgets`: `ForgetIsSaved` speaks of the flash after a forget whose erase and commit
  succeeded (`erased`). `ForgetInv` adds what may reach the flash later: the peer set through the
  handle and, while `have_peer`, the one in `last_peer` are peers the control task has noticed
  since the forget. Failures of later calls only leave out writes. A forget whose own erase or
  commit fails promises nothing, because the code goes on all the same.
* `SpeakerSlots`: `SlotsOwned` counts the owners of a text slot; `SlotsInv` (in `BtSpeaker`)
  names them - the callback and the events hold different slots, all in use, and every slot in use
  is held - and is what the steps keep when events are queued, refused and removed. The count
  follows with the theorems on finite cardinality.
* `SpeakerPcm`: `PcmInOrder` speaks of three stretches of PCM at once. `PcmInv` (in `BtMedia`)
  states it for neighbours - in the reservoir, between it and the frame being sent, between that
  and the next to be decoded - and needs that nothing is pending where the worker asks for the next
  frame.
* `OutputGraphExclusive`, `OutputPauseIsKept` and `OutputNothingForgotten` follow from
  `OutputInvariant` (`OutputInv` in `BoardOutput`), with no assumption on the constants. The
  three properties speak of the transport's place and the worker's at the same time, so each
  needs what both know: `TransportOK` gives, for every place of a call under way, whether the
  handle is active, a worker exists and the gate is open, and that a granted pause is still
  requested; `WorkerOK` says that before the gate opens only quit moves the worker, that it
  reaches the graph only while the pipeline runs, and that an acknowledged pause holds it
  back.
* `OutputTrackIntact`: what was heard and what is queued are what was accepted of the current
  track; inductive with `StreamInv`, which adds that a stream under construction has no history
  yet. It needs `OutputAssumption`.

`ReservoirTypeCorrect`, `ReservoirNoOverwrite` and `MailboxCoherent` are proved for all
instances, so no run checks them; a slot that is overwritten too early also shows as a block
out of order, which the run checks.

Model-checked only: liveness (temporal reasoning with fairness is out of the prover's reach);
and `HeardAsMeant`, which says what the scanner's recursive functions compute for every document
the server may write. That is an induction over documents and evaluation, not a step-by-step
argument. The proofs about `Sendspin` do not rest on it: they hold whatever callback a parser
makes of a message.

## Findings

`pipeline_zephyr_device`: `core_stop` calls the backend's `drop` whether or not the device was
ever bound. If the first `configure` of a pipeline with the Zephyr sink is refused (format,
missing name, no such device), `release` deinitialises the sink "also after partial init" and
`zephyr_drop` triggers on a null device. `eaf_hal.h` promises that deinit handles partial
initialisation; the ESP-IDF backend checks for its channel in the same place.

`lms_cont`: `stop_stream` and `strm s` leave `ingress_used` as it is. Bytes of a stream that
was stopped or replaced are decoded with the next stream's format and reach its output before
its headers and before `cont`, although `eaf_lms_client.h` says that PCM may arrive "never
before cont". `BytesConserved` therefore speaks of the ring's residue as well.

`lms_resume`: without `start_buffered`, a `strm p` before the initial start pauses the output,
and the `strm u` that starts the stream reports STMr without ending the pause.

`bluetooth_unmarked`: `audio_data_cb` of the ESP-IDF binding leaves out media of no or too many
frames, or too long, without marking a discontinuity and without using up a sequence number; the
next packet looks as if it followed the one before. `docs/embedded.md` says that after malformed
payloads "the next accepted packet carries discontinuity". Media lost on the air looks the same,
because the binding numbers the packets itself. `PacketsFollow` and `HistoryContinuous` therefore
allow such media, and only such, to be missing.

## Observations

Things met while modelling that no run is devoted to. The first four contradict the documentation;
each is in the model, and the property named with it is stated so that it holds all the same.

* When the output takes only part of a block, the PCM loop of `eaf_sendspin_player_write`
  (`sendspin_player.c:302`) ends without counting the frames of the chunk behind that block.
  `decode_sink` counts them, with a comment that calls this the "same policy as PCM", and
  `eaf_sendspin_player.h:66` says that "the sink's unaccepted remainder is counted as dropped".
  `FramesAccounted` states what is left: the counters are exact for compressed streams, never
  too high, and never short before they have told of a refused block.
* The builder of client/hello leaves out entries of the list without a codec (as the list of
  `test_sendspin_protocol.c:126` has one), `client_supports_codec` (`sendspin_client.c:136`) does
  not, and the parser gives every codec it does not know that very value. A list with such an
  entry admits streams of unknown codecs, although the comment above the function says "only if
  this client advertised it". `StreamWasAdvertised` holds for the known codecs and any list.
* A FORGET handled before the control task noticed the peer's link is followed by a tick that
  remembers the peer and schedules its saving (`speaker.c:276`); when the bonds are gone it is
  written. `docs/bluetooth.md:133` says that forget removes "the remembered peer".
  `ForgetIsSaved` holds while the speaker forgets, and afterwards for peers the control task has
  not remembered since.
* `speaker_nvs_forget_peer` logs a failed erase or commit and the forget goes on, so that the
  bonds are removed and the peer is still in flash; likewise `save_settings` counts settings as
  saved that were not. A forget without opened settings erases nothing. `ForgetIsSaved` is about
  a forget that could erase.

Sendspin:
* `eaf_sendspin_client_connect` resets neither the frame receiver nor the time filter. After a
  connection that ended inside a frame, or with a message that was refused, the bytes of the
  next one are read as the rest of that frame; an oversized or rejected frame is met again at
  every reconnect. `HeardAsMeant` is therefore stated for connections that begin with an idle
  receiver (`clean`); the run explores the others as well.
* `skip_object` accepts no blank after a comma, which `scan_fields` and `descend` do.
* A frame with no payload and a two-byte header is delivered only when the next byte arrives.
* After a close frame the rest of the chunk is still dispatched.
* `drop_late` is never set, so late chunks are not dropped.
* A list of formats without a known codec is advertised as PCM, but `client_supports_codec`
  then refuses PCM.
* channels and bit_depth are cut to eight bits before they are checked.
* `have_stream` is cleared by a stream's end or start and not by a disconnection, so that a
  stream/clear on the next connection restarts the last stream.

Bluetooth:
* A failure of `speaker_scan_mode` is logged and not retried; `Reachable` assumes the stack
  accepts the call.
* The worker gives up when the level is what it was before the step, although the output may
  have pulled meanwhile; `PacketsAreDecoded` holds because the output wakes it on every pull
  below half, not only on the first.

## Not modelled

Sample values and DSP arithmetic; the floating-point time filter and rate controller; JSON
below the level of tokens and the contents of client/time and client/state; codec libraries and
the adapters other than FLAC's; volume, mute and AVRCP replies of the Bluetooth speaker;
restarts; clocks other than as nondeterministic timeouts; diagnostics counters; the ALSA and
null sinks; board support. `PROJECT.json` gives the reason for each.

## Plan

What is left, in order of value:

1. `ControlQueue` as a ring that implements the bounded queue of `Player`; the ALSA and null
   sinks as further backends of the sink contract.
2. The volume of the Bluetooth speaker, which a local command and a remote one may set at the
   same time.
