------------------------------- MODULE Player -------------------------------
(***************************************************************************)
(* apps/player/eaf_player.c: a producer thread that decodes into the       *)
(* reservoir, an owner thread that starts, steps, seeks and stops the      *)
(* pipeline, and a control thread that queues commands.  The semaphore is  *)
(* hal/linux/hal_os_linux.c with its two-step take.  The reservoir is the  *)
(* FIFO that Reservoir.tla implements; the pipeline is reduced to its      *)
(* lifecycle (Pipeline.tla has the rest) and every call to a sink, a node  *)
(* or the source may fail.                                                 *)
(*                                                                         *)
(* A frame is its position 1..Total in the source.                         *)
(***************************************************************************)
EXTENDS Integers, Sequences

CONSTANTS
  Total,            \* frames in the source
  DecodeFrames,     \* frames per source read (EAF_PLAYER_DECODE_FRAMES)
  BlockFrames,      \* frames per pipeline block
  Capacity, HighWatermark, BackpressureLow, BackpressureHigh, \* the reservoir
  CommandCapacity,  \* EAF_CONTROL_CAPACITY
  SeekTargets,      \* frames that SEEK commands ask for
  Failures,         \* whether sink, node, thread and source calls may fail
  MaxCommands,      \* bound: commands submitted and seeks called
  MaxStarts         \* bound: times the owner calls start

(* What eaf_player_init accepts. *)
ASSUME PlayerAssumption ==
  /\ {Total, DecodeFrames, BlockFrames, CommandCapacity} \subseteq Nat \ {0}
  /\ {Capacity, HighWatermark, BackpressureLow, BackpressureHigh} \subseteq Nat \ {0}
  /\ BackpressureLow < BackpressureHigh /\ BackpressureHigh <= Capacity
  /\ HighWatermark <= BackpressureHigh /\ BlockFrames <= BackpressureHigh
  /\ SeekTargets \subseteq 0..Total
  /\ Failures \in BOOLEAN
  /\ MaxCommands \in Nat /\ MaxStarts \in Nat

VARIABLES
  queue, finished, state, out, flags, wake, \* the reservoir
  pipe,         \* pipeline->state
  completed,    \* pipeline->completed
  gate, quit, failed, source_error,         \* shared with the producer
  initialized,  \* player->initialized; the semaphore exists
  handle,       \* decoder.impl is set
  posted,       \* POSIX count of the wake semaphore
  pending,      \* its coalescing flag
  thr,          \* producer's place in produce()
  resume,       \* where it goes on after hal_sem_take
  ended,        \* producer: source ended or failed
  dbuf,         \* producer: decoded frames not yet accepted by the reservoir
  pos,          \* source position
  opc,          \* owner's place
  rc,           \* owner: result of the call so far
  target,       \* owner: frame of the seek under way, or -1
  restart,      \* owner: the seek restarts the player
  instep,       \* owner: inside eaf_player_step
  closing,      \* owner: the stop is part of eaf_player_deinit
  ret,          \* result of the owner's last call
  commands,     \* control queue
  submitted, starts, \* bounds
  base, played  \* history: source position at start, frames committed since

fifo == <<queue, finished, state, out, flags, wake>>
life == <<initialized, handle>>
sem == <<posted, pending>>
producer == <<thr, resume, ended, dbuf, pos>>
owner == <<opc, rc, target, restart, instep, closing, ret>>
shared == <<gate, quit, failed, source_error>>
history == <<base, played>>
bounds == <<submitted, starts>>
vars == <<fifo, pipe, completed, shared, life, sem, producer, owner, commands,
          bounds, history>>

Fifo == INSTANCE PcmFifo WITH Frame <- 1..Total

(* A command: the frame of a SEEK, STOP or GAIN (whose value no control     *)
(* flow depends on).                                                       *)
STOP == -1
GAIN == -2

Frames(first, n) == [i \in 1..n |-> first + i]
Least(a, b) == IF a < b THEN a ELSE b

Init ==
  /\ Fifo!Init
  /\ pipe = "CONFIGURED" /\ completed = FALSE
  /\ gate = FALSE /\ quit = FALSE /\ failed = FALSE /\ source_error = FALSE
  /\ initialized = TRUE /\ handle = FALSE /\ posted = 0 /\ pending = FALSE
  /\ thr = "none" /\ resume = "gate" /\ ended = FALSE /\ dbuf = <<>> /\ pos = 0
  /\ opc = "idle" /\ rc = "OK" /\ target = -1 /\ restart = FALSE /\ instep = FALSE
  /\ closing = FALSE /\ ret = "OK"
  /\ commands = <<>> /\ submitted = 0 /\ starts = 0
  /\ base = 0 /\ played = <<>>
----------------------------------------------------------------------------
(* hal_sem_give: post only if no hint is pending. *)
Give ==
  /\ pending' = TRUE
  /\ posted' = IF pending THEN posted ELSE posted + 1

(* hal_sem_take, first half: the wait ends with a token ... *)
SemTake ==
  /\ thr = "wait" /\ posted > 0
  /\ posted' = posted - 1
  /\ thr' = "clear"
  /\ UNCHANGED <<fifo, pipe, completed, shared, life, pending, resume, ended, dbuf,
                 pos, owner, commands, bounds, history>>

(* Plausible mistake: the flag is not cleared after the wait. *)
SemClear_Omitted ==
  /\ thr = "clear"
  /\ thr' = resume
  /\ UNCHANGED <<fifo, pipe, completed, shared, life, sem, resume, ended, dbuf, pos,
                 owner, commands, bounds, history>>

(* ... second half: and the pending flag is cleared. *)
SemClear ==
  /\ thr = "clear"
  /\ pending' = FALSE
  /\ thr' = resume
  /\ UNCHANGED <<fifo, pipe, completed, shared, life, posted, resume, ended, dbuf, pos,
                 owner, commands, bounds, history>>

(* ... or the 20 ms are over. *)
SemTimeout ==
  /\ thr = "wait"
  /\ thr' = resume
  /\ UNCHANGED <<fifo, pipe, completed, shared, life, sem, resume, ended, dbuf, pos,
                 owner, commands, bounds, history>>
----------------------------------------------------------------------------
(* The producer thread, produce(). *)

(* A step of the producer that changes nothing but its own place. *)
Goto(place) ==
  /\ thr' = place
  /\ UNCHANGED <<fifo, pipe, completed, shared, life, sem, resume, ended, dbuf, pos,
                 owner, commands, bounds, history>>

WaitThen(place) ==
  /\ thr' = "wait" /\ resume' = place
  /\ UNCHANGED <<fifo, pipe, completed, shared, life, sem, ended, dbuf, pos, owner,
                 commands, bounds, history>>

(* Plausible mistake: the producer does not wait for the gate. *)
ProduceGate_Open == thr = "gate" /\ Goto("loop")

ProduceGate ==
  /\ thr = "gate"
  /\ IF gate \/ quit THEN Goto("loop") ELSE WaitThen("gate")

ProduceLoop ==
  /\ thr = "loop"
  /\ IF quit THEN Goto("exit")
     ELSE IF ended THEN WaitThen("loop")
     ELSE Goto(IF Len(queue) >= BackpressureHigh THEN "backpressure" ELSE "recheck")

(* Plausible mistake: shutdown is not looked at while blocked. *)
ProduceBackpressure_NoQuit ==
  /\ thr = "backpressure"
  /\ IF Len(queue) >= BackpressureLow THEN WaitThen("backpressure") ELSE Goto("recheck")

ProduceBackpressure ==
  /\ thr = "backpressure"
  /\ IF Len(queue) >= BackpressureLow /\ ~quit
     THEN WaitThen("backpressure") ELSE Goto("recheck")

ProduceRecheck ==
  /\ thr = "recheck"
  /\ Goto(IF quit THEN "exit" ELSE "read")

(* source->ops->read: some frames, or end of stream. *)
ProduceRead ==
  /\ thr = "read" /\ pos < Total
  /\ \E n \in 1..Least(DecodeFrames, Total - pos) :
       /\ dbuf' = Frames(pos, n)
       /\ pos' = pos + n
  /\ thr' = "write"
  /\ UNCHANGED <<fifo, pipe, completed, shared, life, sem, resume, ended, owner,
                 commands, bounds, history>>

(* Plausible mistake: end of stream is published with frames in hand. *)
ProduceEnd_Early ==
  /\ thr \in {"read", "write"} /\ pos = Total
  /\ Fifo!Finish
  /\ ended' = TRUE /\ thr' = "loop"
  /\ UNCHANGED <<pipe, completed, shared, life, sem, resume, dbuf, pos, owner,
                 commands, bounds, history>>

ProduceEnd ==
  /\ thr = "read" /\ pos = Total
  /\ Fifo!Finish
  /\ ended' = TRUE /\ thr' = "loop"
  /\ UNCHANGED <<pipe, completed, shared, life, sem, resume, dbuf, pos, owner,
                 commands, bounds, history>>

(* The source fails: the error is stored, then published. *)
ProduceError ==
  \/ /\ thr = "read" /\ Failures
     /\ source_error' = TRUE /\ thr' = "fail"
     /\ UNCHANGED <<fifo, pipe, completed, gate, quit, failed, life, sem, resume,
                    ended, dbuf, pos, owner, commands, bounds, history>>
  \/ /\ thr = "fail"
     /\ failed' = TRUE /\ ended' = TRUE /\ thr' = "loop"
     /\ UNCHANGED <<fifo, pipe, completed, gate, quit, source_error, life, sem, resume,
                    dbuf, pos, owner, commands, bounds, history>>

(* One turn of the partial-write loop. *)
ProduceWrite ==
  LET n == Least(Len(dbuf), Capacity - Len(queue))
  IN /\ thr = "write" /\ dbuf # <<>> /\ ~quit
     /\ IF n = 0 THEN WaitThen("write")
        ELSE /\ Fifo!Write(SubSeq(dbuf, 1, n))
             /\ dbuf' = SubSeq(dbuf, n + 1, Len(dbuf))
             /\ UNCHANGED <<pipe, completed, shared, life, sem, thr, resume, ended,
                            pos, owner, commands, bounds, history>>

ProduceWritten ==
  /\ thr = "write" /\ (dbuf = <<>> \/ quit)
  /\ Goto("loop")

Produce ==
  \/ ProduceGate \/ ProduceLoop \/ ProduceBackpressure \/ ProduceRecheck
  \/ ProduceRead \/ ProduceEnd \/ ProduceError \/ ProduceWrite \/ ProduceWritten
  \/ SemTake \/ SemClear
----------------------------------------------------------------------------
(* The owner thread.  A call to a sink, a node or the source fails or not. *)
MayFail == IF Failures THEN {TRUE, FALSE} ELSE {FALSE}

(* The current call returns r. *)
Return(r) ==
  /\ opc' = "idle" /\ ret' = r
  /\ rc' = "OK" /\ target' = -1 /\ restart' = FALSE /\ instep' = FALSE
  /\ closing' = FALSE

(* eaf_player_start up to the thread creation.  A second producer cannot   *)
(* be created: decoder.impl is empty.                                      *)
StartThread ==
  /\ gate' = FALSE /\ quit' = FALSE /\ failed' = FALSE /\ source_error' = FALSE
  /\ \/ /\ handle' = TRUE
        /\ thr' = "gate" /\ ended' = FALSE /\ dbuf' = <<>>
        /\ base' = pos /\ played' = <<>>
        /\ opc' = "startpipe"
        /\ UNCHANGED <<rc, target, restart, instep, closing, ret>>
     \/ /\ Failures
        /\ Return("ERR")
        /\ UNCHANGED <<handle, thr, ended, dbuf, history>>
  /\ UNCHANGED <<fifo, pipe, completed, initialized, sem, resume, pos, commands,
                 submitted>>

CanStart == initialized /\ ~handle /\ pipe \in {"CONFIGURED", "STOPPED"}

OwnerStart ==
  /\ opc = "idle" /\ CanStart
  /\ starts < MaxStarts /\ starts' = starts + 1
  /\ StartThread

(* eaf_pipeline_start: reset, then the sink; a failed start is stopped.    *)
StartPipeline ==
  /\ opc = "startpipe"
  /\ Fifo!Reset
  /\ completed' = FALSE
  /\ \E fails \in MayFail, stopfails \in MayFail :
       IF fails
       THEN /\ pipe' = IF stopfails THEN "RECOVERY" ELSE "STOPPED"
            /\ opc' = "startquit"
       ELSE pipe' = "RUNNING" /\ opc' = "startgate"
  /\ UNCHANGED <<shared, life, sem, producer, rc, target, restart, instep, closing, ret,
                 commands, bounds, history>>

StartGate ==
  /\ opc = "startgate"
  /\ gate' = TRUE /\ Give
  /\ IF instep THEN opc' = "process" /\ UNCHANGED <<rc, target, restart, instep, closing, ret>>
               ELSE Return("OK")
  /\ UNCHANGED <<fifo, pipe, completed, quit, failed, source_error, life, producer,
                 commands, bounds, history>>

StartQuit ==
  /\ opc = "startquit"
  /\ quit' = TRUE /\ Give
  /\ rc' = "ERR" /\ opc' = "join"
  /\ UNCHANGED <<fifo, pipe, completed, gate, failed, source_error, life, producer,
                 target, restart, instep, closing, ret, commands, bounds, history>>

(* eaf_player_stop: the pipeline first.  Failing to stop the sink leaves   *)
(* the pipeline as it was; a failing node reset does not.                  *)
StopPipeline ==
  /\ opc = "stop"
  /\ IF pipe \in {"RUNNING", "RECOVERY"}
     THEN \E sinkfails \in MayFail, resetfails \in MayFail :
            /\ pipe' = IF sinkfails THEN pipe ELSE "STOPPED"
            /\ opc' = IF sinkfails \/ resetfails THEN "stopfail" ELSE "stopquit"
     ELSE opc' = "stopquit" /\ UNCHANGED pipe
  /\ UNCHANGED <<fifo, completed, shared, life, sem, producer, rc, target, restart,
                 instep, closing, ret, commands, bounds, history>>

(* Plausible mistake: the handle is dropped when the sink cannot stop. *)
StopFail_Detach ==
  /\ opc = "stopfail"
  /\ quit' = TRUE /\ Give
  /\ Return("ERR") /\ handle' = FALSE
  /\ UNCHANGED <<initialized, fifo, pipe, completed, gate, failed, source_error, producer,
                 commands, bounds, history>>

(* The producer is told to quit in any case; after a failed stop its       *)
(* handle is kept for a retry.                                             *)
StopFail ==
  /\ opc = "stopfail"
  /\ quit' = TRUE /\ Give
  /\ Return("ERR")
  /\ UNCHANGED <<fifo, pipe, completed, gate, failed, source_error, life, producer,
                 commands, bounds, history>>

(* Plausible mistake: a seek does not join the producer. *)
StopQuit_NoJoin ==
  /\ opc = "stopquit"
  /\ quit' = TRUE /\ Give
  /\ opc' = IF target >= 0 THEN "seek" ELSE "join"
  /\ UNCHANGED <<fifo, pipe, completed, gate, failed, source_error, life, producer,
                 rc, target, restart, instep, closing, ret, commands, bounds, history>>

(* What follows a successful stop: the seek goes on, deinit closes the     *)
(* player, other calls return.                                             *)
Stopped ==
  /\ IF target >= 0 /\ rc = "OK"
     THEN opc' = "seek" /\ UNCHANGED <<rc, target, restart, instep, closing, ret>>
     ELSE Return(rc)
  /\ initialized' = (initialized /\ ~closing)

StopQuit ==
  /\ opc = "stopquit"
  /\ quit' = TRUE /\ Give
  /\ IF handle
     THEN opc' = "join" /\ UNCHANGED <<initialized, rc, target, restart, instep, closing, ret>>
     ELSE Stopped
  /\ UNCHANGED <<fifo, pipe, completed, gate, failed, source_error, handle, producer,
                 commands, bounds, history>>

(* hal_thread_join returns when the thread has. *)
Join ==
  /\ opc = "join" /\ thr = "exit"
  /\ thr' = "none" /\ handle' = FALSE
  /\ Stopped
  /\ UNCHANGED <<fifo, pipe, completed, shared, sem, resume, ended, dbuf, pos, commands,
                 bounds, history>>

(* A join that fails keeps the handle. *)
JoinFails ==
  /\ opc = "join" /\ Failures
  /\ Return("ERR")
  /\ UNCHANGED <<fifo, pipe, completed, shared, life, sem, producer, commands, bounds,
                 history>>

(* The rest of eaf_player_seek. *)
Seek ==
  /\ opc = "seek"
  /\ \/ /\ Failures
        /\ Return("ERR")
        /\ UNCHANGED <<fifo, pos>>
     \/ /\ pos' = target
        /\ Fifo!Reset
        /\ IF restart
           THEN opc' = "restart" /\ target' = -1 /\ UNCHANGED <<rc, restart, instep, closing, ret>>
           ELSE IF instep
           THEN opc' = "process" /\ target' = -1 /\ UNCHANGED <<rc, restart, instep, closing, ret>>
           ELSE Return("OK")
  /\ UNCHANGED <<pipe, completed, shared, life, sem, thr, resume, ended, dbuf,
                 commands, bounds, history>>

SeekRestart == opc = "restart" /\ CanStart /\ StartThread /\ UNCHANGED starts

(* The owner's calls of stop, deinit and seek. *)
OwnerStop ==
  /\ opc = "idle" /\ initialized
  /\ opc' = "stop" /\ rc' = "OK"
  /\ UNCHANGED <<fifo, pipe, completed, shared, life, sem, producer, target, restart,
                 instep, closing, ret, commands, bounds, history>>

OwnerDeinit ==
  /\ opc = "idle" /\ initialized
  /\ opc' = "stop" /\ rc' = "OK" /\ closing' = TRUE
  /\ UNCHANGED <<fifo, pipe, completed, shared, life, sem, producer, target, restart,
                 instep, ret, commands, bounds, history>>

(* eaf_player_init of a player that was closed: new atomics, queue and     *)
(* semaphore.                                                              *)
OwnerInit ==
  /\ opc = "idle" /\ ~initialized /\ pipe \in {"CONFIGURED", "STOPPED"}
  /\ gate' = FALSE /\ quit' = FALSE /\ failed' = FALSE /\ source_error' = FALSE
  /\ initialized' = TRUE /\ handle' = FALSE
  /\ posted' = 0 /\ pending' = FALSE /\ commands' = <<>>
  /\ UNCHANGED <<fifo, pipe, completed, producer, owner, bounds, history>>

BeginSeek(f, step) ==
  /\ opc' = "stop" /\ rc' = "OK"
  /\ target' = f /\ restart' = (pipe = "RUNNING") /\ instep' = step
  /\ UNCHANGED <<closing, ret>>

OwnerSeek(f) ==
  /\ opc = "idle" /\ initialized
  /\ submitted < MaxCommands /\ submitted' = submitted + 1
  /\ BeginSeek(f, FALSE)
  /\ UNCHANGED <<fifo, pipe, completed, shared, life, sem, producer, commands, starts,
                 history>>

(* eaf_player_step, first part: at most one command. *)
OwnerStep ==
  /\ opc = "idle" /\ initialized
  /\ commands' = IF commands = <<>> THEN <<>> ELSE Tail(commands)
  /\ IF commands = <<>> \/ Head(commands) = GAIN
     THEN opc' = "process" /\ instep' = TRUE /\ UNCHANGED <<rc, target, restart, closing, ret>>
     ELSE IF Head(commands) = STOP
     THEN /\ opc' = "stop" /\ rc' = "EOF" /\ instep' = TRUE
          /\ UNCHANGED <<target, restart, closing, ret>>
     ELSE BeginSeek(Head(commands), TRUE)
  /\ UNCHANGED <<fifo, pipe, completed, shared, life, sem, producer, bounds, history>>

(* The step goes on to stop the player with result r. *)
StopWith(r) ==
  /\ opc' = "stop" /\ rc' = r
  /\ UNCHANGED <<target, restart, instep, closing, ret>>

(* Second part: nothing to play, a failed source, or one block. *)
StepIdle ==
  /\ opc = "process" /\ pipe # "RUNNING"
  /\ Return("STATE")
  /\ UNCHANGED <<fifo, pipe, completed, shared, life, sem, producer, commands, bounds,
                 history>>

StepFailed ==
  /\ opc = "process" /\ pipe = "RUNNING" /\ failed
  /\ IF source_error THEN StopWith("ERR") ELSE Return("OK")
  /\ UNCHANGED <<fifo, pipe, completed, shared, life, sem, producer, commands, bounds,
                 history>>

(* eaf_pipeline_process as far as the pull: a completed stream, a sink     *)
(* without a buffer, or a block taken from the reservoir ...               *)
StepPull ==
  /\ opc = "process" /\ pipe = "RUNNING" /\ ~failed
  /\ \/ completed /\ StopWith("EOF") /\ UNCHANGED fifo
     \/ ~completed /\ Failures /\ StopWith("ERR") /\ UNCHANGED fifo
     \/ /\ ~completed
        /\ Fifo!Pull(BlockFrames)
        /\ opc' = "commit" /\ UNCHANGED <<rc, target, restart, instep, closing, ret>>
  /\ UNCHANGED <<pipe, completed, shared, life, sem, producer, commands, bounds, history>>

(* ... then the producer is woken if the pull asks for it, and the block   *)
(* goes through the nodes to the sink.  One that fails there is not played. *)
StepCommit ==
  /\ opc = "commit"
  /\ IF wake THEN Give ELSE UNCHANGED sem
  /\ \E fails \in MayFail :
       IF fails
       THEN StopWith("ERR") /\ UNCHANGED <<completed, played>>
       ELSE /\ played' = played \o out
            /\ completed' = ("EOS" \in flags)
            /\ IF "EOS" \in flags THEN StopWith("EOF") ELSE Return("OK")
  /\ UNCHANGED <<fifo, pipe, shared, life, producer, commands, bounds, base>>

(* The control thread: a full queue rejects the command. *)
Submit(c) ==
  /\ initialized
  /\ submitted < MaxCommands
  /\ submitted' = submitted + 1
  /\ commands' = IF Len(commands) < CommandCapacity THEN Append(commands, c) ELSE commands
  /\ UNCHANGED <<fifo, pipe, completed, shared, life, sem, producer, owner, starts,
                 history>>

(* After an error the owner does not step again but stops or seeks.        *)
OwnerCall ==
  \/ OwnerStart \/ OwnerStop \/ OwnerDeinit \/ OwnerInit
  \/ \E f \in SeekTargets : OwnerSeek(f)
  \/ ret # "ERR" /\ OwnerStep

OwnerGoesOn ==
  \/ StartPipeline \/ StartGate \/ StartQuit
  \/ StopPipeline \/ StopFail \/ StopQuit \/ Join \/ JoinFails
  \/ Seek \/ SeekRestart
  \/ StepIdle \/ StepFailed \/ StepPull \/ StepCommit

Control == \E c \in SeekTargets \cup {STOP, GAIN} : Submit(c)

Next == Produce \/ SemTimeout \/ OwnerCall \/ OwnerGoesOn \/ Control

Spec == Init /\ [][Next]_vars

(* The owner's loop of platform/native_linux/play_file.c, which may also   *)
(* stop at any time.  The producer and the owner are scheduled; that the   *)
(* semaphore's timeout ever fires is not assumed.                          *)
PlayStep == pipe = "RUNNING" /\ ret = "OK" /\ OwnerStep
PlayNext == Produce \/ SemTimeout \/ OwnerStart \/ PlayStep \/ OwnerStop \/ OwnerGoesOn
PlaySpec ==
  /\ Init /\ [][PlayNext]_vars
  /\ WF_vars(Produce) /\ WF_vars(OwnerGoesOn) /\ WF_vars(PlayStep)
----------------------------------------------------------------------------
(* Whatever the interleaving of producer, owner and control thread, what   *)
(* the sink gets after a start is the source from the position it had at   *)
(* that start, in order and without a gap: nothing decoded before a seek   *)
(* or a stop is played after it.                                           *)
PlayedContiguous == \A i \in 1..Len(played) : played[i] = base + i

(* Playback counts as completed only when the whole rest of the source has *)
(* been committed.                                                         *)
CompletedIsComplete ==
  completed /\ opc # "startpipe" => base + Len(played) = Total

(* "Reset only while both endpoints are quiescent" (eaf_reservoir.h): when *)
(* the owner is about to reset the reservoir, the producer is joined or    *)
(* still held at the gate.                                                 *)
ResetQuiescent ==
  opc \in {"startpipe", "seek"} =>
    \/ thr \in {"none", "gate"}
    \/ thr \in {"wait", "clear"} /\ resume = "gate"

(* No producer outlives its handle, so a second one is never started, and  *)
(* none outlives the player: the semaphore is never freed under it.        *)
NoOrphan == thr # "none" => handle /\ initialized

----------------------------------------------------------------------------
(* The inductive invariant behind the four properties above. *)

(* The producer is before the gate of produce(). *)
Gated == thr = "gate" \/ (thr \in {"wait", "clear"} /\ resume = "gate")

(* It is at the head of its loop, or will be after a wait. *)
Looping == thr = "loop" \/ (thr \in {"wait", "clear"} /\ resume = "loop")

PlayerTypeOK ==
  /\ pos \in 0..Total /\ base \in 0..Total /\ target \in -1..Total
  /\ queue \in Seq(Int) /\ Len(queue) <= Capacity /\ out \in Seq(Int)
  /\ dbuf \in Seq(Int) /\ played \in Seq(Int)
  /\ commands \in Seq(SeekTargets \cup {STOP, GAIN})
  /\ thr \in {"none", "gate", "loop", "backpressure", "recheck", "read", "write", "fail",
              "wait", "clear", "exit"}
  /\ resume \in {"gate", "loop", "backpressure", "write"}
  /\ opc \in {"idle", "startpipe", "startgate", "startquit", "stop", "stopfail", "stopquit",
              "join", "seek", "restart", "process", "commit"}

(* The handle stands for the thread, and where the owner counts on the     *)
(* thread being gone or held back, it is.                                  *)
ThreadOK ==
  /\ handle = (thr # "none")
  /\ handle => initialized
  /\ opc \in {"startpipe", "startgate", "startquit"} => handle /\ Gated /\ ~gate /\ ~quit
  /\ opc \in {"seek", "restart"} => ~handle
  /\ opc \in {"startquit", "stopquit", "join", "seek", "restart"} => pipe # "RUNNING"
  /\ opc = "seek" => target >= 0
  /\ ~gate /\ ~quit /\ handle => Gated
  /\ thr = "exit" => quit

(* The stream plays: the owner will go on to pull from it. *)
Live ==
  /\ pipe = "RUNNING"
  /\ opc \in {"startgate", "process", "commit"} \/ (opc = "idle" /\ ret # "ERR")

(* Consecutive frames of the source after position first. *)
IsRun(s, first) == \A i \in 1..Len(s) : s[i] = first + i

(* Frames in the block that is on its way to the sink. *)
InHand == IF opc = "commit" THEN Len(out) ELSE 0

(* A stream that is about to begin starts from nothing. *)
BeginOK == opc = "startpipe" => played = <<>> /\ dbuf = <<>> /\ ~ended /\ base = pos

(* Of a stream that plays, every frame from base to the position of the    *)
(* source is played, in the block in hand, queued or in the decode buffer, *)
(* in this order.                                                          *)
ChainOK ==
  Live => LET heard == base + Len(played)
          IN /\ handle /\ ~quit
             /\ heard + InHand + Len(queue) + Len(dbuf) = pos
             /\ opc = "commit" => IsRun(out, heard)
             /\ IsRun(queue, heard + InHand)
             /\ IsRun(dbuf, pos - Len(dbuf))

(* The decode buffer is empty but while a write is under way, and the end  *)
(* of the source is published after its last frame.                        *)
BufferOK ==
  Live => /\ thr = "write" \/ (thr \in {"wait", "clear"} /\ resume = "write") \/ dbuf = <<>>
          /\ finished => ended /\ pos = Total
          /\ ended => Looping

(* A block in hand came from a stream not yet completed; when it carries   *)
(* EOS, nothing is left behind it.                                         *)
CommitOK ==
  opc = "commit" => /\ pipe = "RUNNING" /\ ~completed
                    /\ "EOS" \in flags => finished /\ queue = <<>>

PlayerInv ==
  /\ PlayerTypeOK /\ ThreadOK /\ BeginOK /\ ChainOK /\ BufferOK /\ CommitOK
  /\ PlayedContiguous /\ CompletedIsComplete
----------------------------------------------------------------------------
(* Once running, playback goes on to the end of the source unless the      *)
(* owner stops it: neither side waits for the other for ever, even if no   *)
(* semaphore timeout ever fires (no wake-up is lost).                      *)
PlaysToEnd == pipe = "RUNNING" ~> (completed \/ quit)

(* Every stop comes to an end: the producer notices quit wherever it is    *)
(* blocked, and joining it returns.                                        *)
StopReturns == opc = "join" ~> opc = "idle"
=============================================================================
