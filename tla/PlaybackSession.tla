--------------------------- MODULE PlaybackSession --------------------------
(***************************************************************************)
(* The high-level playback session: transport commands from application    *)
(* threads, the decode worker, the render callback, the recovery thread    *)
(* and close(), around one session mutex.                                  *)
(*                                                                         *)
(* Every critical section of mutex_ is one action, and so is every call    *)
(* into the decoder or the stream made outside of it.  The render callback *)
(* only ever tries the mutex; LockMayFail lets the try fail.  A pipeline   *)
(* is its buffer layout and the queue of decoded blocks (a BoundedFifo);   *)
(* its acquisition by the callback is atomic (PipelineHazard).             *)
(*                                                                         *)
(* Positions count decoded blocks: the source has MediaLength of them,      *)
(* whatever duration it tells.                                             *)
(***************************************************************************)
EXTENDS Integers, Sequences

CONSTANTS
  Layouts,       \* buffer layouts (format and frame count) a callback may get
  Devices,       \* selectable output devices
  InitialDevice, \* config: render.device
  MediaLength,   \* blocks in a source
  Duration,      \* what the source of each load says of its length; 0 if it says nothing
  Targets,       \* where seek_to may be asked to go, beyond the end and below zero too
  QueueSlots,    \* slots of a pipeline's queue, 4 in the code
  AutoPlay,      \* config: auto_play_on_load
  AutoRecover,   \* config: render.auto_recover_device_loss
  LockMayFail,   \* may the callback find the mutex taken when it finishes
  DecodeMayFail, \* may a decoder call fail without having been cancelled
  WorkerMayThrow,\* may an exception end the decode worker
  OpenMayFail,   \* may reopening the render stream fail
  MaxGeneration, \* bound: loads
  MaxSequence,   \* bound: seeks, device selections and replays
  MaxFaults,     \* bound: endpoint failures
  None           \* no value: no layout, no pipeline, no pending seek, ...

ASSUME SessionAssumption ==
  /\ InitialDevice \in Devices
  /\ MediaLength \in Nat \ {0}
  /\ \A g \in 1..MaxGeneration : Duration[g] \in Nat
  /\ Targets \subseteq Int
  /\ QueueSlots \in Nat \ {0}
  /\ {AutoPlay, AutoRecover, LockMayFail, DecodeMayFail, WorkerMayThrow, OpenMayFail}
       \subseteq BOOLEAN
  /\ {MaxGeneration, MaxSequence, MaxFaults} \subseteq Nat
  /\ None \notin Layouts \cup Devices \cup Nat

VARIABLES
  \* What the application asked for.
  generation,        \* requested_source_generation_, 0 while no source is loaded
  seekSequence,      \* requested_seek_sequence_
  decoderEpoch,      \* requested_decoder_epoch_
  cancelEpoch,       \* the decoder's own cancellation epoch
  pendingSeek,       \* pending_seek_ms_
  intent,            \* playback_intent_playing_
  selectedDevice,    \* config_.render.device
  \* What the session reports (state_) and remembers about progress.
  status, position, completionToken, deviceLost,
  decoderReady, reachedEnd,
  \* Not in the code: the position is a block's, reported since the latest load or seek.
  told,
  \* What the render callback asked for and is doing.
  layout,            \* requested_render_format_ and requested_frame_count_
  pipeline,          \* decoded_pipeline_
  rpc, rblock,       \* where the callback is, the block it popped
  rdetached,         \* <<queue>> of its pipeline if no longer the published one
  rsince,            \* generation and sequence when it started
  \* The decode worker: where it is, and the locals of decode_loop.
  dpc, command, active, endOfStream, failed,
  decoderPosition,   \* the decoder's next block
  dblock,            \* the block it has read
  \* Render stream, recovery thread, select_output_device and close().
  stream, streamDevice, faults,
  reopen,            \* where select_output_device and the recovery thread are
  openDevice,        \* the configuration copied by open_render_stream
  recoveryRequested, \* recovery_requested_
  shuttingDown,      \* shutting_down_, and closed_
  closing            \* where close() is

request == <<generation, seekSequence, decoderEpoch, cancelEpoch, pendingSeek, selectedDevice>>
report == <<status, position, told, completionToken, deviceLost>>
progress == <<intent, decoderReady, reachedEnd>>
callback == <<rpc, rblock, rdetached, rsince>>
source == <<active, endOfStream, failed, decoderPosition>>
worker == <<dpc, command, source, dblock>>
endpoint == <<stream, streamDevice, faults>>
recovery == <<reopen, openDevice, recoveryRequested>>
lifecycle == <<shuttingDown, closing>>

application == <<request, report, progress>>
sound == <<layout, pipeline, callback>>
control == <<endpoint, recovery, lifecycle>>
vars == <<application, sound, worker, control>>

Actors == {"select", "recovery"}

NoCommand == [generation |-> 0, sequence |-> 0, epoch |-> 0, layout |-> None, seek |-> None]

Init ==
  /\ generation = 0 /\ seekSequence = 0
  /\ decoderEpoch = 0 /\ cancelEpoch = 0
  /\ pendingSeek = None
  /\ intent = FALSE
  /\ selectedDevice = InitialDevice
  /\ status = "idle" /\ position = 0 /\ told = FALSE
  /\ completionToken = 0 /\ deviceLost = FALSE
  /\ decoderReady = FALSE /\ reachedEnd = FALSE
  /\ layout = None
  /\ pipeline = None
  /\ rpc = "idle" /\ rblock = None /\ rdetached = <<>> /\ rsince = <<0, 0>>
  /\ dpc = "wait"
  /\ command = NoCommand
  /\ active = [generation |-> 0, sequence |-> 0, layout |-> None]
  /\ endOfStream = FALSE /\ failed = None
  /\ decoderPosition = 0 /\ dblock = None
  /\ stream = "running" /\ streamDevice = selectedDevice /\ faults = 0
  /\ reopen = [select |-> "idle", recovery |-> "wait"]
  /\ openDevice = None
  /\ recoveryRequested = FALSE
  /\ shuttingDown = FALSE
  /\ closing = "open"

-----------------------------------------------------------------------------
(* Transport commands.                                                     *)

\* load, seek_to, select_output_device and close hold decoder_command_mutex_.
CommandMutexFree == reopen["select"] = "idle" /\ closing = "open"

\* request_cancel and the new requested_decoder_epoch_.
CancelDecoder ==
  /\ cancelEpoch' = cancelEpoch + 1
  /\ decoderEpoch' = cancelEpoch + 1

Load ==
  /\ CommandMutexFree
  /\ generation < MaxGeneration
  /\ CancelDecoder
  /\ generation' = generation + 1
  /\ pendingSeek' = None
  /\ status' = IF AutoPlay THEN "loading" ELSE "paused"
  /\ position' = 0 /\ told' = FALSE
  /\ deviceLost' = FALSE
  /\ completionToken' = 0
  /\ intent' = AutoPlay
  /\ decoderReady' = FALSE
  /\ reachedEnd' = FALSE
  /\ UNCHANGED <<seekSequence, selectedDevice, sound, worker, control>>

\* play() takes only the session mutex, and replays after the end without
\* cancelling the decoder.
Play ==
  /\ ~shuttingDown
  /\ IF generation = 0
       THEN /\ status' = "error"
            /\ UNCHANGED <<seekSequence, pendingSeek, reachedEnd, told, intent>>
       ELSE /\ IF reachedEnd
                 THEN /\ seekSequence < MaxSequence
                      /\ seekSequence' = seekSequence + 1
                      /\ pendingSeek' = 0
                      /\ reachedEnd' = FALSE
                      /\ told' = FALSE
                 ELSE UNCHANGED <<seekSequence, pendingSeek, reachedEnd, told>>
            /\ intent' = TRUE
            /\ status' = IF decoderReady THEN "playing" ELSE "loading"
  /\ UNCHANGED <<generation, decoderEpoch, cancelEpoch, selectedDevice, position,
                 completionToken, deviceLost, decoderReady, sound, worker, control>>

Pause ==
  /\ ~shuttingDown
  /\ intent' = FALSE
  /\ status' = IF generation = 0 THEN "idle" ELSE "paused"
  /\ UNCHANGED <<request, position, told, completionToken, deviceLost, decoderReady,
                 reachedEnd, sound, worker, control>>

\* A target below zero is taken for zero; one beyond the end is not looked at.
Clamped(p) == IF p < 0 THEN 0 ELSE p

SeekTo(p) ==
  /\ CommandMutexFree
  /\ generation > 0
  /\ seekSequence < MaxSequence
  /\ CancelDecoder
  /\ pendingSeek' = Clamped(p)
  /\ seekSequence' = seekSequence + 1
  /\ reachedEnd' = FALSE
  /\ position' = Clamped(p) /\ told' = FALSE
  /\ status' = IF intent THEN "loading" ELSE "paused"
  /\ UNCHANGED <<generation, selectedDevice, completionToken, deviceLost, intent,
                 decoderReady, sound, worker, control>>

\* The locked part of select_output_device; the reopening follows, with the
\* command mutex still held.
SelectOutputDevice(d) ==
  /\ CommandMutexFree
  /\ seekSequence < MaxSequence
  /\ CancelDecoder
  /\ selectedDevice' = d
  /\ pendingSeek' = position
  /\ told' = FALSE
  /\ seekSequence' = seekSequence + 1
  /\ decoderReady' = FALSE
  /\ reachedEnd' = FALSE
  /\ status' = IF generation = 0 THEN status ELSE IF intent THEN "loading" ELSE "paused"
  /\ reopen' = [reopen EXCEPT !["select"] = "lock"]
  /\ UNCHANGED <<generation, position, completionToken, deviceLost, intent, sound,
                 worker, endpoint, openDevice, recoveryRequested, lifecycle>>

-----------------------------------------------------------------------------
(* The render callback.                                                    *)

\* The first critical section of on_render: publish the buffer layout and take
\* hold of the pipeline.  It goes on only if it has something to play.  A
\* failed try_lock leaves silence and is no step.
RenderEnter(l) ==
  /\ rpc = "idle"
  /\ stream = "running"
  /\ ~shuttingDown
  /\ layout' = l
  /\ deviceLost' = FALSE
  /\ IF intent /\ generation > 0 /\ pipeline # None /\ pipeline.layout = l
       THEN rpc' = "pop" /\ rsince' = <<generation, seekSequence>>
       ELSE UNCHANGED <<rpc, rsince>>
  /\ UNCHANGED <<request, status, position, told, completionToken, progress, pipeline, rblock,
                 rdetached, worker, control>>

\* Variant: the seek sequence of the block is not looked at.
LatestSource(block) == block.generation = generation

\* Is the block decoded for the latest load and seek?
Latest(block) == block.generation = generation /\ block.sequence = seekSequence

\* The queue of the pipeline the callback holds.
HeldQueue == IF rdetached = <<>> THEN pipeline.queue ELSE rdetached[1]

\* try_pop, and the check that the block answers the latest command.
RenderPop ==
  /\ rpc = "pop"
  /\ IF HeldQueue # <<>> /\ Latest(Head(HeldQueue))
       THEN rpc' = "mix" /\ rblock' = Head(HeldQueue) /\ UNCHANGED rsince
       ELSE rpc' = "idle" /\ rsince' = <<0, 0>> /\ UNCHANGED rblock
  /\ pipeline' = IF rdetached = <<>> /\ HeldQueue # <<>>
                   THEN [pipeline EXCEPT !.queue = Tail(@)]
                   ELSE pipeline
  /\ rdetached' = <<>>
  /\ UNCHANGED <<application, layout, worker, control>>

\* Variant: the end of the source leaves the wish to play standing.
ReportBlockKeepingIntent ==
  IF rblock.last
    THEN /\ reachedEnd' = TRUE
         /\ status' = "idle"
         /\ position' = Duration[rblock.generation] /\ told' = TRUE
         /\ completionToken' = completionToken + 1
         /\ UNCHANGED intent
    ELSE /\ position' = rblock.position /\ told' = TRUE
         /\ status' = "playing"
         /\ UNCHANGED <<intent, reachedEnd, completionToken>>

\* What the second critical section of on_render does for a block that is
\* still current.  The last block of the source ends playback and takes the
\* position to the duration that the source told, known or not.
ReportBlock ==
  IF rblock.last
    THEN /\ intent' = FALSE
         /\ reachedEnd' = TRUE
         /\ status' = "idle"
         /\ position' = Duration[rblock.generation] /\ told' = TRUE
         /\ completionToken' = completionToken + 1
    ELSE /\ position' = rblock.position /\ told' = TRUE
         /\ status' = "playing"
         /\ UNCHANGED <<intent, reachedEnd, completionToken>>

\* Variants: the shutdown is not looked at; what was checked after the pop is
\* taken for granted.
MayReportLate == Latest(rblock)
MayReportStale == ~shuttingDown

MayReport == ~shuttingDown /\ Latest(rblock)

\* The samples are in the buffer; the progress is reported only if the mutex
\* is free at this very moment.
RenderFinish(locked) ==
  /\ rpc = "mix"
  /\ IF locked /\ MayReport
       THEN ReportBlock
       ELSE UNCHANGED <<status, position, told, completionToken, intent, reachedEnd>>
  /\ rpc' = "idle"
  /\ rblock' = None
  /\ rsince' = <<0, 0>>
  /\ UNCHANGED <<request, deviceLost, decoderReady, layout, pipeline, rdetached, worker,
                 control>>

\* The stream worker fails between two callbacks and calls on_stream_error.
StreamFault ==
  /\ stream = "running"
  /\ rpc = "idle"
  /\ faults < MaxFaults
  /\ faults' = faults + 1
  /\ stream' = "faulted"
  /\ IF shuttingDown
       THEN UNCHANGED <<deviceLost, status, decoderReady, reachedEnd, intent,
                        recoveryRequested>>
       ELSE /\ deviceLost' = TRUE
            /\ decoderReady' = FALSE
            /\ reachedEnd' = FALSE
            /\ IF AutoRecover
                 THEN /\ status' = "loading"
                      /\ recoveryRequested' = TRUE
                      /\ UNCHANGED intent
                 ELSE /\ status' = "error"
                      /\ intent' = FALSE
                      /\ UNCHANGED recoveryRequested
  /\ UNCHANGED <<request, position, told, completionToken, sound, worker, streamDevice,
                 reopen, openDevice, lifecycle>>

-----------------------------------------------------------------------------
(* The decode worker: decode_loop, one action per critical section and per *)
(* decoder call.                                                           *)

Requested == [generation |-> generation, sequence |-> seekSequence, layout |-> layout]

\* Variant: a full queue is taken for one with room.
QueueHasRoomForMore == pipeline # None /\ Len(pipeline.queue) <= QueueSlots

QueueHasRoom == pipeline # None /\ Len(pipeline.queue) < QueueSlots

\* Variants: the worker does not stop at the end of the source, does not look for
\* room, or does not notice a seek.
WorkBeyondEnd ==
  /\ generation > 0 /\ layout # None /\ failed # Requested
  /\ active # Requested \/ QueueHasRoom

WorkWithoutRoom ==
  /\ generation > 0 /\ layout # None /\ failed # Requested
  /\ active # Requested \/ ~endOfStream

WorkBarSeeks ==
  /\ generation > 0 /\ layout # None /\ failed # Requested
  /\ \/ active.generation # generation \/ active.layout # layout
     \/ ~endOfStream /\ QueueHasRoom

\* The wait condition of the worker: a source and a buffer layout, no failure of
\* this very request, and something to open, to seek or to read.
WorkToDo ==
  /\ generation > 0 /\ layout # None /\ failed # Requested
  /\ active # Requested \/ (~endOfStream /\ QueueHasRoom)

\* decode_command_is_current_locked.
CommandIsCurrent ==
  /\ ~shuttingDown
  /\ command.generation = generation
  /\ command.sequence = seekSequence
  /\ command.epoch = decoderEpoch

\* A decoder call fails if the decoder was cancelled since the command's epoch.
DecoderSucceeds == cancelEpoch = command.epoch
DecoderFails == cancelEpoch # command.epoch \/ DecodeMayFail

SeekTarget == IF command.seek = None THEN 0 ELSE command.seek

\* The decoder takes its clock from the first sample after a seek, which may lie
\* before the target; where no sample is left it stays at the target.
Landings == {p \in 0..SeekTarget : p = SeekTarget \/ p < MediaLength}

\* Back to the head of the loop.
AwaitWork == dpc' = "wait" /\ command' = NoCommand /\ dblock' = None

\* A superseded command is dropped, and the source will be opened anew.
DropCommand ==
  /\ AwaitWork
  /\ active' = [active EXCEPT !.generation = 0]

\* handle_source_error_locked.
SourceError ==
  /\ intent' = FALSE
  /\ decoderReady' = FALSE
  /\ reachedEnd' = FALSE
  /\ status' = "error"

\* Take the command and choose between opening, seeking and reading.
DecodeWake ==
  /\ dpc = "wait"
  /\ ~shuttingDown
  /\ WorkToDo
  /\ command' = [generation |-> generation, sequence |-> seekSequence,
                 epoch |-> decoderEpoch, layout |-> layout, seek |-> pendingSeek]
  /\ dpc' = IF generation # active.generation \/ layout # active.layout THEN "check"
            ELSE IF seekSequence # active.sequence THEN "seek"
            ELSE "read"
  /\ UNCHANGED <<application, sound, source, dblock, control>>

DecodeLeave ==
  /\ dpc = "wait"
  /\ shuttingDown
  /\ dpc' = "ending"
  /\ UNCHANGED <<application, sound, command, source, dblock, control>>

\* The check before the open leaves what the worker knows of the source alone.
DecodeCheck ==
  /\ dpc = "check"
  /\ IF CommandIsCurrent THEN dpc' = "open" /\ UNCHANGED <<command, dblock>>
                         ELSE AwaitWork
  /\ UNCHANGED <<application, sound, source, control>>

DecodeOpen ==
  /\ dpc = "open"
  /\ \/ /\ DecoderSucceeds
        /\ dpc' = "publishOpened"
        /\ decoderPosition' = 0
     \/ /\ DecoderFails
        /\ dpc' = "openFailed"
        /\ UNCHANGED decoderPosition
  /\ UNCHANGED <<application, sound, command, active, endOfStream, failed, dblock,
                 control>>

DecodeSeek ==
  /\ dpc = "seek"
  /\ \/ /\ DecoderSucceeds
        /\ dpc' = "publishSought"
        /\ decoderPosition' \in Landings
     \/ /\ DecoderFails
        /\ dpc' = "seekFailed"
        /\ UNCHANGED decoderPosition
  /\ UNCHANGED <<application, sound, command, active, endOfStream, failed, dblock,
                 control>>

\* A block carries the position after it and the command it was decoded for.
DecodeRead ==
  /\ dpc = "read"
  /\ \/ /\ DecoderSucceeds
        /\ dpc' = "push"
        /\ decoderPosition' = decoderPosition + 1
        /\ dblock' = [generation |-> command.generation, sequence |-> command.sequence,
                      position |-> decoderPosition + 1,
                      last |-> decoderPosition + 1 >= MediaLength]
     \/ /\ DecoderFails
        /\ dpc' = "readFailed"
        /\ UNCHANGED <<decoderPosition, dblock>>
  /\ UNCHANGED <<application, sound, command, active, endOfStream, failed, control>>

\* The three ways a decoder failure is taken: a failure of a superseded command
\* is dropped; otherwise it becomes the session's error, and the same request is
\* not tried again.
DecodeFailed ==
  /\ dpc \in {"openFailed", "seekFailed", "readFailed"}
  /\ IF CommandIsCurrent
       THEN /\ SourceError
            /\ AwaitWork
            /\ failed' = [generation |-> command.generation, sequence |-> command.sequence,
                          layout |-> command.layout]
            /\ active' = IF dpc = "openFailed"
                           THEN [active EXCEPT !.generation = command.generation]
                           ELSE active
            /\ endOfStream' = (endOfStream \/ dpc # "seekFailed")
       ELSE /\ DropCommand
            /\ UNCHANGED <<progress, status, failed, endOfStream>>
  /\ UNCHANGED <<request, position, told, completionToken, deviceLost, sound, decoderPosition,
                 control>>

\* Variant: the blocks queued for earlier commands stay.
PublishFilledPipeline ==
  /\ pipeline' = [layout |-> command.layout,
                  queue |-> IF pipeline = None THEN <<>> ELSE pipeline.queue]
  /\ rdetached' = IF rpc = "pop" /\ rdetached = <<>> THEN <<pipeline.queue>> ELSE rdetached

\* An empty pipeline for the command's layout replaces the published one; a
\* callback that is inside the old one keeps it.
PublishPipeline ==
  /\ pipeline' = [layout |-> command.layout, queue |-> <<>>]
  /\ rdetached' = IF rpc = "pop" /\ rdetached = <<>> THEN <<pipeline.queue>> ELSE rdetached

DecodePublishOpened ==
  /\ dpc = "publishOpened"
  /\ IF CommandIsCurrent
       THEN /\ PublishPipeline
            /\ active' = [generation |-> command.generation, sequence |-> 0,
                          layout |-> command.layout]
            /\ endOfStream' = FALSE
            /\ failed' = None
            /\ dpc' = "ready"
            /\ UNCHANGED <<command, dblock>>
       ELSE DropCommand /\ UNCHANGED <<pipeline, rdetached, endOfStream, failed>>
  /\ UNCHANGED <<application, layout, rpc, rblock, rsince, decoderPosition, control>>

\* The source counts as ready before the seek that may follow.
DecodeReady ==
  /\ dpc = "ready"
  /\ decoderReady' = (decoderReady \/ CommandIsCurrent)
  /\ dpc' = IF command.sequence # active.sequence THEN "seek" ELSE "read"
  /\ UNCHANGED <<request, report, intent, reachedEnd, sound, command, source, dblock,
                 control>>

DecodePublishSought ==
  /\ dpc = "publishSought"
  /\ IF CommandIsCurrent
       THEN /\ PublishPipeline
            /\ active' = [active EXCEPT !.sequence = command.sequence]
            /\ endOfStream' = FALSE
            /\ failed' = None
            /\ dpc' = "sought"
            /\ UNCHANGED <<command, dblock>>
       ELSE DropCommand /\ UNCHANGED <<pipeline, rdetached, endOfStream, failed>>
  /\ UNCHANGED <<application, layout, rpc, rblock, rsince, decoderPosition, control>>

\* The seek has been carried out and is forgotten.
DecodeSought ==
  /\ dpc = "sought"
  /\ pendingSeek' = IF CommandIsCurrent THEN None ELSE pendingSeek
  /\ dpc' = "read"
  /\ UNCHANGED <<generation, seekSequence, decoderEpoch, cancelEpoch, selectedDevice,
                 report, progress, sound, command, source, dblock, control>>

\* try_push, if the command is still current.
DecodePush ==
  /\ dpc = "push"
  /\ AwaitWork
  /\ IF ~CommandIsCurrent
       THEN /\ active' = [active EXCEPT !.generation = 0]
            /\ UNCHANGED <<pipeline, endOfStream>>
       ELSE /\ IF QueueHasRoom
                 THEN /\ pipeline' = [pipeline EXCEPT !.queue = Append(@, dblock)]
                      /\ endOfStream' = dblock.last
                 ELSE UNCHANGED <<pipeline, endOfStream>>
            /\ UNCHANGED active
  /\ UNCHANGED <<application, layout, callback, failed, decoderPosition, control>>

\* An exception reaches decode_worker_entry, which reports it: the worker is over.
DecodeThrow ==
  /\ WorkerMayThrow
  /\ dpc \notin {"ending", "finished"}
  /\ dpc' = "ending"
  /\ command' = NoCommand
  /\ dblock' = None
  /\ IF shuttingDown
       THEN UNCHANGED <<intent, decoderReady, status>>
       ELSE intent' = FALSE /\ decoderReady' = FALSE /\ status' = "error"
  /\ UNCHANGED <<request, reachedEnd, position, told, completionToken, deviceLost, sound,
                 source, control>>

\* The decoder is closed in its own thread and decode_worker_finished_ set.
DecodeFinish ==
  /\ dpc = "ending"
  /\ dpc' = "finished"
  /\ UNCHANGED <<application, sound, command, source, dblock, control>>

-----------------------------------------------------------------------------
(* reopen_render_stream, in the thread of select_output_device or of       *)
(* recovery_loop: a is the one of the two.                                 *)

Reopening(a) == reopen[a] \in {"close", "check", "open", "refresh"}

\* Variant: reopenings are not kept apart.
StreamMutexIgnored == TRUE

\* stream_operation_mutex_, held to the end of the reopening and of close().
StreamMutexFree == (\A a \in Actors : ~Reopening(a)) /\ closing # "stream"

\* select_output_device returns; recovery_loop waits again, or reports a failure.
ReopenTo(a, place) == reopen' = [reopen EXCEPT ![a] = place]
Done(a) == ReopenTo(a, IF a = "select" THEN "idle" ELSE "wait")

\* Variant: recovery_loop ignores a failure.
FailedUnseen(a) == ReopenTo(a, IF a = "select" THEN "idle" ELSE "wait")

Failed(a) == ReopenTo(a, IF a = "select" THEN "idle" ELSE "failed")

ReopenLock(a) ==
  /\ reopen[a] = "lock"
  /\ StreamMutexFree
  /\ IF shuttingDown THEN Failed(a) ELSE ReopenTo(a, "close")
  /\ UNCHANGED <<application, sound, worker, endpoint, openDevice, recoveryRequested,
                 lifecycle>>

\* Closing the old stream waits for its callback.
ReopenClose(a) ==
  /\ reopen[a] = "close"
  /\ rpc = "idle"
  /\ stream' = "none"
  /\ ReopenTo(a, "check")
  /\ UNCHANGED <<application, sound, worker, streamDevice, faults, openDevice,
                 recoveryRequested, lifecycle>>

\* open_render_stream copies the configuration under the session mutex.
ReopenCheck(a) ==
  /\ reopen[a] = "check"
  /\ IF shuttingDown
       THEN Failed(a) /\ UNCHANGED openDevice
       ELSE ReopenTo(a, "open") /\ openDevice' = selectedDevice
  /\ UNCHANGED <<application, sound, worker, endpoint, recoveryRequested, lifecycle>>

\* The new stream is opened and started, or it is not.
ReopenOpen(a) ==
  /\ reopen[a] = "open"
  /\ \/ /\ stream' = "running"
        /\ streamDevice' = openDevice
        /\ ReopenTo(a, "refresh")
     \/ /\ OpenMayFail
        /\ Failed(a)
        /\ UNCHANGED <<stream, streamDevice>>
  /\ openDevice' = None
  /\ UNCHANGED <<application, sound, worker, faults, recoveryRequested, lifecycle>>

\* refresh_active_output_device_state: if the endpoint can be named, it is not lost.
ReopenRefresh(a) ==
  /\ reopen[a] = "refresh"
  /\ deviceLost' \in {deviceLost, FALSE}
  /\ Done(a)
  /\ UNCHANGED <<request, status, position, told, completionToken, progress, sound, worker,
                 endpoint, openDevice, recoveryRequested, lifecycle>>

\* Variant: the wait of recovery_loop does not mention the shutdown.
WakeOnRequest == recoveryRequested

RecoveryNeeded == shuttingDown \/ recoveryRequested

\* recovery_loop wakes up for a request, or for the shutdown.
RecoveryWake ==
  /\ reopen["recovery"] = "wait"
  /\ RecoveryNeeded
  /\ IF shuttingDown
       THEN ReopenTo("recovery", "exited") /\ UNCHANGED recoveryRequested
       ELSE ReopenTo("recovery", "lock") /\ recoveryRequested' = FALSE
  /\ UNCHANGED <<application, sound, worker, endpoint, openDevice, lifecycle>>

RecoveryFailed ==
  /\ reopen["recovery"] = "failed"
  /\ IF shuttingDown
       THEN ReopenTo("recovery", "exited") /\ UNCHANGED <<intent, status>>
       ELSE ReopenTo("recovery", "wait") /\ intent' = FALSE /\ status' = "error"
  /\ UNCHANGED <<request, position, told, completionToken, deviceLost, decoderReady,
                 reachedEnd, sound, worker, endpoint, openDevice, recoveryRequested,
                 lifecycle>>

-----------------------------------------------------------------------------
(* close(), with the command mutex held throughout.                        *)

CloseBegin ==
  /\ CommandMutexFree
  /\ shuttingDown' = TRUE
  /\ recoveryRequested' = FALSE
  /\ cancelEpoch' = cancelEpoch + 1
  /\ closing' = "decoder"
  /\ UNCHANGED <<generation, seekSequence, decoderEpoch, pendingSeek, selectedDevice,
                 report, progress, sound, worker, endpoint, reopen, openDevice>>

\* The worker has finished, or the timeout detaches it.
CloseDecoder ==
  /\ closing = "decoder"
  /\ closing' = "recovery"
  /\ UNCHANGED <<application, sound, worker, endpoint, recovery, shuttingDown>>

\* Variant: the recovery thread is detached.
RecoveryDetached == TRUE

RecoveryJoined == reopen["recovery"] = "exited"

\* The recovery thread is joined, and with the stream mutex the pipeline withdrawn.
CloseUnpublish ==
  /\ closing = "recovery"
  /\ RecoveryJoined
  /\ StreamMutexFree
  /\ pipeline' = None
  /\ rdetached' = IF rpc = "pop" /\ rdetached = <<>> THEN <<pipeline.queue>> ELSE rdetached
  /\ closing' = "stream"
  /\ UNCHANGED <<application, layout, rpc, rblock, rsince, worker, endpoint, recovery,
                 shuttingDown>>

\* Closing the stream and the spin on the hazard pointer wait for the callback.
CloseStream ==
  /\ closing = "stream"
  /\ rpc = "idle"
  /\ stream' = "none"
  /\ closing' = "closed"
  /\ UNCHANGED <<application, sound, worker, streamDevice, faults, recovery,
                 shuttingDown>>

-----------------------------------------------------------------------------
Command ==
  \/ Load \/ Play \/ Pause
  \/ \E p \in Targets : SeekTo(p)
  \/ \E d \in Devices : SelectOutputDevice(d)

\* A callback that has begun.
Callback ==
  \/ RenderPop
  \/ \E locked \in (IF LockMayFail THEN BOOLEAN ELSE {TRUE}) : RenderFinish(locked)

Worker ==
  \/ DecodeWake \/ DecodeLeave \/ DecodeCheck \/ DecodeOpen \/ DecodeSeek \/ DecodeRead
  \/ DecodeFailed \/ DecodePublishOpened \/ DecodeReady \/ DecodePublishSought \/ DecodeSought
  \/ DecodePush \/ DecodeThrow \/ DecodeFinish

Reopen(a) == ReopenLock(a) \/ ReopenClose(a) \/ ReopenCheck(a) \/ ReopenOpen(a) \/ ReopenRefresh(a)

Recovery == Reopen("recovery") \/ RecoveryWake \/ RecoveryFailed

Closing == CloseDecoder \/ CloseUnpublish \/ CloseStream

Next ==
  \/ Command
  \/ (\E l \in Layouts : RenderEnter(l)) \/ Callback \/ StreamFault
  \/ Worker
  \/ Reopen("select") \/ Recovery
  \/ CloseBegin \/ Closing

\* Threads inside a call of the session are scheduled; the decode worker may
\* hang in a decoder call, and nothing makes the device ask for samples.  The
\* stream leaves its loop at the first wait after its stop event is set, so
\* callbacks cannot put off its closing for ever.
ControlFairness ==
  /\ WF_vars(Callback) /\ WF_vars(Reopen("select")) /\ WF_vars(Recovery) /\ WF_vars(Closing)
  /\ \A a \in Actors : SF_vars(ReopenClose(a))

\* While the device runs and the decoder's calls return, playback makes progress too.
PlayingFairness ==
  /\ WF_vars(Worker)
  /\ \A l \in Layouts : WF_vars(RenderEnter(l))

Spec == Init /\ [][Next]_vars /\ ControlFairness
PlayingSpec == Spec /\ PlayingFairness

-----------------------------------------------------------------------------
Request == [generation : 0..MaxGeneration, sequence : 0..MaxSequence,
            layout : Layouts \cup {None}]
Block == [generation : 1..MaxGeneration, sequence : 0..MaxSequence,
          position : Nat \ {0}, last : BOOLEAN]
Pipelines == [layout : Layouts, queue : Seq(Block)]

\* A null pipeline and no block are told from any pipeline and any block.
ASSUME NoneAssumption == None \notin Block \cup Pipelines

TypeOK ==
  /\ generation \in 0..MaxGeneration
  /\ seekSequence \in 0..MaxSequence
  /\ {decoderEpoch, cancelEpoch} \subseteq 0..MaxGeneration + MaxSequence + 1
  /\ pendingSeek \in Nat \cup {None}
  /\ selectedDevice \in Devices
  /\ status \in {"idle", "loading", "playing", "paused", "error"}
  /\ position \in Nat
  /\ completionToken \in Nat
  /\ {deviceLost, intent, decoderReady, reachedEnd, told, endOfStream, recoveryRequested,
      shuttingDown} \subseteq BOOLEAN
  /\ layout \in Layouts \cup {None}
  /\ pipeline \in Pipelines \cup {None}
  /\ pipeline # None => Len(pipeline.queue) <= QueueSlots
  /\ rpc \in {"idle", "pop", "mix"}
  /\ rblock \in Block \cup {None} /\ (rblock = None <=> rpc # "mix")
  /\ rdetached \in Seq(Seq(Block)) /\ Len(rdetached) <= 1
  /\ rsince \in (0..MaxGeneration) \X (0..MaxSequence)
  /\ dpc \in {"wait", "check", "open", "openFailed", "publishOpened", "ready", "seek",
              "seekFailed", "publishSought", "sought", "read", "readFailed", "push",
              "ending", "finished"}
  /\ active \in Request /\ failed \in Request \cup {None}
  /\ decoderPosition \in Nat
  /\ dblock \in Block \cup {None} /\ (dblock = None <=> dpc # "push")
  /\ stream \in {"none", "running", "faulted"}
  /\ streamDevice \in Devices /\ openDevice \in Devices \cup {None}
  /\ reopen["select"] \in {"idle", "lock", "close", "check", "open", "refresh"}
  /\ reopen["recovery"] \in {"wait", "lock", "close", "check", "open", "refresh", "failed",
                             "exited"}
  /\ closing \in {"open", "decoder", "recovery", "stream", "closed"}

-----------------------------------------------------------------------------
(* Playback order.                                                         *)

\* A callback that starts after load, seek_to or select_output_device returned
\* plays nothing decoded for an earlier command: on_render compares the
\* block's generation and seek sequence after the pop.
FreshBlocks ==
  rpc = "mix" => rblock.generation >= rsince[1] /\ rblock.sequence >= rsince[2]

\* The published queue never mixes commands and never has a gap: its blocks are
\* of one load and seek, their positions are consecutive, and only the newest
\* may be the last of the source.  decode_loop publishes a new pipeline for
\* every load, seek and layout, and drops what it decoded meanwhile.
QueueCoherent ==
  pipeline # None =>
    LET q == pipeline.queue
    IN  \A i \in 1..Len(q) - 1 :
          /\ q[i + 1].generation = q[i].generation
          /\ q[i + 1].sequence = q[i].sequence
          /\ q[i + 1].position = q[i].position + 1
          /\ ~q[i].last

\* A block that was read for the latest command finds room in the published
\* queue: decode_loop reads only into a queue it has seen not full, or into one
\* it has just published, and would otherwise lose the block.
NoBlockLost ==
  dpc = "push" /\ CommandIsCurrent =>
    QueueHasRoom

\* While the buffer layout does not change, nothing is played again: what is queued
\* for the latest command lies ahead of the block that was reported last for it, and
\* after the end of the source none is left.  on_render takes blocks off the queue
\* and decode_loop reads on from them, whatever it reads again for other commands.
NothingPlaysTwice ==
  pipeline # None =>
    \A i \in 1..Len(pipeline.queue) :
      LET block == pipeline.queue[i]
      IN  Latest(block) => (told => block.position > position) /\ ~reachedEnd

\* While the buffer layout does not change, the reported position goes back in three
\* places only: where a command takes it (load, seek_to), at the first block that is
\* reported for a command (a seek or a replay may begin anywhere before the position
\* shown till then), and at the end of the source, which shows the duration that the
\* source told.  Neither a late callback nor the decode worker takes it back otherwise.
PositionMonotone ==
  [][position' < position =>
       \/ generation' # generation \/ seekSequence' # seekSequence
       \/ ~told
       \/ reachedEnd' /\ ~reachedEnd]_vars

\* The wish to play is always visible: no actor leaves playback_intent_playing_
\* set under a status that says nothing will play.
IntentIsVisible == intent => status \in {"loading", "playing"}

\* Once close() has begun, the snapshot is frozen: no late callback, decode
\* worker or recovery failure reports anything (device_lost is the exception: a
\* reopening under way may still clear it).
ShutdownSilent ==
  [][shuttingDown => UNCHANGED <<status, position, completionToken, progress>>]_vars

-----------------------------------------------------------------------------
(* Devices and shutdown.                                                   *)

\* With nothing left to reopen, the stream plays on the device that was selected
\* last: a recovery that copied the configuration before a selection cannot
\* have the last word, since reopenings exclude each other.
OpenDeviceIsSelected ==
  stream = "running" /\ reopen["select"] = "idle" => streamDevice = selectedDevice

\* When close() has returned nothing is published or playing, the recovery thread
\* is gone and the stream closed: the session's callback is never used again.
ClosedIsQuiet ==
  closing = "closed" =>
    pipeline = None /\ rpc = "idle" /\ stream = "none" /\ reopen["recovery"] = "exited"

\* close() returns, whatever the decoder does and whoever else is reopening.
CloseTerminates == closing = "decoder" ~> closing = "closed"

\* With automatic recovery, a failed endpoint is replaced or the failure reported:
\* no request to recover is lost between recovery_loop, select_output_device and
\* on_stream_error.
FaultIsHandled ==
  stream = "faulted" ~> stream = "running" \/ status = "error" \/ shuttingDown

\* A source that is to be played is played to its end, unless somebody pauses.
PlaysToEnd == generation > 0 /\ intent ~> ~intent \/ shuttingDown

-----------------------------------------------------------------------------
(* What the documentation of playback_state says.                          *)

\* "loading: the source is being opened, decoded or otherwise prepared": loading
\* ends.
LoadingEnds == status = "loading" ~> status # "loading" \/ shuttingDown

\* pause() keeps "the loaded source and the timeline snapshot": what is played
\* next for the same command lies ahead of the position that was paused at.
PauseKeepsTimeline ==
  ~intent /\ told /\ ~reachedEnd /\ pipeline # None /\ pipeline.queue # <<>> =>
    LET next == Head(pipeline.queue)
    IN  Latest(next) => next.position > position
=============================================================================
