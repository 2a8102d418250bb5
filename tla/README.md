# TLA+ models of Sonotide

Models, model-checking instances and machine-checked proofs for the concurrent core of Sonotide:
the high-level playback session (`src/playback_session.cpp`), the wait-free structures between its
decode worker and its real-time callback, the session's equalizer, the Media Foundation decoder
(`src/internal/win/media_foundation_decoder.cpp`) and the WASAPI stream handle underneath
(`src/internal/win/wasapi_stream_handle.cpp`).  Paths in this file are relative to the root of the
repository; `PROJECT.json` writes the same paths with a leading `src/`.

## 1. The system

```
 application threads            decode worker                recovery thread
   load play pause seek_to        decode_loop                  recovery_loop
   select_output_device close       |  ^                          |
        |                           |  | request (mutex_)         | reopen_render_stream
        v                           v  |                          v
   +------------------- playback_session::implementation ----------------------+
   | request, epoch, intent | pipeline slots + decoded_audio_queue | state_     |
   +---------------------------------------------------------------------------+
        ^ on_render (try_lock only, wait-free queue)      ^ on_stream_error
        |                                                 |
   +------------------- wasapi_stream_handle: one detached worker --------------+
   | start stop reset close from any thread, and from inside the callback       |
   +---------------------------------------------------------------------------+
```

| component | state it keeps | operations | what is hard | what makes it correct |
|---|---|---|---|---|
| transport and reporting (`playback_session.cpp`) | requested generation, seek sequence, decoder epoch, pending seek, intent; `state_` | `load`, `play`, `pause`, `seek_to`, `select_output_device`; the reports of callback and worker | commands overtake work that is already under way; the callback may only try the mutex | nothing superseded is played, nothing is lost or played twice, the status tells the truth |
| decode worker | locals of `decode_loop`; the decoder | open, seek, read, publish a pipeline, push a block | results arrive after the request changed; exceptions; a decoder that hangs | stale results are dropped, the queue is one gapless run of blocks |
| pipeline slots (`pipeline_slots_`, `decoded_pipeline_`, `render_hazard_`) | three payloads, the published pointer, a hazard pointer | announce, validate, leave; choose, rebuild, publish; withdraw | reuse of memory beside a callback that takes no lock | no payload is rebuilt while it is used, and a free one is always found |
| decoded audio queue (`decoded_audio_queue.h`) | slots, two atomic indices | `try_push`, `try_pop`, `full` | two threads without a lock | a bounded FIFO; no slot is touched by both |
| recovery and device selection | `recovery_requested_`, the render stream, the selected device | `recovery_loop`, `reopen_render_stream` | two threads reopen, the device fails in between, opening fails | the last selection wins; no failure goes unhandled |
| shutdown | `shutting_down_`, `closed_` | `close` | a decoder that does not return; joining threads that need locks | it terminates, and afterwards nothing runs |
| stream handle | state machine, `status_`, `worker_active_`, stop event, startup result | `start`, `stop`, `reset`, `close`; the render and capture workers | every call waits with the mutex released; the callback calls back in | one worker at a time; none after `close` |
| stream wrappers | an atomic shared pointer | move, `close`, forwarding | close from several threads | planned |
| Media Foundation decoder | cancellation epoch, source reader, decoded samples not yet delivered, time of the next one | `open`, `seek_to`, `read_frames`, `close`, `request_cancel` | a cancellation between any two system calls; samples of any size; truncated time steps; the largest timestamp | a call answers only for the current command; blocks are the source's frames in order |
| equalizer of the session | bands, preset, remembered gains, gain, volume, preamp, control version | band, preset and gain operations, `apply_equalizer_state`, `reset_equalizer` | each operation keeps layout and description by its own rules; the callback works on a copy and reports late | layouts stay legal and truthfully described; a chain that is not told anything has nothing to be told |
| DSP chain | what it was told last, transitions under way | configure, set bands, process | transitions that are replaced half way | what it was told last is reached; the filters are floating point and out of reach |
| validation of stream parameters | none | conversions with overflow checks | fixed width arithmetic | planned |
| runtime, devices, COM, formats, errors | none, or the platform's | forwarding, I/O | - | not modelled |

Threads meet in three ways: the session mutex (`mutex_`) and two coarser ones around it
(`decoder_command_mutex_` for commands that cancel the decoder, `stream_operation_mutex_` for
reopening); atomics between decode worker and callback; and the condition variables of the stream
handle.

`PROJECT.json` lists every hazard found in the code at its line, with the properties that are
about it or the reason why none is yet.

## 2. Modules

| module | models | notes |
|---|---|---|
| `PipelineHazard` | `render_hazard_guard` and the loop of `on_render` (242-251, 996-1009), `prepare_pipeline_slot`, `publish_decoded_pipeline_if_current`, the withdrawal in `close` | one action per atomic access; parameter `SlotCount` |
| `PipelineHazardProofs` | - | theorems for every `SlotCount >= 3` |
| `BoundedFifo` | - | what the queue promises: a sequence of at most `Capacity` blocks |
| `DecodedAudioQueue` | `decoded_audio_queue` | `try_push` and `try_pop` split at index load, copy and index store; refines `BoundedFifo` |
| `DecodedAudioQueueProofs` | - | theorems for every capacity, among them the refinement |
| `DecodeWakeup` | the wait of `decode_loop` (1236-1251), the callback's `try_lock`, pop and `notify_one` (977-1027) | composes the ring with the sleep of the worker; parameter `Capacity >= 2` |
| `DecodeWakeupProofs` | - | theorems for every capacity from two on |
| `MediaTime` | `milliseconds_to_100ns`, `advance_timestamp` | the arithmetic of 100 ns ticks, its units and width as parameters |
| `DecoderContract` | - | what `decode_loop` relies on: every decoder call happens at once |
| `MediaFoundationDecoder` | `media_foundation_decoder` | one action per look at the cancellation epoch and the system call after it; refines `DecoderContract` |
| `MediaFoundationDecoderProofs` | - | theorems for every set of sources, sizes, rates and timestamps, among them the refinement |
| `Equalizer` | the equalizer and volume operations of the session, `on_render`'s copy, use and report of the controls, the part of `equalizer_chain` that says what it was told | one action per critical section |
| `EqualizerProofs` | - | theorems about layouts, descriptions and what a chain was told, for all limits, presets and values |
| `PlaybackSession` | the session: transport, worker, callback, recovery, close | uses the two above at their abstract level: a pipeline is a sequence of blocks, acquiring it is one step |
| `SessionControlProofs` | - | theorems about intent, device, recovery and shutdown, with the invariant of the session's control |
| `PlaybackSessionProofs` | - | theorems about types, queue and order of playing, for every source, queue size, set of layouts and devices |
| `StreamHandle` | `wasapi_stream_handle_base`, both workers, `stream_state_machine` | one action per critical section and per call of the audio client |
| `StreamHandleProofs` | - | theorems for every set of threads and number of starts |
| `MC*` | - | instances for TLC |

Some definitions are preceded by a `Variant:`, the same definition with a plausible bug.  No
specification uses them.  Each is what the model would look like if the code had that bug, and is
there to show that the property named with it in `PROJECT.json` would then fail.

### How `PlaybackSession` corresponds to the code

* A critical section of `mutex_` is one action; so is every call of the decoder or the stream made
  without it.  `dpc`, `rpc`, `reopen[a]` and `closing` say where decode worker, callback, the two
  threads that reopen, and `close` are between two of them.
* Positions count blocks instead of milliseconds.  A source has `MediaLength` blocks; a block has
  the generation and seek sequence it was decoded for, the position after it, and whether it is
  the last.  Samples are left out; volume and equalizer are in `Equalizer`.
* `MediaLength` is where the decoder ends a source, `Duration[g]` what the source of the `g`-th load
  tells of its length: zero if it tells nothing, and perhaps an estimate
  (`media_foundation_decoder.cpp` 178-189).  The two are independent.  The session shows the
  duration at the end of the source (1066), whatever has been played.
* `Targets` are the positions commands may ask for.  The session lifts negative ones to zero
  (`Clamped`, 472) and knows no upper bound, so they may lie beyond the end.
* After a seek the decoder takes its clock from the first sample it gets, which may lie before the
  target (`Landings`, `media_foundation_decoder.cpp` 626), in the model by any number of blocks;
  where nothing is left to read it stays at the target, and only the end follows.  Timestamps of a
  source are assumed to begin at zero and to count its blocks.
* `told` is not in the code: it remembers whether a block was reported since the latest load, seek
  or replay.  No guard reads it.
* Format and frame count together are a *layout*.  A callback with another layout makes the worker
  open the source anew, as `decode_loop` does.
* `decoder_cancellation_epoch` is `cancelEpoch`: a decoder call for an older epoch fails.
* `RenderFinish(locked)` models `try_to_lock`: with `LockMayFail` the mutex may be taken.
* A pipeline replaced while the callback holds it stays the callback's own (`rdetached`).
* Exceptions of the worker (`DecodeThrow`) end it through `decode_worker_entry`.
* `wait_for` with a timeout in `close`: the decode worker may or may not have finished
  (`CloseDecoder`), and a detached one goes on taking steps.

### How `StreamHandle` corresponds to the code

* `call[t]` is where an application thread waits inside `start`, `stop`, `reset` or `close`; the
  action that begins a wait ends there, since the mutex is released.
* `worker[w]` is where the worker of the `w`-th launch is.  Workers are separate processes, so that
  there being only one is a property and not an assumption.
* `Successors` is the control flow of the two loops.  They differ: `break` leaves the loop of the
  render worker, but in the packet loop of the capture worker only that inner loop.
* A call from inside the callback is `SelfStop` or `SelfClose`; the other calls are refused there
  and change nothing.
* `device_lost`, statistics, formats and the validation of the parameters are left out.  A
  validation that fails changes nothing.

### How `MediaFoundationDecoder` corresponds to the code

* All but the epoch belongs to the decode worker, so a step reaches from one look at the epoch to
  the next, with the system call in between; `pc` says before which call the worker is.
* `call` is the epoch `decode_loop` passes, `epoch` is `cancellation_`.  `TakeCommand` lets a call be
  made for a command that is already superseded.
* A source is its number of frames, a frame its number in the source; a decoded sample is the run of
  frames from the reader's next one.  Media Foundation may give any number up to `MaxSample`,
  nothing, an error or the end.  Time is counted in ticks of a small unit: a frame takes five halves
  of a tick, so that truncation happens, and `MaxTime` is close enough for the checks against it to
  bite.
* After `SetCurrentPosition` the reader stands at the frame played then or the one before
  (`Landings`).  A seek that is cancelled or fails after the call leaves it there with the old
  samples buffered.
* `mayRead` is not in the class.  It is what `decode_loop` does: after a failed call, the last
  block or a `close` it reads no more before another open or seek.

### How `Equalizer` corresponds to the code

* Frequencies and gains are integers, with the code's clamps, differences and comparisons; the
  rounding of floats is left out.  A preset is a table of gains.  The width of a band and the sound
  are left out; `SetBandQ` is there for what else it changes.  A band above the rate adds nothing to
  the headroom.
* `Normalize` is the three passes of `normalize_equalizer_bands` in their order: `Clamped` cuts and
  clamps, `Sorted` sorts, `PushedUp` and `PushedDown` move the bands apart.  `std::sort` need not be
  stable; so few bands are sorted by insertion in the libraries the code is built with, so two bands
  at one frequency stay in order, and that is modelled.
* A session that is constructed or given a state with more bands than are allowed refuses it
  (269-270, 731), so the cut in `Clamped` is never met there.
* `LayoutAssumption`, `PresetAssumption`, `ArgumentAssumption` and `DefaultAssumption` are what the
  proofs need: there is room for as many bands as are allowed, preset curves are within the gain
  limits and flat is zero, arguments are numbers (what is not finite is refused before
  anything else), and the default layout is legal.
* `version` is `equalizer_control_version_`; a chain that was told nothing has version -1 for the
  largest unsigned number.  The version 0 of the start stands for what the constructor sets.
* `workerRate` is the rate the decode worker took before it released the mutex: the pipeline may be
  published for a rate the callback no longer asks for.
* A transition of the preamp takes two blocks, however many samples it takes in the code.
* `RenderCopy`, `RenderBlock` and `RenderReport` are the callback under its first lock, without a
  lock, and under the second one, which it may not get.
* Only what the equalizer needs of engine, recovery and worker is there; the rest of them is in
  `PlaybackSession`.

## 3. What is checked

Every run is exhaustive for its constants.

| run | question | bounds |
|---|---|---|
| `hazard` | Is a payload ever rebuilt or published wrongly, is a slot always found, does the callback ever retry, does `close` drain? | the session's three slots |
| `queue` | As a session uses it: is the ring a FIFO, does a block that was promised room get it, do both sides keep to different slots, does a worker that sleeps over a full ring wake? | the session's four usable slots, so that both indices wrap, and blocks that fit and that do not |
| `transport` | Is anything played that was superseded, is anything lost or played twice, does the timeline run backwards? | two loads, two seeks, replays or selections, sources of three blocks, one without a duration and one with too long a one, seeks below zero, into the source and beyond its end, a queue of one, a contended mutex, a failing decoder |
| `reconfigure` | Does the queue stay coherent and the status honest if the layout changes, the endpoint fails without recovery, the worker dies? | two layouts, one load, one seek as in `transport`, a source of three blocks, one failure |
| `control` | Who wins when a failure, a selection and `close` want the stream at once, and does `close` end in silence? | two devices, one selection or seek, one failure of the endpoint, failing reopenings |
| `playing` | Is a source that is to be played played to its end, does loading end? | a source of two blocks, one seek or replay |
| `stream` | Can two workers run, can one survive `close`, can one die unnoticed, is every wait answered? | two threads, two launches, both kinds of stream |
| `decoder` | Are blocks gapless and in order whatever Media Foundation gives, does the clock follow the samples, does a superseded call return? | sources of four and six frames, blocks of three, samples of up to three, two cancellations |
| `equalizer` | Do layouts stay legal and truthfully described, is a change ever missed by a chain, is the last one heard? | three bands in six frequencies two apart, three presets, two rates, two changes |
| `claim_end`, `claim_pause`, `claim_headroom` | Does the code keep what its documentation says? It does not: see section 5. | the smallest instance that shows it |

Why these bounds are enough to be interesting.  Staleness needs one command to overtake another: two
loads and two seeks give every pair of old and new at every point of the worker and the callback.
A source of three blocks has a first, a middle and a last one, and a position a late block could
fall back from; targets in its middle and beyond its end have early landings and exact ones;
with a queue of one the queue is full at every turn (`transport`), with a queue of
two it can be empty, in between and full (`reconfigure`, `playing`).  Two reopening threads exist in the code, so two devices
and one selection give the race for the last word; the first failure may hit at every point of it.
In the stream handle two threads and the callback give every pair of concurrent calls, and two
launches a worker and its successor.  In the decoder one source is a multiple of no block and one is
two blocks exactly, samples may be smaller than a block, as large, or meet it half way; the largest
timestamp is passed by the silent block after the longer source, and one target of a seek is beyond
it.  In the equalizer three bands at
distance two in six frequencies leave layouts with room for another band, without, and requests
that have to be pushed apart from both ends; the first change meets every point of a callback begun
before it, the second one every point of one that carries the first.  The bounds named `Max...` stand in guards of actions of the
environment (loads, seeks, failures, launches, cancellations, changes).  The proofs do not depend on them.

### Fairness

* `ControlFairness` (session): a callback that has begun ends, threads that hold or wait for a lock
  are scheduled.  Nothing is assumed of the decode worker, which may hang in the decoder, and
  nothing makes the device ask for samples.  Strong fairness of `ReopenClose`: closing the stream
  waits until no callback runs; callbacks may come again and again before that, but the stream's
  worker leaves its loop at the first wait after its stop event is set, since the stop event is the
  first of the two handles (`OneLateCallback` in `StreamHandle`).
* `PlayingFairness` is added in runs about progress of playback: decoder calls return and the device
  asks for samples.  Both are what the code is written for; neither is assumed where `close` or
  recovery is at stake.
* `Fairness` (stream handle): waiting threads wake, callbacks return, calls of the audio client
  return, and the packet loop of a capture worker now and then finds no packet (strong fairness of
  the step back to the loop).  Audio itself need never arrive.
* `WF_vars(Worker)` (decoder): system calls return and the worker goes on with a call it has begun.
  That Media Foundation ever has a sample is not assumed.
* `WF_svars(Render)` (ring in a session): a playing stream calls back again and again, and a callback
  goes on.  That a command or a spurious wake-up ever rouses the worker is not assumed.
* Equalizer: a callback that has begun ends.  That blocks go on being played is the premise of
  `ChangesAreHeard`, not an assumption.

Deadlock is checked for the stream handle, the queue and the decoder.  It is not for the session,
the equalizer and the slot hand-off, which stop when everything is closed or the bounded environment is used up; what must not get stuck there is
stated as liveness.

## 4. What is proved

All proofs are checked by TLAPS, for every value of the constants that the assumption of the module
allows.

**Slot hand-off** (`SlotCount >= 3`).  The inductive invariant has four parts.  *MutexInv*: the
callback tries the session mutex and holds it over the acquisition, so the published pointer cannot
move then.  *HazardInv*: what the callback has validated is announced.  *ScanInv*: the slot the
worker chose is neither published nor announced, and remains so.  *CloseInv*: the order of
withdrawal.  Neither safety property is inductive alone: that a slot under construction is not in
use holds because the callback can only announce what is published and the worker publishes only
under the mutex.  From it follow `NoRebuildInUse`, `NoHalfBuiltPublished`, `SlotAlwaysFound` (by
the lemma that excluding any two of three slots leaves a first one), `RenderNeverRetries` and
`ClosedIsQuiet`.

**Decoded audio queue** (every capacity).  The invariant relates the two indices, the sequence of
blocks between them and what either side has loaded; it gives `NoSlotRace` and `RoomIsKept`, and the
step simulation that proves `Refinement`: the ring implements `BoundedFifo` with the queue read off
the slots between the indices.  Induction over the length of the queue is not needed, since each
step changes one end.

**Decode worker's sleep** (`Capacity >= 2`).  `notify_one` (1027) is called after the pop and without
the mutex, so it may come between the worker's test of `full()` and its sleep.  The code is right
because of two facts that stand far from that line: the worker holds the mutex from its test to its
sleep and the callback tries it when it begins, so only a callback that was already past it can pop
in between, and it pops one block; and the ring holds more than one, so another pop follows.
*SleepInv* says this (while the worker tests, the ring is full, or one short with the callback
outside or about to notify), and `NeverForgotten` follows; with a ring of a single block, or a
callback that did not try the mutex, the worker would sleep beside an empty ring.
`SessionUsesRing` carries the theorems about the ring over to the session.  That the worker does
wake (`SleeperWakes`) is liveness and only model-checked.

**Stream handle** (every set of threads, every number of launches).  `OneWorker` needs
*FlagTellsWorkers* (the flag `worker_active_` is set while a worker lives); `ClosedIsQuiet` needs
*ClosedIsFinal* (`closed_` never falls, the machine stays closed, and a close that returned saw the
flag fall); `NoSilentDeath` needs *EndIsAccounted* (a worker that is about to end under a machine
that says running was asked to stop, and a set stop event means a request).  `OneLateCallback` needs
*LateInv*: a living worker that was asked to stop has its stop event set, and a render worker that
began a callback since is past its tick and can only wait, where the stop event comes first.

**Media Foundation decoder** (every set of sources whose timestamps fit, every block and sample
size, rate, unit and width of time, any number of cancellations).  The invariant says what each step
of a call may rely on (*ControlInv*), that a sample is asked for only when less than a block is left
and that the reader is at its end once the end was seen (*EndInv*), and that the buffer holds the
frames just before the reader's next one (*BufferInv*).  The contract's next frame is that one less
what is left in the buffer; with the invariant each action is a step of `DecoderContract` or
invisible, which gives `ImplementsContract`.  `SamplesAreAccountedFor` adds *ClockInv*: a block read
moves the clock by a truncated step and its frame by the exact one, and truncating a sum loses at
most one tick more than truncating its parts (`DivAdd`, `IncrementAdd`).

**Equalizer** (every limit, preset, value and number of changes).  Two invariants share the module.
*LayoutInv* is about the bands: legal and in range, described by the active preset, with remembered
gains that fit them and are the gains themselves while the layout is not flat.  Every operation
keeps it for a reason of its own: `NormalizeIsLegal` for a state brought along, for every list of
bands whatsoever; the room between `Lowest` and `Highest` for a band that moves (`MovedIsLegal`) or
is added (`InsertFacts`); the distance of the neighbours for one that goes (`RemoveFacts`);
`RecognisedDescribes` for the description.  In `NormalizeIsLegal` the pass upwards leaves the bands
apart but perhaps too high, and no higher than the pass downwards can repair, because there is room
for the bands below each (`Floor`); that the clamp at the lower limit never brings two bands together
is the same fact.  The passes are recursive functions.  What is an induction over the bands is done
as an argument about the least band that fails (`LeastNumber`, from the well-foundedness of finite
sets), so the library's induction rules with their operator parameter are not needed; sorting is
described by how many bands come before each (`PlaceOrder`, `SortedFacts`).  From *LayoutInv* follow
`LayoutIsLegal`, `DescriptionIsTrue` and `SavedStateComesBack`: on a layout that edits have made,
normalizing is the identity (`NormalizeKeeps`), so a state that is saved and restored is the same.
The last one is not the property of a run; it was checked on the run `equalizer` before it was proved.

The other invariant is about the controls.  Chain, copy and held chain are
each either of an older version or equal to the controls (*Agrees*); every change of the controls
moves the version, and telling a chain a copy keeps the relation.  It gives `UpToDateMeansEqual`.

**Session: control** (`SessionControlProofs`; every set of devices and layouts, any number of
commands and failures, with and without automatic play and recovery).  Three
invariants hold together the threads that meet in recovery and `close`.  *ShutdownInv*: the shutdown
flag is set exactly from the beginning of `close` on, no selection is under way beside it, and each
later stage of `close` finds the earlier ones done: the recovery thread gone and the pipeline
withdrawn, at last no callback and no stream.  A callback that the withdrawal overtook holds the
queue that was withdrawn.  *DeviceInv*: the two threads that reopen exclude each other, there is no
stream between closing and opening, a configuration the recovery thread has copied is the selected
one unless a selection waits for its turn, and a running stream is on the selected device unless a
selection is still to reopen it.  *IntentInv*: nobody wishes to play while no source is loaded,
where `pause` and `play` report idle and error.  From the three follow `OpenDeviceIsSelected`,
`ClosedIsQuiet` and `IntentIsVisible`.  `ShutdownSilent` is an action property: every action that
writes the report looks at the shutdown flag, and the commands, which look at `closed_`, need
*ShutdownInv* for that.

**Session: playback** (`PlaybackSessionProofs`; every length of source, all durations told, all
targets of seeks, every number of slots).  The types come first, in three parts (request and report,
pipeline and callback, worker).  *CommandInv* orders the copies of a request: what the worker serves
is not newer than its command, nor that than the request.  *ServedInv* says what the worker knows at
each place: whose source is open, that it reads only where there is room, and that only `close`
takes the pipeline from it; *FeedInv*, that a block read is the decoder's last and answers the
command.  *QueueInv* is `QueueCoherent` in a form that steps keep: any two blocks of the queue stand
as far apart as their positions, and the block to be read next continues the last one.  These give
`TypeOK`, `FreshBlocks`, `QueueCoherent` and `NoBlockLost` without any hypothesis on layouts, locks,
exceptions or failures.

`NothingPlaysTwice` and `PositionMonotone` are about the order in which callback, worker and
commands see one timeline.  The reported position may go back where a command takes it, at the first
block reported for a command (a seek may land early, a replay and a selection keep the old position
till then) and at the end of the source, where the session shows the duration it was told.
`PositionMonotone` says that it does nowhere else, `NothingPlaysTwice` that what is queued for the
latest command lies ahead of the block reported last for it.  Both are proved under one hypothesis,
*OneLayout*: once a callback has brought a buffer layout, it stays.  The hypothesis is needed: after
a change of layout the worker opens the source again at its start, which is what `claim_pause`
shows.  Where there is only one layout, as in the run `transport`, it holds (`SingleLayout`).

The invariant has, besides the above, *PastInv* (nothing in play, that is published, held or popped,
is of a request not made yet), *RequestInv* and *LayoutInv* (a worker on the latest request has its
epoch, opens and seeks only while that request is not served, and opens a source again only if it
has failed), and *OrderInv*, whose parts follow a block on its way: before the latest request is
served nothing was reported for it and nothing in play is of it (*UntoldInv*, *LatestInv*); once
served, what was reported is not beyond what is decoded (*FeedOrder*); a popped block is ahead of
the report, and everything queued or to be decoded is ahead of it (*MixedInv*); what is queued is
ahead of the report (*AheadInv*); a queue that was replaced under the callback has nothing of the
latest request (*DetachedInv*).  A position enters these only once a block has told it (`Reached`),
so neither the target of a seek nor the duration shown at the end is taken for one of the source.

`SessionAssumption` asks for a source and a queue of at least one block, durations that are not
negative and targets that are integers, and leaves everything else open; `NoneAssumption` says that
the value for "nothing" is neither a block nor a pipeline.  All these invariants were model-checked before they were proved, on one layout with seeks, replays
and selections, on two layouts, and on instances with exceptions and failing endpoints.

**Only model-checked.**  All liveness properties (`CloseTerminates`, `FaultIsHandled`,
`PlaysToEnd`, `LoadingEnds`, `WaitTerminates`, `StartupEnds`, `CancelledCallReturns`,
`ChangesAreHeard`, `SleeperWakes`): liveness under fairness is beyond the prover.  Every other
property of the passing runs is a theorem.  The counterexamples of section 5 are TLC's.

## 5. Where code and documentation disagree

Each of the `claim_` runs has a counterexample; `PROJECT.json` quotes both sides.

* `claim_end`: the block that ends the source is popped once; if the callback then finds the mutex
  taken (1051) nothing remembers the end.  The status stays at playing and the completion token
  does not move.
* `claim_pause`: a change of the buffer's format or size, also while paused, restarts the source at
  zero if no seek is pending (1335).
* `claim_headroom`: the callback reports the preamp of the curve it copied (1058) after an edit has
  computed that of the new one.  The version has moved, so the old preamp goes to the chain with the
  new bands and stays until the next edit.

Met while modelling, without a run of their own:

* `pause()` between the two locks of one callback is overwritten by `playing` (1060).  The status
  stays so while the session is paused and gives silence; the model has these states.
* At the end of a source the reported position jumps to the duration (1066): back to zero if the
  source tells none, back or ahead if the duration is an estimate.  A seek beyond the end reports its
  target until then.
* `stop`, `reset` or `close` of a stream that waits for its worker goes on waiting for the next one
  if another thread starts the stream before it wakes (336).
* The packet loop of a capture worker does not look at the stop event (1181): packets that never run
  out keep a `stop` waiting.  The fairness of `StreamHandle` assumes that they run out.
* `on_stream_error` sets `loading` whatever the session did (1083); nothing takes it back if there
  is nothing to play.
* A second `close()` of a stream succeeds while the first still waits for the worker
  (`wasapi_stream_handle.cpp` 382-384), so the callback may be running when its caller was told
  that the stream is closed.
* After an endpoint failure the equalizer stays at `audio_engine_unavailable` although recovery
  succeeded (1086, 1612), until `select_output_device`.  With recovery switched off the status is
  `error` instead, and an edit turns it into `ready` while the stream is down.
* The second half of `reset_equalizer` does not look at `closed_`, and an edit from another thread
  may come between its two halves.
* Removing or adding a band of a flat layout forgets the remembered gains; those brought along with
  `apply_equalizer_state` are not put in the order of the bands they are for.
* The decoder empties `decoded_samples_` only when it is used up exactly.  With sample and block
  sizes that never meet there the vector grows with the source, and the clock runs behind by up to
  one tick (100 ns) a block.
* The last block is padded with silence, and its position lies after the end of the source.  A
  source that is a multiple of the block has its end told with another block of silence.
* A seek after a failed open fails with "Cannot seek before a source has been opened", which hides
  the reason.
* `load()` sets the completion token to zero (403), although it is called monotonic, and clears
  `device_lost` (402) while the endpoint may still be lost.
* After a source error `play()` sets `loading`, but the failed request is not tried again.
* The end of the source, then an endpoint failure, then `play()`: `reached_end_of_stream_` was
  cleared (1085), nothing seeks and nothing is left to decode.
* A replay asks for a seek to zero but keeps `position_ms`; `select_output_device` before its first
  block takes that position as target (786).
* A failed recovery reports its error after releasing the stream mutex, also over a selection that
  succeeded meanwhile.
* `start()` of a stream stores `running` after it has slept (786): over a fault of the new worker,
  and over `closed` (`stream_state.h` 17 calls it final).
* `close()` from inside the callback leaves the state machine at running: after the worker has
  ended, `start` and `reset` are refused.
* A capture worker that failed inside its packet loop goes on delivering packets while the stream is
  faulted; a render worker ends.
* A `start()` that has not yet woken from a startup waits for ever if, before it wakes, the stream is
  reset and the next `start()` cannot create its thread.

## 6. Not modelled, and why

* Samples, filters, the response sampler and the width of a band: floating point.
* The notifications of the decode worker other than the callback's: in `DecodeWakeup` a command may
  wake it at any time, in `PlaybackSession` it wakes whenever its predicate holds.  Those
  notifications follow a change made under the mutex the worker tests with, so none can be lost.
* Media types, allocation and locking of buffers inside the decoder: a call that can fail does, the
  kind of failure is left out.
* Enumerators, COM, error mapping, wave formats, the runtime facade: platform calls and tables.
* Memory orders: all atomics are sequentially consistent in the models.  The slot hand-off uses
  `seq_cst` throughout; the queue uses acquire and release on an index that only one side writes,
  for which the models' interleavings are the outcomes.

## 7. Plan

1. `StreamWrapper` over `StreamHandle`: move, move-assignment, close from several threads.
2. `device_lost` and the snapshot of devices in `PlaybackSession`.
3. The arithmetic of the stream validation against unbounded reference definitions.
4. An abstract transport (what a listener hears) that `PlaybackSession` implements.
