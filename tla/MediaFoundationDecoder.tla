----------------------- MODULE MediaFoundationDecoder -----------------------
(***************************************************************************)
(* The Media Foundation decoder.  The decode worker calls open, seek_to,   *)
(* read_frames and close; any other thread may call request_cancel between *)
(* their steps.  A step is the code from one look at the cancellation      *)
(* epoch to the next, with the system call in between: everything else it  *)
(* touches belongs to the worker, so a cancellation inside it could as     *)
(* well have come before it.                                               *)
(***************************************************************************)
EXTENDS MediaTime, Sequences

CONSTANTS
  Sources,      \* what can be opened, each given by its number of frames
  BlockFrames,  \* the frame count the worker reads
  MaxSample,    \* the most frames Media Foundation gives at once
  SeekTargets,  \* the positions asked for, in milliseconds
  MaxEpoch      \* bounds the cancellations

ASSUME DecoderAssumption ==
  /\ Sources \subseteq Nat \ {0}
  /\ BlockFrames \in Nat \ {0}
  /\ MaxSample \in Nat
  /\ SeekTargets \subseteq Int

\* The timestamps Media Foundation gives are timestamps.
ASSUME SourcesAssumption ==
  \A n \in Sources : \A k \in 1..n + 1 : StartOf(k) \in 0..MaxTime

VARIABLES
  epoch,                      \* cancellation_
  pc, call, target,           \* the call under way, its epoch, its seek target
  reader, readerNext, opening,\* source_reader_, its next frame, new_source_reader
  buffer, offset,             \* decoded_samples_, decoded_sample_offset_
  nextTime, endOfStream,      \* next_sample_time_100ns_, end_of_stream_
  mayRead,                    \* the worker may read: its last call succeeded
  answer, block               \* what the last call returned

command == <<epoch, call>>
source == <<reader, readerNext, opening>>
decoded == <<buffer, offset, nextTime, endOfStream>>
vars == <<command, pc, target, source, decoded, mayRead, answer, block>>

NoReader == 0
Silence == 0

Init ==
  /\ epoch = 0 /\ call = 0 /\ pc = "idle" /\ target = 0
  /\ reader = NoReader /\ readerNext = 1 /\ opening = NoReader
  /\ buffer = <<>> /\ offset = 0 /\ nextTime = 0 /\ endOfStream = FALSE
  /\ mayRead = FALSE /\ answer = "none"
  /\ block = [frames |-> <<>>, position |-> 0]

RequestCancel ==
  /\ epoch < MaxEpoch
  /\ epoch' = epoch + 1
  /\ UNCHANGED <<call, pc, target, source, decoded, mayRead, answer, block>>

\* Variant: the epochs are not compared.
NeverCancelled == FALSE

Cancelled == call # epoch

\* The command a call is made for may have been superseded already.
TakeCommand == call' \in call..epoch /\ UNCHANGED epoch

ClearSamples(time) ==
  buffer' = <<>> /\ offset' = 0 /\ nextTime' = time /\ endOfStream' = FALSE

Fail == pc' = "idle" /\ answer' = "failed" /\ mayRead' = FALSE

Succeed(what) == pc' = "idle" /\ answer' = what

-----------------------------------------------------------------------------
(* open and close.                                                         *)

ReleaseReader == reader' = NoReader /\ readerNext' = 1 /\ opening' = NoReader

Close ==
  /\ pc = "idle"
  /\ TakeCommand
  /\ ReleaseReader /\ ClearSamples(0)
  /\ mayRead' = FALSE
  /\ UNCHANGED <<pc, target, answer, block>>

\* open closes first; then it refuses an empty URI or an unusable format.
OpenBegin ==
  /\ pc = "idle"
  /\ TakeCommand
  /\ ReleaseReader /\ ClearSamples(0)
  /\ \/ Fail
     \/ pc' = "opening" /\ mayRead' = FALSE /\ UNCHANGED answer
  /\ UNCHANGED <<target, block>>

\* A reader is made, or cannot be.
OpenCreate ==
  /\ pc = "opening"
  /\ \/ /\ Fail
        /\ UNCHANGED opening
     \/ /\ ~Cancelled
        /\ opening' \in Sources
        /\ pc' = "configuring"
        /\ UNCHANGED <<mayRead, answer>>
  /\ UNCHANGED <<command, target, reader, readerNext, decoded, block>>

\* Its output type is set; it is given up again if it takes none of that.
OpenConfigure ==
  /\ pc = "configuring"
  /\ \/ Fail /\ opening' = NoReader
     \/ pc' = "publishing" /\ UNCHANGED <<opening, mayRead, answer>>
  /\ UNCHANGED <<command, target, reader, readerNext, decoded, block>>

\* The duration has been asked for; the reader is published if still wanted.
OpenPublish ==
  /\ pc = "publishing"
  /\ IF Cancelled
       THEN Fail /\ UNCHANGED <<reader, readerNext, decoded>>
       ELSE /\ reader' = opening /\ readerNext' = 1
            /\ ClearSamples(0)
            /\ mayRead' = TRUE
            /\ Succeed("opened")
  /\ opening' = NoReader
  /\ UNCHANGED <<command, target, block>>

-----------------------------------------------------------------------------
(* seek_to.                                                                *)

\* No reader, or a target that is no timestamp, fails at once.
SeekBegin(ms) ==
  /\ pc = "idle"
  /\ TakeCommand
  /\ IF call' # epoch \/ reader = NoReader \/ MsToTicks(ms) = NoTime
       THEN Fail /\ UNCHANGED target
       ELSE /\ target' = MsToTicks(ms)
            /\ pc' = "seeking"
            /\ UNCHANGED <<answer, mayRead>>
  /\ UNCHANGED <<source, decoded, block>>

\* Variant: samples decoded before the seek stay in the buffer.
SeekKeepingSamples ==
  /\ pc = "seeking"
  /\ \/ /\ Fail
        /\ readerNext' \in {readerNext} \cup Landings(target, reader)
        /\ UNCHANGED decoded
     \/ /\ ~Cancelled
        /\ readerNext' \in Landings(target, reader)
        /\ nextTime' = target /\ endOfStream' = FALSE
        /\ UNCHANGED <<buffer, offset>>
        /\ mayRead' = TRUE
        /\ Succeed("sought")
  /\ UNCHANGED <<command, target, reader, opening, block>>

\* SetCurrentPosition.  A call cancelled meanwhile fails with the reader moved
\* and the old samples still buffered.
Seek ==
  /\ pc = "seeking"
  /\ \/ /\ Fail
        /\ readerNext' \in {readerNext} \cup Landings(target, reader)
        /\ UNCHANGED decoded
     \/ /\ ~Cancelled
        /\ readerNext' \in Landings(target, reader)
        /\ ClearSamples(target)
        /\ mayRead' = TRUE
        /\ Succeed("sought")
  /\ UNCHANGED <<command, target, reader, opening, block>>

-----------------------------------------------------------------------------
(* read_frames.                                                            *)

Available == Len(buffer) - offset

ReadBegin ==
  /\ pc = "idle"
  /\ mayRead
  /\ TakeCommand
  /\ IF call' # epoch \/ reader = NoReader
       THEN Fail
       ELSE pc' = "filling" /\ UNCHANGED <<mayRead, answer>>
  /\ UNCHANGED <<target, source, decoded, block>>

Enough == Available >= BlockFrames \/ endOfStream

\* The loop of ensure_decoded_frames starts with a look at the epoch.
FillStep ==
  /\ pc = "filling" /\ ~Enough
  /\ IF Cancelled THEN Fail ELSE pc' = "sampling" /\ UNCHANGED <<mayRead, answer>>
  /\ UNCHANGED <<command, target, source, decoded, block>>

\* ReadSample and the second look.  What it gave to a cancelled call is dropped.
SampleCancelled ==
  /\ pc = "sampling"
  /\ Cancelled
  /\ \E n \in 0..MaxSample : readerNext + n <= reader + 1 /\ readerNext' = readerNext + n
  /\ Fail
  /\ UNCHANGED <<command, target, reader, opening, decoded, block>>

SampleFails ==
  /\ pc = "sampling"
  /\ Fail
  /\ UNCHANGED <<command, target, source, decoded, block>>

SampleEnd ==
  /\ pc = "sampling"
  /\ ~Cancelled
  /\ readerNext > reader
  /\ endOfStream' = TRUE
  /\ pc' = "filling"
  /\ UNCHANGED <<command, target, source, buffer, offset, nextTime, mayRead, answer,
                 block>>

\* A flag without a sample: the loop goes round.
SampleAbsent ==
  /\ pc = "sampling"
  /\ ~Cancelled
  /\ pc' = "filling"
  /\ UNCHANGED <<command, target, source, decoded, mayRead, answer, block>>

\* Variant: the clock is not set by the first sample of an empty buffer.
SynchronisedNever == nextTime

\* The first sample of an empty buffer sets the clock.
Synchronised == IF buffer = <<>> THEN StartOf(readerNext) ELSE nextTime

\* A sample of n frames; it may turn out unusable, and is then dropped whole.
SampleArrives(n) ==
  /\ pc = "sampling"
  /\ ~Cancelled
  /\ readerNext + n <= reader + 1
  /\ readerNext' = readerNext + n
  /\ nextTime' = Synchronised
  /\ \/ /\ buffer' = buffer \o [i \in 1..n |-> readerNext + i - 1]
        /\ pc' = "filling"
        /\ UNCHANGED <<mayRead, answer>>
     \/ Fail /\ UNCHANGED buffer
  /\ UNCHANGED <<command, target, reader, opening, offset, endOfStream, block>>

\* Cancelled, a timestamp out of range, or no memory for the block.
ReadFails ==
  /\ pc = "filling" /\ Enough
  /\ Fail
  /\ UNCHANGED <<command, target, source, decoded, block>>

ReachedEnd == endOfStream /\ Available <= BlockFrames

\* Read on to the block: what is there, then silence; the time after it.
ReadBlock ==
  /\ pc = "filling" /\ Enough
  /\ ~Cancelled
  /\ Advance(nextTime, BlockFrames) # NoTime
  /\ nextTime' = Advance(nextTime, BlockFrames)
  /\ block' = [frames |-> [i \in 1..BlockFrames |->
                             IF i <= Available THEN buffer[offset + i] ELSE Silence],
               position |-> nextTime']
  /\ IF Available <= BlockFrames
       THEN buffer' = <<>> /\ offset' = 0
       ELSE offset' = offset + BlockFrames /\ UNCHANGED buffer
  /\ mayRead' = ~ReachedEnd
  /\ Succeed(IF ReachedEnd THEN "last block" ELSE "block")
  /\ UNCHANGED <<command, target, source, endOfStream>>
-----------------------------------------------------------------------------
Sample ==
  \/ SampleCancelled \/ SampleFails \/ SampleEnd \/ SampleAbsent
  \/ \E n \in 0..MaxSample : SampleArrives(n)

Worker ==
  \/ OpenCreate \/ OpenConfigure \/ OpenPublish \/ Seek
  \/ FillStep \/ Sample \/ ReadFails \/ ReadBlock

Next ==
  \/ RequestCancel \/ Worker
  \/ Close \/ OpenBegin \/ ReadBegin
  \/ \E ms \in SeekTargets : SeekBegin(ms)

\* The system's calls return and the worker goes on with a call it has begun.
Spec == Init /\ [][Next]_vars /\ WF_vars(Worker)

-----------------------------------------------------------------------------
TypeOK ==
  /\ epoch \in Nat /\ call \in 0..epoch
  /\ pc \in {"idle", "opening", "configuring", "publishing", "seeking", "filling", "sampling"}
  /\ target \in 0..MaxTime
  /\ reader \in Sources \cup {NoReader}
  /\ readerNext \in Nat \ {0}
  /\ opening \in Sources \cup {NoReader}
  /\ buffer \in Seq(Nat) /\ offset \in 0..Len(buffer)
  /\ nextTime \in 0..MaxTime
  /\ endOfStream \in BOOLEAN /\ mayRead \in BOOLEAN
  /\ answer \in {"none", "failed", "opened", "sought", "block", "last block"}
  /\ block \in [frames : Seq(Nat), position : 0..MaxTime]

\* ensure_decoded_frames asks for a sample only while less than a block is left:
\* what is decoded and not delivered stays small.
UndeliveredIsBounded == Available < BlockFrames + MaxSample

\* next_sample_time_100ns_ is when the first undelivered frame starts, less at most
\* one tick for each block read since the buffer was last empty: the increments are
\* truncated, and only an empty buffer takes the time of a sample.
ClockFollowsSource ==
  mayRead /\ buffer # <<>> =>
    LET start == StartOf(buffer[offset + 1])
    IN  nextTime \in start - offset \div BlockFrames..start

\* Both, through cancelled seeks, dropped samples and timestamps at their limit.
SamplesAreAccountedFor == UndeliveredIsBounded /\ ClockFollowsSource

\* A call whose command was superseded returns, even when Media Foundation goes
\* on answering without samples: close() waits for it a bounded time.
CancelledCallReturns == pc # "idle" /\ call # epoch ~> pc = "idle"

Contract == INSTANCE DecoderContract WITH
  length <- reader,
  next <- IF mayRead THEN readerNext - Available ELSE 0,
  frames <- block.frames

\* The decoder keeps the contract the decode worker relies on.
ImplementsContract == Contract!Spec
=============================================================================
