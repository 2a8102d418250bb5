-------------------- MODULE MediaFoundationDecoderProofs --------------------
(***************************************************************************)
(* The decoder keeps its contract, for every set of sources, block size,   *)
(* rate and number of cancellations: type correctness, the invariant       *)
(* behind it, and the refinement, one step for each action.                *)
(***************************************************************************)
EXTENDS MediaFoundationDecoder, TLAPS

\* The parts of TypeOK, each with its own lemma.
NamesOK ==
  /\ pc \in {"idle", "opening", "configuring", "publishing", "seeking", "filling", "sampling"}
  /\ answer \in {"none", "failed", "opened", "sought", "block", "last block"}

FlagsOK == endOfStream \in BOOLEAN /\ mayRead \in BOOLEAN

NumbersOK ==
  /\ epoch \in Nat /\ call \in 0..epoch
  /\ target \in 0..MaxTime
  /\ reader \in Sources \cup {NoReader}
  /\ readerNext \in 1..reader + 1
  /\ opening \in Sources \cup {NoReader}
  /\ buffer \in Seq(Nat) /\ offset \in 0..Len(buffer)
  /\ nextTime \in 0..MaxTime

BlockOK == block \in [frames : Seq(Nat), position : 0..MaxTime]

-----------------------------------------------------------------------------
\* Every step leaves the call's place and its answer among the known ones.
LEMMA NamesStep == NamesOK /\ [Next]_vars => NamesOK'
BY DEF NamesOK, Next, Worker, Sample, vars,
  RequestCancel, Close, OpenBegin, OpenCreate, OpenConfigure, OpenPublish, SeekBegin, Seek,
  ReadBegin, FillStep, SampleCancelled, SampleFails, SampleEnd, SampleAbsent, SampleArrives,
  ReadFails, ReadBlock, Fail, Succeed

\* The flags stay Boolean.
LEMMA FlagsStep == FlagsOK /\ [Next]_vars => FlagsOK'
BY DEF FlagsOK, Next, Worker, Sample, vars, decoded, ClearSamples,
  RequestCancel, Close, OpenBegin, OpenCreate, OpenConfigure, OpenPublish, SeekBegin, Seek,
  ReadBegin, FillStep, SampleCancelled, SampleFails, SampleEnd, SampleAbsent, SampleArrives,
  ReadFails, ReadBlock, ReachedEnd, Fail, Succeed

-----------------------------------------------------------------------------
(* The arithmetic of time.                                                 *)

\* A target accepted by milliseconds_to_100ns is a timestamp.
LEMMA TicksFit ==
  ASSUME NEW ms \in Int, MsToTicks(ms) # NoTime
  PROVE  MsToTicks(ms) \in 0..MaxTime
<1>1. ms \in 0..(MaxTime \div TicksPerMs)
  BY TimeAssumption DEF MsToTicks, NoTime
<1>2. (MaxTime \div TicksPerMs) * TicksPerMs <= MaxTime
  BY TimeAssumption
<1>3. ms * TicksPerMs <= (MaxTime \div TicksPerMs) * TicksPerMs
  BY <1>1, TimeAssumption
<1>. QED
  BY <1>1, <1>2, <1>3, TimeAssumption DEF MsToTicks, NoTime

\* A time advanced without overflow is a timestamp.
LEMMA AdvanceFits ==
  ASSUME NEW time \in 0..MaxTime, NEW n \in Nat, Advance(time, n) # NoTime
  PROVE  Advance(time, n) \in 0..MaxTime
<1>1. n * TicksPerSecond \in Nat
  BY TimeAssumption
<1>2. Increment(n) \in Nat
  BY <1>1, TimeAssumption DEF Increment
<1>. QED
  BY <1>2, TimeAssumption DEF Advance, NoTime

\* A seek lands on a frame of the source or at its end.
LEMMA LandingsInSource ==
  ASSUME NEW t, NEW n \in Nat, NEW k \in Landings(t, n)
  PROVE  k \in 1..n + 1
BY DEF Landings

-----------------------------------------------------------------------------
(* The buffer.                                                             *)

\* A cleared buffer is empty, at the time given.
LEMMA Cleared ==
  ASSUME NEW t \in 0..MaxTime, ClearSamples(t)
  PROVE  /\ buffer' \in Seq(Nat) /\ Len(buffer') = 0 /\ offset' = 0
         /\ nextTime' \in 0..MaxTime /\ endOfStream' = FALSE
<1>1. <<>> \in Seq(Nat) /\ Len(<<>>) = 0
  OBVIOUS
<1>. QED
  BY <1>1 DEF ClearSamples

\* Appending a sample keeps what is there and adds its frames after it.
LEMMA Appended ==
  ASSUME NEW b \in Seq(Nat), NEW k \in Nat, NEW n \in Nat,
         NEW c, c = b \o [i \in 1..n |-> k + i - 1], k > 0
  PROVE  /\ c \in Seq(Nat) /\ Len(c) = Len(b) + n
         /\ \A i \in 1..Len(b) : c[i] = b[i]
         /\ \A i \in Len(b) + 1..Len(b) + n : c[i] = k + i - Len(b) - 1
<1>. DEFINE new == [i \in 1..n |-> k + i - 1]
<1>1. new \in Seq(Nat) /\ Len(new) = n
  OBVIOUS
<1>2. \A i \in 1..n : new[i] = k + i - 1
  OBVIOUS
<1>. HIDE DEF new
<1>3. c = b \o new
  BY DEF new
<1>. QED
  BY <1>1, <1>2, <1>3

\* What a block takes from the buffer.
LEMMA Taken ==
  ASSUME ReadBlock, NumbersOK
  PROVE  \/ Available <= BlockFrames /\ buffer' = <<>> /\ offset' = 0
         \/ /\ Available > BlockFrames
            /\ buffer' = buffer /\ offset' = offset + BlockFrames
<1>1. CASE Available <= BlockFrames
  BY <1>1 DEF ReadBlock
<1>2. CASE ~(Available <= BlockFrames)
  <2>1. buffer' = buffer /\ offset' = offset + BlockFrames
    BY <1>2 DEF ReadBlock
  <2>2. Available > BlockFrames
    BY <1>2, DecoderAssumption DEF Available, NumbersOK
  <2>. QED
    BY <2>1, <2>2
<1>. QED
  BY <1>1, <1>2

\* The block leaves a buffer and a place in it.
LEMMA TakenType ==
  ASSUME ReadBlock, NumbersOK
  PROVE  buffer' \in Seq(Nat) /\ offset' \in 0..Len(buffer')
<1>1. <<>> \in Seq(Nat) /\ Len(<<>>) = 0
  OBVIOUS
<1>2. buffer \in Seq(Nat) /\ offset \in 0..Len(buffer) /\ BlockFrames \in Nat
  BY DecoderAssumption DEF NumbersOK
<1>3. CASE buffer' = <<>> /\ offset' = 0
  BY <1>1, <1>3
<1>4. CASE Available > BlockFrames /\ buffer' = buffer /\ offset' = offset + BlockFrames
  BY <1>2, <1>4 DEF Available
<1>. QED
  BY <1>3, <1>4, Taken

-----------------------------------------------------------------------------
\* The numbers and the buffer keep their types.
LEMMA NumbersStep ==
  ASSUME NumbersOK, [Next]_vars, pc = "sampling" => reader \in Sources
  PROVE  NumbersOK'
<1>. USE DecoderAssumption, TimeAssumption DEF NumbersOK, NoReader
<1>1. CASE RequestCancel
  BY <1>1 DEF RequestCancel, source, decoded
<1>2. CASE Close
  BY <1>2 DEF Close, TakeCommand, ReleaseReader, ClearSamples
<1>3. CASE OpenBegin
  BY <1>3 DEF OpenBegin, TakeCommand, ReleaseReader, ClearSamples
<1>4. CASE OpenCreate
  BY <1>4 DEF OpenCreate, command, decoded
<1>5. CASE OpenConfigure
  BY <1>5 DEF OpenConfigure, command, decoded
<1>6. CASE OpenPublish
  <2>1. CASE Cancelled
    BY <1>6, <2>1 DEF OpenPublish, command, decoded
  <2>2. CASE ~Cancelled
    <3>1. ClearSamples(0) /\ 0 \in 0..MaxTime
      BY <1>6, <2>2 DEF OpenPublish
    <3>. QED
      <4>1. /\ buffer' \in Seq(Nat) /\ Len(buffer') = 0 /\ offset' = 0
            /\ nextTime' \in 0..MaxTime
        BY <3>1, Cleared
      <4>2. /\ reader' = opening /\ readerNext' = 1 /\ opening' = NoReader
            /\ UNCHANGED <<epoch, call, target>>
        BY <1>6, <2>2 DEF OpenPublish, command
      <4>. QED
        BY <4>1, <4>2
  <2>. QED
    BY <2>1, <2>2
<1>7. ASSUME NEW ms \in SeekTargets, SeekBegin(ms) PROVE NumbersOK'
  <2>1. ms \in Int
    OBVIOUS
  <2>2. target' \in 0..MaxTime
    BY <1>7, <2>1, TicksFit DEF SeekBegin
  <2>. QED
    BY <1>7, <2>2 DEF SeekBegin, TakeCommand, source, decoded
<1>8. CASE Seek
  <2>1. reader \in Nat
    OBVIOUS
  <2>2. readerNext' \in {readerNext} \cup Landings(target, reader)
    BY <1>8 DEF Seek
  <2>3. readerNext' \in 1..reader + 1
    BY <2>1, <2>2, LandingsInSource
  <2>. QED
    <3>1. UNCHANGED <<epoch, call, target, reader, opening>>
      BY <1>8 DEF Seek, command
    <3>2. CASE UNCHANGED decoded
      BY <2>3, <3>1, <3>2 DEF decoded
    <3>3. CASE ClearSamples(target)
      <4>1. /\ buffer' \in Seq(Nat) /\ Len(buffer') = 0 /\ offset' = 0
            /\ nextTime' \in 0..MaxTime
        BY <3>3, Cleared
      <4>. QED
        BY <2>3, <3>1, <4>1
    <3>. QED
      BY <1>8, <3>2, <3>3 DEF Seek
<1>9. CASE ReadBegin
  BY <1>9 DEF ReadBegin, TakeCommand, source, decoded
<1>10. CASE FillStep
  BY <1>10 DEF FillStep, command, source, decoded
<1>11. CASE SampleCancelled
  BY <1>11 DEF SampleCancelled, command, decoded
<1>12. CASE SampleFails
  BY <1>12 DEF SampleFails, command, source, decoded
<1>13. CASE SampleEnd
  BY <1>13 DEF SampleEnd, command, source
<1>14. CASE SampleAbsent
  BY <1>14 DEF SampleAbsent, command, source, decoded
<1>15. ASSUME NEW n \in 0..MaxSample, SampleArrives(n) PROVE NumbersOK'
  <2>1. n \in Nat /\ readerNext' \in 1..reader + 1
    BY <1>15 DEF SampleArrives
  <2>2. reader \in Sources
    BY <1>15 DEF SampleArrives
  <2>3. Synchronised \in 0..MaxTime
    BY <2>1, <2>2, SourcesAssumption DEF Synchronised
  <2>4. buffer' \in {buffer, buffer \o [i \in 1..n |-> readerNext + i - 1]}
    BY <1>15 DEF SampleArrives
  <2>5. readerNext \in Nat /\ readerNext > 0 /\ buffer \in Seq(Nat)
    OBVIOUS
  <2>6. buffer' \in Seq(Nat) /\ Len(buffer') >= Len(buffer)
    <3>1. CASE buffer' = buffer
      BY <3>1
    <3>2. CASE buffer' = buffer \o [i \in 1..n |-> readerNext + i - 1]
      <4>1. buffer' \in Seq(Nat) /\ Len(buffer') = Len(buffer) + n
        BY <2>1, <2>5, <3>2, Appended
      <4>. QED
        BY <2>1, <4>1
    <3>. QED
      BY <2>4, <3>1, <3>2
  <2>. QED
    BY <1>15, <2>1, <2>3, <2>6 DEF SampleArrives, command
<1>16. CASE ReadFails
  BY <1>16 DEF ReadFails, command, source, decoded
<1>17. CASE ReadBlock
  <2>1. nextTime' \in 0..MaxTime
    <3>1. nextTime' = Advance(nextTime, BlockFrames) /\ nextTime' # NoTime
      BY <1>17 DEF ReadBlock
    <3>2. BlockFrames \in Nat /\ nextTime \in 0..MaxTime
      OBVIOUS
    <3>. QED
      BY <3>1, <3>2, AdvanceFits
  <2>2. buffer' \in Seq(Nat) /\ offset' \in 0..Len(buffer')
    BY <1>17, TakenType
  <2>. QED
    BY <1>17, <2>1, <2>2 DEF ReadBlock, command, source
<1>18. CASE UNCHANGED vars
  BY <1>18 DEF vars, command, source, decoded
<1>. QED
  BY <1>1, <1>2, <1>3, <1>4, <1>5, <1>6, <1>7, <1>8, <1>9, <1>10, <1>11, <1>12,
     <1>13, <1>14, <1>15, <1>16, <1>17, <1>18
  DEF Next, Worker, Sample
-----------------------------------------------------------------------------
\* Every step leaves the last block as it is or gives another of its type.
LEMMA BlockStep ==
  ASSUME BlockOK, NumbersOK, [Next]_vars, nextTime' \in 0..MaxTime
  PROVE  BlockOK'
<1>1. CASE ReadBlock
  <2>. DEFINE f == [i \in 1..BlockFrames |->
                      IF i <= Available THEN buffer[offset + i] ELSE Silence]
  <2>1. ASSUME NEW i \in 1..BlockFrames, i <= Available PROVE buffer[offset + i] \in Nat
    BY <2>1, DecoderAssumption DEF NumbersOK, Available
  <2>2. \A i \in 1..BlockFrames :
          (IF i <= Available THEN buffer[offset + i] ELSE Silence) \in Nat
    BY <2>1 DEF Silence
  <2>3. f \in Seq(Nat)
    BY <2>2, DecoderAssumption
  <2>4. block' = [frames |-> f, position |-> nextTime']
    BY <1>1 DEF ReadBlock
  <2>. QED
    BY <2>3, <2>4 DEF BlockOK
<1>2. CASE UNCHANGED block
  BY <1>2 DEF BlockOK
<1>. QED
  BY <1>1, <1>2 DEF Next, Worker, Sample, vars,
    RequestCancel, Close, OpenBegin, OpenCreate, OpenConfigure, OpenPublish, SeekBegin, Seek,
    ReadBegin, FillStep, SampleCancelled, SampleFails, SampleEnd, SampleAbsent, SampleArrives,
    ReadFails

-----------------------------------------------------------------------------
(* The invariant.                                                          *)

\* What each step of a call relies on.
ControlInv ==
  /\ pc \in {"configuring", "publishing"} => opening \in Sources
  /\ pc = "seeking" =>
       /\ reader \in Sources
       /\ \E ms \in SeekTargets : MsToTicks(ms) # NoTime /\ target = MsToTicks(ms)
  /\ pc \in {"filling", "sampling"} => mayRead
  /\ mayRead => reader \in Sources

\* Media Foundation is asked for more only when there is too little left, and
\* has nothing more to give once the end was seen.
EndInv ==
  /\ pc = "sampling" => ~endOfStream /\ Available < BlockFrames
  /\ mayRead /\ endOfStream => readerNext = reader + 1

\* The buffer holds the frames before the reader's next one, in order.
BufferInv ==
  mayRead =>
    /\ Len(buffer) < readerNext
    /\ \A i \in 1..Len(buffer) : buffer[i] = readerNext - Len(buffer) + i - 1

TypeInv == NamesOK /\ FlagsOK /\ NumbersOK /\ BlockOK

Inv == TypeInv /\ ControlInv /\ EndInv /\ BufferInv /\ UndeliveredIsBounded

\* The invariant holds at the start.
LEMMA InvInit == Init => Inv
<1>. SUFFICES ASSUME Init PROVE Inv
  OBVIOUS
<1>1. <<>> \in Seq(Nat) /\ Len(<<>>) = 0
  OBVIOUS
<1>2. NamesOK /\ FlagsOK /\ ControlInv
  BY DEF Init, NamesOK, FlagsOK, ControlInv
<1>3. NumbersOK
  BY <1>1, TimeAssumption DEF Init, NumbersOK, NoReader
<1>4. BlockOK
  BY <1>1, TimeAssumption DEF Init, BlockOK
<1>5. EndInv /\ BufferInv
  BY DEF Init, EndInv, BufferInv
<1>6. UndeliveredIsBounded
  BY <1>1, DecoderAssumption DEF Init, UndeliveredIsBounded, Available
<1>. QED
  BY <1>2, <1>3, <1>4, <1>5, <1>6 DEF Inv, TypeInv

\* A call never comes to a step without what that step relies on.
LEMMA ControlStep ==
  ASSUME ControlInv, NumbersOK, [Next]_vars
  PROVE  ControlInv'
<1>. USE DEF ControlInv
<1>1. CASE RequestCancel
  BY <1>1 DEF RequestCancel, source
<1>2. CASE Close
  BY <1>2 DEF Close, ReleaseReader
<1>3. CASE OpenBegin
  BY <1>3 DEF OpenBegin, Fail
<1>4. CASE OpenCreate
  BY <1>4 DEF OpenCreate, Fail
<1>5. CASE OpenConfigure
  BY <1>5 DEF OpenConfigure, Fail
<1>6. CASE OpenPublish
  BY <1>6 DEF OpenPublish, Fail, Succeed
<1>7. ASSUME NEW ms \in SeekTargets, SeekBegin(ms) PROVE ControlInv'
  BY <1>7 DEF SeekBegin, NumbersOK, Fail, source
<1>8. CASE Seek
  BY <1>8 DEF Seek, Fail, Succeed
<1>9. CASE ReadBegin
  BY <1>9 DEF ReadBegin, Fail, source
<1>10. CASE FillStep
  BY <1>10 DEF FillStep, Fail, source
<1>11. CASE SampleCancelled
  BY <1>11 DEF SampleCancelled, Fail
<1>12. CASE SampleFails
  BY <1>12 DEF SampleFails, Fail, source
<1>13. CASE SampleEnd
  BY <1>13 DEF SampleEnd, source
<1>14. CASE SampleAbsent
  BY <1>14 DEF SampleAbsent, source
<1>15. ASSUME NEW n \in 0..MaxSample, SampleArrives(n) PROVE ControlInv'
  <2>1. /\ pc = "sampling" /\ UNCHANGED <<reader, opening>>
        /\ \/ pc' = "filling" /\ UNCHANGED mayRead
           \/ pc' = "idle" /\ mayRead' = FALSE
    BY <1>15 DEF SampleArrives, Fail
  <2>. QED
    BY <2>1
<1>16. CASE ReadFails
  BY <1>16 DEF ReadFails, Fail, source
<1>17. CASE ReadBlock
  <2>1. pc' = "idle" /\ UNCHANGED <<reader, opening>> /\ mayRead
    BY <1>17 DEF ReadBlock, Succeed, source
  <2>. QED
    BY <2>1
<1>18. CASE UNCHANGED vars
  BY <1>18 DEF vars, source
<1>. QED
  BY <1>1, <1>2, <1>3, <1>4, <1>5, <1>6, <1>7, <1>8, <1>9, <1>10, <1>11, <1>12, <1>13, <1>14, <1>15, <1>16, <1>17, <1>18
  DEF Next, Worker, Sample

-----------------------------------------------------------------------------
(* The buffer through a step.                                              *)

DataInv == EndInv /\ BufferInv /\ UndeliveredIsBounded

\* A step that leaves the buffer and the reader alone, and asks for no sample.
LEMMA Quiet ==
  ASSUME DataInv, UNCHANGED <<buffer, offset, endOfStream, reader, readerNext>>,
         mayRead' => mayRead, pc' = "sampling" => pc = "sampling"
  PROVE  DataInv'
<1>1. EndInv'
  BY DEF DataInv, EndInv, Available
<1>2. BufferInv'
  BY DEF DataInv, BufferInv
<1>3. UndeliveredIsBounded'
  BY DEF DataInv, UndeliveredIsBounded, Available
<1>. QED
  BY <1>1, <1>2, <1>3 DEF DataInv

\* A step that empties the buffer.
LEMMA Emptied ==
  ASSUME NEW t \in 0..MaxTime, ClearSamples(t), readerNext' \in Nat \ {0},
         pc' # "sampling"
  PROVE  DataInv'
<1>1. buffer' \in Seq(Nat) /\ Len(buffer') = 0 /\ offset' = 0 /\ endOfStream' = FALSE
  BY Cleared
<1>2. EndInv'
  BY <1>1 DEF EndInv
<1>3. BufferInv'
  BY <1>1 DEF BufferInv
<1>4. UndeliveredIsBounded'
  BY <1>1, DecoderAssumption DEF UndeliveredIsBounded, Available
<1>. QED
  BY <1>2, <1>3, <1>4 DEF DataInv

\* Every step keeps the buffer in order, bounded, and true to the end it saw.
LEMMA DataStep ==
  ASSUME DataInv, NumbersOK, ControlInv, [Next]_vars, NumbersOK'
  PROVE  DataInv'
<1>1. CASE RequestCancel
  BY <1>1, Quiet DEF RequestCancel, source, decoded
<1>2. CASE Close
  BY <1>2, Emptied, TimeAssumption DEF Close, ReleaseReader, ControlInv
<1>3. CASE OpenBegin
  BY <1>3, Emptied, TimeAssumption DEF OpenBegin, ReleaseReader, Fail
<1>4. CASE OpenCreate
  BY <1>4, Quiet DEF OpenCreate, Fail, decoded
<1>5. CASE OpenConfigure
  BY <1>5, Quiet DEF OpenConfigure, Fail, decoded
<1>6. CASE OpenPublish
  <2>1. CASE Cancelled
    BY <1>6, <2>1, Quiet DEF OpenPublish, Fail, decoded
  <2>2. CASE ~Cancelled
    BY <1>6, <2>2, Emptied, TimeAssumption DEF OpenPublish, Succeed
  <2>. QED
    BY <2>1, <2>2
<1>7. ASSUME NEW ms \in SeekTargets, SeekBegin(ms) PROVE DataInv'
  BY <1>7, Quiet DEF SeekBegin, Fail, source, decoded
<1>8. CASE Seek
  <2>1. target \in 0..MaxTime
    BY DEF NumbersOK
  <2>2. CASE ClearSamples(target) /\ pc' = "idle"
    <3>1. reader' \in Sources \cup {NoReader} /\ readerNext' \in 1..reader' + 1
      BY DEF NumbersOK
    <3>2. readerNext' \in Nat \ {0}
      BY <3>1, DecoderAssumption DEF NoReader
    <3>. QED
      BY <2>1, <2>2, <3>2, Emptied
  <2>3. CASE Fail /\ UNCHANGED <<decoded, reader>>
    <3>1. EndInv'
      BY <2>3 DEF Fail, EndInv
    <3>2. BufferInv'
      BY <2>3 DEF Fail, BufferInv
    <3>3. UndeliveredIsBounded'
      BY <2>3 DEF decoded, DataInv, UndeliveredIsBounded, Available
    <3>. QED
      BY <3>1, <3>2, <3>3 DEF DataInv
  <2>. QED
    BY <1>8, <2>2, <2>3 DEF Seek, Succeed
<1>9. CASE ReadBegin
  BY <1>9, Quiet DEF ReadBegin, Fail, source, decoded
<1>10. CASE FillStep
  <2>1. EndInv'
    <3>1. ~endOfStream /\ Available < BlockFrames
      BY <1>10, DecoderAssumption DEF FillStep, Enough, Available, NumbersOK
    <3>2. UNCHANGED <<buffer, offset, endOfStream, reader, readerNext>>
      BY <1>10 DEF FillStep, decoded, source
    <3>. QED
      BY <3>1, <3>2 DEF EndInv, Available
  <2>2. BufferInv'
    BY <1>10 DEF FillStep, Fail, DataInv, BufferInv, decoded, source
  <2>3. UndeliveredIsBounded'
    BY <1>10 DEF FillStep, DataInv, UndeliveredIsBounded, Available, decoded
  <2>. QED
    BY <2>1, <2>2, <2>3 DEF DataInv
<1>11. CASE SampleCancelled
  <2>1. Fail /\ UNCHANGED decoded
    BY <1>11 DEF SampleCancelled
  <2>2. EndInv' /\ BufferInv'
    BY <2>1 DEF Fail, EndInv, BufferInv
  <2>3. UndeliveredIsBounded'
    BY <2>1 DEF decoded, DataInv, UndeliveredIsBounded, Available
  <2>. QED
    BY <2>2, <2>3 DEF DataInv
<1>12. CASE SampleFails
  BY <1>12, Quiet DEF SampleFails, Fail, source, decoded
<1>13. CASE SampleEnd
  <2>1. /\ UNCHANGED <<buffer, offset, reader, readerNext, mayRead>>
        /\ pc' = "filling" /\ readerNext > reader
    BY <1>13 DEF SampleEnd, source
  <2>2. readerNext = reader + 1
    BY <2>1, DecoderAssumption DEF NumbersOK, NoReader
  <2>3. EndInv'
    BY <2>1, <2>2 DEF EndInv
  <2>4. BufferInv' /\ UndeliveredIsBounded'
    BY <2>1 DEF DataInv, BufferInv, UndeliveredIsBounded, Available
  <2>. QED
    BY <2>3, <2>4 DEF DataInv
<1>14. CASE SampleAbsent
  BY <1>14, Quiet DEF SampleAbsent, source, decoded
<1>15. ASSUME NEW n \in 0..MaxSample, SampleArrives(n) PROVE DataInv'
  <2>1. UNCHANGED <<offset, endOfStream, reader>> /\ pc = "sampling"
    BY <1>15 DEF SampleArrives
  <2>2. CASE Fail /\ UNCHANGED buffer
    <3>1. EndInv' /\ BufferInv'
      BY <2>2 DEF Fail, EndInv, BufferInv
    <3>2. UndeliveredIsBounded'
      BY <2>1, <2>2 DEF DataInv, UndeliveredIsBounded, Available
    <3>. QED
      BY <3>1, <3>2 DEF DataInv
  <2>3. CASE /\ buffer' = buffer \o [i \in 1..n |-> readerNext + i - 1]
             /\ pc' = "filling" /\ UNCHANGED mayRead
    <3>1. n \in Nat /\ readerNext \in Nat /\ readerNext > 0 /\ buffer \in Seq(Nat)
      BY DecoderAssumption DEF NumbersOK, NoReader
    <3>2. /\ Len(buffer') = Len(buffer) + n
          /\ \A i \in 1..Len(buffer) : buffer'[i] = buffer[i]
          /\ \A i \in Len(buffer) + 1..Len(buffer) + n :
               buffer'[i] = readerNext + i - Len(buffer) - 1
      BY <2>3, <3>1, Appended
    <3>3. readerNext' = readerNext + n
      BY <1>15 DEF SampleArrives
    <3>4. ~endOfStream /\ Available < BlockFrames /\ mayRead
      BY <2>1 DEF DataInv, EndInv, ControlInv
    <3>5. EndInv'
      BY <2>1, <2>3, <3>4 DEF EndInv
    <3>6. BufferInv'
      <4>1. /\ Len(buffer) < readerNext
            /\ \A i \in 1..Len(buffer) : buffer[i] = readerNext - Len(buffer) + i - 1
        BY <3>4 DEF DataInv, BufferInv
      <4>2. Len(buffer') < readerNext'
        BY <3>1, <3>2, <3>3, <4>1
      <4>3. ASSUME NEW i \in 1..Len(buffer')
            PROVE  buffer'[i] = readerNext' - Len(buffer') + i - 1
        <5>1. CASE i \in 1..Len(buffer)
          BY <3>1, <3>2, <3>3, <4>1, <5>1
        <5>2. CASE i \in Len(buffer) + 1..Len(buffer) + n
          BY <3>1, <3>2, <3>3, <5>2
        <5>. QED
          BY <3>1, <3>2, <5>1, <5>2
      <4>. QED
        BY <4>2, <4>3 DEF BufferInv
    <3>7. UndeliveredIsBounded'
      <4>1. Available' = Available + n
        BY <2>1, <3>1, <3>2 DEF Available, NumbersOK
      <4>2. Available \in Int
        BY DEF Available, NumbersOK
      <4>. QED
        BY <3>4, <4>1, <4>2, DecoderAssumption DEF UndeliveredIsBounded
    <3>. QED
      BY <3>5, <3>6, <3>7 DEF DataInv
  <2>. QED
    BY <1>15, <2>2, <2>3 DEF SampleArrives
<1>16. CASE ReadFails
  BY <1>16, Quiet DEF ReadFails, Fail, source, decoded
<1>17. CASE ReadBlock
  <2>1. /\ pc = "filling" /\ pc' = "idle"
        /\ UNCHANGED <<endOfStream, reader, readerNext>>
    BY <1>17 DEF ReadBlock, Succeed, source
  <2>2. mayRead
    BY <2>1 DEF ControlInv
  <2>3. EndInv'
    BY <2>1, <2>2 DEF DataInv, EndInv
  <2>4. CASE Available <= BlockFrames /\ buffer' = <<>> /\ offset' = 0
    <3>1. Len(buffer') = 0 /\ readerNext \in Nat \ {0}
      BY <2>4, DecoderAssumption DEF NumbersOK, NoReader
    <3>2. BufferInv'
      BY <2>1, <3>1 DEF BufferInv
    <3>3. UndeliveredIsBounded'
      BY <2>4, <3>1, DecoderAssumption DEF UndeliveredIsBounded, Available
    <3>. QED
      BY <2>3, <3>2, <3>3 DEF DataInv
  <2>5. CASE /\ Available > BlockFrames
             /\ buffer' = buffer /\ offset' = offset + BlockFrames
    <3>1. BufferInv'
      BY <2>1, <2>2, <2>5 DEF DataInv, BufferInv
    <3>2. UndeliveredIsBounded'
      BY <2>5, DecoderAssumption DEF DataInv, UndeliveredIsBounded, Available, NumbersOK
    <3>. QED
      BY <2>3, <3>1, <3>2 DEF DataInv
  <2>. QED
    BY <1>17, <2>4, <2>5, Taken
<1>18. CASE UNCHANGED vars
  BY <1>18, Quiet DEF vars, source, decoded
<1>. QED
  BY <1>1, <1>2, <1>3, <1>4, <1>5, <1>6, <1>7, <1>8, <1>9, <1>10, <1>11, <1>12,
     <1>13, <1>14, <1>15, <1>16, <1>17, <1>18
  DEF Next, Worker, Sample

-----------------------------------------------------------------------------
\* Every step keeps the invariant.
LEMMA InvStep == Inv /\ [Next]_vars => Inv'
<1>. SUFFICES ASSUME Inv, [Next]_vars PROVE Inv'
  OBVIOUS
<1>1. NamesOK' /\ FlagsOK'
  BY NamesStep, FlagsStep DEF Inv, TypeInv
<1>2. pc = "sampling" => reader \in Sources
  BY DEF Inv, ControlInv
<1>3. NumbersOK'
  BY <1>2, NumbersStep DEF Inv, TypeInv
<1>4. nextTime' \in 0..MaxTime
  BY <1>3 DEF NumbersOK
<1>5. BlockOK'
  BY <1>4, BlockStep DEF Inv, TypeInv
<1>6. ControlInv'
  BY ControlStep DEF Inv, TypeInv
<1>7. DataInv'
  BY <1>3, DataStep DEF Inv, TypeInv, DataInv
<1>. QED
  BY <1>1, <1>3, <1>5, <1>6, <1>7 DEF Inv, TypeInv, DataInv

\* The invariant holds in every behaviour of the decoder.
LEMMA InvAlways == Spec => []Inv
BY InvInit, InvStep, PTL DEF Spec

\* Every variable keeps its type.
THEOREM TypeCorrect == Spec => []TypeOK
<1>1. Inv => TypeOK
  <2>. SUFFICES ASSUME Inv PROVE TypeOK
    OBVIOUS
  <2>1. reader \in Nat
    BY DecoderAssumption DEF Inv, TypeInv, NumbersOK, NoReader
  <2>2. readerNext \in Nat \ {0}
    BY <2>1 DEF Inv, TypeInv, NumbersOK
  <2>. QED
    BY <2>2 DEF Inv, TypeInv, NamesOK, FlagsOK, NumbersOK, BlockOK, TypeOK
<1>. QED
  BY <1>1, InvAlways, PTL

-----------------------------------------------------------------------------
(* The contract.                                                           *)

NextFrame == IF mayRead THEN readerNext - Available ELSE 0

\* An empty buffer starts with the reader's next frame; appending moves nothing.
LEMMA SameFrame ==
  ASSUME NEW r \in Nat, NEW l \in Nat, NEW o \in Nat, NEW n \in Nat,
         NEW r2, NEW l2, r2 = r + n, l2 = l + n
  PROVE  r - 0 = r /\ r2 - (l2 - o) = r - (l - o)
OBVIOUS

\* The contract counts time as the decoder does.
LEMMA SameTime ==
  /\ \A t, n : Contract!Landings(t, n) = Landings(t, n)
  /\ \A ms : Contract!MsToTicks(ms) = MsToTicks(ms)
BY DEF Contract!Landings, Landings, Contract!StartOf, StartOf, Contract!Increment,
   Increment, Contract!MsToTicks, MsToTicks, Contract!NoTime, NoTime

\* A call that fails is one the contract lets fail.
LEMMA FailMaps ==
  ASSUME Fail, call' \in call..epoch, reader' \in {reader, 0}, UNCHANGED <<epoch, block>>
  PROVE  Contract!Next
<1>1. Contract!Fail
  BY DEF Contract!Fail, Contract!Lost, Fail
<1>. QED
  BY <1>1 DEF Contract!Next

\* A step inside a call is invisible.
LEMMA Invisible ==
  ASSUME UNCHANGED <<command, reader, answer, block, mayRead>>,
         readerNext' - Available' = readerNext - Available
  PROVE  UNCHANGED Contract!vars
BY DEF Contract!vars, command

\* The block read is the next one of the source.
LEMMA ReadMaps ==
  ASSUME Inv, ReadBlock
  PROVE  Contract!Next
<1>. DEFINE N == readerNext - Available
<1>1. /\ call = epoch /\ Enough /\ mayRead
      /\ UNCHANGED <<epoch, call, reader, readerNext, endOfStream>>
  BY DEF ReadBlock, Inv, ControlInv, Cancelled, command, source
<1>2. /\ Available \in Nat /\ readerNext \in Nat /\ reader \in Nat /\ N \in Nat \ {0}
      /\ readerNext <= reader + 1 /\ BlockFrames \in Nat \ {0}
      /\ offset \in Nat /\ offset + Available = Len(buffer)
  <2>1. reader \in Nat
    BY DecoderAssumption DEF Inv, TypeInv, NumbersOK, NoReader
  <2>2. readerNext \in 1..reader + 1 /\ Len(buffer) \in Nat /\ offset \in 0..Len(buffer)
    BY DEF Inv, TypeInv, NumbersOK
  <2>3. Len(buffer) < readerNext
    BY <1>1 DEF Inv, BufferInv
  <2>. QED
    BY <2>1, <2>2, <2>3, DecoderAssumption DEF Available
<1>3. endOfStream => readerNext = reader + 1
  BY <1>1 DEF Inv, EndInv
<1>4. Available >= BlockFrames \/ endOfStream
  BY <1>1 DEF Enough
<1>5. /\ ReachedEnd => N + BlockFrames > reader
      /\ N + BlockFrames > reader + 1 => ReachedEnd
  BY <1>2, <1>3, <1>4 DEF ReachedEnd
<1>6. block.frames' = [i \in 1..BlockFrames |->
                         IF N + i - 1 <= reader THEN N + i - 1 ELSE Contract!Silence]
  <2>1. block'.frames = [i \in 1..BlockFrames |->
                           IF i <= Available THEN buffer[offset + i] ELSE Silence]
    BY DEF ReadBlock
  <2>2. ASSUME NEW i \in 1..BlockFrames
        PROVE  (IF i <= Available THEN buffer[offset + i] ELSE Silence)
                 = IF N + i - 1 <= reader THEN N + i - 1 ELSE Contract!Silence
    <3>1. CASE i <= Available
      <4>1. offset + i \in 1..Len(buffer)
        BY <1>2, <3>1
      <4>2. buffer[offset + i] = readerNext - Len(buffer) + (offset + i) - 1
        BY <1>1, <4>1 DEF Inv, BufferInv
      <4>3. buffer[offset + i] = N + i - 1 /\ N + i - 1 <= reader
        BY <1>2, <3>1, <4>2
      <4>. QED
        BY <3>1, <4>3
    <3>2. CASE ~(i <= Available)
      <4>1. N + i - 1 > reader
        BY <1>2, <1>3, <1>4, <3>2
      <4>. QED
        BY <1>2, <3>2, <4>1 DEF Silence, Contract!Silence
    <3>. QED
      BY <3>1, <3>2
  <2>. QED
    BY <2>1, <2>2
<1>7. NextFrame' = IF ReachedEnd THEN 0 ELSE N + BlockFrames
  <2>1. mayRead' = ~ReachedEnd
    BY DEF ReadBlock
  <2>2. CASE ReachedEnd
    BY <2>1, <2>2 DEF NextFrame
  <2>3. CASE ~ReachedEnd
    <3>1. Available' = Available - BlockFrames
      <4>1. CASE Available <= BlockFrames /\ buffer' = <<>> /\ offset' = 0
        <5>1. Available = BlockFrames
          BY <1>2, <1>4, <2>3, <4>1 DEF ReachedEnd
        <5>2. Available' = 0
          BY <4>1 DEF Available
        <5>. QED
          BY <1>2, <5>1, <5>2
      <4>2. CASE buffer' = buffer /\ offset' = offset + BlockFrames
        <5>0. Len(buffer) \in Nat
          BY DEF Inv, TypeInv, NumbersOK
        <5>1. /\ Len(buffer) \in Nat /\ offset \in Nat /\ BlockFrames \in Nat
              /\ Available = Len(buffer) - offset
          BY <1>2, <5>0 DEF Available
        <5>2. Available' = Len(buffer) - (offset + BlockFrames)
          BY <4>2 DEF Available
        <5>3. Len(buffer) - (offset + BlockFrames) = Len(buffer) - offset - BlockFrames
          BY <5>1
        <5>. QED
          BY <5>1, <5>2, <5>3
      <4>. QED
        BY <4>1, <4>2, Taken DEF Inv, TypeInv
    <3>2. NextFrame' = readerNext' - Available'
      BY <2>1, <2>3 DEF NextFrame
    <3>3. readerNext - (Available - BlockFrames) = N + BlockFrames
      BY <1>2
    <3>. QED
      BY <1>1, <2>3, <3>1, <3>2, <3>3
  <2>. QED
    BY <2>2, <2>3
<1>8. ReachedEnd \in BOOLEAN
  BY DEF ReachedEnd, Inv, TypeInv, FlagsOK
<1>9. answer' = IF ReachedEnd THEN "last block" ELSE "block"
  BY DEF ReadBlock, Succeed
<1>10. NextFrame = N /\ N # 0
  BY <1>1, <1>2 DEF NextFrame
<1>11. Contract!Read(ReachedEnd)
  BY <1>1, <1>5, <1>6, <1>7, <1>9, <1>10
  DEF Contract!Read, Contract!Lost, NextFrame
<1>. QED
  BY <1>8, <1>11 DEF Contract!Next

\* Every step of the decoder is a step of the contract, or invisible in it.
LEMMA StepMaps ==
  ASSUME Inv, Inv', [Next]_vars
  PROVE  [Contract!Next]_(Contract!vars)
<1>1. /\ epoch \in Nat /\ call \in 0..epoch /\ call \in call..epoch
  BY DEF Inv, TypeInv, NumbersOK
<1>2. ASSUME Fail, UNCHANGED <<command, block, reader>> PROVE Contract!Next
  BY <1>1, <1>2, FailMaps DEF command
<1>3. ASSUME UNCHANGED <<command, reader, readerNext, decoded, answer, block, mayRead>>
      PROVE  UNCHANGED Contract!vars
  BY <1>3, Invisible DEF Available, decoded
<1>4. CASE RequestCancel
  <2>1. UNCHANGED <<call, reader, mayRead, readerNext, buffer, offset, answer, block>>
    BY <1>4 DEF RequestCancel, source, decoded
  <2>2. UNCHANGED NextFrame
    BY <2>1 DEF NextFrame, Available
  <2>3. epoch' > epoch
    BY <1>1, <1>4 DEF RequestCancel
  <2>4. Contract!Cancel
    BY <2>1, <2>2, <2>3 DEF Contract!Cancel, NextFrame
  <2>. QED
    BY <2>4 DEF Contract!Next
<1>5. CASE Close
  <2>1. /\ call' \in call..epoch /\ reader' = 0 /\ mayRead' = FALSE
        /\ UNCHANGED <<epoch, answer, block>>
    BY <1>5 DEF Close, TakeCommand, ReleaseReader, NoReader
  <2>. QED
    BY <2>1 DEF Contract!Begin, Contract!Next, Contract!Lost
<1>6. CASE OpenBegin
  <2>1. /\ call' \in call..epoch /\ reader' = 0 /\ mayRead' = FALSE
        /\ UNCHANGED <<epoch, block>>
        /\ Fail \/ UNCHANGED answer
    BY <1>6 DEF OpenBegin, TakeCommand, ReleaseReader, NoReader, Fail
  <2>2. CASE Fail
    BY <2>1, <2>2, FailMaps
  <2>3. CASE UNCHANGED answer
    BY <2>1, <2>3 DEF Contract!Begin, Contract!Next, Contract!Lost
  <2>. QED
    BY <2>1, <2>2, <2>3
<1>7. CASE OpenCreate
  BY <1>2, <1>3, <1>7 DEF OpenCreate
<1>8. CASE OpenConfigure
  BY <1>2, <1>3, <1>8 DEF OpenConfigure
<1>9. CASE OpenPublish
  <2>1. CASE Cancelled
    BY <1>2, <1>9, <2>1 DEF OpenPublish
  <2>2. CASE ~Cancelled
    <3>1. /\ call = epoch /\ opening \in Sources /\ reader' = opening /\ readerNext' = 1
          /\ mayRead' = TRUE /\ ClearSamples(0) /\ answer' = "opened"
          /\ UNCHANGED <<epoch, call, block>>
      BY <1>9, <2>2 DEF OpenPublish, Cancelled, Succeed, command, Inv, ControlInv
    <3>2. Available' = 0
      BY <3>1 DEF ClearSamples, Available
    <3>3. NextFrame' = 1
      BY <3>1, <3>2 DEF NextFrame
    <3>4. Contract!Open(opening)
      BY <3>1, <3>3 DEF Contract!Open, NextFrame
    <3>. QED
      BY <3>1, <3>4 DEF Contract!Next
  <2>. QED
    BY <2>1, <2>2
<1>10. ASSUME NEW ms \in SeekTargets, SeekBegin(ms) PROVE [Contract!Next]_(Contract!vars)
  <2>1. call' \in call..epoch /\ UNCHANGED <<epoch, reader, readerNext, decoded, block>>
    BY <1>10 DEF SeekBegin, TakeCommand, source
  <2>2. CASE Fail
    BY <2>1, <2>2, FailMaps
  <2>3. CASE UNCHANGED <<answer, mayRead>>
    <3>1. UNCHANGED NextFrame
      BY <2>1, <2>3 DEF NextFrame, Available, decoded
    <3>. QED
      BY <2>1, <2>3, <3>1 DEF Contract!Begin, Contract!Next, NextFrame
  <2>. QED
    BY <1>10, <2>2, <2>3 DEF SeekBegin
<1>11. CASE Seek
  <2>1. UNCHANGED <<epoch, call, reader, block>>
    BY <1>11 DEF Seek, command
  <2>2. CASE Fail
    BY <1>2, <2>1, <2>2 DEF command
  <2>3. CASE /\ ~Cancelled /\ readerNext' \in Landings(target, reader)
             /\ ClearSamples(target) /\ mayRead' = TRUE /\ Succeed("sought")
    <3>1. PICK ms \in SeekTargets : MsToTicks(ms) # NoTime /\ target = MsToTicks(ms)
      BY <1>11 DEF Seek, Inv, ControlInv
    <3>2. Len(buffer') - offset' = 0
      BY <2>3 DEF ClearSamples
    <3>3. readerNext' \in Nat
      <4>1. reader' \in Sources \cup {NoReader} /\ readerNext' \in 1..reader' + 1
        BY DEF Inv, TypeInv, NumbersOK
      <4>. QED
        BY <4>1, DecoderAssumption DEF NoReader
    <3>4. NextFrame' = readerNext'
      <4>1. NextFrame' = readerNext' - (Len(buffer') - offset')
        BY <2>3 DEF NextFrame, Available
      <4>2. readerNext' - 0 = readerNext'
        BY <3>3, SameFrame
      <4>. QED
        BY <3>2, <4>1, <4>2
    <3>5. NextFrame' \in Contract!Landings(target, reader)
      BY <2>3, <3>4, SameTime
    <3>6. Contract!SeekTo(target)
      BY <2>1, <2>3, <3>5 DEF Contract!SeekTo, Cancelled, Succeed, NextFrame
    <3>7. Contract!MsToTicks(ms) = target /\ Contract!MsToTicks(ms) # Contract!NoTime
      BY <3>1, SameTime DEF Contract!NoTime, NoTime
    <3>. QED
      BY <3>6, <3>7 DEF Contract!Next
  <2>. QED
    BY <1>11, <2>2, <2>3 DEF Seek
<1>12. CASE ReadBegin
  <2>1. call' \in call..epoch /\ UNCHANGED <<epoch, reader, readerNext, decoded, block>>
    BY <1>12 DEF ReadBegin, TakeCommand, source
  <2>2. CASE Fail
    BY <2>1, <2>2, FailMaps
  <2>3. CASE UNCHANGED <<answer, mayRead>>
    <3>1. UNCHANGED NextFrame
      BY <2>1, <2>3 DEF NextFrame, Available, decoded
    <3>. QED
      BY <2>1, <2>3, <3>1 DEF Contract!Begin, Contract!Next, NextFrame
  <2>. QED
    BY <1>12, <2>2, <2>3 DEF ReadBegin
<1>13. CASE FillStep
  BY <1>2, <1>3, <1>13 DEF FillStep, source
<1>14. CASE SampleCancelled
  BY <1>2, <1>14 DEF SampleCancelled
<1>15. CASE SampleFails
  BY <1>2, <1>15 DEF SampleFails, source
<1>16. CASE SampleEnd
  BY <1>16, Invisible DEF SampleEnd, source, Available
<1>17. CASE SampleAbsent
  BY <1>3, <1>17 DEF SampleAbsent, source
<1>18. ASSUME NEW n \in 0..MaxSample, SampleArrives(n) PROVE [Contract!Next]_(Contract!vars)
  <2>1. CASE Fail
    BY <1>2, <1>18, <2>1 DEF SampleArrives
  <2>2. CASE /\ buffer' = buffer \o [i \in 1..n |-> readerNext + i - 1]
             /\ UNCHANGED <<mayRead, answer>>
    <3>1. reader \in Sources \cup {NoReader} /\ readerNext \in 1..reader + 1
      BY DEF Inv, TypeInv, NumbersOK
    <3>2. n \in Nat /\ readerNext \in Nat /\ readerNext > 0
      BY <3>1, DecoderAssumption DEF NoReader
    <3>3. buffer \in Seq(Nat) /\ offset \in 0..Len(buffer)
      BY DEF Inv, TypeInv, NumbersOK
    <3>4. Len(buffer') = Len(buffer) + n
      BY <2>2, <3>2, <3>3, Appended
    <3>5. readerNext' = readerNext + n /\ UNCHANGED <<command, reader, offset, block>>
      BY <1>18 DEF SampleArrives
    <3>6. readerNext' - Available' = readerNext - Available
      <4>1. Len(buffer) \in Nat /\ offset \in Nat
        BY <3>3
      <4>2. readerNext' - (Len(buffer') - offset) = readerNext - (Len(buffer) - offset)
        BY <3>2, <3>4, <3>5, <4>1, SameFrame
      <4>. QED
        BY <3>5, <4>2 DEF Available
    <3>. QED
      BY <2>2, <3>5, <3>6, Invisible
  <2>. QED
    BY <1>18, <2>1, <2>2 DEF SampleArrives
<1>19. CASE ReadFails
  BY <1>2, <1>19 DEF ReadFails, source
<1>20. CASE ReadBlock
  BY <1>20, ReadMaps
<1>21. CASE UNCHANGED vars
  BY <1>3, <1>21 DEF vars, source
<1>. QED
  BY <1>4, <1>5, <1>6, <1>7, <1>8, <1>9, <1>10, <1>11, <1>12, <1>13, <1>14, <1>15,
     <1>16, <1>17, <1>18, <1>19, <1>20, <1>21
  DEF Next, Worker, Sample

\* The decoder implements the contract the decode worker relies on: a call
\* answers for the command that is current when it does, and the blocks after an
\* open or a seek are the frames of the source in order, silence only at its end.
THEOREM DecoderImplementsContract == Spec => ImplementsContract
<1>1. Init => Contract!Init
  BY DEF Init, Contract!Init, NoReader, Contract!Lost
<1>2. Inv /\ Inv' /\ [Next]_vars => [Contract!Next]_(Contract!vars)
  BY StepMaps
<1>. QED
  BY <1>1, <1>2, InvAlways, PTL DEF Spec, ImplementsContract, Contract!Spec

-----------------------------------------------------------------------------
(* The clock.                                                              *)

\* Division leaves a remainder smaller than the divisor.
LEMMA Division ==
  ASSUME NEW x \in Nat, NEW d \in Nat \ {0}
  PROVE  x \div d \in Nat /\ d * (x \div d) <= x /\ x < d * (x \div d) + d
OBVIOUS

\* The quotient is the only number with that remainder.
LEMMA Quotient ==
  ASSUME NEW x \in Nat, NEW d \in Nat \ {0}, NEW q \in Nat, d * q <= x, x < d * q + d
  PROVE  x \div d = q
OBVIOUS

\* Multiples less than one divisor apart are in order.
LEMMA Less ==
  ASSUME NEW a \in Int, NEW b \in Int, NEW d \in Nat \ {0}, d * a < d * b + d
  PROVE  a <= b
<1>1. CASE a <= b
  BY <1>1
<1>2. CASE a >= b + 1
  <2>1. d * a >= d * (b + 1)
    BY <1>2
  <2>2. d * (b + 1) = d * b + d
    OBVIOUS
  <2>. QED
    BY <2>1, <2>2
<1>. QED
  BY <1>1, <1>2

\* The quotient of a sum is the sum of the quotients, or one more.
LEMMA DivAdd ==
  ASSUME NEW x \in Nat, NEW y \in Nat, NEW d \in Nat \ {0}
  PROVE  (x + y) \div d \in (x \div d) + (y \div d)..(x \div d) + (y \div d) + 1
<1>. DEFINE p == x \div d
            q == y \div d
            r == (x + y) \div d
<1>1. p \in Nat /\ d * p <= x /\ x < d * p + d
  BY Division
<1>2. q \in Nat /\ d * q <= y /\ y < d * q + d
  BY Division
<1>3. r \in Nat /\ d * r <= x + y /\ x + y < d * r + d
  BY Division
<1>. HIDE DEF p, q, r
<1>4. d * (p + q) = d * p + d * q /\ d * (p + q + 1) = d * p + d * q + d
  BY <1>1, <1>2
<1>5. d * (p + q) < d * r + d
  BY <1>1, <1>2, <1>3, <1>4
<1>6. d * r < d * (p + q + 1) + d
  BY <1>1, <1>2, <1>3, <1>4
<1>7. p + q <= r
  BY <1>1, <1>2, <1>3, <1>5, Less
<1>8. r <= p + q + 1
  BY <1>1, <1>2, <1>3, <1>6, Less
<1>9. r \in p + q..p + q + 1
  BY <1>1, <1>2, <1>3, <1>7, <1>8
<1>. QED
  BY <1>9 DEF p, q, r

\* Adding the truncated times of two stretches loses at most one tick.
LEMMA IncrementAdd ==
  ASSUME NEW a \in Nat, NEW b \in Nat
  PROVE  /\ Increment(a) \in Nat /\ Increment(b) \in Nat
         /\ Increment(a + b) \in Increment(a) + Increment(b)..Increment(a) + Increment(b) + 1
<1>1. a * TicksPerSecond \in Nat /\ b * TicksPerSecond \in Nat
  BY TimeAssumption
<1>2. (a + b) * TicksPerSecond = a * TicksPerSecond + b * TicksPerSecond
  BY TimeAssumption
<1>3. SampleRate \in Nat \ {0}
  BY TimeAssumption
<1>4. Increment(a) \in Nat /\ Increment(b) \in Nat
  BY <1>1, <1>3, Division DEF Increment
<1>5. Increment(a + b) \in Increment(a) + Increment(b)..Increment(a) + Increment(b) + 1
  BY <1>1, <1>2, <1>3, DivAdd DEF Increment
<1>. QED
  BY <1>4, <1>5

\* The frame b frames after frame a starts that much later, or one tick more.
LEMMA LaterStart ==
  ASSUME NEW a \in Nat \ {0}, NEW b \in Nat
  PROVE  /\ StartOf(a) \in Nat /\ Increment(b) \in Nat
         /\ StartOf(a + b) \in StartOf(a) + Increment(b)..StartOf(a) + Increment(b) + 1
<1>1. a - 1 \in Nat
  OBVIOUS
<1>2. /\ Increment(a - 1) \in Nat /\ Increment(b) \in Nat
      /\ Increment((a - 1) + b)
           \in Increment(a - 1) + Increment(b)..Increment(a - 1) + Increment(b) + 1
  BY <1>1, IncrementAdd
<1>3. (a - 1) + b = a + b - 1
  OBVIOUS
<1>. QED
  BY <1>2, <1>3 DEF StartOf

\* One block further on, one block more has been read.
LEMMA BlocksRead ==
  ASSUME NEW o \in Nat
  PROVE  o \div BlockFrames \in Nat /\ (o + BlockFrames) \div BlockFrames = o \div BlockFrames + 1
<1>. DEFINE q == o \div BlockFrames
<1>1. BlockFrames \in Nat \ {0}
  BY DecoderAssumption
<1>2. q \in Nat /\ BlockFrames * q <= o /\ o < BlockFrames * q + BlockFrames
  BY <1>1, Division
<1>. HIDE DEF q
<1>3. BlockFrames * (q + 1) = BlockFrames * q + BlockFrames /\ BlockFrames * q \in Nat
  BY <1>1, <1>2
<1>4. (o + BlockFrames) \div BlockFrames = q + 1
  <2>1. o + BlockFrames \in Nat /\ q + 1 \in Nat
    BY <1>1, <1>2
  <2>2. /\ BlockFrames * (q + 1) <= o + BlockFrames
        /\ o + BlockFrames < BlockFrames * (q + 1) + BlockFrames
    BY <1>1, <1>2, <1>3
  <2>. QED
    BY <1>1, <2>1, <2>2, Quotient
<1>. QED
  BY <1>2, <1>4 DEF q

\* A buffer that is not empty holds an undelivered frame, and the clock is at it.
ClockInv ==
  /\ mayRead /\ buffer # <<>> => offset < Len(buffer)
  /\ ClockFollowsSource

\* The clock stays with the buffer a step leaves alone.
LEMMA ClockQuiet ==
  ASSUME ClockInv, UNCHANGED <<buffer, offset, nextTime>>, mayRead' => mayRead
  PROVE  ClockInv'
BY DEF ClockInv, ClockFollowsSource

\* Nothing is asked of the clock while nothing may be read or nothing is there.
LEMMA ClockIdle ==
  ASSUME mayRead' = FALSE \/ buffer' = <<>>
  PROVE  ClockInv'
BY DEF ClockInv, ClockFollowsSource

\* A block taken from the buffer moves the clock and its frame together.
LEMMA ClockRead ==
  ASSUME Inv, ClockInv, ReadBlock, buffer' = buffer, offset' = offset + BlockFrames,
         Available > BlockFrames
  PROVE  ClockInv'
<1>1. /\ mayRead /\ Advance(nextTime, BlockFrames) # NoTime
      /\ nextTime' = Advance(nextTime, BlockFrames)
  BY DEF ReadBlock, Inv, ControlInv
<1>2. /\ Len(buffer) \in Nat /\ offset \in 0..Len(buffer) /\ BlockFrames \in Nat \ {0}
      /\ nextTime \in Nat
  BY DecoderAssumption, TimeAssumption DEF Inv, TypeInv, NumbersOK
<1>3. Len(buffer) - offset > BlockFrames
  BY DEF Available
<1>4. offset + BlockFrames < Len(buffer)
  BY <1>2, <1>3
<1>5. buffer # <<>>
  BY <1>2, <1>4
<1>. DEFINE k == buffer[offset + 1]
            k2 == buffer[offset + BlockFrames + 1]
<1>6. k \in Nat \ {0} /\ k2 = k + BlockFrames
  <2>1. readerNext \in Nat /\ Len(buffer) < readerNext
    <3>1. reader \in Nat
      BY DecoderAssumption DEF Inv, TypeInv, NumbersOK, NoReader
    <3>. QED
      BY <1>1, <3>1 DEF Inv, TypeInv, NumbersOK, BufferInv
  <2>2. \A i \in 1..Len(buffer) : buffer[i] = readerNext - Len(buffer) + i - 1
    BY <1>1 DEF Inv, BufferInv
  <2>3. offset + 1 \in 1..Len(buffer) /\ offset + BlockFrames + 1 \in 1..Len(buffer)
    BY <1>2, <1>4
  <2>4. /\ k = readerNext - Len(buffer) + (offset + 1) - 1
        /\ k2 = readerNext - Len(buffer) + (offset + BlockFrames + 1) - 1
    BY <2>2, <2>3
  <2>. HIDE DEF k, k2
  <2>. QED
    BY <1>2, <2>1, <2>4
<1>7. nextTime \in StartOf(k) - offset \div BlockFrames..StartOf(k)
  BY <1>1, <1>5 DEF ClockInv, ClockFollowsSource
<1>. HIDE DEF k
<1>8. /\ StartOf(k) \in Nat /\ Increment(BlockFrames) \in Nat
      /\ StartOf(k + BlockFrames)
           \in StartOf(k) + Increment(BlockFrames)..StartOf(k) + Increment(BlockFrames) + 1
  <2>1. BlockFrames \in Nat /\ k \in Nat \ {0}
    BY <1>2, <1>6
  <2>. QED
    BY <2>1, LaterStart
<1>9. nextTime' = nextTime + Increment(BlockFrames)
  BY <1>1 DEF Advance, NoTime
<1>10. /\ offset \div BlockFrames \in Nat
       /\ (offset + BlockFrames) \div BlockFrames = offset \div BlockFrames + 1
  <2>1. offset \in Nat
    BY <1>2
  <2>. QED
    BY <2>1, BlocksRead
<1>11. nextTime + Increment(BlockFrames)
         \in StartOf(k2) - (offset + BlockFrames) \div BlockFrames..StartOf(k2)
  <2>. DEFINE s == StartOf(k)
              t == StartOf(k + BlockFrames)
              inc == Increment(BlockFrames)
              q == offset \div BlockFrames
  <2>1. /\ s \in Nat /\ inc \in Nat /\ q \in Nat /\ nextTime \in s - q..s
        /\ t \in s + inc..s + inc + 1
    BY <1>7, <1>8, <1>10
  <2>. HIDE DEF s, t, inc, q
  <2>2. nextTime + inc \in t - (q + 1)..t
    BY <1>2, <2>1
  <2>. QED
    BY <1>6, <1>10, <2>2 DEF s, t, inc, q
<1>. QED
  BY <1>4, <1>9, <1>11 DEF ClockInv, ClockFollowsSource

\* A sample appended leaves the clock at the first undelivered frame, and one
\* that comes into an empty buffer sets it there.
LEMMA ClockArrives ==
  ASSUME Inv, ClockInv, NEW n \in 0..MaxSample, SampleArrives(n),
         buffer' = buffer \o [i \in 1..n |-> readerNext + i - 1], UNCHANGED mayRead
  PROVE  ClockInv'
<1>1. /\ offset' = offset /\ nextTime' = Synchronised /\ mayRead
  BY DEF SampleArrives, Inv, ControlInv
<1>2. n \in Nat /\ readerNext \in Nat /\ readerNext > 0
  <2>1. reader \in Nat
    BY DecoderAssumption DEF Inv, TypeInv, NumbersOK, NoReader
  <2>. QED
    BY <2>1, DecoderAssumption DEF Inv, TypeInv, NumbersOK
<1>3. buffer \in Seq(Nat) /\ offset \in 0..Len(buffer) /\ Len(buffer) \in Nat
  BY DEF Inv, TypeInv, NumbersOK
<1>4. /\ buffer' \in Seq(Nat) /\ Len(buffer') = Len(buffer) + n
      /\ \A i \in 1..Len(buffer) : buffer'[i] = buffer[i]
      /\ \A i \in Len(buffer) + 1..Len(buffer) + n :
           buffer'[i] = readerNext + i - Len(buffer) - 1
  BY <1>2, <1>3, Appended
<1>5. CASE buffer # <<>>
  <2>1. offset < Len(buffer) /\ nextTime' = nextTime
    BY <1>1, <1>5 DEF ClockInv, Synchronised
  <2>2. offset + 1 \in 1..Len(buffer) /\ offset < Len(buffer) + n
    BY <1>2, <1>3, <2>1
  <2>3. buffer'[offset + 1] = buffer[offset + 1]
    BY <1>4, <2>2
  <2>. QED
    BY <1>1, <1>4, <1>5, <2>1, <2>2, <2>3 DEF ClockInv, ClockFollowsSource
<1>6. CASE buffer = <<>> /\ n = 0
  <2>1. Len(buffer') = 0
    BY <1>4, <1>6
  <2>2. buffer' = <<>>
    BY <1>4, <2>1
  <2>. QED
    BY <2>2, ClockIdle
<1>7. CASE buffer = <<>> /\ n > 0
  <2>1. Len(buffer) = 0 /\ offset = 0 /\ nextTime' = StartOf(readerNext)
    BY <1>1, <1>3, <1>7 DEF Synchronised
  <2>2. Len(buffer') > 0 /\ buffer'[1] = readerNext
    <3>1. 1 \in Len(buffer) + 1..Len(buffer) + n /\ readerNext + 1 - 0 - 1 = readerNext
      BY <1>2, <1>7, <2>1
    <3>. QED
      BY <1>2, <1>4, <1>7, <2>1, <3>1
  <2>3. 0 \div BlockFrames = 0 /\ StartOf(readerNext) \in Nat
    <3>1. 0 \div BlockFrames = 0
      BY DecoderAssumption, Quotient
    <3>2. readerNext - 1 \in Nat /\ 0 \in Nat
      BY <1>2
    <3>. QED
      BY <3>1, <3>2, IncrementAdd DEF StartOf
  <2>4. StartOf(readerNext) \in StartOf(readerNext) - 0..StartOf(readerNext)
    BY <2>3
  <2>. QED
    BY <1>1, <2>1, <2>2, <2>3, <2>4 DEF ClockInv, ClockFollowsSource
<1>. QED
  BY <1>2, <1>5, <1>6, <1>7

\* Every step keeps the clock at the first undelivered frame.
LEMMA ClockStep ==
  ASSUME Inv, ClockInv, [Next]_vars
  PROVE  ClockInv'
<1>1. CASE RequestCancel
  BY <1>1, ClockQuiet DEF RequestCancel, decoded
<1>2. CASE Close
  BY <1>2, ClockIdle DEF Close
<1>3. CASE OpenBegin
  BY <1>3, ClockIdle DEF OpenBegin, Fail
<1>4. CASE OpenCreate
  BY <1>4, ClockQuiet DEF OpenCreate, Fail, decoded
<1>5. CASE OpenConfigure
  BY <1>5, ClockQuiet DEF OpenConfigure, Fail, decoded
<1>6. CASE OpenPublish
  BY <1>6, ClockIdle DEF OpenPublish, Fail, ClearSamples
<1>7. ASSUME NEW ms \in SeekTargets, SeekBegin(ms) PROVE ClockInv'
  BY <1>7, ClockQuiet DEF SeekBegin, Fail, decoded
<1>8. CASE Seek
  BY <1>8, ClockIdle DEF Seek, Fail, ClearSamples
<1>9. CASE ReadBegin
  BY <1>9, ClockQuiet DEF ReadBegin, Fail, decoded
<1>10. CASE FillStep
  BY <1>10, ClockQuiet DEF FillStep, Fail, decoded
<1>11. CASE SampleCancelled
  BY <1>11, ClockIdle DEF SampleCancelled, Fail
<1>12. CASE SampleFails
  BY <1>12, ClockIdle DEF SampleFails, Fail
<1>13. CASE SampleEnd
  BY <1>13, ClockQuiet DEF SampleEnd
<1>14. CASE SampleAbsent
  BY <1>14, ClockQuiet DEF SampleAbsent, decoded
<1>15. ASSUME NEW n \in 0..MaxSample, SampleArrives(n) PROVE ClockInv'
  <2>1. CASE Fail
    BY <2>1, ClockIdle DEF Fail
  <2>2. CASE /\ buffer' = buffer \o [i \in 1..n |-> readerNext + i - 1]
             /\ UNCHANGED mayRead
    BY <1>15, <2>2, ClockArrives
  <2>. QED
    BY <1>15, <2>1, <2>2 DEF SampleArrives
<1>16. CASE ReadFails
  BY <1>16, ClockIdle DEF ReadFails, Fail
<1>17. CASE ReadBlock
  <2>1. CASE buffer' = <<>>
    BY <2>1, ClockIdle
  <2>2. CASE /\ Available > BlockFrames
             /\ buffer' = buffer /\ offset' = offset + BlockFrames
    BY <1>17, <2>2, ClockRead
  <2>. QED
    BY <1>17, <2>1, <2>2, Taken DEF Inv, TypeInv
<1>18. CASE UNCHANGED vars
  BY <1>18, ClockQuiet DEF vars, decoded
<1>. QED
  BY <1>1, <1>2, <1>3, <1>4, <1>5, <1>6, <1>7, <1>8, <1>9, <1>10, <1>11, <1>12,
     <1>13, <1>14, <1>15, <1>16, <1>17, <1>18
  DEF Next, Worker, Sample

\* Less than a block and a sample is ever left undelivered, and the time of the
\* first undelivered frame is its own, less a tick for each block read since the
\* buffer was empty.
THEOREM DecoderAccountsForSamples == Spec => []SamplesAreAccountedFor
<1>1. Init => ClockInv
  BY DEF Init, ClockInv, ClockFollowsSource
<1>2. Inv /\ ClockInv /\ [Next]_vars => ClockInv'
  BY ClockStep
<1>3. Inv /\ ClockInv => SamplesAreAccountedFor
  BY DEF Inv, ClockInv, SamplesAreAccountedFor
<1>. QED
  BY <1>1, <1>2, <1>3, InvAlways, PTL DEF Spec

=============================================================================
