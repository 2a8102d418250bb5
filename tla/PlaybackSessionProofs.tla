------------------------ MODULE PlaybackSessionProofs -----------------------
(***************************************************************************)
(* Theorems about the playback side of the session: the types, the decode  *)
(* worker's command, the queue it feeds, and the order in which blocks are *)
(* played and reported, for every source length, whatever the source tells *)
(* of it, every seek target, queue size, set of layouts and devices, and   *)
(* every bound of the model.                                               *)
(***************************************************************************)
EXTENDS SessionControlProofs, SequenceTheorems

-----------------------------------------------------------------------------
(* Types.                                                                  *)

\* A block is the last of its source exactly if it reaches the source's length.
DecodedBlock == {b \in Block : b.last = (b.position >= MediaLength)}
DecodedPipeline == [layout : Layouts, queue : Seq(DecodedBlock)]

\* The local command of decode_loop, while there is one.
WorkerCommand == [generation : 1..MaxGeneration, sequence : 0..MaxSequence, epoch : Nat,
             layout : Layouts, seek : Nat \cup {None}]
CommandPlaces == {"check", "open", "openFailed", "publishOpened", "ready", "seek", "seekFailed",
            "publishSought", "sought", "read", "readFailed", "push"}
Waiting == {"wait", "ending", "finished"}
Busy == dpc \in CommandPlaces

\* The request and the report.  Every cancellation of the decoder belongs to a
\* load, to a seek or a selection, or to close().
AppTypes ==
  /\ generation \in 0..MaxGeneration /\ seekSequence \in 0..MaxSequence
  /\ decoderEpoch \in Nat /\ cancelEpoch \in Nat
  /\ decoderEpoch <= cancelEpoch
  /\ cancelEpoch <= generation + seekSequence + (IF shuttingDown THEN 1 ELSE 0)
  /\ pendingSeek \in Nat \cup {None}
  /\ position \in Nat
  /\ layout \in Layouts \cup {None}
  /\ shuttingDown \in BOOLEAN
  /\ rsince \in (0..MaxGeneration) \X (0..MaxSequence)
  /\ completionToken \in Nat

\* The pipeline and the callback: a queue is set aside only for a callback that
\* is about to pop from it.
SoundTypes ==
  /\ pipeline \in DecodedPipeline \cup {None}
  /\ pipeline # None => Len(pipeline.queue) <= QueueSlots
  /\ rpc \in {"idle", "pop", "mix"}
  /\ IF rpc = "mix" THEN rblock \in DecodedBlock ELSE rblock = None
  /\ \/ rdetached = <<>>
     \/ rpc = "pop" /\ rdetached[1] \in Seq(DecodedBlock) /\ rdetached = <<rdetached[1]>>
  /\ rpc = "pop" /\ rdetached = <<>> => pipeline \in DecodedPipeline

\* The decode worker.
WorkerTypes ==
  /\ dpc \in Waiting \cup CommandPlaces
  /\ IF Busy THEN command \in WorkerCommand ELSE command = NoCommand
  /\ active \in Request /\ failed \in Request \cup {None}
  /\ endOfStream \in BOOLEAN
  /\ decoderPosition \in Nat
  /\ IF dpc = "push" THEN dblock \in DecodedBlock ELSE dblock = None

-----------------------------------------------------------------------------
(* The command and the queue it feeds.                                     *)

\* The worker never knows more than what was asked for: what it serves is not
\* newer than its command, nor its command than the request.
CommandInv ==
  /\ Busy => /\ command.generation <= generation /\ command.sequence <= seekSequence
             /\ active.generation <= command.generation
             /\ active.sequence <= command.sequence
  /\ active.generation <= generation
  /\ active.sequence <= seekSequence

\* Once a command's source is open, the worker serves that source, and after
\* the seek that sequence too.  It reads only where it has seen room, or has
\* published a new pipeline, and only close() takes the pipeline away from it.
ServedInv ==
  /\ dpc \in {"ready", "seek", "seekFailed", "publishSought", "sought", "read", "readFailed",
              "push"}
       => active.generation = command.generation /\ active.layout = command.layout
  /\ dpc \in {"sought", "read", "readFailed", "push"} => active.sequence = command.sequence
  /\ dpc \in {"ready", "sought", "read", "readFailed", "push"}
       => ~endOfStream /\ (shuttingDown \/ QueueHasRoom)

\* How far the decoder's blocks have got towards the queue, and whether the
\* worker is going to add to it.
Decoded == IF dpc = "push" THEN decoderPosition - 1 ELSE decoderPosition
Feeding ==
  /\ active.generation # 0 /\ ~endOfStream
  /\ dpc \notin {"publishOpened", "publishSought", "ending", "finished"}

\* The block that was read answers the command.
FeedInv ==
  dpc = "push" => /\ dblock.generation = command.generation
                  /\ dblock.sequence = command.sequence
                  /\ dblock.position = decoderPosition

\* The blocks of a queue are of one load and seek and follow each other.
Coherent(q) ==
  \A i, j \in 1..Len(q) : i < j =>
    /\ q[i].generation = q[j].generation
    /\ q[i].sequence = q[j].sequence
    /\ q[j].position = q[i].position + (j - i)
    /\ ~q[i].last

\* The next block of a source, load g and seek s, at p + 1 would fit a queue.
Continues(q, g, s, p) ==
  /\ \A i \in 1..Len(q) : q[i].generation = g /\ q[i].sequence = s /\ ~q[i].last
  /\ q # <<>> => q[Len(q)].position = p

\* The published queue is coherent, and what the worker adds continues it.
QueueInv ==
  pipeline # None =>
    /\ Coherent(pipeline.queue)
    /\ Feeding => Continues(pipeline.queue, active.generation, active.sequence, Decoded)

\* A callback began with an earlier or with the latest request.
FreshInv ==
  /\ rsince[1] <= generation /\ rsince[2] <= seekSequence
  /\ FreshBlocks

-----------------------------------------------------------------------------
(* The order of playing.                                                   *)

\* The blocks that may still be played: those of the published queue, those of
\* the queue a callback holds, and the one it has popped.
BlocksOf(q) == {q[i] : i \in 1..Len(q)}
Queued == IF pipeline = None THEN {} ELSE BlocksOf(pipeline.queue)
Held == IF rpc = "pop" THEN BlocksOf(HeldQueue) ELSE {}
Mixed == IF rpc = "mix" THEN {rblock} ELSE {}
InPlay == Queued \cup Held \cup Mixed

\* They were decoded for requests that have been made.
Past(b) == b.generation <= generation /\ b.sequence <= seekSequence
PastInv == \A b \in InPlay : b \in DecodedBlock /\ Past(b)

\* The latest request is being served; it is the one the worker is working on.
Served == active.generation = generation /\ active.sequence = seekSequence
OnRequest == command.generation = generation /\ command.sequence = seekSequence

\* A worker on the latest request has its epoch, and is opening or seeking only what
\* is not served yet.
RequestInv ==
  /\ Busy /\ OnRequest => command.epoch = decoderEpoch
  /\ dpc \in {"check", "open", "openFailed", "publishOpened", "seek", "seekFailed",
              "publishSought"} /\ OnRequest => ~Served

\* The buffer layout, once a callback has brought one, stays the same: the
\* hypothesis under which nothing is played twice.  (A new layout makes the
\* worker open the source again, at its start: see the run claim_pause.)
OneLayout == [][layout = None]_layout

\* Then the worker opens a source that it serves already only to fail again.
LayoutInv ==
  /\ active.generation # 0 \/ Busy => layout # None
  /\ Busy => command.layout = layout
  /\ Served /\ generation > 0 /\ active.layout # layout => failed = Requested

\* The position, once a block has told it for the latest request, is not beyond p.
Reached(p) == told => position <= p

\* Before the latest request is served nothing has been reported for it, and nothing
\* of it is in play.
UntoldInv == ~shuttingDown /\ ~Served => ~told /\ ~reachedEnd
LatestInv == ~shuttingDown /\ ~Served => \A b \in InPlay : ~Latest(b)

\* A queue that was replaced under the callback has nothing of the latest request.
DetachedInv == ~shuttingDown /\ rpc = "pop" /\ rdetached # <<>> => \A b \in Held : ~Latest(b)

\* While it is served: the report is not beyond what has been decoded.
FeedOrder == ~shuttingDown /\ Served /\ Feeding => ~reachedEnd /\ Reached(Decoded)

\* The block that was popped, if it is of the latest request: it is ahead of the
\* report, and what is queued or still to be decoded is ahead of it.
MixedInv ==
  ~shuttingDown /\ rpc = "mix" /\ Latest(rblock) =>
    /\ Reached(rblock.position - 1) /\ ~reachedEnd
    /\ Served /\ Feeding => ~rblock.last /\ rblock.position <= Decoded
    /\ \A b \in Queued : Latest(b) => b.position > rblock.position /\ ~rblock.last

\* What is queued for the latest request is ahead of the report.
AheadInv ==
  \A b \in Queued : Latest(b) => (told => b.position > position) /\ ~reachedEnd

OrderInv ==
  UntoldInv /\ LatestInv /\ DetachedInv /\ FeedOrder /\ MixedInv /\ AheadInv

-----------------------------------------------------------------------------
(* Pipelines, blocks and requests.                                         *)

\* None is neither a block nor a pipeline.
LEMMA NoneIsNothing == None \notin DecodedBlock /\ None \notin DecodedPipeline
<1>1. DecodedBlock \subseteq Block
  BY DEF DecodedBlock
<1>2. Seq(DecodedBlock) \subseteq Seq(Block)
  BY <1>1
<1>3. DecodedPipeline \subseteq Pipelines
  BY <1>2 DEF DecodedPipeline, Pipelines
<1>4. QED BY <1>1, <1>3, NoneAssumption

\* What a callback takes from a queue and what it leaves.
LEMMA TakeFromQueue ==
  ASSUME NEW q \in Seq(DecodedBlock), q # <<>>
  PROVE  /\ Len(q) \in Nat \ {0}
         /\ Head(q) = q[1] /\ Head(q) \in DecodedBlock
         /\ Tail(q) \in Seq(DecodedBlock) /\ Len(Tail(q)) = Len(q) - 1
         /\ \A i \in 1..Len(q) - 1 : Tail(q)[i] = q[i + 1]
  BY HeadTailProperties, EmptySeq, LenProperties, ElementOfSeq

\* A new empty pipeline.
LEMMA EmptyPipeline ==
  ASSUME NEW l \in Layouts
  PROVE  LET n == [layout |-> l, queue |-> <<>>]
         IN  n \in DecodedPipeline /\ n # None /\ n.layout = l /\ n.queue = <<>>
               /\ Len(n.queue) = 0
<1>1. <<>> \in Seq(DecodedBlock) /\ Len(<<>>) = 0
  BY EmptySeq
<1>2. [layout |-> l, queue |-> <<>>] \in DecodedPipeline
  BY DEF DecodedPipeline
<1>3. [layout |-> l, queue |-> <<>>] # None
  BY <1>2, NoneIsNothing
<1>4. QED BY <1>1, <1>2, <1>3

\* A pipeline after a pop.
LEMMA ShorterPipeline ==
  ASSUME NEW p \in DecodedPipeline, p.queue # <<>>
  PROVE  LET n == [p EXCEPT !.queue = Tail(@)]
         IN  n \in DecodedPipeline /\ n # None /\ n.layout = p.layout /\ n.queue = Tail(p.queue)
<1> DEFINE n == [p EXCEPT !.queue = Tail(@)]
<1>1. n \in DecodedPipeline
  BY DEF DecodedPipeline
<1>2. n.layout = p.layout /\ n.queue = Tail(p.queue)
  BY DEF DecodedPipeline
<1>3. n # None
  BY <1>1, NoneIsNothing
<1>4. QED BY <1>1, <1>2, <1>3

\* A pipeline after a push.
LEMMA LongerPipeline ==
  ASSUME NEW p \in DecodedPipeline, NEW b \in DecodedBlock
  PROVE  LET n == [p EXCEPT !.queue = Append(@, b)]
         IN  n \in DecodedPipeline /\ n # None /\ n.layout = p.layout
               /\ n.queue = Append(p.queue, b)
<1> DEFINE n == [p EXCEPT !.queue = Append(@, b)]
<1>1. n \in DecodedPipeline
  BY DEF DecodedPipeline
<1>2. n.layout = p.layout /\ n.queue = Append(p.queue, b)
  BY DEF DecodedPipeline
<1>3. n # None
  BY <1>1, NoneIsNothing
<1>4. QED BY <1>1, <1>2, <1>3

\* What the worker remembers of its source: when it has opened it, ...
LEMMA NewRequest ==
  ASSUME NEW g \in 0..MaxGeneration, NEW q \in 0..MaxSequence, NEW l \in Layouts
  PROVE  LET n == [generation |-> g, sequence |-> q, layout |-> l]
         IN  n \in Request /\ n.generation = g /\ n.sequence = q /\ n.layout = l
  BY DEF Request

\* ... at any time, ...
LEMMA ActiveRequest ==
  ASSUME NEW r \in Request
  PROVE  /\ r.generation \in 0..MaxGeneration /\ r.sequence \in 0..MaxSequence
         /\ r.layout \in Layouts \cup {None}
  BY DEF Request

\* ... when a command was dropped, ...
LEMMA NoGeneration ==
  ASSUME NEW r \in Request
  PROVE  LET n == [r EXCEPT !.generation = 0]
         IN  n \in Request /\ n.generation = 0 /\ n.sequence = r.sequence /\ n.layout = r.layout
  BY SessionAssumption DEF Request

\* ... when an open has failed, ...
LEMMA NewGeneration ==
  ASSUME NEW r \in Request, NEW g \in 0..MaxGeneration
  PROVE  LET n == [r EXCEPT !.generation = g]
         IN  n \in Request /\ n.generation = g /\ n.sequence = r.sequence /\ n.layout = r.layout
  BY DEF Request

\* ... and when a seek has been carried out.
LEMMA NewSequence ==
  ASSUME NEW r \in Request, NEW s \in 0..MaxSequence
  PROVE  LET n == [r EXCEPT !.sequence = s]
         IN  n \in Request /\ n.sequence = s /\ n.generation = r.generation /\ n.layout = r.layout
  BY DEF Request

\* A block that is read for a command.
LEMMA ReadBlock ==
  ASSUME NEW c \in WorkerCommand, NEW p \in Nat
  PROVE  LET b == [generation |-> c.generation, sequence |-> c.sequence, position |-> p + 1,
                   last |-> p + 1 >= MediaLength]
         IN  /\ b \in DecodedBlock
             /\ b.generation = c.generation /\ b.sequence = c.sequence /\ b.position = p + 1
<1> USE SessionAssumption
<1> DEFINE b == [generation |-> c.generation, sequence |-> c.sequence, position |-> p + 1,
                 last |-> p + 1 >= MediaLength]
<1>1. /\ b.generation = c.generation /\ b.sequence = c.sequence /\ b.position = p + 1
      /\ b.last = (p + 1 >= MediaLength)
  OBVIOUS
<1>2. c.generation \in 1..MaxGeneration /\ c.sequence \in 0..MaxSequence
  BY DEF WorkerCommand
<1>3. p + 1 \in Nat \ {0} /\ (p + 1 >= MediaLength) \in BOOLEAN
  OBVIOUS
<1>4. b \in Block
  BY <1>2, <1>3 DEF Block
<1>5. QED BY <1>1, <1>4 DEF DecodedBlock

\* An empty queue is continued by anything.
LEMMA EmptyQueue ==
  ASSUME NEW g, NEW s, NEW p
  PROVE  Coherent(<<>>) /\ Continues(<<>>, g, s, p)
<1>1. Len(<<>>) = 0
  BY EmptySeq
<1>2. QED BY <1>1 DEF Coherent, Continues

\* A pop keeps what is known of a queue.
LEMMA PoppedQueue ==
  ASSUME NEW q \in Seq(DecodedBlock), q # <<>>, NEW g, NEW s, NEW p
  PROVE  /\ Coherent(q) => Coherent(Tail(q))
         /\ Continues(q, g, s, p) => Continues(Tail(q), g, s, p)
<1> DEFINE t == Tail(q)
<1>1. /\ Len(q) \in Nat \ {0} /\ Len(t) = Len(q) - 1 /\ t \in Seq(DecodedBlock)
      /\ \A i \in 1..Len(q) - 1 : t[i] = q[i + 1]
  BY TakeFromQueue
<1>2. t # <<>> => Len(t) # 0
  BY <1>1, EmptySeq
<1> HIDE DEF t
<1>3. ASSUME Coherent(q) PROVE Coherent(t)
  <2>1. SUFFICES ASSUME NEW i \in 1..Len(t), NEW j \in 1..Len(t), i < j
                 PROVE  /\ t[i].generation = t[j].generation
                        /\ t[i].sequence = t[j].sequence
                        /\ t[j].position = t[i].position + (j - i)
                        /\ ~t[i].last
    BY DEF Coherent
  <2>2. /\ i + 1 \in 1..Len(q) /\ j + 1 \in 1..Len(q) /\ i + 1 < j + 1
        /\ (j + 1) - (i + 1) = j - i
    BY <1>1, <2>1
  <2>3. t[i] = q[i + 1] /\ t[j] = q[j + 1]
    BY <1>1
  <2>4. QED BY <1>3, <2>2, <2>3 DEF Coherent
<1>4. Continues(q, g, s, p) => Continues(t, g, s, p)
  BY <1>1, <1>2 DEF Continues
<1>5. QED BY <1>3, <1>4 DEF t

\* The block that continues a queue keeps it coherent, and is continued in turn
\* unless it is the last of the source.
LEMMA PushedQueue ==
  ASSUME NEW q \in Seq(DecodedBlock), NEW b \in DecodedBlock, NEW p \in Nat,
         Coherent(q), Continues(q, b.generation, b.sequence, p), b.position = p + 1
  PROVE  /\ Coherent(Append(q, b))
         /\ ~b.last => Continues(Append(q, b), b.generation, b.sequence, p + 1)
<1> DEFINE a == Append(q, b)
<1>1. /\ a \in Seq(DecodedBlock) /\ Len(a) = Len(q) + 1 /\ Len(q) \in Nat
      /\ \A i \in 1..Len(q) : a[i] = q[i]
      /\ a[Len(q) + 1] = b
  BY AppendProperties, LenProperties
<1>2. Len(q) # 0 => q # <<>>
  BY EmptySeq
<1> HIDE DEF a
<1>3. Coherent(a)
  <2>1. SUFFICES ASSUME NEW i \in 1..Len(a), NEW j \in 1..Len(a), i < j
                 PROVE  /\ a[i].generation = a[j].generation
                        /\ a[i].sequence = a[j].sequence
                        /\ a[j].position = a[i].position + (j - i)
                        /\ ~a[i].last
    BY DEF Coherent
  <2>2. i \in 1..Len(q) /\ a[i] = q[i]
    BY <1>1, <2>1
  <2>3. CASE j \in 1..Len(q)
    BY <1>1, <2>1, <2>2, <2>3 DEF Coherent
  <2>4. CASE j = Len(q) + 1
    <3>1. a[j] = b /\ Len(q) \in 1..Len(q) /\ q[Len(q)] \in DecodedBlock /\ q[i] \in DecodedBlock
      BY <1>1, <2>2, <2>4, ElementOfSeq
    <3>2. /\ q[i].generation = b.generation /\ q[i].sequence = b.sequence /\ ~q[i].last
          /\ q[Len(q)].position = p
      BY <1>1, <1>2, <2>2 DEF Continues
    <3>3. i < Len(q) => p = q[i].position + (Len(q) - i)
      BY <2>2, <3>1, <3>2 DEF Coherent
    <3>4. q[i].position \in Nat
      BY <3>1 DEF DecodedBlock, Block
    <3>5. i = Len(q) => p = q[i].position
      BY <3>2
    <3>6. p = q[i].position + (Len(q) - i)
      BY <1>1, <2>2, <3>3, <3>4, <3>5
    <3>7. b.position = q[i].position + (j - i)
      BY <1>1, <2>2, <2>4, <3>4, <3>6
    <3>8. QED BY <2>2, <3>1, <3>2, <3>7
  <2>5. QED BY <1>1, <2>3, <2>4
<1>4. ~b.last => Continues(a, b.generation, b.sequence, p + 1)
  BY <1>1 DEF Continues
<1>5. QED BY <1>3, <1>4 DEF a

\* The blocks of an empty queue.
LEMMA EmptyBlocks == BlocksOf(<<>>) = {}
<1>1. Len(<<>>) = 0
  BY EmptySeq
<1>2. QED BY <1>1 DEF BlocksOf

\* The blocks that a pop leaves are ahead of the one that it takes.
LEMMA PoppedBlocks ==
  ASSUME NEW q \in Seq(DecodedBlock), q # <<>>
  PROVE  /\ BlocksOf(q) \subseteq DecodedBlock /\ Head(q) \in BlocksOf(q)
         /\ BlocksOf(Tail(q)) \subseteq BlocksOf(q)
         /\ Coherent(q) => \A b \in BlocksOf(Tail(q)) :
                             b.position > Head(q).position /\ ~Head(q).last
<1> DEFINE t == Tail(q)
<1>1. /\ Len(q) \in Nat \ {0} /\ Len(t) = Len(q) - 1 /\ t \in Seq(DecodedBlock)
      /\ \A i \in 1..Len(q) - 1 : t[i] = q[i + 1]
      /\ Head(q) = q[1] /\ \A i \in 1..Len(q) : q[i] \in DecodedBlock
  BY TakeFromQueue, ElementOfSeq
<1> HIDE DEF t
<1>2. BlocksOf(q) \subseteq DecodedBlock /\ Head(q) \in BlocksOf(q)
  BY <1>1 DEF BlocksOf
<1>3. ASSUME NEW b \in BlocksOf(t) PROVE \E j \in 1..Len(q) : 1 < j /\ b = q[j]
  <2>1. PICK i \in 1..Len(t) : b = t[i]
    BY DEF BlocksOf
  <2>2. i + 1 \in 1..Len(q) /\ 1 < i + 1 /\ b = q[i + 1]
    BY <1>1, <2>1
  <2>3. QED BY <2>2
<1>4. BlocksOf(t) \subseteq BlocksOf(q)
  BY <1>3 DEF BlocksOf
<1>5. ASSUME Coherent(q), NEW b \in BlocksOf(t)
      PROVE  b.position > Head(q).position /\ ~Head(q).last
  <2>1. PICK j \in 1..Len(q) : 1 < j /\ b = q[j]
    BY <1>3
  <2>2. 1 \in 1..Len(q) /\ q[1] \in DecodedBlock
    BY <1>1
  <2>3. q[j].position = q[1].position + (j - 1) /\ ~q[1].last
    BY <1>5, <2>1, <2>2 DEF Coherent
  <2>4. q[1].position \in Nat
    BY <2>2 DEF DecodedBlock, Block
  <2>5. QED BY <1>1, <2>1, <2>3, <2>4
<1>6. QED BY <1>2, <1>4, <1>5 DEF t

\* The blocks after a push.
LEMMA PushedBlocks ==
  ASSUME NEW q \in Seq(DecodedBlock), NEW b \in DecodedBlock
  PROVE  BlocksOf(Append(q, b)) = BlocksOf(q) \cup {b}
<1> DEFINE a == Append(q, b)
<1>1. /\ Len(a) = Len(q) + 1 /\ Len(q) \in Nat
      /\ \A i \in 1..Len(q) : a[i] = q[i]
      /\ a[Len(q) + 1] = b
  BY AppendProperties, LenProperties
<1> HIDE DEF a
<1>2. BlocksOf(a) \subseteq BlocksOf(q) \cup {b}
  <2>1. SUFFICES ASSUME NEW i \in 1..Len(a) PROVE a[i] \in BlocksOf(q) \cup {b}
    BY DEF BlocksOf
  <2>2. CASE i \in 1..Len(q)
    BY <1>1, <2>2 DEF BlocksOf
  <2>3. CASE i = Len(q) + 1
    BY <1>1, <2>3
  <2>4. QED BY <1>1, <2>2, <2>3
<1>3. BlocksOf(q) \subseteq BlocksOf(a)
  <2>1. SUFFICES ASSUME NEW i \in 1..Len(q) PROVE q[i] \in BlocksOf(a)
    BY DEF BlocksOf
  <2>2. i \in 1..Len(a) /\ q[i] = a[i]
    BY <1>1
  <2>3. QED BY <2>2 DEF BlocksOf
<1>4. b \in BlocksOf(a)
  <2>1. Len(q) + 1 \in 1..Len(a)
    BY <1>1
  <2>2. QED BY <1>1, <2>1 DEF BlocksOf
<1>5. QED BY <1>2, <1>3, <1>4 DEF a

\* Nothing queued is ahead of what has been decoded.
LEMMA BlocksBehind ==
  ASSUME NEW q \in Seq(DecodedBlock), NEW g, NEW s, NEW p, Coherent(q), Continues(q, g, s, p)
  PROVE  \A b \in BlocksOf(q) : b.position <= p /\ ~b.last
<1>1. SUFFICES ASSUME NEW i \in 1..Len(q) PROVE q[i].position <= p /\ ~q[i].last
  BY DEF BlocksOf
<1>2. Len(q) \in 1..Len(q) /\ Len(q) \in Nat /\ q # <<>>
  BY LenProperties, EmptySeq
<1>3. q[Len(q)].position = p /\ ~q[i].last
  BY <1>2 DEF Continues
<1>4. q[i].position \in Nat /\ q[Len(q)].position \in Nat
  BY <1>2, ElementOfSeq DEF DecodedBlock, Block
<1>5. CASE i = Len(q)
  BY <1>3, <1>4, <1>5
<1>6. CASE i < Len(q)
  <2>1. q[Len(q)].position = q[i].position + (Len(q) - i)
    BY <1>2, <1>6 DEF Coherent
  <2>2. QED BY <1>2, <1>3, <1>4, <1>6, <2>1
<1>7. QED BY <1>2, <1>5, <1>6

\* The blocks of a queue are blocks.
LEMMA BlocksTyped ==
  ASSUME NEW q \in Seq(DecodedBlock)
  PROVE  BlocksOf(q) \subseteq DecodedBlock
  BY ElementOfSeq DEF BlocksOf

\* What is in play after the callback has begun.
LEMMA EnterSets ==
  ASSUME SoundTypes, NEW l \in Layouts, RenderEnter(l)
  PROVE  /\ Queued' = Queued /\ Held' \subseteq Queued /\ Mixed' = {}
         /\ rdetached' = <<>>
<1>1. rdetached' = <<>> /\ pipeline' = pipeline /\ rpc' \in {"idle", "pop"}
  BY DEF RenderEnter, SoundTypes
<1>2. rpc' = "pop" => pipeline # None
  BY DEF RenderEnter
<1>3. QED BY <1>1, <1>2 DEF Queued, Held, Mixed, HeldQueue

\* What is in play after the callback has popped.
LEMMA PopSets ==
  ASSUME SoundTypes, RenderPop
  PROVE  /\ Queued' \subseteq Queued /\ Held' = {} /\ Mixed' \subseteq Held
         /\ rpc' = "mix" => Latest(rblock')
<1> USE DEF Queued, Held, Mixed, HeldQueue
<1>1. HeldQueue \in Seq(DecodedBlock) /\ (rdetached = <<>> => pipeline \in DecodedPipeline)
  BY DEF RenderPop, SoundTypes, DecodedPipeline
<1>2. HeldQueue # <<>> => Head(HeldQueue) \in BlocksOf(HeldQueue)
  BY <1>1, PoppedBlocks
<1>3. Held' = {} /\ Mixed' \subseteq Held /\ (rpc' = "mix" => Latest(rblock'))
  BY <1>2 DEF RenderPop, Latest
<1>4. CASE rdetached = <<>> /\ HeldQueue # <<>>
  <2>1. pipeline # None /\ pipeline' # None /\ pipeline'.queue = Tail(pipeline.queue)
    BY <1>1, <1>4, ShorterPipeline, NoneIsNothing DEF RenderPop
  <2>2. BlocksOf(Tail(pipeline.queue)) \subseteq BlocksOf(pipeline.queue)
    BY <1>1, <1>4, PoppedBlocks
  <2>3. QED BY <1>3, <2>1, <2>2
<1>5. CASE ~(rdetached = <<>> /\ HeldQueue # <<>>)
  BY <1>3, <1>5 DEF RenderPop
<1>6. QED BY <1>4, <1>5

\* What is in play after a new pipeline was published.
LEMMA PublishSets ==
  ASSUME SoundTypes, PublishPipeline, UNCHANGED <<rpc, rblock>>
  PROVE  /\ Queued' = {} /\ Held' = Held /\ Mixed' = Mixed
         /\ rpc' = "pop" => rdetached' # <<>>
<1>1. pipeline'.queue = <<>>
  BY DEF PublishPipeline
<1>2. Queued' = {}
  BY <1>1, EmptyBlocks DEF Queued
<1>3. Held' = Held
  BY DEF PublishPipeline, Held, HeldQueue
<1>4. QED BY <1>2, <1>3 DEF PublishPipeline, Mixed

\* What is in play after a block was pushed.
LEMMA PushSets ==
  ASSUME SoundTypes, WorkerTypes, ServedInv, DecodePush
  PROVE  /\ dblock \in DecodedBlock
         /\ IF CommandIsCurrent
              THEN /\ Queued' = Queued \cup {dblock} /\ Held' \subseteq Held \cup {dblock}
                   /\ rdetached # <<>> => Held' = Held
              ELSE Queued' = Queued /\ Held' = Held
         /\ Mixed' = Mixed
<1>1. dblock \in DecodedBlock /\ Mixed' = Mixed
  BY DEF DecodePush, WorkerTypes, callback, Mixed
<1>2. CASE CommandIsCurrent
  <2>1. QueueHasRoom /\ pipeline \in DecodedPipeline /\ pipeline # None
          /\ pipeline.queue \in Seq(DecodedBlock)
    BY <1>2 DEF DecodePush, SoundTypes, QueueHasRoom, DecodedPipeline, ServedInv, CommandIsCurrent
  <2>2. pipeline' # None /\ pipeline'.queue = Append(pipeline.queue, dblock)
    BY <1>1, <1>2, <2>1, LongerPipeline DEF DecodePush
  <2>3. BlocksOf(pipeline'.queue) = BlocksOf(pipeline.queue) \cup {dblock}
    BY <1>1, <2>1, <2>2, PushedBlocks
  <2>4. UNCHANGED <<rpc, rdetached>>
    BY DEF DecodePush, callback
  <2>5. QED BY <1>1, <1>2, <2>1, <2>2, <2>3, <2>4 DEF Queued, Held, HeldQueue
<1>3. CASE ~CommandIsCurrent
  BY <1>1, <1>3 DEF DecodePush, callback, Queued, Held, HeldQueue
<1>4. QED BY <1>2, <1>3

\* A worker that serves the latest request is on it.
LEMMA ServedIsCurrent ==
  ASSUME AppTypes, WorkerTypes, CommandInv, RequestInv, Busy, Served, ~shuttingDown
  PROVE  OnRequest /\ CommandIsCurrent
<1>1. /\ command.generation \in Nat /\ command.sequence \in Nat
      /\ generation \in Nat /\ seekSequence \in Nat
  BY SessionAssumption DEF WorkerTypes, AppTypes, WorkerCommand
<1>2. OnRequest
  BY <1>1 DEF CommandInv, Served, OnRequest
<1>3. QED BY <1>2 DEF OnRequest, RequestInv, CommandIsCurrent

\* What is served is dropped by nobody.
LEMMA StaysServed ==
  ASSUME AppTypes, WorkerTypes, CommandInv, RequestInv, Served, ~shuttingDown,
         DecodeFailed \/ DecodePublishOpened \/ DecodePublishSought \/ DecodePush
  PROVE  dpc \in {"readFailed", "push"} /\ active' = active /\ CommandIsCurrent
<1>1. Busy
  BY DEF DecodeFailed, DecodePublishOpened, DecodePublishSought, DecodePush, Busy, CommandPlaces
<1>2. OnRequest /\ CommandIsCurrent
  BY <1>1, ServedIsCurrent
<1>3. dpc \notin {"openFailed", "publishOpened", "seekFailed", "publishSought"}
  BY <1>2 DEF RequestInv
<1>4. QED BY <1>2, <1>3
  DEF DecodeFailed, DecodePublishOpened, DecodePublishSought, DecodePush

\* A command of the application leaves nothing of the latest request in play.
LEMMA NewRequestInPlay ==
  ASSUME AppTypes, WorkerTypes, CommandInv, PastInv,
         UNCHANGED <<pipeline, rpc, rblock, rdetached, active>>,
         \/ generation' = generation + 1
         \/ generation' = generation /\ seekSequence' = seekSequence + 1
  PROVE  ~Served' /\ \A b \in InPlay' : ~Latest(b)'
<1>1. InPlay' = InPlay
  BY DEF InPlay, Queued, Held, Mixed, HeldQueue
<1>2. /\ generation \in Nat /\ seekSequence \in Nat
      /\ active.generation \in Nat /\ active.sequence \in Nat
  BY SessionAssumption, ActiveRequest DEF AppTypes, WorkerTypes
<1>3. ~Served'
  BY <1>2 DEF CommandInv, Served
<1>4. ASSUME NEW b \in InPlay PROVE ~Latest(b)'
  BY <1>2 DEF PastInv, Past, Latest, DecodedBlock, Block
<1>5. QED BY <1>1, <1>3, <1>4

\* What a callback reports.
LEMMA Report ==
  ASSUME AppTypes, SoundTypes, OrderInv, NEW locked \in BOOLEAN, RenderFinish(locked)
  PROVE  /\ UNCHANGED <<generation, seekSequence, pendingSeek, pipeline, active, dpc,
                        decoderPosition, endOfStream, shuttingDown, rdetached>>
         /\ rpc = "mix" /\ rpc' = "idle"
         /\ \/ UNCHANGED <<position, told, reachedEnd>>
            \/ /\ ~shuttingDown /\ Latest(rblock) /\ rblock \in InPlay /\ rblock \in DecodedBlock
               /\ ~reachedEnd /\ Reached(rblock.position - 1)
               /\ IF rblock.last
                    THEN position' = Duration[rblock.generation] /\ reachedEnd' = TRUE
                    ELSE position' = rblock.position /\ reachedEnd' = FALSE
<1>1. /\ UNCHANGED <<generation, seekSequence, pendingSeek, pipeline, active, dpc,
                     decoderPosition, endOfStream, shuttingDown, rdetached>>
      /\ rpc = "mix" /\ rpc' = "idle"
  BY DEF RenderFinish, request, worker, source, control, lifecycle
<1>2. rblock \in DecodedBlock /\ rblock \in InPlay
  BY <1>1 DEF SoundTypes, InPlay, Mixed
<1>3. CASE locked /\ MayReport
  <2>1. ~shuttingDown /\ Latest(rblock)
    BY <1>3 DEF MayReport
  <2>2. ~reachedEnd /\ Reached(rblock.position - 1)
    BY <1>1, <2>1 DEF OrderInv, MixedInv
  <2>3. IF rblock.last
          THEN position' = Duration[rblock.generation] /\ reachedEnd' = TRUE
          ELSE position' = rblock.position /\ reachedEnd' = reachedEnd
    BY <1>3 DEF RenderFinish, ReportBlock
  <2>4. QED BY <1>1, <1>2, <2>1, <2>2, <2>3
<1>4. CASE ~(locked /\ MayReport)
  BY <1>1, <1>4 DEF RenderFinish
<1>5. QED BY <1>3, <1>4

-----------------------------------------------------------------------------
(* Steps.                                                                  *)

\* The steps that leave the request, the timeline, the callback and the worker
\* alone: pause(), a failed device and its recovery, and the rest of close().
Elsewhere ==
  /\ UNCHANGED <<generation, seekSequence, decoderEpoch, cancelEpoch, pendingSeek, position,
                 told, completionToken, sound, worker, shuttingDown>>
  /\ reachedEnd' = FALSE \/ UNCHANGED reachedEnd

\* Every step is one of those or one of the actions that matter here.
LEMMA StepCases ==
  ASSUME [Next]_vars
  PROVE  \/ Load \/ Play
         \/ \E p \in Targets : SeekTo(p)
         \/ \E d \in Devices : SelectOutputDevice(d)
         \/ \E l \in Layouts : RenderEnter(l)
         \/ RenderPop
         \/ \E locked \in BOOLEAN : RenderFinish(locked)
         \/ Worker
         \/ CloseBegin \/ CloseUnpublish
         \/ Elsewhere
<1> USE DEF Elsewhere
<1> USE DEF request, report, progress, callback, source, worker, endpoint, recovery, lifecycle,
           application, sound, control
<1>1. CASE Pause
  BY <1>1 DEF Pause
<1>2. CASE StreamFault
  BY <1>2 DEF StreamFault
<1>3. ASSUME NEW a \in Actors, ReopenLock(a) PROVE Elsewhere
  BY <1>3 DEF ReopenLock
<1>4. ASSUME NEW a \in Actors, ReopenClose(a) PROVE Elsewhere
  BY <1>4 DEF ReopenClose
<1>5. ASSUME NEW a \in Actors, ReopenCheck(a) PROVE Elsewhere
  BY <1>5 DEF ReopenCheck
<1>6. ASSUME NEW a \in Actors, ReopenOpen(a) PROVE Elsewhere
  BY <1>6 DEF ReopenOpen
<1>7. ASSUME NEW a \in Actors, ReopenRefresh(a) PROVE Elsewhere
  BY <1>7 DEF ReopenRefresh
<1>8. CASE RecoveryWake
  BY <1>8 DEF RecoveryWake
<1>9. CASE RecoveryFailed
  BY <1>9 DEF RecoveryFailed
<1>10. CASE CloseDecoder
  BY <1>10 DEF CloseDecoder
<1>11. CASE CloseStream
  BY <1>11 DEF CloseStream
<1>12. CASE UNCHANGED vars
  BY <1>12 DEF vars
<1>13. QED
  BY <1>1, <1>2, <1>3, <1>4, <1>5, <1>6, <1>7, <1>8, <1>9, <1>10, <1>11, <1>12
  DEF Next, Command, Callback, Reopen, Recovery, Closing, Actors

\* The request, the report and the epochs keep their types.
LEMMA AppTypesStep ==
  ASSUME AppTypes, SoundTypes, ShutdownInv, [Next]_vars
  PROVE  AppTypes'
<1> USE SessionAssumption, NoneAssumption
<1> USE DEF AppTypes, CancelDecoder
<1> USE DEF request, report, progress, callback, source, worker, endpoint, recovery, lifecycle,
           application, sound, control
<1>1. CASE Load
  BY <1>1 DEF Load, CommandMutexFree
<1>2. CASE Play
  BY <1>2 DEF Play
<1>3. ASSUME NEW p \in Targets, SeekTo(p) PROVE AppTypes'
  BY <1>3 DEF SeekTo, Clamped, CommandMutexFree
<1>4. ASSUME NEW d \in Devices, SelectOutputDevice(d) PROVE AppTypes'
  BY <1>4 DEF SelectOutputDevice, CommandMutexFree
<1>5. ASSUME NEW l \in Layouts, RenderEnter(l) PROVE AppTypes'
  BY <1>5 DEF RenderEnter
<1>6. CASE RenderPop
  BY <1>6 DEF RenderPop
<1>7. ASSUME NEW locked \in BOOLEAN, RenderFinish(locked) PROVE AppTypes'
  <2>1. /\ UNCHANGED <<generation, seekSequence, decoderEpoch, cancelEpoch, pendingSeek, layout,
                       shuttingDown>>
        /\ rsince' = <<0, 0>> /\ rpc = "mix"
    BY <1>7 DEF RenderFinish
  <2>2. rblock.position \in Nat /\ Duration[rblock.generation] \in Nat
    BY <2>1 DEF SoundTypes, DecodedBlock, Block
  <2>3. position' \in Nat /\ completionToken' \in Nat
    BY <1>7, <2>2 DEF RenderFinish, ReportBlock
  <2>4. QED BY <2>1, <2>3
<1>8. CASE DecodeWake
  BY <1>8 DEF DecodeWake
<1>9. CASE DecodeLeave
  BY <1>9 DEF DecodeLeave
<1>10. CASE DecodeCheck
  BY <1>10 DEF DecodeCheck
<1>11. CASE DecodeOpen
  BY <1>11 DEF DecodeOpen
<1>12. CASE DecodeSeek
  BY <1>12 DEF DecodeSeek
<1>13. CASE DecodeRead
  BY <1>13 DEF DecodeRead
<1>14. CASE DecodeFailed
  BY <1>14 DEF DecodeFailed, SourceError
<1>15. CASE DecodePublishOpened
  BY <1>15 DEF DecodePublishOpened, PublishPipeline, CommandIsCurrent
<1>16. CASE DecodeReady
  BY <1>16 DEF DecodeReady, CommandIsCurrent
<1>17. CASE DecodePublishSought
  BY <1>17 DEF DecodePublishSought, PublishPipeline, CommandIsCurrent
<1>18. CASE DecodeSought
  BY <1>18 DEF DecodeSought
<1>19. CASE DecodePush
  BY <1>19 DEF DecodePush, CommandIsCurrent
<1>20. CASE DecodeThrow
  BY <1>20 DEF DecodeThrow
<1>21. CASE DecodeFinish
  BY <1>21 DEF DecodeFinish
<1>22. CASE CloseBegin
  BY <1>22 DEF CloseBegin, CommandMutexFree, ShutdownInv
<1>23. CASE CloseUnpublish
  BY <1>23 DEF CloseUnpublish, StreamMutexFree, RecoveryJoined
<1>24. CASE Elsewhere
  BY <1>24 DEF Elsewhere
<1>25. QED
  BY <1>1, <1>2, <1>3, <1>4, <1>5, <1>6, <1>7, <1>8, <1>9, <1>10, <1>11, <1>12, <1>13,
     <1>14, <1>15, <1>16, <1>17, <1>18, <1>19, <1>20, <1>21, <1>22, <1>23, <1>24,
     StepCases
  DEF Worker

\* The pipeline and the callback keep their types, and the queue its bound.
LEMMA SoundTypesStep ==
  ASSUME SoundTypes, WorkerTypes, [Next]_vars
  PROVE  SoundTypes'
<1> USE SessionAssumption, NoneAssumption
<1> USE DEF SoundTypes, WorkerTypes, DecodedPipeline, WorkerCommand, Busy, CommandPlaces, Waiting,
           HeldQueue,
           PublishPipeline, QueueHasRoom
<1> USE DEF request, report, progress, callback, source, worker, endpoint, recovery, lifecycle,
           application, sound, control
<1>1. CASE Load
  BY <1>1 DEF Load, CommandMutexFree
<1>2. CASE Play
  BY <1>2 DEF Play
<1>3. ASSUME NEW p \in Targets, SeekTo(p) PROVE SoundTypes'
  BY <1>3 DEF SeekTo, CommandMutexFree
<1>4. ASSUME NEW d \in Devices, SelectOutputDevice(d) PROVE SoundTypes'
  BY <1>4 DEF SelectOutputDevice, CommandMutexFree
<1>5. ASSUME NEW l \in Layouts, RenderEnter(l) PROVE SoundTypes'
  BY <1>5 DEF RenderEnter
<1>6. CASE RenderPop
  <2>1. HeldQueue \in Seq(DecodedBlock) /\ (rdetached = <<>> => pipeline \in DecodedPipeline)
    BY <1>6 DEF RenderPop
  <2>2. HeldQueue # <<>> => Head(HeldQueue) \in DecodedBlock
          /\ Len(Tail(HeldQueue)) < Len(HeldQueue)
    BY <2>1, TakeFromQueue
  <2>3. CASE rdetached = <<>> /\ HeldQueue # <<>>
    <3>1. pipeline' \in DecodedPipeline /\ Len(pipeline'.queue) = Len(Tail(pipeline.queue))
      BY <1>6, <2>1, <2>3, ShorterPipeline DEF RenderPop
    <3>2. Len(pipeline'.queue) <= QueueSlots
      BY <1>6, <2>1, <2>3, <3>1, TakeFromQueue, NoneIsNothing
    <3>3. QED BY <1>6, <2>2, <3>1, <3>2 DEF RenderPop
  <2>4. CASE ~(rdetached = <<>> /\ HeldQueue # <<>>)
    BY <1>6, <2>2, <2>4 DEF RenderPop
  <2>5. QED BY <2>3, <2>4
<1>7. ASSUME NEW locked \in BOOLEAN, RenderFinish(locked) PROVE SoundTypes'
  BY <1>7 DEF RenderFinish, ReportBlock, MayReport
<1>8. CASE DecodeWake
  BY <1>8 DEF DecodeWake
<1>9. CASE DecodeLeave
  BY <1>9 DEF DecodeLeave
<1>10. CASE DecodeCheck
  BY <1>10 DEF DecodeCheck
<1>11. CASE DecodeOpen
  BY <1>11 DEF DecodeOpen
<1>12. CASE DecodeSeek
  BY <1>12 DEF DecodeSeek
<1>13. CASE DecodeRead
  BY <1>13 DEF DecodeRead
<1>14. CASE DecodeFailed
  BY <1>14 DEF DecodeFailed, SourceError
<1>15. CASE DecodePublishOpened
  <2>1. CASE CommandIsCurrent
    <3>1. pipeline' = [layout |-> command.layout, queue |-> <<>>] /\ command.layout \in Layouts
      BY <1>15, <2>1 DEF DecodePublishOpened
    <3>2. pipeline' \in DecodedPipeline /\ Len(pipeline'.queue) = 0
      BY <3>1, EmptyPipeline
    <3>3. QED BY <1>15, <2>1, <3>2, NoneIsNothing DEF DecodePublishOpened
  <2>2. CASE ~CommandIsCurrent
    BY <1>15, <2>2 DEF DecodePublishOpened
  <2>3. QED BY <2>1, <2>2
<1>16. CASE DecodeReady
  BY <1>16 DEF DecodeReady, CommandIsCurrent
<1>17. CASE DecodePublishSought
  <2>1. CASE CommandIsCurrent
    <3>1. pipeline' = [layout |-> command.layout, queue |-> <<>>] /\ command.layout \in Layouts
      BY <1>17, <2>1 DEF DecodePublishSought
    <3>2. pipeline' \in DecodedPipeline /\ Len(pipeline'.queue) = 0
      BY <3>1, EmptyPipeline
    <3>3. QED BY <1>17, <2>1, <3>2, NoneIsNothing DEF DecodePublishSought
  <2>2. CASE ~CommandIsCurrent
    BY <1>17, <2>2 DEF DecodePublishSought
  <2>3. QED BY <2>1, <2>2
<1>18. CASE DecodeSought
  BY <1>18 DEF DecodeSought
<1>19. CASE DecodePush
  <2>1. CASE CommandIsCurrent /\ QueueHasRoom
    <3>1. pipeline \in DecodedPipeline /\ dblock \in DecodedBlock
      BY <1>19, <2>1 DEF DecodePush
    <3>2. pipeline' \in DecodedPipeline
            /\ Len(pipeline'.queue) = Len(Append(pipeline.queue, dblock))
      BY <1>19, <2>1, <3>1, LongerPipeline DEF DecodePush
    <3>3. Len(pipeline'.queue) <= QueueSlots
      BY <2>1, <3>1, <3>2, AppendProperties, LenProperties
    <3>4. QED BY <1>19, <3>2, <3>3 DEF DecodePush
  <2>2. CASE ~(CommandIsCurrent /\ QueueHasRoom)
    BY <1>19, <2>2 DEF DecodePush
  <2>3. QED BY <2>1, <2>2
<1>20. CASE DecodeThrow
  BY <1>20 DEF DecodeThrow
<1>21. CASE DecodeFinish
  BY <1>21 DEF DecodeFinish
<1>22. CASE CloseBegin
  BY <1>22 DEF CloseBegin, CommandMutexFree
<1>23. CASE CloseUnpublish
  BY <1>23 DEF CloseUnpublish, StreamMutexFree, RecoveryJoined
<1>24. CASE Elsewhere
  BY <1>24 DEF Elsewhere
<1>25. QED
  BY <1>1, <1>2, <1>3, <1>4, <1>5, <1>6, <1>7, <1>8, <1>9, <1>10, <1>11, <1>12, <1>13,
     <1>14, <1>15, <1>16, <1>17, <1>18, <1>19, <1>20, <1>21, <1>22, <1>23, <1>24,
     StepCases
  DEF Worker

\* The worker keeps its types.
LEMMA WorkerTypesStep ==
  ASSUME AppTypes, WorkerTypes, CommandInv, ServedInv, FeedInv, [Next]_vars
  PROVE  WorkerTypes'
<1> USE SessionAssumption, NoneAssumption
<1> USE DEF AppTypes, WorkerTypes, CommandInv, ServedInv, FeedInv, Feeding, Decoded,
           WorkerCommand, Busy, CommandPlaces, Waiting, NoCommand, AwaitWork, DropCommand,
           Requested, WorkToDo, SeekTarget, Landings
<1> USE DEF request, report, progress, callback, source, worker, endpoint, recovery, lifecycle,
           application, sound, control
<1>1. CASE Load
  BY <1>1 DEF Load, CommandMutexFree
<1>2. CASE Play
  BY <1>2 DEF Play
<1>3. ASSUME NEW p \in Targets, SeekTo(p) PROVE WorkerTypes'
  BY <1>3 DEF SeekTo, CommandMutexFree
<1>4. ASSUME NEW d \in Devices, SelectOutputDevice(d) PROVE WorkerTypes'
  BY <1>4 DEF SelectOutputDevice, CommandMutexFree
<1>5. ASSUME NEW l \in Layouts, RenderEnter(l) PROVE WorkerTypes'
  BY <1>5 DEF RenderEnter
<1>6. CASE RenderPop
  BY <1>6 DEF RenderPop
<1>7. ASSUME NEW locked \in BOOLEAN, RenderFinish(locked) PROVE WorkerTypes'
  BY <1>7 DEF RenderFinish, ReportBlock, MayReport
<1>8. CASE DecodeWake
  BY <1>8 DEF DecodeWake
<1>9. CASE DecodeLeave
  BY <1>9 DEF DecodeLeave
<1>10. CASE DecodeCheck
  BY <1>10 DEF DecodeCheck
<1>11. CASE DecodeOpen
  BY <1>11 DEF DecodeOpen
<1>12. CASE DecodeSeek
  BY <1>12 DEF DecodeSeek
<1>13. CASE DecodeRead
  <2>1. command \in WorkerCommand /\ decoderPosition \in Nat
    BY <1>13 DEF DecodeRead
  <2>2. dpc' = "push" => dblock' \in DecodedBlock
    BY <1>13, <2>1, ReadBlock DEF DecodeRead
  <2>3. dpc' # "push" => dblock' = None
    BY <1>13 DEF DecodeRead
  <2>4. QED BY <1>13, <2>1, <2>2, <2>3 DEF DecodeRead
<1>14. CASE DecodeFailed
  <2>1. active' \in Request
    <3>1. [active EXCEPT !.generation = 0] \in Request
      BY NoGeneration
    <3>2. [active EXCEPT !.generation = command.generation] \in Request
      BY <1>14, NewGeneration DEF DecodeFailed
    <3>3. QED BY <1>14, <3>1, <3>2 DEF DecodeFailed
  <2>2. failed' \in Request \cup {None}
    BY <1>14, NewRequest DEF DecodeFailed
  <2>3. QED BY <1>14, <2>1, <2>2 DEF DecodeFailed
<1>15. CASE DecodePublishOpened
  <2>1. [active EXCEPT !.generation = 0] \in Request
    BY NoGeneration
  <2>2. CASE CommandIsCurrent
    <3>1. active' \in Request
      BY <1>15, <2>2, NewRequest DEF DecodePublishOpened
    <3>2. QED BY <1>15, <2>2, <3>1 DEF DecodePublishOpened
  <2>3. CASE ~CommandIsCurrent
    BY <1>15, <2>1, <2>3 DEF DecodePublishOpened
  <2>4. QED BY <2>2, <2>3
<1>16. CASE DecodeReady
  BY <1>16 DEF DecodeReady, CommandIsCurrent
<1>17. CASE DecodePublishSought
  <2>1. [active EXCEPT !.generation = 0] \in Request
    BY NoGeneration
  <2>2. [active EXCEPT !.sequence = command.sequence] \in Request
    BY <1>17, NewSequence DEF DecodePublishSought
  <2>3. QED BY <1>17, <2>1, <2>2 DEF DecodePublishSought
<1>18. CASE DecodeSought
  BY <1>18 DEF DecodeSought
<1>19. CASE DecodePush
  <2>1. [active EXCEPT !.generation = 0] \in Request
    BY NoGeneration
  <2>2. active' \in Request
    BY <1>19, <2>1 DEF DecodePush
  <2>3. endOfStream' \in BOOLEAN
    BY <1>19 DEF DecodePush, DecodedBlock, Block
  <2>4. /\ dpc' = "wait" /\ command' = NoCommand /\ dblock' = None
        /\ UNCHANGED <<failed, decoderPosition>>
    BY <1>19 DEF DecodePush
  <2>5. QED BY <1>19, <2>2, <2>3, <2>4
<1>20. CASE DecodeThrow
  BY <1>20 DEF DecodeThrow
<1>21. CASE DecodeFinish
  BY <1>21 DEF DecodeFinish
<1>22. CASE CloseBegin
  BY <1>22 DEF CloseBegin, CommandMutexFree
<1>23. CASE CloseUnpublish
  BY <1>23 DEF CloseUnpublish, StreamMutexFree, RecoveryJoined
<1>24. CASE Elsewhere
  BY <1>24 DEF Elsewhere
<1>25. QED
  BY <1>1, <1>2, <1>3, <1>4, <1>5, <1>6, <1>7, <1>8, <1>9, <1>10, <1>11, <1>12, <1>13,
     <1>14, <1>15, <1>16, <1>17, <1>18, <1>19, <1>20, <1>21, <1>22, <1>23, <1>24,
     StepCases
  DEF Worker

\* No step takes the worker ahead of its command or the command ahead of the
\* request.
LEMMA CommandInvStep ==
  ASSUME AppTypes, WorkerTypes, CommandInv, ServedInv, [Next]_vars
  PROVE  CommandInv'
<1> USE SessionAssumption, NoneAssumption
<1> USE DEF AppTypes, WorkerTypes, CommandInv, ServedInv, WorkerCommand, Busy, CommandPlaces,
           Waiting, NoCommand, AwaitWork, DropCommand, WorkToDo, CommandIsCurrent,
           CancelDecoder
<1> USE DEF request, report, progress, callback, source, worker, endpoint, recovery, lifecycle,
           application, sound, control
<1>0. active.generation \in 0..MaxGeneration /\ active.sequence \in 0..MaxSequence
  BY ActiveRequest
<1> USE <1>0
<1>1. CASE Load
  BY <1>1 DEF Load, CommandMutexFree
<1>2. CASE Play
  BY <1>2 DEF Play
<1>3. ASSUME NEW p \in Targets, SeekTo(p) PROVE CommandInv'
  BY <1>3 DEF SeekTo, CommandMutexFree
<1>4. ASSUME NEW d \in Devices, SelectOutputDevice(d) PROVE CommandInv'
  BY <1>4 DEF SelectOutputDevice, CommandMutexFree
<1>5. ASSUME NEW l \in Layouts, RenderEnter(l) PROVE CommandInv'
  BY <1>5 DEF RenderEnter
<1>6. CASE RenderPop
  BY <1>6 DEF RenderPop
<1>7. ASSUME NEW locked \in BOOLEAN, RenderFinish(locked) PROVE CommandInv'
  BY <1>7 DEF RenderFinish, ReportBlock, MayReport
<1>8. CASE DecodeWake
  BY <1>8 DEF DecodeWake
<1>9. CASE DecodeLeave
  BY <1>9 DEF DecodeLeave
<1>10. CASE DecodeCheck
  BY <1>10 DEF DecodeCheck
<1>11. CASE DecodeOpen
  BY <1>11 DEF DecodeOpen
<1>12. CASE DecodeSeek
  BY <1>12 DEF DecodeSeek
<1>13. CASE DecodeRead
  BY <1>13 DEF DecodeRead
<1>14. CASE DecodeFailed
  <2>1. active' = [active EXCEPT !.generation = 0] \/ active' = active
          \/ active' = [active EXCEPT !.generation = command.generation]
    BY <1>14 DEF DecodeFailed
  <2>2. command.generation \in 0..MaxGeneration
    BY <1>14 DEF DecodeFailed
  <2>3. active'.generation \in {0, active.generation, command.generation}
          /\ active'.sequence = active.sequence
    <3>1. CASE active' = [active EXCEPT !.generation = command.generation]
      BY <2>2, <3>1, NewGeneration
    <3>2. CASE active' # [active EXCEPT !.generation = command.generation]
      BY <2>1, <3>2, NoGeneration
    <3>3. QED BY <3>1, <3>2
  <2>4. command' = NoCommand /\ dpc' = "wait" /\ UNCHANGED <<generation, seekSequence>>
          /\ command.generation <= generation
    BY <1>14 DEF DecodeFailed
  <2>5. QED BY <2>2, <2>3, <2>4
<1>15. CASE DecodePublishOpened
  <2>1. CASE CommandIsCurrent
    <3>1. active'.generation = command.generation /\ active'.sequence = 0
      BY <1>15, <2>1, NewRequest DEF DecodePublishOpened
    <3>2. QED BY <1>15, <2>1, <3>1 DEF DecodePublishOpened
  <2>2. CASE ~CommandIsCurrent
    <3>1. active'.generation = 0 /\ active'.sequence = active.sequence
      BY <1>15, <2>2, NoGeneration DEF DecodePublishOpened
    <3>2. QED BY <1>15, <2>2, <3>1 DEF DecodePublishOpened
  <2>3. QED BY <2>1, <2>2
<1>16. CASE DecodeReady
  BY <1>16 DEF DecodeReady, CommandIsCurrent
<1>17. CASE DecodePublishSought
  <2>1. CASE CommandIsCurrent
    <3>1. active' = [active EXCEPT !.sequence = command.sequence]
            /\ command.sequence \in 0..MaxSequence
      BY <1>17, <2>1 DEF DecodePublishSought
    <3>2. active'.generation = active.generation /\ active'.sequence = command.sequence
      BY <3>1, NewSequence
    <3>3. QED BY <1>17, <2>1, <3>2 DEF DecodePublishSought
  <2>2. CASE ~CommandIsCurrent
    <3>1. active'.generation = 0 /\ active'.sequence = active.sequence
      BY <1>17, <2>2, NoGeneration DEF DecodePublishSought
    <3>2. QED BY <1>17, <2>2, <3>1 DEF DecodePublishSought
  <2>3. QED BY <2>1, <2>2
<1>18. CASE DecodeSought
  BY <1>18 DEF DecodeSought
<1>19. CASE DecodePush
  <2>1. active' = active \/ active' = [active EXCEPT !.generation = 0]
    BY <1>19 DEF DecodePush
  <2>2. active'.generation \in {0, active.generation} /\ active'.sequence = active.sequence
    BY <2>1, NoGeneration
  <2>3. QED BY <1>19, <2>2 DEF DecodePush
<1>20. CASE DecodeThrow
  BY <1>20 DEF DecodeThrow
<1>21. CASE DecodeFinish
  BY <1>21 DEF DecodeFinish
<1>22. CASE CloseBegin
  BY <1>22 DEF CloseBegin, CommandMutexFree
<1>23. CASE CloseUnpublish
  BY <1>23 DEF CloseUnpublish, StreamMutexFree, RecoveryJoined
<1>24. CASE Elsewhere
  BY <1>24 DEF Elsewhere
<1>25. QED
  BY <1>1, <1>2, <1>3, <1>4, <1>5, <1>6, <1>7, <1>8, <1>9, <1>10, <1>11, <1>12, <1>13,
     <1>14, <1>15, <1>16, <1>17, <1>18, <1>19, <1>20, <1>21, <1>22, <1>23, <1>24,
     StepCases
  DEF Worker

\* The worker reads only what it serves, and only into room.
LEMMA ServedInvStep ==
  ASSUME SoundTypes, WorkerTypes, CommandInv, ServedInv, ShutdownInv, [Next]_vars
  PROVE  ServedInv'
<1> USE SessionAssumption, NoneAssumption
<1> USE DEF SoundTypes, WorkerTypes, CommandInv, ServedInv, ShutdownInv, DecodedPipeline, Request,
           WorkerCommand, Busy, CommandPlaces, Waiting, AwaitWork, DropCommand, WorkToDo,
           Requested,
           CommandIsCurrent, QueueHasRoom, PublishPipeline, HeldQueue
<1> USE DEF request, report, progress, callback, source, worker, endpoint, recovery, lifecycle,
           application, sound, control
<1>1. CASE Load
  BY <1>1 DEF Load, CommandMutexFree
<1>2. CASE Play
  BY <1>2 DEF Play
<1>3. ASSUME NEW p \in Targets, SeekTo(p) PROVE ServedInv'
  BY <1>3 DEF SeekTo, CommandMutexFree
<1>4. ASSUME NEW d \in Devices, SelectOutputDevice(d) PROVE ServedInv'
  BY <1>4 DEF SelectOutputDevice, CommandMutexFree
<1>5. ASSUME NEW l \in Layouts, RenderEnter(l) PROVE ServedInv'
  BY <1>5 DEF RenderEnter
<1>6. CASE RenderPop
  <2>1. QueueHasRoom => QueueHasRoom'
    <3>1. CASE rdetached = <<>> /\ HeldQueue # <<>>
      <4>1. pipeline \in DecodedPipeline /\ pipeline.queue \in Seq(DecodedBlock)
              /\ pipeline.queue # <<>>
        BY <1>6, <3>1 DEF RenderPop
      <4>2. pipeline' # None /\ pipeline'.queue = Tail(pipeline.queue)
        BY <1>6, <3>1, <4>1, ShorterPipeline DEF RenderPop
      <4>3. Len(Tail(pipeline.queue)) < Len(pipeline.queue) /\ Len(pipeline.queue) \in Nat
        BY <4>1, TakeFromQueue
      <4>4. QED BY <4>2, <4>3 DEF QueueHasRoom
    <3>2. CASE ~(rdetached = <<>> /\ HeldQueue # <<>>)
      BY <1>6, <3>2 DEF RenderPop, QueueHasRoom
    <3>3. QED BY <3>1, <3>2
  <2>2. UNCHANGED <<dpc, active, command, endOfStream, shuttingDown>>
    BY <1>6 DEF RenderPop
  <2>3. QED BY <2>1, <2>2
<1>7. ASSUME NEW locked \in BOOLEAN, RenderFinish(locked) PROVE ServedInv'
  BY <1>7 DEF RenderFinish, ReportBlock, MayReport
<1>8. CASE DecodeWake
  BY <1>8 DEF DecodeWake
<1>9. CASE DecodeLeave
  BY <1>9 DEF DecodeLeave
<1>10. CASE DecodeCheck
  BY <1>10 DEF DecodeCheck
<1>11. CASE DecodeOpen
  BY <1>11 DEF DecodeOpen
<1>12. CASE DecodeSeek
  BY <1>12 DEF DecodeSeek
<1>13. CASE DecodeRead
  BY <1>13 DEF DecodeRead
<1>14. CASE DecodeFailed
  BY <1>14 DEF DecodeFailed, SourceError
<1>15. CASE DecodePublishOpened
  <2>1. CASE CommandIsCurrent
    <3>1. /\ active' = [generation |-> command.generation, sequence |-> 0,
                        layout |-> command.layout]
          /\ pipeline' = [layout |-> command.layout, queue |-> <<>>]
          /\ command \in WorkerCommand
      BY <1>15, <2>1 DEF DecodePublishOpened, PublishPipeline
    <3>2. active'.generation = command.generation /\ active'.layout = command.layout
      BY <3>1
    <3>3. pipeline' # None /\ Len(pipeline'.queue) = 0
      BY <3>1, EmptyPipeline DEF WorkerCommand
    <3>4. QueueHasRoom'
      BY <3>3 DEF QueueHasRoom
    <3>5. dpc' = "ready" /\ command' = command /\ endOfStream' = FALSE
      BY <1>15, <2>1 DEF DecodePublishOpened
    <3>6. QED BY <3>2, <3>4, <3>5
  <2>2. CASE ~CommandIsCurrent
    BY <1>15, <2>2 DEF DecodePublishOpened
  <2>3. QED BY <2>1, <2>2
<1>16. CASE DecodeReady
  BY <1>16 DEF DecodeReady, CommandIsCurrent
<1>17. CASE DecodePublishSought
  <2>1. CASE CommandIsCurrent
    <3>1. /\ active' = [active EXCEPT !.sequence = command.sequence]
          /\ pipeline' = [layout |-> command.layout, queue |-> <<>>]
          /\ command \in WorkerCommand
          /\ active.generation = command.generation /\ active.layout = command.layout
      BY <1>17, <2>1 DEF DecodePublishSought, PublishPipeline
    <3>2. /\ active'.generation = command.generation /\ active'.layout = command.layout
          /\ active'.sequence = command.sequence
      BY <3>1, NewSequence DEF WorkerCommand
    <3>3. pipeline' # None /\ Len(pipeline'.queue) = 0
      BY <3>1, EmptyPipeline DEF WorkerCommand
    <3>4. QueueHasRoom'
      BY <3>3 DEF QueueHasRoom
    <3>5. dpc' = "sought" /\ command' = command /\ endOfStream' = FALSE
      BY <1>17, <2>1 DEF DecodePublishSought
    <3>6. QED BY <3>2, <3>4, <3>5
  <2>2. CASE ~CommandIsCurrent
    BY <1>17, <2>2 DEF DecodePublishSought
  <2>3. QED BY <2>1, <2>2
<1>18. CASE DecodeSought
  BY <1>18 DEF DecodeSought
<1>19. CASE DecodePush
  BY <1>19 DEF DecodePush, CommandIsCurrent
<1>20. CASE DecodeThrow
  BY <1>20 DEF DecodeThrow
<1>21. CASE DecodeFinish
  BY <1>21 DEF DecodeFinish
<1>22. CASE CloseBegin
  BY <1>22 DEF CloseBegin, CommandMutexFree
<1>23. CASE CloseUnpublish
  BY <1>23 DEF CloseUnpublish, StreamMutexFree, RecoveryJoined
<1>24. CASE Elsewhere
  BY <1>24 DEF Elsewhere
<1>25. QED
  BY <1>1, <1>2, <1>3, <1>4, <1>5, <1>6, <1>7, <1>8, <1>9, <1>10, <1>11, <1>12, <1>13,
     <1>14, <1>15, <1>16, <1>17, <1>18, <1>19, <1>20, <1>21, <1>22, <1>23, <1>24,
     StepCases
  DEF Worker

\* A block is read for the command at hand.
LEMMA FeedInvStep ==
  ASSUME WorkerTypes, CommandInv, ServedInv, FeedInv, [Next]_vars
  PROVE  FeedInv'
<1> USE SessionAssumption, NoneAssumption
<1> USE DEF WorkerTypes, CommandInv, ServedInv, FeedInv, Feeding, Decoded, Request,
           WorkerCommand, DecodedBlock, Block, Busy, CommandPlaces, Waiting, AwaitWork, DropCommand,
           WorkToDo,
           Requested, CommandIsCurrent, SeekTarget
<1> USE DEF request, report, progress, callback, source, worker, endpoint, recovery, lifecycle,
           application, sound, control
<1>1. CASE Load
  BY <1>1 DEF Load, CommandMutexFree
<1>2. CASE Play
  BY <1>2 DEF Play
<1>3. ASSUME NEW p \in Targets, SeekTo(p) PROVE FeedInv'
  BY <1>3 DEF SeekTo, CommandMutexFree
<1>4. ASSUME NEW d \in Devices, SelectOutputDevice(d) PROVE FeedInv'
  BY <1>4 DEF SelectOutputDevice, CommandMutexFree
<1>5. ASSUME NEW l \in Layouts, RenderEnter(l) PROVE FeedInv'
  BY <1>5 DEF RenderEnter
<1>6. CASE RenderPop
  BY <1>6 DEF RenderPop
<1>7. ASSUME NEW locked \in BOOLEAN, RenderFinish(locked) PROVE FeedInv'
  BY <1>7 DEF RenderFinish, ReportBlock, MayReport
<1>8. CASE DecodeWake
  BY <1>8 DEF DecodeWake
<1>9. CASE DecodeLeave
  BY <1>9 DEF DecodeLeave
<1>10. CASE DecodeCheck
  BY <1>10 DEF DecodeCheck
<1>11. CASE DecodeOpen
  BY <1>11 DEF DecodeOpen
<1>12. CASE DecodeSeek
  BY <1>12 DEF DecodeSeek
<1>13. CASE DecodeRead
  BY <1>13 DEF DecodeRead
<1>14. CASE DecodeFailed
  BY <1>14 DEF DecodeFailed, SourceError
<1>15. CASE DecodePublishOpened
  BY <1>15 DEF DecodePublishOpened, PublishPipeline, CommandIsCurrent
<1>16. CASE DecodeReady
  BY <1>16 DEF DecodeReady, CommandIsCurrent
<1>17. CASE DecodePublishSought
  BY <1>17 DEF DecodePublishSought, PublishPipeline, CommandIsCurrent
<1>18. CASE DecodeSought
  BY <1>18 DEF DecodeSought
<1>19. CASE DecodePush
  BY <1>19 DEF DecodePush, CommandIsCurrent
<1>20. CASE DecodeThrow
  BY <1>20 DEF DecodeThrow
<1>21. CASE DecodeFinish
  BY <1>21 DEF DecodeFinish
<1>22. CASE CloseBegin
  BY <1>22 DEF CloseBegin, CommandMutexFree
<1>23. CASE CloseUnpublish
  BY <1>23 DEF CloseUnpublish, StreamMutexFree, RecoveryJoined
<1>24. CASE Elsewhere
  BY <1>24 DEF Elsewhere
<1>25. QED
  BY <1>1, <1>2, <1>3, <1>4, <1>5, <1>6, <1>7, <1>8, <1>9, <1>10, <1>11, <1>12, <1>13,
     <1>14, <1>15, <1>16, <1>17, <1>18, <1>19, <1>20, <1>21, <1>22, <1>23, <1>24,
     StepCases
  DEF Worker

\* The queue stays coherent: a pop takes from its front, a push continues it, and
\* for another command there is another queue.
LEMMA QueueInvStep ==
  ASSUME SoundTypes, WorkerTypes, CommandInv, ServedInv, FeedInv, QueueInv, [Next]_vars
  PROVE  QueueInv'
<1> USE SessionAssumption, NoneAssumption
<1> USE DEF QueueInv, WorkerTypes, Feeding, Decoded, Busy, CommandPlaces, Waiting, AwaitWork,
           DropCommand
<1> USE DEF request, report, progress, callback, source, worker, endpoint, recovery, lifecycle,
           application, sound, control
<1>1. CASE Load
  BY <1>1 DEF Load, CommandMutexFree
<1>2. CASE Play
  BY <1>2 DEF Play
<1>3. ASSUME NEW p \in Targets, SeekTo(p) PROVE QueueInv'
  BY <1>3 DEF SeekTo, CommandMutexFree
<1>4. ASSUME NEW d \in Devices, SelectOutputDevice(d) PROVE QueueInv'
  BY <1>4 DEF SelectOutputDevice, CommandMutexFree
<1>5. ASSUME NEW l \in Layouts, RenderEnter(l) PROVE QueueInv'
  BY <1>5 DEF RenderEnter
<1>6. CASE RenderPop
  <2>1. CASE rdetached = <<>> /\ HeldQueue # <<>>
    <3>1. /\ pipeline \in DecodedPipeline /\ pipeline # None
          /\ pipeline.queue \in Seq(DecodedBlock) /\ pipeline.queue # <<>>
      BY <1>6, <2>1, NoneIsNothing DEF RenderPop, SoundTypes, HeldQueue, DecodedPipeline
    <3>2. pipeline'.queue = Tail(pipeline.queue)
      BY <1>6, <2>1, <3>1, ShorterPipeline DEF RenderPop, HeldQueue
    <3>3. Coherent(pipeline.queue) => Coherent(pipeline'.queue)
      BY <3>1, <3>2, PoppedQueue
    <3>4. Continues(pipeline.queue, active.generation, active.sequence, Decoded)
            => Continues(pipeline'.queue, active.generation, active.sequence, Decoded)
      BY <3>1, <3>2, PoppedQueue
    <3>5. QED BY <1>6, <3>1, <3>3, <3>4 DEF RenderPop
  <2>2. CASE ~(rdetached = <<>> /\ HeldQueue # <<>>)
    BY <1>6, <2>2 DEF RenderPop
  <2>3. QED BY <2>1, <2>2
<1>7. ASSUME NEW locked \in BOOLEAN, RenderFinish(locked) PROVE QueueInv'
  BY <1>7 DEF RenderFinish, ReportBlock, MayReport
<1>8. CASE DecodeWake
  BY <1>8 DEF DecodeWake
<1>9. CASE DecodeLeave
  BY <1>9 DEF DecodeLeave
<1>10. CASE DecodeCheck
  BY <1>10 DEF DecodeCheck
<1>11. CASE DecodeOpen
  BY <1>11 DEF DecodeOpen
<1>12. CASE DecodeSeek
  BY <1>12 DEF DecodeSeek
<1>13. CASE DecodeRead
  BY <1>13 DEF DecodeRead
<1>14. CASE DecodeFailed
  <2>1. CASE CommandIsCurrent
    <3>1. dpc = "openFailed" => endOfStream' = TRUE
      BY <1>14, <2>1 DEF DecodeFailed
    <3>2. dpc # "openFailed" => active' = active /\ (endOfStream => endOfStream')
      BY <1>14, <2>1 DEF DecodeFailed
    <3>3. dpc' = "wait" /\ UNCHANGED <<pipeline, decoderPosition>> /\ dpc # "push"
      BY <1>14 DEF DecodeFailed
    <3>4. dpc \notin {"publishOpened", "publishSought", "ending", "finished"}
      BY <1>14 DEF DecodeFailed
    <3>5. QED BY <3>1, <3>2, <3>3, <3>4
  <2>2. CASE ~CommandIsCurrent
    <3>1. active'.generation = 0 /\ UNCHANGED pipeline
      BY <1>14, <2>2, NoGeneration DEF DecodeFailed
    <3>2. QED BY <3>1
  <2>3. QED BY <2>1, <2>2
<1>15. CASE DecodePublishOpened
  <2>1. CASE CommandIsCurrent
    <3>1. pipeline' = [layout |-> command.layout, queue |-> <<>>]
      BY <1>15, <2>1 DEF DecodePublishOpened, PublishPipeline
    <3>2. pipeline'.queue = <<>>
      BY <3>1
    <3>3. QED BY <3>2, EmptyQueue
  <2>2. CASE ~CommandIsCurrent
    <3>1. active'.generation = 0 /\ UNCHANGED pipeline
      BY <1>15, <2>2, NoGeneration DEF DecodePublishOpened
    <3>2. QED BY <3>1
  <2>3. QED BY <2>1, <2>2
<1>16. CASE DecodeReady
  BY <1>16 DEF DecodeReady, CommandIsCurrent
<1>17. CASE DecodePublishSought
  <2>1. CASE CommandIsCurrent
    <3>1. pipeline' = [layout |-> command.layout, queue |-> <<>>]
      BY <1>17, <2>1 DEF DecodePublishSought, PublishPipeline
    <3>2. pipeline'.queue = <<>>
      BY <3>1
    <3>3. QED BY <3>2, EmptyQueue
  <2>2. CASE ~CommandIsCurrent
    <3>1. active'.generation = 0 /\ UNCHANGED pipeline
      BY <1>17, <2>2, NoGeneration DEF DecodePublishSought
    <3>2. QED BY <3>1
  <2>3. QED BY <2>1, <2>2
<1>18. CASE DecodeSought
  BY <1>18 DEF DecodeSought
<1>19. CASE DecodePush
  <2>1. CASE CommandIsCurrent /\ QueueHasRoom
    <3>1. /\ pipeline \in DecodedPipeline /\ pipeline # None /\ dblock \in DecodedBlock
          /\ pipeline.queue \in Seq(DecodedBlock)
      BY <1>19, <2>1 DEF DecodePush, SoundTypes, QueueHasRoom, DecodedPipeline
    <3>2. pipeline'.queue = Append(pipeline.queue, dblock)
      BY <1>19, <2>1, <3>1, LongerPipeline DEF DecodePush
    <3>3. /\ active.generation = dblock.generation /\ active.sequence = dblock.sequence
          /\ dblock.position = Decoded + 1 /\ dblock.position = decoderPosition
          /\ Decoded \in Nat
      <4>1. dblock.position \in Nat \ {0} /\ dpc = "push"
        BY <1>19, <3>1 DEF DecodePush, DecodedBlock, Block
      <4>2. dblock.position = decoderPosition /\ Decoded = decoderPosition - 1
        BY <4>1 DEF FeedInv
      <4>3. active.generation = dblock.generation /\ active.sequence = dblock.sequence
        BY <4>1 DEF ServedInv, FeedInv
      <4>4. QED BY <4>1, <4>2, <4>3
    <3>4. Feeding
      BY <1>19, <2>1 DEF DecodePush, ServedInv, WorkerCommand
    <3>5. /\ Coherent(pipeline.queue)
          /\ Continues(pipeline.queue, dblock.generation, dblock.sequence, Decoded)
      BY <3>1, <3>3, <3>4
    <3>6. /\ Coherent(pipeline'.queue)
          /\ ~dblock.last => Continues(pipeline'.queue, dblock.generation, dblock.sequence,
                                       dblock.position)
      BY <3>1, <3>2, <3>3, <3>5, PushedQueue
    <3>7. /\ dpc' = "wait" /\ endOfStream' = dblock.last
          /\ UNCHANGED <<active, decoderPosition>>
      BY <1>19, <2>1 DEF DecodePush
    <3>8. QED BY <3>3, <3>6, <3>7
  <2>2. CASE CommandIsCurrent /\ ~QueueHasRoom
    BY <1>19, <2>2 DEF DecodePush, ServedInv, CommandIsCurrent
  <2>3. CASE ~CommandIsCurrent
    <3>1. active'.generation = 0 /\ UNCHANGED pipeline
      BY <1>19, <2>3, NoGeneration DEF DecodePush
    <3>2. QED BY <3>1
  <2>4. QED BY <2>1, <2>2, <2>3
<1>20. CASE DecodeThrow
  BY <1>20 DEF DecodeThrow
<1>21. CASE DecodeFinish
  BY <1>21 DEF DecodeFinish
<1>22. CASE CloseBegin
  BY <1>22 DEF CloseBegin, CommandMutexFree
<1>23. CASE CloseUnpublish
  BY <1>23 DEF CloseUnpublish, StreamMutexFree, RecoveryJoined
<1>24. CASE Elsewhere
  BY <1>24 DEF Elsewhere
<1>25. QED
  BY <1>1, <1>2, <1>3, <1>4, <1>5, <1>6, <1>7, <1>8, <1>9, <1>10, <1>11, <1>12, <1>13,
     <1>14, <1>15, <1>16, <1>17, <1>18, <1>19, <1>20, <1>21, <1>22, <1>23, <1>24,
     StepCases
  DEF Worker

\* A callback plays only what is as new as the request it began with.
LEMMA FreshInvStep ==
  ASSUME AppTypes, SoundTypes, FreshInv, [Next]_vars
  PROVE  FreshInv'
<1> USE SessionAssumption, NoneAssumption
<1> USE DEF AppTypes, SoundTypes, FreshInv, FreshBlocks, Latest, DecodedBlock, Block, CancelDecoder
<1> USE DEF request, report, progress, callback, source, worker, endpoint, recovery, lifecycle,
           application, sound, control
<1>1. CASE Load
  BY <1>1 DEF Load, CommandMutexFree
<1>2. CASE Play
  BY <1>2 DEF Play
<1>3. ASSUME NEW p \in Targets, SeekTo(p) PROVE FreshInv'
  BY <1>3 DEF SeekTo, CommandMutexFree
<1>4. ASSUME NEW d \in Devices, SelectOutputDevice(d) PROVE FreshInv'
  BY <1>4 DEF SelectOutputDevice, CommandMutexFree
<1>5. ASSUME NEW l \in Layouts, RenderEnter(l) PROVE FreshInv'
  BY <1>5 DEF RenderEnter
<1>6. CASE RenderPop
  BY <1>6 DEF RenderPop
<1>7. ASSUME NEW locked \in BOOLEAN, RenderFinish(locked) PROVE FreshInv'
  BY <1>7 DEF RenderFinish, ReportBlock, MayReport
<1>8. CASE DecodeWake
  BY <1>8 DEF DecodeWake
<1>9. CASE DecodeLeave
  BY <1>9 DEF DecodeLeave
<1>10. CASE DecodeCheck
  BY <1>10 DEF DecodeCheck
<1>11. CASE DecodeOpen
  BY <1>11 DEF DecodeOpen
<1>12. CASE DecodeSeek
  BY <1>12 DEF DecodeSeek
<1>13. CASE DecodeRead
  BY <1>13 DEF DecodeRead
<1>14. CASE DecodeFailed
  BY <1>14 DEF DecodeFailed, SourceError
<1>15. CASE DecodePublishOpened
  BY <1>15 DEF DecodePublishOpened, PublishPipeline, CommandIsCurrent
<1>16. CASE DecodeReady
  BY <1>16 DEF DecodeReady, CommandIsCurrent
<1>17. CASE DecodePublishSought
  BY <1>17 DEF DecodePublishSought, PublishPipeline, CommandIsCurrent
<1>18. CASE DecodeSought
  BY <1>18 DEF DecodeSought
<1>19. CASE DecodePush
  BY <1>19 DEF DecodePush, CommandIsCurrent
<1>20. CASE DecodeThrow
  BY <1>20 DEF DecodeThrow
<1>21. CASE DecodeFinish
  BY <1>21 DEF DecodeFinish
<1>22. CASE CloseBegin
  BY <1>22 DEF CloseBegin, CommandMutexFree
<1>23. CASE CloseUnpublish
  BY <1>23 DEF CloseUnpublish, StreamMutexFree, RecoveryJoined
<1>24. CASE Elsewhere
  BY <1>24 DEF Elsewhere
<1>25. QED
  BY <1>1, <1>2, <1>3, <1>4, <1>5, <1>6, <1>7, <1>8, <1>9, <1>10, <1>11, <1>12, <1>13,
     <1>14, <1>15, <1>16, <1>17, <1>18, <1>19, <1>20, <1>21, <1>22, <1>23, <1>24,
     StepCases
  DEF Worker

-----------------------------------------------------------------------------
(* What holds for any layouts.                                             *)

PlaybackInv ==
  /\ ControlInv
  /\ AppTypes /\ SoundTypes /\ WorkerTypes
  /\ CommandInv /\ ServedInv /\ FeedInv /\ QueueInv /\ FreshInv

\* The playback invariant holds initially.
LEMMA PlaybackInit == Init => PlaybackInv
<1> SUFFICES ASSUME Init PROVE PlaybackInv
  OBVIOUS
<1> USE SessionAssumption DEF Init
<1>1. ControlInv
  BY ControlInit
<1>2. AppTypes
  <2>1. /\ generation = 0 /\ seekSequence = 0 /\ decoderEpoch = 0 /\ cancelEpoch = 0
        /\ position = 0 /\ completionToken = 0 /\ pendingSeek = None /\ layout = None
        /\ shuttingDown = FALSE
    OBVIOUS
  <2>2. 0 \in 0..MaxGeneration /\ 0 \in 0..MaxSequence
    OBVIOUS
  <2>3. rsince \in (0..MaxGeneration) \X (0..MaxSequence)
    BY <2>2
  <2> HIDE DEF Init
  <2>4. generation \in 0..MaxGeneration /\ seekSequence \in 0..MaxSequence
    BY <2>1, <2>2
  <2>5. /\ decoderEpoch \in Nat /\ cancelEpoch \in Nat /\ decoderEpoch <= cancelEpoch
        /\ completionToken \in Nat
    BY <2>1
  <2>6. cancelEpoch <= generation + seekSequence + (IF shuttingDown THEN 1 ELSE 0)
    BY <2>1
  <2>7. /\ pendingSeek \in Nat \cup {None} /\ position \in Nat
        /\ layout \in Layouts \cup {None}
    BY <2>1, <2>2
  <2>8. shuttingDown \in BOOLEAN
    BY <2>1, Zenon
  <2>9. QED BY <2>3, <2>4, <2>5, <2>6, <2>7, <2>8 DEF AppTypes
<1>3. SoundTypes
  BY DEF SoundTypes
<1>4. WorkerTypes
  <2>1. active \in Request
    BY DEF Request
  <2>2. dpc \in Waiting /\ ~Busy
    BY DEF Waiting, Busy, CommandPlaces
  <2>3. QED BY <2>1, <2>2 DEF WorkerTypes, Waiting
<1>5. CommandInv /\ ServedInv /\ FeedInv
  BY DEF CommandInv, ServedInv, FeedInv, Feeding, Busy, CommandPlaces
<1>6. QueueInv /\ FreshInv
  BY DEF QueueInv, FreshInv, FreshBlocks
<1>7. QED BY <1>1, <1>2, <1>3, <1>4, <1>5, <1>6 DEF PlaybackInv

\* Every step preserves it.
LEMMA PlaybackStep ==
  ASSUME PlaybackInv, [Next]_vars
  PROVE  PlaybackInv'
<1>1. ControlInv'
  BY ShutdownInvStep, DeviceInvStep, IntentInvStep, DeviceTypesStep, FlagTypesStep
  DEF PlaybackInv, ControlInv
<1>2. AppTypes' /\ SoundTypes' /\ WorkerTypes'
  BY AppTypesStep, SoundTypesStep, WorkerTypesStep DEF PlaybackInv, ControlInv
<1>3. CommandInv' /\ ServedInv' /\ FeedInv'
  BY CommandInvStep, ServedInvStep, FeedInvStep DEF PlaybackInv, ControlInv
<1>4. QueueInv' /\ FreshInv'
  BY QueueInvStep, FreshInvStep DEF PlaybackInv
<1>5. QED BY <1>1, <1>2, <1>3, <1>4 DEF PlaybackInv

\* It holds in every reachable state.
LEMMA PlaybackInvariance == Spec => []PlaybackInv
<1>1. PlaybackInv /\ [Next]_vars => PlaybackInv'
  BY PlaybackStep
<1>2. QED BY PlaybackInit, <1>1, PTL DEF Spec

\* Every variable of the session keeps its type, and the queue never grows beyond
\* its slots.
THEOREM TypeCorrect == Spec => []TypeOK
<1>1. ASSUME PlaybackInv PROVE TypeOK
  <2> USE <1>1, SessionAssumption DEF PlaybackInv
  <2>1. DecodedBlock \subseteq Block
    BY DEF DecodedBlock
  <2>2. Seq(DecodedBlock) \subseteq Seq(Block)
    BY <2>1
  <2>3. /\ {decoderEpoch, cancelEpoch} \subseteq 0..MaxGeneration + MaxSequence + 1
        /\ rsince \in (0..MaxGeneration) \X (0..MaxSequence)
    BY DEF AppTypes
  <2>4. pipeline \in Pipelines \cup {None}
    BY <2>2 DEF SoundTypes, DecodedPipeline, Pipelines
  <2>5. rblock \in Block \cup {None} /\ (rblock = None <=> rpc # "mix")
    BY <2>1, NoneIsNothing DEF SoundTypes
  <2>6. rdetached \in Seq(Seq(Block)) /\ Len(rdetached) <= 1
    <3>1. \A q \in Seq(Block) : <<q>> \in Seq(Seq(Block)) /\ Len(<<q>>) <= 1
      OBVIOUS
    <3>2. CASE rdetached = <<>>
      BY <3>2
    <3>3. CASE rdetached # <<>>
      <4>1. rdetached = <<rdetached[1]>> /\ rdetached[1] \in Seq(Block)
        BY <2>2, <3>3 DEF SoundTypes
      <4>2. QED BY <3>1, <4>1, Zenon
    <3>4. QED BY <3>2, <3>3
  <2>7. dblock \in Block \cup {None} /\ (dblock = None <=> dpc # "push")
    BY <2>1, NoneIsNothing DEF WorkerTypes
  <2>8. /\ dpc \in {"wait", "check", "open", "openFailed", "publishOpened", "ready", "seek",
                    "seekFailed", "publishSought", "sought", "read", "readFailed", "push",
                    "ending", "finished"}
        /\ active \in Request /\ failed \in Request \cup {None}
        /\ decoderPosition \in Nat
    BY DEF WorkerTypes, Waiting, CommandPlaces
  <2>9. {deviceLost, intent, decoderReady, reachedEnd, told, endOfStream, recoveryRequested,
         shuttingDown} \subseteq BOOLEAN
    BY DEF ControlInv, FlagTypes, WorkerTypes
  <2>10. /\ selectedDevice \in Devices
         /\ status \in {"idle", "loading", "playing", "paused", "error"}
         /\ stream \in {"none", "running", "faulted"}
         /\ streamDevice \in Devices /\ openDevice \in Devices \cup {None}
         /\ reopen["select"] \in {"idle", "lock", "close", "check", "open", "refresh"}
         /\ reopen["recovery"] \in {"wait", "lock", "close", "check", "open", "refresh",
                                    "failed", "exited"}
         /\ closing \in {"open", "decoder", "recovery", "stream", "closed"}
    BY DEF ControlInv, DeviceTypes
  <2>11. /\ generation \in 0..MaxGeneration /\ seekSequence \in 0..MaxSequence
         /\ pendingSeek \in Nat \cup {None} /\ position \in Nat
         /\ completionToken \in Nat /\ layout \in Layouts \cup {None}
    BY DEF AppTypes
  <2>12. (pipeline # None => Len(pipeline.queue) <= QueueSlots) /\ rpc \in {"idle", "pop", "mix"}
    BY DEF SoundTypes
  <2>13. QED
    BY <2>3, <2>4, <2>5, <2>6, <2>7, <2>8, <2>9, <2>10, <2>11, <2>12 DEF TypeOK
<1>2. QED BY PlaybackInvariance, <1>1, PTL

\* A callback never plays a block that was decoded for a command older than the
\* ones that had returned when it began.
THEOREM FreshPlayback == Spec => []FreshBlocks
<1>1. PlaybackInv => FreshBlocks
  BY DEF PlaybackInv, FreshInv
<1>2. QED BY PlaybackInvariance, <1>1, PTL

\* The published queue never mixes the blocks of two commands, has no gap and
\* goes on after no last block.
THEOREM CoherentQueue == Spec => []QueueCoherent
<1>1. ASSUME PlaybackInv PROVE QueueCoherent
  <2>1. SUFFICES ASSUME pipeline # None, NEW i \in 1..Len(pipeline.queue) - 1
                 PROVE  LET q == pipeline.queue
                        IN  /\ q[i + 1].generation = q[i].generation
                            /\ q[i + 1].sequence = q[i].sequence
                            /\ q[i + 1].position = q[i].position + 1
                            /\ ~q[i].last
    BY DEF QueueCoherent
  <2> DEFINE q == pipeline.queue
  <2>2. q \in Seq(DecodedBlock) /\ Coherent(q)
    BY <1>1, <2>1 DEF PlaybackInv, SoundTypes, QueueInv, DecodedPipeline
  <2>3. Len(q) \in Nat
    BY <2>2, LenProperties
  <2>4. i \in 1..Len(q) /\ i + 1 \in 1..Len(q) /\ i < i + 1 /\ (i + 1) - i = 1
    BY <2>3
  <2> HIDE DEF q
  <2>5. /\ q[i].generation = q[i + 1].generation /\ q[i].sequence = q[i + 1].sequence
        /\ q[i + 1].position = q[i].position + 1 /\ ~q[i].last
    BY <2>2, <2>4 DEF Coherent
  <2>6. QED BY <2>5 DEF q
<1>2. QED BY PlaybackInvariance, <1>1, PTL

\* The block that was read for the latest command always finds room.
THEOREM NothingLost == Spec => []NoBlockLost
<1>1. PlaybackInv => NoBlockLost
  BY DEF PlaybackInv, ServedInv, NoBlockLost, CommandIsCurrent
<1>2. QED BY PlaybackInvariance, <1>1, PTL

-----------------------------------------------------------------------------
(* The order of playing, step by step.                                     *)

\* What is in play was decoded for a request that has been made.
LEMMA PastInvStep ==
  ASSUME AppTypes, SoundTypes, WorkerTypes, CommandInv, ServedInv, FeedInv, PastInv,
         [Next]_vars
  PROVE  PastInv'
<1> USE SessionAssumption, NoneAssumption
<1> USE DEF PastInv, Past, InPlay, Queued, Held, Mixed, HeldQueue, AwaitWork, DropCommand
<1> USE DEF request, report, progress, callback, source, worker, endpoint, recovery, lifecycle,
           application, sound, control
<1>1. CASE Load
  <2>1. UNCHANGED <<pipeline, rpc, rblock, rdetached>>
    BY <1>1 DEF Load
  <2>2. generation <= generation' /\ seekSequence <= seekSequence'
    BY <1>1 DEF Load, AppTypes
  <2>3. /\ generation \in Nat /\ seekSequence \in Nat
        /\ generation' \in Nat /\ seekSequence' \in Nat
    BY <1>1 DEF Load, AppTypes
  <2>4. QED BY <2>1, <2>2, <2>3 DEF DecodedBlock, Block
<1>2. CASE Play
  <2>1. UNCHANGED <<pipeline, rpc, rblock, rdetached>>
    BY <1>2 DEF Play
  <2>2. generation <= generation' /\ seekSequence <= seekSequence'
    BY <1>2 DEF Play, AppTypes
  <2>3. /\ generation \in Nat /\ seekSequence \in Nat
        /\ generation' \in Nat /\ seekSequence' \in Nat
    BY <1>2 DEF Play, AppTypes
  <2>4. QED BY <2>1, <2>2, <2>3 DEF DecodedBlock, Block
<1>3. ASSUME NEW p \in Targets, SeekTo(p) PROVE PastInv'
  <2>1. UNCHANGED <<pipeline, rpc, rblock, rdetached>>
    BY <1>3 DEF SeekTo
  <2>2. generation <= generation' /\ seekSequence <= seekSequence'
    BY <1>3 DEF SeekTo, AppTypes
  <2>3. /\ generation \in Nat /\ seekSequence \in Nat
        /\ generation' \in Nat /\ seekSequence' \in Nat
    BY <1>3 DEF SeekTo, AppTypes
  <2>4. QED BY <2>1, <2>2, <2>3 DEF DecodedBlock, Block
<1>4. ASSUME NEW d \in Devices, SelectOutputDevice(d) PROVE PastInv'
  <2>1. UNCHANGED <<pipeline, rpc, rblock, rdetached>>
    BY <1>4 DEF SelectOutputDevice
  <2>2. generation <= generation' /\ seekSequence <= seekSequence'
    BY <1>4 DEF SelectOutputDevice, AppTypes
  <2>3. /\ generation \in Nat /\ seekSequence \in Nat
        /\ generation' \in Nat /\ seekSequence' \in Nat
    BY <1>4 DEF SelectOutputDevice, AppTypes
  <2>4. QED BY <2>1, <2>2, <2>3 DEF DecodedBlock, Block
<1>5. ASSUME NEW l \in Layouts, RenderEnter(l) PROVE PastInv'
  <2>1. UNCHANGED <<generation, seekSequence>>
    BY <1>5 DEF RenderEnter
  <2>2. QED BY <1>5, <2>1, EnterSets
<1>6. CASE RenderPop
  <2>1. UNCHANGED <<generation, seekSequence>>
    BY <1>6 DEF RenderPop
  <2>2. QED BY <1>6, <2>1, PopSets
<1>7. ASSUME NEW locked \in BOOLEAN, RenderFinish(locked) PROVE PastInv'
  BY <1>7 DEF RenderFinish, ReportBlock, MayReport
<1>8. CASE DecodeWake
  BY <1>8 DEF DecodeWake
<1>9. CASE DecodeLeave
  BY <1>9 DEF DecodeLeave
<1>10. CASE DecodeCheck
  BY <1>10 DEF DecodeCheck
<1>11. CASE DecodeOpen
  BY <1>11 DEF DecodeOpen
<1>12. CASE DecodeSeek
  BY <1>12 DEF DecodeSeek
<1>13. CASE DecodeRead
  BY <1>13 DEF DecodeRead
<1>14. CASE DecodeFailed
  BY <1>14 DEF DecodeFailed, SourceError
<1>15. CASE DecodePublishOpened
  <2>1. UNCHANGED <<generation, seekSequence, rpc, rblock>>
    BY <1>15 DEF DecodePublishOpened
  <2>2. CASE CommandIsCurrent
    BY <1>15, <2>1, <2>2, PublishSets DEF DecodePublishOpened
  <2>3. CASE ~CommandIsCurrent
    BY <1>15, <2>1, <2>3 DEF DecodePublishOpened
  <2>4. QED BY <2>2, <2>3
<1>16. CASE DecodeReady
  BY <1>16 DEF DecodeReady, CommandIsCurrent
<1>17. CASE DecodePublishSought
  <2>1. UNCHANGED <<generation, seekSequence, rpc, rblock>>
    BY <1>17 DEF DecodePublishSought
  <2>2. CASE CommandIsCurrent
    BY <1>17, <2>1, <2>2, PublishSets DEF DecodePublishSought
  <2>3. CASE ~CommandIsCurrent
    BY <1>17, <2>1, <2>3 DEF DecodePublishSought
  <2>4. QED BY <2>2, <2>3
<1>18. CASE DecodeSought
  BY <1>18 DEF DecodeSought
<1>19. CASE DecodePush
  <2>1. UNCHANGED <<generation, seekSequence>> /\ dpc = "push"
    BY <1>19 DEF DecodePush
  <2>2. CASE CommandIsCurrent
    <3>1. dblock.generation = generation /\ dblock.sequence = seekSequence
      BY <2>1, <2>2 DEF CommandIsCurrent, FeedInv
    <3>2. dblock \in DecodedBlock /\ Past(dblock)
      BY <1>19, <3>1, PushSets DEF AppTypes
    <3>3. QED BY <1>19, <2>1, <2>2, <3>2, PushSets
  <2>3. CASE ~CommandIsCurrent
    BY <1>19, <2>1, <2>3, PushSets
  <2>4. QED BY <2>2, <2>3
<1>20. CASE DecodeThrow
  BY <1>20 DEF DecodeThrow
<1>21. CASE DecodeFinish
  BY <1>21 DEF DecodeFinish
<1>22. CASE CloseBegin
  BY <1>22 DEF CloseBegin, CommandMutexFree
<1>23. CASE CloseUnpublish
  BY <1>23 DEF CloseUnpublish, StreamMutexFree, RecoveryJoined
<1>24. CASE Elsewhere
  BY <1>24 DEF Elsewhere
<1>25. QED
  BY <1>1, <1>2, <1>3, <1>4, <1>5, <1>6, <1>7, <1>8, <1>9, <1>10, <1>11, <1>12, <1>13,
     <1>14, <1>15, <1>16, <1>17, <1>18, <1>19, <1>20, <1>21, <1>22, <1>23, <1>24,
     StepCases
  DEF Worker

\* A worker on the latest request stays on it.
LEMMA RequestInvStep ==
  ASSUME AppTypes, WorkerTypes, CommandInv, ServedInv, LayoutInv, RequestInv, [Next]_vars
  PROVE  RequestInv'
<1> USE SessionAssumption, NoneAssumption
<1> USE DEF AppTypes, WorkerTypes, CommandInv, ServedInv, RequestInv, Served, OnRequest,
           WorkerCommand, Busy, CommandPlaces, Waiting, AwaitWork, DropCommand, CancelDecoder
<1> USE DEF request, report, progress, callback, source, worker, endpoint, recovery, lifecycle,
           application, sound, control
<1>0. active.generation \in 0..MaxGeneration /\ active.sequence \in 0..MaxSequence
  BY ActiveRequest
<1> USE <1>0
<1>1. CASE Load
  BY <1>1 DEF Load, CommandMutexFree
<1>2. CASE Play
  BY <1>2 DEF Play
<1>3. ASSUME NEW p \in Targets, SeekTo(p) PROVE RequestInv'
  BY <1>3 DEF SeekTo, CommandMutexFree
<1>4. ASSUME NEW d \in Devices, SelectOutputDevice(d) PROVE RequestInv'
  BY <1>4 DEF SelectOutputDevice, CommandMutexFree
<1>5. ASSUME NEW l \in Layouts, RenderEnter(l) PROVE RequestInv'
  BY <1>5 DEF RenderEnter
<1>6. CASE RenderPop
  BY <1>6 DEF RenderPop
<1>7. ASSUME NEW locked \in BOOLEAN, RenderFinish(locked) PROVE RequestInv'
  BY <1>7 DEF RenderFinish, ReportBlock, MayReport
<1>8. CASE DecodeWake
  <2>1. /\ command'.generation = generation /\ command'.sequence = seekSequence
        /\ command'.epoch = decoderEpoch
        /\ UNCHANGED <<generation, seekSequence, decoderEpoch, active>>
    BY <1>8 DEF DecodeWake
  <2>2. /\ dpc' \in {"check", "seek", "read"}
        /\ dpc' = "check" => generation # active.generation \/ layout # active.layout
        /\ dpc' = "seek" => seekSequence # active.sequence
    BY <1>8 DEF DecodeWake
  <2>3. Served /\ generation > 0 => layout = active.layout \/ failed = Requested
    BY DEF LayoutInv
  <2>4. generation > 0 /\ failed # Requested
    BY <1>8 DEF DecodeWake, WorkToDo
  <2>5. dpc' = "check" => ~Served
    BY <2>2, <2>3, <2>4
  <2>6. QED BY <2>1, <2>2, <2>5
<1>9. CASE DecodeLeave
  BY <1>9 DEF DecodeLeave
<1>10. CASE DecodeCheck
  BY <1>10 DEF DecodeCheck
<1>11. CASE DecodeOpen
  BY <1>11 DEF DecodeOpen
<1>12. CASE DecodeSeek
  BY <1>12 DEF DecodeSeek
<1>13. CASE DecodeRead
  BY <1>13 DEF DecodeRead
<1>14. CASE DecodeFailed
  BY <1>14 DEF DecodeFailed, SourceError
<1>15. CASE DecodePublishOpened
  BY <1>15 DEF DecodePublishOpened, PublishPipeline, CommandIsCurrent
<1>16. CASE DecodeReady
  BY <1>16 DEF DecodeReady, CommandIsCurrent
<1>17. CASE DecodePublishSought
  BY <1>17 DEF DecodePublishSought, PublishPipeline, CommandIsCurrent
<1>18. CASE DecodeSought
  BY <1>18 DEF DecodeSought
<1>19. CASE DecodePush
  BY <1>19 DEF DecodePush, CommandIsCurrent
<1>20. CASE DecodeThrow
  BY <1>20 DEF DecodeThrow
<1>21. CASE DecodeFinish
  BY <1>21 DEF DecodeFinish
<1>22. CASE CloseBegin
  BY <1>22 DEF CloseBegin, CommandMutexFree
<1>23. CASE CloseUnpublish
  BY <1>23 DEF CloseUnpublish, StreamMutexFree, RecoveryJoined
<1>24. CASE Elsewhere
  BY <1>24 DEF Elsewhere
<1>25. QED
  BY <1>1, <1>2, <1>3, <1>4, <1>5, <1>6, <1>7, <1>8, <1>9, <1>10, <1>11, <1>12, <1>13,
     <1>14, <1>15, <1>16, <1>17, <1>18, <1>19, <1>20, <1>21, <1>22, <1>23, <1>24,
     StepCases
  DEF Worker

\* While the layout does not change, the worker's is the callback's.
LEMMA LayoutInvStep ==
  ASSUME AppTypes, WorkerTypes, CommandInv, ServedInv, LayoutInv, [layout = None]_layout,
         [Next]_vars
  PROVE  LayoutInv'
<1> USE SessionAssumption, NoneAssumption
<1> USE DEF AppTypes, WorkerTypes, CommandInv, ServedInv, LayoutInv, Served, Requested,
           WorkerCommand, Busy, CommandPlaces, Waiting, AwaitWork, DropCommand, CancelDecoder
<1> USE DEF request, report, progress, callback, source, worker, endpoint, recovery, lifecycle,
           application, sound, control
<1>0. active.generation \in 0..MaxGeneration /\ active.sequence \in 0..MaxSequence
  BY ActiveRequest
<1> USE <1>0
<1>1. CASE Load
  BY <1>1 DEF Load, CommandMutexFree
<1>2. CASE Play
  BY <1>2 DEF Play
<1>3. ASSUME NEW p \in Targets, SeekTo(p) PROVE LayoutInv'
  BY <1>3 DEF SeekTo, CommandMutexFree
<1>4. ASSUME NEW d \in Devices, SelectOutputDevice(d) PROVE LayoutInv'
  BY <1>4 DEF SelectOutputDevice, CommandMutexFree
<1>5. ASSUME NEW l \in Layouts, RenderEnter(l) PROVE LayoutInv'
  BY <1>5 DEF RenderEnter
<1>6. CASE RenderPop
  BY <1>6 DEF RenderPop
<1>7. ASSUME NEW locked \in BOOLEAN, RenderFinish(locked) PROVE LayoutInv'
  BY <1>7 DEF RenderFinish, ReportBlock, MayReport
<1>8. CASE DecodeWake
  <2>1. /\ command'.layout = layout /\ layout # None
        /\ UNCHANGED <<generation, seekSequence, layout, active, failed>>
    BY <1>8 DEF DecodeWake, WorkToDo
  <2>2. QED BY <2>1
<1>9. CASE DecodeLeave
  BY <1>9 DEF DecodeLeave
<1>10. CASE DecodeCheck
  BY <1>10 DEF DecodeCheck
<1>11. CASE DecodeOpen
  BY <1>11 DEF DecodeOpen
<1>12. CASE DecodeSeek
  BY <1>12 DEF DecodeSeek
<1>13. CASE DecodeRead
  BY <1>13 DEF DecodeRead
<1>14. CASE DecodeFailed
  <2>1. CASE CommandIsCurrent
    <3>1. failed' = Requested'
      BY <1>14, <2>1 DEF DecodeFailed, CommandIsCurrent
    <3>2. dpc' = "wait" /\ UNCHANGED <<generation, seekSequence, layout>> /\ layout # None
      BY <1>14 DEF DecodeFailed
    <3>3. QED BY <3>1, <3>2
  <2>2. CASE ~CommandIsCurrent
    <3>1. active'.generation = 0
      BY <1>14, <2>2, NoGeneration DEF DecodeFailed
    <3>2. dpc' = "wait" /\ UNCHANGED <<generation, seekSequence, layout>> /\ layout # None
      BY <1>14 DEF DecodeFailed
    <3>3. QED BY <3>1, <3>2
  <2>3. QED BY <2>1, <2>2
<1>15. CASE DecodePublishOpened
  <2>1. UNCHANGED <<generation, seekSequence, layout>> /\ layout # None
    BY <1>15 DEF DecodePublishOpened
  <2>2. CASE CommandIsCurrent
    <3>1. active'.layout = layout' /\ dpc' = "ready" /\ command' = command
      BY <1>15, <2>2 DEF DecodePublishOpened
    <3>2. QED BY <1>15, <2>1, <3>1 DEF DecodePublishOpened
  <2>3. CASE ~CommandIsCurrent
    <3>1. active'.generation = 0 /\ dpc' = "wait"
      BY <1>15, <2>3, NoGeneration DEF DecodePublishOpened
    <3>2. QED BY <2>1, <3>1
  <2>4. QED BY <2>2, <2>3
<1>16. CASE DecodeReady
  BY <1>16 DEF DecodeReady, CommandIsCurrent
<1>17. CASE DecodePublishSought
  <2>1. UNCHANGED <<generation, seekSequence, layout>> /\ layout # None
    BY <1>17 DEF DecodePublishSought
  <2>2. CASE CommandIsCurrent
    <3>1. /\ active' = [active EXCEPT !.sequence = command.sequence]
          /\ command.sequence \in 0..MaxSequence /\ active.layout = layout
          /\ dpc' = "sought" /\ command' = command /\ Busy
      BY <1>17, <2>2 DEF DecodePublishSought
    <3>2. active'.layout = layout'
      BY <2>1, <3>1, NewSequence
    <3>3. QED BY <2>1, <3>1, <3>2
  <2>3. CASE ~CommandIsCurrent
    <3>1. active'.generation = 0 /\ dpc' = "wait"
      BY <1>17, <2>3, NoGeneration DEF DecodePublishSought
    <3>2. QED BY <2>1, <3>1
  <2>4. QED BY <2>2, <2>3
<1>18. CASE DecodeSought
  BY <1>18 DEF DecodeSought
<1>19. CASE DecodePush
  <2>1. /\ UNCHANGED <<generation, seekSequence, layout, failed>> /\ layout # None
        /\ dpc' = "wait"
    BY <1>19 DEF DecodePush
  <2>2. active' = active \/ active'.generation = 0
    BY <1>19, NoGeneration DEF DecodePush
  <2>3. QED BY <2>1, <2>2
<1>20. CASE DecodeThrow
  BY <1>20 DEF DecodeThrow
<1>21. CASE DecodeFinish
  BY <1>21 DEF DecodeFinish
<1>22. CASE CloseBegin
  BY <1>22 DEF CloseBegin, CommandMutexFree
<1>23. CASE CloseUnpublish
  BY <1>23 DEF CloseUnpublish, StreamMutexFree, RecoveryJoined
<1>24. CASE Elsewhere
  BY <1>24 DEF Elsewhere
<1>25. QED
  BY <1>1, <1>2, <1>3, <1>4, <1>5, <1>6, <1>7, <1>8, <1>9, <1>10, <1>11, <1>12, <1>13,
     <1>14, <1>15, <1>16, <1>17, <1>18, <1>19, <1>20, <1>21, <1>22, <1>23, <1>24,
     StepCases
  DEF Worker

\* Every new request starts with nothing reported for it, and nothing is reported for
\* it before it is served.
LEMMA UntoldInvStep ==
  ASSUME AppTypes, SoundTypes, WorkerTypes, CommandInv, ServedInv, FeedInv, QueueInv,
         PastInv, RequestInv, ShutdownInv, OrderInv, [Next]_vars
  PROVE  UntoldInv'
<1> USE SessionAssumption, NoneAssumption
<1> USE DEF OrderInv, UntoldInv, Served, AwaitWork, DropCommand, CancelDecoder
<1> USE DEF request, report, progress, callback, source, worker, endpoint, recovery, lifecycle,
           application, sound, control
<1>1. CASE Load
  BY <1>1 DEF Load, CommandMutexFree
<1>2. CASE Play
  BY <1>2 DEF Play
<1>3. ASSUME NEW p \in Targets, SeekTo(p) PROVE UntoldInv'
  BY <1>3 DEF SeekTo, CommandMutexFree
<1>4. ASSUME NEW d \in Devices, SelectOutputDevice(d) PROVE UntoldInv'
  BY <1>4 DEF SelectOutputDevice, CommandMutexFree
<1>5. ASSUME NEW l \in Layouts, RenderEnter(l) PROVE UntoldInv'
  BY <1>5 DEF RenderEnter
<1>6. CASE RenderPop
  BY <1>6 DEF RenderPop
<1>7. ASSUME NEW locked \in BOOLEAN, RenderFinish(locked) PROVE UntoldInv'
  <2>1. CASE UNCHANGED <<position, told, reachedEnd>>
    BY <1>7, <2>1, Report
  <2>2. CASE ~(UNCHANGED <<position, told, reachedEnd>>)
    <3>1. ~shuttingDown /\ Latest(rblock) /\ rblock \in InPlay
      BY <1>7, <2>2, Report
    <3>2. Served
      BY <3>1 DEF LatestInv
    <3>3. Served'
      BY <1>7, <3>2, Report
    <3>4. QED BY <3>3
  <2>3. QED BY <2>1, <2>2
<1>8. CASE DecodeWake
  BY <1>8 DEF DecodeWake
<1>9. CASE DecodeLeave
  BY <1>9 DEF DecodeLeave
<1>10. CASE DecodeCheck
  BY <1>10 DEF DecodeCheck
<1>11. CASE DecodeOpen
  BY <1>11 DEF DecodeOpen
<1>12. CASE DecodeSeek
  BY <1>12 DEF DecodeSeek
<1>13. CASE DecodeRead
  BY <1>13 DEF DecodeRead
<1>14. CASE DecodeFailed
  <2>1. UNCHANGED <<told, generation, seekSequence>>
          /\ (reachedEnd' => reachedEnd)
          /\ (shuttingDown' = shuttingDown)
    BY <1>14 DEF DecodeFailed, SourceError
  <2>2. ~shuttingDown /\ Served => Served'
    BY <1>14, <2>1, StaysServed
  <2>3. QED BY <2>1, <2>2
<1>15. CASE DecodePublishOpened
  <2>1. UNCHANGED <<told, generation, seekSequence>>
          /\ (reachedEnd' => reachedEnd)
          /\ (shuttingDown' = shuttingDown)
    BY <1>15 DEF DecodePublishOpened
  <2>2. ~shuttingDown /\ Served => Served'
    BY <1>15, <2>1, StaysServed
  <2>3. QED BY <2>1, <2>2
<1>16. CASE DecodeReady
  BY <1>16 DEF DecodeReady, CommandIsCurrent
<1>17. CASE DecodePublishSought
  <2>1. UNCHANGED <<told, generation, seekSequence>>
          /\ (reachedEnd' => reachedEnd)
          /\ (shuttingDown' = shuttingDown)
    BY <1>17 DEF DecodePublishSought
  <2>2. ~shuttingDown /\ Served => Served'
    BY <1>17, <2>1, StaysServed
  <2>3. QED BY <2>1, <2>2
<1>18. CASE DecodeSought
  BY <1>18 DEF DecodeSought
<1>19. CASE DecodePush
  <2>1. UNCHANGED <<told, generation, seekSequence>>
          /\ (reachedEnd' => reachedEnd)
          /\ (shuttingDown' = shuttingDown)
    BY <1>19 DEF DecodePush
  <2>2. ~shuttingDown /\ Served => Served'
    BY <1>19, <2>1, StaysServed
  <2>3. QED BY <2>1, <2>2
<1>20. CASE DecodeThrow
  BY <1>20 DEF DecodeThrow
<1>21. CASE DecodeFinish
  BY <1>21 DEF DecodeFinish
<1>22. CASE CloseBegin
  BY <1>22 DEF CloseBegin, CommandMutexFree
<1>23. CASE CloseUnpublish
  BY <1>23 DEF CloseUnpublish, StreamMutexFree, RecoveryJoined
<1>24. CASE Elsewhere
  BY <1>24 DEF Elsewhere
<1>25. QED
  BY <1>1, <1>2, <1>3, <1>4, <1>5, <1>6, <1>7, <1>8, <1>9, <1>10, <1>11, <1>12, <1>13,
     <1>14, <1>15, <1>16, <1>17, <1>18, <1>19, <1>20, <1>21, <1>22, <1>23, <1>24,
     StepCases
  DEF Worker

\* Nothing comes into play for a request before it is served.
LEMMA LatestInvStep ==
  ASSUME AppTypes, SoundTypes, WorkerTypes, CommandInv, ServedInv, FeedInv, QueueInv,
         PastInv, RequestInv, ShutdownInv, OrderInv, [Next]_vars
  PROVE  LatestInv'
<1> USE SessionAssumption, NoneAssumption
<1> USE DEF OrderInv, LatestInv, Latest, InPlay, Queued, Held, Mixed, HeldQueue, Served,
           AwaitWork, DropCommand, CancelDecoder
<1> USE DEF request, report, progress, callback, source, worker, endpoint, recovery, lifecycle,
           application, sound, control
<1>1. CASE Load
  <2>1. /\ UNCHANGED <<pipeline, rpc, rblock, rdetached, active>>
        /\ generation' = generation + 1
    BY <1>1 DEF Load
  <2>2. ~Served' /\ \A b \in InPlay' : ~Latest(b)'
    BY <2>1, NewRequestInPlay
  <2>3. QED BY <2>2
<1>2. CASE Play
  <2>1. UNCHANGED <<pipeline, rpc, rblock, rdetached, active, generation, shuttingDown>>
    BY <1>2 DEF Play
  <2>2. CASE seekSequence' = seekSequence + 1
    <3>1. ~Served' /\ \A b \in InPlay' : ~Latest(b)'
      BY <2>1, <2>2, NewRequestInPlay
    <3>2. QED BY <3>1
  <2>3. CASE seekSequence' # seekSequence + 1
    <3>1. UNCHANGED <<seekSequence, position, told, reachedEnd>>
      BY <1>2, <2>3 DEF Play
    <3>2. QED BY <2>1, <3>1
  <2>4. QED BY <2>2, <2>3
<1>3. ASSUME NEW p \in Targets, SeekTo(p) PROVE LatestInv'
  <2>1. /\ UNCHANGED <<pipeline, rpc, rblock, rdetached, active>>
        /\ generation' = generation /\ seekSequence' = seekSequence + 1
    BY <1>3 DEF SeekTo
  <2>2. ~Served' /\ \A b \in InPlay' : ~Latest(b)'
    BY <2>1, NewRequestInPlay
  <2>3. QED BY <2>2
<1>4. ASSUME NEW d \in Devices, SelectOutputDevice(d) PROVE LatestInv'
  <2>1. /\ UNCHANGED <<pipeline, rpc, rblock, rdetached, active>>
        /\ generation' = generation /\ seekSequence' = seekSequence + 1
    BY <1>4 DEF SelectOutputDevice
  <2>2. ~Served' /\ \A b \in InPlay' : ~Latest(b)'
    BY <2>1, NewRequestInPlay
  <2>3. QED BY <2>2
<1>5. ASSUME NEW l \in Layouts, RenderEnter(l) PROVE LatestInv'
  <2>1. UNCHANGED <<generation, seekSequence, active, shuttingDown>>
    BY <1>5 DEF RenderEnter
  <2>2. InPlay' \subseteq InPlay
    BY <1>5, EnterSets
  <2>3. QED BY <2>1, <2>2
<1>6. CASE RenderPop
  <2>1. UNCHANGED <<generation, seekSequence, active, shuttingDown>>
    BY <1>6 DEF RenderPop
  <2>2. InPlay' \subseteq InPlay
    BY <1>6, PopSets
  <2>3. QED BY <2>1, <2>2
<1>7. ASSUME NEW locked \in BOOLEAN, RenderFinish(locked) PROVE LatestInv'
  BY <1>7 DEF RenderFinish, ReportBlock, MayReport
<1>8. CASE DecodeWake
  BY <1>8 DEF DecodeWake
<1>9. CASE DecodeLeave
  BY <1>9 DEF DecodeLeave
<1>10. CASE DecodeCheck
  BY <1>10 DEF DecodeCheck
<1>11. CASE DecodeOpen
  BY <1>11 DEF DecodeOpen
<1>12. CASE DecodeSeek
  BY <1>12 DEF DecodeSeek
<1>13. CASE DecodeRead
  BY <1>13 DEF DecodeRead
<1>14. CASE DecodeFailed
  <2>1. UNCHANGED <<generation, seekSequence, rpc, rblock, shuttingDown>>
    BY <1>14 DEF DecodeFailed
  <2>2. ~shuttingDown /\ Served => Served'
    BY <1>14, <2>1, StaysServed
  <2>3. InPlay' = InPlay
    BY <1>14 DEF DecodeFailed
  <2>4. QED BY <2>1, <2>2, <2>3 DEF LatestInv
<1>15. CASE DecodePublishOpened
  <2>1. UNCHANGED <<generation, seekSequence, rpc, rblock, shuttingDown>>
    BY <1>15 DEF DecodePublishOpened
  <2>2. ~shuttingDown /\ Served => Served'
    BY <1>15, <2>1, StaysServed
  <2>3. InPlay' \subseteq InPlay
    <3>1. CASE CommandIsCurrent
      BY <1>15, <2>1, <3>1, PublishSets DEF DecodePublishOpened
    <3>2. CASE ~CommandIsCurrent
      BY <1>15, <2>1, <3>2 DEF DecodePublishOpened
    <3>3. QED BY <3>1, <3>2
  <2>4. QED BY <2>1, <2>2, <2>3 DEF LatestInv
<1>16. CASE DecodeReady
  BY <1>16 DEF DecodeReady, CommandIsCurrent
<1>17. CASE DecodePublishSought
  <2>1. UNCHANGED <<generation, seekSequence, rpc, rblock, shuttingDown>>
    BY <1>17 DEF DecodePublishSought
  <2>2. ~shuttingDown /\ Served => Served'
    BY <1>17, <2>1, StaysServed
  <2>3. InPlay' \subseteq InPlay
    <3>1. CASE CommandIsCurrent
      BY <1>17, <2>1, <3>1, PublishSets DEF DecodePublishSought
    <3>2. CASE ~CommandIsCurrent
      BY <1>17, <2>1, <3>2 DEF DecodePublishSought
    <3>3. QED BY <3>1, <3>2
  <2>4. QED BY <2>1, <2>2, <2>3 DEF LatestInv
<1>18. CASE DecodeSought
  BY <1>18 DEF DecodeSought
<1>19. CASE DecodePush
  <2>1. UNCHANGED <<generation, seekSequence, shuttingDown>> /\ dpc = "push"
    BY <1>19 DEF DecodePush
  <2>2. ~shuttingDown /\ Served => Served'
    BY <1>19, <2>1, StaysServed
  <2>3. CommandIsCurrent => Served
    BY <2>1 DEF CommandIsCurrent, ServedInv
  <2>4. ~CommandIsCurrent => InPlay' = InPlay
    BY <1>19, PushSets
  <2>5. QED BY <2>1, <2>2, <2>3, <2>4 DEF LatestInv
<1>20. CASE DecodeThrow
  BY <1>20 DEF DecodeThrow
<1>21. CASE DecodeFinish
  BY <1>21 DEF DecodeFinish
<1>22. CASE CloseBegin
  BY <1>22 DEF CloseBegin, CommandMutexFree
<1>23. CASE CloseUnpublish
  <2>1. shuttingDown'
    BY <1>23 DEF CloseUnpublish, ShutdownInv
  <2>2. QED BY <2>1
<1>24. CASE Elsewhere
  BY <1>24 DEF Elsewhere
<1>25. QED
  BY <1>1, <1>2, <1>3, <1>4, <1>5, <1>6, <1>7, <1>8, <1>9, <1>10, <1>11, <1>12, <1>13,
     <1>14, <1>15, <1>16, <1>17, <1>18, <1>19, <1>20, <1>21, <1>22, <1>23, <1>24,
     StepCases
  DEF Worker

\* A pipeline is replaced only when nothing in it is of the latest request.
LEMMA DetachedInvStep ==
  ASSUME AppTypes, SoundTypes, WorkerTypes, CommandInv, ServedInv, FeedInv, QueueInv,
         PastInv, RequestInv, ShutdownInv, OrderInv, [Next]_vars
  PROVE  DetachedInv'
<1> USE SessionAssumption, NoneAssumption
<1> USE DEF OrderInv, DetachedInv, Latest, Held, HeldQueue, Served, AwaitWork,
           DropCommand, CancelDecoder
<1> USE DEF request, report, progress, callback, source, worker, endpoint, recovery, lifecycle,
           application, sound, control
<1>1. CASE Load
  <2>1. /\ UNCHANGED <<pipeline, rpc, rblock, rdetached, active>>
        /\ generation' = generation + 1
    BY <1>1 DEF Load
  <2>2. ~Served' /\ \A b \in InPlay' : ~Latest(b)'
    BY <2>1, NewRequestInPlay
  <2>3. QED BY <2>2 DEF InPlay
<1>2. CASE Play
  <2>1. UNCHANGED <<pipeline, rpc, rblock, rdetached, active, generation, shuttingDown>>
    BY <1>2 DEF Play
  <2>2. CASE seekSequence' = seekSequence + 1
    <3>1. ~Served' /\ \A b \in InPlay' : ~Latest(b)'
      BY <2>1, <2>2, NewRequestInPlay
    <3>2. QED BY <3>1 DEF InPlay
  <2>3. CASE seekSequence' # seekSequence + 1
    <3>1. UNCHANGED <<seekSequence, position, told, reachedEnd>>
      BY <1>2, <2>3 DEF Play
    <3>2. QED BY <2>1, <3>1
  <2>4. QED BY <2>2, <2>3
<1>3. ASSUME NEW p \in Targets, SeekTo(p) PROVE DetachedInv'
  <2>1. /\ UNCHANGED <<pipeline, rpc, rblock, rdetached, active>>
        /\ generation' = generation /\ seekSequence' = seekSequence + 1
    BY <1>3 DEF SeekTo
  <2>2. ~Served' /\ \A b \in InPlay' : ~Latest(b)'
    BY <2>1, NewRequestInPlay
  <2>3. QED BY <2>2 DEF InPlay
<1>4. ASSUME NEW d \in Devices, SelectOutputDevice(d) PROVE DetachedInv'
  <2>1. /\ UNCHANGED <<pipeline, rpc, rblock, rdetached, active>>
        /\ generation' = generation /\ seekSequence' = seekSequence + 1
    BY <1>4 DEF SelectOutputDevice
  <2>2. ~Served' /\ \A b \in InPlay' : ~Latest(b)'
    BY <2>1, NewRequestInPlay
  <2>3. QED BY <2>2 DEF InPlay
<1>5. ASSUME NEW l \in Layouts, RenderEnter(l) PROVE DetachedInv'
  BY <1>5, EnterSets
<1>6. CASE RenderPop
  BY <1>6 DEF RenderPop
<1>7. ASSUME NEW locked \in BOOLEAN, RenderFinish(locked) PROVE DetachedInv'
  BY <1>7 DEF RenderFinish, ReportBlock, MayReport
<1>8. CASE DecodeWake
  BY <1>8 DEF DecodeWake
<1>9. CASE DecodeLeave
  BY <1>9 DEF DecodeLeave
<1>10. CASE DecodeCheck
  BY <1>10 DEF DecodeCheck
<1>11. CASE DecodeOpen
  BY <1>11 DEF DecodeOpen
<1>12. CASE DecodeSeek
  BY <1>12 DEF DecodeSeek
<1>13. CASE DecodeRead
  BY <1>13 DEF DecodeRead
<1>14. CASE DecodeFailed
  BY <1>14 DEF DecodeFailed, SourceError
<1>15. CASE DecodePublishOpened
  <2>1. UNCHANGED <<generation, seekSequence, rpc, rblock, shuttingDown>>
    BY <1>15 DEF DecodePublishOpened
  <2>2. CASE CommandIsCurrent
    <3>1. ~shuttingDown => ~Served
      BY <1>15, StaysServed DEF DecodePublishOpened
    <3>2. Held' = Held
      BY <1>15, <2>1, <2>2, PublishSets DEF DecodePublishOpened
    <3>3. ~shuttingDown => \A b \in Held : ~Latest(b)
      BY <3>1 DEF LatestInv, InPlay
    <3>4. QED BY <2>1, <3>2, <3>3
  <2>3. CASE ~CommandIsCurrent
    BY <1>15, <2>1, <2>3 DEF DecodePublishOpened
  <2>4. QED BY <2>2, <2>3
<1>16. CASE DecodeReady
  BY <1>16 DEF DecodeReady, CommandIsCurrent
<1>17. CASE DecodePublishSought
  <2>1. UNCHANGED <<generation, seekSequence, rpc, rblock, shuttingDown>>
    BY <1>17 DEF DecodePublishSought
  <2>2. CASE CommandIsCurrent
    <3>1. ~shuttingDown => ~Served
      BY <1>17, StaysServed DEF DecodePublishSought
    <3>2. Held' = Held
      BY <1>17, <2>1, <2>2, PublishSets DEF DecodePublishSought
    <3>3. ~shuttingDown => \A b \in Held : ~Latest(b)
      BY <3>1 DEF LatestInv, InPlay
    <3>4. QED BY <2>1, <3>2, <3>3
  <2>3. CASE ~CommandIsCurrent
    BY <1>17, <2>1, <2>3 DEF DecodePublishSought
  <2>4. QED BY <2>2, <2>3
<1>18. CASE DecodeSought
  BY <1>18 DEF DecodeSought
<1>19. CASE DecodePush
  <2>1. UNCHANGED <<generation, seekSequence, shuttingDown, rpc, rdetached>>
    BY <1>19 DEF DecodePush
  <2>2. rdetached # <<>> => Held' = Held
    BY <1>19, PushSets
  <2>3. QED BY <2>1, <2>2
<1>20. CASE DecodeThrow
  BY <1>20 DEF DecodeThrow
<1>21. CASE DecodeFinish
  BY <1>21 DEF DecodeFinish
<1>22. CASE CloseBegin
  BY <1>22 DEF CloseBegin, CommandMutexFree
<1>23. CASE CloseUnpublish
  <2>1. shuttingDown'
    BY <1>23 DEF CloseUnpublish, ShutdownInv
  <2>2. QED BY <2>1
<1>24. CASE Elsewhere
  BY <1>24 DEF Elsewhere
<1>25. QED
  BY <1>1, <1>2, <1>3, <1>4, <1>5, <1>6, <1>7, <1>8, <1>9, <1>10, <1>11, <1>12, <1>13,
     <1>14, <1>15, <1>16, <1>17, <1>18, <1>19, <1>20, <1>21, <1>22, <1>23, <1>24,
     StepCases
  DEF Worker

\* A new queue starts before anything is reported, and the report stays behind what
\* is decoded.
LEMMA FeedOrderStep ==
  ASSUME AppTypes, SoundTypes, WorkerTypes, CommandInv, ServedInv, FeedInv, QueueInv,
         PastInv, RequestInv, ShutdownInv, OrderInv, [Next]_vars
  PROVE  FeedOrder'
<1> USE SessionAssumption, NoneAssumption
<1> USE DEF OrderInv, FeedOrder, Feeding, Decoded, Reached, Served, AwaitWork,
           DropCommand, CancelDecoder
<1> USE DEF request, report, progress, callback, source, worker, endpoint, recovery, lifecycle,
           application, sound, control
<1>1. CASE Load
  <2>1. /\ UNCHANGED <<pipeline, rpc, rblock, rdetached, active>>
        /\ generation' = generation + 1
    BY <1>1 DEF Load
  <2>2. ~Served' /\ \A b \in InPlay' : ~Latest(b)'
    BY <2>1, NewRequestInPlay
  <2>3. QED BY <2>2
<1>2. CASE Play
  <2>1. UNCHANGED <<pipeline, rpc, rblock, rdetached, active, generation, shuttingDown>>
    BY <1>2 DEF Play
  <2>2. CASE seekSequence' = seekSequence + 1
    <3>1. ~Served' /\ \A b \in InPlay' : ~Latest(b)'
      BY <2>1, <2>2, NewRequestInPlay
    <3>2. QED BY <3>1
  <2>3. CASE seekSequence' # seekSequence + 1
    <3>1. UNCHANGED <<seekSequence, position, told, reachedEnd>>
      BY <1>2, <2>3 DEF Play
    <3>2. QED BY <1>2, <2>1, <3>1 DEF Play
  <2>4. QED BY <2>2, <2>3
<1>3. ASSUME NEW p \in Targets, SeekTo(p) PROVE FeedOrder'
  <2>1. /\ UNCHANGED <<pipeline, rpc, rblock, rdetached, active>>
        /\ generation' = generation /\ seekSequence' = seekSequence + 1
    BY <1>3 DEF SeekTo
  <2>2. ~Served' /\ \A b \in InPlay' : ~Latest(b)'
    BY <2>1, NewRequestInPlay
  <2>3. QED BY <2>2
<1>4. ASSUME NEW d \in Devices, SelectOutputDevice(d) PROVE FeedOrder'
  <2>1. /\ UNCHANGED <<pipeline, rpc, rblock, rdetached, active>>
        /\ generation' = generation /\ seekSequence' = seekSequence + 1
    BY <1>4 DEF SelectOutputDevice
  <2>2. ~Served' /\ \A b \in InPlay' : ~Latest(b)'
    BY <2>1, NewRequestInPlay
  <2>3. QED BY <2>2
<1>5. ASSUME NEW l \in Layouts, RenderEnter(l) PROVE FeedOrder'
  BY <1>5 DEF RenderEnter
<1>6. CASE RenderPop
  BY <1>6 DEF RenderPop
<1>7. ASSUME NEW locked \in BOOLEAN, RenderFinish(locked) PROVE FeedOrder'
  <2>1. /\ UNCHANGED <<generation, seekSequence, active, dpc, decoderPosition, endOfStream,
                       shuttingDown>>
    BY <1>7, Report
  <2>2. CASE UNCHANGED <<position, told, reachedEnd>>
    BY <1>7, <2>1, <2>2, Report
  <2>3. CASE ~(UNCHANGED <<position, told, reachedEnd>>)
    <3>1. /\ ~shuttingDown /\ Latest(rblock) /\ rpc = "mix"
          /\ ~rblock.last => position' = rblock.position /\ reachedEnd' = FALSE
      BY <1>7, <2>3, Report
    <3>2. Served /\ Feeding => ~rblock.last /\ rblock.position <= Decoded
      BY <3>1 DEF MixedInv
    <3>3. QED BY <2>1, <3>1, <3>2
  <2>4. QED BY <2>2, <2>3
<1>8. CASE DecodeWake
  BY <1>8 DEF DecodeWake
<1>9. CASE DecodeLeave
  BY <1>9 DEF DecodeLeave
<1>10. CASE DecodeCheck
  BY <1>10 DEF DecodeCheck
<1>11. CASE DecodeOpen
  BY <1>11 DEF DecodeOpen
<1>12. CASE DecodeSeek
  BY <1>12 DEF DecodeSeek
<1>13. CASE DecodeRead
  <2>1. UNCHANGED <<position, told, reachedEnd, generation, seekSequence, active, endOfStream,
                    shuttingDown>>
    BY <1>13 DEF DecodeRead
  <2>2. Decoded' = Decoded
    BY <1>13 DEF DecodeRead, WorkerTypes
  <2>3. QED BY <1>13, <2>1, <2>2 DEF DecodeRead
<1>14. CASE DecodeFailed
  <2>1. /\ UNCHANGED <<position, told, generation, seekSequence, decoderPosition, shuttingDown>>
        /\ reachedEnd' => reachedEnd
        /\ dpc # "push" /\ dpc' # "push"
        /\ dpc \notin {"publishOpened", "publishSought", "ending", "finished"}
    BY <1>14 DEF DecodeFailed, SourceError
  <2>2. CASE active' = active
    <3>1. endOfStream => endOfStream'
      BY <1>14 DEF DecodeFailed
    <3>2. QED BY <2>1, <2>2, <3>1
  <2>3. CASE active' # active
    <3>1. active'.generation = 0 \/ endOfStream'
      BY <1>14, <2>3, NoGeneration DEF WorkerTypes, DecodeFailed
    <3>2. QED BY <3>1
  <2>4. QED BY <2>2, <2>3
<1>15. CASE DecodePublishOpened
  <2>1. UNCHANGED <<position, told, reachedEnd, generation, seekSequence,
                    decoderPosition, shuttingDown>>
    BY <1>15 DEF DecodePublishOpened
  <2>2. CASE CommandIsCurrent
    <3>1. active'.sequence = 0 /\ dpc' = "ready"
      BY <1>15, <2>2 DEF DecodePublishOpened
    <3>2. ~shuttingDown => ~Served
      BY <1>15, StaysServed DEF DecodePublishOpened
    <3>3. ~shuttingDown => ~reachedEnd /\ ~told
      BY <3>2 DEF UntoldInv
    <3>4. QED BY <2>1, <3>1, <3>3
  <2>3. CASE ~CommandIsCurrent
    <3>1. active'.generation = 0
      BY <1>15, <2>3, NoGeneration DEF WorkerTypes, DecodePublishOpened
    <3>2. QED BY <3>1
  <2>4. QED BY <2>2, <2>3
<1>16. CASE DecodeReady
  BY <1>16 DEF DecodeReady, CommandIsCurrent
<1>17. CASE DecodePublishSought
  <2>1. UNCHANGED <<position, told, reachedEnd, generation, seekSequence,
                    decoderPosition, shuttingDown>>
    BY <1>17 DEF DecodePublishSought
  <2>2. CASE CommandIsCurrent
    <3>1. ~shuttingDown => ~Served
      BY <1>17, StaysServed DEF DecodePublishSought
    <3>2. ~shuttingDown => ~reachedEnd /\ ~told
      BY <3>1 DEF UntoldInv
    <3>3. QED BY <2>1, <3>2
  <2>3. CASE ~CommandIsCurrent
    <3>1. active'.generation = 0
      BY <1>17, <2>3, NoGeneration DEF WorkerTypes, DecodePublishSought
    <3>2. QED BY <3>1
  <2>4. QED BY <2>2, <2>3
<1>18. CASE DecodeSought
  BY <1>18 DEF DecodeSought
<1>19. CASE DecodePush
  <2>1. /\ UNCHANGED <<position, told, reachedEnd, generation, seekSequence, decoderPosition,
                       shuttingDown>>
        /\ dpc = "push" /\ dpc' = "wait"
    BY <1>19 DEF DecodePush
  <2>2. CASE active' = active
    <3>1. Feeding' => Feeding
      BY <2>1, <2>2 DEF ServedInv
    <3>2. Decoded <= Decoded' /\ Decoded \in Int /\ Decoded' \in Int /\ position \in Int
      BY <2>1 DEF WorkerTypes, AppTypes
    <3>3. QED BY <2>1, <2>2, <3>1, <3>2
  <2>3. CASE active' # active
    <3>1. active'.generation = 0
      BY <1>19, <2>3, NoGeneration DEF WorkerTypes, DecodePush
    <3>2. QED BY <3>1
  <2>4. QED BY <2>2, <2>3
<1>20. CASE DecodeThrow
  BY <1>20 DEF DecodeThrow
<1>21. CASE DecodeFinish
  BY <1>21 DEF DecodeFinish
<1>22. CASE CloseBegin
  BY <1>22 DEF CloseBegin, CommandMutexFree
<1>23. CASE CloseUnpublish
  BY <1>23 DEF CloseUnpublish, StreamMutexFree, RecoveryJoined
<1>24. CASE Elsewhere
  BY <1>24 DEF Elsewhere
<1>25. QED
  BY <1>1, <1>2, <1>3, <1>4, <1>5, <1>6, <1>7, <1>8, <1>9, <1>10, <1>11, <1>12, <1>13,
     <1>14, <1>15, <1>16, <1>17, <1>18, <1>19, <1>20, <1>21, <1>22, <1>23, <1>24,
     StepCases
  DEF Worker

\* The block that is popped is the next one, and everything else is ahead of it.
LEMMA MixedInvStep ==
  ASSUME AppTypes, SoundTypes, WorkerTypes, CommandInv, ServedInv, FeedInv, QueueInv,
         PastInv, RequestInv, ShutdownInv, OrderInv, [Next]_vars
  PROVE  MixedInv'
<1> USE SessionAssumption, NoneAssumption
<1> USE DEF OrderInv, MixedInv, Feeding, Decoded, Reached, Latest, Queued, Served,
           AwaitWork, DropCommand, CancelDecoder
<1> USE DEF request, report, progress, callback, source, worker, endpoint, recovery, lifecycle,
           application, sound, control
<1>1. CASE Load
  <2>1. /\ UNCHANGED <<pipeline, rpc, rblock, rdetached, active>>
        /\ generation' = generation + 1
    BY <1>1 DEF Load
  <2>2. ~Served' /\ \A b \in InPlay' : ~Latest(b)'
    BY <2>1, NewRequestInPlay
  <2>3. QED BY <2>1, <2>2 DEF InPlay, Mixed
<1>2. CASE Play
  <2>1. UNCHANGED <<pipeline, rpc, rblock, rdetached, active, generation, shuttingDown>>
    BY <1>2 DEF Play
  <2>2. CASE seekSequence' = seekSequence + 1
    <3>1. ~Served' /\ \A b \in InPlay' : ~Latest(b)'
      BY <2>1, <2>2, NewRequestInPlay
    <3>2. QED BY <2>1, <3>1 DEF InPlay, Mixed
  <2>3. CASE seekSequence' # seekSequence + 1
    <3>1. UNCHANGED <<seekSequence, position, told, reachedEnd>>
      BY <1>2, <2>3 DEF Play
    <3>2. QED BY <1>2, <2>1, <3>1 DEF Play
  <2>4. QED BY <2>2, <2>3
<1>3. ASSUME NEW p \in Targets, SeekTo(p) PROVE MixedInv'
  <2>1. /\ UNCHANGED <<pipeline, rpc, rblock, rdetached, active>>
        /\ generation' = generation /\ seekSequence' = seekSequence + 1
    BY <1>3 DEF SeekTo
  <2>2. ~Served' /\ \A b \in InPlay' : ~Latest(b)'
    BY <2>1, NewRequestInPlay
  <2>3. QED BY <2>1, <2>2 DEF InPlay, Mixed
<1>4. ASSUME NEW d \in Devices, SelectOutputDevice(d) PROVE MixedInv'
  <2>1. /\ UNCHANGED <<pipeline, rpc, rblock, rdetached, active>>
        /\ generation' = generation /\ seekSequence' = seekSequence + 1
    BY <1>4 DEF SelectOutputDevice
  <2>2. ~Served' /\ \A b \in InPlay' : ~Latest(b)'
    BY <2>1, NewRequestInPlay
  <2>3. QED BY <2>1, <2>2 DEF InPlay, Mixed
<1>5. ASSUME NEW l \in Layouts, RenderEnter(l) PROVE MixedInv'
  <2>1. rpc' # "mix"
    BY <1>5 DEF RenderEnter
  <2>2. QED BY <2>1
<1>6. CASE RenderPop
  <2>1. SUFFICES ASSUME ~shuttingDown, rpc' = "mix"
                 PROVE  /\ Reached(rblock.position - 1)' /\ ~reachedEnd'
                        /\ Served' /\ Feeding' => ~rblock'.last /\ rblock'.position <= Decoded'
                        /\ \A b \in Queued' : b.position > rblock'.position /\ ~rblock'.last
    BY <1>6 DEF RenderPop
  <2> DEFINE q == pipeline.queue
  <2>2. HeldQueue # <<>> /\ rblock' = Head(HeldQueue) /\ Latest(rblock') /\ rpc = "pop"
    BY <1>6, <2>1 DEF RenderPop
  <2>3. HeldQueue \in Seq(DecodedBlock)
    BY <2>2 DEF SoundTypes, HeldQueue, DecodedPipeline
  <2>4. rblock' \in BlocksOf(HeldQueue)
    BY <2>2, <2>3, PoppedBlocks
  <2>5. rdetached = <<>>
    BY <2>1, <2>2, <2>4 DEF DetachedInv, Held
  <2>6. /\ HeldQueue = q /\ q \in Seq(DecodedBlock) /\ q # <<>>
        /\ pipeline \in DecodedPipeline /\ pipeline # None
    BY <2>2, <2>3, <2>5, NoneIsNothing DEF HeldQueue, SoundTypes
  <2>7. rblock' \in Queued /\ rblock' \in DecodedBlock
    BY <2>4, <2>6, BlocksTyped
  <2>8. (told => rblock'.position > position) /\ ~reachedEnd
    BY <2>2, <2>7 DEF AheadInv
  <2>9. UNCHANGED <<position, told, reachedEnd, active, generation, seekSequence, endOfStream, dpc,
                    decoderPosition>>
    BY <1>6 DEF RenderPop
  <2>10. Reached(rblock.position - 1)' /\ ~reachedEnd'
    BY <2>7, <2>8, <2>9 DEF AppTypes, DecodedBlock, Block
  <2>11. Feeding => ~rblock'.last /\ rblock'.position <= Decoded
    BY <2>4, <2>6, BlocksBehind DEF QueueInv
  <2>12. Served' /\ Feeding' => ~rblock'.last /\ rblock'.position <= Decoded'
    BY <2>9, <2>11
  <2>13. Queued' = BlocksOf(Tail(q))
    BY <1>6, <2>5, <2>6, ShorterPipeline DEF RenderPop
  <2>14. \A b \in Queued' : b.position > rblock'.position /\ ~rblock'.last
    BY <2>2, <2>6, <2>13, PoppedBlocks DEF QueueInv
  <2>15. QED BY <2>10, <2>12, <2>14
<1>7. ASSUME NEW locked \in BOOLEAN, RenderFinish(locked) PROVE MixedInv'
  BY <1>7, Report
<1>8. CASE DecodeWake
  BY <1>8 DEF DecodeWake
<1>9. CASE DecodeLeave
  BY <1>9 DEF DecodeLeave
<1>10. CASE DecodeCheck
  BY <1>10 DEF DecodeCheck
<1>11. CASE DecodeOpen
  BY <1>11 DEF DecodeOpen
<1>12. CASE DecodeSeek
  BY <1>12 DEF DecodeSeek
<1>13. CASE DecodeRead
  <2>1. UNCHANGED <<position, told, reachedEnd, generation, seekSequence, active, endOfStream,
                    shuttingDown, rpc, rblock, pipeline>>
    BY <1>13 DEF DecodeRead
  <2>2. Decoded' = Decoded
    BY <1>13 DEF DecodeRead, WorkerTypes
  <2>3. QED BY <1>13, <2>1, <2>2 DEF DecodeRead
<1>14. CASE DecodeFailed
  <2>1. /\ UNCHANGED <<position, told, generation, seekSequence, decoderPosition, shuttingDown,
                       rpc, rblock, pipeline>>
        /\ reachedEnd' => reachedEnd
        /\ dpc # "push" /\ dpc' # "push"
        /\ dpc \notin {"publishOpened", "publishSought", "ending", "finished"}
    BY <1>14 DEF DecodeFailed, SourceError
  <2>2. CASE active' = active
    <3>1. endOfStream => endOfStream'
      BY <1>14 DEF DecodeFailed
    <3>2. QED BY <2>1, <2>2, <3>1
  <2>3. CASE active' # active
    <3>1. active'.generation = 0 \/ endOfStream'
      BY <1>14, <2>3, NoGeneration DEF WorkerTypes, DecodeFailed
    <3>2. QED BY <2>1, <3>1
  <2>4. QED BY <2>2, <2>3
<1>15. CASE DecodePublishOpened
  <2>1. UNCHANGED <<position, told, reachedEnd, generation, seekSequence, rpc, rblock, shuttingDown>>
    BY <1>15 DEF DecodePublishOpened
  <2>2. CASE CommandIsCurrent
    <3>1. ~shuttingDown => ~Served
      BY <1>15, StaysServed DEF DecodePublishOpened
    <3>2. ~shuttingDown /\ rpc = "mix" => ~Latest(rblock)
      BY <3>1 DEF LatestInv, InPlay, Mixed
    <3>3. QED BY <2>1, <3>2
  <2>3. CASE ~CommandIsCurrent
    <3>1. active'.generation = 0 /\ pipeline' = pipeline
      BY <1>15, <2>3, NoGeneration DEF WorkerTypes, DecodePublishOpened
    <3>2. QED BY <2>1, <3>1
  <2>4. QED BY <2>2, <2>3
<1>16. CASE DecodeReady
  BY <1>16 DEF DecodeReady, CommandIsCurrent
<1>17. CASE DecodePublishSought
  <2>1. UNCHANGED <<position, told, reachedEnd, generation, seekSequence, rpc, rblock, shuttingDown>>
    BY <1>17 DEF DecodePublishSought
  <2>2. CASE CommandIsCurrent
    <3>1. ~shuttingDown => ~Served
      BY <1>17, StaysServed DEF DecodePublishSought
    <3>2. ~shuttingDown /\ rpc = "mix" => ~Latest(rblock)
      BY <3>1 DEF LatestInv, InPlay, Mixed
    <3>3. QED BY <2>1, <3>2
  <2>3. CASE ~CommandIsCurrent
    <3>1. active'.generation = 0 /\ pipeline' = pipeline
      BY <1>17, <2>3, NoGeneration DEF WorkerTypes, DecodePublishSought
    <3>2. QED BY <2>1, <3>1
  <2>4. QED BY <2>2, <2>3
<1>18. CASE DecodeSought
  BY <1>18 DEF DecodeSought
<1>19. CASE DecodePush
  <2>1. SUFFICES ASSUME ~shuttingDown, rpc = "mix", Latest(rblock)
                 PROVE  MixedInv'
    BY <1>19 DEF DecodePush, CommandIsCurrent
  <2>2. /\ UNCHANGED <<position, told, reachedEnd, generation, seekSequence, decoderPosition,
                       shuttingDown, rpc, rblock>>
        /\ dpc = "push" /\ dpc' = "wait"
    BY <1>19 DEF DecodePush
  <2>3. Reached(rblock.position - 1) /\ ~reachedEnd
    BY <2>1
  <2>4. CASE CommandIsCurrent
    <3>1. Served /\ Feeding
      BY <2>2, <2>4
      DEF CommandIsCurrent, ServedInv, WorkerTypes, WorkerCommand, Busy, CommandPlaces
    <3>2. ~rblock.last /\ rblock.position <= Decoded
      BY <2>1, <3>1
    <3>3. /\ rblock.position < dblock.position /\ dblock.position = decoderPosition
          /\ rblock.position <= decoderPosition
      BY <2>1, <2>2, <3>2 DEF FeedInv, WorkerTypes, SoundTypes, DecodedBlock, Block
    <3>4. Queued' = Queued \cup {dblock}
      BY <1>19, <2>4, PushSets
    <3>5. \A b \in Queued' : Latest(b) => b.position > rblock.position /\ ~rblock.last
      BY <2>1, <3>2, <3>3, <3>4
    <3>6. QED BY <2>2, <2>3, <3>2, <3>3, <3>5
  <2>5. CASE ~CommandIsCurrent
    <3>1. active'.generation = 0
      BY <1>19, <2>5, NoGeneration DEF WorkerTypes, DecodePush
    <3>2. Queued' = Queued
      BY <1>19, <2>5, PushSets
    <3>3. QED BY <2>1, <2>2, <2>3, <3>1, <3>2
  <2>6. QED BY <2>4, <2>5
<1>20. CASE DecodeThrow
  BY <1>20 DEF DecodeThrow
<1>21. CASE DecodeFinish
  BY <1>21 DEF DecodeFinish
<1>22. CASE CloseBegin
  BY <1>22 DEF CloseBegin, CommandMutexFree
<1>23. CASE CloseUnpublish
  <2>1. shuttingDown'
    BY <1>23 DEF CloseUnpublish, ShutdownInv
  <2>2. QED BY <2>1
<1>24. CASE Elsewhere
  BY <1>24 DEF Elsewhere
<1>25. QED
  BY <1>1, <1>2, <1>3, <1>4, <1>5, <1>6, <1>7, <1>8, <1>9, <1>10, <1>11, <1>12, <1>13,
     <1>14, <1>15, <1>16, <1>17, <1>18, <1>19, <1>20, <1>21, <1>22, <1>23, <1>24,
     StepCases
  DEF Worker

\* What is queued for the latest request stays ahead of the report.
LEMMA AheadInvStep ==
  ASSUME AppTypes, SoundTypes, WorkerTypes, CommandInv, ServedInv, FeedInv, QueueInv,
         PastInv, RequestInv, ShutdownInv, OrderInv, [Next]_vars
  PROVE  AheadInv'
<1> USE SessionAssumption, NoneAssumption
<1> USE DEF OrderInv, AheadInv, Latest, Queued, Served, AwaitWork, DropCommand,
           CancelDecoder
<1> USE DEF request, report, progress, callback, source, worker, endpoint, recovery, lifecycle,
           application, sound, control
<1>1. CASE Load
  <2>1. /\ UNCHANGED <<pipeline, rpc, rblock, rdetached, active>>
        /\ generation' = generation + 1
    BY <1>1 DEF Load
  <2>2. ~Served' /\ \A b \in InPlay' : ~Latest(b)'
    BY <2>1, NewRequestInPlay
  <2>3. QED BY <2>2 DEF InPlay
<1>2. CASE Play
  <2>1. UNCHANGED <<pipeline, rpc, rblock, rdetached, active, generation, shuttingDown>>
    BY <1>2 DEF Play
  <2>2. CASE seekSequence' = seekSequence + 1
    <3>1. ~Served' /\ \A b \in InPlay' : ~Latest(b)'
      BY <2>1, <2>2, NewRequestInPlay
    <3>2. QED BY <3>1 DEF InPlay
  <2>3. CASE seekSequence' # seekSequence + 1
    <3>1. UNCHANGED <<seekSequence, position, told, reachedEnd>>
      BY <1>2, <2>3 DEF Play
    <3>2. QED BY <2>1, <3>1
  <2>4. QED BY <2>2, <2>3
<1>3. ASSUME NEW p \in Targets, SeekTo(p) PROVE AheadInv'
  <2>1. /\ UNCHANGED <<pipeline, rpc, rblock, rdetached, active>>
        /\ generation' = generation /\ seekSequence' = seekSequence + 1
    BY <1>3 DEF SeekTo
  <2>2. ~Served' /\ \A b \in InPlay' : ~Latest(b)'
    BY <2>1, NewRequestInPlay
  <2>3. QED BY <2>2 DEF InPlay
<1>4. ASSUME NEW d \in Devices, SelectOutputDevice(d) PROVE AheadInv'
  <2>1. /\ UNCHANGED <<pipeline, rpc, rblock, rdetached, active>>
        /\ generation' = generation /\ seekSequence' = seekSequence + 1
    BY <1>4 DEF SelectOutputDevice
  <2>2. ~Served' /\ \A b \in InPlay' : ~Latest(b)'
    BY <2>1, NewRequestInPlay
  <2>3. QED BY <2>2 DEF InPlay
<1>5. ASSUME NEW l \in Layouts, RenderEnter(l) PROVE AheadInv'
  BY <1>5 DEF RenderEnter
<1>6. CASE RenderPop
  <2>1. UNCHANGED <<position, told, reachedEnd, generation, seekSequence>>
    BY <1>6 DEF RenderPop
  <2>2. QED BY <1>6, <2>1, PopSets DEF AheadInv
<1>7. ASSUME NEW locked \in BOOLEAN, RenderFinish(locked) PROVE AheadInv'
  <2>1. UNCHANGED <<generation, seekSequence, pipeline>> /\ rpc = "mix"
    BY <1>7, Report
  <2>2. CASE UNCHANGED <<position, told, reachedEnd>>
    BY <2>1, <2>2
  <2>3. CASE ~(UNCHANGED <<position, told, reachedEnd>>)
    <3>1. /\ ~shuttingDown /\ Latest(rblock)
          /\ ~rblock.last => position' = rblock.position /\ reachedEnd' = FALSE
      BY <1>7, <2>3, Report
    <3>2. \A b \in Queued : Latest(b) => b.position > rblock.position /\ ~rblock.last
      BY <2>1, <3>1 DEF MixedInv
    <3>3. QED BY <2>1, <3>1, <3>2
  <2>4. QED BY <2>2, <2>3
<1>8. CASE DecodeWake
  BY <1>8 DEF DecodeWake
<1>9. CASE DecodeLeave
  BY <1>9 DEF DecodeLeave
<1>10. CASE DecodeCheck
  BY <1>10 DEF DecodeCheck
<1>11. CASE DecodeOpen
  BY <1>11 DEF DecodeOpen
<1>12. CASE DecodeSeek
  BY <1>12 DEF DecodeSeek
<1>13. CASE DecodeRead
  BY <1>13 DEF DecodeRead
<1>14. CASE DecodeFailed
  BY <1>14 DEF DecodeFailed, SourceError
<1>15. CASE DecodePublishOpened
  <2>1. UNCHANGED <<position, told, reachedEnd, generation, seekSequence, rpc, rblock>>
    BY <1>15 DEF DecodePublishOpened
  <2>2. Queued' \subseteq Queued
    <3>1. CASE CommandIsCurrent
      BY <1>15, <2>1, <3>1, PublishSets DEF DecodePublishOpened
    <3>2. CASE ~CommandIsCurrent
      BY <1>15, <3>2 DEF DecodePublishOpened
    <3>3. QED BY <3>1, <3>2
  <2>3. QED BY <2>1, <2>2 DEF AheadInv
<1>16. CASE DecodeReady
  BY <1>16 DEF DecodeReady, CommandIsCurrent
<1>17. CASE DecodePublishSought
  <2>1. UNCHANGED <<position, told, reachedEnd, generation, seekSequence, rpc, rblock>>
    BY <1>17 DEF DecodePublishSought
  <2>2. Queued' \subseteq Queued
    <3>1. CASE CommandIsCurrent
      BY <1>17, <2>1, <3>1, PublishSets DEF DecodePublishSought
    <3>2. CASE ~CommandIsCurrent
      BY <1>17, <3>2 DEF DecodePublishSought
    <3>3. QED BY <3>1, <3>2
  <2>3. QED BY <2>1, <2>2 DEF AheadInv
<1>18. CASE DecodeSought
  BY <1>18 DEF DecodeSought
<1>19. CASE DecodePush
  <2>1. UNCHANGED <<position, told, reachedEnd, generation, seekSequence>> /\ dpc = "push"
    BY <1>19 DEF DecodePush
  <2>2. CASE CommandIsCurrent
    <3>1. Served /\ Feeding /\ ~shuttingDown
      BY <2>1, <2>2
      DEF CommandIsCurrent, ServedInv, WorkerTypes, WorkerCommand, Busy, CommandPlaces, Feeding
    <3>2. ~reachedEnd /\ (told => position <= decoderPosition - 1)
      BY <2>1, <3>1 DEF FeedOrder, Reached, Decoded
    <3>3. told => dblock.position > position
      BY <2>1, <3>2 DEF FeedInv, WorkerTypes, AppTypes
    <3>4. Queued' = Queued \cup {dblock}
      BY <1>19, <2>2, PushSets
    <3>5. QED BY <2>1, <3>2, <3>3, <3>4 DEF AheadInv
  <2>3. CASE ~CommandIsCurrent
    BY <1>19, <2>1, <2>3, PushSets DEF AheadInv
  <2>4. QED BY <2>2, <2>3
<1>20. CASE DecodeThrow
  BY <1>20 DEF DecodeThrow
<1>21. CASE DecodeFinish
  BY <1>21 DEF DecodeFinish
<1>22. CASE CloseBegin
  BY <1>22 DEF CloseBegin, CommandMutexFree
<1>23. CASE CloseUnpublish
  BY <1>23 DEF CloseUnpublish, StreamMutexFree, RecoveryJoined
<1>24. CASE Elsewhere
  <2>1. UNCHANGED <<position, told, generation, seekSequence, pipeline>>
    BY <1>24 DEF Elsewhere
  <2>2. \A b \in Queued' : b \in Queued /\ Latest(b)' = Latest(b)
    BY <2>1
  <2>3. CASE reachedEnd' = FALSE
    BY <2>1, <2>2, <2>3
  <2>4. CASE UNCHANGED reachedEnd
    BY <2>1, <2>2, <2>4
  <2>5. QED BY <1>24, <2>3, <2>4 DEF Elsewhere
<1>25. QED
  BY <1>1, <1>2, <1>3, <1>4, <1>5, <1>6, <1>7, <1>8, <1>9, <1>10, <1>11, <1>12, <1>13,
     <1>14, <1>15, <1>16, <1>17, <1>18, <1>19, <1>20, <1>21, <1>22, <1>23, <1>24,
     StepCases
  DEF Worker

-----------------------------------------------------------------------------
(* What holds while the layout does not change.                            *)

PlayingInv == PlaybackInv /\ PastInv /\ RequestInv /\ LayoutInv /\ OrderInv

\* The playing invariant holds initially.
LEMMA PlayingInit == Init => PlayingInv
<1> SUFFICES ASSUME Init PROVE PlayingInv
  OBVIOUS
<1> USE DEF Init
<1>1. PlaybackInv
  BY PlaybackInit
<1>2. InPlay = {}
  BY DEF InPlay, Queued, Held, Mixed
<1>3. PastInv
  BY <1>2 DEF PastInv
<1>4. RequestInv /\ LayoutInv
  BY DEF RequestInv, LayoutInv, Served, Busy, CommandPlaces
<1>5. UntoldInv /\ LatestInv /\ DetachedInv /\ FeedOrder
  BY DEF UntoldInv, LatestInv, DetachedInv, FeedOrder, Feeding, Served
<1>6. MixedInv /\ AheadInv
  BY <1>2 DEF MixedInv, AheadInv, InPlay
<1>7. QED BY <1>1, <1>3, <1>4, <1>5, <1>6 DEF PlayingInv, OrderInv

\* Every step that keeps the layout preserves it.
LEMMA PlayingStep ==
  ASSUME PlayingInv, [Next]_vars, [layout = None]_layout
  PROVE  PlayingInv'
<1> USE DEF PlayingInv
<1>1. PlaybackInv'
  BY PlaybackStep
<1>2. ControlInv /\ AppTypes /\ SoundTypes /\ WorkerTypes /\ CommandInv /\ ServedInv /\ FeedInv
        /\ QueueInv /\ ShutdownInv
  BY DEF PlaybackInv, ControlInv
<1>3. PastInv' /\ RequestInv' /\ LayoutInv'
  BY <1>2, PastInvStep, RequestInvStep, LayoutInvStep
<1>4. UntoldInv' /\ LatestInv' /\ DetachedInv'
  BY <1>2, UntoldInvStep, LatestInvStep, DetachedInvStep
<1>5. FeedOrder' /\ MixedInv' /\ AheadInv'
  BY <1>2, FeedOrderStep, MixedInvStep, AheadInvStep
<1>6. QED BY <1>1, <1>3, <1>4, <1>5 DEF OrderInv

\* It holds in every state of a behaviour in which the layout does not change.
LEMMA PlayingInvariance == Spec /\ OneLayout => []PlayingInv
<1>1. PlayingInv /\ [Next]_vars /\ [layout = None]_layout => PlayingInv'
  BY PlayingStep
<1>2. QED BY PlayingInit, <1>1, PTL DEF Spec, OneLayout

\* Where the device has one layout, the layout does not change: the hypothesis
\* holds in every behaviour of the runs with a single layout.
LEMMA SingleLayout ==
  ASSUME \A l, m \in Layouts : l = m
  PROVE  Spec => OneLayout
<1>1. AppTypes /\ [Next]_vars => [layout = None]_layout
  <2> SUFFICES ASSUME AppTypes, [Next]_vars
               PROVE  layout = None \/ UNCHANGED layout
    OBVIOUS
  <2> USE DEF request, report, progress, callback, source, worker, endpoint, recovery, lifecycle,
             application, sound, control
  <2>1. ASSUME NEW l \in Layouts, RenderEnter(l) PROVE layout = None \/ UNCHANGED layout
    BY <2>1 DEF RenderEnter, AppTypes
  <2>2. CASE Load \/ Play \/ CloseBegin
    BY <2>2 DEF Load, Play, CloseBegin
  <2>3. CASE \/ \E p \in Targets : SeekTo(p)
             \/ \E d \in Devices : SelectOutputDevice(d)
    BY <2>3 DEF SeekTo, SelectOutputDevice
  <2>4. CASE RenderPop \/ \E locked \in BOOLEAN : RenderFinish(locked)
    BY <2>4 DEF RenderPop, RenderFinish
  <2>5. CASE Worker
    <3>1. CASE DecodeWake \/ DecodeLeave \/ DecodeCheck \/ DecodeOpen \/ DecodeSeek \/ DecodeRead
      BY <3>1 DEF DecodeWake, DecodeLeave, DecodeCheck, DecodeOpen, DecodeSeek, DecodeRead
    <3>2. CASE DecodeFailed \/ DecodeReady \/ DecodeSought \/ DecodePush
      BY <3>2 DEF DecodeFailed, DecodeReady, DecodeSought, DecodePush
    <3>3. CASE DecodePublishOpened \/ DecodePublishSought
      BY <3>3 DEF DecodePublishOpened, DecodePublishSought
    <3>4. CASE DecodeThrow \/ DecodeFinish
      BY <3>4 DEF DecodeThrow, DecodeFinish
    <3>5. QED BY <2>5, <3>1, <3>2, <3>3, <3>4 DEF Worker
  <2>6. CASE CloseUnpublish \/ Elsewhere
    BY <2>6 DEF CloseUnpublish, Elsewhere
  <2>7. QED BY <2>1, <2>2, <2>3, <2>4, <2>5, <2>6, StepCases
<1>2. PlaybackInv => AppTypes
  BY DEF PlaybackInv
<1>3. QED BY PlaybackInvariance, <1>1, <1>2, PTL DEF Spec, OneLayout

\* While the layout does not change, what is queued for the latest command lies
\* ahead of the block last reported for it, and nothing is left after the end:
\* on_render and decode_loop play nothing twice.
THEOREM NothingTwice == Spec /\ OneLayout => []NothingPlaysTwice
<1>1. ASSUME PlayingInv PROVE NothingPlaysTwice
  <2>1. SUFFICES ASSUME pipeline # None, NEW i \in 1..Len(pipeline.queue)
                 PROVE  LET b == pipeline.queue[i]
                        IN  Latest(b) => (told => b.position > position) /\ ~reachedEnd
    BY DEF NothingPlaysTwice
  <2>2. pipeline.queue[i] \in Queued
    BY <2>1 DEF Queued, BlocksOf
  <2>3. QED BY <1>1, <2>2 DEF PlayingInv, OrderInv, AheadInv
<1>2. QED BY PlayingInvariance, <1>1, PTL

\* Where the reported position may go back: at a command, at the first block that is
\* reported for it, and at the end of the source.
MayGoBack == \/ generation' # generation \/ seekSequence' # seekSequence
             \/ ~told
             \/ reachedEnd' /\ ~reachedEnd

\* No step takes it back elsewhere.
LEMMA PositionStep ==
  ASSUME PlayingInv, [Next]_vars
  PROVE  UNCHANGED position \/ position' >= position \/ MayGoBack
<1> USE DEF MayGoBack
<1> USE DEF request, report, progress, callback, source, worker, endpoint, recovery, lifecycle,
           application, sound, control
<1> DEFINE Kept == UNCHANGED position \/ position' >= position \/ MayGoBack
<1>1. CASE Load
  <2>1. generation \in Nat /\ generation' = generation + 1
    BY <1>1 DEF PlayingInv, PlaybackInv, AppTypes, Load
  <2>2. QED BY <2>1
<1>2. CASE Play
  BY <1>2 DEF Play
<1>3. ASSUME NEW p \in Targets, SeekTo(p) PROVE Kept
  <2>1. seekSequence \in Nat /\ seekSequence' = seekSequence + 1
    BY <1>3 DEF PlayingInv, PlaybackInv, AppTypes, SeekTo
  <2>2. QED BY <2>1
<1>4. ASSUME NEW d \in Devices, SelectOutputDevice(d) PROVE Kept
  BY <1>4 DEF SelectOutputDevice, CommandMutexFree
<1>5. ASSUME NEW l \in Layouts, RenderEnter(l) PROVE Kept
  BY <1>5 DEF RenderEnter
<1>6. CASE RenderPop
  BY <1>6 DEF RenderPop
<1>7. ASSUME NEW locked \in BOOLEAN, RenderFinish(locked) PROVE Kept
  <2>1. CASE UNCHANGED <<position, told, reachedEnd>>
    BY <2>1
  <2>2. CASE ~(UNCHANGED <<position, told, reachedEnd>>)
    <3>1. /\ rblock \in DecodedBlock /\ Reached(rblock.position - 1) /\ ~reachedEnd
          /\ IF rblock.last THEN reachedEnd' = TRUE ELSE position' = rblock.position
      BY <1>7, <2>2, Report DEF PlayingInv, PlaybackInv, OrderInv
    <3>2. CASE rblock.last
      BY <3>1, <3>2
    <3>3. CASE ~rblock.last
      <4>1. position \in Nat /\ rblock.position \in Nat
        BY <3>1 DEF PlayingInv, PlaybackInv, AppTypes, DecodedBlock, Block
      <4>2. QED BY <3>1, <3>3, <4>1 DEF Reached
    <3>4. QED BY <3>2, <3>3
  <2>3. QED BY <2>1, <2>2
<1>8. CASE DecodeWake
  BY <1>8 DEF DecodeWake
<1>9. CASE DecodeLeave
  BY <1>9 DEF DecodeLeave
<1>10. CASE DecodeCheck
  BY <1>10 DEF DecodeCheck
<1>11. CASE DecodeOpen
  BY <1>11 DEF DecodeOpen
<1>12. CASE DecodeSeek
  BY <1>12 DEF DecodeSeek
<1>13. CASE DecodeRead
  BY <1>13 DEF DecodeRead
<1>14. CASE DecodeFailed
  BY <1>14 DEF DecodeFailed, SourceError
<1>15. CASE DecodePublishOpened
  BY <1>15 DEF DecodePublishOpened, PublishPipeline, CommandIsCurrent
<1>16. CASE DecodeReady
  BY <1>16 DEF DecodeReady, CommandIsCurrent
<1>17. CASE DecodePublishSought
  BY <1>17 DEF DecodePublishSought, PublishPipeline, CommandIsCurrent
<1>18. CASE DecodeSought
  BY <1>18 DEF DecodeSought
<1>19. CASE DecodePush
  BY <1>19 DEF DecodePush, CommandIsCurrent
<1>20. CASE DecodeThrow
  BY <1>20 DEF DecodeThrow
<1>21. CASE DecodeFinish
  BY <1>21 DEF DecodeFinish
<1>22. CASE CloseBegin
  BY <1>22 DEF CloseBegin, CommandMutexFree
<1>23. CASE CloseUnpublish
  BY <1>23 DEF CloseUnpublish, StreamMutexFree, RecoveryJoined
<1>24. CASE Elsewhere
  BY <1>24 DEF Elsewhere
<1>25. QED
  BY <1>1, <1>2, <1>3, <1>4, <1>5, <1>6, <1>7, <1>8, <1>9, <1>10, <1>11, <1>12, <1>13,
     <1>14, <1>15, <1>16, <1>17, <1>18, <1>19, <1>20, <1>21, <1>22, <1>23, <1>24,
     StepCases
  DEF Worker

\* While the layout does not change, and whatever the source tells of its length and
\* wherever a seek aims and lands, neither a late callback nor the worker takes the
\* reported position back: only a command, the first block reported for it, and the
\* end of the source do.
THEOREM MonotonePosition == Spec /\ OneLayout => PositionMonotone
<1>1. PlayingInv /\ [Next]_vars
        => [position' < position =>
              \/ generation' # generation \/ seekSequence' # seekSequence
              \/ ~told
              \/ reachedEnd' /\ ~reachedEnd]_vars
  <2>1. ASSUME PlayingInv, [Next]_vars, position' < position PROVE MayGoBack
    <3>1. position \in Nat /\ position' \in Nat
      BY <2>1, PlaybackStep DEF PlayingInv, PlaybackInv, AppTypes
    <3>2. ~(UNCHANGED position) /\ ~(position' >= position)
      BY <2>1, <3>1
    <3>3. QED BY <2>1, <3>2, PositionStep
  <2>2. QED BY <2>1 DEF MayGoBack
<1>2. QED BY PlayingInvariance, <1>1, PTL DEF Spec, PositionMonotone
=============================================================================
