--------------------------- MODULE DecoderContract --------------------------
(***************************************************************************)
(* What the decode worker relies on: each decoder call happens at once, it *)
(* succeeds only for the command that is current at that moment, and the   *)
(* blocks read after an open or a seek are the frames of the source in     *)
(* order, with silence only after the last one.                            *)
(***************************************************************************)
EXTENDS MediaTime

CONSTANTS Sources, BlockFrames, SeekTargets

VARIABLES
  epoch,   \* counts cancellations
  call,    \* the epoch of the command the last call belongs to
  length,  \* the frames of the open source
  next,    \* the frame the next block starts with, or Lost
  answer,  \* what the last call that returned said
  frames   \* the samples of the last block

vars == <<epoch, call, length, next, answer, frames>>

Lost == 0     \* no block may be read before another open or seek
Silence == 0

Init ==
  /\ epoch = 0 /\ call = 0 /\ length = 0 /\ next = Lost
  /\ answer = "none" /\ frames = <<>>

Cancel ==
  /\ epoch' > epoch
  /\ UNCHANGED <<call, length, next, answer, frames>>

\* A call starts.  An open or a close gives the old source up at once.
Begin ==
  /\ call' \in call..epoch
  /\ \/ UNCHANGED <<length, next>>
     \/ length' = 0 /\ next' = Lost
  /\ UNCHANGED <<epoch, answer, frames>>

Fail ==
  /\ call' \in call..epoch
  /\ answer' = "failed"
  /\ next' = Lost
  /\ length' \in {length, 0}
  /\ UNCHANGED <<epoch, frames>>

Open(n) ==
  /\ call = epoch
  /\ length' = n
  /\ next' = 1
  /\ answer' = "opened"
  /\ UNCHANGED <<epoch, call, frames>>

SeekTo(t) ==
  /\ call = epoch
  /\ next' \in Landings(t, length)
  /\ answer' = "sought"
  /\ UNCHANGED <<epoch, call, length, frames>>

\* A block.  The end may be told one block late, with a block of silence, but
\* never early, and no block is cut short without it.
Read(last) ==
  /\ call = epoch
  /\ next # Lost
  /\ last => next + BlockFrames > length
  /\ next + BlockFrames > length + 1 => last
  /\ frames' = [i \in 1..BlockFrames |->
                  IF next + i - 1 <= length THEN next + i - 1 ELSE Silence]
  /\ next' = IF last THEN Lost ELSE next + BlockFrames
  /\ answer' = IF last THEN "last block" ELSE "block"
  /\ UNCHANGED <<epoch, call, length>>

Next ==
  \/ Cancel \/ Begin \/ Fail
  \/ \E n \in Sources : Open(n)
  \/ \E ms \in SeekTargets : MsToTicks(ms) # NoTime /\ SeekTo(MsToTicks(ms))
  \/ \E last \in BOOLEAN : Read(last)

Spec == Init /\ [][Next]_vars
=============================================================================
