------------------------------ MODULE MediaTime -----------------------------
(***************************************************************************)
(* The decoder's arithmetic on 100 ns ticks, with the units and the width  *)
(* of a timestamp as parameters: signed 64-bit time becomes 0..MaxTime.    *)
(***************************************************************************)
EXTENDS Integers

CONSTANTS
  SampleRate, TicksPerSecond, TicksPerMs,
  MaxTime     \* the largest timestamp

ASSUME TimeAssumption ==
  /\ SampleRate \in Nat \ {0}
  /\ TicksPerSecond \in Nat
  /\ TicksPerMs \in Nat \ {0}
  /\ MaxTime \in Nat

NoTime == -1

MsToTicks(ms) ==
  IF ms < 0 \/ ms > MaxTime \div TicksPerMs THEN NoTime ELSE ms * TicksPerMs

\* The ticks n frames take, truncated.
Increment(n) == (n * TicksPerSecond) \div SampleRate

Advance(time, n) ==
  IF time < 0 \/ time > MaxTime - Increment(n) THEN NoTime ELSE time + Increment(n)

\* When frame k of a source starts; frames are counted from one.
StartOf(k) == Increment(k - 1)

\* Where a source of n frames may stand after it was told to go to time t: at
\* the frame that is played then, the one before it, or at the end.
Landings(t, n) ==
  LET playing == {k \in 1..n + 1 : StartOf(k) <= t}
  IN  {k \in playing : \A j \in playing : j <= k + 1}
=============================================================================
