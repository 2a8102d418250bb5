------------------------- MODULE DecodeWakeupProofs -------------------------
(***************************************************************************)
(* Proofs about the sleep and the wake-up of the decode worker, for every  *)
(* ring of two blocks or more.  The session only restricts the ring, so    *)
(* what is proved of the ring holds here, and the argument about the sleep *)
(* starts from the ring's own invariant.                                   *)
(***************************************************************************)
EXTENDS DecodeWakeup, DecodedAudioQueueProofs

\* One block has been popped from a full ring.
OneFree == Increment(Increment(write)) = read

\* What the worker knows between its test and its sleep: at most one pop has
\* happened since, and if one has, the callback cannot begin another.
SleepInv ==
  /\ wait \in {"awake", "testing", "asleep"}
  /\ cpc # "idle" => render = "entered"
  /\ wait # "awake" => ppc = "idle"
  /\ wait = "testing" => Full \/ (OneFree /\ render # "entered")
  /\ SleeperIsCalled

-----------------------------------------------------------------------------
\* Every step of the session is a step of the ring or leaves it alone.
LEMMA SessionStep == [SessionNext]_svars => [Next]_vars
<1> SUFFICES ASSUME [SessionNext]_svars PROVE [Next]_vars
  OBVIOUS
<1>1. CASE Work BY <1>1 DEF Work, Next
<1>2. CASE SeeNoRoom \/ FallAsleep \/ WakeUp
  BY <1>2 DEF SeeNoRoom, FallAsleep, WakeUp
<1>3. CASE RenderCopy BY <1>3 DEF RenderCopy, Next
<1>4. CASE RenderTake BY <1>4 DEF RenderTake, Next
<1>5. CASE RenderEnter \/ RenderNothing \/ Notify
  BY <1>5 DEF RenderEnter, RenderNothing, Notify
<1>6. CASE UNCHANGED svars BY <1>6 DEF svars
<1>7. QED BY <1>1, <1>2, <1>3, <1>4, <1>5, <1>6 DEF SessionNext, Render

\* The session uses the ring as its contract asks: one producer, which pushes
\* after it has seen room, and one consumer.  So the ring's theorems hold in it.
THEOREM SessionUsesRing == SessionSpec => Spec
<1>1. SessionInit => Init BY DEF SessionInit
<1>2. QED BY <1>1, SessionStep, PTL DEF SessionSpec, Spec

\* Two steps round a ring of three slots or more do not come back.
LEMMA OneFreeIsNotEmpty == IInv /\ (Full \/ OneFree) => read # write
<1> SUFFICES ASSUME IInv, Full \/ OneFree PROVE read # write
  OBVIOUS
<1>1. write \in Indices
  BY DEF IInv, TypeOK
<1>2. Increment(write) \in Indices
  BY <1>1, IncrementValue, CapacityAssumption DEF Indices
<1>3. QED
  BY <1>1, <1>2, IncrementValue, CapacityAssumption, RoomAssumption
     DEF Indices, Full, OneFree

-----------------------------------------------------------------------------
\* The strengthened invariant holds initially.
LEMMA InitSleepInv == SessionInit => SleepInv
  BY DEF SessionInit, Init, SleepInv, SleeperIsCalled

\* Every step of the session preserves the strengthened invariant.
LEMMA NextSleepInv == IInv /\ SleepInv /\ [SessionNext]_svars => SleepInv'
<1> SUFFICES ASSUME IInv, SleepInv, [SessionNext]_svars PROVE SleepInv'
  OBVIOUS
<1> USE DEF SleepInv, SleeperIsCalled, producer, consumer, vars
<1>1. CASE Work
  <2>1. wait = "awake" /\ wait' = "awake" /\ render' = render
    BY <1>1 DEF Work
  <2>2. cpc' = cpc
    BY <1>1 DEF Work, SeeRoom, PushBegin, PushCopy, PushStore
  <2>3. QED BY <2>1, <2>2
<1>2. CASE SeeNoRoom BY <1>2 DEF SeeNoRoom, Full
<1>3. CASE FallAsleep
  <2>1. read # write BY <1>3, OneFreeIsNotEmpty DEF FallAsleep
  <2>2. QED BY <1>3, <2>1 DEF FallAsleep
<1>4. CASE WakeUp BY <1>4 DEF WakeUp
<1>5. CASE RenderEnter BY <1>5 DEF RenderEnter, MutexHeld
<1>6. CASE RenderCopy
  BY <1>6 DEF RenderCopy, PopBegin, PopCopy, Full, OneFree
<1>7. CASE RenderNothing
  BY <1>7, OneFreeIsNotEmpty DEF RenderNothing
<1>8. CASE RenderTake
  <2>1. render = "entered" /\ render' = "notify" /\ wait' = wait
    BY <1>8 DEF RenderTake, PopStore
  <2>2. cpc' = "idle" /\ ppc' = ppc /\ write' = write /\ read' = Increment(read)
    BY <1>8 DEF RenderTake, PopStore
  <2>3. wait = "testing" => OneFree'
    BY <2>1, <2>2 DEF Full, OneFree
  <2>4. QED BY <2>1, <2>2, <2>3
<1>9. CASE Notify BY <1>9 DEF Notify, Full, OneFree
<1>10. CASE UNCHANGED svars BY <1>10 DEF svars, Full, OneFree
<1>11. QED
  BY <1>1, <1>2, <1>3, <1>4, <1>5, <1>6, <1>7, <1>8, <1>9, <1>10
     DEF SessionNext, Render

\* A sleeping worker always has a block left whose pop will notify it, or the
\* notification is on its way: the one that is lost is never the last.
THEOREM NeverForgotten == SessionSpec => []SleeperIsCalled
<1>1. SessionSpec => []IInv
  BY SessionUsesRing, Invariance
<1>2. SleepInv => SleeperIsCalled
  BY DEF SleepInv
<1>3. QED BY <1>1, <1>2, InitSleepInv, NextSleepInv, PTL DEF SessionSpec
=============================================================================
