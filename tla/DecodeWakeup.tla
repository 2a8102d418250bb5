---------------------------- MODULE DecodeWakeup ----------------------------
(***************************************************************************)
(* The ring as a session uses it while it plays: the decode worker sleeps  *)
(* on decode_condition_ when the ring is full, and the render callback     *)
(* notifies it after every pop, without the session mutex.  The callback   *)
(* only tries the mutex when it begins and has released it when it pops,   *)
(* so one pop may fall between the worker's test of full() and its sleep;  *)
(* a second one would need the mutex, which the worker holds.              *)
(***************************************************************************)
EXTENDS DecodedAudioQueue

\* With a single block the lost wake-up would be the last one.
ASSUME RoomAssumption == Capacity >= 2

VARIABLES
  wait,   \* the worker at decode_condition_: awake, testing (with the mutex), asleep
  render  \* the callback: outside, entered (past the mutex), about to notify

svars == <<vars, wait, render>>

SessionInit == Init /\ wait = "awake" /\ render = "outside"

\* mutex_, held by the worker while it pushes and from its test to its sleep.
MutexHeld == wait = "testing" \/ ppc \in {"copy", "store"}

-----------------------------------------------------------------------------
(* The decode worker.                                                      *)

\* One step of reading and pushing a block.
Work ==
  /\ wait = "awake"
  /\ SeeRoom \/ (\E b \in Blocks : PushBegin(b)) \/ PushCopy \/ PushStore
  /\ UNCHANGED <<wait, render>>

\* The predicate of the wait finds the ring full.
SeeNoRoom ==
  /\ wait = "awake" /\ ppc = "idle"
  /\ Full
  /\ wait' = "testing"
  /\ UNCHANGED <<vars, render>>

\* The wait releases the mutex and sleeps, in one step.
FallAsleep ==
  /\ wait = "testing"
  /\ wait' = "asleep"
  /\ UNCHANGED <<vars, render>>

\* A command notifies the worker, or it wakes for no reason.
WakeUp ==
  /\ wait = "asleep"
  /\ wait' = "awake"
  /\ UNCHANGED <<vars, render>>

-----------------------------------------------------------------------------
(* The render callback.                                                    *)

\* Variant: the callback does not try the mutex.
RenderEnterUnlocked ==
  /\ render = "outside"
  /\ render' = "entered"
  /\ UNCHANGED <<vars, wait>>

\* The callback got the mutex, copied the session's state and released it.
\* One that finds it held returns without a pop.
RenderEnter ==
  /\ render = "outside"
  /\ ~MutexHeld
  /\ render' = "entered"
  /\ UNCHANGED <<vars, wait>>

RenderCopy ==
  /\ render = "entered"
  /\ PopBegin \/ PopCopy
  /\ UNCHANGED <<wait, render>>

\* try_pop fails: the callback returns with silence.
RenderNothing ==
  /\ render = "entered" /\ cpc = "idle"
  /\ read = write
  /\ render' = "outside"
  /\ UNCHANGED <<vars, wait>>

RenderTake ==
  /\ PopStore
  /\ render' = "notify"
  /\ UNCHANGED wait

\* Variant: only a pop from a full ring notifies.
NotifyFromFull ==
  /\ render = "notify"
  /\ render' = "outside"
  /\ wait' = IF wait = "asleep" /\ Increment(Increment(write)) = read
             THEN "awake" ELSE wait
  /\ UNCHANGED vars

\* notify_one reaches the worker only if it sleeps by now.
Notify ==
  /\ render = "notify"
  /\ render' = "outside"
  /\ wait' = IF wait = "asleep" THEN "awake" ELSE wait
  /\ UNCHANGED vars

Render == RenderEnter \/ RenderCopy \/ RenderNothing \/ RenderTake \/ Notify

-----------------------------------------------------------------------------
SessionNext == Work \/ SeeNoRoom \/ FallAsleep \/ WakeUp \/ Render

\* A playing stream calls back again and again.
SessionSpec == SessionInit /\ [][SessionNext]_svars /\ WF_svars(Render)

\* decode_condition_ loses no wake-up that matters: a sleeping worker has a
\* block left whose pop will notify it, or the notification is on its way.
SleeperIsCalled == wait = "asleep" => read # write \/ render = "notify"

\* Playback does not starve: a worker that sleeps over a full ring is woken by
\* the pops alone, though notify_one at playback_session.cpp:1027 is called
\* without the mutex and may come before the sleep.
SleeperWakes == wait = "asleep" ~> wait = "awake"
=============================================================================
