--------------------------- MODULE PipelineHazard ---------------------------
(***************************************************************************)
(* How the decode worker of a playback session hands decoded pipelines to  *)
(* the real-time render callback without a lock around the payload: a      *)
(* fixed array of pipeline slots, one published slot pointer, and a single *)
(* hazard pointer naming the slot the callback is working in.              *)
(*                                                                         *)
(* Three threads take part: the render callback, the decode worker, and a  *)
(* thread in close(), which on a decoder timeout goes on beside a decode   *)
(* worker that is still running.  The session mutex is held across several *)
(* steps only by the render callback (it acquires the slot under it);      *)
(* every other critical section is one step.                               *)
(***************************************************************************)
EXTENDS Naturals

CONSTANT SlotCount  \* size of pipeline_slots_, 3 in the session

ASSUME SlotCountAssumption == SlotCount \in Nat /\ SlotCount >= 3

Slots == 1..SlotCount
NoSlot == 0         \* the null pointer

VARIABLES
  published,     \* decoded_pipeline_
  hazard,        \* render_hazard_
  mutexHeld,     \* is mutex_ held by the render callback
  shuttingDown,  \* shutting_down_
  rpc, rslot,    \* render callback: where it is, its local pipeline pointer
  dpc, dseen,    \* decode worker: where it is, the published slot it read
  dslot,         \* decode worker: the slot it is rebuilding
  cpc            \* close(): where it is

render == <<rpc, rslot>>
decode == <<dpc, dseen, dslot>>
vars == <<published, hazard, mutexHeld, shuttingDown, render, decode, cpc>>

Init ==
  /\ published = NoSlot
  /\ hazard = NoSlot
  /\ mutexHeld = FALSE
  /\ shuttingDown = FALSE
  /\ rpc = "idle" /\ rslot = NoSlot
  /\ dpc = "idle" /\ dseen = NoSlot /\ dslot = NoSlot
  /\ cpc = "open"

-----------------------------------------------------------------------------
(* The render callback.                                                    *)

\* on_render gets the mutex with try_lock and is not shutting down.
RenderEnter ==
  /\ rpc = "idle"
  /\ ~mutexHeld
  /\ ~shuttingDown
  /\ mutexHeld' = TRUE
  /\ rpc' = "load"
  /\ UNCHANGED <<published, hazard, shuttingDown, rslot, decode, cpc>>

RenderLoad ==
  /\ rpc = "load"
  /\ rslot' = published
  /\ rpc' = "announce"
  /\ UNCHANGED <<published, hazard, mutexHeld, shuttingDown, decode, cpc>>

RenderAnnounce ==
  /\ rpc = "announce"
  /\ hazard' = rslot
  /\ rpc' = "validate"
  /\ UNCHANGED <<published, mutexHeld, shuttingDown, rslot, decode, cpc>>

\* The second load: keep the slot and unlock, or drop the hazard and retry.
RenderValidate ==
  /\ rpc = "validate"
  /\ IF published = rslot
       THEN rpc' = "inside" /\ mutexHeld' = FALSE /\ UNCHANGED hazard
       ELSE rpc' = "load" /\ hazard' = NoSlot /\ UNCHANGED mutexHeld
  /\ UNCHANGED <<published, shuttingDown, rslot, decode, cpc>>

\* Variant: the hazard outlives the callback.
RenderLeaveAnnounced ==
  /\ rpc = "inside"
  /\ rpc' = "idle"
  /\ rslot' = NoSlot
  /\ UNCHANGED <<published, hazard, mutexHeld, shuttingDown, decode, cpc>>

\* The end of the callback, where render_hazard_guard clears the hazard.  From
\* "inside" to here the callback pops and plays the payload of rslot.
RenderLeave ==
  /\ rpc = "inside"
  /\ hazard' = NoSlot
  /\ rpc' = "idle"
  /\ rslot' = NoSlot
  /\ UNCHANGED <<published, mutexHeld, shuttingDown, decode, cpc>>

-----------------------------------------------------------------------------
(* The decode worker.                                                      *)

\* The command the worker prepared is still current, so it wants a slot.
DecodeCheck ==
  /\ dpc = "idle"
  /\ ~mutexHeld
  /\ ~shuttingDown
  /\ dpc' = "scan"
  /\ UNCHANGED <<published, hazard, mutexHeld, shuttingDown, render, dseen, dslot, cpc>>

\* prepare_pipeline_slot reads the published pointer ...
DecodeLoadPublished ==
  /\ dpc = "scan"
  /\ dseen' = published
  /\ dpc' = "choose"
  /\ UNCHANGED <<published, hazard, mutexHeld, shuttingDown, render, dslot, cpc>>

\* Variants: the scan forgets one of the two pointers, or ends a slot early.
FirstFreeBarHazard(s, pub, haz) ==
  s \in Slots \ {pub} /\ \A t \in Slots : t < s => t = pub

FirstFreeBarPublished(s, pub, haz) ==
  s \in Slots \ {haz} /\ \A t \in Slots : t < s => t = haz

FirstFreeEarly(s, pub, haz) ==
  /\ s \in (1..SlotCount - 1) \ {pub, haz}
  /\ \A t \in 1..SlotCount - 1 : t < s => t \in {pub, haz}

\* The first slot of the array that is neither of the two given ones.
FirstFree(s, pub, haz) ==
  /\ s \in Slots \ {pub, haz}
  /\ \A t \in Slots : t < s => t \in {pub, haz}

\* ... then the hazard pointer, takes the first slot that is neither, and
\* starts to rebuild its payload; with no such slot the worker throws.
DecodeChoose ==
  /\ dpc = "choose"
  /\ IF \E s \in Slots : FirstFree(s, dseen, hazard)
       THEN /\ \E s \in Slots : FirstFree(s, dseen, hazard) /\ dslot' = s
            /\ dpc' = "rebuild"
       ELSE dpc' = "threw" /\ UNCHANGED dslot
  /\ UNCHANGED <<published, hazard, mutexHeld, shuttingDown, render, dseen, cpc>>

DecodeRebuilt ==
  /\ dpc = "rebuild"
  /\ dpc' = "publish"
  /\ UNCHANGED <<published, hazard, mutexHeld, shuttingDown, render, dseen, dslot, cpc>>

\* Variant: the pointer is stored without the session mutex.
DecodePublishUnlocked ==
  /\ dpc = "publish"
  /\ \/ ~shuttingDown /\ published' = dslot
     \/ UNCHANGED published
  /\ dpc' = "idle"
  /\ dseen' = NoSlot
  /\ dslot' = NoSlot
  /\ UNCHANGED <<hazard, mutexHeld, shuttingDown, render, cpc>>

\* publish_decoded_pipeline_if_current: a command that was superseded, or a
\* session that is shutting down, gets nothing.
DecodePublish ==
  /\ dpc = "publish"
  /\ ~mutexHeld
  /\ \/ ~shuttingDown /\ published' = dslot
     \/ UNCHANGED published
  /\ dpc' = "idle"
  /\ dseen' = NoSlot
  /\ dslot' = NoSlot
  /\ UNCHANGED <<hazard, mutexHeld, shuttingDown, render, cpc>>

\* The worker leaves its loop once it sees the shutdown.
DecodeExit ==
  /\ dpc = "idle"
  /\ ~mutexHeld
  /\ shuttingDown
  /\ dpc' = "finished"
  /\ UNCHANGED <<published, hazard, mutexHeld, shuttingDown, render, dseen, dslot, cpc>>

-----------------------------------------------------------------------------
(* close().                                                                *)

CloseBegin ==
  /\ cpc = "open"
  /\ ~mutexHeld
  /\ shuttingDown' = TRUE
  /\ cpc' = "waitDecoder"
  /\ UNCHANGED <<published, hazard, mutexHeld, render, decode>>

\* The decode worker was joined, or the wait timed out and it was detached.
CloseDecoderGone ==
  /\ cpc = "waitDecoder"
  /\ cpc' = "unpublish"
  /\ UNCHANGED <<published, hazard, mutexHeld, shuttingDown, render, decode>>

\* The null store is made without the session mutex.
CloseUnpublish ==
  /\ cpc = "unpublish"
  /\ published' = NoSlot
  /\ cpc' = "drain"
  /\ UNCHANGED <<hazard, mutexHeld, shuttingDown, render, decode>>

\* Variant: close() does not wait for the callback.
CloseUndrained ==
  /\ cpc = "drain"
  /\ cpc' = "closed"
  /\ UNCHANGED <<published, hazard, mutexHeld, shuttingDown, render, decode>>

\* close() spins until no callback announces a slot.
CloseDrained ==
  /\ cpc = "drain"
  /\ hazard = NoSlot
  /\ cpc' = "closed"
  /\ UNCHANGED <<published, hazard, mutexHeld, shuttingDown, render, decode>>

-----------------------------------------------------------------------------
Render == RenderEnter \/ RenderLoad \/ RenderAnnounce \/ RenderValidate \/ RenderLeave

Decode ==
  \/ DecodeCheck \/ DecodeLoadPublished \/ DecodeChoose
  \/ DecodeRebuilt \/ DecodePublish \/ DecodeExit

Close == CloseBegin \/ CloseDecoderGone \/ CloseUnpublish \/ CloseDrained

Next == Render \/ Decode \/ Close

\* Every thread that is inside a call is scheduled.  The decode worker has no
\* fairness: a blocked Media Foundation handler may hold it for good.  Nothing
\* makes the device call on_render or the application call close().
Fairness ==
  /\ WF_vars(RenderLoad \/ RenderAnnounce \/ RenderValidate \/ RenderLeave)
  /\ WF_vars(CloseDecoderGone \/ CloseUnpublish \/ CloseDrained)

Spec == Init /\ [][Next]_vars /\ Fairness

-----------------------------------------------------------------------------
\* Every variable keeps to its type, and the hazard pointer is set only while the
\* callback looks at it again or is inside the payload (render_hazard_guard).
TypeOK ==
  /\ published \in Slots \cup {NoSlot}
  /\ hazard \in Slots \cup {NoSlot}
  /\ mutexHeld \in BOOLEAN
  /\ shuttingDown \in BOOLEAN
  /\ rpc \in {"idle", "load", "announce", "validate", "inside"}
  /\ rslot \in Slots \cup {NoSlot}
  /\ dpc \in {"idle", "scan", "choose", "rebuild", "publish", "threw", "finished"}
  /\ dseen \in Slots \cup {NoSlot}
  /\ dslot \in Slots \cup {NoSlot}
  /\ cpc \in {"open", "waitDecoder", "unpublish", "drain", "closed"}
  /\ hazard = NoSlot \/ rpc \in {"validate", "inside"}

\* The decode worker never rebuilds the payload the render callback is inside
\* of: prepare_pipeline_slot frees and reallocates it, and on_render uses it
\* without a lock.
NoRebuildInUse ==
  dpc = "rebuild" /\ rpc = "inside" => dslot # rslot

\* A callback that is about to enter the payload never enters one whose
\* rebuild is under way or done but not published.
NoHalfBuiltPublished ==
  dpc \in {"rebuild", "publish"} => published # dslot

\* The scan in prepare_pipeline_slot always finds a slot, so the exception for
\* a missing one, which would end the decode worker, is never thrown.
SlotAlwaysFound == dpc # "threw"

\* The loop of on_render that announces a slot and checks it again never goes
\* round twice: the callback acquires its slot in a bounded number of steps.
RenderNeverRetries == rpc = "validate" => published = rslot

\* When close() has returned, no payload is published, announced or in use, even
\* if the decode worker was left running: its payloads may be destroyed.  (A
\* callback that found no pipeline may still be on its way out; waiting for it
\* is the stream handle's part of close().)
ClosedIsQuiet ==
  cpc = "closed" => published = NoSlot /\ hazard = NoSlot /\ rslot = NoSlot

\* close() returns whatever the decode worker does.
CloseTerminates == cpc = "waitDecoder" ~> cpc = "closed"
=============================================================================
