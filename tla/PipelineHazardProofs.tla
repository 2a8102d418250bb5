------------------------ MODULE PipelineHazardProofs ------------------------
(***************************************************************************)
(* Proofs that the slot hand-off of PipelineHazard is safe for every       *)
(* number of slots from three on.                                          *)
(***************************************************************************)
EXTENDS PipelineHazard, TLAPS

\* While the callback holds the mutex the session is not shutting down, and the
\* published pointer cannot move under it.
MutexInv ==
  /\ mutexHeld <=> rpc \in {"load", "announce", "validate"}
  /\ shuttingDown <=> cpc # "open"
  /\ mutexHeld => ~shuttingDown
  /\ rpc \in {"announce", "validate"} => rslot = published

\* The announced slot is the one the callback holds, once it has announced it.
HazardInv ==
  /\ rpc \in {"idle", "load", "announce"} => hazard = NoSlot
  /\ rpc \in {"idle", "load"} => rslot = NoSlot
  /\ rpc \in {"validate", "inside"} => hazard = rslot

\* What the decode worker knows about the slot it chose.
ScanInv ==
  /\ dpc = "choose" => dseen = published \/ published = NoSlot
  /\ dpc \in {"rebuild", "publish"} => dslot \in Slots /\ dslot # published /\ dslot # rslot
  /\ dpc # "threw"

CloseInv ==
  /\ cpc \in {"drain", "closed"} => published = NoSlot
  /\ cpc = "closed" => hazard = NoSlot

\* The inductive invariant.
IInv == TypeOK /\ MutexInv /\ HazardInv /\ ScanInv /\ CloseInv

\* With three slots or more, excluding any two leaves a first free one.
LEMMA FreeSlotExists ==
  ASSUME NEW pub, NEW haz
  PROVE  \E s \in Slots : FirstFree(s, pub, haz)
<1>1. 1 \in Slots /\ 2 \in Slots /\ 3 \in Slots
  BY SlotCountAssumption DEF Slots
<1>2. CASE 1 \notin {pub, haz}
  BY <1>1, <1>2 DEF FirstFree, Slots
<1>3. CASE 1 \in {pub, haz} /\ 2 \notin {pub, haz}
  <2>1. \A t \in Slots : t < 2 => t = 1
    BY DEF Slots
  <2>2. QED BY <1>1, <1>3, <2>1 DEF FirstFree
<1>4. CASE 1 \in {pub, haz} /\ 2 \in {pub, haz}
  <2>1. \A t \in Slots : t < 3 => t = 1 \/ t = 2
    BY DEF Slots
  <2>2. 3 \notin {pub, haz}
    BY <1>4
  <2>3. QED BY <1>1, <1>4, <2>1, <2>2 DEF FirstFree
<1>5. QED BY <1>2, <1>3, <1>4

\* The strengthened invariant holds initially.
LEMMA InitIInv == Init => IInv
  BY DEF Init, IInv, TypeOK, MutexInv, HazardInv, ScanInv, CloseInv, Slots, NoSlot

\* The null pointer is not a slot.
LEMMA NoSlotNotSlot == NoSlot \notin Slots
  BY DEF NoSlot, Slots

\* Every step of every thread preserves the strengthened invariant.
LEMMA NextIInv == IInv /\ [Next]_vars => IInv'
<1> SUFFICES ASSUME IInv, [Next]_vars PROVE IInv'
  OBVIOUS
<1> USE NoSlotNotSlot DEF IInv, TypeOK, MutexInv, HazardInv, ScanInv, CloseInv, render, decode
<1>1. CASE RenderEnter BY <1>1 DEF RenderEnter
<1>2. CASE RenderLoad BY <1>2 DEF RenderLoad
<1>3. CASE RenderAnnounce BY <1>3 DEF RenderAnnounce
<1>4. CASE RenderValidate BY <1>4 DEF RenderValidate
<1>5. CASE RenderLeave BY <1>5 DEF RenderLeave
<1>6. CASE DecodeCheck BY <1>6 DEF DecodeCheck
<1>7. CASE DecodeLoadPublished BY <1>7 DEF DecodeLoadPublished
<1>8. CASE DecodeChoose
  <2>1. PICK s \in Slots : FirstFree(s, dseen, hazard) /\ dslot' = s
    BY <1>8, FreeSlotExists DEF DecodeChoose
  <2>2. dslot' \in Slots /\ dslot' # dseen /\ dslot' # hazard
    BY <2>1 DEF FirstFree
  <2>3. /\ dpc = "choose" /\ dpc' = "rebuild"
        /\ UNCHANGED <<published, hazard, mutexHeld, shuttingDown, rpc, rslot, dseen, cpc>>
    BY <1>8, FreeSlotExists DEF DecodeChoose
  <2>4. dslot' # published
    BY <2>2, <2>3
  <2>5. dslot' # rslot
    <3>1. CASE rpc \in {"idle", "load"} BY <2>2, <3>1
    <3>2. CASE rpc = "announce" BY <2>4, <3>2
    <3>3. CASE rpc \in {"validate", "inside"} BY <2>2, <3>3
    <3>4. QED BY <3>1, <3>2, <3>3
  <2>6. QED BY <2>2, <2>3, <2>4, <2>5
<1>9. CASE DecodeRebuilt BY <1>9 DEF DecodeRebuilt
<1>10. CASE DecodePublish BY <1>10 DEF DecodePublish
<1>11. CASE DecodeExit BY <1>11 DEF DecodeExit
<1>12. CASE CloseBegin BY <1>12 DEF CloseBegin
<1>13. CASE CloseDecoderGone BY <1>13 DEF CloseDecoderGone
<1>14. CASE CloseUnpublish BY <1>14 DEF CloseUnpublish
<1>15. CASE CloseDrained BY <1>15 DEF CloseDrained
<1>16. CASE UNCHANGED vars BY <1>16 DEF vars
<1>17. QED
  BY <1>1, <1>2, <1>3, <1>4, <1>5, <1>6, <1>7, <1>8, <1>9, <1>10, <1>11,
     <1>12, <1>13, <1>14, <1>15, <1>16 DEF Next, Render, Decode, Close

\* The strengthened invariant holds in every reachable state.
LEMMA Invariance == Spec => []IInv
  BY InitIInv, NextIInv, PTL DEF Spec

\* Every variable keeps its type, for any number of slots.
THEOREM TypeCorrect == Spec => []TypeOK
<1>1. IInv => TypeOK BY DEF IInv
<1>2. QED BY <1>1, Invariance, PTL

\* The decode worker never rebuilds the payload the callback is inside of.
THEOREM RebuildSafe == Spec => []NoRebuildInUse
<1>1. IInv => NoRebuildInUse BY DEF IInv, ScanInv, NoRebuildInUse
<1>2. QED BY <1>1, Invariance, PTL

\* A payload that is being rebuilt is never the published one.
THEOREM PublishSafe == Spec => []NoHalfBuiltPublished
<1>1. IInv => NoHalfBuiltPublished BY DEF IInv, ScanInv, NoHalfBuiltPublished
<1>2. QED BY <1>1, Invariance, PTL

\* The decode worker never runs out of slots.
THEOREM SlotsSuffice == Spec => []SlotAlwaysFound
<1>1. IInv => SlotAlwaysFound BY DEF IInv, ScanInv, SlotAlwaysFound
<1>2. QED BY <1>1, Invariance, PTL

\* The callback acquires its slot without ever retrying.
THEOREM RenderWaitFree == Spec => []RenderNeverRetries
<1>1. IInv => RenderNeverRetries BY DEF IInv, MutexInv, RenderNeverRetries
<1>2. QED BY <1>1, Invariance, PTL

\* After close() no payload is reachable from the callback.
THEOREM CloseSafe == Spec => []ClosedIsQuiet
<1>1. IInv => ClosedIsQuiet
  BY DEF IInv, TypeOK, MutexInv, HazardInv, CloseInv, ClosedIsQuiet
<1>2. QED BY <1>1, Invariance, PTL
=============================================================================
