------------------------- MODULE DecodedAudioQueue --------------------------
(***************************************************************************)
(* The wait-free ring between the decode worker (producer) and the render  *)
(* callback (consumer): decoded_audio_queue, with slot_count + 1 slots, one*)
(* kept free.  Copying a block in or out is not atomic, so each operation  *)
(* is split into the load of the other side's index, the copy, and the     *)
(* store of its own index; acquire/release order makes these steps appear  *)
(* in program order.                                                       *)
(***************************************************************************)
EXTENDS Naturals, Sequences

CONSTANTS
  Capacity,   \* slot_count, 4 in a session
  Blocks,     \* the decoded blocks
  Oversized,  \* those that do not fit a slot's samples
  NoBlock     \* no block: an empty slot, no result yet

ASSUME CapacityAssumption == Capacity \in Nat \ {0}
ASSUME BlocksAssumption == NoBlock \notin Blocks /\ Oversized \subseteq Blocks

SlotCount == Capacity + 1
Indices == 0..Capacity

VARIABLES
  slots,       \* slots_
  read, write, \* read_ and write_
  ppc, pblock, \* producer: where it is, the block it is pushing
  refused,     \* blocks for which try_push returned false
  cpc, cblock, \* consumer: where it is, what it has copied out
  delivered    \* what the last successful try_pop returned

producer == <<ppc, pblock, refused>>
consumer == <<cpc, cblock, delivered>>
vars == <<slots, read, write, producer, consumer>>

Init ==
  /\ slots = [i \in Indices |-> NoBlock]
  /\ read = 0 /\ write = 0
  /\ ppc = "idle" /\ pblock = NoBlock /\ refused = {}
  /\ cpc = "idle" /\ cblock = NoBlock /\ delivered = NoBlock

\* Variant: indices run past the last slot.
Unwrapped(i) == i

Wrap(i) == i % SlotCount

Increment(i) == Wrap(i + 1)

\* Variant: the free slot between write_ and read_ is not kept.
NeverFull == FALSE

Full == Increment(write) = read

-----------------------------------------------------------------------------
\* Variant: the worker does not look for room first.
ReadBlindly ==
  /\ ppc = "idle"
  /\ ppc' = "room"
  /\ UNCHANGED <<slots, read, write, pblock, refused, consumer>>

\* The decode worker reads a block only after it has seen room for one.
SeeRoom ==
  /\ ppc = "idle"
  /\ ~Full
  /\ ppc' = "room"
  /\ UNCHANGED <<slots, read, write, pblock, refused, consumer>>

\* try_push: the checks.  It loads read_ anew.
PushBegin(b) ==
  /\ ppc = "room"
  /\ IF Full \/ b \in Oversized
       THEN /\ refused' = refused \cup {b}
            /\ ppc' = "idle"
            /\ UNCHANGED pblock
       ELSE /\ pblock' = b
            /\ ppc' = "copy"
            /\ UNCHANGED refused
  /\ UNCHANGED <<slots, read, write, consumer>>

PushCopy ==
  /\ ppc = "copy"
  /\ slots' = [slots EXCEPT ![write] = pblock]
  /\ ppc' = "store"
  /\ UNCHANGED <<read, write, pblock, refused, consumer>>

PushStore ==
  /\ ppc = "store"
  /\ write' = Increment(write)
  /\ ppc' = "idle"
  /\ pblock' = NoBlock
  /\ UNCHANGED <<slots, read, refused, consumer>>

-----------------------------------------------------------------------------
\* Variant: try_pop does not look whether there is a block.
PopBeginOnEmpty ==
  /\ cpc = "idle"
  /\ cpc' = "copy"
  /\ UNCHANGED <<slots, read, write, producer, cblock, delivered>>

\* try_pop on a non-empty queue; on an empty one it returns without effect.
PopBegin ==
  /\ cpc = "idle"
  /\ read # write
  /\ cpc' = "copy"
  /\ UNCHANGED <<slots, read, write, producer, cblock, delivered>>

PopCopy ==
  /\ cpc = "copy"
  /\ cblock' = slots[read]
  /\ cpc' = "store"
  /\ UNCHANGED <<slots, read, write, producer, delivered>>

PopStore ==
  /\ cpc = "store"
  /\ read' = Increment(read)
  /\ delivered' = cblock
  /\ cblock' = NoBlock
  /\ cpc' = "idle"
  /\ UNCHANGED <<slots, write, producer>>

-----------------------------------------------------------------------------
Next ==
  \/ SeeRoom \/ (\E b \in Blocks : PushBegin(b)) \/ PushCopy \/ PushStore
  \/ PopBegin \/ PopCopy \/ PopStore

Spec == Init /\ [][Next]_vars

-----------------------------------------------------------------------------
TypeOK ==
  /\ slots \in [Indices -> Blocks \cup {NoBlock}]
  /\ read \in Indices
  /\ write \in Indices
  /\ ppc \in {"idle", "room", "copy", "store"}
  /\ pblock \in Blocks \cup {NoBlock}
  /\ refused \in SUBSET Blocks
  /\ cpc \in {"idle", "copy", "store"}
  /\ cblock \in Blocks \cup {NoBlock}
  /\ delivered \in Blocks \cup {NoBlock}

\* The two threads never have the same slot open: the producer does not write
\* samples or metadata the consumer is copying out.
NoSlotRace == ppc \in {"copy", "store"} /\ cpc \in {"copy", "store"} => read # write

\* Room that the producer has seen is still there when it pushes: decode_loop
\* reads a block before it pushes it and would lose it to a false result.
RoomIsKept == refused \subseteq Oversized

-----------------------------------------------------------------------------
(* The blocks in the ring, oldest first.                                   *)

Occupied(r, w) == IF r <= w THEN w - r ELSE w + SlotCount - r

BlocksIn(s, r, w) == [k \in 1..Occupied(r, w) |-> s[Wrap(r + k - 1)]]

Contents == BlocksIn(slots, read, write)

Fifo == INSTANCE BoundedFifo WITH buffer <- Contents

\* The ring is a bounded FIFO of Capacity blocks: a push takes effect when
\* write_ is stored, a pop when read_ is.
ImplementsFifo == Fifo!Spec
=============================================================================
