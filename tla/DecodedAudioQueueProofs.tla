---------------------- MODULE DecodedAudioQueueProofs -----------------------
(***************************************************************************)
(* Proofs about the decoded-audio ring for every capacity: the two threads *)
(* never share a slot, a push after seen room succeeds, and the ring       *)
(* implements the bounded FIFO.                                            *)
(***************************************************************************)
EXTENDS DecodedAudioQueue, SequenceTheorems, TLAPS

\* What the producer knows in the middle of a push.
ProducerInv ==
  /\ ppc # "idle" => ~Full
  /\ ppc \in {"copy", "store"} => pblock \in Blocks
  /\ ppc = "store" => slots[write] = pblock

\* What the consumer knows in the middle of a pop.
ConsumerInv ==
  /\ cpc # "idle" => read # write
  /\ cpc = "store" => cblock = slots[read]

\* The inductive invariant.
IInv == TypeOK /\ ProducerInv /\ ConsumerInv /\ RoomIsKept

-----------------------------------------------------------------------------
\* The next index is the successor, or zero at the end.
LEMMA IncrementValue ==
  ASSUME NEW i \in Indices
  PROVE  Increment(i) = IF i = Capacity THEN 0 ELSE i + 1
<1>1. SlotCount \in Nat \ {0} /\ SlotCount = Capacity + 1
  BY CapacityAssumption DEF SlotCount
<1>2. \A n \in Nat \ {0} : n % n = 0
  OBVIOUS
<1>3. \A n \in Nat \ {0} : \A x \in 0..(n-1) : x % n = x
  OBVIOUS
<1>4. QED BY <1>1, <1>2, <1>3, CapacityAssumption DEF Increment, Wrap, Indices

\* Indices below twice the slot count wrap at most once.
LEMMA WrapValue ==
  ASSUME NEW x \in 0..(2 * Capacity + 1)
  PROVE  Wrap(x) = IF x <= Capacity THEN x ELSE x - SlotCount
<1>1. SlotCount \in Nat \ {0} /\ SlotCount = Capacity + 1
  BY CapacityAssumption DEF SlotCount
<1>2. \A n \in Nat \ {0} : \A y \in n..(2*n-1) : y % n = y - n
  OBVIOUS
<1>3. \A n \in Nat \ {0} : \A y \in 0..(n-1) : y % n = y
  OBVIOUS
<1>4. CASE x <= Capacity BY <1>1, <1>3, <1>4, CapacityAssumption DEF Wrap
<1>5. CASE x > Capacity BY <1>1, <1>2, <1>5, CapacityAssumption DEF Wrap
<1>6. QED BY <1>4, <1>5, CapacityAssumption

-----------------------------------------------------------------------------
\* The strengthened invariant holds initially.
LEMMA InitIInv == Init => IInv
  BY CapacityAssumption
     DEF Init, IInv, TypeOK, ProducerInv, ConsumerInv, RoomIsKept, Indices

\* Every step of producer and consumer preserves the strengthened invariant.
LEMMA NextIInv == IInv /\ [Next]_vars => IInv'
<1> SUFFICES ASSUME IInv, [Next]_vars PROVE IInv'
  OBVIOUS
<1> USE CapacityAssumption, BlocksAssumption
<1> USE DEF IInv, TypeOK, ProducerInv, ConsumerInv, RoomIsKept, producer, consumer, Full
<1>0. Increment(read) \in Indices /\ Increment(write) \in Indices
  BY IncrementValue DEF Indices
<1>1. CASE SeeRoom BY <1>1 DEF SeeRoom
<1>2. ASSUME NEW b \in Blocks, PushBegin(b) PROVE IInv'
  BY <1>2 DEF PushBegin
<1>3. CASE PushCopy
  <2>1. slots' \in [Indices -> Blocks \cup {NoBlock}] /\ slots'[write] = pblock
    BY <1>3 DEF PushCopy
  <2>2. cpc = "store" => slots'[read] = slots[read]
    BY <1>3 DEF PushCopy
  <2>3. QED BY <1>3, <2>1, <2>2 DEF PushCopy
<1>4. CASE PushStore
  BY <1>0, <1>4 DEF PushStore
<1>5. CASE PopBegin BY <1>5 DEF PopBegin
<1>6. CASE PopCopy BY <1>6 DEF PopCopy
<1>7. CASE PopStore
  <2>1. Increment(read) # Increment(write)
    BY <1>7, IncrementValue DEF PopStore, Indices
  <2>2. QED BY <1>0, <1>7, <2>1 DEF PopStore
<1>8. CASE UNCHANGED vars BY <1>8 DEF vars
<1>9. QED BY <1>1, <1>2, <1>3, <1>4, <1>5, <1>6, <1>7, <1>8 DEF Next

\* The strengthened invariant holds in every reachable state.
LEMMA Invariance == Spec => []IInv
  BY InitIInv, NextIInv, PTL DEF Spec

\* Every variable keeps its type, for every capacity and set of blocks.
THEOREM TypeCorrect == Spec => []TypeOK
<1>1. IInv => TypeOK BY DEF IInv
<1>2. QED BY <1>1, Invariance, PTL

\* Producer and consumer never have the same slot open.
THEOREM RaceFree == Spec => []NoSlotRace
<1>1. IInv => NoSlotRace BY DEF IInv, ConsumerInv, NoSlotRace
<1>2. QED BY <1>1, Invariance, PTL

\* A block that fits is never refused once the producer has seen room.
THEOREM PushNeverLoses == Spec => []RoomIsKept
<1>1. IInv => RoomIsKept BY DEF IInv
<1>2. QED BY <1>1, Invariance, PTL

-----------------------------------------------------------------------------
(* The refinement of BoundedFifo.                                          *)

Slot == Blocks \cup {NoBlock}

\* The ring has one slot more than its capacity.
LEMMA SlotCountValue == SlotCount = Capacity + 1 /\ Capacity \in Nat \ {0}
  BY CapacityAssumption DEF SlotCount

\* The occupied slots form a sequence, none of them the free one at w.
LEMMA BlocksInIsSeq ==
  ASSUME NEW s \in [Indices -> Slot], NEW r \in Indices, NEW w \in Indices
  PROVE  /\ Occupied(r, w) \in 0..Capacity
         /\ BlocksIn(s, r, w) \in Seq(Slot)
         /\ Len(BlocksIn(s, r, w)) = Occupied(r, w)
         /\ \A k \in 1..Occupied(r, w) :
              /\ BlocksIn(s, r, w)[k] = s[Wrap(r + k - 1)]
              /\ Wrap(r + k - 1) \in Indices \ {w}
<1> DEFINE n == Occupied(r, w)
           c == BlocksIn(s, r, w)
<1>1. n \in 0..Capacity
  BY SlotCountValue DEF Occupied, Indices
<1>2. \A k \in 1..n : Wrap(r + k - 1) \in Indices \ {w}
  <2>1. SUFFICES ASSUME NEW k \in 1..n
                 PROVE  Wrap(r + k - 1) \in Indices \ {w}
    OBVIOUS
  <2>2. r + k - 1 \in 0..(2 * Capacity + 1)
    BY <1>1, SlotCountValue DEF Indices
  <2>3. Wrap(r + k - 1) =
          IF r + k - 1 <= Capacity THEN r + k - 1 ELSE r + k - 1 - SlotCount
    BY <2>2, <1>1, WrapValue, SlotCountValue DEF Indices
  <2>4. CASE r <= w
    BY <2>3, <2>4, SlotCountValue DEF Indices, Occupied
  <2>5. CASE r > w
    BY <2>3, <2>5, SlotCountValue DEF Indices, Occupied
  <2>6. QED BY <2>4, <2>5 DEF Indices
<1>3. c = [k \in 1..n |-> s[Wrap(r + k - 1)]]
  BY DEF BlocksIn
<1> HIDE DEF n, c
<1>4. c \in [1..n -> Slot]
  BY <1>2, <1>3
<1>5. c \in Seq(Slot)
  BY <1>1, <1>4, SeqDef
<1>6. Len(c) = n
  BY <1>1, <1>4, <1>5, LenProperties
<1>7. \A k \in 1..n : c[k] = s[Wrap(r + k - 1)]
  BY <1>3
<1>8. QED BY <1>1, <1>2, <1>5, <1>6, <1>7 DEF n, c

\* Advancing w over a block in slot w appends that block.
LEMMA AdvanceWrite ==
  ASSUME NEW s \in [Indices -> Slot], NEW r \in Indices, NEW w \in Indices,
         Increment(w) # r
  PROVE  /\ BlocksIn(s, r, Increment(w)) = Append(BlocksIn(s, r, w), s[w])
         /\ Len(BlocksIn(s, r, w)) < Capacity
<1> DEFINE v == Increment(w)
           n == Occupied(r, w)
           old == BlocksIn(s, r, w)
           new == BlocksIn(s, r, v)
           app == Append(old, s[w])
<1>1. v = IF w = Capacity THEN 0 ELSE w + 1
  BY IncrementValue
<1>2. v \in Indices
  BY <1>1, SlotCountValue DEF Indices
<1>3. n < Capacity /\ n \in Nat /\ Occupied(r, v) = n + 1
  BY <1>1, SlotCountValue DEF Occupied, Indices
<1>4. Wrap(r + n) = w
  <2>1. n \in Nat /\ r + n \in 0..(2 * Capacity + 1)
    BY <1>3, SlotCountValue DEF Indices
  <2>2. Wrap(r + n) = IF r + n <= Capacity THEN r + n ELSE r + n - SlotCount
    BY <2>1, <1>3, WrapValue, SlotCountValue DEF Indices
  <2>3. QED BY <2>2, SlotCountValue DEF Occupied, Indices
<1>5. /\ old \in Seq(Slot) /\ Len(old) = n
      /\ \A k \in 1..n : old[k] = s[Wrap(r + k - 1)]
  BY BlocksInIsSeq
<1> HIDE DEF v
<1>6. /\ new \in Seq(Slot) /\ Len(new) = n + 1
      /\ \A k \in 1..(n + 1) : new[k] = s[Wrap(r + k - 1)]
  <2> DEFINE m == Occupied(r, v)
  <2>1. /\ new \in Seq(Slot) /\ Len(new) = m
        /\ \A k \in 1..m : new[k] = s[Wrap(r + k - 1)]
    BY ONLY <1>2, BlocksInIsSeq, s \in [Indices -> Slot], r \in Indices
  <2>2. m = n + 1
    BY <1>3
  <2> HIDE DEF m, n, new
  <2>3. QED BY <2>1, <2>2
<1>7. s[w] \in Slot
  OBVIOUS
<1> HIDE DEF n, old, new
<1>8. /\ app \in Seq(Slot) /\ Len(app) = n + 1
      /\ \A k \in 1..n : app[k] = old[k]
      /\ app[n + 1] = s[w]
  BY <1>5, <1>7, AppendProperties
<1> HIDE DEF app
<1>9. ASSUME NEW k \in 1..(n + 1) PROVE new[k] = app[k]
  <2>1. CASE k \in 1..n BY <2>1, <1>5, <1>6, <1>8
  <2>2. CASE k = n + 1
    <3>1. r + k - 1 = r + n
      BY <2>2, <1>3 DEF Indices
    <3>2. QED BY <3>1, <2>2, <1>4, <1>6, <1>8
  <2>3. QED BY <2>1, <2>2, <1>3
<1>10. new = app
  BY <1>6, <1>8, <1>9, SeqEqual
<1>11. QED BY <1>3, <1>5, <1>10 DEF new, app, old, v

\* Advancing r drops the block in slot r, the oldest one.
LEMMA AdvanceRead ==
  ASSUME NEW s \in [Indices -> Slot], NEW r \in Indices, NEW w \in Indices,
         r # w
  PROVE  /\ BlocksIn(s, r, w) # <<>>
         /\ Head(BlocksIn(s, r, w)) = s[r]
         /\ BlocksIn(s, Increment(r), w) = Tail(BlocksIn(s, r, w))
<1> DEFINE q == Increment(r)
           n == Occupied(r, w)
           old == BlocksIn(s, r, w)
           new == BlocksIn(s, q, w)
           tail == Tail(old)
<1>1. q = IF r = Capacity THEN 0 ELSE r + 1
  BY IncrementValue
<1>2. q \in Indices
  BY <1>1, SlotCountValue DEF Indices
<1>3. n \in Nat \ {0} /\ n <= Capacity /\ Occupied(q, w) = n - 1
  BY <1>1, SlotCountValue DEF Occupied, Indices
<1>4. /\ old \in Seq(Slot) /\ Len(old) = n
      /\ \A k \in 1..n : old[k] = s[Wrap(r + k - 1)]
  BY BlocksInIsSeq
<1>5. /\ new \in Seq(Slot) /\ Len(new) = n - 1
      /\ \A k \in 1..(n - 1) : new[k] = s[Wrap(q + k - 1)]
  <2> HIDE DEF q
  <2> DEFINE m == Occupied(q, w)
  <2>1. /\ new \in Seq(Slot) /\ Len(new) = m
        /\ \A k \in 1..m : new[k] = s[Wrap(q + k - 1)]
    BY ONLY <1>2, BlocksInIsSeq, s \in [Indices -> Slot], w \in Indices
  <2>2. m = n - 1
    BY <1>3
  <2> HIDE DEF m, n, new
  <2>3. QED BY <2>1, <2>2
<1>6. ASSUME NEW k \in 1..(n - 1)
      PROVE  Wrap(q + k - 1) = Wrap(r + k)
  <2>1. q + k - 1 \in 0..(2 * Capacity + 1) /\ r + k \in 0..(2 * Capacity + 1)
    BY <1>2, <1>3, SlotCountValue DEF Indices
  <2>2. Wrap(q + k - 1) =
          IF q + k - 1 <= Capacity THEN q + k - 1 ELSE q + k - 1 - SlotCount
    BY <2>1, <1>2, <1>3, WrapValue, SlotCountValue DEF Indices
  <2>3. Wrap(r + k) = IF r + k <= Capacity THEN r + k ELSE r + k - SlotCount
    BY <2>1, <1>2, <1>3, WrapValue, SlotCountValue DEF Indices
  <2>4. n \in Nat /\ k \in Nat \ {0} /\ k < n
    BY <1>3
  <2>5. QED BY <2>2, <2>3, <2>4, <1>1, <1>3, SlotCountValue DEF Indices
<1> HIDE DEF q, n, old, new
<1>7. old # <<>>
  BY <1>3, <1>4, EmptySeq
<1>8. old[1] = s[r]
  <2>1. old[1] = s[Wrap(r + 1 - 1)]
    BY <1>3, <1>4
  <2>2. r \in 0..(2 * Capacity + 1) /\ r <= Capacity /\ r + 1 - 1 = r
    BY SlotCountValue DEF Indices
  <2>3. Wrap(r) = r
    BY <2>2, <1>1, WrapValue, SlotCountValue DEF Indices
  <2>4. QED BY <2>1, <2>2, <2>3
<1>9. Head(old) = s[r]
  BY <1>3, <1>4, <1>7, <1>8
<1>10. /\ tail \in Seq(Slot) /\ Len(tail) = n - 1
       /\ \A k \in 1..(n - 1) : tail[k] = old[k + 1]
  BY <1>4, <1>7, HeadTailProperties
<1> HIDE DEF tail
<1>11. ASSUME NEW k \in 1..(n - 1) PROVE new[k] = tail[k]
  <2>1. k + 1 \in 1..n /\ r + (k + 1) - 1 = r + k
    BY <1>3 DEF Indices
  <2>2. old[k + 1] = s[Wrap(r + k)]
    BY <1>4, <2>1
  <2>3. QED BY <2>2, <1>5, <1>6, <1>10
<1>12. new = tail
  BY <1>5, <1>10, <1>11, SeqEqual
<1>13. QED BY <1>7, <1>9, <1>12 DEF old, new, tail, q

\* The empty ring is the empty FIFO.
LEMMA InitRefines == Init => Fifo!Init
<1> SUFFICES ASSUME Init PROVE Fifo!Init
  OBVIOUS
<1>1. slots \in [Indices -> Slot] /\ read \in Indices /\ write \in Indices
  BY SlotCountValue DEF Init, Slot, Indices
<1>2. Occupied(read, write) = 0
  BY SlotCountValue DEF Init, Occupied
<1>3. Contents \in Seq(Slot) /\ Len(Contents) = 0
  BY <1>1, <1>2, BlocksInIsSeq DEF Contents
<1>4. Contents = <<>>
  BY <1>3, EmptySeq
<1>5. QED BY <1>4 DEF Init, Fifo!Init

\* Every step of the ring is a push, a pop or a stutter of the FIFO.
LEMMA StepRefines == IInv /\ IInv' /\ [Next]_vars => [Fifo!Next]_(Fifo!vars)
<1> SUFFICES ASSUME IInv, IInv', [Next]_vars PROVE [Fifo!Next]_(Fifo!vars)
  OBVIOUS
<1> USE DEF producer, consumer, Fifo!vars
<1>1. /\ slots \in [Indices -> Slot] /\ read \in Indices /\ write \in Indices
      /\ slots' \in [Indices -> Slot]
  BY DEF IInv, TypeOK, Slot
<1>2. CASE UNCHANGED <<slots, read, write, delivered>>
  BY <1>2 DEF Contents
<1>3. CASE PushCopy
  <2>1. Contents' = [k \in 1..Occupied(read, write) |-> slots'[Wrap(read + k - 1)]]
    BY <1>3 DEF PushCopy, Contents, BlocksIn
  <2>2. \A k \in 1..Occupied(read, write) :
          slots'[Wrap(read + k - 1)] = slots[Wrap(read + k - 1)]
    BY <1>1, <1>3, BlocksInIsSeq DEF PushCopy
  <2>3. Contents' = Contents
    BY <2>1, <2>2 DEF Contents, BlocksIn
  <2>4. QED BY <1>3, <2>3 DEF PushCopy
<1>4. CASE PushStore
  <2>1. pblock \in Blocks /\ slots[write] = pblock /\ Increment(write) # read
    BY <1>4 DEF PushStore, IInv, ProducerInv, Full
  <2>2. Contents' = Append(Contents, pblock) /\ Len(Contents) < Capacity
    BY <1>1, <1>4, <2>1, AdvanceWrite DEF PushStore, Contents
  <2>3. Fifo!Push(pblock)
    BY <1>4, <2>2 DEF PushStore, Fifo!Push
  <2>4. QED BY <2>1, <2>3 DEF Fifo!Next
<1>5. CASE PopStore
  <2>1. read # write /\ cblock = slots[read]
    BY <1>5 DEF PopStore, IInv, ConsumerInv
  <2>2. /\ Contents # <<>> /\ Head(Contents) = slots[read]
        /\ Contents' = Tail(Contents)
    BY <1>1, <1>5, <2>1, AdvanceRead DEF PopStore, Contents
  <2>3. Fifo!Pop
    BY <1>5, <2>1, <2>2 DEF PopStore, Fifo!Pop
  <2>4. QED BY <2>3 DEF Fifo!Next
<1>6. CASE SeeRoom BY <1>2, <1>6 DEF SeeRoom
<1>7. ASSUME NEW b \in Blocks, PushBegin(b) PROVE [Fifo!Next]_(Fifo!vars)
  BY <1>2, <1>7 DEF PushBegin
<1>8. CASE PopBegin BY <1>2, <1>8 DEF PopBegin
<1>9. CASE PopCopy BY <1>2, <1>9 DEF PopCopy
<1>10. CASE UNCHANGED vars BY <1>2, <1>10 DEF vars
<1>11. QED
  BY <1>3, <1>4, <1>5, <1>6, <1>7, <1>8, <1>9, <1>10 DEF Next

\* The ring delivers the pushed blocks once each and in order, for every
\* capacity: it implements the bounded FIFO.
THEOREM Refinement == Spec => ImplementsFifo
<1>1. Init => Fifo!Init BY InitRefines
<1>2. IInv /\ IInv' /\ [Next]_vars => [Fifo!Next]_(Fifo!vars) BY StepRefines
<1>3. QED BY <1>1, <1>2, Invariance, PTL DEF Spec, ImplementsFifo, Fifo!Spec
=============================================================================
