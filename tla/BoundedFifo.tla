---------------------------- MODULE BoundedFifo -----------------------------
(***************************************************************************)
(* What the decoded-audio queue promises: one producer, one consumer, at   *)
(* most Capacity blocks in between, delivered once each and in order.      *)
(***************************************************************************)
EXTENDS Naturals, Sequences

CONSTANTS Blocks, Capacity, NoBlock

VARIABLES
  buffer,    \* pushed and not yet popped, oldest first
  delivered  \* what the last pop returned

vars == <<buffer, delivered>>

Init == buffer = <<>> /\ delivered = NoBlock

Push(b) ==
  /\ Len(buffer) < Capacity
  /\ buffer' = Append(buffer, b)
  /\ UNCHANGED delivered

Pop ==
  /\ buffer # <<>>
  /\ delivered' = Head(buffer)
  /\ buffer' = Tail(buffer)

Next == (\E b \in Blocks : Push(b)) \/ Pop

Spec == Init /\ [][Next]_vars
=============================================================================
