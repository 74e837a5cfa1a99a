----------------------------- MODULE PacketFifo -----------------------------
(***************************************************************************)
(* What the queue between the media thread and the decoder promises: the   *)
(* packets put in come out one by one and in order, none twice, none lost  *)
(* and none changed, and it never holds more than Capacity.  A new queue,  *)
(* or one that is thrown away, is empty.                                   *)
(***************************************************************************)
EXTENDS Naturals, Sequences

CONSTANTS Packets, Capacity

VARIABLE items

FifoInit == items = <<>>

Put(p) ==
  /\ Len(items) < Capacity
  /\ items' = Append(items, p)

Take == items # <<>> /\ items' = Tail(items)

Clear == items' = <<>>

FifoNext == Take \/ Clear \/ \E p \in Packets : Put(p)

FifoSpec == FifoInit /\ [][FifoNext]_items
=============================================================================
