-------------------------- MODULE BufferDescriptor --------------------------
(***************************************************************************)
(* The ring of DMA buffer descriptors both directions of the Ethernet      *)
(* driver are built from (src/drivers/nic/cadence_gem/buffer_descriptor.h):*)
(* N descriptors, a head and a tail index, and the number of descriptors   *)
(* between the two.                                                        *)
(***************************************************************************)
EXTENDS Integers

CONSTANT N    \* _buffer_count, the number of descriptors of the ring

ASSUME NAssumption == N \in Nat \ {0}

\* The indices of the descriptors.
Index == 0..N-1

\* Mutant: the index does not wrap.
AdvanceUnbounded(idx) == idx + 1

\* _advance_head and _advance_tail: the next index, wrapping at the end.
Advance(idx) == (idx + 1) % N

\* _queued: how many descriptors lie between the tail and the head.  A ring
\* whose N descriptors are all queued has head = tail and counts as empty.
Queued(h, t) == IF h >= t THEN h - t ELSE h + N - t
=============================================================================
