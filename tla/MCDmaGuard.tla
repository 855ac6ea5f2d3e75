----------------------------- MODULE MCDmaGuard -----------------------------
(* A small instance of the DMA guard for TLC. *)
EXTENDS DmaGuard

CONSTANTS d1, d2

\* One page, three pages, and the first page again as part of a larger range.
MCRanges == { [addr |-> 1, size |-> 4096], [addr |-> 2, size |-> 12288],
              [addr |-> 6, size |-> 4096], [addr |-> 1, size |-> 8192] }
=============================================================================
