------------------------------ MODULE MCTxRing ------------------------------
(* A small instance of the transmit path for TLC, and one of the pool its    *)
(* packets lie in.                                                           *)
EXTENDS TxRing, DmaPool, TLC

CONSTANTS p1, p2, p3, e1, b1

ASSUME PoolHolds == RoundTrip /\ ErasedIsInvalid /\ StaysInPool
=============================================================================
