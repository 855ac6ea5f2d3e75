------------------------------ MODULE DmaPool -------------------------------
(***************************************************************************)
(* The addresses of the packets in a DMA pool of the Ethernet driver       *)
(* (dma_pool.h).  TxRing and RxRing name a packet by itself where the code *)
(* has its address; what they need of the pool is stated here: an address  *)
(* leads back to its packet, and the address 0 of an erased descriptor to  *)
(* none.                                                                   *)
(***************************************************************************)
EXTENDS Integers

CONSTANTS AddrSpace,   \* how many values an address has
          PoolBase,    \* _dma_base_addr
          PoolSize     \* _size

\* The buffer lies in the address space and not at address 0, which the
\* constructor reports as an error.
ASSUME PoolAssumption == /\ {AddrSpace, PoolBase, PoolSize} \subseteq Nat
                         /\ PoolBase > 0 /\ PoolBase + PoolSize < AddrSpace

\* Addresses are unsigned: the sum of two of them may wrap.
Wrapped(n) == IF n < AddrSpace THEN n ELSE n - AddrSpace

Invalid == [offset |-> 0, size |-> 0]

DmaAddr(p) == Wrapped(PoolBase + p.offset)

PacketDescriptor(addr, len) ==
  IF addr < PoolBase \/ Wrapped(addr + len) > Wrapped(PoolBase + PoolSize)
    THEN Invalid
    ELSE [offset |-> addr - PoolBase, size |-> len]

-----------------------------------------------------------------------------
InPool == {p \in [offset : 0..PoolSize, size : 0..PoolSize] :
             p.offset + p.size <= PoolSize}

\* The address written to a descriptor for a packet leads back to the packet
\* when its length is right, so different packets have different addresses.
RoundTrip == \A p \in InPool : PacketDescriptor(DmaAddr(p), p.size) = p

\* The address 0 that submit_acks writes over an acknowledged one is nobody's:
\* the packet that comes out is invalid, whatever the length left behind.
ErasedIsInvalid == \A len \in 0..AddrSpace-1 : PacketDescriptor(0, len) = Invalid

\* Unless the end of the packet wraps around the address space, what comes out
\* lies in the pool, also for an address and a length that are no packet's.
StaysInPool ==
  \A addr, len \in 0..AddrSpace-1 :
    addr + len < AddrSpace => PacketDescriptor(addr, len) \in InPool
=============================================================================
