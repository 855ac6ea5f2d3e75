------------------------- MODULE GemBuffers_proofs --------------------------
(***************************************************************************)
(* Facts about the data both directions of the Ethernet driver work on,    *)
(* whatever the size of the ring and of the pool: the indices of the       *)
(* descriptor ring, the queues of the session, the packets' addresses.     *)
(***************************************************************************)
EXTENDS BufferDescriptor, DmaPool, Functions, SequenceTheorems, TLAPS

-----------------------------------------------------------------------------
(* The ring indices and the queues. *)

\* Advancing an index of the ring yields an index of the ring.
LEMMA AdvanceInRing == ASSUME NEW i \in Index PROVE Advance(i) \in Index
  BY NAssumption, Z3 DEF Index, Advance

\* Every ring has a first descriptor, where all indices start.
LEMMA FirstInRing == 0 \in Index
  BY NAssumption DEF Index

\* An index is a number less than N.
LEMMA IndexIsNat == N \in Nat \ {0} /\ \A i \in Index : i \in Nat /\ i < N
  BY NAssumption DEF Index

\* A queue that gets an entry it does not hold has that entry besides the
\* ones it had, and still no entry twice.
LEMMA AppendRange ==
  ASSUME NEW S, NEW s \in Seq(S), NEW e \in S
  PROVE  /\ Append(s, e) \in Seq(S)
         /\ Range(Append(s, e)) = Range(s) \union {e}
         /\ IsInjective(s) /\ e \notin Range(s) => IsInjective(Append(s, e))
<1> DEFINE t == Append(s, e)
<1>1. /\ t \in Seq(S) /\ Len(t) = Len(s) + 1
      /\ \A i \in 1..Len(s) : t[i] = s[i]
      /\ t[Len(s) + 1] = e
  BY AppendProperties
<1>2. /\ DOMAIN s = 1..Len(s) /\ DOMAIN t = 1..Len(s)+1 /\ Len(s) \in Nat
  BY <1>1, LenProperties
<1> HIDE DEF t
<1>3. Range(t) = Range(s) \union {e}
  <2>1. ASSUME NEW x \in Range(t) PROVE x \in Range(s) \union {e}
    <3>1. PICK i \in 1..Len(s)+1 : x = t[i]
      BY <1>2, <2>1 DEF Range
    <3>2. i \in 1..Len(s) \/ i = Len(s) + 1
      BY <1>2
    <3>3. QED
      BY <1>1, <1>2, <3>1, <3>2 DEF Range
  <2>2. ASSUME NEW x \in Range(s) PROVE x \in Range(t)
    <3>1. PICK i \in 1..Len(s) : x = s[i]
      BY <1>2, <2>2 DEF Range
    <3>2. i \in 1..Len(s)+1 /\ x = t[i]
      BY <1>1, <1>2, <3>1
    <3>3. QED
      BY <1>2, <3>2 DEF Range
  <2>3. e \in Range(t)
    <3>1. Len(s)+1 \in 1..Len(s)+1
      BY <1>2
    <3>2. QED
      BY <1>1, <1>2, <3>1 DEF Range
  <2>4. QED
    BY <2>1, <2>2, <2>3
<1>4. ASSUME IsInjective(s), e \notin Range(s) PROVE IsInjective(t)
  <2>1. \A i \in 1..Len(s) : s[i] # e
    BY <1>2, <1>4 DEF Range
  <2>2. \A i, j \in 1..Len(s) : s[i] = s[j] => i = j
    BY <1>2, <1>4 DEF IsInjective
  <2>3. \A i, j \in 1..Len(s)+1 : t[i] = t[j] => i = j
    <3> TAKE i, j \in 1..Len(s)+1
    <3>1. /\ i \in 1..Len(s) \/ i = Len(s) + 1
          /\ j \in 1..Len(s) \/ j = Len(s) + 1
      BY <1>2
    <3>2. QED
      BY <1>1, <2>1, <2>2, <3>1
  <2>4. QED
    BY <1>2, <2>3 DEF IsInjective
<1>5. QED
  BY <1>1, <1>3, <1>4 DEF t

\* The first entry of a queue without double entries is not among the rest.
LEMMA TailRange ==
  ASSUME NEW S, NEW s \in Seq(S), s # <<>>
  PROVE  /\ Head(s) \in S /\ Tail(s) \in Seq(S)
         /\ Head(s) \in Range(s)
         /\ Range(Tail(s)) \subseteq Range(s)
         /\ Range(s) \subseteq Range(Tail(s)) \union {Head(s)}
         /\ IsInjective(s) => /\ IsInjective(Tail(s))
                              /\ Head(s) \notin Range(Tail(s))
<1> DEFINE t == Tail(s)
<1>1. /\ Head(s) \in S /\ t \in Seq(S) /\ Len(t) = Len(s) - 1
      /\ \A i \in 1..Len(t) : t[i] = s[i+1]
      /\ Head(s) = s[1]
  BY HeadTailProperties
<1>2. /\ DOMAIN s = 1..Len(s) /\ DOMAIN t = 1..Len(t)
      /\ Len(s) \in Nat \ {0} /\ Len(t) \in Nat
  BY <1>1, LenProperties, EmptySeq
<1> HIDE DEF t
<1>3. Head(s) \in Range(s)
  <2>1. 1 \in DOMAIN s
    BY <1>2
  <2>2. QED
    BY <1>1, <2>1 DEF Range
<1>4. \A i \in 1..Len(t) : i+1 \in 1..Len(s) /\ i+1 # 1
  BY <1>1, <1>2
<1>5. Range(t) \subseteq Range(s)
  BY <1>1, <1>2, <1>4 DEF Range
<1>6. Range(s) \subseteq Range(t) \union {Head(s)}
  <2> SUFFICES ASSUME NEW i \in 1..Len(s), i # 1 PROVE s[i] \in Range(t)
    BY <1>1, <1>2 DEF Range
  <2>1. i-1 \in 1..Len(t) /\ s[i] = t[i-1]
    BY <1>1, <1>2
  <2>2. QED
    BY <1>2, <2>1 DEF Range
<1>7. ASSUME IsInjective(s) PROVE IsInjective(t) /\ Head(s) \notin Range(t)
  <2>1. \A i, j \in 1..Len(s) : s[i] = s[j] => i = j
    BY <1>2, <1>7 DEF IsInjective
  <2>2. \A i, j \in 1..Len(t) : t[i] = t[j] => i = j
    BY <1>1, <1>2, <1>4, <2>1
  <2>3. \A i \in 1..Len(t) : t[i] # s[1]
    BY <1>1, <1>2, <1>4, <2>1
  <2>4. QED
    BY <1>1, <1>2, <2>2, <2>3 DEF IsInjective, Range
<1>8. QED
  BY <1>1, <1>3, <1>5, <1>6, <1>7 DEF t

-----------------------------------------------------------------------------
(* Distances in the ring. *)

\* The next index is one further, or the first one.
LEMMA AdvanceCases ==
  ASSUME NEW i \in Index
  PROVE  Advance(i) = IF i = N-1 THEN 0 ELSE i+1
<1>1. i \in Nat /\ N \in Nat \ {0} /\ i <= N-1
  BY NAssumption DEF Index
<1>2. CASE i = N-1
  <2>1. (i + 1) % N = 0
    BY <1>1, <1>2, Z3
  <2>2. QED
    BY <1>2, <2>1 DEF Advance
<1>3. CASE i # N-1
  <2>1. (i + 1) % N = i + 1
    BY <1>1, <1>3, Z3
  <2>2. QED
    BY <1>3, <2>1 DEF Advance
<1>4. QED
  BY <1>2, <1>3

\* The distance of two indices is less than N, determines the one by the
\* other, and changes by one when one of them advances.
LEMMA Distances ==
  ASSUME NEW h \in Index, NEW t \in Index
  PROVE  /\ Queued(h, t) \in Index
         /\ Queued(h, t) \in Nat /\ Queued(h, t) < N
         /\ Queued(h, t) = 0 <=> h = t
         /\ \A g \in Index : Queued(g, t) = Queued(h, t) => g = h
         /\ Queued(Advance(h), t)
              = IF Queued(h, t) = N-1 THEN 0 ELSE Queued(h, t) + 1
         /\ Queued(h, Advance(t))
              = IF h = t THEN N-1 ELSE Queued(h, t) - 1
  BY AdvanceCases, NAssumption DEF Index, Queued

\* The slot at a distance from the tail, and the distance of that slot.
LEMMA SlotAt ==
  ASSUME NEW t \in Index, NEW k \in Index
  PROVE  /\ (t + k) % N \in Index
         /\ Queued((t + k) % N, t) = k
         /\ k # 0 => (t + k) % N = (Advance(t) + (k-1)) % N
<1>1. t \in Nat /\ k \in Nat /\ N \in Nat \ {0} /\ t < N /\ k < N
  BY NAssumption DEF Index
<1>2. (t + k) % N = IF t + k < N THEN t + k ELSE t + k - N
  <2>1. CASE t + k < N
    BY <1>1, <2>1, Z3
  <2>2. CASE t + k >= N
    BY <1>1, <2>2, Z3
  <2>3. QED
    BY <1>1, <2>1, <2>2
<1>3. ASSUME k # 0 PROVE (t + k) % N = (Advance(t) + (k-1)) % N
  <2>1. CASE t = N-1
    <3>1. Advance(t) = 0
      BY <2>1, AdvanceCases
    <3>2. (0 + (k-1)) % N = k-1
      BY <1>1, <1>3, Z3
    <3>3. QED
      BY <1>1, <1>2, <1>3, <2>1, <3>1, <3>2
  <2>2. CASE t # N-1
    <3>1. Advance(t) + (k-1) = t + k
      BY <1>1, <2>2, AdvanceCases
    <3>2. QED
      BY <3>1
  <2>3. QED
    BY <2>1, <2>2
<1>4. QED
  BY <1>1, <1>2, <1>3 DEF Index, Queued

-----------------------------------------------------------------------------
(* The addresses of packets. *)

\* An address leads back to its packet, for pools of any size and place.
THEOREM AddressesLeadBack == RoundTrip
<1> SUFFICES ASSUME NEW p \in InPool
             PROVE  PacketDescriptor(DmaAddr(p), p.size) = p
  BY DEF RoundTrip
<1>1. /\ p = [offset |-> p.offset, size |-> p.size]
      /\ p.offset \in Nat /\ p.size \in Nat /\ p.offset + p.size <= PoolSize
  BY PoolAssumption DEF InPool
<1>2. DmaAddr(p) = PoolBase + p.offset
  BY <1>1, PoolAssumption DEF DmaAddr, Wrapped
<1>3. Wrapped(DmaAddr(p) + p.size) <= Wrapped(PoolBase + PoolSize)
  BY <1>1, <1>2, PoolAssumption DEF Wrapped
<1> QED
  BY <1>1, <1>2, <1>3, PoolAssumption DEF PacketDescriptor, Wrapped

\* An erased descriptor yields no packet, for pools of any size and place.
THEOREM ErasedYieldsNothing == ErasedIsInvalid
  BY PoolAssumption DEF ErasedIsInvalid, PacketDescriptor

\* No descriptor yields a packet outside of the pool.
THEOREM NothingOutside == StaysInPool
<1> SUFFICES ASSUME NEW addr \in 0..AddrSpace-1, NEW len \in 0..AddrSpace-1,
                    addr + len < AddrSpace
             PROVE  PacketDescriptor(addr, len) \in InPool
  BY DEF StaysInPool
<1>1. CASE addr < PoolBase \/ addr + len > PoolBase + PoolSize
  BY <1>1, PoolAssumption DEF PacketDescriptor, Wrapped, Invalid, InPool
<1>2. CASE ~(addr < PoolBase \/ addr + len > PoolBase + PoolSize)
  <2>1. PacketDescriptor(addr, len) = [offset |-> addr - PoolBase, size |-> len]
    BY <1>2, PoolAssumption DEF PacketDescriptor, Wrapped
  <2>2. /\ addr - PoolBase \in 0..PoolSize /\ len \in 0..PoolSize
        /\ (addr - PoolBase) + len <= PoolSize
    BY <1>2, PoolAssumption
  <2> QED
    BY <2>1, <2>2 DEF InPool
<1> QED
  BY <1>1, <1>2
=============================================================================
