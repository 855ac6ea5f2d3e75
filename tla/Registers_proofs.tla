-------------------------- MODULE Registers_proofs --------------------------
(***************************************************************************)
(* Proofs about three units that work through single register accesses and *)
(* share no state: the two the platform driver for the Zynq adds to the    *)
(* generic one, and the I2C master.                                        *)
(*                                                                         *)
(* The DMA guard comes first, for any number of segment registers,         *)
(* sessions and buffers.  The requests of the sessions and the segment     *)
(* registers are two layers of the argument.  RequestInv says which        *)
(* buffers may be granted while a request is carried out; from it follows  *)
(* that _remove_range never finds the segment of another buffer.           *)
(* SegmentInv describes the registers while segments are copied down.      *)
(*                                                                         *)
(* The system-level control registers follow, for any oscillator, any      *)
(* rates that are asked for, any divisors the boot loader leaves, and any  *)
(* number of sessions and of reset domains in the PL.  The arithmetic      *)
(* comes first: what the search for a divisor returns, and that a larger   *)
(* divisor never makes a clock faster.  ClockInv then says what the two    *)
(* fields hold at each step of Fpga_clk::rate, ResetInv what the reset     *)
(* bits and the level shifters are at each step of the nreset switch.  The *)
(* two do not depend on each other.                                        *)
(*                                                                         *)
(* The I2C master is last, for any depth of the FIFO and any bound on the  *)
(* messages.  WireInv relates the bytes on the wire, those in the FIFO and *)
(* the count of the driver, FillInv what is still to be filled in, and     *)
(* StatusInv what the driver's copy of the interrupt status tells.         *)
(***************************************************************************)
EXTENDS DmaGuard, Slcr, I2cMaster, SequenceTheorems, TLAPS

-----------------------------------------------------------------------------
(* The DMA guard *)

-----------------------------------------------------------------------------
(* The inductive invariant. *)

\* The buffer is in the registry of a session with a domain.
InUse(r) == \E d \in Domains : attached[d] /\ r \in buffers[d]

\* A request that is not being carried out leaves nothing to do.
Control == /\ pc = "idle" => todo = {}
           /\ pc = "add" => job = "add"
           /\ pc = "remove" => job = "remove"

\* Buffers differ by address, within and between the registries.
OneBufferPerAddr ==
  \A d, e \in Domains : \A b \in buffers[d], c \in buffers[e] :
    b.addr = c.addr => d = e /\ b = c

\* Only buffers of sessions with a domain are added.
AddsInUse ==
  job = "add" => /\ \A r \in todo : InUse(r)
                 /\ pc = "add" => InUse(range)

\* A granted buffer is in use or waits to be removed.
GrantedInUse == \A r \in granted : InUse(r) \/ (job = "remove" /\ r \in todo)

\* What is to be removed differs by address, and no session with a domain
\* has a buffer of that address any more.
RemovesUnused ==
  job = "remove" =>
    \A r \in todo :
      /\ \A q \in todo : q.addr = r.addr => q = r
      /\ \A d \in Domains : \A b \in buffers[d] :
           b.addr = r.addr => ~attached[d]

\* A running _remove_range is about an address no granted buffer has.
RemovesUngranted ==
  pc = "remove" => \A r \in granted : r.addr # range.addr

RequestInv == /\ Control
              /\ OneBufferPerAddr
              /\ AddsInUse
              /\ GrantedInUse
              /\ RemovesUnused
              /\ RemovesUngranted

\* While segments move down, the register behind the loop counter is free or
\* a copy of the register below it, so overwriting it loses nothing.
SpareBehindCounter ==
  pc = "shift" => /\ i > 0
                  /\ seg[i-1].valid => i > 1 /\ seg[i-1] = seg[i-2]

\* _add_range has only passed valid segments.
ProbedValid == pc = "add" => \A s \in Slots : s < i => seg[s].valid

SegmentInv == /\ ValidPrefix
              /\ SpareBehindCounter
              /\ ProbedValid
              /\ GrantedCovered

-----------------------------------------------------------------------------
\* Every reachable state is well-typed; in particular the shifting loop of
\* _remove_range stays within the segment registers.
THEOREM Typing == Spec => []TypeOK
<1>1. Init => TypeOK
  BY SegmentsAssumption DEF Init, TypeOK, Slots, Sizes, Addrs
<1>2. TypeOK /\ [Next]_vars => TypeOK'
  <2> SUFFICES ASSUME TypeOK, [Next]_vars PROVE TypeOK'
    OBVIOUS
  <2> USE SegmentsAssumption DEF TypeOK
  <2>1. ASSUME NEW d \in Domains, NEW r \in Ranges, AllocBuffer(d, r)
        PROVE TypeOK'
    BY <2>1 DEF AllocBuffer, Start, NothingToDo
  <2>2. ASSUME NEW d \in Domains, NEW r \in Ranges, FreeBuffer(d, r)
        PROVE TypeOK'
    BY <2>2 DEF FreeBuffer, Start, NothingToDo
  <2>3. ASSUME NEW d \in Domains, CreateDomain(d)
        PROVE TypeOK'
    BY <2>3 DEF CreateDomain, Start
  <2>4. ASSUME NEW d \in Domains, DestroyDomain(d)
        PROVE TypeOK'
    BY <2>4 DEF DestroyDomain, Start
  <2>5. ASSUME NEW r \in Ranges, NextRange(r)
        PROVE TypeOK'
    BY <2>5 DEF NextRange, request
  <2>6. CASE RequestDone
    BY <2>6 DEF RequestDone, request
  <2>7. CASE AddProbe
    <3>1. Segment(range) \in [valid : BOOLEAN, addr : Addrs, size : Sizes]
      BY DEF Segment, Addrs, Sizes
    <3>2. seg' \in [Slots -> [valid : BOOLEAN, addr : Addrs, size : Sizes]]
      BY <2>7, <3>1 DEF AddProbe
    <3> QED
      BY <2>7, <3>2 DEF AddProbe, request
  <2>8. CASE AddFails
    BY <2>8 DEF AddFails, request
  <2>9. CASE FindSegment
    <3>1. i \in Slots /\ i' \in 0..NumSegments
      BY <2>9 DEF FindSegment, Slots
    <3>2. seg' \in [Slots -> [valid : BOOLEAN, addr : Addrs, size : Sizes]]
      <4>1. CASE seg' = seg
        BY <4>1
      <4>2. CASE seg' = [seg EXCEPT ![i].valid = FALSE]
        <5>1. [seg[i] EXCEPT !.valid = FALSE]
                \in [valid : BOOLEAN, addr : Addrs, size : Sizes]
          BY <3>1
        <5> QED
          BY <4>2, <5>1, <3>1
      <4> QED
        BY <2>9, <4>1, <4>2 DEF FindSegment
    <3> QED
      BY <2>9, <3>1, <3>2 DEF FindSegment, request
  <2>10. CASE FindFails
    BY <2>10 DEF FindFails, request
  <2>11. CASE ShiftSegment
    <3>1. i \in Slots
      BY <2>11 DEF ShiftSegment, Slots
    <3>2. seg' \in [Slots -> [valid : BOOLEAN, addr : Addrs, size : Sizes]]
      BY <2>11, <3>1 DEF ShiftSegment
    <3> QED
      BY <2>11, <3>2 DEF ShiftSegment, request
  <2>12. CASE ShiftDone
    BY <2>12 DEF ShiftDone, request
  <2>13. CASE UNCHANGED vars
    BY <2>13 DEF vars, request
  <2> QED
    BY <2>1, <2>2, <2>3, <2>4, <2>5, <2>6, <2>7, <2>8, <2>9, <2>10, <2>11,
       <2>12, <2>13 DEF Next, Session, Driver
<1> QED
  BY <1>1, <1>2, PTL DEF Spec

-----------------------------------------------------------------------------
\* Who may hold a grant: at any point of any request, the granted buffers are
\* the ones of sessions with a domain and the ones about to be removed, and
\* the buffer _remove_range works on shares its address with none of them.
LEMMA Requests == Spec => []RequestInv
<1>1. Init => RequestInv
  BY DEF Init, RequestInv, Control, OneBufferPerAddr, AddsInUse, InUse,
         GrantedInUse, RemovesUnused, RemovesUngranted
<1>2. TypeOK /\ RequestInv /\ [Next]_vars => RequestInv'
  <2> SUFFICES ASSUME TypeOK, RequestInv, [Next]_vars PROVE RequestInv'
    OBVIOUS
  <2> USE DEF TypeOK, RequestInv, Control, InUse
  <2>1. ASSUME NEW d \in Domains, NEW r \in Ranges, AllocBuffer(d, r)
        PROVE RequestInv'
    <3>1. OneBufferPerAddr'
      BY <2>1 DEF AllocBuffer, OneBufferPerAddr
    <3>2. \A q : InUse(q) => InUse(q)'
      BY <2>1 DEF AllocBuffer
    <3>3. attached[d] => InUse(r)'
      BY <2>1 DEF AllocBuffer
    <3>4. GrantedInUse'
      BY <2>1, <3>2 DEF AllocBuffer, GrantedInUse, Start, NothingToDo
    <3> QED
      BY <2>1, <3>1, <3>3, <3>4
         DEF AllocBuffer, Start, NothingToDo, AddsInUse, RemovesUnused,
             RemovesUngranted
  <2>2. ASSUME NEW d \in Domains, NEW r \in Ranges, FreeBuffer(d, r)
        PROVE RequestInv'
    <3>1. OneBufferPerAddr'
      BY <2>2 DEF FreeBuffer, OneBufferPerAddr
    <3>2. ASSUME NEW q, InUse(q) PROVE InUse(q)' \/ (attached[d] /\ q = r)
      BY <2>2, <3>2 DEF FreeBuffer, OneBufferPerAddr
    <3>3. GrantedInUse'
      BY <2>2, <3>2 DEF FreeBuffer, GrantedInUse, Start, NothingToDo
    <3>4. \A e \in Domains : \A b \in buffers'[e] : b.addr # r.addr
      BY <2>2 DEF FreeBuffer, OneBufferPerAddr
    <3> QED
      BY <2>2, <3>1, <3>3, <3>4
         DEF FreeBuffer, Start, NothingToDo, AddsInUse, RemovesUnused,
             RemovesUngranted
  <2>3. ASSUME NEW d \in Domains, CreateDomain(d)
        PROVE RequestInv'
    <3>1. \A q : InUse(q) => InUse(q)'
      BY <2>3 DEF CreateDomain
    <3>2. \A q \in buffers[d] : InUse(q)'
      BY <2>3 DEF CreateDomain
    <3> QED
      BY <2>3, <3>1, <3>2
         DEF CreateDomain, Start, OneBufferPerAddr, AddsInUse, GrantedInUse,
             RemovesUnused, RemovesUngranted
  <2>4. ASSUME NEW d \in Domains, DestroyDomain(d)
        PROVE RequestInv'
    <3>1. \A q : InUse(q) => InUse(q)' \/ q \in buffers[d]
      BY <2>4 DEF DestroyDomain
    <3>2. GrantedInUse'
      BY <2>4, <3>1 DEF DestroyDomain, Start, GrantedInUse
    <3>3. RemovesUnused'
      BY <2>4 DEF DestroyDomain, Start, RemovesUnused, OneBufferPerAddr
    <3> QED
      BY <2>4, <3>2, <3>3
         DEF DestroyDomain, Start, OneBufferPerAddr, AddsInUse,
             RemovesUngranted
  <2>5. ASSUME NEW r \in Ranges, NextRange(r)
        PROVE RequestInv'
    <3>1. \A q : InUse(q)' <=> InUse(q)
      BY <2>5 DEF NextRange, request
    <3>2. Control' /\ OneBufferPerAddr' /\ AddsInUse' /\ RemovesUnused'
      BY <2>5, <3>1 DEF NextRange, request, OneBufferPerAddr, AddsInUse,
                        RemovesUnused
    <3>3. GrantedInUse'
      BY <2>5, <3>1 DEF NextRange, GrantedInUse
    <3>4. job = "remove" => \A q \in granted \ {r} : q.addr # r.addr
      BY <2>5 DEF NextRange, GrantedInUse, RemovesUnused
    <3> QED
      BY <2>5, <3>2, <3>3, <3>4 DEF NextRange, RemovesUngranted
  <2>6. CASE RequestDone
    BY <2>6 DEF RequestDone, request, OneBufferPerAddr, AddsInUse,
                GrantedInUse, RemovesUnused, RemovesUngranted
  <2>7. CASE AddProbe
    BY <2>7 DEF AddProbe, request, OneBufferPerAddr, AddsInUse,
                GrantedInUse, RemovesUnused, RemovesUngranted
  <2>8. CASE AddFails
    BY <2>8 DEF AddFails, request, OneBufferPerAddr, AddsInUse,
                GrantedInUse, RemovesUnused, RemovesUngranted
  <2>9. CASE FindSegment
    BY <2>9 DEF FindSegment, request, OneBufferPerAddr, AddsInUse,
                GrantedInUse, RemovesUnused, RemovesUngranted
  <2>10. CASE FindFails
    BY <2>10 DEF FindFails, request, OneBufferPerAddr, AddsInUse,
                 GrantedInUse, RemovesUnused, RemovesUngranted
  <2>11. CASE ShiftSegment
    BY <2>11 DEF ShiftSegment, request, OneBufferPerAddr, AddsInUse,
                 GrantedInUse, RemovesUnused, RemovesUngranted
  <2>12. CASE ShiftDone
    BY <2>12 DEF ShiftDone, request, OneBufferPerAddr, AddsInUse,
                 GrantedInUse, RemovesUnused, RemovesUngranted
  <2>13. CASE UNCHANGED vars
    BY <2>13 DEF vars, request, OneBufferPerAddr, AddsInUse, GrantedInUse,
                 RemovesUnused, RemovesUngranted
  <2> QED
    BY <2>1, <2>2, <2>3, <2>4, <2>5, <2>6, <2>7, <2>8, <2>9, <2>10, <2>11,
       <2>12, <2>13 DEF Next, Session, Driver
<1> QED
  BY <1>1, <1>2, Typing, PTL DEF Spec

-----------------------------------------------------------------------------
\* The register file at every single register write: the valid segments have
\* no gap but the one being closed, the register to be overwritten is spare,
\* and each granted buffer has its segment.
THEOREM Segments == Spec => []SegmentInv
<1> USE SegmentsAssumption
<1>1. Init => SegmentInv
  BY DEF Init, SegmentInv, ValidPrefix, SpareBehindCounter, ProbedValid,
         GrantedCovered
<1>2. TypeOK /\ RequestInv /\ SegmentInv /\ [Next]_vars => SegmentInv'
  <2> SUFFICES ASSUME TypeOK, RequestInv, SegmentInv, [Next]_vars
               PROVE SegmentInv'
    OBVIOUS
  <2> USE DEF TypeOK, SegmentInv
  <2>1. CASE seg' = seg /\ granted' \subseteq granted
             /\ pc # "shift" /\ pc' # "shift" /\ (pc' = "add" => i' = 0)
    BY <2>1 DEF ValidPrefix, SpareBehindCounter, ProbedValid, GrantedCovered,
                Slots
  <2>2. CASE AddProbe
    <3>1. CASE seg[i].valid
      BY <2>2, <3>1 DEF AddProbe, ValidPrefix, SpareBehindCounter,
                        ProbedValid, GrantedCovered, Slots
    <3>2. CASE ~seg[i].valid
      <4>1. i \in Slots /\ seg' = [seg EXCEPT ![i] = Segment(range)]
        BY <2>2, <3>2 DEF AddProbe, Slots
      <4>2. Segment(range).valid /\ \A r \in granted : Segment(r).valid
        BY DEF Segment
      <4>3. GrantedCovered'
        BY <2>2, <3>2, <4>1, <4>2 DEF AddProbe, GrantedCovered
      <4>4. /\ seg'[i].valid
            /\ \A s \in Slots \ {i} : seg'[s] = seg[s]
        BY <4>1, <4>2
      <4>5. ValidPrefix'
        BY <2>2, <4>1, <4>4 DEF AddProbe, ValidPrefix, ProbedValid, Slots
      <4> QED
        BY <2>2, <3>2, <4>3, <4>5
           DEF AddProbe, SpareBehindCounter, ProbedValid
    <3> QED
      BY <3>1, <3>2
  <2>3. CASE FindSegment /\ Matches(seg[i])
    <3>1. /\ i \in Slots /\ i' = i + 1 /\ pc' = "shift"
          /\ seg' = [seg EXCEPT ![i].valid = FALSE]
          /\ granted' = granted
      BY <2>3 DEF FindSegment, Slots
    <3>2. /\ seg'[i].valid = FALSE
          /\ \A s \in Slots \ {i} : seg'[s] = seg[s]
      BY <3>1
    <3>3. ValidPrefix'
      BY <2>3, <3>1, <3>2 DEF FindSegment, ValidPrefix, Slots
    <3>4. SpareBehindCounter'
      BY <3>1, <3>2 DEF SpareBehindCounter, Slots
    <3>5. \A r \in granted : seg[i] # Segment(r)
      BY <2>3 DEF FindSegment, Matches, Segment, RequestInv, RemovesUngranted
    <3>6. GrantedCovered'
      BY <3>1, <3>2, <3>5 DEF GrantedCovered, Segment
    <3> QED
      BY <3>1, <3>3, <3>4, <3>6 DEF ProbedValid
  <2>4. CASE ShiftSegment /\ seg[i].valid
    <3>1. /\ pc = "shift" /\ pc' = "shift" /\ granted' = granted
          /\ i \in Slots /\ i > 0 /\ i - 1 \in Slots /\ i' = i + 1
          /\ seg' = [seg EXCEPT ![i-1] = seg[i]]
      BY <2>4 DEF ShiftSegment, SpareBehindCounter, Slots
    <3>2. /\ seg'[i-1] = seg[i]
          /\ \A s \in Slots \ {i-1} : seg'[s] = seg[s]
      BY <3>1
    <3>3. \A s \in Slots : s < i => seg'[s].valid
      BY <2>4, <3>1, <3>2 DEF ValidPrefix
    <3>4. ValidPrefix'
      BY <3>1, <3>2, <3>3 DEF ValidPrefix, Slots
    <3>5. SpareBehindCounter'
      BY <3>1, <3>2 DEF SpareBehindCounter, Slots
    <3>6. ASSUME NEW r \in granted, seg[i-1] = Segment(r)
          PROVE i - 2 \in Slots /\ seg'[i-2] = Segment(r)
      BY <3>1, <3>2, <3>6 DEF SpareBehindCounter, Segment, Slots
    <3>7. GrantedCovered'
      BY <3>1, <3>2, <3>6 DEF GrantedCovered, Segment
    <3> QED
      BY <3>1, <3>4, <3>5, <3>7 DEF ProbedValid
  <2>6. CASE ShiftSegment /\ ~seg[i].valid
    <3>1. /\ pc = "shift" /\ pc' = "next" /\ UNCHANGED <<seg, granted, i>>
          /\ i \in Slots
      BY <2>6 DEF ShiftSegment, Slots
    <3>2. ValidPrefix'
      BY <2>6, <3>1 DEF ValidPrefix, Slots
    <3> QED
      BY <3>1, <3>2 DEF SpareBehindCounter, ProbedValid, GrantedCovered
  <2>5. CASE ShiftDone
    BY <2>5 DEF ShiftDone, ValidPrefix, SpareBehindCounter, ProbedValid,
                GrantedCovered, Slots
  <2>7. CASE FindSegment /\ ~Matches(seg[i])
    BY <2>1, <2>7 DEF FindSegment
  <2>8. ASSUME NEW r \in Ranges, NextRange(r)
        PROVE SegmentInv'
    BY <2>1, <2>8 DEF NextRange
  <2>9. CASE RequestDone \/ AddFails \/ FindFails
    BY <2>1, <2>9 DEF RequestDone, AddFails, FindFails
  <2>10. ASSUME NEW d \in Domains, Session(d)
         PROVE SegmentInv'
    BY <2>1, <2>10
       DEF Session, AllocBuffer, FreeBuffer, CreateDomain, DestroyDomain,
           Start, NothingToDo
  <2>11. CASE UNCHANGED vars
    BY <2>11 DEF vars, ValidPrefix, SpareBehindCounter, ProbedValid,
                 GrantedCovered
  <2> QED
    BY <2>2, <2>3, <2>4, <2>5, <2>6, <2>7, <2>8, <2>9, <2>10, <2>11
       DEF Next, Driver
<1> QED
  BY <1>1, <1>2, Typing, Requests, PTL DEF Spec

\* The valid segments of the guard have no gap in any reachable state.
THEOREM PrefixInvariant == Spec => []ValidPrefix
  BY Segments, PTL DEF SegmentInv

\* A device never loses its access to a granted buffer before the removal of
\* that buffer begins, at no register write.
THEOREM GrantedStaysCovered == Spec => []GrantedCovered
  BY Segments, PTL DEF SegmentInv

-----------------------------------------------------------------------------
(* The system-level control registers *)

-----------------------------------------------------------------------------
(* Division. *)

\* The quotient and the remainder of a division.
LEMMA Division ==
  ASSUME NEW a \in Nat, NEW b \in Nat \ {0}
  PROVE  /\ a \div b \in Nat /\ a % b \in 0..b-1
         /\ a = b * (a \div b) + (a % b)
  BY Z3

\* A number of times b that is not more than a is not more than the quotient.
LEMMA QuotientIsLargest ==
  ASSUME NEW a \in Nat, NEW b \in Nat \ {0}, NEW q \in Nat, b * q <= a
  PROVE  q <= a \div b
<1> DEFINE d == a \div b
           r == a % b
<1>1. d \in Nat /\ r \in 0..b-1 /\ a = b * d + r
  BY Division
<1> HIDE DEF d, r
<1>2. SUFFICES ASSUME q > d PROVE FALSE
  BY <1>1 DEF d
<1>3. b * q >= b * (d + 1)
  <2>1. q >= d + 1
    BY <1>1, <1>2
  <2>2. \A x, y, z \in Nat : x >= y => z * x >= z * y
    BY Z3
  <2>3. QED
    BY <1>1, <2>1, <2>2
<1>4. b * (d + 1) = b * d + b
  BY <1>1, Z3
<1>5. b * d \in Nat
  BY <1>1, Z3
<1>6. QED
  BY <1>1, <1>3, <1>4, <1>5

\* Quotients grow with the dividend and shrink with the divisor.
LEMMA QuotientOrder ==
  ASSUME NEW a \in Nat, NEW c \in Nat, a <= c,
         NEW b \in Nat \ {0}, NEW d \in Nat \ {0}, d <= b
  PROVE  a \div b <= c \div d
<1> DEFINE q == a \div b
<1>1. q \in Nat /\ b * q <= a
  <2>1. /\ a \div b \in Nat /\ a % b \in Nat /\ a = b * (a \div b) + (a % b)
    BY Division
  <2>2. b * (a \div b) \in Nat
    BY <2>1, Z3
  <2>3. QED
    BY <2>1, <2>2
<1> HIDE DEF q
<1>2. d * q <= b * q
  BY <1>1, Z3
<1>3. d * q \in Nat /\ b * q \in Nat
  BY <1>1, Z3
<1>4. d * q <= c
  BY <1>1, <1>2, <1>3
<1>5. QED
  BY <1>1, <1>4, QuotientIsLargest DEF q

\* Where one number divides another, the quotient times it gives it back.
LEMMA ExactQuotient ==
  ASSUME NEW q \in Nat \ {0}, NEW m \in Nat
  PROVE  (m * q) \div q = m
<1>1. m * q \in Nat /\ q * m <= m * q /\ q * m = m * q
  BY Z3
<1>2. m <= (m * q) \div q
  BY <1>1, QuotientIsLargest
<1> DEFINE d == (m * q) \div q
           r == (m * q) % q
<1>3. d \in Nat /\ r \in Nat /\ m * q = q * d + r
  <2>1. m * q \in Nat /\ q \in Nat \ {0}
    BY <1>1
  <2>2. d \in Nat /\ r \in 0..q-1 /\ m * q = q * d + r
    BY <2>1, Division
  <2>3. QED
    BY <2>2
<1> HIDE DEF d, r
<1>4. q * d <= q * m
  BY <1>1, <1>3, Z3
<1>5. d <= m
  BY <1>3, <1>4, Z3
<1>6. QED
  BY <1>2, <1>3, <1>5 DEF d

-----------------------------------------------------------------------------
(* The search for a divisor. *)

\* What is left to divide and what was found, for a divisor n.
Splits(n) ==
  {s \in [div : Nat \ {0}, result : 1..62] : s.result * s.div = n}

\* Among the powers of a prime that fit there is a largest one.
LEMMA LargestPower ==
  ASSUME NEW p \in Nat \ {0}, NEW S \in SUBSET Powers(p), 1 \in S
  PROVE  Max(S) \in S /\ Max(S) \in Nat \ {0}
<1> DEFINE p2 == p * p
           p3 == p * p * p
           p4 == p * p * p * p
           p5 == p * p * p * p * p
<1>1. /\ p2 \in Nat /\ p <= p2 /\ p3 \in Nat /\ p2 <= p3
      /\ p4 \in Nat /\ p3 <= p4 /\ p5 \in Nat /\ p4 <= p5
  <2>1. \A x, y \in Nat \ {0} : x * y \in Nat \ {0} /\ x <= x * y
    BY Z3
  <2>2. p2 \in Nat \ {0} /\ p <= p2
    BY <2>1
  <2>3. p3 \in Nat \ {0} /\ p2 <= p3
    BY <2>1, <2>2
  <2>4. p4 \in Nat \ {0} /\ p3 <= p4
    BY <2>1, <2>3
  <2>5. p5 \in Nat \ {0} /\ p4 <= p5
    BY <2>1, <2>4
  <2>6. QED
    BY <2>2, <2>3, <2>4, <2>5
<1>2. S \subseteq {1, p, p2, p3, p4, p5}
  BY DEF Powers
<1> HIDE DEF p2, p3, p4, p5
<1>3. \E x \in S : \A y \in S : x >= y
  <2>1. CASE p5 \in S
    BY <1>1, <1>2, <2>1
  <2>2. CASE p5 \notin S /\ p4 \in S
    BY <1>1, <1>2, <2>2
  <2>3. CASE p5 \notin S /\ p4 \notin S /\ p3 \in S
    BY <1>1, <1>2, <2>3
  <2>4. CASE p5 \notin S /\ p4 \notin S /\ p3 \notin S /\ p2 \in S
    BY <1>1, <1>2, <2>4
  <2>5. CASE p5 \notin S /\ p4 \notin S /\ p3 \notin S /\ p2 \notin S /\ p \in S
    BY <1>1, <1>2, <2>5
  <2>6. CASE S \subseteq {1}
    BY <2>6
  <2>7. QED
    BY <1>2, <2>1, <2>2, <2>3, <2>4, <2>5, <2>6
<1>4. Max(S) \in S /\ \A y \in S : Max(S) >= y
  BY <1>3 DEF Max
<1>5. {1, p, p2, p3, p4, p5} \subseteq Nat \ {0}
  BY <1>1
<1>6. QED
  BY <1>2, <1>4, <1>5

\* A round of the loop moves factors, it neither adds nor loses any, and the
\* result stays below 63.
LEMMA RoundSplits ==
  ASSUME NEW n, NEW s \in Splits(n), NEW p \in Nat \ {0}
  PROVE  Round(s, p) \in Splits(n)
<1> DEFINE fits == {q \in Powers(p) : s.div % q = 0 /\ s.result * q < 63}
           q == Max(fits)
<1>1. /\ s.div \in Nat \ {0} /\ s.result \in 1..62 /\ s.result * s.div = n
  BY DEF Splits
<1>2. 1 \in fits
  <2>1. s.div % 1 = 0 /\ s.result * 1 < 63
    BY <1>1, Z3
  <2>2. QED
    BY <2>1 DEF Powers
<1>3. q \in fits /\ q \in Nat \ {0}
  <2>1. fits \in SUBSET Powers(p)
    OBVIOUS
  <2> HIDE DEF fits
  <2>2. QED
    BY <1>2, <2>1, LargestPower
<1>4. s.div % q = 0 /\ s.result * q < 63
  BY <1>3
<1>5. Take(s, p) = [div |-> s.div \div q, result |-> s.result * q]
  BY DEF Take
<1> HIDE DEF fits, q
<1> DEFINE m == s.div \div q
<1>6. m \in Nat /\ s.div = q * m
  <2>1. s.div \in Nat
    BY <1>1
  <2>2. m \in Nat /\ s.div = q * m + (s.div % q)
    BY <1>3, <2>1, Division
  <2>3. q * m \in Nat
    BY <1>3, <2>2, Z3
  <2>4. QED
    BY <1>4, <2>2, <2>3
<1> HIDE DEF m
<1>7. m # 0
  <2>1. q * 0 = 0
    BY <1>3
  <2>2. QED
    BY <1>1, <1>6, <2>1
<1>8. s.result * q \in 1..62
  <2>1. \A x, y \in Nat \ {0} : x * y \in Nat \ {0}
    BY Z3
  <2>2. s.result * q \in Nat \ {0}
    BY <1>1, <1>3, <2>1
  <2>3. QED
    BY <1>4, <2>2
<1>9. (s.result * q) * m = n
  <2>1. \A x, y, z \in Nat : (x * y) * z = x * (y * z)
    BY Z3
  <2>2. s.result \in Nat
    BY <1>1
  <2>3. (s.result * q) * m = s.result * (q * m)
    BY <1>3, <1>6, <2>1, <2>2
  <2>4. QED
    BY <1>1, <1>6, <2>3
<1>10. Take(s, p) \in Splits(n)
  BY <1>5, <1>6, <1>7, <1>8, <1>9 DEF Splits, m
<1>11. QED
  BY <1>10 DEF Round

\* The divisor that is found is one of the number, and fits its field.
LEMMA DivisorFound ==
  ASSUME NEW n \in Nat \ {0}
  PROVE  /\ FindDivisor(n) \in 1..62
         /\ n \div FindDivisor(n) \in Nat \ {0}
         /\ (n \div FindDivisor(n)) * FindDivisor(n) = n
<1> DEFINE Body(f) == [k \in 0..11 |-> IF k = 0 THEN [div |-> n, result |-> 1]
                                       ELSE Round(f[k-1], Primes[k])]
           s0 == [div |-> n, result |-> 1]
           s1 == Round(s0, Primes[1])
           s2 == Round(s1, Primes[2])
           s3 == Round(s2, Primes[3])
           s4 == Round(s3, Primes[4])
           s5 == Round(s4, Primes[5])
           s6 == Round(s5, Primes[6])
           s7 == Round(s6, Primes[7])
           s8 == Round(s7, Primes[8])
           s9 == Round(s8, Primes[9])
           s10 == Round(s9, Primes[10])
           s11 == Round(s10, Primes[11])
           g == [k \in 0..11 |->
                   CASE k = 0 -> s0 [] k = 1 -> s1 [] k = 2 -> s2 [] k = 3 -> s3
                     [] k = 4 -> s4 [] k = 5 -> s5 [] k = 6 -> s6 [] k = 7 -> s7
                     [] k = 8 -> s8 [] k = 9 -> s9 [] k = 10 -> s10
                     [] k = 11 -> s11]
           left == CHOOSE f : f = Body(f)
<1>1. FindDivisor(n) = left[11].result
  <2>1. Len(Primes) = 11
    BY DEF Primes
  <2>2. QED
    BY <2>1 DEF FindDivisor
<1>2. g = Body(g)
  <2> HIDE DEF Round, s0
  <2>1. /\ g[0] = s0 /\ g[1] = s1 /\ g[2] = s2 /\ g[3] = s3 /\ g[4] = s4
        /\ g[5] = s5 /\ g[6] = s6 /\ g[7] = s7 /\ g[8] = s8 /\ g[9] = s9
        /\ g[10] = s10 /\ g[11] = s11
    <3> HIDE DEF s1, s2, s3, s4, s5, s6, s7, s8, s9, s10, s11
    <3>1. QED
      OBVIOUS
  <2>2. /\ s1 = Round(s0, Primes[1]) /\ s2 = Round(s1, Primes[2])
        /\ s3 = Round(s2, Primes[3]) /\ s4 = Round(s3, Primes[4])
        /\ s5 = Round(s4, Primes[5]) /\ s6 = Round(s5, Primes[6])
        /\ s7 = Round(s6, Primes[7]) /\ s8 = Round(s7, Primes[8])
        /\ s9 = Round(s8, Primes[9]) /\ s10 = Round(s9, Primes[10])
        /\ s11 = Round(s10, Primes[11])
    OBVIOUS
  <2>3. DOMAIN g = 0..11 /\ g = [k \in 0..11 |-> g[k]]
    OBVIOUS
  <2> HIDE DEF g, s1, s2, s3, s4, s5, s6, s7, s8, s9, s10, s11
  <2>4. \A k \in 0..11 : g[k] = IF k = 0 THEN s0 ELSE Round(g[k-1], Primes[k])
    <3> TAKE k \in 0..11
    <3>1. \/ k = 0 \/ k = 1 \/ k = 2 \/ k = 3 \/ k = 4 \/ k = 5 \/ k = 6
          \/ k = 7 \/ k = 8 \/ k = 9 \/ k = 10 \/ k = 11
      OBVIOUS
    <3>2. QED
      BY <2>1, <2>2, <3>1
  <2>5. QED
    BY <2>3, <2>4 DEF s0
<1> HIDE DEF g
<1>3. left = Body(left)
  BY <1>2
<1> HIDE DEF left
<1>4. /\ left[0] = [div |-> n, result |-> 1]
      /\ \A k \in 1..11 : left[k] = Round(left[k-1], Primes[k])
  BY <1>3
<1>5. \A k \in 1..11 : Primes[k] \in Nat \ {0}
  BY DEF Primes
<1>6. left[0] \in Splits(n)
  BY <1>4 DEF Splits
<1>7. ASSUME NEW k \in 1..11, left[k-1] \in Splits(n)
      PROVE  left[k] \in Splits(n)
  BY <1>4, <1>5, <1>7, RoundSplits
<1>8. left[1] \in Splits(n) /\ left[2] \in Splits(n) /\ left[3] \in Splits(n)
  BY <1>6, <1>7
<1>9. left[4] \in Splits(n) /\ left[5] \in Splits(n) /\ left[6] \in Splits(n)
  BY <1>7, <1>8
<1>10. left[7] \in Splits(n) /\ left[8] \in Splits(n) /\ left[9] \in Splits(n)
  BY <1>7, <1>9
<1>11. left[11] \in Splits(n)
  <2>1. left[10] \in Splits(n)
    BY <1>7, <1>10
  <2>2. QED
    BY <1>7, <2>1
<1> DEFINE q == left[11].result
           m == left[11].div
<1>12. q \in 1..62 /\ m \in Nat \ {0} /\ q * m = n
  BY <1>11 DEF Splits
<1> HIDE DEF q, m
<1>13. m * q = n
  BY <1>12, Z3
<1>14. n \div q = m
  <2>1. q \in Nat \ {0} /\ m \in Nat
    BY <1>12
  <2>2. (m * q) \div q = m
    BY <2>1, ExactQuotient
  <2>3. QED
    BY <1>13, <2>2
<1>15. FindDivisor(n) = q
  BY <1>1 DEF q
<1>16. QED
  BY <1>12, <1>13, <1>14, <1>15

-----------------------------------------------------------------------------
(* Types. *)

\* The limit is positive.
LEMMA MaxTargetType == MaxTarget \in Nat \ {0}
  BY Z3 DEF MaxTarget

\* The PLLs are faster than any target, so there is a divisor for each rate.
LEMMA ParentFast ==
  ASSUME src \in Sources PROVE Parent \in Nat /\ Parent > MaxTarget
  BY RatesAssumption DEF Parent

\* The number that is divided up for a rate.
LEMMA TargetDivType ==
  ASSUME src \in Sources, NEW t \in 1..MaxTarget
  PROVE  TargetDiv(t) \in Nat \ {0}
<1>1. MaxTarget \in Nat
  BY MaxTargetType
<1>2. /\ Parent \in Nat /\ t \in Nat \ {0} /\ t * 1 <= Parent
  BY <1>1, ParentFast
<1>3. 1 <= Parent \div t /\ Parent \div t \in Nat
  BY <1>2, Division, QuotientIsLargest
<1> DEFINE d == Parent \div t
<1> HIDE DEF d
<1>4. /\ d + 1 \in Nat \ {0} /\ d + 0 \in Nat \ {0}
  BY <1>3 DEF d
<1>5. QED
  BY <1>4 DEF TargetDiv, d

\* A field takes what is below 64.
LEMMA FieldKeeps == \A n \in 0..63 : Field(n) = n
  BY Z3 DEF Field

\* A field never holds more than 63.
LEMMA FieldType == \A n \in Nat : Field(n) \in 0..63
  BY Z3 DEF Field

\* The rates of a clock are never higher than that of its PLL, and a larger
\* divisor makes a clock slower, if anything.
LEMMA RateOrder ==
  ASSUME src \in Sources,
         NEW a \in Nat, NEW b \in Nat, NEW c \in Nat, NEW d \in Nat,
         a <= c, b <= d
  PROVE  Rate(c, d) <= Rate(a, b) /\ Rate(a, b) \in 0..Parent
<1>1. /\ AtLeast1(a) \in Nat \ {0} /\ AtLeast1(b) \in Nat \ {0}
      /\ AtLeast1(c) \in Nat \ {0} /\ AtLeast1(d) \in Nat \ {0}
      /\ AtLeast1(a) <= AtLeast1(c) /\ AtLeast1(b) <= AtLeast1(d)
  BY DEF AtLeast1
<1> HIDE DEF AtLeast1
<1> DEFINE x == Parent \div AtLeast1(a)
           y == Parent \div AtLeast1(c)
<1>2. Parent \in Nat
  BY ParentFast
<1>3. x \in Nat /\ y \in Nat /\ y <= x
  <2>1. x \in Nat /\ y \in Nat
    BY <1>1, <1>2, Division
  <2>2. Parent <= Parent
    BY <1>2
  <2>3. Parent \div AtLeast1(c) <= Parent \div AtLeast1(a)
    BY <1>1, <1>2, <2>2, QuotientOrder
  <2>4. QED
    BY <2>1, <2>3
<1>4. x <= Parent
  <2>1. Parent \div AtLeast1(a) <= Parent \div 1
    <3>1. Parent <= Parent /\ 1 \in Nat \ {0} /\ 1 <= AtLeast1(a)
      BY <1>1, <1>2
    <3>2. QED
      BY <1>1, <1>2, <3>1, QuotientOrder
  <2>2. Parent \div 1 = Parent
    BY <1>2, Z3
  <2>3. QED
    BY <2>1, <2>2
<1> HIDE DEF x, y
<1>5. y \div AtLeast1(d) <= x \div AtLeast1(b)
  BY <1>1, <1>3, QuotientOrder
<1>6. x \div AtLeast1(b) \in Nat /\ x \div AtLeast1(b) <= x
  <2>1. x \div AtLeast1(b) <= x \div 1
    <3>1. x <= x /\ 1 \in Nat \ {0} /\ 1 <= AtLeast1(b)
      BY <1>1, <1>3
    <3>2. QED
      BY <1>1, <1>3, <3>1, QuotientOrder
  <2>2. x \div 1 = x
    BY <1>3, Z3
  <2>3. x \div AtLeast1(b) \in Nat
    BY <1>1, <1>3, Division
  <2>4. QED
    BY <2>1, <2>2, <2>3
<1>7. x \div AtLeast1(b) \in 0..Parent
  BY <1>2, <1>3, <1>4, <1>6
<1>8. QED
  BY <1>5, <1>7 DEF Rate, x, y

\* The types of the clock and of the resets, whatever rate is asked for: in
\* particular Divisor1 is never 0 and what is found for it fits the field.
THEOREM RegisterTyping == SlcrSpec => []SlcrTypeOK
<1> USE DEF slcrVars, clock, divisors, resets
<1>1. SlcrInit => SlcrTypeOK
  <2> SUFFICES ASSUME SlcrInit PROVE SlcrTypeOK
    OBVIOUS
  <2>1. src \in Sources /\ Div0 \in Nat /\ Div1 \in Nat
    BY DivAssumption DEF SlcrInit
  <2>2. old \in 0..Parent
    BY <2>1, RateOrder DEF SlcrInit
  <2>3. 0 \in 0..MaxTarget
    BY MaxTargetType
  <2>4. Div0 \in 0..63 /\ Div0 \in Nat \ {0} /\ Div1 \in 1..63
    BY DivAssumption
  <2>5. QED
    BY <2>2, <2>3, <2>4 DEF SlcrInit, SlcrTypeOK
<1>2. SlcrTypeOK /\ [SlcrNext]_slcrVars => SlcrTypeOK'
  <2> SUFFICES ASSUME SlcrTypeOK, [SlcrNext]_slcrVars PROVE SlcrTypeOK'
    OBVIOUS
  <2>1. src' = src /\ Parent' = Parent
    <3>1. src' = src
      BY DEF SlcrNext, Request, SlcrDriver, SetRate, Acquire, Release, Use,
             SlowDown0, SlowDown1, SetDivisor0, SetDivisor1, Halt, Disconnect,
             DrivePl, Connect, Run
    <3>2. QED
      BY <3>1 DEF Parent
  <2>2. ASSUME NEW r \in Rates, SetRate(r) PROVE SlcrTypeOK'
    <3> DEFINE t == IF r > MaxTarget THEN MaxTarget ELSE r
               n == TargetDiv(t)
    <3>1. t \in 1..MaxTarget
      BY RatesAssumption, MaxTargetType
    <3>2. n \in Nat \ {0}
      BY <3>1, TargetDivType DEF SlcrTypeOK
    <3>3. target' = t /\ new1' = FindDivisor(n) /\ new0' = n \div FindDivisor(n)
      BY <2>2 DEF SetRate
    <3> HIDE DEF n, t
    <3>4. /\ new1' \in 1..62 /\ new0' \in Nat \ {0}
          /\ target' \in 0..MaxTarget
      BY <3>1, <3>2, <3>3, DivisorFound
    <3>5. old' \in 0..Parent
      <4>1. div0 \in Nat /\ div1 \in Nat /\ src \in Sources
        BY DEF SlcrTypeOK
      <4>2. old' = Rate(div0, div1)
        BY <2>2 DEF SetRate
      <4>3. QED
        BY <4>1, <4>2, RateOrder
    <3>6. QED
      BY <2>1, <2>2, <3>4, <3>5 DEF SetRate, SlcrTypeOK
  <2>3. ASSUME NEW d \in ResetDomains, NEW users \in SUBSET Sessions,
               Use(d, users)
        PROVE  SlcrTypeOK'
    <3>1. /\ holders' \in [ResetDomains -> SUBSET Sessions]
          /\ rst' \in [Fpga -> BOOLEAN]
          /\ step' \in {"idle", "halt", "connect"}
      BY <2>3 DEF Use, SlcrTypeOK, Held
    <3>2. QED
      BY <2>1, <2>3, <3>1 DEF Use, SlcrTypeOK
  <2>4. CASE SlowDown0 \/ SlowDown1
    BY <2>1, <2>4 DEF SlowDown0, SlowDown1, SlcrTypeOK
  <2>5. CASE SetDivisor0
    <3>1. Field(new0) \in 0..63
      BY FieldType DEF SlcrTypeOK
    <3>2. QED
      BY <2>1, <2>5, <3>1 DEF SetDivisor0, SlcrTypeOK
  <2>6. CASE SetDivisor1
    <3>1. Field(new1) \in 1..63
      BY FieldKeeps DEF SlcrTypeOK
    <3>2. QED
      BY <2>1, <2>6, <3>1 DEF SetDivisor1, SlcrTypeOK
  <2>7. CASE Halt \/ Disconnect \/ DrivePl \/ Connect \/ Run
    BY <2>1, <2>7 DEF Halt, Disconnect, DrivePl, Connect, Run, SlcrTypeOK
  <2>8. CASE UNCHANGED slcrVars
    BY <2>1, <2>8 DEF SlcrTypeOK
  <2>9. CASE Request
    <3>1. ASSUME NEW s \in Sessions, NEW d \in ResetDomains,
                 Acquire(s, d) \/ Release(s, d)
          PROVE  SlcrTypeOK'
      <4>1. \E users \in SUBSET Sessions : Use(d, users)
        BY <3>1 DEF Acquire, Release, SlcrTypeOK
      <4>2. QED
        BY <2>3, <4>1
    <3>2. QED
      BY <2>2, <2>9, <3>1 DEF Request
  <2>10. QED
    BY <2>4, <2>5, <2>6, <2>7, <2>8, <2>9 DEF SlcrNext, SlcrDriver
<1>3. QED
  BY <1>1, <1>2, PTL DEF SlcrSpec

-----------------------------------------------------------------------------
(* The rate of a clock. *)

\* What the fields hold at each step of Fpga_clk::rate, and how the new
\* divisors come from the target.
ClockInv ==
  /\ step \in {"max0", "max1", "set0"} => Rate(div0, div1) <= old
  /\ step \in {"max1", "set0"} => div0 = 63
  /\ step = "set0" => div1 = 63
  /\ step = "set1" => div0 = Field(new0) /\ div1 = 63
  /\ step \notin {"max0", "max1", "set0", "set1"}
       => div0 = Field(new0) /\ div1 = Field(new1)
  /\ target # 0 => new0 * new1 = TargetDiv(target) /\ new1 \in 1..62

\* Requests and writes keep ClockInv, whatever else the driver does.
THEOREM ClockKept == SlcrSpec => []ClockInv
<1> USE DEF slcrVars, clock, divisors, resets
<1>1. SlcrInit => ClockInv
  <2> SUFFICES ASSUME SlcrInit PROVE ClockInv
    OBVIOUS
  <2>1. Field(Div0) = Div0 /\ Field(Div1) = Div1
    BY FieldKeeps, DivAssumption
  <2>2. QED
    BY <2>1 DEF SlcrInit, ClockInv
<1>2. SlcrTypeOK /\ ClockInv /\ [SlcrNext]_slcrVars => ClockInv'
  <2> SUFFICES ASSUME SlcrTypeOK, ClockInv, [SlcrNext]_slcrVars
               PROVE  ClockInv'
    OBVIOUS
  <2>1. /\ src \in Sources /\ div0 \in 0..63 /\ div1 \in 1..63
        /\ new0 \in Nat \ {0} /\ new1 \in 1..63
    BY DEF SlcrTypeOK
  <2>2. UNCHANGED src => /\ \A t : TargetDiv(t)' = TargetDiv(t)
                         /\ \A a, b : Rate(a, b)' = Rate(a, b)
    BY DEF TargetDiv, Rate, Parent
  <2>3. ASSUME NEW r \in Rates, SetRate(r) PROVE ClockInv'
    <3> DEFINE t == IF r > MaxTarget THEN MaxTarget ELSE r
               n == TargetDiv(t)
    <3>1. t \in 1..MaxTarget
      BY RatesAssumption, MaxTargetType
    <3>2. n \in Nat \ {0}
      BY <2>1, <3>1, TargetDivType
    <3>3. /\ target' = t /\ new1' = FindDivisor(n)
          /\ new0' = n \div FindDivisor(n)
          /\ old' = Rate(div0, div1) /\ step' = "max0"
          /\ UNCHANGED <<src, div0, div1>>
      BY <2>3 DEF SetRate
    <3> HIDE DEF t
    <3>4. new1' \in 1..62 /\ new0' * new1' = n
      <4> HIDE DEF n
      <4>1. QED
        BY <3>2, <3>3, DivisorFound
    <3>5. TargetDiv(target)' = n
      BY <3>3 DEF TargetDiv, Parent
    <3>6. Rate(div0, div1)' = Rate(div0, div1) /\ Rate(div0, div1) \in 0..Parent
      <4>1. div0 \in Nat /\ div1 \in Nat
        BY <2>1
      <4>2. Rate(div0, div1) \in 0..Parent
        BY <2>1, <4>1, RateOrder
      <4>3. QED
        BY <3>3, <4>2 DEF Rate, Parent
    <3>7. Rate(div0, div1)' <= old'
      <4>1. Parent \in Nat
        BY <2>1, ParentFast
      <4>2. QED
        BY <3>3, <3>6, <4>1
    <3> HIDE DEF n
    <3>8. QED
      BY <3>3, <3>4, <3>5, <3>7 DEF ClockInv
  <2>4. ASSUME UNCHANGED <<src, new0, new1, target, old>>,
               /\ step' \in {"max0", "max1", "set0"} => Rate(div0', div1') <= old
               /\ step' \in {"max1", "set0"} => div0' = 63
               /\ step' = "set0" => div1' = 63
               /\ step' = "set1" => div0' = Field(new0) /\ div1' = 63
               /\ step' \notin {"max0", "max1", "set0", "set1"}
                    => div0' = Field(new0) /\ div1' = Field(new1)
        PROVE  ClockInv'
    <3>1. /\ Rate(div0, div1)' = Rate(div0', div1')
          /\ TargetDiv(target)' = TargetDiv(target)
      BY <2>4 DEF TargetDiv, Rate, Parent
    <3>2. Field(new0)' = Field(new0) /\ Field(new1)' = Field(new1)
      BY <2>4 DEF Field
    <3>3. QED
      BY <2>4, <3>1, <3>2 DEF ClockInv
  <2>5. CASE SlowDown0 \/ SlowDown1
    <3>1. div0' \in Nat /\ div0 <= div0' /\ div1' \in Nat /\ div1 <= div1'
      BY <2>1, <2>5 DEF SlowDown0, SlowDown1
    <3>2. Rate(div0', div1') <= Rate(div0, div1)
      BY <2>1, <3>1, RateOrder
    <3>3. /\ Rate(div0, div1) \in 0..Parent /\ Rate(div0', div1') \in 0..Parent
          /\ old \in 0..Parent /\ Parent \in Nat
      <4>1. div0 \in Nat /\ div1 \in Nat /\ div0' <= div0' /\ div1' <= div1'
        BY <2>1, <3>1
      <4>2. Rate(div0, div1) \in 0..Parent
        BY <2>1, <3>1, <4>1, RateOrder
      <4>3. Rate(div0', div1') \in 0..Parent
        BY <2>1, <3>1, <4>1, RateOrder
      <4>4. QED
        BY <2>1, <4>2, <4>3, ParentFast DEF SlcrTypeOK
    <3>4. Rate(div0, div1) <= old
      BY <2>5 DEF SlowDown0, SlowDown1, ClockInv
    <3>5. Rate(div0', div1') <= old
      BY <3>2, <3>3, <3>4
    <3>6. /\ step' \in {"max1", "set0"} => div0' = 63
          /\ step' = "set0" => div1' = 63
      BY <2>5 DEF SlowDown0, SlowDown1, ClockInv
    <3>7. QED
      BY <2>4, <2>5, <3>5, <3>6 DEF SlowDown0, SlowDown1
  <2>6. CASE SetDivisor0
    BY <2>4, <2>6 DEF SetDivisor0, ClockInv
  <2>7. CASE SetDivisor1
    BY <2>4, <2>7 DEF SetDivisor1, ClockInv
  <2>8. ASSUME UNCHANGED clock,
               \/ step' = step
               \/ {step, step'} \cap {"max0", "max1", "set0", "set1"} = {}
        PROVE  ClockInv'
    BY <2>4, <2>8 DEF ClockInv
  <2>9. CASE Request
    <3>1. ASSUME NEW d, NEW users, Use(d, users) PROVE ClockInv'
      BY <2>8, <3>1 DEF Use
    <3>2. QED
      BY <2>3, <2>9, <3>1 DEF Request, Acquire, Release
  <2>10. CASE Halt \/ Disconnect \/ DrivePl \/ Connect \/ Run
    BY <2>8, <2>10 DEF Halt, Disconnect, DrivePl, Connect, Run
  <2>11. CASE UNCHANGED slcrVars
    BY <2>8, <2>11
  <2>12. QED
    BY <2>5, <2>6, <2>7, <2>9, <2>10, <2>11 DEF SlcrNext, SlcrDriver
<1>3. QED
  BY <1>1, <1>2, RegisterTyping, PTL DEF SlcrSpec

\* Whatever the rates and the divisors before and after, no intermediate
\* setting makes the clock of the PL faster than both.
THEOREM NeverFaster == SlcrSpec => []NoOvershoot
<1>1. SlcrTypeOK /\ ClockInv => NoOvershoot
  <2> SUFFICES ASSUME SlcrTypeOK, ClockInv PROVE NoOvershoot
    OBVIOUS
  <2>1. CASE step \in {"max0", "max1", "set0"}
    BY <2>1 DEF ClockInv, NoOvershoot
  <2>2. CASE step \notin {"max0", "max1", "set0"}
    <3>1. /\ Field(new0) \in Nat /\ Field(new1) \in Nat /\ Field(new1) <= 63
          /\ src \in Sources
      BY FieldType DEF SlcrTypeOK
    <3>2. /\ div0 = Field(new0) /\ div1 \in Nat /\ Field(new1) <= div1
          /\ Field(new0) <= Field(new0)
      BY <2>2, <3>1 DEF ClockInv
    <3>3. Rate(div0, div1) <= Rate(Field(new0), Field(new1))
      BY <3>1, <3>2, RateOrder
    <3>4. QED
      BY <3>3 DEF NoOvershoot
  <2>3. QED
    BY <2>1, <2>2
<1>2. QED
  BY <1>1, RegisterTyping, ClockKept, PTL

\* The rounded quotient times the divisor is off by half the divisor at most.
LEMMA RoundedQuotient ==
  ASSUME NEW a \in Nat, NEW t \in Nat \ {0}, NEW n \in Nat,
         n = (a \div t) + (IF a % t >= t \div 2 THEN 1 ELSE 0)
  PROVE  /\ n * t \in Nat
         /\ a < n * t => 2 * (n * t - a) <= t + 1
         /\ a >= n * t => 2 * (a - n * t) <= t + 1
<1> DEFINE q == a \div t
           r == a % t
           h == t \div 2
<1>1. q \in Nat /\ r \in 0..t-1 /\ a = t * q + r
  BY Division
<1>2. h \in Nat /\ (t = 2 * h \/ t = 2 * h + 1)
  <2>1. h \in Nat /\ t % 2 \in 0..2-1 /\ t = 2 * h + (t % 2)
    BY Division
  <2>2. t % 2 = 0 \/ t % 2 = 1
    BY <2>1
  <2>3. QED
    BY <2>1, <2>2
<1>3. n = IF r >= h THEN q + 1 ELSE q
  BY <1>1
<1> HIDE DEF q, r, h
<1> DEFINE m == t * q
           p == n * t
<1>4. m \in Nat /\ q * t = m /\ (q + 1) * t = m + t /\ a = m + r
  BY <1>1, Z3
<1>5. CASE r >= h
  <2>1. p = m + t
    BY <1>3, <1>4, <1>5
  <2> HIDE DEF m, p
  <2>2. p - a = t - r /\ p \in Nat
    BY <1>1, <1>4, <2>1
  <2>3. a < p => 2 * (p - a) <= t + 1
    BY <1>1, <1>2, <1>5, <2>2
  <2>4. a >= p => 2 * (a - p) <= t + 1
    BY <1>1, <2>2
  <2>5. QED
    BY <2>2, <2>3, <2>4 DEF p
<1>6. CASE ~(r >= h)
  <2>1. p = m
    BY <1>3, <1>4, <1>6
  <2> HIDE DEF m, p
  <2>2. a - p = r /\ p \in Nat
    BY <1>1, <1>4, <2>1
  <2>3. ~(a < p) /\ 2 * (a - p) <= t + 1
    BY <1>1, <1>2, <1>6, <2>2
  <2>4. QED
    BY <2>2, <2>3 DEF p
<1>7. QED
  BY <1>5, <1>6

\* Two truncating divisions lose less than one step of the product.
LEMMA RateOfProduct ==
  ASSUME NEW a \in Nat, NEW d0 \in Nat \ {0}, NEW d1 \in Nat \ {0}
  PROVE  LET g == (a \div d0) \div d1
             n == d0 * d1
         IN /\ g \in Nat /\ n \in Nat \ {0} /\ n * g \in Nat
            /\ n * g <= a
            /\ a <= n * g + n - 1
<1> DEFINE q == a \div d0
           r == a % d0
           g == q \div d1
           u == q % d1
           n == d0 * d1
<1>1. q \in Nat /\ r \in 0..d0-1 /\ a = d0 * q + r
  BY Division
<1>2. g \in Nat /\ u \in 0..d1-1 /\ q = d1 * g + u
  BY <1>1, Division
<1> HIDE DEF q, r, g, u
<1>3. n \in Nat \ {0} /\ n * g \in Nat
  BY <1>2, Z3
<1>4. d0 * q = n * g + d0 * u
  BY <1>1, <1>2, Z3
<1>5. d0 * u \in Nat /\ d0 * u <= n - d0
  <2>1. u \in Nat /\ d1 - 1 - u \in Nat
    BY <1>2
  <2>2. n = d0 * u + d0 * (d1 - 1 - u) + d0
    BY <2>1, Z3
  <2>3. d0 * u \in Nat /\ d0 * (d1 - 1 - u) \in Nat
    BY <2>1, Z3
  <2> HIDE DEF n
  <2>4. QED
    BY <1>3, <2>2, <2>3
<1> DEFINE p == n * g
           e == d0 * u
<1>6. a = p + e + r /\ p \in Nat /\ e \in Nat /\ e <= n - d0
  BY <1>1, <1>3, <1>4, <1>5
<1> HIDE DEF n, p, e
<1>7. p <= a /\ a <= p + n - 1
  BY <1>1, <1>3, <1>6
<1>8. QED
  BY <1>2, <1>3, <1>7 DEF n, p, g, q

\* The distance of two numbers n times as far is n times their distance.
LEMMA Scaled ==
  ASSUME NEW n \in Nat, NEW g \in Nat, NEW t \in Nat
  PROVE  /\ n * g \in Nat /\ n * t \in Nat
         /\ 2 * n * (g - t) = 2 * (n * g - n * t)
         /\ 2 * n * (t - g) = 2 * (n * t - n * g)
  BY Z3

\* If the factor for Divisor0 fits its field, the PL gets the rate that was
\* asked for but for half a divisor step and truncation, for every rate and
\* every PLL: the search for factors loses none.
THEOREM RateCloseToTarget == SlcrSpec => []CloseToTarget
<1>1. SlcrTypeOK /\ ClockInv => CloseToTarget
  <2> DEFINE n == div0 * div1
             g == Rate(div0, div1)
  <2> SUFFICES ASSUME SlcrTypeOK, ClockInv, step = "idle", target # 0, new0 < 64
               PROVE  /\ 2 * n * (g - target) <= target + 1
                      /\ 2 * n * (target - g) <= target + 1 + 2 * (n - 1)
    BY DEF CloseToTarget
  <2>1. /\ new0 \in 1..63 /\ new1 \in 1..63
        /\ new0 * new1 = TargetDiv(target)
    BY DEF SlcrTypeOK, ClockInv
  <2>2. div0 = new0 /\ div1 = new1
    BY <2>1, FieldKeeps DEF ClockInv
  <2>3. target \in Nat \ {0}
    BY MaxTargetType DEF SlcrTypeOK
  <2>4. Parent \in Nat
    BY ParentFast DEF SlcrTypeOK
  <2>5. n = (Parent \div target)
              + (IF Parent % target >= target \div 2 THEN 1 ELSE 0)
    BY <2>1, <2>2 DEF TargetDiv
  <2>6. g = (Parent \div div0) \div div1
    BY <2>1, <2>2 DEF Rate, AtLeast1
  <2>7. /\ g \in Nat /\ n \in Nat \ {0} /\ n * g \in Nat
        /\ n * g <= Parent /\ Parent <= n * g + n - 1
    <3>1. div0 \in Nat \ {0} /\ div1 \in Nat \ {0}
      BY <2>1, <2>2
    <3>2. QED
      BY <2>4, <2>6, <3>1, RateOfProduct
  <2> HIDE DEF n, g
  <2>8. /\ n * target \in Nat
        /\ Parent < n * target => 2 * (n * target - Parent) <= target + 1
        /\ Parent >= n * target => 2 * (Parent - n * target) <= target + 1
    BY <2>3, <2>4, <2>5, <2>7, RoundedQuotient
  <2>9. /\ 2 * n * (g - target) = 2 * (n * g - n * target)
        /\ 2 * n * (target - g) = 2 * (n * target - n * g)
    BY <2>3, <2>7, Scaled
  <2> DEFINE p == n * g
             m == n * target
  <2>10. p \in Nat /\ m \in Nat /\ p <= Parent /\ Parent <= p + n - 1
    BY <2>7, <2>8
  <2>11. /\ Parent < m => 2 * (m - Parent) <= target + 1
         /\ Parent >= m => 2 * (Parent - m) <= target + 1
    BY <2>8
  <2> HIDE DEF p, m
  <2>12. 2 * (p - m) <= target + 1 /\ 2 * (m - p) <= target + 1 + 2 * (n - 1)
    BY <2>3, <2>4, <2>7, <2>10, <2>11
  <2>13. QED
    BY <2>9, <2>12 DEF p, m
<1>2. QED
  BY <1>1, RegisterTyping, ClockKept, PTL

-----------------------------------------------------------------------------
(* The resets. *)

\* The PL is disconnected in reset; then devices run for their users only; it
\* is connected before all devices run again; and devcfg has an owner until
\* the nreset switch is turned back.
ResetInv ==
  /\ step \in {"disconnect", "drive"} => \A d \in Fpga : rst[d]
  /\ lvl = "DISABLE" => step = "drive"
  /\ lvl # "ALL" => \A d \in Fpga : ~rst[d] => holders[d] # {}
  /\ step = "run" => lvl = "ALL"
  /\ step \in {"halt", "disconnect", "drive"} => holders[nreset] # {}

\* No request and no write to a reset or level shifter register breaks
\* ResetInv or leaves a device in reset that is in use.
THEOREM ResetKept == SlcrSpec => [](ResetInv /\ DevicesRun)
<1> USE DEF slcrVars, resets
<1>1. SlcrInit => ResetInv /\ DevicesRun
  BY DEF SlcrInit, ResetInv, DevicesRun
<1>2. SlcrTypeOK /\ ResetInv /\ DevicesRun /\ [SlcrNext]_slcrVars
        => (ResetInv /\ DevicesRun)'
  <2> SUFFICES ASSUME SlcrTypeOK, ResetInv, DevicesRun, [SlcrNext]_slcrVars
               PROVE  (ResetInv /\ DevicesRun)'
    OBVIOUS
  <2>1. /\ rst \in [Fpga -> BOOLEAN]
        /\ holders \in [ResetDomains -> SUBSET Sessions]
        /\ \A d \in Fpga : d \in ResetDomains /\ d # nreset
        /\ nreset \in ResetDomains
    BY FpgaAssumption DEF SlcrTypeOK, ResetDomains
  <2>2. ASSUME UNCHANGED <<rst, lvl, holders>>,
               \/ step' = step
               \/ {step, step'} \subseteq {"idle", "max0", "max1", "set0", "set1"}
        PROVE  (ResetInv /\ DevicesRun)'
    BY <2>2 DEF ResetInv, DevicesRun
  <2>3. ASSUME NEW d \in ResetDomains, NEW users,
               users # holders[d], users # {} \/ holders[d] # {},
               Use(d, users)
        PROVE  (ResetInv /\ DevicesRun)'
    <3>1. /\ step = "idle" /\ lvl' = lvl
          /\ \A e \in ResetDomains : holders'[e] = IF e = d THEN users ELSE holders[e]
      BY <2>1, <2>3 DEF Use
    <3>2. CASE holders[d] # {} /\ users # {}
      <4>1. UNCHANGED <<rst, step>>
        BY <2>3, <3>2 DEF Use
      <4>2. \A e \in ResetDomains : holders'[e] = {} <=> holders[e] = {}
        BY <3>1, <3>2
      <4>3. QED
        BY <2>1, <3>1, <4>1, <4>2 DEF ResetInv, DevicesRun
    <3>3. CASE d # nreset /\ ~(holders[d] # {} /\ users # {})
      <4>1. /\ d \in Fpga /\ step' = step
            /\ rst' = [rst EXCEPT ![d] = Held(holders[d] = {})]
        BY <2>3, <3>3 DEF Use, ResetDomains
      <4>2. \A e \in Fpga \ {d} : rst'[e] = rst[e] /\ holders'[e] = holders[e]
        BY <2>1, <3>1, <4>1
      <4>3. holders'[nreset] = holders[nreset] /\ holders'[d] = users
        BY <2>1, <3>1, <3>3
      <4>4. CASE holders[d] = {}
        <5>1. rst'[d] = FALSE /\ users # {}
          BY <2>1, <2>3, <4>1, <4>4 DEF Held
        <5>2. QED
          BY <3>1, <4>1, <4>2, <4>3, <5>1 DEF ResetInv, DevicesRun
      <4>5. CASE holders[d] # {}
        <5>1. rst'[d] = TRUE /\ users = {}
          BY <2>1, <2>3, <3>3, <4>1, <4>5 DEF Held
        <5>2. QED
          BY <3>1, <4>1, <4>2, <4>3, <5>1 DEF ResetInv, DevicesRun
      <4>6. QED
        BY <4>4, <4>5
    <3>4. CASE d = nreset /\ ~(holders[d] # {} /\ users # {})
      <4>1. /\ rst' = rst
            /\ step' = IF holders[nreset] = {} THEN "halt" ELSE "connect"
        BY <2>3, <3>4 DEF Use
      <4>2. \A e \in Fpga : holders'[e] = holders[e]
        BY <2>1, <3>1, <3>4
      <4>3. holders[nreset] = {} => holders'[nreset] # {}
        BY <2>1, <2>3, <3>1, <3>4
      <4>4. QED
        BY <3>1, <4>1, <4>2, <4>3 DEF ResetInv, DevicesRun
    <3>5. QED
      BY <3>2, <3>3, <3>4
  <2>4. CASE Request
    <3>1. ASSUME NEW r \in Rates, SetRate(r) PROVE (ResetInv /\ DevicesRun)'
      BY <2>2, <3>1 DEF SetRate
    <3>2. ASSUME NEW s \in Sessions, NEW d \in ResetDomains,
                 Acquire(s, d) \/ Release(s, d)
          PROVE  (ResetInv /\ DevicesRun)'
      <4>1. CASE Acquire(s, d)
        <5> DEFINE users == holders[d] \union {s}
        <5>1. users # holders[d] /\ users # {} /\ Use(d, users)
          BY <4>1 DEF Acquire
        <5> HIDE DEF users
        <5>2. QED
          BY <2>3, <5>1
      <4>2. CASE Release(s, d)
        <5> DEFINE users == holders[d] \ {s}
        <5>1. users # holders[d] /\ holders[d] # {} /\ Use(d, users)
          BY <4>2 DEF Release
        <5> HIDE DEF users
        <5>2. QED
          BY <2>3, <5>1
      <4>3. QED
        BY <3>2, <4>1, <4>2
    <3>3. QED
      BY <2>4, <3>1, <3>2 DEF Request
  <2>5. CASE SlowDown0 \/ SlowDown1 \/ SetDivisor0 \/ SetDivisor1
    BY <2>2, <2>5 DEF SlowDown0, SlowDown1, SetDivisor0, SetDivisor1
  <2>6. CASE Halt
    BY <2>6 DEF Halt, ResetInv, DevicesRun
  <2>7. CASE Disconnect
    BY <2>7 DEF Disconnect, ResetInv, DevicesRun
  <2>8. CASE DrivePl
    BY <2>8 DEF DrivePl, ResetInv, DevicesRun
  <2>9. CASE Connect
    BY <2>9 DEF Connect, ResetInv, DevicesRun
  <2>10. CASE Run
    BY <2>10 DEF Run, ResetInv, DevicesRun
  <2>11. CASE UNCHANGED slcrVars
    BY <2>2, <2>11
  <2>12. QED
    BY <2>4, <2>5, <2>6, <2>7, <2>8, <2>9, <2>10, <2>11
    DEF SlcrNext, SlcrDriver
<1>3. QED
  BY <1>1, <1>2, RegisterTyping, PTL DEF SlcrSpec

\* Nothing runs in the PL while its level shifters are off, and no reset
\* domain without a user while it is not connected.
THEOREM NoUnusedRunsCutOff == SlcrSpec => []RunsConnected
<1>1. SlcrTypeOK /\ ResetInv => RunsConnected
  BY DEF SlcrTypeOK, ResetInv, RunsConnected
<1>2. QED
  BY <1>1, ResetKept, RegisterTyping, PTL

\* A device in use runs, unless devcfg is in use as well.
THEOREM UsedDevicesRun == SlcrSpec => []DevicesRun
  BY ResetKept, PTL

-----------------------------------------------------------------------------
(* The I2C master: the inductive invariant. *)

\* The bytes in the FIFO follow those that were acknowledged.
InSequence == \A k \in 1..Len(fifo) : fifo[k] = Len(wire) + k

\* They are all that the driver has taken from the message.
Taken == Len(wire) + Len(fifo) = byteCount - sendByteCount

\* Which function the steps belong to.
Directions ==
  /\ at \in {"receive", "received"} => rw = "RECEIVING"
  /\ at \in {"fill_size", "fill", "send", "refill_size", "refill", "complete",
             "release"}
       => rw = "SENDING"

\* What has been acknowledged is the beginning of the message, and while the
\* controller sends, or before it is told to, the FIFO goes on from there.
WireInv ==
  /\ \A k \in 1..Len(wire) : wire[k] = k
  /\ at \in {"read_status", "clear_status", "fill_size", "fill", "address"}
       => /\ ~busy /\ wire = <<>>
          /\ rw = "SENDING" => InSequence /\ Taken
  /\ busy /\ rw = "SENDING"
       => InSequence /\ (at # "set_direction" => Taken)

\* What is filled fits the FIFO.  A message that fits is filled at once.
FillInv ==
  /\ at \in {"set_direction", "read_status", "clear_status", "fill_size"}
       => sendByteCount = byteCount
  /\ at \in {"fill", "refill"}
       => numBytesToSend <= sendByteCount /\ numBytesToSend + Len(fifo) <= Depth
  /\ rw = "SENDING" /\ byteCount <= Depth =>
       /\ at = "fill" => numBytesToSend = sendByteCount
       /\ at \in {"address", "look", "send", "refill_size", "refill",
                  "complete", "release"}
            => sendByteCount = 0

\* Interrupt_status is empty when the controller is started, and for a message
\* that fits the FIFO, COMP means that all of it has been acknowledged.
StatusInv ==
  /\ at = "clear_status" => intrStatusReg = isr
  /\ at \in {"fill_size", "fill", "address"} => isr = {}
  /\ at \in {"send", "refill_size", "refill", "complete", "release", "receive"}
       => intrStatusReg \subseteq isr
  /\ at = "release" => "COMP" \in intrStatusReg
  /\ rw = "SENDING" /\ byteCount <= Depth /\ "COMP" \in isr
     /\ at \in {"look", "send", "refill_size", "refill", "complete", "release"}
       => Len(wire) = byteCount
  /\ rw = "RECEIVING" /\ (at = "idle" \/ (at \in {"look", "receive", "received"}
                                            /\ isr # {}))
       => ~busy

MasterInv == I2cTypeOK /\ Directions /\ WireInv /\ FillInv /\ StatusInv /\ AllSent


-----------------------------------------------------------------------------
(* The I2C master: the steps. *)

\* The lengths of a sequence and the empty one.
LEMMA Lengths ==
  ASSUME NEW S, NEW f \in Seq(S)
  PROVE  Len(f) \in Nat /\ (f # <<>> <=> Len(f) # 0)
BY LenProperties, EmptySeq

\* A byte that moves from the head of the FIFO to the wire.
LEMMA ByteMoved ==
  ASSUME NEW S, NEW f \in Seq(S), NEW w \in Seq(S), f # <<>>
  PROVE  /\ Tail(f) \in Seq(S) /\ Len(Tail(f)) = Len(f) - 1
         /\ \A k \in 1..Len(Tail(f)) : Tail(f)[k] = f[k+1]
         /\ Append(w, Head(f)) \in Seq(S)
         /\ Len(Append(w, Head(f))) = Len(w) + 1
         /\ Append(w, Head(f))[Len(w) + 1] = f[1]
         /\ \A k \in 1..Len(w) : Append(w, Head(f))[k] = w[k]
<1>1. /\ Head(f) \in S /\ Tail(f) \in Seq(S) /\ Len(Tail(f)) = Len(f) - 1
      /\ \A k \in 1..Len(Tail(f)) : Tail(f)[k] = f[k+1]
      /\ Head(f) = f[1]
  BY HeadTailProperties
<1>2. /\ Append(w, Head(f)) \in Seq(S)
      /\ Len(Append(w, Head(f))) = Len(w) + 1
      /\ \A k \in 1..Len(w) : Append(w, Head(f))[k] = w[k]
      /\ Append(w, Head(f))[Len(w) + 1] = Head(f)
  BY <1>1, AppendProperties
<1>3. QED
  BY <1>1, <1>2

\* The steps of the controller.
LEMMA ControllerKeeps == ASSUME MasterInv, Controller PROVE MasterInv'
<1> USE DEF call, locals, controller, MasterInv
<1>s. wire \in Seq(1..MaxCount) /\ fifo \in Seq(1..MaxCount)
  BY DEF I2cTypeOK
<1>0. /\ wire \in Seq(1..MaxCount) /\ fifo \in Seq(1..MaxCount)
      /\ Len(fifo) \in Nat /\ Len(wire) \in Nat /\ Len(fifo) <= Depth
      /\ byteCount \in 0..MaxCount /\ sendByteCount \in 0..byteCount
      /\ byteCount \in Nat /\ sendByteCount \in Nat /\ numBytesToSend \in Nat
      /\ Depth \in Nat /\ MaxCount \in Nat
      /\ fifo # <<>> <=> Len(fifo) # 0
  <2>1. wire \in Seq(1..MaxCount) /\ fifo \in Seq(1..MaxCount)
    BY DEF I2cTypeOK
  <2>2. Len(fifo) \in Nat /\ Len(wire) \in Nat /\ (fifo # <<>> <=> Len(fifo) # 0)
    BY <2>1, Lengths
  <2>3. QED
    BY <2>1, <2>2, DepthAssumption, MaxCountAssumption DEF I2cTypeOK
<1>1. CASE HwSend
  <2>0. /\ busy /\ rw = "SENDING" /\ fifo # <<>>
        /\ wire' = Append(wire, Head(fifo)) /\ fifo' = Tail(fifo)
    BY <1>1 DEF HwSend
  <2>1. /\ busy /\ rw = "SENDING" /\ fifo # <<>>
        /\ Len(fifo') = Len(fifo) - 1 /\ Len(wire') = Len(wire) + 1
        /\ \A k \in 1..Len(fifo') : fifo'[k] = fifo[k+1]
        /\ \A k \in 1..Len(wire) : wire'[k] = wire[k]
        /\ wire'[Len(wire) + 1] = fifo[1]
        /\ wire' \in Seq(1..MaxCount) /\ fifo' \in Seq(1..MaxCount)
    <3>1. /\ Tail(fifo) \in Seq(1..MaxCount) /\ Len(Tail(fifo)) = Len(fifo) - 1
          /\ \A k \in 1..Len(Tail(fifo)) : Tail(fifo)[k] = fifo[k+1]
      BY <1>s, <2>0, ByteMoved
    <3>2. /\ Append(wire, Head(fifo)) \in Seq(1..MaxCount)
          /\ Len(Append(wire, Head(fifo))) = Len(wire) + 1
          /\ Append(wire, Head(fifo))[Len(wire) + 1] = fifo[1]
      BY <1>s, <2>0, ByteMoved
    <3>3. \A k \in 1..Len(wire) : Append(wire, Head(fifo))[k] = wire[k]
      BY <1>s, <2>0, ByteMoved
    <3>4. QED
      BY <2>0, <3>1, <3>2, <3>3
  <2>2. /\ isr' = isr \/ isr' = isr \union {"COMP"}
        /\ isr' # isr => Len(fifo') = 0
        /\ busy' \in BOOLEAN
        /\ UNCHANGED <<at, call, locals, HOLD>>
    <3>1. /\ isr' = IF fifo' = <<>> THEN isr \union {"COMP"} ELSE isr
          /\ busy' = (HOLD \/ fifo' # <<>>)
          /\ UNCHANGED <<at, call, locals, HOLD>>
      BY <1>1 DEF HwSend
    <3>2. fifo' = <<>> => Len(fifo') = 0
      OBVIOUS
    <3>3. busy' \in BOOLEAN
      BY <3>1, Zenon
    <3>4. QED
      BY <3>1, <3>2, <3>3
  <2>3. InSequence /\ (at # "set_direction" => Taken)
    BY <2>1 DEF WireInv
  <2>4. /\ \A k \in 1..Len(wire') : wire'[k] = k
        /\ InSequence' /\ (at # "set_direction" => Taken')
    <3>1. fifo[1] = Len(wire) + 1
      BY <1>0, <2>1, <2>3 DEF InSequence
    <3>2. ASSUME NEW k \in 1..Len(wire') PROVE wire'[k] = k
      <4>1. CASE k \in 1..Len(wire)
        BY <2>1, <4>1 DEF WireInv
      <4>2. CASE k = Len(wire) + 1
        BY <2>1, <3>1, <4>2
      <4>3. QED
        BY <1>0, <2>1, <4>1, <4>2
    <3>3. InSequence'
      BY <1>0, <2>1, <2>3 DEF InSequence
    <3>4. Taken => Taken'
      <4>1. byteCount' = byteCount /\ sendByteCount' = sendByteCount
        BY <2>2
      <4>2. Len(fifo') = Len(fifo) - 1 /\ Len(wire') = Len(wire) + 1
        BY <2>1
      <4>3. Len(wire') + Len(fifo') = Len(wire) + Len(fifo)
        BY <1>0, <4>2
      <4>4. QED
        BY <4>1, <4>3 DEF Taken
    <3>5. QED
      BY <2>3, <3>2, <3>3, <3>4
  <2>5. I2cTypeOK'
    <3>1. Len(fifo') <= Depth
      BY <1>0, <2>1
    <3>2. isr' \subseteq Bits \ {"OVF"}
      BY <2>2 DEF I2cTypeOK, Bits
    <3>3. QED
      BY <2>1, <2>2, <3>1, <3>2 DEF I2cTypeOK
  <2>6. WireInv'
    BY <2>1, <2>2, <2>4 DEF WireInv
  <2>7. FillInv'
    <3>1. numBytesToSend + Len(fifo) <= Depth => numBytesToSend + Len(fifo') <= Depth
      BY <1>0, <2>1
    <3>2. QED
      BY <2>2, <3>1 DEF FillInv
  <2>8. StatusInv'
    <3>1. ASSUME byteCount <= Depth, "COMP" \in isr',
                 at \in {"look", "send", "refill_size", "refill", "complete", "release"}
          PROVE  Len(wire') = byteCount
      <4>1. sendByteCount = 0 /\ Taken /\ Taken'
        BY <2>1, <2>3, <2>4, <3>1 DEF FillInv
      <4>2. "COMP" \notin isr
        BY <1>0, <2>1, <3>1, <4>1 DEF StatusInv, Taken
      <4>3. Len(fifo') = 0
        BY <2>2, <3>1, <4>2
      <4>4. sendByteCount' = 0 /\ byteCount' = byteCount
        BY <2>2, <4>1
      <4>5. Len(wire') + Len(fifo') = byteCount' - sendByteCount'
        BY <4>1 DEF Taken
      <4>6. Len(wire') \in Nat
        BY <1>0, <2>1
      <4>7. Len(wire') + 0 = byteCount - 0
        BY <4>3, <4>4, <4>5
      <4>8. QED
        BY <1>0, <4>6, <4>7
    <3>2. at \notin {"fill_size", "fill", "address", "clear_status"}
      BY <2>1 DEF WireInv
    <3>3. QED
      BY <2>1, <2>2, <3>1, <3>2 DEF StatusInv, Directions
  <2>9. AllSent'
    <3>1. ~(at = "idle" /\ result = 0 /\ byteCount <= Depth)
      BY <1>0, <2>1, <2>3 DEF AllSent, Taken
    <3>2. QED
      BY <2>2, <2>4, <3>1 DEF AllSent
  <2>10. Directions'
    BY <2>2 DEF Directions
  <2>11. QED
    BY <2>5, <2>6, <2>7, <2>8, <2>9, <2>10
<1>2. CASE HwReceive
  <2>1. /\ rw = "RECEIVING" /\ fifo' = <<1>> /\ busy' = FALSE /\ wire' = wire
        /\ isr' = isr \union {"COMP"}
        /\ UNCHANGED <<at, call, locals, HOLD>>
        /\ at \notin {"read_status", "clear_status", "fill_size", "fill", "address"}
    BY <1>2 DEF HwReceive, WireInv
  <2>2. Len(fifo') = 1 /\ fifo' \in Seq(1..MaxCount)
    BY <2>1, MaxCountAssumption, DepthAssumption
  <2>3. I2cTypeOK'
    <3>1. Len(fifo') <= Depth
      BY <2>2, DepthAssumption
    <3>2. isr' \subseteq Bits \ {"OVF"}
      BY <2>1 DEF I2cTypeOK, Bits
    <3>3. QED
      BY <2>1, <2>2, <3>1, <3>2 DEF I2cTypeOK
  <2>4. Directions' /\ FillInv' /\ WireInv' /\ AllSent'
    BY <2>1 DEF Directions, FillInv, WireInv, AllSent
  <2>5. StatusInv'
    BY <2>1 DEF StatusInv, Directions
  <2>6. QED
    BY <2>3, <2>4, <2>5
<1>3. ASSUME NEW e \in {"NACK", "ARB_LOST"}, HwError(e) PROVE MasterInv'
  <2>1. /\ busy /\ (rw = "SENDING" => fifo # <<>>)
        /\ isr' = isr \union {e} /\ busy' = FALSE /\ wire' = wire
        /\ fifo' = IF fifo = <<>> THEN fifo ELSE Tail(fifo)
        /\ UNCHANGED <<at, call, locals, HOLD>>
        /\ at \notin {"read_status", "clear_status", "fill_size", "fill", "address"}
    BY <1>3 DEF HwError, WireInv
  <2>10. /\ fifo' \in Seq(1..MaxCount)
         /\ Len(fifo') \in Nat /\ Len(fifo') <= Len(fifo)
    <3>1. CASE fifo = <<>>
      BY <1>0, <2>1, <3>1
    <3>2. CASE fifo # <<>>
      <4>1. Tail(fifo) \in Seq(1..MaxCount) /\ Len(Tail(fifo)) = Len(fifo) - 1
        BY <1>s, <3>2, ByteMoved
      <4>2. fifo' = Tail(fifo)
        BY <2>1, <3>2
      <4>3. Len(fifo') = Len(fifo) - 1 /\ fifo' \in Seq(1..MaxCount)
        BY <4>1, <4>2
      <4>4. QED
        BY <1>0, <3>2, <4>3
    <3>3. QED
      BY <3>1, <3>2
  <2>2. I2cTypeOK'
    <3>1. Len(fifo') <= Depth
      BY <1>0, <2>10
    <3>2. isr' \subseteq Bits \ {"OVF"}
      BY <2>1 DEF I2cTypeOK, Bits
    <3>3. QED
      BY <2>1, <2>10, <3>1, <3>2 DEF I2cTypeOK
  <2>3. Directions' /\ WireInv' /\ AllSent'
    BY <2>1 DEF Directions, WireInv, AllSent
  <2>4. FillInv'
    <3>1. numBytesToSend + Len(fifo) <= Depth => numBytesToSend + Len(fifo') <= Depth
      BY <1>0, <2>10
    <3>2. QED
      BY <2>1, <3>1 DEF FillInv
  <2>5. StatusInv'
    BY <2>1 DEF StatusInv
  <2>6. QED
    BY <2>2, <2>3, <2>4, <2>5
<1>4. QED
  BY <1>1, <1>2, <1>3 DEF Controller, Bus


\* The steps of the callers.
LEMMA CallerKeeps == ASSUME MasterInv, Caller PROVE MasterInv'
<1> USE DEF call, locals, controller, MasterInv
<1>1. PICK direction \in {"SENDING", "RECEIVING"}, n \in 1..MaxCount, h \in BOOLEAN :
        Call(direction, n, h)
  <2>1. CASE ReadBytes
    <3>1. 1 \in 1..MaxCount
      BY DepthAssumption, MaxCountAssumption
    <3>2. QED
      BY <2>1, <3>1 DEF ReadBytes
  <2>2. CASE \E n \in 1..MaxCount, h \in BOOLEAN : WriteBytes(n, h)
    BY <2>2 DEF WriteBytes
  <2>3. QED
    BY <2>1, <2>2 DEF Caller
<1>2. /\ at = "idle" /\ at' = "set_direction"
      /\ rw' = direction /\ byteCount' = n /\ hold' = h /\ sendByteCount' = n
      /\ UNCHANGED <<numBytesToSend, intrStatusReg, result, fifo, isr, busy, wire>>
  BY <1>1 DEF Call
<1>3. HOLD' \in BOOLEAN
  <2>1. HOLD' = (HOLD \/ n > Depth \/ h)
    BY <1>1 DEF Call
  <2>2. QED
    BY <2>1, Zenon
<1>4. I2cTypeOK'
  <2>1. n \in 0..MaxCount /\ n \in 0..n
    BY MaxCountAssumption
  <2>2. QED
    BY <1>2, <1>3, <2>1 DEF I2cTypeOK
<1>5. WireInv'
  <2>1. busy => rw = "SENDING"
    BY <1>2 DEF StatusInv, I2cTypeOK
  <2>2. InSequence => InSequence'
    BY <1>2 DEF InSequence
  <2>3. QED
    BY <1>2, <2>1, <2>2 DEF WireInv
<1>6. Directions' /\ FillInv' /\ StatusInv' /\ AllSent'
  BY <1>2 DEF Directions, FillInv, StatusInv, AllSent
<1>7. QED
  BY <1>4, <1>5, <1>6

\* The steps until the controller is started.
LEMMA StartKeeps ==
  ASSUME MasterInv,
         SetDirection \/ ReadStatus \/ ClearStatus \/ SetAddress \/ Look
  PROVE  MasterInv'
<1> USE DEF call, locals, controller, MasterInv
<1>1. CASE SetDirection
  <2>1. /\ at = "set_direction" /\ at' = "read_status"
        /\ fifo' = <<>> /\ busy' = FALSE /\ wire' = <<>>
        /\ UNCHANGED <<call, locals, HOLD, isr>>
    BY <1>1 DEF SetDirection
  <2>2. /\ Len(fifo') = 0 /\ Len(wire') = 0 /\ Len(fifo') <= Depth
        /\ wire' \in Seq(1..MaxCount) /\ fifo' \in Seq(1..MaxCount)
    BY <2>1, EmptySeq, DepthAssumption
  <2>3. I2cTypeOK'
    BY <2>1, <2>2 DEF I2cTypeOK
  <2>4. InSequence' /\ Taken' /\ sendByteCount' = byteCount'
    BY <2>1, <2>2 DEF InSequence, Taken, FillInv, I2cTypeOK
  <2>5. WireInv' /\ AllSent'
    BY <2>1, <2>2, <2>4 DEF WireInv, AllSent
  <2>6. Directions' /\ FillInv' /\ StatusInv'
    BY <2>1, <2>4 DEF Directions, FillInv, StatusInv
  <2>7. QED
    BY <2>3, <2>5, <2>6
<1>2. CASE ReadStatus
  <2>1. /\ at = "read_status" /\ at' = "clear_status" /\ intrStatusReg' = isr
        /\ UNCHANGED <<call, sendByteCount, numBytesToSend, result, controller>>
    BY <1>2 DEF ReadStatus
  <2>2. I2cTypeOK' /\ Directions' /\ WireInv' /\ AllSent'
    BY <2>1 DEF I2cTypeOK, Directions, WireInv, AllSent, InSequence, Taken
  <2>3. FillInv' /\ StatusInv'
    BY <2>1 DEF FillInv, StatusInv
  <2>4. QED
    BY <2>2, <2>3
<1>3. CASE ClearStatus
  <2>1. /\ at = "clear_status"
        /\ at' = IF rw = "SENDING" THEN "fill_size" ELSE "address"
        /\ isr' = {}
        /\ UNCHANGED <<call, locals, HOLD, fifo, busy, wire>>
    BY <1>3 DEF ClearStatus, StatusInv
  <2>2. I2cTypeOK' /\ Directions' /\ WireInv' /\ AllSent'
    BY <2>1 DEF I2cTypeOK, Directions, WireInv, AllSent, InSequence, Taken
  <2>3. FillInv' /\ StatusInv'
    BY <2>1 DEF FillInv, StatusInv
  <2>4. QED
    BY <2>2, <2>3
<1>4. CASE SetAddress
  <2>1. /\ at = "address" /\ at' = "look" /\ busy' = TRUE
        /\ UNCHANGED <<call, locals, HOLD, fifo, isr, wire>>
    BY <1>4 DEF SetAddress
  <2>2. isr = {}
    BY <2>1 DEF StatusInv
  <2>3. I2cTypeOK' /\ Directions' /\ WireInv' /\ AllSent'
    BY <2>1 DEF I2cTypeOK, Directions, WireInv, AllSent, InSequence, Taken
  <2>4. FillInv' /\ StatusInv'
    BY <2>1, <2>2 DEF FillInv, StatusInv
  <2>5. QED
    BY <2>3, <2>4
<1>5. CASE Look
  <2>1. /\ at = "look" /\ at' = IF rw = "SENDING" THEN "send" ELSE "receive"
        /\ intrStatusReg' = isr
        /\ UNCHANGED <<call, sendByteCount, numBytesToSend, result, controller>>
    BY <1>5 DEF Look
  <2>2. I2cTypeOK' /\ Directions' /\ WireInv' /\ AllSent'
    BY <2>1 DEF I2cTypeOK, Directions, WireInv, AllSent, InSequence, Taken
  <2>3. FillInv' /\ StatusInv'
    BY <2>1 DEF FillInv, StatusInv
  <2>4. QED
    BY <2>2, <2>3
<1>6. QED
  BY <1>1, <1>2, <1>3, <1>4, <1>5

\* The FIFO is filled.
LEMMA FillKeeps ==
  ASSUME MasterInv, FillSize \/ FillByte \/ FillDone
  PROVE  MasterInv'
<1> USE DEF call, locals, controller, MasterInv
<1>0. /\ wire \in Seq(1..MaxCount) /\ fifo \in Seq(1..MaxCount)
      /\ Len(fifo) \in Nat /\ Len(wire) \in Nat /\ Len(fifo) <= Depth
      /\ byteCount \in 0..MaxCount /\ sendByteCount \in 0..byteCount
      /\ byteCount \in Nat /\ sendByteCount \in Nat /\ numBytesToSend \in Nat
      /\ byteCount <= MaxCount /\ sendByteCount <= byteCount
      /\ Depth \in Nat /\ MaxCount \in Nat
  <2>1. wire \in Seq(1..MaxCount) /\ fifo \in Seq(1..MaxCount)
    BY DEF I2cTypeOK
  <2>2. Len(fifo) \in Nat /\ Len(wire) \in Nat
    BY <2>1, Lengths
  <2>3. QED
    BY <2>1, <2>2, DepthAssumption, MaxCountAssumption DEF I2cTypeOK
<1>1. CASE FillSize
  <2>1. /\ at \in {"fill_size", "refill_size"}
        /\ at' = IF at = "fill_size" THEN "fill" ELSE "refill"
        /\ numBytesToSend' = Fitting(sendByteCount, Available)
        /\ UNCHANGED <<call, sendByteCount, intrStatusReg, result, controller>>
        /\ rw = "SENDING"
    BY <1>1 DEF FillSize, Directions
  <2>2. /\ numBytesToSend' \in 0..MaxCount
        /\ numBytesToSend' <= sendByteCount
        /\ numBytesToSend' + Len(fifo) <= Depth
        /\ sendByteCount + Len(fifo) <= Depth => numBytesToSend' = sendByteCount
    BY <1>0, <2>1 DEF Fitting, Available
  <2>3. ASSUME at = "fill_size", byteCount <= Depth
        PROVE  sendByteCount + Len(fifo) <= Depth
    <3>1. Taken /\ sendByteCount = byteCount
      BY <2>1, <2>3 DEF WireInv, FillInv
    <3>2. QED
      BY <1>0, <2>3, <3>1 DEF Taken
  <2>4. I2cTypeOK'
    BY <2>1, <2>2 DEF I2cTypeOK
  <2>5. Directions' /\ WireInv' /\ AllSent' /\ StatusInv'
    BY <2>1 DEF Directions, WireInv, AllSent, InSequence, Taken, StatusInv
  <2>6. FillInv'
    BY <2>1, <2>2, <2>3 DEF FillInv
  <2>7. QED
    BY <2>4, <2>5, <2>6
<1>2. CASE FillByte
  <2> DEFINE b == byteCount - sendByteCount + 1
  <2>1. /\ at \in {"fill", "refill"} /\ numBytesToSend > 0 /\ rw = "SENDING"
        /\ numBytesToSend <= sendByteCount /\ numBytesToSend + Len(fifo) <= Depth
    BY <1>2 DEF FillByte, Directions, FillInv
  <2>2. Len(fifo) < Depth
    BY <1>0, <2>1
  <2>3. /\ fifo' = Append(fifo, b)
        /\ sendByteCount' = sendByteCount - 1
        /\ numBytesToSend' = numBytesToSend - 1
        /\ UNCHANGED <<at, call, intrStatusReg, result, HOLD, isr, busy, wire>>
    BY <1>2, <2>2 DEF FillByte
  <2>4. b \in 1..MaxCount
    BY <1>0, <2>1
  <2>5. /\ fifo' \in Seq(1..MaxCount) /\ Len(fifo') = Len(fifo) + 1
        /\ \A k \in 1..Len(fifo) : fifo'[k] = fifo[k]
        /\ fifo'[Len(fifo) + 1] = b
    <3> HIDE DEF b
    <3>1. QED
      BY <1>0, <2>3, <2>4, AppendProperties
  <2>6. I2cTypeOK'
    <3>1. /\ Len(fifo') <= Depth /\ sendByteCount' \in 0..byteCount
          /\ numBytesToSend' \in 0..MaxCount
      BY <1>0, <2>1, <2>2, <2>3, <2>5
    <3>2. QED
      BY <2>3, <2>5, <3>1 DEF I2cTypeOK
  <2>7. Taken => Taken'
    <3>1. /\ byteCount' = byteCount /\ wire' = wire
          /\ sendByteCount' = sendByteCount - 1
      BY <2>3
    <3>2. QED
      BY <1>0, <2>5, <3>1 DEF Taken
  <2>8. ASSUME InSequence, Taken PROVE InSequence'
    <3>1. b = Len(wire) + Len(fifo) + 1
      BY <1>0, <2>8 DEF Taken
    <3>2. ASSUME NEW k \in 1..Len(fifo') PROVE fifo'[k] = Len(wire) + k
      <4>1. CASE k \in 1..Len(fifo)
        BY <2>5, <2>8, <4>1 DEF InSequence
      <4>2. CASE k = Len(fifo) + 1
        <5>1. fifo'[k] = b /\ Len(wire) + k = Len(wire) + Len(fifo) + 1
          BY <1>0, <2>5, <4>2
        <5>2. QED
          BY <3>1, <5>1
      <4>3. QED
        BY <1>0, <2>5, <4>1, <4>2
    <3>3. QED
      BY <2>3, <3>2 DEF InSequence
  <2>9. WireInv'
    BY <2>1, <2>3, <2>7, <2>8 DEF WireInv
  <2>10. FillInv'
    <3>1. /\ numBytesToSend' <= sendByteCount'
          /\ numBytesToSend' + Len(fifo') <= Depth
          /\ numBytesToSend = sendByteCount => numBytesToSend' = sendByteCount'
      BY <1>0, <2>1, <2>3, <2>5
    <3>2. byteCount <= Depth => at = "fill"
      BY <1>0, <2>1 DEF FillInv
    <3>3. QED
      BY <2>1, <2>3, <3>1, <3>2 DEF FillInv
  <2>11. Directions' /\ AllSent' /\ StatusInv'
    BY <2>1, <2>3 DEF Directions, AllSent, StatusInv
  <2>12. QED
    BY <2>6, <2>9, <2>10, <2>11
<1>3. CASE FillDone
  <2>1. /\ at \in {"fill", "refill"} /\ numBytesToSend = 0
        /\ at' = IF at = "fill" THEN "address" ELSE "send"
        /\ rw = "SENDING"
        /\ UNCHANGED <<call, locals, controller>>
    BY <1>3 DEF FillDone, Directions
  <2>2. I2cTypeOK' /\ Directions' /\ WireInv' /\ AllSent'
    BY <2>1 DEF I2cTypeOK, Directions, WireInv, AllSent, InSequence, Taken
  <2>3. FillInv' /\ StatusInv'
    BY <2>1 DEF FillInv, StatusInv
  <2>4. QED
    BY <2>2, <2>3
<1>4. QED
  BY <1>1, <1>2, <1>3

\* The steps after the controller was started.
LEMMA LoopKeeps ==
  ASSUME MasterInv,
         \/ Send \/ SendDone \/ Complete \/ Completed \/ ReleaseBus
         \/ ReceiveFails \/ Receive \/ Received
  PROVE  MasterInv'
<1> USE DEF call, locals, controller, MasterInv
<1>1. CASE Send \/ SendDone \/ Completed
  <2>1. /\ at \in {"send", "complete"}
        /\ at' \in {"look", "refill_size", "complete", "release"}
        /\ at' = "release" => "COMP" \in intrStatusReg
        /\ rw = "SENDING"
        /\ UNCHANGED <<call, locals, controller>>
    BY <1>1 DEF Send, SendDone, Completed, Directions
  <2>2. I2cTypeOK' /\ Directions' /\ WireInv' /\ AllSent'
    BY <2>1 DEF I2cTypeOK, Directions, WireInv, AllSent, InSequence, Taken
  <2>3. FillInv' /\ StatusInv'
    BY <2>1 DEF FillInv, StatusInv
  <2>4. QED
    BY <2>2, <2>3
<1>2. CASE Complete
  <2>1. /\ at = "complete" /\ rw = "SENDING"
        /\ intrStatusReg' = isr
        /\ UNCHANGED <<call, sendByteCount, numBytesToSend, controller>>
        /\ \/ at' = "idle" /\ result' = 1
           \/ at' = at /\ result' = result
    BY <1>2 DEF Complete, Return, Directions
  <2>2. I2cTypeOK' /\ Directions' /\ WireInv' /\ AllSent'
    BY <2>1 DEF I2cTypeOK, Directions, WireInv, AllSent, InSequence, Taken
  <2>3. FillInv' /\ StatusInv'
    BY <2>1 DEF FillInv, StatusInv
  <2>4. QED
    BY <2>2, <2>3
<1>3. CASE ReleaseBus
  <2>1. /\ at = "release" /\ at' = "idle" /\ result' = 0 /\ rw = "SENDING"
        /\ HOLD' = (HOLD /\ hold)
        /\ busy' = (busy /\ (hold \/ fifo # <<>>))
        /\ UNCHANGED <<call, sendByteCount, numBytesToSend, intrStatusReg,
                       fifo, isr, wire>>
    BY <1>3 DEF ReleaseBus, Return, Directions
  <2>2. HOLD' \in BOOLEAN /\ busy' \in BOOLEAN /\ (busy' => busy)
    BY <2>1, Zenon
  <2>3. byteCount <= Depth => Len(wire) = byteCount
    BY <2>1 DEF StatusInv
  <2>4. I2cTypeOK' /\ Directions'
    BY <2>1, <2>2 DEF I2cTypeOK, Directions
  <2>5. InSequence' = InSequence /\ Taken' = Taken
    BY <2>1 DEF InSequence, Taken
  <2>6. WireInv'
    BY <2>1, <2>2, <2>5 DEF WireInv
  <2>7. AllSent'
    BY <2>1, <2>3 DEF AllSent
  <2>8. FillInv' /\ StatusInv'
    BY <2>1 DEF FillInv, StatusInv
  <2>9. QED
    BY <2>4, <2>6, <2>7, <2>8
<1>4. CASE ReceiveFails \/ Received
  <2>1. /\ at \in {"receive", "received"} /\ rw = "RECEIVING"
        /\ at' = "idle" /\ result' \in 0..1
        /\ UNCHANGED <<call, sendByteCount, numBytesToSend, intrStatusReg,
                       controller>>
        /\ isr # {}
    BY <1>4 DEF ReceiveFails, Received, Return, Directions, StatusInv
  <2>2. I2cTypeOK' /\ Directions' /\ WireInv' /\ AllSent'
    BY <2>1 DEF I2cTypeOK, Directions, WireInv, AllSent, InSequence, Taken
  <2>3. FillInv' /\ StatusInv'
    BY <2>1 DEF FillInv, StatusInv
  <2>4. QED
    BY <2>2, <2>3
<1>5. CASE Receive
  <2>1. /\ at = "receive" /\ at' = "received" /\ fifo' = <<>> /\ rw = "RECEIVING"
        /\ UNCHANGED <<call, locals, HOLD, isr, busy, wire>>
    BY <1>5 DEF Receive, Directions
  <2>2. fifo' \in Seq(1..MaxCount) /\ Len(fifo') <= Depth
    BY <2>1, EmptySeq, DepthAssumption
  <2>3. I2cTypeOK' /\ Directions' /\ WireInv' /\ AllSent'
    BY <2>1, <2>2 DEF I2cTypeOK, Directions, WireInv, AllSent
  <2>4. FillInv' /\ StatusInv'
    BY <2>1 DEF FillInv, StatusInv
  <2>5. QED
    BY <2>3, <2>4
<1>6. QED
  BY <1>1, <1>2, <1>3, <1>4, <1>5

\* The slave acknowledges the message in sequence, and all of a message that
\* fits the FIFO when write_bytes returns 0, under any interleaving of the
\* driver's register accesses with the controller and any error on the bus.
THEOREM MessageSent == I2cSpec => []AllSent
<1>1. I2cInit => MasterInv
  <2>1. ASSUME I2cInit PROVE MasterInv
    <3>1. /\ wire \in Seq(1..MaxCount) /\ fifo \in Seq(1..MaxCount)
          /\ Len(wire) = 0 /\ Len(fifo) = 0 /\ Len(fifo) <= Depth
          /\ sendByteCount \in 0..byteCount
          /\ byteCount \in 0..MaxCount /\ numBytesToSend \in 0..MaxCount
      BY <2>1, EmptySeq, DepthAssumption, MaxCountAssumption DEF I2cInit
    <3>2. I2cTypeOK
      <4>1. /\ intrStatusReg \subseteq Bits /\ isr \subseteq Bits \ {"OVF"}
            /\ result \in 0..1
            /\ rw \in {"SENDING", "RECEIVING"} /\ at = "idle"
        BY <2>1 DEF I2cInit
      <4>2. hold \in BOOLEAN /\ HOLD \in BOOLEAN /\ busy \in BOOLEAN
        <5>1. hold = FALSE /\ HOLD = FALSE /\ busy = FALSE
          BY <2>1 DEF I2cInit
        <5>2. QED
          BY <5>1, Zenon
      <4>3. QED
        BY <3>1, <4>1, <4>2 DEF I2cTypeOK
    <3>3. Directions /\ WireInv /\ FillInv /\ StatusInv /\ AllSent
      BY <2>1, <3>1 DEF I2cInit, Directions, WireInv, FillInv, StatusInv, AllSent
    <3>4. QED
      BY <3>2, <3>3 DEF MasterInv
  <2>2. QED
    BY <2>1
<1>2. MasterInv /\ [I2cNext]_i2cVars => MasterInv'
  <2>1. CASE Controller
    BY <2>1, ControllerKeeps
  <2>2. CASE Caller
    BY <2>2, CallerKeeps
  <2>3. CASE Master
    BY <2>3, StartKeeps, FillKeeps, LoopKeeps DEF Master
  <2>4. CASE UNCHANGED i2cVars
    BY <2>4 DEF i2cVars, call, locals, controller, MasterInv, I2cTypeOK,
       Directions, WireInv, FillInv, StatusInv, AllSent, InSequence, Taken
  <2>5. QED
    BY <2>1, <2>2, <2>3, <2>4 DEF I2cNext
<1>3. MasterInv => AllSent
  BY DEF MasterInv
<1>4. QED
  BY <1>1, <1>2, <1>3, PTL DEF I2cSpec
=============================================================================
