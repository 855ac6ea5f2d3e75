--------------------------- MODULE TxRing_proofs ---------------------------
(***************************************************************************)
(* Proofs about the transmit ring, for any number of descriptors, packets  *)
(* and queue entries, and for any of the errors unless a theorem says so.  *)
(*                                                                         *)
(* OwnedOnce is inductive together with the types: it speaks about every   *)
(* descriptor of the ring and not only about those between tail and head,  *)
(* so it does not depend on where the resets leave the two indices.        *)
(*                                                                         *)
(* The code does not keep the head from catching up with the tail, so what *)
(* is proved of a ring that works as meant has the premise []HasRoom: it   *)
(* holds as long as some descriptor is free.  By counting, one always is   *)
(* when the client has fewer packets than there are descriptors            *)
(* (RoomToSpare): the descriptors hold different packets.                  *)
(* WindowInv and CleanInv describe the window by the distance of each      *)
(* descriptor from the tail, which turns steps of the indices modulo N     *)
(* into steps of one.                                                      *)
(***************************************************************************)
EXTENDS TxRing, GemBuffers_proofs, FiniteSetTheorems

-----------------------------------------------------------------------------
(* Types. *)

\* Every reachable state is well-typed; in particular every index the driver
\* and the controller use stays within the ring.
THEOREM Typing == Spec => []TypeOK
<1>1. Init => TypeOK
  <2> SUFFICES ASSUME Init PROVE TypeOK
    OBVIOUS
  <2>1. /\ submitQ \in Seq(Packets) /\ ackQ \in Seq(Packets)
        /\ addr \in [Index -> Packets \union {NoAddr}]
        /\ used \in [Index -> BOOLEAN]
    BY EmptySeq DEF Init
  <2>2. /\ head \in Index /\ tail \in Index /\ hwIdx \in Index
        /\ pc \in Steps /\ count \in Nat
    BY FirstInRing DEF Init, Steps
  <2>3. QED
    BY <2>1, <2>2 DEF Init, TypeOK
<1>2. TypeOK /\ [Next]_vars => TypeOK'
  <2> SUFFICES ASSUME TypeOK, [Next]_vars PROVE TypeOK'
    OBVIOUS
  <2> USE DEF TypeOK, stream, ring, hardware, thread
  <2>1. ASSUME NEW p \in Packets, ClientSubmit(p) PROVE TypeOK'
    <3>1. submitQ' \in Seq(Packets)
      BY <2>1, AppendRange DEF ClientSubmit
    <3>2. QED
      BY <2>1, <3>1 DEF ClientSubmit
  <2>2. CASE ClientReclaim
    <3>1. Head(ackQ) \in Packets /\ Tail(ackQ) \in Seq(Packets)
      BY <2>2, TailRange DEF ClientReclaim
    <3>2. QED
      BY <2>2, <3>1 DEF ClientReclaim
  <2>3. CASE HwTransmit
    <3>1. used' \in [Index -> BOOLEAN] /\ hwIdx' \in Index
      BY <2>3, AdvanceInRing DEF HwTransmit
    <3>2. QED
      BY <2>3, <3>1 DEF HwTransmit
  <2>4. CASE HwHalt
    BY <2>4 DEF HwHalt
  <2>5. ASSUME NEW f \in Faults, HwFault(f) PROVE TypeOK'
    <3>1. used' \in [Index -> BOOLEAN]
      BY <2>5 DEF HwFault
    <3>2. QED
      BY <2>5, <3>1 DEF HwFault
  <2>6. CASE PacketAvail
    BY <2>6 DEF PacketAvail, Steps
  <2>7. CASE HandleIrq
    BY <2>7 DEF HandleIrq, ReadStatus, Steps
  <2>8. CASE HandleRxIrq
    BY <2>8 DEF HandleRxIrq, ReadStatus, Steps
  <2>9. CASE ClearTxStatus
    BY <2>9 DEF ClearTxStatus, Steps
  <2>10. CASE ClearInterrupt
    BY <2>10 DEF ClearInterrupt, Steps
  <2>11. CASE AckTail
    <3>1. /\ ackQ' \in Seq(Packets)
          /\ addr' \in [Index -> Packets \union {NoAddr}]
      <4>1. CASE addr[tail] = NoAddr
        BY <2>11, <4>1 DEF AckTail
      <4>2. CASE addr[tail] # NoAddr
        <5>1. addr[tail] \in Packets
          BY <4>2
        <5>2. /\ ackQ' = Append(ackQ, addr[tail])
              /\ addr' = [addr EXCEPT ![tail] = NoAddr]
          BY <2>11, <4>2 DEF AckTail
        <5>3. ackQ' \in Seq(Packets)
          BY <5>1, <5>2, AppendRange
        <5>4. QED
          BY <5>2, <5>3
      <4>3. QED
        BY <4>1, <4>2
    <3>2. tail' \in Index
      BY <2>11, AdvanceInRing DEF AckTail
    <3>3. QED
      BY <2>11, <3>1, <3>2 DEF AckTail
  <2>12. CASE AcksDone
    BY <2>12 DEF AcksDone, Steps
  <2>13. CASE Send
    <3>1. Head(submitQ) \in Packets /\ Tail(submitQ) \in Seq(Packets)
      BY <2>13, TailRange DEF Send, CanSend
    <3>2. /\ addr' \in [Index -> Packets \union {NoAddr}]
          /\ used' \in [Index -> BOOLEAN]
          /\ head' \in Index /\ tail' \in Index
      BY <2>13, <3>1, AdvanceInRing DEF Send
    <3>3. hwRun' \in BOOLEAN
      BY <2>13 DEF Send
    <3>4. QED
      BY <2>13, <3>1, <3>2, <3>3 DEF Send, Steps
  <2>14. CASE SendDone
    BY <2>14 DEF SendDone, Steps
  <2>15. CASE StartReset
    BY <2>15, FirstInRing DEF StartReset, Steps
  <2>16. CASE FinishReset
    BY <2>16, FirstInRing DEF FinishReset, Steps
  <2>17. CASE IrqDone
    BY <2>17 DEF IrqDone, Steps
  <2>18. CASE UNCHANGED vars
    BY <2>18 DEF vars
  <2>19. QED
    BY <2>1, <2>2, <2>3, <2>4, <2>5, <2>6, <2>7, <2>9, <2>10, <2>11, <2>12,
       <2>13, <2>14, <2>15, <2>16, <2>17, <2>18, <2>8
    DEF Next, Client, Hardware, Driver
<1>3. QED
  BY <1>1, <1>2, PTL DEF Spec

-----------------------------------------------------------------------------
(* Ownership of the packets. *)

\* Wherever resets and errors come in between, a packet is owned by the
\* client, one queue entry or one descriptor, and never by two of them.
THEOREM OnlyOneOwner == Spec => []OwnedOnce
<1> DEFINE InRing == Range(addr) \ {NoAddr}
<1>1. Init => OwnedOnce
  <2> SUFFICES ASSUME Init PROVE OwnedOnce
    OBVIOUS
  <2>1. Range(<<>>) = {} /\ IsInjective(<<>>)
    BY DEF Range, IsInjective
  <2>2. \A i \in Index : addr[i] = NoAddr
    BY DEF Init
  <2>3. Range(addr) \ {NoAddr} = {}
    BY <2>2 DEF Init, Range
  <2>4. QED
    BY <2>1, <2>2, <2>3 DEF Init, OwnedOnce
<1>2. TypeOK /\ OwnedOnce /\ [Next]_vars => OwnedOnce'
  <2> SUFFICES ASSUME TypeOK, OwnedOnce, [Next]_vars PROVE OwnedOnce'
    OBVIOUS
  <2> USE DEF stream, ring, hardware, thread
  <2>1. /\ submitQ \in Seq(Packets) /\ ackQ \in Seq(Packets)
        /\ addr \in [Index -> Packets \union {NoAddr}]
        /\ tail \in Index /\ head \in Index
    BY DEF TypeOK
  <2>2. ASSUME NEW p \in Packets, ClientSubmit(p) PROVE OwnedOnce'
    <3>1. /\ p \in client /\ client' = client \ {p}
          /\ submitQ' = Append(submitQ, p) /\ ackQ' = ackQ /\ addr' = addr
      BY <2>2 DEF ClientSubmit
    <3>2. p \notin Range(submitQ) \union Range(ackQ) \union InRing
      BY <3>1 DEF OwnedOnce
    <3>3. Range(submitQ') = Range(submitQ) \union {p} /\ IsInjective(submitQ')
      BY <2>1, <3>1, <3>2, AppendRange DEF OwnedOnce
    <3>4. QED
      BY <3>1, <3>2, <3>3 DEF OwnedOnce
  <2>3. CASE ClientReclaim
    <3> DEFINE p == Head(ackQ)
    <3>1. /\ ackQ # <<>> /\ client' = client \union {p} /\ ackQ' = Tail(ackQ)
          /\ submitQ' = submitQ /\ addr' = addr
      BY <2>3 DEF ClientReclaim
    <3>2. /\ p \in Range(ackQ) /\ p \notin Range(ackQ')
          /\ Range(ackQ') \subseteq Range(ackQ) /\ IsInjective(ackQ')
      BY <2>1, <3>1, TailRange DEF OwnedOnce
    <3> HIDE DEF p
    <3>3. QED
      BY <3>1, <3>2 DEF OwnedOnce
  <2>4. CASE AckTail
    <3>1. CASE addr[tail] = NoAddr
      BY <2>4, <3>1 DEF AckTail, OwnedOnce
    <3>2. CASE addr[tail] # NoAddr
      <4> DEFINE p == addr[tail]
      <4>1. /\ client' = client /\ submitQ' = submitQ
            /\ ackQ' = Append(ackQ, p)
            /\ addr' = [addr EXCEPT ![tail] = NoAddr]
        BY <2>4, <3>2 DEF AckTail
      <4>2. p \in Packets /\ p \in InRing
        BY <2>1, <3>2 DEF Range
      <4>3. p \notin Range(ackQ) \union Range(submitQ) \union client
        BY <4>2 DEF OwnedOnce
      <4>4. Range(ackQ') = Range(ackQ) \union {p} /\ IsInjective(ackQ')
        BY <2>1, <4>1, <4>2, <4>3, AppendRange DEF OwnedOnce
      <4>5. \A j \in Index : addr'[j] = IF j = tail THEN NoAddr ELSE addr[j]
        BY <2>1, <4>1
      <4>6. InRing' \subseteq InRing \ {p}
        BY <2>1, <3>2, <4>1, <4>5 DEF OwnedOnce, Range
      <4>7. \A j, k \in Index : addr'[j] = addr'[k] /\ addr'[j] # NoAddr => j = k
        BY <4>5 DEF OwnedOnce
      <4>8. /\ client \cap (Range(submitQ) \cup Range(ackQ) \cup InRing) = {}
            /\ Range(submitQ) \cap (Range(ackQ) \cup InRing) = {}
            /\ Range(ackQ) \cap InRing = {} /\ IsInjective(submitQ)
        BY DEF OwnedOnce
      <4> HIDE DEF p, InRing
      <4>9. /\ client' \cap (Range(submitQ') \cup Range(ackQ') \cup InRing') = {}
            /\ Range(submitQ') \cap (Range(ackQ') \cup InRing') = {}
            /\ Range(ackQ') \cap InRing' = {} /\ IsInjective(submitQ')
        BY <4>1, <4>2, <4>3, <4>4, <4>6, <4>8
      <4> USE DEF InRing
      <4>10. QED
        BY <4>4, <4>7, <4>9 DEF OwnedOnce
    <3>3. QED
      BY <3>1, <3>2
  <2>5. CASE Send
    <3> DEFINE p == Head(submitQ)
    <3>1. /\ submitQ # <<>> /\ submitQ' = Tail(submitQ)
          /\ client' = client /\ ackQ' = ackQ
      BY <2>5 DEF Send, CanSend
    <3>2. /\ p \in Packets /\ p \in Range(submitQ) /\ p \notin Range(submitQ')
          /\ Range(submitQ') \subseteq Range(submitQ) /\ IsInjective(submitQ')
      BY <2>1, <3>1, TailRange DEF OwnedOnce
    <3>3. CASE addr' = addr
      BY <3>1, <3>2, <3>3 DEF OwnedOnce
    <3>4. CASE addr' = [addr EXCEPT ![head] = p]
      <4> HIDE DEF p
      <4>1. \A j \in Index : addr'[j] = IF j = head THEN p ELSE addr[j]
        BY <2>1, <3>4
      <4>2. InRing' \subseteq InRing \union {p}
        BY <2>1, <3>4, <4>1 DEF Range
      <4>3. \A j \in Index : addr[j] # p
        <5>1. p \notin InRing /\ p # NoAddr
          BY <3>2, PacketsAssumption DEF OwnedOnce
        <5>2. QED
          BY <2>1, <5>1 DEF Range
      <4>4. \A j, k \in Index : addr'[j] = addr'[k] /\ addr'[j] # NoAddr => j = k
        BY <4>1, <4>3 DEF OwnedOnce
      <4>5. /\ client \cap (Range(submitQ) \cup Range(ackQ) \cup InRing) = {}
            /\ Range(submitQ) \cap (Range(ackQ) \cup InRing) = {}
            /\ Range(ackQ) \cap InRing = {} /\ IsInjective(ackQ)
        BY DEF OwnedOnce
      <4> HIDE DEF InRing
      <4>6. /\ client' \cap (Range(submitQ') \cup Range(ackQ') \cup InRing') = {}
            /\ Range(submitQ') \cap (Range(ackQ') \cup InRing') = {}
            /\ Range(ackQ') \cap InRing' = {} /\ IsInjective(ackQ')
        BY <3>1, <3>2, <4>2, <4>5
      <4> USE DEF InRing
      <4>7. QED
        BY <3>2, <4>4, <4>6 DEF OwnedOnce
    <3>5. QED
      BY <2>5, <3>3, <3>4 DEF Send
  <2>6. ASSUME UNCHANGED <<client, submitQ, ackQ, addr>> PROVE OwnedOnce'
    BY <2>6 DEF OwnedOnce
  <2>7. Hardware => UNCHANGED <<client, submitQ, ackQ, addr>>
    BY DEF Hardware, HwTransmit, HwHalt, HwFault
  <2>8. HandleRxIrq \/ Driver
          => AckTail \/ Send \/ UNCHANGED <<client, submitQ, ackQ, addr>>
    BY DEF Driver, PacketAvail, HandleIrq, HandleRxIrq, ReadStatus, ClearTxStatus, ClearInterrupt,
           AcksDone, SendDone, StartReset, FinishReset, IrqDone
  <2>9. UNCHANGED vars => UNCHANGED <<client, submitQ, ackQ, addr>>
    BY DEF vars
  <2>10. QED
    BY <2>2, <2>3, <2>4, <2>5, <2>6, <2>7, <2>8, <2>9 DEF Next, Client
<1>3. QED
  BY <1>1, <1>2, Typing, PTL DEF Spec

-----------------------------------------------------------------------------
(* The window between tail and head. *)

\* How far a descriptor lies behind the tail.
Pos(i) == Queued(i, tail)

\* The window holds well-formed packets only.
WindowInv ==
  /\ \A i \in Index : /\ addr[i] \in Proper \union {NoAddr}
                      /\ Pos(i) < Queued(head, tail) => addr[i] # NoAddr
  /\ pc = "flush" => Faults # {}

\* Without errors a packet is in the window and nowhere else in the ring,
\* and the controller holds the rear part of the window, from its pointer on.
CleanInv ==
  /\ Pos(hwIdx) <= Queued(head, tail)
  /\ \A i \in Index :
       /\ addr[i] # NoAddr <=> Pos(i) < Queued(head, tail)
       /\ ~used[i] <=> /\ Pos(hwIdx) <= Pos(i)
                       /\ Pos(i) < Queued(head, tail)

-----------------------------------------------------------------------------
(* Room for the next packet. *)

\* A client with fewer packets than there are descriptors never fills the
\* ring, as no two descriptors hold the same packet.
LEMMA SpareHasRoom ==
  ASSUME SpareSlot, TypeOK, OwnedOnce, WindowInv
  PROVE  HasRoom
<1> SUFFICES ASSUME \A i \in Index : addr[i] # NoAddr PROVE FALSE
  BY DEF HasRoom
<1>1. \A i \in Index : addr[i] \in Proper
  BY DEF WindowInv
<1>2. addr \in [Index -> Proper]
  BY <1>1 DEF TypeOK
<1>3. \A i, j \in Index : addr[i] = addr[j] => i = j
  BY DEF OwnedOnce
<1>4. addr \in Injection(Index, Proper)
  BY <1>2, <1>3 DEF Injection, IsInjective
<1>5. IsFiniteSet(Index) /\ Cardinality(Index) = N
  BY FS_Interval, NAssumption DEF Index
<1>6. Cardinality(Index) <= Cardinality(Proper)
  BY <1>4, FS_Injection DEF SpareSlot
<1>7. Cardinality(Proper) \in Nat
  BY FS_CardinalityType DEF SpareSlot
<1>8. QED
  BY <1>5, <1>6, <1>7, NAssumption DEF SpareSlot

-----------------------------------------------------------------------------
(* The steps that move the indices. *)

\* submit_acks takes the tail's packet out of the window and moves the other
\* ones up by one.
LEMMA AckTailMoves ==
  ASSUME TypeOK, WindowInv, AckTail
  PROVE  /\ addr[tail] \in Proper
         /\ ackQ' = Append(ackQ, addr[tail])
         /\ addr' = [addr EXCEPT ![tail] = NoAddr]
         /\ tail' = Advance(tail) /\ tail' \in Index
         /\ Queued(head, tail) # 0
         /\ Queued(head', tail') = Queued(head, tail) - 1
         /\ \A i \in Index :
              Queued(i, tail') = IF i = tail THEN N-1 ELSE Pos(i) - 1
<1>1. head \in Index /\ tail \in Index /\ count \in Nat
  BY DEF TypeOK
<1>2. /\ count < Queued(head, tail) /\ head' = head /\ tail' = Advance(tail)
  BY DEF AckTail, AckLoopGoesOn, ring
<1>3. Queued(head, tail) \in Index /\ Pos(tail) = 0
  BY <1>1, Distances DEF Pos
<1>4. Queued(head, tail) # 0 /\ Pos(tail) < Queued(head, tail)
  BY <1>1, <1>2, <1>3, NAssumption DEF Index
<1>5. addr[tail] \in Proper
  BY <1>1, <1>4 DEF WindowInv
<1>6. addr[tail] # NoAddr
  BY <1>5, PacketsAssumption DEF Proper
<1>7. /\ ackQ' = Append(ackQ, addr[tail])
      /\ addr' = [addr EXCEPT ![tail] = NoAddr]
  BY <1>6 DEF AckTail
<1>8. head # tail
  BY <1>1, <1>4, Distances
<1>9. Queued(head', tail') = Queued(head, tail) - 1
  BY <1>1, <1>2, <1>8, Distances
<1>10. \A i \in Index : Queued(i, tail') = IF i = tail THEN N-1 ELSE Pos(i) - 1
  BY <1>1, <1>2, Distances DEF Pos
<1>11. QED
  BY <1>1, <1>2, <1>4, <1>5, <1>7, <1>9, <1>10, AdvanceInRing

\* _send puts a well-formed packet behind the window, which grows by one
\* unless that was the last free descriptor.
LEMMA SendMoves ==
  ASSUME TypeOK, Send
  PROVE  LET p == Head(submitQ) IN
         /\ submitQ # <<>> /\ p \in Packets /\ submitQ' = Tail(submitQ)
         /\ tail' = tail /\ used[head]
         /\ \/ p \notin Proper /\ UNCHANGED ring
            \/ /\ p \in Proper
               /\ addr' = [addr EXCEPT ![head] = p]
               /\ used' = [used EXCEPT ![head] = FALSE]
               /\ head' = Advance(head)
               /\ Queued(head', tail') = IF Queued(head, tail) = N-1 THEN 0
                                         ELSE Queued(head, tail) + 1
<1>1. head \in Index /\ tail \in Index /\ submitQ \in Seq(Packets)
  BY DEF TypeOK
<1>2. submitQ # <<>> /\ used[head] /\ submitQ' = Tail(submitQ)
  BY DEF Send, CanSend
<1>3. Head(submitQ) \in Packets
  BY <1>1, <1>2, TailRange
<1>4. CASE Head(submitQ) \in Proper
  <2>1. /\ addr' = [addr EXCEPT ![head] = Head(submitQ)]
        /\ used' = [used EXCEPT ![head] = FALSE]
        /\ head' = Advance(head) /\ tail' = tail
    BY <1>4 DEF Send, Proper
  <2>2. Queued(Advance(head), tail) = IF Queued(head, tail) = N-1 THEN 0
                                      ELSE Queued(head, tail) + 1
    BY <1>1, Distances
  <2>3. QED
    BY <1>2, <1>3, <1>4, <2>1, <2>2
<1>5. CASE Head(submitQ) \notin Proper
  <2>1. UNCHANGED ring
    BY <1>3, <1>5 DEF Send, Proper
  <2>2. QED
    BY <1>2, <1>3, <1>5, <2>1 DEF ring
<1>6. QED
  BY <1>4, <1>5

\* The head has not caught up with the tail if a descriptor is free after
\* _send: else all other descriptors were queued, and with the packet being
\* sent all of them are filled.
LEMMA SendHasRoom ==
  ASSUME TypeOK, WindowInv, Send, HasRoom', Head(submitQ) \in Proper
  PROVE  Queued(head, tail) < N-1
<1>1. /\ head \in Index /\ tail \in Index
      /\ addr \in [Index -> Packets \union {NoAddr}]
  BY DEF TypeOK
<1>2. addr' = [addr EXCEPT ![head] = Head(submitQ)]
  BY SendMoves
<1>3. SUFFICES ASSUME Queued(head, tail) = N-1 PROVE FALSE
  <2>1. Queued(head, tail) \in Index
    BY <1>1, Distances
  <2>2. QED
    BY <2>1, NAssumption DEF Index
<1>4. ASSUME NEW i \in Index, i # head PROVE addr[i] # NoAddr
  <2>1. Pos(i) \in Index /\ Pos(i) # Queued(head, tail)
    BY <1>1, <1>4, Distances DEF Pos
  <2>2. Pos(i) < N-1
    BY <1>3, <2>1, NAssumption DEF Index
  <2>3. QED
    BY <1>3, <2>2 DEF WindowInv
<1>5. Head(submitQ) # NoAddr
  BY PacketsAssumption DEF Proper
<1>6. \A i \in Index : addr'[i] # NoAddr
  BY <1>1, <1>2, <1>4, <1>5
<1>7. QED
  BY <1>6 DEF HasRoom

\* The steps that change neither the window nor the queues of the session.
LEMMA OtherSteps ==
  ASSUME TypeOK, [Next]_vars
  PROVE  \/ Client \/ AckTail \/ Send \/ FinishReset
         \/ /\ UNCHANGED <<client, submitQ, ackQ, addr, head, tail>>
            /\ pc' = "flush" => pc = "flush" \/ Faults # {}
<1> USE DEF stream, ring, hardware, thread
<1>1. CASE Hardware
  BY <1>1 DEF Hardware, HwTransmit, HwHalt, HwFault
<1>2. CASE HandleRxIrq
  BY <1>2 DEF HandleRxIrq, ReadStatus
<1>3. CASE Driver
  BY <1>3 DEF Driver, PacketAvail, HandleIrq, ReadStatus, ClearTxStatus,
              ClearInterrupt, AcksDone, SendDone, StartReset, IrqDone, TypeOK
<1>4. CASE UNCHANGED vars
  BY <1>4 DEF vars
<1>5. QED
  BY <1>1, <1>2, <1>3, <1>4 DEF Next

-----------------------------------------------------------------------------
(* The window. *)

\* Whatever resets come in between, each descriptor between tail and head
\* holds a well-formed packet.
THEOREM WindowFilled == Spec => []WindowInv
<1>1. Init => WindowInv
  <2> SUFFICES ASSUME Init PROVE WindowInv
    OBVIOUS
  <2>1. /\ \A i \in Index : addr[i] = NoAddr
        /\ head = 0 /\ tail = 0 /\ pc = "idle"
    BY DEF Init
  <2>2. \A i \in Index : ~(Pos(i) < Queued(head, tail))
    BY <2>1, NAssumption DEF Pos, Queued, Index
  <2>3. QED
    BY <2>1, <2>2 DEF WindowInv
<1>2. TypeOK /\ WindowInv /\ [Next]_vars => WindowInv'
  <2> SUFFICES ASSUME TypeOK, WindowInv, [Next]_vars PROVE WindowInv'
    OBVIOUS
  <2>1. ASSUME UNCHANGED <<addr, head, tail>>,
               pc' = "flush" => pc = "flush" \/ Faults # {}
        PROVE  WindowInv'
    BY <2>1 DEF WindowInv, Pos
  <2>2. CASE Client
    BY <2>1, <2>2
    DEF Client, ClientSubmit, ClientReclaim, ring, thread
  <2>3. CASE AckTail
    <3>1. pc' = pc
      BY <2>3 DEF AckTail
    <3>2. ASSUME NEW i \in Index
          PROVE  /\ addr'[i] \in Proper \union {NoAddr}
                 /\ Pos(i)' < Queued(head, tail)' => addr'[i] # NoAddr
      <4>1. /\ Pos(i) \in Index /\ Queued(head, tail) \in Index
            /\ tail \in Index /\ addr \in [Index -> Packets \union {NoAddr}]
        BY Distances DEF Pos, TypeOK
      <4>2. CASE i = tail
        <5>1. Pos(i)' = N-1 /\ Queued(head, tail)' = Queued(head, tail) - 1
          BY <2>3, <4>2, AckTailMoves DEF Pos
        <5>2. QED
          BY <2>3, <4>1, <4>2, <5>1, AckTailMoves, NAssumption DEF Index
      <4>3. CASE i # tail
        <5>1. /\ Pos(i)' = Pos(i) - 1
              /\ Queued(head, tail)' = Queued(head, tail) - 1
              /\ addr'[i] = addr[i]
          BY <2>3, <4>1, <4>3, AckTailMoves DEF Pos
        <5>2. Pos(i)' < Queued(head, tail)' => Pos(i) < Queued(head, tail)
          BY <4>1, <5>1, NAssumption DEF Index
        <5>3. QED
          BY <5>1, <5>2 DEF WindowInv
      <4>4. QED
        BY <4>2, <4>3
    <3>3. QED
      BY <3>1, <3>2 DEF WindowInv
  <2>4. CASE Send
    <3> DEFINE p == Head(submitQ)
    <3>1. pc' = "acks"
      BY <2>4 DEF Send
    <3>2. CASE UNCHANGED ring
      BY <2>1, <3>1, <3>2 DEF ring
    <3>3. CASE ~UNCHANGED ring
      <4>1. /\ p \in Proper /\ addr' = [addr EXCEPT ![head] = p] /\ tail' = tail
            /\ Queued(head', tail') = IF Queued(head, tail) = N-1 THEN 0
                                      ELSE Queued(head, tail) + 1
        BY <2>4, <3>3, SendMoves
      <4> HIDE DEF p
      <4>2. ASSUME NEW i \in Index
            PROVE  /\ addr'[i] \in Proper \union {NoAddr}
                   /\ Pos(i)' < Queued(head, tail)' => addr'[i] # NoAddr
        <5>1. /\ Pos(i) \in Index /\ Queued(head, tail) \in Index
              /\ head \in Index /\ addr \in [Index -> Packets \union {NoAddr}]
              /\ Pos(i) = Queued(head, tail) => i = head
              /\ Pos(i)' = Pos(i)
          BY <4>1, Distances DEF Pos, TypeOK
        <5>2. CASE i = head
          BY <4>1, <5>1, <5>2, PacketsAssumption DEF Proper
        <5>3. CASE i # head
          <6>1. Pos(i)' < Queued(head, tail)' => Pos(i) < Queued(head, tail)
            BY <4>1, <5>1, <5>3, NAssumption DEF Index
          <6>2. addr'[i] = addr[i]
            BY <4>1, <5>1, <5>3
          <6>3. QED
            BY <6>1, <6>2 DEF WindowInv
        <5>4. QED
          BY <5>2, <5>3
      <4>3. QED
        BY <3>1, <4>2 DEF WindowInv
    <3>4. QED
      BY <3>2, <3>3
  <2>5. CASE FinishReset
    <3>1. addr' = addr /\ head' = 0 /\ tail' = 0 /\ pc' = "errors"
      BY <2>5 DEF FinishReset
    <3>2. \A i \in Index : ~(Pos(i)' < Queued(head, tail)')
      BY <3>1, NAssumption DEF Pos, Queued, Index
    <3>3. QED
      BY <3>1, <3>2 DEF WindowInv
  <2>6. QED
    BY <2>1, <2>2, <2>3, <2>4, <2>5, OtherSteps
<1>3. QED
  BY <1>1, <1>2, Typing, PTL DEF Spec

\* If the ring has a slot to spare, a descriptor is free.
SparesRoom == SpareSlot => HasRoom

LEMMA RoomKept == Spec => []SparesRoom
<1>1. TypeOK /\ OwnedOnce /\ WindowInv => SparesRoom
  BY SpareHasRoom DEF SparesRoom
<1>2. QED
  BY <1>1, Typing, OnlyOneOwner, WindowFilled, PTL

\* A client with fewer packets than there are descriptors never fills the
\* ring, whatever errors occur: then the premise of the theorems below holds.
THEOREM RoomToSpare ==
  ASSUME SpareSlot
  PROVE  Spec => []HasRoom
<1>1. SparesRoom => HasRoom
  BY DEF SparesRoom
<1>2. QED
  BY <1>1, RoomKept, PTL

-----------------------------------------------------------------------------
(* The controller in the window. *)

\* Without errors and while the ring is never full, a descriptor holds a
\* packet exactly while it is between tail and head, and is the controller's
\* from its queue pointer on.
THEOREM CleanRing ==
  ASSUME Faults = {}
  PROVE  Spec /\ []HasRoom => []CleanInv
<1>1. Init => CleanInv
  <2> SUFFICES ASSUME Init PROVE CleanInv
    OBVIOUS
  <2>1. /\ \A i \in Index : addr[i] = NoAddr /\ used[i]
        /\ head = 0 /\ tail = 0 /\ hwIdx = 0
    BY DEF Init
  <2>2. /\ Pos(hwIdx) = 0 /\ Queued(head, tail) = 0
        /\ \A i \in Index : ~(Pos(i) < Queued(head, tail))
    BY <2>1, NAssumption DEF Pos, Queued, Index
  <2>3. QED
    BY <2>1, <2>2 DEF CleanInv
<1>2. /\ TypeOK /\ HasRoom' /\ WindowInv /\ CleanInv /\ [Next]_vars
      => CleanInv'
  <2> SUFFICES ASSUME TypeOK, HasRoom', WindowInv, CleanInv, [Next]_vars
               PROVE  CleanInv'
    OBVIOUS
  <2> DEFINE q == Queued(head, tail)
  <2>0. /\ head \in Index /\ tail \in Index /\ hwIdx \in Index
        /\ addr \in [Index -> Packets \union {NoAddr}]
        /\ used \in [Index -> BOOLEAN]
        /\ q \in Index /\ \A i \in Index : Pos(i) \in Index
        /\ \A i, j \in Index : Pos(i) = Pos(j) => i = j
        /\ \A i \in Index : Pos(i) = q => i = head
        /\ Pos(head) = q
    BY Distances DEF Pos, TypeOK
  <2>nat. /\ N \in Nat \ {0} /\ q \in Nat /\ q < N
          /\ \A i \in Index : Pos(i) \in Nat /\ Pos(i) < N
    BY <2>0, IndexIsNat
  <2>1. ASSUME UNCHANGED <<addr, used, head, tail, hwIdx>> PROVE CleanInv'
    BY <2>1 DEF CleanInv, Pos
  <2>2. CASE Client
    BY <2>1, <2>2 DEF Client, ClientSubmit, ClientReclaim, ring, hardware
  <2>3. CASE HwTransmit
    <3>1. /\ ~used[hwIdx] /\ used' = [used EXCEPT ![hwIdx] = TRUE]
          /\ hwIdx' = Advance(hwIdx) /\ UNCHANGED <<addr, head, tail>>
      BY <2>3 DEF HwTransmit
    <3>2. Pos(hwIdx) < q
      BY <2>0, <3>1 DEF CleanInv
    <3>3. Pos(hwIdx') = Pos(hwIdx) + 1
      <4>1. Pos(hwIdx) # N-1
        BY <2>0, <3>2, NAssumption DEF Index
      <4>2. QED
        BY <2>0, <3>1, <4>1, Distances DEF Pos
    <3>4. q' = q /\ Pos(hwIdx)' = Pos(hwIdx) + 1 /\ \A i \in Index : Pos(i)' = Pos(i)
      BY <3>1, <3>3 DEF Pos
    <3> HIDE DEF q
    <3>5. ASSUME NEW i \in Index
          PROVE  ~used'[i] <=> Pos(hwIdx) + 1 <= Pos(i) /\ Pos(i) < q
      <4>1. ~used[i] <=> Pos(hwIdx) <= Pos(i) /\ Pos(i) < q
        BY DEF CleanInv, q
      <4>2. CASE i = hwIdx
        BY <2>0, <3>1, <4>2, NAssumption DEF Index
      <4>3. CASE i # hwIdx
        <5>1. used'[i] = used[i] /\ Pos(i) # Pos(hwIdx)
          BY <2>0, <3>1, <4>3
        <5>2. Pos(i) \in Nat /\ Pos(hwIdx) \in Nat
          BY <2>0, <2>nat
        <5>3. Pos(hwIdx) <= Pos(i) <=> Pos(hwIdx) + 1 <= Pos(i)
          BY <5>1, <5>2
        <5>4. QED
          BY <4>1, <5>1, <5>3
      <4>4. QED
        BY <4>2, <4>3
    <3>6. Pos(hwIdx) + 1 <= q
      BY <2>0, <3>2, NAssumption DEF Index
    <3>7. QED
      BY <3>1, <3>4, <3>5, <3>6 DEF CleanInv, q
  <2>4. CASE HwHalt
    BY <2>1, <2>4 DEF HwHalt, ring
  <2>5. CASE AckTail
    <3>0. pc = "acks"
      BY <2>5 DEF AckTail, WindowInv
    <3>1. /\ used[tail] /\ UNCHANGED <<used, head, hwIdx>>
      BY <2>5, <3>0 DEF AckTail, AckLoopGoesOn, hardware
    <3>2. /\ addr' = [addr EXCEPT ![tail] = NoAddr]
          /\ q # 0 /\ q' = q - 1
          /\ \A i \in Index : Pos(i)' = IF i = tail THEN N-1 ELSE Pos(i) - 1
      BY <2>5, AckTailMoves DEF Pos
    <3>3. Pos(tail) = 0
      BY <2>0, Distances DEF Pos
    <3> HIDE DEF q
    <3>4. hwIdx # tail
      <4>1. 0 < q
        BY <2>nat, <3>2
      <4>2. ~used[tail] <=> Pos(hwIdx) <= Pos(tail) /\ Pos(tail) < q
        BY <2>0 DEF CleanInv, q
      <4>3. QED
        BY <3>1, <3>3, <4>1, <4>2
    <3>5. Pos(hwIdx)' = Pos(hwIdx) - 1 /\ Pos(hwIdx) # 0
      BY <2>0, <3>1, <3>2, <3>3, <3>4 DEF Pos
    <3>6. Pos(hwIdx)' <= q'
      BY <2>0, <3>2, <3>5, NAssumption DEF CleanInv, Index, q
    <3>7. ASSUME NEW i \in Index
          PROVE  /\ addr'[i] # NoAddr <=> Pos(i)' < q'
                 /\ ~used'[i] <=> Pos(hwIdx)' <= Pos(i)' /\ Pos(i)' < q'
      <4>1. CASE i = tail
        BY <2>0, <3>1, <3>2, <3>5, <4>1, NAssumption DEF Index
      <4>2. CASE i # tail
        <5>1. addr'[i] = addr[i] /\ used'[i] = used[i] /\ Pos(i)' = Pos(i) - 1
          BY <2>0, <3>1, <3>2, <4>2
        <5>2. /\ addr[i] # NoAddr <=> Pos(i) < q
              /\ ~used[i] <=> Pos(hwIdx) <= Pos(i) /\ Pos(i) < q
          BY DEF CleanInv, q
        <5>3. /\ Pos(i) \in Nat /\ Pos(hwIdx) \in Nat /\ q \in Nat
          BY <2>0, <2>nat
        <5>4. /\ Pos(i) - 1 < q - 1 <=> Pos(i) < q
              /\ Pos(hwIdx) - 1 <= Pos(i) - 1 <=> Pos(hwIdx) <= Pos(i)
          BY <5>3
        <5>5. QED
          BY <3>2, <3>5, <5>1, <5>2, <5>4
      <4>3. QED
        BY <4>1, <4>2
    <3>8. QED
      BY <3>6, <3>7 DEF CleanInv, q
  <2>6. CASE Send
    <3>1. hwIdx' = hwIdx /\ submitQ # <<>>
      BY <2>6 DEF Send, CanSend
    <3>2. CASE UNCHANGED ring
      BY <2>1, <3>1, <3>2 DEF ring
    <3>3. CASE ~UNCHANGED ring
      <4> DEFINE p == Head(submitQ)
      <4>1. /\ p \in Proper /\ addr' = [addr EXCEPT ![head] = p] /\ tail' = tail
            /\ used' = [used EXCEPT ![head] = FALSE]
            /\ q' = IF q = N-1 THEN 0 ELSE q + 1
        BY <2>6, <3>3, SendMoves
      <4>2. q < N-1
        BY <2>6, <4>1, SendHasRoom
      <4>3. p # NoAddr
        BY <4>1, PacketsAssumption DEF Proper
      <4>4. q' = q + 1 /\ \A i \in Index : Pos(i)' = Pos(i)
        BY <2>0, <4>1, <4>2, NAssumption DEF Index, Pos
      <4>5. Pos(hwIdx)' = Pos(hwIdx) /\ Pos(hwIdx) <= q
        BY <3>1, <4>1 DEF Pos, CleanInv
      <4> HIDE DEF p, q
      <4>6. ASSUME NEW i \in Index
            PROVE  /\ addr'[i] # NoAddr <=> Pos(i)' < q'
                   /\ ~used'[i] <=> Pos(hwIdx)' <= Pos(i)' /\ Pos(i)' < q'
        <5>1. CASE i = head
          BY <2>0, <4>1, <4>3, <4>4, <4>5, <5>1, NAssumption DEF Index
        <5>2. CASE i # head
          <6>1. addr'[i] = addr[i] /\ used'[i] = used[i] /\ Pos(i) # q
            BY <2>0, <4>1, <5>2
          <6>2. /\ addr[i] # NoAddr <=> Pos(i) < q
                /\ ~used[i] <=> Pos(hwIdx) <= Pos(i) /\ Pos(i) < q
            BY DEF CleanInv, q
          <6>3. Pos(i) < q + 1 <=> Pos(i) < q
            BY <2>nat, <6>1
          <6>4. QED
            BY <4>4, <4>5, <6>1, <6>2, <6>3
        <5>3. QED
          BY <5>1, <5>2
      <4>7. Pos(hwIdx)' <= q'
        BY <2>0, <4>4, <4>5, NAssumption DEF Index
      <4>8. QED
        BY <4>6, <4>7 DEF CleanInv, q
    <3>4. QED
      BY <3>2, <3>3
  <2>7. CASE HandleRxIrq
    BY <2>1, <2>7 DEF HandleRxIrq, ReadStatus, ring, hardware
  <2>8. CASE /\ Driver /\ ~AckTail /\ ~Send /\ ~StartReset /\ ~FinishReset
    BY <2>1, <2>8 DEF Driver, PacketAvail, HandleIrq, ReadStatus,
                      ClearTxStatus, ClearInterrupt, AcksDone, SendDone,
                      IrqDone, ring, hardware
  <2>9. ~StartReset /\ ~FinishReset /\ \A f \in Faults : ~HwFault(f)
    BY DEF StartReset, FinishReset, WindowInv, TypeOK
  <2>10. CASE UNCHANGED vars
    BY <2>1, <2>10 DEF vars, ring, hardware
  <2>11. QED
    BY <2>2, <2>3, <2>4, <2>5, <2>6, <2>7, <2>8, <2>9, <2>10
    DEF Next, Hardware
<1>3. QED
  BY <1>1, <1>2, Typing, WindowFilled, PTL DEF Spec

\* Without errors and while the ring is never full, the controller stays
\* between tail and head, where every descriptor holds a packet: it never
\* fetches from an erased address and never transmits a packet twice.
THEOREM ControllerInWindow ==
  ASSUME Faults = {}
  PROVE  Spec /\ []HasRoom => []HwInsideWindow
<1>1. TypeOK /\ CleanInv => HwInsideWindow
  <2> SUFFICES ASSUME TypeOK, CleanInv PROVE HwInsideWindow
    OBVIOUS
  <2> DEFINE q == Queued(head, tail)
             d == Pos(hwIdx)
  <2>1. /\ tail \in Index /\ hwIdx \in Index /\ q \in Index /\ d \in Index
        /\ used \in [Index -> BOOLEAN]
    BY Distances DEF Pos, TypeOK
  <2>2. d \in 0..q
    BY <2>1, NAssumption DEF CleanInv, Index
  <2>3. hwIdx = (tail + d) % N
    <3>1. /\ (tail + d) % N \in Index
          /\ Queued((tail + d) % N, tail) = Queued(hwIdx, tail)
      BY <2>1, SlotAt DEF Pos
    <3>2. QED
      BY <2>1, <3>1, Distances
  <2>4. ASSUME NEW k \in 0..q-1
        PROVE  /\ used[(tail + k) % N] <=> k < d
               /\ addr[(tail + k) % N] # NoAddr
    <3>1. k \in Index
      BY <2>1, NAssumption DEF Index
    <3> DEFINE i == (tail + k) % N
    <3>2. i \in Index /\ Pos(i) = k
      BY <2>1, <3>1, SlotAt DEF Pos
    <3> HIDE DEF i, d, q
    <3>3. k < q
      BY <2>1, <3>1, NAssumption DEF Index
    <3>4. addr[i] # NoAddr /\ (~used[i] <=> d <= k)
      BY <3>2, <3>3 DEF CleanInv, d, q
    <3>5. d <= k <=> ~(k < d)
      BY <2>1, <3>1, NAssumption DEF Index
    <3>6. used[i] \in BOOLEAN
      BY <2>1, <3>2
    <3>7. QED
      BY <3>4, <3>5, <3>6 DEF i
  <2>5. \A i \in Index : ~used[i] => addr[i] # NoAddr
    BY DEF CleanInv
  <2>6. QED
    BY <2>2, <2>3, <2>4, <2>5 DEF HwInsideWindow
<1>2. QED
  BY <1>1, Typing, CleanRing, PTL

-----------------------------------------------------------------------------
(* Packets in the window. *)

\* The packets in the window are those of the descriptors nearer to the tail
\* than the head is.
LEMMA WindowRange ==
  ASSUME TypeOK, NEW p
  PROVE  p \in Range(Window) <=>
           \E i \in Index : Pos(i) < Queued(head, tail) /\ addr[i] = p
<1> DEFINE q == Queued(head, tail)
<1>1. /\ tail \in Index /\ q \in Index /\ q \in Nat /\ q < N
      /\ \A i \in Index : Pos(i) \in Index
      /\ N \in Nat \ {0}
  BY Distances, NAssumption DEF Pos, TypeOK
<1>2. /\ DOMAIN Window = 1..q
      /\ \A k \in 1..q : Window[k] = addr[(tail + (k-1)) % N]
  <2>1. \A k \in 1..q : tail + (k-1) = tail + k - 1
    BY <1>1 DEF Index
  <2>2. QED
    BY <2>1 DEF Window
<1> HIDE DEF q
<1>3. ASSUME NEW k \in 1..q, p = Window[k]
      PROVE  \E i \in Index : Pos(i) < q /\ addr[i] = p
  <2>1. k-1 \in Index /\ k-1 < q
    BY <1>1 DEF Index
  <2>2. (tail + (k-1)) % N \in Index /\ Pos((tail + (k-1)) % N) = k-1
    BY <1>1, <2>1, SlotAt DEF Pos
  <2>3. QED
    BY <1>2, <1>3, <2>1, <2>2
<1>4. ASSUME NEW i \in Index, Pos(i) < q, addr[i] = p
      PROVE  \E k \in 1..q : p = Window[k]
  <2> DEFINE k == Pos(i) + 1
  <2>1. k \in 1..q /\ k-1 = Pos(i)
    BY <1>1, <1>4 DEF Index
  <2>2. /\ (tail + Pos(i)) % N \in Index
        /\ Queued((tail + Pos(i)) % N, tail) = Pos(i)
    BY <1>1, SlotAt
  <2>3. (tail + Pos(i)) % N = i
    BY <1>1, <2>2, Distances DEF Pos
  <2> HIDE DEF k
  <2>4. Window[k] = addr[i]
    BY <1>2, <2>1, <2>3
  <2>5. QED
    BY <1>4, <2>1, <2>4
<1>5. p \in Range(Window) <=> \E k \in 1..q : p = Window[k]
  BY <1>2 DEF Range
<1>6. QED
  BY <1>3, <1>4, <1>5 DEF q

\* Without errors no well-formed packet is lost between the queues of the
\* session and the ring, for any number of packets, as long as the ring is
\* never full.
THEOREM NothingLost ==
  ASSUME Faults = {}
  PROVE  Spec /\ []HasRoom => []NoLeak
<1> DEFINE Held == {p \in Packets : \E i \in Index : addr[i] = p}
           Kept == Proper \subseteq client \union Range(submitQ)
                                     \union Range(ackQ) \union Held
<1>1. Init => Kept
  BY DEF Init, Proper
<1>2. TypeOK /\ WindowInv /\ CleanInv /\ Kept /\ [Next]_vars => Kept'
  <2> SUFFICES ASSUME TypeOK, WindowInv, CleanInv, Kept, [Next]_vars
               PROVE  Kept'
    OBVIOUS
  <2>0. /\ submitQ \in Seq(Packets) /\ ackQ \in Seq(Packets)
        /\ addr \in [Index -> Packets \union {NoAddr}]
        /\ head \in Index /\ tail \in Index /\ Proper \subseteq Packets
        /\ NoAddr \notin Packets
    BY PacketsAssumption DEF TypeOK, Proper
  <2>1. ASSUME UNCHANGED <<client, submitQ, ackQ, addr>> PROVE Kept'
    BY <2>1
  <2>2. ASSUME NEW c \in Packets, ClientSubmit(c) PROVE Kept'
    <3>1. /\ client' = client \ {c} /\ submitQ' = Append(submitQ, c)
          /\ ackQ' = ackQ /\ addr' = addr
      BY <2>2 DEF ClientSubmit, ring
    <3>2. Range(submitQ') = Range(submitQ) \union {c}
      BY <2>0, <3>1, AppendRange
    <3>3. QED
      BY <3>1, <3>2
  <2>3. CASE ClientReclaim
    <3>1. /\ ackQ # <<>> /\ client' = client \union {Head(ackQ)}
          /\ ackQ' = Tail(ackQ) /\ submitQ' = submitQ /\ addr' = addr
      BY <2>3 DEF ClientReclaim, ring
    <3>2. Range(ackQ) \subseteq Range(ackQ') \union {Head(ackQ)}
      BY <2>0, <3>1, TailRange
    <3>3. QED
      BY <3>1, <3>2
  <2>4. CASE AckTail
    <3>1. /\ client' = client /\ submitQ' = submitQ
          /\ ackQ' = Append(ackQ, addr[tail]) /\ addr[tail] \in Packets
          /\ addr' = [addr EXCEPT ![tail] = NoAddr]
      BY <2>0, <2>4, AckTailMoves DEF AckTail
    <3>2. Range(ackQ') = Range(ackQ) \union {addr[tail]}
      BY <2>0, <3>1, AppendRange
    <3>3. Held \subseteq Held' \union {addr[tail]}
      BY <2>0, <3>1
    <3>4. QED
      BY <3>1, <3>2, <3>3
  <2>5. CASE Send
    <3> DEFINE p == Head(submitQ)
    <3>1. /\ client' = client /\ ackQ' = ackQ
          /\ submitQ # <<>> /\ submitQ' = Tail(submitQ) /\ p \in Packets
      BY <2>5, SendMoves DEF Send
    <3>2. Range(submitQ) \subseteq Range(submitQ') \union {p}
      BY <2>0, <3>1, TailRange
    <3>3. CASE p \notin Proper
      <4>1. addr' = addr
        BY <2>5, <3>3, SendMoves DEF ring
      <4>2. QED
        BY <3>1, <3>2, <3>3, <4>1
    <3>4. CASE p \in Proper
      <4>1. addr' = [addr EXCEPT ![head] = p] /\ used[head]
        BY <2>5, <3>4, SendMoves DEF ring
      <4>2. addr[head] = NoAddr
        <5>1. Pos(head) = Queued(head, tail) /\ Pos(head) \in Nat
          BY <2>0, Distances DEF Pos
        <5>2. QED
          BY <2>0, <5>1 DEF CleanInv
      <4> HIDE DEF p
      <4>3. Held \subseteq Held' /\ p \in Held'
        BY <2>0, <3>1, <4>1, <4>2
      <4>4. QED
        BY <3>1, <3>2, <4>3
    <3>5. QED
      BY <3>3, <3>4
  <2>6. ~FinishReset
    BY DEF FinishReset, WindowInv
  <2>7. QED
    BY <2>1, <2>2, <2>3, <2>4, <2>5, <2>6, OtherSteps DEF Client
<1>3. TypeOK /\ CleanInv /\ Kept => NoLeak
  <2> SUFFICES ASSUME TypeOK, CleanInv, Kept PROVE NoLeak
    OBVIOUS
  <2>1. ASSUME NEW p \in Held PROVE p \in Range(Window)
    <3>1. PICK i \in Index : addr[i] = p
      BY <2>1
    <3>2. addr[i] # NoAddr
      BY <2>1, <3>1, PacketsAssumption
    <3>3. QED
      BY <3>1, <3>2, WindowRange DEF CleanInv
  <2>2. QED
    BY <2>1 DEF NoLeak
<1>4. QED
  BY <1>1, <1>2, <1>3, Typing, WindowFilled, CleanRing, PTL DEF Spec

-----------------------------------------------------------------------------
(* The promise to the client. *)

\* The window is a queue of packets, from the tail to the head.
WindowShape ==
  /\ Window \in Seq(Packets) /\ Len(Window) = Queued(head, tail)
  /\ \A k \in 1..Queued(head, tail) : Window[k] = addr[(tail + (k-1)) % N]

\* A window filled with packets is such a queue.
LEMMA WindowQueue == TypeOK /\ WindowInv => WindowShape
<1> SUFFICES ASSUME TypeOK, WindowInv PROVE WindowShape
  OBVIOUS
<1> DEFINE q == Queued(head, tail)
<1>1. /\ tail \in Index /\ q \in Nat /\ q < N /\ N \in Nat
      /\ addr \in [Index -> Packets \union {NoAddr}]
  BY Distances, NAssumption DEF TypeOK
<1>2. \A k \in 1..q : k-1 \in Index /\ k-1 < q /\ tail + k - 1 = tail + (k-1)
  BY <1>1 DEF Index
<1>3. Window = [k \in 1..q |-> addr[(tail + (k-1)) % N]]
  BY <1>2 DEF Window
<1> HIDE DEF q
<1>4. \A k \in 1..q : addr[(tail + (k-1)) % N] \in Packets
  <2> SUFFICES ASSUME NEW k \in 1..q
               PROVE  addr[(tail + (k-1)) % N] \in Packets
    OBVIOUS
  <2>1. /\ (tail + (k-1)) % N \in Index /\ Pos((tail + (k-1)) % N) = k-1
        /\ k-1 < q
    BY <1>1, <1>2, SlotAt DEF Pos
  <2>2. addr[(tail + (k-1)) % N] # NoAddr
    BY <2>1 DEF WindowInv, q
  <2>3. QED
    BY <1>1, <2>1, <2>2
<1>5. Window \in [1..q -> Packets]
  BY <1>3, <1>4
<1>6. Window \in Seq(Packets)
  BY <1>1, <1>5, SeqDef
<1>7. Len(Window) = q
  BY <1>1, <1>5, <1>6, LenProperties
<1>8. QED
  BY <1>1, <1>2, <1>3, <1>6, <1>7 DEF q, WindowShape

\* What _send writes is the new end of the window.
LEMMA SendAccepts ==
  ASSUME TypeOK, WindowShape, WindowShape', Send,
         Queued(head, tail) < N-1, Head(submitQ) \in Proper
  PROVE  Window' = Append(Window, Head(submitQ))
<1> DEFINE q == Queued(head, tail)
           p == Head(submitQ)
           longer == Append(Window, p)
<1>1. /\ head \in Index /\ tail \in Index /\ q \in Nat /\ q < N
      /\ N \in Nat /\ q \in Index /\ Pos(head) = q
      /\ addr \in [Index -> Packets \union {NoAddr}]
  BY Distances, NAssumption DEF TypeOK, Pos
<1>2. /\ addr' = [addr EXCEPT ![head] = p] /\ tail' = tail
      /\ Queued(head', tail') = IF q = N-1 THEN 0 ELSE q + 1
      /\ p \in Packets
  BY SendMoves DEF Proper
<1>3. Queued(head', tail') = q + 1
  BY <1>1, <1>2
<1> HIDE DEF p, q
<1>4. /\ Window \in Seq(Packets) /\ Len(Window) = q
      /\ \A k \in 1..q : Window[k] = addr[(tail + (k-1)) % N]
  BY DEF WindowShape, q
<1>5. /\ Window' \in Seq(Packets) /\ Len(Window') = q + 1
      /\ \A k \in 1..q+1 : Window'[k] = addr'[(tail + (k-1)) % N]
  BY <1>2, <1>3 DEF WindowShape
<1>6. /\ longer \in Seq(Packets) /\ Len(longer) = q + 1
      /\ \A k \in 1..q : longer[k] = Window[k]
      /\ longer[q+1] = p
  BY <1>2, <1>4, AppendProperties
<1> HIDE DEF longer
<1>7. \A k \in 1..q+1 : /\ k-1 \in Index /\ (k-1 = q <=> k = q+1)
                        /\ k # q+1 => k \in 1..q
  BY <1>1 DEF Index
<1>8. \A k \in 1..q+1 : /\ (tail + (k-1)) % N \in Index
                        /\ (tail + (k-1)) % N = head <=> k = q+1
  <2> SUFFICES ASSUME NEW k \in 1..q+1
               PROVE  /\ (tail + (k-1)) % N \in Index
                      /\ (tail + (k-1)) % N = head <=> k = q+1
    OBVIOUS
  <2> DEFINE i == (tail + (k-1)) % N
  <2>1. i \in Index /\ Pos(i) = k-1
    BY <1>1, <1>7, SlotAt DEF Pos
  <2> HIDE DEF i
  <2>2. \A g \in Index : Pos(g) = Pos(head) => g = head
    BY <1>1, Distances DEF Pos
  <2>3. QED
    BY <1>1, <1>7, <2>1, <2>2 DEF i
<1>9. \A k \in 1..q+1 : Window'[k] = longer[k]
  BY <1>1, <1>2, <1>4, <1>5, <1>6, <1>7, <1>8
<1>10. Window' = longer
  BY <1>5, <1>6, <1>9, SeqEqual
<1>11. QED
  BY <1>10 DEF longer, p

\* What submit_acks acknowledges is the front of the window.
LEMMA AckTailReturns ==
  ASSUME TypeOK, WindowInv, WindowShape, WindowShape', AckTail
  PROVE  /\ Window # <<>> /\ Head(Window) = addr[tail]
         /\ Window' = Tail(Window)
<1> DEFINE q == Queued(head, tail)
           rest == Tail(Window)
<1>1. /\ head \in Index /\ tail \in Index /\ q \in Nat /\ q < N
      /\ N \in Nat /\ q \in Index
      /\ addr \in [Index -> Packets \union {NoAddr}]
  BY Distances, NAssumption DEF TypeOK
<1>2. /\ addr' = [addr EXCEPT ![tail] = NoAddr] /\ tail' = Advance(tail)
      /\ q # 0 /\ Queued(head', tail') = q - 1
  BY AckTailMoves
<1> HIDE DEF q
<1>3. /\ Window \in Seq(Packets) /\ Len(Window) = q
      /\ \A k \in 1..q : Window[k] = addr[(tail + (k-1)) % N]
  BY DEF WindowShape, q
<1>4. /\ Window' \in Seq(Packets) /\ Len(Window') = q - 1
      /\ \A k \in 1..q-1 : Window'[k] = addr'[(Advance(tail) + (k-1)) % N]
  BY <1>2 DEF WindowShape
<1>5. Window # <<>>
  BY <1>1, <1>2, <1>3, EmptySeq
<1>6. /\ Head(Window) = Window[1] /\ rest \in Seq(Packets)
      /\ Len(rest) = q - 1
      /\ \A k \in 1..q-1 : rest[k] = Window[k+1]
  BY <1>3, <1>5, HeadTailProperties
<1>7. Window[1] = addr[tail]
  <2>1. 1 \in 1..q /\ 1-1 = 0 /\ 0 \in Index
    BY <1>1, <1>2, FirstInRing
  <2>2. (tail + 0) % N \in Index /\ Queued((tail + 0) % N, tail) = 0
    BY <1>1, <2>1, SlotAt
  <2>3. (tail + 0) % N = tail
    BY <1>1, <2>2, Distances
  <2>4. QED
    BY <1>3, <2>1, <2>3
<1> HIDE DEF rest
<1>8. \A k \in 1..q-1 : /\ k \in Index /\ k # 0
                        /\ k+1 \in 1..q /\ (k+1)-1 = k
  BY <1>1 DEF Index
<1>9. \A k \in 1..q-1 : /\ (tail + k) % N \in Index
                        /\ (tail + k) % N = (Advance(tail) + (k-1)) % N
                        /\ (tail + k) % N # tail
  <2> SUFFICES ASSUME NEW k \in 1..q-1
               PROVE  /\ (tail + k) % N \in Index
                      /\ (tail + k) % N = (Advance(tail) + (k-1)) % N
                      /\ (tail + k) % N # tail
    OBVIOUS
  <2>1. /\ (tail + k) % N \in Index /\ Queued((tail + k) % N, tail) = k
        /\ (tail + k) % N = (Advance(tail) + (k-1)) % N
    BY <1>1, <1>8, SlotAt
  <2>2. Queued(tail, tail) = 0
    BY <1>1, Distances
  <2>3. QED
    BY <1>8, <2>1, <2>2
<1>10. \A k \in 1..q-1 : Window'[k] = rest[k]
  <2> SUFFICES ASSUME NEW k \in 1..q-1 PROVE Window'[k] = rest[k]
    OBVIOUS
  <2>1. Window'[k] = addr'[(tail + k) % N]
    BY <1>4, <1>9
  <2>2. addr'[(tail + k) % N] = addr[(tail + k) % N]
    BY <1>1, <1>2, <1>9
  <2>3. Window[k+1] = addr[(tail + k) % N]
    BY <1>3, <1>8
  <2>4. QED
    BY <1>6, <2>1, <2>2, <2>3
<1>11. Window' = rest
  BY <1>4, <1>6, <1>10, SeqEqual
<1>12. QED
  BY <1>5, <1>6, <1>7, <1>11 DEF rest

\* The ring keeps the promise of the channel for any number of packets and
\* whatever errors the controller reports: packets come back at most once and
\* in order, and none is forgotten unless there are errors, which reset the
\* ring, or enough packets to fill it.
THEOREM KeepsPromise == Spec => ImplementsChannel
<1>1. Init => Channel!Init
  <2> SUFFICES ASSUME Init PROVE Channel!Init
    OBVIOUS
  <2>1. Queued(head, tail) = 0
    BY FirstInRing, Distances DEF Init
  <2>2. Window = <<>>
    BY <2>1 DEF Window
  <2>3. QED
    BY <2>2 DEF Init, Channel!Init
<1>2. /\ TypeOK /\ WindowInv /\ WindowShape /\ WindowShape'
      /\ SparesRoom' /\ [Next]_vars
      => [Channel!Next]_<<client, submitQ, Window, ackQ>>
  <2> SUFFICES ASSUME TypeOK, WindowInv, WindowShape, WindowShape',
                      SparesRoom', [Next]_vars
               PROVE  \/ Channel!Next
                      \/ UNCHANGED <<client, submitQ, Window, ackQ>>
    OBVIOUS
  <2>1. ASSUME UNCHANGED <<addr, head, tail>> PROVE Window' = Window
    BY <2>1 DEF Window
  <2>2. ASSUME NEW p \in Packets, ClientSubmit(p) PROVE Channel!Submit
    BY <2>1, <2>2 DEF ClientSubmit, ring, Channel!Submit
  <2>3. CASE ClientReclaim
    <3>1. Channel!Reclaim
      BY <2>1, <2>3 DEF ClientReclaim, ring, Channel!Reclaim
    <3>2. QED
      BY <3>1 DEF Channel!Next
  <2>4. CASE AckTail
    <3>1. Channel!Return
      BY <2>4, AckTailMoves, AckTailReturns DEF AckTail, Channel!Return
    <3>2. QED
      BY <3>1 DEF Channel!Next
  <2>5. CASE Send
    <3>1. submitQ # <<>> /\ client' = client /\ ackQ' = ackQ
      BY <2>5 DEF Send, CanSend
    <3>2. CASE Head(submitQ) \in Proper
      <4>1. CASE Queued(head, tail) < N-1
        <5>1. Window' = Append(Window, Head(submitQ))
          BY <2>5, <3>2, <4>1, SendAccepts
        <5>2. Channel!Accept
          BY <2>5, <3>1, <3>2, <5>1, SendMoves DEF Channel!Accept, Proper
        <5>3. QED
          BY <5>2 DEF Channel!Next
      <4>2. CASE ~(Queued(head, tail) < N-1)
        <5>1. ~SpareSlot
          BY <2>5, <3>2, <4>2, SendHasRoom DEF SparesRoom
        <5>2. Queued(head', tail') = 0
          <6>1. head \in Index /\ tail \in Index
            BY DEF TypeOK
          <6>2. Queued(head, tail) \in Index
            BY <6>1, Distances
          <6>3. Queued(head, tail) = N-1
            BY <4>2, <6>2, NAssumption DEF Index
          <6>4. QED
            BY <2>5, <3>2, <6>3, SendMoves
        <5>3. Window' = <<>>
          BY <5>2 DEF Window
        <5>4. Channel!Overflow
          BY <2>5, <3>1, <5>1, <5>3, SendMoves DEF Channel!Overflow
        <5>5. QED
          BY <5>4 DEF Channel!Next
      <4>3. QED
        BY <4>1, <4>2
    <3>3. CASE Head(submitQ) \notin Proper
      <4>1. Window' = Window
        BY <2>1, <2>5, <3>3, SendMoves DEF ring
      <4>2. Channel!Drop
        BY <2>5, <3>1, <3>3, <4>1, SendMoves DEF Channel!Drop, Proper
      <4>3. QED
        BY <4>2 DEF Channel!Next
    <3>4. QED
      BY <3>2, <3>3
  <2>6. CASE FinishReset
    <3>1. /\ head' = 0 /\ tail' = 0 /\ UNCHANGED <<client, submitQ, ackQ>>
          /\ Faults # {}
      BY <2>6 DEF FinishReset, stream, WindowInv
    <3>2. Queued(head', tail') = 0
      BY <3>1, FirstInRing, Distances
    <3>3. Window' = <<>>
      BY <3>2 DEF Window
    <3>4. Channel!Lose
      BY <3>1, <3>3 DEF Channel!Lose
    <3>5. QED
      BY <3>4 DEF Channel!Next
  <2>7. QED
    BY <2>1, <2>2, <2>3, <2>4, <2>5, <2>6, OtherSteps
    DEF Client, Channel!Next
<1>3. QED
  BY <1>1, <1>2, Typing, RoomKept, WindowFilled, WindowQueue, PTL
  DEF Spec, ImplementsChannel, Channel!Spec, Channel!vars

=============================================================================
