--------------------------- MODULE RxRing_proofs ---------------------------
(***************************************************************************)
(* Proofs about the receive path of the Ethernet driver, for any number of *)
(* descriptors, frame numbers, link speeds and looks at the MDIO port.     *)
(*                                                                         *)
(* The start of the receiver (ReadyInv) does not depend on the ring, and   *)
(* holds with all errors and with what the boot loader leaves behind.      *)
(*                                                                         *)
(* The ring is given away as a whole by rx.reset, whatever the client is   *)
(* reading at the time, so OneOwner needs a controller without errors.     *)
(* Then HandOver, the ownership together with StreamInv, which says where  *)
(* the pending frames are and how they are numbered, is inductive.         *)
(***************************************************************************)
EXTENDS RxRing, GemBuffers_proofs

-----------------------------------------------------------------------------
(* Types. *)

\* Frame numbers wrap within their range.
LEMMA FollowingInRange == \A n \in 1..Numbers : Following(n) \in 1..Numbers
<1> SUFFICES ASSUME NEW n \in 1..Numbers PROVE (n % Numbers) + 1 \in 1..Numbers
  BY DEF Following
<1>1. n % Numbers \in 0..Numbers-1
  BY NumbersAssumption, Z3
<1>2. QED
  BY <1>1, NumbersAssumption

\* The steps of the constructors and of the management port keep the types,
\* and do not touch the ring.
LEMMA BringUpTypes ==
  ASSUME TypeOK, BringUp \/ HwMdio, UNCHANGED ring
  PROVE  TypeOK'
<1> USE TimeoutAssumption
    DEF TypeOK, DeviceTypeOK, Answers, BringUpSteps, device, registers, port,
        ring, descriptors, used_read, hardware, stream, history
<1>1. CASE HwMdio
  BY <1>1 DEF HwMdio
<1>2. CASE Deinit
  BY <1>2 DEF Deinit
<1>3. CASE Configure
  BY <1>3 DEF Configure
<1>4. CASE MdioWait
  <2>1. timeout' \in 0..Timeout
    BY <1>4 DEF MdioWait
  <2>2. QED
    BY <1>4, <2>1 DEF MdioWait
<1>5. CASE PhySetup
  <2>1. timeout' \in 0..Timeout
    BY <1>5 DEF PhySetup
  <2>2. QED
    BY <1>5, <2>1 DEF PhySetup
<1>6. CASE PhyRead
  <2>1. timeout' \in 0..Timeout
    BY <1>6 DEF PhyRead
  <2>2. QED
    BY <1>6, <2>1 DEF PhyRead
<1>7. CASE EthSpeed
  BY <1>7 DEF EthSpeed
<1>8. CASE EnableInterrupts
  BY <1>8 DEF EnableInterrupts
<1>9. CASE RegisterHandler
  BY <1>9 DEF RegisterHandler
<1>10. CASE EnableReceiver
  BY <1>10 DEF EnableReceiver
<1>11. QED
  BY <1>1, <1>2, <1>3, <1>4, <1>5, <1>6, <1>7, <1>8, <1>9, <1>10 DEF BringUp

\* Every reachable state is well-typed, with all errors the controller may
\* report: in particular every index that the driver and the controller use
\* stays within the ring.
THEOREM Typing == Spec => []TypeOK
<1> USE DEF ring, descriptors, used_read, hardware, stream, thread, history
<1>1. Init => TypeOK
  <2> SUFFICES ASSUME Init PROVE TypeOK
    OBVIOUS
  <2>1. DeviceTypeOK /\ pc \in BringUpSteps
    <3>1. timeout \in 0..Timeout
      BY TimeoutAssumption DEF Init, DeviceInit
    <3>2. QED
      BY <3>1 DEF Init, DeviceInit, DeviceTypeOK, BringUpSteps, Answers
  <2>2. /\ used \in [Index -> BOOLEAN] /\ frame \in [Index -> Contents]
        /\ head \in Index /\ tail \in Index /\ hwIdx \in Index
    BY FirstInRing DEF Init, Contents
  <2>3. next \in 1..Numbers /\ {last, delivered} \subseteq 1..Numbers
    BY NumbersAssumption DEF Init
  <2>4. /\ {done, usedRead, noBuffer} \subseteq BOOLEAN /\ errors \subseteq Faults
        /\ client \subseteq Index /\ ackQ \in Seq(Index) /\ ackSig \in BOOLEAN
        /\ inIrq \in BOOLEAN /\ seen \subseteq Faults \union {"used_read"}
    <3>1. done \in BOOLEAN /\ usedRead \in BOOLEAN /\ errors \subseteq Faults
      <4>1. PICK bits : /\ done = ("complete" \in bits)
                        /\ usedRead = ("used_read" \in bits)
                        /\ errors = bits \intersect Faults
        BY DEF Init
      <4>2. QED
        BY <4>1
    <3>2. QED
      BY <3>1, EmptySeq DEF Init
  <2>5. QED
    BY <2>1, <2>2, <2>3, <2>4 DEF TypeOK
<1>2. TypeOK /\ [Next]_vars => TypeOK'
  <2> SUFFICES ASSUME TypeOK, [Next]_vars PROVE TypeOK'
    OBVIOUS
  <2>1. CASE (BringUp \/ HwMdio) /\ UNCHANGED ring
    BY <2>1, BringUpTypes
  <2>2. CASE UNCHANGED vars
    BY <2>2 DEF vars, TypeOK, device, registers, port, DeviceTypeOK
  <2>3. CASE Ring /\ UNCHANGED device
    <3>0. DeviceTypeOK'
      BY <2>3 DEF TypeOK, DeviceTypeOK, device, registers, port
    <3> USE <3>0 DEF TypeOK
    <3>1. ASSUME NEW content \in Contents, HwStore(content),
                 next' \in 1..Numbers
          PROVE  TypeOK'
      <4>1. /\ used' \in [Index -> BOOLEAN] /\ frame' \in [Index -> Contents]
            /\ hwIdx' \in Index
        BY <3>1, AdvanceInRing DEF HwStore
      <4>2. QED
        BY <3>1, <4>1 DEF HwStore
    <3>2. CASE HwReceive
      <4>1. next \in Contents /\ next' \in 1..Numbers
        BY <3>2, FollowingInRange DEF HwReceive, Contents
      <4>2. QED
        BY <3>2, <3>1, <4>1 DEF HwReceive
    <3>3. CASE HwReceiveFragment
      BY <3>3, <3>1 DEF HwReceiveFragment, Contents
    <3>4. CASE HwDrop
      BY <3>4 DEF HwDrop
    <3>5. ASSUME NEW f \in Faults, HwFault(f) PROVE TypeOK'
      BY <3>5 DEF HwFault
    <3>6. ASSUME NEW i \in Index, ClientAck(i) PROVE TypeOK'
      <4>1. ackQ' \in Seq(Index)
        BY <3>6, AppendRange DEF ClientAck
      <4>2. ackSig' \in BOOLEAN
        BY <3>6 DEF ClientAck
      <4>3. QED
        BY <3>6, <4>1, <4>2 DEF ClientAck
    <3>7. CASE AckAvail \/ PacketAvail
      BY <3>7 DEF AckAvail, PacketAvail
    <3>8. CASE HandleIrq \/ HandleTxIrq
      BY <3>8 DEF HandleIrq, HandleTxIrq, ReadStatus
    <3>9. CASE NextPacket
      BY <3>9, AdvanceInRing DEF NextPacket
    <3>10. CASE NextPacketRetry
      BY <3>10 DEF NextPacketRetry
    <3>11. CASE HandleAck
      <4>1. Head(ackQ) \in Index /\ Tail(ackQ) \in Seq(Index)
        BY <3>11, TailRange DEF HandleAck
      <4>2. /\ used' \in [Index -> BOOLEAN] /\ frame' \in [Index -> Contents]
        BY <3>11, <4>1 DEF HandleAck, Contents
      <4>3. QED
        BY <3>11, <4>1, <4>2 DEF HandleAck
    <3>12. CASE AcksHandled
      BY <3>12 DEF AcksHandled
    <3>13. CASE Receive
      <4>1. /\ frame' \in [Index -> Contents]
            /\ last' \in 1..Numbers /\ delivered' \in 1..Numbers
        BY <3>13, FollowingInRange DEF Receive, HeadAvailable, Contents
      <4>2. QED
        BY <3>13, <4>1 DEF Receive
    <3>14. CASE ReceiveFragment
      <4>1. frame' \in [Index -> Contents] /\ used' \in [Index -> BOOLEAN]
        BY <3>14 DEF ReceiveFragment, Contents
      <4>2. QED
        BY <3>14, <4>1 DEF ReceiveFragment
    <3>15. CASE ReceiveNothing \/ ClearComplete
      BY <3>15 DEF ReceiveNothing, ClearComplete
    <3>16. ASSUME NEW f \in Faults, ResetReceiver(f) PROVE TypeOK'
      BY <3>16, FirstInRing DEF ResetReceiver, Contents
    <3>17. CASE IrqDone
      <4>1. {usedRead', noBuffer'} \subseteq BOOLEAN
        BY <3>17 DEF IrqDone
      <4>2. QED
        BY <3>17, <4>1 DEF IrqDone
    <3>18. QED
      BY <2>3, <3>2, <3>3, <3>4, <3>5, <3>6, <3>7, <3>8, <3>9, <3>10, <3>11,
         <3>12, <3>13, <3>14, <3>15, <3>16, <3>17
      DEF Ring, Hardware, Handlers, Transmission
  <2>4. QED
    BY <2>1, <2>2, <2>3 DEF Next
<1>3. QED
  BY <1>1, <1>2, PTL DEF Spec


-----------------------------------------------------------------------------
(* The start of the receiver. *)

\* What each step of the constructors leaves to the next one: the receiver is
\* off, an answer in the data register is the PHY's, and so is the speed.
ReadyInv ==
  /\ pc \in BringUpSteps \ {"deinit"} => ~rx_en
  /\ pc = "eth_speed" \/ (pc = "mdio_read" /\ idle) => data = phy
  /\ pc \notin BringUpSteps \ {"enable_irq", "irq_sigh", "enable"} => speed = phy
  /\ pc \notin BringUpSteps \ {"irq_sigh", "enable"} => enabled
  /\ pc \notin BringUpSteps => qbar

\* Whatever the boot loader leaves running, and however long the PHY takes,
\* the receiver is on only with a ring to store frames in, the speed of the
\* link, and interrupts.
THEOREM StartsReady == Spec => []ReceiverReady
<1> USE DEF ring, descriptors, used_read, hardware, stream, thread, device,
            registers, port, BringUpSteps
<1>1. Init => ReadyInv
  BY DEF Init, DeviceInit, ReadyInv
<1>2. TypeOK /\ ReadyInv /\ [Next]_vars => ReadyInv'
  <2> SUFFICES ASSUME TypeOK, ReadyInv, [Next]_vars PROVE ReadyInv'
    OBVIOUS
  <2>1. CASE UNCHANGED vars
    BY <2>1 DEF vars, ReadyInv
  <2>2. CASE Ring /\ UNCHANGED device
    <3>1. pc' = pc \/ (pc \notin BringUpSteps /\ pc' \notin BringUpSteps)
      <4>1. CASE Hardware
        BY <2>2, <4>1
        DEF Hardware, HwReceive, HwReceiveFragment, HwStore, HwDrop, HwFault
      <4>2. CASE \E i \in Index : ClientAck(i)
        BY <4>2 DEF ClientAck
      <4>3. CASE Transmission
        BY <4>3 DEF Transmission, PacketAvail, HandleTxIrq, ReadStatus
      <4>4. CASE Handlers
        BY <4>4
        DEF Handlers, AckAvail, HandleIrq, ReadStatus, NextPacket,
            NextPacketRetry, HandleAck, AcksHandled, Receive, ReceiveFragment,
            ReceiveNothing, ClearComplete, ResetReceiver, IrqDone
      <4>5. QED
        BY <2>2, <4>1, <4>2, <4>3, <4>4 DEF Ring
    <3>2. UNCHANGED <<speed, enabled, rx_en, qbar, idle, data, phy>>
      BY <2>2
    <3>3. QED
      BY <3>1, <3>2 DEF ReadyInv
  <2>3. CASE HwMdio
    BY <2>3 DEF HwMdio, ReadyInv, TypeOK
  <2>4. CASE BringUp
    <3>1. CASE Deinit \/ Configure
      BY <3>1 DEF Deinit, Configure, ReadyInv
    <3>2. CASE MdioWait \/ PhySetup \/ PhyRead
      BY <3>2 DEF MdioWait, PhySetup, PhyRead, ReadyInv
    <3>3. CASE EthSpeed
      BY <3>3 DEF EthSpeed, ReadyInv
    <3>4. CASE EnableInterrupts \/ RegisterHandler \/ EnableReceiver
      BY <3>4 DEF EnableInterrupts, RegisterHandler, EnableReceiver, ReadyInv
    <3>5. QED
      BY <2>4, <3>1, <3>2, <3>3, <3>4 DEF BringUp
  <2>5. QED
    BY <2>1, <2>2, <2>3, <2>4 DEF Next
<1>3. TypeOK /\ ReadyInv => ReceiverReady
  BY DEF TypeOK, ReadyInv, ReceiverReady
<1>4. QED
  BY <1>1, <1>2, <1>3, Typing, PTL DEF Spec

-----------------------------------------------------------------------------
(* Ownership of the descriptors. *)

Untouched == UNCHANGED <<used, frame, client, ackQ>>

\* What changes a descriptor or the queue, without errors; all other steps
\* leave both alone.
LEMMA OwnershipSteps ==
  ASSUME Faults = {}, TypeOK, [Next]_vars
  PROVE  \/ \E content \in Contents \ {Empty} : HwStore(content)
         \/ \E i \in Index : ClientAck(i)
         \/ HandleAck \/ Receive \/ ReceiveFragment
         \/ Untouched
<1> USE DEF ring, descriptors, stream, Untouched
<1>1. CASE UNCHANGED vars \/ ((BringUp \/ HwMdio) /\ UNCHANGED ring)
  BY <1>1 DEF vars
<1>2. CASE Hardware
  <2>1. next \in Contents \ {Empty} /\ Fragment \in Contents \ {Empty}
    BY NumbersAssumption DEF TypeOK, Contents, Empty, Fragment
  <2>2. QED
    BY <1>2, <2>1
    DEF Hardware, HwReceive, HwReceiveFragment, HwDrop, HwFault
<1>3. CASE Transmission
  BY <1>3 DEF Transmission, PacketAvail, HandleTxIrq, ReadStatus
<1>4. CASE Handlers
  BY <1>4
  DEF Handlers, AckAvail, HandleIrq, ReadStatus, NextPacket, NextPacketRetry,
      AcksHandled, ReceiveNothing, ClearComplete, IrqDone
<1>5. CASE Ring
  <2>1. CASE \E i \in Index : ClientAck(i)
    BY <2>1
  <2>2. QED
    BY <1>2, <1>3, <1>4, <1>5, <2>1 DEF Ring
<1>6. QED
  <2>1. Ring \/ ((BringUp \/ HwMdio) /\ UNCHANGED ring) \/ UNCHANGED vars
    BY DEF Next
  <2>2. QED
    BY <1>1, <1>5, <2>1

\* Without errors a packet is never in two hands, whether frames are split or
\* not and whatever was pending at the start: the controller does not write
\* to a packet the client reads, and every descriptor comes back.
THEOREM OwnersKnown == ASSUME Faults = {} PROVE Spec => []OneOwner
<1> USE DEF Untouched
<1>1. Init => OneOwner
  <2> SUFFICES ASSUME Init PROVE OneOwner
    OBVIOUS
  <2>1. Range(<<>>) = {} /\ IsInjective(<<>>)
    BY DEF Range, IsInjective
  <2>2. QED
    BY <2>1 DEF Init, OneOwner
<1>2. TypeOK /\ OneOwner /\ [Next]_vars => OneOwner'
  <2> SUFFICES ASSUME TypeOK, OneOwner, [Next]_vars PROVE OneOwner'
    OBVIOUS
  <2>1. /\ used \in [Index -> BOOLEAN] /\ frame \in [Index -> Contents]
        /\ ackQ \in Seq(Index) /\ hwIdx \in Index /\ head \in Index
        /\ client \subseteq Index
    BY DEF TypeOK
  <2>2. CASE \E content \in Contents \ {Empty} : HwStore(content)
    <3>1. PICK content \in Contents \ {Empty} : HwStore(content)
      BY <2>2
    <3>2. /\ ~used[hwIdx] /\ client' = client /\ ackQ' = ackQ
          /\ used' = [used EXCEPT ![hwIdx] = TRUE]
          /\ frame' = [frame EXCEPT ![hwIdx] = content]
      BY <3>1 DEF HwStore, stream
    <3>3. \A i \in Index : /\ used'[i] = IF i = hwIdx THEN TRUE ELSE used[i]
                           /\ frame'[i] = IF i = hwIdx THEN content ELSE frame[i]
      BY <2>1, <3>2
    <3>4. hwIdx \notin client \union Range(ackQ) /\ content # Empty
      BY <2>1, <3>2 DEF OneOwner
    <3>5. \A i \in Index : (used'[i] /\ frame'[i] = Empty)
                             <=> (used[i] /\ frame[i] = Empty)
      BY <3>2, <3>3, <3>4
    <3>6. QED
      BY <3>2, <3>5 DEF OneOwner
  <2>3. CASE \E i \in Index : ClientAck(i)
    <3>1. PICK p \in Index : ClientAck(p)
      BY <2>3
    <3>2. /\ p \in client /\ client' = client \ {p} /\ ackQ' = Append(ackQ, p)
          /\ used' = used /\ frame' = frame
      BY <3>1 DEF ClientAck, descriptors
    <3>3. p \notin Range(ackQ) /\ IsInjective(ackQ)
      BY <3>2 DEF OneOwner
    <3>4. Range(ackQ') = Range(ackQ) \union {p} /\ IsInjective(ackQ')
      BY <2>1, <3>2, <3>3, AppendRange
    <3>5. client' \union Range(ackQ') = client \union Range(ackQ)
      BY <3>2, <3>4
    <3>6. QED
      BY <3>2, <3>3, <3>4, <3>5 DEF OneOwner
  <2>4. CASE HandleAck
    <3> DEFINE p == Head(ackQ)
    <3>1. /\ ackQ # <<>> /\ ackQ' = Tail(ackQ) /\ client' = client
          /\ used' = [used EXCEPT ![p] = FALSE]
          /\ frame' = [frame EXCEPT ![p] = Empty]
      BY <2>4 DEF HandleAck
    <3>2. IsInjective(ackQ)
      BY FirstInRing DEF OneOwner
    <3>3. /\ p \in Index /\ p \in Range(ackQ) /\ p \notin Range(ackQ')
          /\ Range(ackQ') \subseteq Range(ackQ) /\ IsInjective(ackQ')
          /\ Range(ackQ) \subseteq Range(ackQ') \union {p}
      BY <2>1, <3>1, <3>2, TailRange
    <3> HIDE DEF p
    <3>4. \A i \in Index : /\ used'[i] = IF i = p THEN FALSE ELSE used[i]
                           /\ i # p => frame'[i] = frame[i]
      BY <2>1, <3>1, <3>3
    <3>5. QED
      BY <3>1, <3>3, <3>4 DEF OneOwner
  <2>5. CASE Receive
    <3>1. /\ used[head] /\ frame[head] # Empty /\ used' = used
          /\ frame' = [frame EXCEPT ![head] = Empty]
          /\ client' = client \union {head} /\ ackQ' = ackQ
      BY <2>5 DEF Receive, HeadAvailable
    <3>2. \A i \in Index : frame'[i] = IF i = head THEN Empty ELSE frame[i]
      BY <2>1, <3>1
    <3>3. QED
      BY <2>1, <3>1, <3>2 DEF OneOwner
  <2>6. CASE ReceiveFragment
    <3>1. /\ frame[head] # Empty /\ client' = client /\ ackQ' = ackQ
          /\ used' = [used EXCEPT ![head] = FALSE]
          /\ frame' = [frame EXCEPT ![head] = Empty]
      BY <2>6 DEF ReceiveFragment, HeadAvailable, stream
    <3>2. \A i \in Index : /\ used'[i] = IF i = head THEN FALSE ELSE used[i]
                           /\ i # head => frame'[i] = frame[i]
      BY <2>1, <3>1
    <3>3. QED
      BY <3>1, <3>2 DEF OneOwner
  <2>7. CASE Untouched
    BY <2>7 DEF OneOwner
  <2>8. QED
    BY <2>2, <2>3, <2>4, <2>5, <2>6, <2>7, OwnershipSteps
<1>3. QED
  BY <1>1, <1>2, Typing, PTL DEF Spec

-----------------------------------------------------------------------------
(* The stream of frames. *)

\* The frame at the head is with the client, the head still points to it.
HeadTaken == pc = "next_packet" /\ ~HeadAvailable

\* The descriptor the driver has to look at next, and how far another one is
\* from it.
First == IF HeadTaken THEN Advance(head) ELSE head
Pos(i) == Queued(i, First)

\* The k pending frames are in the descriptors from First up to the pointer of
\* the controller, and are numbered from the last one the client got up to the
\* next one to arrive.
Chain(k) ==
  /\ \A i \in Index : i \in Pending <=> Pos(i) < k
  /\ Pos(hwIdx) = IF k = N THEN 0 ELSE k
  /\ k = 0 => next = Following(last)
  /\ \A i \in Index :
       Pos(i) < k =>
         /\ Pos(i) = 0 => frame[i] = Following(last)
         /\ Pos(i) = k-1 => next = Following(frame[i])
         /\ \A j \in Index : Pos(j) = Pos(i) + 1 /\ Pos(j) < k
                               => frame[j] = Following(frame[i])

InChain == \E k \in 0..N : Chain(k)

\* Where the handler goes on with a frame, there is one: next_packet moves the
\* head away from a frame that was taken only, and no acknowledgement takes a
\* frame that was found.
HeadFound ==
  /\ HeadTaken => used[head]
  /\ pc = "receive" \/ (pc = "acks" /\ inIrq) => HeadAvailable

\* Outside of the loop over the frames, Rx_complete tells of a pending frame.
Announced ==
  pc \in BringUpSteps \union {"idle", "errors"} \/ (pc = "acks" /\ ~inIrq)
    => (done => Pending # {})

WholeFrames == \A i \in Index : frame[i] # Fragment

StreamInv == InChain /\ HeadFound /\ Announced /\ WholeFrames

\* A step that touches neither the pending frames nor what is next in line
\* leaves the frames as they are.
LEMMA ChainKept ==
  ASSUME InChain, First' = First, Pending' = Pending,
         UNCHANGED <<frame, hwIdx, next, last>>
  PROVE  InChain'
<1>1. PICK k \in 0..N : Chain(k)
  BY DEF InChain
<1>2. \A i \in Index : Pos(i)' = Pos(i)
  BY DEF Pos
<1>3. Pos(hwIdx)' = Pos(hwIdx)
  BY DEF Pos
<1>4. Chain(k)'
  BY <1>1, <1>2, <1>3 DEF Chain
<1>5. QED
  BY <1>4 DEF InChain

\* The next descriptor is one of the ring, and all distances are in 0..N-1.
LEMMA FirstType ==
  ASSUME TypeOK
  PROVE  /\ First \in Index /\ \A i \in Index : Pos(i) \in 0..N-1
         /\ \A i, j \in Index : Pos(i) = Pos(j) => i = j
         /\ \A i \in Index : Pos(i) = 0 <=> i = First
         /\ \A i \in Index :
              Pos(Advance(i)) = IF Pos(i) = N-1 THEN 0 ELSE Pos(i) + 1
<1>1. First \in Index
  BY AdvanceInRing DEF TypeOK, First
<1>2. QED
  BY <1>1, Distances, NAssumption DEF Pos, Index

\* The controller stores a frame behind the pending ones.
LEMMA ChainStored ==
  ASSUME TypeOK, StreamInv, HwReceive
  PROVE  StreamInv'
<1>1. /\ ~used[hwIdx] /\ hwIdx' = Advance(hwIdx) /\ done' = TRUE
      /\ used' = [used EXCEPT ![hwIdx] = TRUE]
      /\ frame' = [frame EXCEPT ![hwIdx] = next]
      /\ UNCHANGED <<head, last, pc, inIrq>> /\ next' = Following(next)
  BY DEF HwReceive, HwStore, thread, history
<1>2. /\ used \in [Index -> BOOLEAN] /\ frame \in [Index -> Contents]
      /\ hwIdx \in Index /\ head \in Index /\ next \in 1..Numbers
  BY DEF TypeOK
<1>3. /\ \A i \in Index : used'[i] = IF i = hwIdx THEN TRUE ELSE used[i]
      /\ \A i \in Index : frame'[i] = IF i = hwIdx THEN next ELSE frame[i]
  BY <1>1, <1>2
<1>4. next # Empty /\ next # Fragment
  BY <1>2, NumbersAssumption DEF Empty, Fragment
<1>5. Pending' = Pending \union {hwIdx} /\ hwIdx \notin Pending
  BY <1>1, <1>2, <1>3, <1>4 DEF Pending
<1>6. /\ HeadAvailable => HeadAvailable'
      /\ HeadTaken <=> HeadTaken'
  BY <1>1, <1>2, <1>3 DEF HeadAvailable, HeadTaken, StreamInv, HeadFound
<1>7. First' = First
  BY <1>1, <1>6 DEF First
<1>8. \A i \in Index : Pos(i)' = Pos(i)
  BY <1>7 DEF Pos
<1>9. InChain'
  <2>1. PICK k \in 0..N : Chain(k)
    BY DEF StreamInv, InChain
  <2>2. k < N /\ Pos(hwIdx) = k /\ k \in Nat
    BY <1>2, <1>5, <2>1, FirstType, NAssumption DEF Chain
  <2>3. Pos(hwIdx)' = IF k + 1 = N THEN 0 ELSE k + 1
    BY <1>1, <1>2, <1>7, <2>2, FirstType, NAssumption DEF Pos
  <2>4. \A i \in Index : i \in Pending' <=> Pos(i) < k + 1
    BY <1>2, <1>5, <2>1, <2>2, FirstType DEF Chain
  <2>5. \A i \in Index : Pos(i) < k + 1 <=> Pos(i) < k \/ i = hwIdx
    BY <1>2, <2>2, FirstType
  <2>6. ASSUME NEW i \in Index, Pos(i) < k + 1
        PROVE  /\ Pos(i) = 0 => frame'[i] = Following(last)
               /\ Pos(i) = k => next' = Following(frame'[i])
               /\ \A j \in Index : Pos(j) = Pos(i) + 1 /\ Pos(j) < k + 1
                                     => frame'[j] = Following(frame'[i])
    <3>1. Pos(i) = 0 => frame'[i] = Following(last)
      BY <1>3, <2>1, <2>2, <2>5, <2>6 DEF Chain
    <3>2. Pos(i) = k => next' = Following(frame'[i])
      BY <1>1, <1>2, <1>3, <2>2, FirstType
    <3>3. ASSUME NEW j \in Index, Pos(j) = Pos(i) + 1, Pos(j) < k + 1
          PROVE  frame'[j] = Following(frame'[i])
      <4>1. i # hwIdx /\ Pos(i) < k
        BY <2>2, <3>3, FirstType
      <4>2. CASE j = hwIdx
        <5>1. Pos(i) = k-1
          BY <2>2, <3>3, <4>2, FirstType
        <5>2. QED
          BY <1>3, <2>1, <4>1, <4>2, <5>1 DEF Chain
      <4>3. CASE j # hwIdx
        BY <1>3, <2>1, <2>5, <3>3, <4>1, <4>3 DEF Chain
      <4>4. QED
        BY <4>2, <4>3
    <3>4. QED
      BY <3>1, <3>2, <3>3
  <2>7. Chain(k+1)'
    BY <1>1, <1>8, <2>2, <2>3, <2>4, <2>6 DEF Chain
  <2>8. k+1 \in 0..N
    BY <2>2, NAssumption
  <2>9. QED
    BY <2>7, <2>8 DEF InChain
<1>10. HeadFound' /\ Announced' /\ WholeFrames'
  <2>1. HeadFound'
    BY <1>1, <1>2, <1>3, <1>6 DEF HeadFound, StreamInv
  <2>2. Announced'
    BY <1>2, <1>5 DEF Announced
  <2>3. WholeFrames'
    BY <1>3, <1>4 DEF WholeFrames, StreamInv
  <2>4. QED
    BY <2>1, <2>2, <2>3
<1>11. QED
  BY <1>9, <1>10 DEF StreamInv

\* The driver takes the first of the pending frames.
LEMMA ChainTaken ==
  ASSUME TypeOK, StreamInv, Receive
  PROVE  StreamInv' /\ last' = Following(last)
<1>1. /\ pc = "receive" /\ used[head] /\ frame[head] # Empty
      /\ frame' = [frame EXCEPT ![head] = Empty] /\ last' = frame[head]
      /\ pc' = "next_packet"
      /\ UNCHANGED <<used, head, hwIdx, next>>
  BY DEF Receive, HeadAvailable, hardware
<1>2. frame \in [Index -> Contents] /\ head \in Index /\ hwIdx \in Index
  BY DEF TypeOK
<1>3. \A i \in Index : frame'[i] = IF i = head THEN Empty ELSE frame[i]
  BY <1>1, <1>2
<1>4. /\ Pending' = Pending \ {head} /\ head \in Pending
  BY <1>1, <1>2, <1>3 DEF Pending
<1>5. First = head /\ HeadTaken' /\ First' = Advance(head)
  BY <1>1, <1>2, <1>3 DEF First, HeadTaken, HeadAvailable
<1>6. \A i \in Index : Pos(i)' = IF i = head THEN N-1 ELSE Pos(i) - 1
  BY <1>2, <1>5, Distances DEF Pos
<1>7. PICK k \in 0..N : Chain(k)
  BY DEF StreamInv, InChain
<1>8. Pos(head) = 0 /\ k \in Nat \ {0} /\ k <= N /\ N \in Nat
  BY <1>2, <1>4, <1>5, <1>7, FirstType, NAssumption DEF Chain
<1>9. last' = Following(last)
  BY <1>1, <1>2, <1>7, <1>8 DEF Chain
<1>10. Chain(k-1)'
  <2>1. \A i \in Index : /\ Pos(i)' < k-1 <=> Pos(i) < k /\ i # head
                         /\ i # head => Pos(i)' = Pos(i) - 1
                         /\ Pos(i) \in Int
    BY <1>2, <1>6, <1>8, FirstType
  <2>2. \A i \in Index : i \in Pending' <=> Pos(i)' < k-1
    BY <1>4, <1>7, <2>1 DEF Chain
  <2>3. Pos(hwIdx)' = IF k-1 = N THEN 0 ELSE k-1
    <3>1. Pos(hwIdx)' = k-1
      BY <1>1, <1>2, <1>5, <1>6, <1>7, <1>8, FirstType DEF Chain, Pos
    <3>2. QED
      BY <1>8, <3>1
  <2>4. k-1 = 0 => next' = Following(last')
    BY <1>1, <1>2, <1>7, <1>8 DEF Chain
  <2>5. ASSUME NEW i \in Index, Pos(i)' < k-1
        PROVE  /\ Pos(i)' = 0 => frame'[i] = Following(last')
               /\ Pos(i)' = k-1-1 => next' = Following(frame'[i])
               /\ \A j \in Index : Pos(j)' = Pos(i)' + 1 /\ Pos(j)' < k-1
                                     => frame'[j] = Following(frame'[i])
    <3>1. Pos(i) < k /\ i # head /\ Pos(i)' = Pos(i) - 1 /\ frame'[i] = frame[i]
      BY <1>3, <2>1, <2>5
    <3>2. Pos(i)' = 0 => frame'[i] = Following(last')
      BY <1>1, <1>2, <1>7, <1>8, <2>1, <3>1 DEF Chain
    <3>3. Pos(i)' = k-1-1 => next' = Following(frame'[i])
      BY <1>1, <1>7, <1>8, <2>1, <3>1 DEF Chain
    <3>4. ASSUME NEW j \in Index, Pos(j)' = Pos(i)' + 1, Pos(j)' < k-1
          PROVE  frame'[j] = Following(frame'[i])
      <4>1. /\ Pos(j) < k /\ j # head /\ Pos(j) = Pos(i) + 1
            /\ frame'[j] = frame[j]
        BY <1>3, <2>1, <3>1, <3>4
      <4>2. QED
        BY <1>7, <3>1, <4>1 DEF Chain
    <3>5. QED
      BY <3>2, <3>3, <3>4
  <2>6. QED
    BY <2>2, <2>3, <2>4, <2>5 DEF Chain
<1>11. InChain'
  <2>1. k-1 \in 0..N
    BY <1>8
  <2>2. QED
    BY <1>10, <2>1 DEF InChain
<1>12. HeadFound' /\ Announced' /\ WholeFrames'
  BY <1>1, <1>3 DEF HeadFound, Announced, BringUpSteps, StreamInv, WholeFrames,
                    Empty, Fragment
<1>13. QED
  BY <1>9, <1>11, <1>12 DEF StreamInv

\* The other steps of the handler leave the pending frames alone, and where
\* they move the head it follows the frames.
LEMMA ChainFollowed ==
  ASSUME TypeOK, StreamInv, OneOwner,
         \/ AckAvail \/ PacketAvail \/ HandleIrq \/ NextPacket
         \/ NextPacketRetry \/ HandleAck \/ AcksHandled \/ ClearComplete
         \/ IrqDone
  PROVE  StreamInv'
<1> USE DEF StreamInv, HeadFound, Announced, HeadTaken, BringUpSteps
<1>1. /\ frame \in [Index -> Contents] /\ used \in [Index -> BOOLEAN]
      /\ head \in Index /\ inIrq \in BOOLEAN
  BY DEF TypeOK
<1>2. SUFFICES /\ First' = First /\ Pending' = Pending
               /\ UNCHANGED <<frame, hwIdx, next, last>>
               /\ HeadFound' /\ Announced'
  BY ChainKept DEF WholeFrames
<1>3. CASE UNCHANGED descriptors /\ ~NextPacket /\ ~HandleAck
  <2> USE DEF descriptors, hardware, history
  <2>1. Pending' = Pending /\ UNCHANGED <<head, frame>>
        /\ (HeadAvailable' <=> HeadAvailable)
    BY <1>3 DEF Pending, HeadAvailable
  <2>2. CASE AckAvail \/ PacketAvail
    BY <2>1, <2>2 DEF AckAvail, PacketAvail, First
  <2>3. CASE HandleIrq
    <3>1. done => HeadAvailable
      <4> SUFFICES ASSUME done PROVE HeadAvailable
        OBVIOUS
      <4>1. PICK k \in 0..N : Chain(k)
        BY DEF InChain
      <4>2. Pending # {} /\ First = head
        BY <2>3 DEF HandleIrq, First
      <4>3. PICK i \in Index : i \in Pending
        BY <4>2 DEF Pending
      <4>4. Pos(i) < k /\ Pos(i) \in 0..N-1 /\ Pos(head) = 0
        BY <1>1, <4>1, <4>2, <4>3, FirstType DEF Chain
      <4>5. Pos(head) < k
        BY <4>4, NAssumption
      <4>6. QED
        BY <1>1, <4>1, <4>5 DEF Chain, Pending, HeadAvailable
    <3>2. QED
      BY <2>1, <2>3, <3>1 DEF HandleIrq, ReadStatus, First
  <2>4. HeadAvailable => Pending # {}
    BY <1>1 DEF HeadAvailable, Pending
  <2>5. CASE NextPacketRetry
    BY <2>1, <2>4, <2>5 DEF NextPacketRetry, First
  <2>6. CASE AcksHandled
    BY <2>1, <2>6 DEF AcksHandled, First
  <2>7. CASE ClearComplete
    BY <2>1, <2>7 DEF ClearComplete, First
  <2>8. CASE IrqDone
    BY <2>1, <2>8 DEF IrqDone, First
  <2>9. QED
    BY <1>3, <2>2, <2>3, <2>5, <2>6, <2>7, <2>8
<1>4. CASE NextPacket
  <2>1. UNCHANGED <<used, frame, hwIdx, next, last, done>>
    BY <1>4 DEF NextPacket, hardware, history
  <2>2. Pending' = Pending
    BY <2>1 DEF Pending
  <2>3. First' = First
    BY <1>4, <2>1 DEF NextPacket, First, HeadAvailable
  <2>4. HeadFound'
    BY <1>4, <2>1 DEF NextPacket, HeadAvailable
  <2>5. HeadAvailable => Pending # {}
    BY <1>1 DEF HeadAvailable, Pending
  <2>6. Announced'
    BY <1>4, <2>2, <2>5 DEF NextPacket
  <2>7. QED
    BY <2>1, <2>2, <2>3, <2>4, <2>6
<1>5. CASE HandleAck
  <2> DEFINE p == Head(ackQ)
  <2>1. /\ pc = "acks" /\ ackQ # <<>>
        /\ used' = [used EXCEPT ![p] = FALSE]
        /\ frame' = [frame EXCEPT ![p] = Empty]
        /\ UNCHANGED <<head, hwIdx, next, last, done, pc, inIrq>>
    BY <1>5 DEF HandleAck, hardware, thread, history
  <2>2. p \in Index /\ p \in Range(ackQ)
    BY <2>1, TailRange DEF TypeOK
  <2> HIDE DEF p
  <2>3. used[p] /\ frame[p] = Empty
    BY <2>2 DEF OneOwner
  <2>4. /\ frame' = frame
        /\ \A i \in Index : used'[i] = IF i = p THEN FALSE ELSE used[i]
    BY <1>1, <2>1, <2>2, <2>3
  <2>5. Pending' = Pending
    BY <2>3, <2>4 DEF Pending
  <2>6. HeadAvailable' <=> HeadAvailable
    BY <1>1, <2>1, <2>3, <2>4 DEF HeadAvailable
  <2>7. QED
    BY <2>1, <2>4, <2>5, <2>6 DEF First
<1>6. QED
  BY <1>3, <1>4, <1>5
  DEF AckAvail, PacketAvail, HandleIrq, ReadStatus, NextPacketRetry,
      AcksHandled, ClearComplete, IrqDone, descriptors

\* The start of the driver, and what does not concern the pending frames,
\* leave the stream as it is.
LEMMA ChainIgnored ==
  ASSUME TypeOK, StreamInv,
         \/ UNCHANGED vars
         \/ (BringUp \/ HwMdio) /\ UNCHANGED ring
         \/ HwDrop
         \/ \E i \in Index : ClientAck(i)
  PROVE  StreamInv'
<1> USE DEF ring, descriptors, hardware, thread, history
<1>1. /\ UNCHANGED <<used, frame, head, hwIdx, next, last, done, inIrq>>
      /\ pc' = pc \/ (pc \in BringUpSteps /\ pc' \in BringUpSteps \union {"idle"})
  <2>1. CASE UNCHANGED vars
    BY <2>1 DEF vars
  <2>2. CASE BringUp /\ UNCHANGED ring
    BY <2>2
    DEF BringUp, Deinit, Configure, MdioWait, PhySetup, PhyRead, EthSpeed,
        EnableInterrupts, RegisterHandler, EnableReceiver, BringUpSteps, device
  <2>3. CASE HwMdio /\ UNCHANGED ring
    BY <2>3 DEF HwMdio
  <2>4. CASE HwDrop
    BY <2>4 DEF HwDrop
  <2>5. CASE \E i \in Index : ClientAck(i)
    BY <2>5 DEF ClientAck
  <2>6. QED
    BY <2>1, <2>2, <2>3, <2>4, <2>5
<1>2. Pending' = Pending /\ (HeadAvailable' <=> HeadAvailable)
  BY <1>1 DEF Pending, HeadAvailable
<1>3. HeadTaken' <=> HeadTaken
  BY <1>1, <1>2 DEF HeadTaken, BringUpSteps
<1>4. First' = First
  BY <1>1, <1>3 DEF First
<1>5. HeadFound' /\ Announced'
  BY <1>1, <1>2, <1>3 DEF StreamInv, HeadFound, Announced, BringUpSteps
<1>6. QED
  BY <1>1, <1>2, <1>4, <1>5, ChainKept DEF StreamInv, WholeFrames

Clean == Faults = {} /\ ~MaySplit /\ ~Stale

\* What each step does to the stream when frames come whole and the controller
\* reports no errors.
LEMMA StreamSteps ==
  ASSUME Clean, TypeOK, OneOwner, StreamInv, [Next]_vars
  PROVE  /\ StreamInv'
         /\ \/ UNCHANGED history
            \/ last' = Following(last) /\ delivered' = Following(delivered)
<1>1. errors = {}
  BY DEF Clean, TypeOK
<1>2. CASE Receive
  <2>1. delivered' = Following(delivered)
    BY <1>2 DEF Receive
  <2>2. QED
    BY <1>2, <2>1, ChainTaken
<1>3. CASE HwReceive
  BY <1>3, ChainStored DEF HwReceive, HwStore
<1>4. CASE \/ UNCHANGED vars
           \/ (BringUp \/ HwMdio) /\ UNCHANGED ring
           \/ HwDrop
           \/ \E i \in Index : ClientAck(i)
  <2>1. UNCHANGED history
    BY <1>4 DEF vars, ring, HwDrop, ClientAck
  <2>2. QED
    BY <1>4, <2>1, ChainIgnored
<1>5. CASE \/ AckAvail \/ PacketAvail \/ HandleIrq \/ NextPacket
           \/ NextPacketRetry \/ HandleAck \/ AcksHandled \/ ClearComplete
           \/ IrqDone
  <2>1. UNCHANGED history
    BY <1>5
    DEF AckAvail, PacketAvail, HandleIrq, ReadStatus, NextPacket,
        NextPacketRetry, HandleAck, AcksHandled, ClearComplete, IrqDone
  <2>2. QED
    BY <1>5, <2>1, ChainFollowed
<1>6. ~HandleTxIrq /\ ~ReceiveNothing /\ ~ReceiveFragment /\ ~HwReceiveFragment
  BY <1>1
  DEF HandleTxIrq, ReceiveNothing, ReceiveFragment, HwReceiveFragment, Clean,
      StreamInv, HeadFound, WholeFrames, TypeOK
<1>7. CASE Ring
  <2>1. CASE Hardware
    BY <1>3, <1>4, <1>6, <2>1 DEF Hardware, Clean
  <2>2. CASE Handlers
    BY <1>2, <1>5, <1>6, <2>2 DEF Handlers, Clean
  <2>3. CASE Transmission
    BY <1>5, <1>6, <2>3 DEF Transmission
  <2>4. QED
    BY <1>4, <1>7, <2>1, <2>2, <2>3 DEF Ring
<1>8. QED
  BY <1>4, <1>7 DEF Next

\* Without errors, fragments and leftovers, the pending frames are always the
\* ones from the head on, in the order of their arrival and without a gap.
THEOREM StreamKept == ASSUME Clean PROVE Spec => []StreamInv
<1>1. Init => StreamInv
  <2> SUFFICES ASSUME Init PROVE StreamInv
    OBVIOUS
  <2>1. /\ \A i \in Index : ~used[i] /\ frame[i] = Empty
        /\ head = 0 /\ hwIdx = 0 /\ pc = "deinit"
        /\ next = 1 /\ last = Numbers
    BY DEF Init, DeviceInit
  <2>2. ~done
    <3>1. PICK bits \in {{}} : done = ("complete" \in bits)
      BY DEF Init, Clean
    <3>2. QED
      BY <3>1
  <2>3. First = 0 /\ Pending = {}
    BY <2>1 DEF First, HeadTaken, Pending
  <2>4. \A i \in Index : Pos(i) \in Nat
    BY <2>3, FirstInRing, Distances DEF Pos
  <2>5. Pos(hwIdx) = 0
    BY <2>1, <2>3, FirstInRing, Distances DEF Pos
  <2>6. next = Following(last)
    <3>1. Numbers % Numbers = 0
      BY NumbersAssumption, Z3
    <3>2. QED
      BY <2>1, <3>1 DEF Following
  <2>7. Chain(0) /\ 0 \in 0..N
    BY <2>3, <2>4, <2>5, <2>6, NAssumption DEF Chain
  <2>8. WholeFrames
    BY <2>1 DEF WholeFrames, Empty, Fragment
  <2>9. QED
    BY <2>1, <2>2, <2>7, <2>8
    DEF StreamInv, InChain, HeadFound, HeadTaken, Announced
<1>2. TypeOK /\ OneOwner /\ StreamInv /\ [Next]_vars => StreamInv'
  BY StreamSteps
<1>3. Faults = {}
  BY DEF Clean
<1>4. QED
  BY <1>1, <1>2, <1>3, Typing, OwnersKnown, PTL DEF Spec

\* The k-th frame that the client gets is the k-th that was stored, over any
\* number of interrupts and whatever the order in which it acknowledges the
\* packets: no frame comes twice or out of order, and none is left out in
\* favour of a later one.
THEOREM FramesInOrder == ASSUME Clean PROVE Spec => []InOrder
<1>1. Init => InOrder
  BY DEF Init, InOrder
<1>2. /\ TypeOK /\ OneOwner /\ StreamInv /\ InOrder /\ [Next]_vars
      => InOrder'
  <2> SUFFICES ASSUME InOrder,
                      \/ UNCHANGED history
                      \/ /\ last' = Following(last)
                         /\ delivered' = Following(delivered)
               PROVE  InOrder'
    BY StreamSteps
  <2>1. QED
    BY DEF InOrder, history
<1>3. Faults = {}
  BY DEF Clean
<1>4. QED
  BY <1>1, <1>2, <1>3, Typing, OwnersKnown, StreamKept, PTL DEF Spec

\* Going back j descriptors from h.
LEMMA StepBack ==
  ASSUME NEW h \in Index, NEW j \in 0..N
  PROVE  (h - j + N) % N = IF h >= j THEN h - j ELSE h - j + N
<1>1. h \in Nat /\ j \in Nat /\ N \in Nat \ {0} /\ h < N /\ j <= N
  BY NAssumption DEF Index
<1>2. CASE h >= j
  <2>1. h - j + N = (h - j) + N /\ h - j \in 0..N-1
    BY <1>1, <1>2
  <2>2. ((h - j) + N) % N = h - j
    BY <1>1, <1>2, Z3
  <2>3. QED
    BY <1>2, <2>1, <2>2
<1>3. CASE ~(h >= j)
  <2>1. h - j + N \in 0..N-1
    BY <1>1, <1>3
  <2>2. (h - j + N) % N = h - j + N
    BY <1>1, <1>3, <2>1, Z3
  <2>3. QED
    BY <1>3, <2>2
<1>4. QED
  BY <1>2, <1>3

\* Between two handlers the head is at the oldest pending frame, or where the
\* controller stores the next one: it does not get ahead although next_packet
\* moves it before it knows whether there is a frame.
THEOREM HeadKeepsUp == ASSUME Clean PROVE Spec => []HeadInStep
<1>1. TypeOK /\ StreamInv => HeadInStep
  <2> SUFFICES ASSUME TypeOK, StreamInv, pc = "idle"
               PROVE  \E k \in 0..N :
                        /\ Pending = {(hwIdx - j + N) % N : j \in 1..k}
                        /\ head = (hwIdx - k + N) % N
    BY DEF HeadInStep
  <2>1. PICK k \in 0..N : Chain(k)
    BY DEF StreamInv, InChain
  <2>2. First = head
    BY DEF First, HeadTaken
  <2>3. /\ hwIdx \in Index /\ head \in Index /\ N \in Nat \ {0} /\ k \in Nat
        /\ k <= N /\ hwIdx \in Nat /\ hwIdx < N /\ head \in Nat /\ head < N
    BY NAssumption DEF TypeOK, Index
  <2>4. Queued(hwIdx, head) = IF k = N THEN 0 ELSE k
    BY <2>1, <2>2 DEF Chain, Pos
  <2>5. head = (hwIdx - k + N) % N
    BY <2>3, <2>4, StepBack DEF Queued
  <2>6. ASSUME NEW i \in Index
        PROVE  i \in Pending <=> \E j \in 1..k : i = (hwIdx - j + N) % N
    <3>1. i \in Pending <=> Queued(i, head) < k
      BY <2>1, <2>2 DEF Chain, Pos
    <3>2. i \in Nat /\ i < N
      BY <2>3 DEF Index
    <3>3. ASSUME NEW j \in 1..k, i = (hwIdx - j + N) % N
          PROVE  Queued(i, head) < k
      <4>1. i = IF hwIdx >= j THEN hwIdx - j ELSE hwIdx - j + N
        BY <2>3, <3>3, StepBack
      <4>2. QED
        BY <2>3, <2>4, <3>2, <4>1 DEF Queued
    <3>4. ASSUME Queued(i, head) < k
          PROVE  \E j \in 1..k : i = (hwIdx - j + N) % N
      <4> DEFINE j == k - Queued(i, head)
      <4>1. j \in 1..k /\ j \in 0..N
        BY <2>3, <3>2, <3>4 DEF Queued
      <4>2. i = IF hwIdx >= j THEN hwIdx - j ELSE hwIdx - j + N
        BY <2>3, <2>4, <3>2, <3>4 DEF Queued
      <4> HIDE DEF j
      <4>3. i = (hwIdx - j + N) % N
        BY <2>3, <4>1, <4>2, StepBack
      <4>4. QED
        BY <4>1, <4>3
    <3>5. QED
      BY <3>1, <3>3, <3>4
  <2>7. \A j \in 1..k : (hwIdx - j + N) % N \in Index
    <3> TAKE j \in 1..k
    <3>1. j \in 0..N /\ j \in Nat /\ j # 0
      BY <2>3
    <3>2. QED
      BY <2>3, <3>1, StepBack DEF Index
  <2>8. Pending = {(hwIdx - j + N) % N : j \in 1..k}
    BY <2>6, <2>7 DEF Pending
  <2>9. QED
    BY <2>5, <2>8
<1>2. QED
  BY <1>1, Typing, StreamKept, PTL
=============================================================================
