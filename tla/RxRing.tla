------------------------------- MODULE RxRing -------------------------------
(***************************************************************************)
(* The receive path of the Cadence GEM driver: the descriptor ring of      *)
(* rx_buffer_descriptor.h, the receive and error branches of               *)
(* Device::handle_irq (device.h), the handling of acknowledgements in      *)
(* uplink_client.h and, as external parts, the receive DMA and the client. *)
(*                                                                         *)
(* Descriptor i and the packet buffer allocated for it in the constructor  *)
(* belong together for good, so the packet is named by the index.  Frames  *)
(* are numbered modulo Numbers in the order of their arrival; with more    *)
(* than N numbers no two frames in the ring have the same.                 *)
(***************************************************************************)
EXTENDS BufferDescriptor, GemDevice, Sequences, Functions

CONSTANTS Numbers,   \* how many frames have distinct numbers
          MaySplit,  \* frames may be split over several descriptors
          Faults,    \* errors the controller may report
          Stale      \* interrupts from before the driver's start are pending

ASSUME NumbersAssumption == Numbers \in Nat \ {0}
ASSUME RxFaultsAssumption == Faults \subseteq {"hresp", "overrun"}
ASSUME MaySplitAssumption == MaySplit \in BOOLEAN
ASSUME StaleAssumption == Stale \in BOOLEAN

VARIABLES
  used,        \* Used bit of each descriptor: handed to software
  frame,       \* its status: the frame it holds, or no Length
  head, tail,
  hwIdx,       \* the controller's queue pointer
  next,        \* number of the next frame
  done,        \* Interrupt_status.Rx_complete
  usedRead,    \* Interrupt_status.Rx_used_read
  noBuffer,    \* Rx_status.Buffer_not_available
  errors,      \* the other error bits of the status registers
  client,      \* packets submitted to the client and not acknowledged
  ackQ,        \* acknowledgement queue
  ackSig,      \* an ack-avail signal waits for the driver
  inIrq,       \* the handler that runs is _handle_irq
  seen,        \* error bits in the handler's copy of the status
  last,        \* number of the last frame submitted to the client
  delivered    \* how many frames were submitted, counted like the numbers

descriptors == <<used, frame, head, tail>>
used_read == <<usedRead, noBuffer>>
hardware == <<hwIdx, next, done, used_read, errors>>
stream == <<client, ackQ, ackSig>>
thread == <<pc, inIrq, seen>>
history == <<last, delivered>>
ring == <<descriptors, hardware, stream, inIrq, seen, history>>
vars == <<ring, pc, device>>

Empty == 0            \* no Length
Fragment == -1        \* Start_of_frame or End_of_frame is missing
Contents == {Empty, Fragment} \union 1..Numbers

\* Mutant: the number does not wrap.
FollowingUnbounded(n) == n + 1

Following(n) == (n % Numbers) + 1

\* What is pending in Interrupt_status survives deinit, Rx_status is cleared.
Init ==
  /\ DeviceInit
  /\ used = [i \in Index |-> FALSE] /\ frame = [i \in Index |-> Empty]
  /\ head = 0 /\ tail = 0
  /\ hwIdx = 0 /\ next = 1
  /\ \E bits \in IF Stale THEN SUBSET {"complete", "used_read", "overrun"}
                          ELSE {{}} :
       /\ done = ("complete" \in bits) /\ usedRead = ("used_read" \in bits)
       /\ errors = bits \intersect Faults
  /\ noBuffer = FALSE
  /\ client = {} /\ ackQ = <<>> /\ ackSig = FALSE
  /\ inIrq = FALSE /\ seen = {}
  /\ last = Numbers /\ delivered = Numbers

-----------------------------------------------------------------------------
(* The controller (external). *)

HwStore(content) ==
  /\ rx_en /\ qbar /\ ~used[hwIdx]
  /\ used' = [used EXCEPT ![hwIdx] = TRUE]
  /\ frame' = [frame EXCEPT ![hwIdx] = content]
  /\ hwIdx' = Advance(hwIdx)
  /\ done' = TRUE
  /\ UNCHANGED <<head, tail, used_read, errors, stream, thread, history>>

HwReceive == HwStore(next) /\ next' = Following(next)

HwReceiveFragment == MaySplit /\ HwStore(Fragment) /\ UNCHANGED next

\* No descriptor is free: the frame is dropped.
HwDrop ==
  /\ rx_en /\ qbar /\ used[hwIdx]
  /\ usedRead' = TRUE /\ noBuffer' = TRUE
  /\ UNCHANGED <<descriptors, hwIdx, next, done, errors, stream, thread, history>>

HwFault(f) ==
  /\ rx_en /\ qbar
  /\ errors' = errors \union {f}
  /\ UNCHANGED <<descriptors, hwIdx, next, done, used_read, stream, thread,
                 history>>

-----------------------------------------------------------------------------
(* The client (external) acknowledges packets in any order. *)

ClientAck(i) ==
  /\ i \in client
  /\ client' = client \ {i}
  /\ ackQ' = Append(ackQ, i)
  /\ ackSig' = (ackSig \/ ackQ = <<>>)
  /\ UNCHANGED <<descriptors, hardware, thread, history>>

-----------------------------------------------------------------------------
(* The driver. *)

AckAvail ==
  /\ pc = "idle" /\ ackSig
  /\ ackSig' = FALSE /\ pc' = "acks" /\ inIrq' = FALSE
  /\ UNCHANGED <<descriptors, hardware, client, ackQ, seen, history>>

\* A packet for transmission: the handler looks at the acknowledgements too.
PacketAvail ==
  /\ pc = "idle" /\ ackQ # <<>>
  /\ pc' = "acks" /\ inIrq' = FALSE
  /\ UNCHANGED <<descriptors, hardware, stream, seen, history>>

\* handle_irq reads the status registers once.
ReadStatus ==
  /\ seen' = errors \union (IF usedRead /\ noBuffer THEN {"used_read"} ELSE {})
  /\ pc' = IF done THEN "next_packet" ELSE "errors"
  /\ inIrq' = TRUE
  /\ UNCHANGED <<descriptors, hardware, stream, history>>

Interrupt == done \/ usedRead \/ "overrun" \in errors

HandleIrq == pc = "idle" /\ Interrupt /\ ReadStatus

\* The bus error raises no interrupt; an interrupt of the transmit side may
\* find it, if there is one.
HandleTxIrq == pc = "idle" /\ ~Interrupt /\ errors # {} /\ ReadStatus

\* _head_available.  A fragment has a Length as well.
HeadAvailable == used[head] /\ frame[head] # Empty

\* Mutant: the head does not move.
NextPacketStays ==
  /\ pc = "next_packet"
  /\ pc' = IF HeadAvailable THEN "acks" ELSE "clear"
  /\ UNCHANGED <<descriptors, hardware, stream, inIrq, seen, history>>

\* next_packet looks at the head and, failing that, moves on ...
NextPacket ==
  /\ pc = "next_packet"
  /\ IF HeadAvailable
       THEN pc' = "acks" /\ UNCHANGED head
       ELSE pc' = "retry" /\ head' = Advance(head)
  /\ UNCHANGED <<used, frame, tail, hardware, stream, inIrq, seen, history>>

\* Mutant: the head moves on after the second look.
NextPacketMovesTwice ==
  /\ pc = "retry"
  /\ pc' = IF HeadAvailable THEN "acks" ELSE "clear"
  /\ head' = IF HeadAvailable THEN head ELSE Advance(head)
  /\ UNCHANGED <<used, frame, tail, hardware, stream, inIrq, seen, history>>

\* ... and looks again.
NextPacketRetry ==
  /\ pc = "retry"
  /\ pc' = IF HeadAvailable THEN "acks" ELSE "clear"
  /\ UNCHANGED <<descriptors, hardware, stream, inIrq, seen, history>>

\* Mutant: acknowledgements are expected in the order of the descriptors.
HandleAckInOrder ==
  /\ pc = "acks" /\ ackQ # <<>>
  /\ LET i == Advance(tail) IN
       /\ tail' = i
       /\ used' = [used EXCEPT ![i] = FALSE]
       /\ frame' = [frame EXCEPT ![i] = Empty]
  /\ ackQ' = Tail(ackQ)
  /\ UNCHANGED <<head, hardware, client, ackSig, thread, history>>

\* One round of _handle_acks.  reset_descriptor moves the tail to the
\* descriptor of the packet and hands the descriptor to the controller.
HandleAck ==
  /\ pc = "acks" /\ ackQ # <<>>
  /\ LET i == Head(ackQ) IN
       /\ tail' = i
       /\ used' = [used EXCEPT ![i] = FALSE]
       /\ frame' = [frame EXCEPT ![i] = Empty]
  /\ ackQ' = Tail(ackQ)
  /\ UNCHANGED <<head, hardware, client, ackSig, thread, history>>

AcksHandled ==
  /\ pc = "acks" /\ ackQ = <<>>
  /\ pc' = IF inIrq THEN "receive" ELSE "idle"
  /\ UNCHANGED <<descriptors, hardware, stream, inIrq, seen, history>>

\* Mutant: the status is not cleared.
ReceiveKeepsStatus ==
  /\ pc = "receive"
  /\ HeadAvailable /\ frame[head] # Fragment
  /\ client' = client \union {head}
  /\ last' = frame[head] /\ delivered' = Following(delivered)
  /\ pc' = "next_packet"
  /\ UNCHANGED <<descriptors, hardware, ackQ, ackSig, inIrq, seen>>

\* Mutant: the descriptor is handed back although the client has the packet.
ReceiveRearms ==
  /\ pc = "receive"
  /\ HeadAvailable /\ frame[head] # Fragment
  /\ frame' = [frame EXCEPT ![head] = Empty]
  /\ used' = [used EXCEPT ![head] = FALSE]
  /\ client' = client \union {head}
  /\ last' = frame[head] /\ delivered' = Following(delivered)
  /\ pc' = "next_packet"
  /\ UNCHANGED <<head, tail, hardware, ackQ, ackSig, inIrq, seen>>

\* get_packet_descriptor and, for a valid packet, submit_packet: the frame is
\* copied to the packet and only the status of the descriptor cleared.
Receive ==
  /\ pc = "receive"
  /\ HeadAvailable /\ frame[head] # Fragment
  /\ frame' = [frame EXCEPT ![head] = Empty]
  /\ client' = client \union {head}
  /\ last' = frame[head] /\ delivered' = Following(delivered)
  /\ pc' = "next_packet"
  /\ UNCHANGED <<used, head, tail, hardware, ackQ, ackSig, inIrq, seen>>

\* A fragment is ignored and its descriptor handed back at once.
ReceiveFragment ==
  /\ pc = "receive"
  /\ HeadAvailable /\ frame[head] = Fragment
  /\ frame' = [frame EXCEPT ![head] = Empty]
  /\ used' = [used EXCEPT ![head] = FALSE]
  /\ pc' = "next_packet"
  /\ UNCHANGED <<head, tail, hardware, stream, inIrq, seen, history>>

\* An acknowledgement took the frame away: an invalid packet is not submitted.
ReceiveNothing ==
  /\ pc = "receive" /\ ~HeadAvailable
  /\ pc' = "next_packet"
  /\ UNCHANGED <<descriptors, hardware, stream, inIrq, seen, history>>

\* Rx_complete is cleared after the loop.
ClearComplete ==
  /\ pc = "clear"
  /\ done' = FALSE
  /\ pc' = "errors"
  /\ UNCHANGED <<descriptors, hwIdx, next, used_read, errors, stream, inIrq,
                 seen, history>>

\* rx.reset, with the receiver disabled: every descriptor is handed to the
\* controller and the head starts over.  Rx_qbar is not written again, and the
\* controller keeps its pointer: from here on the two may be out of step.
ResetReceiver(f) ==
  /\ pc = "errors" /\ f \in seen \intersect {"hresp", "overrun"}
  /\ f = "overrun" => "hresp" \notin seen
  /\ used' = [i \in Index |-> FALSE] /\ frame' = [i \in Index |-> Empty]
  /\ head' = 0
  /\ seen' = seen \ {f} /\ errors' = errors \ {f}
  /\ UNCHANGED <<tail, hwIdx, next, done, used_read, stream, pc, inIrq, history>>

\* The rest of handle_irq: a pause frame asks the sender to slow down.  An
\* Rx_used_read from before the start stays pending until there is another.
IrqDone ==
  /\ pc = "errors" /\ seen \subseteq {"used_read"}
  /\ usedRead' = (usedRead /\ seen = {}) /\ noBuffer' = (noBuffer /\ seen = {})
  /\ seen' = {}
  /\ pc' = "idle"
  /\ UNCHANGED <<descriptors, hwIdx, next, done, errors, stream, inIrq, history>>

-----------------------------------------------------------------------------
Hardware == \/ HwReceive \/ HwReceiveFragment \/ HwDrop
            \/ \E f \in Faults : HwFault(f)
Handlers == \/ AckAvail \/ HandleIrq \/ NextPacket \/ NextPacketRetry
            \/ HandleAck \/ AcksHandled
            \/ Receive \/ ReceiveFragment \/ ReceiveNothing
            \/ ClearComplete
            \/ \E f \in Faults : ResetReceiver(f)
            \/ IrqDone

Driver == Handlers /\ UNCHANGED device

Transmission == PacketAvail \/ HandleTxIrq

Ring == \/ Hardware \/ (\E i \in Index : ClientAck(i))
        \/ Handlers \/ Transmission

Next == \/ Ring /\ UNCHANGED device
        \/ (BringUp \/ HwMdio) /\ UNCHANGED ring

Fairness == /\ WF_vars(Driver)
            /\ SF_vars(AckAvail /\ UNCHANGED device)
            /\ SF_vars(HandleIrq /\ UNCHANGED device)
            /\ \A i \in Index : WF_vars(ClientAck(i) /\ UNCHANGED device)

Spec == Init /\ [][Next]_vars
FairSpec == Spec /\ Fairness

-----------------------------------------------------------------------------
(* Properties. *)

\* The variables have the types of the members they model.
TypeOK ==
  /\ used \in [Index -> BOOLEAN] /\ frame \in [Index -> Contents]
  /\ head \in Index /\ tail \in Index
  /\ hwIdx \in Index /\ next \in 1..Numbers
  /\ {done, usedRead, noBuffer} \subseteq BOOLEAN
  /\ errors \subseteq Faults
  /\ client \subseteq Index /\ ackQ \in Seq(Index) /\ ackSig \in BOOLEAN
  /\ DeviceTypeOK
  /\ pc \in BringUpSteps \union {"idle", "next_packet", "retry", "acks",
                                "receive", "clear", "errors"}
  /\ inIrq \in BOOLEAN
  /\ seen \subseteq Faults \union {"used_read"}
  /\ {last, delivered} \subseteq 1..Numbers

\* The descriptors that hold a frame for the driver.
Pending == {i \in Index : used[i] /\ frame[i] # Empty}

\* Between two handlers, the head is where the driver has to look next: at
\* the oldest pending frame or, if there is none, where the controller will
\* store the next one.  next_packet keeps it so although it moves the head
\* before it knows whether there is a frame.
HeadInStep ==
  pc = "idle" =>
    \E k \in 0..N : /\ Pending = {(hwIdx - j + N) % N : j \in 1..k}
                    /\ head = (hwIdx - k + N) % N

\* The packet of a descriptor is in the hands of the controller, of the
\* driver or of the client, and of one of them only: the controller never
\* writes to a packet the client is reading, and no descriptor is lost.
OneOwner ==
  \A i \in Index :
    LET held == i \in client \union Range(ackQ) IN
    /\ held <=> used[i] /\ frame[i] = Empty
    /\ i \in client => i \notin Range(ackQ)
    /\ IsInjective(ackQ)

\* The k-th frame that the client gets is the k-th that was stored: none is
\* delivered twice, none before an earlier one, and none is left out in favour
\* of a later one.  (That the last one is not left out either is what
\* HeadInStep and StoredIsTaken are about.)
InOrder == last = delivered

\* An acknowledged packet is handed back to the controller, although the
\* signal is only raised for an empty queue.
AckedIsRearmed == \A i \in Index : i \in Range(ackQ) ~> ~used[i]

\* As long as frames keep arriving, each of them reaches the driver.  A frame
\* stored between the last look at the ring and the clearing of Rx_complete
\* has to wait for the interrupt of a later one.
StoredIsTaken ==
  WF_vars(HwReceive /\ UNCHANGED device) => \A i \in Index : i \in Pending ~> i \notin Pending
=============================================================================
