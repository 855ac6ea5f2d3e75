------------------------------- MODULE TxRing -------------------------------
(***************************************************************************)
(* The transmit path of the Cadence GEM driver: the descriptor ring of     *)
(* tx_buffer_descriptor.h, the handlers of uplink_client.h that fill and   *)
(* drain it, the part of Device::handle_irq (device.h) about transmission, *)
(* and, as external parts, the transmit DMA of the controller and the      *)
(* client at the other end of the uplink session.                          *)
(*                                                                         *)
(* The driver is one thread that runs one handler at a time.  The          *)
(* controller and the client run concurrently with it, so a handler is cut *)
(* where it reads or writes what they share: pc names the next such step.  *)
(***************************************************************************)
EXTENDS BufferDescriptor, Sequences, FiniteSets, Functions

CONSTANTS Packets,      \* the packet buffers of the uplink session
          Empty,        \* packets the client submits with size 0
          Oversized,    \* packets larger than PACKET_SIZE
          AckCapacity,  \* length of the acknowledgement queue
          Faults,       \* the Tx errors the controller may report
          NoAddr        \* descriptor address 0, "invalid"

ASSUME PacketsAssumption == /\ Empty \subseteq Packets
                            /\ Oversized \subseteq Packets
                            /\ Empty \intersect Oversized = {}
                            /\ NoAddr \notin Packets
ASSUME CapacityAssumption == AckCapacity \in Nat \ {0}
ASSUME FaultsAssumption == Faults \subseteq {"hresp", "underrun"}

VARIABLES
  client,      \* packets owned by the client
  submitQ,     \* submit queue of the packet stream
  ackQ,        \* acknowledgement queue of the packet stream
  availSig,    \* a packet-avail signal waits for the driver
  addr, used,  \* the descriptors: packet address and Used bit
  head, tail,
  hwIdx,       \* the controller's queue pointer
  hwRun,       \* transmission started and not yet at a Used descriptor
  statDone,    \* Tx_status.Tx_complete
  irqDone,     \* Interrupt_status.Tx_complete
  errors,      \* error bits of Tx_status
  pc,          \* next step of the driver thread
  count,       \* loop counter of submit_acks
  inIrq,       \* the handler that runs is _handle_irq
  seen         \* error bits in the copy of Tx_status the handler works with

stream == <<client, submitQ, ackQ, availSig>>
ring == <<addr, used, head, tail>>
hardware == <<hwIdx, hwRun, statDone, irqDone, errors>>
thread == <<pc, count, inIrq, seen>>
vars == <<stream, ring, hardware, thread>>

Steps == {"idle", "clear_status", "clear_irq", "acks", "submit", "errors",
          "flush"}

Init ==
  /\ client = Packets /\ submitQ = <<>> /\ ackQ = <<>> /\ availSig = FALSE
  /\ addr = [i \in Index |-> NoAddr] /\ used = [i \in Index |-> TRUE]
  /\ head = 0 /\ tail = 0
  /\ hwIdx = 0 /\ hwRun = FALSE
  /\ statDone = FALSE /\ irqDone = FALSE /\ errors = {}
  /\ pc = "idle" /\ count = 0 /\ inIrq = FALSE /\ seen = {}

-----------------------------------------------------------------------------
(* The client (external).  Adding to an empty queue raises the signal. *)

ClientSubmit(p) ==
  /\ p \in client
  /\ client' = client \ {p}
  /\ submitQ' = Append(submitQ, p)
  /\ availSig' = (availSig \/ submitQ = <<>>)
  /\ UNCHANGED <<ackQ, ring, hardware, thread>>

ClientReclaim ==
  /\ ackQ # <<>>
  /\ client' = client \union {Head(ackQ)}
  /\ ackQ' = Tail(ackQ)
  /\ UNCHANGED <<submitQ, availSig, ring, hardware, thread>>

-----------------------------------------------------------------------------
(* The controller (external). *)

HwTransmit ==
  /\ hwRun /\ ~used[hwIdx]
  /\ used' = [used EXCEPT ![hwIdx] = TRUE]
  /\ hwIdx' = Advance(hwIdx)
  /\ statDone' = TRUE /\ irqDone' = TRUE
  /\ UNCHANGED <<stream, addr, head, tail, hwRun, errors, thread>>

HwHalt ==
  /\ hwRun /\ used[hwIdx]
  /\ hwRun' = FALSE
  /\ UNCHANGED <<stream, ring, hwIdx, statDone, irqDone, errors, thread>>

\* An error stops the controller at the descriptor it was working on, which
\* it may or may not have handed back.  (The handler also resets the ring for
\* a bus error of the receiver, which for the ring is the same as hresp.)
HwFault(f) ==
  /\ hwRun /\ ~used[hwIdx]
  /\ errors' = errors \union {f}
  /\ hwRun' = FALSE
  /\ \E u \in BOOLEAN : used' = [used EXCEPT ![hwIdx] = u]
  /\ UNCHANGED <<stream, addr, head, tail, hwIdx, statDone, irqDone, thread>>

-----------------------------------------------------------------------------
(* The driver's handlers. *)

\* Signal that packets are available: start with the first _send.
PacketAvail ==
  /\ pc = "idle" /\ availSig
  /\ availSig' = FALSE
  /\ pc' = "acks" /\ count' = 0 /\ inIrq' = FALSE
  /\ UNCHANGED <<client, submitQ, ackQ, ring, hardware, seen>>

\* handle_irq reads the status registers once.
ReadStatus ==
  /\ seen' = errors
  /\ pc' = IF irqDone \/ statDone THEN "clear_status" ELSE "errors"
  /\ inIrq' = TRUE
  /\ UNCHANGED <<stream, ring, hardware, count>>

HandleIrq == pc = "idle" /\ irqDone /\ ReadStatus

\* Tx_status raises no interrupt.  What it says, an interrupt of the receive
\* side may find, if there is one.
HandleRxIrq == pc = "idle" /\ ~irqDone /\ (statDone \/ errors # {}) /\ ReadStatus

ClearTxStatus ==
  /\ pc = "clear_status"
  /\ statDone' = FALSE
  /\ pc' = "clear_irq"
  /\ UNCHANGED <<stream, ring, hwIdx, hwRun, irqDone, errors, count, inIrq,
                 seen>>

\* Mutant: the handler of a completion only clears it and sends nothing.
ClearInterruptOnly ==
  /\ pc = "clear_irq"
  /\ irqDone' = FALSE
  /\ pc' = "errors"
  /\ UNCHANGED <<stream, ring, hwIdx, hwRun, statDone, errors, count, inIrq,
                 seen>>

ClearInterrupt ==
  /\ pc = "clear_irq"
  /\ irqDone' = FALSE
  /\ pc' = "acks" /\ count' = 0
  /\ UNCHANGED <<stream, ring, hwIdx, hwRun, statDone, errors, inIrq, seen>>

\* Mutant: the Used bit is not looked at.
AckLoopIgnoresUsed(force) == count < Queued(head, tail)

\* The loop of submit_acks goes on: it compares the counter with the number
\* of descriptors still queued and, unless forced, stops at a descriptor
\* the controller holds.
AckLoopGoesOn(force) == /\ count < Queued(head, tail)
                        /\ force \/ used[tail]

\* Mutant: the address of an acknowledged descriptor is not erased.
AckTailKeepsAddr ==
  /\ pc \in {"acks", "flush"}
  /\ AckLoopGoesOn(pc = "flush")
  /\ Len(ackQ) < AckCapacity
  /\ ackQ' = IF addr[tail] = NoAddr THEN ackQ ELSE Append(ackQ, addr[tail])
  /\ tail' = Advance(tail)
  /\ count' = count + 1
  /\ UNCHANGED <<client, submitQ, availSig, addr, used, head, hardware, pc,
                 inIrq, seen>>

\* One round of submit_acks.  acknowledge_packet blocks on a full queue.
AckTail ==
  /\ pc \in {"acks", "flush"}
  /\ AckLoopGoesOn(pc = "flush")
  /\ IF addr[tail] = NoAddr
       THEN UNCHANGED <<ackQ, addr>>
       ELSE /\ Len(ackQ) < AckCapacity
            /\ ackQ' = Append(ackQ, addr[tail])
            /\ addr' = [addr EXCEPT ![tail] = NoAddr]
  /\ tail' = Advance(tail)
  /\ count' = count + 1
  /\ UNCHANGED <<client, submitQ, availSig, used, head, hardware, pc, inIrq,
                 seen>>

AcksDone ==
  /\ pc = "acks"
  /\ ~AckLoopGoesOn(FALSE)
  /\ pc' = "submit"
  /\ UNCHANGED <<stream, ring, hardware, count, inIrq, seen>>

\* The guards of _send, after its submit_acks.  Only the driver makes one of
\* them false, so reading them at one instant loses no outcome.
CanSend == /\ Len(ackQ) < AckCapacity
           /\ submitQ # <<>>
           /\ used[head]

\* _send with variable parts: the packets it skips, the slot it writes, and
\* when it starts the controller.
SendVariant(skipped, slot, start) ==
  /\ pc = "submit" /\ CanSend
  /\ submitQ' = Tail(submitQ)
  /\ hwRun' = (hwRun \/ start)
  /\ pc' = "acks" /\ count' = 0
  /\ IF Head(submitQ) \in skipped
       THEN UNCHANGED ring
       ELSE /\ addr' = [addr EXCEPT ![slot] = Head(submitQ)]
            /\ used' = [used EXCEPT ![slot] = FALSE]
            /\ head' = Advance(head)
            /\ UNCHANGED tail
  /\ UNCHANGED <<client, ackQ, availSig, hwIdx, statDone, irqDone, errors,
                 inIrq, seen>>

\* Mutants: the head advances before the descriptor is written; the size is
\* not compared with PACKET_SIZE; only the first queued packet starts the
\* controller.
SendAdvancesFirst == SendVariant(Empty \union Oversized, Advance(head), TRUE)
SendAnySize == SendVariant(Empty, head, TRUE)
SendStartsIfEmpty ==
  SendVariant(Empty \union Oversized, head, Queued(head, tail) = 0)

\* The rest of _send.  A malformed packet is taken and forgotten; _send
\* returns true, so the next one starts.
Send ==
  /\ pc = "submit" /\ CanSend
  /\ submitQ' = Tail(submitQ)
  /\ LET p == Head(submitQ) IN
       /\ hwRun' = (hwRun \/ p \notin Empty)
       /\ IF p \in Empty \union Oversized
            THEN UNCHANGED ring
            ELSE /\ addr' = [addr EXCEPT ![head] = p]
                 /\ used' = [used EXCEPT ![head] = FALSE]
                 /\ head' = Advance(head)
                 /\ UNCHANGED tail
  /\ pc' = "acks" /\ count' = 0
  /\ UNCHANGED <<client, ackQ, availSig, hwIdx, statDone, irqDone, errors,
                 inIrq, seen>>

SendDone ==
  /\ pc = "submit" /\ ~CanSend
  /\ pc' = IF inIrq THEN "errors" ELSE "idle"
  /\ UNCHANGED <<stream, ring, hardware, count, inIrq, seen>>

\* handle_irq looks for errors in its copy of Tx_status.  Clearing Tx_en
\* stops the controller and rewinds its queue pointer; then tx.reset flushes.
StartReset ==
  /\ pc = "errors" /\ seen # {}
  /\ hwRun' = FALSE /\ hwIdx' = 0
  /\ pc' = "flush" /\ count' = 0
  /\ UNCHANGED <<stream, ring, statDone, irqDone, errors, inIrq, seen>>

\* Mutant: reset forgets the tail.
FinishResetKeepsTail ==
  /\ pc = "flush"
  /\ ~AckLoopGoesOn(TRUE)
  /\ head' = 0
  /\ seen' = IF "hresp" \in seen THEN seen \ {"hresp"} ELSE {}
  /\ errors' = IF "hresp" \in seen THEN errors \ {"hresp"} ELSE errors
  /\ pc' = "errors"
  /\ UNCHANGED <<stream, addr, used, tail, hwIdx, hwRun, statDone, irqDone,
                 count, inIrq>>

\* The end of tx.reset.  handle_irq tests the bus error first, and it is the
\* only error whose status bit it clears.
FinishReset ==
  /\ pc = "flush"
  /\ ~AckLoopGoesOn(TRUE)
  /\ head' = 0 /\ tail' = 0
  /\ seen' = IF "hresp" \in seen THEN seen \ {"hresp"} ELSE {}
  /\ errors' = IF "hresp" \in seen THEN errors \ {"hresp"} ELSE errors
  /\ pc' = "errors"
  /\ UNCHANGED <<stream, addr, used, hwIdx, hwRun, statDone, irqDone, count,
                 inIrq>>

IrqDone ==
  /\ pc = "errors" /\ seen = {}
  /\ pc' = "idle"
  /\ UNCHANGED <<stream, ring, hardware, count, inIrq, seen>>

-----------------------------------------------------------------------------
Client == (\E p \in Packets : ClientSubmit(p)) \/ ClientReclaim
Hardware == HwTransmit \/ HwHalt \/ \E f \in Faults : HwFault(f)
Driver == \/ PacketAvail \/ HandleIrq \/ ClearTxStatus \/ ClearInterrupt
          \/ AckTail \/ AcksDone \/ Send \/ SendDone
          \/ StartReset \/ FinishReset \/ IrqDone

Next == Client \/ Hardware \/ HandleRxIrq \/ Driver

\* The driver and the controller keep running and the client takes back what
\* it is given; nothing makes the client submit or a frame arrive.
Fairness == /\ WF_vars(Driver)
            /\ WF_vars(HwTransmit \/ HwHalt)
            /\ WF_vars(ClientReclaim)

Spec == Init /\ [][Next]_vars
FairSpec == Spec /\ Fairness
-----------------------------------------------------------------------------
(* Properties. *)

\* The packets of the session that are well-formed.
Proper == Packets \ (Empty \union Oversized)

\* The packets in the queued descriptors, oldest first.
Window == [k \in 1..Queued(head, tail) |-> addr[(tail + k - 1) % N]]

\* The ring has a slot to spare when all packets of the client are in it.
\* Nothing in the code sees to it: how many packets there are depends on the
\* session's buffer, which the length of the ring is not compared with.
SpareSlot == IsFiniteSet(Proper) /\ Cardinality(Proper) < N

\* Some descriptor holds no packet.  Once every one does, the head has met
\* the tail and the ring counts as empty.
HasRoom == \E i \in Index : addr[i] = NoAddr

\* The variables have the types of the members they model.
TypeOK ==
  /\ client \subseteq Packets
  /\ submitQ \in Seq(Packets) /\ ackQ \in Seq(Packets)
  /\ availSig \in BOOLEAN
  /\ addr \in [Index -> Packets \union {NoAddr}]
  /\ used \in [Index -> BOOLEAN]
  /\ head \in Index /\ tail \in Index
  /\ hwIdx \in Index /\ hwRun \in BOOLEAN
  /\ statDone \in BOOLEAN /\ irqDone \in BOOLEAN
  /\ errors \subseteq Faults
  /\ pc \in Steps /\ count \in Nat
  /\ inIrq \in BOOLEAN /\ seen \subseteq Faults

\* No packet buffer is ever in two places: while the client owns it the
\* driver neither holds it in a descriptor nor has it in a queue, and the
\* driver acknowledges it at most once per submission, whatever resets
\* come in between (submit_acks erases the address for this reason).
OwnedOnce ==
  LET inRing == Range(addr) \ {NoAddr} IN
  /\ IsInjective(submitQ) /\ IsInjective(ackQ)
  /\ \A i, j \in Index : addr[i] = addr[j] /\ addr[i] # NoAddr => i = j
  /\ client \intersect (Range(submitQ) \union Range(ackQ) \union inRing) = {}
  /\ Range(submitQ) \intersect (Range(ackQ) \union inRing) = {}
  /\ Range(ackQ) \intersect inRing = {}

\* Without errors, and as long as the ring has never been full, no
\* well-formed packet is lost: the client has it, a queue holds it, or a
\* descriptor between tail and head does, where submit_acks will find it.
NoLeak ==
  Proper \subseteq client \union Range(submitQ) \union Range(ackQ)
                           \union Range(Window)

\* Without errors the controller works inside the window of the driver: the
\* descriptors from the tail to its pointer are done, the ones from there
\* to the head are its own, and each of those holds a packet, so it never
\* fetches from the address 0 of a descriptor that was acknowledged.
HwInsideWindow ==
  /\ \E d \in 0..Queued(head, tail) :
       /\ hwIdx = (tail + d) % N
       /\ \A k \in 0..Queued(head, tail)-1 :
            /\ used[(tail + k) % N] <=> k < d
            /\ addr[(tail + k) % N] # NoAddr
  /\ \A i \in Index : ~used[i] => addr[i] # NoAddr

\* The promise to the client: first in, first out, each packet returned at
\* most once, and none forgotten unless the controller reports errors or the
\* client has enough packets to fill the ring.
Channel == INSTANCE TxChannel WITH
             Malformed <- Empty \union Oversized,
             Lossy <- Faults # {} \/ ~SpareSlot,
             submitted <- submitQ, accepted <- Window, returned <- ackQ
ImplementsChannel == Channel!Spec

\* Every submitted packet is looked at, although the signal is only raised
\* for an empty queue and _send gives up on a full ring, from where only the
\* interrupt of a completion calls it again.  This is about behaviours in
\* which the controller reports no error and the acknowledgement queue is
\* never full: the client's signal that it has room again is not handled in
\* uplink_client.h.
SubmittedIsTaken ==
  [](errors = {} /\ Len(ackQ) < AckCapacity)
    => \A p \in Packets : p \in Range(submitQ) ~> p \notin Range(submitQ)

\* An accepted packet comes back to a client that keeps submitting.  A
\* silent client may wait forever: submit_acks compares its counter with a
\* queue that shrinks as it counts, and acknowledges half of it.
AcceptedIsReturned ==
  WF_vars(\E p \in Packets : ClientSubmit(p))
    => \A p \in Proper : p \in Range(Window) ~> p \in client
=============================================================================
