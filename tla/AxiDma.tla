-------------------------------- MODULE AxiDma --------------------------------
(***************************************************************************)
(* The AXI DMA library (src/lib/xilinx_axidma/, mode NORMAL) and the DMA   *)
(* engine it drives: a tx channel reads a buffer into a stream, an rx      *)
(* channel writes the stream to another buffer.  The stream is looped      *)
(* back.                                                                   *)
(*                                                                         *)
(* The library runs in the one thread of its user, who provides the next   *)
(* step by pc.  Its interrupt handler is cut between the accesses to the   *)
(* status registers, as the engine runs on.                                *)
(***************************************************************************)
EXTENDS Integers

CONSTANTS Buffers,   \* DMA buffers
          Size,      \* a buffer consists of the cells 0..Size
          Values,    \* what a cell may contain
          MayFail,   \* DMA errors happen
          None       \* no buffer, nothing in the stream

ASSUME SizeAssumption == Size \in Nat

VARIABLES
  mem,         \* contents of the buffers
  chan,        \* per channel: state, buffer, cells, interrupt bits
  stream,      \* what the tx channel has sent and the rx channel not stored
  signal,      \* the signal of the interrupts is pending
  pc,          \* next step of the thread
  seen,        \* status words read by _handle_irq
  blocking,    \* simple_transfer() waits
  registered   \* _rx_complete_handler is set

engine == <<mem, chan, stream>>
library == <<seen, blocking, registered>>

Cells == 0..Size
Channels == {"tx", "rx"}
Bits == {"ioc", "err"}

\* The constructor: the interrupts are enabled, the engine has been reset.
AxiDmaInit ==
  /\ chan = [c \in Channels |->
               [state |-> "halted", buf |-> None, len |-> 0, irq |-> {}]]
  /\ stream = None
  /\ signal = FALSE
  /\ seen = [c \in Channels |-> {}]
  /\ blocking = FALSE /\ registered = FALSE

-----------------------------------------------------------------------------
(* The engine.  The rx channel is done when it has stored the stream. *)

Done(c) == [chan[c] EXCEPT !.state = "idle", !.buf = None, !.len = 0,
                           !.irq = @ \union {"ioc"}]

HwSend ==
  /\ chan["tx"].state = "busy" /\ stream = None
  /\ stream' = [i \in 0..chan["tx"].len |-> mem[chan["tx"].buf][i]]
  /\ chan' = [chan EXCEPT !["tx"] = Done("tx")]
  /\ UNCHANGED mem

HwReceive ==
  /\ chan["rx"].state = "busy" /\ stream # None
  /\ mem' = [mem EXCEPT ![chan["rx"].buf] =
               [i \in Cells |-> IF i \in DOMAIN stream THEN stream[i] ELSE @[i]]]
  /\ chan' = [chan EXCEPT !["rx"] = Done("rx")]
  /\ stream' = None

HwFail(c) ==
  /\ MayFail /\ chan[c].state = "busy"
  /\ chan' = [chan EXCEPT ![c].state = "halted", ![c].irq = @ \union {"err"}]
  /\ UNCHANGED <<mem, stream>>

\* An interrupt line stays up until the bits are acknowledged.
HwInterrupt ==
  /\ \E c \in Channels : chan[c].irq # {}
  /\ ~signal /\ signal' = TRUE

-----------------------------------------------------------------------------
(* The library. *)

\* rx_transfer_complete, tx_transfer_complete.
Complete(c) == chan[c].state = "idle"

\* start_rx_transfer and start_tx_transfer fail if their channel is busy.
Refused(c) == chan[c].state = "busy"

Started(c, buf, len) ==
  IF Refused(c) THEN chan[c]
                ELSE [chan[c] EXCEPT !.state = "busy", !.buf = buf, !.len = len]

\* simple_transfer: start rx, then tx unless rx was refused, and wait for a
\* signal ...
SimpleTransfer(src, dst, len, failed) ==
  /\ chan' = [chan EXCEPT
       !["rx"] = Started("rx", dst, len),
       !["tx"] = IF Refused("rx") THEN @ ELSE Started("tx", src, len)]
  /\ blocking' = ~(Refused("rx") \/ Refused("tx"))
  /\ pc' = IF blocking' THEN "ready" ELSE failed
  /\ UNCHANGED <<mem, stream, signal, seen, registered>>

\* ... until both are complete.  Then it looks for errors in the status of tx,
\* where a reset clears them.
CheckComplete(okay, failed) ==
  /\ pc = "check"
  /\ blocking' = ~(Complete("rx") /\ Complete("tx"))
  /\ pc' = IF blocking' THEN "ready"
           ELSE IF "err" \in chan["tx"].irq THEN failed
           ELSE okay
  /\ UNCHANGED <<engine, signal, seen, registered>>

\* Where _handle_irq returns to.
Return == IF blocking THEN "check" ELSE "ready"

\* _handle_irq reads the status of tx ...
HandleIrq ==
  /\ pc = "ready" /\ signal
  /\ signal' = FALSE
  /\ seen' = [seen EXCEPT !["tx"] = chan["tx"].irq]
  /\ pc' = "read_rx"
  /\ UNCHANGED <<engine, blocking, registered>>

\* ... and of rx ...
ReadRxStatus ==
  /\ pc = "read_rx"
  /\ seen' = [seen EXCEPT !["rx"] = chan["rx"].irq]
  /\ pc' = "acknowledge"
  /\ UNCHANGED <<engine, signal, blocking, registered>>

\* Mutant: all bits are acknowledged, not those that were read.
AcknowledgeAll ==
  /\ pc = "acknowledge"
  /\ chan' = [c \in Channels |-> [chan[c] EXCEPT !.irq = {}]]
  /\ seen' = [c \in Channels |-> {}]
  /\ pc' = IF "ioc" \in seen["rx"] /\ registered THEN "rx_complete" ELSE Return
  /\ UNCHANGED <<mem, stream, signal, blocking, registered>>

\* ... acknowledges what it read, and calls the handler, unless there was an
\* error: then it resets the engine and that is all.
Acknowledge ==
  LET error == \E c \in Channels : "err" \in seen[c]
      reset == [state |-> "halted", buf |-> None, len |-> 0, irq |-> {}]
  IN /\ pc = "acknowledge"
     /\ chan' = [c \in Channels |->
                   IF error THEN reset
                   ELSE [chan[c] EXCEPT !.irq = @ \ seen[c]]]
     /\ stream' = IF error THEN None ELSE stream
     /\ pc' = IF ~error /\ "ioc" \in seen["rx"] /\ registered
                THEN "rx_complete" ELSE Return
     /\ seen' = [c \in Channels |-> {}]
     /\ UNCHANGED <<mem, signal, blocking, registered>>

-----------------------------------------------------------------------------
Engine == HwSend \/ HwReceive \/ (\E c \in Channels : HwFail(c))
Library == HandleIrq \/ ReadRxStatus \/ Acknowledge

Contents(cells) == [cells -> Values]

AxiDmaTypeOK ==
  /\ mem \in [Buffers -> Contents(Cells)]
  /\ chan \in [Channels -> [state : {"idle", "busy", "halted"},
                            buf : Buffers \union {None}, len : Cells,
                            irq : SUBSET Bits]]
  /\ stream = None \/ \E n \in Cells : stream \in Contents(0..n)
  /\ signal \in BOOLEAN
  /\ seen \in [Channels -> SUBSET Bits]
  /\ blocking \in BOOLEAN /\ registered \in BOOLEAN
=============================================================================
