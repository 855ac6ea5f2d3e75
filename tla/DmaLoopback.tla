----------------------------- MODULE DmaLoopback -----------------------------
(***************************************************************************)
(* The loop-back test of the AXI DMA library (src/test/dma_loopback/): a   *)
(* single transfer first, then transfers from a ring of buffer pairs, each *)
(* with the next number, checked when it is back, while a timer changes    *)
(* how much is transferred and how much of it is filled and compared.      *)
(*                                                                         *)
(* Sizes are levels: each step of the timer makes an access or a buffer    *)
(* four times as large, and cell i of a buffer stands for the bytes that   *)
(* an access of level i has and one of level i - 1 has not.  The level of  *)
(* a buffer size is that of the largest access it has room for.            *)
(***************************************************************************)
EXTENDS AxiDma, FiniteSets

CONSTANTS Slots,        \* number of buffer pairs in the ring
          Numbers,      \* the transfer counters are taken modulo this bound
          FirstBuffer,  \* level of the first cur_buffer_size
          LastBuffer,   \* level of max_buffer_size
          MaxAccess     \* level of max_access_size

TxBuf(s) == <<"tx", s>>
RxBuf(s) == <<"rx", s>>
RingSlots == 0..Slots-1
AllBuffers == {"tx", "rx"} \X (0..Slots)

ASSUME SlotsAssumption == Slots = 3
ASSUME NumbersAssumption == Numbers \in Nat /\ Numbers > Slots
ASSUME LevelsAssumption == /\ FirstBuffer \in 0..LastBuffer
                           /\ LastBuffer \in 0..Size
                           /\ MaxAccess \in 0..Size
ASSUME BuffersAssumption == AllBuffers \subseteq Buffers
ASSUME ValuesAssumption == 0..Numbers-1 \subseteq Values

VARIABLES
  head, tail,          \* the ring
  counter,             \* number of the next transfer to be filled
  rx_counter,          \* number of the next transfer to be checked
  last_counter,        \* last_counter # 0
  cur_buffer_size, cur_access_size,
  exit                 \* first exit value told to the parent, -1 if none

ring == <<head, tail>>
sizes == <<last_counter, cur_buffer_size, cur_access_size>>
counters == <<counter, rx_counter>>
vars == <<engine, signal, pc, library, ring, counters, sizes, exit>>

\* The buffers of test_simple_transfer are not in the ring.
Src == TxBuf(Slots)
Dst == RxBuf(Slots)

\* New buffers are zero; test_simple_transfer fills its source.
Init ==
  /\ AxiDmaInit
  /\ mem = [b \in Buffers |-> [i \in Cells |-> IF b = Src THEN 1 ELSE 0]]
  /\ pc = "test"
  /\ head = 0 /\ tail = 0
  /\ counter = 0 /\ rx_counter = 0 /\ last_counter = FALSE
  /\ cur_buffer_size = FirstBuffer /\ cur_access_size = 0
  /\ exit = -1

Following(s) == (s + 1) % Slots
Empty == head = tail
Exit(code) == IF exit = -1 THEN code ELSE exit
Same(b, c, len) == \A i \in 0..len : mem[b][i] = mem[c][i]

-----------------------------------------------------------------------------
(* test_simple_transfer *)

TestStart ==
  /\ pc = "test"
  /\ SimpleTransfer(Src, Dst, FirstBuffer, "failed")
  /\ UNCHANGED <<ring, counters, sizes, exit>>

TestWait ==
  /\ CheckComplete("compare", "failed")
  /\ UNCHANGED <<ring, counters, sizes, exit>>

\* The constructor goes on whatever the result and the comparison say.
TestCompare ==
  /\ pc \in {"compare", "failed"}
  /\ exit' = IF pc = "compare" /\ Same(Src, Dst, FirstBuffer) THEN exit ELSE Exit(1)
  /\ registered' = TRUE
  /\ pc' = "prefill"
  /\ UNCHANGED <<engine, signal, seen, blocking, ring, counters, sizes>>

-----------------------------------------------------------------------------
(* The throughput test. *)

\* advance_head returns false.
RingFull == Following(head) = tail

\* One iteration of fill_transfers, in the constructor or in a handler.
FillTransfer ==
  /\ pc \in {"prefill", "fill"}
  /\ mem' = [mem EXCEPT ![TxBuf(head)] =
               [i \in Cells |-> IF i <= cur_access_size THEN counter ELSE @[i]]]
  /\ IF RingFull
       THEN /\ pc' = IF pc = "prefill" THEN "queue" ELSE "ready"
            /\ UNCHANGED <<head, counter>>
       ELSE /\ head' = Following(head)
            /\ counter' = (counter + 1) % Numbers
            /\ UNCHANGED pc
  /\ UNCHANGED <<chan, stream, signal, library, tail, rx_counter, sizes, exit>>

Transfer(s) ==
  chan' = [chan EXCEPT !["rx"] = Started("rx", RxBuf(s), cur_buffer_size),
                       !["tx"] = Started("tx", TxBuf(s), cur_buffer_size)]

\* Mutant: the buffers at the head are transferred.
QueueHead(s) == IF s = head THEN UNCHANGED chan ELSE Transfer(head)

\* queue_next_transfer for the transfer at slot s, if there is one.  It tries
\* both channels: if one is busy, the program reports to its parent that it
\* failed.
Queue(s) == IF s = head THEN UNCHANGED chan ELSE Transfer(s)

QueueFails(s) == s # head /\ \E c \in Channels : Refused(c)

QueueFirst ==
  /\ pc = "queue"
  /\ Queue(tail)
  /\ exit' = IF QueueFails(tail) THEN Exit(1) ELSE exit
  /\ pc' = "ready"
  /\ UNCHANGED <<mem, stream, signal, library, ring, counters, sizes>>

\* Mutant: what was acknowledged is taken for the running transfer.
RxNotComplete == FALSE

\* The early return of handle_rx_complete: the interrupt was that of an
\* earlier transfer.
RxPending == ~Complete("rx")

ReturnEarly ==
  /\ pc = "rx_complete" /\ RxPending
  /\ pc' = "ready"
  /\ UNCHANGED <<engine, signal, library, ring, counters, sizes, exit>>

\* handle_rx_complete up to fill_transfers.
HandleRxComplete ==
  LET same == Same(TxBuf(tail), RxBuf(tail), cur_access_size)
      expected == mem[TxBuf(tail)][0] = rx_counter
      next == IF Empty THEN tail ELSE Following(tail)
  IN /\ pc = "rx_complete" /\ ~RxPending
     /\ rx_counter' = IF same THEN (rx_counter + 1) % Numbers ELSE rx_counter
     /\ tail' = next
     /\ Queue(next)
     /\ exit' = IF same /\ expected /\ ~QueueFails(next) THEN exit ELSE Exit(1)
     /\ pc' = "fill"
     /\ UNCHANGED <<mem, stream, signal, library, head, counter, sizes>>

\* handle_timeout.  It ends at its first call, and when last_counter has
\* wrapped around to 0.  After exit the sizes only matter until the parent
\* ends the program; they are left alone then (bound).
HandleTimeout ==
  LET access == cur_access_size + 1
      wraps == access > MaxAccess \/ access > cur_buffer_size
      buffer == IF wraps THEN cur_buffer_size + 1 ELSE cur_buffer_size
  IN /\ pc = "ready" /\ registered /\ exit = -1
     /\ last_counter' \in {TRUE, counter # 0}
     /\ IF ~last_counter
          THEN UNCHANGED <<cur_access_size, cur_buffer_size, exit>>
          ELSE /\ cur_access_size' = IF wraps THEN 0 ELSE access
               /\ exit' = IF buffer > LastBuffer THEN 0 ELSE exit
               /\ cur_buffer_size' = IF exit' = 0 THEN LastBuffer ELSE buffer
     /\ UNCHANGED <<engine, signal, pc, library, ring, counters>>

-----------------------------------------------------------------------------
Hardware == \/ Engine /\ UNCHANGED signal
            \/ HwInterrupt /\ UNCHANGED engine

App == \/ TestStart \/ TestWait \/ TestCompare
       \/ FillTransfer \/ QueueFirst
       \/ ReturnEarly \/ HandleRxComplete

Thread == \/ App
          \/ Library /\ UNCHANGED <<ring, counters, sizes, exit>>

Next == \/ Hardware /\ UNCHANGED <<pc, library, ring, counters, sizes, exit>>
        \/ Thread
        \/ HandleTimeout

\* The engine ends its transfers, interrupts arrive, the thread runs.
Fairness == /\ WF_vars(HwSend /\ UNCHANGED <<signal, pc, library, ring,
                                              counters, sizes, exit>>)
            /\ WF_vars(HwReceive /\ UNCHANGED <<signal, pc, library, ring,
                                                 counters, sizes, exit>>)
            /\ WF_vars(HwInterrupt /\ UNCHANGED <<engine, pc, library, ring,
                                                   counters, sizes, exit>>)
            /\ WF_vars(Thread)

Spec == Init /\ [][Next]_vars /\ Fairness

-----------------------------------------------------------------------------
(* Properties. *)

\* The variables have the types of the members they model.
TypeOK ==
  /\ AxiDmaTypeOK
  /\ pc \in {"test", "ready", "check", "compare", "failed", "prefill", "queue",
             "fill", "read_rx", "acknowledge", "rx_complete"}
  /\ head \in RingSlots /\ tail \in RingSlots
  /\ counter \in 0..Numbers-1 /\ rx_counter \in 0..Numbers-1
  /\ last_counter \in BOOLEAN
  /\ cur_buffer_size \in FirstBuffer..LastBuffer
  /\ cur_access_size \in 0..MaxAccess
  /\ exit \in -1..1

\* The program never reports a failure: no comparison finds a difference, the
\* numbers come back in order, and no transfer is refused by a busy channel,
\* although interrupts of earlier transfers arrive late and the timer changes
\* the sizes while transfers run.
NeverFails == exit # 1

\* While the tx channel reads a buffer, nobody writes it: the ring keeps
\* fill_transfers, which runs meanwhile, away from it.
SourceStable ==
  [][chan["tx"].state = "busy"
       => mem'[chan["tx"].buf] = mem[chan["tx"].buf]]_vars

\* Unless the engine fails, simple_transfer returns and transfers are received
\* and checked again and again: no completion is lost between the reading
\* and the acknowledgement of the status, or between two transfers.
LoopGoesOn ==
  \/ <>(\E c \in Channels : "err" \in chan[c].irq)
  \/ []<>(pc = "rx_complete" /\ ~RxPending)
=============================================================================
