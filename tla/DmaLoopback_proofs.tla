-------------------------- MODULE DmaLoopback_proofs --------------------------
(***************************************************************************)
(* Proofs about the loop-back test of the AXI DMA library, for buffers,    *)
(* sizes and transfer numbers of any bound, with and without DMA errors.   *)
(*                                                                         *)
(* At any time one pair of buffers is being transferred: that of the first *)
(* test, later the one at the tail of the ring.  The invariant says where  *)
(* the thread is in the test (PhaseInv), how far the two channels are      *)
(* (EngineInv), what the buffers of the pair and the stream have in common *)
(* (PairInv), which slots of the ring hold which numbers (RingInv) and     *)
(* which cells no transfer has reached yet (SizesInv).                     *)
(***************************************************************************)
EXTENDS DmaLoopback, TLAPS

-----------------------------------------------------------------------------
(* The inductive invariant. *)

IsBusy(c) == chan[c].state = "busy"
IsIdle(c) == chan[c].state = "idle"

\* A channel that runs has a buffer.
BusyHasBuffer == \A c \in Channels : IsBusy(c) => chan[c].buf \in Buffers

\* The channels are well-typed, and one that runs has a buffer.
Connected(channels) ==
  /\ channels \in [Channels -> [state : {"idle", "busy", "halted"},
                                buf : Buffers \union {None}, len : Cells,
                                irq : SUBSET Bits]]
  /\ \A c \in Channels :
       channels[c].state = "busy" => channels[c].buf \in Buffers

\* simple_transfer blocks in the first test only, and nothing was started
\* before it.
PhaseInv ==
  /\ pc # "failed"
  /\ pc \in {"test", "check", "compare"} => ~registered
  /\ pc \in {"prefill", "queue", "fill", "rx_complete"} => registered
  /\ pc \in {"ready", "read_rx", "acknowledge", "check"}
       => (blocking <=> ~registered)
  /\ registered \/ pc \in {"test", "compare"} => ~blocking
  /\ pc = "test" =>
       /\ stream = None
       /\ \A c \in Channels :
            chan[c].state = "halted" /\ chan[c].irq = {} /\ seen[c] = {}
  /\ pc \in {"compare", "prefill", "queue"} => IsIdle("rx")

\* The rx channel is done after the tx channel, and what has been sent but not
\* received is in the stream.  A channel with an error is halted and nothing
\* starts it again.
EngineInv ==
  /\ \A c \in Channels :
       "err" \in chan[c].irq \union seen[c] => chan[c].state = "halted"
  /\ IsIdle("rx") => IsIdle("tx")
  /\ stream # None => IsIdle("tx") /\ ~IsIdle("rx")

\* The pair that is being transferred.
CurSrc == IF registered THEN TxBuf(tail) ELSE Src
CurDst == IF registered THEN RxBuf(tail) ELSE Dst

\* The first n + 1 cells of a buffer.
Prefix(b, n) == [i \in 0..n |-> mem[b][i]]

\* No cell of a buffer above n has ever been written.
ZeroAbove(b, n) == \A i \in Cells : i > n => mem[b][i] = 0

PairInv ==
  /\ IsBusy("tx") => chan["tx"].buf = CurSrc
  /\ IsBusy("rx") => chan["rx"].buf = CurDst
  /\ IsBusy("tx") /\ IsBusy("rx") => chan["tx"].len = chan["rx"].len
  /\ IsBusy("rx") /\ stream # None => stream = Prefix(CurSrc, chan["rx"].len)
  /\ IsBusy("rx") =>
       IF registered
         THEN /\ chan["rx"].len <= cur_buffer_size
              /\ ZeroAbove(CurSrc, chan["rx"].len)
              /\ ZeroAbove(CurDst, chan["rx"].len)
         ELSE chan["rx"].len = FirstBuffer
  /\ IsIdle("rx") /\ pc \notin {"prefill", "queue"} =>
       IF registered THEN mem[CurSrc] = mem[CurDst]
                     ELSE Same(Src, Dst, FirstBuffer)

\* The number after n.
NumberAfter(n) == (n + 1) % Numbers

\* The first d slots of the ring, from the tail to the head, are filled with
\* the numbers that are expected next.
Filled0 == head = tail /\ counter = rx_counter
Filled1 == /\ head = Following(tail) /\ counter = NumberAfter(rx_counter)
           /\ mem[TxBuf(tail)][0] = rx_counter
Filled2 == /\ head = Following(Following(tail))
           /\ counter = NumberAfter(NumberAfter(rx_counter))
           /\ mem[TxBuf(tail)][0] = rx_counter
           /\ mem[TxBuf(Following(tail))][0] = NumberAfter(rx_counter)

\* The ring has one slot to spare whenever no slot is being filled.
RingInv ==
  /\ ~registered => Filled0
  /\ registered => IF pc = "prefill" THEN Filled0 \/ Filled1 \/ Filled2
                   ELSE IF pc = "fill" THEN Filled1 \/ Filled2
                                       ELSE Filled2

\* No access exceeds the size of the transfers, which never shrinks.
SizesInv ==
  /\ cur_access_size <= cur_buffer_size
  /\ \A s \in RingSlots : /\ ZeroAbove(TxBuf(s), cur_buffer_size)
                          /\ ZeroAbove(RxBuf(s), cur_buffer_size)

LoopInv == /\ PhaseInv /\ EngineInv /\ PairInv /\ RingInv /\ SizesInv
           /\ NeverFails


-----------------------------------------------------------------------------
(* Buffers, slots and numbers. *)

\* The buffers of the ring and of the first test are all different.
LEMMA BufferNames ==
  /\ \A s \in 0..Slots : TxBuf(s) \in Buffers /\ RxBuf(s) \in Buffers
  /\ \A s, t : TxBuf(s) # RxBuf(t)
  /\ \A s, t : TxBuf(s) = TxBuf(t) => s = t
  /\ \A s, t : RxBuf(s) = RxBuf(t) => s = t
  BY BuffersAssumption DEF TxBuf, RxBuf, AllBuffers

\* From each slot the ring leads over the two others back to it.  No slot is
\* the one of the first test.
LEMMA RingSteps ==
  ASSUME NEW s \in RingSlots
  PROVE  /\ Following(s) \in RingSlots
         /\ Following(s) # s
         /\ Following(Following(s)) \notin {s, Following(s)}
         /\ Following(Following(Following(s))) = s
         /\ s \in 0..Slots /\ s # Slots
  BY SlotsAssumption DEF RingSlots, Following

\* Numbers are followed by numbers.
LEMMA NumbersStay ==
  ASSUME NEW n \in 0..Numbers-1 PROVE NumberAfter(n) \in 0..Numbers-1
<1>1. n \in Nat /\ Numbers \in Nat \ {0}
  BY NumbersAssumption, SlotsAssumption
<1>2. QED
  BY <1>1, Z3 DEF NumberAfter

\* The size of a transfer and the cells it has.
LEMMA LevelsInBuffer ==
  /\ Size \in Nat /\ FirstBuffer \in Cells
  /\ FirstBuffer..LastBuffer \subseteq Cells /\ 0 \in Cells
  /\ FirstBuffer \in FirstBuffer..LastBuffer /\ LastBuffer \in FirstBuffer..LastBuffer
  /\ 0..MaxAccess \subseteq Cells /\ 0 \in 0..MaxAccess
  BY LevelsAssumption, SizeAssumption DEF Cells

-----------------------------------------------------------------------------
\* Every reachable state is well-typed, whatever fails.
THEOREM Typing == Spec => [](TypeOK /\ BusyHasBuffer)
<1> USE DEF engine, library, ring, counters, sizes, vars
<1>1. Init => TypeOK /\ BusyHasBuffer
  <2> SUFFICES ASSUME Init PROVE TypeOK /\ BusyHasBuffer
    OBVIOUS
  <2>1. 0 \in Values /\ 1 \in Values /\ 0 \in 0..Numbers-1
    BY ValuesAssumption, NumbersAssumption, SlotsAssumption
  <2>2. AxiDmaTypeOK
    BY <2>1, LevelsInBuffer DEF Init, AxiDmaInit, AxiDmaTypeOK, Contents, Bits
  <2>3. BusyHasBuffer
    BY DEF Init, AxiDmaInit, BusyHasBuffer, IsBusy
  <2>4. QED
    <3>1. 0 \in RingSlots
      BY SlotsAssumption DEF RingSlots
    <3>2. last_counter \in BOOLEAN
      BY DEF Init
    <3>3. exit \in -1..1
      BY DEF Init
    <3>4. cur_buffer_size \in FirstBuffer..LastBuffer /\ cur_access_size \in 0..MaxAccess
      BY LevelsInBuffer DEF Init
    <3>5. counter \in 0..Numbers-1 /\ rx_counter \in 0..Numbers-1
      BY <2>1 DEF Init
    <3>6. pc = "test" /\ head \in RingSlots /\ tail \in RingSlots
      BY <3>1 DEF Init
    <3>7. QED
      BY <2>2, <2>3, <3>2, <3>3, <3>4, <3>5, <3>6 DEF TypeOK
<1>2. TypeOK /\ BusyHasBuffer /\ [Next]_vars => (TypeOK /\ BusyHasBuffer)'
  <2> SUFFICES ASSUME TypeOK, BusyHasBuffer, [Next]_vars
               PROVE  (TypeOK /\ BusyHasBuffer)'
    OBVIOUS
  <2>0. /\ mem \in [Buffers -> [Cells -> Values]]
        /\ Connected(chan)
        /\ seen \in [Channels -> SUBSET Bits]
        /\ head \in RingSlots /\ tail \in RingSlots
        /\ counter \in 0..Numbers-1 /\ rx_counter \in 0..Numbers-1
        /\ "tx" \in Channels /\ "rx" \in Channels /\ "ioc" \in Bits /\ "err" \in Bits
    BY DEF TypeOK, AxiDmaTypeOK, BusyHasBuffer, IsBusy, Contents, Channels, Bits,
           Connected
  <2>start. ASSUME NEW c \in Channels, NEW buf \in Buffers, NEW len \in Cells
            PROVE  /\ Started(c, buf, len) \in [state : {"idle", "busy", "halted"},
                                                buf : Buffers \union {None},
                                                len : Cells, irq : SUBSET Bits]
                   /\ Started(c, buf, len).state = "busy" =>
                        Started(c, buf, len).buf \in Buffers
    BY <2>0 DEF Started, Refused, Connected
  <2>chan. ASSUME NEW src \in Buffers, NEW dst \in Buffers, NEW len \in Cells,
                  NEW tx, tx = chan["tx"] \/ tx = Started("tx", src, len),
                  chan' = [chan EXCEPT !["rx"] = Started("rx", dst, len),
                                       !["tx"] = tx]
           PROVE  Connected(chan')
    <3> DEFINE rx == Started("rx", dst, len)
               R == [state : {"idle", "busy", "halted"},
                     buf : Buffers \union {None}, len : Cells, irq : SUBSET Bits]
    <3>1. rx \in R /\ (rx.state = "busy" => rx.buf \in Buffers)
      BY <2>0, <2>start
    <3>2. tx \in R /\ (tx.state = "busy" => tx.buf \in Buffers)
      BY <2>0, <2>start, <2>chan DEF Connected
    <3> HIDE DEF rx
    <3>3. chan \in [Channels -> R] /\ chan' = [chan EXCEPT !["rx"] = rx, !["tx"] = tx]
      BY <2>0, <2>chan DEF Connected, rx
    <3>4. chan'["rx"] = rx /\ chan'["tx"] = tx
      BY <2>0, <3>3
    <3> HIDE DEF R
    <3>5. chan' \in [Channels -> R]
      BY <3>1, <3>2, <3>3
    <3>6. QED
      BY <3>1, <3>2, <3>4, <3>5 DEF Connected, R, Channels
  <2>type. Connected(chan') =>
             /\ chan' \in [Channels -> [state : {"idle", "busy", "halted"},
                                        buf : Buffers \union {None}, len : Cells,
                                        irq : SUBSET Bits]]
             /\ BusyHasBuffer'
    BY DEF Connected, BusyHasBuffer, IsBusy
  <2>1. CASE HwSend /\ UNCHANGED <<signal, pc, library, ring, counters, sizes, exit>>
    <3>1. chan["tx"].len \in Cells /\ chan["tx"].buf \in Buffers
      BY <2>0, <2>1 DEF HwSend, Connected
    <3>2. stream' \in [0..chan["tx"].len -> Values]
      BY <2>0, <2>1, <3>1, SizeAssumption DEF HwSend, Cells
    <3>3. Connected(chan')
      BY <2>0, <2>1, LevelsInBuffer DEF HwSend, Done, Connected
    <3>4. QED
      BY <2>1, <2>type, <3>1, <3>2, <3>3
      DEF HwSend, TypeOK, AxiDmaTypeOK, Contents
  <2>2. CASE HwReceive /\ UNCHANGED <<signal, pc, library, ring, counters, sizes, exit>>
    <3>1. Connected(chan')
      BY <2>0, <2>2, LevelsInBuffer DEF HwReceive, Done, Connected
    <3>2. PICK n \in Cells : stream \in [0..n -> Values]
      BY <2>2 DEF HwReceive, TypeOK, AxiDmaTypeOK, Contents
    <3>3. mem' \in [Buffers -> [Cells -> Values]]
      BY <2>0, <2>2, <3>2 DEF HwReceive
    <3>4. QED
      BY <2>2, <2>type, <3>1, <3>3
      DEF HwReceive, TypeOK, AxiDmaTypeOK, Contents
  <2>3. ASSUME NEW c \in Channels, HwFail(c),
               UNCHANGED <<signal, pc, library, ring, counters, sizes, exit>>
        PROVE  (TypeOK /\ BusyHasBuffer)'
    BY <2>0, <2>3, <2>type
    DEF HwFail, Connected, TypeOK, AxiDmaTypeOK, Contents
  <2>4. CASE HwInterrupt /\ UNCHANGED <<engine, pc, library, ring, counters, sizes, exit>>
    BY <2>4 DEF HwInterrupt, TypeOK, AxiDmaTypeOK, BusyHasBuffer, IsBusy, Contents
  <2>5. CASE TestStart
    <3>1. Src \in Buffers /\ Dst \in Buffers
      BY BufferNames, SlotsAssumption DEF Src, Dst
    <3>2. Connected(chan')
      <4> DEFINE tx == IF Refused("rx") THEN chan["tx"]
                       ELSE Started("tx", Src, FirstBuffer)
      <4>1. chan' = [chan EXCEPT !["rx"] = Started("rx", Dst, FirstBuffer),
                                 !["tx"] = tx]
        BY <2>0, <2>5 DEF TestStart, SimpleTransfer, Connected
      <4>2. tx = chan["tx"] \/ tx = Started("tx", Src, FirstBuffer)
        OBVIOUS
      <4> HIDE DEF tx
      <4>3. QED
        BY <2>chan, <3>1, <4>1, <4>2, LevelsInBuffer
    <3>3. QED
      BY <2>5, <2>type, <3>2
      DEF TestStart, SimpleTransfer, TypeOK, AxiDmaTypeOK, Contents
  <2>6. CASE TestWait
    BY <2>6 DEF TestWait, CheckComplete, TypeOK, AxiDmaTypeOK, BusyHasBuffer,
                IsBusy, Contents
  <2>7. CASE TestCompare
    <3>1. exit' \in {exit, Exit(1)} /\ pc' = "prefill" /\ registered' = TRUE
      BY <2>7 DEF TestCompare
    <3>2. QED
      BY <2>7, <3>1 DEF TestCompare, Exit, TypeOK, AxiDmaTypeOK, BusyHasBuffer,
                        IsBusy, Contents
  <2>8. CASE FillTransfer
    <3>1. counter \in Values /\ TxBuf(head) \in Buffers
      BY <2>0, ValuesAssumption, BufferNames, RingSteps
    <3>2. mem' \in [Buffers -> [Cells -> Values]]
      BY <2>0, <2>8, <3>1 DEF FillTransfer
    <3>3. head' \in RingSlots /\ counter' \in 0..Numbers-1
      BY <2>0, <2>8, RingSteps, NumbersStay DEF FillTransfer, NumberAfter
    <3>4. QED
      BY <2>8, <3>2, <3>3
      DEF FillTransfer, TypeOK, AxiDmaTypeOK, BusyHasBuffer, IsBusy, Contents
  <2>9. CASE QueueFirst
    <3>1. TxBuf(tail) \in Buffers /\ RxBuf(tail) \in Buffers /\ cur_buffer_size \in Cells
      BY <2>0, BufferNames, RingSteps, LevelsInBuffer DEF TypeOK
    <3>2. Connected(chan')
      BY <2>0, <2>9, <2>chan, <3>1 DEF QueueFirst, Queue, Transfer
    <3>3. QED
      BY <2>9, <2>type, <3>2
      DEF QueueFirst, Exit, TypeOK, AxiDmaTypeOK, Contents
  <2>10. CASE ReturnEarly
    BY <2>10 DEF ReturnEarly, TypeOK, AxiDmaTypeOK, BusyHasBuffer, IsBusy, Contents
  <2>11. CASE HandleRxComplete
    <3> DEFINE next == IF Empty THEN tail ELSE Following(tail)
    <3>1. next \in RingSlots
      BY <2>0, RingSteps
    <3> HIDE DEF next
    <3>2. TxBuf(next) \in Buffers /\ RxBuf(next) \in Buffers /\ cur_buffer_size \in Cells
      BY <3>1, BufferNames, RingSteps, LevelsInBuffer DEF TypeOK
    <3>3. /\ tail' = next /\ Queue(next) /\ pc' = "fill"
          /\ UNCHANGED <<mem, stream, signal, library, head, counter, sizes>>
          /\ exit' = exit \/ exit' = Exit(1)
          /\ rx_counter' = rx_counter \/ rx_counter' = NumberAfter(rx_counter)
      BY <2>11 DEF HandleRxComplete, NumberAfter, next
    <3>4. Connected(chan')
      BY <2>0, <2>chan, <3>2, <3>3 DEF Queue, Transfer
    <3>5. exit' \in -1..1 /\ rx_counter' \in 0..Numbers-1
      BY <2>0, <3>3, NumbersStay DEF Exit, TypeOK
    <3>6. QED
      BY <2>type, <3>1, <3>3, <3>4, <3>5
      DEF TypeOK, AxiDmaTypeOK, Contents
  <2>12. CASE HandleIrq /\ UNCHANGED <<ring, counters, sizes, exit>>
    BY <2>0, <2>12 DEF HandleIrq, TypeOK, AxiDmaTypeOK, BusyHasBuffer, IsBusy, Contents
  <2>13. CASE ReadRxStatus /\ UNCHANGED <<ring, counters, sizes, exit>>
    BY <2>0, <2>13 DEF ReadRxStatus, TypeOK, AxiDmaTypeOK, BusyHasBuffer, IsBusy, Contents
  <2>14. CASE Acknowledge /\ UNCHANGED <<ring, counters, sizes, exit>>
    <3>1. Connected(chan')
      BY <2>0, <2>14, LevelsInBuffer DEF Acknowledge, Connected
    <3>2. /\ seen' \in [Channels -> SUBSET Bits]
          /\ stream' = None \/ stream' = stream
          /\ pc' \in {"rx_complete", "check", "ready"}
          /\ UNCHANGED <<mem, signal, blocking, registered>>
      BY <2>14 DEF Acknowledge, Return
    <3>3. QED
      BY <2>14, <2>type, <3>1, <3>2
      DEF TypeOK, AxiDmaTypeOK, Contents
  <2>15. CASE HandleTimeout
    <3>1. /\ cur_access_size' \in 0..MaxAccess
          /\ cur_buffer_size' \in FirstBuffer..LastBuffer
          /\ exit' \in -1..1 /\ last_counter' \in BOOLEAN
      <4>1. /\ cur_access_size \in Nat /\ cur_access_size <= MaxAccess
            /\ cur_buffer_size \in Int /\ MaxAccess \in Nat
            /\ FirstBuffer \in Nat /\ LastBuffer \in Nat
            /\ FirstBuffer <= cur_buffer_size /\ cur_buffer_size <= LastBuffer
            /\ exit \in -1..1
        BY LevelsAssumption, SizeAssumption DEF TypeOK
      <4>2. last_counter' \in BOOLEAN
        BY <2>15 DEF HandleTimeout
      <4>3. QED
        BY <2>15, <4>1, <4>2 DEF HandleTimeout
    <3>2. QED
      BY <2>15, <3>1
      DEF HandleTimeout, TypeOK, AxiDmaTypeOK, BusyHasBuffer, IsBusy, Contents
  <2>16. CASE UNCHANGED vars
    BY <2>16 DEF TypeOK, AxiDmaTypeOK, BusyHasBuffer, IsBusy, Contents
  <2>17. QED
    BY <2>1, <2>2, <2>3, <2>4, <2>5, <2>6, <2>7, <2>8, <2>9, <2>10, <2>11,
       <2>12, <2>13, <2>14, <2>15, <2>16
    DEF Next, Hardware, Engine, Thread, App, Library
<1>3. QED
  BY <1>1, <1>2, PTL DEF Spec


-----------------------------------------------------------------------------
(* The steps. *)

\* What the types of the variables say about the places the steps refer to.
Typed ==
  /\ mem \in [Buffers -> [Cells -> Values]]
  /\ Connected(chan)
  /\ seen \in [Channels -> SUBSET Bits]
  /\ head \in RingSlots /\ tail \in RingSlots
  /\ rx_counter \in 0..Numbers-1
  /\ cur_buffer_size \in Cells /\ cur_access_size \in Cells
  /\ CurSrc \in Buffers /\ CurDst \in Buffers
  /\ "tx" \in Channels /\ "rx" \in Channels

\* It follows from the types.
LEMMA TypedInPlace == TypeOK /\ BusyHasBuffer => Typed
<1> SUFFICES ASSUME TypeOK, BusyHasBuffer PROVE Typed
  OBVIOUS
<1>1. CurSrc \in Buffers /\ CurDst \in Buffers
  BY BufferNames, RingSteps, SlotsAssumption
  DEF TypeOK, CurSrc, CurDst, Src, Dst
<1>2. cur_buffer_size \in Cells /\ cur_access_size \in Cells
  BY LevelsInBuffer DEF TypeOK
<1>3. QED
  BY <1>1, <1>2
  DEF TypeOK, AxiDmaTypeOK, BusyHasBuffer, IsBusy, Contents, Channels,
      Connected, Typed

\* A step that leaves the ring, its numbers and its source buffers alone
\* leaves what is filled.
LEMMA FilledKept ==
  ASSUME Typed, UNCHANGED <<ring, counters>>,
         \A s \in RingSlots : mem'[TxBuf(s)] = mem[TxBuf(s)]
  PROVE  (Filled0 => Filled0') /\ (Filled1 => Filled1') /\ (Filled2 => Filled2')
  BY RingSteps DEF Typed, ring, counters, Filled0, Filled1, Filled2

\* The thread takes a step in which it only reads.
LEMMA ReadingKeeps ==
  ASSUME Typed, PairInv, RingInv, SizesInv, NeverFails,
         UNCHANGED <<engine, registered, ring, counters, sizes, exit>>,
         {pc, pc'} \intersect {"prefill", "queue", "fill"} = {}
  PROVE  (PairInv /\ RingInv /\ SizesInv /\ NeverFails)'
<1> USE DEF engine, ring, counters, sizes
<1>1. CurSrc' = CurSrc /\ CurDst' = CurDst
  BY DEF CurSrc, CurDst
<1>2. PairInv'
  BY <1>1 DEF PairInv, IsBusy, IsIdle, Prefix, ZeroAbove, Same
<1>3. RingInv'
  BY FilledKept DEF RingInv
<1>4. SizesInv'
  BY DEF SizesInv, ZeroAbove
<1>5. QED
  BY <1>2, <1>3, <1>4 DEF NeverFails

\* The tx channel sends a buffer.
LEMMA SendKeeps ==
  ASSUME Typed, LoopInv, HwSend,
         UNCHANGED <<signal, pc, library, ring, counters, sizes, exit>>
  PROVE  LoopInv'
<1> USE DEF library, ring, counters, sizes, LoopInv, IsBusy, IsIdle
<1>1. /\ chan["tx"].state = "busy" /\ stream = None
      /\ stream' = Prefix(chan["tx"].buf, chan["tx"].len)
      /\ mem' = mem /\ chan'["rx"] = chan["rx"]
      /\ chan'["tx"].state = "idle"
      /\ chan'["tx"].irq = chan["tx"].irq \union {"ioc"}
  BY DEF HwSend, Prefix, Done, Typed, Connected
<1>2. CurSrc' = CurSrc /\ CurDst' = CurDst
  BY DEF CurSrc, CurDst
<1>3. ~IsIdle("rx")
  BY <1>1 DEF EngineInv
<1>4. PhaseInv'
  BY <1>1, <1>3 DEF PhaseInv, Typed
<1>5. EngineInv'
  BY <1>1, <1>3 DEF EngineInv, Channels
<1>6. PairInv'
  BY <1>1, <1>2, <1>3 DEF PairInv, Prefix, ZeroAbove
<1>7. RingInv' /\ SizesInv'
  BY <1>1, FilledKept DEF RingInv, SizesInv, ZeroAbove
<1>8. QED
  BY <1>4, <1>5, <1>6, <1>7 DEF NeverFails

\* The rx channel stores what was sent, and the two buffers of the pair are
\* the same then.
LEMMA ReceiveKeeps ==
  ASSUME Typed, LoopInv, HwReceive,
         UNCHANGED <<signal, pc, library, ring, counters, sizes, exit>>
  PROVE  LoopInv'
<1> USE DEF library, ring, counters, sizes, LoopInv, IsBusy, IsIdle
<1> DEFINE len == chan["rx"].len
<1>1. /\ chan["rx"].state = "busy" /\ stream # None /\ stream' = None
      /\ chan'["tx"] = chan["tx"]
      /\ chan'["rx"].state = "idle"
      /\ chan'["rx"].irq = chan["rx"].irq \union {"ioc"}
      /\ len \in Cells
  BY DEF HwReceive, Done, Typed, Connected
<1>2. /\ chan["tx"].state = "idle" /\ chan["rx"].buf = CurDst
      /\ stream = Prefix(CurSrc, len)
  BY <1>1 DEF EngineInv, PairInv
<1>3. CurSrc' = CurSrc /\ CurDst' = CurDst
  BY DEF CurSrc, CurDst
<1>4. /\ DOMAIN stream = 0..len
      /\ \A i \in 0..len : stream[i] = mem[CurSrc][i]
  BY <1>2 DEF Prefix
<1>5. /\ \A b \in Buffers : b # CurDst => mem'[b] = mem[b]
      /\ mem'[CurDst] = [i \in Cells |-> IF i \in 0..len THEN mem[CurSrc][i]
                                                         ELSE mem[CurDst][i]]
  BY <1>1, <1>2, <1>4 DEF HwReceive, Typed
<1>6. \A s \in RingSlots : mem'[TxBuf(s)] = mem[TxBuf(s)]
  BY <1>5, BufferNames, RingSteps DEF CurDst, Dst
<1>7. mem'[CurSrc] = mem[CurSrc] /\ mem[CurSrc] \in [Cells -> Values]
  BY <1>5, BufferNames DEF CurSrc, CurDst, Src, Dst, Typed
<1>8. PhaseInv'
  BY <1>1 DEF PhaseInv, Typed
<1>9. EngineInv'
  BY <1>1, <1>2 DEF EngineInv, Channels
<1>10. PairInv'
  <2>1. CASE registered
    <3>1. ZeroAbove(CurSrc, len) /\ ZeroAbove(CurDst, len)
      BY <1>1, <2>1 DEF PairInv
    <3>2. \A i \in Cells : mem'[CurDst][i] = mem[CurSrc][i]
      <4> TAKE i \in Cells
      <4>1. i \in 0..len \/ i > len
        BY <1>1, SizeAssumption DEF Cells
      <4>2. QED
        BY <1>5, <3>1, <4>1 DEF ZeroAbove
    <3>3. mem'[CurDst] = mem'[CurSrc]
      BY <1>5, <1>7, <3>2
    <3>4. QED
      BY <1>1, <1>2, <1>3, <2>1, <3>3 DEF PairInv
  <2>2. CASE ~registered
    <3>1. len = FirstBuffer /\ CurSrc = Src /\ CurDst = Dst
      BY <1>1, <2>2 DEF PairInv, CurSrc, CurDst
    <3>2. \A i \in 0..FirstBuffer : mem'[Src][i] = mem'[Dst][i]
      BY <1>1, <1>5, <1>7, <3>1, SizeAssumption DEF Cells
    <3>3. QED
      BY <1>1, <1>2, <1>3, <2>2, <3>2 DEF PairInv, Same
  <2>3. QED
    BY <2>1, <2>2
<1>11. RingInv'
  BY <1>6, FilledKept DEF RingInv
<1>12. SizesInv'
  <2>1. ASSUME NEW s \in RingSlots PROVE ZeroAbove(RxBuf(s), cur_buffer_size)'
    <3>1. RxBuf(s) \in Buffers
      BY BufferNames, RingSteps
    <3>2. CASE RxBuf(s) # CurDst
      BY <1>5, <3>1, <3>2 DEF SizesInv, ZeroAbove
    <3>3. CASE RxBuf(s) = CurDst
      <4>1. registered
        BY <3>3, BufferNames, RingSteps DEF CurDst, Dst
      <4>2. len <= cur_buffer_size
        BY <1>1, <4>1 DEF PairInv
      <4>3. ASSUME NEW i \in Cells, i > cur_buffer_size PROVE i \notin 0..len
        BY <1>1, <4>2, <4>3, SizeAssumption DEF Typed, Cells
      <4>4. QED
        BY <1>5, <3>3, <4>3 DEF SizesInv, ZeroAbove
    <3>4. QED
      BY <3>2, <3>3
  <2>2. QED
    BY <1>6, <2>1 DEF SizesInv, ZeroAbove
<1>13. QED
  BY <1>8, <1>9, <1>10, <1>11, <1>12 DEF NeverFails

\* A channel fails.
LEMMA FailKeeps ==
  ASSUME Typed, LoopInv, NEW c \in Channels, HwFail(c),
         UNCHANGED <<signal, pc, library, ring, counters, sizes, exit>>
  PROVE  LoopInv'
<1> USE DEF library, ring, counters, sizes, LoopInv, IsBusy, IsIdle
<1>1. /\ chan[c].state = "busy" /\ mem' = mem /\ stream' = stream
      /\ chan'[c].state = "halted"
      /\ \A d \in Channels : d # c => chan'[d] = chan[d]
  BY DEF HwFail, Typed, Connected
<1>2. CurSrc' = CurSrc /\ CurDst' = CurDst
  BY DEF CurSrc, CurDst
<1>3. PhaseInv'
  BY <1>1 DEF PhaseInv, Typed
<1>4. EngineInv'
  BY <1>1 DEF EngineInv, Channels
<1>5. PairInv'
  BY <1>1, <1>2 DEF PairInv, Prefix, ZeroAbove, Same, Channels
<1>6. RingInv' /\ SizesInv'
  BY <1>1, FilledKept DEF RingInv, SizesInv, ZeroAbove
<1>7. QED
  BY <1>3, <1>4, <1>5, <1>6 DEF NeverFails


\* The library starts a transfer when none is running and nothing has failed.
LEMMA StartKeeps ==
  ASSUME Typed, EngineInv, NEW src \in Buffers, NEW dst \in Buffers,
         NEW len \in Cells,
         \A c \in Channels : ~IsBusy(c) /\ "err" \notin chan[c].irq \union seen[c],
         stream = None,
         chan' = [chan EXCEPT !["rx"] = Started("rx", dst, len),
                              !["tx"] = Started("tx", src, len)],
         UNCHANGED <<stream, seen>>
  PROVE  /\ EngineInv'
         /\ \A c \in Channels : chan'[c].state = "busy" /\ chan'[c].len = len
         /\ chan'["tx"].buf = src /\ chan'["rx"].buf = dst
<1>1. \A c \in Channels :
        /\ chan'[c].state = "busy" /\ chan'[c].len = len
        /\ chan'[c].buf = IF c = "tx" THEN src ELSE dst
        /\ chan'[c].irq = chan[c].irq
  BY DEF Started, Refused, IsBusy, Typed, Connected, Channels
<1>2. QED
  BY <1>1 DEF EngineInv, IsIdle, Channels

\* The first test starts.
LEMMA TestStartKeeps ==
  ASSUME Typed, LoopInv, TestStart PROVE LoopInv'
<1> USE DEF ring, counters, sizes, LoopInv, IsBusy, IsIdle
<1>1. /\ pc = "test"
      /\ UNCHANGED <<mem, stream, seen, registered, ring, counters, sizes, exit>>
  BY DEF TestStart, SimpleTransfer
<1>2. /\ ~registered /\ stream = None
      /\ \A c \in Channels : ~IsBusy(c) /\ "err" \notin chan[c].irq \union seen[c]
  BY <1>1 DEF PhaseInv
<1>0. /\ pc' = "ready" /\ blocking' = TRUE
      /\ chan' = [chan EXCEPT !["rx"] = Started("rx", Dst, FirstBuffer),
                              !["tx"] = Started("tx", Src, FirstBuffer)]
  BY <1>2 DEF TestStart, SimpleTransfer, Refused, Typed, Connected
<1>3. CurSrc = Src /\ CurDst = Dst /\ CurSrc' = Src /\ CurDst' = Dst
  BY <1>1, <1>2 DEF CurSrc, CurDst
<1>4. /\ EngineInv'
      /\ \A c \in Channels : chan'[c].state = "busy" /\ chan'[c].len = FirstBuffer
      /\ chan'["tx"].buf = Src /\ chan'["rx"].buf = Dst
  BY <1>1, <1>2, <1>0, <1>3, StartKeeps, LevelsInBuffer DEF Typed
<1>5. PhaseInv'
  BY <1>1, <1>2, <1>0 DEF PhaseInv
<1>6. PairInv'
  BY <1>1, <1>2, <1>3, <1>4 DEF PairInv, Typed
<1>7. RingInv' /\ SizesInv'
  BY <1>1, <1>2, FilledKept DEF RingInv, SizesInv, ZeroAbove
<1>8. QED
  BY <1>1, <1>4, <1>5, <1>6, <1>7 DEF NeverFails

\* The first test is compared, and finds no difference.
LEMMA TestCompareKeeps ==
  ASSUME Typed, LoopInv, TestCompare PROVE LoopInv'
<1> USE DEF engine, ring, counters, sizes, LoopInv, IsBusy, IsIdle
<1>1. /\ pc = "compare" /\ pc' = "prefill" /\ registered' = TRUE
      /\ UNCHANGED <<engine, seen, blocking, ring, counters, sizes>>
      /\ exit' = IF Same(Src, Dst, FirstBuffer) THEN exit ELSE Exit(1)
  BY DEF TestCompare, PhaseInv
<1>2. ~registered /\ ~blocking /\ IsIdle("rx")
  BY <1>1 DEF PhaseInv
<1>3. IsIdle("tx") /\ Same(Src, Dst, FirstBuffer)
  BY <1>1, <1>2 DEF EngineInv, PairInv
<1>4. PhaseInv'
  BY <1>1, <1>2 DEF PhaseInv
<1>5. EngineInv'
  BY <1>1 DEF EngineInv
<1>6. PairInv'
  BY <1>1, <1>2, <1>3 DEF PairInv
<1>7. RingInv'
  BY <1>1, <1>2, FilledKept DEF RingInv
<1>8. SizesInv' /\ NeverFails'
  BY <1>1, <1>3 DEF SizesInv, ZeroAbove, NeverFails
<1>9. QED
  BY <1>4, <1>5, <1>6, <1>7, <1>8

\* A slot of the ring is filled, the one at the head.
LEMMA FillKeeps ==
  ASSUME Typed, LoopInv, FillTransfer PROVE LoopInv'
<1> USE DEF library, ring, counters, sizes, LoopInv, IsBusy, IsIdle
<1>1. /\ pc \in {"prefill", "fill"}
      /\ UNCHANGED <<chan, stream, library, tail, rx_counter, sizes, exit>>
      /\ IF RingFull
           THEN /\ pc' = IF pc = "prefill" THEN "queue" ELSE "ready"
                /\ UNCHANGED <<head, counter>>
           ELSE /\ head' = Following(head)
                /\ counter' = NumberAfter(counter)
                /\ pc' = pc
  BY DEF FillTransfer, NumberAfter
<1>2. registered /\ ~blocking
  BY <1>1 DEF PhaseInv
<1>3. TxBuf(head) \in Buffers /\ 0 \in Cells
  BY BufferNames, RingSteps, LevelsInBuffer DEF Typed
<1>4. /\ \A b \in Buffers : b # TxBuf(head) => mem'[b] = mem[b]
      /\ \A i \in Cells :
           mem'[TxBuf(head)][i] = IF i <= cur_access_size THEN counter
                                                        ELSE mem[TxBuf(head)][i]
  BY <1>3 DEF FillTransfer, Typed
<1>5. \A s \in RingSlots : s # head => mem'[TxBuf(s)] = mem[TxBuf(s)]
  BY <1>4, BufferNames, RingSteps
<1>6. mem'[TxBuf(head)][0] = counter
  BY <1>3, <1>4, SizeAssumption DEF Typed, Cells
<1>7. CurSrc = TxBuf(tail) /\ CurDst = RxBuf(tail) /\ CurSrc' = CurSrc /\ CurDst' = CurDst
  BY <1>1, <1>2 DEF CurSrc, CurDst
<1>8. mem'[CurDst] = mem[CurDst]
  BY <1>4, <1>7, BufferNames DEF Typed
<1>9. PhaseInv'
  BY <1>1, <1>2 DEF PhaseInv, Typed
<1>10. EngineInv'
  BY <1>1 DEF EngineInv
<1>11. ASSUME Filled0 PROVE RingInv' /\ PairInv'
  <2>1. pc = "prefill" /\ ~RingFull /\ head = tail
    BY <1>1, <1>2, <1>11, RingSteps DEF RingInv, Filled0, Filled1, Filled2, RingFull,
                                          Typed
  <2>2. Filled1'
    BY <1>1, <1>6, <1>11, <2>1 DEF Filled0, Filled1
  <2>3. IsIdle("rx") /\ IsIdle("tx")
    BY <2>1 DEF PhaseInv, EngineInv
  <2>4. RingInv' /\ PairInv'
    BY <1>1, <1>2, <2>1, <2>2, <2>3 DEF RingInv, PairInv
  <2>5. QED
    BY <2>4
<1>12. ASSUME Filled1 \/ Filled2 PROVE RingInv' /\ PairInv'
  <2>1. head # tail /\ mem'[CurSrc] = mem[CurSrc]
    BY <1>5, <1>7, <1>12, RingSteps DEF Filled1, Filled2, Typed
  <2>2. PairInv'
    BY <1>1, <1>2, <1>7, <1>8, <2>1 DEF PairInv, Prefix, ZeroAbove, PhaseInv
  <2>3. CASE Filled1
    <3>1. ~RingFull /\ head = Following(tail)
      BY <2>3, RingSteps DEF RingFull, Filled1, Typed
    <3>2. Filled2'
      BY <1>1, <1>6, <1>7, <2>1, <2>3, <3>1 DEF Filled1, Filled2
    <3>3. QED
      BY <1>1, <1>2, <2>2, <3>1, <3>2 DEF RingInv
  <2>4. CASE Filled2
    <3>1. RingFull /\ Following(tail) # head
      BY <2>4, RingSteps DEF RingFull, Filled2, Typed
    <3>2. Filled2'
      BY <1>1, <1>5, <1>7, <2>1, <2>4, <3>1, RingSteps DEF Filled2, Typed
    <3>3. QED
      BY <1>1, <1>2, <2>2, <3>1, <3>2 DEF RingInv
  <2>5. QED
    BY <1>12, <2>3, <2>4
<1>13. RingInv' /\ PairInv'
  BY <1>1, <1>2, <1>11, <1>12 DEF RingInv
<1>14. SizesInv'
  <2>1. ASSUME NEW i \in Cells, i > cur_buffer_size PROVE ~(i <= cur_access_size)
    BY <2>1, SizeAssumption DEF SizesInv, Typed, Cells
  <2>2. ASSUME NEW s \in RingSlots PROVE ZeroAbove(TxBuf(s), cur_buffer_size)'
    <3>1. CASE s = head
      BY <1>1, <1>4, <2>1, <3>1 DEF SizesInv, ZeroAbove
    <3>2. CASE s # head
      BY <1>1, <1>5, <3>2 DEF SizesInv, ZeroAbove
    <3>3. QED
      BY <3>1, <3>2
  <2>3. ASSUME NEW s \in RingSlots PROVE ZeroAbove(RxBuf(s), cur_buffer_size)'
    <3>1. mem'[RxBuf(s)] = mem[RxBuf(s)]
      BY <1>4, BufferNames, RingSteps
    <3>2. QED
      BY <1>1, <3>1 DEF SizesInv, ZeroAbove
  <2>4. QED
    BY <1>1, <2>2, <2>3 DEF SizesInv
<1>15. QED
  BY <1>1, <1>9, <1>10, <1>13, <1>14 DEF NeverFails

\* A transfer from the ring is started: the channels are free and its slot is
\* filled.
LEMMA QueueKeeps ==
  ASSUME Typed, EngineInv, SizesInv, NEW s \in RingSlots, s # head,
         IsIdle("rx"), Queue(s), UNCHANGED <<mem, stream, seen, sizes>>,
         registered', tail' = s
  PROVE  EngineInv' /\ PairInv' /\ ~QueueFails(s)
<1> USE DEF sizes, IsBusy, IsIdle
<1>1. /\ stream = None
      /\ \A c \in Channels : ~IsBusy(c) /\ "err" \notin chan[c].irq \union seen[c]
  BY DEF EngineInv, Channels
<1>2. /\ \A c \in Channels : ~Refused(c)
      /\ chan' = [chan EXCEPT !["rx"] = Started("rx", RxBuf(s), cur_buffer_size),
                              !["tx"] = Started("tx", TxBuf(s), cur_buffer_size)]
  BY <1>1 DEF Refused, Queue, Transfer
<1>3. TxBuf(s) \in Buffers /\ RxBuf(s) \in Buffers /\ cur_buffer_size \in Cells
  BY BufferNames, RingSteps DEF Typed
<1>4. /\ EngineInv'
      /\ \A c \in Channels : chan'[c].state = "busy" /\ chan'[c].len = cur_buffer_size
      /\ chan'["tx"].buf = TxBuf(s) /\ chan'["rx"].buf = RxBuf(s)
  BY <1>1, <1>2, <1>3, StartKeeps
<1>5. CurSrc' = TxBuf(s) /\ CurDst' = RxBuf(s)
  BY DEF CurSrc, CurDst
<1>6. ZeroAbove(TxBuf(s), cur_buffer_size)' /\ ZeroAbove(RxBuf(s), cur_buffer_size)'
  BY DEF SizesInv, ZeroAbove
<1>7. PairInv'
  BY <1>1, <1>3, <1>4, <1>5, <1>6, SizeAssumption DEF PairInv, Typed, Cells, ZeroAbove
<1>8. QED
  BY <1>2, <1>4, <1>7 DEF QueueFails


\* The first transfer from the ring.
LEMMA QueueFirstKeeps ==
  ASSUME Typed, LoopInv, QueueFirst PROVE LoopInv'
<1> USE DEF library, ring, counters, sizes, LoopInv
<1>1. /\ pc = "queue" /\ pc' = "ready" /\ Queue(tail)
      /\ exit' = IF QueueFails(tail) THEN Exit(1) ELSE exit
      /\ UNCHANGED <<mem, stream, library, ring, counters, sizes>>
  BY DEF QueueFirst
<1>2. registered /\ ~blocking /\ IsIdle("rx")
  BY <1>1 DEF PhaseInv
<1>3. Filled2 /\ tail # head
  BY <1>1, <1>2, RingSteps DEF RingInv, Filled2, Typed
<1>4. EngineInv' /\ PairInv' /\ ~QueueFails(tail)
  BY <1>1, <1>2, <1>3, QueueKeeps DEF Typed
<1>5. RingInv'
  BY <1>1, <1>2, <1>3, FilledKept DEF RingInv
<1>6. PhaseInv'
  BY <1>1, <1>2 DEF PhaseInv
<1>7. SizesInv' /\ NeverFails'
  BY <1>1, <1>4 DEF SizesInv, ZeroAbove, NeverFails
<1>8. QED
  BY <1>4, <1>5, <1>6, <1>7

\* A transfer is checked: it has the number that was expected in both buffers.
\* The next one is started.
LEMMA RxCompleteKeeps ==
  ASSUME Typed, LoopInv, HandleRxComplete PROVE LoopInv'
<1> USE DEF library, ring, counters, sizes, LoopInv
<1> DEFINE next == Following(tail)
<1>1. /\ pc = "rx_complete" /\ pc' = "fill" /\ IsIdle("rx")
      /\ UNCHANGED <<mem, stream, library, head, counter, sizes>>
  BY DEF HandleRxComplete, RxPending, Complete, IsIdle
<1>2. registered /\ ~blocking
  BY <1>1 DEF PhaseInv
<1>3. Filled2
  BY <1>1, <1>2 DEF RingInv
<1>4. ~Empty /\ next \in RingSlots /\ next # head
  BY <1>3, RingSteps DEF Filled2, Empty, Typed
<1>5. /\ Same(TxBuf(tail), RxBuf(tail), cur_access_size)
      /\ mem[TxBuf(tail)][0] = rx_counter
  BY <1>1, <1>2, <1>3 DEF PairInv, CurSrc, CurDst, Same, Filled2
<1>6. /\ rx_counter' = NumberAfter(rx_counter)
      /\ tail' = next /\ Queue(next)
      /\ exit' = IF ~QueueFails(next) THEN exit ELSE Exit(1)
  BY <1>4, <1>5 DEF HandleRxComplete, NumberAfter
<1>7. EngineInv' /\ PairInv' /\ ~QueueFails(next)
  BY <1>1, <1>2, <1>4, <1>6, QueueKeeps
<1>8. Filled1'
  BY <1>1, <1>3, <1>6 DEF Filled1, Filled2
<1>9. RingInv'
  BY <1>1, <1>2, <1>8 DEF RingInv
<1>10. PhaseInv'
  BY <1>1, <1>2 DEF PhaseInv
<1>11. SizesInv' /\ NeverFails'
  BY <1>1, <1>6, <1>7 DEF SizesInv, ZeroAbove, NeverFails
<1>12. QED
  BY <1>7, <1>9, <1>10, <1>11

\* The status is acknowledged, or the engine is reset after an error.
LEMMA AcknowledgeKeeps ==
  ASSUME Typed, LoopInv, Acknowledge, UNCHANGED <<ring, counters, sizes, exit>>
  PROVE  LoopInv'
<1> USE DEF ring, counters, sizes, LoopInv, IsBusy, IsIdle
<1>1. /\ pc = "acknowledge" /\ pc' \in {"rx_complete", Return}
      /\ pc' = "rx_complete" => registered
      /\ UNCHANGED <<mem, blocking, registered>>
      /\ \A c \in Channels : seen'[c] = {}
  BY DEF Acknowledge, Return
<1>2. CurSrc' = CurSrc /\ CurDst' = CurDst
  BY <1>1 DEF CurSrc, CurDst
<1>3. /\ blocking <=> ~registered
      /\ pc' = "check" => ~registered
      /\ pc' \in {"rx_complete", "check", "ready"}
  BY <1>1 DEF PhaseInv, Return
<1>4. PhaseInv'
  BY <1>1, <1>3 DEF PhaseInv
<1>5. RingInv' /\ SizesInv' /\ NeverFails'
  BY <1>1, <1>3, FilledKept DEF RingInv, SizesInv, ZeroAbove, NeverFails
<1>6. CASE \E c \in Channels : "err" \in seen[c]
  <2>1. /\ \A c \in Channels : chan'[c].state = "halted" /\ chan'[c].irq = {}
        /\ stream' = None
    BY <1>6 DEF Acknowledge
  <2>2. EngineInv' /\ PairInv'
    BY <1>1, <2>1 DEF EngineInv, PairInv, Typed
  <2>3. QED
    BY <1>4, <1>5, <2>2
<1>7. CASE ~(\E c \in Channels : "err" \in seen[c])
  <2>1. /\ \A c \in Channels :
             /\ chan'[c].state = chan[c].state /\ chan'[c].buf = chan[c].buf
             /\ chan'[c].len = chan[c].len /\ chan'[c].irq \subseteq chan[c].irq
        /\ stream' = stream
    BY <1>7 DEF Acknowledge, Typed, Connected
  <2>2. EngineInv'
    BY <1>1, <2>1 DEF EngineInv, Channels
  <2>3. PairInv'
    BY <1>1, <1>2, <1>3, <2>1
    DEF PairInv, Prefix, ZeroAbove, Same, Typed
  <2>4. QED
    BY <1>4, <1>5, <2>2, <2>3
<1>8. QED
  BY <1>6, <1>7

\* The timer changes the sizes; those of the transfers never shrink.
LEMMA TimeoutKeeps ==
  ASSUME Typed, TypeOK, LoopInv, HandleTimeout PROVE LoopInv'
<1> USE DEF engine, library, ring, counters, LoopInv, IsBusy, IsIdle
<1>1. /\ pc = "ready" /\ registered
      /\ UNCHANGED <<engine, pc, library, ring, counters>>
  BY DEF HandleTimeout
<1>2. /\ cur_access_size \in Nat /\ cur_buffer_size \in Nat
      /\ cur_buffer_size <= LastBuffer /\ LastBuffer \in Nat
      /\ LastBuffer <= Size /\ Size \in Nat
      /\ cur_access_size <= cur_buffer_size
  BY LevelsAssumption, SizeAssumption DEF TypeOK, SizesInv, Typed, Cells
<1>3. /\ cur_access_size' <= cur_buffer_size'
      /\ cur_buffer_size <= cur_buffer_size' /\ cur_buffer_size' \in Nat
  BY <1>2 DEF HandleTimeout
<1>4. exit' = exit \/ exit' = 0
  BY DEF HandleTimeout
<1>5. CurSrc' = CurSrc /\ CurDst' = CurDst
  BY <1>1 DEF CurSrc, CurDst
<1>6. PhaseInv' /\ EngineInv'
  BY <1>1 DEF PhaseInv, EngineInv
<1>7. PairInv'
  <2>1. chan["rx"].len \in Nat
    BY SizeAssumption DEF Typed, Connected, Cells
  <2>2. chan["rx"].len <= cur_buffer_size => chan["rx"].len <= cur_buffer_size'
    BY <1>2, <1>3, <2>1
  <2>3. QED
    BY <1>1, <1>5, <2>2 DEF PairInv, Prefix, ZeroAbove, Same
<1>8. RingInv'
  BY <1>1, FilledKept DEF RingInv
<1>9. SizesInv'
  <2>1. \A i \in Cells : i > cur_buffer_size' => i > cur_buffer_size
    BY <1>2, <1>3 DEF Cells
  <2>2. QED
    BY <1>1, <1>3, <2>1 DEF SizesInv, ZeroAbove
<1>10. NeverFails'
  BY <1>4 DEF NeverFails
<1>11. QED
  BY <1>6, <1>7, <1>8, <1>9, <1>10

\* The thread waits, reads the status or returns, or an interrupt arrives.
LEMMA QuietKeeps ==
  ASSUME Typed, LoopInv,
         \/ TestWait
         \/ ReturnEarly
         \/ HandleIrq /\ UNCHANGED <<ring, counters, sizes, exit>>
         \/ ReadRxStatus /\ UNCHANGED <<ring, counters, sizes, exit>>
         \/ HwInterrupt /\ UNCHANGED <<engine, pc, library, ring, counters,
                                       sizes, exit>>
         \/ UNCHANGED vars
  PROVE  LoopInv'
<1> USE DEF engine, library, ring, counters, sizes, LoopInv, IsBusy, IsIdle
<1>1. CASE TestWait
  <2>1. /\ pc = "check" /\ pc' \in {"ready", "compare"}
        /\ pc' = "compare" => IsIdle("rx") /\ blocking' = FALSE
        /\ pc' = "ready" => blocking' = TRUE
        /\ UNCHANGED <<engine, seen, registered, ring, counters, sizes, exit>>
    BY <1>1 DEF TestWait, CheckComplete, Complete, EngineInv, Typed
  <2>2. ~registered
    BY <2>1 DEF PhaseInv
  <2>3. PhaseInv'
    BY <2>1, <2>2 DEF PhaseInv
  <2>4. EngineInv'
    BY <2>1 DEF EngineInv
  <2>5. QED
    BY <2>1, <2>3, <2>4, ReadingKeeps
<1>2. CASE ReturnEarly
  <2>1. /\ pc = "rx_complete" /\ pc' = "ready"
        /\ UNCHANGED <<engine, library, ring, counters, sizes, exit>>
    BY <1>2 DEF ReturnEarly
  <2>2. PhaseInv' /\ EngineInv'
    BY <2>1 DEF PhaseInv, EngineInv
  <2>3. QED
    BY <2>1, <2>2, ReadingKeeps
<1>3. CASE HandleIrq /\ UNCHANGED <<ring, counters, sizes, exit>>
  <2>1. /\ pc = "ready" /\ pc' = "read_rx"
        /\ seen' = [seen EXCEPT !["tx"] = chan["tx"].irq]
        /\ UNCHANGED <<engine, blocking, registered, ring, counters, sizes, exit>>
    BY <1>3 DEF HandleIrq
  <2>2. PhaseInv'
    BY <2>1 DEF PhaseInv
  <2>3. EngineInv'
    BY <2>1 DEF EngineInv, Typed
  <2>4. QED
    BY <2>1, <2>2, <2>3, ReadingKeeps
<1>4. CASE ReadRxStatus /\ UNCHANGED <<ring, counters, sizes, exit>>
  <2>1. /\ pc = "read_rx" /\ pc' = "acknowledge"
        /\ seen' = [seen EXCEPT !["rx"] = chan["rx"].irq]
        /\ UNCHANGED <<engine, blocking, registered, ring, counters, sizes, exit>>
    BY <1>4 DEF ReadRxStatus
  <2>2. PhaseInv'
    BY <2>1 DEF PhaseInv
  <2>3. EngineInv'
    BY <2>1 DEF EngineInv, Typed
  <2>4. QED
    BY <2>1, <2>2, <2>3, ReadingKeeps
<1>5. ASSUME UNCHANGED <<engine, pc, library, ring, counters, sizes, exit>>
      PROVE  LoopInv'
  <2>1. CurSrc' = CurSrc /\ CurDst' = CurDst
    BY <1>5 DEF CurSrc, CurDst
  <2>2. PhaseInv' /\ EngineInv'
    BY <1>5 DEF PhaseInv, EngineInv
  <2>3. PairInv' /\ SizesInv' /\ NeverFails'
    BY <1>5, <2>1 DEF PairInv, Prefix, ZeroAbove, Same, SizesInv, NeverFails
  <2>4. RingInv'
    BY <1>5, FilledKept DEF RingInv
  <2>5. QED
    BY <2>2, <2>3, <2>4
<1>6. QED
  BY <1>1, <1>2, <1>3, <1>4, <1>5 DEF vars

-----------------------------------------------------------------------------
(* The theorems. *)

\* Where the thread, the engine, the buffers and the ring are in relation to
\* each other, at every step of any of them.
THEOREM LoopKept == Spec => []LoopInv
<1>1. Init => LoopInv
  <2> SUFFICES ASSUME Init PROVE LoopInv
    OBVIOUS
  <2>1. PhaseInv /\ EngineInv
    BY DEF Init, AxiDmaInit, PhaseInv, EngineInv, IsIdle, Channels
  <2>2. PairInv /\ RingInv /\ NeverFails
    BY DEF Init, AxiDmaInit, PairInv, RingInv, Filled0, IsBusy, IsIdle, Channels,
           NeverFails
  <2>3. ASSUME NEW s \in RingSlots, NEW i \in Cells
        PROVE  mem[TxBuf(s)][i] = 0 /\ mem[RxBuf(s)][i] = 0
    <3>1. /\ TxBuf(s) \in Buffers /\ RxBuf(s) \in Buffers
          /\ TxBuf(s) # Src /\ RxBuf(s) # Src
      BY BufferNames, RingSteps DEF Src
    <3>2. QED
      BY <3>1 DEF Init
  <2>4. cur_access_size <= cur_buffer_size
    BY LevelsAssumption, SizeAssumption DEF Init
  <2>5. QED
    BY <2>1, <2>2, <2>3, <2>4 DEF LoopInv, SizesInv, ZeroAbove
<1>2. TypeOK /\ BusyHasBuffer /\ LoopInv /\ [Next]_vars => LoopInv'
  <2> SUFFICES ASSUME TypeOK, Typed, LoopInv, [Next]_vars PROVE LoopInv'
    BY TypedInPlace
  <2>1. CASE Hardware /\ UNCHANGED <<pc, library, ring, counters, sizes, exit>>
    BY <2>1, SendKeeps, ReceiveKeeps, FailKeeps, QuietKeeps DEF Hardware, Engine
  <2>2. CASE App
    BY <2>2, TestStartKeeps, TestCompareKeeps, FillKeeps, QueueFirstKeeps,
       RxCompleteKeeps, QuietKeeps DEF App
  <2>3. CASE Library /\ UNCHANGED <<ring, counters, sizes, exit>>
    BY <2>3, AcknowledgeKeeps, QuietKeeps DEF Library
  <2>4. CASE HandleTimeout
    BY <2>4, TimeoutKeeps
  <2>5. CASE UNCHANGED vars
    BY <2>5, QuietKeeps
  <2>6. QED
    BY <2>1, <2>2, <2>3, <2>4, <2>5 DEF Next, Thread
<1>3. QED
  BY <1>1, <1>2, Typing, PTL DEF Spec

\* The program never reports a failure, for any sizes, numbers and DMA errors:
\* what comes back is what was sent, in order, and the engine is free when the
\* next transfer is started.
THEOREM LoopNeverFails == Spec => []NeverFails
  BY LoopKept, PTL DEF LoopInv

\* While the tx channel reads a buffer, neither fill_transfers nor the rx
\* channel writes it.
THEOREM SourcesStable == Spec => SourceStable
<1> DEFINE Stable == chan["tx"].state = "busy"
                       => mem'[chan["tx"].buf] = mem[chan["tx"].buf]
<1>1. TypeOK /\ BusyHasBuffer /\ LoopInv /\ [Next]_vars => [Stable]_vars
  <2> SUFFICES ASSUME Typed, LoopInv, Next, chan["tx"].state = "busy"
               PROVE  mem'[chan["tx"].buf] = mem[chan["tx"].buf]
    BY TypedInPlace
  <2>1. chan["tx"].buf = CurSrc /\ stream = None /\ ~IsIdle("rx")
    BY DEF LoopInv, PairInv, EngineInv, IsBusy, IsIdle
  <2>2. CASE FillTransfer
    <3>1. registered /\ pc = "fill"
      BY <2>1, <2>2 DEF FillTransfer, LoopInv, PhaseInv
    <3>2. CurSrc = TxBuf(tail) /\ tail # head
      BY <3>1, RingSteps DEF LoopInv, RingInv, Filled1, Filled2, CurSrc, Typed
    <3>3. CurSrc # TxBuf(head)
      BY <3>2, BufferNames
    <3>4. QED
      BY <2>1, <2>2, <3>3 DEF FillTransfer, Typed
  <2>3. CASE ~FillTransfer
    <3>1. mem' = mem
      BY <2>1, <2>3
      DEF Next, Hardware, Engine, HwSend, HwReceive, HwFail, HwInterrupt, Thread,
          App, TestStart, SimpleTransfer, TestWait, CheckComplete, TestCompare,
          QueueFirst, ReturnEarly, HandleRxComplete, Library, HandleIrq,
          ReadRxStatus, Acknowledge, HandleTimeout, engine
    <3>2. QED
      BY <3>1
  <2>4. QED
    BY <2>2, <2>3
<1>2. Spec => [][Stable]_vars
  BY <1>1, Typing, LoopKept, PTL DEF Spec
<1>3. QED
  BY <1>2 DEF SourceStable
=============================================================================
