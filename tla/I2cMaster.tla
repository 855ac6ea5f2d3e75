------------------------------ MODULE I2cMaster ------------------------------
(***************************************************************************)
(* The master of include/drivers/i2c.h, which polls the registers of the   *)
(* Cadence I2C controller: write_bytes with its refills of the FIFO, and   *)
(* read_bytes of one byte.  One call runs at a time; the controller goes   *)
(* on between any two register accesses.                                   *)
(*                                                                         *)
(* The controller is external.  It raises COMP when it has sent all that   *)
(* is in the FIFO, also if the bus is held: write_bytes with hold waits    *)
(* for nothing else.  Clearing the FIFO ends what it is doing.  A byte is  *)
(* named by its position in the message.                                   *)
(***************************************************************************)
EXTENDS Integers, Sequences, FiniteSets

CONSTANTS Depth,      \* I2C_FIFO_DEPTH
          MaxCount    \* longest message (bound)

ASSUME DepthAssumption == Depth \in Nat \ {0}
ASSUME MaxCountAssumption == MaxCount \in Nat /\ MaxCount > Depth

VARIABLES
  at,             \* next step of the driver
  rw,             \* Control.RW
  byteCount, hold,     \* arguments of the call
  sendByteCount,
  numBytesToSend,      \* local of _transmitFifoFill
  intrStatusReg,
  result,              \* what the last call returned
  HOLD,           \* Control.HOLD
  fifo,           \* the FIFO, whose length is Transfer_size when sending
  isr,            \* Interrupt_status
  busy,           \* the controller is sending or waiting for a byte
  wire            \* bytes of the message the slave has acknowledged (history)

call == <<rw, byteCount, hold>>
locals == <<sendByteCount, numBytesToSend, intrStatusReg, result>>
controller == <<HOLD, fifo, isr, busy, wire>>
i2cVars == <<at, call, locals, controller>>

Bits == {"COMP", "ARB_LOST", "NACK", "OVF"}

\* intrs in either function.
Errors == Bits \ {"COMP"}

I2cInit ==
  /\ at = "idle" /\ rw = "SENDING" /\ byteCount = 0 /\ hold = FALSE
  /\ sendByteCount = 0 /\ numBytesToSend = 0 /\ intrStatusReg = {}
  /\ result = 0
  /\ HOLD = FALSE /\ fifo = <<>> /\ isr = {} /\ busy = FALSE /\ wire = <<>>

-----------------------------------------------------------------------------
(* The controller (external). *)

HwSend ==
  /\ busy /\ rw = "SENDING" /\ fifo # <<>>
  /\ wire' = Append(wire, Head(fifo))
  /\ fifo' = Tail(fifo)
  /\ isr' = IF fifo' = <<>> THEN isr \union {"COMP"} ELSE isr
  /\ busy' = (HOLD \/ fifo' # <<>>)
  /\ UNCHANGED <<at, call, locals, HOLD>>

HwReceive ==
  /\ busy /\ rw = "RECEIVING" /\ fifo = <<>>
  /\ fifo' = <<1>>
  /\ isr' = isr \union {"COMP"}
  /\ busy' = FALSE
  /\ UNCHANGED <<at, call, locals, HOLD, wire>>

\* A byte or the address is not acknowledged, or another master has the bus.
HwError(e) ==
  /\ busy /\ (rw = "SENDING" => fifo # <<>>)
  /\ isr' = isr \union {e}
  /\ fifo' = IF fifo = <<>> THEN fifo ELSE Tail(fifo)
  /\ busy' = FALSE
  /\ UNCHANGED <<at, call, locals, HOLD, wire>>

-----------------------------------------------------------------------------
(* What both functions begin with. *)

Call(direction, n, h) ==
  /\ at = "idle" /\ at' = "set_direction"
  /\ byteCount' = n /\ hold' = h
  /\ HOLD' = (HOLD \/ n > Depth \/ h)
  /\ rw' = direction
  /\ sendByteCount' = n
  /\ UNCHANGED <<numBytesToSend, intrStatusReg, result, fifo, isr, busy, wire>>

WriteBytes(n, h) == Call("SENDING", n, h)
ReadBytes == Call("RECEIVING", 1, FALSE)

SetDirection ==
  /\ at = "set_direction" /\ at' = "read_status"
  /\ fifo' = <<>> /\ busy' = FALSE /\ wire' = <<>>
  /\ UNCHANGED <<call, locals, HOLD, isr>>

ReadStatus ==
  /\ at = "read_status" /\ at' = "clear_status"
  /\ intrStatusReg' = isr
  /\ UNCHANGED <<call, sendByteCount, numBytesToSend, result, controller>>

ClearStatus ==
  /\ at = "clear_status"
  /\ isr' = isr \ intrStatusReg
  /\ at' = IF rw = "SENDING" THEN "fill_size" ELSE "address"
  /\ UNCHANGED <<call, locals, HOLD, fifo, busy, wire>>

\* Writing the address starts a transfer.
SetAddress ==
  /\ at = "address" /\ at' = "look"
  /\ busy' = TRUE
  /\ UNCHANGED <<call, locals, HOLD, fifo, isr, wire>>

\* Both functions read Interrupt_status then.
Look ==
  /\ at = "look"
  /\ intrStatusReg' = isr
  /\ at' = IF rw = "SENDING" THEN "send" ELSE "receive"
  /\ UNCHANGED <<call, sendByteCount, numBytesToSend, result, controller>>

Return(r) == at' = "idle" /\ result' = r

-----------------------------------------------------------------------------
(* _transmitFifoFill *)

Fitting(bytes, room) == IF bytes > room THEN room ELSE bytes

Available == Depth - Len(fifo)

FillSize ==
  /\ at \in {"fill_size", "refill_size"}
  /\ numBytesToSend' = Fitting(sendByteCount, Available)
  /\ at' = IF at = "fill_size" THEN "fill" ELSE "refill"
  /\ UNCHANGED <<call, sendByteCount, intrStatusReg, result, controller>>

\* A byte that does not fit is lost.
FillByte ==
  /\ at \in {"fill", "refill"} /\ numBytesToSend > 0
  /\ IF Len(fifo) < Depth
       THEN /\ fifo' = Append(fifo, byteCount - sendByteCount + 1)
            /\ UNCHANGED isr
       ELSE isr' = isr \union {"OVF"} /\ UNCHANGED fifo
  /\ sendByteCount' = sendByteCount - 1
  /\ numBytesToSend' = numBytesToSend - 1
  /\ UNCHANGED <<at, call, intrStatusReg, result, HOLD, busy, wire>>

FillDone ==
  /\ at \in {"fill", "refill"} /\ numBytesToSend = 0
  /\ at' = IF at = "fill" THEN "address" ELSE "send"
  /\ UNCHANGED <<call, locals, controller>>

-----------------------------------------------------------------------------
(* The two loops of write_bytes. *)

Sending == sendByteCount > 0 /\ intrStatusReg \intersect Errors = {}

\* Mutant: the errors are not looked for while the FIFO is being sent.
SendWaitsForFifo ==
  /\ at = "send" /\ Sending
  /\ fifo = <<>> /\ at' = "refill_size"
  /\ UNCHANGED <<call, locals, controller>>

\* TXDV: wait until the FIFO is empty, with a look at the errors.
Send ==
  /\ at = "send" /\ Sending
  /\ at' = IF fifo # <<>> THEN "look" ELSE "refill_size"
  /\ UNCHANGED <<call, locals, controller>>

SendDone ==
  /\ at = "send" /\ ~Sending /\ at' = "complete"
  /\ UNCHANGED <<call, locals, controller>>

\* Mutant: the errors are not looked at.
CompleteIgnoresErrors ==
  /\ at = "complete" /\ isr # {}
  /\ intrStatusReg' = isr
  /\ at' = "release"
  /\ UNCHANGED <<call, sendByteCount, numBytesToSend, result, controller>>

Complete ==
  /\ at = "complete" /\ "COMP" \notin intrStatusReg
  /\ intrStatusReg' = isr
  /\ IF isr \intersect Errors # {} THEN Return(1) ELSE UNCHANGED <<at, result>>
  /\ UNCHANGED <<call, sendByteCount, numBytesToSend, controller>>

Completed ==
  /\ at = "complete" /\ "COMP" \in intrStatusReg
  /\ at' = "release"
  /\ UNCHANGED <<call, locals, controller>>

\* A held bus is released with the last byte.
ReleaseBus ==
  /\ at = "release"
  /\ HOLD' = (HOLD /\ hold)
  /\ busy' = (busy /\ (hold \/ fifo # <<>>))
  /\ Return(0)
  /\ UNCHANGED <<call, sendByteCount, numBytesToSend, intrStatusReg, fifo, isr, wire>>

-----------------------------------------------------------------------------
(* The rest of read_bytes, which does not look at Interrupt_status again.   *)

ReceiveFails ==
  /\ at = "receive" /\ intrStatusReg \intersect Errors # {}
  /\ Return(1)
  /\ UNCHANGED <<call, sendByteCount, numBytesToSend, intrStatusReg, controller>>

Receive ==
  /\ at = "receive" /\ intrStatusReg \intersect Errors = {}
  /\ fifo # <<>> /\ fifo' = <<>>
  /\ at' = "received"
  /\ UNCHANGED <<call, locals, HOLD, isr, busy, wire>>

Received ==
  /\ at = "received" /\ "COMP" \in isr
  /\ Return(0)
  /\ UNCHANGED <<call, sendByteCount, numBytesToSend, intrStatusReg, controller>>

-----------------------------------------------------------------------------
Bus == HwSend \/ HwReceive
Controller == Bus \/ \E e \in {"NACK", "ARB_LOST"} : HwError(e)

Caller == \/ \E n \in 1..MaxCount, h \in BOOLEAN : WriteBytes(n, h)
          \/ ReadBytes

Master == \/ SetDirection \/ ReadStatus \/ ClearStatus \/ SetAddress \/ Look
          \/ FillSize \/ FillByte \/ FillDone
          \/ Send \/ SendDone \/ Complete \/ Completed \/ ReleaseBus
          \/ ReceiveFails \/ Receive \/ Received

I2cNext == Controller \/ Caller \/ Master

\* The bus and the driver go on.
Fairness == WF_i2cVars(Bus) /\ WF_i2cVars(Master)

I2cSpec == I2cInit /\ [][I2cNext]_i2cVars /\ Fairness

-----------------------------------------------------------------------------
(* Properties. *)

\* The variables have the types of what they model, and the FIFO is never
\* overfilled.
I2cTypeOK ==
  /\ at \in {"idle", "set_direction", "read_status", "clear_status",
             "fill_size", "refill_size", "fill", "refill", "address", "look",
             "send", "complete", "release", "receive", "received"}
  /\ rw \in {"SENDING", "RECEIVING"}
  /\ byteCount \in 0..MaxCount /\ sendByteCount \in 0..byteCount
  /\ numBytesToSend \in 0..MaxCount
  /\ hold \in BOOLEAN /\ HOLD \in BOOLEAN /\ busy \in BOOLEAN
  /\ intrStatusReg \subseteq Bits /\ isr \subseteq Bits \ {"OVF"}
  /\ result \in 0..1
  /\ wire \in Seq(1..MaxCount)
  /\ fifo \in Seq(1..MaxCount) /\ Len(fifo) <= Depth

\* What the slave acknowledges is the message from its beginning, without a
\* gap, over any number of refills.  When write_bytes returns 0 for a message
\* that fits the FIFO, the slave has acknowledged all of it.
AllSent ==
  /\ \A i \in 1..Len(wire) : wire[i] = i
  /\ at = "idle" /\ rw = "SENDING" /\ result = 0 /\ byteCount <= Depth
       => Len(wire) = byteCount

\* Every call returns, although the bus may be lost or a byte refused at any
\* moment, but for a read that fails after its only look at the errors.
CallsEnd ==
  at # "idle" ~> \/ at = "idle"
                 \/ rw = "RECEIVING" /\ isr \intersect Errors # {}
=============================================================================
