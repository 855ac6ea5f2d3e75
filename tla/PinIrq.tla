------------------------------- MODULE PinIrq -------------------------------
(***************************************************************************)
(* The interrupts of the pin driver (src/drivers/pin): the GPIO controller *)
(* latches what it detects at its pins in a status register per bank, the  *)
(* driver delivers it to the IRQ sessions, and a session's client          *)
(* acknowledges it.  Declarations and sessions do not change meanwhile,    *)
(* see PinDriver for that.                                                 *)
(*                                                                         *)
(* External: the pins, the GPIO and interrupt controllers, and the session *)
(* objects, which mask an interrupt when they signal it and unmask it when *)
(* it is acknowledged.                                                     *)
(***************************************************************************)
EXTENDS Naturals

CONSTANTS Pins,      \* pins declared with the attribute irq
          Bank,      \* the bank of each pin
          Trigger    \* the trigger of each pin: "rising", "falling", "high",
                     \* "low", "edges"

VARIABLES
  level,        \* pins that are high
  status,       \* Irqstat: pins whose interrupt is pending
  enabled,      \* pins whose interrupt is not masked
  irq,          \* the driver's interrupt: "armed", or "raised" and masked
                \* until the driver has handled it
  signalled     \* pins whose IRQ session has a signal for its client

vars == <<level, status, enabled, irq, signalled>>

\* The registers of a pin, whose former contents are left over.
Reset == [type |-> "edge", pol |-> 0, any |-> 0]

\* Io_bank_ctrl::configure
Configure(left, trigger) ==
  CASE trigger = "rising"  -> [type |-> "edge",  pol |-> 1, any |-> 0]
    [] trigger = "falling" -> [type |-> "edge",  pol |-> 0, any |-> 0]
    [] trigger = "high"    -> [type |-> "level", pol |-> 1, any |-> 0]
    [] trigger = "low"     -> [type |-> "level", pol |-> 0, any |-> 0]
    [] trigger = "edges"   -> [left EXCEPT !.type = "edge", !.any = 1]

\* External: what the controller detects when a pin goes from old to new.
Detects(regs, old, new) ==
  IF regs.type = "level" THEN new = (regs.pol = 1)
  ELSE old # new /\ (regs.any = 1 \/ new = (regs.pol = 1))

\* The README of the driver on the attribute irq.
Promised(trigger, old, new) ==
  \/ trigger = "high" /\ new
  \/ trigger = "low" /\ ~new
  \/ trigger \in {"rising", "edges"} /\ ~old /\ new
  \/ trigger \in {"falling", "edges"} /\ old /\ ~new

Detected(p, old, new) ==
  Detects(Configure(Reset, Trigger[p]), p \in old, p \in new)

Init ==
  /\ level \in SUBSET Pins
  /\ status = {p \in Pins : Detected(p, level, level)} /\ enabled = {}
  /\ irq = "armed" /\ signalled = {}

\* External.
SetLevel(p, high) ==
  /\ (p \in level) # high
  /\ level' = IF high THEN level \union {p} ELSE level \ {p}
  /\ status' = status \union {q \in Pins : Detected(q, level, level')}
  /\ UNCHANGED <<enabled, irq, signalled>>

\* External: the interrupt line of the controller is level-triggered.
Interrupt ==
  /\ irq = "armed" /\ status \intersect enabled # {}
  /\ irq' = "raised"
  /\ UNCHANGED <<level, status, enabled, signalled>>

\* Mutant: the interrupt is never unmasked.
HandleIrqOnce ==
  /\ irq = "raised"
  /\ signalled' = signalled \union (status \intersect enabled)
  /\ enabled' = enabled \ status
  /\ irq' = "masked"
  /\ UNCHANGED <<level, status>>

\* Irq_handler::_handle_irq: deliver_pin_irqs signals and masks what is
\* pending now, which may be nothing.
HandleIrq ==
  /\ irq = "raised"
  /\ signalled' = signalled \union (status \intersect enabled)
  /\ enabled' = enabled \ status
  /\ irq' = "armed"
  /\ UNCHANGED <<level, status>>

\* ack_irq and irq_enabled for a session's client.  Irqstat is cleared by
\* writing ones, but a write to a single item of a Register_array reads the
\* register and writes back the other items: it clears the whole bank.  What
\* is still detected is latched again.
AckIrq(p) ==
  /\ status' = {q \in status : Bank[q] # Bank[p]}
                 \union {q \in Pins : Detected(q, level, level)}
  /\ enabled' = enabled \union {p}
  /\ UNCHANGED <<level, irq>>

Driver == Interrupt \/ HandleIrq
=============================================================================
