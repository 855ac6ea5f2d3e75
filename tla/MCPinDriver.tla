---------------------------- MODULE MCPinDriver ----------------------------
(* The pin driver for TLC: either its declarations and sessions change, for  *)
(* two names, two pins, two clients that control pins and one that waits for *)
(* the interrupt of the first; or they rest and one of the programs of the   *)
(* GPIO demo uses the interrupts of its pins.                                *)
EXTENDS PinDriver, TLC

CONSTANTS led, button, p1, p2, c1, c2, i1,
          sw0, sw1, rgb0, on, off

Node(p, function, onDemand, level) ==
  [id |-> p, function |-> function, onDemand |-> onDemand, level |-> level]

Out(p) == {Node(p, "out", TRUE, FALSE), Node(p, "out", FALSE, FALSE),
           Node(p, "out", FALSE, TRUE)}
In(p) == {Node(p, "in", FALSE, FALSE), Node(p, "irq", FALSE, FALSE),
          Node(p, "select", FALSE, FALSE)}

Policies == {[c \in {c1, c2, i1} |->
                CASE c = c1 -> n [] c = i1 -> m [] OTHER -> led] :
               n \in {led, button}, m \in {led, button}}

Config(first, second) ==
  {[pins |-> [n \in {led, button} |-> IF n = led THEN a ELSE b], policy |-> choice] :
     a \in first, b \in second, choice \in Policies}

\* Each name stays with its pin.  The first changes between input and output,
\* the second may be malformed.
Settled == Config({None} \union Out(p1) \union In(p1),
                  {None, Node(None, "in", FALSE, FALSE),
                   Node(None, "out", FALSE, FALSE)} \union Out(p2))

ASSUME SettledNames == NamesStay

-----------------------------------------------------------------------------
VARIABLES level, status, enabled, irq, signalled, running, rpcs, fresh, leds, state

demo == <<level, status, enabled, irq, signalled, running, rpcs, fresh, leds, state>>

\* The switches and the button share a bank, as on the board.
IrqPins == {sw0, sw1, rgb0, on, off}
MCBank == [p \in IrqPins |-> IF p \in {on, off} THEN 1 ELSE 2]
MCTrigger == [p \in IrqPins |-> IF p \in {on, off} THEN "rising" ELSE "edges"]
MCPinsOf == "sw" :> <<sw0, sw1>> @@ "rgb" :> <<rgb0>> @@ "mio" :> <<on, off>>

Demo == INSTANCE GpioDemo
          WITH Pins <- IrqPins, Bank <- MCBank, Trigger <- MCTrigger,
               PinsOf <- MCPinsOf,
               Started <- {{}, {"sw"}, {"rgb"}, {"mio"}},
               todo <- rpcs, led <- leds

\* The trigger that configure sets up is the one the README promises, for any
\* former contents of the registers.
ASSUME ConfigureDetects ==
  \A trigger \in {"rising", "falling", "high", "low", "edges"},
     left \in [type : {"level", "edge"}, pol : 0..1, any : 0..1],
     old, new \in BOOLEAN :
    Demo!Detects(Demo!Configure(left, trigger), old, new)
      <=> Demo!Promised(trigger, old, new)

AllInit ==
  /\ Init /\ Demo!DemoInit
  /\ running # {} => policy = [c \in Clients |-> led]

Declarations == running = {} /\ Next /\ UNCHANGED demo

Interrupts == running # {} /\ Demo!DemoNext /\ UNCHANGED vars

AllNext == Declarations \/ Interrupts

AllSpec == AllInit /\ [][AllNext]_<<vars, demo>> /\ Demo!DemoFairness

\* GpioDemo: the LEDs show the switches when these have come to rest.
LedsFollow == Demo!LedsFollow

\* GpioDemo: a button that is pressed and held turns the state on for good.
ButtonHeld == Demo!ButtonHeld
=============================================================================
