------------------------------ MODULE GpioDemo ------------------------------
(***************************************************************************)
(* The programs of the GPIO demo (src/app/zybo_gpio_demo) as clients of    *)
(* the pin driver's interrupts: "sw" shows its switches by LEDs, "mio"     *)
(* turns a state on by one button and off by the other, "rgb", which the   *)
(* driver manager may have started, steps a colour at each button press.   *)
(* A program's handler acknowledges the interrupts of all its pins, one    *)
(* RPC each, and reads the pins then, one RPC each.                        *)
(***************************************************************************)
EXTENDS PinIrq, Sequences, Functions

CONSTANTS PinsOf,    \* the pins of each program, a sequence
          Started    \* the sets of programs that may run together

Programs == DOMAIN PinsOf

VARIABLES
  running,   \* the programs that have been started
  todo,      \* RPCs a program has yet to make
  fresh,     \* programs that have handled no interrupt yet
  led,       \* pins whose LED is lit, by "sw"
  state      \* the state reported by "mio"

programs == <<running, todo, fresh, led, state>>
demoVars == <<vars, programs>>

Rpcs(a, op) == [i \in 1..Len(PinsOf[a]) |-> [op |-> op, pin |-> PinsOf[a][i]]]

\* Mutant: the pins are read before their interrupts are acknowledged.
HandlerReadsFirst(a) == Rpcs(a, "read") \o Rpcs(a, "ack")

\* _handle_irq
Handler(a) == Rpcs(a, "ack") \o Rpcs(a, "read")

PinSet(a) == Range(PinsOf[a])

\* The constructors acknowledge all interrupts and read nothing.
DemoInit ==
  /\ Init /\ level = {}
  /\ running \in Started
  /\ todo = [a \in Programs |-> IF a \in running THEN Rpcs(a, "ack") ELSE <<>>]
  /\ fresh = Programs
  /\ led = {} /\ state = FALSE

\* A program is one thread; signals of its sessions are one.
HandleSignal(a) ==
  /\ a \in running /\ todo[a] = <<>> /\ PinSet(a) \intersect signalled # {}
  /\ signalled' = signalled \ PinSet(a)
  /\ todo' = [todo EXCEPT ![a] = Handler(a)]
  /\ fresh' = fresh \ {a}
  /\ UNCHANGED <<level, status, enabled, irq, running, led, state>>

Next1(a, op) ==
  /\ todo[a] # <<>> /\ Head(todo[a]).op = op
  /\ todo' = [todo EXCEPT ![a] = Tail(@)]

Ack(a) ==
  /\ Next1(a, "ack")
  /\ AckIrq(Head(todo[a]).pin)
  /\ UNCHANGED <<signalled, running, fresh, led, state>>

\* switches/main.cc
ReadSwitch ==
  /\ Next1("sw", "read")
  /\ LET p == Head(todo["sw"]).pin IN
       led' = IF p \in level THEN led \union {p} ELSE led \ {p}
  /\ UNCHANGED <<vars, running, fresh, state>>

\* mio/main.cc: the second button is only looked at if the first one is not
\* pressed.
ReadButton ==
  /\ todo["mio"] # <<>> /\ Head(todo["mio"]).op = "read"
  /\ LET p == Head(todo["mio"]).pin
         isOn == p = PinsOf["mio"][1] IN
       /\ state' = IF p \in level THEN isOn ELSE state
       /\ todo' = [todo EXCEPT !["mio"] =
                     IF p \in level /\ isOn THEN <<>> ELSE Tail(@)]
  /\ UNCHANGED <<vars, running, fresh, led>>

\* rgb/main.cc: the colours are left out.
ReadRgb ==
  /\ Next1("rgb", "read")
  /\ UNCHANGED <<vars, running, fresh, led, state>>

Program(a) == \/ HandleSignal(a) \/ Ack(a)
              \/ a = "sw" /\ ReadSwitch
              \/ a = "mio" /\ ReadButton
              \/ a = "rgb" /\ ReadRgb

DriverStep == Driver /\ UNCHANGED programs

\* External: somebody moves a switch or presses a button in use.
Hand == /\ \E a \in running : \E p \in PinSet(a), high \in BOOLEAN : SetLevel(p, high)
        /\ UNCHANGED programs

DemoNext == DriverStep \/ Hand \/ \E a \in Programs : Program(a)

\* The driver and each program go on while they have something to do.
DemoFairness == /\ WF_demoVars(DriverStep)
                /\ \A a \in Programs : WF_demoVars(Program(a))

DemoSpec == DemoInit /\ [][DemoNext]_demoVars /\ DemoFairness

-----------------------------------------------------------------------------
(* Properties. *)

\* The README of the driver on the attribute irq, "edges: triggered on both
\* rising and falling signal edges": an edge at a pin whose interrupt is
\* enabled reaches the program, which handles it or is about to look at its
\* pins anyway.
EdgeReported ==
  \A a \in Programs : \A p \in PinSet(a) :
    a \in running /\ p \in status \intersect enabled
      ~> p \in signalled \/ todo[a] # <<>>

\* When the switches come to rest, the LEDs show them, once "sw" has handled
\* its first interrupt: a switch that moves while its handler runs, between
\* acknowledgement and reading, or after it was read, is not missed.
LedsFollow ==
  <>[][level' = level]_demoVars
    => <>[]("sw" \in fresh \/ led = level \intersect PinSet("sw"))

\* A button of "mio" that is pressed after the program has started and held
\* turns the state on for good, whatever the other button does.
ButtonHeld ==
  LET first == PinsOf["mio"][1]
      free == "mio" \in running /\ todo["mio"] = <<>> /\ first \notin level
  IN <>free /\ <>[](first \in level) => <>[]state
=============================================================================
