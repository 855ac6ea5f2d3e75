----------------------------- MODULE PinDriver -----------------------------
(***************************************************************************)
(* The pin driver (src/drivers/pin): its config declares pins and assigns  *)
(* them to clients; a declaration counts the sessions that use its pin.    *)
(* The driver is one thread and nothing else writes the GPIO registers, so *)
(* a handler is one step, except that the config handler, which visits the *)
(* sessions one by one, has a step for each of them.                       *)
(*                                                                         *)
(* External: the clients and the session objects, which acquire and        *)
(* release pins.  Left out: pull-ups and the trigger of interrupts.  A     *)
(* config declares a name at most once and a physical pin at most once.    *)
(***************************************************************************)
EXTENDS Integers, FiniteSets

CONSTANTS Names,           \* names of pins
          Pins,            \* physical pins, Pin_id
          StateClients,    \* clients of the three session types
          ControlClients,
          IrqClients,
          Configs,         \* what the config ROM may contain: its pin
                           \* declarations and the policy of each client
          Counts,          \* how many values ref_count has
          None             \* no declaration, no pin, or a malformed one

Clients == StateClients \union ControlClients \union IrqClients

Functions == {"in", "irq", "out", "select"}

\* A pin node of the config; it is malformed if it has no id.
Nodes == [id : Pins \union {None}, function : Functions,
          onDemand : BOOLEAN, level : BOOLEAN]

\* What the driver keeps of it, with the number of sessions that use the pin.
PinDeclarations == [id : Pins \union {None}, function : Functions \union {"disabled"},
                    onDemand : BOOLEAN, level : BOOLEAN, refs : 0..Counts-1]

ASSUME ConfigsAssumption ==
  /\ None \notin Pins \union Nodes \union PinDeclarations
  /\ \A config \in Configs :
       /\ config.pins \in [Names -> Nodes \union {None}]
       /\ config.policy \in [Clients -> Names]
       /\ \A m, n \in {k \in Names : config.pins[k] # None} :
            config.pins[m].id = config.pins[n].id
              => m = n \/ config.pins[m].id = None
ASSUME CountsAssumption == /\ Counts \in Nat /\ IsFiniteSet(Clients)
                           /\ Cardinality(Clients) < Counts

WellFormed(d) == d # None /\ d.id # None

\* Each name stays with a pin of its own in all configs, and a name that is
\* malformed in one of them is not declared as an input in another.  What the
\* driver promises of its counts holds under this condition only.
NamesStay ==
  /\ \A a, b \in Configs, m, n \in Names :
       WellFormed(a.pins[m]) /\ WellFormed(b.pins[n])
         => (a.pins[m].id = b.pins[n].id <=> m = n)
  /\ \A a, b \in Configs, n \in Names :
       a.pins[n] # None /\ a.pins[n].id = None /\ WellFormed(b.pins[n])
         => b.pins[n].function = "out"

VARIABLES
  gpio,        \* the pin declarations, and per pin Dir with Outen, and Out
  policy,      \* the policies of the current config
  opened,      \* clients with a session
  assigned,    \* the pin each session has acquired
  todo,        \* sessions the config handler has yet to visit
  alive        \* FALSE after an exception that nobody catches

vars == <<gpio, policy, opened, assigned, todo, alive>>

Declared(p, d) == d # None /\ d.id = p /\ d.id # None

\* Function::direction.  What is not an output counts as an input, also the
\* disabled function of a malformed declaration.
Direction(function) == IF function = "out" THEN "out" ELSE "in"

ClientDirection(c) == IF c \in ControlClients THEN "out" ELSE "in"

Matches(d, p, direction) == Declared(p, d) /\ Direction(d.function) = direction

\* Io_bank_ctrl::configure: whether the pin is an output afterwards.  Any
\* other function, the disabled one included, is refused with a warning.
Configured(drive, function) ==
  IF function \in {"in", "irq"} THEN FALSE
  ELSE IF function = "out" THEN TRUE
  ELSE drive

Init ==
  /\ gpio = [pins |-> [n \in Names |-> None],
             drive |-> [p \in Pins |-> FALSE], level |-> [p \in Pins |-> FALSE]]
  /\ policy \in {config.policy : config \in Configs}
  /\ opened = {} /\ assigned = [c \in Clients |-> None]
  /\ todo = {} /\ alive = TRUE

Idle == alive /\ todo = {}

-----------------------------------------------------------------------------
(* acquire_pin and release_pin, from one state of the driver to the next. *)

OnDemand(d) == d.function = "out" /\ d.onDemand
HasDefault(d) == d.function = "out" /\ ~d.onDemand

\* Mutants: the session is not counted; an output is not configured.
AcquireUncounted(s, p, direction) ==
  LET users == {n \in Names : Matches(s.pins[n], p, direction)} IN
  IF users = {} THEN s
  ELSE LET d == s.pins[CHOOSE n \in users : TRUE] IN
       [s EXCEPT !.drive[p] = IF OnDemand(d) \/ d.function = "irq"
                                THEN Configured(@, d.function) ELSE @,
                 !.level[p] = IF HasDefault(d) THEN d.level ELSE @]
AcquireUnconfigured(s, p, direction) ==
  LET users == {n \in Names : Matches(s.pins[n], p, direction)} IN
  IF users = {} THEN s
  ELSE LET n == CHOOSE n \in users : TRUE
           d == s.pins[n] IN
       [s EXCEPT !.pins[n].refs = (@ + 1) % Counts,
                 !.level[p] = IF HasDefault(d) THEN d.level ELSE @]

AcquirePin(s, p, direction) ==
  LET users == {n \in Names : Matches(s.pins[n], p, direction)} IN
  IF users = {} THEN s
  ELSE LET n == CHOOSE n \in users : TRUE
           d == s.pins[n] IN
       [s EXCEPT !.pins[n].refs = (@ + 1) % Counts,
                 !.drive[p] = IF OnDemand(d) \/ d.function = "irq"
                                THEN Configured(@, d.function) ELSE @,
                 !.level[p] = IF HasDefault(d) THEN d.level ELSE @]

\* Mutant: the level is left as the last session has set it.
ReleaseKeepsLevel(s, p, direction) ==
  LET users == {n \in Names : Matches(s.pins[n], p, direction)} IN
  IF users = {} THEN s
  ELSE [s EXCEPT !.pins[CHOOSE n \in users : TRUE].refs =
                      (@ + Counts - 1) % Counts]

\* The last session to go disables an output on demand or an interrupt, and
\* restores the default level.  ref_count is unsigned.
ReleasePin(s, p, direction) ==
  LET users == {n \in Names : Matches(s.pins[n], p, direction)} IN
  IF users = {} THEN s
  ELSE LET n == CHOOSE n \in users : TRUE
           d == s.pins[n]
           refs == (d.refs + Counts - 1) % Counts
           isLast == refs = 0 IN
       [s EXCEPT !.pins[n].refs = refs,
                 !.drive[p] = IF isLast /\ (OnDemand(d) \/ d.function = "irq")
                                THEN Configured(@, "disabled") ELSE @,
                 !.level[p] = IF isLast /\ HasDefault(d) THEN d.level ELSE @]

-----------------------------------------------------------------------------
(* The config handler. *)

\* A declaration is kept if name and direction are the same as before, and
\* made anew otherwise.
Updated(old, node) ==
  IF node = None THEN None
  ELSE LET kept == old # None /\ Direction(old.function) = Direction(node.function)
           refs == IF kept THEN old.refs ELSE 0 IN
       IF node.id = None
         THEN [id |-> None, function |-> "disabled", onDemand |-> FALSE,
               level |-> FALSE, refs |-> refs]
         ELSE [id |-> node.id, function |-> node.function,
               onDemand |-> node.onDemand, level |-> node.level, refs |-> refs]

\* Mutant: update_from_xml sets the default level of pins in use, too.
UpdateSetsLevel(pins, p, level) ==
  LET users == {n \in Names : Declared(p, pins[n]) /\ HasDefault(pins[n])} IN
  IF users = {} THEN level ELSE pins[CHOOSE n \in users : TRUE].level

\* update_from_xml sets the default level of a pin that no session uses ...
UpdatedLevel(pins, p, level) ==
  LET users == {n \in Names : /\ Declared(p, pins[n]) /\ HasDefault(pins[n])
                              /\ pins[n].refs = 0} IN
  IF users = {} THEN level ELSE pins[CHOOSE n \in users : TRUE].level

\* ... and configures each pin but the outputs on demand.
UpdatedDrive(pins, p, drive) ==
  LET users == {n \in Names : Declared(p, pins[n]) /\ ~OnDemand(pins[n])} IN
  IF users = {} THEN drive
  ELSE Configured(drive, pins[CHOOSE n \in users : TRUE].function)

HandleConfig(config) ==
  /\ Idle
  /\ policy' = config.policy
  /\ LET pins == [n \in Names |-> Updated(gpio.pins[n], config.pins[n])] IN
       gpio' = [pins |-> pins,
                drive |-> [p \in Pins |-> UpdatedDrive(pins, p, gpio.drive[p])],
                level |-> [p \in Pins |-> UpdatedLevel(pins, p, gpio.level[p])]]
  /\ todo' = opened
  /\ UNCHANGED <<opened, assigned, alive>>

Declaration(c) == gpio.pins[policy[c]]

Denied(c) == \/ Declaration(c) = None
             \/ Direction(Declaration(c).function) # ClientDirection(c)

\* assigned_pin follows the id of the declaration without a look at whether
\* there is one.
Throws(c) == ~Denied(c) /\ Declaration(c).id = None

AssignedPin(c) == IF Denied(c) THEN None ELSE Declaration(c).id

\* State sessions come first, then control sessions, then interrupts.
Rank(c) ==
  IF c \in StateClients THEN 1 ELSE IF c \in ControlClients THEN 2 ELSE 3
NextInLine == {c \in todo : \A d \in todo : Rank(c) <= Rank(d)}

\* update_assignments for one session: it gives up the pin it has and takes
\* the one it is assigned now, unless they are the same.
Reassign(c) ==
  /\ alive /\ c \in NextInLine
  /\ ~Throws(c)
  /\ LET dir == ClientDirection(c)
         new == AssignedPin(c) IN
       /\ gpio' = IF new = assigned[c] THEN gpio
                  ELSE AcquirePin(ReleasePin(gpio, assigned[c], dir), new, dir)
       /\ assigned' = [assigned EXCEPT ![c] = new]
  /\ todo' = todo \ {c}
  /\ UNCHANGED <<policy, opened, alive>>

-----------------------------------------------------------------------------
(* The sessions (external). *)

OpenSession(c) ==
  /\ Idle
  /\ c \notin opened /\ ~Denied(c) /\ ~Throws(c)
  /\ opened' = opened \union {c}
  /\ assigned' = [assigned EXCEPT ![c] = AssignedPin(c)]
  /\ gpio' = AcquirePin(gpio, AssignedPin(c), ClientDirection(c))
  /\ UNCHANGED <<policy, todo, alive>>

CloseSession(c) ==
  /\ Idle
  /\ c \in opened
  /\ opened' = opened \ {c}
  /\ assigned' = [assigned EXCEPT ![c] = None]
  /\ gpio' = ReleasePin(gpio, assigned[c], ClientDirection(c))
  /\ UNCHANGED <<policy, todo, alive>>

SetLevel(c, high) ==
  /\ Idle
  /\ c \in ControlClients /\ assigned[c] # None
  /\ gpio' = [gpio EXCEPT !.level[assigned[c]] = high]
  /\ UNCHANGED <<policy, opened, assigned, todo, alive>>

\* A session for a malformed declaration is opened or visited.
Die(c) ==
  /\ alive /\ (IF Idle THEN c \notin opened ELSE c \in NextInLine)
  /\ Throws(c)
  /\ alive' = FALSE
  /\ UNCHANGED <<gpio, policy, opened, assigned, todo>>

-----------------------------------------------------------------------------
Client(c) == \/ OpenSession(c) \/ CloseSession(c)
             \/ \E high \in BOOLEAN : SetLevel(c, high)

Next == \/ \E config \in Configs : HandleConfig(config)
        \/ \E c \in Clients : Reassign(c) \/ Client(c) \/ Die(c)

Spec == Init /\ [][Next]_vars

-----------------------------------------------------------------------------
(* Properties. *)

\* The variables have the types of the members they model, and the config
\* handler visits existing sessions only.
TypeOK ==
  /\ gpio \in [pins : [Names -> PinDeclarations \union {None}],
               drive : [Pins -> BOOLEAN], level : [Pins -> BOOLEAN]]
  /\ policy \in [Clients -> Names]
  /\ assigned \in [Clients -> Pins \union {None}]
  /\ opened \subseteq Clients /\ todo \subseteq opened
  /\ alive \in BOOLEAN

Users(p, direction) ==
  {c \in opened : assigned[c] = p /\ ClientDirection(c) = direction}

\* A declaration counts the sessions that use its pin, through every change
\* of attributes, direction and policies, as long as NamesStay.  Everything
\* release_pin does rests on it.
RefsExact ==
  Idle => \A n \in Names :
            LET d == gpio.pins[n] IN
            d # None /\ d.id # None
              => d.refs = Cardinality(Users(d.id, Direction(d.function)))

\* Between two handlers, a pin assigned to a control session is an output,
\* and a pin declared as an input is not one, whatever it was before.
DirectionRight ==
  Idle =>
    /\ \A c \in ControlClients : assigned[c] # None => gpio.drive[assigned[c]]
    /\ \A n \in Names, p \in Pins :
         Declared(p, gpio.pins[n]) /\ gpio.pins[n].function \in {"in", "irq"}
           => ~gpio.drive[p]

\* The README of the driver: the driver "allows for driving pins without a
\* client by the sole means of updating the 'default' attributes of '<out>'
\* nodes".  A pin that no session uses has its default level.  Once a name
\* has moved to another pin while a session used it, it does not.
DefaultDrives ==
  Idle => \A n \in Names, p \in Pins :
            LET d == gpio.pins[n] IN
            Declared(p, d) /\ HasDefault(d) /\ Users(p, "out") = {}
              => gpio.drive[p] /\ gpio.level[p] = d.level

\* The import of a config does not touch the level of a pin that a control
\* session has set, as long as its name stays with its pin.
UpdateKeepsLevel ==
  [][todo = {} /\ todo' # {}
       => \A c \in ControlClients :
            assigned[c] # None
              => gpio'.level[assigned[c]] = gpio.level[assigned[c]]]_vars
=============================================================================
