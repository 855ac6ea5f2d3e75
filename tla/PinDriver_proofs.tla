-------------------------- MODULE PinDriver_proofs --------------------------
(***************************************************************************)
(* Proofs about the pin driver, for any names, pins and clients, and for   *)
(* any configs in which names stay with their pins (NamesStay).            *)
(*                                                                         *)
(* Consistent relates the declarations and the registers to the pins that  *)
(* the sessions hold.  It is preserved by every acquire and every release, *)
(* so that a handler that does one after the other for one session after   *)
(* the other needs no invariant of its own for the states in between.      *)
(* Placed says where declarations come from, and Visited which sessions    *)
(* hold the pin that the current config assigns to them.                   *)
(***************************************************************************)
EXTENDS PinDriver, FiniteSetTheorems, TLAPS

-----------------------------------------------------------------------------
(* The inductive invariant. *)

GpioType == [pins : [Names -> PinDeclarations \union {None}],
             drive : [Pins -> BOOLEAN], level : [Pins -> BOOLEAN]]

\* The sessions that hold pin p for the direction, if a says what they hold.
Holders(a, p, direction) ==
  {c \in Clients : a[c] = p /\ ClientDirection(c) = direction}

\* From a to b only the holders of p for the direction change.
OthersHold(a, b, p, direction) ==
  \A q \in Pins, other \in {"in", "out"} :
    q # p \/ other # direction => Holders(b, q, other) = Holders(a, q, other)

\* The state s of the driver fits the pins that a says the sessions hold:
\* pins are declared once, ...
Distinct(s) ==
  \A m, n \in Names :
    WellFormed(s.pins[m]) /\ WellFormed(s.pins[n]) /\ s.pins[m].id = s.pins[n].id
      => m = n

\* ... their holders are counted, ...
Counted(s, a) ==
  \A n \in Names :
    WellFormed(s.pins[n])
      => s.pins[n].refs =
           Cardinality(Holders(a, s.pins[n].id, Direction(s.pins[n].function)))

\* ... outputs are driven, and inputs are not, ...
DriveFits(d, drive) ==
  /\ d.function = "out" /\ (d.refs # 0 \/ ~d.onDemand) => drive = TRUE
  /\ d.function \in {"in", "irq"} => drive = FALSE

Driven(s) ==
  \A n \in Names :
    WellFormed(s.pins[n]) => DriveFits(s.pins[n], s.drive[s.pins[n].id])

\* ... and what nobody holds has its default level.
LevelFits(d, high) == HasDefault(d) /\ d.refs = 0 => high = d.level

Restored(s) ==
  \A n \in Names :
    WellFormed(s.pins[n]) => LevelFits(s.pins[n], s.level[s.pins[n].id])

Consistent(s, a) ==
  s \in GpioType /\ Distinct(s) /\ Counted(s, a) /\ Driven(s) /\ Restored(s)

\* A declaration has the id of a node of some config, and is disabled if that
\* is malformed.
Placed ==
  \A n \in Names :
    gpio.pins[n] # None =>
      /\ \E config \in Configs : /\ config.pins[n] # None
                                 /\ config.pins[n].id = gpio.pins[n].id
      /\ IF gpio.pins[n].id = None THEN gpio.pins[n].function = "disabled"
         ELSE gpio.pins[n].function \in Functions

\* A session that the config handler need not visit holds the pin that the
\* config assigns to it; who has no session holds none.
Visited ==
  \A c \in Clients :
    /\ c \notin opened => assigned[c] = None
    /\ c \in opened /\ c \notin todo => ~Throws(c) /\ assigned[c] = AssignedPin(c)

Inv == TypeOK /\ Consistent(gpio, assigned) /\ Placed /\ Visited

-----------------------------------------------------------------------------
(* Acquire and release. *)

\* The direction of a client or a function is one of two.
LEMMA Directions ==
  /\ \A c \in Clients : ClientDirection(c) \in {"in", "out"}
  /\ \A f \in Functions \union {"disabled"} :
       /\ Direction(f) \in {"in", "out"}
       /\ Direction(f) = "out" <=> f = "out"
BY DEF ClientDirection, Direction, Functions

\* A client that takes a pin is one holder more of this pin in its direction,
\* and of no other.
LEMMA OneHolderMore ==
  ASSUME NEW a \in [Clients -> Pins \union {None}], NEW c \in Clients,
         a[c] = None, NEW p \in Pins,
         NEW b, b = [a EXCEPT ![c] = p]
  PROVE  /\ Cardinality(Holders(b, p, ClientDirection(c)))
              = Cardinality(Holders(a, p, ClientDirection(c))) + 1
         /\ Cardinality(Holders(a, p, ClientDirection(c))) \in Nat
         /\ Cardinality(Holders(b, p, ClientDirection(c))) < Counts
         /\ OthersHold(a, b, p, ClientDirection(c))
<1> DEFINE H == Holders(a, p, ClientDirection(c))
<1>1. IsFiniteSet(Clients) /\ H \subseteq Clients
  BY CountsAssumption DEF Holders
<1>2. p # None
  BY ConfigsAssumption
<1>3. IsFiniteSet(H) /\ Cardinality(H) \in Nat
  BY <1>1, FS_Subset, FS_CardinalityType
<1>4. Holders(b, p, ClientDirection(c)) = H \union {c} /\ c \notin H
  BY <1>2 DEF Holders
<1>5. Cardinality(H \union {c}) = Cardinality(H) + 1
  BY <1>3, <1>4, FS_AddElement
<1>6. Cardinality(H \union {c}) <= Cardinality(Clients)
  BY <1>1, FS_Subset
<1>7. Cardinality(Clients) \in Nat
  BY <1>1, FS_CardinalityType
<1>8. OthersHold(a, b, p, ClientDirection(c))
  BY ConfigsAssumption DEF Holders, OthersHold
<1>9. Counts \in Nat /\ Cardinality(Clients) < Counts
  BY CountsAssumption
<1>10. Cardinality(H) + 1 < Counts
  BY <1>3, <1>5, <1>6, <1>7, <1>9
<1> QED
  BY <1>3, <1>4, <1>5, <1>8, <1>10

\* A client that gives up its pin is one holder less of it, and of no other.
LEMMA OneHolderLess ==
  ASSUME NEW a \in [Clients -> Pins \union {None}], NEW c \in Clients,
         a[c] # None,
         NEW b, b = [a EXCEPT ![c] = None]
  PROVE  /\ Cardinality(Holders(b, a[c], ClientDirection(c)))
              = Cardinality(Holders(a, a[c], ClientDirection(c))) - 1
         /\ Cardinality(Holders(b, a[c], ClientDirection(c))) \in Nat
         /\ Cardinality(Holders(a, a[c], ClientDirection(c))) < Counts
         /\ OthersHold(a, b, a[c], ClientDirection(c))
<1>1. b \in [Clients -> Pins \union {None}] /\ b[c] = None /\ a[c] \in Pins
  OBVIOUS
<1>2. a = [b EXCEPT ![c] = a[c]]
  OBVIOUS
<1>3. OthersHold(a, b, a[c], ClientDirection(c))
  <2>1. OthersHold(b, a, a[c], ClientDirection(c))
    BY <1>1, <1>2, OneHolderMore
  <2> QED
    BY <2>1 DEF OthersHold
<1>4. /\ Cardinality(Holders(a, a[c], ClientDirection(c)))
           = Cardinality(Holders(b, a[c], ClientDirection(c))) + 1
      /\ Cardinality(Holders(b, a[c], ClientDirection(c))) \in Nat
      /\ Cardinality(Holders(a, a[c], ClientDirection(c))) < Counts
  BY <1>1, <1>2, OneHolderMore
<1>5. Cardinality(Holders(b, a[c], ClientDirection(c)))
        = Cardinality(Holders(a, a[c], ClientDirection(c))) - 1
  BY <1>4
<1> QED
  BY <1>3, <1>4, <1>5


\* The declarations of t are those of s but for their counts.
Recounted(s, t) ==
  \A n \in Names :
    /\ s.pins[n] = None <=> t.pins[n] = None
    /\ s.pins[n] # None => /\ t.pins[n].id = s.pins[n].id
                           /\ t.pins[n].function = s.pins[n].function
                           /\ t.pins[n].onDemand = s.pins[n].onDemand
                           /\ t.pins[n].level = s.pins[n].level

WithCount(d, refs) == [d EXCEPT !.refs = refs]

\* One declaration gets another count, and its pin other register contents.
Rewritten(s, n, refs, drive, high) ==
  [s EXCEPT !.pins[n].refs = refs, !.drive[s.pins[n].id] = drive,
            !.level[s.pins[n].id] = high]

\* Nothing else changes.
OthersKept(s, t, n) ==
  \A m \in Names :
    m # n => /\ t.pins[m] = s.pins[m]
             /\ WellFormed(s.pins[m]) =>
                  /\ s.pins[m].id # s.pins[n].id
                  /\ t.drive[s.pins[m].id] = s.drive[s.pins[m].id]
                  /\ t.level[s.pins[m].id] = s.level[s.pins[m].id]

\* What becomes of the state of the driver then.
LEMMA OneRecounted ==
  ASSUME NEW s \in GpioType, Distinct(s),
         NEW n \in Names, WellFormed(s.pins[n]),
         NEW refs \in 0..Counts-1, NEW drive \in BOOLEAN, NEW high \in BOOLEAN,
         NEW t, t = Rewritten(s, n, refs, drive, high)
  PROVE  /\ t \in GpioType
         /\ t.pins[n] = WithCount(s.pins[n], refs)
         /\ t.drive[s.pins[n].id] = drive
         /\ t.level[s.pins[n].id] = high
         /\ OthersKept(s, t, n)
         /\ Recounted(s, t)
<1> DEFINE d == s.pins[n]
           p == s.pins[n].id
<1>1. /\ s.pins \in [Names -> PinDeclarations \union {None}]
      /\ s.drive \in [Pins -> BOOLEAN] /\ s.level \in [Pins -> BOOLEAN]
  BY DEF GpioType
<1>2. d \in PinDeclarations /\ d # None /\ p \in Pins
  BY <1>1 DEF WellFormed, PinDeclarations
<1>3. [d EXCEPT !.refs = refs] \in PinDeclarations
  BY <1>2 DEF PinDeclarations
<1>4. [d EXCEPT !.refs = refs] # None
  BY <1>3, ConfigsAssumption
<1>5. /\ t.pins = [s.pins EXCEPT ![n] = [d EXCEPT !.refs = refs]]
      /\ t.drive = [s.drive EXCEPT ![p] = drive]
      /\ t.level = [s.level EXCEPT ![p] = high]
  BY <1>1 DEF GpioType, Rewritten
<1>6. /\ t.pins \in [Names -> PinDeclarations \union {None}]
      /\ t.drive \in [Pins -> BOOLEAN] /\ t.level \in [Pins -> BOOLEAN]
  BY <1>1, <1>2, <1>3, <1>5
<1>7. t \in GpioType
  BY <1>6 DEF GpioType, Rewritten
<1>8. /\ t.pins[n] = [d EXCEPT !.refs = refs]
      /\ t.drive[p] = drive /\ t.level[p] = high
      /\ \A m \in Names : m # n => t.pins[m] = s.pins[m]
      /\ \A q \in Pins : q # p => t.drive[q] = s.drive[q] /\ t.level[q] = s.level[q]
  BY <1>1, <1>2, <1>5
<1>9. /\ t.pins[n].refs = refs /\ t.pins[n].id = p
      /\ t.pins[n].function = d.function
      /\ t.pins[n].onDemand = d.onDemand /\ t.pins[n].level = d.level
  BY <1>2, <1>8 DEF PinDeclarations
<1>10. Recounted(s, t)
  BY <1>2, <1>4, <1>8, <1>9 DEF Recounted
<1>11. \A m \in Names : WellFormed(s.pins[m]) => s.pins[m].id \in Pins
  BY <1>1 DEF WellFormed, PinDeclarations
<1>12. \A m \in Names : m # n /\ WellFormed(s.pins[m]) => s.pins[m].id # p
  BY DEF Distinct
<1> QED
  BY <1>7, <1>8, <1>9, <1>10, <1>11, <1>12 DEF OthersKept, WithCount


\* Pins are still declared once if only counts have changed.
LEMMA DistinctKept ==
  ASSUME NEW s, NEW t, Distinct(s), Recounted(s, t)
  PROVE  /\ Distinct(t)
         /\ \A n \in Names : WellFormed(t.pins[n]) <=> WellFormed(s.pins[n])
BY DEF Distinct, Recounted, WellFormed

\* The state stays consistent if the new count and the new contents of the
\* registers fit what the sessions hold then.
LEMMA StaysConsistent ==
  ASSUME NEW s, NEW a, Consistent(s, a),
         NEW n \in Names, WellFormed(s.pins[n]),
         NEW refs \in 0..Counts-1, NEW drive \in BOOLEAN, NEW high \in BOOLEAN,
         NEW t, t = Rewritten(s, n, refs, drive, high),
         NEW b,
         refs = Cardinality(Holders(b, s.pins[n].id, Direction(s.pins[n].function))),
         OthersHold(a, b, s.pins[n].id, Direction(s.pins[n].function)),
         DriveFits(WithCount(s.pins[n], refs), drive),
         LevelFits(WithCount(s.pins[n], refs), high)
  PROVE  Consistent(t, b) /\ Recounted(s, t)
<1> DEFINE p == s.pins[n].id
<1>1. s \in GpioType /\ Distinct(s) /\ Counted(s, a) /\ Driven(s) /\ Restored(s)
  BY DEF Consistent
<1>2. /\ t \in GpioType
      /\ t.pins[n] = WithCount(s.pins[n], refs)
      /\ t.drive[p] = drive /\ t.level[p] = high
      /\ OthersKept(s, t, n)
      /\ Recounted(s, t)
  BY <1>1, OneRecounted
<1>3. /\ t.pins[n].id = p /\ t.pins[n].refs = refs
      /\ t.pins[n].function = s.pins[n].function
  <2>1. s.pins[n] \in PinDeclarations
    BY <1>1 DEF GpioType, WellFormed
  <2> QED
    BY <2>1, <1>2 DEF PinDeclarations, WithCount
<1>4. /\ Distinct(t)
      /\ \A m \in Names : WellFormed(t.pins[m]) <=> WellFormed(s.pins[m])
  BY <1>1, <1>2, DistinctKept
<1>5. \A m \in Names : WellFormed(s.pins[m]) =>
        s.pins[m].id \in Pins /\ s.pins[m].function \in Functions \union {"disabled"}
  BY <1>1 DEF GpioType, WellFormed, PinDeclarations
<1>7. Counted(t, b)
  <2> SUFFICES ASSUME NEW m \in Names, WellFormed(t.pins[m])
               PROVE  t.pins[m].refs =
                        Cardinality(Holders(b, t.pins[m].id,
                                            Direction(t.pins[m].function)))
    BY DEF Counted
  <2>1. CASE m = n
    BY <2>1, <1>2, <1>3
  <2>2. CASE m # n
    <3>1. t.pins[m] = s.pins[m] /\ s.pins[m].id # p /\ WellFormed(s.pins[m])
      BY <2>2, <1>2, <1>4 DEF OthersKept
    <3>2. Holders(b, s.pins[m].id, Direction(s.pins[m].function))
            = Holders(a, s.pins[m].id, Direction(s.pins[m].function))
      BY <3>1, <1>5, Directions DEF OthersHold
    <3> QED
      BY <3>1, <3>2, <1>1 DEF Counted
  <2> QED
    BY <2>1, <2>2
<1>8. Driven(t)
  <2> SUFFICES ASSUME NEW m \in Names, WellFormed(t.pins[m])
               PROVE  DriveFits(t.pins[m], t.drive[t.pins[m].id])
    BY DEF Driven
  <2>1. CASE m = n
    BY <2>1, <1>2, <1>3
  <2>2. CASE m # n
    <3>1. /\ t.pins[m] = s.pins[m] /\ WellFormed(s.pins[m])
          /\ t.drive[s.pins[m].id] = s.drive[s.pins[m].id]
      BY <2>2, <1>2, <1>4 DEF OthersKept
    <3>2. DriveFits(s.pins[m], s.drive[s.pins[m].id])
      BY <3>1, <1>1 DEF Driven
    <3> QED
      BY <3>1, <3>2
  <2> QED
    BY <2>1, <2>2
<1>9. Restored(t)
  <2> SUFFICES ASSUME NEW m \in Names, WellFormed(t.pins[m])
               PROVE  LevelFits(t.pins[m], t.level[t.pins[m].id])
    BY DEF Restored
  <2>1. CASE m = n
    BY <2>1, <1>2, <1>3
  <2>2. CASE m # n
    <3>1. /\ t.pins[m] = s.pins[m] /\ WellFormed(s.pins[m])
          /\ t.level[s.pins[m].id] = s.level[s.pins[m].id]
      BY <2>2, <1>2, <1>4 DEF OthersKept
    <3>2. LevelFits(s.pins[m], s.level[s.pins[m].id])
      BY <3>1, <1>1 DEF Restored
    <3> QED
      BY <3>1, <3>2
  <2> QED
    BY <2>1, <2>2
<1> QED
  BY <1>2, <1>4, <1>7, <1>8, <1>9 DEF Consistent

\* A pin that is not declared for the direction has no declaration that would
\* count its holders.
LEMMA NothingCounted ==
  ASSUME NEW s, NEW a, Consistent(s, a), NEW b, NEW p, NEW direction,
         {n \in Names : Matches(s.pins[n], p, direction)} = {},
         OthersHold(a, b, p, direction)
  PROVE  Consistent(s, b)
<1>1. s \in GpioType /\ Counted(s, a)
  BY DEF Consistent
<1>2. \A n \in Names : WellFormed(s.pins[n]) =>
        /\ s.pins[n].id \in Pins
        /\ s.pins[n].id # p \/ Direction(s.pins[n].function) # direction
        /\ Direction(s.pins[n].function) \in {"in", "out"}
  BY <1>1, Directions DEF GpioType, WellFormed, PinDeclarations, Matches, Declared
<1>3. Counted(s, b)
  BY <1>1, <1>2 DEF Counted, OthersHold
<1> QED
  BY <1>3 DEF Consistent

\* acquire_pin keeps the state consistent, and counts the session.
LEMMA Acquired ==
  ASSUME NEW s, NEW a \in [Clients -> Pins \union {None}], Consistent(s, a),
         NEW c \in Clients, a[c] = None, NEW p \in Pins \union {None},
         NEW t, t = AcquirePin(s, p, ClientDirection(c)),
         NEW b, b = [a EXCEPT ![c] = p]
  PROVE  Consistent(t, b) /\ Recounted(s, t)
<1> DEFINE direction == ClientDirection(c)
           users == {n \in Names : Matches(s.pins[n], p, direction)}
<1>1. CASE p = None
  <2>1. users = {} /\ b = a
    BY <1>1 DEF Matches, Declared
  <2> QED
    BY <2>1 DEF AcquirePin, Recounted
<1>2. CASE p \in Pins /\ users = {}
  <2>1. OthersHold(a, b, p, direction)
    BY <1>2, OneHolderMore
  <2>2. Consistent(s, b)
    BY <1>2, <2>1, NothingCounted
  <2> QED
    BY <1>2, <2>2 DEF AcquirePin, Recounted
<1>3. CASE p \in Pins /\ users # {}
  <2> DEFINE n == CHOOSE n \in users : TRUE
             d == s.pins[n]
             refs == (d.refs + 1) % Counts
             drive == IF OnDemand(d) \/ d.function = "irq"
                        THEN Configured(s.drive[p], d.function) ELSE s.drive[p]
             high == IF HasDefault(d) THEN d.level ELSE s.level[p]
  <2>1. n \in Names /\ Matches(d, p, direction) /\ p \in Pins
    BY <1>3
  <2>2. /\ s \in GpioType /\ WellFormed(d) /\ d.id = p /\ d \in PinDeclarations
        /\ Direction(d.function) = direction
    BY <2>1 DEF Consistent, GpioType, WellFormed, Matches, Declared
  <2>3. t = Rewritten(s, n, refs, drive, high)
    BY <1>3, <2>2 DEF AcquirePin, GpioType, Rewritten
  <2> HIDE DEF n
  <2>4. /\ refs = Cardinality(Holders(b, p, direction))
        /\ refs \in 0..Counts-1 /\ refs # 0
    <3>1. d.refs = Cardinality(Holders(a, p, direction))
      BY <2>1, <2>2 DEF Consistent, Counted
    <3>0. /\ Cardinality(Holders(b, p, direction))
               = Cardinality(Holders(a, p, direction)) + 1
          /\ Cardinality(Holders(a, p, direction)) \in Nat
          /\ Cardinality(Holders(b, p, direction)) < Counts
      BY <2>1, OneHolderMore
    <3>2. /\ Cardinality(Holders(b, p, direction)) = d.refs + 1
          /\ d.refs \in Nat /\ Cardinality(Holders(b, p, direction)) < Counts
      BY <3>0, <3>1
    <3>3. d.refs + 1 < Counts /\ Counts \in Nat
      BY <3>2, CountsAssumption
    <3>4. refs = d.refs + 1
      BY <3>2, <3>3, Z3
    <3> QED
      BY <3>2, <3>3, <3>4
  <2>5. /\ DriveFits(WithCount(d, refs), drive)
        /\ LevelFits(WithCount(d, refs), high)
    <3>1. DriveFits(d, s.drive[p])
      BY <2>1, <2>2 DEF Consistent, Driven
    <3>2. /\ WithCount(d, refs).function = d.function
          /\ WithCount(d, refs).refs = refs
      BY <2>2 DEF PinDeclarations, WithCount
    <3> HIDE DEF refs
    <3>3. /\ d.function = "out" => drive = TRUE
          /\ d.function \in {"in", "irq"} => drive = FALSE
      BY <3>1 DEF OnDemand, Configured, DriveFits
    <3>4. DriveFits(WithCount(d, refs), drive)
      BY <3>2, <3>3 DEF DriveFits
    <3>5. LevelFits(WithCount(d, refs), high)
      BY <3>2, <2>4 DEF LevelFits
    <3> QED
      BY <3>4, <3>5
  <2>6. drive \in BOOLEAN /\ high \in BOOLEAN
    BY <2>1, <2>2 DEF GpioType, PinDeclarations, Configured
  <2>7. OthersHold(a, b, p, direction)
    BY <2>1, OneHolderMore
  <2>8. /\ refs = Cardinality(Holders(b, d.id, Direction(d.function)))
        /\ OthersHold(a, b, d.id, Direction(d.function))
        /\ t = Rewritten(s, n, refs, drive, high)
    BY <2>2, <2>3, <2>4, <2>7
  <2> HIDE DEF refs, drive, high
  <2> QED
    BY <2>1, <2>2, <2>4, <2>5, <2>6, <2>8, StaysConsistent
<1> QED
  BY <1>1, <1>2, <1>3


\* release_pin keeps the state consistent, and no longer counts the session.
\* The count is not zero before, so that it does not wrap around.
LEMMA Released ==
  ASSUME NEW s, NEW a \in [Clients -> Pins \union {None}], Consistent(s, a),
         NEW c \in Clients,
         NEW t, t = ReleasePin(s, a[c], ClientDirection(c)),
         NEW b, b = [a EXCEPT ![c] = None]
  PROVE  Consistent(t, b) /\ Recounted(s, t)
<1> DEFINE p == a[c]
           direction == ClientDirection(c)
           users == {n \in Names : Matches(s.pins[n], p, direction)}
<1>1. CASE p = None
  <2>1. users = {} /\ b = a
    BY <1>1 DEF Matches, Declared
  <2> QED
    BY <2>1 DEF ReleasePin, Recounted
<1>2. CASE p # None /\ users = {}
  <2>1. OthersHold(a, b, p, direction)
    BY <1>2, OneHolderLess
  <2>2. Consistent(s, b)
    BY <1>2, <2>1, NothingCounted
  <2> QED
    BY <1>2, <2>2 DEF ReleasePin, Recounted
<1>3. CASE p # None /\ users # {}
  <2> DEFINE n == CHOOSE n \in users : TRUE
             d == s.pins[n]
             refs == (d.refs + Counts - 1) % Counts
             drive == IF refs = 0 /\ (OnDemand(d) \/ d.function = "irq")
                        THEN Configured(s.drive[p], "disabled") ELSE s.drive[p]
             high == IF refs = 0 /\ HasDefault(d) THEN d.level ELSE s.level[p]
  <2>1. n \in Names /\ Matches(d, p, direction) /\ p \in Pins /\ p # None
    BY <1>3
  <2>2. /\ s \in GpioType /\ WellFormed(d) /\ d.id = p /\ d \in PinDeclarations
        /\ Direction(d.function) = direction
    BY <2>1 DEF Consistent, GpioType, WellFormed, Matches, Declared
  <2>3. t = Rewritten(s, n, refs, drive, high)
    BY <1>3, <2>2 DEF ReleasePin, GpioType, Rewritten
  <2> HIDE DEF n
  <2>4. /\ refs = Cardinality(Holders(b, p, direction))
        /\ refs \in 0..Counts-1 /\ d.refs # 0
    <3>1. d.refs = Cardinality(Holders(a, p, direction))
      BY <2>1, <2>2 DEF Consistent, Counted
    <3>2. /\ Cardinality(Holders(b, p, direction))
               = Cardinality(Holders(a, p, direction)) - 1
          /\ Cardinality(Holders(b, p, direction)) \in Nat
          /\ Cardinality(Holders(a, p, direction)) < Counts
      BY <2>1, OneHolderLess
    <3>3. /\ d.refs \in Nat /\ Counts \in Nat
      BY <2>2, CountsAssumption DEF PinDeclarations
    <3>4. /\ Cardinality(Holders(b, p, direction)) = d.refs - 1
          /\ d.refs - 1 \in Nat /\ d.refs < Counts
      BY <3>1, <3>2
    <3>5. refs = d.refs - 1
      BY <3>3, <3>4, Z3
    <3> QED
      BY <3>3, <3>4, <3>5
  <2>5. /\ DriveFits(WithCount(d, refs), drive)
        /\ LevelFits(WithCount(d, refs), high)
    <3>1. DriveFits(d, s.drive[p])
      BY <2>1, <2>2 DEF Consistent, Driven
    <3>2. /\ WithCount(d, refs).function = d.function
          /\ WithCount(d, refs).onDemand = d.onDemand
          /\ WithCount(d, refs).level = d.level
          /\ WithCount(d, refs).refs = refs
      BY <2>2 DEF PinDeclarations, WithCount
    <3> HIDE DEF refs
    <3>3. drive = s.drive[p]
      BY DEF Configured
    <3>4. /\ d.function = "out" => drive = TRUE
          /\ d.function \in {"in", "irq"} => drive = FALSE
      BY <3>1, <3>3, <2>4 DEF DriveFits
    <3>5. DriveFits(WithCount(d, refs), drive)
      BY <3>2, <3>4 DEF DriveFits
    <3>6. LevelFits(WithCount(d, refs), high)
      BY <3>2 DEF LevelFits, HasDefault
    <3> QED
      BY <3>5, <3>6
  <2>6. drive \in BOOLEAN /\ high \in BOOLEAN
    BY <2>1, <2>2 DEF GpioType, PinDeclarations, Configured
  <2>7. OthersHold(a, b, p, direction)
    BY <2>1, OneHolderLess
  <2>8. /\ refs = Cardinality(Holders(b, d.id, Direction(d.function)))
        /\ OthersHold(a, b, d.id, Direction(d.function))
        /\ t = Rewritten(s, n, refs, drive, high)
    BY <2>2, <2>3, <2>4, <2>7
  <2> HIDE DEF refs, drive, high
  <2> QED
    BY <2>1, <2>2, <2>4, <2>5, <2>6, <2>8, StaysConsistent
<1> QED
  BY <1>1, <1>2, <1>3


-----------------------------------------------------------------------------
(* The assignments of sessions to pins. *)

\* What the config assigns to a client depends on the declarations, but not
\* on their counts: a session that a step does not touch is still as Visited
\* says.
LEMMA StillVisited ==
  ASSUME Inv, Recounted(gpio, gpio'), policy' = policy, NEW c \in Clients,
         \A x \in Clients :
           x # c => /\ x \in opened' <=> x \in opened
                    /\ x \in todo' <=> x \in todo
                    /\ assigned'[x] = assigned[x],
         c \notin opened' => assigned'[c] = None,
         c \in opened' /\ c \notin todo'
           => ~Throws(c) /\ assigned'[c] = AssignedPin(c)
  PROVE  Visited'
<1> SUFFICES ASSUME NEW x \in Clients
             PROVE  (/\ x \notin opened => assigned[x] = None
                     /\ x \in opened /\ x \notin todo
                          => ~Throws(x) /\ assigned[x] = AssignedPin(x))'
  BY DEF Visited
<1>1. /\ x \notin opened' => assigned'[x] = None
      /\ x \in opened' /\ x \notin todo'
           => ~Throws(x) /\ assigned'[x] = AssignedPin(x)
  BY DEF Inv, Visited
<1> DEFINE d == gpio.pins[policy[x]]
           e == gpio'.pins[policy[x]]
<1>2. /\ d = None <=> e = None
      /\ d # None => e.id = d.id /\ e.function = d.function
  BY DEF Inv, TypeOK, Recounted
<1> QED
  BY <1>1, <1>2 DEF Throws, AssignedPin, Denied, Declaration

\* Counting leaves declarations where they were.
LEMMA StillPlaced ==
  ASSUME Placed, Recounted(gpio, gpio')
  PROVE  Placed'
BY DEF Placed, Recounted

\* What is assigned to a client is a pin or none.
LEMMA AssignedType ==
  ASSUME TypeOK, NEW c \in Clients
  PROVE  AssignedPin(c) \in Pins \union {None}
BY DEF TypeOK, AssignedPin, Denied, Declaration, PinDeclarations

\* The pin of a session that has been visited is declared for its direction,
\* under the name in its policy, and is counted as in use.
LEMMA InUse ==
  ASSUME Inv, NEW c \in Clients, c \notin todo, assigned[c] # None
  PROVE  /\ c \in opened /\ policy[c] \in Names /\ assigned[c] \in Pins
         /\ WellFormed(gpio.pins[policy[c]])
         /\ gpio.pins[policy[c]].id = assigned[c]
         /\ gpio.pins[policy[c]].function \in Functions
         /\ Direction(gpio.pins[policy[c]].function) = ClientDirection(c)
         /\ gpio.pins[policy[c]].refs # 0
<1> DEFINE n == policy[c]
           d == gpio.pins[n]
           H == Holders(assigned, assigned[c], ClientDirection(c))
<1>1. /\ n \in Names /\ assigned[c] \in Pins
      /\ assigned \in [Clients -> Pins \union {None}]
  BY DEF Inv, TypeOK
<1>2. c \in opened /\ assigned[c] = AssignedPin(c) /\ ~Throws(c)
  BY DEF Inv, Visited
<1>3. /\ d # None /\ d.id = assigned[c] /\ d.id # None
      /\ Direction(d.function) = ClientDirection(c)
  BY <1>2 DEF AssignedPin, Denied, Declaration
<1>4. d.function \in Functions
  BY <1>1, <1>3 DEF Inv, Placed
<1>5. d.refs = Cardinality(H)
  BY <1>1, <1>3 DEF Inv, Consistent, Counted, WellFormed
<1>6. IsFiniteSet(H) /\ c \in H
  <2>1. H \subseteq Clients /\ c \in H
    BY DEF Holders
  <2> QED
    BY <2>1, CountsAssumption, FS_Subset
<1>7. Cardinality(H) # 0
  BY <1>6, FS_EmptySet
<1> QED
  BY <1>1, <1>2, <1>3, <1>4, <1>5, <1>7 DEF WellFormed

-----------------------------------------------------------------------------
(* The import of a config. *)

\* What becomes of one declaration: it counts the sessions that use its pin,
\* whether it is kept or made anew, and one that is in use has been kept.
LEMMA Imported ==
  ASSUME Inv, NamesStay, todo = {}, NEW config \in Configs, NEW n \in Names,
         NEW d, d = Updated(gpio.pins[n], config.pins[n])
  PROVE  /\ d \in PinDeclarations \union {None}
         /\ d # None =>
              /\ config.pins[n] # None /\ d.id = config.pins[n].id
              /\ IF d.id = None THEN d.function = "disabled"
                 ELSE d.function \in Functions
         /\ WellFormed(d) =>
              d.refs = Cardinality(Holders(assigned, d.id, Direction(d.function)))
         /\ WellFormed(d) /\ d.refs # 0 =>
              /\ WellFormed(gpio.pins[n]) /\ gpio.pins[n].id = d.id
              /\ gpio.pins[n].refs = d.refs
              /\ Direction(gpio.pins[n].function) = Direction(d.function)
<1> DEFINE node == config.pins[n]
           old == gpio.pins[n]
           kept == old # None /\ Direction(old.function) = Direction(node.function)
<1>1. /\ node \in Nodes \union {None} /\ old \in PinDeclarations \union {None}
      /\ Counts \in Nat /\ 0 \in 0..Counts-1
  <2>1. Cardinality(Clients) \in Nat
    BY CountsAssumption, FS_CardinalityType
  <2> QED
    BY <2>1, ConfigsAssumption, CountsAssumption DEF Inv, TypeOK
<1>2. CASE node = None
  BY <1>2 DEF Updated, WellFormed
<1>3. CASE node # None
  <2> DEFINE refs == IF kept THEN old.refs ELSE 0
  <2>1. refs \in 0..Counts-1
    BY <1>1 DEF PinDeclarations
  <2> HIDE DEF refs
  <2>2. d = IF node.id = None
              THEN [id |-> None, function |-> "disabled", onDemand |-> FALSE,
                    level |-> FALSE, refs |-> refs]
              ELSE [id |-> node.id, function |-> node.function,
                    onDemand |-> node.onDemand, level |-> node.level, refs |-> refs]
    BY <1>3 DEF Updated, refs
  <2>3. /\ d \in PinDeclarations /\ d # None /\ d.id = node.id /\ d.refs = refs
        /\ IF d.id = None THEN d.function = "disabled"
           ELSE d.function = node.function /\ d.function \in Functions
    <3>1. /\ node.id \in Pins \union {None} /\ node.function \in Functions
          /\ node.onDemand \in BOOLEAN /\ node.level \in BOOLEAN
      BY <1>1, <1>3 DEF Nodes
    <3>2. d \in PinDeclarations
      BY <2>1, <2>2, <3>1 DEF PinDeclarations
    <3>3. d # None
      BY <3>2, ConfigsAssumption
    <3>4. CASE node.id = None
      BY <3>2, <3>3, <3>4, <2>2
    <3>5. CASE node.id # None
      BY <3>1, <3>2, <3>3, <3>5, <2>2
    <3> QED
      BY <3>4, <3>5
  <2>4. ASSUME WellFormed(d)
        PROVE  /\ d.refs = Cardinality(Holders(assigned, d.id, Direction(d.function)))
               /\ d.refs # 0 =>
                    /\ WellFormed(old) /\ old.id = d.id /\ old.refs = d.refs
                    /\ Direction(old.function) = Direction(d.function)
    <3>1. /\ WellFormed(node) /\ d.id = node.id /\ d.function = node.function
          /\ d.id \in Pins
      BY <2>3, <2>4, <1>3 DEF WellFormed, PinDeclarations
    <3>2. CASE kept
      <4>1. PICK former \in Configs : /\ former.pins[n] # None
                                      /\ former.pins[n].id = old.id
        BY <3>2 DEF Inv, Placed
      <4>2. old.id # None
        <5> SUFFICES ASSUME old.id = None
                     PROVE  FALSE
          OBVIOUS
        <5>1. node.function = "out"
          BY <3>1, <4>1 DEF NamesStay
        <5>2. old.function = "disabled"
          BY <3>2 DEF Inv, Placed
        <5> QED
          BY <3>2, <5>1, <5>2 DEF Direction
      <4>3. WellFormed(old) /\ WellFormed(former.pins[n])
        BY <3>2, <4>1, <4>2 DEF WellFormed
      <4>4. old.id = d.id
        BY <3>1, <4>1, <4>3 DEF NamesStay
      <4>5. d.refs = old.refs
        BY <2>3, <3>2 DEF refs
      <4>6. old.refs = Cardinality(Holders(assigned, old.id, Direction(old.function)))
        BY <4>3 DEF Inv, Consistent, Counted
      <4> QED
        BY <3>1, <3>2, <4>3, <4>4, <4>5, <4>6
    <3>3. CASE ~kept
      <4>1. d.refs = 0
        BY <2>3, <3>3 DEF refs
      <4>2. Holders(assigned, d.id, Direction(d.function)) = {}
        <5> SUFFICES ASSUME NEW c \in Clients, assigned[c] = d.id,
                            ClientDirection(c) = Direction(d.function)
                     PROVE  FALSE
          BY DEF Holders
        <5> DEFINE m == policy[c]
        <5>1. /\ m \in Names /\ WellFormed(gpio.pins[m])
              /\ gpio.pins[m].id = d.id
              /\ Direction(gpio.pins[m].function) = ClientDirection(c)
          <6>1. assigned[c] # None /\ c \notin todo
            BY <2>4 DEF WellFormed
          <6> QED
            BY <6>1, InUse
        <5>2. PICK former \in Configs : /\ former.pins[m] # None
                                        /\ former.pins[m].id = d.id
          BY <5>1 DEF Inv, Placed, WellFormed
        <5>3. WellFormed(former.pins[m])
          BY <5>2, <2>4 DEF WellFormed
        <5>4. m = n
          BY <5>1, <5>2, <5>3, <3>1 DEF NamesStay
        <5> QED
          BY <5>1, <5>4, <3>1, <3>3 DEF WellFormed
      <4> QED
        BY <4>1, <4>2, FS_EmptySet
    <3> QED
      BY <3>2, <3>3
  <2> QED
    BY <1>3, <2>3, <2>4
<1> QED
  BY <1>2, <1>3


\* The config handler imports a config: every declaration as above, and the
\* registers of its pin.
LEMMA ConfigImported ==
  ASSUME Inv, NamesStay, NEW config \in Configs, HandleConfig(config)
  PROVE  Inv'
<1> DEFINE pins == [n \in Names |-> Updated(gpio.pins[n], config.pins[n])]
           drive == [p \in Pins |-> UpdatedDrive(pins, p, gpio.drive[p])]
           high == [p \in Pins |-> UpdatedLevel(pins, p, gpio.level[p])]
<1>1. /\ todo = {} /\ policy' = config.policy /\ todo' = opened
      /\ gpio' = [pins |-> pins, drive |-> drive, level |-> high]
      /\ UNCHANGED <<opened, assigned, alive>>
  BY DEF HandleConfig, Idle
<1>2. \A n \in Names : pins[n] = Updated(gpio.pins[n], config.pins[n])
  OBVIOUS
<1>3. \A n \in Names :
        /\ pins[n] \in PinDeclarations \union {None}
        /\ pins[n] # None =>
             /\ config.pins[n] # None /\ pins[n].id = config.pins[n].id
             /\ IF pins[n].id = None THEN pins[n].function = "disabled"
                ELSE pins[n].function \in Functions
  BY <1>1, <1>2, Imported
<1>4. \A n \in Names : WellFormed(pins[n]) =>
        /\ pins[n].refs =
             Cardinality(Holders(assigned, pins[n].id, Direction(pins[n].function)))
        /\ pins[n].refs # 0 =>
             /\ WellFormed(gpio.pins[n]) /\ gpio.pins[n].id = pins[n].id
             /\ gpio.pins[n].refs = pins[n].refs
             /\ Direction(gpio.pins[n].function) = Direction(pins[n].function)
  BY <1>1, <1>2, Imported
<1>5. /\ pins \in [Names -> PinDeclarations \union {None}]
      /\ gpio \in GpioType
  <2>1. pins = [n \in Names |-> pins[n]]
    OBVIOUS
  <2> HIDE DEF pins
  <2> QED
    BY <1>3, <2>1 DEF Inv, Consistent
<1> HIDE DEF pins
<1>6. \A m, n \in Names : WellFormed(pins[m]) /\ WellFormed(pins[n])
                            => (pins[m].id = pins[n].id <=> m = n)
  BY <1>3 DEF NamesStay, WellFormed
<1>7. \A n \in Names : WellFormed(pins[n]) => pins[n].id \in Pins
  BY <1>3 DEF WellFormed, PinDeclarations
<1>8. drive \in [Pins -> BOOLEAN]
  <2>1. \A p \in Pins : UpdatedDrive(pins, p, gpio.drive[p]) \in BOOLEAN
    BY <1>5 DEF UpdatedDrive, Configured, GpioType
  <2> QED
    BY <2>1
<1>9. high \in [Pins -> BOOLEAN]
  <2> SUFFICES ASSUME NEW p \in Pins
               PROVE  UpdatedLevel(pins, p, gpio.level[p]) \in BOOLEAN
    OBVIOUS
  <2> DEFINE users == {n \in Names : /\ Declared(p, pins[n]) /\ HasDefault(pins[n])
                                     /\ pins[n].refs = 0}
  <2>1. CASE users = {}
    BY <2>1, <1>5 DEF UpdatedLevel, GpioType
  <2>2. CASE users # {}
    <3> DEFINE n == CHOOSE n \in users : TRUE
    <3>1. n \in Names /\ pins[n] # None
      BY <2>2 DEF Declared
    <3>2. pins[n].level \in BOOLEAN
      BY <3>1, <1>3 DEF PinDeclarations
    <3> QED
      BY <2>2, <3>2 DEF UpdatedLevel
  <2> QED
    BY <2>1, <2>2
<1>10. ASSUME NEW n \in Names, WellFormed(pins[n])
       PROVE  /\ DriveFits(pins[n], drive[pins[n].id])
              /\ LevelFits(pins[n], high[pins[n].id])
  <2> DEFINE d == pins[n]
             p == pins[n].id
  <2>1. p \in Pins /\ Declared(p, d) /\ d.function \in Functions
    BY <1>3, <1>7, <1>10 DEF WellFormed, Declared
  <2>2. \A m \in Names : Declared(p, pins[m]) => m = n
    BY <1>6, <1>10 DEF Declared, WellFormed
  <2>3. DriveFits(d, drive[p])
    <3>1. drive[p] = UpdatedDrive(pins, p, gpio.drive[p])
      BY <2>1
    <3>2. CASE OnDemand(d)
      <4>1. drive[p] = gpio.drive[p]
        BY <2>2, <3>1, <3>2 DEF UpdatedDrive
      <4>2. d.function = "out" /\ d.function \notin {"in", "irq"}
        BY <3>2 DEF OnDemand
      <4>3. ASSUME d.refs # 0
            PROVE  gpio.drive[p] = TRUE
        <5>1. /\ WellFormed(gpio.pins[n]) /\ gpio.pins[n].id = p
              /\ gpio.pins[n].refs # 0
              /\ Direction(gpio.pins[n].function) = "out"
          BY <1>4, <1>10, <4>2, <4>3 DEF Direction
        <5>2. gpio.pins[n].function = "out"
          BY <5>1 DEF Direction
        <5>3. DriveFits(gpio.pins[n], gpio.drive[p])
          BY <5>1 DEF Inv, Consistent, Driven
        <5> QED
          BY <5>1, <5>2, <5>3 DEF DriveFits
      <4> QED
        BY <3>2, <4>1, <4>2, <4>3 DEF DriveFits, OnDemand
    <3>3. CASE ~OnDemand(d)
      <4> DEFINE users == {m \in Names : Declared(p, pins[m]) /\ ~OnDemand(pins[m])}
      <4>1. users = {n}
        BY <2>1, <2>2, <3>3
      <4>2. UpdatedDrive(pins, p, gpio.drive[p]) = Configured(gpio.drive[p], d.function)
        BY <4>1 DEF UpdatedDrive
      <4> QED
        BY <3>1, <4>2 DEF DriveFits, Configured
    <3> QED
      BY <3>2, <3>3
  <2>4. LevelFits(d, high[p])
    <3>1. SUFFICES ASSUME HasDefault(d), d.refs = 0
                   PROVE  high[p] = d.level
      BY DEF LevelFits
    <3> DEFINE users == {m \in Names : /\ Declared(p, pins[m]) /\ HasDefault(pins[m])
                                       /\ pins[m].refs = 0}
    <3>2. users = {n}
      BY <2>1, <2>2, <3>1
    <3>3. UpdatedLevel(pins, p, gpio.level[p]) = d.level
      BY <3>2 DEF UpdatedLevel
    <3> QED
      BY <2>1, <3>3
  <2> QED
    BY <2>3, <2>4
<1>11. /\ gpio'.pins = pins /\ gpio'.drive = drive /\ gpio'.level = high
       /\ gpio' \in GpioType
  BY <1>1, <1>5, <1>8, <1>9 DEF GpioType
<1> HIDE DEF drive, high
<1>12. Consistent(gpio', assigned')
  <2>1. Distinct(gpio')
    BY <1>6, <1>11 DEF Distinct
  <2>2. Counted(gpio', assigned')
    BY <1>1, <1>4, <1>11 DEF Counted
  <2>3. Driven(gpio') /\ Restored(gpio')
    BY <1>10, <1>11 DEF Driven, Restored
  <2> QED
    BY <1>11, <2>1, <2>2, <2>3 DEF Consistent
<1>13. Placed'
  BY <1>3, <1>11 DEF Placed
<1>14. Visited'
  BY <1>1 DEF Inv, Visited
<1>15. TypeOK'
  BY <1>1, <1>11, ConfigsAssumption DEF Inv, TypeOK, GpioType
<1> QED
  BY <1>12, <1>13, <1>14, <1>15 DEF Inv


-----------------------------------------------------------------------------
(* The sessions. *)

\* A session that is visited gives up its pin and takes the one assigned now.
LEMMA SessionReassigned ==
  ASSUME Inv, NEW c \in Clients, Reassign(c)
  PROVE  Inv'
<1> DEFINE new == AssignedPin(c)
           dir == ClientDirection(c)
<1>1. /\ c \in todo /\ c \in opened /\ ~Throws(c)
      /\ assigned' = [assigned EXCEPT ![c] = new] /\ todo' = todo \ {c}
      /\ UNCHANGED <<policy, opened, alive>>
      /\ gpio' = IF new = assigned[c] THEN gpio
                 ELSE AcquirePin(ReleasePin(gpio, assigned[c], dir), new, dir)
  BY DEF Reassign, NextInLine, Inv, TypeOK
<1>2. /\ assigned \in [Clients -> Pins \union {None}] /\ new \in Pins \union {None}
      /\ policy \in [Clients -> Names] /\ Consistent(gpio, assigned)
  BY AssignedType DEF Inv, TypeOK
<1>3. Consistent(gpio', assigned') /\ Recounted(gpio, gpio')
  <2>1. CASE new = assigned[c]
    <3>1. gpio' = gpio /\ assigned' = assigned
      BY <1>1, <1>2, <2>1
    <3> QED
      BY <1>2, <3>1 DEF Recounted
  <2>2. CASE new # assigned[c]
    <3> DEFINE s == ReleasePin(gpio, assigned[c], dir)
               a == [assigned EXCEPT ![c] = None]
    <3>1. Consistent(s, a) /\ Recounted(gpio, s)
      BY <1>2, Released
    <3>2. /\ a \in [Clients -> Pins \union {None}] /\ a[c] = None
          /\ assigned' = [a EXCEPT ![c] = new]
      BY <1>1, <1>2
    <3>3. gpio' = AcquirePin(s, new, dir)
      BY <1>1, <2>2
    <3> HIDE DEF s, a
    <3>4. Consistent(gpio', assigned') /\ Recounted(s, gpio')
      BY <1>2, <3>1, <3>2, <3>3, Acquired
    <3> QED
      BY <3>1, <3>4 DEF Recounted
  <2> QED
    BY <2>1, <2>2
<1>4. Placed'
  BY <1>3, StillPlaced DEF Inv
<1>5. Visited'
  BY <1>1, <1>2, <1>3, StillVisited
<1>6. TypeOK'
  <2>1. gpio' \in GpioType
    BY <1>3 DEF Consistent
  <2>2. assigned' \in [Clients -> Pins \union {None}]
    BY <1>1, <1>2
  <2> QED
    BY <1>1, <2>1, <2>2 DEF Inv, TypeOK, GpioType
<1> QED
  BY <1>3, <1>4, <1>5, <1>6 DEF Inv

\* A session is opened and acquires the pin assigned to it.
LEMMA SessionOpened ==
  ASSUME Inv, NEW c \in Clients, OpenSession(c)
  PROVE  Inv'
<1> DEFINE new == AssignedPin(c)
<1>1. /\ todo = {} /\ c \notin opened /\ ~Throws(c)
      /\ opened' = opened \union {c}
      /\ assigned' = [assigned EXCEPT ![c] = new]
      /\ gpio' = AcquirePin(gpio, new, ClientDirection(c))
      /\ UNCHANGED <<policy, todo, alive>>
  BY DEF OpenSession, Idle
<1>2. /\ assigned \in [Clients -> Pins \union {None}] /\ new \in Pins \union {None}
      /\ policy \in [Clients -> Names] /\ Consistent(gpio, assigned)
      /\ assigned[c] = None
  BY <1>1, AssignedType DEF Inv, TypeOK, Visited
<1> HIDE DEF new
<1>3. Consistent(gpio', assigned') /\ Recounted(gpio, gpio')
  BY <1>1, <1>2, Acquired
<1>4. Placed'
  BY <1>3, StillPlaced DEF Inv
<1>5. Visited'
  BY <1>1, <1>2, <1>3, StillVisited DEF new
<1>6. TypeOK'
  <2>1. gpio' \in GpioType
    BY <1>3 DEF Consistent
  <2>2. assigned' \in [Clients -> Pins \union {None}]
    BY <1>1, <1>2
  <2> QED
    BY <1>1, <2>1, <2>2 DEF Inv, TypeOK, GpioType
<1> QED
  BY <1>3, <1>4, <1>5, <1>6 DEF Inv

\* A session is closed and releases its pin.
LEMMA SessionClosed ==
  ASSUME Inv, NEW c \in Clients, CloseSession(c)
  PROVE  Inv'
<1>1. /\ todo = {} /\ c \in opened
      /\ opened' = opened \ {c}
      /\ assigned' = [assigned EXCEPT ![c] = None]
      /\ gpio' = ReleasePin(gpio, assigned[c], ClientDirection(c))
      /\ UNCHANGED <<policy, todo, alive>>
  BY DEF CloseSession, Idle
<1>2. /\ assigned \in [Clients -> Pins \union {None}]
      /\ policy \in [Clients -> Names] /\ Consistent(gpio, assigned)
  BY DEF Inv, TypeOK
<1>3. Consistent(gpio', assigned') /\ Recounted(gpio, gpio')
  BY <1>1, <1>2, Released
<1>4. Placed'
  BY <1>3, StillPlaced DEF Inv
<1>5. Visited'
  BY <1>1, <1>2, <1>3, StillVisited
<1>6. TypeOK'
  <2>1. gpio' \in GpioType
    BY <1>3 DEF Consistent
  <2>2. assigned' \in [Clients -> Pins \union {None}]
    BY <1>1, <1>2
  <2> QED
    BY <1>1, <2>1, <2>2 DEF Inv, TypeOK, GpioType
<1> QED
  BY <1>3, <1>4, <1>5, <1>6 DEF Inv

\* A session sets the level of its pin, whose declaration it is counted by.
LEMMA LevelSet ==
  ASSUME Inv, NEW c \in Clients, NEW high \in BOOLEAN, SetLevel(c, high)
  PROVE  Inv'
<1> DEFINE p == assigned[c]
           n == policy[c]
<1>1. /\ todo = {} /\ p # None /\ gpio' = [gpio EXCEPT !.level[p] = high]
      /\ UNCHANGED <<policy, opened, assigned, todo, alive>>
  BY DEF SetLevel, Idle
<1>2. /\ n \in Names /\ p \in Pins /\ WellFormed(gpio.pins[n])
      /\ gpio.pins[n].id = p /\ gpio.pins[n].refs # 0
  BY <1>1, InUse
<1>3. /\ gpio \in GpioType /\ Distinct(gpio) /\ Counted(gpio, assigned)
      /\ Driven(gpio) /\ Restored(gpio)
  BY DEF Inv, Consistent
<1>4. /\ gpio' \in GpioType /\ gpio'.pins = gpio.pins /\ gpio'.drive = gpio.drive
      /\ \A q \in Pins : q # p => gpio'.level[q] = gpio.level[q]
  BY <1>1, <1>2, <1>3 DEF GpioType
<1>5. Distinct(gpio') /\ Counted(gpio', assigned') /\ Driven(gpio')
  BY <1>1, <1>3, <1>4 DEF Distinct, Counted, Driven
<1>6. Restored(gpio')
  <2> SUFFICES ASSUME NEW m \in Names, WellFormed(gpio.pins[m])
               PROVE  LevelFits(gpio.pins[m], gpio'.level[gpio.pins[m].id])
    BY <1>4 DEF Restored
  <2>1. CASE m = n
    BY <2>1, <1>2 DEF LevelFits
  <2>2. CASE m # n
    <3>1. gpio.pins[m].id # p /\ gpio.pins[m].id \in Pins
      BY <2>2, <1>2, <1>3 DEF Distinct, GpioType, WellFormed, PinDeclarations
    <3>2. LevelFits(gpio.pins[m], gpio.level[gpio.pins[m].id])
      BY <1>3 DEF Restored
    <3> QED
      BY <1>4, <3>1, <3>2
  <2> QED
    BY <2>1, <2>2
<1>7. Recounted(gpio, gpio')
  BY <1>4 DEF Recounted
<1>8. Placed'
  BY <1>7, StillPlaced DEF Inv
<1>9. Visited'
  BY <1>1, <1>7, StillVisited DEF Inv, Visited
<1>10. TypeOK'
  BY <1>1, <1>4 DEF Inv, TypeOK, GpioType
<1> QED
  BY <1>4, <1>5, <1>6, <1>8, <1>9, <1>10 DEF Inv, Consistent


-----------------------------------------------------------------------------
(* Every step, and the theorems. *)

\* At the start there are no declarations and no sessions.
LEMMA StartConsistent == Init => Inv
<1> SUFFICES ASSUME Init
             PROVE  Inv
  OBVIOUS
<1>1. /\ \A n \in Names : gpio.pins[n] = None
      /\ \A c \in Clients : assigned[c] = None
      /\ opened = {} /\ todo = {} /\ alive = TRUE
      /\ gpio \in GpioType
  BY DEF Init, GpioType
<1>2. policy \in [Clients -> Names] /\ assigned \in [Clients -> Pins \union {None}]
  BY ConfigsAssumption DEF Init
<1>3. TypeOK
  BY <1>1, <1>2 DEF TypeOK, GpioType
<1>4. Consistent(gpio, assigned)
  BY <1>1 DEF Consistent, Distinct, Counted, Driven, Restored, WellFormed
<1>5. Placed /\ Visited
  BY <1>1 DEF Placed, Visited
<1> QED
  BY <1>3, <1>4, <1>5 DEF Inv

\* No step of the driver or of its sessions leaves the invariant.
LEMMA StaysInvariant == NamesStay /\ Inv /\ [Next]_vars => Inv'
<1> SUFFICES ASSUME NamesStay, Inv, [Next]_vars
             PROVE  Inv'
  OBVIOUS
<1>1. CASE UNCHANGED vars
  BY <1>1 DEF vars, Inv, TypeOK, Consistent, Distinct, Counted, Driven, Restored,
              Holders, GpioType, Placed, Visited, Throws, AssignedPin, Denied,
              Declaration
<1>2. ASSUME NEW config \in Configs, HandleConfig(config)
      PROVE  Inv'
  BY <1>2, ConfigImported
<1>3. ASSUME NEW c \in Clients, Reassign(c)
      PROVE  Inv'
  BY <1>3, SessionReassigned
<1>4. ASSUME NEW c \in Clients, OpenSession(c)
      PROVE  Inv'
  BY <1>4, SessionOpened
<1>5. ASSUME NEW c \in Clients, CloseSession(c)
      PROVE  Inv'
  BY <1>5, SessionClosed
<1>6. ASSUME NEW c \in Clients, NEW high \in BOOLEAN, SetLevel(c, high)
      PROVE  Inv'
  BY <1>6, LevelSet
<1>7. ASSUME NEW c \in Clients, Die(c)
      PROVE  Inv'
  <2>1. UNCHANGED <<gpio, policy, opened, assigned, todo>> /\ alive' \in BOOLEAN
    BY <1>7 DEF Die
  <2>2. TypeOK' /\ Placed'
    BY <2>1 DEF Inv, TypeOK, Placed
  <2>3. Consistent(gpio', assigned')
    BY <2>1 DEF Inv
  <2>4. Visited'
    BY <2>1 DEF Inv, Visited, Throws, AssignedPin, Denied, Declaration
  <2> QED
    BY <2>2, <2>3, <2>4 DEF Inv
<1> QED
  BY <1>1, <1>2, <1>3, <1>4, <1>5, <1>6, <1>7 DEF Next, Client

\* The invariant holds at all times.
THEOREM AlwaysConsistent ==
  ASSUME NamesStay
  PROVE  Spec => []Inv
<1>1. Inv /\ [Next]_vars => Inv'
  BY StaysInvariant
<1> QED
  BY StartConsistent, <1>1, PTL DEF Spec

\* If names stay with their pins, the variables have their types: ref_count
\* stays in its range, and no session is visited that is gone.
THEOREM Typing ==
  ASSUME NamesStay
  PROVE  Spec => []TypeOK
<1>1. Inv => TypeOK
  BY DEF Inv
<1> QED
  BY <1>1, AlwaysConsistent, PTL

\* If names stay with their pins, ref_count is the number of sessions that use
\* the pin, between any two handlers (acquire_pin and release_pin).
THEOREM CountsExact ==
  ASSUME NamesStay
  PROVE  Spec => []RefsExact
<1>1. Inv => RefsExact
  <2> SUFFICES ASSUME Inv, NEW n \in Names, WellFormed(gpio.pins[n])
               PROVE  gpio.pins[n].refs =
                        Cardinality(Users(gpio.pins[n].id,
                                          Direction(gpio.pins[n].function)))
    BY DEF RefsExact, WellFormed
  <2>1. Holders(assigned, gpio.pins[n].id, Direction(gpio.pins[n].function))
          = Users(gpio.pins[n].id, Direction(gpio.pins[n].function))
    BY DEF Inv, TypeOK, Visited, WellFormed, Holders, Users
  <2> QED
    BY <2>1 DEF Inv, Consistent, Counted
<1> QED
  BY <1>1, AlwaysConsistent, PTL

\* If names stay with their pins, the pin of a control session is an output
\* and a pin declared as an input is not, whatever they were before.
THEOREM OutputsDriven ==
  ASSUME NamesStay
  PROVE  Spec => []DirectionRight
<1>1. Inv => DirectionRight
  <2> SUFFICES ASSUME Inv, todo = {}
               PROVE  /\ \A c \in ControlClients :
                           assigned[c] # None => gpio.drive[assigned[c]]
                      /\ \A n \in Names, p \in Pins :
                           Declared(p, gpio.pins[n])
                           /\ gpio.pins[n].function \in {"in", "irq"}
                             => ~gpio.drive[p]
    BY DEF DirectionRight, Idle
  <2>1. ASSUME NEW c \in ControlClients, assigned[c] # None
        PROVE  gpio.drive[assigned[c]]
    <3> DEFINE d == gpio.pins[policy[c]]
    <3>1. c \in Clients /\ c \notin todo
      BY DEF Clients
    <3>2. /\ policy[c] \in Names /\ WellFormed(d) /\ d.id = assigned[c]
          /\ Direction(d.function) = ClientDirection(c) /\ d.refs # 0
      BY <2>1, <3>1, InUse
    <3>3. d.function = "out"
      BY <3>2 DEF Direction, ClientDirection
    <3>4. DriveFits(d, gpio.drive[d.id])
      BY <3>2 DEF Inv, Consistent, Driven
    <3> QED
      BY <3>2, <3>3, <3>4 DEF DriveFits
  <2>2. ASSUME NEW n \in Names, NEW p \in Pins, Declared(p, gpio.pins[n]),
               gpio.pins[n].function \in {"in", "irq"}
        PROVE  ~gpio.drive[p]
    <3>1. WellFormed(gpio.pins[n]) /\ gpio.pins[n].id = p
      BY <2>2 DEF Declared, WellFormed
    <3>2. DriveFits(gpio.pins[n], gpio.drive[p])
      BY <3>1 DEF Inv, Consistent, Driven
    <3> QED
      BY <2>2, <3>2 DEF DriveFits
  <2> QED
    BY <2>1, <2>2
<1> QED
  BY <1>1, AlwaysConsistent, PTL

\* If names stay with their pins, an output with a default level that no
\* session uses is driven with this level.
THEOREM DefaultsDriven ==
  ASSUME NamesStay
  PROVE  Spec => []DefaultDrives
<1>1. Inv => DefaultDrives
  <2> SUFFICES ASSUME Inv, NEW n \in Names, NEW p \in Pins,
                      Declared(p, gpio.pins[n]), HasDefault(gpio.pins[n]),
                      Users(p, "out") = {}
               PROVE  gpio.drive[p] /\ gpio.level[p] = gpio.pins[n].level
    BY DEF DefaultDrives
  <2> DEFINE d == gpio.pins[n]
  <2>1. WellFormed(d) /\ d.id = p /\ d.function = "out" /\ ~d.onDemand
    BY DEF Declared, WellFormed, HasDefault
  <2>2. /\ DriveFits(d, gpio.drive[p]) /\ LevelFits(d, gpio.level[p])
        /\ d.refs = Cardinality(Holders(assigned, p, "out"))
    BY <2>1 DEF Inv, Consistent, Driven, Restored, Counted, Direction
  <2>3. Holders(assigned, p, "out") = {}
    <3>1. Holders(assigned, p, "out") = Users(p, "out")
      BY <2>1 DEF Inv, TypeOK, Visited, WellFormed, Holders, Users
    <3> QED
      BY <3>1
  <2>4. d.refs = 0
    BY <2>2, <2>3, FS_EmptySet
  <2> QED
    BY <2>1, <2>2, <2>4 DEF DriveFits, LevelFits
<1> QED
  BY <1>1, AlwaysConsistent, PTL

\* If names stay with their pins, the import of a config leaves alone the level
\* of every pin that a control session holds (update_from_xml).
THEOREM LevelsKept ==
  ASSUME NamesStay
  PROVE  Spec => UpdateKeepsLevel
<1> DEFINE Kept == todo = {} /\ todo' # {}
                     => \A c \in ControlClients :
                          assigned[c] # None
                            => gpio'.level[assigned[c]] = gpio.level[assigned[c]]
<1>1. Inv /\ [Next]_vars => [Kept]_vars
  <2> SUFFICES ASSUME Inv, Next, todo = {}, todo' # {},
                      NEW c \in ControlClients, assigned[c] # None
               PROVE  gpio'.level[assigned[c]] = gpio.level[assigned[c]]
    OBVIOUS
  <2>1. PICK config \in Configs : HandleConfig(config)
    BY DEF Next, Client, Reassign, NextInLine, OpenSession, CloseSession, SetLevel, Die
  <2> DEFINE p == assigned[c]
             n == policy[c]
             pins == [m \in Names |-> Updated(gpio.pins[m], config.pins[m])]
  <2>2. /\ n \in Names /\ p \in Pins /\ WellFormed(gpio.pins[n])
        /\ gpio.pins[n].id = p /\ gpio.pins[n].refs # 0
        /\ Direction(gpio.pins[n].function) = ClientDirection(c)
    BY InUse DEF Clients
  <2>3. gpio'.level[p] = UpdatedLevel(pins, p, gpio.level[p])
    BY <2>1, <2>2 DEF HandleConfig
  <2>4. \A m \in Names : Declared(p, pins[m]) /\ HasDefault(pins[m])
                           => pins[m].refs # 0
    <3> SUFFICES ASSUME NEW m \in Names, Declared(p, pins[m]), HasDefault(pins[m])
                 PROVE  pins[m].refs # 0
      OBVIOUS
    <3>1. /\ WellFormed(pins[m]) /\ pins[m].id = p
          /\ Direction(pins[m].function) = ClientDirection(c)
      BY DEF Declared, WellFormed, HasDefault, Direction, ClientDirection
    <3>2. pins[m].refs = Cardinality(Holders(assigned, p, ClientDirection(c)))
      BY <3>1, Imported
    <3>3. gpio.pins[n].refs = Cardinality(Holders(assigned, p, ClientDirection(c)))
      BY <2>2 DEF Inv, Consistent, Counted
    <3> QED
      BY <2>2, <3>2, <3>3
  <2> HIDE DEF pins
  <2>5. UpdatedLevel(pins, p, gpio.level[p]) = gpio.level[p]
    BY <2>4 DEF UpdatedLevel
  <2> QED
    BY <2>3, <2>5
<1>2. UpdateKeepsLevel <=> [][Kept]_vars
  BY DEF UpdateKeepsLevel
<1> QED
  BY <1>1, <1>2, AlwaysConsistent, PTL DEF Spec
=============================================================================
