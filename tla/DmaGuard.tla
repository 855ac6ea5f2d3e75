------------------------------ MODULE DmaGuard ------------------------------
(***************************************************************************)
(* The DMA guard of the Zynq platform driver (src/drivers/platform/zynq/   *)
(* dma_guard.h): a hardware unit with a few segment registers, each of     *)
(* which lets a device access one range of memory.  The driver keeps the   *)
(* registers in step with the DMA buffers of the sessions that use the     *)
(* device.  The device is active meanwhile, so every register write is a   *)
(* step of its own: what holds in each state holds for each access.        *)
(*                                                                         *)
(* The platform sessions are external: they allocate and free buffers and  *)
(* create and destroy domains, one request at a time.                      *)
(***************************************************************************)
EXTENDS Integers, FiniteSets

CONSTANTS NumSegments,  \* NUM_SEGMENTS, the number of segment registers
          Domains,      \* the sessions that may use the device
          Ranges        \* the buffers: page number and size in bytes

ASSUME SegmentsAssumption == NumSegments \in Nat \ {0}
ASSUME RangesAssumption ==
         \A r \in Ranges : /\ r = [addr |-> r.addr, size |-> r.size]
                           /\ r.addr \in Nat /\ r.size \in Nat \ {0}

VARIABLES
  seg,       \* the segment registers
  buffers,   \* per session: the registry of its DMA buffers
  attached,  \* per session: its domain exists
  pc,        \* what the driver does next
  job,       \* add_range or remove_range, for every range of todo
  todo,      \* the ranges the driver has yet to add or remove
  range,     \* argument of the running call
  i,         \* its loop counter
  granted    \* ranges added and not yet being removed (history)

request == <<buffers, attached>>
vars == <<seg, request, pc, job, todo, range, i, granted>>

Slots == 0..NumSegments-1

\* log2, rounded down.
Log2(size) == CHOOSE k \in 0..30 : 2^k <= size /\ size < 2^(k+1)

\* The Size field: the power of two that holds the range, less two.
SizeField(size) ==
  LET floor == Log2(size) IN (IF 2^floor < size THEN floor + 1 ELSE floor) - 2

\* Mutant: the size in bytes where its exponent is due.
SegmentBytes(r) == [valid |-> TRUE, addr |-> r.addr, size |-> r.size]

\* The contents _add_range writes to a segment register.
Segment(r) == [valid |-> TRUE, addr |-> r.addr, size |-> SizeField(r.size)]

Init ==
  /\ seg = [s \in Slots |-> [valid |-> FALSE, addr |-> 0, size |-> 0]]
  /\ buffers = [d \in Domains |-> {}] /\ attached = [d \in Domains |-> FALSE]
  /\ pc = "idle" /\ job = "add" /\ todo = {} /\ range \in Ranges /\ i = 0
  /\ granted = {}

-----------------------------------------------------------------------------
(* Requests of the sessions.  A DMA address is in use at most once. *)

\* Call add_range or remove_range for each range of rs.
Start(what, rs) ==
  /\ job' = what /\ todo' = rs /\ pc' = "next"
  /\ UNCHANGED <<seg, range, i, granted>>

NothingToDo == UNCHANGED <<seg, pc, job, todo, range, i, granted>>

AllocBuffer(d, r) ==
  /\ pc = "idle"
  /\ \A e \in Domains : \A b \in buffers[e] : b.addr # r.addr
  /\ buffers' = [buffers EXCEPT ![d] = @ \union {r}]
  /\ UNCHANGED attached
  /\ IF attached[d] THEN Start("add", {r}) ELSE NothingToDo

FreeBuffer(d, r) ==
  /\ pc = "idle"
  /\ r \in buffers[d]
  /\ buffers' = [buffers EXCEPT ![d] = @ \ {r}]
  /\ UNCHANGED attached
  /\ IF attached[d] THEN Start("remove", {r}) ELSE NothingToDo

\* The constructor of Domain adds every buffer of the registry.
CreateDomain(d) ==
  /\ pc = "idle" /\ ~attached[d]
  /\ attached' = [attached EXCEPT ![d] = TRUE]
  /\ UNCHANGED buffers
  /\ Start("add", buffers[d])

\* Its destructor removes them.
DestroyDomain(d) ==
  /\ pc = "idle" /\ attached[d]
  /\ attached' = [attached EXCEPT ![d] = FALSE]
  /\ UNCHANGED buffers
  /\ Start("remove", buffers[d])

-----------------------------------------------------------------------------
(* The driver. *)

NextRange(r) ==
  /\ pc = "next" /\ r \in todo
  /\ range' = r /\ todo' = todo \ {r} /\ i' = 0 /\ pc' = job
  /\ granted' = IF job = "remove" THEN granted \ {r} ELSE granted
  /\ UNCHANGED <<seg, request, job>>

RequestDone ==
  /\ pc = "next" /\ todo = {}
  /\ pc' = "idle"
  /\ UNCHANGED <<seg, request, job, todo, range, i, granted>>

\* _add_range takes the first free segment ...
AddProbe ==
  /\ pc = "add" /\ i < NumSegments
  /\ IF seg[i].valid
       THEN /\ i' = i + 1
            /\ UNCHANGED <<seg, pc, granted>>
       ELSE /\ seg' = [seg EXCEPT ![i] = Segment(range)]
            /\ granted' = granted \union {range}
            /\ pc' = "next"
            /\ UNCHANGED i
  /\ UNCHANGED <<request, job, todo, range>>

\* ... or fails with an error message.
AddFails ==
  /\ pc = "add" /\ i = NumSegments
  /\ pc' = "next"
  /\ UNCHANGED <<seg, request, job, todo, range, i, granted>>

\* Mutant: the address is not compared.
MatchesAny(s) == s.valid

Matches(s) == s.valid /\ s.addr = range.addr

\* Mutant: the space of the invalidated segment is not filled.
FindSegmentOnly ==
  /\ pc = "remove" /\ i < NumSegments
  /\ i' = i + 1
  /\ IF Matches(seg[i])
       THEN /\ seg' = [seg EXCEPT ![i].valid = FALSE]
            /\ pc' = "next"
       ELSE UNCHANGED <<seg, pc>>
  /\ UNCHANGED <<request, job, todo, range, granted>>

\* _remove_range invalidates the first segment of that address ...
FindSegment ==
  /\ pc = "remove" /\ i < NumSegments
  /\ i' = i + 1
  /\ IF Matches(seg[i])
       THEN /\ seg' = [seg EXCEPT ![i].valid = FALSE]
            /\ pc' = "shift"
       ELSE UNCHANGED <<seg, pc>>
  /\ UNCHANGED <<request, job, todo, range, granted>>

FindFails ==
  /\ pc = "remove" /\ i = NumSegments
  /\ pc' = "next"
  /\ UNCHANGED <<seg, request, job, todo, range, i, granted>>

\* ... and copies each valid segment behind it one register down.
ShiftSegment ==
  /\ pc = "shift" /\ i < NumSegments
  /\ IF seg[i].valid
       THEN /\ seg' = [seg EXCEPT ![i-1] = seg[i]]
            /\ i' = i + 1
            /\ UNCHANGED pc
       ELSE /\ pc' = "next"
            /\ UNCHANGED <<seg, i>>
  /\ UNCHANGED <<request, job, todo, range, granted>>

ShiftDone ==
  /\ pc = "shift" /\ i = NumSegments
  /\ pc' = "next"
  /\ UNCHANGED <<seg, request, job, todo, range, i, granted>>

-----------------------------------------------------------------------------
Session(d) == \/ \E r \in Ranges : AllocBuffer(d, r) \/ FreeBuffer(d, r)
              \/ CreateDomain(d)
              \/ DestroyDomain(d)

Driver == \/ \E r \in Ranges : NextRange(r)
          \/ RequestDone
          \/ AddProbe \/ AddFails
          \/ FindSegment \/ FindFails
          \/ ShiftSegment \/ ShiftDone

Next == (\E d \in Domains : Session(d)) \/ Driver

Spec == Init /\ [][Next]_vars

-----------------------------------------------------------------------------
(* Properties. *)

Sizes == {SizeField(r.size) : r \in Ranges} \union {0}
Addrs == {r.addr : r \in Ranges} \union {0}

\* The variables have the types of the members they model.
TypeOK ==
  /\ seg \in [Slots -> [valid : BOOLEAN, addr : Addrs, size : Sizes]]
  /\ buffers \in [Domains -> SUBSET Ranges]
  /\ attached \in [Domains -> BOOLEAN]
  /\ pc \in {"idle", "next", "add", "remove", "shift"}
  /\ job \in {"add", "remove"}
  /\ todo \subseteq Ranges /\ range \in Ranges
  /\ i \in 0..NumSegments
  /\ granted \subseteq Ranges

\* The valid segments have no gap, except the one that is being closed right
\* behind the loop counter.  _remove_range relies on it: it stops shifting
\* at the first invalid segment.
ValidPrefix ==
  \A s, t \in Slots :
    s < t /\ seg[t].valid => seg[s].valid \/ (pc = "shift" /\ s = i - 1)

\* At every register write, a device keeps its access to each buffer that was
\* granted and is not being removed, while other buffers come and go and
\* segments are copied.
GrantedCovered ==
  \A r \in granted : \E s \in Slots : seg[s] = Segment(r)

\* Comment of _remove_range: "find segment for this address and invalidate".
\* After the call, no valid segment has the address.
RemoveInvalidates ==
  [][(pc = "remove" \/ pc = "shift") /\ pc' = "next"
       => \A s \in Slots : ~Matches(seg'[s])]_vars
=============================================================================
