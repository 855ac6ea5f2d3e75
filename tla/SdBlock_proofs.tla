--------------------------- MODULE SdBlock_proofs ---------------------------
(***************************************************************************)
(* Proofs about the Genode side of the SD-card driver, for any number of   *)
(* disks, requests and slots, and for a table of disks of any size.        *)
(*                                                                         *)
(* RequestInv relates the queue of a session, the states of its requests   *)
(* and their bios.  Watched says of every moment, and not only of those at *)
(* which the driver sleeps, what will make the poll task look at a session *)
(* that has requests: a free slot or a new packet is always matched by a   *)
(* signal, by a task that is ready, or by a disk still ahead of the task.  *)
(***************************************************************************)
EXTENDS SdBlock, FiniteSetTheorems, SequenceTheorems, TLAPS

-----------------------------------------------------------------------------
(* The inductive invariant. *)

\* The variables have the types of the members they model.
TypeOK ==
  /\ gendisks \in [Table -> Disks \union {None}]
  /\ open \subseteq Disks
  /\ queue \in [Disks -> Seq(Requests)]
  /\ req \in [Requests -> {"idle", "queued", "taken", "acked"}]
  /\ bio \in [Requests -> {"none", "flight", "done", "due", "now"}]
  /\ stale \in [Requests -> {"none", "flight", "done", "due", "now"}]
  /\ task \in {"blocked", "ready", "running"}
  /\ idx \in Table
  /\ ep \in {"idle", "execute", "stopped"}
  /\ signal \in BOOLEAN
  /\ unannounced \subseteq Requests

\* The queue of a session holds requests of its disk, each one once.
QueueHolds(d) ==
  /\ d \notin open => queue[d] = <<>>
  /\ \A i \in 1..Len(queue[d]) :
       /\ DiskOf[queue[d][i]] = d
       /\ req[queue[d][i]] = "queued"
  /\ \A i, j \in 1..Len(queue[d]) : queue[d][i] = queue[d][j] => i = j

\* What the bios of a request say of the request and of the driver: a bio of
\* this session belongs to a request that was taken and not acknowledged.
BioFits(r) ==
  /\ req[r] # "taken" => bio[r] = "none"
  /\ req[r] = "taken" => bio[r] # "none" \/ ep = "stopped"
  /\ "done" \in {bio[r], stale[r]} => signal
  /\ "due" \in {bio[r], stale[r]} => ep # "idle"
  /\ stale[r] # "now"
  /\ bio[r] = "now" => /\ ep = "execute" /\ task = "running"
                       /\ req[r] = "taken" /\ gendisks[idx] = DiskOf[r]

RequestInv ==
  /\ open \subseteq Registered
  /\ task # "blocked" => ep # "idle"
  /\ \A d \in Disks : QueueHolds(d)
  /\ \A r \in Requests : BioFits(r)

\* The C API hands out no more requests than the session has slots.
SlotsKept == \A d \in Disks : /\ IsFiniteSet(Taken(d))
                              /\ Cardinality(Taken(d)) <= Slots

\* The poll task will look at the disk in its present round.
Ahead(d) == task = "running" /\ \E i \in Table : i >= idx /\ gendisks[i] = d

Watched ==
  \A d \in open :
    queue[d] # <<>> =>
      Cardinality(Taken(d)) = Slots \/ signal \/ task = "ready" \/ Ahead(d)
-----------------------------------------------------------------------------
(* The queues. *)

\* Taking the first entry of a queue leaves the others, one place earlier.
LEMMA HeadAndRest ==
  ASSUME NEW S, NEW s \in Seq(S), s # <<>>
  PROVE  /\ Len(s) \in Nat \ {0}
         /\ Head(s) = s[1] /\ Head(s) \in S
         /\ Tail(s) \in Seq(S) /\ Len(Tail(s)) = Len(s) - 1
         /\ \A i \in 1..Len(Tail(s)) : Tail(s)[i] = s[i+1]
<1>1. Len(s) \in Nat \ {0}
  BY LenProperties, EmptySeq
<1>2. /\ Head(s) = s[1] /\ Head(s) \in S
      /\ Tail(s) \in Seq(S) /\ Len(Tail(s)) = Len(s) - 1
      /\ \A i \in 1..Len(Tail(s)) : Tail(s)[i] = s[i+1]
  BY HeadTailProperties
<1>3. QED
  BY <1>1, <1>2

\* The request that is taken is queued at the disk the poll task looks at.
LEMMA TakeFacts ==
  ASSUME TypeOK, NEW r \in Requests, Take(r)
  PROVE  LET d == DiskOf[r] IN
         /\ d \in Disks /\ d \in open /\ queue[d] # <<>>
         /\ ep = "execute" /\ task = "running" /\ gendisks[idx] = d
         /\ Cardinality(Taken(d)) < Slots
         /\ \A q \in Requests : bio[q] # "now"
         /\ r = Head(queue[d])
         /\ queue' = [queue EXCEPT ![d] = Tail(queue[d])]
         /\ queue'[d] = Tail(queue[d])
         /\ \A e \in Disks : e # d => queue'[e] = queue[e]
         /\ queue' \in [Disks -> Seq(Requests)]
<1> DEFINE d == DiskOf[r]
<1>1. d \in Disks
  BY RequestsAssumption
<1>2. /\ d \in open /\ queue[d] # <<>>
      /\ ep = "execute" /\ task = "running" /\ gendisks[idx] = d
      /\ Cardinality(Taken(d)) < Slots
      /\ \A q \in Requests : bio[q] # "now"
      /\ r = Head(queue[d])
      /\ queue' = [queue EXCEPT ![d] = Tail(queue[d])]
  BY DEF Take, Polls, Requested
<1>3. queue[d] \in Seq(Requests) /\ queue \in [Disks -> Seq(Requests)]
  BY <1>1 DEF TypeOK
<1>4. Tail(queue[d]) \in Seq(Requests)
  BY <1>2, <1>3, HeadAndRest
<1> HIDE DEF d
<1>5. /\ queue'[d] = Tail(queue[d])
      /\ \A e \in Disks : e # d => queue'[e] = queue[e]
      /\ queue' \in [Disks -> Seq(Requests)]
  BY <1>1, <1>2, <1>3, <1>4
<1>6. QED
  BY <1>1, <1>2, <1>5 DEF d

-----------------------------------------------------------------------------
(* Types. *)

\* Every reachable state is well-typed; in particular the poll task never
\* looks beyond the table of disks, and only registered disks are in it.
THEOREM Typing == Spec => []TypeOK
<1>1. Init => TypeOK
  <2> SUFFICES ASSUME Init PROVE TypeOK
    OBVIOUS
  <2>1. queue \in [Disks -> Seq(Requests)]
    BY EmptySeq DEF Init
  <2>2. idx \in Table
    BY MaxGenDisksAssumption DEF Init, Table
  <2>3. QED
    BY <2>1, <2>2 DEF Init, TypeOK
<1>2. TypeOK /\ [Next]_vars => TypeOK'
  <2> SUFFICES ASSUME TypeOK, [Next]_vars PROVE TypeOK'
    OBVIOUS
  <2> USE DEF TypeOK, packets, bios, poll, sessions, entrypoint
  <2>1. ASSUME NEW d \in Disks, ClientOpen(d) PROVE TypeOK'
    BY <2>1 DEF ClientOpen
  <2>2. ASSUME NEW d \in Disks, Close(d)
        PROVE  /\ open' \subseteq Disks
               /\ queue' \in [Disks -> Seq(Requests)]
               /\ req' \in [Requests -> {"idle", "queued", "taken", "acked"}]
               /\ unannounced' \subseteq Requests
               /\ bio' \in [Requests -> {"none", "flight", "done", "due", "now"}]
               /\ stale' \in [Requests -> {"none", "flight", "done", "due", "now"}]
    <3>1. queue' \in [Disks -> Seq(Requests)]
      BY <2>2, EmptySeq DEF Close
    <3>2. req' \in [Requests -> {"idle", "queued", "taken", "acked"}]
      BY <2>2 DEF Close
    <3>3. QED
      BY <2>2, <3>1, <3>2 DEF Close
  <2>3. ASSUME NEW d \in Disks, ClientClose(d) PROVE TypeOK'
    BY <2>2, <2>3 DEF ClientClose
  <2>4. ASSUME NEW r \in Requests, ClientSubmit(r) PROVE TypeOK'
    <3>1. DiskOf[r] \in Disks /\ queue[DiskOf[r]] \in Seq(Requests)
      BY RequestsAssumption
    <3>2. Append(queue[DiskOf[r]], r) \in Seq(Requests)
      BY <3>1, AppendProperties
    <3>3. queue' \in [Disks -> Seq(Requests)]
      BY <2>4, <3>1, <3>2 DEF ClientSubmit
    <3>4. QED
      BY <2>4, <3>3 DEF ClientSubmit
  <2>5. ASSUME NEW r \in Requests, ClientCollect(r) PROVE TypeOK'
    BY <2>5 DEF ClientCollect
  <2>6. ASSUME NEW r \in Requests, DeviceDone(r) \/ StaleDone(r) PROVE TypeOK'
    BY <2>6 DEF DeviceDone, StaleDone
  <2>7. CASE CardEvent
    BY <2>7 DEF CardEvent
  <2>8. ASSUME NEW d \in Disks, RegisterQueue(d) PROVE TypeOK'
    BY <2>8 DEF RegisterQueue
  <2>9. ASSUME NEW d \in Disks, UnregisterQueue(d) PROVE TypeOK'
    <3>1. gendisks' \in [Table -> Disks \union {None}]
      BY <2>9 DEF UnregisterQueue
    <3>2. QED
      BY <2>2, <2>9, <3>1 DEF UnregisterQueue
  <2>10. ASSUME NEW r \in Requests, BioEndIo(r) \/ StaleEndIo(r) PROVE TypeOK'
    BY <2>10 DEF BioEndIo, StaleEndIo, Ack, Unblocked
  <2>11. CASE PollStarts
    <3>1. 0 \in Table
      BY MaxGenDisksAssumption DEF Table
    <3>2. QED
      BY <2>11, <3>1 DEF PollStarts
  <2>12. CASE NextDisk
    <3>1. idx' \in Table
      BY <2>12, MaxGenDisksAssumption DEF NextDisk, Table
    <3>2. QED
      BY <2>12, <3>1 DEF NextDisk
  <2>13. ASSUME NEW r \in Requests, NEW refused \in BOOLEAN,
                BlockRequest(r, refused)
         PROVE  TypeOK'
    <3>1. queue' \in [Disks -> Seq(Requests)]
      BY <2>13, TakeFacts DEF BlockRequest
    <3>2. QED
      BY <2>13, <3>1 DEF BlockRequest
  <2>14. ASSUME NEW r \in Requests, BlockSync(r) PROVE TypeOK'
    <3>1. queue' \in [Disks -> Seq(Requests)]
      BY <2>14, TakeFacts DEF BlockSync
    <3>2. QED
      BY <2>14, <3>1 DEF BlockSync
  <2>15. ASSUME NEW r \in Requests, BlockSyncStops(r) PROVE TypeOK'
    <3>1. queue' \in [Disks -> Seq(Requests)]
      BY <2>15, TakeFacts DEF BlockSyncStops
    <3>2. QED
      BY <2>15, <3>1 DEF BlockSyncStops
  <2>16. ASSUME NEW r \in Requests, AckSync(r) PROVE TypeOK'
    BY <2>16 DEF AckSync, Ack
  <2>17. CASE HandleSignal
    BY <2>17 DEF HandleSignal, Unblocked
  <2>18. CASE NotifyPeers
    BY <2>18 DEF NotifyPeers
  <2>19. CASE UNCHANGED vars
    BY <2>19 DEF vars
  <2>20. QED
    BY <2>1, <2>3, <2>4, <2>5, <2>6, <2>7, <2>8, <2>9, <2>10, <2>11, <2>12,
       <2>13, <2>14, <2>15, <2>16, <2>17, <2>18, <2>19
    DEF Next, Clients, Linux, Driver
<1>3. QED
  BY <1>1, <1>2, PTL DEF Spec

-----------------------------------------------------------------------------
(* Requests, queues and bios. *)

\* A request stays in its queue as long as no one else takes it there.
LEMMA QueueKept ==
  ASSUME TypeOK, \A d \in Disks : QueueHolds(d),
         queue' = queue, open \subseteq open',
         \A q \in Requests : req[q] = "queued" => req'[q] = "queued"
  PROVE  \A d \in Disks : QueueHolds(d)'
<1> SUFFICES ASSUME NEW d \in Disks PROVE QueueHolds(d)'
  OBVIOUS
<1>1. queue[d] \in Seq(Requests)
  BY DEF TypeOK
<1>2. \A i \in 1..Len(queue[d]) : queue[d][i] \in Requests
  BY <1>1, ElementOfSeq
<1>3. QED
  BY <1>2 DEF QueueHolds

\* A request that is taken was queued until then.
LEMMA QueueTakenFrom ==
  ASSUME TypeOK, \A d \in Disks : QueueHolds(d), NEW r \in Requests, Take(r)
  PROVE  req[r] = "queued"
<1> DEFINE e == DiskOf[r]
<1>1. e \in Disks /\ queue[e] # <<>> /\ r = Head(queue[e])
  BY TakeFacts
<1> HIDE DEF e
<1>2. queue[e] \in Seq(Requests)
  BY <1>1 DEF TypeOK
<1>3. r = queue[e][1] /\ 1 \in 1..Len(queue[e])
  BY <1>1, <1>2, HeadAndRest
<1>4. QED
  BY <1>1, <1>3 DEF QueueHolds

\* A request that is taken leaves its queue and is in no other one.
LEMMA QueueTaken ==
  ASSUME TypeOK, \A d \in Disks : QueueHolds(d), open' = open,
         NEW r \in Requests, Take(r),
         \A q \in Requests : q # r => req'[q] = req[q]
  PROVE  \A d \in Disks : QueueHolds(d)'
<1> DEFINE e == DiskOf[r]
<1>1. /\ e \in Disks /\ e \in open /\ queue[e] # <<>> /\ r = Head(queue[e])
      /\ queue'[e] = Tail(queue[e])
      /\ \A d \in Disks : d # e => queue'[d] = queue[d]
  BY TakeFacts
<1> HIDE DEF e
<1>2. queue[e] \in Seq(Requests)
  BY <1>1 DEF TypeOK
<1>3. /\ r = queue[e][1]
      /\ Len(queue[e]) \in Nat \ {0} /\ Len(queue'[e]) = Len(queue[e]) - 1
      /\ \A i \in 1..Len(queue'[e]) : queue'[e][i] = queue[e][i+1]
  BY <1>1, <1>2, HeadAndRest
<1>4. 1 \in 1..Len(queue[e])
  BY <1>3
<1>5. DiskOf[r] = e
  BY DEF e
<1>6. ASSUME NEW d \in Disks PROVE QueueHolds(d)'
  <2>1. CASE d = e
    <3>1. \A i \in 1..Len(queue'[e]) : i+1 \in 1..Len(queue[e]) /\ i+1 # 1
      BY <1>3
    <3>2. \A i \in 1..Len(queue'[e]) : /\ queue'[e][i] # r
                                       /\ queue'[e][i] \in Requests
      BY <1>1, <1>2, <1>3, <1>4, <3>1, ElementOfSeq DEF QueueHolds
    <3>3. \A i \in 1..Len(queue'[e]) : /\ DiskOf[queue'[e][i]] = e
                                       /\ req'[queue'[e][i]] = "queued"
      BY <1>1, <1>3, <3>1, <3>2 DEF QueueHolds
    <3>4. \A i, j \in 1..Len(queue'[e]) : queue'[e][i] = queue'[e][j] => i = j
      BY <1>1, <1>3, <3>1 DEF QueueHolds
    <3>5. QED
      BY <1>1, <2>1, <3>3, <3>4 DEF QueueHolds
  <2>2. CASE d # e
    <3>1. queue'[d] = queue[d] /\ queue[d] \in Seq(Requests)
      BY <1>1, <2>2 DEF TypeOK
    <3>2. \A i \in 1..Len(queue[d]) : /\ queue[d][i] # r
                                      /\ queue[d][i] \in Requests
      BY <1>5, <2>2, <3>1, ElementOfSeq DEF QueueHolds
    <3>3. QED
      BY <3>1, <3>2 DEF QueueHolds
  <2>3. QED
    BY <2>1, <2>2
<1>7. QED
  BY <1>6

\* The end of a session empties its queue and leaves the others.
LEMMA QueueClosed ==
  ASSUME TypeOK, \A d \in Disks : QueueHolds(d), NEW e \in Disks, Close(e)
  PROVE  \A d \in Disks : QueueHolds(d)'
<1> SUFFICES ASSUME NEW d \in Disks PROVE QueueHolds(d)'
  OBVIOUS
<1>1. CASE d = e
  <2>1. queue'[d] = <<>>
    BY <1>1 DEF Close, TypeOK
  <2>2. Len(queue'[d]) = 0
    BY <2>1
  <2>3. QED
    BY <2>1, <2>2 DEF QueueHolds
<1>2. CASE d # e
  <2>1. queue'[d] = queue[d] /\ queue[d] \in Seq(Requests)
    BY <1>2 DEF Close, TypeOK
  <2>2. \A i \in 1..Len(queue[d]) : queue[d][i] \in Requests \ Of(e)
    BY <1>2, <2>1, ElementOfSeq DEF QueueHolds, Of
  <2>3. \A q \in Requests \ Of(e) : req'[q] = req[q]
    BY DEF Close, TypeOK
  <2>4. d \notin open' => d \notin open
    BY <1>2 DEF Close
  <2>5. QED
    BY <2>1, <2>2, <2>3, <2>4 DEF QueueHolds
<1>3. QED
  BY <1>1, <1>2

\* A request in a queue has not reached Linux, one that was taken has a bio
\* that will end, an ended bio is followed by a signal, and a bio that ends
\* at once is the poll task's own, for the disk it looks at.
THEOREM RequestStates == Spec => []RequestInv
<1>1. Init => RequestInv
  <2> SUFFICES ASSUME Init PROVE RequestInv
    OBVIOUS
  <2>1. ASSUME NEW d \in Disks PROVE QueueHolds(d)
    <3>1. queue[d] = <<>> /\ Len(queue[d]) = 0
      BY DEF Init
    <3>2. QED
      BY <3>1 DEF QueueHolds
  <2>2. ASSUME NEW r \in Requests PROVE BioFits(r)
    BY DEF Init, BioFits
  <2>3. QED
    BY <2>1, <2>2 DEF Init, RequestInv
<1>2. TypeOK /\ RequestInv /\ [Next]_vars => RequestInv'
  <2> SUFFICES ASSUME TypeOK, RequestInv, [Next]_vars PROVE RequestInv'
    OBVIOUS
  <2> USE DEF packets, bios, poll, sessions, entrypoint
  <2>1. /\ open \subseteq Registered
        /\ task # "blocked" => ep # "idle"
        /\ \A d \in Disks : QueueHolds(d)
        /\ \A r \in Requests : BioFits(r)
    BY DEF RequestInv
  <2>2. ASSUME gendisks' = gendisks PROVE Registered' = Registered
    BY <2>2 DEF Registered
  <2>3. ASSUME NEW d \in Disks, ClientOpen(d) PROVE RequestInv'
    <3>1. \A e \in Disks : QueueHolds(e)'
      BY <2>1, <2>3, QueueKept DEF ClientOpen
    <3>2. open' \subseteq Registered'
      BY <2>1, <2>2, <2>3 DEF ClientOpen
    <3>3. \A r \in Requests : BioFits(r)'
      BY <2>1, <2>3 DEF ClientOpen, BioFits
    <3>4. QED
      BY <2>1, <2>3, <3>1, <3>2, <3>3 DEF RequestInv, ClientOpen
  <2>4. ASSUME NEW d \in Disks, ClientClose(d) PROVE RequestInv'
    <3>1. \A e \in Disks : QueueHolds(e)'
      BY <2>1, <2>4, QueueClosed DEF ClientClose
    <3>2. open' \subseteq Registered'
      BY <2>1, <2>2, <2>4 DEF ClientClose, Close
    <3>3. \A r \in Requests : BioFits(r)'
      BY <2>1, <2>4 DEF ClientClose, Close, BioFits
    <3>4. QED
      BY <2>1, <2>4, <3>1, <3>2, <3>3 DEF RequestInv, ClientClose
  <2>5. ASSUME NEW r \in Requests, ClientSubmit(r) PROVE RequestInv'
    <3> DEFINE d == DiskOf[r]
    <3>1. /\ d \in Disks /\ d \in open /\ req[r] = "idle"
          /\ queue' = [queue EXCEPT ![d] = Append(queue[d], r)]
          /\ req' = [req EXCEPT ![r] = "queued"] /\ open' = open
      BY <2>5, RequestsAssumption DEF ClientSubmit
    <3>2. /\ queue \in [Disks -> Seq(Requests)]
          /\ req \in [Requests -> {"idle", "queued", "taken", "acked"}]
      BY DEF TypeOK
    <3> HIDE DEF d
    <3>3. /\ queue'[d] = Append(queue[d], r)
          /\ \A e \in Disks : e # d => queue'[e] = queue[e]
          /\ req'[r] = "queued"
          /\ \A q \in Requests : q # r => req'[q] = req[q]
      BY <3>1, <3>2
    <3>4. \A e \in Disks : \A i \in 1..Len(queue[e]) :
            queue[e][i] \in Requests /\ queue[e][i] # r
      BY <2>1, <3>1, <3>2, ElementOfSeq DEF QueueHolds
    <3>5. ASSUME NEW e \in Disks PROVE QueueHolds(e)'
      <4>1. CASE e = d
        <5>1. queue[d] \in Seq(Requests)
          BY <3>1, <3>2
        <5>2. /\ Len(queue[d]) \in Nat /\ Len(queue'[d]) = Len(queue[d]) + 1
              /\ \A i \in 1..Len(queue[d]) : queue'[d][i] = queue[d][i]
              /\ queue'[d][Len(queue[d]) + 1] = r
          BY <3>3, <5>1, AppendProperties, LenProperties
        <5>3. \A i \in 1..Len(queue'[d]) :
                i \in 1..Len(queue[d]) \/ i = Len(queue[d]) + 1
          BY <5>2
        <5>4. \A i \in 1..Len(queue'[d]) : /\ DiskOf[queue'[d][i]] = d
                                           /\ req'[queue'[d][i]] = "queued"
          BY <2>1, <3>1, <3>3, <3>4, <5>2, <5>3 DEF QueueHolds, d
        <5>5. \A i, j \in 1..Len(queue'[d]) :
                queue'[d][i] = queue'[d][j] => i = j
          BY <2>1, <3>1, <3>4, <5>2, <5>3 DEF QueueHolds
        <5>6. QED
          BY <3>1, <4>1, <5>4, <5>5 DEF QueueHolds
      <4>2. CASE e # d
        BY <2>1, <3>1, <3>3, <3>4, <4>2 DEF QueueHolds
      <4>3. QED
        BY <4>1, <4>2
    <3>6. open' \subseteq Registered'
      BY <2>1, <2>2, <2>5 DEF ClientSubmit
    <3>7. \A q \in Requests : BioFits(q)'
      BY <2>1, <2>5, <3>3 DEF ClientSubmit, BioFits
    <3>8. QED
      BY <2>1, <2>5, <3>5, <3>6, <3>7 DEF RequestInv, ClientSubmit
  <2>6. ASSUME NEW r \in Requests, ClientCollect(r) PROVE RequestInv'
    <3>1. \A e \in Disks : QueueHolds(e)'
      BY <2>1, <2>6, QueueKept DEF ClientCollect, TypeOK
    <3>2. open' \subseteq Registered'
      BY <2>1, <2>2, <2>6 DEF ClientCollect
    <3>3. \A q \in Requests : BioFits(q)'
      BY <2>1, <2>6 DEF ClientCollect, BioFits, TypeOK
    <3>4. QED
      BY <2>1, <2>6, <3>1, <3>2, <3>3 DEF RequestInv, ClientCollect
  <2>7. ASSUME NEW r \in Requests, DeviceDone(r) \/ StaleDone(r)
        PROVE  RequestInv'
    <3>1. \A e \in Disks : QueueHolds(e)'
      BY <2>1, <2>7, QueueKept DEF DeviceDone, StaleDone
    <3>2. open' \subseteq Registered'
      BY <2>1, <2>2, <2>7 DEF DeviceDone, StaleDone
    <3>3. \A q \in Requests : BioFits(q)'
      BY <2>1, <2>7 DEF DeviceDone, StaleDone, BioFits, TypeOK
    <3>4. QED
      BY <2>1, <2>7, <3>1, <3>2, <3>3 DEF RequestInv, DeviceDone, StaleDone
  <2>8. CASE CardEvent
    <3>1. \A e \in Disks : QueueHolds(e)'
      BY <2>1, <2>8, QueueKept DEF CardEvent
    <3>2. open' \subseteq Registered'
      BY <2>1, <2>2, <2>8 DEF CardEvent
    <3>3. \A q \in Requests : BioFits(q)'
      BY <2>1, <2>8 DEF CardEvent, BioFits
    <3>4. QED
      BY <2>1, <2>8, <3>1, <3>2, <3>3 DEF RequestInv, CardEvent
  <2>9. ASSUME NEW d \in Disks, RegisterQueue(d) PROVE RequestInv'
    <3>1. \A e \in Disks : QueueHolds(e)'
      BY <2>1, <2>9, QueueKept DEF RegisterQueue
    <3>2. open' \subseteq Registered'
      <4>1. PICK i \in Table : /\ gendisks[i] = None
                               /\ gendisks' = [gendisks EXCEPT ![i] = d]
        BY <2>9 DEF RegisterQueue
      <4>2. Registered \subseteq Registered'
        BY <4>1 DEF Registered, TypeOK
      <4>3. QED
        BY <2>1, <2>9, <4>2 DEF RegisterQueue
    <3>3. \A q \in Requests : BioFits(q)'
      BY <2>1, <2>9 DEF RegisterQueue, LinuxRuns, BioFits
    <3>4. QED
      BY <2>1, <2>9, <3>1, <3>2, <3>3 DEF RequestInv, RegisterQueue
  <2>10. ASSUME NEW d \in Disks, UnregisterQueue(d) PROVE RequestInv'
    <3>1. \A e \in Disks : QueueHolds(e)'
      BY <2>1, <2>10, QueueClosed DEF UnregisterQueue
    <3>2. open' \subseteq Registered'
      <4>1. /\ open' = open \ {d}
            /\ gendisks' = [i \in Table |->
                             IF gendisks[i] = d THEN None ELSE gendisks[i]]
        BY <2>10 DEF UnregisterQueue, Close
      <4>2. Registered \ {d} \subseteq Registered'
        BY <4>1 DEF Registered
      <4>3. QED
        BY <2>1, <4>1, <4>2
    <3>3. \A q \in Requests : BioFits(q)'
      BY <2>1, <2>10 DEF UnregisterQueue, Close, LinuxRuns, BioFits
    <3>4. QED
      BY <2>1, <2>10, <3>1, <3>2, <3>3 DEF RequestInv, UnregisterQueue
  <2>11. ASSUME NEW r \in Requests, BioEndIo(r) PROVE RequestInv'
    <3>0. /\ bio[r] \in {"now", "done", "due"} /\ ep = "execute"
          /\ req[r] = "taken"
      BY <2>1, <2>11 DEF BioEndIo, LinuxRuns, BioFits
    <3>1. \A e \in Disks : QueueHolds(e)'
      BY <2>1, <2>11, <3>0, QueueKept DEF BioEndIo, Ack, TypeOK
    <3>2. open' \subseteq Registered'
      BY <2>1, <2>2, <2>11 DEF BioEndIo
    <3>3. \A q \in Requests : BioFits(q)'
      <4>0. stale' = stale
        BY <2>11 DEF BioEndIo
      <4>1. \A q \in Requests : q # r => bio'[q] = bio[q] /\ req'[q] = req[q]
        BY <2>11 DEF BioEndIo, Ack, TypeOK
      <4>2. bio'[r] = "none" /\ req'[r] # "taken"
        BY <2>11 DEF BioEndIo, Ack, TypeOK
      <4>3. task = "running" => task' = "running"
        BY <2>11 DEF BioEndIo, Unblocked
      <4>4. UNCHANGED <<signal, ep, gendisks, idx>>
        BY <2>11 DEF BioEndIo
      <4>5. QED
        BY <2>1, <4>0, <4>1, <4>2, <4>3, <4>4 DEF BioFits
    <3>4. QED
      BY <2>1, <2>11, <3>0, <3>1, <3>2, <3>3 DEF RequestInv, BioEndIo
  <2>24. ASSUME NEW r \in Requests, StaleEndIo(r) PROVE RequestInv'
    <3>1. \A e \in Disks : QueueHolds(e)'
      BY <2>1, <2>24, QueueKept DEF StaleEndIo
    <3>2. open' \subseteq Registered'
      BY <2>1, <2>2, <2>24 DEF StaleEndIo
    <3>3. \A q \in Requests : BioFits(q)'
      <4>1. \A q \in Requests : stale'[q] = stale[q] \/ stale'[q] = "none"
        BY <2>24 DEF StaleEndIo, TypeOK
      <4>2. task = "running" => task' = "running"
        BY <2>24 DEF StaleEndIo, Unblocked
      <4>3. UNCHANGED <<signal, ep, gendisks, idx, req, bio>>
        BY <2>24 DEF StaleEndIo
      <4>4. QED
        BY <2>1, <4>1, <4>2, <4>3 DEF BioFits
    <3>4. ep' = "execute"
      BY <2>24 DEF StaleEndIo, LinuxRuns
    <3>5. QED
      BY <3>1, <3>2, <3>3, <3>4 DEF RequestInv
  <2>12. CASE PollStarts
    <3>1. \A e \in Disks : QueueHolds(e)'
      BY <2>1, <2>12, QueueKept DEF PollStarts
    <3>2. open' \subseteq Registered'
      BY <2>1, <2>2, <2>12 DEF PollStarts
    <3>3. \A q \in Requests : BioFits(q)'
      BY <2>1, <2>12 DEF PollStarts, BioFits
    <3>4. QED
      BY <2>1, <2>12, <3>1, <3>2, <3>3 DEF RequestInv, PollStarts
  <2>13. CASE NextDisk
    <3>1. \A e \in Disks : QueueHolds(e)'
      BY <2>1, <2>13, QueueKept DEF NextDisk
    <3>2. open' \subseteq Registered'
      BY <2>1, <2>2, <2>13 DEF NextDisk
    <3>3. \A q \in Requests : BioFits(q)'
      BY <2>1, <2>13 DEF NextDisk, Polls, BioFits
    <3>4. QED
      BY <2>1, <2>13, <3>1, <3>2, <3>3 DEF RequestInv, NextDisk
  <2>14. ASSUME NEW r \in Requests, Take(r), UNCHANGED <<sessions, poll, signal>>,
                req' = [req EXCEPT ![r] = "taken"],
                NEW b \in {"none", "flight", "now"},
                bio' = [bio EXCEPT ![r] = b], stale' = stale,
                ep' = IF b = "none" THEN "stopped" ELSE ep
         PROVE  RequestInv'
    <3>1. \A e \in Disks : QueueHolds(e)'
      BY <2>1, <2>14, QueueTaken DEF TypeOK
    <3>2. open' \subseteq Registered'
      BY <2>1, <2>2, <2>14
    <3>3. /\ ep = "execute" /\ task = "running" /\ gendisks[idx] = DiskOf[r]
          /\ \A q \in Requests : bio[q] # "now"
      BY <2>14, TakeFacts
    <3>4. \A q \in Requests : BioFits(q)'
      BY <2>1, <2>14, <3>3 DEF BioFits, TypeOK
    <3>5. QED
      BY <2>1, <2>14, <3>1, <3>2, <3>3, <3>4 DEF RequestInv
  <2>15. ASSUME NEW r \in Requests, NEW refused \in BOOLEAN,
                BlockRequest(r, refused)
         PROVE  RequestInv'
    BY <2>14, <2>15 DEF BlockRequest
  <2>16. ASSUME NEW r \in Requests, BlockSync(r) PROVE RequestInv'
    BY <2>14, <2>16 DEF BlockSync
  <2>17. ASSUME NEW r \in Requests, BlockSyncStops(r) PROVE RequestInv'
    <3>1. req[r] = "queued"
      BY <2>1, <2>17, QueueTakenFrom DEF BlockSyncStops
    <3>2. bio' = [bio EXCEPT ![r] = "none"]
      BY <2>1, <2>17, <3>1 DEF BlockSyncStops, BioFits, TypeOK
    <3>3. QED
      BY <2>14, <2>17, <3>2 DEF BlockSyncStops
  <2>18. ASSUME NEW r \in Requests, AckSync(r) PROVE RequestInv'
    <3>0. bio[r] = "now" /\ req[r] = "taken"
      BY <2>1, <2>18 DEF AckSync, BioFits
    <3>1. \A e \in Disks : QueueHolds(e)'
      BY <2>1, <2>18, <3>0, QueueKept DEF AckSync, Ack, TypeOK
    <3>2. open' \subseteq Registered'
      BY <2>1, <2>2, <2>18 DEF AckSync
    <3>3. \A q \in Requests : BioFits(q)'
      BY <2>1, <2>18 DEF AckSync, Ack, BioFits, TypeOK
    <3>4. QED
      BY <2>1, <2>18, <3>1, <3>2, <3>3 DEF RequestInv, AckSync
  <2>19. CASE HandleSignal
    <3>1. \A e \in Disks : QueueHolds(e)'
      BY <2>1, <2>19, QueueKept DEF HandleSignal
    <3>2. open' \subseteq Registered'
      BY <2>1, <2>2, <2>19 DEF HandleSignal
    <3>3. \A q \in Requests : BioFits(q)'
      BY <2>1, <2>19 DEF HandleSignal, BioFits
    <3>4. QED
      BY <2>1, <2>19, <3>1, <3>2, <3>3 DEF RequestInv, HandleSignal
  <2>20. CASE NotifyPeers
    <3>1. \A e \in Disks : QueueHolds(e)'
      BY <2>1, <2>20, QueueKept DEF NotifyPeers
    <3>2. open' \subseteq Registered'
      BY <2>1, <2>2, <2>20 DEF NotifyPeers
    <3>3. \A q \in Requests : BioFits(q)'
      BY <2>1, <2>20 DEF NotifyPeers, Executed, BioFits
    <3>4. QED
      BY <2>1, <2>20, <3>1, <3>2, <3>3 DEF RequestInv, NotifyPeers, Executed
  <2>21. CASE UNCHANGED vars
    <3>1. \A e \in Disks : QueueHolds(e)'
      BY <2>1, <2>21, QueueKept DEF vars
    <3>2. open' \subseteq Registered'
      BY <2>1, <2>2, <2>21 DEF vars
    <3>3. \A q \in Requests : BioFits(q)'
      BY <2>1, <2>21 DEF vars, BioFits
    <3>4. QED
      BY <2>1, <2>21, <3>1, <3>2, <3>3 DEF RequestInv, vars
  <2>22. QED
    BY <2>3, <2>4, <2>5, <2>6, <2>7, <2>8, <2>9, <2>10, <2>11, <2>12, <2>13, <2>24,
       <2>15, <2>16, <2>17, <2>18, <2>19, <2>20, <2>21
    DEF Next, Clients, Linux, Driver
<1>3. QED
  BY <1>1, <1>2, Typing, PTL DEF Spec

-----------------------------------------------------------------------------
(* Slots. *)

\* A step that takes no request leaves every session its slots.
LEMMA FewerTaken ==
  ASSUME SlotsKept, \A q \in Requests : req'[q] = "taken" => req[q] = "taken"
  PROVE  \A d \in Disks : /\ IsFiniteSet(Taken(d)')
                          /\ Cardinality(Taken(d)') <= Slots
                          /\ Taken(d)' \subseteq Taken(d)
<1> SUFFICES ASSUME NEW d \in Disks
             PROVE  /\ IsFiniteSet(Taken(d)')
                    /\ Cardinality(Taken(d)') <= Slots
                    /\ Taken(d)' \subseteq Taken(d)
  OBVIOUS
<1>1. Taken(d)' \subseteq Taken(d)
  BY DEF Taken, Of
<1>2. /\ IsFiniteSet(Taken(d)) /\ Cardinality(Taken(d)) <= Slots
      /\ Cardinality(Taken(d)) \in Nat
  BY FS_CardinalityType DEF SlotsKept
<1>3. /\ IsFiniteSet(Taken(d)')
      /\ Cardinality(Taken(d)') <= Cardinality(Taken(d))
      /\ Cardinality(Taken(d)') \in Nat
  BY <1>1, <1>2, FS_Subset, FS_CardinalityType
<1>4. QED
  BY <1>1, <1>2, <1>3, SlotsAssumption

\* The driver never holds more requests of a session than it has slots,
\* whatever clients close and open sessions in between.
THEOREM SlotLimit == Spec => []SlotsKept
<1>1. Init => SlotsKept
  <2> SUFFICES ASSUME Init, NEW d \in Disks
               PROVE  IsFiniteSet(Taken(d)) /\ Cardinality(Taken(d)) <= Slots
    BY DEF SlotsKept
  <2>1. Taken(d) = {}
    BY DEF Init, Taken, Of
  <2>2. QED
    BY <2>1, FS_EmptySet, SlotsAssumption
<1>2. TypeOK /\ RequestInv /\ SlotsKept /\ [Next]_vars => SlotsKept'
  <2> SUFFICES ASSUME TypeOK, RequestInv, SlotsKept, [Next]_vars
               PROVE  SlotsKept'
    OBVIOUS
  <2> DEFINE Fewer == \A q \in Requests : req'[q] = "taken" => req[q] = "taken"
             More(r) == Take(r) /\ req' = [req EXCEPT ![r] = "taken"]
  <2>1. ASSUME Fewer PROVE SlotsKept'
    BY <2>1, FewerTaken DEF SlotsKept
  <2>2. ASSUME NEW r \in Requests, More(r) PROVE SlotsKept'
    <3> DEFINE e == DiskOf[r]
    <3>1. e \in Disks /\ Cardinality(Taken(e)) < Slots
      BY <2>2, TakeFacts
    <3>2. Taken(e)' = Taken(e) \union {r}
      BY <2>2 DEF Taken, Of, TypeOK
    <3>3. \A d \in Disks : d # e => Taken(d)' = Taken(d)
      BY <2>2 DEF Taken, Of, TypeOK
    <3> HIDE DEF e
    <3>4. IsFiniteSet(Taken(e)) /\ Cardinality(Taken(e)) \in Nat
      BY <3>1, FS_CardinalityType DEF SlotsKept
    <3>5. /\ IsFiniteSet(Taken(e)')
          /\ \/ Cardinality(Taken(e)') = Cardinality(Taken(e))
             \/ Cardinality(Taken(e)') = Cardinality(Taken(e)) + 1
      BY <3>2, <3>4, FS_AddElement
    <3>6. Cardinality(Taken(e)') <= Slots
      BY <3>1, <3>4, <3>5, SlotsAssumption
    <3>7. QED
      BY <3>3, <3>5, <3>6 DEF SlotsKept
  <2>3. Fewer \/ \E r \in Requests : More(r)
    <3> USE DEF packets, bios
    <3>1. ASSUME Clients PROVE Fewer \/ \E r \in Requests : More(r)
      BY <3>1 DEF Clients, ClientOpen, ClientClose, Close, ClientSubmit,
                  ClientCollect, TypeOK
    <3>2. ASSUME Linux PROVE Fewer \/ \E r \in Requests : More(r)
      BY <3>2 DEF Linux, RegisterQueue, UnregisterQueue, Close, TypeOK
    <3>3. ASSUME Driver PROVE Fewer \/ \E r \in Requests : More(r)
      BY <3>3 DEF Driver, HandleSignal, PollStarts, NextDisk, NotifyPeers,
                  BlockRequest, BlockSync, BlockSyncStops, AckSync, BioEndIo,
                  StaleEndIo, Ack, TypeOK
    <3>4. QED
      BY <3>1, <3>2, <3>3 DEF Next, CardEvent, DeviceDone, StaleDone, vars
  <2>4. QED
    BY <2>1, <2>2, <2>3
<1>3. QED
  BY <1>1, <1>2, Typing, RequestStates, PTL DEF Spec

-----------------------------------------------------------------------------
(* Wakeups. *)

\* A session whose requests keep their states keeps its slots as they are.
LEMMA SameTaken ==
  ASSUME NEW d \in Disks, \A q \in Of(d) : req'[q] = req[q]
  PROVE  Taken(d)' = Taken(d)
  BY DEF Taken, Of

\* Whenever a session has requests and a free slot, something is on its way
\* that makes the poll task look at it.
THEOREM AlwaysWatched == Spec => []Watched
<1>1. Init => Watched
  BY DEF Init, Watched
<1>2. /\ TypeOK /\ RequestInv /\ SlotsKept /\ Watched /\ [Next]_vars
      => Watched'
  <2> SUFFICES ASSUME TypeOK, RequestInv, SlotsKept, Watched, [Next]_vars,
                      NEW d \in open', queue'[d] # <<>>
               PROVE  \/ Cardinality(Taken(d))' = Slots \/ signal'
                      \/ task' = "ready" \/ Ahead(d)'
    BY DEF Watched
  <2> DEFINE Full == Cardinality(Taken(d)) = Slots
             Goal == Full' \/ signal' \/ task' = "ready" \/ Ahead(d)'
  <2> SUFFICES Goal
    OBVIOUS
  <2> USE DEF packets, bios, poll, sessions, entrypoint
  <2>0. /\ open \subseteq Disks /\ Disks \intersect {None} = {}
        /\ open \subseteq Registered
        /\ \A e \in Disks \ open : queue[e] = <<>>
        /\ \A r \in Requests : BioFits(r)
        /\ \A r \in Requests : DiskOf[r] \in Disks
    BY NoneAssumption, RequestsAssumption
    DEF TypeOK, RequestInv, QueueHolds
  <2>1. d \in open /\ queue[d] # <<>> =>
          Full \/ signal \/ task = "ready" \/ Ahead(d)
    BY DEF Watched
  <2>2. ASSUME d \in open, queue[d] # <<>>, Taken(d)' = Taken(d),
               UNCHANGED <<signal, task, idx, gendisks>>
        PROVE  Goal
    BY <2>1, <2>2 DEF Ahead
  <2>3. ASSUME NEW e \in Disks, ClientOpen(e) PROVE Goal
    <3>1. e \notin open /\ open' = open \union {e} /\ queue' = queue
      BY <2>3 DEF ClientOpen
    <3>2. d \in open /\ queue[d] # <<>> /\ d \in Disks
      BY <2>0, <3>1
    <3>3. Taken(d)' = Taken(d)
      BY <2>3, <3>2, SameTaken DEF ClientOpen
    <3>4. QED
      BY <2>2, <2>3, <3>2, <3>3 DEF ClientOpen
  <2>4. ASSUME NEW e \in Disks, Close(e)
        PROVE  d \in open /\ queue[d] # <<>> /\ Taken(d)' = Taken(d) /\ d # e
    <3>1. d \in open /\ d # e /\ d \in Disks
      BY <2>0, <2>4 DEF Close
    <3>2. queue'[d] = queue[d]
      BY <2>4, <3>1 DEF Close, TypeOK
    <3>3. \A q \in Of(d) : req'[q] = req[q]
      BY <2>4, <3>1 DEF Close, Of, TypeOK
    <3>4. QED
      BY <3>1, <3>2, <3>3, SameTaken
  <2>5. ASSUME NEW e \in Disks, ClientClose(e) PROVE Goal
    BY <2>2, <2>4, <2>5 DEF ClientClose
  <2>6. ASSUME NEW r \in Requests, ClientSubmit(r) PROVE Goal
    <3> DEFINE e == DiskOf[r]
    <3>1. /\ e \in open /\ open' = open /\ d \in Disks /\ d \in open
          /\ signal' = (signal \/ queue[e] = <<>>)
          /\ queue' = [queue EXCEPT ![e] = Append(@, r)]
          /\ req[r] = "idle" /\ req' = [req EXCEPT ![r] = "queued"]
          /\ UNCHANGED <<task, idx, gendisks>>
      BY <2>0, <2>6 DEF ClientSubmit
    <3> HIDE DEF e
    <3>2. Taken(d)' = Taken(d)
      BY <3>1 DEF Taken, Of, TypeOK
    <3>3. queue[d] # <<>> \/ signal'
      BY <3>1 DEF TypeOK
    <3>4. QED
      BY <2>1, <3>1, <3>2, <3>3 DEF Ahead
  <2>7. ASSUME NEW r \in Requests, ClientCollect(r) PROVE Goal
    <3>1. Taken(d)' = Taken(d)
      BY <2>7 DEF ClientCollect, Taken, Of, TypeOK
    <3>2. QED
      BY <2>2, <2>7, <3>1 DEF ClientCollect
  <2>8. ASSUME NEW r \in Requests, DeviceDone(r) \/ StaleDone(r) PROVE Goal
    BY <2>8 DEF DeviceDone, StaleDone
  <2>9. CASE CardEvent
    BY <2>9 DEF CardEvent
  <2>10. ASSUME NEW e \in Disks, RegisterQueue(e) PROVE Goal
    <3>1. /\ d \in open /\ queue[d] # <<>> /\ d \in Disks /\ task # "running"
          /\ UNCHANGED <<signal, task>>
      BY <2>0, <2>10 DEF RegisterQueue, LinuxRuns
    <3>2. Taken(d)' = Taken(d)
      BY <2>10, <3>1, SameTaken DEF RegisterQueue
    <3>3. QED
      BY <2>1, <3>1, <3>2 DEF Ahead
  <2>11. ASSUME NEW e \in Disks, UnregisterQueue(e) PROVE Goal
    <3>1. task # "running" /\ UNCHANGED <<signal, task>>
      BY <2>11 DEF UnregisterQueue, LinuxRuns
    <3>2. d \in open /\ queue[d] # <<>> /\ Taken(d)' = Taken(d)
      BY <2>4, <2>11 DEF UnregisterQueue
    <3>3. QED
      BY <2>1, <3>1, <3>2 DEF Ahead
  <2>12. ASSUME NEW r \in Requests, BioEndIo(r) PROVE Goal
    <3>1. /\ open' = open /\ queue' = queue
          /\ UNCHANGED <<signal, idx, gendisks>>
          /\ task' = Unblocked
      BY <2>12 DEF BioEndIo
    <3>2. d \in open /\ d \in Disks /\ queue[d] # <<>>
      BY <2>0, <3>1
    <3>3. CASE DiskOf[r] # d
      <4>1. \A q \in Of(d) : req'[q] = req[q]
        BY <2>12, <3>3 DEF BioEndIo, Ack, Of, TypeOK
      <4>2. Taken(d)' = Taken(d)
        BY <3>2, <4>1, SameTaken
      <4>3. task' = task \/ (task = "blocked" /\ task' = "ready")
        BY <3>1 DEF Unblocked
      <4>4. QED
        BY <2>1, <3>1, <3>2, <4>2, <4>3 DEF Ahead
    <3>4. CASE DiskOf[r] = d
      <4>1. task' = Unblocked
        BY <3>1, <3>2, <3>4
      <4>2. CASE task = "running"
        <5>1. gendisks[idx] = d
          BY <2>0, <2>12, <3>4, <4>2 DEF BioEndIo, LinuxRuns, BioFits
        <5>2. idx \in Table /\ idx >= idx
          BY DEF TypeOK, Table
        <5>3. task' = "running" /\ idx' = idx /\ gendisks' = gendisks
          BY <3>1, <4>1, <4>2 DEF Unblocked
        <5>4. QED
          BY <5>1, <5>2, <5>3 DEF Ahead
      <4>3. CASE task # "running"
        BY <4>1, <4>3 DEF Unblocked, TypeOK
      <4>4. QED
        BY <4>2, <4>3
    <3>5. QED
      BY <3>3, <3>4
  <2>24. ASSUME NEW r \in Requests, StaleEndIo(r) PROVE Goal
    <3>1. /\ d \in open /\ d \in Disks /\ queue[d] # <<>> /\ req' = req
          /\ UNCHANGED <<signal, idx, gendisks>>
          /\ task' = task \/ (task = "blocked" /\ task' = "ready")
      BY <2>0, <2>24 DEF StaleEndIo, Unblocked
    <3>2. Taken(d)' = Taken(d)
      BY <3>1, SameTaken
    <3>3. QED
      BY <2>1, <3>1, <3>2 DEF Ahead
  <2>13. CASE PollStarts
    <3>1. open' = open /\ gendisks' = gendisks /\ task' = "running" /\ idx' = 0
      BY <2>13 DEF PollStarts
    <3>2. d \in Registered
      BY <2>0, <3>1
    <3>3. PICK i \in Table : gendisks[i] = d
      BY <3>2 DEF Registered
    <3>4. i >= 0
      BY MaxGenDisksAssumption DEF Table
    <3>5. QED
      BY <3>1, <3>3, <3>4 DEF Ahead
  <2>14. CASE NextDisk
    <3>1. /\ open' = open /\ queue' = queue /\ req' = req
          /\ UNCHANGED <<signal, gendisks>>
          /\ gendisks[idx] \in Disks => ~Requested(gendisks[idx])
          /\ task = "running"
      BY <2>14 DEF NextDisk, Polls
    <3>2. d \in open /\ d \in Disks /\ queue[d] # <<>>
      BY <2>0, <3>1
    <3>3. Taken(d)' = Taken(d)
      BY <3>1, <3>2, SameTaken
    <3>4. CASE gendisks[idx] = d
      <4>1. ~(Cardinality(Taken(d)) < Slots)
        BY <3>1, <3>2, <3>4 DEF Requested
      <4>2. Cardinality(Taken(d)) <= Slots /\ Cardinality(Taken(d)) \in Nat
        BY <3>2, FS_CardinalityType DEF SlotsKept
      <4>3. QED
        BY <3>3, <4>1, <4>2, SlotsAssumption
    <3>5. CASE Ahead(d) /\ gendisks[idx] # d
      <4>1. PICK i \in Table : i >= idx /\ gendisks[i] = d
        BY <3>5 DEF Ahead
      <4>2. /\ idx \in Nat /\ i \in Nat /\ i >= idx + 1
            /\ idx + 1 < MaxGenDisks
        BY <3>5, <4>1, MaxGenDisksAssumption DEF TypeOK, Table
      <4>3. idx' = idx + 1 /\ task' = "running"
        BY <2>14, <3>1, <4>2 DEF NextDisk
      <4>4. QED
        BY <3>1, <4>1, <4>2, <4>3 DEF Ahead
    <3>6. QED
      BY <2>1, <3>1, <3>2, <3>3, <3>4, <3>5
  <2>15. ASSUME NEW r \in Requests, Take(r), UNCHANGED <<sessions, poll, signal>>,
                req' = [req EXCEPT ![r] = "taken"]
         PROVE  Goal
    <3> DEFINE e == DiskOf[r]
    <3>1. /\ task = "running" /\ gendisks[idx] = e
          /\ \A c \in Disks : c # e => queue'[c] = queue[c]
      BY <2>15, TakeFacts
    <3>2. d \in open /\ d \in Disks
      BY <2>0, <2>15
    <3>3. CASE d = e
      <4>1. idx \in Table /\ idx >= idx
        BY DEF TypeOK, Table
      <4>2. QED
        BY <2>15, <3>1, <3>3, <4>1 DEF Ahead
    <3>4. CASE d # e
      <4>1. queue[d] # <<>>
        BY <3>1, <3>2, <3>4
      <4>2. \A q \in Of(d) : req'[q] = req[q]
        BY <2>15, <3>4 DEF Of, TypeOK
      <4>3. QED
        BY <2>2, <2>15, <3>2, <4>1, <4>2, SameTaken
    <3>5. QED
      BY <3>3, <3>4
  <2>16. ASSUME NEW r \in Requests, NEW refused \in BOOLEAN,
                BlockRequest(r, refused)
         PROVE  Goal
    BY <2>15, <2>16 DEF BlockRequest
  <2>17. ASSUME NEW r \in Requests, BlockSync(r) PROVE Goal
    BY <2>15, <2>17 DEF BlockSync
  <2>18. ASSUME NEW r \in Requests, BlockSyncStops(r) PROVE Goal
    BY <2>15, <2>18 DEF BlockSyncStops
  <2>19. ASSUME NEW r \in Requests, AckSync(r) PROVE Goal
    <3>1. bio[r] = "now" /\ task = "running" /\ gendisks[idx] = DiskOf[r]
      BY <2>0, <2>19 DEF AckSync, BioFits
    <3>2. /\ open' = open /\ queue' = queue
          /\ UNCHANGED <<signal, task, idx, gendisks>>
          /\ req' = [req EXCEPT ![r] = "acked"]
      BY <2>19 DEF AckSync, Ack
    <3>3. CASE d = DiskOf[r]
      <4>1. idx \in Table /\ idx >= idx
        BY DEF TypeOK, Table
      <4>2. QED
        BY <3>1, <3>2, <3>3, <4>1 DEF Ahead
    <3>4. CASE d # DiskOf[r]
      <4>1. d \in Disks /\ \A q \in Of(d) : req'[q] = req[q]
        BY <2>0, <3>2, <3>4 DEF Of, TypeOK
      <4>2. QED
        BY <2>2, <3>2, <4>1, SameTaken
    <3>5. QED
      BY <3>3, <3>4
  <2>20. CASE HandleSignal
    <3>1. task = "blocked" => task' = "ready"
      BY <2>20 DEF HandleSignal, Unblocked
    <3>2. ep = "idle"
      BY <2>20 DEF HandleSignal
    <3>3. QED
      BY <3>1, <3>2 DEF RequestInv
  <2>21. CASE NotifyPeers
    <3>1. d \in open /\ queue[d] # <<>> /\ d \in Disks /\ req' = req
      BY <2>0, <2>21 DEF NotifyPeers
    <3>2. QED
      BY <2>2, <2>21, <3>1, SameTaken DEF NotifyPeers
  <2>22. CASE UNCHANGED vars
    <3>1. d \in open /\ queue[d] # <<>> /\ d \in Disks /\ req' = req
      BY <2>0, <2>22 DEF vars
    <3>2. QED
      BY <2>2, <2>22, <3>1, SameTaken DEF vars
  <2>23. QED
    BY <2>3, <2>5, <2>6, <2>7, <2>8, <2>9, <2>10, <2>11, <2>12, <2>24, <2>13,
       <2>14, <2>16, <2>17, <2>18, <2>19, <2>20, <2>21, <2>22
    DEF Next, Clients, Linux, Driver
<1>3. QED
  BY <1>1, <1>2, Typing, RequestStates, SlotLimit, PTL DEF Spec

\* When the driver sleeps without a signal to come, a request only waits for
\* a slot, and each of the slots has a completion to come.
THEOREM WakeupsKept == Spec => []NoLostWakeup
<1>1. TypeOK /\ RequestInv /\ Watched => NoLostWakeup
  <2> SUFFICES ASSUME TypeOK, RequestInv, Watched, ep = "idle", ~signal
               PROVE  /\ \A d \in open : queue[d] # <<>> =>
                                           Cardinality(Taken(d)) = Slots
                      /\ \A r \in Requests : req[r] = "taken" =>
                                               bio[r] = "flight"
    BY DEF NoLostWakeup
  <2>1. task = "blocked"
    BY DEF RequestInv
  <2>2. \A d \in open : queue[d] # <<>> => Cardinality(Taken(d)) = Slots
    BY <2>1 DEF Watched, Ahead
  <2>3. \A r \in Requests : req[r] = "taken" => bio[r] = "flight"
    BY DEF RequestInv, BioFits, TypeOK
  <2>4. QED
    BY <2>2, <2>3
<1>2. QED
  BY <1>1, Typing, RequestStates, AlwaysWatched, PTL

\* No answer waits for the next signal: what the tasks acknowledged has been
\* announced when the entrypoint sleeps.
THEOREM AnnouncedInTime == Spec => []AnswersAnnounced
<1>1. Init => AnswersAnnounced
  BY DEF Init, AnswersAnnounced
<1>2. RequestInv /\ AnswersAnnounced /\ [Next]_vars => AnswersAnnounced'
  <2> SUFFICES ASSUME RequestInv, AnswersAnnounced, [Next]_vars
               PROVE  AnswersAnnounced'
    OBVIOUS
  <2> USE DEF AnswersAnnounced, entrypoint
  <2>1. ASSUME NEW r \in Requests, BioEndIo(r) \/ StaleEndIo(r) \/ AckSync(r)
        PROVE  ep = "execute" /\ ep' = ep
    BY <2>1 DEF BioEndIo, StaleEndIo, AckSync, LinuxRuns, RequestInv, BioFits
  <2>2. CASE Clients \/ Linux
    BY <2>2 DEF Clients, ClientOpen, ClientClose, Close, ClientSubmit,
                ClientCollect, Linux, RegisterQueue, UnregisterQueue
  <2>3. CASE HandleSignal \/ PollStarts \/ NextDisk \/ NotifyPeers
    BY <2>3 DEF HandleSignal, PollStarts, NextDisk, NotifyPeers
  <2>4. ASSUME NEW r \in Requests,
               \/ \E refused \in BOOLEAN : BlockRequest(r, refused)
               \/ BlockSync(r) \/ BlockSyncStops(r)
        PROVE  AnswersAnnounced'
    BY <2>4 DEF BlockRequest, BlockSync, BlockSyncStops
  <2>5. CASE CardEvent \/ \E r \in Requests : DeviceDone(r) \/ StaleDone(r)
    BY <2>5 DEF CardEvent, DeviceDone, StaleDone
  <2>6. CASE UNCHANGED vars
    BY <2>6 DEF vars
  <2>7. QED
    BY <2>1, <2>2, <2>3, <2>4, <2>5, <2>6 DEF Next, Driver
<1>3. QED
  BY <1>1, <1>2, RequestStates, PTL DEF Spec

-----------------------------------------------------------------------------
(* What the driver promises. *)

\* A request changes its status only as the service does: it is answered
\* once, and never before the device has performed it or failed to.
THEOREM Implementation == Spec => ImplementsService
<1> DEFINE status == [r \in Requests |-> Status(r)]
<1>1. Init => Service!Init
  <2> SUFFICES ASSUME Init PROVE Service!Init
    OBVIOUS
  <2>1. \A r \in Requests : Status(r) = "idle"
    BY DEF Init, Status
  <2>2. QED
    BY <2>1 DEF Service!Init
<1>2. TypeOK /\ RequestInv /\ [Next]_vars => [Service!Next]_status
  <2> SUFFICES ASSUME TypeOK, RequestInv, [Next]_vars
               PROVE  Service!Next \/ UNCHANGED status
    OBVIOUS
  <2> USE DEF packets, bios
  <2>0. /\ \A d \in Disks : QueueHolds(d)
        /\ \A r \in Requests : BioFits(r)
    BY DEF RequestInv
  <2>1. ASSUME NEW r \in Requests,
               \A q \in Requests : q # r => Status(q)' = Status(q),
               \/ Status(r) = "idle" /\ Status(r)' = "asked"
               \/ Status(r) = "asked" /\ Status(r)' = "performed"
               \/ Status(r) = "performed" /\ Status(r)' = "answered"
               \/ Status(r) = "answered" /\ Status(r)' = "idle"
               \/ Status(r)' = Status(r)
        PROVE  Service!Next \/ UNCHANGED status
    <3> HIDE DEF status
    <3>1. /\ status = [q \in Requests |-> Status(q)]
          /\ status' = [q \in Requests |-> Status(q)']
      BY DEF status
    <3>2. status' = [status EXCEPT ![r] = Status(r)'] /\ status[r] = Status(r)
      BY <2>1, <3>1
    <3>3. CASE Status(r)' = Status(r)
      BY <2>1, <3>1, <3>3
    <3>4. CASE Status(r)' # Status(r)
      <4>1. \/ Service!Becomes(r, "idle", "asked")
            \/ Service!Becomes(r, "asked", "performed")
            \/ Service!Becomes(r, "performed", "answered")
            \/ Service!Becomes(r, "answered", "idle")
        BY <2>1, <3>2, <3>4 DEF Service!Becomes, status
      <4>2. QED
        BY <4>1 DEF Service!Next
    <3>5. QED
      BY <3>3, <3>4
  <2>2. ASSUME NEW d \in Disks, Close(d)
        PROVE  Service!Next
    <3>1. \A r \in Requests : Status(r)' = IF r \in Of(d) THEN "idle" ELSE Status(r)
      BY <2>2 DEF Close, Of, Status
    <3>2. Of(d) \in SUBSET Requests
      BY DEF Of
    <3>3. Service!Withdraw(Of(d))
      BY <3>1, <3>2 DEF Service!Withdraw
    <3>4. QED
      BY <3>2, <3>3 DEF Service!Next
  <2>3. ASSUME req' = req,
               \A r \in Requests :
                 \/ bio'[r] = bio[r]
                 \/ bio[r] \in {"done", "due"} /\ bio'[r] \in {"done", "due"}
        PROVE  UNCHANGED status
    BY <2>3 DEF Status
  <2>4. ASSUME NEW d \in Disks, ClientOpen(d) \/ RegisterQueue(d)
        PROVE  UNCHANGED status
    BY <2>3, <2>4 DEF ClientOpen, RegisterQueue
  <2>5. ASSUME NEW d \in Disks, ClientClose(d) \/ UnregisterQueue(d)
        PROVE  Service!Next
    BY <2>2, <2>5 DEF ClientClose, UnregisterQueue
  <2>6. ASSUME NEW r \in Requests, ClientSubmit(r) \/ ClientCollect(r)
        PROVE  Service!Next \/ UNCHANGED status
    BY <2>1, <2>6 DEF ClientSubmit, ClientCollect, Status, TypeOK
  <2>7. ASSUME NEW r \in Requests, DeviceDone(r)
        PROVE  Service!Next \/ UNCHANGED status
    BY <2>1, <2>7 DEF DeviceDone, Status, TypeOK
  <2>24. ASSUME NEW r \in Requests, StaleDone(r) \/ StaleEndIo(r)
        PROVE  UNCHANGED status
    BY <2>24 DEF StaleDone, StaleEndIo, Status
  <2>8. ASSUME NEW r \in Requests, Take(r),
               req' = [req EXCEPT ![r] = "taken"],
               NEW b \in {"none", "flight", "now"},
               bio' = [bio EXCEPT ![r] = b]
        PROVE  Service!Next \/ UNCHANGED status
    <3>1. req[r] = "queued"
      BY <2>0, <2>8, QueueTakenFrom
    <3>2. Status(r) = "asked" /\ Status(r)' \in {"asked", "performed"}
      BY <2>8, <3>1 DEF Status, TypeOK
    <3>3. \A q \in Requests : q # r => Status(q)' = Status(q)
      BY <2>8 DEF Status, TypeOK
    <3>4. QED
      BY <2>1, <3>2, <3>3
  <2>9. ASSUME NEW r \in Requests, NEW refused \in BOOLEAN,
               BlockRequest(r, refused)
        PROVE  Service!Next \/ UNCHANGED status
    BY <2>8, <2>9 DEF BlockRequest
  <2>10. ASSUME NEW r \in Requests, BlockSync(r)
         PROVE  Service!Next \/ UNCHANGED status
    BY <2>8, <2>10 DEF BlockSync
  <2>11. ASSUME NEW r \in Requests, BlockSyncStops(r)
         PROVE  Service!Next \/ UNCHANGED status
    <3>1. req[r] = "queued"
      BY <2>0, <2>11, QueueTakenFrom DEF BlockSyncStops
    <3>2. bio' = [bio EXCEPT ![r] = "none"]
      BY <2>0, <2>11, <3>1 DEF BlockSyncStops, BioFits, TypeOK
    <3>3. QED
      BY <2>8, <2>11, <3>2 DEF BlockSyncStops
  <2>12. ASSUME NEW r \in Requests, BioEndIo(r)
         PROVE  Service!Next \/ UNCHANGED status
    <3>0. req[r] = "taken"
      BY <2>0, <2>12 DEF BioEndIo, BioFits
    <3>1. \A q \in Requests : q # r => Status(q)' = Status(q)
      BY <2>12 DEF BioEndIo, Ack, Status, TypeOK
    <3>2. Status(r) = "performed" /\ Status(r)' = "answered"
      BY <2>12, <3>0 DEF BioEndIo, Ack, Status, TypeOK
    <3>3. QED
      BY <2>1, <3>1, <3>2
  <2>13. ASSUME NEW r \in Requests, AckSync(r)
         PROVE  Service!Next \/ UNCHANGED status
    <3>1. bio[r] = "now" /\ req[r] = "taken"
      BY <2>0, <2>13 DEF AckSync, BioFits
    <3>2. \A q \in Requests : q # r => Status(q)' = Status(q)
      BY <2>13 DEF AckSync, Ack, Status, TypeOK
    <3>3. Status(r) = "performed" /\ Status(r)' = "answered"
      BY <2>13, <3>1 DEF AckSync, Ack, Status, TypeOK
    <3>4. QED
      BY <2>1, <3>2, <3>3
  <2>14. CASE HandleSignal
    BY <2>3, <2>14 DEF HandleSignal
  <2>15. CASE PollStarts \/ NextDisk \/ NotifyPeers \/ CardEvent
    BY <2>3, <2>15 DEF PollStarts, NextDisk, NotifyPeers, CardEvent
  <2>16. CASE UNCHANGED vars
    BY <2>3, <2>16 DEF vars
  <2>17. QED
    BY <2>4, <2>5, <2>6, <2>7, <2>24, <2>9, <2>10, <2>11, <2>12, <2>13, <2>14,
       <2>15, <2>16
    DEF Next, Clients, Linux, Driver
<1>3. QED
  BY <1>1, <1>2, Typing, RequestStates, PTL
  DEF Spec, ImplementsService, Service!Spec
=============================================================================
