------------------------------ MODULE SdBlock ------------------------------
(***************************************************************************)
(* The Genode side of the SD-card driver (src/drivers/sd_card/zynq): a     *)
(* task of the emulated Linux kernel takes the requests of the block       *)
(* sessions and hands them to the block layer, whose completions           *)
(* acknowledge them.                                                       *)
(*                                                                         *)
(* The component is one thread, the entrypoint.  handle_signal unblocks    *)
(* the task, runs all Linux tasks until each of them blocks, and signals   *)
(* the clients.  A task runs until it blocks; only clients and hardware    *)
(* go on meanwhile.  External: the clients, the block-session C API, Linux *)
(* and its scheduler.                                                      *)
(***************************************************************************)
EXTENDS Naturals, Sequences, FiniteSets

CONSTANTS Disks,
          MaxGenDisks,   \* size of the table of disks, MAX_GEN_DISKS
          Slots,         \* requests of a session the C API hands out at once
          Requests,
          DiskOf,        \* the disk of each request
          Syncs,         \* requests to flush, the others read or write
          Cached,        \* disks with a write cache, which takes time to flush
          None

ASSUME MaxGenDisksAssumption == MaxGenDisks \in Nat \ {0}
ASSUME SlotsAssumption == Slots \in Nat \ {0}
ASSUME RequestsAssumption == /\ DiskOf \in [Requests -> Disks]
                             /\ Syncs \subseteq Requests
                             /\ Cached \subseteq Disks
ASSUME NoneAssumption == None \notin Disks

VARIABLES
  gendisks,      \* the table of registered disks
  open,          \* disks with a session
  queue,         \* packets submitted in the session and not yet taken
  req,           \* of each request: "idle", "queued", "taken", "acked"
  bio,           \* its bio: "none", "flight"; "done", and "due" once the
                 \* entrypoint knows; "now" if the poll task has to answer
                 \* it before it goes on
  stale,         \* the same of the bio it had in a session that has ended
  task,          \* the poll task: "blocked", "ready", "running"
  idx,           \* the disk it looks at
  ep,            \* the entrypoint: "idle", "execute", "stopped"
  signal,        \* a signal for handle_signal is pending
  unannounced    \* requests acknowledged since the clients were notified

packets == <<queue, req>>
bios == <<bio, stale>>
poll == <<task, idx>>
sessions == <<gendisks, open>>
entrypoint == <<ep, signal>>
vars == <<sessions, packets, bios, poll, entrypoint, unannounced>>

Table == 0..MaxGenDisks - 1
Registered == {gendisks[i] : i \in Table} \ {None}

Of(d) == {r \in Requests : DiskOf[r] = d}
Taken(d) == {r \in Of(d) : req[r] = "taken"}

Init ==
  /\ gendisks = [i \in Table |-> None] /\ open = {}
  /\ queue = [d \in Disks |-> <<>>]
  /\ req = [r \in Requests |-> "idle"] /\ bio = [r \in Requests |-> "none"]
  /\ stale = [r \in Requests |-> "none"]
  /\ task = "blocked" /\ idx = 0
  /\ ep = "idle" /\ signal = FALSE
  /\ unannounced = {}

-----------------------------------------------------------------------------
(* External: the clients. *)

\* Sessions are opened and closed by RPCs the entrypoint serves.
ClientOpen(d) ==
  /\ ep = "idle" /\ d \in Registered \ open
  /\ open' = open \union {d}
  /\ UNCHANGED <<gendisks, packets, bios, poll, entrypoint, unannounced>>

\* A session ends with everything it knows of its requests; their bios stay.
\* At most one bio of each request is left over (bound).
Close(d) ==
  /\ \A r \in Of(d) : bio[r] = "none" \/ stale[r] = "none"
  /\ open' = open \ {d}
  /\ queue' = [queue EXCEPT ![d] = <<>>]
  /\ req' = [r \in Requests |-> IF r \in Of(d) THEN "idle" ELSE req[r]]
  /\ unannounced' = unannounced \ Of(d)
  /\ bio' = [r \in Requests |-> IF r \in Of(d) THEN "none" ELSE bio[r]]
  /\ stale' = [r \in Requests |-> IF r \in Of(d) /\ bio[r] # "none"
                                    THEN bio[r] ELSE stale[r]]

ClientClose(d) ==
  /\ ep = "idle" /\ d \in open
  /\ Close(d)
  /\ UNCHANGED <<gendisks, poll, entrypoint>>

\* The packet stream signals only a packet that finds the queue empty.
ClientSubmit(r) ==
  LET d == DiskOf[r] IN
  /\ d \in open /\ req[r] = "idle"
  /\ queue' = [queue EXCEPT ![d] = Append(@, r)]
  /\ req' = [req EXCEPT ![r] = "queued"]
  /\ signal' = (signal \/ queue[d] = <<>>)
  /\ UNCHANGED <<sessions, bios, poll, ep, unannounced>>

ClientCollect(r) ==
  /\ req[r] = "acked"
  /\ req' = [req EXCEPT ![r] = "idle"]
  /\ unannounced' = unannounced \ {r}
  /\ UNCHANGED <<sessions, queue, bios, poll, entrypoint>>

(* External: hardware, and Linux tasks other than the poll task. *)

\* The device has performed a request, or Linux has given it up.  Interrupts
\* and timeouts signal the entrypoint; so does a card that comes or goes.
DeviceDone(r) ==
  /\ bio[r] = "flight"
  /\ bio' = [bio EXCEPT ![r] = "done"] /\ signal' = TRUE
  /\ UNCHANGED <<sessions, packets, stale, poll, ep, unannounced>>

StaleDone(r) ==
  /\ stale[r] = "flight"
  /\ stale' = [stale EXCEPT ![r] = "done"] /\ signal' = TRUE
  /\ UNCHANGED <<sessions, packets, bio, poll, ep, unannounced>>

CardEvent ==
  /\ ~signal /\ signal' = TRUE
  /\ UNCHANGED <<sessions, packets, bios, poll, ep, unannounced>>

LinuxRuns == ep = "execute" /\ task # "running"

-----------------------------------------------------------------------------
(* block.c, called by Linux. *)

Unblocked == IF task = "blocked" THEN "ready" ELSE task

\* blk_register_queue; with a full table it does nothing.
RegisterQueue(d) ==
  LET free == {i \in Table : gendisks[i] = None} IN
  /\ LinuxRuns /\ d \notin Registered
  /\ \E i \in free :
       /\ \A j \in free : i <= j
       /\ gendisks' = [gendisks EXCEPT ![i] = d]
  /\ UNCHANGED <<open, packets, bios, poll, entrypoint, unannounced>>

\* blk_unregister_queue; the session of a discontinued device ends.
UnregisterQueue(d) ==
  /\ LinuxRuns /\ d \in Registered
  /\ gendisks' = [i \in Table |-> IF gendisks[i] = d THEN None ELSE gendisks[i]]
  /\ Close(d)
  /\ UNCHANGED <<poll, entrypoint>>

Ack(r) ==
  /\ req' = [req EXCEPT ![r] = "acked"]
  /\ unannounced' = unannounced \union {r}

\* Mutant: the completion acknowledges but does not wake the poll task.
BioEndIoWakesNobody(r) ==
  /\ bio[r] = "now" \/ (bio[r] \in {"done", "due"} /\ LinuxRuns)
  /\ r \notin Syncs
  /\ bio' = [bio EXCEPT ![r] = "none"]
  /\ Ack(r)
  /\ UNCHANGED <<sessions, queue, stale, poll, entrypoint>>

\* The completion of a read or write looks up the session, acknowledges the
\* request, and wakes the task because a slot has become free.
BioEndIo(r) ==
  /\ bio[r] = "now" \/ (bio[r] \in {"done", "due"} /\ LinuxRuns)
  /\ r \notin Syncs
  /\ bio' = [bio EXCEPT ![r] = "none"]
  /\ Ack(r)
  /\ task' = Unblocked
  /\ UNCHANGED <<sessions, queue, stale, idx, entrypoint>>

\* If the session has ended, it finds none or another one.  The C API ignores
\* a request it did not hand out: a session has its requests in memory of its
\* own (external), so that a left-over bio refers to none of them.
StaleEndIo(r) ==
  /\ stale[r] \in {"done", "due"} /\ LinuxRuns
  /\ stale' = [stale EXCEPT ![r] = "none"]
  /\ task' = IF DiskOf[r] \in open THEN Unblocked ELSE task
  /\ UNCHANGED <<sessions, packets, bio, idx, entrypoint, unannounced>>

-----------------------------------------------------------------------------
(* block_poll_sessions, block_handle_session *)

PollStarts ==
  /\ ep = "execute" /\ task = "ready"
  /\ task' = "running" /\ idx' = 0
  /\ UNCHANGED <<sessions, packets, bios, entrypoint, unannounced>>

Polls == /\ ep = "execute" /\ task = "running"
         /\ \A r \in Requests : bio[r] # "now"

\* genode_block_request_by_session has a request of this disk's session.
Requested(d) == d \in open /\ queue[d] # <<>> /\ Cardinality(Taken(d)) < Slots

\* Mutant: a session may be left although it has more requests.
NextDiskAnyway ==
  /\ Polls
  /\ IF idx + 1 < MaxGenDisks THEN idx' = idx + 1 /\ task' = task
     ELSE idx' = 0 /\ task' = "blocked"
  /\ UNCHANGED <<sessions, packets, bios, entrypoint, unannounced>>

\* On to the next disk; after the last one the task blocks.
NextDisk ==
  /\ Polls
  /\ gendisks[idx] \in Disks => ~Requested(gendisks[idx])
  /\ IF idx + 1 < MaxGenDisks THEN idx' = idx + 1 /\ task' = task
     ELSE idx' = 0 /\ task' = "blocked"
  /\ UNCHANGED <<sessions, packets, bios, entrypoint, unannounced>>

Take(r) ==
  /\ Polls /\ gendisks[idx] = DiskOf[r]
  /\ Requested(DiskOf[r]) /\ r = Head(queue[DiskOf[r]])
  /\ queue' = [queue EXCEPT ![DiskOf[r]] = Tail(@)]

\* block_request; the block layer may refuse the bio, which ends it at once.
BlockRequest(r, refused) ==
  /\ Take(r) /\ r \notin Syncs
  /\ req' = [req EXCEPT ![r] = "taken"]
  /\ bio' = [bio EXCEPT ![r] = IF refused THEN "now" ELSE "flight"]
  /\ UNCHANGED <<sessions, stale, poll, entrypoint, unannounced>>

\* Mutant: a flush is acknowledged before it is done.
BlockSyncAcksFirst(r) ==
  /\ Take(r) /\ r \in Syncs /\ DiskOf[r] \notin Cached
  /\ Ack(r)
  /\ UNCHANGED <<sessions, bios, poll, entrypoint>>

\* block_sync on a disk without cache, where Linux has nothing to wait for.
BlockSync(r) ==
  /\ Take(r) /\ r \in Syncs /\ DiskOf[r] \notin Cached
  /\ req' = [req EXCEPT ![r] = "taken"]
  /\ bio' = [bio EXCEPT ![r] = "now"]
  /\ UNCHANGED <<sessions, stale, poll, entrypoint, unannounced>>

\* To wait for a flush, Linux calls io_schedule_timeout, a generated dummy
\* that stops the driver.
BlockSyncStops(r) ==
  /\ Take(r) /\ r \in Syncs /\ DiskOf[r] \in Cached
  /\ req' = [req EXCEPT ![r] = "taken"]
  /\ ep' = "stopped"
  /\ UNCHANGED <<sessions, bios, poll, signal, unannounced>>

AckSync(r) ==
  /\ bio[r] = "now" /\ r \in Syncs
  /\ bio' = [bio EXCEPT ![r] = "none"]
  /\ Ack(r)
  /\ UNCHANGED <<sessions, queue, stale, poll, entrypoint>>

-----------------------------------------------------------------------------
(* main.cc: handle_signal *)

HandleSignal ==
  /\ ep = "idle" /\ signal
  /\ signal' = FALSE /\ ep' = "execute"
  /\ task' = Unblocked
  /\ bio' = [r \in Requests |-> IF bio[r] = "done" THEN "due" ELSE bio[r]]
  /\ stale' = [r \in Requests |-> IF stale[r] = "done" THEN "due" ELSE stale[r]]
  /\ UNCHANGED <<sessions, packets, idx, unannounced>>

\* scheduler.execute returns when all tasks are blocked, and with them the
\* one that handles interrupts.
Executed == /\ ep = "execute" /\ task = "blocked"
            /\ \A r \in Requests : bio[r] # "due" /\ stale[r] # "due"

\* Mutant: the clients are notified before the tasks run.
NotifyPeersEarly ==
  /\ Executed
  /\ ep' = "idle"
  /\ UNCHANGED <<sessions, packets, bios, poll, signal, unannounced>>

NotifyPeers ==
  /\ Executed
  /\ ep' = "idle" /\ unannounced' = {}
  /\ UNCHANGED <<sessions, packets, bios, poll, signal>>

-----------------------------------------------------------------------------
Clients == \/ \E d \in Disks : ClientOpen(d) \/ ClientClose(d)
           \/ \E r \in Requests : ClientSubmit(r) \/ ClientCollect(r)

Linux == \E d \in Disks : RegisterQueue(d) \/ UnregisterQueue(d)

Driver == \/ HandleSignal \/ PollStarts \/ NextDisk \/ NotifyPeers
          \/ \E r \in Requests :
               \/ \E refused \in BOOLEAN : BlockRequest(r, refused)
               \/ BlockSync(r) \/ BlockSyncStops(r) \/ AckSync(r)
               \/ BioEndIo(r) \/ StaleEndIo(r)

Next == \/ Clients \/ Linux \/ Driver \/ CardEvent
        \/ \E r \in Requests : DeviceDone(r) \/ StaleDone(r)

Spec == Init /\ [][Next]_vars

\* The entrypoint goes on while it has something to do, and the device
\* finishes each request, or Linux gives it up after a timeout.
Fairness == WF_vars(Driver) /\ \A r \in Requests : WF_vars(DeviceDone(r))
FairSpec == Spec /\ Fairness

-----------------------------------------------------------------------------
(* Properties. *)

\* Whatever was acknowledged while the tasks ran has been announced to the
\* clients when the entrypoint goes back to sleep.
AnswersAnnounced == ep = "idle" => unannounced = {}

\* When the driver sleeps, a request only waits if its session has no slot
\* left, and then there is a completion to come for each slot.  Nothing is
\* overlooked between the last look at a queue and the end of the poll task's
\* round, although a client signals only the first packet of an empty queue.
NoLostWakeup ==
  ep = "idle" /\ ~signal =>
    /\ \A d \in open : queue[d] # <<>> => Cardinality(Taken(d)) = Slots
    /\ \A r \in Requests : req[r] = "taken" => bio[r] = "flight"

\* A request is answered once, after it was performed.
Status(r) ==
  CASE req[r] = "idle"  -> "idle"
    [] req[r] = "acked" -> "answered"
    [] req[r] = "taken" /\ bio[r] \in {"done", "due", "now"} -> "performed"
    [] OTHER            -> "asked"

Service == INSTANCE BlockService
             WITH status <- [r \in Requests |-> Status(r)]
ImplementsService == Service!Spec

\* When the clients stop asking, everything they asked for is answered,
\* unless the driver was stopped by a flush that takes time.
Drains ==
  <>[][\A r \in Requests : ~ClientSubmit(r)]_vars
    => <>[](ep = "stopped" \/ \A r \in Requests : req[r] \in {"idle", "acked"})
=============================================================================
