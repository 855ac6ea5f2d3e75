----------------------------- MODULE TxChannel -----------------------------
(***************************************************************************)
(* What the transmit side of the Ethernet driver promises to the client of *)
(* its uplink session, without rings, hardware or interrupts.  The client  *)
(* hands packets over in a queue, the driver accepts them one by one, and  *)
(* returns each accepted packet once, in the order of acceptance.  A       *)
(* malformed packet is taken from the queue and never returned.  Only a    *)
(* lossy channel may forget packets it has accepted.                       *)
(***************************************************************************)
EXTENDS Sequences

CONSTANTS Packets,     \* the packet buffers of the session
          Malformed,   \* the ones the driver drops
          Lossy        \* TRUE if accepted packets may be forgotten

VARIABLES client,      \* the packets the client owns
          submitted,   \* handed over, not yet looked at by the driver
          accepted,    \* being transmitted
          returned     \* acknowledged, not yet seen by the client

vars == <<client, submitted, accepted, returned>>

Init == /\ client = Packets
        /\ submitted = <<>>
        /\ accepted = <<>>
        /\ returned = <<>>

Submit == \E p \in client :
            /\ client' = client \ {p}
            /\ submitted' = Append(submitted, p)
            /\ UNCHANGED <<accepted, returned>>

Accept == /\ submitted # <<>>
          /\ Head(submitted) \notin Malformed
          /\ accepted' = Append(accepted, Head(submitted))
          /\ submitted' = Tail(submitted)
          /\ UNCHANGED <<client, returned>>

Drop == /\ submitted # <<>>
        /\ Head(submitted) \in Malformed
        /\ submitted' = Tail(submitted)
        /\ UNCHANGED <<client, accepted, returned>>

Return == /\ accepted # <<>>
          /\ returned' = Append(returned, Head(accepted))
          /\ accepted' = Tail(accepted)
          /\ UNCHANGED <<client, submitted>>

Reclaim == /\ returned # <<>>
           /\ client' = client \union {Head(returned)}
           /\ returned' = Tail(returned)
           /\ UNCHANGED <<submitted, accepted>>

Lose == /\ Lossy
        /\ accepted' = <<>>
        /\ UNCHANGED <<client, submitted, returned>>

\* The packet that is one too many is forgotten with the ones before it.
Overflow == /\ Lossy
            /\ submitted # <<>>
            /\ submitted' = Tail(submitted)
            /\ accepted' = <<>>
            /\ UNCHANGED <<client, returned>>

Next == Submit \/ Accept \/ Drop \/ Return \/ Reclaim \/ Lose \/ Overflow

Spec == Init /\ [][Next]_vars
=============================================================================
