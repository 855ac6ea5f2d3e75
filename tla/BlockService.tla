---------------------------- MODULE BlockService ----------------------------
(***************************************************************************)
(* What a block driver promises its clients: a request is answered once,   *)
(* and only after the device has performed it (or has failed to).  It is   *)
(* silent about order: requests are performed and answered in any.         *)
(***************************************************************************)
CONSTANT Requests

VARIABLE status    \* of each request: "idle", "asked", "performed", "answered"

Init == status = [r \in Requests |-> "idle"]

Becomes(r, from, to) ==
  /\ status[r] = from
  /\ status' = [status EXCEPT ![r] = to]

\* A session ends, and with it what was asked for and what was answered.
Withdraw(rs) ==
  status' = [r \in Requests |-> IF r \in rs THEN "idle" ELSE status[r]]

Next == \/ \E r \in Requests : \/ Becomes(r, "idle", "asked")
                               \/ Becomes(r, "asked", "performed")
                               \/ Becomes(r, "performed", "answered")
                               \/ Becomes(r, "answered", "idle")
        \/ \E rs \in SUBSET Requests : Withdraw(rs)

Spec == Init /\ [][Next]_status
=============================================================================
