----------------------------- MODULE MCSdBlock -----------------------------
(* An instance of SdBlock with two disks, the second one with a cache. *)
EXTENDS SdBlock, TLC

CONSTANTS a, b, r1, s1, q1, t1

MCDiskOf == r1 :> a @@ s1 :> a @@ q1 :> b @@ t1 :> b
=============================================================================
