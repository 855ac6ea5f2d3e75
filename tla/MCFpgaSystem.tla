---------------------------- MODULE MCFpgaSystem ----------------------------
(* An instance of FpgaSystem with one driver for one type of device. *)
EXTENDS FpgaSystem, TLC

CONSTANTS a, b, v1, v2, odd, bad, drv, dev

\* The file of b is always the same.
MCContents == a :> {v1, v2, odd, bad} @@ b :> {v1}

MCDeviceOf == drv :> dev
=============================================================================
