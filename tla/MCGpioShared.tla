---------------------------- MODULE MCGpioShared ----------------------------
(* Two programs of the GPIO demo whose pins are in the same bank, as the     *)
(* switches and buttons of the board are.                                    *)
EXTENDS GpioDemo, TLC

CONSTANTS sw0, rgb0, on, off

MCBank == [p \in {sw0, rgb0, on, off} |-> IF p \in {on, off} THEN 1 ELSE 2]
MCTrigger == [p \in {sw0, rgb0, on, off} |-> IF p \in {on, off} THEN "rising" ELSE "edges"]
MCPinsOf == "sw" :> <<sw0>> @@ "rgb" :> <<rgb0>> @@ "mio" :> <<on, off>>
=============================================================================
