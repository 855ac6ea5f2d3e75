----------------------------- MODULE MCPlatform -----------------------------
(* The two units the platform driver for the Zynq adds to the generic one:   *)
(* an instance of the DMA guard and one of the system-level control          *)
(* registers.  They share no state, so each of them is checked while the     *)
(* other one rests.                                                          *)
EXTENDS MCDmaGuard, Slcr

CONSTANTS s1, s2, f0, f1

MHz == 1000 * 1000

\* The multipliers of the boards: 1000 and 1067 MHz.
MCFdiv == [pll \in {"armpll", "ddrpll", "iopll"} |->
             CASE pll = "armpll" -> 40 [] pll = "ddrpll" -> 32 [] OTHER -> 30]

\* Rates of designs, rates whose divisor is prime, has a large prime factor or
\* many factors, the smallest and one that is too high.
MCRates == {r * MHz : r \in {1, 10, 15, 25, 33, 50, 66, 100, 133, 200, 300}}
           \union {142857132, 66666672, 7936507, 251953}

VARIABLE unit    \* the unit that is in use

PlatformInit ==
  /\ unit \in {"guard", "slcr"}
  /\ Init /\ SlcrInit
  /\ unit = "slcr" => range = CHOOSE r \in Ranges : TRUE
  /\ unit = "guard" => src = 0

Guard == unit = "guard" /\ Next /\ UNCHANGED <<slcrVars, unit>>

Registers == unit = "slcr" /\ SlcrNext /\ UNCHANGED <<vars, unit>>

PlatformNext == Guard \/ Registers

PlatformSpec == PlatformInit /\ [][PlatformNext]_<<vars, slcrVars, unit>>
=============================================================================
