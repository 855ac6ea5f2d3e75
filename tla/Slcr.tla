--------------------------------- MODULE Slcr ---------------------------------
(***************************************************************************)
(* What the platform driver does to the programmable logic (PL) through    *)
(* the system-level control registers (src/drivers/platform/zynq/slcr.h):  *)
(* it sets the rate of a PL clock, halts the PL while somebody owns        *)
(* devcfg, and switches the resets of single PL devices.  The PL is        *)
(* running meanwhile, so every register write is a step of its own.        *)
(*                                                                         *)
(* External: the sessions, whose requests the driver serves one at a time, *)
(* and the use counts of clocks and resets.  Rates are in Hz.              *)
(***************************************************************************)
EXTENDS Integers, Sequences, FiniteSetsExt

CONSTANTS PsClk,      \* rate of the oscillator
          Fdiv,       \* multiplier of each PLL
          Sources,    \* values of Src_sel, of which the boot loader leaves one
          Rates,      \* the rates that devices are configured with
          Div0, Div1, \* the divisors the boot loader leaves
          Sessions,   \* users of the platform driver
          Fpga        \* reset domains of single PL devices

MaxTarget == 250 * 1000 * 1000

\* The PLL an I/O clock is derived from.
Pll(sel) ==
  CASE sel = 2 -> "armpll" [] sel = 3 -> "ddrpll" [] OTHER -> "iopll"

\* Pll::rate() const
PllRate(pll) == Fdiv[pll] * PsClk

ASSUME RatesAssumption == /\ Rates \subseteq Nat \ {0}
                          /\ \A sel \in Sources : /\ PllRate(Pll(sel)) \in Nat
                                                  /\ PllRate(Pll(sel)) > MaxTarget
ASSUME DivAssumption == {Div0, Div1} \subseteq 1..63

VARIABLES
  src,           \* Src_sel of the clock's register
  div0, div1,    \* the divisor fields of the clock's register
  new0, new1,    \* div0 and div1 of Fpga_clk::rate
  target,        \* its target
  old,           \* rate of the clock when it was called (history)
  rst,           \* the reset bit of each domain, TRUE for held in reset
  lvl,           \* the level shifters between PS and PL that are enabled
  holders,       \* the sessions that use a reset domain
  step           \* next step of the driver

divisors == <<div0, div1, new0, new1, target, old>>
clock == <<src, divisors>>
resets == <<rst, lvl>>
slcrVars == <<clock, resets, holders, step>>

nreset == "fpga_nreset"
ResetDomains == Fpga \union {nreset}

ASSUME FpgaAssumption == nreset \notin Fpga

AtLeast1(n) == IF n < 1 THEN 1 ELSE n

\* _parent_rate
Parent == PllRate(Pll(src))

\* Fpga_clk::rate() const, what the PL gets.
Rate(d0, d1) == (Parent \div AtLeast1(d0)) \div AtLeast1(d1)

\* The fields have six bits.
Field(n) == n % 64

-----------------------------------------------------------------------------
(* _find_divisor *)

Primes == <<2, 3, 5, 7, 11, 13, 17, 19, 23, 29, 31>>

Powers(p) == {1, p, p*p, p*p*p, p*p*p*p, p*p*p*p*p}

\* As long as the number left is a multiple of p and the result stays below
\* 63, p moves from the one to the other.
Take(s, p) ==
  LET fits == {q \in Powers(p) : s.div % q = 0 /\ s.result * q < 63}
      q == Max(fits)
  IN [div |-> s.div \div q, result |-> s.result * q]

\* One round of the loop over the primes, unless it was left before.
Round(s, p) == IF s.result >= s.div /\ p # 2 THEN s ELSE Take(s, p)

FindDivisor(n) ==
  LET left[i \in 0..Len(Primes)] ==
        IF i = 0 THEN [div |-> n, result |-> 1]
                 ELSE Round(left[i-1], Primes[i])
  IN left[Len(Primes)].result

\* Mutant: the division truncates.
TargetDivTruncated(t) == Parent \div t

\* The rounded division of Fpga_clk::rate.
TargetDiv(t) ==
  Parent \div t + (IF Parent % t >= t \div 2 THEN 1 ELSE 0)

-----------------------------------------------------------------------------
(* Fpga_clk::rate: both divisors go to their maximum first. *)

SetRate(r) ==
  LET t == IF r > MaxTarget THEN MaxTarget ELSE r
      n == TargetDiv(t)
  IN /\ step = "idle"
     /\ target' = t /\ old' = Rate(div0, div1)
     /\ new1' = FindDivisor(n) /\ new0' = n \div new1'
     /\ step' = "max0"
     /\ UNCHANGED <<src, div0, div1, resets, holders>>

\* Mutant: the divisors are changed without a detour.
SlowDown0Not ==
  /\ step = "max0" /\ step' = "set0"
  /\ UNCHANGED <<clock, resets, holders>>

SlowDown0 ==
  /\ step = "max0" /\ step' = "max1"
  /\ div0' = 63
  /\ UNCHANGED <<src, div1, new0, new1, target, old, resets, holders>>

SlowDown1 ==
  /\ step = "max1" /\ step' = "set0"
  /\ div1' = 63
  /\ UNCHANGED <<src, div0, new0, new1, target, old, resets, holders>>

SetDivisor0 ==
  /\ step = "set0" /\ step' = "set1"
  /\ div0' = Field(new0)
  /\ UNCHANGED <<src, div1, new0, new1, target, old, resets, holders>>

SetDivisor1 ==
  /\ step = "set1" /\ step' = "idle"
  /\ div1' = Field(new1)
  /\ UNCHANGED <<src, div0, new0, new1, target, old, resets, holders>>

-----------------------------------------------------------------------------
(* Resets. *)

\* Mutant: the values on and off are swapped.
HeldIfUsed(used) == used

\* Reset_switch writes off when its last user is gone, on for the first.
Held(used) == ~used

Use(d, users) ==
  LET first == holders[d] = {}
      last == users = {}
  IN /\ step = "idle"
     /\ holders' = [holders EXCEPT ![d] = users]
     /\ IF first = last THEN UNCHANGED <<rst, step>>
        ELSE IF d = nreset
          THEN /\ step' = IF first THEN "halt" ELSE "connect"
               /\ UNCHANGED rst
          ELSE /\ rst' = [rst EXCEPT ![d] = Held(first)]
               /\ UNCHANGED step
     /\ UNCHANGED <<clock, lvl>>

Acquire(s, d) == s \notin holders[d] /\ Use(d, holders[d] \union {s})
Release(s, d) == s \in holders[d] /\ Use(d, holders[d] \ {s})

\* Fpga_nreset::_deassert halts all domains, then it disconnects the PL but
\* for what the PS drives.
Halt ==
  /\ step = "halt" /\ step' = "disconnect"
  /\ rst' = [d \in Fpga |-> TRUE]
  /\ UNCHANGED <<clock, lvl, holders>>

Disconnect ==
  /\ step = "disconnect" /\ step' = "drive"
  /\ lvl' = "DISABLE"
  /\ UNCHANGED <<clock, rst, holders>>

DrivePl ==
  /\ step = "drive" /\ step' = "idle"
  /\ lvl' = "PSPL"
  /\ UNCHANGED <<clock, rst, holders>>

\* Mutant: the level shifters are left as they are.
ConnectNot ==
  /\ step = "connect" /\ step' = "run"
  /\ UNCHANGED <<clock, resets, holders>>

\* Fpga_nreset::_assert connects the PL before it runs all domains.
Connect ==
  /\ step = "connect" /\ step' = "run"
  /\ lvl' = "ALL"
  /\ UNCHANGED <<clock, rst, holders>>

Run ==
  /\ step = "run" /\ step' = "idle"
  /\ rst' = [d \in Fpga |-> FALSE]
  /\ UNCHANGED <<clock, lvl, holders>>

-----------------------------------------------------------------------------
\* The boot loader leaves the PL running.
SlcrInit ==
  /\ src \in Sources
  /\ div0 = Div0 /\ div1 = Div1
  /\ new0 = Div0 /\ new1 = Div1 /\ target = 0 /\ old = Rate(Div0, Div1)
  /\ rst = [d \in Fpga |-> FALSE] /\ lvl = "ALL"
  /\ holders = [d \in ResetDomains |-> {}]
  /\ step = "idle"

Request == \/ \E r \in Rates : SetRate(r)
           \/ \E s \in Sessions, d \in ResetDomains : Acquire(s, d) \/ Release(s, d)

SlcrDriver == \/ SlowDown0 \/ SlowDown1 \/ SetDivisor0 \/ SetDivisor1
              \/ Halt \/ Disconnect \/ DrivePl
              \/ Connect \/ Run

SlcrNext == Request \/ SlcrDriver

SlcrSpec == SlcrInit /\ [][SlcrNext]_slcrVars

-----------------------------------------------------------------------------
(* Properties. *)

\* The variables have the types of the registers and locals they model.
SlcrTypeOK ==
  /\ src \in Sources /\ div0 \in 0..63 /\ div1 \in 1..63
  /\ new0 \in Nat \ {0} /\ new1 \in 1..63
  /\ target \in 0..MaxTarget /\ old \in 0..Parent
  /\ rst \in [Fpga -> BOOLEAN]
  /\ lvl \in {"DISABLE", "PSPL", "ALL"}
  /\ holders \in [ResetDomains -> SUBSET Sessions]
  /\ step \in {"idle", "max0", "max1", "set0", "set1",
               "halt", "disconnect", "drive", "connect", "run"}

\* "first set divisors to max to avoid temporary overclocking": whatever the
\* order in which the two fields change, the PL never gets a higher rate on
\* the way than it had before or gets in the end.
NoOvershoot ==
  \/ Rate(div0, div1) <= old
  \/ Rate(div0, div1) <= Rate(Field(new0), Field(new1))

\* If the larger factor of the divisor that was found fits its field, the rate
\* that the PL gets deviates from the one that was asked for by half a divisor
\* step, target / 2n, at most: the search for factors loses none, the six bits
\* of a field cut none off.  An odd rate costs one half more, and the rate is
\* truncated to whole Hz.  It is not always the nearest rate the PLL can give:
\* for 224.7 MHz from 1000 MHz the PL gets 250 MHz, though 200 MHz is nearer.
CloseToTarget ==
  LET n == div0 * div1
      got == Rate(div0, div1)
  IN step = "idle" /\ target # 0 /\ new0 < 64
       => /\ 2 * n * (got - target) <= target + 1
          /\ 2 * n * (target - got) <= target + 1 + 2 * (n - 1)

\* While the level shifters are off nothing in the PL runs, devices in use
\* included.  While only what the PS drives is connected, and the PL may be
\* reprogrammed, a domain runs only if it has a user: those in use before have
\* been halted, but one acquired meanwhile does run, as Reset_switch looks at
\* nothing but its own bit.
RunsConnected ==
  \A d \in Fpga : ~rst[d] =>
    \/ lvl = "ALL"
    \/ lvl = "PSPL" /\ holders[d] # {}

\* A device in use is not held in reset, although devcfg and the devices share
\* the reset register, but between the acquisition and the release of devcfg.
DevicesRun ==
  \A d \in Fpga : rst[d] =>
    \/ holders[d] = {}
    \/ holders[nreset] # {}
    \/ step \in {"connect", "run"}
=============================================================================
