-------------------------------- MODULE Spi ---------------------------------
(***************************************************************************)
(* The clock of the SPI driver (src/include/drivers/spi.h): its            *)
(* constructor computes the prescaler from the rate of the controller's    *)
(* clock and the greatest frequency the device may be driven with.         *)
(***************************************************************************)
EXTENDS Integers

MIN == 1       \* Ctrl::Prescaler
DEFAULT == 5
MAX == 7

\* The number of binary digits of n.
Digits(n) == CHOOSE k \in 0..31 : n < 2^k /\ (k > 0 => 2^(k-1) <= n)

PowerOf2(n) == \E k \in 0..30 : n = 2^k

\* What is out of bounds, also because it is negative and the variable
\* unsigned, is replaced by the default.
Prescaler(clock_freq, max_freq) ==
  LET div == clock_freq \div max_freq
      exact == (div = 0 \/ PowerOf2(div)) /\ clock_freq % max_freq = 0
      prescaler == IF clock_freq = 0 \/ max_freq = 0 THEN 0
                   ELSE Digits(div) - (IF exact THEN 2 ELSE 1)
  IN IF prescaler \in MIN..MAX THEN prescaler ELSE DEFAULT

\* The frequency is within f if the device's clock is divided by 2^(p+1).
Within(clock_freq, max_freq, p) == clock_freq <= max_freq * 2^(p+1)

\* The prescaler is the least one that keeps the device within its frequency,
\* if more than the least one is needed at all and one suffices.
LeastPrescaler(clock_freq, max_freq) ==
  LET p == Prescaler(clock_freq, max_freq) IN
  clock_freq > 2 * max_freq /\ Within(clock_freq, max_freq, MAX)
    => /\ Within(clock_freq, max_freq, p)
       /\ p > MIN => ~Within(clock_freq, max_freq, p - 1)

\* Otherwise it is the default, which is slower than needed or too fast.
DefaultPrescaler(clock_freq, max_freq) ==
  clock_freq <= 2 * max_freq \/ ~Within(clock_freq, max_freq, MAX)
    => Prescaler(clock_freq, max_freq) = DEFAULT
=============================================================================
