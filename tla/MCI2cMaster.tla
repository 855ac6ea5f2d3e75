---------------------------- MODULE MCI2cMaster -----------------------------
(* An instance of I2cMaster and, for all rates up to some hundred units, the *)
(* prescaler of the SPI driver.                                              *)
EXTENDS I2cMaster, Spi

ASSUME PrescalerAssumption ==
  \A clock_freq \in 1..600, max_freq \in 1..160 :
    /\ LeastPrescaler(clock_freq, max_freq)
    /\ DefaultPrescaler(clock_freq, max_freq)
=============================================================================
