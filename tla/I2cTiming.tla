------------------------------ MODULE I2cTiming ------------------------------
(***************************************************************************)
(* How qm_i2c_set_config and qm_ss_i2c_set_config turn a bus speed and the *)
(* frequency of the clock into the counts of the SCL generator: half of    *)
(* the period each, rounded down, and then as long a low time as the bus   *)
(* requires, at the expense of the high time.  Times are in nanoseconds,   *)
(* frequencies in MHz; the counts are uint32_t, and wrap.                  *)
(***************************************************************************)
EXTENDS Integers

CONSTANT
  ClockMhz   \* the frequencies of the clock of the controller: 32 MHz, and what
             \* the dividers by powers of two leave of it

ASSUME I2cTimingAssumption == ClockMhz \subseteq Nat

VARIABLES
  sclDriver,  \* the driver: "i2c" or "ss"
  sclMhz,     \* the clock
  sclSpeed,   \* the speed asked for
  sclResult,  \* the result of the configuration, or "none"
  sclLow, sclHigh \* the counts written

sclVars == <<sclDriver, sclMhz, sclSpeed, sclResult, sclLow, sclHigh>>

Speeds == {"STD", "FAST", "FAST_PLUS"}

HalfPeriod == [STD |-> 5000, FAST |-> 1250, FAST_PLUS |-> 500]
MinLow == [STD |-> 4700, FAST |-> 1300, FAST_PLUS |-> 500]
SpikeLen == [STD |-> 1, FAST |-> 2, FAST_PLUS |-> 2]

CountMin == [low |-> 8, high |-> 6]
CountMax == 65525

I2cTimingInit ==
  /\ sclDriver \in {"i2c", "ss"} /\ sclMhz \in ClockMhz
  /\ sclSpeed = "STD" /\ sclResult = "none" /\ sclLow = 0 /\ sclHigh = 0

-----------------------------------------------------------------------------

\* A number as a uint32_t, of which only what exceeds CountMax matters.
AsUnsigned(n) == IF n < 0 THEN CountMax + 1 ELSE n

\* get_lo_cnt
LowCount(ns) == AsUnsigned(((sclMhz * ns) \div 1000) - 1)

\* get_hi_cnt, of which the sensor subsystem's counts one less.
HighCount(ns, speed) ==
  AsUnsigned(((sclMhz * ns) \div 1000) - 7 - SpikeLen[speed]
             + (IF sclDriver = "i2c" THEN 1 ELSE 0))

CountsFit(low, high) ==
  low \in CountMin.low .. CountMax /\ high \in CountMin.high .. CountMax

\* Mutant: the minimum is not rounded up.
LeastLowDown(speed) == LowCount(MinLow[speed])

\* The least low count, after rounding down.
LeastLow(speed) == LowCount(MinLow[speed]) + 1

\* The timing of qm_i2c_set_config; what does not fit is refused.
I2cSetConfig(speed) ==
  /\ sclSpeed' = speed
  /\ UNCHANGED <<sclDriver, sclMhz>>
  /\ LET low == LowCount(HalfPeriod[speed])
         high == HighCount(HalfPeriod[speed], speed)
         more == IF low < LeastLow(speed) THEN LeastLow(speed) - low ELSE 0
     IN IF CountsFit(low, high)
        THEN sclResult' = "ok" /\ sclLow' = low + more /\ sclHigh' = high - more
        ELSE sclResult' = "EINVAL" /\ UNCHANGED <<sclLow, sclHigh>>

I2cTimingNext == \E speed \in Speeds : I2cSetConfig(speed)

I2cTimingSpec == I2cTimingInit /\ [][I2cTimingNext]_sclVars

-----------------------------------------------------------------------------
(* Properties.                                                             *)

\* What the controller makes of the counts: cycles of the clock.
LowCycles == sclLow + 1
HighCycles == sclHigh + 7 + SpikeLen[sclSpeed]

\* A configuration that is accepted gives the bus its least low time, a clock
\* that is not faster than the speed asked for, and counts the generator takes,
\* at every frequency of the clock: rounding each half and moving cycles from
\* one to the other breaks none of the three.
SclInSpec ==
  sclResult = "ok" =>
    /\ LowCycles * 1000 >= sclMhz * MinLow[sclSpeed]
    /\ (LowCycles + HighCycles) * 1000 >= sclMhz * 2 * HalfPeriod[sclSpeed]
    /\ CountsFit(sclLow, sclHigh)
=============================================================================
