-------------------------------- MODULE Clock --------------------------------
(***************************************************************************)
(* The clocks of Quark D2000 and its low power states: the oscillator, the *)
(* dividers, the flash wait states that have to suit the frequency, and    *)
(* the variable from which clk_sys_udelay computes a delay.                *)
(*                                                                         *)
(* A function that touches the clock is the sequence of register writes it *)
(* does, carried out one at a time: the processor fetches the next one from *)
(* the flash at the frequency, and with the wait states, of that moment.   *)
(* Frequencies are in units of 1/32 MHz, so that the RTC oscillator is 1.  *)
(* A divider acts while it is enabled, and only a 0 -> 1 of its enable bit *)
(* brings a new value into force.                                          *)
(***************************************************************************)
EXTENDS Naturals, Sequences

CONSTANTS
  ClkModes,     \* the clk_sys_mode_t values the application uses
  ClkDivs,      \* the clk_sys_div_t values it uses
  TrimPresent,  \* the modes whose trim code is in the flash
  WakeEvents,   \* the qm_power_wake_event_t values it uses: "rtc", "gpio"
  Dividers      \* the other dividers it sets: "periph", "gpio_db", "ext", "rtc"

SiModes == {"si32", "si16", "si8", "si4"}

ASSUME ClockAssumption ==
  /\ ClkModes \subseteq SiModes \cup {"rtc", "xtal"} /\ ClkDivs \subseteq 0..7
  /\ TrimPresent \subseteq SiModes /\ WakeEvents \subseteq {"rtc", "gpio"}
  /\ Dividers \subseteq {"periph", "gpio_db", "ext", "rtc"}

VARIABLES
  ccu,         \* ccu_sys_clk_ctl: what is selected, the divider, its enable bit
  osc0,        \* osc0_cfg1: the oscillators, which one is used, the trim code
  tmg,         \* tmg_ctrl of the flash: "slow", or the wait states
  divs,        \* the other dividers: the field, its enable bit, what is in force
  lowered,     \* the other registers that hold what a low power state wants
  gps0,        \* the low power state that was entered, QM_GPS0_POWER_STATE_*
  ticksPerUs,  \* ticks_per_us
  context,     \* power_context
  writes,      \* the register writes still to do
  halted,      \* the processor is in HLT
  rtcWoke      \* history: the RTC oscillator ran it there, since gps0 was written

clockVars ==
  <<ccu, osc0, tmg, divs, lowered, gps0, ticksPerUs, context, writes, halted,
    rtcWoke>>

\* What boot_clk_hyb_set_mode and clk_trim_apply leave the application.
ClockInit ==
  /\ ccu = [hybrid |-> TRUE, div |-> 0, divEn |-> TRUE]
  /\ osc0 = [freq |-> "si32", siOn |-> TRUE, xtalOn |-> FALSE, xtalUsed |-> FALSE,
             pd |-> FALSE, trim |-> IF "si32" \in TrimPresent THEN "si32" ELSE "none"]
  /\ tmg = "two"
  /\ divs = [d \in Dividers |-> [div |-> 0, en |-> FALSE, inForce |-> 0]]
  /\ lowered = {} /\ gps0 = "none" /\ ticksPerUs = 32
  /\ context = [ccu |-> ccu, osc0 |-> osc0, tmg |-> tmg]
  /\ writes = <<>> /\ halted = FALSE /\ rtcWoke = FALSE

-----------------------------------------------------------------------------
(* What the hardware makes of the registers.                               *)

SiFreq(mode) ==
  CASE mode = "si32" -> 1024 [] mode = "si16" -> 512
    [] mode = "si8" -> 256 [] mode = "si4" -> 128

OscFreq(osc) == IF osc.xtalUsed THEN 1024 ELSE SiFreq(osc.freq)

\* What a clk_sys_div_t divides by.
Divisor(div) == <<1, 2, 4, 8, 16, 32, 64, 128>>[div + 1]

SysFreq(clk, osc) ==
  IF ~clk.hybrid THEN 1
  ELSE IF clk.divEn THEN OscFreq(osc) \div Divisor(clk.div) ELSE OscFreq(osc)

\* The highest frequency the flash can be read at with those wait states.
FlashFreq(timing) ==
  CASE timing = "slow" -> 128 [] timing = "one" -> 512 [] timing = "two" -> 1024

-----------------------------------------------------------------------------
(* Register writes: the register, and what is new in it.                   *)

Ccu(new) == <<"ccu", new>>
Osc0(new) == <<"osc0", new>>
Each(what, rs) == [i \in DOMAIN rs |-> <<what, rs[i]>>]

\* apply_flash_timings
Timings(ticks) ==
  <<"tmg", IF ticks <= 4 THEN "slow" ELSE IF ticks <= 16 THEN "one" ELSE "two">>

\* sys_ticks_per_us, which is zero below 1 MHz.
TicksOf(mode, div) ==
  CASE mode = "rtc" -> 1
    [] mode = "xtal" -> 32 \div Divisor(div)
    [] mode \in SiModes -> (SiFreq(mode) \div 32) \div Divisor(div)

\* Mutant: the timings of the new frequency are set before it is reached.
FirstTimingsNew(mode, div) == Timings(TicksOf(mode, div))

\* As long as the clock is changing, timings that suit every frequency.
FirstTimings(mode, div) == Timings(32)

\* The oscillator, the switch to it and the divider, for each kind of mode.  The
\* frequency of the silicon oscillator is cleared, which is 32 MHz, then set;
\* the wait for an oscillator to lock writes nothing, and clk_trim_apply is done
\* where the flash has a code for the mode.
Switch(mode, div) ==
  LET hybrid == Ccu([hybrid |-> TRUE, div |-> div, divEn |-> FALSE])
  IN  CASE mode = "rtc" -> <<Ccu([hybrid |-> FALSE, div |-> div, divEn |-> FALSE])>>
        [] mode = "xtal" ->
             <<Osc0([xtalOn |-> TRUE]), Osc0([xtalUsed |-> TRUE]), hybrid,
               Osc0([siOn |-> FALSE])>>
        [] mode \in SiModes ->
             (IF mode \in TrimPresent THEN <<Osc0([trim |-> mode])>> ELSE <<>>)
             \o <<Osc0([freq |-> "si32"]), Osc0([freq |-> mode]),
                  Osc0([siOn |-> TRUE]), Osc0([xtalUsed |-> FALSE]), hybrid,
                  Osc0([xtalOn |-> FALSE])>>

\* clk_sys_set_mode
SetModeWrites(mode, div) ==
  LET ticks == TicksOf(mode, div)
  IN  <<FirstTimings(mode, div)>> \o Switch(mode, div)
      \o <<Ccu([divEn |-> TRUE]), <<"ticks", IF ticks > 0 THEN ticks ELSE 1>>,
           Timings(ticks)>>

\* qm_power_soc_sleep; the registers it masks are named, not their bits.
SleepWrites ==
  <<<<"gps0", "sleep">>>>
  \o Each("lower", <<"adc_op_mode", "cmp_pwr", "lp_clk", "wake_mask", "lp_clk",
                     "periph_gate">>)
  \o SetModeWrites("si4", 3) \o Each("lower", <<"regulator">>) \o <<<<"halt", TRUE>>>>

\* qm_power_soc_deep_sleep
DeepSleepWrites(event) ==
  <<<<"gps0", "deep">>>>
  \o Each("lower", <<"wake_mask", "adc_op_mode", "cmp_pwr", "periph_gate",
                     "ext_clock", "pmux_slew">>)
  \o (IF event = "rtc" THEN <<>>
      ELSE Each("lower", <<"osc1">>) \o SetModeWrites("si4", 7))
  \o Each("lower", <<"lp_clk">>) \o <<Osc0([pd |-> TRUE])>>
  \o Each("lower", <<"gpio_db", "osc0_1v2", "flash_lve", "aon_vr", "regulator">>)
  \o (IF event = "rtc" THEN SetModeWrites("rtc", 0) ELSE <<>>)
  \o <<<<"halt", TRUE>>>>

\* ccu_sys_clk_ctl as it was saved, with the divider enabled anew.
RestoreSysClk(c) == <<Ccu(c.ccu), Ccu([divEn |-> FALSE]), Ccu([divEn |-> TRUE])>>

\* Mutant: the wait states come back with the frequency they are for.
FirstOfRestoreClk(c) == Ccu(c.ccu)

\* The wait states come back first.
FirstOfRestore(c) == <<"tmg", c.tmg>>

\* qm_power_soc_sleep_restore, which leaves the wake mask as it is.
SleepRestoreWrites(c) ==
  Each("giveBack", <<"regulator">>) \o <<FirstOfRestore(c)>> \o RestoreSysClk(c)
  \o <<Osc0(c.osc0)>>
  \o Each("giveBack", <<"periph_gate", "cmp_pwr", "adc_op_mode", "lp_clk">>)
  \o <<<<"gps0", "none">>>>

\* qm_power_soc_deep_sleep_restore
DeepSleepRestoreWrites(c) ==
  Each("giveBack", <<"regulator">>) \o <<FirstOfRestore(c)>>
  \o Each("giveBack", <<"aon_vr", "osc0_1v2", "flash_lve">>) \o RestoreSysClk(c)
  \o Each("giveBack", <<"gpio_db">>) \o <<Osc0(c.osc0)>>
  \o Each("giveBack", <<"periph_gate", "osc1", "cmp_pwr", "adc_op_mode",
                        "pmux_slew", "ext_clock", "lp_clk", "wake_mask">>)
  \o <<<<"gps0", "none">>>>

\* Mutant: the mask of every divider keeps its enable bit.
EnableKeepsAll(d) == TRUE

\* CLK_PERIPH_DIV_DEF_MASK keeps the enable bit, the other masks clear it.
EnableKeeps(d) == d = "periph"

\* clk_periph_set_div, clk_gpio_db_set_div, clk_ext_set_div, clk_rtc_set_div: the
\* new value, then the enable bit.
SetDividerWrites(d, div) ==
  <<<<"div", d, [div |-> div, en |-> EnableKeeps(d) /\ divs[d].en]>>,
    <<"div", d, [div |-> div, en |-> TRUE]>>>>

-----------------------------------------------------------------------------
(* The application and the processor.                                      *)

Running == writes = <<>> /\ ~halted

Do(ws) ==
  /\ Running /\ writes' = ws
  /\ UNCHANGED <<ccu, osc0, tmg, divs, lowered, gps0, ticksPerUs, halted, rtcWoke>>

SetMode ==
  /\ gps0 = "none" /\ UNCHANGED context
  /\ \E mode \in ClkModes, div \in ClkDivs : Do(SetModeWrites(mode, div))

SetDivider ==
  /\ gps0 = "none" /\ UNCHANGED context
  /\ \E d \in Dividers, div \in 0..1 : Do(SetDividerWrites(d, div))

\* Either low power state saves the registers first.
SleepOrDeepSleep ==
  /\ gps0 = "none"
  /\ context' = [ccu |-> ccu, osc0 |-> osc0, tmg |-> tmg]
  /\ Do(SleepWrites) \/ \E event \in WakeEvents : Do(DeepSleepWrites(event))

\* qm_power_soc_restore
RestoreSoc ==
  /\ UNCHANGED context
  /\ \/ gps0 = "sleep" /\ Do(SleepRestoreWrites(context))
     \/ gps0 = "deep" /\ Do(DeepSleepRestoreWrites(context))

\* A register with some fields written anew.
Amend(new, old) == [f \in DOMAIN old |-> IF f \in DOMAIN new THEN new[f] ELSE old[f]]

\* The registers, and the registers after a write.
Now ==
  [ccu |-> ccu, osc0 |-> osc0, tmg |-> tmg, divs |-> divs, lowered |-> lowered,
   gps0 |-> gps0, halted |-> halted, rtcWoke |-> rtcWoke]

After(r, w) ==
  [ccu |-> IF w[1] = "ccu" THEN Amend(w[2], r.ccu) ELSE r.ccu,
   osc0 |-> IF w[1] = "osc0" THEN Amend(w[2], r.osc0) ELSE r.osc0,
   tmg |-> IF w[1] = "tmg" THEN w[2] ELSE r.tmg,
   divs |-> IF w[1] # "div" THEN r.divs
            ELSE [r.divs EXCEPT ![w[2]] =
                    [div |-> w[3].div, en |-> w[3].en,
                     inForce |-> IF w[3].en /\ ~@.en THEN w[3].div ELSE @.inForce]],
   lowered |-> CASE w[1] = "lower" -> r.lowered \cup {w[2]}
                 [] w[1] = "giveBack" -> r.lowered \ {w[2]}
                 [] OTHER -> r.lowered,
   gps0 |-> IF w[1] = "gps0" THEN w[2] ELSE r.gps0,
   halted |-> w[1] = "halt",
   rtcWoke |-> IF w[1] = "gps0" THEN FALSE ELSE r.rtcWoke]

\* The next write.
Write ==
  LET w == Head(writes)
      r == After(Now, w)
  IN  /\ writes # <<>> /\ writes' = Tail(writes)
      /\ ccu' = r.ccu /\ osc0' = r.osc0 /\ tmg' = r.tmg /\ divs' = r.divs
      /\ lowered' = r.lowered /\ gps0' = r.gps0 /\ halted' = r.halted
      /\ rtcWoke' = r.rtcWoke
      /\ ticksPerUs' = IF w[1] = "ticks" THEN w[2] ELSE ticksPerUs
      /\ UNCHANGED context

\* A wake event.  CCU_EXIT_TO_HYBOSC, of ccu_lp_clk_ctl, makes the hardware leave
\* a low power state on the hybrid oscillator.
Wake ==
  /\ halted /\ halted' = FALSE /\ rtcWoke' = ~ccu.hybrid
  /\ ccu' = [ccu EXCEPT !.hybrid = TRUE]
  /\ UNCHANGED <<osc0, tmg, divs, lowered, gps0, ticksPerUs, context, writes>>

ClockNext ==
  SetMode \/ SetDivider \/ SleepOrDeepSleep \/ RestoreSoc \/ Write \/ Wake

ClockSpec == ClockInit /\ [][ClockNext]_clockVars

-----------------------------------------------------------------------------
(* Properties.                                                             *)

CcuRegs == [hybrid : BOOLEAN, div : 0..7, divEn : BOOLEAN]

OscRegs ==
  [freq : SiModes, siOn : BOOLEAN, xtalOn : BOOLEAN, xtalUsed : BOOLEAN,
   pd : BOOLEAN, trim : SiModes \cup {"none"}]

DivRegs == [div : 0..1, en : BOOLEAN, inForce : 0..1]

ClockTypeOK ==
  /\ ccu \in CcuRegs /\ osc0 \in OscRegs /\ divs \in [Dividers -> DivRegs]
  /\ tmg \in {"slow", "one", "two"} /\ ticksPerUs \in 1..32
  /\ gps0 \in {"none", "sleep", "deep"} /\ halted \in BOOLEAN
  /\ rtcWoke \in BOOLEAN

\* A deep sleep that the RTC ends leaves the hybrid oscillator running at its full
\* frequency with the wait states of the RTC's (power_states.c:317-320), until the
\* return has configured the oscillator (osc0_cfg1) as it was.
Exposed == rtcWoke /\ osc0.pd

\* At every register write of a change of mode, of a low power state or of the
\* return from one, the flash is read no faster than its wait states allow, but
\* for that one stretch of code after a wake-up by the RTC.
FlashTimingHeld == Exposed \/ SysFreq(ccu, osc0) <= FlashFreq(tmg)

\* Where nothing is going on, every divider that was set is in force, every register
\* a low power state took is given back, and the oscillator runs with its own trim
\* code, if there is one.  Two exceptions, both the code's: the divider of the
\* peripherals, whose mask keeps the enable bit, so that no second setting comes
\* into force (clk.c:298), and the wake mask, which qm_power_soc_sleep clears
\* (power_states.c:112) and only the return from a deep sleep sets again.
ClockSettled ==
  Running /\ gps0 = "none" =>
    /\ \A d \in Dividers \ {"periph"} : divs[d].inForce = divs[d].div
    /\ lowered \subseteq {"wake_mask"} /\ ~osc0.pd
    /\ ~osc0.xtalUsed /\ osc0.freq \in TrimPresent => osc0.trim = osc0.freq

\* clk.h:286 of clk_sys_udelay: "This function will wait until at least the given
\* number of microseconds has elapsed": it counts ticks_per_us system clock ticks
\* for each of them, so that the clock must not be faster.
DelaysLongEnough == Running /\ gps0 = "none" => SysFreq(ccu, osc0) <= 32 * ticksPerUs
-----------------------------------------------------------------------------
(* The inductive invariant behind FlashTimingHeld and ClockSettled: the    *)
(* writes still to do lead from the present registers to ones that may     *)
(* stay, by way of registers the flash can be read with.                   *)

SleepLowers ==
  {"adc_op_mode", "cmp_pwr", "lp_clk", "wake_mask", "periph_gate", "regulator"}

DeepSleepLowers ==
  {"wake_mask", "adc_op_mode", "cmp_pwr", "periph_gate", "ext_clock", "pmux_slew",
   "osc1", "lp_clk", "gpio_db", "osc0_1v2", "flash_lve", "aon_vr", "regulator"}

Registers ==
  [ccu : CcuRegs, osc0 : OscRegs, tmg : {"slow", "one", "two"},
   divs : [Dividers -> DivRegs], lowered : SUBSET DeepSleepLowers,
   gps0 : {"none", "sleep", "deep"}, halted : BOOLEAN, rtcWoke : BOOLEAN]

\* The flash can be read, or what is Exposed.
Suits(r) ==
  (r.rtcWoke /\ r.osc0.pd) \/ SysFreq(r.ccu, r.osc0) <= FlashFreq(r.tmg)

OwnTrim(osc) == ~osc.xtalUsed /\ osc.freq \in TrimPresent => osc.trim = osc.freq

SlowClock(r) == ~r.osc0.xtalUsed /\ r.osc0.freq = "si4" /\ r.ccu.hybrid

\* A deep sleep that the RTC ends, and what the wake-up makes of it.
RtcSleep(r) == r.osc0.pd /\ (IF r.halted THEN ~r.ccu.hybrid ELSE r.rtcWoke)

\* Registers that may stay.
Lasting ==
  {r \in Registers :
     /\ r.ccu.divEn /\ Suits(r)
     /\ \A d \in Dividers \ {"periph"} : r.divs[d].inForce = r.divs[d].div
     /\ r.gps0 = "none" =>
          /\ r.lowered \subseteq {"wake_mask"}
          /\ ~r.osc0.pd /\ OwnTrim(r.osc0) /\ ~r.halted
     /\ r.gps0 = "sleep" => r.lowered \subseteq SleepLowers
     /\ r.gps0 # "none" => SlowClock(r) \/ RtcSleep(r)}

\* What a low power state saved, to come back to.
Saved ==
  {c \in [ccu : CcuRegs, osc0 : OscRegs, tmg : {"slow", "one", "two"}] :
     /\ c.ccu.divEn /\ SysFreq(c.ccu, c.osc0) <= FlashFreq(c.tmg)
     /\ ~c.osc0.pd /\ OwnTrim(c.osc0)}

\* The registers from r on, as the writes change them: until the last the
\* processor runs, and the flash can be read.
Run(run, r, ws) ==
  /\ run \in [0..Len(ws) -> Registers] /\ run[0] = r
  /\ \A k \in 1..Len(ws) :
       /\ ~run[k - 1].halted /\ Suits(run[k - 1])
       /\ run[k] = After(run[k - 1], ws[k])

\* From each of A the writes lead to one of B.
Lead(A, ws, B) ==
  /\ \E S : ws \in Seq(S)
  /\ \A r \in A : \E run : Run(run, r, ws) /\ run[Len(ws)] \in B

ClockInv == Now \in Registers /\ context \in Saved /\ Lead({Now}, writes, Lasting)
=============================================================================
