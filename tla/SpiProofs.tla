------------------------------ MODULE SpiProofs ------------------------------
(***************************************************************************)
(* The SPI master never overruns its RX FIFO in full duplex when it is     *)
(* driven by interrupts, and keeps the contract of Transfer in every mode, *)
(* by interrupts, polled or by DMA, for any depth of the FIFOs, any        *)
(* thresholds and any lengths.  The inductive invariant accounts for the   *)
(* frames: each one given to the controller is queued, being shifted or    *)
(* clocked, and each one kept waits in the RX FIFO or has been stored.     *)
(***************************************************************************)
EXTENDS SpiPolled, SpiDma, TLAPS

\* The frame in the shift register.
Shifting == IF spiShift THEN 1 ELSE 0

\* Frames given to the controller and, in RX and EEPROM_READ, those it clocks
\* without being given one.
FramesGiven ==
  /\ spiMode \in {"TX", "TX_RX"} => spiTx = spiClocked + Shifting + spiTxFlr
  /\ spiMode = "RX" =>
       /\ spiClocked = 0 => Shifting + spiTxFlr = 1
       /\ spiClocked > 0 => spiTxFlr = 0
       /\ spiClocked + Shifting <= spiXfer.rx
       /\ spiTx = 0
  /\ spiMode = "EEPROM_READ" =>
       /\ spiClocked + Shifting <= spiXfer.tx =>
            spiTx = spiClocked + Shifting + spiTxFlr
       /\ spiClocked + Shifting > spiXfer.tx => spiTxFlr = 0 /\ spiTx = spiXfer.tx
       /\ spiClocked + Shifting <= spiXfer.tx + spiXfer.rx

\* Frames kept: at most those clocked while the mode receives.
FramesKept ==
  /\ spiStored = spiRx
  /\ spiMode = "TX" => spiStored + spiRxFlr = 0
  /\ spiMode \in {"RX", "TX_RX"} => spiStored + spiRxFlr <= spiClocked
  /\ spiMode = "EEPROM_READ" =>
       IF spiClocked <= spiXfer.tx
       THEN spiStored + spiRxFlr = 0
       ELSE spiStored + spiRxFlr <= spiClocked - spiXfer.tx

\* Where the handler is, while a transfer is under way.
HandlerSound ==
  /\ "RXF" \in spiImr => spiRx < spiXfer.rx
  /\ spiPc = "rx" => spiRx < spiXfer.rx
  /\ spiPc = "fill" => spiTxFlr <= spiSample

\* With no transfer the controller is off, and the handler only leaves.
Idle ==
  /\ spiImr = {} /\ ~spiEn /\ ~spiShift /\ spiTxFlr = 0 /\ spiRxFlr = 0
  /\ spiPc \in {"none", "rxend", "check"}
  /\ spiPc # "none" => spiXfer.tx = 0 /\ spiMode = "RX"

\* The type invariant in two halves: the flags, and the rest.
FlagsTypeOK ==
  spiEn \in BOOLEAN /\ spiShift \in BOOLEAN /\ spiOverflow \in BOOLEAN /\ spiBusy \in BOOLEAN

FramesTypeOK ==
  /\ spiMode \in SpiModes /\ spiXfer \in SpiLens
  /\ spiTx \in 0 .. SpiMaxLen /\ spiRx \in 0 .. SpiMaxLen
  /\ spiImr \subseteq SpiInterrupts
  /\ spiTxFtl \in 0 .. SPI_FIFOS_DEPTH - 1 /\ spiRxFtl \in 0 .. SPI_FIFOS_DEPTH - 1
  /\ spiTxFlr \in 0 .. SPI_FIFOS_DEPTH /\ spiRxFlr \in 0 .. SPI_FIFOS_DEPTH
  /\ spiClocked \in 0 .. 2 * SpiMaxLen
  /\ spiPc \in {"none", "rx", "rxend", "check", "fill"}
  /\ spiStatus \subseteq SpiInterrupts
  /\ spiSample \in 0 .. SPI_FIFOS_DEPTH
  /\ spiStored \in 0 .. SpiMaxLen
  /\ spiOutcome \in {"none", "done", "failed"}

\* NeverOverrun, whether the interrupts are still enabled or not.
RoomKept ==
  spiMode = "TX_RX" =>
    /\ ~spiOverflow
    /\ spiTxFlr + (IF spiShift THEN 1 ELSE 0) + spiRxFlr <= SPI_FIFOS_DEPTH

SpiInv ==
  /\ FlagsTypeOK /\ FramesTypeOK
  /\ spiBusy => /\ spiXfer \in SpiTransfers(spiMode)
                /\ spiTx <= spiXfer.tx /\ spiRx <= spiXfer.rx
                /\ FramesGiven /\ FramesKept /\ HandlerSound
                /\ spiOutcome = "none"
  /\ ~spiBusy => Idle
  /\ RoomKept

LEMMA SpiInitInv == SpiInit => SpiInv
<1>. SUFFICES ASSUME SpiInit PROVE SpiInv
  OBVIOUS
<1>1. FlagsTypeOK
  BY DEF SpiInit, FlagsTypeOK
<1>2. FramesTypeOK
  BY SpiAssumption DEF SpiInit, FramesTypeOK, SpiModes, SpiLens
<1>. QED
  BY <1>1, <1>2 DEF SpiInit, SpiInv, Idle, RoomKept

LEMMA SpiStartKeeps ==
  ASSUME SpiInv, NEW mode \in SpiModes, NEW x \in SpiTransfers(mode), SpiStart(mode, x)
  PROVE  SpiInv'
<1>1. FlagsTypeOK'
  BY DEF SpiInv, SpiStart, FlagsTypeOK
<1>2. FramesTypeOK'
  BY SpiAssumption DEF SpiInv, SpiStart, FramesTypeOK, SpiTransfers, SpiLens,
     SpiInterrupts, FirstThreshold, spiIsr
<1>. QED
  BY <1>1, <1>2 DEF SpiInv, SpiStart, FramesTypeOK, SpiTransfers, SpiLens,
     Idle, FramesGiven, FramesKept, HandlerSound, Shifting, spiIsr,
     RoomKept

LEMMA SpiTerminateKeeps == SpiInv /\ SpiTerminate => SpiInv'
<1>. SUFFICES ASSUME SpiInv, SpiTerminate PROVE SpiInv'
  OBVIOUS
<1>1. FlagsTypeOK'
  BY DEF SpiInv, SpiTerminate, FlagsTypeOK, SpiReport, SpiDisable
<1>2. FramesTypeOK'
  BY SpiAssumption DEF SpiInv, SpiTerminate, FramesTypeOK, SpiReport,
     SpiDisable, spiIsr
<1>3. spiBusy' => spiBusy
  BY DEF SpiTerminate
<1>4. CASE spiBusy /\ spiBusy'
  <2>1. FramesGiven' /\ (spiTx <= spiXfer.tx)'
    BY <1>4 DEF SpiTerminate, SpiReport
  <2>2. FramesKept' /\ (spiRx <= spiXfer.rx)'
    BY <1>4 DEF SpiTerminate, SpiReport
  <2>3. HandlerSound' /\ RoomKept'
    BY <1>4 DEF SpiTerminate, SpiReport
  <2>4. (spiOutcome = "none" /\ spiXfer \in SpiTransfers(spiMode))'
    BY <1>4 DEF SpiTerminate, SpiReport
  <2>. QED
    BY <1>1, <1>2, <1>4, <2>1, <2>2, <2>3, <2>4 DEF SpiInv
<1>5. CASE ~spiBusy'
  BY <1>1, <1>5, <1>2, SpiAssumption DEF SpiInv, SpiTerminate, Idle,
     SpiDisable, spiIsr, RoomKept
<1>. QED
  BY <1>3, <1>4, <1>5

LEMMA SpiEnterKeeps == SpiInv /\ SpiEnter => SpiInv'
<1>. SUFFICES ASSUME SpiInv, SpiEnter PROVE SpiInv'
  OBVIOUS
<1>1. FlagsTypeOK'
  BY DEF SpiInv, SpiEnter, FlagsTypeOK, spiChip, spiClient
<1>2. FramesTypeOK'
  BY DEF SpiInv, SpiEnter, FramesTypeOK, SpiPending, spiDriver, spiRegs,
     spiChip, spiClient
<1>3. spiBusy' => spiBusy
  BY DEF SpiEnter, spiClient
<1>4. CASE spiBusy /\ spiBusy'
  <2>1. FramesGiven' /\ (spiTx <= spiXfer.tx)'
    BY <1>4 DEF SpiInv, SpiEnter, FramesGiven, Shifting, spiDriver, spiChip
  <2>2. FramesKept' /\ (spiRx <= spiXfer.rx)'
    BY <1>4 DEF SpiInv, SpiEnter, FramesKept, spiDriver, spiChip, spiClient
  <2>3. HandlerSound' /\ RoomKept'
    BY DEF SpiInv, SpiEnter, Idle, SpiPending, HandlerSound, spiDriver,
       spiRegs, spiChip, RoomKept
  <2>4. (spiOutcome = "none" /\ spiXfer \in SpiTransfers(spiMode))'
    BY <1>4 DEF SpiInv, SpiEnter, spiDriver, spiClient
  <2>. QED
    BY <1>1, <1>2, <1>4, <2>1, <2>2, <2>3, <2>4 DEF SpiInv
<1>5. CASE ~spiBusy'
  BY <1>5 DEF SpiInv, SpiEnter, Idle, SpiPending, spiClient
<1>. QED
  BY <1>3, <1>4, <1>5

LEMMA SpiOverrunKeeps == SpiInv /\ SpiOverrun => SpiInv'
<1>. SUFFICES ASSUME SpiInv, SpiOverrun PROVE SpiInv'
  OBVIOUS
<1>1. FlagsTypeOK'
  BY DEF SpiOverrun, FlagsTypeOK, SpiReport, SpiDisable
<1>2. FramesTypeOK'
  BY SpiAssumption DEF SpiInv, SpiOverrun, FramesTypeOK, Idle, SpiPending,
     SpiReport, SpiDisable, spiIsr, spiDriver
<1>3. spiBusy' => spiBusy
  BY DEF SpiOverrun, SpiReport
<1>4. CASE spiBusy /\ spiBusy'
  <2>1. FramesGiven' /\ (spiTx <= spiXfer.tx)'
    BY <1>4 DEF SpiOverrun, SpiReport
  <2>2. FramesKept' /\ (spiRx <= spiXfer.rx)'
    BY <1>4 DEF SpiOverrun, SpiReport
  <2>3. HandlerSound' /\ RoomKept'
    BY <1>4 DEF SpiOverrun, SpiReport
  <2>4. (spiOutcome = "none" /\ spiXfer \in SpiTransfers(spiMode))'
    BY <1>4 DEF SpiOverrun, SpiReport
  <2>. QED
    BY <1>1, <1>2, <1>4, <2>1, <2>2, <2>3, <2>4 DEF SpiInv
<1>5. CASE ~spiBusy'
  BY <1>1, <1>5, <1>2, SpiAssumption DEF SpiInv, SpiOverrun, Idle, SpiDisable,
     spiIsr, RoomKept
<1>. QED
  BY <1>3, <1>4, <1>5

LEMMA SpiReadKeeps == SpiInv /\ SpiRead => SpiInv'
<1>. SUFFICES ASSUME SpiInv, SpiRead PROVE SpiInv'
  OBVIOUS
<1>1. FlagsTypeOK'
  BY DEF SpiInv, SpiRead, FlagsTypeOK, SpiReport, SpiDisable
<1>2. spiBusy /\ spiRx < spiXfer.rx
  BY DEF SpiInv, SpiRead, Idle, HandlerSound
<1>a. (spiRx \in 0 .. SpiMaxLen /\ spiStored \in 0 .. SpiMaxLen)'
  BY <1>2, SpiAssumption DEF SpiRead, SpiInv, FramesTypeOK, SpiLens,
     FramesKept
<1>3. CASE spiRx + 1 < spiXfer.rx
  <2>1. FramesTypeOK'
    BY <1>a, <1>3, SpiAssumption DEF SpiRead, SpiInv, FramesTypeOK
  <2>. QED
    BY <2>1, <1>3, SpiAssumption DEF SpiRead, SpiInv, FlagsTypeOK,
       FramesTypeOK, SpiLens, Idle, FramesGiven, FramesKept, HandlerSound,
       Shifting, RoomKept
<1>4. CASE ~(spiRx + 1 < spiXfer.rx) /\ spiMode = "RX"
  <2>1. FramesTypeOK'
    BY <1>2, <1>4, SpiAssumption DEF SpiRead, SpiInv, FramesTypeOK, SpiLens,
       FramesKept, SpiReport, SpiDisable
  <2>. QED
    BY <1>1, <2>1, <1>4 DEF SpiRead, SpiInv, SpiTransfers, SpiLens, Idle,
       RoomKept, SpiReport, SpiDisable
<1>5. CASE ~(spiRx + 1 < spiXfer.rx) /\ spiMode # "RX"
  <2>1. FramesTypeOK'
    BY <1>a, <1>5, SpiAssumption DEF SpiRead, SpiInv, FramesTypeOK
  <2>. QED
    BY <2>1, <1>5 DEF SpiRead, SpiInv, FlagsTypeOK, FramesTypeOK,
       SpiTransfers, SpiLens, Idle, FramesGiven, FramesKept, HandlerSound,
       Shifting, RoomKept
<1>. QED
  BY <1>3, <1>4, <1>5

LEMMA SpiReadEndKeeps == SpiInv /\ SpiReadEnd => SpiInv'
<1>. SUFFICES ASSUME SpiInv, SpiReadEnd PROVE SpiInv'
  OBVIOUS
<1>1. FlagsTypeOK'
  BY DEF SpiInv, SpiReadEnd, FlagsTypeOK, spiChip, spiClient
<1>2. FramesTypeOK'
  BY SpiAssumption DEF SpiInv, SpiReadEnd, FramesTypeOK, SpiLens,
     NextThreshold, spiDriver, spiChip, spiClient
<1>3. spiBusy' => spiBusy
  BY DEF SpiReadEnd, spiClient
<1>4. CASE spiBusy /\ spiBusy'
  <2>1. FramesGiven' /\ (spiTx <= spiXfer.tx)'
    BY <1>4 DEF SpiInv, SpiReadEnd, FramesGiven, Shifting, spiDriver, spiChip
  <2>2. FramesKept' /\ (spiRx <= spiXfer.rx)'
    BY <1>4 DEF SpiInv, SpiReadEnd, FramesKept, spiDriver, spiChip, spiClient
  <2>3. HandlerSound' /\ RoomKept'
    BY DEF SpiInv, SpiReadEnd, Idle, SpiPending, HandlerSound, spiDriver,
       spiRegs, spiChip, RoomKept
  <2>4. (spiOutcome = "none" /\ spiXfer \in SpiTransfers(spiMode))'
    BY <1>4 DEF SpiInv, SpiReadEnd, spiDriver, spiClient
  <2>. QED
    BY <1>1, <1>2, <1>4, <2>1, <2>2, <2>3, <2>4 DEF SpiInv
<1>5. CASE ~spiBusy'
  BY <1>1, <1>5, <1>2 DEF SpiInv, SpiReadEnd, Idle, spiDriver, spiChip,
     spiClient, RoomKept
<1>. QED
  BY <1>3, <1>4, <1>5

LEMMA SpiDoneKeeps == SpiInv /\ SpiDone => SpiInv'
<1>. SUFFICES ASSUME SpiInv, SpiDone PROVE SpiInv'
  OBVIOUS
<1>1. FlagsTypeOK'
  BY DEF SpiInv, SpiDone, FlagsTypeOK, SpiReport, SpiDisable
<1>2. FramesTypeOK'
  BY SpiAssumption DEF SpiInv, SpiDone, FramesTypeOK, Idle, SpiReport,
     SpiDisable, spiIsr, spiDriver
<1>3. spiBusy' => spiBusy
  BY DEF SpiDone, SpiReport
<1>4. CASE spiBusy /\ spiBusy'
  <2>1. FramesGiven' /\ (spiTx <= spiXfer.tx)'
    BY <1>4 DEF SpiInv, SpiDone, FramesTypeOK, SpiReport, SpiDisable,
       SpiComplete, FramesGiven, FramesKept, Shifting, spiDriver
  <2>2. FramesKept' /\ (spiRx <= spiXfer.rx)'
    BY <1>4 DEF SpiInv, SpiDone, FramesTypeOK, SpiReport, SpiDisable,
       FramesKept, spiDriver
  <2>3. HandlerSound' /\ RoomKept'
    BY DEF SpiInv, SpiDone, FramesTypeOK, SpiDisable, SpiComplete,
       HandlerSound, spiDriver, RoomKept
  <2>4. (spiOutcome = "none" /\ spiXfer \in SpiTransfers(spiMode))'
    BY <1>4 DEF SpiInv, SpiDone, SpiReport, spiDriver
  <2>. QED
    BY <1>1, <1>2, <1>4, <2>1, <2>2, <2>3, <2>4 DEF SpiInv
<1>5. CASE ~spiBusy'
  BY <1>1, <1>5, <1>2, SpiAssumption DEF SpiInv, SpiDone, Idle, SpiDisable,
     spiDriver, RoomKept
<1>. QED
  BY <1>3, <1>4, <1>5

LEMMA SpiSampleTxKeeps == SpiInv /\ SpiSampleTx => SpiInv'
<1>. SUFFICES ASSUME SpiInv, SpiSampleTx PROVE SpiInv'
  OBVIOUS
<1>1. FlagsTypeOK'
  BY DEF SpiInv, SpiSampleTx, FlagsTypeOK, spiChip, spiClient
<1>2. FramesTypeOK'
  BY SpiAssumption DEF SpiInv, SpiSampleTx, FramesTypeOK, SpiLens, SpiReport,
     SpiDisable, SpiComplete, FramesKept, Receiving, spiIsr, spiDriver,
     spiRegs, spiChip, spiClient, BusyOnBus
<1>3. spiBusy' => spiBusy
  BY DEF SpiSampleTx, spiClient
<1>4. CASE spiBusy /\ spiBusy'
  <2>1. FramesGiven' /\ (spiTx <= spiXfer.tx)'
    BY <1>4 DEF SpiInv, SpiSampleTx, FramesGiven, Shifting, spiDriver, spiChip
  <2>2. FramesKept' /\ (spiRx <= spiXfer.rx)'
    BY <1>4 DEF SpiInv, SpiSampleTx, FramesKept, spiDriver, spiChip, spiClient
  <2>3. HandlerSound' /\ RoomKept'
    BY <1>4 DEF SpiInv, SpiSampleTx, FramesTypeOK, HandlerSound, spiDriver,
       spiRegs, spiChip, RoomKept
  <2>4. (spiOutcome = "none" /\ spiXfer \in SpiTransfers(spiMode))'
    BY <1>4 DEF SpiInv, SpiSampleTx, spiDriver, spiClient
  <2>. QED
    BY <1>1, <1>2, <1>4, <2>1, <2>2, <2>3, <2>4 DEF SpiInv
<1>5. CASE ~spiBusy'
  BY <1>5 DEF SpiInv, SpiSampleTx, FlagsTypeOK, FramesTypeOK, Idle, spiDriver,
     spiRegs, spiChip, spiClient, RoomKept
<1>. QED
  BY <1>3, <1>4, <1>5

LEMMA SpiFillKeeps == SpiInv /\ SpiFill => SpiInv'
<1>. SUFFICES ASSUME SpiInv, SpiFill PROVE SpiInv'
  OBVIOUS
<1>1. FlagsTypeOK'
  BY DEF SpiInv, SpiFill, FlagsTypeOK, spiClient
<1>2. FramesTypeOK'
  BY SpiAssumption DEF SpiInv, SpiFill, FramesTypeOK, SpiLens, Idle,
     FramesFree, HandlerSound, spiClient
<1>3. spiBusy' => spiBusy
  BY DEF SpiFill, spiClient
<1>4. CASE spiBusy /\ spiBusy'
  <2>1. FramesGiven' /\ (spiTx <= spiXfer.tx)'
    BY DEF SpiInv, SpiFill, FramesTypeOK, SpiTransfers, SpiLens, Idle,
       FramesGiven, Shifting
  <2>2. FramesKept' /\ (spiRx <= spiXfer.rx)'
    BY <1>4 DEF SpiInv, SpiFill, FramesKept, spiDriver, spiChip, spiClient
  <2>3. HandlerSound' /\ RoomKept'
    BY <1>4, SpiAssumption DEF SpiInv, SpiFill, FramesTypeOK, FramesFree,
       HandlerSound, RoomKept
  <2>4. (spiOutcome = "none" /\ spiXfer \in SpiTransfers(spiMode))'
    BY <1>4 DEF SpiInv, SpiFill, spiDriver, spiClient
  <2>. QED
    BY <1>1, <1>2, <1>4, <2>1, <2>2, <2>3, <2>4 DEF SpiInv
<1>5. CASE ~spiBusy'
  BY <1>5 DEF SpiInv, SpiFill, FlagsTypeOK, FramesTypeOK, Idle, spiDriver,
     spiRegs, spiChip, spiClient, RoomKept
<1>. QED
  BY <1>3, <1>4, <1>5

LEMMA SpiLoadKeeps == SpiInv /\ SpiLoad => SpiInv'
<1>. SUFFICES ASSUME SpiInv, SpiLoad PROVE SpiInv'
  OBVIOUS
<1>1. FlagsTypeOK'
  BY DEF SpiInv, SpiLoad, FlagsTypeOK, spiClient
<1>2. FramesTypeOK'
  BY SpiAssumption DEF SpiInv, SpiLoad, FramesTypeOK, SpiLens, SpiReport,
     SpiDisable, FramesKept, Receiving, spiIsr, spiDriver, spiRegs, spiChip,
     spiClient
<1>3. spiBusy' => spiBusy
  BY DEF SpiLoad, spiClient
<1>4. CASE spiBusy /\ spiBusy'
  <2>1. FramesGiven' /\ (spiTx <= spiXfer.tx)'
    BY DEF SpiInv, SpiLoad, FramesTypeOK, SpiTransfers, SpiLens, Idle,
       FramesGiven, Shifting, Receiving, spiDriver
  <2>2. FramesKept' /\ (spiRx <= spiXfer.rx)'
    BY <1>4 DEF SpiInv, SpiLoad, FramesKept, spiDriver, spiChip, spiClient
  <2>3. HandlerSound' /\ RoomKept'
    BY <1>4 DEF SpiInv, SpiLoad, FramesTypeOK, HandlerSound, Receiving,
       spiIsr, spiDriver, spiRegs, RoomKept
  <2>4. (spiOutcome = "none" /\ spiXfer \in SpiTransfers(spiMode))'
    BY <1>4 DEF SpiInv, SpiLoad, spiDriver, spiClient
  <2>. QED
    BY <1>1, <1>2, <1>4, <2>1, <2>2, <2>3, <2>4 DEF SpiInv
<1>5. CASE ~spiBusy'
  BY <1>5 DEF SpiInv, SpiLoad, FlagsTypeOK, FramesTypeOK, Idle, spiDriver,
     spiRegs, spiChip, spiClient, RoomKept
<1>. QED
  BY <1>3, <1>4, <1>5

LEMMA SpiClockKeeps == SpiInv /\ SpiClock => SpiInv'
<1>. SUFFICES ASSUME SpiInv, SpiClock PROVE SpiInv'
  OBVIOUS
<1>1. FlagsTypeOK'
  BY DEF SpiInv, SpiClock, FlagsTypeOK, spiClient
<1>2. FramesTypeOK'
  BY SpiAssumption DEF SpiInv, SpiClock, FramesTypeOK, SpiLens, Idle,
     FramesGiven, Shifting, SpiModes, spiIsr, spiDriver, spiRegs, spiClient
<1>3. spiBusy' => spiBusy
  BY DEF SpiClock, spiClient
<1>4. CASE spiBusy /\ spiBusy'
  <2>1. FramesGiven' /\ (spiTx <= spiXfer.tx)'
    BY <1>4 DEF SpiInv, SpiClock, FramesTypeOK, SpiReport, SpiDisable,
       SpiComplete, FramesGiven, FramesKept, Shifting, spiDriver
  <2>2. FramesKept' /\ (spiRx <= spiXfer.rx)'
    BY DEF SpiInv, SpiClock, FramesTypeOK, SpiLens, Idle, FramesKept,
       spiDriver, spiClient
  <2>3. HandlerSound' /\ RoomKept'
    BY <1>4 DEF SpiInv, SpiClock, FlagsTypeOK, FramesTypeOK, HandlerSound,
       spiIsr, spiDriver, spiRegs, RoomKept
  <2>4. (spiOutcome = "none" /\ spiXfer \in SpiTransfers(spiMode))'
    BY <1>4 DEF SpiInv, SpiClock, spiDriver, spiClient
  <2>. QED
    BY <1>1, <1>2, <1>4, <2>1, <2>2, <2>3, <2>4 DEF SpiInv
<1>5. CASE ~spiBusy'
  BY <1>5 DEF SpiInv, SpiClock, FlagsTypeOK, FramesTypeOK, Idle, spiDriver,
     spiRegs, spiChip, spiClient, RoomKept
<1>. QED
  BY <1>3, <1>4, <1>5

LEMMA SpiStepKeeps == SpiInv /\ [SpiNext]_spiVars => SpiInv'
<1>. SUFFICES ASSUME SpiInv, [SpiNext]_spiVars PROVE SpiInv'
  OBVIOUS
<1>1. CASE UNCHANGED spiVars
  BY <1>1 DEF SpiInv, FlagsTypeOK, FramesTypeOK, FramesGiven, FramesKept,
     HandlerSound, Shifting, RoomKept, Idle, spiVars, spiDriver, spiRegs,
     spiChip, spiIsr, spiClient
<1>2. CASE SpiNext
  BY <1>2, SpiStartKeeps, SpiTerminateKeeps, SpiEnterKeeps, SpiOverrunKeeps,
     SpiReadKeeps, SpiReadEndKeeps, SpiDoneKeeps, SpiSampleTxKeeps,
     SpiFillKeeps, SpiLoadKeeps, SpiClockKeeps DEF SpiNext, SpiHandler, SpiBus
<1>. QED
  BY <1>1, <1>2

\* The invariant holds of qm_spi.c's master in every reachable state.
THEOREM SpiInvariance == SpiSpec => []SpiInv
<1>. QED
  BY SpiInitInv, SpiStepKeeps, PTL DEF SpiSpec

\* Every variable of the SPI master keeps its type.
THEOREM SpiTypeCorrect == SpiSpec => []SpiTypeOK
<1>1. SpiInv /\ spiMet = "none" => SpiTypeOK
  BY DEF SpiInv, FlagsTypeOK, FramesTypeOK, SpiTypeOK
<1>2. SpiInit => spiMet = "none"
  BY DEF SpiInit
<1>3. spiMet = "none" /\ [SpiNext]_spiVars => (spiMet = "none")'
  BY DEF SpiNext, spiVars
<1>. QED
  BY <1>1, <1>2, <1>3, SpiInvariance, PTL DEF SpiSpec

\* In full duplex qm_spi.c's handler never has more frames on their way than
\* the RX FIFO has room for, though it works with a level it read earlier.
THEOREM SpiNeverOverruns == SpiSpec => []NeverOverrun
<1>1. SpiInv => NeverOverrun
  BY DEF SpiInv, RoomKept, NeverOverrun
<1>. QED
  BY <1>1, SpiInvariance, PTL

-----------------------------------------------------------------------------

\* The contract's variables.
SpiAbstract ==
  <<spiBusy,
    IF spiMode = "EEPROM_READ" THEN spiXfer.tx + spiXfer.rx
    ELSE IF spiMode = "TX" THEN spiXfer.tx ELSE spiXfer.rx,
    SpiMoved, spiOutcome>>

LEMMA SpiStartRefines ==
  ASSUME SpiInv, NEW mode \in SpiModes, NEW x \in SpiTransfers(mode), SpiStart(mode, x)
  PROVE  SpiContract!Start
  BY DEF SpiContract!Start, SpiStart, SpiTransfers, SpiLens, SpiMoved

LEMMA SpiTerminateRefines ==
  ASSUME SpiInv, SpiTerminate
  PROVE  [SpiContract!Next]_SpiAbstract
  BY DEF SpiInv, SpiTerminate, FramesTypeOK, SpiLens, SpiReport, SpiDisable,
     FramesGiven, FramesKept, Shifting, SpiMoved, SpiContract!Next,
     SpiContract!Report, SpiAbstract

LEMMA SpiEnterRefines ==
  ASSUME SpiInv, SpiEnter
  PROVE  [SpiContract!Next]_SpiAbstract
  BY DEF SpiEnter, spiDriver, spiChip, spiClient, SpiMoved, SpiAbstract

LEMMA SpiOverrunRefines ==
  ASSUME SpiInv, SpiOverrun
  PROVE  [SpiContract!Next]_SpiAbstract
  BY DEF SpiInv, SpiOverrun, FramesTypeOK, SpiLens, Idle, SpiPending,
     SpiReport, SpiDisable, FramesGiven, FramesKept, Shifting, SpiModes,
     spiDriver, SpiMoved, SpiContract!Next, SpiContract!Report

LEMMA SpiReadRefines ==
  ASSUME SpiInv, SpiRead
  PROVE  [SpiContract!Next]_SpiAbstract
  BY DEF SpiInv, SpiRead, FramesTypeOK, SpiLens, Idle, SpiReport, FramesKept,
     HandlerSound, SpiMoved, SpiContract!Next, SpiContract!Move,
     SpiContract!Report

LEMMA SpiReadEndRefines ==
  ASSUME SpiInv, SpiReadEnd
  PROVE  [SpiContract!Next]_SpiAbstract
  BY DEF SpiReadEnd, spiDriver, spiChip, spiClient, SpiMoved, SpiAbstract

LEMMA SpiDoneRefines ==
  ASSUME SpiInv, SpiDone
  PROVE  [SpiContract!Next]_SpiAbstract
<1>1. CASE spiMode = "RX"
  BY <1>1 DEF SpiDone, spiDriver, SpiMoved, SpiAbstract
<1>2. CASE spiMode # "RX"
  <2>1. spiBusy
    BY <1>2 DEF SpiInv, SpiDone, Idle
  <2>2. SpiMoved = (IF spiMode = "EEPROM_READ" THEN spiXfer.tx + spiXfer.rx
                    ELSE IF spiMode = "TX" THEN spiXfer.tx ELSE spiXfer.rx) /\ SpiMoved \in Nat
    BY <2>1 DEF SpiInv, SpiDone, FramesTypeOK, FramesGiven, FramesKept,
       Shifting, SpiMoved, SpiComplete, BusyOnBus
  <2>3. UNCHANGED <<spiMode, spiXfer, SpiMoved>>
    BY DEF SpiDone, SpiDisable, spiDriver, SpiMoved
  <2>4. ~spiBusy' /\ spiOutcome' = "done"
    BY <1>2, <2>1 DEF SpiDone, SpiReport
  <2>. QED
    BY <2>1, <2>2, <2>3, <2>4 DEF SpiContract!Next, SpiContract!Report
<1>. QED
  BY <1>1, <1>2

LEMMA SpiSampleTxRefines ==
  ASSUME SpiInv, SpiSampleTx
  PROVE  [SpiContract!Next]_SpiAbstract
  BY DEF SpiSampleTx, spiDriver, spiChip, spiClient, SpiMoved, SpiAbstract

LEMMA SpiFillRefines ==
  ASSUME SpiInv, SpiFill
  PROVE  [SpiContract!Next]_SpiAbstract
  BY DEF SpiFill, spiDriver, spiChip, spiClient, SpiMoved, SpiAbstract

LEMMA SpiLoadRefines ==
  ASSUME SpiInv, SpiLoad
  PROVE  [SpiContract!Next]_SpiAbstract
  BY DEF SpiLoad, spiDriver, spiChip, spiClient, SpiMoved, SpiAbstract

LEMMA SpiClockRefines ==
  ASSUME SpiInv, SpiClock
  PROVE  [SpiContract!Next]_SpiAbstract
  BY DEF SpiInv, SpiClock, FramesTypeOK, SpiLens, Idle, FramesGiven,
     FramesKept, Shifting, spiDriver, spiClient, SpiMoved, SpiContract!Next,
     SpiContract!Move, SpiAbstract

LEMMA SpiStepRefines == SpiInv /\ [SpiNext]_spiVars => [SpiContract!Next]_SpiAbstract
<1>1. ASSUME UNCHANGED spiVars PROVE UNCHANGED SpiAbstract
  BY <1>1 DEF spiVars, spiDriver, spiChip, spiClient, SpiAbstract, SpiMoved
<1>. QED
  BY <1>1, SpiStartRefines, SpiTerminateRefines, SpiEnterRefines,
     SpiOverrunRefines, SpiReadRefines, SpiReadEndRefines, SpiDoneRefines,
     SpiSampleTxRefines, SpiFillRefines, SpiLoadRefines, SpiClockRefines
     DEF SpiNext, SpiHandler, SpiBus, SpiContract!Next

\* In every mode a transfer of qm_spi.c moves its frames once and calls back
\* once, and as complete only when all of them have moved.
THEOREM SpiImplementsTransfer == SpiSpec => SpiImplements
<1>1. SpiInit => SpiContract!Init
  BY DEF SpiInit, SpiContract!Init, SpiMoved
<1>2. SpiInv /\ [SpiNext]_spiVars => [SpiContract!Next]_SpiAbstract
  BY SpiStepRefines
<1>. QED
  BY <1>1, <1>2, SpiInvariance, PTL DEF SpiSpec, SpiImplements,
     SpiContract!Spec, SpiContract!xfer, SpiAbstract

-----------------------------------------------------------------------------
(* The sensor subsystem's master: its handler reads the RX level first.      *)

SsIdle ==
  /\ spiImr = {} /\ ~spiEn /\ ~spiShift /\ spiTxFlr = 0 /\ spiRxFlr = 0
  /\ spiPc = "none"

\* Unless a frame has ended between the two reads, the RX level read is the one
\* there is.
SsHandlerSound ==
  /\ spiPc \in {"none", "rx", "fill"}
  /\ spiPc = "rx" => 0 < spiXfer.rx
  /\ spiMet # "apart" => RoomKept /\ (spiPc = "fill" => spiSample = spiRxFlr)

SsSpiInv ==
  /\ FlagsTypeOK /\ FramesTypeOK
  /\ spiBusy => /\ spiXfer \in SpiTransfers(spiMode)
                /\ spiTx <= spiXfer.tx /\ spiRx <= spiXfer.rx
                /\ FramesGiven /\ FramesKept
                /\ spiOutcome = "none"
  /\ ~spiBusy => SsIdle
  /\ SsHandlerSound

LEMMA SsSpiInitInv == SpiInit => SsSpiInv
<1>. SUFFICES ASSUME SpiInit PROVE SsSpiInv
  OBVIOUS
<1>1. FlagsTypeOK
  BY DEF SpiInit, FlagsTypeOK
<1>2. FramesTypeOK
  BY SpiAssumption DEF SpiInit, FramesTypeOK, SpiModes, SpiLens
<1>. QED
  BY <1>1, <1>2 DEF SpiInit, SsSpiInv, SsIdle, RoomKept, SsHandlerSound

LEMMA SsSpiStartKeeps ==
  ASSUME SsSpiInv, NEW mode \in SpiModes, NEW x \in SpiTransfers(mode), SsSpiStart(mode, x),
         spiMet' = "none"
  PROVE  SsSpiInv'
<1>1. FlagsTypeOK'
  BY DEF SsSpiInv, SsSpiStart, FlagsTypeOK
<1>2. FramesTypeOK'
  BY SpiAssumption, SsSpiAssumption DEF SsSpiInv, SsSpiStart, FramesTypeOK,
     SpiTransfers, SpiLens, RxMark, spiIsr
<1>. QED
  BY <1>1, <1>2, SsSpiAssumption DEF SsSpiInv, SsSpiStart, FlagsTypeOK,
     FramesTypeOK, SpiTransfers, SpiLens, SpiInterrupts, SsIdle, SpiPending,
     SpiReport, SpiDisable, RxMark, SsTxReached, SsFramesFree, FramesGiven,
     FramesKept, SsHandlerSound, Shifting, Receiving, SpiModes, spiIsr,
     spiDriver, spiRegs, spiChip, spiClient, BusyOnBus, RoomKept

LEMMA SsSpiTerminateKeeps ==
  ASSUME SsSpiInv, SsSpiTerminate, UNCHANGED spiMet
  PROVE  SsSpiInv'
<1>1. FlagsTypeOK'
  BY DEF SsSpiInv, SsSpiTerminate, FlagsTypeOK, SsIdle, SpiReport, SpiDisable
<1>2. FramesTypeOK'
  BY SpiAssumption, SsSpiAssumption DEF SsSpiInv, SsSpiTerminate,
     FramesTypeOK, SpiLens, SsIdle, SpiReport, SpiDisable, FramesKept,
     SsHandlerSound, spiIsr, spiDriver, spiRegs, spiChip, spiClient
<1>3. spiBusy' => spiBusy
  BY DEF SsSpiTerminate, spiClient
<1>4. CASE spiBusy /\ spiBusy'
  <2>1. FramesGiven' /\ (spiTx <= spiXfer.tx)'
    BY <1>4, SsSpiAssumption DEF SsSpiInv, SsSpiTerminate, FramesTypeOK,
       SsIdle, SpiReport, SpiDisable, RxMark, SsTxReached, SsFramesFree,
       FramesGiven, FramesKept, SsHandlerSound, Shifting, spiDriver
  <2>2. FramesKept' /\ (spiRx <= spiXfer.rx)'
    BY <1>4, SsSpiAssumption DEF SsSpiInv, SsSpiTerminate, FramesTypeOK,
       SsIdle, SpiReport, SpiDisable, RxMark, SsTxReached, SsFramesFree,
       FramesKept, SsHandlerSound, spiDriver
  <2>3. SsHandlerSound'
    BY <1>4 DEF SsSpiTerminate, SpiReport
  <2>4. (spiOutcome = "none" /\ spiXfer \in SpiTransfers(spiMode))'
    BY <1>4, SsSpiAssumption DEF SsSpiInv, SsSpiTerminate, SsIdle, SpiReport,
       RxMark, SsTxReached, SsFramesFree, SsHandlerSound, spiDriver
  <2>. QED
    BY <1>1, <1>2, <1>4, <2>1, <2>2, <2>3, <2>4 DEF SsSpiInv
<1>5. CASE ~spiBusy'
  BY <1>1, <1>2, SpiAssumption DEF SsSpiInv, SsSpiTerminate, SsIdle,
     SpiReport, SpiDisable, SsHandlerSound, spiIsr, RoomKept
<1>. QED
  BY <1>3, <1>4, <1>5

LEMMA SsSpiErrorKeeps ==
  ASSUME SsSpiInv, SsSpiError, UNCHANGED spiMet
  PROVE  SsSpiInv'
<1>1. FlagsTypeOK'
  BY DEF SsSpiInv, SsSpiError, FlagsTypeOK, SsIdle, SpiReport, SpiDisable
<1>2. FramesTypeOK'
  BY SpiAssumption DEF SsSpiInv, SsSpiError, FramesTypeOK, SsIdle, SpiPending,
     SpiReport, SpiDisable, spiIsr, spiDriver
<1>3. spiBusy' => spiBusy
  BY DEF SsSpiError, SpiReport
<1>4. CASE spiBusy /\ spiBusy'
  <2>1. FramesGiven' /\ (spiTx <= spiXfer.tx)'
    BY <1>4, SsSpiAssumption DEF SsSpiInv, SsSpiError, FramesTypeOK, SsIdle,
       SpiReport, SpiDisable, RxMark, SsTxReached, SsFramesFree, FramesGiven,
       FramesKept, SsHandlerSound, Shifting, spiDriver
  <2>2. FramesKept' /\ (spiRx <= spiXfer.rx)'
    BY <1>4, SsSpiAssumption DEF SsSpiInv, SsSpiError, FramesTypeOK, SsIdle,
       SpiReport, SpiDisable, RxMark, SsTxReached, SsFramesFree, FramesKept,
       SsHandlerSound, spiDriver
  <2>3. SsHandlerSound'
    BY <1>4 DEF SsSpiError, SpiReport
  <2>4. (spiOutcome = "none" /\ spiXfer \in SpiTransfers(spiMode))'
    BY <1>4, SsSpiAssumption DEF SsSpiInv, SsSpiError, SsIdle, SpiReport,
       RxMark, SsTxReached, SsFramesFree, SsHandlerSound, spiDriver
  <2>. QED
    BY <1>1, <1>2, <1>4, <2>1, <2>2, <2>3, <2>4 DEF SsSpiInv
<1>5. CASE ~spiBusy'
  BY <1>1, <1>2, SpiAssumption DEF SsSpiInv, SsSpiError, SsIdle, SpiReport,
     SpiDisable, SsHandlerSound, spiIsr, RoomKept
<1>. QED
  BY <1>3, <1>4, <1>5

LEMMA SsSpiTxLastKeeps ==
  ASSUME SsSpiInv, SsSpiTxLast, UNCHANGED spiMet
  PROVE  SsSpiInv'
<1>1. FlagsTypeOK'
  BY DEF SsSpiInv, SsSpiTxLast, FlagsTypeOK, SsIdle, SpiReport, SpiDisable
<1>2. FramesTypeOK'
  <2>1. CASE spiMode = "TX"
    BY <2>1, SpiAssumption DEF SsSpiInv, SsSpiTxLast, FramesTypeOK, SsIdle,
       SpiPending, SpiReport, SpiDisable, spiIsr, spiDriver
  <2>2. CASE spiMode # "TX"
    BY <2>2 DEF SsSpiInv, SsSpiTxLast, FramesTypeOK, spiIsr, spiDriver
  <2>. QED
    BY <2>1, <2>2
<1>3. spiBusy' => spiBusy
  BY DEF SsSpiTxLast, SpiReport
<1>4. CASE spiBusy /\ spiBusy'
  <2>1. FramesGiven' /\ (spiTx <= spiXfer.tx)'
    BY <1>4, SsSpiAssumption DEF SsSpiInv, SsSpiTxLast, FramesTypeOK, SsIdle,
       SpiReport, SpiDisable, RxMark, SsTxReached, SsFramesFree, FramesGiven,
       FramesKept, SsHandlerSound, Shifting, spiDriver
  <2>2. FramesKept' /\ (spiRx <= spiXfer.rx)'
    BY <1>4, SsSpiAssumption DEF SsSpiInv, SsSpiTxLast, FramesTypeOK, SsIdle,
       SpiReport, SpiDisable, RxMark, SsTxReached, SsFramesFree, FramesKept,
       SsHandlerSound, spiDriver
  <2>3. SsHandlerSound'
    BY DEF SsSpiInv, SsSpiTxLast, SsHandlerSound, spiIsr, spiDriver,
       RoomKept
  <2>4. (spiOutcome = "none" /\ spiXfer \in SpiTransfers(spiMode))'
    BY <1>4, SsSpiAssumption DEF SsSpiInv, SsSpiTxLast, SsIdle, SpiReport,
       RxMark, SsTxReached, SsFramesFree, SsHandlerSound, spiDriver
  <2>. QED
    BY <1>1, <1>2, <1>4, <2>1, <2>2, <2>3, <2>4 DEF SsSpiInv
<1>5. CASE ~spiBusy'
  <2>1. CASE spiMode = "TX"
    BY <1>1, <1>5, <1>2 DEF SsSpiInv, SsSpiTxLast, SsIdle, SpiDisable,
       SsHandlerSound, spiIsr, spiDriver, RoomKept
  <2>2. CASE spiMode # "TX"
    BY <2>2, <1>5 DEF SsSpiInv, SsSpiTxLast, SsIdle, SpiPending
  <2>. QED
    BY <2>1, <2>2
<1>. QED
  BY <1>3, <1>4, <1>5

LEMMA SsSpiSampleRxKeeps ==
  ASSUME SsSpiInv, SsSpiSampleRx, UNCHANGED spiMet
  PROVE  SsSpiInv'
<1>1. FlagsTypeOK'
  BY DEF SsSpiInv, SsSpiSampleRx, FlagsTypeOK, spiChip, spiClient
<1>2. FramesTypeOK'
  BY SpiAssumption, SsSpiAssumption DEF SsSpiInv, SsSpiSampleRx, FramesTypeOK,
     SpiLens, SsIdle, SpiReport, SpiDisable, FramesKept, SsHandlerSound,
     spiIsr, spiDriver, spiRegs, spiChip, spiClient
<1>3. spiBusy' => spiBusy
  BY DEF SsSpiSampleRx, spiClient
<1>4. CASE spiBusy /\ spiBusy'
  <2>1. FramesGiven' /\ (spiTx <= spiXfer.tx)'
    BY <1>4 DEF SsSpiInv, SsSpiSampleRx, FramesGiven, Shifting, spiDriver,
       spiChip
  <2>2. FramesKept' /\ (spiRx <= spiXfer.rx)'
    BY <1>4, SsSpiAssumption DEF SsSpiInv, SsSpiSampleRx, SsIdle, RxMark,
       SsTxReached, SsFramesFree, FramesKept, SsHandlerSound, spiDriver,
       spiChip, spiClient
  <2>3. SsHandlerSound'
    BY DEF SsSpiInv, SsSpiSampleRx, SsHandlerSound, spiDriver, spiChip,
       RoomKept
  <2>4. (spiOutcome = "none" /\ spiXfer \in SpiTransfers(spiMode))'
    BY <1>4, SsSpiAssumption DEF SsSpiInv, SsSpiSampleRx, SsIdle, RxMark,
       SsTxReached, SsFramesFree, SsHandlerSound, spiDriver, spiClient
  <2>. QED
    BY <1>1, <1>2, <1>4, <2>1, <2>2, <2>3, <2>4 DEF SsSpiInv
<1>5. CASE ~spiBusy'
  BY <1>5 DEF SsSpiInv, SsSpiSampleRx, SsIdle, SpiPending, spiClient
<1>. QED
  BY <1>3, <1>4, <1>5

LEMMA SsSpiFillKeeps ==
  ASSUME SsSpiInv, SsSpiFill, UNCHANGED spiMet
  PROVE  SsSpiInv'
<1>1. FlagsTypeOK'
  BY DEF SsSpiInv, SsSpiFill, FlagsTypeOK, spiClient
<1>2. FramesTypeOK'
  BY SpiAssumption, SsSpiAssumption DEF SsSpiInv, SsSpiFill, FramesTypeOK,
     SpiLens, SsIdle, SsFramesFree, FramesGiven, SsHandlerSound, Shifting,
     SpiModes, spiIsr, spiDriver, spiRegs, spiClient
<1>3. spiBusy' => spiBusy
  BY DEF SsSpiFill, spiClient
<1>4. CASE spiBusy /\ spiBusy'
  <2>1. FramesGiven' /\ (spiTx <= spiXfer.tx)'
    BY SsSpiAssumption DEF SsSpiInv, SsSpiFill, FramesTypeOK, SpiTransfers,
       SpiLens, SsIdle, RxMark, SsTxReached, SsFramesFree, FramesGiven,
       SsHandlerSound, Shifting, Receiving, spiDriver
  <2>2. FramesKept' /\ (spiRx <= spiXfer.rx)'
    BY <1>4, SsSpiAssumption DEF SsSpiInv, SsSpiFill, SsIdle, RxMark,
       SsTxReached, SsFramesFree, FramesKept, SsHandlerSound, spiDriver,
       spiChip, spiClient
  <2>3. SsHandlerSound'
    BY SpiAssumption DEF SsSpiInv, SsSpiFill, FramesTypeOK, SsFramesFree,
       SsHandlerSound, RoomKept
  <2>4. (spiOutcome = "none" /\ spiXfer \in SpiTransfers(spiMode))'
    BY <1>4, SsSpiAssumption DEF SsSpiInv, SsSpiFill, SsIdle, RxMark,
       SsTxReached, SsFramesFree, SsHandlerSound, spiDriver, spiClient
  <2>. QED
    BY <1>1, <1>2, <1>4, <2>1, <2>2, <2>3, <2>4 DEF SsSpiInv
<1>5. CASE ~spiBusy'
  BY <1>5, SsSpiAssumption DEF SsSpiInv, SsSpiFill, FlagsTypeOK, FramesTypeOK,
     SsIdle, RxMark, SsTxReached, SsFramesFree, SsHandlerSound, spiDriver,
     spiRegs, spiChip, spiClient, RoomKept
<1>. QED
  BY <1>3, <1>4, <1>5

LEMMA SsSpiRxEnterKeeps ==
  ASSUME SsSpiInv, SsSpiRxEnter, UNCHANGED spiMet
  PROVE  SsSpiInv'
<1>1. FlagsTypeOK'
  BY DEF SsSpiInv, SsSpiRxEnter, FlagsTypeOK, spiChip, spiClient
<1>2. FramesTypeOK'
  BY SpiAssumption, SsSpiAssumption DEF SsSpiInv, SsSpiRxEnter, FramesTypeOK,
     SpiLens, SsIdle, SpiReport, SpiDisable, FramesKept, SsHandlerSound,
     spiIsr, spiDriver, spiRegs, spiChip, spiClient
<1>3. spiBusy' => spiBusy
  BY DEF SsSpiRxEnter, spiClient
<1>4. CASE spiBusy /\ spiBusy'
  <2>1. FramesGiven' /\ (spiTx <= spiXfer.tx)'
    BY <1>4 DEF SsSpiInv, SsSpiRxEnter, FramesGiven, Shifting, spiDriver,
       spiChip
  <2>2. FramesKept' /\ (spiRx <= spiXfer.rx)'
    BY <1>4, SsSpiAssumption DEF SsSpiInv, SsSpiRxEnter, SsIdle, RxMark,
       SsTxReached, SsFramesFree, FramesKept, SsHandlerSound, spiDriver,
       spiChip, spiClient
  <2>3. SsHandlerSound'
    BY DEF SsSpiInv, SsSpiRxEnter, FramesTypeOK, SpiTransfers, SsIdle,
       SpiPending, FramesKept, SsHandlerSound, spiDriver, spiChip,
       RoomKept
  <2>4. (spiOutcome = "none" /\ spiXfer \in SpiTransfers(spiMode))'
    BY <1>4, SsSpiAssumption DEF SsSpiInv, SsSpiRxEnter, SsIdle, RxMark,
       SsTxReached, SsFramesFree, SsHandlerSound, spiDriver, spiClient
  <2>. QED
    BY <1>1, <1>2, <1>4, <2>1, <2>2, <2>3, <2>4 DEF SsSpiInv
<1>5. CASE ~spiBusy'
  BY <1>5 DEF SsSpiInv, SsSpiRxEnter, SsIdle, SpiPending, spiClient
<1>. QED
  BY <1>3, <1>4, <1>5

LEMMA SsSpiReadKeeps ==
  ASSUME SsSpiInv, SsSpiRead, UNCHANGED spiMet
  PROVE  SsSpiInv'
<1>1. FlagsTypeOK'
  BY DEF SsSpiInv, SsSpiRead, FlagsTypeOK
<1>2. FramesTypeOK'
  BY SpiAssumption, SsSpiAssumption DEF SsSpiInv, SsSpiRead, FramesTypeOK,
     SpiLens, SsIdle, SpiReport, SpiDisable, FramesKept, SsHandlerSound,
     spiIsr, spiDriver, spiRegs, spiChip, spiClient
<1>3. spiBusy' => spiBusy
  BY DEF SsSpiRead, spiClient
<1>4. CASE spiBusy /\ spiBusy'
  <2>1. FramesGiven' /\ (spiTx <= spiXfer.tx)'
    BY <1>4 DEF SsSpiInv, SsSpiRead, FramesGiven, Shifting, spiDriver, spiChip
  <2>2. FramesKept' /\ (spiRx <= spiXfer.rx)'
    BY DEF SsSpiInv, SsSpiRead, FramesTypeOK, SpiLens, SsIdle, FramesKept
  <2>3. SsHandlerSound'
    BY SpiAssumption DEF SsSpiInv, SsSpiRead, FramesTypeOK, SsHandlerSound,
       spiIsr, RoomKept
  <2>4. (spiOutcome = "none" /\ spiXfer \in SpiTransfers(spiMode))'
    BY <1>4, SsSpiAssumption DEF SsSpiInv, SsSpiRead, SsIdle, RxMark,
       SsTxReached, SsFramesFree, SsHandlerSound, spiDriver, spiClient
  <2>. QED
    BY <1>1, <1>2, <1>4, <2>1, <2>2, <2>3, <2>4 DEF SsSpiInv
<1>5. CASE ~spiBusy'
  BY <1>5 DEF SsSpiInv, SsSpiRead, SsIdle, SpiPending, spiClient
<1>. QED
  BY <1>3, <1>4, <1>5

LEMMA SsSpiReadEndKeeps ==
  ASSUME SsSpiInv, SsSpiReadEnd, UNCHANGED spiMet
  PROVE  SsSpiInv'
<1>1. FlagsTypeOK'
  BY DEF SsSpiInv, SsSpiReadEnd, FlagsTypeOK, SsIdle, SpiReport, SpiDisable
<1>2. FramesTypeOK'
  <2>1. CASE spiRx < spiXfer.rx
    <3>1. RxMark(spiXfer.rx - spiRx) \in 0 .. SPI_FIFOS_DEPTH - 1
      BY <2>1, SpiAssumption, SsSpiAssumption DEF SsSpiInv, FramesTypeOK,
         SpiLens, RxMark
    <3>. QED
      BY <2>1, <3>1 DEF SsSpiInv, SsSpiReadEnd, FramesTypeOK, spiDriver
  <2>2. CASE ~(spiRx < spiXfer.rx)
    BY <2>2, SpiAssumption DEF SsSpiInv, SsSpiReadEnd, FramesTypeOK, SsIdle,
       SpiReport, SpiDisable, spiDriver
  <2>. QED
    BY <2>1, <2>2
<1>3. spiBusy' => spiBusy
  BY DEF SsSpiReadEnd, SpiReport
<1>4. CASE spiBusy /\ spiBusy'
  <2>1. FramesGiven' /\ (spiTx <= spiXfer.tx)'
    BY <1>4, SsSpiAssumption DEF SsSpiInv, SsSpiReadEnd, FramesTypeOK, SsIdle,
       SpiReport, SpiDisable, RxMark, SsTxReached, SsFramesFree, FramesGiven,
       FramesKept, SsHandlerSound, Shifting, spiDriver
  <2>2. FramesKept' /\ (spiRx <= spiXfer.rx)'
    BY <1>4, SsSpiAssumption DEF SsSpiInv, SsSpiReadEnd, FramesTypeOK, SsIdle,
       SpiReport, SpiDisable, RxMark, SsTxReached, SsFramesFree, FramesKept,
       SsHandlerSound, spiDriver
  <2>3. SsHandlerSound'
    BY <1>4 DEF SsSpiInv, SsSpiReadEnd, SpiReport, SsHandlerSound, spiDriver,
       RoomKept
  <2>4. (spiOutcome = "none" /\ spiXfer \in SpiTransfers(spiMode))'
    BY <1>4, SsSpiAssumption DEF SsSpiInv, SsSpiReadEnd, SsIdle, SpiReport,
       RxMark, SsTxReached, SsFramesFree, SsHandlerSound, spiDriver
  <2>. QED
    BY <1>1, <1>2, <1>4, <2>1, <2>2, <2>3, <2>4 DEF SsSpiInv
<1>5. CASE ~spiBusy'
  <2>1. CASE spiRx < spiXfer.rx
    BY <2>1, <1>5 DEF SsSpiInv, SsSpiReadEnd, SsIdle
  <2>2. CASE ~(spiRx < spiXfer.rx)
    BY <1>1, <1>5, <1>2, SpiAssumption DEF SsSpiInv, SsSpiReadEnd, SsIdle,
       SpiDisable, SsHandlerSound, RoomKept
  <2>. QED
    BY <2>1, <2>2
<1>. QED
  BY <1>3, <1>4, <1>5

LEMMA SsSpiLoadKeeps ==
  ASSUME SsSpiInv, SpiLoad, UNCHANGED spiMet
  PROVE  SsSpiInv'
<1>1. FlagsTypeOK'
  BY DEF SsSpiInv, SpiLoad, FlagsTypeOK, spiClient
<1>2. FramesTypeOK'
  BY SpiAssumption, SsSpiAssumption DEF SsSpiInv, SpiLoad, FramesTypeOK,
     SpiLens, SsIdle, SpiReport, SpiDisable, FramesKept, SsHandlerSound,
     spiIsr, spiDriver, spiRegs, spiChip, spiClient
<1>3. spiBusy' => spiBusy
  BY DEF SpiLoad, spiClient
<1>4. CASE spiBusy /\ spiBusy'
  <2>1. FramesGiven' /\ (spiTx <= spiXfer.tx)'
    BY SsSpiAssumption DEF SsSpiInv, SpiLoad, FramesTypeOK, SpiTransfers,
       SpiLens, SsIdle, RxMark, SsTxReached, SsFramesFree, FramesGiven,
       SsHandlerSound, Shifting, Receiving, spiDriver
  <2>2. FramesKept' /\ (spiRx <= spiXfer.rx)'
    BY <1>4, SsSpiAssumption DEF SsSpiInv, SpiLoad, SsIdle, RxMark,
       SsTxReached, SsFramesFree, FramesKept, SsHandlerSound, spiDriver,
       spiChip, spiClient
  <2>3. SsHandlerSound'
    BY DEF SsSpiInv, SpiLoad, FramesTypeOK, SsHandlerSound, Receiving, spiIsr,
       spiDriver, RoomKept
  <2>4. (spiOutcome = "none" /\ spiXfer \in SpiTransfers(spiMode))'
    BY <1>4, SsSpiAssumption DEF SsSpiInv, SpiLoad, SsIdle, RxMark,
       SsTxReached, SsFramesFree, SsHandlerSound, spiDriver, spiClient
  <2>. QED
    BY <1>1, <1>2, <1>4, <2>1, <2>2, <2>3, <2>4 DEF SsSpiInv
<1>5. CASE ~spiBusy'
  BY <1>5 DEF SsSpiInv, SpiLoad, SsIdle, SpiPending, spiClient
<1>. QED
  BY <1>3, <1>4, <1>5

LEMMA SsSpiClockKeeps ==
  ASSUME SsSpiInv, SpiClock,
         spiMet' = (IF spiPc = "fill" THEN "apart" ELSE spiMet)
  PROVE  SsSpiInv'
<1>1. FlagsTypeOK'
  BY DEF SsSpiInv, SpiClock, FlagsTypeOK, spiClient
<1>2. FramesTypeOK'
  BY SpiAssumption, SsSpiAssumption DEF SsSpiInv, SpiClock, FramesTypeOK,
     SpiLens, SsIdle, FramesGiven, SsHandlerSound, Shifting, SpiModes, spiIsr,
     spiDriver, spiRegs, spiClient
<1>3. spiBusy' => spiBusy
  BY DEF SpiClock, spiClient
<1>4. CASE spiBusy /\ spiBusy'
  <2>1. FramesGiven' /\ (spiTx <= spiXfer.tx)'
    BY SsSpiAssumption DEF SsSpiInv, SpiClock, FramesTypeOK, SpiTransfers,
       SpiLens, SsIdle, RxMark, SsTxReached, SsFramesFree, FramesGiven,
       SsHandlerSound, Shifting, Receiving, spiDriver
  <2>2. FramesKept' /\ (spiRx <= spiXfer.rx)'
    BY DEF SsSpiInv, SpiClock, FramesTypeOK, SpiLens, SsIdle, FramesKept,
       spiDriver, spiClient
  <2>3. SsHandlerSound'
    BY DEF SsSpiInv, SpiClock, FlagsTypeOK, FramesTypeOK, SsHandlerSound,
       spiIsr, spiDriver, RoomKept
  <2>4. (spiOutcome = "none" /\ spiXfer \in SpiTransfers(spiMode))'
    BY <1>4, SsSpiAssumption DEF SsSpiInv, SpiClock, SsIdle, RxMark,
       SsTxReached, SsFramesFree, SsHandlerSound, spiDriver, spiClient
  <2>. QED
    BY <1>1, <1>2, <1>4, <2>1, <2>2, <2>3, <2>4 DEF SsSpiInv
<1>5. CASE ~spiBusy'
  BY <1>5 DEF SsSpiInv, SpiClock, SsIdle, SpiPending, spiClient
<1>. QED
  BY <1>3, <1>4, <1>5

LEMMA SsSpiStepKeeps == SsSpiInv /\ [SsSpiNext]_spiVars => SsSpiInv'
<1>. SUFFICES ASSUME SsSpiInv, [SsSpiNext]_spiVars PROVE SsSpiInv'
  OBVIOUS
<1>1. CASE UNCHANGED spiVars
  BY <1>1 DEF SsSpiInv, FlagsTypeOK, FramesTypeOK, FramesGiven, FramesKept,
     SsHandlerSound, Shifting, RoomKept, SsIdle, spiVars, spiDriver,
     spiRegs, spiChip, spiIsr, spiClient
<1>2. CASE SsSpiNext
  BY <1>2, SsSpiStartKeeps, SsSpiTerminateKeeps, SsSpiErrorKeeps,
     SsSpiTxLastKeeps, SsSpiSampleRxKeeps, SsSpiFillKeeps, SsSpiRxEnterKeeps,
     SsSpiReadKeeps, SsSpiReadEndKeeps, SsSpiLoadKeeps, SsSpiClockKeeps
     DEF SsSpiNext, SsSpiHandler, SsSpiBus, SpiBus
<1>. QED
  BY <1>1, <1>2

\* The invariant of qm_ss_spi.c's master, whose handlers are split by cause.
THEOREM SsSpiInvariance == SsSpiSpec => []SsSpiInv
<1>. QED
  BY SsSpiInitInv, SsSpiStepKeeps, PTL DEF SsSpiSpec

\* qm_ss_spi.c, too, keeps room for every frame on its way in full duplex, from
\* the start of a transfer until a frame ends between its two reads of the FIFO
\* levels, whatever else the controller and the handlers do in between.
THEOREM SsSpiNeverOverruns == SsSpiSpec => []NeverOverrun
<1>1. SsSpiInv => NeverOverrun
  BY DEF SsSpiInv, SsHandlerSound, RoomKept, NeverOverrun
<1>. QED
  BY <1>1, SsSpiInvariance, PTL

LEMMA SsSpiStartRefines ==
  ASSUME SsSpiInv, NEW mode \in SpiModes, NEW x \in SpiTransfers(mode), SsSpiStart(mode, x)
  PROVE  SpiContract!Start
  BY SsSpiAssumption DEF SpiContract!Start, SsSpiInv, SsSpiStart,
     SpiTransfers, SpiLens, SpiInterrupts, SsIdle, RxMark, SsTxReached,
     SsFramesFree, SsHandlerSound, Receiving, BusyOnBus, RoomKept,
     SpiMoved

LEMMA SsSpiTerminateRefines ==
  ASSUME SsSpiInv, SsSpiTerminate
  PROVE  [SpiContract!Next]_SpiAbstract
  BY DEF SsSpiInv, SsSpiTerminate, FramesTypeOK, SpiLens, SpiReport,
     SpiDisable, FramesGiven, FramesKept, Shifting, spiDriver, SpiMoved,
     SpiContract!Next, SpiContract!Report, SpiAbstract

LEMMA SsSpiErrorRefines ==
  ASSUME SsSpiInv, SsSpiError
  PROVE  [SpiContract!Next]_SpiAbstract
  BY SsSpiAssumption DEF SsSpiInv, SsSpiError, FramesTypeOK, SpiLens,
     SpiInterrupts, SsIdle, SpiPending, SpiReport, SpiDisable, RxMark,
     SsTxReached, SsFramesFree, FramesGiven, FramesKept, SsHandlerSound,
     Shifting, Receiving, SpiModes, spiDriver, RoomKept, SpiMoved,
     SpiContract!Next, SpiContract!Report

LEMMA SsSpiTxLastRefines ==
  ASSUME SsSpiInv, SsSpiTxLast
  PROVE  [SpiContract!Next]_SpiAbstract
  BY DEF SsSpiInv, SsSpiTxLast, FramesTypeOK, SsIdle, SpiPending, SpiReport,
     SpiDisable, SsTxReached, FramesGiven, Shifting, spiDriver, BusyOnBus,
     SpiMoved, SpiContract!Next, SpiContract!Report, SpiAbstract

LEMMA SsSpiSampleRxRefines ==
  ASSUME SsSpiInv, SsSpiSampleRx
  PROVE  [SpiContract!Next]_SpiAbstract
  BY SsSpiAssumption DEF SsSpiInv, SsSpiSampleRx, SpiInterrupts, SsIdle,
     RxMark, SsTxReached, SsFramesFree, SsHandlerSound, Receiving, spiDriver,
     spiChip, spiClient, RoomKept, SpiMoved, SpiAbstract

LEMMA SsSpiFillRefines ==
  ASSUME SsSpiInv, SsSpiFill
  PROVE  [SpiContract!Next]_SpiAbstract
  BY SsSpiAssumption DEF SsSpiInv, SsSpiFill, SpiInterrupts, SsIdle, RxMark,
     SsTxReached, SsFramesFree, SsHandlerSound, Receiving, spiDriver, spiChip,
     spiClient, RoomKept, SpiMoved, SpiAbstract

LEMMA SsSpiRxEnterRefines ==
  ASSUME SsSpiInv, SsSpiRxEnter
  PROVE  [SpiContract!Next]_SpiAbstract
  BY SsSpiAssumption DEF SsSpiInv, SsSpiRxEnter, SpiInterrupts, SsIdle,
     RxMark, SsTxReached, SsFramesFree, SsHandlerSound, Receiving, spiDriver,
     spiChip, spiClient, RoomKept, SpiMoved, SpiAbstract

LEMMA SsSpiReadRefines ==
  ASSUME SsSpiInv, SsSpiRead
  PROVE  [SpiContract!Next]_SpiAbstract
  BY SsSpiAssumption DEF SsSpiInv, SsSpiRead, FramesTypeOK, SpiLens,
     SpiInterrupts, SsIdle, RxMark, SsTxReached, SsFramesFree, FramesGiven,
     FramesKept, SsHandlerSound, Shifting, Receiving, spiDriver, spiClient,
     RoomKept, SpiMoved, SpiContract!Next, SpiContract!Move, SpiAbstract

LEMMA SsSpiReadEndRefines ==
  ASSUME SsSpiInv, SsSpiReadEnd
  PROVE  [SpiContract!Next]_SpiAbstract
  BY DEF SsSpiInv, SsSpiReadEnd, FramesTypeOK, SpiLens, SsIdle, SpiReport,
     SpiDisable, FramesKept, SsHandlerSound, spiDriver, SpiMoved,
     SpiContract!Next, SpiContract!Report, SpiAbstract

LEMMA SsSpiLoadRefines ==
  ASSUME SsSpiInv, SpiLoad
  PROVE  [SpiContract!Next]_SpiAbstract
  BY SsSpiAssumption DEF SsSpiInv, SpiLoad, FramesTypeOK, SpiLens,
     SpiInterrupts, SsIdle, RxMark, SsTxReached, SsFramesFree, FramesGiven,
     FramesKept, SsHandlerSound, Shifting, Receiving, spiDriver, spiClient,
     RoomKept, SpiMoved, SpiContract!Next, SpiContract!Move, SpiAbstract

LEMMA SsSpiClockRefines ==
  ASSUME SsSpiInv, SpiClock
  PROVE  [SpiContract!Next]_SpiAbstract
  BY SsSpiAssumption DEF SsSpiInv, SpiClock, FramesTypeOK, SpiLens,
     SpiInterrupts, SsIdle, RxMark, SsTxReached, SsFramesFree, FramesGiven,
     FramesKept, SsHandlerSound, Shifting, Receiving, spiDriver, spiClient,
     RoomKept, SpiMoved, SpiContract!Next, SpiContract!Move, SpiAbstract

LEMMA SsSpiStepRefines ==
  SsSpiInv /\ [SsSpiNext]_spiVars => [SpiContract!Next]_SpiAbstract
<1>1. ASSUME UNCHANGED spiVars PROVE UNCHANGED SpiAbstract
  BY <1>1 DEF spiVars, spiDriver, spiChip, spiClient, SpiAbstract, SpiMoved
<1>. QED
  BY <1>1, SsSpiStartRefines, SsSpiTerminateRefines, SsSpiErrorRefines,
     SsSpiTxLastRefines, SsSpiSampleRxRefines, SsSpiFillRefines,
     SsSpiRxEnterRefines, SsSpiReadRefines, SsSpiReadEndRefines,
     SsSpiLoadRefines, SsSpiClockRefines DEF SsSpiNext, SsSpiHandler,
     SsSpiBus, SpiBus, SpiContract!Next

\* Transfers of qm_ss_spi.c keep the same contract.
THEOREM SsSpiImplementsTransfer == SsSpiSpec => SpiImplements
<1>1. SpiInit => SpiContract!Init
  BY DEF SpiInit, SpiContract!Init, SpiMoved
<1>2. SsSpiInv /\ [SsSpiNext]_spiVars => [SpiContract!Next]_SpiAbstract
  BY SsSpiStepRefines
<1>. QED
  BY <1>1, <1>2, SsSpiInvariance, PTL DEF SsSpiSpec, SpiImplements,
     SpiContract!Spec, SpiContract!xfer, SpiAbstract

-----------------------------------------------------------------------------
(* The polled transfers: PollFrames frames are given, and the RX FIFO may  *)
(* overrun, which ends them.                                               *)

\* Where the polling function is, with every interrupt masked.
PollTypeOK ==
  /\ spiImr = {} /\ spiPc = "none"
  /\ spiPoll \in {"none", "check", "look", "read", "write", "wait", "overrun"}

\* Frames given to the controller: in RX the dummy frame, in EEPROM_READ those
\* it clocks without being given one besides.
PollGiven ==
  /\ spiMode \in {"TX", "TX_RX"} => spiTx = spiClocked + Shifting + spiTxFlr
  /\ spiMode = "RX" =>
       /\ spiClocked = 0 => spiTx = Shifting + spiTxFlr
       /\ spiClocked > 0 => spiTx = 1 /\ spiTxFlr = 0
       /\ spiClocked + Shifting <= spiXfer.rx
  /\ spiMode = "EEPROM_READ" =>
       /\ spiClocked + Shifting <= spiXfer.tx =>
            spiTx = spiClocked + Shifting + spiTxFlr
       /\ spiClocked + Shifting > spiXfer.tx => spiTxFlr = 0 /\ spiTx = spiXfer.tx
       /\ spiClocked + Shifting <= spiXfer.tx + spiXfer.rx

\* A transfer under way.
PollSound ==
  /\ spiXfer \in SpiTransfers(spiMode)
  /\ spiTx <= PollFrames /\ spiRx <= spiXfer.rx
  /\ PollGiven /\ FramesKept
  /\ spiOutcome = "none"
  /\ spiPoll = "wait" => spiTx = PollFrames /\ spiRx = spiXfer.rx

\* The inductive invariant of both drivers' polled transfers.
SpiPollInv ==
  /\ FlagsTypeOK /\ FramesTypeOK /\ PollTypeOK
  /\ spiBusy <=> spiPoll # "none"
  /\ spiBusy => PollSound
  /\ ~spiBusy => SsIdle

\* The status of the sensor subsystem's controller is still true when used: the
\* bus only adds to the RX FIFO and only takes from the TX FIFO.
StatusSound ==
  /\ spiPoll \in {"look", "read"} /\ "RXF" \in spiStatus => spiRxFlr > 0
  /\ spiPoll \in {"look", "read", "write"} /\ "TXE" \in spiStatus =>
       spiTxFlr < SPI_FIFOS_DEPTH

SsSpiPollInv == SpiPollInv /\ StatusSound

LEMMA SpiPollInitInv == SpiPolledInit => SsSpiPollInv
<1>. SUFFICES ASSUME SpiPolledInit PROVE SsSpiPollInv
  OBVIOUS
<1>1. FlagsTypeOK /\ PollTypeOK /\ StatusSound
  BY DEF SpiPolledInit, SpiInit, FlagsTypeOK, PollTypeOK, StatusSound
<1>2. FramesTypeOK
  BY SpiAssumption DEF SpiPolledInit, SpiInit, FramesTypeOK, SpiModes, SpiLens
<1>. QED
  BY <1>1, <1>2 DEF SpiPolledInit, SpiInit, SsSpiPollInv, SpiPollInv, SsIdle

LEMMA SpiPollStartKeeps ==
  ASSUME SpiPollInv, NEW mode \in SpiModes, NEW x \in SpiTransfers(mode), SpiPollStart(mode, x)
  PROVE  SpiPollInv' /\ SpiContract!Start /\ StatusSound'
<1>1. SsIdle
  BY DEF SpiPollInv, SpiPollStart
<1>2. FlagsTypeOK' /\ PollTypeOK' /\ StatusSound'
  BY <1>1 DEF SpiPollInv, SpiPollStart, FlagsTypeOK, PollTypeOK, StatusSound,
     spiIsr
<1>3. x \in SpiLens /\ x.tx \in Nat /\ x.rx \in Nat
  BY SpiAssumption DEF SpiTransfers, SpiLens
<1>4. FramesTypeOK'
  BY <1>1, <1>3, SpiAssumption DEF SpiPollInv, SpiPollStart, FramesTypeOK, spiIsr
<1>5. PollSound'
  BY <1>1, <1>3 DEF SpiPollStart, SsIdle, PollSound, PollGiven, PollFrames,
     FramesKept, Shifting
<1>6. SpiContract!Start
  BY <1>3 DEF SpiPollStart, SpiContract!Start, SpiMoved
<1>. QED
  BY <1>2, <1>4, <1>5, <1>6 DEF SpiPollInv, SpiPollStart

\* What a step that touches none of it leaves as it is.
SpiPollKept ==
  /\ UNCHANGED <<spiDriver, spiRegs, spiEn, spiTxFlr, spiRxFlr, spiShift,
                 spiClocked, spiPc, spiSample, spiClient>>

LEMMA SpiPollMovesOn ==
  ASSUME SpiPollInv, SpiPollKept, spiPoll # "none",
         spiPoll' \in {"check", "look", "read", "write", "wait", "overrun"},
         spiOverflow' \in BOOLEAN, spiStatus' \in SUBSET SpiInterrupts,
         spiPoll' = "wait" => ~PollLeft
  PROVE  SpiPollInv' /\ UNCHANGED SpiAbstract
<1>1. FlagsTypeOK' /\ PollTypeOK'
  BY DEF SpiPollInv, SpiPollKept, FlagsTypeOK, PollTypeOK, spiRegs, spiClient
<1>2. FramesTypeOK'
  BY DEF SpiPollInv, SpiPollKept, FramesTypeOK, spiDriver, spiRegs, spiClient
<1>3. PollGiven' /\ FramesKept' /\ PollFrames' = PollFrames
  BY DEF SpiPollInv, SpiPollKept, PollSound, PollGiven, FramesKept, PollFrames,
     Shifting, spiDriver, spiClient
<1>4. spiPoll' = "wait" => spiTx = PollFrames /\ spiRx = spiXfer.rx
  BY DEF SpiPollInv, PollSound, PollLeft, PollFrames, FramesTypeOK, SpiLens
<1>5. PollSound' /\ spiBusy'
  BY <1>3, <1>4 DEF SpiPollInv, SpiPollKept, PollSound, spiDriver, spiClient
<1>6. UNCHANGED SpiAbstract
  BY DEF SpiPollKept, SpiAbstract, SpiMoved, spiDriver, spiClient
<1>. QED
  BY <1>1, <1>2, <1>5, <1>6 DEF SpiPollInv, PollTypeOK

LEMMA SpiPollCheckKeeps ==
  ASSUME SpiPollInv, SpiPollCheck
  PROVE  SpiPollInv' /\ UNCHANGED SpiAbstract
<1>1. SpiPollKept /\ spiStatus' = spiStatus
  BY DEF SpiPollCheck, SpiPollKept, spiIsr
<1>2. spiOverflow' \in BOOLEAN /\ spiStatus' \in SUBSET SpiInterrupts
  BY <1>1 DEF SpiPollCheck, SpiPollInv, FlagsTypeOK, FramesTypeOK
<1>. QED
  BY <1>1, <1>2, SpiPollMovesOn DEF SpiPollCheck

LEMMA SsPollStatusKeeps ==
  ASSUME SsSpiPollInv, SsPollStatus
  PROVE  SsSpiPollInv' /\ UNCHANGED SpiAbstract
<1>1. SpiPollKept /\ spiOverflow' = spiOverflow
  BY DEF SsPollStatus, SpiPollKept, spiChip
<1>2. spiOverflow' \in BOOLEAN /\ spiStatus' \in SUBSET SpiInterrupts
  BY <1>1 DEF SsPollStatus, SsSpiPollInv, SpiPollInv, FlagsTypeOK, SpiInterrupts
<1>3. StatusSound'
  BY <1>1 DEF SsPollStatus, SpiPollKept, StatusSound
<1>. QED
  BY <1>1, <1>2, <1>3, SpiPollMovesOn DEF SsPollStatus, SsSpiPollInv

LEMMA SsPollCheckKeeps ==
  ASSUME SsSpiPollInv, SsPollCheck
  PROVE  SsSpiPollInv' /\ UNCHANGED SpiAbstract
<1>1. SpiPollKept /\ spiOverflow' = spiOverflow /\ spiStatus' = spiStatus
  BY DEF SsPollCheck, SpiPollKept, spiVars, spiChip, spiIsr
<1>2. spiOverflow' \in BOOLEAN /\ spiStatus' \in SUBSET SpiInterrupts
  BY <1>1 DEF SsSpiPollInv, SpiPollInv, FlagsTypeOK, FramesTypeOK
<1>3. StatusSound'
  BY <1>1 DEF SsPollCheck, SpiPollKept, SsSpiPollInv, StatusSound
<1>. QED
  BY <1>1, <1>2, <1>3, SpiPollMovesOn DEF SsPollCheck, SsSpiPollInv

\* A frame read is one that was kept and not stored yet.
LEMMA PollReadKeeps ==
  ASSUME SpiPollInv, NEW ready \in BOOLEAN, PollRead(ready),
         ready => spiRxFlr > 0
  PROVE  SpiPollInv' /\ [SpiContract!Next]_SpiAbstract
<1>1. /\ spiPoll = "read" /\ spiPoll' = "write" /\ PollSound /\ spiBusy
      /\ UNCHANGED <<spiMode, spiXfer, spiTx, spiRegs, spiEn, spiTxFlr, spiShift,
                     spiClocked, spiOverflow, spiIsr, spiBusy, spiOutcome>>
  BY DEF PollRead, SpiPollInv
<1>2. FlagsTypeOK' /\ PollTypeOK' /\ PollGiven' /\ PollFrames' = PollFrames
  BY <1>1 DEF SpiPollInv, FlagsTypeOK, PollTypeOK, PollSound, PollGiven,
     PollFrames, Shifting, spiRegs, spiIsr
<1>3. CASE ready /\ spiRx < spiXfer.rx
  <2>1. /\ spiRxFlr' = spiRxFlr - 1 /\ spiRx' = spiRx + 1
        /\ spiStored' = spiStored + 1 /\ spiRxFlr > 0
    BY <1>3 DEF PollRead
  <2>2. FramesTypeOK' /\ spiRx' <= spiXfer.rx
    BY <1>1, <1>3, <2>1, SpiAssumption DEF SpiPollInv, FramesTypeOK, SpiLens,
       PollSound, FramesKept, spiRegs, spiIsr
  <2>3. FramesKept'
    BY <1>1, <2>1 DEF SpiPollInv, FramesTypeOK, PollSound, FramesKept
  <2>4. PollSound'
    BY <1>1, <1>2, <2>1, <2>2, <2>3 DEF PollSound
  <2>5. SpiContract!Move
    BY <1>1, <1>3, <2>1 DEF SpiPollInv, FramesTypeOK, SpiLens, PollSound,
       FramesKept, SpiModes, SpiMoved, SpiContract!Move
  <2>. QED
    BY <1>1, <1>2, <2>2, <2>4, <2>5 DEF SpiPollInv, SpiContract!Next
<1>4. CASE ~(ready /\ spiRx < spiXfer.rx)
  <2>1. UNCHANGED <<spiRxFlr, spiRx, spiStored>>
    BY <1>4 DEF PollRead
  <2>2. SpiPollKept /\ UNCHANGED <<spiOverflow, spiStatus>>
    BY <1>1, <2>1 DEF SpiPollKept, spiDriver, spiIsr, spiClient
  <2>3. spiOverflow' \in BOOLEAN /\ spiStatus' \in SUBSET SpiInterrupts
    BY <2>2 DEF SpiPollInv, FlagsTypeOK, FramesTypeOK
  <2>. QED
    BY <1>1, <2>2, <2>3, SpiPollMovesOn
<1>. QED
  BY <1>3, <1>4

LEMMA PollWriteKeeps ==
  ASSUME SpiPollInv, NEW ready \in BOOLEAN, PollWrite(ready),
         ready => spiTxFlr < SPI_FIFOS_DEPTH
  PROVE  SpiPollInv' /\ UNCHANGED SpiAbstract
<1>1. /\ spiPoll = "write" /\ spiPoll' = "check" /\ PollSound /\ spiBusy
      /\ UNCHANGED <<spiMode, spiXfer, spiRx, spiRegs, spiEn, spiRxFlr, spiShift,
                     spiClocked, spiOverflow, spiIsr, spiClient>>
  BY DEF PollWrite, SpiPollInv
<1>2. FlagsTypeOK' /\ PollTypeOK' /\ FramesKept' /\ PollFrames' = PollFrames
  BY <1>1 DEF SpiPollInv, FlagsTypeOK, PollTypeOK, PollSound, FramesKept,
     PollFrames, spiRegs, spiIsr, spiClient
<1>3. UNCHANGED SpiAbstract
  BY <1>1 DEF SpiAbstract, SpiMoved, spiClient
<1>4. CASE ready /\ spiTx < PollFrames
  <2>1. spiTxFlr' = spiTxFlr + 1 /\ spiTx' = spiTx + 1
    BY <1>4 DEF PollWrite
  <2>2. PollFrames \in 0 .. SpiMaxLen
    BY <1>1, SpiAssumption DEF SpiPollInv, FramesTypeOK, PollFrames, PollSound,
       SpiTransfers, SpiLens
  <2>3. FramesTypeOK'
    BY <1>1, <1>4, <2>1, <2>2, SpiAssumption DEF SpiPollInv, FramesTypeOK,
       spiRegs, spiIsr, spiClient
  <2>4. PollGiven'
    BY <1>1, <1>4, <2>1 DEF SpiPollInv, FramesTypeOK, SpiLens, PollSound,
       PollGiven, PollFrames, Shifting
  <2>5. PollSound'
    BY <1>1, <1>2, <1>4, <2>1, <2>2, <2>4 DEF SpiPollInv, FramesTypeOK,
       PollSound, spiClient
  <2>. QED
    BY <1>1, <1>2, <1>3, <2>3, <2>5 DEF SpiPollInv, spiClient
<1>5. CASE ~(ready /\ spiTx < PollFrames)
  <2>1. SpiPollKept /\ UNCHANGED <<spiOverflow, spiStatus>>
    BY <1>1, <1>5 DEF PollWrite, SpiPollKept, spiDriver, spiIsr
  <2>2. spiOverflow' \in BOOLEAN /\ spiStatus' \in SUBSET SpiInterrupts
    BY <2>1 DEF SpiPollInv, FlagsTypeOK, FramesTypeOK
  <2>. QED
    BY <1>1, <2>1, <2>2, SpiPollMovesOn
<1>. QED
  BY <1>4, <1>5

\* Frames moved are never more than asked for.
SpiSize ==
  IF spiMode = "EEPROM_READ" THEN spiXfer.tx + spiXfer.rx
  ELSE IF spiMode = "TX" THEN spiXfer.tx ELSE spiXfer.rx

LEMMA SpiPollMoved ==
  SpiPollInv /\ spiBusy =>
    SpiMoved \in Nat /\ SpiSize \in Nat /\ SpiMoved <= SpiSize
<1>. SUFFICES ASSUME SpiPollInv, spiBusy
     PROVE    SpiMoved \in Nat /\ SpiSize \in Nat /\ SpiMoved <= SpiSize
  OBVIOUS
<1>1. PollSound /\ spiXfer.tx \in Nat /\ spiXfer.rx \in Nat
      /\ spiClocked \in Nat /\ spiStored \in Nat /\ spiTx \in Nat /\ spiTxFlr \in Nat
      /\ spiRx \in Nat /\ spiRxFlr \in Nat
  BY SpiAssumption DEF SpiPollInv, FramesTypeOK, SpiLens
<1>2. Shifting \in {0, 1}
  BY DEF Shifting
<1>3. CASE spiMode = "TX"
  BY <1>1, <1>2, <1>3 DEF PollSound, PollGiven, PollFrames, SpiMoved, SpiSize
<1>4. CASE spiMode = "EEPROM_READ"
  BY <1>1, <1>4 DEF PollSound, FramesKept, SpiMoved, SpiSize
<1>5. CASE spiMode \notin {"TX", "EEPROM_READ"}
  BY <1>1, <1>5 DEF PollSound, FramesKept, SpiMoved, SpiSize
<1>. QED
  BY <1>3, <1>4, <1>5

LEMMA PollEndKeeps ==
  ASSUME SpiPollInv, NEW overflow \in BOOLEAN, PollEnd(overflow)
  PROVE  SpiPollInv' /\ StatusSound' /\ SpiContract!Report
<1>1. /\ spiPoll \in {"wait", "overrun"} /\ PollSound /\ spiBusy
      /\ spiTxFlr = 0 /\ ~BusyOnBus
      /\ spiPoll' = "none" /\ spiBusy' = FALSE
      /\ spiOutcome' = (IF spiPoll = "wait" THEN "done" ELSE "failed")
      /\ spiEn' = FALSE /\ spiTxFlr' = 0 /\ spiRxFlr' = 0 /\ spiShift' = FALSE
      /\ spiOverflow' = overflow
      /\ UNCHANGED <<spiDriver, spiRegs, spiIsr, spiStored, spiClocked>>
  BY DEF PollEnd, SpiPollInv, SpiReport, SpiDisable, PollIdle
<1>2. FlagsTypeOK' /\ PollTypeOK' /\ StatusSound'
  BY <1>1 DEF SpiPollInv, FlagsTypeOK, PollTypeOK, StatusSound, spiRegs, spiIsr
<1>3. FramesTypeOK'
  BY <1>1, SpiAssumption DEF SpiPollInv, FramesTypeOK, spiDriver, spiRegs, spiIsr
<1>4. SpiMoved' = SpiMoved /\ SpiSize' = SpiSize
  BY <1>1 DEF SpiMoved, SpiSize, spiDriver
<1>5. spiPoll = "wait" => SpiMoved = SpiSize
  <2>1. SUFFICES ASSUME spiPoll = "wait" PROVE SpiMoved = SpiSize
    OBVIOUS
  <2>2. spiTx = PollFrames /\ spiRx = spiXfer.rx /\ Shifting = 0 /\ spiTxFlr = 0
    BY <1>1, <2>1 DEF PollSound, BusyOnBus, Shifting
  <2>3. spiXfer.rx \in Nat /\ spiXfer.tx \in Nat /\ spiClocked \in Nat
        /\ spiRxFlr \in Nat /\ spiMode \in SpiModes
    BY SpiAssumption DEF SpiPollInv, FramesTypeOK, SpiLens
  <2>4. spiMode # "TX" => spiXfer.rx > 0
    BY <1>1 DEF PollSound, SpiTransfers
  <2>. QED
    BY <1>1, <2>2, <2>3, <2>4 DEF PollSound, PollGiven, PollFrames, FramesKept,
       SpiModes, SpiMoved, SpiSize
<1>6. SpiContract!Report
  BY <1>1, <1>4, <1>5, SpiPollMoved DEF SpiContract!Report, SpiSize
<1>7. SsIdle'
  BY <1>1, <1>2 DEF SsIdle, PollTypeOK
<1>. QED
  BY <1>1, <1>2, <1>3, <1>6, <1>7 DEF SpiPollInv

LEMMA SpiPollLoadKeeps ==
  ASSUME SpiPollInv, SpiLoad, UNCHANGED spiPoll
  PROVE  SpiPollInv' /\ UNCHANGED SpiAbstract /\ (StatusSound => StatusSound')
<1>1. /\ PollSound /\ spiBusy
      /\ spiTxFlr > 0 \/ Receiving(spiClocked)
      /\ spiShift = FALSE /\ spiShift' = TRUE
      /\ spiTxFlr' = (IF spiTxFlr > 0 THEN spiTxFlr - 1 ELSE 0)
      /\ UNCHANGED <<spiDriver, spiRegs, spiEn, spiRxFlr, spiClocked, spiOverflow,
                     spiIsr, spiClient>>
  BY DEF SpiLoad, SpiPollInv, SsIdle, FlagsTypeOK
<1>2. FlagsTypeOK' /\ PollTypeOK' /\ FramesKept' /\ PollFrames' = PollFrames
  BY <1>1 DEF SpiPollInv, FlagsTypeOK, PollTypeOK, PollSound, FramesKept,
     PollFrames, spiDriver, spiRegs, spiIsr, spiClient
<1>3. FramesTypeOK' /\ spiTxFlr' <= spiTxFlr /\ spiTxFlr \in Nat /\ spiTxFlr' \in Nat
  BY <1>1, SpiAssumption DEF SpiPollInv, FramesTypeOK, spiDriver, spiRegs,
     spiIsr, spiClient
<1>4. PollGiven'
  BY <1>1 DEF SpiPollInv, FramesTypeOK, SpiLens, PollSound, SpiTransfers,
     PollGiven, PollFrames, Shifting, Receiving, spiDriver
<1>5. PollSound'
  BY <1>1, <1>2, <1>4 DEF PollSound, spiDriver, spiClient
<1>6. UNCHANGED SpiAbstract
  BY <1>1 DEF SpiAbstract, SpiMoved, spiDriver, spiClient
<1>7. StatusSound => StatusSound'
  BY <1>1, <1>3, SpiAssumption DEF StatusSound, spiIsr
<1>. QED
  BY <1>1, <1>2, <1>3, <1>5, <1>6, <1>7 DEF SpiPollInv, spiClient

LEMMA SpiPollClockKeeps ==
  ASSUME SpiPollInv, SpiClock, UNCHANGED spiPoll
  PROVE  /\ SpiPollInv' /\ [SpiContract!Next]_SpiAbstract
         /\ StatusSound => StatusSound'
<1>. DEFINE kept == \/ spiMode \in {"RX", "TX_RX"}
                    \/ spiMode = "EEPROM_READ" /\ spiClocked >= spiXfer.tx
            full == spiRxFlr = SPI_FIFOS_DEPTH
<1>1. /\ PollSound /\ spiBusy
      /\ spiShift = TRUE /\ spiShift' = FALSE /\ spiClocked' = spiClocked + 1
      /\ spiRxFlr' = (IF kept /\ ~full THEN spiRxFlr + 1 ELSE spiRxFlr)
      /\ spiOverflow' = (spiOverflow \/ (kept /\ full))
      /\ UNCHANGED <<spiDriver, spiRegs, spiEn, spiTxFlr, spiIsr, spiClient>>
  BY DEF SpiClock, SpiPollInv, SsIdle, FlagsTypeOK
<1>2. FlagsTypeOK' /\ PollTypeOK' /\ PollFrames' = PollFrames
  BY <1>1 DEF SpiPollInv, FlagsTypeOK, PollTypeOK, PollFrames, spiDriver,
     spiRegs, spiIsr, spiClient
<1>3. /\ spiXfer.tx \in Nat /\ spiXfer.rx \in Nat /\ spiClocked \in Nat
      /\ spiStored \in Nat /\ spiTx \in Nat /\ spiTxFlr \in Nat /\ spiRxFlr \in Nat
      /\ spiXfer.tx <= SpiMaxLen /\ spiXfer.rx <= SpiMaxLen /\ spiMode \in SpiModes
  BY SpiAssumption DEF SpiPollInv, FramesTypeOK, SpiLens
<1>4. Shifting = 1 /\ Shifting' = 0
  BY <1>1 DEF Shifting
<1>5. PollGiven'
  BY <1>1, <1>3, <1>4 DEF PollSound, PollGiven, PollFrames, spiDriver
<1>6. FramesKept'
  BY <1>1, <1>3 DEF PollSound, FramesKept, spiDriver, spiClient
<1>7. spiClocked' \in 0 .. 2 * SpiMaxLen /\ spiRxFlr' \in 0 .. SPI_FIFOS_DEPTH
      /\ spiRxFlr' >= spiRxFlr
  <2>1. spiClocked + 1 <= spiXfer.tx + spiXfer.rx
    BY <1>1, <1>3, <1>4 DEF PollSound, PollGiven, PollFrames, SpiModes
  <2>. QED
    BY <1>1, <1>3, <2>1, SpiAssumption DEF SpiPollInv, FramesTypeOK
<1>8. FramesTypeOK'
  BY <1>1, <1>7 DEF SpiPollInv, FramesTypeOK, spiDriver, spiRegs, spiIsr, spiClient
<1>9. PollSound'
  BY <1>1, <1>2, <1>5, <1>6 DEF PollSound, spiDriver, spiClient
<1>10. StatusSound => StatusSound'
  BY <1>1, <1>3, <1>7 DEF StatusSound, spiIsr
<1>11. SpiPollInv'
  BY <1>1, <1>2, <1>8, <1>9 DEF SpiPollInv, spiClient
<1>12. [SpiContract!Next]_SpiAbstract
  <2>0. (SpiPollInv /\ spiBusy =>
           SpiMoved \in Nat /\ SpiSize \in Nat /\ SpiMoved <= SpiSize)'
    BY SpiPollMoved, PTL
  <2>1. SpiMoved' \in Nat /\ SpiMoved' <= SpiSize' /\ SpiMoved \in Nat /\ SpiSize \in Nat
    BY <1>1, <1>11, <2>0, SpiPollMoved DEF spiClient
  <2>2. SpiSize' = SpiSize /\ UNCHANGED <<spiMode, spiXfer, spiStored, spiBusy, spiOutcome>>
    BY <1>1 DEF SpiSize, spiDriver, spiClient
  <2>3. SpiMoved' = SpiMoved \/ SpiMoved' > SpiMoved
    BY <1>1, <1>3, <2>2 DEF PollSound, FramesKept, SpiMoved
  <2>4. CASE SpiMoved' = SpiMoved
    BY <2>2, <2>4 DEF SpiAbstract
  <2>5. CASE SpiMoved' > SpiMoved
    BY <1>1, <2>1, <2>2, <2>5 DEF SpiContract!Next, SpiContract!Move, SpiSize
  <2>. QED
    BY <2>3, <2>4, <2>5
<1>. QED
  BY <1>10, <1>11, <1>12


LEMMA SpiPollStutter ==
  ASSUME UNCHANGED spiPolledVars
  PROVE  /\ SpiPollInv => SpiPollInv'
         /\ StatusSound => StatusSound'
         /\ UNCHANGED SpiAbstract
<1>1. UNCHANGED <<spiMode, spiXfer, spiTx, spiRx, spiImr, spiTxFtl, spiRxFtl,
                 spiEn, spiTxFlr, spiRxFlr, spiShift, spiClocked, spiOverflow,
                 spiPc, spiStatus, spiSample, spiStored, spiBusy, spiOutcome, spiPoll>>
  BY DEF spiPolledVars, spiVars, spiDriver, spiRegs, spiChip, spiIsr, spiClient
<1>2. /\ FlagsTypeOK => FlagsTypeOK'
      /\ FramesTypeOK => FramesTypeOK'
      /\ PollTypeOK => PollTypeOK'
      /\ SsIdle => SsIdle'
  BY <1>1 DEF FlagsTypeOK, FramesTypeOK, PollTypeOK, SsIdle
<1>3. PollSound => PollSound'
  BY <1>1 DEF PollSound, PollGiven, PollFrames, FramesKept, Shifting
<1>. QED
  BY <1>1, <1>2, <1>3 DEF SpiPollInv, StatusSound, SpiAbstract, SpiMoved

LEMMA SpiPollStep ==
  ASSUME SpiPollInv, [SpiPolledNext]_spiPolledVars
  PROVE  SpiPollInv' /\ [SpiContract!Next]_SpiAbstract
<1>1. CASE \E mode \in SpiModes : \E x \in SpiTransfers(mode) : SpiPollStart(mode, x)
  BY <1>1, SpiPollStartKeeps DEF SpiContract!Next
<1>2. CASE SpiPollCheck
  BY <1>2, SpiPollCheckKeeps
<1>3. CASE SpiPollRead
  <2>1. CASE spiRxFlr > 0
    <3>1. PollRead(TRUE)
      BY <1>3, <2>1 DEF SpiPollRead, PollRead
    <3>. QED
      BY <2>1, <3>1, PollReadKeeps
  <2>2. CASE ~(spiRxFlr > 0)
    <3>1. PollRead(FALSE)
      BY <1>3, <2>2 DEF SpiPollRead, PollRead
    <3>. QED
      BY <3>1, PollReadKeeps
  <2>. QED
    BY <2>1, <2>2
<1>4. CASE SpiPollWrite
  <2>1. CASE spiTxFlr < SPI_FIFOS_DEPTH
    <3>1. PollWrite(TRUE)
      BY <1>4, <2>1 DEF SpiPollWrite, PollWrite
    <3>. QED
      BY <2>1, <3>1, PollWriteKeeps
  <2>2. CASE ~(spiTxFlr < SPI_FIFOS_DEPTH)
    <3>1. PollWrite(FALSE)
      BY <1>4, <2>2 DEF SpiPollWrite, PollWrite
    <3>. QED
      BY <3>1, PollWriteKeeps
  <2>. QED
    BY <2>1, <2>2
<1>5. CASE SpiPollEnd
  <2>1. spiOverflow \in BOOLEAN
    BY DEF SpiPollInv, FlagsTypeOK
  <2>. QED
    BY <1>5, <2>1, PollEndKeeps DEF SpiPollEnd, SpiContract!Next
<1>6. CASE SpiPollBus
  BY <1>6, SpiPollLoadKeeps, SpiPollClockKeeps DEF SpiPollBus, SpiBus
<1>7. CASE UNCHANGED spiPolledVars
  BY <1>7, SpiPollStutter
<1>. QED
  BY <1>1, <1>2, <1>3, <1>4, <1>5, <1>6, <1>7 DEF SpiPolledNext, SpiPolls

LEMMA SsSpiPollStep ==
  ASSUME SsSpiPollInv, [SsSpiPolledNext]_spiPolledVars
  PROVE  SsSpiPollInv' /\ [SpiContract!Next]_SpiAbstract
<1>1. CASE \E mode \in SpiModes : \E x \in SpiTransfers(mode) : SsPollStart(mode, x)
  BY <1>1, SpiPollStartKeeps DEF SsPollStart, SsSpiPollInv, SpiContract!Next
<1>2. CASE SsPollStatus
  BY <1>2, SsPollStatusKeeps
<1>3. CASE SsPollCheck
  BY <1>3, SsPollCheckKeeps
<1>4. CASE SsPollRead
  <2>1. "RXF" \in spiStatus => spiRxFlr > 0
    BY <1>4 DEF SsPollRead, PollRead, SsSpiPollInv, StatusSound
  <2>2. SpiPollInv' /\ [SpiContract!Next]_SpiAbstract
    <3>1. CASE "RXF" \in spiStatus
      <4>1. PollRead(TRUE)
        BY <1>4, <3>1 DEF SsPollRead, PollRead
      <4>. QED
        BY <2>1, <3>1, <4>1, PollReadKeeps DEF SsSpiPollInv
    <3>2. CASE "RXF" \notin spiStatus
      <4>1. PollRead(FALSE)
        BY <1>4, <3>2 DEF SsPollRead, PollRead
      <4>. QED
        BY <4>1, PollReadKeeps DEF SsSpiPollInv
    <3>. QED
      BY <3>1, <3>2
  <2>3. StatusSound'
    BY <1>4 DEF SsPollRead, PollRead, SsSpiPollInv, StatusSound, spiIsr
  <2>. QED
    BY <2>2, <2>3 DEF SsSpiPollInv
<1>5. CASE SsPollWrite
  <2>1. "TXE" \in spiStatus => spiTxFlr < SPI_FIFOS_DEPTH
    BY <1>5 DEF SsPollWrite, PollWrite, SsSpiPollInv, StatusSound
  <2>2. SpiPollInv' /\ UNCHANGED SpiAbstract
    <3>1. CASE "TXE" \in spiStatus
      <4>1. PollWrite(TRUE)
        BY <1>5, <3>1 DEF SsPollWrite, PollWrite
      <4>. QED
        BY <2>1, <3>1, <4>1, PollWriteKeeps DEF SsSpiPollInv
    <3>2. CASE "TXE" \notin spiStatus
      <4>1. PollWrite(FALSE)
        BY <1>5, <3>2 DEF SsPollWrite, PollWrite
      <4>. QED
        BY <4>1, PollWriteKeeps DEF SsSpiPollInv
    <3>. QED
      BY <3>1, <3>2
  <2>3. StatusSound'
    BY <1>5 DEF SsPollWrite, PollWrite, StatusSound
  <2>. QED
    BY <2>2, <2>3 DEF SsSpiPollInv
<1>6. CASE SsPollEnd
  BY <1>6, PollEndKeeps DEF SsPollEnd, SsSpiPollInv, SpiContract!Next
<1>7. CASE SpiPollBus
  BY <1>7, SpiPollLoadKeeps, SpiPollClockKeeps DEF SpiPollBus, SpiBus, SsSpiPollInv
<1>8. CASE UNCHANGED spiPolledVars
  BY <1>8, SpiPollStutter DEF SsSpiPollInv
<1>. QED
  BY <1>1, <1>2, <1>3, <1>4, <1>5, <1>6, <1>7, <1>8 DEF SsSpiPolledNext, SsSpiPolls

\* Each frame a polled transfer of qm_spi.c has given to the controller is
\* queued, being shifted or clocked, and none is read that was not kept.
THEOREM SpiPolledInvariance == SpiPolledSpec => []SpiPollInv
<1>1. SpiPollInv /\ [SpiPolledNext]_spiPolledVars => SpiPollInv'
  BY SpiPollStep
<1>2. SpiPolledInit => SpiPollInv
  BY SpiPollInitInv DEF SsSpiPollInv
<1>. QED
  BY <1>1, <1>2, PTL DEF SpiPolledSpec

\* The same of qm_ss_spi.c, whose status is still true when it acts on it.
THEOREM SsSpiPolledInvariance == SsSpiPolledSpec => []SsSpiPollInv
<1>1. SsSpiPollInv /\ [SsSpiPolledNext]_spiPolledVars => SsSpiPollInv'
  BY SsSpiPollStep
<1>. QED
  BY <1>1, SpiPollInitInv, PTL DEF SsSpiPolledSpec

\* qm_spi_transfer returns success only after every frame was clocked and every
\* received one stored, in every mode, and every transfer ends once.
THEOREM SpiPolledImplementsTransfer == SpiPolledSpec => SpiImplements
<1>1. SpiPolledInit => SpiContract!Init
  BY DEF SpiPolledInit, SpiInit, SpiContract!Init, SpiMoved
<1>2. SpiPollInv /\ [SpiPolledNext]_spiPolledVars => [SpiContract!Next]_SpiAbstract
  BY SpiPollStep
<1>. QED
  BY <1>1, <1>2, SpiPolledInvariance, PTL DEF SpiPolledSpec, SpiImplements,
     SpiContract!Spec, SpiContract!xfer, SpiAbstract

\* So does qm_ss_spi_transfer.
THEOREM SsSpiPolledImplementsTransfer == SsSpiPolledSpec => SpiImplements
<1>1. SpiPolledInit => SpiContract!Init
  BY DEF SpiPolledInit, SpiInit, SpiContract!Init, SpiMoved
<1>2. SsSpiPollInv /\ [SsSpiPolledNext]_spiPolledVars => [SpiContract!Next]_SpiAbstract
  BY SsSpiPollStep
<1>. QED
  BY <1>1, <1>2, SsSpiPolledInvariance, PTL DEF SsSpiPolledSpec, SpiImplements,
     SpiContract!Spec, SpiContract!xfer, SpiAbstract

(***************************************************************************)
(* DMA transfers.                                                          *)
(***************************************************************************)

\* The frames the TX channel has given to the controller.
SdGave == spiXfer.tx - sdLeft["tx"]

\* Where they are, and those it clocks without being given one.
SdGiven ==
  /\ spiMode \in {"TX", "TX_RX"} => SdGave = spiClocked + Shifting + spiTxFlr
  /\ spiMode = "RX" =>
       /\ spiClocked = 0 => Shifting + spiTxFlr = 1
       /\ spiClocked > 0 => spiTxFlr = 0
       /\ spiClocked + Shifting <= spiXfer.rx
  /\ spiMode = "EEPROM_READ" =>
       /\ spiClocked + Shifting <= spiXfer.tx =>
            SdGave = spiClocked + Shifting + spiTxFlr
       /\ spiClocked + Shifting > spiXfer.tx => spiTxFlr = 0 /\ SdGave = spiXfer.tx
       /\ spiClocked + Shifting <= spiXfer.tx + spiXfer.rx

\* Frames kept: those the RX channel has stored, and those in the FIFO.
SdKept ==
  /\ spiStored = spiXfer.rx - sdLeft["rx"]
  /\ spiMode = "TX" => spiStored + spiRxFlr = 0
  /\ spiMode \in {"RX", "TX_RX"} => spiStored + spiRxFlr <= spiClocked
  /\ spiMode = "EEPROM_READ" =>
       IF spiClocked <= spiXfer.tx
       THEN spiStored + spiRxFlr = 0
       ELSE spiStored + spiRxFlr <= spiClocked - spiXfer.tx

\* A channel that is not off has its callback pending, and has ended when it
\* has nothing left.
SdChannels ==
  \A c \in SdDirections :
    /\ sdChan[c] # "off" => c \in sdPending
    /\ sdChan[c] \in {"busy", "err"} => sdLeft[c] > 0
    /\ sdChan[c] = "end" => sdLeft[c] = 0
    /\ sdChan[c] = "err" => spiMode \in {"TX", "RX"}
    /\ c \in sdPending => spiBusy

\* A transfer under way: only the TX channel is ever stopped early while the
\* transfer goes on, by a client on its way to the RX channel.
SdUnderWay ==
  /\ spiXfer \in SpiTransfers(spiMode) /\ spiOutcome = "none" /\ spiEn
  /\ sdLeft["tx"] <= spiXfer.tx /\ sdLeft["rx"] <= spiXfer.rx
  /\ "tx" \in sdPending => spiXfer.tx > 0
  /\ "rx" \in sdPending => spiXfer.rx > 0
  /\ SdGiven /\ SdKept
  /\ sdWait = "none" /\ sdLeft["rx"] > 0 => "rx" \in sdPending
  /\ sdWait # "none" => sdPending = {}
  /\ sdWait = "done" => sdLeft["tx"] = 0 /\ sdLeft["rx"] = 0

\* What a terminating client saw pending still is, and it comes to the RX
\* channel when the TX channel has called back.
SdTerminating ==
  /\ sdSaw => sdTerm # <<>> /\ Head(sdTerm) \in sdPending /\ sdWait = "none"
  /\ sdTerm = <<"rx">> => "tx" \notin sdPending

SpiDmaInv ==
  /\ FlagsTypeOK /\ FramesTypeOK /\ SpiDmaTypeOK
  /\ spiImr = {} /\ spiPc = "none"
  /\ SdChannels /\ SdTerminating
  /\ spiBusy => SdUnderWay
  /\ ~spiBusy => SsIdle /\ sdWait = "none"

\* What holds through any mishap: the flags are flags, and what is of interrupts
\* stands still.
SdFrame ==
  /\ FlagsTypeOK
  /\ spiTx \in 0 .. SpiMaxLen /\ spiRx \in 0 .. SpiMaxLen
  /\ spiTxFtl \in 0 .. SPI_FIFOS_DEPTH - 1 /\ spiRxFtl \in 0 .. SPI_FIFOS_DEPTH - 1
  /\ spiPc = "none" /\ spiStatus \subseteq SpiInterrupts
  /\ spiSample \in 0 .. SPI_FIFOS_DEPTH
  /\ sdSaw \in BOOLEAN

\* The invariant: all of it but for what comes after a mishap, until a transfer
\* starts anew.
SpiDmaSafe ==
  SdFrame /\ (spiMet = "broken" \/ SpiDmaInv)

LEMMA SpiDmaInitInv == SpiInit /\ SdInit => SpiDmaSafe
<1>. SUFFICES ASSUME SpiInit, SdInit PROVE SpiDmaSafe
  OBVIOUS
<1>1. FlagsTypeOK /\ FramesTypeOK /\ SsIdle
  BY SsSpiInitInv DEF SpiInit, SsSpiInv
<1>2. SpiDmaTypeOK
  <2>1. 0 \in 0 .. SpiMaxLen
    BY SpiAssumption
  <2>2. <<>> \in {<<>>, <<"rx">>, <<"tx", "rx">>}
    OBVIOUS
  <2>. QED
    BY <2>1, <2>2 DEF SdInit, SpiDmaTypeOK
<1>3. SdChannels /\ SdTerminating
  BY DEF SdInit, SdChannels, SdTerminating, SdDirections
<1>. QED
  BY <1>1, <1>2, <1>3 DEF SpiInit, SdInit, SpiDmaSafe, SdFrame, SpiDmaInv, FramesTypeOK

\* What has been moved never exceeds what was asked for.
LEMMA SdSizes ==
  SpiDmaInv /\ spiBusy =>
    /\ spiXfer.tx \in Nat /\ spiXfer.rx \in Nat /\ spiClocked \in Nat
    /\ spiStored \in Nat /\ spiTxFlr \in Nat /\ spiRxFlr \in Nat
    /\ sdLeft["tx"] \in Nat /\ sdLeft["rx"] \in Nat
    /\ spiXfer.tx <= SpiMaxLen /\ spiXfer.rx <= SpiMaxLen
    /\ spiTxFlr <= SPI_FIFOS_DEPTH /\ spiRxFlr <= SPI_FIFOS_DEPTH
    /\ spiMode \in SpiModes /\ Shifting \in {0, 1}
  BY SpiAssumption DEF SpiDmaInv, FramesTypeOK, SpiLens, SpiDmaTypeOK, SdDirections,
     Shifting

LEMMA SdMoved ==
  SpiDmaInv /\ spiBusy =>
    SpiMoved \in Nat /\ SpiSize \in Nat /\ SpiMoved <= SpiSize
<1>. SUFFICES ASSUME SpiDmaInv, spiBusy
     PROVE    SpiMoved \in Nat /\ SpiSize \in Nat /\ SpiMoved <= SpiSize
  OBVIOUS
<1>1. SdUnderWay
  BY DEF SpiDmaInv
<1>2. CASE spiMode = "TX"
  BY <1>1, <1>2, SdSizes DEF SdUnderWay, SdGiven, SdGave, SpiMoved, SpiSize
<1>3. CASE spiMode = "EEPROM_READ"
  <2>1. sdLeft["rx"] <= spiXfer.rx /\ spiStored = spiXfer.rx - sdLeft["rx"]
    BY <1>1 DEF SdUnderWay, SdKept
  <2>2. SpiSize = spiXfer.tx + spiXfer.rx
    BY <1>3 DEF SpiSize
  <2>3. CASE spiClocked <= spiXfer.tx
    BY <1>3, <2>2, <2>3, SdSizes DEF SpiMoved
  <2>4. CASE spiClocked > spiXfer.tx
    <3>1. SpiMoved = spiXfer.tx + spiStored
      BY <1>3, <2>4, SdSizes DEF SpiMoved
    <3>. QED
      BY <2>1, <2>2, <3>1, SdSizes
  <2>. QED
    BY <2>3, <2>4, SdSizes
<1>4. CASE spiMode \notin {"TX", "EEPROM_READ"}
  BY <1>1, <1>4, SdSizes DEF SdUnderWay, SdKept, SpiMoved, SpiSize
<1>. QED
  BY <1>2, <1>3, <1>4

\* A step that leaves the transfer and the channels alone.
LEMMA SdSame ==
  ASSUME UNCHANGED <<spiVars, sdPending, sdChan, sdLeft, sdWait>>
  PROVE  /\ FlagsTypeOK => FlagsTypeOK'
         /\ FramesTypeOK => FramesTypeOK'
         /\ SdChannels => SdChannels'
         /\ SdUnderWay => SdUnderWay'
         /\ SsIdle => SsIdle'
         /\ UNCHANGED SpiAbstract
<1>1. UNCHANGED <<spiMode, spiXfer, spiTx, spiRx, spiImr, spiTxFtl, spiRxFtl,
                 spiEn, spiTxFlr, spiRxFlr, spiShift, spiClocked, spiOverflow,
                 spiPc, spiStatus, spiSample, spiStored, spiBusy, spiOutcome>>
  BY DEF spiVars, spiDriver, spiRegs, spiChip, spiIsr, spiClient
<1>2. /\ FlagsTypeOK => FlagsTypeOK'
      /\ FramesTypeOK => FramesTypeOK'
      /\ SsIdle => SsIdle'
  BY <1>1 DEF FlagsTypeOK, FramesTypeOK, SsIdle
<1>3. SdChannels => SdChannels'
  BY <1>1 DEF SdChannels
<1>4. SdUnderWay => SdUnderWay'
  BY <1>1 DEF SdUnderWay, SdGiven, SdGave, SdKept, Shifting
<1>5. UNCHANGED SpiAbstract
  BY <1>1 DEF SpiAbstract, SpiMoved
<1>. QED
  BY <1>2, <1>3, <1>4, <1>5

LEMMA SdStartKeeps ==
  ASSUME SdFrame, NEW mode \in SpiModes, NEW x \in SpiTransfers(mode),
         SdStart(mode, x), spiMet' # "broken"
  PROVE  SpiDmaInv' /\ SpiContract!Start
<1>. DEFINE used == {c \in SdDirections : IF c = "tx" THEN x.tx > 0 ELSE x.rx > 0}
<1>1. /\ sdWait = "none" /\ sdTerm = <<>> /\ ~sdSaw /\ ~spiBusy /\ spiPc = "none"
      /\ sdPending = {} /\ spiRxFlr = 0 /\ ~spiShift
      /\ spiMode' = mode /\ spiXfer' = x
      /\ spiImr' = {} /\ spiEn' = TRUE
      /\ spiTxFlr' = (IF mode = "RX" THEN 1 ELSE 0)
      /\ spiClocked' = 0 /\ spiOverflow' = FALSE
      /\ spiStored' = 0 /\ spiBusy' = TRUE /\ spiOutcome' = "none"
      /\ sdPending' = sdPending \cup used /\ sdCr' = used
      /\ sdChan' = [c \in SdDirections |-> IF c \in used THEN "busy" ELSE "off"]
      /\ sdLeft' = x
      /\ UNCHANGED <<spiTx, spiRx, spiTxFtl, spiRxFtl, spiRxFlr, spiShift, spiPc,
                     spiStatus, spiSample, sdWait, sdTerm, sdSaw>>
  BY DEF SdStart, spiIsr, SdFrame
<1>2. /\ x \in SpiLens /\ x.tx \in 0 .. SpiMaxLen /\ x.rx \in 0 .. SpiMaxLen
      /\ x.tx > 0 <=> mode # "RX"
      /\ x.rx > 0 <=> mode # "TX"
  BY DEF SpiTransfers, SpiLens
<1>3. x \in [SdDirections -> 0 .. SpiMaxLen]
  BY <1>2 DEF SpiLens, SdDirections
<1>4. sdPending = {} /\ sdSaw = FALSE
  BY <1>1 DEF SdFrame
<1>5. FlagsTypeOK' /\ FramesTypeOK'
  <2>1. FlagsTypeOK' /\ spiImr' \subseteq SpiInterrupts /\ spiMode' \in SpiModes
        /\ spiXfer' \in SpiLens
    BY <1>1, <1>2 DEF SdFrame, FlagsTypeOK
  <2>2. /\ 0 \in 0 .. SPI_FIFOS_DEPTH /\ 1 \in 0 .. SPI_FIFOS_DEPTH
        /\ 0 \in 0 .. SpiMaxLen /\ 0 \in 0 .. 2 * SpiMaxLen
    BY SpiAssumption
  <2>. QED
    BY <1>1, <2>1, <2>2 DEF SdFrame, FramesTypeOK
<1>6. SpiDmaTypeOK'
  BY <1>1, <1>3, <1>4 DEF SpiDmaTypeOK, SdDirections
<1>7. SdChannels'
  BY <1>1, <1>2, <1>4 DEF SdChannels, SdDirections
<1>8. SdTerminating'
  BY <1>1, <1>4 DEF SdTerminating
<1>9. SdUnderWay'
  <2>1. Shifting' = 0 /\ spiRxFlr' = 0
    BY <1>1 DEF Shifting
  <2>2. SdGiven'
    BY <1>1, <1>2, <2>1 DEF SdGiven, SdGave
  <2>3. SdKept'
    BY <1>1, <1>2, <2>1 DEF SdKept
  <2>. QED
    BY <1>1, <1>2, <1>4, <2>2, <2>3 DEF SdUnderWay, SdDirections
<1>10. SpiContract!Start
  BY <1>1, <1>2 DEF SpiContract!Start, SpiMoved
<1>. QED
  BY <1>1, <1>5, <1>6, <1>7, <1>8, <1>9, <1>10 DEF SpiDmaInv

LEMMA SdTerms ==
  /\ Head(<<"rx">>) = "rx" /\ Tail(<<"rx">>) = <<>>
  /\ Head(<<"tx", "rx">>) = "tx" /\ Tail(<<"tx", "rx">>) = <<"rx">>
  /\ <<"tx", "rx">> # <<"rx">> /\ <<"rx">> # <<>> /\ <<"tx", "rx">> # <<>>
  OBVIOUS

LEMMA SdTerminateKeeps ==
  ASSUME SpiDmaInv, SdTerminate \/ SdLook
  PROVE  SpiDmaInv' /\ UNCHANGED SpiAbstract
<1>1. /\ UNCHANGED <<spiVars, sdPending, sdCr, sdChan, sdLeft, sdWait>>
      /\ sdWait = "none"
  BY DEF SdTerminate, SdLook
<1>2. SpiDmaTypeOK' /\ SdTerminating'
  <2>1. CASE SdTerminate
    BY <1>1, <2>1 DEF SdTerminate, SpiDmaInv, SpiDmaTypeOK, SdTerminating
  <2>2. CASE SdLook
    <3>1. sdTerm \in {<<"rx">>, <<"tx", "rx">>}
      BY <2>2 DEF SdLook, SpiDmaInv, SpiDmaTypeOK
    <3>2. CASE Head(sdTerm) \in sdPending
      BY <1>1, <2>2, <3>1, <3>2 DEF SdLook, SpiDmaInv, SpiDmaTypeOK, SdTerminating
    <3>3. CASE Head(sdTerm) \notin sdPending
      <4>1. sdTerm' = Tail(sdTerm) /\ sdSaw = FALSE /\ sdSaw' = FALSE
        BY <2>2, <3>3 DEF SdLook, SpiDmaInv, SpiDmaTypeOK
      <4>2. CASE sdTerm = <<"rx">>
        BY <1>1, <4>1, <4>2, SdTerms DEF SpiDmaInv, SpiDmaTypeOK, SdTerminating
      <4>3. CASE sdTerm = <<"tx", "rx">>
        BY <1>1, <3>3, <4>1, <4>3, SdTerms DEF SpiDmaInv, SpiDmaTypeOK, SdTerminating
      <4>. QED
        BY <3>1, <4>2, <4>3
    <3>. QED
      BY <3>2, <3>3
  <2>. QED
    BY <2>1, <2>2
<1>3. UNCHANGED <<spiImr, spiPc, spiBusy>>
  BY <1>1 DEF spiVars, spiRegs, spiIsr, spiClient
<1>. QED
  BY <1>1, <1>2, <1>3, SdSame DEF SpiDmaInv

\* A transfer that has received everything has sent everything.
LEMMA SdReceived ==
  SpiDmaInv /\ spiBusy /\ spiMode # "TX" /\ sdLeft["rx"] = 0 => sdLeft["tx"] = 0
<1>. SUFFICES ASSUME SpiDmaInv, spiBusy, spiMode # "TX", sdLeft["rx"] = 0
     PROVE    sdLeft["tx"] = 0
  OBVIOUS
<1>1. SdUnderWay /\ spiXfer.rx > 0 /\ (spiMode = "TX_RX" => spiXfer.tx = spiXfer.rx)
      /\ (spiMode = "RX" => ~(spiXfer.tx > 0))
  BY DEF SpiDmaInv, SdUnderWay, SpiTransfers
<1>2. sdLeft["tx"] <= spiXfer.tx /\ spiStored = spiXfer.rx
  BY <1>1, SdSizes DEF SdUnderWay, SdKept
<1>3. CASE spiMode = "RX"
  BY <1>1, <1>2, <1>3, SdSizes
<1>4. CASE spiMode = "TX_RX"
  BY <1>1, <1>2, <1>4, SdSizes DEF SdUnderWay, SdGiven, SdGave, SdKept
<1>5. CASE spiMode = "EEPROM_READ"
  BY <1>1, <1>2, <1>5, SdSizes DEF SdUnderWay, SdGiven, SdGave, SdKept
<1>. QED
  BY <1>3, <1>4, <1>5, SdSizes DEF SpiModes

\* A direction that calls back without an error.
LEMMA SdCallbackKeeps ==
  ASSUME SpiDmaInv, NEW c \in SdDirections,
         c \in sdPending, sdWait = "none", SdCallback(c),
         sdChan' = [sdChan EXCEPT ![c] = "off"],
         UNCHANGED <<spiVars, sdCr, sdLeft>>,
         c = "rx" /\ "tx" \in sdPending => sdLeft["rx"] = 0,
         sdSaw' = FALSE, sdTerm' \in {<<>>, <<"rx">>},
         sdTerm' = <<"rx">> => "tx" \notin sdPending'
  PROVE  SpiDmaInv' /\ UNCHANGED SpiAbstract
<1>1. UNCHANGED <<spiMode, spiXfer, spiTx, spiRx, spiImr, spiTxFtl, spiRxFtl,
                 spiEn, spiTxFlr, spiRxFlr, spiShift, spiClocked, spiOverflow,
                 spiPc, spiStatus, spiSample, spiStored, spiBusy, spiOutcome>>
  BY DEF spiVars, spiDriver, spiRegs, spiChip, spiIsr, spiClient
<1>2. spiBusy /\ SdUnderWay /\ SpiDmaTypeOK
  BY DEF SpiDmaInv, SdChannels
<1>3. /\ sdPending' = sdPending \ {c}
      /\ sdWait' = (IF sdPending \ {c} # {} THEN "none"
                    ELSE IF sdLeft[c] = 0 THEN "done" ELSE "failed")
  BY DEF SdCallback, SdLast
<1>4. FlagsTypeOK' /\ FramesTypeOK' /\ UNCHANGED SpiAbstract
  BY <1>1 DEF SpiDmaInv, FlagsTypeOK, FramesTypeOK, SpiAbstract, SpiMoved
<1>5. SpiDmaTypeOK' /\ SdTerminating'
  BY <1>2, <1>3 DEF SpiDmaTypeOK, SdTerminating
<1>6. SdChannels'
  BY <1>1, <1>2, <1>3 DEF SpiDmaInv, SpiDmaTypeOK, SdChannels
<1>7. SdUnderWay'
  <2>1. SdGiven' /\ SdKept'
    BY <1>1, <1>2 DEF SdUnderWay, SdGiven, SdGave, SdKept, Shifting
  <2>2. spiMode # "TX" /\ sdLeft["rx"] = 0 => sdLeft["tx"] = 0
    BY <1>2, SdReceived
  <2>3. c = "rx" => spiMode # "TX"
    BY <1>2 DEF SdUnderWay, SpiTransfers
  <2>4. c = "tx" \/ c = "rx"
    BY DEF SdDirections
  <2>5. CASE c = "tx"
    <3>1. sdPending' = {} => sdLeft["rx"] = 0
      BY <1>2, <1>3, <2>5, SdSizes DEF SdUnderWay
    <3>2. sdWait' = "done" => sdPending' = {} /\ sdLeft["tx"] = 0
      BY <1>3, <2>5
    <3>. QED
      BY <1>1, <1>2, <1>3, <2>1, <2>5, <3>1, <3>2 DEF SdUnderWay
  <2>6. CASE c = "rx"
    <3>1. sdWait' = "done" => sdLeft["rx"] = 0 /\ sdLeft["tx"] = 0
      BY <1>3, <2>2, <2>3, <2>6
    <3>2. sdWait' = "none" => "tx" \in sdPending
      BY <1>2, <1>3, <2>6 DEF SpiDmaTypeOK, SdDirections
    <3>. QED
      BY <1>1, <1>2, <1>3, <2>1, <2>6, <3>1, <3>2 DEF SdUnderWay
  <2>. QED
    BY <2>4, <2>5, <2>6
<1>. QED
  BY <1>1, <1>2, <1>4, <1>5, <1>6, <1>7 DEF SpiDmaInv

LEMMA SdStopChannelKeeps ==
  ASSUME SpiDmaInv, SdStopChannel
  PROVE  SpiDmaInv' /\ UNCHANGED SpiAbstract
<1>. DEFINE c == Head(sdTerm)
<1>1. /\ sdWait = "none" /\ sdSaw /\ sdTerm \in {<<"rx">>, <<"tx", "rx">>}
      /\ sdChan' = [sdChan EXCEPT ![c] = "off"] /\ SdCallback(c)
      /\ sdTerm' = Tail(sdTerm) /\ sdSaw' = FALSE
      /\ UNCHANGED <<spiVars, sdCr, sdLeft>>
      /\ c \in sdPending
  BY DEF SdStopChannel, SpiDmaInv, SpiDmaTypeOK, SdTerminating
<1>2. sdTerm = <<"rx">> => "tx" \notin sdPending
  BY DEF SpiDmaInv, SdTerminating
<1>3. CASE sdTerm = <<"rx">>
  <2>1. c = "rx" /\ sdTerm' = <<>>
    BY <1>1, <1>3, SdTerms
  <2>. QED
    BY <1>1, <1>2, <1>3, <2>1, SdTerms, SdCallbackKeeps DEF SdDirections
<1>4. CASE sdTerm = <<"tx", "rx">>
  <2>1. c = "tx" /\ sdTerm' = <<"rx">>
    BY <1>1, <1>4, SdTerms
  <2>2. "tx" \notin sdPending'
    BY <1>1, <2>1 DEF SdCallback
  <2>. QED
    BY <1>1, <1>4, <2>1, <2>2, SdCallbackKeeps DEF SdDirections
<1>. QED
  BY <1>1, <1>3, <1>4

LEMMA SdChannelEndKeeps ==
  ASSUME SpiDmaInv, NEW c \in SdDirections, SdChannelEnd(c), spiMet # "broken",
         spiMet' # "broken"
  PROVE  SpiDmaInv' /\ UNCHANGED SpiAbstract
<1>1. /\ sdWait = "none" /\ sdTerm = <<>> /\ sdChan[c] = "end"
      /\ sdChan' = [sdChan EXCEPT ![c] = "off"] /\ SdCallback(c)
      /\ UNCHANGED <<spiVars, sdCr, sdLeft, sdTerm, sdSaw>>
  BY DEF SdChannelEnd, SdInterruptible, SdMeets, spiVars
<1>2. c \in sdPending /\ sdLeft[c] = 0
  BY <1>1 DEF SpiDmaInv, SdChannels
<1>3. sdSaw' = FALSE /\ sdTerm' = <<>> /\ <<>> # <<"rx">>
  BY <1>1 DEF SpiDmaInv, SpiDmaTypeOK, SdTerminating
<1>. QED
  BY <1>1, <1>2, <1>3, SdCallbackKeeps

\* What ends a transfer.
LEMMA SdStopKeeps ==
  ASSUME SpiDmaInv, spiBusy, NEW o \in {"done", "failed"},
         o = "done" => SpiMoved = SpiSize,
         SdStop(o), sdPending' = {}, sdChan' = [c \in SdDirections |-> "off"],
         sdWait' = "none",
         UNCHANGED <<spiDriver, spiRegs, spiOverflow, spiIsr, spiStored, sdLeft,
                     sdTerm>>,
         sdSaw' = FALSE
  PROVE  SpiDmaInv' /\ SpiContract!Report
<1>1. /\ spiEn' = FALSE /\ spiTxFlr' = 0 /\ spiRxFlr' = 0 /\ spiShift' = FALSE
      /\ spiBusy' = FALSE /\ spiOutcome' = o /\ sdCr' = {}
      /\ UNCHANGED <<spiMode, spiXfer, spiTx, spiRx, spiImr, spiTxFtl, spiRxFtl,
                     spiPc, spiStatus, spiSample, spiClocked, spiOverflow, spiStored>>
  BY DEF SdStop, SpiDisable, SpiReport, spiDriver, spiRegs, spiIsr
<1>2. FlagsTypeOK' /\ SsIdle'
  BY <1>1 DEF SpiDmaInv, FlagsTypeOK, SsIdle
<1>3. FramesTypeOK'
  <2>1. 0 \in 0 .. SPI_FIFOS_DEPTH
    BY SpiAssumption
  <2>. QED
    BY <1>1, <2>1 DEF SpiDmaInv, FramesTypeOK
<1>4. SpiDmaTypeOK' /\ SdChannels' /\ SdTerminating'
  BY <1>1 DEF SpiDmaInv, SpiDmaTypeOK, SdChannels, SdTerminating
<1>5. SpiMoved' = SpiMoved /\ SpiSize' = SpiSize
  BY <1>1 DEF SpiMoved, SpiSize
<1>6. SpiContract!Report
  BY <1>1, <1>5, SdMoved DEF SpiContract!Report, SpiSize
<1>. QED
  BY <1>1, <1>2, <1>3, <1>4, <1>6 DEF SpiDmaInv

LEMMA SdReportKeeps ==
  ASSUME SpiDmaInv, SdReport
  PROVE  SpiDmaInv' /\ SpiContract!Report
<1>1. /\ sdWait \in {"done", "failed"} /\ (spiEn => ~BusyOnBus) /\ SdStop(sdWait)
      /\ sdWait' = "none"
      /\ UNCHANGED <<spiDriver, spiRegs, spiOverflow, spiIsr, spiStored,
                     sdPending, sdChan, sdLeft, sdTerm, sdSaw>>
  BY DEF SdReport, SpiDmaInv, SpiDmaTypeOK
<1>2. spiBusy /\ SdUnderWay /\ sdPending = {} /\ sdSaw = FALSE
  BY <1>1 DEF SpiDmaInv, SpiDmaTypeOK, SdTerminating, SdUnderWay
<1>3. sdChan = [c \in SdDirections |-> "off"]
  BY <1>2 DEF SpiDmaInv, SpiDmaTypeOK, SdChannels
<1>4. sdWait = "done" => SpiMoved = SpiSize
  <2>1. SUFFICES ASSUME sdWait = "done" PROVE SpiMoved = SpiSize
    OBVIOUS
  <2>2. sdLeft["tx"] = 0 /\ sdLeft["rx"] = 0 /\ Shifting = 0 /\ spiTxFlr = 0
    BY <1>1, <1>2, <2>1, SdSizes DEF SdUnderWay, BusyOnBus, Shifting
  <2>3. spiMode # "TX" => spiXfer.rx > 0
    BY <1>2 DEF SdUnderWay, SpiTransfers
  <2>4. CASE spiMode = "TX"
    BY <1>2, <2>2, <2>4, SdSizes DEF SdUnderWay, SdGiven, SdGave, SpiMoved, SpiSize
  <2>5. CASE spiMode = "EEPROM_READ"
    <3>1. spiStored = spiXfer.rx /\ spiClocked > spiXfer.tx
      BY <1>2, <2>2, <2>3, <2>5, SdSizes DEF SdUnderWay, SdKept
    <3>. QED
      BY <2>5, <3>1 DEF SpiMoved, SpiSize
  <2>6. CASE spiMode \notin {"TX", "EEPROM_READ"}
    BY <1>2, <2>2, <2>6, SdSizes DEF SdUnderWay, SdKept, SpiMoved, SpiSize
  <2>. QED
    BY <2>4, <2>5, <2>6
<1>. QED
  BY <1>1, <1>2, <1>3, <1>4, SdStopKeeps

LEMMA SdChannelErrorKeeps ==
  ASSUME SpiDmaInv, NEW c \in SdDirections, SdChannelError(c), spiMet' # "broken"
  PROVE  SpiDmaInv' /\ SpiContract!Report
<1>1. /\ sdWait = "none" /\ sdTerm = <<>> /\ sdChan[c] = "err"
      /\ sdChan' = [sdChan EXCEPT ![c] = "off"] /\ sdPending' = sdPending \ {c}
      /\ SdStop("failed")
      /\ UNCHANGED <<spiDriver, spiRegs, spiOverflow, spiIsr, spiStored,
                     sdLeft, sdWait, sdTerm, sdSaw>>
  BY DEF SdChannelError, SdInterruptible, SdMeets
<1>2. spiBusy /\ SdUnderWay /\ c \in sdPending /\ spiMode \in {"TX", "RX"}
  BY <1>1 DEF SpiDmaInv, SdChannels
<1>3. /\ spiMode = "TX" => ~(spiXfer.rx > 0)
      /\ spiMode = "RX" => ~(spiXfer.tx > 0)
  BY <1>2, SdSizes DEF SdUnderWay, SpiTransfers
<1>4. sdPending' = {}
  BY <1>1, <1>2, <1>3 DEF SpiDmaInv, SpiDmaTypeOK, SdDirections, SdUnderWay
<1>5. sdChan' = [d \in SdDirections |-> "off"]
  BY <1>1, <1>4 DEF SpiDmaInv, SpiDmaTypeOK, SdChannels
<1>6. sdSaw' = FALSE
  BY <1>1 DEF SpiDmaInv, SpiDmaTypeOK, SdTerminating
<1>. QED
  BY <1>1, <1>2, <1>4, <1>5, <1>6, SdStopKeeps

\* A step of the channels or of the controller.
LEMMA SdMoveRefines ==
  ASSUME SpiDmaInv, spiBusy, SpiDmaInv',
         UNCHANGED <<spiMode, spiXfer, spiBusy, spiOutcome>>,
         SpiMoved' = SpiMoved \/ SpiMoved' > SpiMoved
  PROVE  [SpiContract!Next]_SpiAbstract
<1>1. SpiSize' = SpiSize /\ spiBusy'
  BY DEF SpiSize
<1>2. (SpiDmaInv /\ spiBusy =>
         SpiMoved \in Nat /\ SpiSize \in Nat /\ SpiMoved <= SpiSize)'
  BY SdMoved, PTL
<1>3. SpiMoved' \in Nat /\ SpiMoved' <= SpiSize' /\ SpiMoved \in Nat /\ SpiSize \in Nat
  BY <1>1, <1>2, SdMoved
<1>4. CASE SpiMoved' = SpiMoved
  BY <1>4 DEF SpiAbstract
<1>5. CASE SpiMoved' > SpiMoved
  BY <1>1, <1>3, <1>5 DEF SpiContract!Next, SpiContract!Move, SpiSize
<1>. QED
  BY <1>4, <1>5

LEMMA SdMoveKeeps ==
  ASSUME SpiDmaInv, NEW c \in SdDirections, SdMove(c)
  PROVE  SpiDmaInv' /\ [SpiContract!Next]_SpiAbstract
<1>1. /\ sdChan[c] = "busy"
      /\ sdLeft' = [sdLeft EXCEPT ![c] = @ - 1]
      /\ sdChan' = [sdChan EXCEPT ![c] = IF sdLeft[c] = 1 THEN "end" ELSE @]
      /\ UNCHANGED <<spiMode, spiXfer, spiTx, spiRx, spiImr, spiTxFtl, spiRxFtl,
                     spiEn, spiShift, spiClocked, spiOverflow, spiPc, spiStatus,
                     spiSample, spiBusy, spiOutcome, sdPending, sdCr, sdWait, sdTerm,
                     sdSaw>>
  BY DEF SdMove, spiDriver, spiRegs, spiIsr
<1>2. /\ spiBusy /\ SdUnderWay /\ SpiDmaTypeOK /\ c \in sdPending /\ sdLeft[c] > 0
      /\ sdWait = "none"
  BY <1>1 DEF SpiDmaInv, SdChannels, SdUnderWay
<1>3. sdLeft[c] \in 1 .. SpiMaxLen /\ sdLeft[c] - 1 \in 0 .. SpiMaxLen
  BY <1>2, SpiAssumption DEF SpiDmaTypeOK
<1>4. FlagsTypeOK' /\ SpiDmaTypeOK' /\ SdTerminating'
  BY <1>1, <1>2, <1>3 DEF SpiDmaInv, FlagsTypeOK, SpiDmaTypeOK, SdTerminating
<1>5. SdChannels'
  BY <1>1, <1>2, <1>3 DEF SpiDmaInv, SpiDmaTypeOK, SdChannels
<1>6. c = "tx" \/ c = "rx"
  BY DEF SdDirections
<1>7. CASE c = "tx"
  <2>1. /\ spiTxFlr < SPI_FIFOS_DEPTH /\ spiTxFlr' = spiTxFlr + 1
        /\ UNCHANGED <<spiRxFlr, spiStored>>
    BY <1>7 DEF SdMove
  <2>2. sdLeft'["tx"] = sdLeft["tx"] - 1 /\ sdLeft'["rx"] = sdLeft["rx"]
    BY <1>1, <1>2, <1>7 DEF SpiDmaTypeOK, SdDirections
  <2>3. spiMode # "RX" /\ sdLeft["tx"] > 0
    BY <1>2, <1>7 DEF SdUnderWay, SpiTransfers
  <2>4. spiTxFlr' \in 0 .. SPI_FIFOS_DEPTH
    BY <1>2, <2>1, SdSizes, SpiAssumption
  <2>5. FramesTypeOK'
    BY <1>1, <2>1, <2>4 DEF SpiDmaInv, FramesTypeOK
  <2>6. SdGiven'
    <3>1. SdGave' = SdGave + 1 /\ Shifting' = Shifting /\ SdGave \in Nat
          /\ SdGave # spiXfer.tx
      BY <1>1, <1>2, <2>2, <2>3, SdSizes DEF SdUnderWay, SdGave, Shifting
    <3>. QED
      BY <1>1, <1>2, <2>1, <2>3, <3>1, SdSizes DEF SdUnderWay, SdGiven
  <2>7. SdKept'
    BY <1>1, <1>2, <2>1, <2>2 DEF SdUnderWay, SdKept
  <2>8. SdUnderWay'
    BY <1>1, <1>2, <2>2, <2>6, <2>7, SdSizes DEF SdUnderWay
  <2>9. SpiDmaInv'
    BY <1>1, <1>2, <1>4, <1>5, <2>5, <2>8 DEF SpiDmaInv
  <2>10. UNCHANGED SpiAbstract
    BY <1>1, <2>1 DEF SpiAbstract, SpiMoved
  <2>. QED
    BY <2>9, <2>10
<1>8. CASE c = "rx"
  <2>1. /\ spiRxFlr > 0 /\ spiRxFlr' = spiRxFlr - 1 /\ spiStored' = spiStored + 1
        /\ spiTxFlr' = spiTxFlr
    BY <1>8 DEF SdMove
  <2>2. sdLeft'["rx"] = sdLeft["rx"] - 1 /\ sdLeft'["tx"] = sdLeft["tx"]
    BY <1>1, <1>2, <1>8 DEF SpiDmaTypeOK, SdDirections
  <2>3. spiMode # "TX" /\ sdLeft["rx"] > 0
    BY <1>2, <1>8 DEF SdUnderWay, SpiTransfers
  <2>4. SdGiven'
    BY <1>1, <1>2, <2>1, <2>2 DEF SdUnderWay, SdGiven, SdGave, Shifting
  <2>5. SdKept' /\ spiStored' <= spiXfer.rx
    BY <1>1, <1>2, <2>1, <2>2, <2>3, SdSizes DEF SdUnderWay, SdKept
  <2>6. spiRxFlr' \in 0 .. SPI_FIFOS_DEPTH /\ spiStored' \in 0 .. SpiMaxLen
    BY <1>2, <2>1, <2>5, SdSizes, SpiAssumption
  <2>7. FramesTypeOK'
    BY <1>1, <2>1, <2>6 DEF SpiDmaInv, FramesTypeOK
  <2>8. SdUnderWay'
    BY <1>1, <1>2, <1>8, <2>2, <2>4, <2>5, SdSizes DEF SdUnderWay
  <2>9. SpiDmaInv'
    BY <1>1, <1>2, <1>4, <1>5, <2>7, <2>8 DEF SpiDmaInv
  <2>10. SpiMoved' = SpiMoved \/ SpiMoved' > SpiMoved
    BY <1>1, <1>2, <2>1, SdSizes DEF SdUnderWay, SdKept, SpiMoved
  <2>. QED
    BY <1>1, <1>2, <2>9, <2>10, SdMoveRefines
<1>. QED
  BY <1>6, <1>7, <1>8

LEMMA SdBusErrorKeeps ==
  ASSUME SpiDmaInv, NEW c \in SdDirections, SdBusError(c), spiMet' # "broken"
  PROVE  SpiDmaInv' /\ UNCHANGED SpiAbstract
<1>1. /\ sdChan[c] = "busy" /\ spiMode \in {"TX", "RX"}
      /\ sdChan' = [sdChan EXCEPT ![c] = "err"]
      /\ UNCHANGED <<spiMode, spiXfer, spiTx, spiRx, spiImr, spiTxFtl, spiRxFtl,
                     spiEn, spiTxFlr, spiRxFlr, spiShift, spiClocked, spiOverflow,
                     spiPc, spiStatus, spiSample, spiStored, spiBusy, spiOutcome,
                     sdPending, sdCr, sdLeft, sdWait, sdTerm, sdSaw>>
  BY DEF SdBusError, SdMeets, SpiDmaInv, FramesTypeOK, spiDriver, spiRegs, spiChip,
     spiIsr, spiClient
<1>2. FlagsTypeOK' /\ FramesTypeOK' /\ UNCHANGED SpiAbstract
  BY <1>1 DEF SpiDmaInv, FlagsTypeOK, FramesTypeOK, SpiAbstract, SpiMoved
<1>3. SpiDmaTypeOK' /\ SdTerminating' /\ SdChannels'
  BY <1>1 DEF SpiDmaInv, SpiDmaTypeOK, SdTerminating, SdChannels
<1>4. SdUnderWay => SdUnderWay'
  BY <1>1 DEF SdUnderWay, SdGiven, SdGave, SdKept, Shifting
<1>. QED
  BY <1>1, <1>2, <1>3, <1>4 DEF SpiDmaInv, SsIdle

LEMMA SdLoadKeeps ==
  ASSUME SpiDmaInv, SpiLoad, UNCHANGED sdVars
  PROVE  SpiDmaInv' /\ UNCHANGED SpiAbstract
<1>1. /\ spiTxFlr > 0 \/ Receiving(spiClocked)
      /\ spiShift = FALSE /\ spiShift' = TRUE
      /\ spiTxFlr' = (IF spiTxFlr > 0 THEN spiTxFlr - 1 ELSE 0)
      /\ UNCHANGED <<spiMode, spiXfer, spiTx, spiRx, spiImr, spiTxFtl, spiRxFtl,
                     spiEn, spiRxFlr, spiClocked, spiOverflow, spiPc, spiStatus,
                     spiSample, spiStored, spiBusy, spiOutcome, sdPending, sdCr,
                     sdChan, sdLeft, sdWait, sdTerm, sdSaw>>
  BY DEF SpiLoad, SpiDmaInv, FlagsTypeOK, spiDriver, spiRegs, spiIsr, spiClient, sdVars
<1>2. spiBusy /\ SdUnderWay
  BY DEF SpiLoad, SpiDmaInv, SsIdle
<1>3. FlagsTypeOK' /\ SpiDmaTypeOK' /\ SdTerminating' /\ SdChannels' /\ SdKept'
  BY <1>1, <1>2 DEF SpiDmaInv, FlagsTypeOK, SpiDmaTypeOK, SdTerminating, SdChannels,
     SdUnderWay, SdKept
<1>4. Shifting = 0 /\ Shifting' = 1 /\ SdGave' = SdGave /\ SdGave \in Nat
  BY <1>1, <1>2, SdSizes DEF SdUnderWay, Shifting, SdGave
<1>5. FramesTypeOK'
  <2>1. spiTxFlr' \in 0 .. SPI_FIFOS_DEPTH
    BY <1>1, <1>2, SdSizes, SpiAssumption
  <2>. QED
    BY <1>1, <2>1 DEF SpiDmaInv, FramesTypeOK
<1>6. SdGiven'
  <2>1. /\ spiMode # "TX" => spiXfer.rx > 0
        /\ SdGave <= spiXfer.tx
    BY <1>2, SdSizes DEF SdUnderWay, SpiTransfers, SdGave
  <2>. QED
    BY <1>1, <1>2, <1>4, <2>1, SdSizes DEF SdUnderWay, SdGiven, Receiving
<1>7. SdUnderWay'
  BY <1>1, <1>2, <1>3, <1>6 DEF SdUnderWay
<1>8. UNCHANGED SpiAbstract
  BY <1>1 DEF SpiAbstract, SpiMoved
<1>. QED
  BY <1>1, <1>2, <1>3, <1>5, <1>7, <1>8 DEF SpiDmaInv

LEMMA SdClockKeeps ==
  ASSUME SpiDmaInv, SpiClock, UNCHANGED sdVars
  PROVE  SpiDmaInv' /\ [SpiContract!Next]_SpiAbstract
<1>. DEFINE kept == \/ spiMode \in {"RX", "TX_RX"}
                    \/ spiMode = "EEPROM_READ" /\ spiClocked >= spiXfer.tx
            full == spiRxFlr = SPI_FIFOS_DEPTH
<1>1. /\ spiShift = TRUE /\ spiShift' = FALSE /\ spiClocked' = spiClocked + 1
      /\ spiRxFlr' = (IF kept /\ ~full THEN spiRxFlr + 1 ELSE spiRxFlr)
      /\ spiOverflow' = (spiOverflow \/ (kept /\ full))
      /\ UNCHANGED <<spiMode, spiXfer, spiTx, spiRx, spiImr, spiTxFtl, spiRxFtl,
                     spiEn, spiTxFlr, spiPc, spiStatus, spiSample, spiStored,
                     spiBusy, spiOutcome, sdPending, sdCr, sdChan, sdLeft, sdWait,
                     sdTerm, sdSaw>>
  BY DEF SpiClock, SpiDmaInv, FlagsTypeOK, spiDriver, spiRegs, spiIsr, spiClient, sdVars
<1>2. spiBusy /\ SdUnderWay
  BY <1>1 DEF SpiDmaInv, SsIdle
<1>3. FlagsTypeOK' /\ SpiDmaTypeOK' /\ SdTerminating' /\ SdChannels'
  BY <1>1 DEF SpiDmaInv, FlagsTypeOK, SpiDmaTypeOK, SdTerminating, SdChannels
<1>4. Shifting = 1 /\ Shifting' = 0 /\ SdGave' = SdGave /\ SdGave \in Nat
      /\ SdGave <= spiXfer.tx
  BY <1>1, <1>2, SdSizes DEF SdUnderWay, Shifting, SdGave
<1>5. SdGiven' /\ spiClocked + 1 <= spiXfer.tx + spiXfer.rx
  BY <1>1, <1>2, <1>4, SdSizes DEF SdUnderWay, SdGiven, SpiModes
<1>6. SdKept'
  BY <1>1, <1>2, SdSizes DEF SdUnderWay, SdKept
<1>7. FramesTypeOK'
  <2>1. spiClocked' \in 0 .. 2 * SpiMaxLen /\ spiRxFlr' \in 0 .. SPI_FIFOS_DEPTH
    BY <1>1, <1>2, <1>5, SdSizes, SpiAssumption
  <2>. QED
    BY <1>1, <2>1 DEF SpiDmaInv, FramesTypeOK
<1>8. SdUnderWay'
  BY <1>1, <1>2, <1>5, <1>6 DEF SdUnderWay
<1>9. SpiDmaInv'
  BY <1>1, <1>2, <1>3, <1>7, <1>8 DEF SpiDmaInv
<1>10. SpiMoved' = SpiMoved \/ SpiMoved' > SpiMoved
  BY <1>1, <1>2, SdSizes DEF SdUnderWay, SdKept, SpiMoved
<1>. QED
  BY <1>1, <1>2, <1>9, <1>10, SdMoveRefines

LEMMA SdFrameKeeps ==
  ASSUME SdFrame, [SpiDmaNext]_spiDmaVars
  PROVE  SdFrame'
<1>1. UNCHANGED <<spiTx, spiRx, spiTxFtl, spiRxFtl, spiPc, spiStatus, spiSample>>
  BY DEF SpiDmaNext, SdHandler, SdMoves, SdStart, SdTerminate, SdLook, SdReport,
     SdStop, SdStopChannel, SdChannelEnd, SdChannelError, SdMove, SdBusError, SdBus,
     SpiBus, SpiLoad, SpiClock, spiDmaVars, spiVars, spiDriver, spiRegs, spiIsr
<1>2. sdSaw' \in BOOLEAN
  BY DEF SdFrame, SpiDmaNext, SdHandler, SdMoves, SdStart, SdTerminate, SdLook,
     SdReport, SdStopChannel, SdChannelEnd, SdChannelError, SdMove, SdBusError, SdBus,
     spiDmaVars, sdVars
<1>3. spiEn' \in BOOLEAN /\ spiShift' \in BOOLEAN
  BY DEF SdFrame, FlagsTypeOK, SpiDmaNext, SdHandler, SdMoves, SdStart, SdTerminate,
     SdLook, SdReport, SdStop, SpiDisable, SdStopChannel, SdChannelEnd, SdChannelError,
     SdMove, SdBusError, SdBus, SpiBus, SpiLoad, SpiClock, spiDmaVars, spiVars, spiChip
<1>4. spiBusy' \in BOOLEAN /\ spiOverflow' \in BOOLEAN
  BY DEF SdFrame, FlagsTypeOK, SpiDmaNext, SdHandler, SdMoves, SdStart, SdTerminate,
     SdLook, SdReport, SdStop, SpiReport, SdStopChannel, SdChannelEnd, SdChannelError,
     SdMove, SdBusError, SdBus, SpiBus, SpiLoad, SpiClock, spiDmaVars, spiVars, spiChip,
     spiClient
<1>. QED
  BY <1>1, <1>2, <1>3, <1>4 DEF SdFrame, FlagsTypeOK

\* Only a start may end what a mishap has begun.
LEMMA SdStaysBroken ==
  ASSUME [SpiDmaNext]_spiDmaVars, spiMet = "broken",
         ~\E mode \in SpiModes : \E x \in SpiTransfers(mode) : SdStart(mode, x)
  PROVE  spiMet' = "broken"
  BY DEF SpiDmaNext, SdHandler, SdMoves, SdMeets, SdTerminate, SdLook, SdReport,
     SdStopChannel, SdChannelEnd, SdChannelError, SdMove, SdBusError, SdBus, spiDmaVars,
     spiVars

LEMMA SpiDmaStep ==
  ASSUME SpiDmaSafe, [SpiDmaNext]_spiDmaVars, spiMet' # "broken"
  PROVE  SpiDmaInv' /\ [SpiContract!Next]_SpiAbstract
<1>. SdFrame
  BY DEF SpiDmaSafe
<1>1. CASE \E mode \in SpiModes : \E x \in SpiTransfers(mode) : SdStart(mode, x)
  BY <1>1, SdStartKeeps DEF SpiContract!Next
<1>. SUFFICES ASSUME SpiDmaInv, spiMet # "broken"
              PROVE  SpiDmaInv' /\ [SpiContract!Next]_SpiAbstract
  BY <1>1, SdStaysBroken DEF SpiDmaSafe
<1>2. CASE SdTerminate \/ SdLook
  BY <1>2, SdTerminateKeeps
<1>3. CASE SdReport
  BY <1>3, SdReportKeeps DEF SpiContract!Next
<1>4. CASE SdStopChannel
  BY <1>4, SdStopChannelKeeps
<1>5. CASE \E c \in SdDirections : SdChannelEnd(c) \/ SdChannelError(c)
  BY <1>5, SdChannelEndKeeps, SdChannelErrorKeeps DEF SpiContract!Next
<1>6. CASE SdMoves
  BY <1>6, SdMoveKeeps DEF SdMoves
<1>7. CASE \E c \in SdDirections : SdBusError(c)
  BY <1>7, SdBusErrorKeeps
<1>8. CASE SdBus
  BY <1>8, SdLoadKeeps, SdClockKeeps DEF SdBus, SpiBus
<1>9. CASE UNCHANGED spiDmaVars
  <2>1. UNCHANGED <<spiVars, sdPending, sdCr, sdChan, sdLeft, sdWait, sdTerm, sdSaw>>
    BY <1>9 DEF spiDmaVars, sdVars
  <2>2. UNCHANGED <<spiImr, spiPc, spiBusy>>
    BY <2>1 DEF spiVars, spiRegs, spiIsr, spiClient
  <2>3. SpiDmaTypeOK' /\ SdTerminating'
    BY <2>1 DEF SpiDmaInv, SpiDmaTypeOK, SdTerminating
  <2>. QED
    BY <2>1, <2>2, <2>3, SdSame DEF SpiDmaInv
<1>. QED
  BY <1>1, <1>2, <1>3, <1>4, <1>5, <1>6, <1>7, <1>8, <1>9 DEF SpiDmaNext, SdHandler

\* The last of the two callbacks of a DMA transfer of qm_spi.c reports it once,
\* as done only after every frame was clocked and every received one stored, from
\* its start on hardware left clean until the bus of the DMA fails in a mode of
\* two channels or a handler runs inside of the client's termination.
THEOREM SpiDmaImplementsTransfer == SpiDmaSpec => SpiImplements
<1>1. SpiInit => SpiContract!Init
  BY DEF SpiInit, SpiContract!Init, SpiMoved
<1>2. SpiDmaSafe /\ [SpiDmaNext]_spiDmaVars =>
        SpiDmaSafe' /\ [SpiContract!Next]_SpiAbstract
  <2>. SUFFICES ASSUME SpiDmaSafe, [SpiDmaNext]_spiDmaVars
                PROVE  SpiDmaSafe' /\ [SpiContract!Next]_SpiAbstract
    OBVIOUS
  <2>1. SdFrame'
    BY SdFrameKeeps DEF SpiDmaSafe
  <2>2. CASE spiMet' = "broken"
    BY <2>1, <2>2 DEF SpiDmaSafe, SpiContract!Next
  <2>3. CASE spiMet' # "broken"
    BY <2>1, <2>3, SpiDmaStep DEF SpiDmaSafe
  <2>. QED
    BY <2>2, <2>3
<1>. QED
  BY <1>1, <1>2, SpiDmaInitInv, PTL DEF SpiDmaSpec, SpiImplements,
     SpiContract!Spec, SpiContract!xfer, SpiAbstract
=============================================================================
