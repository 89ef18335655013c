------------------------------ MODULE SpiMaster ------------------------------
(***************************************************************************)
(* Interrupt-driven transfers of the SPI master, qm_spi.c, in its four     *)
(* modes: transmit, receive, both at once, and EEPROM read, which receives *)
(* after it has transmitted.  A received frame takes room in the RX FIFO   *)
(* whether or not the processor has time for it: the handler works in      *)
(* steps, and the controller clocks frames between them.                   *)
(*                                                                         *)
(* Frames are counted.  A client starts its next transfer outside of the   *)
(* handler, and no direction a mode uses is empty; in EEPROM mode the      *)
(* controller starts to receive after tx_len frames, which holds when they *)
(* fit its FIFO.                                                           *)
(***************************************************************************)
EXTENDS Naturals

CONSTANTS
  SPI_FIFOS_DEPTH,
  SPI_MST_DEFAULT_TX_THRESHOLD, SPI_MST_DEFAULT_RX_THRESHOLD,
  SpiMaxLen     \* bound: frames sent and frames received by a transfer

ASSUME SpiAssumption ==
  /\ SPI_FIFOS_DEPTH \in Nat \ {0} /\ SpiMaxLen \in Nat
  /\ SPI_MST_DEFAULT_TX_THRESHOLD \in 0 .. SPI_FIFOS_DEPTH - 1
  /\ SPI_MST_DEFAULT_RX_THRESHOLD \in 0 .. SPI_FIFOS_DEPTH - 1

VARIABLES
  spiMode,      \* tmode
  spiXfer,      \* spi_async_transfer: the lengths of the descriptor
  spiTx, spiRx, \* tx_counter, rx_counter
  spiImr,       \* the unmasked interrupts
  spiEn,        \* SSIENR
  spiTxFtl, spiRxFtl, \* the threshold registers
  spiTxFlr, spiRxFlr, \* the levels of the FIFOs
  spiShift,     \* a frame is in the shift register
  spiClocked,   \* frames clocked since the controller was enabled
  spiOverflow,  \* the RX FIFO overflowed
  spiPc,        \* where the handler is, or "none"
  spiStatus,    \* its int_status
  spiSample,    \* the TX level it has read
  spiStored,    \* ghost: received frames stored for the client
  spiBusy,      \* ghost: started and not reported
  spiOutcome,   \* ghost: what the callback said, "again" if it was repeated
  spiMet        \* ghost: what the transfer has met that its driver is not made
                \* for: "apart" (SsSpi), "broken" (SpiDma) or "none"

spiDriver == <<spiMode, spiXfer, spiTx, spiRx>>
spiRegs == <<spiImr, spiTxFtl, spiRxFtl>>
spiChip == <<spiEn, spiTxFlr, spiRxFlr, spiShift, spiClocked, spiOverflow>>
spiIsr == <<spiPc, spiStatus, spiSample>>
spiClient == <<spiStored, spiBusy, spiOutcome>>
spiVars == <<spiDriver, spiRegs, spiChip, spiIsr, spiClient, spiMet>>

SpiModes == {"TX", "RX", "TX_RX", "EEPROM_READ"}
SpiInterrupts == {"TXE", "RXF", "RXO"}
SpiLens == [tx : 0 .. SpiMaxLen, rx : 0 .. SpiMaxLen]

\* The lengths qm_spi_irq_transfer and qm_spi_irq_update accept.
SpiTransfers(mode) ==
  {x \in SpiLens :
     /\ x.tx > 0 <=> mode # "RX"
     /\ x.rx > 0 <=> mode # "TX"
     /\ mode = "TX_RX" => x.tx = x.rx
     /\ mode = "EEPROM_READ" => x.tx < SPI_FIFOS_DEPTH}

SpiInit ==
  /\ spiMode = "TX" /\ spiXfer = [tx |-> 0, rx |-> 0]
  /\ spiTx = 0 /\ spiRx = 0
  /\ spiImr = {} /\ spiTxFtl = 0 /\ spiRxFtl = 0
  /\ spiEn = FALSE /\ spiTxFlr = 0 /\ spiRxFlr = 0 /\ spiShift = FALSE
  /\ spiClocked = 0 /\ spiOverflow = FALSE
  /\ spiPc = "none" /\ spiStatus = {} /\ spiSample = 0
  /\ spiStored = 0 /\ spiBusy = FALSE /\ spiOutcome = "none"
  /\ spiMet = "none"

-----------------------------------------------------------------------------

SpiPending ==
  spiImr \cap ( (IF spiOverflow THEN {"RXO"} ELSE {})
           \cup (IF spiRxFlr > spiRxFtl THEN {"RXF"} ELSE {})
           \cup (IF spiTxFlr <= spiTxFtl THEN {"TXE"} ELSE {}) )

\* The frame in the shift register, or the one the controller will clock next
\* without being given one: in the receiving part of RX and EEPROM_READ.
Receiving(clocked) ==
  \/ spiMode = "RX" /\ clocked \in 1 .. spiXfer.rx - 1
  \/ spiMode = "EEPROM_READ"
       /\ clocked \in spiXfer.tx .. spiXfer.tx + spiXfer.rx - 1

BusyOnBus == spiShift \/ spiTxFlr > 0 \/ Receiving(spiClocked)

SpiDisable ==
  /\ spiEn' = FALSE
  /\ spiTxFlr' = 0 /\ spiRxFlr' = 0 /\ spiShift' = FALSE
  /\ UNCHANGED spiClocked

SpiReport(o) ==
  /\ spiBusy' = FALSE
  /\ spiOutcome' = (IF spiBusy THEN o ELSE "again")

\* The RX threshold of a new transfer of n frames.
FirstThreshold(n, old) ==
  IF n = 0 THEN old
  ELSE IF n < SPI_FIFOS_DEPTH THEN n - 1 ELSE SPI_MST_DEFAULT_RX_THRESHOLD

\* The RX threshold with some frames left.  (The code also writes -1 when none
\* is left, which the register does not take.)
NextThreshold(left) ==
  IF left > 0 /\ left <= spiRxFtl THEN left - 1 ELSE spiRxFtl

\* Mutant: the frame being shifted is forgotten.
FramesFreeOne ==
  IF SPI_FIFOS_DEPTH > spiSample + spiRxFlr
  THEN SPI_FIFOS_DEPTH - spiSample - spiRxFlr
  ELSE 0

\* How many frames may be given to the controller, from the TX level read
\* before and the RX level now: all of them, and the one being shifted, have to
\* fit the RX FIFO.
FramesFree ==
  IF SPI_FIFOS_DEPTH > spiSample + spiRxFlr + 1
  THEN SPI_FIFOS_DEPTH - spiSample - spiRxFlr - 1
  ELSE 0

-----------------------------------------------------------------------------
(* The client.                                                             *)

\* qm_spi_irq_transfer; in RX mode a dummy frame starts the controller.
SpiStart(mode, x) ==
  /\ spiPc = "none" /\ ~spiBusy
  /\ spiMode' = mode /\ spiXfer' = x
  /\ spiTx' = 0 /\ spiRx' = 0
  /\ spiImr' = (IF mode # "RX" THEN {"TXE"} ELSE {})
               \cup (IF mode # "TX" THEN {"RXF", "RXO"} ELSE {})
  /\ spiRxFtl' = FirstThreshold(x.rx, spiRxFtl)
  /\ spiTxFtl' = SPI_MST_DEFAULT_TX_THRESHOLD
  /\ spiEn' = TRUE
  /\ spiTxFlr' = (IF mode = "RX" THEN 1 ELSE 0)
  /\ spiClocked' = 0 /\ spiOverflow' = FALSE
  /\ spiStored' = 0 /\ spiBusy' = TRUE /\ spiOutcome' = "none"
  /\ UNCHANGED <<spiRxFlr, spiShift, spiIsr>>

\* qm_spi_irq_transfer_terminate calls back whether or not a transfer is under
\* way; the contract leaves out the call that comes after the completion.
SpiTerminate ==
  /\ spiPc = "none"
  /\ spiImr' = {} /\ SpiDisable
  /\ spiTx' = 0 /\ spiRx' = 0
  /\ IF spiBusy THEN SpiReport("failed") ELSE UNCHANGED <<spiBusy, spiOutcome>>
  /\ UNCHANGED <<spiMode, spiXfer, spiTxFtl, spiRxFtl, spiOverflow, spiIsr, spiStored>>

-----------------------------------------------------------------------------
(* The interrupt handler.                                                  *)

SpiEnter ==
  /\ spiPc = "none" /\ SpiPending # {} /\ "RXO" \notin SpiPending
  /\ spiStatus' = SpiPending
  /\ spiPc' = (IF "RXF" \in SpiPending THEN "rx" ELSE "check")
  /\ UNCHANGED <<spiDriver, spiRegs, spiChip, spiSample, spiClient>>

\* handle_spi_overflow_interrupt
SpiOverrun ==
  /\ spiPc = "none" /\ "RXO" \in SpiPending
  /\ SpiReport("failed")
  /\ spiOverflow' = FALSE
  /\ spiImr' = {} /\ SpiDisable
  /\ UNCHANGED <<spiDriver, spiTxFtl, spiRxFtl, spiIsr, spiStored>>

\* handle_mst_rx_interrupt, one frame; the last one of a transfer that only
\* receives is reported here.
SpiRead ==
  /\ spiPc = "rx" /\ spiRxFlr > 0
  /\ spiRx' = spiRx + 1 /\ spiStored' = spiStored + 1
  /\ IF spiRx + 1 < spiXfer.rx
     THEN /\ spiRxFlr' = spiRxFlr - 1
          /\ UNCHANGED <<spiPc, spiImr, spiEn, spiTxFlr, spiShift, spiClocked, spiBusy, spiOutcome>>
     ELSE /\ spiPc' = "rxend"
          /\ IF spiMode = "RX"
             THEN spiImr' = {} /\ SpiDisable /\ SpiReport("done")
             ELSE /\ spiImr' = spiImr \ {"RXF", "RXO"}
                  /\ spiRxFlr' = spiRxFlr - 1
                  /\ UNCHANGED <<spiEn, spiTxFlr, spiShift, spiClocked, spiBusy, spiOutcome>>
  /\ UNCHANGED <<spiMode, spiXfer, spiTx, spiTxFtl, spiRxFtl, spiOverflow,
                 spiStatus, spiSample>>

SpiReadEnd ==
  /\ spiPc = "rxend" \/ (spiPc = "rx" /\ spiRxFlr = 0)
  /\ spiRxFtl' = NextThreshold(spiXfer.rx - spiRx)
  /\ spiPc' = "check"
  /\ UNCHANGED <<spiDriver, spiImr, spiTxFtl, spiChip, spiStatus, spiSample,
                 spiClient>>

SpiComplete ==
  /\ spiXfer.rx = spiRx /\ spiXfer.tx = spiTx
  /\ spiTxFlr = 0 /\ ~BusyOnBus

SpiDone ==
  /\ spiPc = "check" /\ SpiComplete
  /\ spiImr' = {} /\ SpiDisable
  /\ IF spiMode # "RX" THEN SpiReport("done") ELSE UNCHANGED <<spiBusy, spiOutcome>>
  /\ spiPc' = "none"
  /\ UNCHANGED <<spiDriver, spiTxFtl, spiRxFtl, spiOverflow, spiStatus, spiSample,
                 spiStored>>

\* handle_mst_tx_interrupt reads the TX level ...
SpiSampleTx ==
  /\ spiPc = "check" /\ ~SpiComplete
  /\ IF "TXE" \in spiStatus /\ spiXfer.tx > spiTx
     THEN spiSample' = spiTxFlr /\ spiPc' = "fill"
     ELSE spiPc' = "none" /\ UNCHANGED spiSample
  /\ UNCHANGED <<spiDriver, spiRegs, spiChip, spiStatus, spiClient>>

\* ... then the RX level, and writes the frames that fit.
SpiFill ==
  /\ spiPc = "fill"
  /\ \E n \in 0 .. FramesFree :
       /\ n = FramesFree \/ spiTx + n = spiXfer.tx
       /\ spiTx + n <= spiXfer.tx
       /\ spiTx' = spiTx + n /\ spiTxFlr' = spiTxFlr + n
       /\ spiTxFtl' = (IF n > 0 /\ spiTx + n = spiXfer.tx THEN 0 ELSE spiTxFtl)
  /\ spiPc' = "none"
  /\ UNCHANGED <<spiMode, spiXfer, spiRx, spiImr, spiRxFtl, spiEn, spiRxFlr,
                 spiShift, spiClocked, spiOverflow, spiStatus, spiSample, spiClient>>

SpiHandler ==
  SpiEnter \/ SpiOverrun \/ SpiRead \/ SpiReadEnd \/ SpiDone \/ SpiSampleTx \/ SpiFill

-----------------------------------------------------------------------------
(* The controller.                                                         *)

SpiLoad ==
  /\ spiEn /\ ~spiShift
  /\ spiTxFlr > 0 \/ Receiving(spiClocked)
  /\ spiShift' = TRUE
  /\ spiTxFlr' = (IF spiTxFlr > 0 THEN spiTxFlr - 1 ELSE 0)
  /\ UNCHANGED <<spiDriver, spiRegs, spiEn, spiRxFlr, spiClocked, spiOverflow,
                 spiIsr, spiClient>>

\* A frame is clocked out, and one in: which is kept depends on the mode.
SpiClock ==
  /\ spiShift
  /\ spiShift' = FALSE /\ spiClocked' = spiClocked + 1
  /\ LET kept == \/ spiMode \in {"RX", "TX_RX"}
                 \/ spiMode = "EEPROM_READ" /\ spiClocked >= spiXfer.tx
         full == spiRxFlr = SPI_FIFOS_DEPTH
     IN /\ spiRxFlr' = (IF kept /\ ~full THEN spiRxFlr + 1 ELSE spiRxFlr)
        /\ spiOverflow' = (spiOverflow \/ (kept /\ full))
  /\ UNCHANGED <<spiDriver, spiRegs, spiEn, spiTxFlr, spiIsr, spiClient>>

SpiBus == SpiLoad \/ SpiClock

SpiNext ==
  /\ \/ \E mode \in SpiModes : \E x \in SpiTransfers(mode) : SpiStart(mode, x)
     \/ SpiTerminate
     \/ SpiHandler
     \/ SpiBus
  /\ UNCHANGED spiMet

SpiSpec == SpiInit /\ [][SpiNext]_spiVars

\* The interrupt is served, and the controller clocks what it has.
SpiFairness ==
  /\ WF_spiVars(SpiHandler /\ UNCHANGED spiMet)
  /\ WF_spiVars(SpiBus /\ UNCHANGED spiMet)

-----------------------------------------------------------------------------
(* Properties.                                                             *)

SpiTypeOK ==
  /\ spiMode \in SpiModes /\ spiXfer \in SpiLens
  /\ spiTx \in 0 .. SpiMaxLen /\ spiRx \in 0 .. SpiMaxLen
  /\ spiImr \subseteq SpiInterrupts
  /\ spiTxFtl \in 0 .. SPI_FIFOS_DEPTH - 1 /\ spiRxFtl \in 0 .. SPI_FIFOS_DEPTH - 1
  /\ spiEn \in BOOLEAN /\ spiShift \in BOOLEAN /\ spiOverflow \in BOOLEAN
  /\ spiTxFlr \in 0 .. SPI_FIFOS_DEPTH /\ spiRxFlr \in 0 .. SPI_FIFOS_DEPTH
  /\ spiClocked \in 0 .. 2 * SpiMaxLen
  /\ spiPc \in {"none", "rx", "rxend", "check", "fill"}
  /\ spiStatus \subseteq SpiInterrupts
  /\ spiSample \in 0 .. SPI_FIFOS_DEPTH
  /\ spiStored \in 0 .. SpiMaxLen /\ spiBusy \in BOOLEAN
  /\ spiOutcome \in {"none", "done", "failed", "again"}
  /\ spiMet \in {"none", "apart", "broken"}

\* An interrupt-driven transfer that sends and receives at once never overruns
\* the RX FIFO, however late its interrupts are served: what is queued, being shifted and
\* received fits.  qm_spi.c reads the TX level first, and may read the two levels
\* at different moments; qm_ss_spi.c reads the RX level first and holds it only
\* if no frame ends in between.
NeverOverrun ==
  spiMode = "TX_RX" /\ "RXO" \in spiImr /\ spiMet # "apart" =>
    /\ ~spiOverflow
    /\ spiTxFlr + (IF spiShift THEN 1 ELSE 0) + spiRxFlr <= SPI_FIFOS_DEPTH

\* Frames moved: those clocked, of which a receiving transfer has moved only
\* what its buffer holds.
SpiMoved ==
  CASE spiMode = "TX" -> spiClocked
    [] spiMode = "EEPROM_READ" /\ spiClocked <= spiXfer.tx -> spiClocked
    [] spiMode = "EEPROM_READ" /\ spiClocked > spiXfer.tx -> spiXfer.tx + spiStored
    [] OTHER -> spiStored

SpiContract == INSTANCE Transfer WITH
  busy <- spiBusy,
  size <- IF spiMode = "EEPROM_READ" THEN spiXfer.tx + spiXfer.rx
          ELSE IF spiMode = "TX" THEN spiXfer.tx ELSE spiXfer.rx,
  moved <- SpiMoved, outcome <- spiOutcome,
  missed <- FALSE, disturbed <- spiMet = "broken"

\* In every mode the client is called back once, and "done" only after every
\* frame was clocked and every received one stored.  Of a transfer by DMA this is
\* not said when one of its two channels fails, when an interrupt is served
\* within its termination, or when it begins on what such a one has left.
SpiImplements == SpiContract!Spec

\* Every transfer is reported: completed, overrun or terminated.
SpiCompletes == spiBusy ~> ~spiBusy
=============================================================================
