-------------------------------- MODULE SsSpi --------------------------------
(***************************************************************************)
(* The SPI master of the sensor subsystem, qm_ss_spi.c, over the           *)
(* controller of SpiMaster.  Errors, received frames and room to transmit  *)
(* have a handler each, served one at a time.  The driver counts down, so  *)
(* that spiTx and spiRx stand for tx_len - tx_c and rx_len - rx_c.         *)
(***************************************************************************)
EXTENDS SpiMaster

CONSTANTS FIFO_RX_W_MARK, FIFO_TX_W_MARK

ASSUME SsSpiAssumption ==
  /\ FIFO_RX_W_MARK \in 1 .. SPI_FIFOS_DEPTH
  /\ FIFO_TX_W_MARK \in 0 .. SPI_FIFOS_DEPTH - 1

\* The RX threshold with some frames left.
RxMark(left) ==
  IF left = 0 THEN SPI_FIFOS_DEPTH - 1 ELSE (IF FIFO_RX_W_MARK < left THEN FIFO_RX_W_MARK ELSE left) - 1

\* qm_ss_spi_irq_transfer unmasks everything in every mode.
SsSpiStart(mode, x) ==
  /\ spiPc = "none" /\ ~spiBusy
  /\ spiMode' = mode /\ spiXfer' = x
  /\ spiTx' = 0 /\ spiRx' = 0
  /\ spiImr' = SpiInterrupts
  /\ spiRxFtl' = RxMark(x.rx) /\ spiTxFtl' = FIFO_TX_W_MARK
  /\ spiEn' = TRUE
  /\ spiTxFlr' = (IF mode = "RX" THEN 1 ELSE 0)
  /\ spiClocked' = 0 /\ spiOverflow' = FALSE
  /\ spiStored' = 0 /\ spiBusy' = TRUE /\ spiOutcome' = "none"
  /\ UNCHANGED <<spiRxFlr, spiShift, spiIsr>>

\* qm_ss_spi_irq_transfer_terminate leaves the counters alone.
SsSpiTerminate ==
  /\ spiPc = "none"
  /\ spiImr' = {} /\ SpiDisable /\ spiOverflow' = FALSE
  /\ IF spiBusy THEN SpiReport("failed") ELSE UNCHANGED <<spiBusy, spiOutcome>>
  /\ UNCHANGED <<spiDriver, spiTxFtl, spiRxFtl, spiIsr, spiStored>>

\* handle_spi_err_interrupt
SsSpiError ==
  /\ spiPc = "none" /\ "RXO" \in SpiPending
  /\ spiImr' = {} /\ SpiDisable /\ spiOverflow' = FALSE
  /\ SpiReport("failed")
  /\ UNCHANGED <<spiDriver, spiTxFtl, spiRxFtl, spiIsr, spiStored>>

-----------------------------------------------------------------------------
(* handle_spi_tx_interrupt                                                 *)

SsTxReached == spiTx = spiXfer.tx /\ ~BusyOnBus

\* Everything was sent: a transfer that only transmits is complete, another one
\* goes on with its RX interrupt.
SsSpiTxLast ==
  /\ spiPc = "none" /\ "TXE" \in SpiPending /\ SsTxReached
  /\ IF spiMode = "TX"
     THEN spiImr' = {} /\ SpiDisable /\ SpiReport("done")
     ELSE /\ spiImr' = spiImr \ {"TXE"}
          /\ UNCHANGED <<spiEn, spiTxFlr, spiRxFlr, spiShift, spiClocked, spiBusy, spiOutcome>>
  /\ UNCHANGED <<spiDriver, spiTxFtl, spiRxFtl, spiOverflow, spiIsr, spiStored>>

\* The RX level is read first ...
SsSpiSampleRx ==
  /\ spiPc = "none" /\ "TXE" \in SpiPending /\ ~SsTxReached
  /\ spiSample' = spiRxFlr /\ spiPc' = "fill"
  /\ UNCHANGED <<spiDriver, spiRegs, spiChip, spiStatus, spiClient>>

\* ... and then the TX level: the frames that fit, or seem to.
SsFramesFree ==
  IF SPI_FIFOS_DEPTH > spiSample + spiTxFlr + 1
  THEN SPI_FIFOS_DEPTH - spiSample - spiTxFlr - 1
  ELSE 0

SsSpiFill ==
  /\ spiPc = "fill"
  /\ \E n \in 0 .. SsFramesFree :
       /\ n = SsFramesFree \/ spiTx + n = spiXfer.tx
       /\ spiTx + n <= spiXfer.tx
       /\ spiTx' = spiTx + n /\ spiTxFlr' = spiTxFlr + n
  /\ spiPc' = "none"
  /\ UNCHANGED <<spiMode, spiXfer, spiRx, spiRegs, spiEn, spiRxFlr, spiShift,
                 spiClocked, spiOverflow, spiStatus, spiSample, spiClient>>

-----------------------------------------------------------------------------
(* handle_spi_rx_interrupt                                                 *)

SsSpiRxEnter ==
  /\ spiPc = "none" /\ "RXF" \in SpiPending
  /\ spiPc' = "rx"
  /\ UNCHANGED <<spiDriver, spiRegs, spiChip, spiStatus, spiSample, spiClient>>

SsSpiRead ==
  /\ spiPc = "rx" /\ spiRxFlr > 0 /\ spiRx < spiXfer.rx
  /\ spiRxFlr' = spiRxFlr - 1
  /\ spiRx' = spiRx + 1 /\ spiStored' = spiStored + 1
  /\ UNCHANGED <<spiMode, spiXfer, spiTx, spiRegs, spiEn, spiTxFlr, spiShift,
                 spiClocked, spiOverflow, spiIsr, spiBusy, spiOutcome>>

\* The next threshold, or the end of every transfer that receives.
SsSpiReadEnd ==
  /\ spiPc = "rx" /\ (spiRxFlr = 0 \/ spiRx = spiXfer.rx)
  /\ spiPc' = "none"
  /\ IF spiRx < spiXfer.rx
     THEN /\ spiRxFtl' = RxMark(spiXfer.rx - spiRx)
          /\ UNCHANGED <<spiImr, spiEn, spiTxFlr, spiRxFlr, spiShift, spiClocked,
                         spiOverflow, spiBusy, spiOutcome>>
     ELSE /\ spiImr' = {} /\ SpiDisable /\ spiOverflow' = FALSE
          /\ SpiReport("done")
          /\ UNCHANGED spiRxFtl
  /\ UNCHANGED <<spiDriver, spiTxFtl, spiStatus, spiSample, spiStored>>

SsSpiHandler ==
  \/ SsSpiError
  \/ SsSpiTxLast \/ SsSpiSampleRx \/ SsSpiFill
  \/ SsSpiRxEnter \/ SsSpiRead \/ SsSpiReadEnd

\* The controller, which may end a frame between the two reads.
SsSpiBus ==
  \/ SpiLoad /\ UNCHANGED spiMet
  \/ SpiClock /\ spiMet' = (IF spiPc = "fill" THEN "apart" ELSE spiMet)

SsSpiNext ==
  \/ \E mode \in SpiModes : \E x \in SpiTransfers(mode) :
       SsSpiStart(mode, x) /\ spiMet' = "none"
  \/ (SsSpiTerminate \/ SsSpiHandler) /\ UNCHANGED spiMet
  \/ SsSpiBus

SsSpiSpec == SpiInit /\ [][SsSpiNext]_spiVars

\* The TX interrupt, raised again and again while its FIFO is low, does not
\* starve the other handlers, and the controller clocks what it has.
SsSpiFairness ==
  /\ WF_spiVars(SsSpiHandler /\ UNCHANGED spiMet)
  /\ SF_spiVars(SsSpiRxEnter /\ UNCHANGED spiMet)
  /\ SF_spiVars(SsSpiError /\ UNCHANGED spiMet)
  /\ WF_spiVars(SsSpiBus)

\* qm_ss_spi.c:385 says that the RX FIFO does not overflow: what is queued, in
\* the shift register and received never exceeds its depth.
RxNeverOverflows ==
  spiMode = "TX_RX" => ~spiOverflow
=============================================================================
