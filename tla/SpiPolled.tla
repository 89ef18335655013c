------------------------------ MODULE SpiPolled ------------------------------
(***************************************************************************)
(* The transfers that hold the processor until they are over, of both SPI  *)
(* drivers: qm_spi_transfer and qm_ss_spi_transfer.  They mask every       *)
(* interrupt of the controller of SpiMaster and poll its FIFOs.  Other     *)
(* interrupts may delay them between any two of their reads, in which the  *)
(* controller goes on.  Unlike the handler they give it frames that the RX *)
(* FIFO may have no room for: an overrun is found by looking for it.       *)
(*                                                                         *)
(* spiTx and spiRx stand for the frames written and read, which i_tx and   *)
(* i_rx, or tx_cnt and rx_cnt, count down.                                 *)
(***************************************************************************)
EXTENDS SsSpi

VARIABLE spiPoll   \* where the function is, or "none"

spiPolledVars == <<spiVars, spiPoll>>

SpiPolledInit == SpiInit /\ spiPoll = "none"

\* A transfer that only receives is started by a dummy frame.
PollFrames == IF spiMode = "RX" THEN 1 ELSE spiXfer.tx

PollLeft == spiTx < PollFrames \/ spiRx < spiXfer.rx

\* qm_spi_set_config, which a controller that is enabled refuses, and the start
\* of qm_spi_transfer: the controller that is idle has nothing to wait for.
SpiPollStart(mode, x) ==
  /\ spiPoll = "none" /\ ~spiBusy /\ ~spiEn
  /\ spiMode' = mode /\ spiXfer' = x
  /\ spiTx' = 0 /\ spiRx' = 0
  /\ spiImr' = {} /\ spiEn' = TRUE
  /\ spiClocked' = 0
  /\ spiPoll' = "check"
  /\ spiStored' = 0 /\ spiBusy' = TRUE /\ spiOutcome' = "none"
  /\ UNCHANGED <<spiTxFtl, spiRxFtl, spiTxFlr, spiRxFlr, spiShift, spiOverflow,
                 spiIsr>>

\* The round of the loop: an overrun ends it ...
SpiPollCheck ==
  /\ spiPoll = "check"
  /\ spiPoll' = (IF ~PollLeft THEN "wait" ELSE IF spiOverflow THEN "overrun" ELSE "read")
  /\ spiOverflow' = (spiOverflow /\ ~PollLeft)
  /\ UNCHANGED <<spiDriver, spiRegs, spiEn, spiTxFlr, spiRxFlr, spiShift,
                 spiClocked, spiIsr, spiClient>>

PollRead(ready) ==
  /\ spiPoll = "read" /\ spiPoll' = "write"
  /\ IF ready /\ spiRx < spiXfer.rx
     THEN /\ spiRxFlr' = spiRxFlr - 1
          /\ spiRx' = spiRx + 1 /\ spiStored' = spiStored + 1
     ELSE UNCHANGED <<spiRxFlr, spiRx, spiStored>>
  /\ UNCHANGED <<spiMode, spiXfer, spiTx, spiRegs, spiEn, spiTxFlr, spiShift,
                 spiClocked, spiOverflow, spiIsr, spiBusy, spiOutcome>>

PollWrite(ready) ==
  /\ spiPoll = "write" /\ spiPoll' = "check"
  /\ IF ready /\ spiTx < PollFrames
     THEN spiTxFlr' = spiTxFlr + 1 /\ spiTx' = spiTx + 1
     ELSE UNCHANGED <<spiTxFlr, spiTx>>
  /\ UNCHANGED <<spiMode, spiXfer, spiRx, spiRegs, spiEn, spiRxFlr, spiShift,
                 spiClocked, spiOverflow, spiIsr, spiClient>>

\* ... else it reads one frame and writes one, if it can.
SpiPollRead == PollRead(spiRxFlr > 0)
SpiPollWrite == PollWrite(spiTxFlr < SPI_FIFOS_DEPTH)

\* wait_for_controller
PollIdle == spiTxFlr = 0 /\ ~BusyOnBus

PollEnd(overflow) ==
  /\ spiPoll \in {"wait", "overrun"} /\ PollIdle
  /\ SpiReport(IF spiPoll = "wait" THEN "done" ELSE "failed")
  /\ SpiDisable
  /\ spiOverflow' = overflow
  /\ spiPoll' = "none"
  /\ UNCHANGED <<spiDriver, spiRegs, spiIsr, spiStored>>

\* Frames clocked while it waits may overrun again, which the next transfer
\* finds.
SpiPollEnd == PollEnd(spiOverflow)

SpiPolls == SpiPollCheck \/ SpiPollRead \/ SpiPollWrite \/ SpiPollEnd

SpiPollBus == SpiBus /\ UNCHANGED spiPoll

SpiPolledNext ==
  /\ \/ \E mode \in SpiModes : \E x \in SpiTransfers(mode) : SpiPollStart(mode, x)
     \/ SpiPolls
     \/ SpiPollBus
  /\ UNCHANGED spiMet

SpiPolledSpec == SpiPolledInit /\ [][SpiPolledNext]_spiPolledVars

-----------------------------------------------------------------------------
(* The sensor subsystem reads its status first and looks for the overrun   *)
(* later, and clears every interrupt in spi_disable.                       *)

SsPollStart(mode, x) == SpiPollStart(mode, x)

\* The status: frames to read, and room to write.
SsPollStatus ==
  /\ spiPoll = "check"
  /\ spiStatus' = (IF spiRxFlr > 0 THEN {"RXF"} ELSE {})
                  \cup (IF spiTxFlr < SPI_FIFOS_DEPTH THEN {"TXE"} ELSE {})
  /\ spiPoll' = (IF PollLeft THEN "look" ELSE "wait")
  /\ UNCHANGED <<spiDriver, spiRegs, spiChip, spiPc, spiSample, spiClient>>

SsPollCheck ==
  /\ spiPoll = "look"
  /\ spiPoll' = (IF spiOverflow THEN "overrun" ELSE "read")
  /\ UNCHANGED spiVars

SsPollRead == PollRead("RXF" \in spiStatus)
SsPollWrite == PollWrite("TXE" \in spiStatus)
SsPollEnd == PollEnd(FALSE)

SsSpiPolls == SsPollStatus \/ SsPollCheck \/ SsPollRead \/ SsPollWrite \/ SsPollEnd

SsSpiPolledNext ==
  /\ \/ \E mode \in SpiModes : \E x \in SpiTransfers(mode) : SsPollStart(mode, x)
     \/ SsSpiPolls
     \/ SpiPollBus
  /\ UNCHANGED spiMet

SsSpiPolledSpec == SpiPolledInit /\ [][SsSpiPolledNext]_spiPolledVars
=============================================================================
