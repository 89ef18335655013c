------------------------------- MODULE SpiDma -------------------------------
(***************************************************************************)
(* The DMA transfers of the SPI master, qm_spi.c, over the controller of   *)
(* SpiMaster: one channel fills the TX FIFO, one empties the RX FIFO, and  *)
(* both end in one callback, which tells by a flag of each direction       *)
(* whether it is the last.                                                 *)
(*                                                                         *)
(* The channels keep up with the bus.  Two things break the callback, and  *)
(* spiMet tells of them: the bus of the DMA fails in a mode that uses both *)
(* channels, or a handler runs within the client's termination.  A client  *)
(* that starts anew has stopped both channels itself, and is out of it     *)
(* when no callback is pending and the RX FIFO is empty.                   *)
(***************************************************************************)
EXTENDS SpiMaster, Sequences

VARIABLES
  sdPending, \* the directions whose dma_context has cb_pending set
  sdCr,      \* DMACR: the directions enabled
  sdChan,    \* the channels: "off", "busy", "end" or "err"
  sdLeft,    \* what each has still to move
  sdWait,    \* what the callback will report once the controller is idle
  sdTerm,    \* the channels a terminating client still has to look at
  sdSaw      \* it has seen the callback of the first of them pending

sdVars == <<sdPending, sdCr, sdChan, sdLeft, sdWait, sdTerm, sdSaw>>
spiDmaVars == <<spiVars, sdVars>>

SdDirections == {"tx", "rx"}

SdInit ==
  /\ sdPending = {} /\ sdCr = {}
  /\ sdChan = [c \in SdDirections |-> "off"]
  /\ sdLeft = [c \in SdDirections |-> 0]
  /\ sdWait = "none" /\ sdTerm = <<>> /\ sdSaw = FALSE

-----------------------------------------------------------------------------
(* spi_dma_callback                                                        *)

\* The transfer meets a mishap if the condition holds.
SdMeets(mishap) == spiMet' = (IF mishap THEN "broken" ELSE spiMet)

SdStop(o) == SpiDisable /\ sdCr' = {} /\ SpiReport(o)

\* Mutant: the first of the two directions to end is reported.
SdLastOne(c) == TRUE

\* Whether the other direction has ended, too.
SdLast(c) == sdPending \ {c} = {}

\* Without an error: nothing while the other direction is pending, and
\* otherwise a report after a wait for the controller.
SdCallback(c) ==
  /\ sdPending' = sdPending \ {c}
  /\ sdWait' = (IF ~SdLast(c) THEN "none"
                ELSE IF sdLeft[c] = 0 THEN "done" ELSE "failed")

\* wait_for_controller, then the report.
SdReport ==
  /\ sdWait # "none" /\ (spiEn => ~BusyOnBus)
  /\ SdStop(sdWait)
  /\ sdWait' = "none"
  /\ UNCHANGED <<spiDriver, spiRegs, spiOverflow, spiIsr, spiStored, spiMet,
                 sdPending, sdChan, sdLeft, sdTerm, sdSaw>>

-----------------------------------------------------------------------------
(* The client.                                                             *)

\* qm_spi_dma_transfer
SdStart(mode, x) ==
  LET used == {c \in SdDirections : IF c = "tx" THEN x.tx > 0 ELSE x.rx > 0}
  IN /\ sdWait = "none" /\ sdTerm = <<>> /\ ~sdSaw /\ ~spiBusy
     /\ ~spiEn
     /\ spiMode' = mode /\ spiXfer' = x
     /\ spiImr' = {} /\ spiEn' = TRUE
     /\ spiTxFlr' = (IF mode = "RX" THEN 1 ELSE 0)
     /\ spiClocked' = 0 /\ spiOverflow' = FALSE
     /\ spiStored' = 0 /\ spiBusy' = TRUE /\ spiOutcome' = "none"
     /\ sdPending' = sdPending \cup used /\ sdCr' = used
     /\ sdChan' = [c \in SdDirections |-> IF c \in used THEN "busy" ELSE "off"]
     /\ sdLeft' = x
     /\ spiMet' = (IF sdPending = {} /\ spiRxFlr = 0 /\ ~spiShift
                   THEN "none" ELSE "broken")
     /\ UNCHANGED <<spiTx, spiRx, spiTxFtl, spiRxFtl, spiRxFlr, spiShift, spiIsr,
                    sdWait, sdTerm, sdSaw>>

\* qm_spi_dma_transfer_terminate looks at each direction in turn ...
SdTerminate ==
  /\ sdWait = "none" /\ sdTerm = <<>> /\ sdPending # {}
  /\ sdTerm' = <<"tx", "rx">>
  /\ UNCHANGED <<spiVars, sdPending, sdCr, sdChan, sdLeft, sdWait, sdSaw>>

SdLook ==
  /\ sdWait = "none" /\ sdTerm # <<>> /\ ~sdSaw
  /\ IF Head(sdTerm) \in sdPending
     THEN sdSaw' = TRUE /\ UNCHANGED sdTerm
     ELSE sdTerm' = Tail(sdTerm) /\ UNCHANGED sdSaw
  /\ UNCHANGED <<spiVars, sdPending, sdCr, sdChan, sdLeft, sdWait>>

\* ... and has the DMA driver stop its channel and call back.
SdStopChannel ==
  /\ sdWait = "none" /\ sdTerm # <<>> /\ sdSaw
  /\ sdChan' = [sdChan EXCEPT ![Head(sdTerm)] = "off"]
  /\ SdCallback(Head(sdTerm))
  /\ sdTerm' = Tail(sdTerm) /\ sdSaw' = FALSE
  /\ UNCHANGED <<spiVars, sdCr, sdLeft>>

-----------------------------------------------------------------------------
(* The handlers of the DMA driver.                                         *)

\* Not while a callback waits for the controller.
SdInterruptible == sdWait = "none"

SdChannelEnd(c) ==
  /\ SdInterruptible /\ sdChan[c] = "end"
  /\ sdChan' = [sdChan EXCEPT ![c] = "off"]
  /\ SdCallback(c)
  /\ SdMeets(sdTerm # <<>>)
  /\ UNCHANGED <<spiDriver, spiRegs, spiChip, spiIsr, spiClient, sdCr, sdLeft,
                 sdTerm, sdSaw>>

\* An error is reported at once; the other direction stays pending.
SdChannelError(c) ==
  /\ SdInterruptible /\ sdChan[c] = "err"
  /\ sdChan' = [sdChan EXCEPT ![c] = "off"]
  /\ sdPending' = sdPending \ {c}
  /\ SdStop("failed")
  /\ SdMeets(sdTerm # <<>>)
  /\ UNCHANGED <<spiDriver, spiRegs, spiOverflow, spiIsr, spiStored,
                 sdLeft, sdWait, sdTerm, sdSaw>>

SdHandler ==
  \/ SdReport \/ SdLook \/ SdStopChannel
  \/ \E c \in SdDirections : SdChannelEnd(c) \/ SdChannelError(c)

-----------------------------------------------------------------------------
(* The channels and the controller.                                        *)

\* One frame by a channel, whose last one raises its interrupt.
SdMove(c) ==
  /\ sdChan[c] = "busy" /\ c \in sdCr
  /\ sdLeft' = [sdLeft EXCEPT ![c] = @ - 1]
  /\ sdChan' = [sdChan EXCEPT ![c] = IF sdLeft[c] = 1 THEN "end" ELSE @]
  /\ IF c = "tx"
     THEN /\ spiTxFlr < SPI_FIFOS_DEPTH
          /\ spiTxFlr' = spiTxFlr + 1
          /\ UNCHANGED <<spiRxFlr, spiStored>>
     ELSE /\ spiRxFlr > 0
          /\ spiRxFlr' = spiRxFlr - 1 /\ spiStored' = spiStored + 1
          /\ UNCHANGED spiTxFlr
  /\ UNCHANGED <<spiDriver, spiRegs, spiEn, spiShift, spiClocked, spiOverflow, spiIsr,
                 spiBusy, spiOutcome, spiMet, sdPending, sdCr, sdWait, sdTerm, sdSaw>>

SdBusError(c) ==
  /\ sdChan[c] = "busy" /\ c \in sdCr
  /\ sdChan' = [sdChan EXCEPT ![c] = "err"]
  /\ SdMeets(spiMode \notin {"TX", "RX"})
  /\ UNCHANGED <<spiDriver, spiRegs, spiChip, spiIsr, spiClient, sdPending, sdCr,
                 sdLeft, sdWait, sdTerm, sdSaw>>

\* The controller does not wait for a channel that was stopped.
SdBus ==
  /\ spiRxFlr < SPI_FIFOS_DEPTH \/ sdChan["rx"] # "busy"
  /\ SpiBus /\ UNCHANGED <<spiMet, sdVars>>

SdMoves == \E c \in SdDirections : SdMove(c)

SpiDmaNext ==
  \/ \E mode \in SpiModes : \E x \in SpiTransfers(mode) : SdStart(mode, x)
  \/ SdTerminate
  \/ SdHandler
  \/ SdMoves \/ \E c \in SdDirections : SdBusError(c)
  \/ SdBus

\* The interrupts are served, the channels move and the controller clocks.
SpiDmaSpec ==
  /\ SpiInit /\ SdInit /\ [][SpiDmaNext]_spiDmaVars
  /\ WF_spiDmaVars(SdHandler) /\ WF_spiDmaVars(SdMoves) /\ WF_spiDmaVars(SdBus)

-----------------------------------------------------------------------------
(* Properties: those of SpiMaster.                                         *)

SpiDmaTypeOK ==
  /\ sdPending \subseteq SdDirections /\ sdCr \subseteq SdDirections
  /\ sdChan \in [SdDirections -> {"off", "busy", "end", "err"}]
  /\ sdLeft \in [SdDirections -> 0 .. SpiMaxLen]
  /\ sdWait \in {"none", "done", "failed"}
  /\ sdTerm \in {<<>>, <<"rx">>, <<"tx", "rx">>} /\ sdSaw \in BOOLEAN
=============================================================================
