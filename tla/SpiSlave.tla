------------------------------ MODULE SpiSlave ------------------------------
(***************************************************************************)
(* The SPI slave of qm_spi.c.  Another chip's master clocks the frames, so *)
(* that the client may not know how many will come: when its buffer is     *)
(* full, or all it had to send is queued, the handler calls it back, and   *)
(* qm_spi_irq_update, called from there, goes on with another buffer.      *)
(*                                                                         *)
(* Frames are counted.  The master clocks the frames that both sides have  *)
(* agreed on, and none before the slave has one to send; it may outrun the *)
(* RX FIFO.  The client changes its descriptor in place, as the handler    *)
(* goes on with the one it started with.  One that sends and receives      *)
(* updates both directions at once, when its buffer is full: an update of  *)
(* one direction masks the interrupts of the other.                        *)
(***************************************************************************)
EXTENDS Naturals

CONSTANTS
  SpsDepth,          \* SPI_FIFOS_DEPTH
  SpsTxDefault,      \* SPI_SLV_DEFAULT_TX_THRESHOLD
  SpsRxDefault,      \* SPI_SLV_DEFAULT_RX_THRESHOLD
  SpsLens,           \* the lengths of buffers
  SpsMaxUpdates      \* bound: updates of a communication

ASSUME SpsAssumption ==
  /\ SpsDepth \in Nat /\ SpsTxDefault \in 0 .. SpsDepth - 1
  /\ SpsRxDefault \in 0 .. SpsDepth - 1
  /\ SpsLens \subseteq Nat \ {0} /\ SpsMaxUpdates \in Nat

VARIABLES
  spsMode,          \* tmode
  spsTxLen, spsRxLen, spsKeep, \* the descriptor
  spsTx, spsRx,     \* tx_counter, rx_counter
  spsImr,           \* the unmasked interrupts
  spsEn,            \* SSIENR
  spsTxFtl, spsRxFtl, \* the thresholds
  spsTxFlr, spsRxFlr, \* the levels of the FIFOs
  spsShift,         \* a frame is being clocked: BUSY
  spsOver,          \* the RX FIFO overflowed
  spsLeft,          \* frames the master has still to clock
  spsPc,            \* where the handler is, or "none"
  spsStatus,        \* its int_status
  spsFree,          \* its entries_free
  spsUpdates,       \* updates so far
  spsBusy           \* ghost: started, and its end not reported

spsDescriptor == <<spsMode, spsTxLen, spsRxLen, spsKeep>>
spsChip == <<spsTxFlr, spsRxFlr, spsShift, spsOver, spsLeft>>
spsIsr == <<spsPc, spsStatus, spsFree>>
spsVars == <<spsDescriptor, spsTx, spsRx, spsImr, spsEn, spsTxFtl, spsRxFtl,
             spsChip, spsIsr, spsUpdates, spsBusy>>

SpsInit ==
  /\ spsMode = "TX" /\ spsTxLen = 0 /\ spsRxLen = 0 /\ spsKeep = FALSE
  /\ spsTx = 0 /\ spsRx = 0 /\ spsImr = {} /\ spsEn = FALSE
  /\ spsTxFtl = 0 /\ spsRxFtl = 0
  /\ spsTxFlr = 0 /\ spsRxFlr = 0 /\ spsShift = FALSE /\ spsOver = FALSE
  /\ spsLeft = 0
  /\ spsPc = "none" /\ spsStatus = {} /\ spsFree = 0
  /\ spsUpdates = 0 /\ spsBusy = FALSE

-----------------------------------------------------------------------------

Sends(mode) == mode # "RX"
Receives(mode) == mode # "TX"

SpsPending ==
  spsImr \cap ( (IF spsOver THEN {"RXO"} ELSE {})
           \cup (IF spsRxFlr > spsRxFtl THEN {"RXF"} ELSE {})
           \cup (IF spsTxFlr <= spsTxFtl THEN {"TXE"} ELSE {}) )

\* The interrupts of an update of all directions of the mode.
SpsUnmasked(mode) ==
  (IF Sends(mode) THEN {"TXE"} ELSE {})
  \cup (IF Receives(mode) THEN {"RXF", "RXO"} ELSE {})

\* The descriptor of n frames in each direction of the mode.
SpsDescribe(mode, n) ==
  /\ spsTxLen' = (IF Sends(mode) THEN n ELSE 0)
  /\ spsRxLen' = (IF Receives(mode) THEN n ELSE 0)

SpsDisable ==
  /\ spsEn' = FALSE
  /\ spsTxFlr' = 0 /\ spsRxFlr' = 0 /\ spsShift' = FALSE

\* The RX threshold a transfer of n frames starts with.
SpsFirstThreshold(n) ==
  IF n = 0 THEN spsRxFtl ELSE IF n < SpsRxDefault THEN n - 1 ELSE SpsRxDefault

\* The RX threshold with some frames left.
SpsNextThreshold(left) ==
  IF left > 0 /\ left <= spsRxFtl THEN left - 1 ELSE spsRxFtl

-----------------------------------------------------------------------------
(* The client.                                                             *)

\* qm_spi_irq_transfer.  What the last master left half done is no part of it.
SpsStart(mode, n, keep) ==
  /\ spsPc = "none" /\ ~spsBusy /\ ~spsShift
  /\ spsMode' = mode /\ spsKeep' = keep
  /\ SpsDescribe(mode, n)
  /\ spsTx' = 0 /\ spsRx' = 0
  /\ spsImr' = SpsUnmasked(mode)
  /\ spsRxFtl' = SpsFirstThreshold(IF Receives(mode) THEN n ELSE 0)
  /\ spsTxFtl' = SpsTxDefault
  /\ spsEn' = TRUE
  /\ spsTxFlr' = 0 /\ spsRxFlr' = 0 /\ spsOver' = FALSE /\ spsLeft' = n
  /\ spsUpdates' = 0 /\ spsBusy' = TRUE
  /\ UNCHANGED <<spsShift, spsIsr>>

\* qm_spi_irq_transfer_terminate
SpsTerminate ==
  /\ spsPc = "none" /\ spsBusy
  /\ spsImr' = {} /\ SpsDisable
  /\ spsTx' = 0 /\ spsRx' = 0 /\ spsBusy' = FALSE
  /\ spsLeft' = 0
  /\ UNCHANGED <<spsDescriptor, spsTxFtl, spsRxFtl, spsOver, spsIsr, spsUpdates>>

\* qm_spi_irq_update, from the callback, with another buffer of n frames.
SpsUpdate(n) ==
  /\ spsUpdates < SpsMaxUpdates /\ spsUpdates' = spsUpdates + 1
  /\ SpsDescribe(spsMode, n)
  /\ spsImr' = SpsUnmasked(spsMode)
  /\ spsLeft' = spsLeft + n

-----------------------------------------------------------------------------
(* The handler, handle_spi_slv_interrupt.                                  *)

SpsEnter ==
  /\ spsPc = "none" /\ SpsPending # {} /\ "RXO" \notin SpsPending
  /\ spsStatus' = SpsPending
  /\ spsPc' = (IF "RXF" \in SpsPending THEN "rx" ELSE "check")
  /\ UNCHANGED <<spsDescriptor, spsTx, spsRx, spsImr, spsEn, spsTxFtl, spsRxFtl,
                 spsChip, spsFree, spsUpdates, spsBusy>>

\* handle_spi_overflow_interrupt
SpsOverrun ==
  /\ spsPc = "none" /\ "RXO" \in SpsPending
  /\ spsBusy' = FALSE /\ spsOver' = FALSE
  /\ spsImr' = {} /\ SpsDisable
  /\ spsLeft' = 0
  /\ UNCHANGED <<spsDescriptor, spsTx, spsRx, spsTxFtl, spsRxFtl, spsIsr, spsUpdates>>

\* handle_slv_rx_interrupt: one frame; of a full buffer the client is told, and
\* it may go on with another one, in which the handler does too.
SpsRead ==
  /\ spsPc = "rx" /\ spsRxFlr > 0 /\ spsRx < spsRxLen
  /\ spsRxFlr' = spsRxFlr - 1
  /\ \/ /\ spsRx' = spsRx + 1
        /\ UNCHANGED <<spsTxLen, spsRxLen, spsTx, spsImr, spsLeft, spsUpdates>>
     \/ /\ spsRx + 1 = spsRxLen /\ spsTx = spsTxLen
        /\ \E n \in SpsLens : SpsUpdate(n)
        /\ spsRx' = 0 /\ spsTx' = 0
  /\ UNCHANGED <<spsMode, spsKeep, spsEn, spsTxFtl, spsRxFtl, spsTxFlr, spsShift,
                 spsOver, spsIsr, spsBusy>>

SpsReadEnd ==
  /\ spsPc = "rx" /\ (spsRxFlr = 0 \/ spsRx = spsRxLen)
  /\ spsRxFtl' = SpsNextThreshold(spsRxLen - spsRx)
  /\ spsPc' = "check"
  /\ UNCHANGED <<spsDescriptor, spsTx, spsRx, spsImr, spsEn, spsTxFtl, spsChip,
                 spsStatus, spsFree, spsUpdates, spsBusy>>

SpsComplete ==
  /\ spsRx = spsRxLen /\ spsTx = spsTxLen
  /\ spsTxFlr = 0 /\ (~spsShift \/ spsMode = "RX")

\* The end of the communication.
SpsDone ==
  /\ spsPc = "check" /\ SpsComplete
  /\ spsImr' = {}
  /\ IF spsKeep THEN UNCHANGED <<spsEn, spsTxFlr, spsRxFlr, spsShift>> ELSE SpsDisable
  /\ spsBusy' = FALSE /\ spsPc' = "none"
  /\ UNCHANGED <<spsDescriptor, spsTx, spsRx, spsTxFtl, spsRxFtl, spsOver, spsLeft,
                 spsStatus, spsFree, spsUpdates>>

\* handle_slv_tx_interrupt: the entries that are free, which leave room for the
\* frames that come back.
SpsSample ==
  /\ spsPc = "check" /\ ~SpsComplete
  /\ IF "TXE" \in spsStatus
     THEN /\ spsPc' = "tx"
          /\ spsFree' = (IF SpsDepth > spsTxFlr + spsRxFlr + 1
                         THEN SpsDepth - spsTxFlr - spsRxFlr - 1 ELSE 0)
     ELSE spsPc' = "none" /\ UNCHANGED spsFree
  /\ UNCHANGED <<spsDescriptor, spsTx, spsRx, spsImr, spsEn, spsTxFtl, spsRxFtl,
                 spsChip, spsStatus, spsUpdates, spsBusy>>

\* One frame; when all are queued the client is told, and may go on.
SpsWrite ==
  /\ spsPc = "tx" /\ spsFree > 0 /\ spsTx < spsTxLen
  /\ spsFree' = spsFree - 1 /\ spsTxFlr' = spsTxFlr + 1
  /\ \/ /\ spsTx' = spsTx + 1
        /\ UNCHANGED <<spsTxLen, spsRxLen, spsImr, spsLeft, spsUpdates>>
     \/ /\ spsTx + 1 = spsTxLen /\ spsMode = "TX"
        /\ \E n \in SpsLens : SpsUpdate(n)
        /\ spsTx' = 0
  /\ UNCHANGED <<spsMode, spsKeep, spsRx, spsEn, spsTxFtl, spsRxFtl, spsRxFlr,
                 spsShift, spsOver, spsPc, spsStatus, spsBusy>>

\* The TX threshold when all frames are queued.
SpsLastThreshold == 0

SpsWriteEnd ==
  /\ spsPc = "tx" /\ (spsFree = 0 \/ spsTx >= spsTxLen)
  /\ spsTxFtl' = (IF spsTx >= spsTxLen THEN SpsLastThreshold ELSE spsTxFtl)
  /\ spsPc' = "none"
  /\ UNCHANGED <<spsDescriptor, spsTx, spsRx, spsImr, spsEn, spsRxFtl, spsChip,
                 spsStatus, spsFree, spsUpdates, spsBusy>>

SpsHandler ==
  \/ SpsEnter \/ SpsOverrun \/ SpsRead \/ SpsReadEnd
  \/ SpsDone \/ SpsSample \/ SpsWrite \/ SpsWriteEnd

-----------------------------------------------------------------------------
(* The master at the other end.                                            *)

\* A frame is begun; the slave sends the first one it has queued.
SpsBegin ==
  /\ spsEn /\ spsLeft > 0 /\ ~spsShift
  /\ Sends(spsMode) => spsTxFlr > 0
  /\ spsShift' = TRUE /\ spsLeft' = spsLeft - 1
  /\ spsTxFlr' = (IF Sends(spsMode) THEN spsTxFlr - 1 ELSE spsTxFlr)
  /\ UNCHANGED <<spsDescriptor, spsTx, spsRx, spsImr, spsEn, spsTxFtl, spsRxFtl,
                 spsRxFlr, spsOver, spsIsr, spsUpdates, spsBusy>>

SpsEndFrame ==
  /\ spsShift /\ spsShift' = FALSE
  /\ IF Receives(spsMode)
     THEN IF spsRxFlr < SpsDepth THEN spsRxFlr' = spsRxFlr + 1 /\ UNCHANGED spsOver
          ELSE spsOver' = TRUE /\ UNCHANGED spsRxFlr
     ELSE UNCHANGED <<spsRxFlr, spsOver>>
  /\ UNCHANGED <<spsDescriptor, spsTx, spsRx, spsImr, spsEn, spsTxFtl, spsRxFtl,
                 spsTxFlr, spsLeft, spsIsr, spsUpdates, spsBusy>>

SpsMaster == SpsBegin \/ SpsEndFrame

SpsNext ==
  \/ \E mode \in {"TX", "RX", "TX_RX"}, n \in SpsLens, keep \in BOOLEAN :
       SpsStart(mode, n, keep)
  \/ SpsTerminate
  \/ SpsHandler
  \/ SpsMaster

\* The interrupt is served, and the master clocks what was agreed.
SpsSpec == SpsInit /\ [][SpsNext]_spsVars /\ WF_spsVars(SpsHandler) /\ WF_spsVars(SpsMaster)

-----------------------------------------------------------------------------

\* The threshold of a first buffer exactly as long as the default is never reached
\* (SpsFirstThreshold): no interrupt tells the handler of its frames.
SpsUnreached == spsUpdates = 0 /\ spsRxLen = SpsRxDefault

\* qm_spi.h:180-181 says that the callback of a transfer is "Called after all data
\* is transmitted/received or if the driver detects an error".
SpsEnds == spsBusy ~> ~spsBusy
=============================================================================
