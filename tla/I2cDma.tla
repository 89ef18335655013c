------------------------------- MODULE I2cDma -------------------------------
(***************************************************************************)
(* The DMA transfers of the I2C master, qm_i2c.c: a channel moves all but  *)
(* the last byte of a write into the TX FIFO of I2cMaster's controller and *)
(* the driver writes the last one; a read takes two channels, one for the  *)
(* read commands and one for the bytes.  What tells the driver which of    *)
(* its callbacks means what is a pair of flags and an error code.          *)
(*                                                                         *)
(* i2cReadPos counts the bytes that the RX channel has moved.  The two     *)
(* channels keep up with the bus.  A write alone asks for its STOP and has *)
(* at least two bytes, as the DMA driver refuses the empty block that is   *)
(* left of one.                                                            *)
(*                                                                         *)
(* Three mishaps break the driver, and i2cUpset remembers them: a handler  *)
(* comes later than the next byte, or within a termination; a write, or a  *)
(* read without STOP, is terminated; the other side refuses, or the DMA's  *)
(* own bus fails, at another time than while bytes of a write move.  A     *)
(* client that starts anew has stopped both channels itself, and is out of *)
(* it when it finds the controller empty.                                  *)
(***************************************************************************)
EXTENDS I2cMaster

VARIABLES
  idOngoing, \* the directions whose ongoing_dma_*_operation is set
  idError,   \* i2c_error_code is set
  idCr,      \* ic_dma_cr: the directions enabled
  idJob,     \* what the TX channel moves: "bytes" or "reads"
  idChan,    \* the channels: "off", "busy", or an interrupt: "end", "err"
  idLeft,    \* what each has still to move
  idPc,      \* what the callback waits for: "none", "last" or "drain"
  idLen,     \* its len
  idTerm,    \* the channels a terminating client still has to look at
  idSaw      \* it has seen the first of them ongoing

idContext == <<idOngoing, idError, idCr>>
idChannels == <<idJob, idChan, idLeft>>
idVars == <<idContext, idChannels, idPc, idLen, idTerm, idSaw>>
i2cDmaVars == <<i2cVars, idVars>>

Directions == {"tx", "rx"}

IdInit ==
  /\ idOngoing = {} /\ idError = FALSE /\ idCr = {}
  /\ idJob = "bytes"
  /\ idChan = [c \in Directions |-> "off"] /\ idLeft = [c \in Directions |-> 0]
  /\ idPc = "none" /\ idLen = 0
  /\ idTerm = <<>> /\ idSaw = FALSE

-----------------------------------------------------------------------------
(* Helpers.                                                                *)

\* Nothing waits for a handler that should have come before the next byte.
InTime ==
  icTxAbrt = "none" /\ \A c \in Directions : idChan[c] \in {"off", "busy"}

\* A refusal or an error of the DMA's bus that the driver is made for.
WritesBytes == idJob = "bytes" /\ idChan["tx"] = "busy"

\* The transfer meets a mishap if the condition holds.
Meets(mishap) == i2cUpset' = (i2cUpset \/ mishap)

\* What the TX channel was given.
IdBlock == IF idJob = "bytes" THEN i2cTransfer.tx - 1 ELSE i2cTransfer.rx

\* The callback tells the length: what is short is not done.
IdReport(len, whole) == I2cCallback(IF len = whole THEN "done" ELSE "failed")

Leave(set, c) == set' = set \ {c}

\* A disabled controller takes no command.
Issue(cmd) == IF icEnabled THEN Push(<<cmd>>) ELSE UNCHANGED icTxFifo

\* i2c_start_dma_read: the commands' channel first, then the bytes'.
StartDmaRead(x) ==
  /\ idCr' = Directions /\ idOngoing' = Directions
  /\ idJob' = "reads"
  /\ idChan' = [c \in Directions |-> "busy"]
  /\ idLeft' = [c \in Directions |-> x.rx]

\* i2c_dma_transfer_error_callback; the other channel goes on.
DmaErrorCallback ==
  /\ idCr' = idCr \ idOngoing /\ idOngoing' = {}
  /\ ControllerDisable
  /\ I2cCallback("failed")

\* i2c_dma_transmit_callback, up to its waits: while a read is ongoing it was
\* only the commands that ended.
TransmitCallback(len) ==
  IF idError
  THEN DmaErrorCallback /\ UNCHANGED <<idPc, idLen>>
  ELSE /\ Leave(idCr, "tx") /\ Leave(idOngoing, "tx")
       /\ IF "rx" \in idOngoing
          THEN UNCHANGED <<idPc, idLen>>
          ELSE idPc' = "last" /\ idLen' = len
       /\ UNCHANGED <<icEnabled, icAbort, icTxFifo, icRxFlr, icShift, i2cClient>>

\* i2c_dma_receive_callback leaves an I2C error to the other one.
ReceiveCallback(len) ==
  /\ IF idError
     THEN UNCHANGED <<idCr, idOngoing, icEnabled, icAbort, icTxFifo, icRxFlr,
                      icShift, i2cClient>>
     ELSE /\ Leave(idCr, "rx") /\ Leave(idOngoing, "rx")
          /\ DisableOnStop
          /\ IdReport(len, i2cTransfer.rx)
  /\ UNCHANGED <<idPc, idLen>>

ChannelCallback(c, len) ==
  IF c = "tx" THEN TransmitCallback(len) ELSE ReceiveCallback(len)

Moved(c) == (IF c = "tx" THEN IdBlock ELSE i2cTransfer.rx) - idLeft[c]

ChannelOff(c) == idChan' = [idChan EXCEPT ![c] = "off"]

-----------------------------------------------------------------------------
(* The client.                                                             *)

IdIdle == idPc = "none" /\ idTerm = <<>> /\ ~idSaw /\ ~i2cBusy

\* Nothing is left in the controller of a transfer before, except a last byte
\* that it is still writing.
ControllerClean ==
  icTxFifo = <<>> /\ icRxFlr = 0 /\ icShift # "r" /\ ~icAbort

\* qm_i2c_master_dma_transfer
IdStart(x) ==
  /\ IdIdle
  /\ x.stop \/ x.rx > 0
  /\ x.tx # 1
  /\ i2cTransfer' = x /\ i2cReadCmdSend' = x.rx /\ i2cReadPos' = 0
  /\ icMask' = {"TX_ABRT"}
  /\ icEnabled' = TRUE /\ icTxAbrt' = "none"
  /\ idError' = FALSE
  /\ IF x.tx = 0
     THEN StartDmaRead(x)
     ELSE /\ idCr' = {"tx"} /\ idOngoing' = {"tx"}
          /\ idJob' = "bytes"
          /\ idChan' = [c \in Directions |-> IF c = "tx" THEN "busy" ELSE "off"]
          /\ idLeft' = [c \in Directions |-> IF c = "tx" THEN x.tx - 1 ELSE 0]
  /\ i2cWire' = <<>>
  /\ i2cBusy' = TRUE /\ i2cOutcome' = "none"
  /\ i2cUpset' = ~ControllerClean
  /\ idLen' = 0
  /\ UNCHANGED <<i2cWritePos, icTxTl, icRxTl, icAbort, icTxFifo, icRxFlr,
                 icShift, i2cIsr, idPc, idTerm, idSaw>>

\* qm_i2c_dma_transfer_terminate looks at each direction in turn ...
IdTerminate ==
  /\ idPc = "none" /\ idTerm = <<>>
  /\ idOngoing # {}
  /\ idTerm' = <<"tx", "rx">>
  /\ Meets(~InTime \/ idJob = "bytes" \/ ~i2cTransfer.stop)
  /\ UNCHANGED <<i2cDriver, i2cRegs, i2cChip, i2cIsr, i2cClient, idContext,
                 idChannels, idPc, idLen, idSaw>>

IdLook ==
  /\ idPc = "none" /\ idTerm # <<>> /\ ~idSaw
  /\ IF Head(idTerm) \in idOngoing
     THEN idSaw' = TRUE /\ UNCHANGED idTerm
     ELSE idTerm' = Tail(idTerm) /\ UNCHANGED idSaw
  /\ UNCHANGED <<i2cVars, idContext, idChannels, idPc, idLen>>

\* ... and has the DMA driver stop its channel and call back.
IdStopChannel ==
  LET c == Head(idTerm)
  IN /\ idPc = "none" /\ idTerm # <<>> /\ idSaw
     /\ ChannelOff(c)
     /\ ChannelCallback(c, Moved(c))
     /\ idTerm' = Tail(idTerm) /\ idSaw' = FALSE
     /\ UNCHANGED <<i2cDriver, icMask, icTxTl, icRxTl, icTxAbrt, i2cWire, i2cIsr,
                    i2cUpset, idError, idJob, idLeft>>

-----------------------------------------------------------------------------
(* The interrupt handlers.                                                 *)

\* Not while the handler that writes the last byte waits.
Interruptible == idPc = "none"

\* The DMA driver's handler of a channel that has ended.
IdChannelEnd(c) ==
  /\ Interruptible /\ idChan[c] = "end"
  /\ Meets(idTerm # <<>>)
  /\ ChannelOff(c)
  /\ ChannelCallback(c, Moved(c))
  /\ UNCHANGED <<i2cDriver, icMask, icTxTl, icRxTl, icTxAbrt, i2cWire, i2cIsr,
                 idError, idJob, idLeft, idTerm, idSaw>>

\* Its handler of a channel whose bus has failed.
IdChannelError(c) ==
  /\ Interruptible /\ idChan[c] = "err"
  /\ Meets(idTerm # <<>>)
  /\ ChannelOff(c)
  /\ DmaErrorCallback
  /\ UNCHANGED <<i2cDriver, icMask, icTxTl, icRxTl, icTxAbrt, i2cWire, i2cIsr,
                 idError, idJob, idLeft, idPc, idLen, idTerm, idSaw>>

\* When the byte the callback writes carries the STOP.
LastStop(len) ==
  (i2cTransfer.stop /\ i2cTransfer.rx = 0) \/ len # i2cTransfer.tx - 1

\* The last byte of the buffer, then the read of a combined transfer.
IdLast ==
  /\ idPc = "last" /\ Len(icTxFifo) < FIFO_SIZE
  /\ Issue([op |-> "w", i |-> i2cTransfer.tx, stop |-> LastStop(idLen)])
  /\ LET len == idLen + 1
         whole == len = i2cTransfer.tx
     IN IF i2cTransfer.rx > 0 /\ whole
        THEN /\ StartDmaRead(i2cTransfer)
             /\ icEnabled' = TRUE /\ icTxAbrt' = "none"
             /\ idPc' = "none" /\ UNCHANGED <<idLen, i2cClient>>
        ELSE /\ idLen' = len
             /\ UNCHANGED <<idCr, idOngoing, idChannels, icEnabled, icTxAbrt>>
             /\ IF i2cTransfer.stop \/ ~whole
                THEN idPc' = "drain" /\ UNCHANGED i2cClient
                ELSE idPc' = "none" /\ IdReport(len, i2cTransfer.tx)
  /\ UNCHANGED <<i2cDriver, icMask, icTxTl, icRxTl, icAbort, icRxFlr, icShift,
                 i2cWire, i2cIsr, i2cUpset, idError, idTerm, idSaw>>

\* Mutant: nothing is waited for.
DrainedAtOnce == TRUE

\* Everything is in the shift register, which disabling waits for.
Drained == icTxFifo = <<>>

IdDrain ==
  /\ idPc = "drain" /\ Drained
  /\ ControllerDisable
  /\ IdReport(idLen, i2cTransfer.tx)
  /\ idPc' = "none"
  /\ UNCHANGED <<i2cDriver, icMask, icTxTl, icRxTl, icTxAbrt, i2cWire, i2cIsr,
                 i2cUpset, idContext, idChannels, idLen, idTerm, idSaw>>

\* handle_dma_tx_abrt: the error is kept for the callback of the channel it
\* stops: the TX one, or else the RX one.
IdAbort ==
  /\ Interruptible /\ icTxAbrt # "none" /\ "TX_ABRT" \in icMask
  /\ icTxAbrt' = "none" /\ icMask' = {} /\ idError' = TRUE
  /\ Meets(idTerm # <<>>)
  /\ IF "tx" \in idOngoing
     THEN ChannelOff("tx") /\ DmaErrorCallback
     ELSE /\ IF "rx" \in idOngoing THEN ChannelOff("rx") ELSE UNCHANGED idChan
          /\ UNCHANGED <<idCr, idOngoing, icEnabled, icAbort, icTxFifo, icRxFlr,
                         icShift, i2cClient>>
  /\ UNCHANGED <<i2cDriver, icTxTl, icRxTl, i2cWire, i2cIsr, idJob, idLeft,
                 idPc, idLen, idTerm, idSaw>>

IdHandler ==
  \/ IdLook \/ IdStopChannel
  \/ \E c \in Directions : IdChannelEnd(c) \/ IdChannelError(c)
  \/ IdLast \/ IdDrain \/ IdAbort

-----------------------------------------------------------------------------
(* The DMA channels, the controller and the bus.                           *)

\* One unit by a channel, whose last one raises its interrupt.
ChannelMoves(c) ==
  /\ idChan[c] = "busy" /\ c \in idCr
  /\ Meets(~InTime)
  /\ idLeft' = [idLeft EXCEPT ![c] = @ - 1]
  /\ idChan' = [idChan EXCEPT ![c] = IF idLeft[c] = 1 THEN "end" ELSE @]
  /\ UNCHANGED <<i2cTransfer, i2cWritePos, i2cReadCmdSend, i2cRegs, icShift, i2cWire,
                 i2cIsr, i2cClient, idContext, idJob, idPc, idLen, idTerm, idSaw>>

IdMoveTx ==
  /\ ChannelMoves("tx") /\ Len(icTxFifo) < FIFO_SIZE
  /\ Issue(IF idJob = "bytes"
           THEN [op |-> "w", i |-> i2cTransfer.tx - idLeft["tx"], stop |-> FALSE]
           ELSE [op |-> "r", i |-> 0,
                 stop |-> i2cTransfer.stop /\ idLeft["tx"] = 1])
  /\ UNCHANGED <<i2cReadPos, icRxFlr>>

IdMoveRx ==
  /\ ChannelMoves("rx") /\ icRxFlr > 0
  /\ icRxFlr' = icRxFlr - 1 /\ i2cReadPos' = i2cReadPos + 1
  /\ UNCHANGED icTxFifo

IdBusError(c) ==
  /\ idChan[c] = "busy" /\ c \in idCr
  /\ idChan' = [idChan EXCEPT ![c] = "err"]
  /\ Meets(~InTime \/ ~WritesBytes)
  /\ UNCHANGED <<i2cDriver, i2cRegs, i2cChip, i2cIsr, i2cClient, idContext,
                 idJob, idLeft, idPc, idLen, idTerm, idSaw>>

IdBus ==
  /\ icRxFlr < FIFO_SIZE
  /\ \/ (BusTake \/ BusByte) /\ Meets(~InTime)
     \/ BusNack /\ Meets(~InTime \/ ~WritesBytes)
  /\ UNCHANGED idVars

IdMove == IdMoveTx \/ IdMoveRx

I2cDmaNext ==
  \/ \E x \in I2cTransfers : IdStart(x)
  \/ IdTerminate
  \/ IdHandler
  \/ IdMove \/ \E c \in Directions : IdBusError(c)
  \/ IdBus

\* The interrupts are served, the channels move and the bus works.
I2cDmaSpec ==
  /\ I2cInit /\ IdInit /\ [][I2cDmaNext]_i2cDmaVars
  /\ WF_i2cDmaVars(IdHandler) /\ WF_i2cDmaVars(IdMove) /\ WF_i2cDmaVars(IdBus)

-----------------------------------------------------------------------------
(* Properties: those of I2cMaster, and                                     *)

I2cDmaTypeOK ==
  /\ idOngoing \subseteq Directions /\ idCr \subseteq Directions
  /\ idError \in BOOLEAN /\ idSaw \in BOOLEAN
  /\ idJob \in {"bytes", "reads"}
  /\ idChan \in [Directions -> {"off", "busy", "end", "err"}]
  /\ idLeft \in [Directions -> 0 .. I2cMaxLen]
  /\ idPc \in {"none", "last", "drain"} /\ idLen \in 0 .. 2 * I2cMaxLen
  /\ idTerm \in {<<>>, <<"rx">>, <<"tx", "rx">>}

\* qm_i2c.h:167 has the callback called after all data is transmitted or
\* received or if the driver detects an error: every DMA transfer that was
\* accepted is reported, whatever the other side refuses.
DmaTransferAnswered == i2cBusy ~> ~i2cBusy

\* For TLC: the states in which no client terminates its transfer.
NotTerminated == idTerm = <<>>
=============================================================================
