------------------------------ MODULE I2cPolled ------------------------------
(***************************************************************************)
(* The writes and reads of the I2C masters that hold the processor until   *)
(* they are over: qm_i2c_master_write and _read, and those of the sensor   *)
(* subsystem, over the controller of I2cMaster with its interrupts masked. *)
(* A write fills the TX FIFO whenever it has room; a read asks for a byte  *)
(* at a time.  A transfer without STOP leaves its last byte on its way,    *)
(* and a refusal of it to the transfer that follows.                       *)
(***************************************************************************)
EXTENDS SsI2c

VARIABLE i2cPoll   \* where the function is, or "none"

i2cPolledVars == <<i2cVars, i2cPoll>>

I2cPolledInit == I2cInit /\ i2cPoll = "none"

\* A write has no bytes to read, and a read none to write.
I2cPolledTransfers == {x \in I2cTransfers : x.tx = 0 \/ x.rx = 0}

\* Both functions start alike; enabling the controller clears an abort.
I2cPollStart(x) ==
  /\ i2cPoll = "none" /\ ~i2cBusy
  /\ i2cTransfer' = x
  /\ i2cWritePos' = 0 /\ i2cReadPos' = 0 /\ i2cReadCmdSend' = x.rx
  /\ icEnabled' = TRUE /\ icTxAbrt' = "none"
  /\ i2cWire' = <<>>
  /\ i2cPoll' = (IF x.rx = 0 THEN "write" ELSE "read")
  /\ i2cBusy' = TRUE /\ i2cOutcome' = "none"
  /\ UNCHANGED <<icMask, icTxTl, icRxTl, icAbort, icTxFifo, icRxFlr, icShift,
                 i2cIsr>>

-----------------------------------------------------------------------------
(* qm_i2c_master_write                                                     *)

\* A byte is written when the FIFO has room, which it always has once an abort
\* has flushed it.
I2cPollPush ==
  /\ i2cPoll = "write"
  /\ i2cWritePos < i2cTransfer.tx
  /\ Len(icTxFifo) < FIFO_SIZE
  /\ Push(WriteCommands(i2cTransfer, i2cWritePos, 0, 1))
  /\ i2cWritePos' = i2cWritePos + 1
  /\ UNCHANGED <<i2cTransfer, i2cReadPos, i2cReadCmdSend, i2cRegs, icRxFlr,
                 icShift, i2cWire, i2cIsr, i2cClient, i2cPoll>>

\* The FIFO is empty; then the source of an abort is looked at.
I2cPollDrained ==
  /\ i2cPoll = "write"
  /\ i2cWritePos = i2cTransfer.tx /\ icTxFifo = <<>>
  /\ i2cPoll' = "source"
  /\ UNCHANGED i2cVars

I2cPollSource ==
  /\ i2cPoll = "source"
  /\ i2cPoll' = (IF icTxAbrt # "none" THEN "failed" ELSE "done")
  /\ UNCHANGED i2cVars

-----------------------------------------------------------------------------
(* qm_i2c_master_read                                                      *)

\* A read command, the last one with the STOP.
I2cPollAsk ==
  /\ i2cPoll = "read"
  /\ Push(ReadCommands(i2cTransfer, i2cReadCmdSend, 1))
  /\ i2cReadCmdSend' = i2cReadCmdSend - 1
  /\ i2cPoll' = "await"
  /\ UNCHANGED <<i2cTransfer, i2cWritePos, i2cReadPos, i2cRegs, icRxFlr,
                 icShift, i2cWire, i2cIsr, i2cClient>>

\* The byte has come, or an abort.
I2cPollTake ==
  /\ i2cPoll = "await"
  /\ icRxFlr > 0 \/ icTxAbrt # "none"
  /\ IF icTxAbrt = "none"
     THEN /\ icRxFlr' = icRxFlr - 1
          /\ i2cReadPos' = i2cReadPos + 1
          /\ i2cPoll' = (IF i2cReadCmdSend = 0 THEN "done" ELSE "read")
     ELSE /\ i2cPoll' = "failed"
          /\ UNCHANGED <<icRxFlr, i2cReadPos>>
  /\ UNCHANGED <<i2cTransfer, i2cWritePos, i2cReadCmdSend, i2cRegs, icTxFifo,
                 icShift, i2cWire, i2cIsr, i2cClient>>

-----------------------------------------------------------------------------

\* The end of both: disabled if there was a STOP, and the abort cleared, even
\* one that came after it was looked for.
I2cPollEnd ==
  /\ i2cPoll \in {"done", "failed"}
  /\ DisableOnStop
  /\ icTxAbrt' = "none"
  /\ I2cCallback(i2cPoll)
  /\ i2cPoll' = "none"
  /\ UNCHANGED <<i2cDriver, icMask, icTxTl, icRxTl, i2cWire, i2cIsr>>

I2cPolls ==
  I2cPollPush \/ I2cPollDrained \/ I2cPollSource \/ I2cPollAsk \/ I2cPollTake \/ I2cPollEnd

I2cPollBus == I2cBus /\ UNCHANGED i2cPoll

I2cPolledNext ==
  /\ \/ \E x \in I2cPolledTransfers : I2cPollStart(x)
     \/ I2cPolls
     \/ I2cPollBus
  /\ UNCHANGED i2cUpset

-----------------------------------------------------------------------------
(* The sensor subsystem takes a byte in two steps: a pop, and the read of  *)
(* the data register once the FIFO shows that the pop is complete.         *)

SsI2cPollWrite == I2cPollPush \/ I2cPollDrained \/ I2cPollSource

SsI2cPollPop ==
  /\ i2cPoll = "await"
  /\ icRxFlr > 0 \/ icTxAbrt # "none"
  /\ IF icTxAbrt = "none"
     THEN i2cPoll' = "pop" /\ icRxFlr' = icRxFlr - 1
     ELSE i2cPoll' = "failed" /\ UNCHANGED icRxFlr
  /\ UNCHANGED <<i2cDriver, i2cRegs, icTxFifo, icShift, i2cWire, i2cIsr, i2cClient>>

SsI2cPollTake ==
  /\ i2cPoll = "pop" /\ icRxFlr = 0
  /\ i2cReadPos' = i2cReadPos + 1
  /\ i2cPoll' = (IF i2cReadCmdSend = 0 THEN "done" ELSE "read")
  /\ UNCHANGED <<i2cTransfer, i2cWritePos, i2cReadCmdSend, i2cRegs, i2cChip,
                 i2cIsr, i2cClient>>

SsI2cPollRead == I2cPollAsk \/ SsI2cPollPop \/ SsI2cPollTake

SsI2cPolls == SsI2cPollWrite \/ SsI2cPollRead \/ I2cPollEnd

SsI2cPolledNext ==
  /\ \/ \E x \in I2cPolledTransfers : I2cPollStart(x)
     \/ SsI2cPolls
     \/ I2cPollBus
  /\ UNCHANGED i2cUpset

I2cPolledSpec == I2cPolledInit /\ [][I2cPolledNext]_i2cPolledVars
SsI2cPolledSpec == I2cPolledInit /\ [][SsI2cPolledNext]_i2cPolledVars
=============================================================================
