------------------------------ MODULE I2cMaster ------------------------------
(***************************************************************************)
(* Interrupt-driven transfers of the I2C master, qm_i2c.c, over the        *)
(* controller's two FIFOs.  The handler of the interrupt works in steps,   *)
(* between which the controller goes on: it takes a command into its shift *)
(* register, finishes it, is refused (NACK) or aborts.                     *)
(*                                                                         *)
(* A command is a byte to write, named by its place in the transfer, or a  *)
(* byte to read; either may carry the STOP.  The overflow and underflow    *)
(* interrupts are left out: NoOverrun says that none is ever raised.  A    *)
(* client starts its next transfer outside of the handler, never from the  *)
(* callback, and no transfer is empty.                                     *)
(***************************************************************************)
EXTENDS Naturals, Sequences

CONSTANTS
  FIFO_SIZE,    \* QM_I2C_FIFO_SIZE
  TX_TL, RX_TL, \* the thresholds
  I2cMaxLen     \* bound: bytes written and bytes read of a transfer

ASSUME I2cAssumption ==
  /\ FIFO_SIZE \in Nat /\ TX_TL \in Nat /\ RX_TL \in Nat /\ I2cMaxLen \in Nat
  /\ TX_TL < FIFO_SIZE /\ RX_TL < FIFO_SIZE

VARIABLES
  i2cTransfer,    \* i2c_transfer: the client's descriptor
  i2cWritePos,    \* i2c_write_pos: bytes put into the TX FIFO
  i2cReadPos,     \* i2c_read_pos: bytes taken out of the RX FIFO
  i2cReadCmdSend, \* i2c_read_cmd_send: read commands still to be issued
  icMask,         \* the unmasked interrupts
  icTxTl, icRxTl, \* the threshold registers
  icEnabled,      \* the controller is enabled
  icAbort,        \* the ABORT bit of IC_ENABLE
  icTxAbrt,       \* why TX_ABRT is raised: "none", "nack" or "user"
  icTxFifo,       \* the commands in the TX FIFO
  icRxFlr,        \* the number of bytes in the RX FIFO
  icShift,        \* what is in the shift register: "none", "w" or "r"
  i2cWire,        \* ghost: the commands of this transfer taken so far
  i2cPc,          \* where the handler is, or "none"
  i2cRead,        \* its read_buffer_remaining
  i2cWrite,       \* its write_buffer_remaining
  i2cBusy,        \* ghost: started and not reported
  i2cOutcome,     \* ghost: what the callback said, "again" if it was repeated
  i2cUpset        \* ghost: a transfer met what its driver is not made for; none
                  \* of this module does, those by DMA may

i2cDriver == <<i2cTransfer, i2cWritePos, i2cReadPos, i2cReadCmdSend>>
i2cRegs == <<icMask, icTxTl, icRxTl, icEnabled, icAbort, icTxAbrt>>
i2cChip == <<icTxFifo, icRxFlr, icShift, i2cWire>>
i2cIsr == <<i2cPc, i2cRead, i2cWrite>>
i2cClient == <<i2cBusy, i2cOutcome>>
i2cVars == <<i2cDriver, i2cRegs, i2cChip, i2cIsr, i2cClient, i2cUpset>>

I2cTransfers ==
  {x \in [tx : 0 .. I2cMaxLen, rx : 0 .. I2cMaxLen, stop : BOOLEAN] :
     x.tx + x.rx > 0}
I2cCommands == [op : {"w", "r"}, i : 0 .. I2cMaxLen, stop : BOOLEAN]
I2cInterrupts == {"RX_FULL", "TX_EMPTY", "TX_ABRT"}

I2cInit ==
  /\ i2cTransfer = [tx |-> 0, rx |-> 0, stop |-> TRUE]
  /\ i2cWritePos = 0 /\ i2cReadPos = 0 /\ i2cReadCmdSend = 0
  /\ icMask = {} /\ icTxTl = 0 /\ icRxTl = 0
  /\ icEnabled = FALSE /\ icAbort = FALSE /\ icTxAbrt = "none"
  /\ icTxFifo = <<>> /\ icRxFlr = 0 /\ icShift = "none" /\ i2cWire = <<>>
  /\ i2cPc = "none" /\ i2cRead = 0 /\ i2cWrite = 0
  /\ i2cBusy = FALSE /\ i2cOutcome = "none"
  /\ i2cUpset = FALSE

-----------------------------------------------------------------------------
(* Helpers of the driver.                                                  *)

Least(a, b) == IF a <= b THEN a ELSE b

\* The interrupts that reach the processor.
IntrStat ==
  icMask \cap ( (IF icTxAbrt # "none" THEN {"TX_ABRT"} ELSE {})
           \cup (IF icRxFlr > icRxTl THEN {"RX_FULL"} ELSE {})
           \cup (IF icEnabled /\ Len(icTxFifo) <= icTxTl THEN {"TX_EMPTY"}
                                                        ELSE {}) )

\* controller_disable, which waits for the byte in the shift register and
\* empties the FIFOs.
ControllerDisable ==
  /\ icEnabled' = FALSE /\ icAbort' = FALSE
  /\ icTxFifo' = <<>> /\ icRxFlr' = 0 /\ icShift' = "none"

\* Of a transfer that asked for no STOP the controller stays enabled.
DisableOnStop ==
  IF i2cTransfer.stop
  THEN ControllerDisable
  ELSE UNCHANGED <<icEnabled, icAbort, icTxFifo, icRxFlr, icShift>>

I2cCallback(o) ==
  /\ i2cBusy' = FALSE
  /\ i2cOutcome' = (IF i2cBusy THEN o ELSE "again")

\* Mutant: the last byte written carries the STOP of a combined transfer.
WriteCommandsStop(x, wpos, rpos, n) ==
  [k \in 1 .. n |->
     [op |-> "w", i |-> wpos + k, stop |-> x.stop /\ wpos + k = x.tx]]

\* The bytes master_fill_tx_fifo puts into the FIFO: the last one carries the
\* STOP unless something is to be read after it.
WriteCommands(x, wpos, rpos, n) ==
  [k \in 1 .. n |->
     [op |-> "w", i |-> wpos + k,
      stop |-> x.stop /\ wpos + k = x.tx /\ rpos = x.rx]]

\* Mutant: what is left to write is not looked at.
FillCountBlind(x, wpos) == FIFO_SIZE - TX_TL

FillCount(x, wpos) == Least(FIFO_SIZE - TX_TL, x.tx - wpos)

ReadCommands(x, rcmd, n) ==
  [k \in 1 .. n |-> [op |-> "r", i |-> 0, stop |-> x.stop /\ k = rcmd]]

\* Mutant: the bytes still to come are not counted.
ReadCountAll ==
  IF i2cWrite = 0 THEN Least(FIFO_SIZE - Len(icTxFifo), i2cReadCmdSend) ELSE 0

\* How many read commands fit: what was asked for and not received yet has to
\* find room in the RX FIFO.
ReadCount ==
  LET missing == i2cRead - i2cReadCmdSend
      room == FIFO_SIZE - Len(icTxFifo)
  IN IF i2cWrite = 0 /\ room > missing
     THEN Least(room - missing, i2cReadCmdSend)
     ELSE 0

\* Mutant: the threshold is never lowered.
RxThresholdFixed(left, tl) == tl

\* The threshold at which RX_FULL is raised, from what is left to read.
RxThreshold(left, tl) == IF left \in 1 .. RX_TL THEN left - 1 ELSE tl

\* Commands written to a FIFO that an abort holds flushed are lost.
Push(cmds) == icTxFifo' = (IF icTxAbrt = "none" THEN icTxFifo \o cmds ELSE <<>>)

-----------------------------------------------------------------------------
(* The client, outside of interrupts.                                      *)

\* qm_i2c_master_irq_transfer.  All interrupts are masked until it ends.
I2cStart(x) ==
  /\ i2cPc = "none" /\ ~i2cBusy
  /\ i2cTransfer' = x
  /\ i2cReadPos' = 0 /\ i2cReadCmdSend' = x.rx
  /\ icTxTl' = TX_TL
  /\ icRxTl' = RxThreshold(x.rx, RX_TL)
  /\ icEnabled' = TRUE
  /\ icTxAbrt' = "none"
  /\ LET n == FillCount(x, 0) IN
       /\ icTxFifo' = icTxFifo \o WriteCommands(x, 0, 0, n)
       /\ i2cWritePos' = n
  /\ icMask' = I2cInterrupts
  /\ i2cWire' = <<>>
  /\ i2cBusy' = TRUE /\ i2cOutcome' = "none"
  /\ UNCHANGED <<icAbort, icRxFlr, icShift, i2cIsr>>

\* qm_i2c_irq_transfer_terminate sets the ABORT bit.
I2cTerminate ==
  /\ i2cPc = "none"
  /\ icEnabled /\ ~icAbort
  /\ icAbort' = TRUE
  /\ UNCHANGED <<i2cDriver, icMask, icTxTl, icRxTl, icEnabled, icTxAbrt,
                 i2cChip, i2cIsr, i2cClient>>

-----------------------------------------------------------------------------
(* The interrupt handler.                                                  *)

\* TX_ABRT: mask everything, disable the controller, report the failure.  A
\* transfer without STOP leaves TX_ABRT unmasked when it is done, and is then
\* reported again.
IsrAbort ==
  /\ i2cPc = "none" /\ "TX_ABRT" \in IntrStat
  /\ icMask' = {} /\ icTxAbrt' = "none"
  /\ ControllerDisable
  /\ I2cCallback("failed")
  /\ UNCHANGED <<i2cDriver, icTxTl, icRxTl, i2cWire, i2cIsr>>

\* The handler of the master starts: what is left is read once.
IsrEnter ==
  /\ i2cPc = "none"
  /\ IntrStat # {} /\ "TX_ABRT" \notin IntrStat
  /\ i2cRead' = i2cTransfer.rx - i2cReadPos
  /\ i2cWrite' = i2cTransfer.tx - i2cWritePos
  /\ i2cPc' = (IF "RX_FULL" \in IntrStat THEN "rx" ELSE "tx")
  /\ UNCHANGED <<i2cDriver, i2cRegs, i2cChip, i2cClient>>

\* One byte is taken out of the RX FIFO, and the last one is reported.
IsrReadByte ==
  /\ i2cPc = "rx" /\ i2cRead > 0 /\ icRxFlr > 0
  /\ i2cReadPos' = i2cReadPos + 1
  /\ i2cRead' = i2cRead - 1
  /\ IF i2cRead = 1
     THEN /\ icMask' = icMask \ {"RX_FULL", "TX_EMPTY"}
          /\ I2cCallback("done")
          /\ IF i2cTransfer.stop
             THEN ControllerDisable
             ELSE /\ icRxFlr' = icRxFlr - 1
                  /\ UNCHANGED <<icEnabled, icAbort, icTxFifo, icShift>>
     ELSE /\ icRxFlr' = icRxFlr - 1
          /\ UNCHANGED <<icMask, icEnabled, icAbort, icTxFifo, icShift, i2cClient>>
  /\ UNCHANGED <<i2cTransfer, i2cWritePos, i2cReadCmdSend, icTxTl, icRxTl,
                 icTxAbrt, i2cWire, i2cPc, i2cWrite>>

\* Nothing more to take out: the threshold follows what is left.
IsrReadEnd ==
  /\ i2cPc = "rx" /\ (i2cRead = 0 \/ icRxFlr = 0)
  /\ icRxTl' = RxThreshold(i2cRead, icRxTl)
  /\ i2cPc' = "tx"
  /\ UNCHANGED <<i2cDriver, icMask, icTxTl, icEnabled, icAbort, icTxAbrt,
                 i2cChip, i2cRead, i2cWrite, i2cClient>>

IsrNoTx ==
  /\ i2cPc = "tx" /\ "TX_EMPTY" \notin IntrStat
  /\ i2cPc' = "none"
  /\ UNCHANGED <<i2cDriver, i2cRegs, i2cChip, i2cRead, i2cWrite, i2cClient>>

\* When a transfer that wrote something is reported: the FIFO is empty and
\* nothing was left to write or to read when the handler started.
WriteComplete ==
  Len(icTxFifo) = 0 /\ i2cTransfer.tx > 0 /\ i2cWrite = 0 /\ i2cRead = 0

IsrTxDone ==
  /\ i2cPc = "tx" /\ "TX_EMPTY" \in IntrStat /\ WriteComplete
  /\ icMask' = icMask \ {"TX_EMPTY"}
  /\ DisableOnStop
  /\ I2cCallback("done")
  /\ i2cPc' = "reads"
  /\ UNCHANGED <<i2cDriver, icTxTl, icRxTl, icTxAbrt, i2cWire, i2cRead, i2cWrite>>

\* master_fill_tx_fifo
IsrFill ==
  /\ i2cPc = "tx" /\ "TX_EMPTY" \in IntrStat /\ ~WriteComplete
  /\ LET n == FillCount(i2cTransfer, i2cWritePos) IN
       /\ Push(WriteCommands(i2cTransfer, i2cWritePos, i2cReadPos, n))
       /\ i2cWritePos' = i2cWritePos + n
       /\ i2cWrite' = i2cTransfer.tx - (i2cWritePos + n)
  /\ i2cPc' = "reads"
  /\ UNCHANGED <<i2cTransfer, i2cReadPos, i2cReadCmdSend, i2cRegs, icRxFlr,
                 icShift, i2cWire, i2cRead, i2cClient>>

\* The read commands that fit, and the last TX threshold.
IsrReads ==
  /\ i2cPc = "reads"
  /\ Push(ReadCommands(i2cTransfer, i2cReadCmdSend, ReadCount))
  /\ i2cReadCmdSend' = i2cReadCmdSend - ReadCount
  /\ icTxTl' = (IF i2cWrite = 0 /\ i2cRead = 0 THEN 0 ELSE icTxTl)
  /\ i2cPc' = "none"
  /\ UNCHANGED <<i2cTransfer, i2cWritePos, i2cReadPos, icMask, icRxTl, icEnabled,
                 icAbort, icTxAbrt, icRxFlr, icShift, i2cWire, i2cRead, i2cWrite,
                 i2cClient>>

I2cHandler ==
  \/ IsrAbort \/ IsrEnter \/ IsrReadByte \/ IsrReadEnd
  \/ IsrNoTx \/ IsrTxDone \/ IsrFill \/ IsrReads

-----------------------------------------------------------------------------
(* The controller and the bus.                                             *)

BusTake ==
  /\ icEnabled /\ icTxAbrt = "none" /\ icShift = "none" /\ icTxFifo # <<>>
  /\ icShift' = Head(icTxFifo).op
  /\ i2cWire' = Append(i2cWire, Head(icTxFifo))
  /\ icTxFifo' = Tail(icTxFifo)
  /\ UNCHANGED <<i2cDriver, i2cRegs, icRxFlr, i2cIsr, i2cClient>>

BusByte ==
  /\ icShift # "none"
  /\ icRxFlr' = (IF icShift = "r" THEN icRxFlr + 1 ELSE icRxFlr)
  /\ icShift' = "none"
  /\ UNCHANGED <<i2cDriver, i2cRegs, icTxFifo, i2cWire, i2cIsr, i2cClient>>

\* The other side refuses a byte written to it, or its address.
BusNack ==
  /\ icShift = "w" \/ (icShift = "r" /\ Len(i2cWire) = 1)
  /\ icShift' = "none" /\ icTxFifo' = <<>> /\ icTxAbrt' = "nack"
  /\ UNCHANGED <<i2cDriver, icMask, icTxTl, icRxTl, icEnabled, icAbort,
                 icRxFlr, i2cWire, i2cIsr, i2cClient>>

\* The controller obeys the ABORT bit between two bytes.
BusAbort ==
  /\ icAbort /\ icShift = "none"
  /\ icAbort' = FALSE /\ icTxFifo' = <<>> /\ icTxAbrt' = "user"
  /\ UNCHANGED <<i2cDriver, icMask, icTxTl, icRxTl, icEnabled, icRxFlr, icShift,
                 i2cWire, i2cIsr, i2cClient>>

I2cBus == BusTake \/ BusByte \/ BusNack \/ BusAbort

I2cNext ==
  /\ \/ \E x \in I2cTransfers : I2cStart(x)
     \/ I2cTerminate
     \/ I2cHandler
     \/ I2cBus
  /\ UNCHANGED i2cUpset

I2cSpec == I2cInit /\ [][I2cNext]_i2cVars

\* The interrupt is served, and the controller works off its FIFO.
I2cFairness ==
  /\ WF_i2cVars(I2cHandler /\ UNCHANGED i2cUpset)
  /\ WF_i2cVars(I2cBus /\ UNCHANGED i2cUpset)

-----------------------------------------------------------------------------
(* Properties.                                                             *)

I2cTypeOK ==
  /\ i2cTransfer \in [tx : 0 .. I2cMaxLen, rx : 0 .. I2cMaxLen, stop : BOOLEAN]
  /\ i2cWritePos \in 0 .. I2cMaxLen /\ i2cReadPos \in 0 .. I2cMaxLen
  /\ i2cReadCmdSend \in 0 .. I2cMaxLen
  /\ icMask \subseteq I2cInterrupts
  /\ icTxTl \in 0 .. TX_TL /\ icRxTl \in 0 .. RX_TL
  /\ icEnabled \in BOOLEAN /\ icAbort \in BOOLEAN
  /\ icTxAbrt \in {"none", "nack", "user"}
  /\ icTxFifo \in Seq(I2cCommands) /\ i2cWire \in Seq(I2cCommands)
  /\ icRxFlr \in Nat
  /\ icShift \in {"none", "w", "r"}
  /\ i2cPc \in {"none", "rx", "tx", "reads"}
  /\ i2cRead \in 0 .. I2cMaxLen /\ i2cWrite \in 0 .. I2cMaxLen
  /\ i2cBusy \in BOOLEAN
  /\ i2cOutcome \in {"none", "done", "failed", "again"}
  /\ i2cUpset \in BOOLEAN

\* The commands of a transfer: its bytes in order, then the reads, and the
\* STOP on the very last one.
I2cProgram(x) ==
  [k \in 1 .. x.tx + x.rx |->
     [op |-> IF k <= x.tx THEN "w" ELSE "r",
      i |-> IF k <= x.tx THEN k ELSE 0,
      stop |-> x.stop /\ k = x.tx + x.rx]]

\* What the bus has seen and the FIFO holds is the beginning of the transfer:
\* no byte is skipped, repeated or overtaken over any number of interrupts,
\* and no STOP cuts it.
BusInOrder ==
  i2cUpset \/
  LET issued == i2cWire \o icTxFifo
  IN /\ Len(issued) <= i2cTransfer.tx + i2cTransfer.rx
     /\ \A k \in 1 .. Len(issued) : issued[k] = I2cProgram(i2cTransfer)[k]

\* The driver never writes into a full FIFO nor asks for a byte it has no room
\* for: TX_OVER and RX_OVER are never raised (qm_i2c.c:553-578).
NoOverrun ==
  LET reads == i2cTransfer.rx - i2cReadCmdSend - i2cReadPos
  IN Len(icTxFifo) <= FIFO_SIZE /\ (i2cBusy => reads <= FIFO_SIZE)

\* Bytes moved: those written to the bus and those read from the FIFO.
I2cMoved ==
  Least(Len(i2cWire), i2cTransfer.tx) + i2cReadPos

\* The controller has aborted and the handler has not looked at it: it runs, or
\* the transfer has been reported.
AbortMissed == icTxAbrt # "none" /\ (i2cPc # "none" \/ ~i2cBusy)

Contract == INSTANCE Transfer WITH
  busy <- i2cBusy, size <- i2cTransfer.tx + i2cTransfer.rx,
  moved <- I2cMoved, outcome <- i2cOutcome,
  missed <- AbortMissed, disturbed <- i2cUpset

\* Through any interleaving of interrupts, refusals and aborts the client is
\* called back once, and with "done" only after every byte has moved; only an
\* abort while the handler runs, which has looked for one at its start, or
\* after the end of a transfer without STOP may come too late for that, and
\* is then reported in a second callback or not at all.
I2cImplements == Contract!Spec

\* Every transfer is reported: thresholds and masks never leave it waiting.
I2cCompletes == i2cBusy ~> ~i2cBusy
=============================================================================
