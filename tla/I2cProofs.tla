------------------------------ MODULE I2cProofs ------------------------------
(***************************************************************************)
(* The I2C masters, driven by interrupts, polled or by DMA, put every      *)
(* transfer on the bus in order and keep the contract of Transfer, for any *)
(* depth of the FIFOs, any thresholds and any lengths; the first two never *)
(* overrun a FIFO, and the SCL timing accepted is the bus's.  The          *)
(* inductive invariant counts the commands: those issued are on the wire   *)
(* or in the FIFO, and the bytes read are not more than the read commands  *)
(* the bus has seen.                                                       *)
(***************************************************************************)
EXTENDS I2cPolled, I2cDma, I2cTiming, SequenceTheorems, TLAPS

Issued == i2cWritePos + (i2cTransfer.rx - i2cReadCmdSend)

\* The read commands the bus has seen.
ReadsOnWire ==
  IF Len(i2cWire) > i2cTransfer.tx THEN Len(i2cWire) - i2cTransfer.tx ELSE 0

\* The byte being read.
Incoming == IF icShift = "r" THEN 1 ELSE 0

TransferOK ==
  /\ i2cTransfer \in [tx : 0 .. I2cMaxLen, rx : 0 .. I2cMaxLen, stop : BOOLEAN]
  /\ i2cTransfer.tx \in 0 .. I2cMaxLen /\ i2cTransfer.rx \in 0 .. I2cMaxLen

PositionsOK ==
  /\ i2cWritePos \in 0 .. i2cTransfer.tx
  /\ i2cReadPos \in 0 .. i2cTransfer.rx
  /\ i2cReadCmdSend \in 0 .. i2cTransfer.rx
  /\ icRxFlr \in Nat

RegistersOK ==
  /\ icTxTl \in 0 .. TX_TL /\ icRxTl \in 0 .. RX_TL
  /\ i2cRead \in 0 .. I2cMaxLen /\ i2cWrite \in 0 .. I2cMaxLen

NamesOK ==
  /\ icMask \subseteq I2cInterrupts
  /\ icTxAbrt \in {"none", "nack", "user"}
  /\ icShift \in {"none", "w", "r"}
  /\ i2cPc \in {"none", "rx", "tx", "reads"}
  /\ i2cOutcome \in {"none", "done", "failed", "again"}

FlagsOK == icEnabled \in BOOLEAN /\ icAbort \in BOOLEAN /\ i2cBusy \in BOOLEAN

\* What was issued is the beginning of the transfer's program.
InOrder ==
  /\ icTxFifo \in Seq(I2cCommands) /\ i2cWire \in Seq(I2cCommands)
  /\ Len(i2cWire) + Len(icTxFifo) <= Issued
  /\ \A k \in 1 .. Len(i2cWire) : i2cWire[k] = I2cProgram(i2cTransfer)[k]
  /\ \A k \in 1 .. Len(icTxFifo) :
       icTxFifo[k] = I2cProgram(i2cTransfer)[Len(i2cWire) + k]

\* What is on the wire and in the FIFO is the beginning of the program.
Ordered ==
  /\ icTxFifo \in Seq(I2cCommands) /\ i2cWire \in Seq(I2cCommands)
  /\ Len(i2cWire) + Len(icTxFifo) <= i2cTransfer.tx + i2cTransfer.rx
  /\ \A k \in 1 .. Len(i2cWire) : i2cWire[k] = I2cProgram(i2cTransfer)[k]
  /\ \A k \in 1 .. Len(icTxFifo) :
       icTxFifo[k] = I2cProgram(i2cTransfer)[Len(i2cWire) + k]

\* The commands issued, and the bytes read.
CountSound ==
  /\ i2cWritePos < i2cTransfer.tx => i2cReadCmdSend = i2cTransfer.rx
  /\ i2cBusy /\ icTxAbrt = "none" => Len(i2cWire) + Len(icTxFifo) = Issued
  /\ icTxAbrt # "none" => icTxFifo = <<>>
  /\ i2cReadPos + icRxFlr + Incoming <= ReadsOnWire
  /\ NoOverrun

\* With no transfer nothing is queued, and after one with a STOP the
\* controller is off.
IdleSound ==
  ~i2cBusy =>
    /\ "TX_EMPTY" \notin icMask
    /\ icTxFifo = <<>> /\ icRxFlr = 0 /\ icShift # "r"
    /\ i2cPc # "none" =>
         /\ i2cReadCmdSend = 0
         /\ i2cWritePos = i2cTransfer.tx /\ i2cReadPos = i2cTransfer.rx
    /\ i2cTransfer.stop => ~icEnabled /\ ~icAbort /\ icShift = "none"

BusySound ==
  /\ i2cBusy => icMask = I2cInterrupts /\ icEnabled /\ i2cOutcome = "none"
  /\ i2cPc # "none" =>
       /\ i2cRead = i2cTransfer.rx - i2cReadPos
       /\ i2cWrite = i2cTransfer.tx - i2cWritePos

I2cInv ==
  /\ TransferOK /\ PositionsOK /\ RegistersOK /\ NamesOK /\ FlagsOK
  /\ InOrder /\ CountSound /\ IdleSound /\ BusySound

LEMMA ProgramCommands ==
  ASSUME NEW x \in [tx : 0 .. I2cMaxLen, rx : 0 .. I2cMaxLen, stop : BOOLEAN],
         NEW k \in 1 .. x.tx + x.rx
  PROVE  /\ k <= x.tx =>
              I2cProgram(x)[k] = [op |-> "w", i |-> k, stop |-> x.stop /\ k = x.tx + x.rx]
         /\ k > x.tx =>
              I2cProgram(x)[k] = [op |-> "r", i |-> 0, stop |-> x.stop /\ k = x.tx + x.rx]
         /\ I2cProgram(x)[k] \in I2cCommands
  BY I2cAssumption DEF I2cProgram, I2cCommands

LEMMA IssuedBounds ==
  ASSUME TransferOK, PositionsOK
  PROVE  Issued \in Nat /\ Issued <= i2cTransfer.tx + i2cTransfer.rx
  BY DEF TransferOK, PositionsOK, Issued

LEMMA IssuedBoundsNext ==
  ASSUME TransferOK, PositionsOK', UNCHANGED i2cTransfer
  PROVE  Issued' \in Nat /\ Issued' <= i2cTransfer.tx + i2cTransfer.rx
  BY DEF TransferOK, PositionsOK, Issued

LEMMA InOrderOrdered ==
  ASSUME TransferOK, PositionsOK, InOrder
  PROVE  Ordered
<1>1. Issued \in Nat /\ Issued <= i2cTransfer.tx + i2cTransfer.rx
  BY IssuedBounds
<1>2. Len(i2cWire) \in Nat /\ Len(icTxFifo) \in Nat
  BY LenProperties DEF InOrder
<1>. QED
  BY <1>1, <1>2 DEF InOrder, Ordered, TransferOK

\* A queue that is emptied leaves what the wire has seen.
LEMMA EmptiedInOrder ==
  ASSUME InOrder, TransferOK, PositionsOK, PositionsOK',
         UNCHANGED <<i2cTransfer, i2cWire>>, icTxFifo' = <<>>,
         Issued <= Issued'
  PROVE  InOrder'
<1>1. Len(i2cWire) \in Nat /\ Len(icTxFifo) \in Nat
  BY LenProperties DEF InOrder
<1>2. Issued \in Nat /\ Issued' \in Nat
  BY SMTT(30), I2cAssumption DEF TransferOK, PositionsOK, Issued
<1>3. Len(i2cWire)' + Len(icTxFifo)' <= Issued'
  BY <1>2 DEF InOrder
<1>. QED
  BY <1>3 DEF InOrder

\* Commands that continue the program keep the order.
LEMMA PushedInOrder ==
  ASSUME InOrder, TransferOK, PositionsOK, PositionsOK',
         UNCHANGED <<i2cTransfer, i2cWire>>,
         NEW n \in Nat, NEW cmds, cmds = [k \in 1 .. n |-> cmds[k]],
         icTxFifo' = icTxFifo \o cmds,
         Issued' = Issued + n,
         n > 0 => Len(i2cWire) + Len(icTxFifo) = Issued,
         \A k \in 1 .. n : cmds[k] = I2cProgram(i2cTransfer)[Issued + k]
  PROVE  InOrder' /\ Len(icTxFifo') = Len(icTxFifo) + n
<1>1. Issued \in Nat /\ Issued' <= i2cTransfer.tx + i2cTransfer.rx
  BY IssuedBounds, IssuedBoundsNext
<1>2. \A k \in 1 .. n : Issued + k \in 1 .. i2cTransfer.tx + i2cTransfer.rx
  BY <1>1 DEF TransferOK
<1>3. \A k \in 1 .. n : cmds[k] \in I2cCommands
  BY <1>2, ProgramCommands DEF TransferOK
<1>4. cmds \in Seq(I2cCommands) /\ Len(cmds) = n
  BY SMTT(30), <1>3
<1>5. /\ icTxFifo' \in Seq(I2cCommands)
      /\ Len(icTxFifo') = Len(icTxFifo) + n
      /\ \A k \in 1 .. Len(icTxFifo) + n :
           icTxFifo'[k] = IF k <= Len(icTxFifo) THEN icTxFifo[k]
                          ELSE cmds[k - Len(icTxFifo)]
  BY <1>4 DEF InOrder
<1>6. \A k \in 1 .. Len(icTxFifo') :
        icTxFifo'[k] = I2cProgram(i2cTransfer)[Len(i2cWire) + k]
  <2>. SUFFICES ASSUME NEW k \in 1 .. Len(icTxFifo')
                PROVE  icTxFifo'[k] = I2cProgram(i2cTransfer)[Len(i2cWire) + k]
    OBVIOUS
  <2>1. CASE k <= Len(icTxFifo)
    BY <2>1 DEF InOrder
  <2>2. CASE k > Len(icTxFifo)
    <3>1. /\ k - Len(icTxFifo) \in 1 .. n
          /\ Len(i2cWire) + k = Issued + (k - Len(icTxFifo))
      BY <2>2
    <3>. QED
      BY <3>1
  <2>. QED
    BY <2>1, <2>2
<1>7. Len(i2cWire)' + Len(icTxFifo)' <= Issued'
  BY <1>1 DEF InOrder
<1>. QED
  BY <1>5, <1>6, <1>7 DEF InOrder

LEMMA I2cInitInv == I2cInit => I2cInv
<1>. SUFFICES ASSUME I2cInit PROVE I2cInv
  OBVIOUS
<1>1. TransferOK /\ PositionsOK /\ RegistersOK
  BY I2cAssumption DEF I2cInit, TransferOK, PositionsOK, RegistersOK
<1>2. NamesOK
  BY DEF I2cInit, NamesOK
<1>3. FlagsOK
  BY DEF I2cInit, FlagsOK
<1>4. InOrder /\ CountSound /\ IdleSound /\ BusySound
  BY I2cAssumption DEF I2cInit, InOrder, CountSound, IdleSound, BusySound, Issued, ReadsOnWire, Incoming, NoOverrun
<1>. QED
  BY <1>1, <1>2, <1>3, <1>4 DEF I2cInv

LEMMA Lengths ==
  ASSUME InOrder
  PROVE  Len(i2cWire) \in Nat /\ Len(icTxFifo) \in Nat
  BY LenProperties DEF InOrder

LEMMA I2cStartKeeps ==
  ASSUME I2cInv, NEW x \in I2cTransfers, I2cStart(x)
  PROVE  I2cInv'
<1>. DEFINE n == FillCount(x, 0)
<1>1. /\ x \in [tx : 0 .. I2cMaxLen, rx : 0 .. I2cMaxLen, stop : BOOLEAN]
      /\ x.tx \in 0 .. I2cMaxLen /\ x.rx \in 0 .. I2cMaxLen
  BY DEF I2cTransfers
<1>2. n \in 0 .. x.tx /\ n <= FIFO_SIZE
  BY <1>1, I2cAssumption DEF FillCount, Least
<1>3. /\ i2cTransfer' = x
      /\ i2cWritePos' = n /\ i2cReadPos' = 0 /\ i2cReadCmdSend' = x.rx
      /\ icTxFifo' = icTxFifo \o WriteCommands(x, 0, 0, n) /\ i2cWire' = <<>>
      /\ i2cPc = "none" /\ i2cBusy' /\ i2cOutcome' = "none" /\ icTxAbrt' = "none"
      /\ icMask' = I2cInterrupts /\ icEnabled'
      /\ UNCHANGED <<icRxFlr, icShift, i2cPc, i2cRead, i2cWrite>>
  BY DEF I2cStart, i2cIsr
<1>4. icTxFifo = <<>> /\ icRxFlr = 0 /\ icShift # "r"
  BY DEF I2cStart, I2cInv, IdleSound
<1>5. TransferOK'
  BY <1>1, <1>3 DEF TransferOK
<1>6. PositionsOK'
  BY <1>1, <1>2, <1>3, <1>4 DEF PositionsOK
<1>7. RegistersOK'
  <2>1. (icTxTl \in 0 .. TX_TL)' /\ (icRxTl \in 0 .. RX_TL)'
    BY I2cAssumption DEF I2cStart, RxThreshold
  <2>. QED
    BY <1>3, <2>1 DEF I2cInv, RegistersOK
<1>8. NamesOK'
  BY <1>3 DEF I2cInv, NamesOK
<1>9. FlagsOK'
  BY DEF I2cInv, FlagsOK, I2cStart
<1>. DEFINE c == WriteCommands(x, 0, 0, n)
<1>10. /\ c = [k \in 1 .. n |-> [op |-> "w", i |-> k, stop |-> x.stop /\ k = x.tx /\ x.rx = 0]]
  BY DEF WriteCommands
<1>11. \A k \in 1 .. n : c[k] \in I2cCommands /\ c[k] = I2cProgram(x)[k]
  <2>. SUFFICES ASSUME NEW k \in 1 .. n
                PROVE  c[k] \in I2cCommands /\ c[k] = I2cProgram(x)[k]
    OBVIOUS
  <2>1. k \in 1 .. x.tx + x.rx /\ k <= x.tx
    BY <1>1, <1>2
  <2>2. (x.stop /\ k = x.tx /\ x.rx = 0) = (x.stop /\ k = x.tx + x.rx)
    BY <1>1, <2>1
  <2>3. c[k] = [op |-> "w", i |-> k, stop |-> x.stop /\ k = x.tx /\ x.rx = 0]
    BY <1>10
  <2>. QED
    <3>1. I2cProgram(x)[k] =
            [op |-> "w", i |-> k, stop |-> x.stop /\ k = x.tx + x.rx]
          /\ I2cProgram(x)[k] \in I2cCommands
      BY <1>1, <2>1, ProgramCommands
    <3>. QED
      BY <2>2, <2>3, <3>1
<1>12. c \in Seq(I2cCommands) /\ Len(c) = n
  BY <1>2, <1>10, <1>11
<1>13. icTxFifo' = c
  BY <1>3, <1>4
<1>. HIDE DEF c, n
<1>14. InOrder'
  <2>1. Len(i2cWire)' = 0 /\ (i2cWire \in Seq(I2cCommands))'
    BY <1>3, EmptySeq
  <2>2. Issued' = n
    BY <1>1, <1>2, <1>3 DEF Issued
  <2>3. \A k \in 1 .. Len(icTxFifo') :
          icTxFifo'[k] = I2cProgram(i2cTransfer')[Len(i2cWire)' + k]
    BY <1>3, <1>11, <1>12, <1>13
  <2>. QED
    BY <1>12, <1>13, <2>1, <2>2, <2>3 DEF InOrder
<1>15. CountSound'
  BY <1>1, <1>2, <1>3, <1>4, <1>12, <1>13, I2cAssumption DEF CountSound,
     Issued, ReadsOnWire, Incoming, NoOverrun
<1>16. IdleSound' /\ BusySound'
  BY <1>3 DEF IdleSound, BusySound
<1>. QED
  BY <1>5, <1>6, <1>7, <1>8, <1>9, <1>14, <1>15, <1>16 DEF I2cInv

LEMMA SsEnterKeeps ==
  ASSUME I2cInv, NEW cause \in I2cInterrupts, NEW pc \in {"rx", "tx"},
         SsEnter(cause, pc)
  PROVE  I2cInv'
<1>0. Len(i2cWire) \in Nat /\ Len(icTxFifo) \in Nat
  BY Lengths DEF I2cInv
<1>1. TransferOK'
  BY DEF I2cInv, TransferOK, SsEnter, i2cDriver
<1>2. PositionsOK'
  BY <1>0 DEF I2cInv, PositionsOK, SsEnter, i2cDriver, i2cChip
<1>3. RegistersOK'
  BY I2cAssumption DEF I2cInv, RegistersOK, TransferOK, PositionsOK, SsEnter,
     i2cRegs
<1>4. NamesOK'
  BY DEF I2cInv, NamesOK, SsEnter, i2cRegs, i2cChip, i2cClient
<1>5. FlagsOK'
  BY DEF I2cInv, FlagsOK, SsEnter, i2cRegs, i2cClient
<1>6. InOrder'
  BY DEF I2cInv, InOrder, Issued, SsEnter, i2cDriver, i2cChip
<1>7. CountSound'
  BY <1>6 DEF I2cInv, CountSound, NoOverrun, Issued, ReadsOnWire, Incoming,
     SsEnter, i2cDriver, i2cRegs, i2cChip, i2cClient
<1>8. IdleSound'
  BY DEF I2cInv, RegistersOK, IdleSound, SsEnter, i2cClient, IntrStat
<1>9. BusySound'
  BY DEF I2cInv, BusySound, SsEnter, i2cDriver, i2cRegs, i2cClient
<1>. QED
  BY <1>1, <1>2, <1>3, <1>4, <1>5, <1>6, <1>7, <1>8, <1>9 DEF I2cInv

LEMMA I2cTerminateKeeps ==
  ASSUME I2cInv, I2cTerminate
  PROVE  I2cInv'
<1>0. Len(i2cWire) \in Nat /\ Len(icTxFifo) \in Nat
  BY Lengths DEF I2cInv
<1>1. TransferOK'
  BY DEF I2cInv, TransferOK, I2cTerminate, i2cDriver
<1>2. PositionsOK'
  BY <1>0 DEF I2cInv, PositionsOK, I2cTerminate, i2cDriver, i2cChip
<1>3. RegistersOK'
  BY DEF I2cInv, RegistersOK, I2cTerminate, i2cIsr
<1>4. NamesOK'
  BY DEF I2cInv, NamesOK, I2cTerminate, i2cChip, i2cIsr, i2cClient
<1>5. FlagsOK'
  BY DEF I2cInv, FlagsOK, I2cTerminate, i2cRegs, i2cClient
<1>6. InOrder'
  BY DEF I2cInv, InOrder, Issued, I2cTerminate, i2cDriver, i2cChip
<1>7. CountSound'
  BY I2cAssumption, <1>0, <1>1, <1>2, <1>3, <1>6 DEF I2cInv, TransferOK,
     PositionsOK, CountSound, IdleSound, NoOverrun, Issued,
     ReadsOnWire, Incoming, I2cTerminate, i2cDriver, i2cRegs, i2cChip,
     i2cClient, ControllerDisable, DisableOnStop, I2cCallback
<1>8. IdleSound'
  BY DEF I2cInv, IdleSound, I2cTerminate, i2cDriver, i2cChip, i2cIsr,
     i2cClient
<1>9. BusySound'
  BY DEF I2cInv, BusySound, I2cTerminate, i2cIsr, i2cClient
<1>. QED
  BY <1>1, <1>2, <1>3, <1>4, <1>5, <1>6, <1>7, <1>8, <1>9 DEF I2cInv

LEMMA IsrAbortKeeps ==
  ASSUME I2cInv, IsrAbort
  PROVE  I2cInv'
<1>0. Len(i2cWire) \in Nat /\ Len(icTxFifo) \in Nat
  BY Lengths DEF I2cInv
<1>1. TransferOK'
  BY DEF I2cInv, TransferOK, IsrAbort, i2cDriver
<1>2. PositionsOK'
  BY <1>0 DEF I2cInv, PositionsOK, IsrAbort, i2cDriver, i2cChip,
     ControllerDisable, DisableOnStop
<1>3. RegistersOK'
  BY DEF I2cInv, RegistersOK, IsrAbort, i2cIsr
<1>4. NamesOK'
  BY DEF I2cInv, NamesOK, IsrAbort, i2cIsr, i2cClient, ControllerDisable,
     I2cCallback
<1>5. FlagsOK'
  BY DEF I2cInv, FlagsOK, IsrAbort, ControllerDisable, I2cCallback, i2cClient
<1>6. InOrder'
  BY <1>1, <1>2, EmptiedInOrder DEF I2cInv, RegistersOK, NamesOK, FlagsOK,
     InOrder, CountSound, IdleSound, BusySound, NoOverrun, Issued,
     ReadsOnWire, Incoming, IsrAbort, i2cDriver, i2cChip, I2cInterrupts,
     ControllerDisable, I2cCallback, DisableOnStop, IntrStat, RxThreshold,
     Least, WriteComplete, I2cTransfers
<1>7. CountSound'
  BY I2cAssumption, <1>0, <1>1, <1>2, <1>3, <1>6 DEF I2cInv, TransferOK,
     PositionsOK, RegistersOK, NamesOK, CountSound, NoOverrun, ReadsOnWire,
     Incoming, IsrAbort, i2cDriver, i2cClient, ControllerDisable, I2cCallback,
     IntrStat
<1>8. IdleSound'
  BY DEF IdleSound, IsrAbort, i2cIsr, ControllerDisable
<1>9. BusySound'
  BY DEF BusySound, IsrAbort, i2cIsr, i2cClient, I2cCallback
<1>. QED
  BY <1>1, <1>2, <1>3, <1>4, <1>5, <1>6, <1>7, <1>8, <1>9 DEF I2cInv

LEMMA IsrEnterKeeps ==
  ASSUME I2cInv, IsrEnter
  PROVE  I2cInv'
<1>0. Len(i2cWire) \in Nat /\ Len(icTxFifo) \in Nat
  BY Lengths DEF I2cInv
<1>1. TransferOK'
  BY DEF I2cInv, TransferOK, IsrEnter, i2cDriver
<1>2. PositionsOK'
  BY <1>0 DEF I2cInv, PositionsOK, IsrEnter, i2cDriver, i2cChip,
     ControllerDisable, DisableOnStop
<1>3. RegistersOK'
  BY I2cAssumption DEF I2cInv, RegistersOK, TransferOK, PositionsOK, IsrEnter,
     i2cRegs
<1>4. NamesOK'
  BY DEF I2cInv, NamesOK, IsrEnter, i2cRegs, i2cChip, i2cClient
<1>5. FlagsOK'
  BY DEF I2cInv, FlagsOK, IsrEnter, i2cRegs, i2cClient
<1>6. InOrder'
  BY DEF I2cInv, InOrder, Issued, IsrEnter, i2cDriver, i2cChip
<1>7. CountSound'
  BY I2cAssumption, <1>0, <1>1, <1>2, <1>3, <1>6 DEF I2cInv, TransferOK,
     PositionsOK, CountSound, IdleSound, NoOverrun, Issued,
     ReadsOnWire, Incoming, IsrEnter, i2cDriver, i2cRegs, i2cChip, i2cClient,
     ControllerDisable, DisableOnStop, I2cCallback
<1>8. IdleSound'
  BY DEF I2cInv, RegistersOK, IdleSound, IsrEnter, i2cClient, IntrStat
<1>9. BusySound'
  BY DEF I2cInv, BusySound, IsrEnter, i2cDriver, i2cRegs, i2cClient
<1>. QED
  BY <1>1, <1>2, <1>3, <1>4, <1>5, <1>6, <1>7, <1>8, <1>9 DEF I2cInv

LEMMA IsrReadByteKeeps ==
  ASSUME I2cInv, IsrReadByte
  PROVE  I2cInv'
<1>1. /\ i2cTransfer.tx \in Nat /\ i2cTransfer.rx \in Nat /\ i2cTransfer.rx <= I2cMaxLen
      /\ i2cReadPos \in Nat /\ icRxFlr \in Nat /\ icRxFlr > 0
      /\ i2cReadCmdSend \in Nat /\ i2cReadCmdSend <= i2cTransfer.rx
      /\ i2cWritePos \in Nat /\ i2cWritePos <= i2cTransfer.tx
  BY DEF I2cInv, TransferOK, PositionsOK, IsrReadByte
<1>2. /\ i2cBusy /\ i2cReadPos < i2cTransfer.rx
      /\ i2cRead = i2cTransfer.rx - i2cReadPos
      /\ i2cWrite = i2cTransfer.tx - i2cWritePos
  <2>1. i2cPc = "rx" /\ i2cRead > 0
    BY DEF IsrReadByte
  <2>2. /\ i2cRead = i2cTransfer.rx - i2cReadPos
        /\ i2cWrite = i2cTransfer.tx - i2cWritePos
    BY <2>1 DEF I2cInv, BusySound
  <2>3. i2cReadPos < i2cTransfer.rx
    BY <1>1, <2>1, <2>2
  <2>. QED
    BY <1>1, <2>2, <2>3 DEF I2cInv, IdleSound
<1>3. /\ i2cPc = "rx" /\ i2cReadPos' = i2cReadPos + 1 /\ i2cRead' = i2cRead - 1
      /\ UNCHANGED <<i2cTransfer, i2cWritePos, i2cReadCmdSend, icTxTl, icRxTl,
                     icTxAbrt, i2cWire, i2cPc, i2cWrite>>
  BY DEF IsrReadByte
<1>4. Len(i2cWire) \in Nat /\ Len(icTxFifo) \in Nat /\ Issued' = Issued
  BY <1>3 DEF Issued
<1>5. TransferOK' /\ RegistersOK'
  <2>1. i2cRead' \in 0 .. I2cMaxLen
    BY <1>1, <1>2, <1>3, I2cAssumption
  <2>. QED
    BY <1>3, <2>1 DEF I2cInv, TransferOK, RegistersOK
<1>6. Issued \in Nat /\ i2cReadPos + icRxFlr + Incoming <= ReadsOnWire
  BY <1>1 DEF I2cInv, CountSound, Issued
<1>7. CASE i2cRead # 1
  <2>1. /\ icRxFlr' = icRxFlr - 1
        /\ UNCHANGED <<icMask, icEnabled, icAbort, icTxFifo, icShift, i2cBusy, i2cOutcome>>
    BY <1>7 DEF IsrReadByte, i2cClient
  <2>2. PositionsOK'
    BY <1>1, <1>2, <1>3, <2>1 DEF PositionsOK
  <2>3. NamesOK' /\ FlagsOK' /\ InOrder'
    BY <1>3, <1>4, <2>1 DEF I2cInv, NamesOK, FlagsOK, InOrder
  <2>4. (i2cReadPos + icRxFlr + Incoming <= ReadsOnWire)'
    BY <1>1, <1>3, <1>6, <2>1 DEF ReadsOnWire, Incoming
  <2>5. NoOverrun'
    BY <1>1, <1>3, <2>1, I2cAssumption DEF I2cInv, CountSound, NoOverrun
  <2>6. CountSound'
    BY <1>3, <1>4, <2>1, <2>4, <2>5 DEF I2cInv, CountSound
  <2>7. IdleSound'
    BY <1>2, <1>3, <2>1 DEF I2cInv, IdleSound
  <2>8. BusySound'
    BY <1>1, <1>3, <2>1 DEF I2cInv, BusySound
  <2>. QED
    BY <1>5, <2>2, <2>3, <2>6, <2>7, <2>8 DEF I2cInv
<1>8. CASE i2cRead = 1
  <2>1. /\ icMask' = icMask \ {"RX_FULL", "TX_EMPTY"}
        /\ ~i2cBusy' /\ i2cOutcome' = "done"
        /\ IF i2cTransfer.stop
           THEN ControllerDisable
           ELSE /\ icRxFlr' = icRxFlr - 1
                /\ UNCHANGED <<icEnabled, icAbort, icTxFifo, icShift>>
    BY <1>2, <1>8 DEF IsrReadByte, I2cCallback
  \* The last byte was read: everything was issued, and nothing is queued.
  <2>2. /\ i2cReadPos + 1 = i2cTransfer.rx /\ icRxFlr = 1 /\ Incoming = 0
        /\ i2cReadCmdSend = 0 /\ i2cWritePos = i2cTransfer.tx
        /\ Len(icTxFifo) = 0 /\ Len(i2cWire) = i2cTransfer.tx + i2cTransfer.rx
    <3>1. /\ Issued <= i2cTransfer.tx + i2cTransfer.rx
          /\ Len(i2cWire) + Len(icTxFifo) <= Issued
      BY <1>1 DEF I2cInv, InOrder, Issued
    <3>2. Incoming \in {0, 1}
      BY DEF Incoming
    <3>3. i2cReadPos + 1 = i2cTransfer.rx
      BY <1>1, <1>2, <1>8
    <3>4. ReadsOnWire >= i2cTransfer.rx /\ ReadsOnWire \in Nat
      BY <1>1, <1>6, <3>2, <3>3 DEF ReadsOnWire
    <3>5. Len(i2cWire) >= i2cTransfer.tx + i2cTransfer.rx
      BY <1>1, <1>2, <3>4 DEF ReadsOnWire
    <3>6. Len(icTxFifo) = 0 /\ Len(i2cWire) = i2cTransfer.tx + i2cTransfer.rx
      BY <1>1, <1>6, <3>1, <3>5
    <3>7. ReadsOnWire = i2cTransfer.rx
      BY <1>1, <3>6 DEF ReadsOnWire
    <3>8. i2cReadCmdSend = 0 /\ i2cWritePos = i2cTransfer.tx
      BY <1>1, <3>1, <3>6 DEF Issued
    <3>. QED
      BY <1>1, <1>6, <3>2, <3>3, <3>6, <3>7, <3>8
  <2>3. icTxFifo = <<>> /\ icShift # "r"
    BY <2>2 DEF Incoming
  <2>4. /\ icTxFifo' = <<>>
        /\ icRxFlr' = 0
        /\ icShift' # "r"
        /\ icShift' \in {"none", "w", "r"}
    BY <2>1, <2>2, <2>3 DEF ControllerDisable, I2cInv, NamesOK
  <2>5. PositionsOK'
    BY <1>1, <1>3, <2>2, <2>4 DEF PositionsOK
  <2>6. NamesOK'
    BY <1>3, <2>1, <2>4 DEF I2cInv, NamesOK
  <2>7. FlagsOK'
    BY DEF I2cInv, FlagsOK, IsrReadByte, ControllerDisable, I2cCallback,
       i2cClient
  <2>8. InOrder'
    BY <1>3, <1>4, <1>6, <2>4, <2>5, EmptiedInOrder DEF I2cInv
  <2>9. CountSound'
    <3>1. (i2cReadPos + icRxFlr + Incoming <= ReadsOnWire)'
      BY <1>1, <1>3, <2>2, <2>4 DEF ReadsOnWire, Incoming
    <3>2. NoOverrun'
      BY <2>1, <2>4, I2cAssumption DEF NoOverrun
    <3>. QED
      BY <1>1, <1>3, <2>1, <2>2, <2>4, <3>1, <3>2 DEF CountSound
  <2>10. IdleSound'
    BY <1>3, <2>1, <2>2, <2>4 DEF IdleSound, ControllerDisable
  <2>11. BusySound'
    BY <1>1, <1>2, <1>3, <2>1 DEF BusySound
  <2>. QED
    BY <1>5, <2>5, <2>6, <2>7, <2>8, <2>9, <2>10, <2>11 DEF I2cInv
<1>. QED
  BY <1>7, <1>8

LEMMA IsrReadEndKeeps ==
  ASSUME I2cInv, IsrReadEnd
  PROVE  I2cInv'
<1>0. Len(i2cWire) \in Nat /\ Len(icTxFifo) \in Nat
  BY Lengths DEF I2cInv
<1>1. TransferOK'
  BY DEF I2cInv, TransferOK, IsrReadEnd, i2cDriver
<1>2. PositionsOK'
  BY <1>0 DEF I2cInv, PositionsOK, IsrReadEnd, i2cDriver, i2cChip,
     ControllerDisable, DisableOnStop
<1>3. RegistersOK'
  BY I2cAssumption DEF I2cInv, RegistersOK, IsrReadEnd, RxThreshold
<1>4. NamesOK'
  BY DEF I2cInv, NamesOK, IsrReadEnd, i2cRegs, i2cChip, i2cClient
<1>5. FlagsOK'
  BY DEF I2cInv, FlagsOK, IsrReadEnd, i2cRegs, i2cClient
<1>6. InOrder'
  BY DEF I2cInv, InOrder, Issued, IsrReadEnd, i2cDriver, i2cChip
<1>7. CountSound'
  BY I2cAssumption, <1>0, <1>1, <1>2, <1>3, <1>6 DEF I2cInv, TransferOK,
     PositionsOK, CountSound, IdleSound, NoOverrun, Issued,
     ReadsOnWire, Incoming, IsrReadEnd, i2cDriver, i2cRegs, i2cChip,
     i2cClient, ControllerDisable, DisableOnStop, I2cCallback
<1>8. IdleSound'
  BY DEF I2cInv, IdleSound, IsrReadEnd, i2cDriver, i2cChip, i2cIsr, i2cClient
<1>9. BusySound'
  BY I2cAssumption, <1>0, <1>1, <1>3, <1>6 DEF I2cInv, NamesOK, BusySound,
     IsrReadEnd, i2cDriver, i2cRegs, i2cChip, i2cIsr, i2cClient,
     ControllerDisable, DisableOnStop, I2cCallback
<1>. QED
  BY <1>1, <1>2, <1>3, <1>4, <1>5, <1>6, <1>7, <1>8, <1>9 DEF I2cInv

LEMMA SsReadEndKeeps ==
  ASSUME I2cInv, SsReadEnd
  PROVE  I2cInv'
<1>0. Len(i2cWire) \in Nat /\ Len(icTxFifo) \in Nat
  BY Lengths DEF I2cInv
<1>1. TransferOK'
  BY DEF I2cInv, TransferOK, SsReadEnd, i2cDriver
<1>2. PositionsOK'
  BY <1>0 DEF I2cInv, PositionsOK, SsReadEnd, i2cDriver, i2cChip,
     ControllerDisable, DisableOnStop
<1>3. RegistersOK'
  BY I2cAssumption DEF I2cInv, RegistersOK, SsReadEnd, RxThreshold
<1>4. NamesOK'
  BY DEF I2cInv, NamesOK, SsReadEnd, i2cRegs, i2cChip, i2cClient
<1>5. FlagsOK'
  BY DEF I2cInv, FlagsOK, SsReadEnd, i2cRegs, i2cClient
<1>6. InOrder'
  BY DEF I2cInv, InOrder, Issued, SsReadEnd, i2cDriver, i2cChip
<1>7. CountSound'
  BY I2cAssumption, <1>0, <1>1, <1>2, <1>3, <1>6 DEF I2cInv, TransferOK,
     PositionsOK, CountSound, IdleSound, NoOverrun, Issued,
     ReadsOnWire, Incoming, SsReadEnd, i2cDriver, i2cRegs, i2cChip, i2cClient,
     ControllerDisable, DisableOnStop, I2cCallback
<1>8. IdleSound'
  BY DEF I2cInv, IdleSound, SsReadEnd, i2cDriver, i2cChip, i2cIsr, i2cClient
<1>9. BusySound'
  BY I2cAssumption, <1>0, <1>1, <1>3, <1>6 DEF I2cInv, NamesOK, BusySound,
     SsReadEnd, i2cDriver, i2cRegs, i2cChip, i2cIsr, i2cClient,
     ControllerDisable, DisableOnStop, I2cCallback
<1>. QED
  BY <1>1, <1>2, <1>3, <1>4, <1>5, <1>6, <1>7, <1>8, <1>9 DEF I2cInv

LEMMA IsrNoTxKeeps ==
  ASSUME I2cInv, IsrNoTx
  PROVE  I2cInv'
<1>0. Len(i2cWire) \in Nat /\ Len(icTxFifo) \in Nat
  BY Lengths DEF I2cInv
<1>1. TransferOK'
  BY DEF I2cInv, TransferOK, IsrNoTx, i2cDriver
<1>2. PositionsOK'
  BY <1>0 DEF I2cInv, PositionsOK, IsrNoTx, i2cDriver, i2cChip,
     ControllerDisable, DisableOnStop
<1>3. RegistersOK'
  BY I2cAssumption DEF I2cInv, RegistersOK, TransferOK, PositionsOK, IsrNoTx,
     i2cRegs
<1>4. NamesOK'
  BY DEF I2cInv, NamesOK, IsrNoTx, i2cRegs, i2cChip, i2cClient
<1>5. FlagsOK'
  BY DEF I2cInv, FlagsOK, IsrNoTx, i2cRegs, i2cClient
<1>6. InOrder'
  BY DEF I2cInv, InOrder, Issued, IsrNoTx, i2cDriver, i2cChip
<1>7. CountSound'
  BY I2cAssumption, <1>0, <1>1, <1>2, <1>3, <1>6 DEF I2cInv, TransferOK,
     PositionsOK, CountSound, IdleSound, NoOverrun, Issued,
     ReadsOnWire, Incoming, IsrNoTx, i2cDriver, i2cRegs, i2cChip, i2cClient,
     ControllerDisable, DisableOnStop, I2cCallback
<1>8. IdleSound'
  BY DEF I2cInv, IdleSound, IsrNoTx, i2cDriver, i2cRegs, i2cChip, i2cClient
<1>9. BusySound'
  BY I2cAssumption, <1>0, <1>1, <1>3, <1>6 DEF I2cInv, NamesOK, BusySound,
     IsrNoTx, i2cDriver, i2cRegs, i2cChip, i2cIsr, i2cClient,
     ControllerDisable, DisableOnStop, I2cCallback
<1>. QED
  BY <1>1, <1>2, <1>3, <1>4, <1>5, <1>6, <1>7, <1>8, <1>9 DEF I2cInv

LEMMA Shrinks ==
  ASSUME NEW p \in Nat, NEW a \in Nat, NEW b \in Nat, NEW w \in Nat,
         NEW c \in Nat, NEW d \in Nat, p + a + b <= w, c <= a, d <= b
  PROVE  p + c + d <= w
  OBVIOUS

LEMMA IsrTxDoneKeeps ==
  ASSUME I2cInv, IsrTxDone
  PROVE  I2cInv'
<1>0. Len(i2cWire) \in Nat /\ Len(icTxFifo) \in Nat
  BY Lengths DEF I2cInv
<1>1. TransferOK'
  BY DEF I2cInv, TransferOK, IsrTxDone, i2cDriver
<1>2. PositionsOK'
  <2>1. CASE i2cTransfer.stop
    BY DEF I2cInv, PositionsOK, IsrTxDone, i2cDriver, ControllerDisable,
       DisableOnStop
  <2>2. CASE ~i2cTransfer.stop
    BY DEF I2cInv, PositionsOK, IsrTxDone, i2cDriver, ControllerDisable,
       DisableOnStop
  <2>. QED
    BY <2>1, <2>2
<1>3. RegistersOK'
  BY I2cAssumption DEF I2cInv, RegistersOK, IsrTxDone, RxThreshold
<1>4. NamesOK'
  <2>1. CASE i2cTransfer.stop
    BY DEF I2cInv, NamesOK, IsrTxDone, ControllerDisable, I2cCallback,
       DisableOnStop
  <2>2. CASE ~i2cTransfer.stop
    BY DEF I2cInv, NamesOK, IsrTxDone, ControllerDisable, I2cCallback,
       DisableOnStop
  <2>. QED
    BY <2>1, <2>2
<1>5. FlagsOK'
  BY DEF I2cInv, FlagsOK, IsrTxDone, ControllerDisable, I2cCallback,
     DisableOnStop
<1>6. InOrder'
  <2>1. CASE i2cTransfer.stop
    BY <2>1, EmptiedInOrder DEF I2cInv, TransferOK, PositionsOK, Issued,
       IsrTxDone, i2cDriver, ControllerDisable, DisableOnStop
  <2>2. CASE ~i2cTransfer.stop
    BY <2>2, EmptiedInOrder DEF I2cInv, TransferOK, PositionsOK, Issued,
       IsrTxDone, i2cDriver, DisableOnStop, WriteComplete
  <2>. QED
    BY <2>1, <2>2
<1>7. CountSound'
  <2>1. /\ ~i2cBusy' /\ Len(icTxFifo) = 0 /\ icTxFifo \in Seq(I2cCommands)
        /\ UNCHANGED <<i2cTransfer, i2cWritePos, i2cReadPos, i2cReadCmdSend,
                       icTxAbrt, i2cWire>>
    BY DEF IsrTxDone, WriteComplete, I2cCallback, i2cDriver
  <2>2. icTxFifo = <<>>
    BY <2>1, EmptySeq
  <2>3. /\ icTxFifo' = <<>>
        /\ icRxFlr' \in Nat /\ icRxFlr' <= icRxFlr
        /\ icShift' = icShift \/ icShift' = "none"
    BY <2>2 DEF I2cInv, PositionsOK, IsrTxDone, DisableOnStop,
       ControllerDisable
  <2>4. i2cReadPos + icRxFlr + Incoming <= ReadsOnWire /\ i2cReadPos \in Nat
        /\ icRxFlr \in Nat /\ ReadsOnWire \in Nat
    BY DEF I2cInv, CountSound, PositionsOK, TransferOK, ReadsOnWire
  <2>5. Incoming \in Nat /\ Incoming' \in Nat /\ Incoming' <= Incoming
    BY <2>3 DEF Incoming
  <2>6. ReadsOnWire' = ReadsOnWire
    BY <2>1 DEF ReadsOnWire
  <2>7. (i2cReadPos + icRxFlr + Incoming <= ReadsOnWire)'
    <3>1. i2cReadPos' = i2cReadPos
      BY <2>1
    <3>2. icRxFlr' \in Nat /\ icRxFlr' <= icRxFlr
      BY <2>3
    <3>3. /\ i2cReadPos + icRxFlr + Incoming <= ReadsOnWire
          /\ i2cReadPos \in Nat /\ icRxFlr \in Nat /\ ReadsOnWire \in Nat
      BY <2>4
    <3>4. i2cReadPos + icRxFlr' + Incoming' <= ReadsOnWire
      BY <2>5, <3>2, <3>3, Shrinks
    <3>. QED
      BY <2>6, <3>1, <3>4
  <2>8. NoOverrun'
    BY <2>1, <2>3, I2cAssumption DEF NoOverrun
  <2>. QED
    BY <2>1, <2>3, <2>7, <2>8 DEF I2cInv, CountSound
<1>8. IdleSound'
  <2>1. CASE i2cTransfer.stop
    BY <2>1, I2cAssumption, <1>0, <1>1, <1>2, <1>3, <1>6 DEF I2cInv,
       TransferOK, PositionsOK, RegistersOK, NamesOK, FlagsOK, InOrder,
       CountSound, IdleSound, BusySound, NoOverrun, Issued, ReadsOnWire,
       Incoming, IsrTxDone, i2cDriver, i2cChip, i2cIsr, i2cClient,
       I2cInterrupts, ControllerDisable, I2cCallback, DisableOnStop,
       WriteComplete
  <2>2. CASE ~i2cTransfer.stop
    BY SMTT(30), <2>2, I2cAssumption, <1>0, <1>1, <1>2, <1>3, <1>6 DEF I2cInv,
       TransferOK, PositionsOK, RegistersOK, NamesOK, FlagsOK, InOrder,
       CountSound, IdleSound, BusySound, NoOverrun, Issued,
       ReadsOnWire, Incoming, IsrTxDone, i2cDriver, i2cRegs, i2cChip, i2cIsr,
       i2cClient, I2cInterrupts, ControllerDisable, I2cCallback,
       DisableOnStop, IntrStat, RxThreshold, Least,
       WriteComplete, I2cTransfers
  <2>. QED
    BY <2>1, <2>2
<1>9. BusySound'
  <2>1. CASE i2cTransfer.stop
    BY DEF I2cInv, BusySound, IsrTxDone, i2cDriver, I2cCallback
  <2>2. CASE ~i2cTransfer.stop
    BY DEF I2cInv, BusySound, IsrTxDone, i2cDriver, I2cCallback
  <2>. QED
    BY <2>1, <2>2
<1>. QED
  BY <1>1, <1>2, <1>3, <1>4, <1>5, <1>6, <1>7, <1>8, <1>9 DEF I2cInv

LEMMA IsrFillKeeps ==
  ASSUME I2cInv, IsrFill
  PROVE  I2cInv'
<1>. DEFINE n == FillCount(i2cTransfer, i2cWritePos)
            c == WriteCommands(i2cTransfer, i2cWritePos, i2cReadPos, n)
<1>1. /\ i2cTransfer.tx \in Nat /\ i2cTransfer.rx \in Nat
      /\ i2cWritePos \in Nat /\ i2cWritePos <= i2cTransfer.tx
      /\ i2cReadPos \in Nat /\ i2cReadCmdSend \in Nat /\ icRxFlr \in Nat
  BY DEF I2cInv, TransferOK, PositionsOK
<1>2. Len(i2cWire) \in Nat /\ Len(icTxFifo) \in Nat
  BY Lengths DEF I2cInv
<1>3. i2cBusy /\ Len(icTxFifo) <= icTxTl /\ icTxTl \in 0 .. TX_TL
  BY DEF I2cInv, IsrFill, IntrStat, IdleSound, RegistersOK
<1>4. /\ n \in Nat
      /\ i2cWritePos + n <= i2cTransfer.tx
      /\ Len(icTxFifo) + n <= FIFO_SIZE
  BY <1>1, <1>3, I2cAssumption DEF FillCount, Least
<1>5. /\ Push(c)
      /\ i2cWritePos' = i2cWritePos + n
      /\ i2cWrite' = i2cTransfer.tx - (i2cWritePos + n)
      /\ i2cPc = "tx" /\ i2cPc' = "reads"
      /\ UNCHANGED <<i2cTransfer, i2cReadPos, i2cReadCmdSend, icMask, icTxTl, icRxTl,
                     icEnabled, icAbort, icTxAbrt, icRxFlr, icShift, i2cWire, i2cRead,
                     i2cBusy, i2cOutcome>>
  BY DEF IsrFill, i2cRegs, i2cClient
<1>6. n > 0 => i2cReadCmdSend = i2cTransfer.rx
  BY <1>1, <1>4 DEF I2cInv, CountSound
<1>7. n > 0 => (i2cReadPos = i2cTransfer.rx <=> i2cTransfer.rx = 0)
  <2>1. n > 0 => Len(i2cWire) <= i2cWritePos
    BY <1>1, <1>6 DEF I2cInv, InOrder, Issued
  <2>2. n > 0 => i2cReadPos = 0
    BY <1>1, <2>1 DEF I2cInv, CountSound, ReadsOnWire, Incoming
  <2>. QED
    BY <1>1, <2>2
<1>8. \A k \in 1 .. n : c[k] = I2cProgram(i2cTransfer)[Issued + k]
  <2>. SUFFICES ASSUME NEW k \in 1 .. n
                PROVE  c[k] = I2cProgram(i2cTransfer)[Issued + k]
    OBVIOUS
  <2>0. n > 0 /\ k \in Nat /\ k >= 1 /\ k <= n
    BY <1>4
  <2>1. Issued = i2cWritePos /\ Issued + k \in 1 .. i2cTransfer.tx + i2cTransfer.rx
    <3>1. Issued = i2cWritePos
      BY <1>1, <1>6, <2>0 DEF Issued
    <3>. QED
      BY <1>1, <1>4, <3>1
  <2>3. (i2cTransfer.stop /\ i2cWritePos + k = i2cTransfer.tx /\ i2cReadPos = i2cTransfer.rx)
        = (i2cTransfer.stop /\ Issued + k = i2cTransfer.tx + i2cTransfer.rx)
    BY <1>1, <1>4, <1>7, <2>1
  <2>4. Issued + k <= i2cTransfer.tx
    BY <1>1, <1>4, <2>1
  <2>2. c[k] = [op |-> "w", i |-> i2cWritePos + k,
                stop |-> i2cTransfer.stop /\ i2cWritePos + k = i2cTransfer.tx
                         /\ i2cReadPos = i2cTransfer.rx]
    BY DEF WriteCommands
  <2>. QED
    BY <2>1, <2>2, <2>3, <2>4, ProgramCommands DEF I2cInv, TransferOK
<1>9. c = [k \in 1 .. n |-> c[k]]
  BY DEF WriteCommands
<1>. HIDE DEF c, n
<1>10. TransferOK' /\ PositionsOK' /\ RegistersOK'
  BY <1>4, <1>5, I2cAssumption DEF I2cInv, TransferOK, PositionsOK,
     RegistersOK
<1>11. Issued' = Issued + n
  BY <1>1, <1>4, <1>5 DEF Issued
<1>12. ASSUME icTxAbrt = "none" PROVE InOrder' /\ CountSound'
  <2>1. InOrder' /\ Len(icTxFifo') = Len(icTxFifo) + n
    BY <1>3, <1>4, <1>5, <1>8, <1>9, <1>10, <1>11, <1>12, PushedInOrder
       DEF I2cInv, CountSound, Push
  <2>2. CountSound'
    BY <1>1, <1>4, <1>5, <1>11, <1>12, <2>1 DEF I2cInv, CountSound,
       ReadsOnWire, Incoming, NoOverrun
  <2>. QED
    BY <2>1, <2>2
<1>13. ASSUME icTxAbrt # "none" PROVE InOrder' /\ CountSound'
  <2>1. icTxFifo' = <<>>
    BY <1>5, <1>13 DEF Push
  <2>2. InOrder'
    BY <1>1, <1>4, <1>5, <1>10, <2>1, EmptiedInOrder DEF I2cInv, Issued
  <2>3. CountSound'
    BY <1>1, <1>4, <1>5, <1>13, <2>1 DEF I2cInv, CountSound, ReadsOnWire,
       Incoming, NoOverrun
  <2>. QED
    BY <2>2, <2>3
<1>14. NamesOK' /\ FlagsOK'
  BY <1>5 DEF I2cInv, NamesOK, FlagsOK
<1>15. IdleSound' /\ BusySound'
  BY <1>3, <1>5 DEF I2cInv, IdleSound, BusySound
<1>. QED
  BY <1>10, <1>12, <1>13, <1>14, <1>15 DEF I2cInv

LEMMA IsrReadsKeeps ==
  ASSUME I2cInv, IsrReads
  PROVE  I2cInv'
<1>. DEFINE n == ReadCount
            c == ReadCommands(i2cTransfer, i2cReadCmdSend, n)
<1>1. /\ i2cTransfer.tx \in Nat /\ i2cTransfer.rx \in Nat
      /\ i2cWritePos \in Nat /\ i2cWritePos <= i2cTransfer.tx
      /\ i2cReadPos \in Nat /\ i2cReadCmdSend \in Nat /\ icRxFlr \in Nat
      /\ i2cReadCmdSend <= i2cTransfer.rx
  BY DEF I2cInv, TransferOK, PositionsOK
<1>2. Len(i2cWire) \in Nat /\ Len(icTxFifo) \in Nat
  BY Lengths DEF I2cInv
<1>3. /\ i2cRead = i2cTransfer.rx - i2cReadPos
      /\ i2cWrite = i2cTransfer.tx - i2cWritePos
  BY DEF I2cInv, IsrReads, BusySound
<1>4. /\ n \in Nat /\ n <= i2cReadCmdSend
      /\ n > 0 => /\ i2cWritePos = i2cTransfer.tx
                  /\ i2cTransfer.rx - i2cReadCmdSend - i2cReadPos + n <= FIFO_SIZE - Len(icTxFifo)
  <2>. DEFINE room == FIFO_SIZE - Len(icTxFifo)
              missing == i2cRead - i2cReadCmdSend
  <2>1. /\ room \in Int
        /\ missing \in Int
        /\ missing = i2cTransfer.rx - i2cReadCmdSend - i2cReadPos
    BY <1>1, <1>3, I2cAssumption
  <2>2. CASE i2cWrite = 0 /\ room > missing
    <3>1. n = IF room - missing <= i2cReadCmdSend THEN room - missing ELSE i2cReadCmdSend
      BY <2>2 DEF ReadCount, Least
    <3>. HIDE DEF n, room
    <3>2. n \in Nat /\ n <= i2cReadCmdSend /\ n <= room - missing
      BY <1>1, <2>1, <2>2, <3>1
    <3>3. i2cWritePos = i2cTransfer.tx
      <4>1. i2cTransfer.tx - i2cWritePos = 0
        BY <1>3, <2>2
      <4>. QED
        BY ONLY <1>1, <4>1
    <3>4. i2cTransfer.rx - i2cReadCmdSend - i2cReadPos + n <= room
      BY <2>1, <3>2
    <3>. QED
      BY <3>2, <3>3, <3>4 DEF room
  <2>3. CASE ~(i2cWrite = 0 /\ room > missing)
    <3>1. n = 0
      BY <2>3 DEF ReadCount
    <3>. QED
      BY <1>1, <3>1
  <2>. QED
    BY <2>2, <2>3
<1>5. /\ Push(c)
      /\ i2cReadCmdSend' = i2cReadCmdSend - n
      /\ icTxTl' = (IF i2cWrite = 0 /\ i2cRead = 0 THEN 0 ELSE icTxTl)
      /\ i2cPc' = "none"
      /\ UNCHANGED <<i2cTransfer, i2cWritePos, i2cReadPos, icMask, icRxTl, icEnabled,
                     icAbort, icTxAbrt, icRxFlr, icShift, i2cWire, i2cRead, i2cWrite,
                     i2cBusy, i2cOutcome>>
  BY DEF IsrReads, i2cClient
<1>6. n > 0 => i2cBusy
  BY <1>4 DEF I2cInv, IdleSound, IsrReads
<1>7. \A k \in 1 .. n : c[k] = I2cProgram(i2cTransfer)[Issued + k]
  <2>. SUFFICES ASSUME NEW k \in 1 .. n
                PROVE  c[k] = I2cProgram(i2cTransfer)[Issued + k]
    OBVIOUS
  <2>1. /\ Issued = i2cTransfer.tx + (i2cTransfer.rx - i2cReadCmdSend)
        /\ Issued + k \in 1 .. i2cTransfer.tx + i2cTransfer.rx /\ Issued + k > i2cTransfer.tx
        /\ k = i2cReadCmdSend <=> Issued + k = i2cTransfer.tx + i2cTransfer.rx
    <3>1. n > 0 /\ k \in Nat /\ k >= 1 /\ k <= n
      BY <1>4
    <3>2. Issued = i2cTransfer.tx + (i2cTransfer.rx - i2cReadCmdSend)
      BY <1>4, <3>1 DEF Issued
    <3>3. k <= i2cReadCmdSend
      BY <1>1, <1>4
    <3>. HIDE DEF n
    <3>. QED
      BY <1>1, <3>2, <3>3
  <2>2. c[k] = [op |-> "r", i |-> 0,
                stop |-> i2cTransfer.stop /\ k = i2cReadCmdSend]
    BY DEF ReadCommands
  <2>. QED
    BY <2>1, <2>2, ProgramCommands DEF I2cInv, TransferOK
<1>8. c = [k \in 1 .. n |-> c[k]]
  BY DEF ReadCommands
<1>. HIDE DEF c, n
<1>9. TransferOK' /\ PositionsOK' /\ RegistersOK'
  BY <1>4, <1>5, I2cAssumption DEF I2cInv, TransferOK, PositionsOK,
     RegistersOK
<1>10. Issued' = Issued + n
  BY <1>1, <1>4, <1>5 DEF Issued
<1>11. ASSUME icTxAbrt = "none" PROVE InOrder' /\ CountSound'
  <2>1. InOrder' /\ Len(icTxFifo') = Len(icTxFifo) + n
    BY <1>4, <1>5, <1>6, <1>7, <1>8, <1>9, <1>10, <1>11, PushedInOrder
       DEF I2cInv, CountSound, Push
  <2>2. NoOverrun'
    <3>1. Len(icTxFifo) <= FIFO_SIZE
          /\ (i2cBusy => i2cTransfer.rx - i2cReadCmdSend - i2cReadPos <= FIFO_SIZE)
      BY DEF I2cInv, CountSound, NoOverrun
    <3>2. CASE n = 0
      BY <1>1, <1>5, <2>1, <3>1, <3>2 DEF NoOverrun
    <3>3. CASE n > 0
      <4>1. i2cReadPos <= i2cTransfer.rx - i2cReadCmdSend
        <5>1. /\ Issued \in Nat
              /\ Issued = i2cTransfer.tx + (i2cTransfer.rx - i2cReadCmdSend)
          BY <1>1, <1>4, <3>3 DEF Issued
        <5>2. ReadsOnWire <= i2cTransfer.rx - i2cReadCmdSend /\ ReadsOnWire \in Nat
          BY SMTT(30), <1>1, <1>2, <5>1 DEF I2cInv, InOrder, ReadsOnWire
        <5>. QED
          BY <1>1, <5>2 DEF I2cInv, CountSound, Incoming
      <4>2. Len(icTxFifo) + n <= FIFO_SIZE
        BY <1>1, <1>4, <3>3, <4>1, I2cAssumption
      <4>3. i2cTransfer.rx - (i2cReadCmdSend - n) - i2cReadPos <= FIFO_SIZE
        BY <1>1, <1>4, <3>3, I2cAssumption
      <4>. QED
        BY <1>5, <2>1, <4>2, <4>3 DEF NoOverrun
    <3>. QED
      BY <1>4, <3>2, <3>3
  <2>3. Len(i2cWire') + Len(icTxFifo') = Issued' \/ ~i2cBusy
    BY <1>4, <1>5, <1>10, <1>11, <2>1 DEF I2cInv, CountSound
  <2>4. i2cWritePos' < i2cTransfer'.tx => i2cReadCmdSend' = i2cTransfer'.rx
    BY SMTT(30), <1>1, <1>4, <1>5 DEF I2cInv, CountSound
  <2>5. CountSound'
    BY <1>5, <1>11, <2>2, <2>3, <2>4 DEF I2cInv, CountSound, ReadsOnWire,
       Incoming
  <2>. QED
    BY <2>1, <2>5
<1>12. ASSUME icTxAbrt # "none" PROVE InOrder' /\ CountSound'
  <2>1. icTxFifo' = <<>>
    BY <1>5, <1>12 DEF Push
  <2>2. InOrder'
    BY <1>1, <1>4, <1>5, <1>9, <2>1, EmptiedInOrder DEF I2cInv, Issued
  <2>3. Len(icTxFifo) = 0 /\ Len(icTxFifo') = 0
    BY <1>12, <2>1 DEF I2cInv, CountSound
  <2>4. NoOverrun'
    BY <1>1, <1>4, <1>5, <2>3, I2cAssumption DEF I2cInv, CountSound, NoOverrun
  <2>5. i2cWritePos' < i2cTransfer'.tx => i2cReadCmdSend' = i2cTransfer'.rx
    BY <1>1, <1>4, <1>5 DEF I2cInv, CountSound
  <2>6. CountSound'
    BY <1>5, <1>12, <2>1, <2>4, <2>5 DEF I2cInv, CountSound, ReadsOnWire,
       Incoming
  <2>. QED
    BY <2>2, <2>6
<1>13. NamesOK' /\ FlagsOK'
  BY <1>5 DEF I2cInv, NamesOK, FlagsOK
<1>14. ~i2cBusy => icTxFifo' = <<>>
  <2>1. ~i2cBusy => c = <<>> /\ icTxFifo = <<>>
    BY <1>6, <1>4, <1>8 DEF I2cInv, IdleSound
  <2>. QED
    BY <1>5, <2>1 DEF Push
<1>15. IdleSound' /\ BusySound'
  BY <1>5, <1>14 DEF I2cInv, IdleSound, BusySound
<1>. QED
  BY <1>9, <1>11, <1>12, <1>13, <1>15 DEF I2cInv

\* The bus takes the next command of the program.
LEMMA TakenOrdered ==
  ASSUME TransferOK, Ordered, BusTake
  PROVE  /\ Ordered'
         /\ Len(i2cWire) \in Nat /\ Len(i2cWire') = Len(i2cWire) + 1
         /\ Len(icTxFifo') \in Nat /\ Len(icTxFifo) = Len(icTxFifo') + 1
         /\ Len(i2cWire) < i2cTransfer.tx + i2cTransfer.rx
         /\ icShift' = IF Len(i2cWire) < i2cTransfer.tx THEN "w" ELSE "r"
<1>. DEFINE c == Head(icTxFifo)
<1>1. i2cTransfer.tx \in Nat /\ i2cTransfer.rx \in Nat
  BY DEF TransferOK
<1>2. /\ icTxFifo # <<>> /\ icShift' = c.op
      /\ i2cWire' = Append(i2cWire, c) /\ icTxFifo' = Tail(icTxFifo)
      /\ i2cTransfer' = i2cTransfer
  BY DEF BusTake, i2cDriver
<1>4. /\ i2cWire \in Seq(I2cCommands) /\ icTxFifo \in Seq(I2cCommands)
      /\ Len(i2cWire) \in Nat /\ Len(icTxFifo) \in Nat /\ Len(icTxFifo) > 0
      /\ Len(i2cWire) + Len(icTxFifo) <= i2cTransfer.tx + i2cTransfer.rx
  <2>1. /\ i2cWire \in Seq(I2cCommands) /\ icTxFifo \in Seq(I2cCommands)
        /\ Len(i2cWire) + Len(icTxFifo) <= i2cTransfer.tx + i2cTransfer.rx
    BY DEF Ordered
  <2>2. Len(i2cWire) \in Nat /\ Len(icTxFifo) \in Nat /\ Len(icTxFifo) # 0
    BY <1>2, <2>1
  <2>. QED
    BY <2>1, <2>2
<1>5. c = I2cProgram(i2cTransfer)[Len(i2cWire) + 1] /\ c \in I2cCommands
  BY HeadTailProperties, <1>2, <1>4 DEF Ordered
<1>6. c.op = IF Len(i2cWire) < i2cTransfer.tx THEN "w" ELSE "r"
  <2>1. Len(i2cWire) + 1 \in 1 .. i2cTransfer.tx + i2cTransfer.rx
    BY <1>1, <1>4
  <2>2. CASE Len(i2cWire) < i2cTransfer.tx
    <3>1. c = [op |-> "w", i |-> Len(i2cWire) + 1,
               stop |-> i2cTransfer.stop /\ Len(i2cWire) + 1 = i2cTransfer.tx + i2cTransfer.rx]
      <4>1. Len(i2cWire) + 1 <= i2cTransfer.tx
        BY <1>1, <1>4, <2>2
      <4>. QED
        BY <1>5, <2>1, <4>1, ProgramCommands DEF TransferOK
    <3>. HIDE DEF c
    <3>. QED
      BY <2>2, <3>1
  <2>3. CASE ~(Len(i2cWire) < i2cTransfer.tx)
    <3>1. Len(i2cWire) + 1 > i2cTransfer.tx
      BY <1>1, <1>4, <2>3
    <3>2. c = [op |-> "r", i |-> 0,
               stop |-> i2cTransfer.stop /\ Len(i2cWire) + 1 = i2cTransfer.tx + i2cTransfer.rx]
      BY <1>5, <2>1, <3>1, ProgramCommands DEF TransferOK
    <3>. HIDE DEF c
    <3>. QED
      BY <2>3, <3>2
  <2>. QED
    BY <2>2, <2>3
<1>7. /\ i2cWire' \in Seq(I2cCommands) /\ Len(i2cWire') = Len(i2cWire) + 1
      /\ \A k \in 1 .. Len(i2cWire) : i2cWire'[k] = i2cWire[k]
      /\ i2cWire'[Len(i2cWire) + 1] = c
  BY <1>2, <1>4, <1>5
<1>8. /\ icTxFifo' \in Seq(I2cCommands) /\ Len(icTxFifo') = Len(icTxFifo) - 1
      /\ \A k \in 1 .. Len(icTxFifo') : icTxFifo'[k] = icTxFifo[k + 1]
  BY <1>2, <1>4
<1>. HIDE DEF c
<1>9. Ordered'
  <2>1. \A k \in 1 .. Len(i2cWire') : i2cWire'[k] = I2cProgram(i2cTransfer)[k]
    <3>. SUFFICES ASSUME NEW k \in 1 .. Len(i2cWire')
                  PROVE  i2cWire'[k] = I2cProgram(i2cTransfer)[k]
      OBVIOUS
    <3>1. CASE k \in 1 .. Len(i2cWire)
      BY <1>7, <3>1 DEF Ordered
    <3>2. CASE k = Len(i2cWire) + 1
      BY <1>5, <1>7, <3>2
    <3>. QED
      BY <1>4, <1>7, <3>1, <3>2
  <2>2. \A k \in 1 .. Len(icTxFifo') :
          icTxFifo'[k] = I2cProgram(i2cTransfer)[Len(i2cWire') + k]
    <3>. SUFFICES ASSUME NEW k \in 1 .. Len(icTxFifo')
                  PROVE  icTxFifo'[k] = I2cProgram(i2cTransfer)[Len(i2cWire') + k]
      OBVIOUS
    <3>1. /\ k + 1 \in 1 .. Len(icTxFifo)
          /\ Len(i2cWire) + (k + 1) = Len(i2cWire') + k
      BY <1>4, <1>7, <1>8
    <3>2. icTxFifo[k + 1] = I2cProgram(i2cTransfer)[Len(i2cWire) + (k + 1)]
      BY <3>1 DEF Ordered
    <3>. QED
      BY <1>8, <3>1, <3>2
  <2>3. Len(i2cWire') + Len(icTxFifo') <= i2cTransfer.tx + i2cTransfer.rx
    BY <1>4, <1>7, <1>8
  <2>. QED
    BY <1>2, <1>7, <1>8, <2>1, <2>2, <2>3 DEF Ordered
<1>. QED
  BY <1>1, <1>4, <1>6, <1>2, <1>7, <1>8, <1>9

LEMMA TakenInOrder ==
  ASSUME TransferOK, PositionsOK, InOrder, BusTake
  PROVE  /\ InOrder' /\ Issued' = Issued
         /\ Len(i2cWire) \in Nat /\ Len(i2cWire') = Len(i2cWire) + 1
         /\ Len(icTxFifo') \in Nat /\ Len(icTxFifo) = Len(icTxFifo') + 1
         /\ Len(i2cWire) < i2cTransfer.tx + i2cTransfer.rx
         /\ icShift' = IF Len(i2cWire) < i2cTransfer.tx THEN "w" ELSE "r"
<1>1. Ordered
  BY InOrderOrdered
<1>2. /\ Ordered'
      /\ Len(i2cWire) \in Nat /\ Len(i2cWire') = Len(i2cWire) + 1
      /\ Len(icTxFifo') \in Nat /\ Len(icTxFifo) = Len(icTxFifo') + 1
      /\ Len(i2cWire) < i2cTransfer.tx + i2cTransfer.rx
      /\ icShift' = IF Len(i2cWire) < i2cTransfer.tx THEN "w" ELSE "r"
  BY <1>1, TakenOrdered
<1>3. Issued' = Issued
  BY DEF BusTake, i2cDriver, Issued
<1>4. Len(i2cWire') + Len(icTxFifo') <= Issued'
  BY <1>2, <1>3, IssuedBounds DEF InOrder
<1>. QED
  BY <1>2, <1>3, <1>4 DEF InOrder, Ordered

LEMMA BusTakeKeeps ==
  ASSUME I2cInv, BusTake
  PROVE  I2cInv'
<1>1. /\ i2cTransfer.tx \in Nat /\ i2cTransfer.rx \in Nat
      /\ i2cReadPos \in Nat /\ icRxFlr \in Nat
  BY DEF I2cInv, TransferOK, PositionsOK
<1>2. /\ icTxFifo # <<>> /\ icShift = "none" /\ icTxAbrt = "none"
      /\ UNCHANGED <<i2cTransfer, i2cWritePos, i2cReadPos, i2cReadCmdSend, icMask, icTxTl,
                     icRxTl, icEnabled, icAbort, icTxAbrt, icRxFlr, i2cPc, i2cRead,
                     i2cWrite, i2cBusy, i2cOutcome>>
  BY DEF BusTake, i2cDriver, i2cRegs, i2cIsr, i2cClient
<1>3. i2cBusy
  BY <1>2 DEF I2cInv, IdleSound
<1>4. /\ InOrder' /\ Issued' = Issued
      /\ Len(i2cWire) \in Nat /\ Len(i2cWire') = Len(i2cWire) + 1
      /\ Len(icTxFifo') \in Nat /\ Len(icTxFifo) = Len(icTxFifo') + 1
      /\ icShift' = IF Len(i2cWire) < i2cTransfer.tx THEN "w" ELSE "r"
  BY TakenInOrder DEF I2cInv
<1>5. TransferOK' /\ PositionsOK' /\ RegistersOK' /\ FlagsOK'
  BY <1>2 DEF I2cInv, TransferOK, PositionsOK, RegistersOK, FlagsOK
<1>6. NamesOK'
  BY <1>2, <1>4 DEF I2cInv, NamesOK
<1>7. CountSound'
  <2>1. (i2cReadPos + icRxFlr + Incoming <= ReadsOnWire)'
    BY <1>1, <1>2, <1>4 DEF I2cInv, CountSound, ReadsOnWire, Incoming
  <2>2. NoOverrun'
    BY <1>2, <1>4, I2cAssumption DEF I2cInv, CountSound, NoOverrun
  <2>. QED
    BY <1>2, <1>4, <2>1, <2>2 DEF I2cInv, CountSound
<1>8. IdleSound' /\ BusySound'
  BY <1>2, <1>3 DEF I2cInv, IdleSound, BusySound
<1>. QED
  BY <1>4, <1>5, <1>6, <1>7, <1>8 DEF I2cInv

LEMMA BusByteKeeps ==
  ASSUME I2cInv, BusByte
  PROVE  I2cInv'
<1>0. Len(i2cWire) \in Nat /\ Len(icTxFifo) \in Nat
  BY Lengths DEF I2cInv
<1>1. TransferOK'
  BY DEF I2cInv, TransferOK, BusByte, i2cDriver
<1>2. PositionsOK'
  <2>1. CASE icShift = "r"
    BY DEF I2cInv, PositionsOK, BusByte, i2cDriver
  <2>2. CASE icShift = "w"
    BY DEF I2cInv, PositionsOK, BusByte, i2cDriver
  <2>. QED
    BY <2>1, <2>2 DEF I2cInv, NamesOK, BusByte
<1>3. RegistersOK'
  BY DEF I2cInv, RegistersOK, PositionsOK, BusByte, i2cIsr, i2cRegs
<1>4. NamesOK'
  <2>1. CASE icShift = "r"
    BY DEF I2cInv, NamesOK, BusByte, i2cRegs, i2cIsr, i2cClient
  <2>2. CASE icShift = "w"
    BY DEF I2cInv, NamesOK, BusByte, i2cRegs, i2cIsr, i2cClient
  <2>. QED
    BY <2>1, <2>2 DEF I2cInv, NamesOK, BusByte
<1>5. FlagsOK'
  BY DEF I2cInv, FlagsOK, BusByte, i2cRegs, i2cClient
<1>6. InOrder'
  BY DEF I2cInv, InOrder, Issued, BusByte, i2cDriver, i2cChip
<1>7. CountSound'
  <2>1. CASE icShift = "r"
    BY <2>1 DEF I2cInv, PositionsOK, CountSound, IdleSound, NoOverrun, Issued,
       ReadsOnWire, Incoming, BusByte, i2cDriver, i2cRegs
  <2>2. CASE icShift = "w"
    BY <2>2 DEF I2cInv, CountSound, NoOverrun, Issued, ReadsOnWire, Incoming,
       BusByte, i2cDriver, i2cRegs, i2cClient
  <2>. QED
    BY <2>1, <2>2 DEF I2cInv, NamesOK, BusByte
<1>8. IdleSound'
  <2>1. CASE icShift = "r"
    BY DEF I2cInv, IdleSound, BusByte, i2cDriver, i2cRegs, i2cIsr, i2cClient
  <2>2. CASE icShift = "w"
    BY DEF I2cInv, IdleSound, BusByte, i2cDriver, i2cRegs, i2cIsr, i2cClient
  <2>. QED
    BY <2>1, <2>2 DEF I2cInv, NamesOK, BusByte
<1>9. BusySound'
  <2>1. CASE icShift = "r"
    BY DEF I2cInv, BusySound, BusByte, i2cDriver, i2cRegs, i2cIsr, i2cClient
  <2>2. CASE icShift = "w"
    BY DEF I2cInv, BusySound, BusByte, i2cDriver, i2cRegs, i2cIsr, i2cClient
  <2>. QED
    BY <2>1, <2>2 DEF I2cInv, NamesOK, BusByte
<1>. QED
  BY <1>1, <1>2, <1>3, <1>4, <1>5, <1>6, <1>7, <1>8, <1>9 DEF I2cInv

LEMMA BusNackKeeps ==
  ASSUME I2cInv, BusNack
  PROVE  I2cInv'
<1>0. Len(i2cWire) \in Nat /\ Len(icTxFifo) \in Nat
  BY Lengths DEF I2cInv
<1>1. TransferOK'
  BY DEF I2cInv, TransferOK, BusNack, i2cDriver
<1>2. PositionsOK'
  BY <1>0 DEF I2cInv, PositionsOK, BusNack, i2cDriver, i2cChip,
     ControllerDisable, DisableOnStop
<1>3. RegistersOK'
  BY DEF I2cInv, RegistersOK, PositionsOK, BusNack, i2cIsr, i2cRegs
<1>4. NamesOK'
  BY DEF I2cInv, NamesOK, BusNack, i2cIsr, i2cClient
<1>5. FlagsOK'
  BY DEF I2cInv, FlagsOK, BusNack, i2cRegs, i2cClient
<1>6. InOrder'
  BY <1>1, <1>2, EmptiedInOrder DEF I2cInv, RegistersOK, NamesOK, FlagsOK,
     InOrder, CountSound, IdleSound, BusySound, NoOverrun, Issued,
     ReadsOnWire, Incoming, BusNack, i2cDriver, i2cChip, I2cInterrupts,
     ControllerDisable, I2cCallback, DisableOnStop, IntrStat, RxThreshold,
     Least, WriteComplete, I2cTransfers
<1>7. CountSound'
  <2>1. /\ icTxFifo' = <<>> /\ icShift' = "none" /\ icTxAbrt' = "nack"
        /\ UNCHANGED <<i2cTransfer, i2cWritePos, i2cReadPos, i2cReadCmdSend,
                       icRxFlr, i2cWire, i2cBusy>>
    BY DEF BusNack, i2cDriver, i2cClient
  <2>2. i2cReadPos + icRxFlr + Incoming <= ReadsOnWire /\ i2cReadPos \in Nat
        /\ icRxFlr \in Nat /\ ReadsOnWire \in Nat
    BY DEF I2cInv, CountSound, PositionsOK, TransferOK, ReadsOnWire
  <2>3. Incoming \in {0, 1} /\ Incoming' = 0 /\ ReadsOnWire' = ReadsOnWire
    BY <2>1 DEF Incoming, ReadsOnWire
  <2>4. (i2cReadPos + icRxFlr + Incoming <= ReadsOnWire)'
    BY <2>1, <2>2, <2>3
  <2>5. NoOverrun'
    <3>1. Len(icTxFifo') = 0
      BY <2>1, EmptySeq
    <3>. QED
      BY <2>1, I2cAssumption DEF I2cInv, CountSound, NoOverrun
  <2>. QED
    BY <2>1, <2>4, <2>5 DEF I2cInv, CountSound
<1>8. IdleSound'
  BY DEF I2cInv, IdleSound, BusNack, i2cDriver, i2cChip, i2cIsr, i2cClient
<1>9. BusySound'
  BY I2cAssumption, <1>0, <1>1, <1>3, <1>6 DEF I2cInv, NamesOK, BusySound,
     BusNack, i2cDriver, i2cRegs, i2cChip, i2cIsr, i2cClient,
     ControllerDisable, DisableOnStop, I2cCallback
<1>. QED
  BY <1>1, <1>2, <1>3, <1>4, <1>5, <1>6, <1>7, <1>8, <1>9 DEF I2cInv

LEMMA BusAbortKeeps ==
  ASSUME I2cInv, BusAbort
  PROVE  I2cInv'
<1>0. Len(i2cWire) \in Nat /\ Len(icTxFifo) \in Nat
  BY Lengths DEF I2cInv
<1>1. TransferOK'
  BY DEF I2cInv, TransferOK, BusAbort, i2cDriver
<1>2. PositionsOK'
  BY <1>0 DEF I2cInv, PositionsOK, BusAbort, i2cDriver, i2cChip,
     ControllerDisable, DisableOnStop
<1>3. RegistersOK'
  BY DEF I2cInv, RegistersOK, PositionsOK, BusAbort, i2cIsr, i2cRegs
<1>4. NamesOK'
  BY DEF I2cInv, NamesOK, BusAbort, i2cIsr, i2cClient
<1>5. FlagsOK'
  BY DEF I2cInv, FlagsOK, BusAbort, i2cRegs, i2cClient
<1>6. InOrder'
  BY <1>1, <1>2, EmptiedInOrder DEF I2cInv, RegistersOK, NamesOK, FlagsOK,
     InOrder, CountSound, IdleSound, BusySound, NoOverrun, Issued,
     ReadsOnWire, Incoming, BusAbort, i2cDriver, i2cChip, I2cInterrupts,
     ControllerDisable, I2cCallback, DisableOnStop, IntrStat, RxThreshold,
     Least, WriteComplete, I2cTransfers
<1>7. CountSound'
  BY I2cAssumption, <1>0, <1>1 DEF I2cInv, TransferOK, PositionsOK,
     CountSound, IdleSound, NoOverrun, Issued, ReadsOnWire,
     Incoming, BusAbort, i2cDriver, i2cRegs, i2cChip, i2cClient,
     ControllerDisable, DisableOnStop, I2cCallback
<1>8. IdleSound'
  BY DEF I2cInv, IdleSound, BusAbort, i2cDriver, i2cChip, i2cIsr, i2cClient
<1>9. BusySound'
  BY I2cAssumption, <1>0, <1>1, <1>3, <1>6 DEF I2cInv, NamesOK, BusySound,
     BusAbort, i2cDriver, i2cRegs, i2cChip, i2cIsr, i2cClient,
     ControllerDisable, DisableOnStop, I2cCallback
<1>. QED
  BY <1>1, <1>2, <1>3, <1>4, <1>5, <1>6, <1>7, <1>8, <1>9 DEF I2cInv

LEMMA StutterKeeps == I2cInv /\ UNCHANGED i2cVars => I2cInv'
<1>. SUFFICES ASSUME I2cInv, UNCHANGED i2cVars PROVE I2cInv'
  OBVIOUS
<1>1. TransferOK' /\ PositionsOK' /\ RegistersOK' /\ NamesOK' /\ FlagsOK'
  BY DEF I2cInv, TransferOK, PositionsOK, RegistersOK, NamesOK, FlagsOK,
     i2cVars, i2cDriver, i2cRegs, i2cChip, i2cIsr, i2cClient
<1>2. InOrder'
  BY DEF I2cInv, InOrder, Issued, i2cVars, i2cDriver, i2cChip
<1>3. CountSound'
  BY DEF I2cInv, CountSound, NoOverrun, Issued, ReadsOnWire, Incoming,
     i2cVars, i2cDriver, i2cRegs, i2cChip, i2cClient
<1>4. IdleSound' /\ BusySound'
  BY DEF I2cInv, IdleSound, BusySound, i2cVars, i2cDriver,
     i2cRegs, i2cChip, i2cIsr, i2cClient
<1>. QED
  BY <1>1, <1>2, <1>3, <1>4 DEF I2cInv

LEMMA BusKeeps ==
  ASSUME I2cInv, I2cBus
  PROVE  I2cInv'
  BY BusTakeKeeps, BusByteKeeps, BusNackKeeps, BusAbortKeeps DEF I2cBus

LEMMA I2cStepKeeps == I2cInv /\ [I2cNext]_i2cVars => I2cInv'
<1>. SUFFICES ASSUME I2cInv, [I2cNext]_i2cVars PROVE I2cInv'
  OBVIOUS
<1>1. CASE \E x \in I2cTransfers : I2cStart(x)
  BY <1>1, I2cStartKeeps
<1>2. CASE I2cTerminate
  BY <1>2, I2cTerminateKeeps
<1>3. CASE I2cHandler
  BY <1>3, IsrAbortKeeps, IsrEnterKeeps, IsrReadByteKeeps, IsrReadEndKeeps,
     IsrNoTxKeeps, IsrTxDoneKeeps, IsrFillKeeps, IsrReadsKeeps DEF I2cHandler
<1>4. CASE I2cBus
  BY <1>4, BusKeeps
<1>5. CASE UNCHANGED i2cVars
  BY <1>5, StutterKeeps
<1>. QED
  BY <1>1, <1>2, <1>3, <1>4, <1>5 DEF I2cNext

LEMMA SsI2cStepKeeps == I2cInv /\ [SsI2cNext]_i2cVars => I2cInv'
<1>. SUFFICES ASSUME I2cInv, [SsI2cNext]_i2cVars PROVE I2cInv'
  OBVIOUS
<1>1. CASE \E x \in I2cTransfers : SsI2cStart(x)
  BY <1>1, I2cStartKeeps DEF SsI2cStart
<1>2. CASE SsI2cTerminate
  BY <1>2, I2cTerminateKeeps DEF SsI2cTerminate
<1>3. CASE SsI2cHandler
  <2>1. SsRxEnter => I2cInv'
    BY SsEnterKeeps DEF SsRxEnter, I2cInterrupts
  <2>2. SsTxEnter => I2cInv'
    BY SsEnterKeeps DEF SsTxEnter, I2cInterrupts
  <2>. QED
    BY <1>3, <2>1, <2>2, IsrAbortKeeps, IsrReadByteKeeps, SsReadEndKeeps,
       IsrTxDoneKeeps, IsrFillKeeps, IsrReadsKeeps DEF SsI2cHandler, SsError,
       SsReadByte, SsTxDone, SsFill, SsReads
<1>4. CASE I2cBus
  BY <1>4, BusKeeps
<1>5. CASE UNCHANGED i2cVars
  BY <1>5, StutterKeeps
<1>. QED
  BY <1>1, <1>2, <1>3, <1>4, <1>5 DEF SsI2cNext

\* The counting invariant holds of the master of qm_i2c.c ...
THEOREM I2cInvariance == I2cSpec => []I2cInv
  BY I2cInitInv, I2cStepKeeps, PTL DEF I2cSpec

\* ... and of that of qm_ss_i2c.c, whose handlers are split by cause.
THEOREM SsI2cInvariance == SsI2cSpec => []I2cInv
  BY I2cInitInv, SsI2cStepKeeps, PTL DEF SsI2cSpec

LEMMA OrderedSeen ==
  ASSUME TransferOK, Ordered
  PROVE  BusInOrder
<1>. DEFINE issued == i2cWire \o icTxFifo
<1>1. /\ i2cWire \in Seq(I2cCommands) /\ icTxFifo \in Seq(I2cCommands)
      /\ Len(i2cWire) \in Nat /\ Len(icTxFifo) \in Nat
      /\ Len(i2cWire) + Len(icTxFifo) <= i2cTransfer.tx + i2cTransfer.rx
  BY LenProperties DEF Ordered
<1>2. /\ Len(issued) = Len(i2cWire) + Len(icTxFifo)
      /\ \A k \in 1 .. Len(i2cWire) + Len(icTxFifo) :
           issued[k] = IF k <= Len(i2cWire) THEN i2cWire[k]
                       ELSE icTxFifo[k - Len(i2cWire)]
  BY <1>1, ConcatProperties
<1>. HIDE DEF issued
<1>3. ASSUME NEW k \in 1 .. Len(issued)
      PROVE  issued[k] = I2cProgram(i2cTransfer)[k]
  <2>1. CASE k <= Len(i2cWire)
    <3>1. k \in 1 .. Len(i2cWire) /\ issued[k] = i2cWire[k]
      BY <1>1, <1>2, <2>1
    <3>. QED
      BY <3>1 DEF Ordered
  <2>2. CASE k > Len(i2cWire)
    <3>1. /\ k - Len(i2cWire) \in 1 .. Len(icTxFifo)
          /\ Len(i2cWire) + (k - Len(i2cWire)) = k
          /\ ~(k <= Len(i2cWire))
      BY <1>1, <1>2, <2>2
    <3>. QED
      BY <1>2, <3>1 DEF Ordered
  <2>. QED
    BY <1>1, <1>2, <2>1, <2>2
<1>. QED
  BY <1>1, <1>2, <1>3 DEF BusInOrder

LEMMA OrderSeen ==
  ASSUME TransferOK, PositionsOK, InOrder
  PROVE  BusInOrder
  BY InOrderOrdered, OrderedSeen

LEMMA InvInOrder == I2cInv => BusInOrder
  BY OrderSeen DEF I2cInv

\* Whatever the lengths, the depth of the FIFOs and the thresholds, the bus
\* sees the commands of a transfer in order and nothing else: the refills of
\* master_fill_tx_fifo and of the read commands never skip, repeat or overtake
\* one, and no STOP cuts the transfer.
THEOREM I2cBusInOrder == I2cSpec => []BusInOrder
  BY I2cInvariance, InvInOrder, PTL

\* The same of qm_ss_i2c.c.
THEOREM SsI2cBusInOrder == SsI2cSpec => []BusInOrder
  BY SsI2cInvariance, InvInOrder, PTL

\* The driver never overruns either FIFO, so the TX_OVER and RX_OVER interrupts,
\* which its handler would take for errors, are never raised.
THEOREM I2cNoOverrun == I2cSpec => []NoOverrun
<1>1. I2cInv => NoOverrun
  BY DEF I2cInv, CountSound
<1>. QED
  BY <1>1, I2cInvariance, PTL

\* The same of qm_ss_i2c.c.
THEOREM SsI2cNoOverrun == SsI2cSpec => []NoOverrun
<1>1. I2cInv => NoOverrun
  BY DEF I2cInv, CountSound
<1>. QED
  BY <1>1, SsI2cInvariance, PTL

-----------------------------------------------------------------------------
(* The contract of Transfer.                                               *)

i2cXfer ==
  <<i2cBusy, i2cTransfer.tx + i2cTransfer.rx, I2cMoved, i2cOutcome>>

\* What the contract sees changes with these only.
i2cSeen == <<i2cBusy, i2cTransfer, i2cReadPos, i2cWire, i2cOutcome>>

LEMMA SeenOnly == UNCHANGED i2cSeen => UNCHANGED i2cXfer
  BY DEF i2cSeen, i2cXfer, I2cMoved

LEMMA MovedInBounds ==
  ASSUME TransferOK, PositionsOK, InOrder
  PROVE  /\ I2cMoved \in Nat
         /\ I2cMoved <= i2cTransfer.tx + i2cTransfer.rx
         /\ i2cTransfer.tx \in Nat /\ i2cTransfer.rx \in Nat
         /\ i2cReadPos \in Nat /\ i2cReadPos <= i2cTransfer.rx
         /\ Len(i2cWire) \in Nat /\ Len(icTxFifo) \in Nat
<1>1. /\ i2cTransfer.tx \in Nat /\ i2cTransfer.rx \in Nat
      /\ i2cReadPos \in Nat /\ i2cReadPos <= i2cTransfer.rx
  BY DEF TransferOK, PositionsOK
<1>2. Len(i2cWire) \in Nat /\ Len(icTxFifo) \in Nat
  BY Lengths
<1>. QED
  BY <1>1 DEF I2cMoved, Least

LEMMA MovedBounds ==
  ASSUME I2cInv
  PROVE  /\ I2cMoved \in Nat
         /\ I2cMoved <= i2cTransfer.tx + i2cTransfer.rx
         /\ i2cTransfer.tx \in Nat /\ i2cTransfer.rx \in Nat
         /\ i2cReadPos \in Nat /\ i2cReadPos <= i2cTransfer.rx
         /\ Len(i2cWire) \in Nat /\ Len(icTxFifo) \in Nat
  BY MovedInBounds DEF I2cInv

LEMMA I2cStartRefines ==
  ASSUME I2cInv, NEW x \in I2cTransfers, I2cStart(x)
  PROVE  Contract!Start
<1>1. /\ ~i2cBusy /\ i2cBusy' /\ i2cOutcome' = "none"
      /\ i2cTransfer' = x /\ i2cReadPos' = 0 /\ i2cWire' = <<>>
  BY DEF I2cStart
<1>2. x.tx \in Nat /\ x.rx \in Nat
  BY I2cAssumption DEF I2cTransfers
<1>3. I2cMoved' = 0
  <2>1. Len(i2cWire') = 0
    BY <1>1, EmptySeq
  <2>. QED
    BY <1>1, <1>2 DEF I2cMoved, Least
<1>. QED
  BY <1>1, <1>2, <1>3 DEF Contract!Start

LEMMA IsrAbortRefines ==
  ASSUME I2cInv, IsrAbort
  PROVE  Contract!Report \/ Contract!Again
<1>1. UNCHANGED <<i2cTransfer, i2cReadPos, i2cWire>> /\ I2cCallback("failed")
  BY DEF IsrAbort, i2cDriver
<1>2. UNCHANGED <<i2cTransfer.tx + i2cTransfer.rx, I2cMoved>>
  BY <1>1 DEF I2cMoved
<1>3. CASE ~i2cBusy
  <2>1. AbortMissed
    BY <1>3 DEF IsrAbort, IntrStat, AbortMissed
  <2>. QED
    BY <1>1, <1>2, <1>3, <2>1 DEF I2cCallback, Contract!Again, I2cInv, FlagsOK
<1>4. CASE i2cBusy
  <2>1. ~i2cBusy' /\ i2cOutcome' = "failed"
    BY <1>1, <1>4 DEF I2cCallback
  <2>2. I2cMoved' \in I2cMoved .. i2cTransfer.tx + i2cTransfer.rx
    BY <1>2, MovedBounds
  <2>. QED
    BY <1>2, <1>4, <2>1, <2>2 DEF Contract!Report
<1>. QED
  BY <1>3, <1>4

LEMMA IsrReadByteRefines ==
  ASSUME I2cInv, IsrReadByte
  PROVE  Contract!Move \/ Contract!Report
<1>1. /\ i2cTransfer.tx \in Nat /\ i2cTransfer.rx \in Nat
      /\ i2cReadPos \in Nat /\ Len(i2cWire) \in Nat /\ icRxFlr \in Nat
      /\ Incoming \in Nat /\ i2cReadPos + icRxFlr + Incoming <= ReadsOnWire
  BY MovedBounds DEF I2cInv, PositionsOK, CountSound, Incoming
<1>2. /\ UNCHANGED <<i2cTransfer, i2cWire>>
      /\ i2cReadPos' = i2cReadPos + 1
      /\ i2cRead = i2cTransfer.rx - i2cReadPos /\ i2cRead > 0 /\ icRxFlr > 0
  BY DEF IsrReadByte, I2cInv, BusySound
<1>3. i2cReadPos < i2cTransfer.rx /\ i2cBusy
  <2>1. i2cReadPos < i2cTransfer.rx
    BY <1>1, <1>2
  <2>. QED
    BY <2>1 DEF I2cInv, IdleSound, IsrReadByte
<1>4. Len(i2cWire) > i2cTransfer.tx
  <2>1. ReadsOnWire \in Nat /\ ReadsOnWire > 0
    BY <1>1, <1>2 DEF ReadsOnWire
  <2>. QED
    BY <2>1 DEF ReadsOnWire
<1>5. I2cMoved = i2cTransfer.tx + i2cReadPos
  BY <1>1, <1>4 DEF I2cMoved, Least
<1>6. I2cMoved' = i2cTransfer.tx + i2cReadPos + 1
  BY SMTT(30), <1>1, <1>2, <1>4 DEF I2cMoved, Least
<1>7. UNCHANGED (i2cTransfer.tx + i2cTransfer.rx)
  BY <1>2
<1>8. CASE i2cRead # 1
  <2>1. UNCHANGED <<i2cBusy, i2cOutcome>>
    BY <1>8 DEF IsrReadByte, i2cClient
  <2>2. I2cMoved' \in I2cMoved + 1 .. i2cTransfer.tx + i2cTransfer.rx
    BY <1>1, <1>3, <1>5, <1>6
  <2>. QED
    BY <1>3, <1>7, <2>1, <2>2 DEF Contract!Move
<1>9. CASE i2cRead = 1
  <2>1. ~i2cBusy' /\ i2cOutcome' = "done"
    BY <1>3, <1>9 DEF IsrReadByte, I2cCallback
  <2>2. i2cReadPos + 1 = i2cTransfer.rx
    BY <1>1, <1>2, <1>9
  <2>3. /\ I2cMoved' = i2cTransfer.tx + i2cTransfer.rx
        /\ I2cMoved' \in I2cMoved .. i2cTransfer.tx + i2cTransfer.rx
    BY <1>1, <1>5, <1>6, <2>2
  <2>. QED
    BY <1>3, <1>7, <2>1, <2>3 DEF Contract!Report
<1>. QED
  BY <1>8, <1>9

LEMMA IsrTxDoneRefines ==
  ASSUME I2cInv, IsrTxDone
  PROVE  Contract!Report
<1>1. /\ i2cTransfer.tx \in Nat /\ i2cTransfer.rx \in Nat
      /\ i2cReadPos \in Nat /\ Len(i2cWire) \in Nat
      /\ i2cWritePos \in Nat /\ i2cReadCmdSend \in Nat
      /\ i2cReadCmdSend <= i2cTransfer.rx
  BY MovedBounds DEF I2cInv, PositionsOK
<1>2. /\ UNCHANGED <<i2cTransfer, i2cReadPos, i2cWire>>
      /\ i2cBusy /\ i2cPc = "tx" /\ Len(icTxFifo) = 0
      /\ ~i2cBusy' /\ i2cOutcome' = "done"
  BY DEF IsrTxDone, IntrStat, WriteComplete, I2cCallback, i2cDriver, I2cInv,
     IdleSound
<1>3. /\ UNCHANGED <<i2cTransfer.tx + i2cTransfer.rx, I2cMoved>>
      /\ I2cMoved' \in I2cMoved .. i2cTransfer.tx + i2cTransfer.rx
  BY <1>2, MovedBounds DEF I2cMoved
<1>4. CASE icTxAbrt # "none"
  BY <1>2, <1>3, <1>4 DEF Contract!Report, AbortMissed
<1>5. CASE icTxAbrt = "none"
  <2>1. i2cWritePos = i2cTransfer.tx /\ i2cReadPos = i2cTransfer.rx
    <3>1. i2cTransfer.tx - i2cWritePos = 0 /\ i2cTransfer.rx - i2cReadPos = 0
      BY DEF IsrTxDone, WriteComplete, I2cInv, BusySound
    <3>. QED
      BY <1>1, <3>1
  <2>2. Len(i2cWire) = i2cTransfer.tx + (i2cTransfer.rx - i2cReadCmdSend)
    BY <1>2, <1>5, <2>1 DEF I2cInv, CountSound, Issued
  <2>3. Len(i2cWire) >= i2cTransfer.tx
    BY <1>1, <2>2
  <2>4. I2cMoved = i2cTransfer.tx + i2cTransfer.rx
    BY <1>1, <2>1, <2>3 DEF I2cMoved, Least
  <2>. QED
    BY <1>2, <1>3, <2>4 DEF Contract!Report
<1>. QED
  BY <1>4, <1>5

\* A byte to write moves when the bus takes it.
\* A command taken moves a byte of the write, or none yet.
LEMMA TakenMovesOne ==
  ASSUME TransferOK, i2cReadPos \in 0 .. i2cTransfer.rx, Ordered, i2cBusy, BusTake
  PROVE  Contract!Move \/ UNCHANGED i2cXfer
<1>1. /\ i2cTransfer.tx \in Nat /\ i2cTransfer.rx \in Nat
      /\ i2cReadPos \in Nat /\ i2cReadPos <= i2cTransfer.rx
      /\ Len(i2cWire) \in Nat
  BY LenProperties DEF TransferOK, Ordered
<1>2. UNCHANGED <<i2cTransfer, i2cReadPos, i2cBusy, i2cOutcome>>
  BY DEF BusTake, i2cDriver, i2cClient
<1>3. Len(i2cWire') = Len(i2cWire) + 1
  BY TakenOrdered
<1>6. CASE Len(i2cWire) < i2cTransfer.tx
  <2>1. /\ I2cMoved = Len(i2cWire) + i2cReadPos
        /\ I2cMoved' = Len(i2cWire) + 1 + i2cReadPos
    BY <1>1, <1>2, <1>3, <1>6 DEF I2cMoved, Least
  <2>2. I2cMoved' \in I2cMoved + 1 .. i2cTransfer.tx + i2cTransfer.rx
    BY <1>1, <1>6, <2>1
  <2>. QED
    BY <1>2, <2>2 DEF Contract!Move
<1>7. CASE ~(Len(i2cWire) < i2cTransfer.tx)
  <2>1. I2cMoved' = I2cMoved
    BY <1>1, <1>2, <1>3, <1>7 DEF I2cMoved, Least
  <2>. QED
    BY <1>2, <2>1 DEF i2cXfer
<1>. QED
  BY <1>6, <1>7

LEMMA TakenMoves ==
  ASSUME TransferOK, PositionsOK, InOrder, i2cBusy, BusTake
  PROVE  Contract!Move \/ UNCHANGED i2cXfer
  BY InOrderOrdered, TakenMovesOne DEF PositionsOK

LEMMA BusTakeRefines ==
  ASSUME I2cInv, BusTake
  PROVE  Contract!Move \/ UNCHANGED i2cXfer
<1>1. i2cBusy
  BY DEF BusTake, I2cInv, IdleSound
<1>. QED
  BY <1>1, TakenMoves DEF I2cInv

\* The steps the contract does not see.
LEMMA UnseenSteps ==
  ASSUME I2cTerminate \/ IsrEnter \/ SsRxEnter \/ SsTxEnter \/ IsrReadEnd
         \/ SsReadEnd \/ IsrNoTx \/ IsrFill \/ IsrReads \/ BusByte \/ BusNack
         \/ BusAbort \/ UNCHANGED i2cVars
  PROVE  UNCHANGED i2cXfer
<1>1. UNCHANGED i2cSeen
  BY DEF I2cTerminate, IsrEnter, SsRxEnter, SsTxEnter, SsEnter, IsrReadEnd,
     SsReadEnd, IsrNoTx, IsrFill, IsrReads, BusByte, BusNack, BusAbort,
     i2cSeen, i2cVars, i2cDriver, i2cChip, i2cClient
<1>. QED
  BY <1>1, SeenOnly

LEMMA I2cStepRefines ==
  I2cInv /\ [I2cNext]_i2cVars => [Contract!Next]_i2cXfer
<1>. SUFFICES ASSUME I2cInv, [I2cNext]_i2cVars
              PROVE  Contract!Next \/ UNCHANGED i2cXfer
  OBVIOUS
<1>. QED
  BY I2cStartRefines, IsrAbortRefines, IsrReadByteRefines, IsrTxDoneRefines,
     BusTakeRefines, UnseenSteps DEF I2cNext, I2cHandler, I2cBus,
     Contract!Next

LEMMA SsI2cStepRefines ==
  I2cInv /\ [SsI2cNext]_i2cVars => [Contract!Next]_i2cXfer
<1>. SUFFICES ASSUME I2cInv, [SsI2cNext]_i2cVars
              PROVE  Contract!Next \/ UNCHANGED i2cXfer
  OBVIOUS
<1>. QED
  BY I2cStartRefines, IsrAbortRefines, IsrReadByteRefines, IsrTxDoneRefines,
     BusTakeRefines, UnseenSteps DEF SsI2cNext, SsI2cHandler, SsI2cStart,
     SsI2cTerminate, SsError, SsReadByte, SsTxDone, SsFill, SsReads, I2cBus,
     Contract!Next

LEMMA I2cInitRefines == I2cInit => Contract!Init
<1>. SUFFICES ASSUME I2cInit PROVE Contract!Init
  OBVIOUS
<1>1. /\ i2cTransfer = [tx |-> 0, rx |-> 0, stop |-> TRUE]
      /\ i2cWire = <<>> /\ i2cReadPos = 0 /\ ~i2cBusy /\ i2cOutcome = "none"
  BY DEF I2cInit
<1>2. Len(i2cWire) = 0
  BY <1>1, EmptySeq
<1>. QED
  BY <1>1 DEF Contract!Init, I2cMoved, Least

\* The driver of qm_i2c.c keeps the contract of Transfer through any interleaving
\* of interrupts, refusals, aborts and the bus, refusals while its handler runs
\* included: the client is called back once per transfer, and "done" comes only
\* after every byte has moved, unless the bus has refused or aborted when the
\* handler had already looked for that (qm_i2c.c:528-551, 607-676), or after a
\* transfer without STOP was reported: that abort is then reported afterwards, in
\* a callback that repeats the one of the transfer, or dropped.
THEOREM I2cImplementsTransfer == I2cSpec => I2cImplements
<1>1. I2cInv /\ [I2cNext]_i2cVars => [Contract!Next]_i2cXfer
  BY I2cStepRefines
<1>. QED
  BY <1>1, I2cInitRefines, I2cInvariance, PTL DEF I2cSpec, I2cImplements,
     Contract!Spec, Contract!xfer, i2cXfer

\* The same of qm_ss_i2c.c.
THEOREM SsI2cImplementsTransfer == SsI2cSpec => I2cImplements
<1>1. I2cInv /\ [SsI2cNext]_i2cVars => [Contract!Next]_i2cXfer
  BY SsI2cStepRefines
<1>. QED
  BY <1>1, I2cInitRefines, SsI2cInvariance, PTL DEF SsI2cSpec, I2cImplements,
     Contract!Spec, Contract!xfer, i2cXfer

-----------------------------------------------------------------------------
(* The polled transfers: the same counts, and one byte of a read on its way *)
(* at a time.                                                              *)

\* A byte popped and not read yet.
Popped == IF i2cPoll = "pop" THEN 1 ELSE 0

\* The registers and positions of a polled transfer.
PollTypeOK ==
  /\ TransferOK /\ PositionsOK /\ FlagsOK
  /\ icTxAbrt \in {"none", "nack"} /\ icShift \in {"none", "w", "r"}
  /\ i2cPoll \in {"none", "write", "source", "read", "await", "pop", "done", "failed"}

\* What was issued is on the wire or in the FIFO, and the bytes read are not
\* more than the read commands the bus has seen.
PollCounts ==
  /\ i2cBusy /\ icTxAbrt = "none" => Len(i2cWire) + Len(icTxFifo) = Issued
  /\ icTxAbrt # "none" => icTxFifo = <<>> /\ icShift = "none"
  /\ i2cReadPos + icRxFlr + Incoming + Popped <= ReadsOnWire
  /\ Len(icTxFifo) <= FIFO_SIZE

\* With no transfer the FIFOs are empty, and the bus reads nothing.
PollIdle ==
  /\ i2cBusy <=> i2cPoll # "none"
  /\ i2cBusy => i2cOutcome = "none"
  /\ ~i2cBusy => icTxFifo = <<>> /\ icRxFlr = 0 /\ icShift # "r"
  /\ ~icAbort

\* A read has one byte on its way at a time; with the byte written last by the
\* transfer before still being shifted, none.
PollRounds ==
  /\ i2cPoll \in {"write", "source"} => i2cTransfer.rx = 0
  /\ i2cPoll = "source" => i2cWritePos = i2cTransfer.tx /\ icTxFifo = <<>>
  /\ i2cPoll \in {"read", "await", "pop"} =>
       /\ i2cTransfer.tx = 0
       /\ icShift = "w" => i2cWire = <<>>
  /\ i2cPoll = "read" => i2cReadCmdSend > 0 /\ i2cReadPos = Issued
  /\ i2cPoll \in {"await", "pop"} => i2cReadPos + 1 = Issued
  /\ i2cPoll = "await" /\ icTxAbrt # "none" => icRxFlr = 0
  /\ i2cPoll = "done" =>
       /\ Len(i2cWire) = i2cTransfer.tx + i2cTransfer.rx
       /\ i2cReadPos = i2cTransfer.rx
  /\ i2cPoll = "failed" =>
       /\ icTxAbrt # "none" /\ icRxFlr = 0
       /\ i2cTransfer.rx - i2cReadCmdSend <= i2cReadPos + 1

\* The inductive invariant of both drivers' polled transfers.
I2cPollInv == PollTypeOK /\ InOrder /\ PollCounts /\ PollIdle /\ PollRounds

\* The counts as numbers, which every step below starts from.
PollNumbers ==
  /\ i2cTransfer.tx \in Nat /\ i2cTransfer.rx \in Nat
  /\ i2cWritePos \in Nat /\ i2cReadPos \in Nat /\ i2cReadCmdSend \in Nat
  /\ i2cWritePos <= i2cTransfer.tx /\ i2cReadCmdSend <= i2cTransfer.rx
  /\ i2cReadPos <= i2cTransfer.rx
  /\ icRxFlr \in Nat
  /\ Incoming \in Nat /\ Incoming <= 1 /\ Popped \in Nat /\ Popped <= 1
  /\ Len(i2cWire) \in Nat /\ Len(icTxFifo) \in Nat
  /\ Issued \in Nat /\ Issued = i2cWritePos + (i2cTransfer.rx - i2cReadCmdSend)
  /\ Len(i2cWire) + Len(icTxFifo) <= Issued
  /\ ReadsOnWire \in Nat
  /\ ReadsOnWire <= i2cTransfer.rx - i2cReadCmdSend

LEMMA PollFacts == I2cPollInv => PollNumbers
<1>. SUFFICES ASSUME I2cPollInv PROVE PollNumbers
  OBVIOUS
<1>1. /\ i2cTransfer.tx \in Nat /\ i2cTransfer.rx \in Nat
      /\ i2cWritePos \in Nat /\ i2cReadPos \in Nat /\ i2cReadCmdSend \in Nat
      /\ i2cWritePos <= i2cTransfer.tx /\ i2cReadCmdSend <= i2cTransfer.rx
      /\ i2cReadPos <= i2cTransfer.rx /\ icRxFlr \in Nat
  BY DEF I2cPollInv, PollTypeOK, TransferOK, PositionsOK
<1>2. Incoming \in Nat /\ Incoming <= 1 /\ Popped \in Nat /\ Popped <= 1
  BY DEF Incoming, Popped
<1>3. Len(i2cWire) \in Nat /\ Len(icTxFifo) \in Nat
  BY Lengths DEF I2cPollInv
<1>4. Issued \in Nat /\ Issued = i2cWritePos + (i2cTransfer.rx - i2cReadCmdSend)
  BY <1>1 DEF Issued
<1>5. Len(i2cWire) + Len(icTxFifo) <= Issued
  BY DEF I2cPollInv, InOrder
<1>6. ReadsOnWire \in Nat /\ ReadsOnWire <= i2cTransfer.rx - i2cReadCmdSend
  <2>1. i2cTransfer.rx - i2cReadCmdSend \in Nat
    BY <1>1
  <2>2. Len(i2cWire) - i2cTransfer.tx <= i2cTransfer.rx - i2cReadCmdSend
    BY <1>1, <1>3, <1>4, <1>5
  <2>3. CASE Len(i2cWire) > i2cTransfer.tx
    BY <1>1, <1>3, <2>2, <2>3 DEF ReadsOnWire
  <2>4. CASE ~(Len(i2cWire) > i2cTransfer.tx)
    BY <2>1, <2>4 DEF ReadsOnWire
  <2>. QED
    BY <2>3, <2>4
<1>. QED
  BY <1>1, <1>2, <1>3, <1>4, <1>5, <1>6 DEF PollNumbers

LEMMA I2cPollInitInv == I2cPolledInit => I2cPollInv
<1>. SUFFICES ASSUME I2cPolledInit PROVE I2cPollInv
  OBVIOUS
<1>1. TransferOK /\ PositionsOK
  BY I2cAssumption DEF I2cPolledInit, I2cInit, TransferOK, PositionsOK
<1>2. PollTypeOK
  BY <1>1 DEF I2cPolledInit, I2cInit, PollTypeOK, FlagsOK
<1>3. InOrder /\ PollCounts
  BY I2cAssumption DEF I2cPolledInit, I2cInit, InOrder, PollCounts, Issued,
     ReadsOnWire, Incoming, Popped
<1>4. PollIdle /\ PollRounds
  BY DEF I2cPolledInit, I2cInit, PollIdle, PollRounds
<1>. QED
  BY <1>2, <1>3, <1>4 DEF I2cPollInv

LEMMA I2cPollStartStep ==
  ASSUME I2cPollInv, NEW x \in I2cPolledTransfers, I2cPollStart(x)
  PROVE  I2cPollInv' /\ Contract!Start
<1>1. /\ x \in [tx : 0 .. I2cMaxLen, rx : 0 .. I2cMaxLen, stop : BOOLEAN]
      /\ x.tx \in 0 .. I2cMaxLen /\ x.rx \in 0 .. I2cMaxLen
      /\ x.tx = 0 \/ x.rx = 0
  BY DEF I2cPolledTransfers, I2cTransfers
<1>2. /\ i2cTransfer' = x
      /\ i2cWritePos' = 0 /\ i2cReadPos' = 0 /\ i2cReadCmdSend' = x.rx
      /\ icEnabled' = TRUE /\ icTxAbrt' = "none" /\ i2cWire' = <<>>
      /\ i2cPoll' = (IF x.rx = 0 THEN "write" ELSE "read")
      /\ i2cBusy' = TRUE /\ i2cOutcome' = "none"
      /\ UNCHANGED <<icAbort, icTxFifo, icRxFlr, icShift>>
      /\ ~i2cBusy
  BY DEF I2cPollStart
<1>3. icTxFifo = <<>> /\ icRxFlr = 0 /\ icShift # "r"
  BY <1>2 DEF I2cPollInv, PollIdle
<1>4. x.tx \in Nat /\ x.rx \in Nat
  BY <1>1, I2cAssumption
<1>5. Len(i2cWire') = 0 /\ Len(icTxFifo') = 0
  BY <1>2, <1>3, EmptySeq
<1>6. Issued' = 0
  BY <1>2, <1>4 DEF Issued
<1>7. PollTypeOK'
  <2>1. TransferOK'
    BY <1>1, <1>2 DEF TransferOK
  <2>2. PositionsOK'
    BY <1>2, <1>3, <1>4 DEF PositionsOK
  <2>. QED
    BY <1>2, <2>1, <2>2 DEF I2cPollInv, PollTypeOK, FlagsOK
<1>8. InOrder'
  BY <1>2, <1>3, <1>5, <1>6 DEF I2cPollInv, InOrder
<1>9. PollCounts'
  <2>1. Incoming' = 0 /\ Popped' = 0
    BY <1>2, <1>3 DEF Incoming, Popped
  <2>2. ReadsOnWire' = 0
    BY <1>2, <1>4, <1>5 DEF ReadsOnWire
  <2>. QED
    BY <1>2, <1>3, <1>5, <1>6, <2>1, <2>2, I2cAssumption DEF PollCounts
<1>10. PollIdle'
  BY <1>2 DEF I2cPollInv, PollIdle
<1>11. PollRounds'
  BY <1>1, <1>2, <1>4, <1>6 DEF PollRounds
<1>12. Contract!Start
  <2>1. I2cMoved' = 0
    BY <1>2, <1>4, <1>5 DEF I2cMoved, Least
  <2>. QED
    BY <1>2, <1>4, <2>1 DEF Contract!Start
<1>. QED
  BY <1>7, <1>8, <1>9, <1>10, <1>11, <1>12 DEF I2cPollInv

\* What the contract does not see of a step that writes a command.
LEMMA I2cPollPushStep ==
  ASSUME I2cPollInv, I2cPollPush
  PROVE  I2cPollInv' /\ UNCHANGED i2cXfer
<1>0. PollNumbers
  BY PollFacts
<1>. DEFINE c == WriteCommands(i2cTransfer, i2cWritePos, 0, 1)
<1>1. /\ i2cPoll = "write" /\ i2cWritePos < i2cTransfer.tx
      /\ Len(icTxFifo) < FIFO_SIZE /\ Push(c)
      /\ i2cWritePos' = i2cWritePos + 1
      /\ UNCHANGED <<i2cTransfer, i2cReadPos, i2cReadCmdSend, icEnabled, icAbort,
                     icTxAbrt, icRxFlr, icShift, i2cWire, i2cBusy, i2cOutcome,
                     i2cPoll>>
  BY DEF I2cPollPush, i2cRegs, i2cClient
<1>2. i2cTransfer.rx = 0 /\ i2cBusy
  BY <1>1 DEF I2cPollInv, PollRounds, PollIdle
<1>3. /\ Issued = i2cWritePos /\ Issued' = Issued + 1
      /\ i2cReadCmdSend = 0
  BY <1>1, <1>2, <1>0 DEF PollNumbers, Issued
<1>4. TransferOK' /\ PositionsOK'
  BY <1>1, <1>0 DEF PollNumbers, I2cPollInv, PollTypeOK, TransferOK, PositionsOK
<1>5. c = [k \in 1 .. 1 |-> c[k]] /\ c[1] = I2cProgram(i2cTransfer)[Issued + 1]
  <2>1. c = [k \in 1 .. 1 |->
               [op |-> "w", i |-> i2cWritePos + k,
                stop |-> i2cTransfer.stop /\ i2cWritePos + k = i2cTransfer.tx
                         /\ 0 = i2cTransfer.rx]]
    BY DEF WriteCommands
  <2>2. c[1] = [op |-> "w", i |-> i2cWritePos + 1,
                stop |-> i2cTransfer.stop /\ i2cWritePos + 1 = i2cTransfer.tx
                         /\ 0 = i2cTransfer.rx]
    BY <2>1
  <2>3. /\ i2cWritePos + 1 \in 1 .. i2cTransfer.tx + i2cTransfer.rx
        /\ i2cWritePos + 1 <= i2cTransfer.tx
        /\ i2cTransfer.tx = i2cTransfer.tx + i2cTransfer.rx
    BY <1>1, <1>2, <1>0 DEF PollNumbers
  <2>4. I2cProgram(i2cTransfer)[i2cWritePos + 1] =
          [op |-> "w", i |-> i2cWritePos + 1,
           stop |-> i2cTransfer.stop
                    /\ i2cWritePos + 1 = i2cTransfer.tx + i2cTransfer.rx]
    BY <2>3, ProgramCommands DEF I2cPollInv, PollTypeOK, TransferOK
  <2>. QED
    BY <1>2, <1>3, <2>1, <2>2, <2>3, <2>4
<1>. HIDE DEF c
<1>6. InOrder' /\ Len(icTxFifo') <= Len(icTxFifo) + 1
      /\ (icTxAbrt = "none" => Len(icTxFifo') = Len(icTxFifo) + 1)
      /\ (icTxAbrt # "none" => icTxFifo' = <<>>)
  <2>1. CASE icTxAbrt = "none"
    <3>1. Len(i2cWire) + Len(icTxFifo) = Issued
      BY <1>2, <2>1 DEF I2cPollInv, PollCounts
    <3>2. icTxFifo' = icTxFifo \o c
      BY <1>1, <2>1 DEF Push
    <3>3. \A k \in 1 .. 1 : c[k] = I2cProgram(i2cTransfer)[Issued + k]
      BY <1>5
    <3>4. 1 \in Nat
      OBVIOUS
    <3>5. InOrder' /\ Len(icTxFifo') = Len(icTxFifo) + 1
      BY <1>1, <1>3, <1>4, <1>5, <3>1, <3>2, <3>3, <3>4, PushedInOrder
         DEF I2cPollInv, PollTypeOK
    <3>. QED
      BY <2>1, <3>5, <1>0 DEF PollNumbers
  <2>2. CASE icTxAbrt # "none"
    <3>1. icTxFifo' = <<>>
      BY <1>1, <2>2 DEF Push
    <3>2. InOrder'
      BY <1>1, <1>3, <1>4, <3>1, <1>0, EmptiedInOrder DEF PollNumbers, I2cPollInv, PollTypeOK
    <3>. QED
      BY <2>2, <3>1, <3>2, <1>0, EmptySeq DEF PollNumbers
  <2>. QED
    BY <2>1, <2>2
<1>7. PollTypeOK'
  BY <1>1, <1>4 DEF I2cPollInv, PollTypeOK, FlagsOK
<1>8. PollCounts'
  <2>1. UNCHANGED <<Incoming, Popped, ReadsOnWire>>
    BY <1>1 DEF Incoming, Popped, ReadsOnWire
  <2>2. Len(icTxFifo') \in Nat /\ Len(i2cWire') = Len(i2cWire)
    BY <1>1, <1>6, LenProperties DEF InOrder
  <2>3. i2cBusy' /\ icTxAbrt' = "none" => Len(i2cWire') + Len(icTxFifo') = Issued'
    BY <1>1, <1>2, <1>3, <1>6, <2>2, <1>0 DEF PollNumbers, I2cPollInv, PollCounts
  <2>4. Len(icTxFifo') <= FIFO_SIZE
    BY <1>1, <1>6, <2>2, <1>0, I2cAssumption DEF PollNumbers
  <2>. QED
    BY <1>1, <1>6, <2>1, <2>3, <2>4 DEF I2cPollInv, PollCounts
<1>9. PollIdle' /\ PollRounds'
  BY <1>1, <1>2 DEF I2cPollInv, PollIdle, PollRounds
<1>. QED
  BY <1>1, <1>6, <1>7, <1>8, <1>9, SeenOnly DEF I2cPollInv, i2cSeen


LEMMA I2cPollDrainedStep ==
  ASSUME I2cPollInv, I2cPollDrained
  PROVE  I2cPollInv' /\ UNCHANGED i2cXfer
<1>1. /\ i2cPoll = "write" /\ i2cWritePos = i2cTransfer.tx /\ icTxFifo = <<>>
      /\ i2cPoll' = "source"
      /\ UNCHANGED <<i2cTransfer, i2cWritePos, i2cReadPos, i2cReadCmdSend,
                     icEnabled, icAbort, icTxAbrt, icTxFifo, icRxFlr, icShift,
                     i2cWire, i2cBusy, i2cOutcome>>
  BY DEF I2cPollDrained, i2cVars, i2cDriver, i2cRegs, i2cChip, i2cClient
<1>2. PollTypeOK'
  BY <1>1 DEF I2cPollInv, PollTypeOK, TransferOK, PositionsOK, FlagsOK
<1>3. InOrder' /\ PollCounts'
  BY <1>1 DEF I2cPollInv, InOrder, PollCounts, Issued, ReadsOnWire, Incoming,
     Popped
<1>4. PollIdle' /\ PollRounds'
  BY <1>1 DEF I2cPollInv, PollIdle, PollRounds
<1>. QED
  BY <1>1, <1>2, <1>3, <1>4, SeenOnly DEF I2cPollInv, i2cSeen

LEMMA I2cPollSourceStep ==
  ASSUME I2cPollInv, I2cPollSource
  PROVE  I2cPollInv' /\ UNCHANGED i2cXfer
<1>0. PollNumbers
  BY PollFacts
<1>1. /\ i2cPoll = "source"
      /\ i2cPoll' = (IF icTxAbrt # "none" THEN "failed" ELSE "done")
      /\ UNCHANGED <<i2cTransfer, i2cWritePos, i2cReadPos, i2cReadCmdSend,
                     icEnabled, icAbort, icTxAbrt, icTxFifo, icRxFlr, icShift,
                     i2cWire, i2cBusy, i2cOutcome>>
  BY DEF I2cPollSource, i2cVars, i2cDriver, i2cRegs, i2cChip, i2cClient
<1>2. /\ i2cTransfer.rx = 0 /\ i2cWritePos = i2cTransfer.tx /\ icTxFifo = <<>>
      /\ i2cReadPos = 0 /\ i2cReadCmdSend = 0 /\ icRxFlr = 0 /\ i2cBusy
  <2>1. /\ i2cTransfer.rx = 0 /\ i2cWritePos = i2cTransfer.tx /\ icTxFifo = <<>>
        /\ i2cBusy
    BY <1>1 DEF I2cPollInv, PollRounds, PollIdle
  <2>2. i2cReadPos = 0 /\ i2cReadCmdSend = 0
    BY <2>1, <1>0 DEF PollNumbers
  <2>3. i2cReadPos + icRxFlr + Incoming + Popped <= 0
    BY <2>1, <2>2, <1>0 DEF PollNumbers, I2cPollInv, PollCounts
  <2>. QED
    BY <2>1, <2>2, <2>3, <1>0 DEF PollNumbers
<1>3. PollTypeOK'
  BY <1>1 DEF I2cPollInv, PollTypeOK, TransferOK, PositionsOK, FlagsOK
<1>4. InOrder' /\ PollCounts'
  BY <1>1 DEF I2cPollInv, InOrder, PollCounts, Issued, ReadsOnWire, Incoming,
     Popped
<1>5. PollIdle'
  BY <1>1 DEF I2cPollInv, PollIdle
<1>6. icTxAbrt = "none" => Len(i2cWire) = i2cTransfer.tx + i2cTransfer.rx
  <2>1. Len(icTxFifo) = 0
    BY <1>2, EmptySeq
  <2>. QED
    BY <1>2, <2>1, <1>0 DEF PollNumbers, I2cPollInv, PollCounts
<1>7. PollRounds'
  BY <1>1, <1>2, <1>6 DEF PollRounds
<1>. QED
  BY <1>1, <1>3, <1>4, <1>5, <1>7, SeenOnly DEF I2cPollInv, i2cSeen

\* The bus has seen every read that was asked for, and its byte was taken.
LEMMA AskedAndTaken ==
  ASSUME I2cPollInv, i2cPoll = "read"
  PROVE  /\ icRxFlr = 0 /\ Incoming = 0
         /\ icTxAbrt = "none" => icTxFifo = <<>> /\ Len(i2cWire) = Issued
<1>0. PollNumbers
  BY PollFacts
<1>1. /\ i2cTransfer.tx = 0 /\ i2cWritePos = 0 /\ i2cBusy
      /\ i2cReadPos = Issued
  BY <1>0 DEF PollNumbers, I2cPollInv, PollRounds, PollIdle
<1>2. /\ i2cReadPos + icRxFlr + Incoming + Popped <= ReadsOnWire
      /\ ReadsOnWire <= i2cReadPos
  BY <1>1, <1>0 DEF PollNumbers, I2cPollInv, PollCounts
<1>3. icRxFlr = 0 /\ Incoming = 0 /\ ReadsOnWire = Issued
  <2>1. /\ i2cReadPos \in Nat /\ icRxFlr \in Nat /\ Incoming \in Nat
        /\ Popped \in Nat /\ ReadsOnWire \in Nat
    BY <1>0 DEF PollNumbers
  <2>. QED
    BY ONLY <1>1, <1>2, <2>1
<1>4. Len(i2cWire) = Issued
  BY <1>1, <1>3, <1>0 DEF PollNumbers, ReadsOnWire
<1>5. Len(icTxFifo) = 0
  BY <1>4, <1>0 DEF PollNumbers
<1>6. icTxFifo = <<>>
  BY <1>5, EmptySeq DEF I2cPollInv, InOrder
<1>. QED
  BY <1>3, <1>4, <1>6

LEMMA I2cPollAskStep ==
  ASSUME I2cPollInv, I2cPollAsk
  PROVE  I2cPollInv' /\ UNCHANGED i2cXfer
<1>0. PollNumbers
  BY PollFacts
<1>. DEFINE c == ReadCommands(i2cTransfer, i2cReadCmdSend, 1)
<1>1. /\ i2cPoll = "read" /\ Push(c)
      /\ i2cReadCmdSend' = i2cReadCmdSend - 1 /\ i2cPoll' = "await"
      /\ UNCHANGED <<i2cTransfer, i2cWritePos, i2cReadPos, icEnabled, icAbort,
                     icTxAbrt, icRxFlr, icShift, i2cWire, i2cBusy, i2cOutcome>>
  BY DEF I2cPollAsk, i2cRegs, i2cClient
<1>2. /\ i2cTransfer.tx = 0 /\ i2cWritePos = 0 /\ i2cBusy
      /\ i2cReadPos = Issued /\ i2cReadCmdSend > 0
      /\ icRxFlr = 0 /\ Incoming = 0
      /\ icTxAbrt = "none" => icTxFifo = <<>> /\ Len(i2cWire) = Issued
      /\ icShift = "w" => i2cWire = <<>>
  BY <1>1, <1>0, AskedAndTaken DEF PollNumbers, I2cPollInv, PollRounds, PollIdle
<1>3. Issued' = Issued + 1
  <2>1. /\ i2cTransfer.rx \in Nat /\ i2cReadCmdSend \in Nat
        /\ i2cWritePos = 0 /\ i2cWritePos' = 0
        /\ i2cTransfer' = i2cTransfer /\ i2cReadCmdSend' = i2cReadCmdSend - 1
    BY <1>1, <1>2, <1>0 DEF PollNumbers
  <2>. QED
    BY <2>1 DEF Issued
<1>4. TransferOK' /\ PositionsOK'
  BY <1>1, <1>2, <1>0 DEF PollNumbers, I2cPollInv, PollTypeOK, TransferOK, PositionsOK
<1>5. c = [k \in 1 .. 1 |-> c[k]] /\ c[1] = I2cProgram(i2cTransfer)[Issued + 1]
  <2>1. c = [k \in 1 .. 1 |->
               [op |-> "r", i |-> 0, stop |-> i2cTransfer.stop /\ k = i2cReadCmdSend]]
    BY DEF ReadCommands
  <2>2. c[1] = [op |-> "r", i |-> 0, stop |-> i2cTransfer.stop /\ 1 = i2cReadCmdSend]
    BY <2>1
  <2>3. /\ Issued + 1 \in 1 .. i2cTransfer.tx + i2cTransfer.rx
        /\ Issued + 1 > i2cTransfer.tx
        /\ 1 = i2cReadCmdSend <=> Issued + 1 = i2cTransfer.tx + i2cTransfer.rx
    BY <1>2, <1>0 DEF PollNumbers
  <2>4. I2cProgram(i2cTransfer)[Issued + 1] =
          [op |-> "r", i |-> 0,
           stop |-> i2cTransfer.stop /\ Issued + 1 = i2cTransfer.tx + i2cTransfer.rx]
    BY <2>3, ProgramCommands DEF I2cPollInv, PollTypeOK, TransferOK
  <2>. QED
    BY <2>1, <2>2, <2>3, <2>4
<1>. HIDE DEF c
<1>6. InOrder'
      /\ (icTxAbrt = "none" => Len(icTxFifo') = 1)
      /\ (icTxAbrt # "none" => icTxFifo' = <<>>)
  <2>1. CASE icTxAbrt = "none"
    <3>1. Len(icTxFifo) = 0 /\ Len(i2cWire) + Len(icTxFifo) = Issued
      BY <1>2, <2>1, EmptySeq, <1>0 DEF PollNumbers
    <3>2. icTxFifo' = icTxFifo \o c
      BY <1>1, <2>1 DEF Push
    <3>3. \A k \in 1 .. 1 : c[k] = I2cProgram(i2cTransfer)[Issued + k]
      BY <1>5
    <3>4. 1 \in Nat
      OBVIOUS
    <3>5. InOrder' /\ Len(icTxFifo') = Len(icTxFifo) + 1
      BY <1>1, <1>3, <1>4, <1>5, <3>1, <3>2, <3>3, <3>4, PushedInOrder
         DEF I2cPollInv, PollTypeOK
    <3>. QED
      BY <2>1, <3>1, <3>5
  <2>2. CASE icTxAbrt # "none"
    <3>1. icTxFifo' = <<>>
      BY <1>1, <2>2 DEF Push
    <3>2. InOrder'
      BY <1>1, <1>3, <1>4, <3>1, <1>0, EmptiedInOrder DEF PollNumbers, I2cPollInv, PollTypeOK
    <3>. QED
      BY <2>2, <3>1, <3>2
  <2>. QED
    BY <2>1, <2>2
<1>7. PollTypeOK'
  BY <1>1, <1>4 DEF I2cPollInv, PollTypeOK, FlagsOK
<1>8. PollCounts'
  <2>1. UNCHANGED <<Incoming, ReadsOnWire>> /\ Popped = 0 /\ Popped' = 0
    BY <1>1 DEF Incoming, Popped, ReadsOnWire
  <2>2. Len(icTxFifo') \in Nat /\ Len(i2cWire') = Len(i2cWire)
    BY <1>1, <1>6, LenProperties DEF InOrder
  <2>3. i2cBusy' /\ icTxAbrt' = "none" => Len(i2cWire') + Len(icTxFifo') = Issued'
    BY <1>1, <1>2, <1>3, <1>6, <2>2, <1>0 DEF PollNumbers
  <2>4. Len(icTxFifo') <= FIFO_SIZE
    <3>1. Len(icTxFifo') \in {0, 1}
      BY <1>6, EmptySeq
    <3>2. FIFO_SIZE \in Nat /\ FIFO_SIZE >= 1
      BY I2cAssumption
    <3>. QED
      BY ONLY <3>1, <3>2
  <2>. QED
    BY <1>1, <1>6, <2>1, <2>3, <2>4 DEF I2cPollInv, PollCounts
<1>9. PollIdle'
  BY <1>1, <1>2 DEF I2cPollInv, PollIdle
<1>10. PollRounds'
  BY <1>1, <1>2, <1>3 DEF PollRounds
<1>. QED
  BY <1>1, <1>6, <1>7, <1>8, <1>9, <1>10, SeenOnly DEF I2cPollInv, i2cSeen


\* What a taken byte leaves: another is asked for, or the read is over.
LEMMA TakenRounds ==
  ASSUME I2cPollInv, i2cPoll \in {"await", "pop"}, icTxAbrt = "none" \/ i2cPoll = "pop",
         UNCHANGED <<i2cTransfer, i2cWritePos, i2cReadCmdSend, icAbort, icTxAbrt,
                     icTxFifo, icShift, i2cWire, i2cBusy, i2cOutcome, icEnabled>>,
         i2cReadPos' = i2cReadPos + 1,
         icRxFlr' \in Nat,
         icRxFlr' = (icRxFlr + Popped) - 1,
         i2cPoll' = (IF i2cReadCmdSend = 0 THEN "done" ELSE "read")
  PROVE  I2cPollInv' /\ Contract!Move
<1>0. PollNumbers
  BY PollFacts
<1>1. /\ i2cTransfer.tx = 0 /\ i2cWritePos = 0 /\ i2cBusy
      /\ i2cReadPos + 1 = Issued
      /\ icShift = "w" => i2cWire = <<>>
  <2>1. /\ i2cTransfer.tx = 0 /\ i2cBusy /\ i2cReadPos + 1 = Issued
        /\ icShift = "w" => i2cWire = <<>>
    BY DEF I2cPollInv, PollRounds, PollIdle
  <2>. QED
    BY <2>1, <1>0 DEF PollNumbers
<1>2. /\ Issued' = Issued /\ Incoming' = Incoming /\ ReadsOnWire' = ReadsOnWire
      /\ Popped' = 0
  BY DEF Issued, Incoming, ReadsOnWire, Popped
<1>3. /\ i2cReadPos + icRxFlr + Incoming + Popped <= ReadsOnWire
      /\ ReadsOnWire <= i2cReadPos + 1
  BY <1>1, <1>0 DEF PollNumbers, I2cPollInv, PollCounts
<1>4. ReadsOnWire = i2cReadPos + 1 /\ Len(i2cWire) = i2cReadPos + 1
  <2>1. icRxFlr + Popped >= 1
    <3>1. icRxFlr \in Nat /\ Popped \in Nat
      BY <1>0 DEF PollNumbers
    <3>2. icRxFlr' \in Nat /\ icRxFlr' = (icRxFlr + Popped) - 1
      OBVIOUS
    <3>. QED
      BY ONLY <3>1, <3>2
  <2>2. ReadsOnWire = i2cReadPos + 1
    <3>1. /\ i2cReadPos \in Nat /\ icRxFlr \in Nat /\ Incoming \in Nat
          /\ Popped \in Nat /\ ReadsOnWire \in Nat
      BY <1>0 DEF PollNumbers
    <3>. QED
      BY ONLY <1>3, <2>1, <3>1
  <2>. QED
    BY <1>1, <2>2, <1>0 DEF PollNumbers, ReadsOnWire
<1>5. TransferOK' /\ PositionsOK'
  <2>1. i2cReadPos' <= i2cTransfer.rx
    BY <1>1, <1>0 DEF PollNumbers
  <2>. QED
    BY <2>1, <1>0 DEF PollNumbers, I2cPollInv, PollTypeOK, TransferOK, PositionsOK
<1>6. PollTypeOK'
  BY <1>5 DEF I2cPollInv, PollTypeOK, FlagsOK
<1>7. InOrder'
  BY <1>2 DEF I2cPollInv, InOrder
<1>8. PollCounts'
  <2>1. i2cReadPos' + icRxFlr' + Incoming' + Popped' <= ReadsOnWire'
    <3>1. /\ i2cReadPos \in Nat /\ icRxFlr \in Nat /\ Incoming \in Nat
          /\ Popped \in Nat /\ ReadsOnWire \in Nat
      BY <1>0 DEF PollNumbers
    <3>2. /\ i2cReadPos' = i2cReadPos + 1 /\ icRxFlr' = (icRxFlr + Popped) - 1
          /\ icRxFlr' \in Nat
      OBVIOUS
    <3>3. i2cReadPos' + icRxFlr' + Incoming = i2cReadPos + icRxFlr + Incoming + Popped
      BY ONLY <3>1, <3>2
    <3>4. i2cReadPos' + icRxFlr' + Incoming' + Popped' = i2cReadPos' + icRxFlr' + Incoming
      BY ONLY <1>2, <3>1, <3>2
    <3>. QED
      BY ONLY <1>2, <1>3, <3>3, <3>4
  <2>. QED
    BY <1>2, <2>1 DEF I2cPollInv, PollCounts
<1>9. PollIdle'
  BY <1>1 DEF I2cPollInv, PollIdle
<1>10. PollRounds'
  <2>1. i2cReadCmdSend = 0 => i2cReadPos + 1 = i2cTransfer.rx
    BY <1>1, <1>0 DEF PollNumbers
  <2>2. i2cReadCmdSend # 0 => i2cReadCmdSend > 0
    BY <1>0 DEF PollNumbers
  <2>. QED
    BY <1>1, <1>2, <1>4, <2>1, <2>2 DEF PollRounds
<1>11. Contract!Move
  <2>0. /\ Least(Len(i2cWire), 0) = 0
        /\ i2cReadPos \in Nat /\ i2cTransfer' = i2cTransfer /\ i2cWire' = i2cWire
        /\ i2cTransfer.tx = 0
    BY <1>1, <1>0 DEF PollNumbers, Least
  <2>1. I2cMoved = i2cReadPos /\ I2cMoved' = i2cReadPos + 1
    BY <2>0 DEF I2cMoved
  <2>2. I2cMoved' \in I2cMoved + 1 .. i2cTransfer.tx + i2cTransfer.rx
    BY <1>1, <2>1, <1>0 DEF PollNumbers
  <2>. QED
    BY <1>1, <2>2 DEF Contract!Move
<1>. QED
  BY <1>6, <1>7, <1>8, <1>9, <1>10, <1>11 DEF I2cPollInv

\* A wait that an abort ends.
LEMMA AbortedWait ==
  ASSUME I2cPollInv, i2cPoll = "await", icTxAbrt # "none",
         UNCHANGED <<i2cTransfer, i2cWritePos, i2cReadPos, i2cReadCmdSend,
                     icAbort, icEnabled, icTxAbrt, icTxFifo, icRxFlr, icShift,
                     i2cWire, i2cBusy, i2cOutcome>>,
         i2cPoll' = "failed"
  PROVE  I2cPollInv' /\ UNCHANGED i2cXfer
<1>1. PollTypeOK'
  BY DEF I2cPollInv, PollTypeOK, TransferOK, PositionsOK, FlagsOK
<1>2. InOrder' /\ PollCounts'
  BY DEF I2cPollInv, InOrder, PollCounts, Issued, ReadsOnWire, Incoming, Popped
<1>3. PollIdle'
  BY DEF I2cPollInv, PollIdle
<1>4. i2cTransfer.rx - i2cReadCmdSend <= i2cReadPos + 1
  <2>1. i2cTransfer.tx = 0 /\ i2cReadPos + 1 = Issued
    BY DEF I2cPollInv, PollRounds
  <2>2. /\ i2cTransfer.tx \in Nat /\ i2cTransfer.rx \in Nat
        /\ i2cWritePos \in Nat /\ i2cReadCmdSend \in Nat /\ i2cReadPos \in Nat
        /\ i2cWritePos <= i2cTransfer.tx
        /\ Issued = i2cWritePos + (i2cTransfer.rx - i2cReadCmdSend)
    BY PollFacts DEF PollNumbers
  <2>. QED
    BY ONLY <2>1, <2>2
<1>5. PollRounds'
  BY <1>4 DEF I2cPollInv, PollRounds
<1>. QED
  BY <1>1, <1>2, <1>3, <1>5, SeenOnly DEF I2cPollInv, i2cSeen

LEMMA I2cPollTakeStep ==
  ASSUME I2cPollInv, I2cPollTake
  PROVE  I2cPollInv' /\ (Contract!Move \/ UNCHANGED i2cXfer)
<1>0. PollNumbers
  BY PollFacts
<1>1. /\ i2cPoll = "await"
      /\ icRxFlr > 0 \/ icTxAbrt # "none"
      /\ UNCHANGED <<i2cTransfer, i2cWritePos, i2cReadCmdSend, icEnabled,
                     icAbort, icTxAbrt, icTxFifo, icShift, i2cWire, i2cBusy,
                     i2cOutcome>>
  BY DEF I2cPollTake, i2cRegs, i2cClient
<1>2. CASE icTxAbrt = "none"
  <2>1. /\ icRxFlr' = icRxFlr - 1 /\ i2cReadPos' = i2cReadPos + 1
        /\ i2cPoll' = (IF i2cReadCmdSend = 0 THEN "done" ELSE "read")
        /\ Popped = 0 /\ icRxFlr > 0
    BY <1>1, <1>2 DEF I2cPollTake, Popped
  <2>2. icRxFlr' \in Nat /\ icRxFlr' = (icRxFlr + Popped) - 1
    BY <2>1, <1>0 DEF PollNumbers
  <2>. QED
    BY <1>1, <1>2, <2>1, <2>2, TakenRounds
<1>3. CASE icTxAbrt # "none"
  BY <1>1, <1>3, AbortedWait DEF I2cPollTake
<1>. QED
  BY <1>2, <1>3

LEMMA SsI2cPollPopStep ==
  ASSUME I2cPollInv, SsI2cPollPop
  PROVE  I2cPollInv' /\ UNCHANGED i2cXfer
<1>0. PollNumbers
  BY PollFacts
<1>1. /\ i2cPoll = "await"
      /\ icRxFlr > 0 \/ icTxAbrt # "none"
      /\ UNCHANGED <<i2cTransfer, i2cWritePos, i2cReadPos, i2cReadCmdSend,
                     icEnabled, icAbort, icTxAbrt, icTxFifo, icShift, i2cWire,
                     i2cBusy, i2cOutcome>>
  BY DEF SsI2cPollPop, i2cDriver, i2cRegs, i2cClient
<1>2. CASE icTxAbrt = "none"
  <2>1. icRxFlr' = icRxFlr - 1 /\ i2cPoll' = "pop" /\ icRxFlr > 0
    BY <1>1, <1>2 DEF SsI2cPollPop
  <2>2. /\ icRxFlr' \in Nat /\ Popped = 0 /\ Popped' = 1
        /\ UNCHANGED <<Issued, Incoming, ReadsOnWire>>
    BY <1>1, <2>1, <1>0 DEF PollNumbers, Popped, Issued, Incoming, ReadsOnWire
  <2>3. PollTypeOK'
    BY <1>1, <2>1, <2>2 DEF I2cPollInv, PollTypeOK, TransferOK, PositionsOK,
       FlagsOK
  <2>4. i2cReadPos' + icRxFlr' + Incoming' + Popped' <= ReadsOnWire'
    BY <1>1, <2>1, <2>2, <1>0 DEF PollNumbers, I2cPollInv, PollCounts
  <2>5. InOrder' /\ PollCounts'
    BY <1>1, <2>2, <2>4 DEF I2cPollInv, InOrder, PollCounts
  <2>6. PollIdle' /\ PollRounds'
    BY <1>1, <2>1, <2>2 DEF I2cPollInv, PollIdle, PollRounds
  <2>. QED
    BY <1>1, <2>3, <2>5, <2>6, SeenOnly DEF I2cPollInv, i2cSeen
<1>3. CASE icTxAbrt # "none"
  BY <1>1, <1>3, AbortedWait DEF SsI2cPollPop
<1>. QED
  BY <1>2, <1>3

LEMMA SsI2cPollTakeStep ==
  ASSUME I2cPollInv, SsI2cPollTake
  PROVE  I2cPollInv' /\ Contract!Move
<1>1. /\ i2cPoll = "pop" /\ icRxFlr = 0
      /\ i2cReadPos' = i2cReadPos + 1
      /\ i2cPoll' = (IF i2cReadCmdSend = 0 THEN "done" ELSE "read")
      /\ UNCHANGED <<i2cTransfer, i2cWritePos, i2cReadCmdSend, icEnabled,
                     icAbort, icTxAbrt, icTxFifo, icRxFlr, icShift, i2cWire,
                     i2cBusy, i2cOutcome>>
  BY DEF SsI2cPollTake, i2cRegs, i2cChip, i2cClient
<1>2. icRxFlr' \in Nat /\ icRxFlr' = (icRxFlr + Popped) - 1
  BY <1>1 DEF Popped
<1>. QED
  BY <1>1, <1>2, TakenRounds

LEMMA I2cPollEndStep ==
  ASSUME I2cPollInv, I2cPollEnd
  PROVE  I2cPollInv' /\ Contract!Report
<1>0. PollNumbers
  BY PollFacts
<1>1. /\ i2cPoll \in {"done", "failed"} /\ DisableOnStop
      /\ icTxAbrt' = "none" /\ I2cCallback(i2cPoll) /\ i2cPoll' = "none"
      /\ UNCHANGED <<i2cTransfer, i2cWritePos, i2cReadPos, i2cReadCmdSend,
                     i2cWire>>
  BY DEF I2cPollEnd, i2cDriver
<1>2. /\ i2cBusy /\ i2cBusy' = FALSE /\ i2cOutcome' = i2cPoll
  BY <1>1 DEF I2cPollInv, PollIdle, I2cCallback
<1>3. icTxFifo = <<>> /\ icRxFlr = 0 /\ icShift # "r"
  <2>1. CASE i2cPoll = "failed"
    BY <2>1 DEF I2cPollInv, PollRounds, PollCounts
  <2>2. CASE i2cPoll = "done"
    <3>1. /\ Len(i2cWire) = i2cTransfer.tx + i2cTransfer.rx
          /\ i2cReadPos = i2cTransfer.rx
          /\ i2cReadPos + icRxFlr + Incoming + Popped <= ReadsOnWire
      BY <2>2 DEF I2cPollInv, PollRounds, PollCounts
    <3>2. /\ i2cTransfer.tx \in Nat /\ i2cTransfer.rx \in Nat
          /\ i2cWritePos \in Nat /\ i2cReadCmdSend \in Nat
          /\ i2cWritePos <= i2cTransfer.tx /\ i2cReadCmdSend <= i2cTransfer.rx
          /\ icRxFlr \in Nat /\ Incoming \in Nat /\ Popped \in Nat
      BY <1>0 DEF PollNumbers
    <3>3. /\ Len(icTxFifo) \in Nat /\ ReadsOnWire \in Nat
          /\ ReadsOnWire <= i2cTransfer.rx - i2cReadCmdSend
          /\ Issued = i2cWritePos + (i2cTransfer.rx - i2cReadCmdSend)
          /\ Len(i2cWire) + Len(icTxFifo) <= Issued
      BY <1>0 DEF PollNumbers
    <3>4. ReadsOnWire <= i2cTransfer.rx /\ Issued <= i2cTransfer.tx + i2cTransfer.rx
      BY ONLY <3>2, <3>3
    <3>5. icRxFlr = 0 /\ Incoming = 0
      <4>1. /\ i2cTransfer.rx \in Nat /\ ReadsOnWire \in Nat
            /\ icRxFlr \in Nat /\ Incoming \in Nat /\ Popped \in Nat
        BY <3>2, <3>3
      <4>2. i2cTransfer.rx + icRxFlr + Incoming + Popped <= ReadsOnWire
        BY <3>1
      <4>3. ReadsOnWire <= i2cTransfer.rx
        BY <3>4
      <4>. QED
        BY ONLY <4>1, <4>2, <4>3
    <3>6. Len(icTxFifo) = 0
      <4>1. Issued \in Nat /\ Len(i2cWire) + Len(icTxFifo) <= Issued
        BY <1>0 DEF PollNumbers
      <4>. QED
        BY ONLY <3>1, <3>2, <3>3, <3>4, <4>1
    <3>. QED
      BY <3>5, <3>6, EmptySeq DEF Incoming, I2cPollInv, InOrder
  <2>. QED
    BY <1>1, <2>1, <2>2
<1>4. /\ icTxFifo' = <<>> /\ icRxFlr' = 0 /\ icShift' # "r"
      /\ icShift' \in {"none", "w", "r"} /\ icAbort' = FALSE
      /\ icEnabled' \in BOOLEAN
  BY <1>1, <1>3 DEF DisableOnStop, ControllerDisable, I2cPollInv, PollTypeOK,
     PollIdle, FlagsOK
<1>5. TransferOK' /\ PositionsOK'
  BY <1>1, <1>4 DEF I2cPollInv, PollTypeOK, TransferOK, PositionsOK
<1>6. PollTypeOK'
  BY <1>1, <1>2, <1>4, <1>5 DEF PollTypeOK, FlagsOK
<1>7. Issued' = Issued /\ ReadsOnWire' = ReadsOnWire /\ Incoming' = 0 /\ Popped' = 0
  BY <1>1, <1>4 DEF Issued, ReadsOnWire, Incoming, Popped
<1>8. InOrder'
  BY <1>1, <1>4, <1>5, <1>7, <1>0, EmptiedInOrder DEF PollNumbers, I2cPollInv, PollTypeOK
<1>9. PollCounts'
  <2>1. i2cReadPos' + icRxFlr' + Incoming' + Popped' <= ReadsOnWire'
    BY <1>1, <1>4, <1>7, <1>0 DEF PollNumbers, I2cPollInv, PollCounts
  <2>2. Len(icTxFifo') <= FIFO_SIZE
    BY <1>4, EmptySeq, I2cAssumption
  <2>. QED
    BY <1>1, <1>2, <2>1, <2>2 DEF PollCounts
<1>10. PollIdle' /\ PollRounds'
  BY <1>1, <1>2, <1>4 DEF PollIdle, PollRounds
<1>11. Contract!Report
  <2>1. UNCHANGED <<I2cMoved, i2cTransfer.tx + i2cTransfer.rx>>
    BY <1>1 DEF I2cMoved
  <2>2. I2cMoved' \in I2cMoved .. i2cTransfer.tx + i2cTransfer.rx
    BY <2>1, MovedInBounds DEF I2cPollInv, PollTypeOK
  <2>3. i2cPoll = "done" => I2cMoved = i2cTransfer.tx + i2cTransfer.rx
    <3>1. i2cPoll = "done" =>
            /\ Len(i2cWire) = i2cTransfer.tx + i2cTransfer.rx
            /\ i2cReadPos = i2cTransfer.rx
      BY DEF I2cPollInv, PollRounds
    <3>2. i2cTransfer.tx \in Nat /\ i2cTransfer.rx \in Nat
      BY <1>0 DEF PollNumbers
    <3>. QED
      BY <3>1, <3>2 DEF I2cMoved, Least
  <2>. QED
    BY <1>1, <1>2, <2>1, <2>2, <2>3 DEF Contract!Report
<1>. QED
  BY <1>6, <1>8, <1>9, <1>10, <1>11 DEF I2cPollInv

LEMMA BusTakePolled ==
  ASSUME I2cPollInv, BusTake, UNCHANGED i2cPoll
  PROVE  I2cPollInv' /\ (Contract!Move \/ UNCHANGED i2cXfer)
<1>0. PollNumbers
  BY PollFacts
<1>1. /\ icTxFifo # <<>> /\ icShift = "none" /\ icTxAbrt = "none"
      /\ UNCHANGED <<i2cTransfer, i2cWritePos, i2cReadPos, i2cReadCmdSend,
                     icEnabled, icAbort, icTxAbrt, icRxFlr, i2cBusy, i2cOutcome>>
  BY DEF BusTake, i2cDriver, i2cRegs, i2cClient
<1>2. i2cBusy
  BY <1>1 DEF I2cPollInv, PollIdle
<1>3. /\ InOrder' /\ Issued' = Issued
      /\ Len(i2cWire) \in Nat /\ Len(i2cWire') = Len(i2cWire) + 1
      /\ Len(icTxFifo') \in Nat /\ Len(icTxFifo) = Len(icTxFifo') + 1
      /\ icShift' = IF Len(i2cWire) < i2cTransfer.tx THEN "w" ELSE "r"
  BY TakenInOrder DEF I2cPollInv, PollTypeOK
<1>4. PollTypeOK'
  BY <1>1, <1>3 DEF I2cPollInv, PollTypeOK, TransferOK, PositionsOK, FlagsOK
<1>5. PollCounts'
  <2>1. i2cReadPos' + icRxFlr' + Incoming' + Popped' <= ReadsOnWire'
    <3>1. CASE Len(i2cWire) < i2cTransfer.tx
      <4>1. icShift' = "w"
        BY <1>3, <3>1
      <4>2. /\ Incoming = 0 /\ Incoming' = 0 /\ Popped' = Popped
            /\ ReadsOnWire = 0 /\ ReadsOnWire' = 0
        BY <1>1, <1>3, <3>1, <4>1, <1>0 DEF PollNumbers, Incoming, ReadsOnWire, Popped
      <4>. QED
        BY <1>1, <4>2 DEF I2cPollInv, PollCounts
    <3>2. CASE ~(Len(i2cWire) < i2cTransfer.tx)
      <4>1. icShift' = "r"
        BY <1>3, <3>2
      <4>2. /\ Incoming = 0 /\ Incoming' = 1 /\ Popped' = Popped
            /\ ReadsOnWire' = ReadsOnWire + 1
        <5>1. Incoming = 0 /\ Incoming' = 1 /\ Popped' = Popped
          BY <1>1, <4>1 DEF Incoming, Popped
        <5>2. i2cTransfer.tx \in Nat /\ i2cTransfer' = i2cTransfer
          BY <1>1, <1>0 DEF PollNumbers
        <5>3. ReadsOnWire' = ReadsOnWire + 1
          BY <1>3, <3>2, <5>2 DEF ReadsOnWire
        <5>. QED
          BY <5>1, <5>3
      <4>3. /\ i2cReadPos \in Nat /\ icRxFlr \in Nat /\ Popped \in Nat
            /\ ReadsOnWire \in Nat
            /\ i2cReadPos + icRxFlr + Incoming + Popped <= ReadsOnWire
        BY <1>0 DEF PollNumbers, I2cPollInv, PollCounts
      <4>4. i2cReadPos' = i2cReadPos /\ icRxFlr' = icRxFlr
        BY <1>1
      <4>. QED
        BY ONLY <4>2, <4>3, <4>4
    <3>. QED
      BY <3>1, <3>2
  <2>2. Len(i2cWire') + Len(icTxFifo') = Len(i2cWire) + Len(icTxFifo)
    BY <1>3
  <2>3. Len(icTxFifo') <= FIFO_SIZE
    BY <1>3, I2cAssumption DEF I2cPollInv, PollCounts
  <2>. QED
    BY <1>1, <1>3, <2>1, <2>2, <2>3 DEF I2cPollInv, PollCounts
<1>6. PollIdle'
  BY <1>1, <1>2 DEF I2cPollInv, PollIdle
<1>7. PollRounds'
  <2>1. i2cPoll # "source"
    BY <1>1 DEF I2cPollInv, PollRounds
  <2>2. i2cPoll # "done"
    <3>. SUFFICES ASSUME i2cPoll = "done" PROVE FALSE
      OBVIOUS
    <3>1. Len(i2cWire) = i2cTransfer.tx + i2cTransfer.rx
      BY DEF I2cPollInv, PollRounds
    <3>2. Len(i2cWire) < i2cTransfer.tx + i2cTransfer.rx
      BY TakenInOrder DEF I2cPollInv, PollTypeOK
    <3>. QED
      BY <3>1, <3>2, <1>3
  <2>3. i2cPoll \in {"read", "await", "pop"} => icShift' = "r"
    <3>. SUFFICES ASSUME i2cPoll \in {"read", "await", "pop"}
                  PROVE  icShift' = "r"
      OBVIOUS
    <3>1. i2cTransfer.tx = 0
      BY DEF I2cPollInv, PollRounds
    <3>. QED
      BY <1>3, <3>1
  <2>. QED
    BY <1>1, <1>3, <2>1, <2>2, <2>3 DEF I2cPollInv, PollRounds
<1>8. Contract!Move \/ UNCHANGED i2cXfer
  BY <1>2, TakenMoves DEF I2cPollInv, PollTypeOK
<1>. QED
  BY <1>3, <1>4, <1>5, <1>6, <1>7, <1>8 DEF I2cPollInv

LEMMA BusBytePolled ==
  ASSUME I2cPollInv, BusByte, UNCHANGED i2cPoll
  PROVE  I2cPollInv' /\ UNCHANGED i2cXfer
<1>0. PollNumbers
  BY PollFacts
<1>1. /\ icShift # "none" /\ icShift' = "none"
      /\ icRxFlr' = (IF icShift = "r" THEN icRxFlr + 1 ELSE icRxFlr)
      /\ UNCHANGED <<i2cTransfer, i2cWritePos, i2cReadPos, i2cReadCmdSend,
                     icEnabled, icAbort, icTxAbrt, icTxFifo, i2cWire, i2cBusy,
                     i2cOutcome>>
  BY DEF BusByte, i2cDriver, i2cRegs, i2cClient
<1>2. icTxAbrt = "none"
  BY <1>1 DEF I2cPollInv, PollCounts
<1>3. /\ icRxFlr' = icRxFlr + Incoming /\ Incoming' = 0
      /\ UNCHANGED <<Issued, ReadsOnWire, Popped>>
  BY <1>1, <1>0 DEF PollNumbers, Incoming, Issued, ReadsOnWire, Popped
<1>4. icRxFlr' \in Nat
  BY <1>3, <1>0 DEF PollNumbers
<1>5. PollTypeOK'
  BY <1>1, <1>4 DEF I2cPollInv, PollTypeOK, TransferOK, PositionsOK, FlagsOK
<1>6. i2cReadPos' + icRxFlr' + Incoming' + Popped' <= ReadsOnWire'
  <2>1. /\ i2cReadPos \in Nat /\ icRxFlr \in Nat /\ Incoming \in Nat
        /\ Popped \in Nat /\ ReadsOnWire \in Nat
        /\ i2cReadPos + icRxFlr + Incoming + Popped <= ReadsOnWire
    BY <1>0 DEF PollNumbers, I2cPollInv, PollCounts
  <2>2. i2cReadPos' = i2cReadPos
    BY <1>1
  <2>. QED
    BY ONLY <1>3, <2>1, <2>2
<1>7. InOrder' /\ PollCounts'
  BY <1>1, <1>3, <1>6 DEF I2cPollInv, InOrder, PollCounts
<1>8. PollIdle'
  BY <1>1 DEF I2cPollInv, PollIdle
<1>9. PollRounds'
  BY <1>1, <1>2, <1>3 DEF I2cPollInv, PollRounds
<1>. QED
  BY <1>1, <1>5, <1>7, <1>8, <1>9, SeenOnly DEF I2cPollInv, i2cSeen

LEMMA BusNackPolled ==
  ASSUME I2cPollInv, BusNack, UNCHANGED i2cPoll
  PROVE  I2cPollInv' /\ UNCHANGED i2cXfer
<1>0. PollNumbers
  BY PollFacts
<1>1. /\ icShift \in {"w", "r"} /\ icShift' = "none"
      /\ icTxFifo' = <<>> /\ icTxAbrt' = "nack"
      /\ UNCHANGED <<i2cTransfer, i2cWritePos, i2cReadPos, i2cReadCmdSend,
                     icEnabled, icAbort, icRxFlr, i2cWire, i2cBusy, i2cOutcome>>
  BY DEF BusNack, i2cDriver, i2cClient
<1>2. icTxAbrt = "none"
  BY <1>1 DEF I2cPollInv, PollCounts
<1>3. Incoming' = 0 /\ UNCHANGED <<Issued, ReadsOnWire, Popped>>
  BY <1>1 DEF Incoming, Issued, ReadsOnWire, Popped
<1>4. PollTypeOK'
  BY <1>1 DEF I2cPollInv, PollTypeOK, TransferOK, PositionsOK, FlagsOK
<1>5. InOrder'
  BY <1>1, <1>3, <1>4, <1>0, EmptiedInOrder DEF PollNumbers, I2cPollInv, PollTypeOK
<1>6. PollCounts'
  <2>1. i2cReadPos' + icRxFlr' + Incoming' + Popped' <= ReadsOnWire'
    <3>1. /\ i2cReadPos \in Nat /\ icRxFlr \in Nat /\ Incoming \in Nat
          /\ Popped \in Nat /\ ReadsOnWire \in Nat
          /\ i2cReadPos + icRxFlr + Incoming + Popped <= ReadsOnWire
      BY <1>0 DEF PollNumbers, I2cPollInv, PollCounts
    <3>2. i2cReadPos' = i2cReadPos /\ icRxFlr' = icRxFlr
      BY <1>1
    <3>. QED
      BY ONLY <1>3, <3>1, <3>2
  <2>2. Len(icTxFifo') <= FIFO_SIZE
    BY <1>1, EmptySeq, I2cAssumption
  <2>. QED
    BY <1>1, <2>1, <2>2 DEF PollCounts
<1>7. PollIdle'
  BY <1>1 DEF I2cPollInv, PollIdle
\* The refused byte is the one awaited, or the read has none on its way.
<1>8. i2cPoll = "await" => icRxFlr = 0
  <2>. SUFFICES ASSUME i2cPoll = "await" PROVE icRxFlr = 0
    OBVIOUS
  <2>1. /\ i2cTransfer.tx = 0 /\ i2cReadPos + 1 = Issued
        /\ icShift = "w" => i2cWire = <<>>
        /\ i2cReadPos + icRxFlr + Incoming + Popped <= ReadsOnWire
    BY DEF I2cPollInv, PollRounds, PollCounts
  <2>2. /\ i2cReadPos \in Nat /\ icRxFlr \in Nat /\ Incoming \in Nat
        /\ Popped \in Nat /\ ReadsOnWire \in Nat
        /\ Issued = i2cWritePos + (i2cTransfer.rx - i2cReadCmdSend)
        /\ ReadsOnWire <= i2cTransfer.rx - i2cReadCmdSend
        /\ i2cWritePos = 0
        /\ i2cTransfer.rx \in Nat /\ i2cReadCmdSend \in Nat
    BY <1>0, <2>1 DEF PollNumbers
  <2>3. CASE icShift = "r"
    <3>1. Incoming = 1
      BY <2>3 DEF Incoming
    <3>. QED
      BY ONLY <2>1, <2>2, <3>1
  <2>4. CASE icShift = "w"
    <3>1. Len(i2cWire) = 0
      BY <2>1, <2>4, EmptySeq
    <3>2. ReadsOnWire = 0
      BY <2>1, <3>1 DEF ReadsOnWire
    <3>. QED
      BY ONLY <2>1, <2>2, <3>2
  <2>. QED
    BY <1>1, <2>3, <2>4
<1>9. PollRounds'
  BY <1>1, <1>2, <1>3, <1>8 DEF I2cPollInv, PollRounds
<1>. QED
  BY <1>1, <1>4, <1>5, <1>6, <1>7, <1>9, SeenOnly DEF I2cPollInv, i2cSeen

LEMMA I2cPollBusStep ==
  ASSUME I2cPollInv, I2cPollBus
  PROVE  I2cPollInv' /\ (Contract!Move \/ UNCHANGED i2cXfer)
<1>1. ~BusAbort
  BY DEF BusAbort, I2cPollInv, PollIdle
<1>. QED
  BY <1>1, BusTakePolled, BusBytePolled, BusNackPolled DEF I2cPollBus, I2cBus

LEMMA I2cPollStutter ==
  ASSUME I2cPollInv, UNCHANGED i2cPolledVars
  PROVE  I2cPollInv' /\ UNCHANGED i2cXfer
<1>1. UNCHANGED <<i2cTransfer, i2cWritePos, i2cReadPos, i2cReadCmdSend, icEnabled,
                  icAbort, icTxAbrt, icTxFifo, icRxFlr, icShift, i2cWire,
                  i2cBusy, i2cOutcome, i2cPoll>>
  BY DEF i2cPolledVars, i2cVars, i2cDriver, i2cRegs, i2cChip, i2cClient
<1>2. PollTypeOK'
  BY <1>1 DEF I2cPollInv, PollTypeOK, TransferOK, PositionsOK, FlagsOK
<1>3. InOrder' /\ PollCounts'
  BY <1>1 DEF I2cPollInv, InOrder, PollCounts, Issued, ReadsOnWire, Incoming,
     Popped
<1>4. PollIdle'
  BY <1>1 DEF I2cPollInv, PollIdle
<1>5. Issued' = Issued
  BY <1>1 DEF Issued
<1>6. PollRounds'
  BY <1>1, <1>5 DEF I2cPollInv, PollRounds
<1>. QED
  BY <1>1, <1>2, <1>3, <1>4, <1>6, SeenOnly DEF I2cPollInv, i2cSeen

LEMMA I2cPollStep ==
  I2cPollInv /\ [I2cPolledNext]_i2cPolledVars => I2cPollInv' /\ [Contract!Next]_i2cXfer
<1>. SUFFICES ASSUME I2cPollInv, [I2cPolledNext]_i2cPolledVars
              PROVE  I2cPollInv' /\ (Contract!Next \/ UNCHANGED i2cXfer)
  OBVIOUS
<1>. QED
  BY I2cPollStartStep, I2cPollPushStep, I2cPollDrainedStep, I2cPollSourceStep,
     I2cPollAskStep, I2cPollTakeStep, I2cPollEndStep, I2cPollBusStep,
     I2cPollStutter DEF I2cPolledNext, I2cPolls, Contract!Next

LEMMA SsI2cPollStep ==
  I2cPollInv /\ [SsI2cPolledNext]_i2cPolledVars => I2cPollInv' /\ [Contract!Next]_i2cXfer
<1>. SUFFICES ASSUME I2cPollInv, [SsI2cPolledNext]_i2cPolledVars
              PROVE  I2cPollInv' /\ (Contract!Next \/ UNCHANGED i2cXfer)
  OBVIOUS
<1>. QED
  BY I2cPollStartStep, I2cPollPushStep, I2cPollDrainedStep, I2cPollSourceStep,
     I2cPollAskStep, SsI2cPollPopStep, SsI2cPollTakeStep, I2cPollEndStep,
     I2cPollBusStep, I2cPollStutter DEF SsI2cPolledNext, SsI2cPolls, SsI2cPollWrite,
     SsI2cPollRead, Contract!Next

LEMMA I2cPollSeen == I2cPollInv => BusInOrder /\ NoOverrun
<1>. SUFFICES ASSUME I2cPollInv PROVE BusInOrder /\ NoOverrun
  OBVIOUS
<1>0. PollNumbers
  BY PollFacts
<1>1. BusInOrder
  BY OrderSeen DEF I2cPollInv, PollTypeOK
<1>2. /\ i2cTransfer.tx \in Nat /\ i2cTransfer.rx \in Nat
      /\ i2cWritePos \in Nat /\ i2cReadCmdSend \in Nat /\ i2cReadPos \in Nat
      /\ i2cReadCmdSend <= i2cTransfer.rx /\ i2cWritePos <= i2cTransfer.tx
      /\ Issued = i2cWritePos + (i2cTransfer.rx - i2cReadCmdSend)
  BY <1>0 DEF PollNumbers
\* A read has asked for at most one byte more than it has taken.
<1>3. i2cBusy => i2cTransfer.rx - i2cReadCmdSend - i2cReadPos <= 1
  <2>. SUFFICES ASSUME i2cBusy PROVE i2cTransfer.rx - i2cReadCmdSend - i2cReadPos <= 1
    OBVIOUS
  <2>1. CASE i2cPoll \in {"write", "source"}
    <3>1. i2cTransfer.rx = 0
      BY <2>1 DEF I2cPollInv, PollRounds
    <3>. QED
      BY ONLY <1>2, <3>1
  <2>2. CASE i2cPoll \in {"read", "await", "pop"}
    <3>1. i2cTransfer.tx = 0 /\ (i2cReadPos = Issued \/ i2cReadPos + 1 = Issued)
      BY <2>2 DEF I2cPollInv, PollRounds
    <3>. QED
      BY ONLY <1>2, <3>1
  <2>3. CASE i2cPoll = "done"
    <3>1. i2cReadPos = i2cTransfer.rx
      BY <2>3 DEF I2cPollInv, PollRounds
    <3>. QED
      BY ONLY <1>2, <3>1
  <2>4. CASE i2cPoll = "failed"
    <3>1. i2cTransfer.rx - i2cReadCmdSend <= i2cReadPos + 1
      BY <2>4 DEF I2cPollInv, PollRounds
    <3>. QED
      BY ONLY <1>2, <3>1
  <2>. QED
    BY <2>1, <2>2, <2>3, <2>4 DEF I2cPollInv, PollTypeOK, PollIdle
<1>4. FIFO_SIZE \in Nat /\ FIFO_SIZE >= 1
  BY I2cAssumption
<1>5. NoOverrun
  BY <1>2, <1>3, <1>4 DEF NoOverrun, I2cPollInv, PollCounts
<1>. QED
  BY <1>1, <1>5

\* The counts hold throughout a polled transfer of qm_i2c.c: one byte is asked
\* for, awaited and read at a time.
THEOREM I2cPolledInvariance == I2cPolledSpec => []I2cPollInv
<1>1. I2cPollInv /\ [I2cPolledNext]_i2cPolledVars => I2cPollInv'
  BY I2cPollStep
<1>. QED
  BY <1>1, I2cPollInitInv, PTL DEF I2cPolledSpec

\* The same of qm_ss_i2c.c, which pops a byte and reads it in two steps.
THEOREM SsI2cPolledInvariance == SsI2cPolledSpec => []I2cPollInv
<1>1. I2cPollInv /\ [SsI2cPolledNext]_i2cPolledVars => I2cPollInv'
  BY SsI2cPollStep
<1>. QED
  BY <1>1, I2cPollInitInv, PTL DEF SsI2cPolledSpec

\* qm_i2c_master_write and qm_i2c_master_read put the commands of a transfer on
\* the bus in order, each one once, for any depth of the FIFO and any length.
THEOREM I2cPolledBusInOrder == I2cPolledSpec => []BusInOrder
  BY I2cPolledInvariance, I2cPollSeen, PTL

\* So do qm_ss_i2c_master_write and qm_ss_i2c_master_read.
THEOREM SsI2cPolledBusInOrder == SsI2cPolledSpec => []BusInOrder
  BY SsI2cPolledInvariance, I2cPollSeen, PTL

\* They never write to a full TX FIFO and never let more bytes come than the RX
\* FIFO holds, also when the last byte of the transfer before is still shifted.
THEOREM I2cPolledNoOverrun == I2cPolledSpec => []NoOverrun
  BY I2cPolledInvariance, I2cPollSeen, PTL

\* So it is in the sensor subsystem.
THEOREM SsI2cPolledNoOverrun == SsI2cPolledSpec => []NoOverrun
  BY SsI2cPolledInvariance, I2cPollSeen, PTL

\* A polled transfer of qm_i2c.c returns success only after its last byte, and
\* every transfer ends once.
THEOREM I2cPolledImplementsTransfer == I2cPolledSpec => I2cImplements
<1>1. I2cPollInv /\ [I2cPolledNext]_i2cPolledVars => [Contract!Next]_i2cXfer
  BY I2cPollStep
<1>2. I2cPolledInit => Contract!Init
  BY I2cInitRefines DEF I2cPolledInit
<1>. QED
  BY <1>1, <1>2, I2cPolledInvariance, PTL DEF I2cPolledSpec, I2cImplements,
     Contract!Spec, Contract!xfer, i2cXfer

\* So does one of qm_ss_i2c.c.
THEOREM SsI2cPolledImplementsTransfer == SsI2cPolledSpec => I2cImplements
<1>1. I2cPollInv /\ [SsI2cPolledNext]_i2cPolledVars => [Contract!Next]_i2cXfer
  BY SsI2cPollStep
<1>2. I2cPolledInit => Contract!Init
  BY I2cInitRefines DEF I2cPolledInit
<1>. QED
  BY <1>1, <1>2, SsI2cPolledInvariance, PTL DEF SsI2cPolledSpec, I2cImplements,
     Contract!Spec, Contract!xfer, i2cXfer

-----------------------------------------------------------------------------
(* The clock: the counts qm_i2c_set_config programs are never shorter than *)
(* the speed asks for.                                                     *)

\* The clocks whose counts are exact: the oscillator's 32 MHz, what the
\* dividers by powers of two leave of it, and any faster multiple of 4 MHz.
ExactClock(mhz) ==
  mhz \in {0, 1, 2, 4, 8, 16} \/ (mhz % 4 = 0 /\ mhz >= 32 /\ mhz <= 50000)

\* The cycles of a half period and of the least low time, rounded down.
HalfCycles(speed) == (sclMhz * HalfPeriod[speed]) \div 1000
LeastCycles(speed) == (sclMhz * MinLow[speed]) \div 1000

\* An accepted configuration has an exact half period, and can spare from its
\* high time what the least low time lacks.
ExactCounts(speed) ==
  /\ HalfCycles(speed) \in Nat /\ LeastCycles(speed) \in Nat \ {0}
  /\ 1000 * HalfCycles(speed) = sclMhz * HalfPeriod[speed]
  /\ sclMhz * MinLow[speed] < 1000 * (LeastCycles(speed) + 1)
  /\ LeastCycles(speed) >= HalfCycles(speed) =>
       /\ LeastCycles(speed) <= CountMax
       /\ 2 * HalfCycles(speed) >= LeastCycles(speed) + 14 + SpikeLen[speed]

\* What the driver accepts at all.
LongEnough(speed) == HalfCycles(speed) >= 12 + SpikeLen[speed]

\* Division by 1000 rounds down.
LEMMA Quotient ==
  ASSUME NEW n \in Nat
  PROVE  /\ n \div 1000 \in Nat
         /\ 1000 * (n \div 1000) <= n /\ n < 1000 * (n \div 1000) + 1000
  OBVIOUS

LEMMA StandardExact ==
  ASSUME sclMhz \in Nat, ExactClock(sclMhz), LongEnough("STD")
  PROVE  ExactCounts("STD")
<1>1. /\ HalfCycles("STD") = (sclMhz * 5000) \div 1000
      /\ LeastCycles("STD") = (sclMhz * 4700) \div 1000
      /\ HalfPeriod["STD"] = 5000 /\ MinLow["STD"] = 4700 /\ SpikeLen["STD"] = 1
  BY DEF HalfCycles, LeastCycles, HalfPeriod, MinLow, SpikeLen
<1>3. /\ 1000 * HalfCycles("STD") <= sclMhz * 5000
      /\ sclMhz * 5000 < 1000 * HalfCycles("STD") + 1000
      /\ 1000 * LeastCycles("STD") <= sclMhz * 4700
      /\ sclMhz * 4700 < 1000 * LeastCycles("STD") + 1000
      /\ HalfCycles("STD") \in Nat /\ LeastCycles("STD") \in Nat
  BY <1>1, Quotient
<1>4. HalfCycles("STD") = 5 * sclMhz /\ sclMhz >= 2
  BY <1>1, <1>3 DEF LongEnough
<1>5. LeastCycles("STD") < HalfCycles("STD") /\ LeastCycles("STD") > 0
  BY <1>3, <1>4
<1>. QED
  BY <1>1, <1>3, <1>4, <1>5 DEF ExactCounts

LEMMA FastExact ==
  ASSUME sclMhz \in Nat, ExactClock(sclMhz), LongEnough("FAST")
  PROVE  ExactCounts("FAST")
<1>1. /\ HalfCycles("FAST") = (sclMhz * 1250) \div 1000
      /\ LeastCycles("FAST") = (sclMhz * 1300) \div 1000
      /\ HalfPeriod["FAST"] = 1250 /\ MinLow["FAST"] = 1300 /\ SpikeLen["FAST"] = 2
  BY DEF HalfCycles, LeastCycles, HalfPeriod, MinLow, SpikeLen
<1>2. sclMhz = 16 \/ (sclMhz % 4 = 0 /\ sclMhz >= 32 /\ sclMhz <= 50000)
  BY <1>1 DEF ExactClock, LongEnough
<1>3. /\ 1000 * HalfCycles("FAST") <= sclMhz * 1250
      /\ sclMhz * 1250 < 1000 * HalfCycles("FAST") + 1000
      /\ 1000 * LeastCycles("FAST") <= sclMhz * 1300
      /\ sclMhz * 1300 < 1000 * LeastCycles("FAST") + 1000
      /\ HalfCycles("FAST") \in Nat /\ LeastCycles("FAST") \in Nat
  BY <1>1, Quotient
<1>4. PICK k \in Nat : sclMhz = 4 * k /\ (k = 4 \/ (k >= 8 /\ k <= 12500))
  BY <1>2
<1>5. HalfCycles("FAST") = 5 * k
  BY <1>3, <1>4
<1>. QED
  BY <1>1, <1>3, <1>4, <1>5 DEF ExactCounts, CountMax

LEMMA FastPlusExact ==
  ASSUME sclMhz \in Nat, ExactClock(sclMhz), LongEnough("FAST_PLUS")
  PROVE  ExactCounts("FAST_PLUS")
<1>1. /\ HalfCycles("FAST_PLUS") = (sclMhz * 500) \div 1000
      /\ LeastCycles("FAST_PLUS") = (sclMhz * 500) \div 1000
      /\ HalfPeriod["FAST_PLUS"] = 500 /\ MinLow["FAST_PLUS"] = 500
      /\ SpikeLen["FAST_PLUS"] = 2
  BY DEF HalfCycles, LeastCycles, HalfPeriod, MinLow, SpikeLen
<1>2. sclMhz % 4 = 0 /\ sclMhz >= 32 /\ sclMhz <= 50000
  BY <1>1 DEF ExactClock, LongEnough
<1>3. /\ 1000 * HalfCycles("FAST_PLUS") <= sclMhz * 500
      /\ sclMhz * 500 < 1000 * HalfCycles("FAST_PLUS") + 1000
      /\ 1000 * LeastCycles("FAST_PLUS") <= sclMhz * 500
      /\ sclMhz * 500 < 1000 * LeastCycles("FAST_PLUS") + 1000
      /\ HalfCycles("FAST_PLUS") \in Nat /\ LeastCycles("FAST_PLUS") \in Nat
  BY <1>1, Quotient
<1>4. PICK k \in Nat : sclMhz = 4 * k /\ k >= 8 /\ k <= 12500
  BY <1>2
<1>5. HalfCycles("FAST_PLUS") = 2 * k /\ LeastCycles("FAST_PLUS") = 2 * k
  BY <1>3, <1>4
<1>. QED
  BY <1>1, <1>3, <1>4, <1>5 DEF ExactCounts, CountMax

LEMMA CountMaxNatural == CountMax \in Nat
  BY DEF CountMax

\* The cycles a low time of h - 1 lacks.
Lacking(h, l) == IF l > h - 1 THEN l - (h - 1) ELSE 0

\* Moved from the high time to the low time, they leave both in bounds.
LEMMA MovedCyclesFit ==
  ASSUME NEW h \in Nat, NEW l \in Nat, NEW s \in {1, 2}, NEW d \in {0, 1},
         h - 1 \in 8 .. CountMax, (h - 7 - s) + d \in 6 .. CountMax,
         l >= h => l <= CountMax /\ 2 * h >= l + 14 + s
  PROVE  /\ Lacking(h, l) \in Nat
         /\ (h - 1) + Lacking(h, l) >= l /\ (h - 1) + Lacking(h, l) \in 8 .. CountMax
         /\ ((h - 7 - s) + d) - Lacking(h, l) \in 6 .. CountMax
<1>. DEFINE more == Lacking(h, l)
<1>1. CountMax \in Nat
  BY CountMaxNatural
<1>2. CASE l > h - 1
  <2>1. more = l - (h - 1) /\ l >= h
    BY <1>2 DEF Lacking
  <2>2. l <= CountMax /\ 2 * h >= l + 14 + s
    BY <2>1
  <2>3. (h - 1) + more = l /\ ((h - 7 - s) + d) - more = 2 * h - l - 8 - s + d
    BY <2>1
  <2>. QED
    BY <1>1, <2>1, <2>2, <2>3
<1>3. CASE ~(l > h - 1)
  <2>1. more = 0
    BY <1>3 DEF Lacking
  <2>. QED
    BY <1>1, <1>3, <2>1
<1>. QED
  BY <1>2, <1>3

\* The inductive invariant of the configuration.
SclInv ==
  /\ sclMhz \in ClockMhz /\ sclDriver \in {"i2c", "ss"}
  /\ SclInSpec

LEMMA I2cSetConfigKeeps ==
  ASSUME \A mhz \in ClockMhz : ExactClock(mhz),
         SclInv, NEW speed \in Speeds, I2cSetConfig(speed)
  PROVE  SclInv'
<1>. DEFINE low == LowCount(HalfPeriod[speed])
            high == HighCount(HalfPeriod[speed], speed)
            more == IF low < LeastLow(speed) THEN LeastLow(speed) - low ELSE 0
<1>1. /\ sclSpeed' = speed /\ UNCHANGED <<sclDriver, sclMhz>>
      /\ IF CountsFit(low, high)
         THEN sclResult' = "ok" /\ sclLow' = low + more /\ sclHigh' = high - more
         ELSE sclResult' = "EINVAL"
  BY DEF I2cSetConfig
<1>2. sclMhz \in Nat /\ ExactClock(sclMhz)
  BY I2cTimingAssumption DEF SclInv
<1>3. CASE ~CountsFit(low, high)
  BY <1>1, <1>3 DEF SclInv, SclInSpec
<1>4. CASE CountsFit(low, high)
  <2>. DEFINE h == HalfCycles(speed)
              l == LeastCycles(speed)
              d == IF sclDriver = "i2c" THEN 1 ELSE 0
              s == SpikeLen[speed]
  <2>1. /\ low = AsUnsigned(h - 1)
        /\ high = AsUnsigned(h - 7 - s + d)
        /\ LeastLow(speed) = AsUnsigned(l - 1) + 1
    BY DEF LowCount, HighCount, LeastLow, HalfCycles, LeastCycles
  <2>2. s \in {1, 2} /\ d \in {0, 1}
    BY DEF Speeds, SpikeLen
  <2>3. h \in Int
    BY <1>2 DEF Speeds, HalfCycles, HalfPeriod
  <2>4. sclResult' = "ok" /\ sclLow' = low + more /\ sclHigh' = high - more
    BY <1>1, <1>4
  <2>. HIDE DEF low, high, more, h, l, d, s
  <2>5. low = h - 1 /\ high = (h - 7 - s) + d /\ h >= 12 + s
    BY <1>4, <2>1, <2>2, <2>3 DEF CountsFit, CountMin, CountMax, AsUnsigned
  <2>6. ExactCounts(speed)
    BY <1>2, <2>5, StandardExact, FastExact, FastPlusExact
       DEF Speeds, LongEnough, h, s
  <2>7. /\ l \in Nat \ {0} /\ 1000 * h = sclMhz * HalfPeriod[speed]
        /\ sclMhz * MinLow[speed] < 1000 * (l + 1)
        /\ l >= h => l <= CountMax /\ 2 * h >= l + 14 + s
    BY <2>6 DEF ExactCounts, h, l, s
  <2>8. more = Lacking(h, l)
    BY <2>1, <2>3, <2>5, <2>7 DEF more, AsUnsigned, Lacking
  <2>9. sclLow' = (h - 1) + more /\ sclHigh' = ((h - 7 - s) + d) - more
    BY <2>4, <2>5
  <2>10. h - 1 \in 8 .. CountMax /\ (h - 7 - s) + d \in 6 .. CountMax
    BY <1>4, <2>5 DEF CountsFit, CountMin
  <2>11. /\ more \in Nat
        /\ (h - 1) + more >= l /\ (h - 1) + more \in 8 .. CountMax
        /\ ((h - 7 - s) + d) - more \in 6 .. CountMax
    <3>1. h \in Nat /\ l \in Nat /\ (l >= h => l <= CountMax /\ 2 * h >= l + 14 + s)
      BY <2>2, <2>3, <2>5, <2>7
    <3>. QED
      BY <3>1, <2>2, <2>8, <2>10, MovedCyclesFit
  <2>12. MinLow[speed] \in Nat /\ HalfPeriod[speed] \in Nat
    BY DEF Speeds, MinLow, HalfPeriod
  <2>13. (sclLow' + 1) * 1000 >= sclMhz * MinLow[speed]
    <3>1. (sclLow' + 1) * 1000 >= 1000 * (l + 1)
      BY <2>3, <2>7, <2>9, <2>11
    <3>2. sclMhz * MinLow[speed] \in Nat
      BY <1>2, <2>12
    <3>. QED
      BY <2>3, <2>7, <2>9, <2>11, <3>1, <3>2
  <2>14. (sclLow' + 1 + (sclHigh' + 7 + s)) * 1000 >= sclMhz * 2 * HalfPeriod[speed]
    <3>1. sclLow' + 1 + (sclHigh' + 7 + s) = 2 * h + d
      BY <2>2, <2>3, <2>9, <2>11
    <3>2. sclMhz * 2 * HalfPeriod[speed] = 2 * (sclMhz * HalfPeriod[speed])
      BY <1>2, <2>12
    <3>. QED
      BY <2>2, <2>3, <2>7, <3>1, <3>2
  <2>15. SclInSpec'
    BY <1>1, <2>9, <2>11, <2>13, <2>14 DEF SclInSpec, LowCycles, HighCycles,
       CountsFit, CountMin, s
  <2>. QED
    BY <1>1, <2>15 DEF SclInv
<1>. QED
  BY <1>3, <1>4

\* Whatever i2c_set_config or ss_i2c_set_config accepts keeps the least low time
\* and the period of its speed, for the clocks the dividers of the 32 MHz
\* oscillator give.  Of other clocks it is false: at 28 MHz the high time of
\* FAST_PLUS has no count to spare for the low time.
THEOREM SclAlwaysInSpec ==
  ASSUME \A mhz \in ClockMhz : ExactClock(mhz)
  PROVE  I2cTimingSpec => []SclInSpec
<1>1. I2cTimingInit => SclInv
  BY DEF I2cTimingInit, SclInv, SclInSpec
<1>2. SclInv /\ [I2cTimingNext]_sclVars => SclInv'
  <2>1. SclInv /\ UNCHANGED sclVars => SclInv'
    BY DEF SclInv, SclInSpec, sclVars, LowCycles, HighCycles, CountsFit
  <2>. QED
    BY <2>1, I2cSetConfigKeeps DEF I2cTimingNext
<1>3. SclInv => SclInSpec
  BY DEF SclInv
<1>. QED
  BY <1>1, <1>2, <1>3, PTL DEF I2cTimingSpec

-----------------------------------------------------------------------------
(* The DMA transfers.  Up to a mishap, and again from a start on a clean    *)
(* controller, they keep an invariant; in between nothing is promised.      *)

\* The commands a transfer has written to the FIFO.
IdIssued ==
  IF idJob = "reads" THEN i2cTransfer.tx + (i2cTransfer.rx - idLeft["tx"])
  ELSE IF idPc = "drain" THEN i2cTransfer.tx
  ELSE (i2cTransfer.tx - 1) - idLeft["tx"]

IdTypes ==
  /\ TransferOK /\ I2cDmaTypeOK
  /\ i2cReadPos \in 0 .. i2cTransfer.rx /\ icRxFlr \in Nat
  /\ icTxAbrt \in {"none", "nack"} /\ i2cBusy \in BOOLEAN
  /\ i2cOutcome \in {"none", "done", "failed"}

IdCounts ==
  /\ i2cBusy /\ icTxAbrt = "none" => Len(i2cWire) + Len(icTxFifo) = IdIssued
  /\ i2cReadPos + icRxFlr + Incoming <= ReadsOnWire
  /\ Len(icTxFifo) <= FIFO_SIZE

\* The bytes of a write, all but the last one moved by the TX channel.
IdWriting ==
  /\ i2cTransfer.tx >= 2 /\ i2cReadPos = 0
  /\ idTerm = <<>> /\ idChan["rx"] = "off"
  /\ idLeft["tx"] <= i2cTransfer.tx - 1
  /\ idPc = "none" => idOngoing = {"tx"} /\ idChan["tx"] # "off"
  /\ idPc # "none" =>
       /\ idOngoing = {} /\ idChan["tx"] = "off" /\ idLeft["tx"] = 0
       /\ idLen = IF idPc = "last" THEN i2cTransfer.tx - 1 ELSE i2cTransfer.tx
  /\ idPc = "drain" => i2cTransfer.rx = 0
  /\ icTxAbrt # "none" =>
       idPc = "none" /\ idChan["tx"] = "busy" /\ icTxFifo = <<>> /\ icShift = "none"

\* The commands and the bytes of a read, moved by two channels: that of the
\* commands ends first.
IdReading ==
  /\ i2cTransfer.rx > 0 /\ idPc = "none" /\ icTxAbrt = "none"
  /\ "rx" \in idOngoing /\ idChan["rx"] \in {"busy", "end"}
  /\ idChan["tx"] # "err"
  /\ "tx" \in idOngoing <=> idChan["tx"] # "off"
  /\ "tx" \in idOngoing => idChan["rx"] = "busy"
  /\ idLeft["rx"] = i2cTransfer.rx - i2cReadPos
  /\ idLeft["tx"] <= i2cTransfer.rx
  /\ idTerm # <<>> => i2cTransfer.stop
  /\ idTerm = <<"rx">> => "tx" \notin idOngoing

IdUnits ==
  \A c \in Directions :
    /\ idChan[c] = "busy" => idLeft[c] > 0
    /\ idChan[c] = "end" => idLeft[c] = 0

IdBusySound ==
  /\ i2cOutcome = "none" /\ idError = FALSE /\ icEnabled
  /\ i2cTransfer.stop \/ i2cTransfer.rx > 0
  /\ i2cReadCmdSend = i2cTransfer.rx
  /\ idJob = "bytes" => IdWriting
  /\ idJob = "reads" => IdReading
  /\ idSaw => idTerm # <<>> /\ Head(idTerm) \in idOngoing

IdQuiet ==
  /\ icTxFifo = <<>> /\ icRxFlr = 0 /\ icShift # "r" /\ icTxAbrt = "none"
  /\ idOngoing = {} /\ idPc = "none" /\ idTerm = <<>> /\ idSaw = FALSE
  /\ \A c \in Directions : idChan[c] = "off"

I2cDmaInv ==
  /\ IdTypes /\ Ordered /\ IdCounts /\ IdUnits
  /\ i2cBusy => IdBusySound
  /\ ~i2cBusy => IdQuiet

\* What no mishap changes.
IdFrame == icAbort = FALSE /\ idSaw \in BOOLEAN /\ i2cUpset \in BOOLEAN

I2cDmaSafe == IdFrame /\ (i2cUpset \/ I2cDmaInv)

LEMMA WrittenOrdered ==
  ASSUME TransferOK, Ordered, NEW c,
         Len(i2cWire) + Len(icTxFifo) < i2cTransfer.tx + i2cTransfer.rx,
         c = I2cProgram(i2cTransfer)[Len(i2cWire) + Len(icTxFifo) + 1],
         icTxFifo' = icTxFifo \o <<c>>, UNCHANGED <<i2cTransfer, i2cWire>>
  PROVE  Ordered' /\ Len(icTxFifo') = Len(icTxFifo) + 1
<1>1. /\ i2cTransfer.tx \in Nat /\ i2cTransfer.rx \in Nat
      /\ i2cWire \in Seq(I2cCommands) /\ icTxFifo \in Seq(I2cCommands)
      /\ Len(i2cWire) \in Nat /\ Len(icTxFifo) \in Nat
  BY LenProperties DEF TransferOK, Ordered
<1>2. c \in I2cCommands
  <2>1. Len(i2cWire) + Len(icTxFifo) + 1 \in 1 .. i2cTransfer.tx + i2cTransfer.rx
    BY <1>1
  <2>. QED
    BY <2>1, ProgramCommands DEF TransferOK
<1>3. /\ icTxFifo' \in Seq(I2cCommands)
      /\ Len(icTxFifo') = Len(icTxFifo) + 1
      /\ \A k \in 1 .. Len(icTxFifo) + 1 :
           icTxFifo'[k] = IF k <= Len(icTxFifo) THEN icTxFifo[k] ELSE c
  <2>1. <<c>> \in Seq(I2cCommands) /\ Len(<<c>>) = 1 /\ <<c>>[1] = c
    BY <1>2
  <2>2. /\ icTxFifo' \in Seq(I2cCommands)
        /\ Len(icTxFifo') = Len(icTxFifo) + 1
        /\ \A k \in 1 .. Len(icTxFifo) + 1 :
             icTxFifo'[k] = IF k <= Len(icTxFifo) THEN icTxFifo[k]
                            ELSE <<c>>[k - Len(icTxFifo)]
    BY <1>1, <2>1, ConcatProperties
  <2>3. \A k \in 1 .. Len(icTxFifo) + 1 : ~(k <= Len(icTxFifo)) => k - Len(icTxFifo) = 1
    BY ONLY <1>1
  <2>. QED
    BY <2>1, <2>2, <2>3
<1>4. ASSUME NEW k \in 1 .. Len(icTxFifo) + 1
      PROVE  icTxFifo'[k] = I2cProgram(i2cTransfer)[Len(i2cWire) + k]
  <2>1. CASE k <= Len(icTxFifo)
    <3>1. k \in 1 .. Len(icTxFifo)
      BY <1>1, <2>1
    <3>. QED
      BY <1>3, <2>1, <3>1 DEF Ordered
  <2>2. CASE ~(k <= Len(icTxFifo))
    <3>1. k = Len(icTxFifo) + 1
      BY ONLY <1>1, <2>2, k \in 1 .. Len(icTxFifo) + 1
    <3>2. Len(i2cWire) + (Len(icTxFifo) + 1) = Len(i2cWire) + Len(icTxFifo) + 1
      BY ONLY <1>1
    <3>. QED
      BY <1>3, <2>2, <3>1, <3>2
  <2>. QED
    BY <2>1, <2>2
<1>5. Len(i2cWire') + Len(icTxFifo') <= i2cTransfer.tx + i2cTransfer.rx
  <2>1. /\ i2cWire' = i2cWire /\ Len(icTxFifo') = Len(icTxFifo) + 1
        /\ Len(i2cWire) + Len(icTxFifo) < i2cTransfer.tx + i2cTransfer.rx
    BY <1>3
  <2>. QED
    BY ONLY <1>1, <2>1
<1>6. \A k \in 1 .. Len(icTxFifo') :
        icTxFifo'[k] = I2cProgram(i2cTransfer)[Len(i2cWire) + k]
  BY <1>3, <1>4
<1>. QED
  BY <1>1, <1>3, <1>5, <1>6 DEF Ordered

LEMMA I2cDmaInitInv == I2cInit /\ IdInit => I2cDmaSafe
<1>. SUFFICES ASSUME I2cInit, IdInit PROVE I2cDmaSafe
  OBVIOUS
<1>1. TransferOK /\ 0 \in 0 .. I2cMaxLen /\ 0 \in 0 .. 2 * I2cMaxLen
  BY I2cAssumption DEF I2cInit, TransferOK
<1>2. I2cDmaTypeOK
  <2>1. <<>> \in {<<>>, <<"rx">>, <<"tx", "rx">>}
    OBVIOUS
  <2>. QED
    BY <1>1, <2>1 DEF IdInit, I2cDmaTypeOK
<1>3. IdTypes
  <2>1. /\ i2cTransfer.rx = 0 /\ i2cReadPos = 0 /\ icRxFlr = 0 /\ icTxAbrt = "none"
        /\ i2cBusy = FALSE /\ i2cOutcome = "none"
    BY DEF I2cInit
  <2>2. i2cReadPos \in 0 .. i2cTransfer.rx /\ icRxFlr \in Nat
    BY <2>1
  <2>. QED
    BY <1>1, <1>2, <2>1, <2>2 DEF IdTypes
<1>4. Len(i2cWire) = 0 /\ Len(icTxFifo) = 0 /\ ReadsOnWire = 0 /\ Incoming = 0
  BY EmptySeq DEF I2cInit, ReadsOnWire, Incoming
<1>5. Ordered
  BY <1>4 DEF I2cInit, Ordered
<1>6. IdCounts
  BY <1>4, I2cAssumption DEF I2cInit, IdCounts
<1>7. IdUnits /\ IdQuiet
  BY DEF I2cInit, IdInit, IdUnits, IdQuiet
<1>. QED
  BY <1>3, <1>5, <1>6, <1>7 DEF I2cInit, IdInit, I2cDmaInv, I2cDmaSafe, IdFrame

\* The counts as numbers, which the steps below start from.
IdNumbers ==
  /\ i2cTransfer.tx \in Nat /\ i2cTransfer.rx \in Nat
  /\ i2cTransfer.tx <= I2cMaxLen /\ i2cTransfer.rx <= I2cMaxLen
  /\ i2cReadPos \in Nat /\ i2cReadPos <= i2cTransfer.rx /\ icRxFlr \in Nat
  /\ Incoming \in {0, 1}
  /\ idLeft["tx"] \in Nat /\ idLeft["rx"] \in Nat
  /\ Len(i2cWire) \in Nat /\ Len(icTxFifo) \in Nat
  /\ Len(i2cWire) + Len(icTxFifo) <= i2cTransfer.tx + i2cTransfer.rx
  /\ ReadsOnWire \in Nat
  /\ ReadsOnWire <= i2cTransfer.rx
  /\ ReadsOnWire > 0 => ReadsOnWire = Len(i2cWire) - i2cTransfer.tx
  /\ i2cReadPos + icRxFlr + Incoming <= ReadsOnWire
  /\ I2cMaxLen \in Nat

LEMMA IdFacts == I2cDmaInv => IdNumbers
<1>. SUFFICES ASSUME I2cDmaInv PROVE IdNumbers
  OBVIOUS
<1>1. /\ i2cTransfer.tx \in Nat /\ i2cTransfer.rx \in Nat
      /\ i2cTransfer.tx <= I2cMaxLen /\ i2cTransfer.rx <= I2cMaxLen
      /\ i2cReadPos \in Nat /\ i2cReadPos <= i2cTransfer.rx /\ icRxFlr \in Nat
      /\ I2cMaxLen \in Nat
  BY I2cAssumption DEF I2cDmaInv, IdTypes, TransferOK
<1>2. idLeft["tx"] \in Nat /\ idLeft["rx"] \in Nat
  BY I2cAssumption DEF I2cDmaInv, IdTypes, I2cDmaTypeOK, Directions
<1>3. /\ Len(i2cWire) \in Nat /\ Len(icTxFifo) \in Nat
      /\ Len(i2cWire) + Len(icTxFifo) <= i2cTransfer.tx + i2cTransfer.rx
  BY LenProperties DEF I2cDmaInv, Ordered
<1>4. /\ ReadsOnWire \in Nat /\ ReadsOnWire <= i2cTransfer.rx
      /\ ReadsOnWire > 0 => ReadsOnWire = Len(i2cWire) - i2cTransfer.tx
  BY <1>1, <1>3 DEF ReadsOnWire
<1>5. Incoming \in {0, 1} /\ i2cReadPos + icRxFlr + Incoming <= ReadsOnWire
  BY DEF Incoming, I2cDmaInv, IdCounts
<1>. QED
  BY <1>1, <1>2, <1>3, <1>4, <1>5 DEF IdNumbers

\* Of the states before, a start needs nothing but what its guards ask for.
LEMMA IdStartStep ==
  ASSUME IdFrame, ~i2cUpset', NEW x \in I2cTransfers, IdStart(x)
  PROVE  I2cDmaInv' /\ Contract!Start
<1>1. /\ x \in [tx : 0 .. I2cMaxLen, rx : 0 .. I2cMaxLen, stop : BOOLEAN]
      /\ x.tx \in 0 .. I2cMaxLen /\ x.rx \in 0 .. I2cMaxLen
      /\ x.tx \in Nat /\ x.rx \in Nat /\ x.tx + x.rx > 0
  BY I2cAssumption DEF I2cTransfers
<1>2. /\ ~i2cBusy
      /\ x.stop \/ x.rx > 0
      /\ x.tx # 1
      /\ i2cTransfer' = x /\ i2cReadCmdSend' = x.rx /\ i2cReadPos' = 0
      /\ idError' = FALSE /\ i2cWire' = <<>>
      /\ i2cBusy' = TRUE /\ i2cOutcome' = "none"
      /\ icEnabled' = TRUE /\ icTxAbrt' = "none" /\ idLen' = 0
  BY DEF IdStart, IdIdle
<1>3. /\ icTxFifo' = <<>> /\ icRxFlr' = 0 /\ icShift' # "r"
      /\ idPc' = "none" /\ idTerm' = <<>> /\ idSaw' = FALSE
  BY DEF IdStart, IdIdle, ControllerClean, IdFrame
<1>4. Len(i2cWire') = 0 /\ Len(icTxFifo') = 0 /\ ReadsOnWire' = 0 /\ Incoming' = 0
  BY <1>1, <1>2, <1>3, EmptySeq DEF ReadsOnWire, Incoming
<1>5. TransferOK' /\ Ordered'
  <2>1. <<>> \in Seq(I2cCommands)
    BY EmptySeq
  <2>. QED
    BY <1>1, <1>2, <1>3, <1>4, <2>1 DEF TransferOK, Ordered
<1>6. /\ idJob' = (IF x.tx = 0 THEN "reads" ELSE "bytes")
      /\ idChan' \in [Directions -> {"off", "busy", "end", "err"}]
      /\ idLeft' \in [Directions -> 0 .. I2cMaxLen]
      /\ idCr' \subseteq Directions
      /\ x.tx = 0 => /\ idOngoing' = Directions
                     /\ idChan'["tx"] = "busy" /\ idChan'["rx"] = "busy"
                     /\ idLeft'["tx"] = x.rx /\ idLeft'["rx"] = x.rx
      /\ x.tx # 0 => /\ idOngoing' = {"tx"}
                     /\ idChan'["tx"] = "busy" /\ idChan'["rx"] = "off"
                     /\ idLeft'["tx"] = x.tx - 1
  <2>1. CASE x.tx = 0
    BY <1>1, <2>1 DEF IdStart, StartDmaRead, Directions
  <2>2. CASE x.tx # 0
    <3>1. /\ idCr' = {"tx"} /\ idOngoing' = {"tx"} /\ idJob' = "bytes"
          /\ idChan' = [c \in Directions |-> IF c = "tx" THEN "busy" ELSE "off"]
          /\ idLeft' = [c \in Directions |-> IF c = "tx" THEN x.tx - 1 ELSE 0]
      BY <2>2 DEF IdStart
    <3>2. x.tx - 1 \in 0 .. I2cMaxLen /\ 0 \in 0 .. I2cMaxLen
      BY <1>1, <2>2, I2cAssumption
    <3>. QED
      BY <2>2, <3>1, <3>2 DEF Directions
  <2>. QED
    BY <2>1, <2>2
<1>7. IdTypes'
  <2>1. 0 \in 0 .. x.rx
    BY <1>1
  <2>2. idOngoing' \subseteq Directions /\ idJob' \in {"bytes", "reads"}
    BY <1>6 DEF Directions
  <2>3. 0 \in 0 .. 2 * I2cMaxLen /\ 0 \in Nat
    BY I2cAssumption
  <2>4. I2cDmaTypeOK'
    BY <1>2, <1>3, <1>6, <2>2, <2>3 DEF I2cDmaTypeOK
  <2>. QED
    BY <1>2, <1>3, <1>5, <2>1, <2>3, <2>4 DEF IdTypes
<1>8. IdCounts'
  <2>1. IdIssued' = 0
    BY <1>1, <1>2, <1>3, <1>6 DEF IdIssued
  <2>. QED
    BY <1>2, <1>3, <1>4, <2>1, I2cAssumption DEF IdCounts
<1>9. IdUnits'
  BY <1>1, <1>2, <1>6 DEF IdUnits, Directions
<1>10. IdBusySound'
  <2>1. x.tx # 0 => IdWriting'
    BY <1>1, <1>2, <1>3, <1>6 DEF IdWriting
  <2>2. x.tx = 0 => IdReading'
    BY <1>1, <1>2, <1>3, <1>6 DEF IdReading, Directions
  <2>. QED
    BY <1>1, <1>2, <1>3, <1>6, <2>1, <2>2 DEF IdBusySound
<1>11. Contract!Start
  <2>1. I2cMoved' = 0
    BY <1>1, <1>2, <1>4 DEF I2cMoved, Least
  <2>. QED
    BY <1>1, <1>2, <2>1 DEF Contract!Start
<1>. QED
  BY <1>2, <1>5, <1>7, <1>8, <1>9, <1>10, <1>11 DEF I2cDmaInv

LEMMA TermSeqs ==
  /\ Head(<<"rx">>) = "rx" /\ Tail(<<"rx">>) = <<>>
  /\ Head(<<"tx", "rx">>) = "tx" /\ Tail(<<"tx", "rx">>) = <<"rx">>
  /\ <<"tx", "rx">> # <<"rx">> /\ <<"rx">> # <<>> /\ <<"tx", "rx">> # <<>>
  OBVIOUS

LEMMA IdTerminateStep ==
  ASSUME I2cDmaInv, ~i2cUpset', IdTerminate \/ IdLook
  PROVE  I2cDmaInv' /\ UNCHANGED i2cXfer
<1>1. /\ UNCHANGED <<i2cTransfer, i2cReadPos, i2cReadCmdSend, icEnabled, icTxAbrt,
                     icTxFifo, icRxFlr, icShift, i2cWire, i2cBusy, i2cOutcome,
                     idOngoing, idError, idCr, idJob, idChan, idLeft, idPc, idLen>>
      /\ idPc = "none"
  BY DEF IdTerminate, IdLook, i2cVars, i2cDriver, i2cRegs, i2cChip, i2cClient,
     idContext, idChannels
<1>2. Ordered' /\ IdCounts' /\ IdUnits'
  BY <1>1 DEF I2cDmaInv, Ordered, IdCounts, IdIssued, ReadsOnWire, Incoming, IdUnits
<1>3. CASE IdTerminate
  <2>1. /\ idTerm = <<>> /\ idTerm' = <<"tx", "rx">> /\ idSaw' = idSaw
        /\ idOngoing # {} /\ idJob = "reads" /\ i2cTransfer.stop
    BY <1>3 DEF IdTerminate, Meets, I2cDmaInv, IdTypes, I2cDmaTypeOK
  <2>2. i2cBusy /\ idSaw = FALSE
    BY <2>1 DEF I2cDmaInv, IdTypes, I2cDmaTypeOK, IdQuiet, IdBusySound
  <2>3. IdTypes'
    BY <1>1, <2>1 DEF I2cDmaInv, IdTypes, TransferOK, I2cDmaTypeOK
  <2>4. IdBusySound'
    BY <1>1, <2>1, <2>2, TermSeqs DEF I2cDmaInv, IdBusySound, IdReading
  <2>. QED
    BY <1>1, <1>2, <2>2, <2>3, <2>4, SeenOnly DEF I2cDmaInv, i2cSeen
<1>4. CASE IdLook
  <2>1. /\ idTerm \in {<<"rx">>, <<"tx", "rx">>} /\ idSaw = FALSE
        /\ \/ Head(idTerm) \in idOngoing /\ idSaw' = TRUE /\ idTerm' = idTerm
           \/ Head(idTerm) \notin idOngoing /\ idTerm' = Tail(idTerm) /\ idSaw' = FALSE
    BY <1>4 DEF IdLook, I2cDmaInv, IdTypes, I2cDmaTypeOK
  <2>2. i2cBusy /\ IdBusySound /\ idJob = "reads" /\ IdReading
    BY <2>1 DEF I2cDmaInv, IdTypes, I2cDmaTypeOK, IdQuiet, IdBusySound, IdWriting
  <2>3. idTerm = <<"rx">> => Head(idTerm) \in idOngoing
    BY <2>2, TermSeqs DEF IdReading
  <2>4. idTerm' # idTerm => idTerm = <<"tx", "rx">> /\ idTerm' = <<"rx">>
    BY <2>1, <2>3, TermSeqs
  <2>5. idTerm' \in {<<"rx">>, <<"tx", "rx">>}
    BY <2>1, <2>4
  <2>6. IdTypes'
    <3>1. idTerm' \in {<<>>, <<"rx">>, <<"tx", "rx">>} /\ idSaw' \in BOOLEAN
      BY <2>1, <2>5
    <3>2. IdTypes
      BY DEF I2cDmaInv
    <3>. HIDE <1>4
    <3>. QED
      BY <1>1, <3>1, <3>2 DEF IdTypes, TransferOK, I2cDmaTypeOK
  <2>7. idTerm' = <<"rx">> => "tx" \notin idOngoing
    BY <2>1, <2>2, <2>4, TermSeqs DEF IdReading
  <2>8. IdReading'
    BY <1>1, <2>1, <2>2, <2>7 DEF IdReading
  <2>9. idSaw' => idTerm' # <<>> /\ Head(idTerm') \in idOngoing'
    BY <1>1, <2>1, <2>5
  <2>10. IdBusySound'
    BY <1>1, <2>2, <2>8, <2>9 DEF IdBusySound
  <2>. QED
    BY <1>1, <1>2, <2>2, <2>6, <2>10, SeenOnly DEF I2cDmaInv, i2cSeen
<1>. QED
  BY <1>3, <1>4

\* What a step that only ends channels leaves of the types.
LEMMA IdTypesKept ==
  ASSUME IdTypes, UNCHANGED <<i2cTransfer, idJob>>,
         i2cReadPos' \in 0 .. i2cTransfer.rx, icRxFlr' \in Nat,
         icTxAbrt' \in {"none", "nack"},
         i2cBusy' \in BOOLEAN, i2cOutcome' \in {"none", "done", "failed"},
         idOngoing' \subseteq Directions, idCr' \subseteq Directions,
         idError' \in BOOLEAN, idSaw' \in BOOLEAN,
         idChan' \in [Directions -> {"off", "busy", "end", "err"}],
         idLeft' \in [Directions -> 0 .. I2cMaxLen],
         idPc' \in {"none", "last", "drain"}, idLen' \in 0 .. 2 * I2cMaxLen,
         idTerm' \in {<<>>, <<"rx">>, <<"tx", "rx">>}
  PROVE  IdTypes'
  BY DEF IdTypes, TransferOK, I2cDmaTypeOK

LEMMA IdTyped ==
  ASSUME I2cDmaInv
  PROVE  /\ IdTypes /\ i2cReadPos \in 0 .. i2cTransfer.rx /\ icRxFlr \in Nat
         /\ icTxAbrt \in {"none", "nack"}
         /\ i2cBusy \in BOOLEAN /\ i2cOutcome \in {"none", "done", "failed"}
         /\ idOngoing \subseteq Directions /\ idCr \subseteq Directions
         /\ idError \in BOOLEAN /\ idSaw \in BOOLEAN
         /\ idJob \in {"bytes", "reads"}
         /\ idChan \in [Directions -> {"off", "busy", "end", "err"}]
         /\ idLeft \in [Directions -> 0 .. I2cMaxLen]
         /\ idPc \in {"none", "last", "drain"} /\ idLen \in 0 .. 2 * I2cMaxLen
         /\ idTerm \in {<<>>, <<"rx">>, <<"tx", "rx">>}
  BY DEF I2cDmaInv, IdTypes, I2cDmaTypeOK

LEMMA IdRunning ==
  ASSUME I2cDmaInv,
         \/ idPc # "none" \/ idTerm # <<>> \/ icTxAbrt # "none"
         \/ \E c \in Directions : idChan[c] # "off"
         \/ icTxFifo # <<>> \/ icRxFlr # 0 \/ icShift = "r"
  PROVE  i2cBusy /\ IdBusySound
  BY DEF I2cDmaInv, IdQuiet

\* The FIFO after the controller has been disabled, or of nothing.
LEMMA IdEmptied ==
  ASSUME TransferOK, Ordered, icTxFifo' = <<>>, UNCHANGED <<i2cTransfer, i2cWire>>
  PROVE  Ordered' /\ Len(icTxFifo') = 0
<1>1. Len(icTxFifo') = 0 /\ icTxFifo' \in Seq(I2cCommands)
  BY EmptySeq
<1>2. Len(i2cWire) \in Nat /\ Len(icTxFifo) \in Nat
      /\ i2cTransfer.tx \in Nat /\ i2cTransfer.rx \in Nat
  BY LenProperties DEF Ordered, TransferOK
<1>. QED
  BY <1>1, <1>2 DEF Ordered

\* Bytes moved, as a number.
LEMMA IdMovedBounds ==
  ASSUME IdNumbers
  PROVE  /\ I2cMoved \in Nat /\ I2cMoved <= i2cTransfer.tx + i2cTransfer.rx
         /\ Len(i2cWire) >= i2cTransfer.tx => I2cMoved = i2cTransfer.tx + i2cReadPos
<1>1. /\ i2cTransfer.tx \in Nat /\ i2cTransfer.rx \in Nat
      /\ i2cReadPos \in Nat /\ i2cReadPos <= i2cTransfer.rx
      /\ Len(i2cWire) \in Nat
  BY DEF IdNumbers
<1>2. /\ Len(i2cWire) <= i2cTransfer.tx => I2cMoved = Len(i2cWire) + i2cReadPos
      /\ ~(Len(i2cWire) <= i2cTransfer.tx) => I2cMoved = i2cTransfer.tx + i2cReadPos
  BY DEF I2cMoved, Least
<1>. QED
  BY ONLY <1>1, <1>2

\* The channel of the bytes of a write fails, or the other side has refused one.
LEMMA IdFailedStep ==
  ASSUME I2cDmaInv, i2cBusy, idJob = "bytes", idPc = "none",
         ChannelOff("tx"), DmaErrorCallback, icTxAbrt' = "none", idError' \in BOOLEAN,
         UNCHANGED <<i2cDriver, i2cWire, idJob, idLeft, idPc, idLen, idTerm, idSaw>>
  PROVE  I2cDmaInv' /\ Contract!Report
<1>1. IdBusySound /\ IdWriting /\ IdNumbers
  BY IdFacts DEF I2cDmaInv, IdBusySound
<1>2. idTerm = <<>> /\ idSaw = FALSE /\ idChan["rx"] = "off"
  BY <1>1, IdTyped DEF IdBusySound, IdWriting
<1>3. /\ i2cBusy' = FALSE /\ i2cOutcome' = "failed"
      /\ idOngoing' = {} /\ idCr' = idCr \ idOngoing
      /\ icTxFifo' = <<>> /\ icRxFlr' = 0 /\ icShift' = "none"
      /\ UNCHANGED <<i2cTransfer, i2cReadPos, i2cReadCmdSend>>
  BY DEF DmaErrorCallback, ControllerDisable, I2cCallback, i2cDriver
<1>4. /\ idChan' \in [Directions -> {"off", "busy", "end", "err"}]
      /\ \A c \in Directions : idChan'[c] = "off"
  BY <1>2, IdTyped DEF ChannelOff, Directions
<1>5. IdTypes'
  <2>1. idOngoing' \subseteq Directions /\ idCr' \subseteq Directions
    BY <1>3, IdTyped
  <2>. QED
    BY <1>3, <1>4, <2>1, IdTyped, IdTypesKept
<1>6. Ordered' /\ Len(icTxFifo') = 0
  BY <1>3, IdEmptied DEF I2cDmaInv, IdTypes
<1>7. IdCounts'
  <2>1. ReadsOnWire' = ReadsOnWire /\ Incoming' = 0
    BY <1>3 DEF ReadsOnWire, Incoming
  <2>2. i2cReadPos + 0 + 0 <= ReadsOnWire
    BY <1>1 DEF IdNumbers
  <2>. QED
    BY <1>3, <1>6, <2>1, <2>2, I2cAssumption DEF IdCounts
<1>8. IdUnits' /\ IdQuiet'
  BY <1>2, <1>3, <1>4 DEF IdUnits, IdQuiet
<1>9. Contract!Report
  <2>1. I2cMoved' = I2cMoved
    BY <1>3 DEF I2cMoved
  <2>. QED
    BY <1>1, <1>3, <2>1, IdMovedBounds DEF Contract!Report
<1>. QED
  BY <1>3, <1>5, <1>6, <1>7, <1>8, <1>9 DEF I2cDmaInv

LEMMA IdChannelErrorStep ==
  ASSUME I2cDmaInv, ~i2cUpset', NEW c \in Directions, IdChannelError(c)
  PROVE  I2cDmaInv' /\ Contract!Report
<1>1. idChan[c] = "err" /\ idPc = "none"
  BY DEF IdChannelError, Interruptible
<1>2. i2cBusy /\ IdBusySound
  BY <1>1, IdRunning
<1>3. c = "tx" /\ idJob = "bytes"
  BY <1>1, <1>2, IdTyped DEF IdBusySound, IdWriting, IdReading, Directions
<1>4. icTxAbrt = "none"
  BY <1>1, <1>2, <1>3 DEF IdBusySound, IdWriting
<1>. QED
  BY <1>1, <1>2, <1>3, <1>4, IdTyped, IdFailedStep DEF IdChannelError

LEMMA IdAbortStep ==
  ASSUME I2cDmaInv, ~i2cUpset', IdAbort
  PROVE  I2cDmaInv' /\ Contract!Report
<1>1. icTxAbrt # "none" /\ idPc = "none"
  BY DEF IdAbort, Interruptible
<1>2. i2cBusy /\ IdBusySound
  BY <1>1, IdRunning
<1>3. idJob = "bytes" /\ idOngoing = {"tx"}
  BY <1>1, <1>2, IdTyped DEF IdBusySound, IdWriting, IdReading
<1>. QED
  BY <1>1, <1>2, <1>3, IdFailedStep DEF IdAbort

LEMMA IdDrainStep ==
  ASSUME I2cDmaInv, IdDrain
  PROVE  I2cDmaInv' /\ Contract!Report
<1>1. idPc = "drain" /\ icTxFifo = <<>>
  BY DEF IdDrain, Drained
<1>2. i2cBusy /\ IdBusySound /\ IdNumbers
  BY <1>1, IdRunning, IdFacts
<1>3. idJob = "bytes" /\ IdWriting
  BY <1>1, <1>2, IdTyped DEF IdBusySound, IdReading
<1>4. /\ idLen = i2cTransfer.tx /\ i2cTransfer.rx = 0 /\ icTxAbrt = "none"
      /\ idTerm = <<>> /\ idSaw = FALSE /\ idOngoing = {}
      /\ idChan["tx"] = "off" /\ idChan["rx"] = "off"
  BY <1>1, <1>2, <1>3, IdTyped DEF IdBusySound, IdWriting
<1>5. Len(i2cWire) = i2cTransfer.tx /\ i2cReadPos = 0
  <2>1. Len(i2cWire) + Len(icTxFifo) = i2cTransfer.tx /\ Len(icTxFifo) = 0
    BY <1>1, <1>2, <1>3, <1>4, EmptySeq DEF I2cDmaInv, IdCounts, IdIssued
  <2>. QED
    BY <1>2, <1>4, <2>1 DEF IdNumbers
<1>6. /\ i2cBusy' = FALSE /\ i2cOutcome' = "done" /\ idPc' = "none"
      /\ icTxFifo' = <<>> /\ icRxFlr' = 0 /\ icShift' = "none"
      /\ UNCHANGED <<i2cTransfer, i2cReadPos, i2cReadCmdSend, icTxAbrt, i2cWire,
                     idOngoing, idError, idCr, idJob, idChan, idLeft, idLen,
                     idTerm, idSaw>>
  BY <1>2, <1>4 DEF IdDrain, ControllerDisable, IdReport, I2cCallback, i2cDriver,
     idContext, idChannels
<1>7. IdTypes'
  BY <1>6, IdTyped, IdTypesKept
<1>8. Ordered' /\ Len(icTxFifo') = 0
  BY <1>6, IdEmptied DEF I2cDmaInv, IdTypes
<1>9. IdCounts'
  <2>1. ReadsOnWire' = ReadsOnWire /\ Incoming' = 0
    BY <1>6 DEF ReadsOnWire, Incoming
  <2>2. i2cReadPos + 0 + 0 <= ReadsOnWire
    BY <1>2 DEF IdNumbers
  <2>. QED
    BY <1>6, <1>8, <2>1, <2>2, I2cAssumption DEF IdCounts
<1>10. IdUnits' /\ IdQuiet'
  BY <1>4, <1>6 DEF I2cDmaInv, IdUnits, IdQuiet, Directions
<1>11. Contract!Report
  <2>1. I2cMoved' = I2cMoved
    BY <1>6 DEF I2cMoved
  <2>2. I2cMoved = i2cTransfer.tx + i2cTransfer.rx /\ I2cMoved \in Nat
    BY <1>2, <1>4, <1>5, IdMovedBounds DEF IdNumbers
  <2>. QED
    BY <1>2, <1>6, <2>1, <2>2 DEF Contract!Report
<1>. QED
  BY <1>6, <1>7, <1>8, <1>9, <1>10, <1>11 DEF I2cDmaInv

\* The client is called back at the end of a read, or from its termination.
LEMMA IdReceivedStep ==
  ASSUME I2cDmaInv, i2cBusy, idJob = "reads", "tx" \notin idOngoing,
         i2cTransfer.stop \/ idLeft["rx"] = 0,
         ChannelOff("rx"), ReceiveCallback(Moved("rx")),
         idTerm' = <<>>, idSaw' = FALSE,
         UNCHANGED <<i2cDriver, icTxAbrt, i2cWire, idError, idJob, idLeft>>
  PROVE  I2cDmaInv' /\ Contract!Report
<1>1. IdBusySound /\ IdReading /\ IdNumbers
  BY IdFacts DEF I2cDmaInv, IdBusySound
<1>2. /\ icTxAbrt = "none" /\ idPc = "none" /\ idError = FALSE
      /\ idChan["tx"] = "off" /\ idOngoing = {"rx"}
      /\ idLeft["rx"] = i2cTransfer.rx - i2cReadPos
  BY <1>1, IdTyped DEF IdBusySound, IdReading, Directions
<1>3. Moved("rx") = i2cReadPos
  BY <1>1, <1>2 DEF Moved, IdNumbers
<1>4. /\ i2cBusy' = FALSE
      /\ i2cOutcome' = (IF i2cReadPos = i2cTransfer.rx THEN "done" ELSE "failed")
      /\ idCr' = idCr \ {"rx"} /\ idOngoing' = {}
      /\ DisableOnStop
      /\ UNCHANGED <<idPc, idLen, i2cTransfer, i2cReadPos, i2cReadCmdSend>>
  BY <1>2, <1>3 DEF ReceiveCallback, Leave, IdReport, I2cCallback, i2cDriver
<1>5. i2cReadPos = i2cTransfer.rx =>
        /\ icRxFlr = 0 /\ icShift # "r" /\ icTxFifo = <<>>
        /\ Len(i2cWire) = i2cTransfer.tx + i2cTransfer.rx
  <2>. SUFFICES ASSUME i2cReadPos = i2cTransfer.rx
                PROVE  /\ icRxFlr = 0 /\ icShift # "r" /\ icTxFifo = <<>>
                       /\ Len(i2cWire) = i2cTransfer.tx + i2cTransfer.rx
    OBVIOUS
  <2>1. i2cTransfer.rx > 0
    BY <1>1 DEF IdReading
  <2>2. /\ ReadsOnWire = i2cTransfer.rx /\ icRxFlr = 0 /\ Incoming = 0
        /\ Len(i2cWire) = i2cTransfer.tx + i2cTransfer.rx
        /\ Len(icTxFifo) = 0
    BY <1>1, <2>1 DEF IdNumbers
  <2>3. icTxFifo = <<>>
    BY <2>2, EmptySeq DEF I2cDmaInv, Ordered
  <2>4. icShift # "r"
    BY <2>2 DEF Incoming
  <2>. QED
    BY <2>2, <2>3, <2>4
<1>6. /\ icTxFifo' = <<>> /\ icRxFlr' = 0 /\ icShift' # "r"
      /\ Incoming' = 0
  <2>1. CASE i2cTransfer.stop
    BY <1>4, <2>1 DEF DisableOnStop, ControllerDisable, Incoming
  <2>2. CASE ~i2cTransfer.stop
    <3>1. idLeft["rx"] = 0
      BY <2>2
    <3>2. i2cReadPos = i2cTransfer.rx
      BY <1>1, <1>2, <3>1 DEF IdNumbers
    <3>. QED
      BY <1>4, <1>5, <2>2, <3>2, IdTyped DEF DisableOnStop, Incoming
  <2>. QED
    BY <2>1, <2>2
<1>7. /\ idChan' \in [Directions -> {"off", "busy", "end", "err"}]
      /\ \A c \in Directions : idChan'[c] = "off"
  BY <1>2, IdTyped DEF ChannelOff, Directions
<1>8. IdTypes'
  <2>1. idOngoing' \subseteq Directions /\ idCr' \subseteq Directions
        /\ i2cOutcome' \in {"none", "done", "failed"}
    BY <1>4, IdTyped
  <2>. QED
    BY <1>2, <1>4, <1>6, <1>7, <2>1, IdTyped, IdTypesKept
<1>9. Ordered' /\ Len(icTxFifo') = 0
  BY <1>4, <1>6, IdEmptied DEF I2cDmaInv, IdTypes
<1>10. IdCounts'
  <2>1. ReadsOnWire' = ReadsOnWire
    BY <1>4 DEF ReadsOnWire
  <2>2. i2cReadPos + 0 + 0 <= ReadsOnWire
    BY <1>1 DEF IdNumbers
  <2>. QED
    BY <1>4, <1>6, <1>9, <2>1, <2>2, I2cAssumption DEF IdCounts
<1>11. IdUnits' /\ IdQuiet'
  BY <1>2, <1>4, <1>6, <1>7 DEF IdUnits, IdQuiet
<1>12. Contract!Report
  <2>1. I2cMoved' = I2cMoved
    BY <1>4 DEF I2cMoved
  <2>2. i2cReadPos = i2cTransfer.rx => I2cMoved = i2cTransfer.tx + i2cTransfer.rx
    BY <1>1, <1>5, IdMovedBounds DEF IdNumbers
  <2>. QED
    BY <1>1, <1>4, <2>1, <2>2, IdMovedBounds DEF Contract!Report
<1>. QED
  BY <1>4, <1>8, <1>9, <1>10, <1>11, <1>12 DEF I2cDmaInv

\* The commands of a read are all there, or the client wants no more of them.
LEMMA IdCommandedStep ==
  ASSUME I2cDmaInv, i2cBusy, idJob = "reads",
         "tx" \in idOngoing, ChannelOff("tx"), TransmitCallback(Moved("tx")),
         \/ idTerm = <<>> /\ idTerm' = <<>>
         \/ idTerm = <<"tx", "rx">> /\ idTerm' = <<"rx">>,
         idSaw' = FALSE,
         UNCHANGED <<i2cDriver, icTxAbrt, i2cWire, idError, idJob, idLeft>>
  PROVE  I2cDmaInv' /\ UNCHANGED i2cXfer
<1>1. IdBusySound /\ IdReading
  BY DEF I2cDmaInv, IdBusySound
<1>2. "rx" \in idOngoing /\ idError = FALSE
  BY <1>1 DEF IdBusySound, IdReading
<1>3. /\ idCr' = idCr \ {"tx"} /\ idOngoing' = idOngoing \ {"tx"}
      /\ UNCHANGED <<idPc, idLen, icEnabled, icTxFifo, icRxFlr, icShift, i2cBusy,
                     i2cOutcome, i2cTransfer, i2cReadPos, i2cReadCmdSend>>
  BY <1>2 DEF TransmitCallback, Leave, i2cClient, i2cDriver
<1>4. /\ idChan' \in [Directions -> {"off", "busy", "end", "err"}]
      /\ idChan'["tx"] = "off" /\ idChan'["rx"] = idChan["rx"]
  BY IdTyped DEF ChannelOff, Directions
<1>5. IdTypes'
  <2>1. /\ idOngoing' \subseteq Directions /\ idCr' \subseteq Directions
        /\ idTerm' \in {<<>>, <<"rx">>, <<"tx", "rx">>}
    BY <1>3, IdTyped
  <2>. QED
    BY <1>3, <1>4, <2>1, IdTyped, IdTypesKept
<1>6. Ordered' /\ IdCounts'
  BY <1>3 DEF I2cDmaInv, Ordered, IdCounts, IdIssued, ReadsOnWire, Incoming
<1>7. IdUnits'
  BY <1>4 DEF I2cDmaInv, IdUnits, Directions
<1>8. IdReading'
  <2>1. idTerm' # <<>> => i2cTransfer.stop
    BY <1>1 DEF IdReading
  <2>. QED
    BY <1>1, <1>2, <1>3, <1>4, <2>1 DEF IdReading
<1>9. IdBusySound'
  BY <1>1, <1>3, <1>8 DEF IdBusySound
<1>. QED
  BY <1>3, <1>5, <1>6, <1>7, <1>9, SeenOnly DEF I2cDmaInv, i2cSeen

\* The TX channel has moved all bytes but the last one.
LEMMA IdWrittenStep ==
  ASSUME I2cDmaInv, i2cBusy, idJob = "bytes", idPc = "none", idChan["tx"] = "end",
         ChannelOff("tx"), TransmitCallback(Moved("tx")),
         UNCHANGED <<i2cDriver, icTxAbrt, i2cWire, idError, idJob, idLeft, idTerm, idSaw>>
  PROVE  I2cDmaInv' /\ UNCHANGED i2cXfer
<1>1. IdBusySound /\ IdWriting /\ IdNumbers
  BY IdFacts DEF I2cDmaInv, IdBusySound
<1>2. /\ idOngoing = {"tx"} /\ idError = FALSE /\ icTxAbrt = "none"
      /\ idLeft["tx"] = 0 /\ idChan["rx"] = "off"
  BY <1>1 DEF IdBusySound, IdWriting, I2cDmaInv, IdUnits, Directions
<1>3. Moved("tx") = i2cTransfer.tx - 1
  BY <1>1, <1>2 DEF Moved, IdBlock, IdNumbers
<1>4. /\ idPc' = "last" /\ idLen' = i2cTransfer.tx - 1
      /\ idCr' = idCr \ {"tx"} /\ idOngoing' = {}
      /\ UNCHANGED <<icEnabled, icTxFifo, icRxFlr, icShift, i2cBusy, i2cOutcome,
                     i2cTransfer, i2cReadPos, i2cReadCmdSend>>
  BY <1>2, <1>3 DEF TransmitCallback, Leave, i2cClient, i2cDriver
<1>5. /\ idChan' \in [Directions -> {"off", "busy", "end", "err"}]
      /\ \A c \in Directions : idChan'[c] = "off"
  BY <1>2, IdTyped DEF ChannelOff, Directions
<1>6. IdTypes'
  <2>1. idLen' \in 0 .. 2 * I2cMaxLen
    <3>1. /\ i2cTransfer.tx \in Nat /\ i2cTransfer.tx >= 2
          /\ i2cTransfer.tx <= I2cMaxLen /\ I2cMaxLen \in Nat
      BY <1>1 DEF IdNumbers, IdWriting
    <3>2. i2cTransfer.tx - 1 \in 0 .. 2 * I2cMaxLen
      BY ONLY <3>1
    <3>. QED
      BY <1>4, <3>2
  <2>2. idOngoing' \subseteq Directions /\ idCr' \subseteq Directions
    BY <1>4, IdTyped
  <2>. QED
    BY <1>4, <1>5, <2>1, <2>2, IdTyped, IdTypesKept
<1>7. Ordered' /\ IdCounts'
  <2>1. IdIssued' = IdIssued
    BY <1>4 DEF IdIssued
  <2>. QED
    BY <1>4, <2>1 DEF I2cDmaInv, Ordered, IdCounts, ReadsOnWire, Incoming
<1>8. IdUnits'
  BY <1>5 DEF IdUnits
<1>9. IdWriting'
  BY <1>1, <1>2, <1>4, <1>5 DEF IdWriting, Directions
<1>10. IdBusySound'
  BY <1>1, <1>4, <1>9, IdTyped DEF IdBusySound, IdWriting
<1>. QED
  BY <1>4, <1>6, <1>7, <1>8, <1>10, SeenOnly DEF I2cDmaInv, i2cSeen

LEMMA IdChannelEndStep ==
  ASSUME I2cDmaInv, ~i2cUpset', NEW c \in Directions, IdChannelEnd(c)
  PROVE  I2cDmaInv' /\ [Contract!Next]_i2cXfer
<1>1. /\ idChan[c] = "end" /\ idPc = "none" /\ idTerm = <<>>
      /\ ChannelOff(c) /\ ChannelCallback(c, Moved(c))
      /\ UNCHANGED <<i2cDriver, icTxAbrt, i2cWire, idError, idJob, idLeft, idTerm, idSaw>>
  BY DEF IdChannelEnd, Interruptible, Meets
<1>2. i2cBusy /\ IdBusySound
  BY <1>1, IdRunning
<1>3. idSaw' = FALSE
  BY <1>1, <1>2, IdTyped DEF IdBusySound
<1>4. CASE c = "tx"
  <2>1. CASE idJob = "bytes"
    BY <1>1, <1>2, <1>4, <2>1, IdWrittenStep DEF ChannelCallback
  <2>2. CASE idJob = "reads"
    <3>1. "tx" \in idOngoing
      BY <1>1, <1>2, <1>4, <2>2 DEF IdBusySound, IdReading
    <3>. QED
      BY <1>1, <1>2, <1>3, <1>4, <2>2, <3>1, IdCommandedStep DEF ChannelCallback
  <2>. QED
    BY <2>1, <2>2, IdTyped
<1>5. CASE c = "rx"
  <2>1. idJob = "reads"
    BY <1>1, <1>2, <1>5, IdTyped DEF IdBusySound, IdWriting
  <2>2. "tx" \notin idOngoing /\ idLeft["rx"] = 0
    BY <1>1, <1>2, <1>5, <2>1 DEF IdBusySound, IdReading, I2cDmaInv, IdUnits, Directions
  <2>. QED
    BY <1>1, <1>2, <1>3, <1>5, <2>1, <2>2, IdReceivedStep DEF ChannelCallback, Contract!Next
<1>. QED
  BY <1>4, <1>5 DEF Directions

LEMMA IdStopChannelStep ==
  ASSUME I2cDmaInv, IdStopChannel
  PROVE  I2cDmaInv' /\ [Contract!Next]_i2cXfer
<1>. DEFINE c == Head(idTerm)
<1>1. /\ idPc = "none" /\ idTerm # <<>> /\ idSaw
      /\ ChannelOff(c) /\ ChannelCallback(c, Moved(c))
      /\ idTerm' = Tail(idTerm) /\ idSaw' = FALSE
      /\ UNCHANGED <<i2cDriver, icTxAbrt, i2cWire, idError, idJob, idLeft>>
  BY DEF IdStopChannel
<1>2. i2cBusy /\ IdBusySound
  BY <1>1, IdRunning
<1>3. idJob = "reads" /\ IdReading /\ c \in idOngoing
  BY <1>1, <1>2, IdTyped DEF IdBusySound, IdWriting
<1>4. CASE idTerm = <<"tx", "rx">>
  <2>1. c = "tx" /\ idTerm' = <<"rx">>
    BY <1>1, <1>4, TermSeqs
  <2>2. /\ ChannelOff("tx") /\ ChannelCallback("tx", Moved("tx"))
        /\ "tx" \in idOngoing
    BY <1>1, <1>3, <2>1
  <2>. HIDE DEF c
  <2>. QED
    BY <1>1, <1>2, <1>3, <1>4, <2>1, <2>2, IdCommandedStep DEF ChannelCallback
<1>5. CASE idTerm = <<"rx">>
  <2>1. c = "rx" /\ idTerm' = <<>>
    BY <1>1, <1>5, TermSeqs
  <2>2. ChannelOff("rx") /\ ChannelCallback("rx", Moved("rx"))
    BY <1>1, <2>1
  <2>3. i2cTransfer.stop /\ "tx" \notin idOngoing
    BY <1>3, <1>5, TermSeqs DEF IdReading
  <2>. HIDE DEF c
  <2>. QED
    BY <1>1, <1>2, <1>3, <2>1, <2>2, <2>3, IdReceivedStep DEF ChannelCallback, Contract!Next
<1>. QED
  BY <1>1, <1>4, <1>5, IdTyped

\* The last byte of a write, then the end of the transfer or its read.
LEMMA IdLastStep ==
  ASSUME I2cDmaInv, IdLast
  PROVE  I2cDmaInv' /\ UNCHANGED i2cXfer
<1>1. idPc = "last" /\ Len(icTxFifo) < FIFO_SIZE
  BY DEF IdLast
<1>2. i2cBusy /\ IdBusySound /\ IdNumbers
  BY <1>1, IdRunning, IdFacts
<1>3. idJob = "bytes" /\ IdWriting
  BY <1>1, <1>2, IdTyped DEF IdBusySound, IdReading
<1>4. /\ i2cTransfer.tx >= 2 /\ idLen = i2cTransfer.tx - 1 /\ icTxAbrt = "none"
      /\ idLeft["tx"] = 0 /\ idOngoing = {} /\ i2cReadPos = 0
      /\ idTerm = <<>> /\ idSaw = FALSE /\ idError = FALSE
      /\ idChan["tx"] = "off" /\ idChan["rx"] = "off"
      /\ i2cTransfer.stop \/ i2cTransfer.rx > 0
      /\ i2cReadCmdSend = i2cTransfer.rx /\ i2cOutcome = "none"
  BY <1>1, <1>2, <1>3, IdTyped DEF IdBusySound, IdWriting
<1>5. idLen + 1 = i2cTransfer.tx /\ ~(idLen # i2cTransfer.tx - 1)
  BY <1>2, <1>4 DEF IdNumbers
<1>. DEFINE b == [op |-> "w", i |-> i2cTransfer.tx, stop |-> LastStop(idLen)]
<1>6. /\ icTxFifo' = icTxFifo \o <<b>>
      /\ icEnabled' /\ icTxAbrt' = "none"
      /\ UNCHANGED <<i2cTransfer, i2cReadPos, i2cReadCmdSend, icRxFlr, icShift,
                     i2cWire, idError, idTerm, idSaw>>
      /\ IF i2cTransfer.rx > 0
         THEN /\ StartDmaRead(i2cTransfer)
              /\ idPc' = "none" /\ UNCHANGED <<idLen, i2cBusy, i2cOutcome>>
         ELSE /\ idLen' = i2cTransfer.tx /\ idPc' = "drain"
              /\ UNCHANGED <<idCr, idOngoing, idJob, idChan, idLeft, i2cBusy, i2cOutcome>>
  BY <1>2, <1>4, <1>5 DEF IdLast, IdBusySound, Issue, Push, i2cDriver, idChannels, i2cClient
<1>7. Len(i2cWire) + Len(icTxFifo) = i2cTransfer.tx - 1
  <2>1. Len(i2cWire) + Len(icTxFifo) = (i2cTransfer.tx - 1) - 0
    BY <1>1, <1>2, <1>3, <1>4 DEF I2cDmaInv, IdCounts, IdIssued
  <2>. QED
    BY <1>2, <2>1 DEF IdNumbers
<1>8. b = I2cProgram(i2cTransfer)[Len(i2cWire) + Len(icTxFifo) + 1]
  <2>1. /\ Len(i2cWire) + Len(icTxFifo) + 1 = i2cTransfer.tx
        /\ i2cTransfer.tx \in 1 .. i2cTransfer.tx + i2cTransfer.rx
        /\ i2cTransfer.rx = 0 <=> i2cTransfer.tx = i2cTransfer.tx + i2cTransfer.rx
    BY <1>2, <1>4, <1>7 DEF IdNumbers
  <2>2. b.stop = (i2cTransfer.stop /\ i2cTransfer.tx = i2cTransfer.tx + i2cTransfer.rx)
    BY <1>5, <2>1 DEF LastStop
  <2>3. I2cProgram(i2cTransfer)[i2cTransfer.tx] =
          [op |-> "w", i |-> i2cTransfer.tx,
           stop |-> i2cTransfer.stop /\ i2cTransfer.tx = i2cTransfer.tx + i2cTransfer.rx]
    <3>1. i2cTransfer \in [tx : 0 .. I2cMaxLen, rx : 0 .. I2cMaxLen, stop : BOOLEAN]
      BY DEF I2cDmaInv, IdTypes, TransferOK
    <3>2. i2cTransfer.tx <= i2cTransfer.tx
      BY <1>2 DEF IdNumbers
    <3>. QED
      BY ONLY <2>1, <3>1, <3>2, ProgramCommands
  <2>. QED
    BY <2>1, <2>2, <2>3
<1>. HIDE DEF b
<1>9. /\ Ordered' /\ Len(icTxFifo') = Len(icTxFifo) + 1
  <2>1. Len(i2cWire) + Len(icTxFifo) < i2cTransfer.tx + i2cTransfer.rx
    BY <1>2, <1>4, <1>7 DEF IdNumbers
  <2>. QED
    BY <1>6, <1>8, <2>1, WrittenOrdered DEF I2cDmaInv, IdTypes
<1>10. ReadsOnWire' = ReadsOnWire /\ Incoming' = Incoming
  BY <1>6 DEF ReadsOnWire, Incoming
<1>11. Len(i2cWire') + Len(icTxFifo') = i2cTransfer.tx /\ Len(icTxFifo') <= FIFO_SIZE
  <2>1. /\ i2cTransfer.tx \in Nat /\ Len(i2cWire) \in Nat /\ Len(icTxFifo) \in Nat
        /\ FIFO_SIZE \in Nat /\ Len(icTxFifo) < FIFO_SIZE
        /\ i2cWire' = i2cWire /\ Len(icTxFifo') = Len(icTxFifo) + 1
        /\ Len(i2cWire) + Len(icTxFifo) = i2cTransfer.tx - 1
    BY <1>1, <1>2, <1>6, <1>7, <1>9, I2cAssumption DEF IdNumbers
  <2>. QED
    BY ONLY <2>1
<1>12. i2cBusy' = TRUE /\ i2cOutcome' = "none"
  BY <1>2, <1>4, <1>6, IdTyped
<1>13. UNCHANGED i2cXfer
  <2>1. UNCHANGED <<i2cBusy, i2cOutcome>>
    BY <1>6
  <2>. QED
    BY <1>6, <2>1, SeenOnly DEF i2cSeen
<1>14. CASE i2cTransfer.rx > 0
  <2>1. /\ idJob' = "reads" /\ idOngoing' = Directions /\ idCr' = Directions
        /\ idChan' = [c \in Directions |-> "busy"]
        /\ idLeft' = [c \in Directions |-> i2cTransfer.rx]
        /\ idPc' = "none" /\ idLen' = idLen
    BY <1>6, <1>14 DEF StartDmaRead
  <2>2. i2cTransfer.rx \in 0 .. I2cMaxLen
    BY <1>2 DEF IdNumbers
  <2>3. /\ idChan'["tx"] = "busy" /\ idChan'["rx"] = "busy"
        /\ idLeft'["tx"] = i2cTransfer.rx /\ idLeft'["rx"] = i2cTransfer.rx
        /\ idChan' \in [Directions -> {"off", "busy", "end", "err"}]
        /\ idLeft' \in [Directions -> 0 .. I2cMaxLen]
    BY <2>1, <2>2 DEF Directions
  <2>4. IdTypes'
    <3>1. TransferOK'
      BY <1>6 DEF I2cDmaInv, IdTypes, TransferOK
    <3>2. I2cDmaTypeOK'
      BY <1>6, <2>1, <2>3, IdTyped DEF I2cDmaTypeOK
    <3>. QED
      BY <1>6, <1>12, <3>1, <3>2, IdTyped DEF IdTypes
  <2>5. IdCounts'
    <3>1. IdIssued' = i2cTransfer.tx
      BY <1>2, <1>6, <2>1, <2>3 DEF IdIssued, IdNumbers
    <3>. QED
      BY <1>2, <1>6, <1>10, <1>11, <3>1 DEF IdCounts, IdNumbers
  <2>6. IdUnits'
    BY <1>14, <2>3 DEF IdUnits, Directions
  <2>7. IdReading'
    BY <1>2, <1>4, <1>6, <1>14, <2>1, <2>3 DEF IdReading, IdNumbers, Directions
  <2>8. IdBusySound'
    BY <1>4, <1>6, <1>12, <2>1, <2>7 DEF IdBusySound
  <2>. QED
    BY <1>9, <1>12, <1>13, <2>4, <2>5, <2>6, <2>8 DEF I2cDmaInv
<1>15. CASE ~(i2cTransfer.rx > 0)
  <2>1. /\ idLen' = i2cTransfer.tx /\ idPc' = "drain"
        /\ UNCHANGED <<idCr, idOngoing, idJob, idChan, idLeft>>
    BY <1>6, <1>15
  <2>2. IdTypes'
    <3>1. TransferOK'
      BY <1>6 DEF I2cDmaInv, IdTypes, TransferOK
    <3>2. idLen' \in 0 .. 2 * I2cMaxLen
      BY <1>2, <2>1 DEF IdNumbers
    <3>3. I2cDmaTypeOK'
      BY <1>6, <2>1, <3>2, IdTyped DEF I2cDmaTypeOK
    <3>. QED
      BY <1>6, <1>12, <3>1, <3>3, IdTyped DEF IdTypes
  <2>3. IdCounts'
    <3>1. IdIssued' = i2cTransfer.tx
      BY <1>3, <1>6, <2>1 DEF IdIssued
    <3>. QED
      BY <1>2, <1>6, <1>10, <1>11, <3>1 DEF IdCounts, IdNumbers
  <2>4. IdUnits'
    BY <2>1 DEF I2cDmaInv, IdUnits
  <2>5. i2cTransfer.rx = 0
    BY <1>2, <1>15 DEF IdNumbers
  <2>6. IdWriting'
    BY <1>3, <1>4, <1>6, <2>1, <2>5 DEF IdWriting
  <2>7. IdBusySound'
    BY <1>3, <1>4, <1>6, <1>12, <2>1, <2>6 DEF IdBusySound
  <2>. QED
    BY <1>9, <1>12, <1>13, <2>2, <2>3, <2>4, <2>7 DEF I2cDmaInv
<1>. QED
  BY <1>14, <1>15

\* What is common to the steps of the channels.
LEMMA IdChannelStep ==
  ASSUME I2cDmaInv, NEW c \in Directions, InTime, idChan[c] = "busy"
  PROVE  /\ i2cBusy /\ IdBusySound /\ IdNumbers /\ idPc = "none"
         /\ icTxAbrt = "none" /\ idLeft[c] > 0
         /\ \A d \in Directions : idChan[d] \in {"off", "busy"}
<1>1. i2cBusy /\ IdBusySound /\ IdNumbers
  BY IdRunning, IdFacts
<1>2. icTxAbrt = "none" /\ \A d \in Directions : idChan[d] \in {"off", "busy"}
  BY DEF InTime
<1>3. idPc = "none"
  BY <1>1, IdTyped DEF IdBusySound, IdWriting, IdReading, Directions
<1>. QED
  BY <1>1, <1>2, <1>3 DEF I2cDmaInv, IdUnits

LEMMA IdMoveTxStep ==
  ASSUME I2cDmaInv, ~i2cUpset', IdMoveTx
  PROVE  I2cDmaInv' /\ UNCHANGED i2cXfer
<1>. DEFINE b == IF idJob = "bytes"
                 THEN [op |-> "w", i |-> i2cTransfer.tx - idLeft["tx"], stop |-> FALSE]
                 ELSE [op |-> "r", i |-> 0,
                       stop |-> i2cTransfer.stop /\ idLeft["tx"] = 1]
<1>1. InTime /\ idChan["tx"] = "busy" /\ Len(icTxFifo) < FIFO_SIZE
  BY DEF IdMoveTx, ChannelMoves, Meets
<1>2. /\ i2cBusy /\ IdBusySound /\ IdNumbers /\ idPc = "none" /\ icTxAbrt = "none"
      /\ idLeft["tx"] > 0
  BY <1>1, IdChannelStep DEF Directions
<1>3. /\ idLeft' = [idLeft EXCEPT !["tx"] = @ - 1]
      /\ idChan' = [idChan EXCEPT !["tx"] = IF idLeft["tx"] = 1 THEN "end" ELSE @]
      /\ icTxFifo' = icTxFifo \o <<b>>
      /\ UNCHANGED <<i2cTransfer, i2cReadCmdSend, i2cReadPos, icEnabled, icTxAbrt,
                     icRxFlr, icShift, i2cWire, i2cBusy, i2cOutcome, idOngoing, idError,
                     idCr, idJob, idPc, idLen, idTerm, idSaw>>
  BY <1>2 DEF IdMoveTx, IdBusySound, ChannelMoves, Issue, Push, i2cRegs, i2cClient, idContext
<1>4. Len(i2cWire) + Len(icTxFifo) = IdIssued
  BY <1>2 DEF I2cDmaInv, IdCounts
<1>. DEFINE tx == i2cTransfer.tx
            rx == i2cTransfer.rx
            left == idLeft["tx"]
            n == Len(i2cWire) + Len(icTxFifo)
<1>5. /\ tx \in Nat /\ rx \in Nat /\ left \in Nat /\ n \in Nat /\ left > 0
      /\ left <= I2cMaxLen /\ I2cMaxLen \in Nat
  BY <1>2, IdTyped, I2cAssumption DEF IdNumbers, Directions
<1>6. /\ idJob = "bytes" => left <= tx - 1 /\ n = (tx - 1) - left
      /\ idJob = "reads" => left <= rx /\ n = tx + (rx - left)
  BY <1>2, <1>4 DEF IdIssued, IdBusySound, IdWriting, IdReading
<1>7. /\ idJob = "bytes" =>
           /\ n + 1 \in 1 .. tx + rx /\ n + 1 <= tx /\ n < tx + rx
           /\ n + 1 = tx - left /\ n + 1 # tx + rx
      /\ idJob = "reads" =>
           /\ n + 1 \in 1 .. tx + rx /\ n + 1 > tx /\ n < tx + rx
           /\ (left = 1) = (n + 1 = tx + rx)
  <2>. HIDE DEF tx, rx, left, n
  <2>1. ASSUME idJob = "bytes"
        PROVE  /\ n + 1 \in 1 .. tx + rx /\ n + 1 <= tx /\ n < tx + rx
               /\ n + 1 = tx - left /\ n + 1 # tx + rx
    <3>1. left <= tx - 1 /\ n = (tx - 1) - left
      BY <1>6, <2>1
    <3>. QED
      BY ONLY <1>5, <3>1
  <2>2. ASSUME idJob = "reads"
        PROVE  /\ n + 1 \in 1 .. tx + rx /\ n + 1 > tx /\ n < tx + rx
               /\ (left = 1) = (n + 1 = tx + rx)
    <3>1. left <= rx /\ n = tx + (rx - left)
      BY <1>6, <2>2
    <3>. QED
      BY ONLY <1>5, <3>1
  <2>. QED
    BY <2>1, <2>2
<1>8. /\ Len(i2cWire) + Len(icTxFifo) < i2cTransfer.tx + i2cTransfer.rx
      /\ b = I2cProgram(i2cTransfer)[Len(i2cWire) + Len(icTxFifo) + 1]
  <2>1. i2cTransfer \in [tx : 0 .. I2cMaxLen, rx : 0 .. I2cMaxLen, stop : BOOLEAN]
    BY DEF I2cDmaInv, IdTypes, TransferOK
  <2>2. CASE idJob = "bytes"
    <3>. HIDE DEF n
    <3>1. I2cProgram(i2cTransfer)[n + 1] =
            [op |-> "w", i |-> n + 1,
             stop |-> i2cTransfer.stop /\ n + 1 = i2cTransfer.tx + i2cTransfer.rx]
      BY <1>7, <2>1, <2>2, ProgramCommands
    <3>2. (i2cTransfer.stop /\ n + 1 = i2cTransfer.tx + i2cTransfer.rx) = FALSE
      BY <1>7, <2>2
    <3>. QED
      BY <1>7, <2>2, <3>1, <3>2 DEF n
  <2>3. CASE idJob = "reads"
    <3>. HIDE DEF n
    <3>1. I2cProgram(i2cTransfer)[n + 1] =
            [op |-> "r", i |-> 0,
             stop |-> i2cTransfer.stop /\ n + 1 = i2cTransfer.tx + i2cTransfer.rx]
      BY <1>7, <2>1, <2>3, ProgramCommands
    <3>. QED
      BY <1>7, <2>3, <3>1 DEF n
  <2>. QED
    BY <2>2, <2>3, IdTyped
<1>. HIDE DEF b, tx, rx, left, n
<1>9. Ordered' /\ Len(icTxFifo') = Len(icTxFifo) + 1
  BY <1>3, <1>8, WrittenOrdered DEF I2cDmaInv, IdTypes
<1>10. /\ idLeft'["tx"] = idLeft["tx"] - 1 /\ idLeft'["rx"] = idLeft["rx"]
       /\ idChan'["tx"] = (IF idLeft["tx"] = 1 THEN "end" ELSE "busy")
       /\ idChan'["rx"] = idChan["rx"]
       /\ idChan' \in [Directions -> {"off", "busy", "end", "err"}]
       /\ idLeft' \in [Directions -> 0 .. I2cMaxLen]
  <2>1. idLeft["tx"] - 1 \in 0 .. I2cMaxLen
    <3>1. left - 1 \in 0 .. I2cMaxLen
      BY ONLY <1>5
    <3>. QED
      BY <3>1 DEF left
  <2>. QED
    BY <1>1, <1>3, <2>1, IdTyped DEF Directions
<1>11. IdTypes'
  BY <1>3, <1>10, IdTyped, IdTypesKept
<1>12. IdCounts'
  <2>1. IdIssued' = IdIssued + 1
    <3>1. /\ IdIssued = IF idJob = "reads" THEN tx + (rx - left) ELSE (tx - 1) - left
          /\ IdIssued' = IF idJob = "reads" THEN tx + (rx - (left - 1))
                         ELSE (tx - 1) - (left - 1)
      BY <1>2, <1>3, <1>10 DEF IdIssued, tx, rx, left
    <3>. QED
      BY ONLY <1>5, <3>1
  <2>2. Len(i2cWire') + Len(icTxFifo') = IdIssued'
    <3>1. /\ Len(i2cWire) \in Nat /\ Len(icTxFifo) \in Nat
          /\ Len(icTxFifo') = Len(icTxFifo) + 1 /\ i2cWire' = i2cWire
          /\ IdIssued' = IdIssued + 1
          /\ Len(i2cWire) + Len(icTxFifo) = IdIssued
      BY <1>2, <1>3, <1>4, <1>9, <2>1 DEF IdNumbers
    <3>. QED
      BY ONLY <3>1
  <2>3. Len(icTxFifo') <= FIFO_SIZE
    BY <1>1, <1>2, <1>9, I2cAssumption DEF IdNumbers
  <2>4. ReadsOnWire' = ReadsOnWire /\ Incoming' = Incoming
    BY <1>3 DEF ReadsOnWire, Incoming
  <2>. QED
    BY <1>2, <1>3, <2>2, <2>3, <2>4 DEF IdCounts, IdNumbers
<1>13. IdUnits'
  BY <1>2, <1>10 DEF I2cDmaInv, IdUnits, Directions, IdNumbers
<1>14. IdBusySound'
  <2>1. idJob = "bytes" => IdWriting'
    <3>. SUFFICES ASSUME idJob = "bytes" PROVE IdWriting'
      OBVIOUS
    <3>1. idLeft'["tx"] <= i2cTransfer.tx - 1
      <4>1. left <= tx - 1
        BY <1>6
      <4>2. left - 1 <= tx - 1
        BY ONLY <1>5, <4>1
      <4>. QED
        BY <1>10, <4>2 DEF left, tx
    <3>. QED
      BY <1>1, <1>2, <1>3, <1>10, <3>1 DEF IdBusySound, IdWriting
  <2>2. idJob = "reads" => IdReading'
    <3>. SUFFICES ASSUME idJob = "reads" PROVE IdReading'
      OBVIOUS
    <3>1. idLeft'["tx"] <= i2cTransfer.rx
      <4>1. left <= rx
        BY <1>6
      <4>2. left - 1 <= rx
        BY ONLY <1>5, <4>1
      <4>. QED
        BY <1>10, <4>2 DEF left, rx
    <3>. QED
      BY <1>1, <1>2, <1>3, <1>10, <3>1 DEF IdBusySound, IdReading
  <2>. QED
    BY <1>2, <1>3, <2>1, <2>2 DEF IdBusySound
<1>15. UNCHANGED i2cXfer
  BY <1>3, SeenOnly DEF i2cSeen
<1>16. i2cBusy' = TRUE
  BY <1>2, <1>3, IdTyped
<1>. QED
  BY <1>9, <1>11, <1>12, <1>13, <1>14, <1>15, <1>16 DEF I2cDmaInv

\* The bytes' channel is not done before that of the commands.
LEMMA IdMoveRxStep ==
  ASSUME I2cDmaInv, ~i2cUpset', IdMoveRx
  PROVE  I2cDmaInv' /\ Contract!Move
<1>1. InTime /\ idChan["rx"] = "busy" /\ icRxFlr > 0
  BY DEF IdMoveRx, ChannelMoves, Meets
<1>2. /\ i2cBusy /\ IdBusySound /\ IdNumbers /\ idPc = "none" /\ icTxAbrt = "none"
      /\ idLeft["rx"] > 0 /\ idChan["tx"] \in {"off", "busy"}
  BY <1>1, IdChannelStep DEF Directions
<1>3. idJob = "reads" /\ IdReading
  BY <1>1, <1>2, IdTyped DEF IdBusySound, IdWriting
<1>4. /\ idLeft' = [idLeft EXCEPT !["rx"] = @ - 1]
      /\ idChan' = [idChan EXCEPT !["rx"] = IF idLeft["rx"] = 1 THEN "end" ELSE @]
      /\ icRxFlr' = icRxFlr - 1 /\ i2cReadPos' = i2cReadPos + 1
      /\ UNCHANGED <<i2cTransfer, i2cReadCmdSend, icEnabled, icTxAbrt, icTxFifo,
                     icShift, i2cWire, i2cBusy, i2cOutcome, idOngoing, idError, idCr,
                     idJob, idPc, idLen, idTerm, idSaw>>
  BY DEF IdMoveRx, ChannelMoves, i2cRegs, i2cClient, idContext
<1>5. idLeft["rx"] = i2cTransfer.rx - i2cReadPos /\ i2cReadPos < i2cTransfer.rx
  BY <1>2, <1>3 DEF IdReading, IdNumbers
<1>6. idChan["tx"] = "busy" => idLeft["rx"] # 1
  <2>. SUFFICES ASSUME idChan["tx"] = "busy" PROVE idLeft["rx"] # 1
    OBVIOUS
  <2>1. idLeft["tx"] > 0
    BY DEF I2cDmaInv, IdUnits, Directions
  <2>2. Len(i2cWire) + Len(icTxFifo) = i2cTransfer.tx + (i2cTransfer.rx - idLeft["tx"])
    BY <1>2, <1>3 DEF I2cDmaInv, IdCounts, IdIssued
  <2>3. Len(i2cWire) < i2cTransfer.tx + i2cTransfer.rx
    BY <1>2, <2>1, <2>2 DEF IdNumbers
  <2>4. ReadsOnWire < i2cTransfer.rx
    BY <1>2, <1>3, <2>3 DEF IdNumbers, IdReading
  <2>. QED
    BY <1>1, <1>2, <1>5, <2>4 DEF IdNumbers
<1>7. /\ idLeft'["rx"] = idLeft["rx"] - 1 /\ idLeft'["tx"] = idLeft["tx"]
      /\ idChan'["rx"] = (IF idLeft["rx"] = 1 THEN "end" ELSE "busy")
      /\ idChan'["tx"] = idChan["tx"]
      /\ idChan' \in [Directions -> {"off", "busy", "end", "err"}]
      /\ idLeft' \in [Directions -> 0 .. I2cMaxLen]
  <2>1. idLeft["rx"] - 1 \in 0 .. I2cMaxLen
    <3>1. /\ idLeft["rx"] \in Nat /\ idLeft["rx"] > 0
          /\ idLeft["rx"] <= I2cMaxLen /\ I2cMaxLen \in Nat
      BY <1>2, IdTyped, I2cAssumption DEF IdNumbers, Directions
    <3>. QED
      BY ONLY <3>1
  <2>. QED
    BY <1>1, <1>4, <2>1, IdTyped DEF Directions
<1>8. IdTypes'
  <2>1. i2cReadPos' \in 0 .. i2cTransfer.rx /\ icRxFlr' \in Nat
    BY <1>1, <1>2, <1>4, <1>5 DEF IdNumbers
  <2>. QED
    BY <1>4, <1>7, <2>1, IdTyped, IdTypesKept
<1>9. Ordered' /\ IdCounts'
  <2>1. IdIssued' = IdIssued /\ ReadsOnWire' = ReadsOnWire /\ Incoming' = Incoming
    BY <1>4, <1>7 DEF IdIssued, ReadsOnWire, Incoming
  <2>2. i2cReadPos' + icRxFlr' + Incoming' <= ReadsOnWire'
    BY <1>1, <1>2, <1>4, <2>1 DEF IdNumbers
  <2>. QED
    BY <1>4, <2>1, <2>2 DEF I2cDmaInv, Ordered, IdCounts
<1>10. IdUnits'
  BY <1>2, <1>7 DEF I2cDmaInv, IdUnits, Directions, IdNumbers
<1>11. IdReading'
  <2>1. "tx" \in idOngoing => idChan'["rx"] = "busy"
    BY <1>2, <1>3, <1>6, <1>7 DEF IdReading
  <2>2. idLeft'["rx"] = i2cTransfer.rx - i2cReadPos'
    <3>1. i2cTransfer.rx \in Nat /\ i2cReadPos \in Nat
      BY <1>2 DEF IdNumbers
    <3>2. idLeft'["rx"] = (i2cTransfer.rx - i2cReadPos) - 1
      BY <1>5, <1>7
    <3>3. (i2cTransfer.rx - i2cReadPos) - 1 = i2cTransfer.rx - (i2cReadPos + 1)
      BY ONLY <3>1
    <3>. QED
      BY <1>4, <3>2, <3>3
  <2>. QED
    BY <1>3, <1>4, <1>7, <2>1, <2>2 DEF IdReading
<1>12. IdBusySound'
  BY <1>2, <1>3, <1>4, <1>11 DEF IdBusySound
<1>13. Contract!Move
  <2>1. I2cMoved' = I2cMoved + 1
    <3>1. I2cMoved' = Least(Len(i2cWire), i2cTransfer.tx) + (i2cReadPos + 1)
      BY <1>4 DEF I2cMoved
    <3>2. Least(Len(i2cWire), i2cTransfer.tx) \in Nat
      BY <1>2 DEF IdNumbers, Least
    <3>. QED
      BY <1>2, <3>1, <3>2 DEF I2cMoved, IdNumbers
  <2>2. I2cMoved + 1 <= i2cTransfer.tx + i2cTransfer.rx /\ I2cMoved \in Nat
    <3>1. /\ I2cMoved = Least(Len(i2cWire), i2cTransfer.tx) + i2cReadPos
          /\ Least(Len(i2cWire), i2cTransfer.tx) \in Nat
          /\ Least(Len(i2cWire), i2cTransfer.tx) <= i2cTransfer.tx
      BY <1>2 DEF I2cMoved, Least, IdNumbers
    <3>2. i2cReadPos \in Nat /\ i2cTransfer.rx \in Nat /\ i2cTransfer.tx \in Nat
      BY <1>2 DEF IdNumbers
    <3>. QED
      BY ONLY <1>5, <3>1, <3>2
  <2>. QED
    BY <1>2, <1>4, <2>1, <2>2 DEF Contract!Move, IdNumbers
<1>14. i2cBusy' = TRUE
  BY <1>2, <1>4, IdTyped
<1>. QED
  BY <1>8, <1>9, <1>10, <1>12, <1>13, <1>14 DEF I2cDmaInv

LEMMA IdBusErrorStep ==
  ASSUME I2cDmaInv, ~i2cUpset', NEW c \in Directions, IdBusError(c)
  PROVE  I2cDmaInv' /\ UNCHANGED i2cXfer
<1>1. /\ WritesBytes /\ InTime /\ idChan[c] = "busy"
      /\ idChan' = [idChan EXCEPT ![c] = "err"]
      /\ UNCHANGED <<i2cTransfer, i2cReadCmdSend, i2cReadPos, icEnabled, icTxAbrt,
                     icTxFifo, icRxFlr, icShift, i2cWire, i2cBusy, i2cOutcome, idOngoing,
                     idError, idCr, idJob, idLeft, idPc, idLen, idTerm, idSaw>>
  BY DEF IdBusError, Meets, i2cDriver, i2cRegs, i2cChip, i2cClient, idContext
<1>2. /\ i2cBusy /\ IdBusySound /\ idPc = "none" /\ icTxAbrt = "none"
  BY <1>1, IdChannelStep
<1>3. c = "tx" /\ IdWriting
  BY <1>1, <1>2 DEF WritesBytes, IdBusySound, IdWriting, Directions
<1>4. /\ idChan' \in [Directions -> {"off", "busy", "end", "err"}]
      /\ idChan'["tx"] = "err" /\ idChan'["rx"] = idChan["rx"]
  BY <1>1, <1>3, IdTyped DEF Directions
<1>5. IdTypes'
  BY <1>1, <1>4, IdTyped, IdTypesKept
<1>6. Ordered' /\ IdCounts'
  BY <1>1 DEF I2cDmaInv, Ordered, IdCounts, IdIssued, ReadsOnWire, Incoming
<1>7. IdUnits'
  BY <1>1, <1>4 DEF I2cDmaInv, IdUnits, Directions
<1>8. IdWriting'
  BY <1>1, <1>2, <1>3, <1>4 DEF IdWriting
<1>9. IdBusySound'
  BY <1>1, <1>2, <1>8 DEF WritesBytes, IdBusySound
<1>. QED
  BY <1>1, <1>2, <1>5, <1>6, <1>7, <1>9, SeenOnly DEF I2cDmaInv, i2cSeen

\* The bus takes a command, ...
LEMMA IdTakeStep ==
  ASSUME I2cDmaInv, BusTake, UNCHANGED idVars
  PROVE  I2cDmaInv' /\ [Contract!Next]_i2cXfer
<1>1. /\ icTxAbrt = "none" /\ icShift = "none" /\ icTxFifo # <<>>
      /\ UNCHANGED <<i2cTransfer, i2cReadCmdSend, i2cReadPos, icEnabled, icTxAbrt,
                     icRxFlr, i2cBusy, i2cOutcome, idOngoing, idError, idCr, idJob,
                     idChan, idLeft, idPc, idLen, idTerm, idSaw>>
  BY DEF BusTake, i2cDriver, i2cRegs, i2cClient, idVars, idContext, idChannels
<1>2. i2cBusy /\ IdBusySound /\ IdNumbers
  BY <1>1, IdRunning, IdFacts
<1>3. TransferOK /\ Ordered
  BY DEF I2cDmaInv, IdTypes
<1>4. /\ Ordered'
      /\ Len(i2cWire) \in Nat /\ Len(i2cWire') = Len(i2cWire) + 1
      /\ Len(icTxFifo') \in Nat /\ Len(icTxFifo) = Len(icTxFifo') + 1
      /\ icShift' = IF Len(i2cWire) < i2cTransfer.tx THEN "w" ELSE "r"
  BY <1>3, TakenOrdered
<1>5. IdTypes'
  BY <1>1, IdTyped, IdTypesKept
<1>6. IdCounts'
  <2>1. IdIssued' = IdIssued
    BY <1>1 DEF IdIssued
  <2>2. Len(i2cWire') + Len(icTxFifo') = IdIssued
    BY <1>1, <1>2, <1>4 DEF I2cDmaInv, IdCounts, IdNumbers
  <2>3. Len(icTxFifo') <= FIFO_SIZE
    BY <1>4, I2cAssumption DEF I2cDmaInv, IdCounts
  <2>4. Incoming = 0
    BY <1>1 DEF Incoming
  <2>5. CASE Len(i2cWire) < i2cTransfer.tx
    <3>1. icShift' = "w"
      BY <1>4, <2>5
    <3>2. Incoming' = 0
      BY <3>1 DEF Incoming
    <3>3. ReadsOnWire' >= ReadsOnWire
      BY <1>1, <1>2, <1>4 DEF ReadsOnWire, IdNumbers
    <3>4. ReadsOnWire' \in Nat
      BY <1>1, <1>2, <1>4 DEF ReadsOnWire, IdNumbers
    <3>5. i2cReadPos' + icRxFlr' + Incoming' <= ReadsOnWire'
      BY <1>1, <1>2, <2>4, <3>2, <3>3, <3>4 DEF IdNumbers
    <3>. QED
      BY <1>1, <1>2, <2>1, <2>2, <2>3, <3>5 DEF IdCounts
  <2>6. CASE ~(Len(i2cWire) < i2cTransfer.tx)
    <3>1. icShift' = "r"
      BY <1>4, <2>6
    <3>2. Incoming' = 1
      BY <3>1 DEF Incoming
    <3>3. ReadsOnWire' = ReadsOnWire + 1
      BY <1>1, <1>2, <1>4, <2>6 DEF ReadsOnWire, IdNumbers
    <3>5. i2cReadPos' + icRxFlr' + Incoming' <= ReadsOnWire'
      BY <1>1, <1>2, <2>4, <3>2, <3>3 DEF IdNumbers
    <3>. QED
      BY <1>1, <1>2, <2>1, <2>2, <2>3, <3>5 DEF IdCounts
  <2>. QED
    BY <2>5, <2>6
<1>7. IdUnits'
  BY <1>1 DEF I2cDmaInv, IdUnits
<1>8. IdBusySound'
  BY <1>1, <1>2 DEF IdBusySound, IdWriting, IdReading
<1>9. Contract!Move \/ UNCHANGED i2cXfer
  BY <1>2, <1>3, IdTyped, TakenMovesOne
<1>. QED
  BY <1>1, <1>2, <1>4, <1>5, <1>6, <1>7, <1>8, <1>9 DEF I2cDmaInv, Contract!Next

\* ... brings it to an end, ...
LEMMA IdByteStep ==
  ASSUME I2cDmaInv, BusByte, UNCHANGED idVars
  PROVE  I2cDmaInv' /\ UNCHANGED i2cXfer
<1>1. /\ icShift # "none" /\ icShift' = "none"
      /\ icRxFlr' = (IF icShift = "r" THEN icRxFlr + 1 ELSE icRxFlr)
      /\ UNCHANGED <<i2cTransfer, i2cReadCmdSend, i2cReadPos, icEnabled, icTxAbrt,
                     icTxFifo, i2cWire, i2cBusy, i2cOutcome, idOngoing, idError, idCr,
                     idJob, idChan, idLeft, idPc, idLen, idTerm, idSaw>>
  BY DEF BusByte, i2cDriver, i2cRegs, i2cClient, idVars, idContext, idChannels
<1>2. IdNumbers
  BY IdFacts
<1>3. icRxFlr' \in Nat /\ icRxFlr' + Incoming' = icRxFlr + Incoming
  BY <1>1, <1>2 DEF Incoming, IdNumbers
<1>4. IdTypes'
  BY <1>1, <1>3, IdTyped, IdTypesKept
<1>5. Ordered' /\ IdCounts'
  <2>1. IdIssued' = IdIssued /\ ReadsOnWire' = ReadsOnWire /\ Incoming' \in Nat
    BY <1>1 DEF IdIssued, ReadsOnWire, Incoming
  <2>2. i2cReadPos' + icRxFlr' + Incoming' <= ReadsOnWire'
    <3>1. /\ i2cReadPos \in Nat /\ icRxFlr \in Nat /\ ReadsOnWire \in Nat
          /\ i2cReadPos + icRxFlr + Incoming <= ReadsOnWire
          /\ i2cReadPos' = i2cReadPos /\ Incoming' = 0
      BY <1>1, <1>2 DEF IdNumbers, Incoming
    <3>2. \/ icRxFlr' = icRxFlr + 1 /\ Incoming = 1
          \/ icRxFlr' = icRxFlr /\ Incoming = 0
      BY <1>1 DEF Incoming
    <3>. QED
      BY <2>1, <3>1, <3>2
  <2>. QED
    BY <1>1, <2>1, <2>2 DEF I2cDmaInv, Ordered, IdCounts
<1>6. IdUnits'
  BY <1>1 DEF I2cDmaInv, IdUnits
<1>7. i2cBusy => IdBusySound'
  BY <1>1 DEF I2cDmaInv, IdBusySound, IdWriting, IdReading
<1>8. ~i2cBusy => IdQuiet'
  BY <1>1 DEF I2cDmaInv, IdQuiet
<1>. QED
  BY <1>1, <1>4, <1>5, <1>6, <1>7, <1>8, SeenOnly DEF I2cDmaInv, i2cSeen

\* ... or has it refused.
LEMMA IdNackStep ==
  ASSUME I2cDmaInv, InTime, WritesBytes, BusNack, UNCHANGED idVars
  PROVE  I2cDmaInv' /\ UNCHANGED i2cXfer
<1>1. /\ idJob = "bytes" /\ idChan["tx"] = "busy"
      /\ icShift' = "none" /\ icTxFifo' = <<>> /\ icTxAbrt' = "nack"
      /\ UNCHANGED <<i2cTransfer, i2cReadCmdSend, i2cReadPos, icEnabled, icRxFlr,
                     i2cWire, i2cBusy, i2cOutcome, idOngoing, idError, idCr,
                     idJob, idChan, idLeft, idPc, idLen, idTerm, idSaw>>
  BY DEF WritesBytes, BusNack, i2cDriver, i2cClient, idVars, idContext, idChannels
<1>2. i2cBusy /\ IdBusySound /\ IdNumbers /\ idPc = "none"
  BY <1>1, IdChannelStep DEF Directions
<1>3. IdTypes'
  BY <1>1, IdTyped, IdTypesKept
<1>4. Ordered' /\ Len(icTxFifo') = 0
  BY <1>1, IdEmptied DEF I2cDmaInv, IdTypes
<1>5. IdCounts'
  <2>1. ReadsOnWire' = ReadsOnWire /\ Incoming' = 0
    BY <1>1 DEF ReadsOnWire, Incoming
  <2>2. i2cReadPos + icRxFlr + 0 <= ReadsOnWire
    BY <1>2 DEF IdNumbers
  <2>. QED
    BY <1>1, <1>4, <2>1, <2>2, I2cAssumption DEF IdCounts
<1>6. IdUnits'
  BY <1>1 DEF I2cDmaInv, IdUnits
<1>7. IdWriting'
  BY <1>1, <1>2 DEF IdBusySound, IdWriting
<1>8. IdBusySound'
  BY <1>1, <1>2, <1>7 DEF IdBusySound
<1>. QED
  BY <1>1, <1>2, <1>3, <1>4, <1>5, <1>6, <1>8, SeenOnly DEF I2cDmaInv, i2cSeen

LEMMA IdStutter ==
  ASSUME I2cDmaInv, UNCHANGED i2cDmaVars
  PROVE  I2cDmaInv' /\ UNCHANGED i2cXfer
<1>1. UNCHANGED <<i2cTransfer, i2cReadCmdSend, i2cReadPos, icEnabled, icTxAbrt,
                  icTxFifo, icRxFlr, icShift, i2cWire, i2cBusy, i2cOutcome, idOngoing,
                  idError, idCr, idJob, idChan, idLeft, idPc, idLen, idTerm, idSaw>>
  BY DEF i2cDmaVars, i2cVars, i2cDriver, i2cRegs, i2cChip, i2cClient, idVars, idContext,
     idChannels
<1>2. IdTypes'
  BY <1>1, IdTyped, IdTypesKept
<1>3. Ordered' /\ IdCounts' /\ IdUnits'
  BY <1>1 DEF I2cDmaInv, Ordered, IdCounts, IdIssued, ReadsOnWire, Incoming, IdUnits
<1>4. (i2cBusy => IdBusySound') /\ (~i2cBusy => IdQuiet')
  BY <1>1 DEF I2cDmaInv, IdBusySound, IdWriting, IdReading, IdQuiet
<1>. QED
  BY <1>1, <1>2, <1>3, <1>4, SeenOnly DEF I2cDmaInv, i2cSeen

LEMMA IdFrameKeeps ==
  ASSUME IdFrame, [I2cDmaNext]_i2cDmaVars
  PROVE  IdFrame'
<1>1. icAbort' = FALSE
  BY DEF IdFrame, I2cDmaNext, IdStart, IdTerminate, IdHandler, IdLook, IdStopChannel,
     IdChannelEnd, IdChannelError, IdLast, IdDrain, IdAbort, ChannelCallback,
     TransmitCallback, ReceiveCallback, DmaErrorCallback, DisableOnStop,
     ControllerDisable, IdMove, IdMoveTx, IdMoveRx, ChannelMoves, IdBusError, IdBus,
     BusTake, BusByte, BusNack, i2cDmaVars, i2cVars, i2cRegs
<1>2. idSaw' \in BOOLEAN
  BY DEF IdFrame, I2cDmaNext, IdStart, IdTerminate, IdHandler, IdLook, IdStopChannel,
     IdChannelEnd, IdChannelError, IdLast, IdDrain, IdAbort, IdMove, IdMoveTx, IdMoveRx,
     ChannelMoves, IdBusError, IdBus, i2cDmaVars, idVars
<1>3. i2cUpset' \in BOOLEAN
  BY DEF IdFrame, I2cDmaNext, IdStart, IdTerminate, IdHandler, IdLook, IdStopChannel,
     IdChannelEnd, IdChannelError, IdLast, IdDrain, IdAbort, IdMove, IdMoveTx, IdMoveRx,
     ChannelMoves, IdBusError, IdBus, Meets, i2cDmaVars, i2cVars
<1>. QED
  BY <1>1, <1>2, <1>3 DEF IdFrame

\* Only a start may end what a mishap has begun.
LEMMA IdStaysUpset ==
  ASSUME [I2cDmaNext]_i2cDmaVars, i2cUpset, ~\E x \in I2cTransfers : IdStart(x)
  PROVE  i2cUpset'
  BY DEF I2cDmaNext, IdTerminate, IdHandler, IdLook, IdStopChannel, IdChannelEnd,
     IdChannelError, IdLast, IdDrain, IdAbort, IdMove, IdMoveTx, IdMoveRx, ChannelMoves,
     IdBusError, IdBus, Meets, i2cDmaVars, i2cVars

LEMMA I2cDmaStep ==
  ASSUME I2cDmaSafe, [I2cDmaNext]_i2cDmaVars, ~i2cUpset'
  PROVE  I2cDmaInv' /\ [Contract!Next]_i2cXfer
<1>1. CASE \E x \in I2cTransfers : IdStart(x)
  BY <1>1, IdStartStep DEF I2cDmaSafe, Contract!Next
<1>. SUFFICES ASSUME I2cDmaInv, ~\E x \in I2cTransfers : IdStart(x)
              PROVE  I2cDmaInv' /\ [Contract!Next]_i2cXfer
  BY <1>1, IdStaysUpset DEF I2cDmaSafe
<1>2. CASE IdTerminate
  BY <1>2, IdTerminateStep
<1>3. CASE IdHandler
  <2>1. CASE IdLook
    BY <2>1, IdTerminateStep
  <2>2. CASE IdStopChannel
    BY <2>2, IdStopChannelStep
  <2>3. ASSUME NEW c \in Directions, IdChannelEnd(c)
        PROVE  I2cDmaInv' /\ [Contract!Next]_i2cXfer
    BY <2>3, IdChannelEndStep
  <2>4. ASSUME NEW c \in Directions, IdChannelError(c)
        PROVE  I2cDmaInv' /\ [Contract!Next]_i2cXfer
    BY <2>4, IdChannelErrorStep DEF Contract!Next
  <2>5. CASE IdLast
    BY <2>5, IdLastStep
  <2>6. CASE IdDrain
    BY <2>6, IdDrainStep DEF Contract!Next
  <2>7. CASE IdAbort
    BY <2>7, IdAbortStep DEF Contract!Next
  <2>. QED
    BY <1>3, <2>1, <2>2, <2>3, <2>4, <2>5, <2>6, <2>7 DEF IdHandler
<1>4. CASE IdMove
  <2>1. CASE IdMoveTx
    BY <2>1, IdMoveTxStep
  <2>2. CASE IdMoveRx
    BY <2>2, IdMoveRxStep DEF Contract!Next
  <2>. QED
    BY <1>4, <2>1, <2>2 DEF IdMove
<1>5. ASSUME NEW c \in Directions, IdBusError(c)
      PROVE  I2cDmaInv' /\ [Contract!Next]_i2cXfer
  BY <1>5, IdBusErrorStep
<1>6. CASE IdBus
  BY <1>6, IdTakeStep, IdByteStep, IdNackStep DEF IdBus, Meets
<1>7. CASE UNCHANGED i2cDmaVars
  BY <1>7, IdStutter
<1>. QED
  BY <1>2, <1>3, <1>4, <1>5, <1>6, <1>7 DEF I2cDmaNext

LEMMA I2cDmaSafeStep ==
  ASSUME I2cDmaSafe, [I2cDmaNext]_i2cDmaVars
  PROVE  I2cDmaSafe' /\ [Contract!Next]_i2cXfer
<1>1. IdFrame'
  BY IdFrameKeeps DEF I2cDmaSafe
<1>2. CASE i2cUpset'
  BY <1>1, <1>2 DEF I2cDmaSafe, Contract!Next
<1>3. CASE ~i2cUpset'
  BY <1>1, <1>3, I2cDmaStep DEF I2cDmaSafe
<1>. QED
  BY <1>2, <1>3

\* The DMA transfers keep their invariant, from a start on a controller left
\* clean until a handler is late, a client terminates what the driver cannot
\* terminate, or a refusal or an error of the DMA's bus meets anything but the
\* bytes of a write.
THEOREM I2cDmaInvariance == I2cDmaSpec => []I2cDmaSafe
<1>1. I2cDmaSafe /\ [I2cDmaNext]_i2cDmaVars => I2cDmaSafe'
  BY I2cDmaSafeStep
<1>. QED
  BY <1>1, I2cDmaInitInv, PTL DEF I2cDmaSpec

\* Until such a mishap no byte of a DMA transfer is skipped or repeated between
\* the channel and the callback that writes the last one, and the STOP is on the
\* very last command.
THEOREM I2cDmaBusInOrder == I2cDmaSpec => []BusInOrder
<1>1. I2cDmaSafe => BusInOrder
  BY OrderedSeen DEF I2cDmaSafe, I2cDmaInv, IdTypes, BusInOrder
<1>. QED
  BY <1>1, I2cDmaInvariance, PTL

\* Until such a mishap a DMA transfer calls its client back once, whichever of
\* the channels, a refused byte of a write and the termination of a read with
\* STOP comes first, and "done" only after every byte has moved.
THEOREM I2cDmaImplementsTransfer == I2cDmaSpec => I2cImplements
<1>1. I2cDmaSafe /\ [I2cDmaNext]_i2cDmaVars => [Contract!Next]_i2cXfer
  BY I2cDmaSafeStep
<1>. QED
  BY <1>1, I2cInitRefines, I2cDmaInvariance, PTL DEF I2cDmaSpec, I2cImplements,
     Contract!Spec, Contract!xfer, i2cXfer
=============================================================================
