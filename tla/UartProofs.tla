------------------------------ MODULE UartProofs ------------------------------
(***************************************************************************)
(* A write and a read of the UART driver each keep the contract of         *)
(* Transfer, for any depth of the FIFOs and any lengths, whether or not    *)
(* they overlap.  The inductive invariant says that every byte of a write  *)
(* is in the FIFO or has left it, and that the threshold is zero once the  *)
(* last one is in, unless a read has set it back; a write that finds bytes *)
(* in the FIFO follows one that met such a read.  The polling functions    *)
(* keep the contract too, with an invariant of their own.                  *)
(***************************************************************************)
EXTENDS UartPolled, TLAPS

UartNumbersOK ==
  /\ uartWrite \in Nat /\ uartWrite \in UartWriteLens \cup {0}
  /\ uartWritePos \in 0 .. uartWrite
  /\ uartTxDma \in {"off", "run", "delayed"}
  /\ uartTxTl \in {0, UART_FIFO_HALF_DEPTH}
  /\ uartTxFifo \in 0 .. UART_FIFO_DEPTH /\ uartRxFifo \in 0 .. UART_FIFO_DEPTH
  /\ uartSent \in Nat /\ uartMet \in {"none", "read", "broken"}
  /\ uartRead \in Nat /\ uartRead \in UartReadLens \cup {0}
  /\ uartReadPos \in 0 .. uartRead
  /\ {uartWrote, uartGot} \subseteq {"none", "done", "failed"}

UartFlagsOK ==
  /\ uartEtbei \in BOOLEAN /\ uartTxShift \in BOOLEAN /\ uartScr \in BOOLEAN
  /\ uartWriting \in BOOLEAN /\ uartRxDma \in BOOLEAN /\ uartErbfi \in BOOLEAN
  /\ uartTimeout \in BOOLEAN /\ uartLineErr \in BOOLEAN /\ uartReading \in BOOLEAN

AllWritten ==
  uartTxDma = "delayed" \/ (uartTxDma = "off" /\ uartWritePos = uartWrite)

\* The bytes of a write under way are in the FIFO or have left it, and while the
\* last threshold is set, or was until a read set it back, no more are put in.
WriteSound ==
  uartWriting =>
    /\ uartMet # "broken" => uartSent + uartTxFifo = uartWritePos
    /\ uartMet = "none" /\ AllWritten => uartTxTl = 0
    /\ (uartMet = "none" /\ uartTxTl = 0) \/ uartMet = "read" => AllWritten
    /\ uartTxDma = "off" => uartEtbei
    /\ uartTxDma = "run" => uartWritePos < uartWrite
    /\ uartWrote = "none"

\* Without one the transmit interrupt and the DMA are off, and the scratchpad
\* claims an empty FIFO only when it is, or a read has set the threshold back.
NoWriteSound ==
  /\ ~uartWriting => ~uartEtbei /\ uartTxDma = "off"
  /\ uartScr => ~uartWriting
  /\ uartScr /\ uartMet = "none" => uartTxFifo = 0

ReadSound ==
  /\ uartErbfi => uartReading /\ ~uartRxDma
  /\ uartReading => uartReadPos < uartRead /\ uartGot = "none"

UartInv ==
  /\ UartNumbersOK /\ UartFlagsOK
  /\ WriteSound /\ NoWriteSound /\ ReadSound

LEMMA UartInitInv == UartInit => UartInv
<1>. SUFFICES ASSUME UartInit PROVE UartInv
  OBVIOUS
<1>1. UartNumbersOK
  BY UartAssumption DEF UartInit, UartNumbersOK
<1>2. UartFlagsOK
  BY DEF UartInit, UartFlagsOK
<1>. QED
  BY <1>1, <1>2 DEF UartInit, UartInv, WriteSound, AllWritten, NoWriteSound, ReadSound

LEMMA StartWriteKeeps ==
  ASSUME UartInv, NEW n \in UartWriteLens, NEW dma \in BOOLEAN, StartWrite(n, dma)
  PROVE  UartInv'
<1>1. UartFlagsOK'
  BY DEF UartInv, UartFlagsOK, StartWrite, uartRx
<1>2. UartNumbersOK'
  BY UartAssumption DEF UartInv, UartNumbersOK, StartWrite, uartRx
<1>3. WriteSound'
  BY UartAssumption DEF UartInv, WriteSound, AllWritten, NoWriteSound, StartWrite, TxIdle
<1>4. NoWriteSound'
  BY DEF NoWriteSound, StartWrite, uartRx
<1>5. ReadSound'
  BY DEF UartInv, ReadSound, StartWrite, uartRx
<1>. QED
  BY <1>1, <1>2, <1>3, <1>4, <1>5 DEF UartInv

LEMMA StartReadKeeps ==
  ASSUME UartInv, NEW n \in UartReadLens, NEW dma \in BOOLEAN, StartRead(n, dma)
  PROVE  UartInv'
<1>1. UartFlagsOK'
  BY DEF UartInv, UartFlagsOK, StartRead
<1>2. UartNumbersOK'
  BY UartAssumption DEF UartInv, UartNumbersOK, StartRead
<1>3. WriteSound'
  BY UartAssumption DEF UartInv, UartNumbersOK, WriteSound, AllWritten, StartRead,
     LastTxTl
<1>4. NoWriteSound'
  <2>1. /\ UNCHANGED <<uartWriting, uartEtbei, uartTxDma, uartScr, uartTxFifo>>
        /\ uartMet' = "none" => uartMet = "none"
    BY DEF StartRead
  <2>. QED
    BY <2>1 DEF UartInv, NoWriteSound
<1>5. ReadSound'
  <2>1. ~uartErbfi
    BY DEF UartInv, ReadSound, StartRead
  <2>2. /\ uartErbfi' => ~dma
        /\ uartReading' /\ uartGot' = "none" /\ uartRxDma' = dma
        /\ uartReadPos' = 0 /\ uartRead' = n
    BY <2>1 DEF StartRead
  <2>3. 0 < n
    BY UartAssumption
  <2>. QED
    BY <2>2, <2>3 DEF ReadSound
<1>. QED
  BY <1>1, <1>2, <1>3, <1>4, <1>5 DEF UartInv

LEMMA ArriveKeeps ==
  ASSUME UartInv, NEW err \in BOOLEAN, Arrive(err)
  PROVE  UartInv'
<1>1. UartFlagsOK'
  BY DEF UartInv, UartFlagsOK, Arrive, uartTx
<1>2. UartNumbersOK'
  BY DEF UartInv, UartNumbersOK, Arrive, uartTx, UartLeast
<1>3. WriteSound'
  BY DEF UartInv, WriteSound, AllWritten, Arrive, uartTx
<1>4. NoWriteSound'
  BY DEF UartInv, NoWriteSound, Arrive, uartTx
<1>5. ReadSound'
  BY DEF UartInv, ReadSound, Arrive
<1>. QED
  BY <1>1, <1>2, <1>3, <1>4, <1>5 DEF UartInv

LEMMA TerminateWriteKeeps ==
  ASSUME UartInv, TerminateWrite
  PROVE  UartInv'
<1>1. UartFlagsOK'
  BY DEF UartInv, UartFlagsOK, TerminateWrite, WriteReport, uartRx
<1>2. UartNumbersOK'
  BY DEF UartInv, UartNumbersOK, TerminateWrite, uartRx, WriteReport
<1>3. WriteSound'
  BY DEF WriteSound, AllWritten, TerminateWrite, WriteReport
<1>4. NoWriteSound'
  BY DEF UartInv, NoWriteSound, TerminateWrite, WriteReport
<1>5. ReadSound'
  BY DEF UartInv, ReadSound, TerminateWrite, uartRx
<1>. QED
  BY <1>1, <1>2, <1>3, <1>4, <1>5 DEF UartInv

LEMMA ThrEmptyKeeps ==
  ASSUME UartInv, ThrEmpty
  PROVE  UartInv'
<1>1. uartEtbei /\ uartWriting /\ uartTxFifo <= uartTxTl
  BY DEF ThrEmpty, ThrPending, UartInv, NoWriteSound
<1>2. UartNumbersOK /\ WriteSound /\ NoWriteSound /\ ReadSound
  BY <1>1 DEF UartInv
<1>3. UNCHANGED <<uartWrite, uartTxShift, uartSent, uartMet, uartRx>>
  BY DEF ThrEmpty
<1>4. UartFlagsOK'
  BY DEF UartInv, UartFlagsOK, ThrEmpty, WriteReport, uartRx
<1>5. CASE uartTxDma = "delayed" \/ (uartTxDma = "off" /\ uartWritePos >= uartWrite)
  <2>1. ~uartEtbei' /\ ~uartWriting' /\ uartTxDma' = "off"
        /\ UNCHANGED <<uartWritePos, uartTxFifo, uartTxTl>>
        /\ uartWrote' \in {"done", "failed"}
    BY <1>1, <1>5 DEF ThrEmpty, WriteReport
  <2>2. uartMet = "none" => uartTxFifo = 0
    BY <1>1, <1>2, <1>5 DEF UartNumbersOK, WriteSound, AllWritten
  <2>3. UartNumbersOK'
    BY <1>2, <1>3, <2>1 DEF UartNumbersOK, uartRx
  <2>. QED
    BY <1>3, <1>4, <2>1, <2>2, <2>3 DEF UartInv, WriteSound, AllWritten, NoWriteSound,
       ReadSound, uartRx
<1>6. CASE ~(uartTxDma = "delayed" \/ (uartTxDma = "off" /\ uartWritePos >= uartWrite))
  <2>1. /\ uartTxDma = "off" /\ PushTx(WriteCount)
        /\ uartWritePos' = uartWritePos + WriteCount
        /\ uartTxTl' = IF uartWritePos + WriteCount >= uartWrite THEN LastTxTl ELSE uartTxTl
        /\ UNCHANGED <<uartEtbei, uartScr, uartTxDma, uartWriting, uartWrote>>
    BY <1>6 DEF ThrEmpty
  <2>2. /\ WriteCount \in Nat /\ uartWritePos + WriteCount <= uartWrite
        /\ uartMet # "broken" => uartTxFifo + WriteCount <= UART_FIFO_DEPTH
    BY <1>1, <1>2, UartAssumption DEF UartNumbersOK, WriteSound, AllWritten, WriteCount,
       UartLeast
  <2>3. /\ uartTxFifo' \in 0 .. UART_FIFO_DEPTH
        /\ uartMet # "broken" => uartTxFifo' = uartTxFifo + WriteCount
    BY <1>2, <2>1, <2>2, UartAssumption DEF UartNumbersOK, PushTx, UartLeast
  <2>4. UartNumbersOK'
    BY <1>2, <1>3, <2>1, <2>2, <2>3 DEF UartNumbersOK, LastTxTl, uartRx
  <2>5. WriteSound'
    <3>1. /\ uartTxDma = "off" /\ uartWritePos # uartWrite /\ uartMet # "read"
          /\ uartWrote = "none" /\ uartEtbei
          /\ uartMet # "broken" => uartSent + uartTxFifo = uartWritePos
          /\ uartMet = "none" => uartTxTl # 0
      BY <1>1, <1>2, <1>6, <2>1 DEF UartNumbersOK, WriteSound, AllWritten
    <3>2. UNCHANGED <<uartWrite, uartTxDma, uartSent, uartMet, uartWrote, uartEtbei>>
      BY <1>3, <2>1
    <3>3. /\ WriteCount \in Nat /\ uartWritePos \in Nat /\ uartWrite \in Nat
          /\ uartSent \in Nat /\ uartTxFifo \in Nat
          /\ uartWritePos + WriteCount <= uartWrite
      BY <1>2, <2>2 DEF UartNumbersOK
    <3>4. uartMet # "broken" => uartSent + uartTxFifo' = uartWritePos'
      <4>. SUFFICES ASSUME uartMet # "broken"
                    PROVE  uartSent + (uartTxFifo + WriteCount) = uartWritePos + WriteCount
        BY <2>1, <2>3
      <4>1. uartSent + uartTxFifo = uartWritePos
        BY <3>1
      <4>. QED
        BY ONLY <3>3, <4>1
    <3>. DEFINE pos == uartWritePos + WriteCount
    <3>5. pos \in Nat /\ pos <= uartWrite /\ uartWritePos' = pos
          /\ uartTxTl' = IF pos >= uartWrite THEN 0 ELSE uartTxTl
      BY <2>1, <3>3 DEF LastTxTl
    <3>. HIDE DEF pos
    <3>6. AllWritten' <=> pos = uartWrite
      BY <3>1, <3>2, <3>5 DEF AllWritten
    <3>7. /\ uartMet = "none" /\ AllWritten' => uartTxTl' = 0
          /\ uartMet = "none" /\ uartTxTl' = 0 => AllWritten'
      BY <3>1, <3>3, <3>5, <3>6
    <3>. QED
      BY <3>1, <3>2, <3>4, <3>7 DEF WriteSound
  <2>. QED
    BY <1>1, <1>3, <1>4, <2>1, <2>4, <2>5 DEF UartInv, NoWriteSound,
       ReadSound, uartRx
<1>. QED
  BY <1>5, <1>6

LEMMA DmaWriteKeeps ==
  ASSUME UartInv, DmaWrite
  PROVE  UartInv'
<1>1. UartFlagsOK'
  BY DEF UartInv, UartFlagsOK, DmaWrite, uartRx
<1>2. UartNumbersOK'
  BY DEF UartInv, UartNumbersOK, WriteSound, AllWritten, NoWriteSound, DmaWrite, uartRx,
     UartLeast, PushTx, LastTxTl
<1>3. WriteSound'
  BY UartAssumption DEF UartInv, UartNumbersOK, WriteSound, AllWritten, DmaWrite,
     UartLeast, PushTx, LastTxTl
<1>4. NoWriteSound'
  BY DEF UartInv, NoWriteSound, DmaWrite, uartRx
<1>5. ReadSound'
  BY DEF UartInv, ReadSound, DmaWrite, uartRx
<1>. QED
  BY <1>1, <1>2, <1>3, <1>4, <1>5 DEF UartInv

LEMMA DmaWriteStoppedKeeps ==
  ASSUME UartInv, DmaWriteStopped
  PROVE  UartInv'
<1>1. UartFlagsOK'
  BY DEF UartInv, UartFlagsOK, DmaWriteStopped, uartRx
<1>2. UartNumbersOK'
  BY DEF UartInv, UartNumbersOK, DmaWriteStopped, uartRx, LastTxTl
<1>3. WriteSound'
  BY DEF UartInv, WriteSound, AllWritten, DmaWriteStopped, LastTxTl
<1>4. NoWriteSound'
  BY DEF UartInv, NoWriteSound, DmaWriteStopped, uartRx
<1>5. ReadSound'
  BY DEF UartInv, ReadSound, DmaWriteStopped, uartRx
<1>. QED
  BY <1>1, <1>2, <1>3, <1>4, <1>5 DEF UartInv

LEMMA ShiftLoadKeeps ==
  ASSUME UartInv, ShiftLoad
  PROVE  UartInv'
<1>1. UartFlagsOK'
  BY DEF UartInv, UartFlagsOK, ShiftLoad, uartRx
<1>2. UartNumbersOK'
  BY UartAssumption DEF UartInv, UartNumbersOK, WriteSound, AllWritten, ShiftLoad, uartRx
<1>3. WriteSound'
  BY DEF UartInv, UartNumbersOK, WriteSound, AllWritten, ShiftLoad
<1>4. NoWriteSound'
  BY DEF UartInv, NoWriteSound, ShiftLoad, uartRx
<1>5. ReadSound'
  BY DEF UartInv, ReadSound, ShiftLoad, uartRx
<1>. QED
  BY <1>1, <1>2, <1>3, <1>4, <1>5 DEF UartInv

LEMMA ShiftOutKeeps ==
  ASSUME UartInv, ShiftOut
  PROVE  UartInv'
<1>1. UartFlagsOK'
  BY DEF UartInv, UartFlagsOK, ShiftOut, uartRx
<1>2. UartNumbersOK'
  BY DEF UartInv, UartNumbersOK, ShiftOut, uartRx
<1>3. WriteSound'
  BY DEF UartInv, WriteSound, AllWritten, ShiftOut
<1>4. NoWriteSound'
  BY DEF UartInv, NoWriteSound, ShiftOut, uartRx
<1>5. ReadSound'
  BY DEF UartInv, ReadSound, ShiftOut, uartRx
<1>. QED
  BY <1>1, <1>2, <1>3, <1>4, <1>5 DEF UartInv

LEMMA TerminateReadKeeps ==
  ASSUME UartInv, TerminateRead
  PROVE  UartInv'
<1>1. UartFlagsOK'
  BY DEF UartInv, UartFlagsOK, TerminateRead, ReadReport, uartTx
<1>2. UartNumbersOK'
  BY DEF UartInv, UartNumbersOK, TerminateRead, uartTx, ReadReport
<1>3. WriteSound'
  BY DEF UartInv, WriteSound, AllWritten, TerminateRead, uartTx
<1>4. NoWriteSound'
  BY DEF UartInv, NoWriteSound, TerminateRead, uartTx
<1>5. ReadSound'
  BY DEF UartInv, ReadSound, TerminateRead, ReadReport
<1>. QED
  BY <1>1, <1>2, <1>3, <1>4, <1>5 DEF UartInv

LEMMA LineStatusKeeps ==
  ASSUME UartInv, LineStatus
  PROVE  UartInv'
<1>1. UartFlagsOK'
  BY DEF UartInv, UartFlagsOK, LineStatus, uartTx
<1>2. UartNumbersOK'
  BY DEF UartInv, UartNumbersOK, LineStatus, uartTx
<1>3. WriteSound'
  BY DEF UartInv, WriteSound, AllWritten, LineStatus, uartTx
<1>4. NoWriteSound'
  BY DEF UartInv, NoWriteSound, LineStatus, uartTx
<1>5. ReadSound'
  BY DEF UartInv, ReadSound, LineStatus
<1>. QED
  BY <1>1, <1>2, <1>3, <1>4, <1>5 DEF UartInv

LEMMA DataAvailableKeeps ==
  ASSUME UartInv, DataAvailable
  PROVE  UartInv'
<1>. DEFINE n == UartLeast(uartRxFifo, uartRead - uartReadPos)
<1>1. uartErbfi /\ uartReading /\ ~uartRxDma /\ uartGot = "none"
  BY DEF DataAvailable, DataPending, UartInv, ReadSound
<1>2. UartNumbersOK /\ WriteSound /\ NoWriteSound
  BY <1>1 DEF UartInv
<1>3. n \in Nat /\ n <= uartRxFifo /\ uartReadPos + n \in 0 .. uartRead
  BY <1>2 DEF UartNumbersOK, UartLeast
<1>4. /\ uartReadPos' = uartReadPos + n /\ uartRxFifo' = uartRxFifo - n
      /\ IF uartReadPos + n >= uartRead
         THEN uartErbfi' = FALSE /\ ReadReport("done")
         ELSE UNCHANGED <<uartErbfi, uartReading, uartGot>>
      /\ UNCHANGED <<uartRead, uartRxDma, uartTx>>
  BY DEF DataAvailable
<1>. HIDE DEF n
<1>5. UartFlagsOK'
  BY DEF UartInv, UartFlagsOK, DataAvailable, ReadReport, uartTx
<1>6. uartGot' \in {"none", "done"}
  BY <1>1, <1>4 DEF ReadReport
<1>7. UartNumbersOK'
  BY <1>2, <1>3, <1>4, <1>6, UartAssumption DEF UartNumbersOK, uartTx
<1>8. ReadSound'
  <2>1. CASE uartReadPos + n >= uartRead
    BY <1>4, <2>1 DEF ReadSound, ReadReport
  <2>2. CASE ~(uartReadPos + n >= uartRead)
    BY <1>1, <1>2, <1>4, <2>2 DEF UartNumbersOK, ReadSound
  <2>. QED
    BY <2>1, <2>2
<1>. QED
  BY <1>2, <1>4, <1>5, <1>7, <1>8 DEF UartInv, WriteSound, AllWritten, NoWriteSound,
     uartTx

LEMMA DmaReadKeeps ==
  ASSUME UartInv, DmaRead
  PROVE  UartInv'
<1>1. /\ uartReading /\ uartRxDma /\ ~uartErbfi /\ uartGot = "none"
      /\ uartReadPos < uartRead /\ uartRxFifo > 0
  BY DEF DmaRead, UartInv, ReadSound
<1>2. UartNumbersOK /\ WriteSound /\ NoWriteSound
  BY <1>1 DEF UartInv
<1>3. /\ uartRxFifo' = uartRxFifo - 1 /\ uartReadPos' = uartReadPos + 1
      /\ IF uartReadPos + 1 = uartRead
         THEN ReadReport("done")
         ELSE UNCHANGED <<uartReading, uartGot>>
      /\ UNCHANGED <<uartRead, uartRxDma, uartErbfi, uartTx>>
  BY DEF DmaRead
<1>4. UartFlagsOK'
  BY DEF UartInv, UartFlagsOK, DmaRead, ReadReport, uartTx
<1>5. uartGot' \in {"none", "done"}
  BY <1>1, <1>3 DEF ReadReport
<1>6. UartNumbersOK'
  BY <1>1, <1>2, <1>3, <1>5, UartAssumption DEF UartNumbersOK, uartTx
<1>7. ReadSound'
  <2>1. CASE uartReadPos + 1 = uartRead
    BY <1>1, <1>3, <2>1 DEF ReadSound, ReadReport
  <2>2. CASE uartReadPos + 1 # uartRead
    BY <1>1, <1>2, <1>3, <2>2 DEF UartNumbersOK, ReadSound
  <2>. QED
    BY <2>1, <2>2
<1>. QED
  BY <1>2, <1>3, <1>4, <1>6, <1>7 DEF UartInv, WriteSound, AllWritten, NoWriteSound,
     uartTx

LEMMA CharTimeoutKeeps ==
  ASSUME UartInv, CharTimeout
  PROVE  UartInv'
<1>1. UartFlagsOK'
  BY DEF UartInv, UartFlagsOK, CharTimeout, uartTx
<1>2. UartNumbersOK'
  BY DEF UartInv, UartNumbersOK, CharTimeout, uartTx
<1>3. WriteSound'
  BY DEF UartInv, WriteSound, AllWritten, CharTimeout, uartTx
<1>4. NoWriteSound'
  BY DEF UartInv, NoWriteSound, CharTimeout, uartTx
<1>5. ReadSound'
  BY DEF UartInv, ReadSound, CharTimeout
<1>. QED
  BY <1>1, <1>2, <1>3, <1>4, <1>5 DEF UartInv

LEMMA UartStepKeeps ==
  ASSUME UartInv, [UartNext]_uartVars
  PROVE  UartInv'
<1>1. CASE UNCHANGED uartVars
  BY <1>1 DEF UartInv, UartNumbersOK, UartFlagsOK, WriteSound, AllWritten, NoWriteSound,
     ReadSound, uartVars, uartTx, uartRx
<1>2. CASE UartNext
  BY <1>2, StartWriteKeeps, StartReadKeeps, ArriveKeeps, TerminateWriteKeeps,
     ThrEmptyKeeps, DmaWriteKeeps, DmaWriteStoppedKeeps, ShiftLoadKeeps,
     ShiftOutKeeps, TerminateReadKeeps, LineStatusKeeps, DataAvailableKeeps,
     DmaReadKeeps, CharTimeoutKeeps DEF UartNext
<1>. QED
  BY <1>1, <1>2

\* The inductive invariant of qm_uart.c, through reads and writes in any order.
THEOREM UartInvariance == UartSpec => []UartInv
<1>1. UartInv /\ [UartNext]_uartVars => UartInv'
  BY UartStepKeeps
<1>. QED
  BY <1>1, UartInitInv, PTL DEF UartSpec

-----------------------------------------------------------------------------

uartWriteXfer == <<uartWriting, uartWrite, uartSent, uartWrote>>
uartReadXfer == <<uartReading, uartRead, uartReadPos, uartGot>>

LEMMA StartWriteRefines ==
  ASSUME UartInv, NEW n \in UartWriteLens, NEW dma \in BOOLEAN, StartWrite(n, dma)
  PROVE  [WriteContract!Next]_uartWriteXfer /\ UNCHANGED uartReadXfer
<1>1. [WriteContract!Next]_uartWriteXfer
  BY UartAssumption DEF StartWrite, WriteContract!Next, WriteContract!Start
<1>2. UNCHANGED uartReadXfer
  BY DEF StartWrite, uartReadXfer, uartRx
<1>. QED
  BY <1>1, <1>2

LEMMA StartReadRefines ==
  ASSUME UartInv, NEW n \in UartReadLens, NEW dma \in BOOLEAN, StartRead(n, dma)
  PROVE  UNCHANGED uartWriteXfer /\ [ReadContract!Next]_uartReadXfer
<1>1. UNCHANGED uartWriteXfer
  BY DEF StartRead, uartWriteXfer
<1>2. [ReadContract!Next]_uartReadXfer
  BY UartAssumption DEF StartRead, ReadContract!Next, ReadContract!Start
<1>. QED
  BY <1>1, <1>2

LEMMA ArriveRefines ==
  ASSUME UartInv, NEW err \in BOOLEAN, Arrive(err)
  PROVE  UNCHANGED uartWriteXfer /\ UNCHANGED uartReadXfer
<1>1. UNCHANGED uartWriteXfer
  BY DEF Arrive, uartWriteXfer, uartTx
<1>2. UNCHANGED uartReadXfer
  BY DEF Arrive, uartReadXfer
<1>. QED
  BY <1>1, <1>2

LEMMA TerminateWriteRefines ==
  ASSUME UartInv, TerminateWrite
  PROVE  [WriteContract!Next]_uartWriteXfer /\ UNCHANGED uartReadXfer
<1>4. UNCHANGED uartReadXfer
  BY DEF TerminateWrite, uartReadXfer, uartRx
<1>1. CASE uartWriting /\ uartMet # "broken"
  <2>1. uartSent \in Nat /\ uartSent <= uartWrite
    BY <1>1 DEF UartInv, UartNumbersOK, WriteSound
  <2>2. WriteContract!Report
    BY <1>1, <2>1 DEF UartInv, UartNumbersOK, TerminateWrite, WriteReport,
       WriteContract!Report
  <2>. QED
    BY <2>2, <1>4 DEF WriteContract!Next
<1>2. CASE ~uartWriting
  BY <1>2, <1>4 DEF TerminateWrite, uartWriteXfer
<1>3. CASE uartMet = "broken"
  BY <1>3, <1>4 DEF TerminateWrite, WriteContract!Next
<1>. QED
  BY <1>1, <1>2, <1>3

LEMMA ThrEmptyRefines ==
  ASSUME UartInv, ThrEmpty
  PROVE  [WriteContract!Next]_uartWriteXfer /\ UNCHANGED uartReadXfer
<1>1. uartEtbei /\ uartWriting /\ uartTxFifo <= uartTxTl
  BY DEF ThrEmpty, ThrPending, UartInv, NoWriteSound
<1>2. UartNumbersOK /\ WriteSound /\ NoWriteSound /\ ReadSound
  BY <1>1 DEF UartInv
<1>3. UNCHANGED <<uartWrite, uartTxShift, uartSent, uartMet, uartRx>>
  BY DEF ThrEmpty
<1>4. UNCHANGED uartReadXfer
  BY <1>3 DEF uartReadXfer, uartRx
<1>5. CASE uartTxDma = "delayed" \/ (uartTxDma = "off" /\ uartWritePos >= uartWrite)
  <2>1. ~uartWriting' /\ uartWrote' = IF uartWritePos = uartWrite THEN "done" ELSE "failed"
    BY <1>1, <1>5 DEF ThrEmpty, WriteReport
  <2>2. /\ uartMet # "broken" => uartSent <= uartWritePos
        /\ uartMet = "none" => uartSent = uartWritePos
    BY <1>1, <1>2, <1>5 DEF UartNumbersOK, WriteSound, AllWritten
  <2>3. CASE uartMet = "broken"
    BY <1>3, <1>4, <2>3 DEF WriteContract!Next
  <2>4. CASE uartMet # "broken"
    <3>1. WriteContract!Report
      BY <1>1, <1>2, <1>3, <2>1, <2>2, <2>4 DEF WriteContract!Report, UartNumbersOK
    <3>. QED
      BY <1>4, <3>1 DEF WriteContract!Next
  <2>. QED
    BY <2>3, <2>4
<1>6. CASE ~(uartTxDma = "delayed" \/ (uartTxDma = "off" /\ uartWritePos >= uartWrite))
  BY <1>4, <1>6 DEF ThrEmpty, uartWriteXfer
<1>. QED
  BY <1>5, <1>6

LEMMA DmaWriteRefines ==
  ASSUME UartInv, DmaWrite
  PROVE  UNCHANGED uartWriteXfer /\ UNCHANGED uartReadXfer
<1>1. UNCHANGED uartWriteXfer
  BY DEF DmaWrite, uartWriteXfer
<1>2. UNCHANGED uartReadXfer
  BY DEF DmaWrite, uartReadXfer, uartRx
<1>. QED
  BY <1>1, <1>2

LEMMA DmaWriteStoppedRefines ==
  ASSUME UartInv, DmaWriteStopped
  PROVE  UNCHANGED uartWriteXfer /\ UNCHANGED uartReadXfer
<1>1. UNCHANGED uartWriteXfer
  BY DEF DmaWriteStopped, uartWriteXfer
<1>2. UNCHANGED uartReadXfer
  BY DEF DmaWriteStopped, uartReadXfer, uartRx
<1>. QED
  BY <1>1, <1>2

LEMMA ShiftLoadRefines ==
  ASSUME UartInv, ShiftLoad
  PROVE  [WriteContract!Next]_uartWriteXfer /\ UNCHANGED uartReadXfer
<1>1. [WriteContract!Next]_uartWriteXfer
  BY DEF UartInv, UartNumbersOK, WriteSound, AllWritten, ShiftLoad, WriteContract!Next,
     WriteContract!Move, uartWriteXfer
<1>2. UNCHANGED uartReadXfer
  BY DEF ShiftLoad, uartReadXfer, uartRx
<1>. QED
  BY <1>1, <1>2

LEMMA ShiftOutRefines ==
  ASSUME UartInv, ShiftOut
  PROVE  UNCHANGED uartWriteXfer /\ UNCHANGED uartReadXfer
<1>1. UNCHANGED uartWriteXfer
  BY DEF ShiftOut, uartWriteXfer
<1>2. UNCHANGED uartReadXfer
  BY DEF ShiftOut, uartReadXfer, uartRx
<1>. QED
  BY <1>1, <1>2

LEMMA TerminateReadRefines ==
  ASSUME UartInv, TerminateRead
  PROVE  UNCHANGED uartWriteXfer /\ [ReadContract!Next]_uartReadXfer
<1>1. UNCHANGED uartWriteXfer
  BY DEF TerminateRead, uartWriteXfer, uartTx
<1>2. [ReadContract!Next]_uartReadXfer
  BY DEF UartInv, UartNumbersOK, TerminateRead, ReadReport, ReadContract!Next,
     ReadContract!Report, uartReadXfer
<1>. QED
  BY <1>1, <1>2

LEMMA LineStatusRefines ==
  ASSUME UartInv, LineStatus
  PROVE  UNCHANGED uartWriteXfer /\ UNCHANGED uartReadXfer
<1>1. UNCHANGED uartWriteXfer
  BY DEF LineStatus, uartWriteXfer, uartTx
<1>2. UNCHANGED uartReadXfer
  BY DEF LineStatus, uartReadXfer
<1>. QED
  BY <1>1, <1>2

LEMMA DataAvailableRefines ==
  ASSUME UartInv, DataAvailable
  PROVE  UNCHANGED uartWriteXfer /\ [ReadContract!Next]_uartReadXfer
<1>. DEFINE n == UartLeast(uartRxFifo, uartRead - uartReadPos)
<1>1. uartErbfi /\ uartReading /\ ~uartRxDma /\ uartGot = "none"
  BY DEF DataAvailable, DataPending, UartInv, ReadSound
<1>2. UartNumbersOK /\ WriteSound /\ NoWriteSound
  BY <1>1 DEF UartInv
<1>3. n \in Nat /\ n <= uartRxFifo /\ uartReadPos + n \in 0 .. uartRead
  BY <1>2 DEF UartNumbersOK, UartLeast
<1>4. /\ uartReadPos' = uartReadPos + n /\ uartRxFifo' = uartRxFifo - n
      /\ IF uartReadPos + n >= uartRead
         THEN uartErbfi' = FALSE /\ ReadReport("done")
         ELSE UNCHANGED <<uartErbfi, uartReading, uartGot>>
      /\ UNCHANGED <<uartRead, uartRxDma, uartTx>>
  BY DEF DataAvailable
<1>. HIDE DEF n
<1>5. UNCHANGED uartWriteXfer
  BY <1>4 DEF uartWriteXfer, uartTx
<1>6. CASE uartReadPos + n >= uartRead
  <2>1. ReadContract!Report
    BY <1>1, <1>2, <1>3, <1>4, <1>6 DEF ReadContract!Report, ReadReport,
       UartNumbersOK
  <2>. QED
    BY <1>5, <2>1 DEF ReadContract!Next
<1>7. CASE ~(uartReadPos + n >= uartRead)
  <2>1. UNCHANGED uartReadXfer \/ ReadContract!Move
    BY <1>1, <1>2, <1>3, <1>4, <1>7 DEF ReadContract!Move, UartNumbersOK,
       uartReadXfer
  <2>. QED
    BY <1>5, <2>1 DEF ReadContract!Next
<1>. QED
  BY <1>6, <1>7

LEMMA DmaReadRefines ==
  ASSUME UartInv, DmaRead
  PROVE  UNCHANGED uartWriteXfer /\ [ReadContract!Next]_uartReadXfer
<1>1. /\ uartReading /\ uartRxDma /\ ~uartErbfi /\ uartGot = "none"
      /\ uartReadPos < uartRead /\ uartRxFifo > 0
  BY DEF DmaRead, UartInv, ReadSound
<1>2. UartNumbersOK /\ WriteSound /\ NoWriteSound
  BY <1>1 DEF UartInv
<1>3. /\ uartRxFifo' = uartRxFifo - 1 /\ uartReadPos' = uartReadPos + 1
      /\ IF uartReadPos + 1 = uartRead
         THEN ReadReport("done")
         ELSE UNCHANGED <<uartReading, uartGot>>
      /\ UNCHANGED <<uartRead, uartRxDma, uartErbfi, uartTx>>
  BY DEF DmaRead
<1>4. UNCHANGED uartWriteXfer
  BY <1>3 DEF uartWriteXfer, uartTx
<1>5. CASE uartReadPos + 1 = uartRead
  <2>1. ReadContract!Report
    BY <1>1, <1>2, <1>3, <1>5 DEF ReadContract!Report, ReadReport,
       UartNumbersOK
  <2>. QED
    BY <1>4, <2>1 DEF ReadContract!Next
<1>6. CASE uartReadPos + 1 # uartRead
  <2>1. ReadContract!Move
    BY <1>1, <1>2, <1>3, <1>6 DEF ReadContract!Move, UartNumbersOK
  <2>. QED
    BY <1>4, <2>1 DEF ReadContract!Next
<1>. QED
  BY <1>5, <1>6

LEMMA CharTimeoutRefines ==
  ASSUME UartInv, CharTimeout
  PROVE  UNCHANGED uartWriteXfer /\ UNCHANGED uartReadXfer
<1>1. UNCHANGED uartWriteXfer
  BY DEF CharTimeout, uartWriteXfer, uartTx
<1>2. UNCHANGED uartReadXfer
  BY DEF CharTimeout, uartReadXfer
<1>. QED
  BY <1>1, <1>2

LEMMA UartStepRefines ==
  ASSUME UartInv, [UartNext]_uartVars
  PROVE  [WriteContract!Next]_uartWriteXfer /\ [ReadContract!Next]_uartReadXfer
<1>1. CASE UNCHANGED uartVars
  BY <1>1 DEF uartVars, uartTx, uartRx, uartWriteXfer, uartReadXfer
<1>2. CASE UartNext
  BY <1>2, StartWriteRefines, StartReadRefines, ArriveRefines,
     TerminateWriteRefines, ThrEmptyRefines, DmaWriteRefines,
     DmaWriteStoppedRefines, ShiftLoadRefines, ShiftOutRefines,
     TerminateReadRefines, LineStatusRefines, DataAvailableRefines,
     DmaReadRefines, CharTimeoutRefines DEF UartNext
<1>. QED
  BY <1>1, <1>2

\* A write that finds bytes of another in the FIFO, of which the contract says
\* nothing, follows one whose threshold a read has set back (qm_uart.c:428).
THEOREM OnlyReadsDisturb ==
  UartSpec => [][uartMet' = "broken" => uartMet # "none"]_uartVars
<1>1. UartInv /\ [UartNext]_uartVars => (uartMet' = "broken" => uartMet # "none")
  <2>. SUFFICES ASSUME UartInv, [UartNext]_uartVars, uartMet' = "broken"
                PROVE  uartMet # "none"
    OBVIOUS
  <2>1. CASE \E n \in UartWriteLens, dma \in BOOLEAN : StartWrite(n, dma)
    BY <2>1 DEF UartInv, NoWriteSound, StartWrite, TxIdle
  <2>2. CASE \E n \in UartReadLens, dma \in BOOLEAN : StartRead(n, dma)
    BY <2>2 DEF StartRead
  <2>3. CASE UNCHANGED uartMet
    BY <2>3
  <2>. QED
    BY <2>1, <2>2, <2>3 DEF UartNext, TerminateWrite, TerminateRead, LineStatus,
       DataAvailable, ThrEmpty, DmaWrite, DmaWriteStopped, DmaRead, ShiftLoad,
       ShiftOut, Arrive, CharTimeout, uartTx, uartVars
<1>. QED
  BY <1>1, UartInvariance, PTL DEF UartSpec

\* Every write and read of qm_uart.c, by interrupts or by DMA, moves its bytes
\* once and calls back once, as complete only when all of them have moved, but
\* for a write whose threshold a read has set back and the writes after it.
THEOREM UartImplementsTransfer == UartSpec => UartImplements
<1>1. UartInit => WriteContract!Init /\ ReadContract!Init
  BY DEF UartInit, WriteContract!Init, ReadContract!Init
<1>2. UartInv /\ [UartNext]_uartVars => [WriteContract!Next]_uartWriteXfer
  BY UartStepRefines
<1>3. UartInv /\ [UartNext]_uartVars => [ReadContract!Next]_uartReadXfer
  BY UartStepRefines
<1>. QED
  BY <1>1, <1>2, <1>3, UartInvariance, PTL DEF UartSpec, UartImplements,
     WriteContract!Spec, ReadContract!Spec, WriteContract!xfer,
     ReadContract!xfer, uartWriteXfer, uartReadXfer

-----------------------------------------------------------------------------
(* The polling functions.  Between two writes the FIFO is empty, since a   *)
(* write ends when nothing is left of it; a read that is under way lacks a *)
(* byte.                                                                   *)

PollNumbersOK ==
  /\ uartWrite \in Nat /\ uartWritePos \in 0 .. uartWrite
  /\ uartSent \in Nat /\ uartTxFifo \in 0 .. UART_FIFO_DEPTH
  /\ uartRxFifo \in Nat
  /\ uartRead \in Nat /\ uartReadPos \in 0 .. uartRead
  /\ uartPoll \in {"none", "write", "read"}

PollWriteSound ==
  /\ uartWriting \in BOOLEAN /\ (uartWriting <=> uartPoll = "write")
  /\ uartWriting => uartSent + uartTxFifo = uartWritePos /\ uartWrote = "none"
  /\ ~uartWriting => uartTxFifo = 0

PollReadSound ==
  /\ uartReading \in BOOLEAN /\ (uartReading <=> uartPoll = "read")
  /\ uartReading => uartReadPos < uartRead /\ uartGot = "none"

UartPollInv == PollNumbersOK /\ PollWriteSound /\ PollReadSound

LEMMA UartPollInitInv == UartPolledInit => UartPollInv
<1>. SUFFICES ASSUME UartPolledInit PROVE UartPollInv
  OBVIOUS
<1>1. PollNumbersOK
  <2>1. 0 \in 0 .. UART_FIFO_DEPTH
    BY UartAssumption
  <2>. QED
    BY <2>1 DEF UartPolledInit, UartInit, PollNumbersOK
<1>2. PollWriteSound /\ PollReadSound
  BY DEF UartPolledInit, UartInit, PollWriteSound, PollReadSound
<1>. QED
  BY <1>1, <1>2 DEF UartPollInv

LEMMA PollWriteBufferStep ==
  ASSUME UartPollInv, NEW n \in UartWriteLens, PollWriteBuffer(n)
  PROVE  UartPollInv' /\ WriteContract!Start /\ UNCHANGED uartReadXfer
<1>1. UartPollInv'
  BY UartAssumption DEF UartPollInv, PollNumbersOK, PollWriteSound, PollReadSound,
     PollWriteBuffer, uartRx
<1>2. WriteContract!Start /\ UNCHANGED uartReadXfer
  BY UartAssumption DEF PollWriteBuffer, WriteContract!Start, uartRx, uartReadXfer
<1>. QED
  BY <1>1, <1>2

LEMMA PollPutStep ==
  ASSUME UartPollInv, PollPut
  PROVE  UartPollInv' /\ UNCHANGED uartWriteXfer /\ UNCHANGED uartReadXfer
<1>1. UartPollInv'
  BY UartAssumption DEF UartPollInv, PollNumbersOK, PollWriteSound, PollReadSound,
     PollPut, PushTx, UartLeast, uartRx
<1>2. UNCHANGED uartWriteXfer /\ UNCHANGED uartReadXfer
  BY DEF PollPut, uartRx, uartWriteXfer, uartReadXfer
<1>. QED
  BY <1>1, <1>2

LEMMA PollWrittenStep ==
  ASSUME UartPollInv, PollWritten
  PROVE  UartPollInv' /\ WriteContract!Report /\ UNCHANGED uartReadXfer
<1>1. UartPollInv'
  BY DEF UartPollInv, PollNumbersOK, PollWriteSound, PollReadSound, PollWritten,
     WriteReport, uartRx
<1>2. uartWriting /\ uartSent = uartWrite
  BY UartAssumption DEF UartPollInv, PollNumbersOK, PollWriteSound, PollWritten
<1>3. WriteContract!Report /\ UNCHANGED uartReadXfer
  BY <1>2 DEF UartPollInv, PollNumbersOK, PollWritten, WriteReport,
     WriteContract!Report, uartRx, uartReadXfer
<1>. QED
  BY <1>1, <1>3

LEMMA PollReadBytesStep ==
  ASSUME UartPollInv, NEW n \in UartReadLens, PollReadBytes(n)
  PROVE  UartPollInv' /\ UNCHANGED uartWriteXfer /\ ReadContract!Start
<1>1. UartPollInv'
  BY UartAssumption DEF UartPollInv, PollNumbersOK, PollWriteSound, PollReadSound,
     PollReadBytes, uartTx
<1>2. UNCHANGED uartWriteXfer /\ ReadContract!Start
  BY UartAssumption DEF PollReadBytes, ReadContract!Start, uartTx, uartWriteXfer
<1>. QED
  BY <1>1, <1>2

LEMMA PollGetByteStep ==
  ASSUME UartPollInv, PollGetByte
  PROVE  UartPollInv' /\ UNCHANGED uartWriteXfer /\ ReadContract!Next
<1>1. PollNumbersOK /\ uartReading /\ uartReadPos < uartRead /\ uartGot = "none"
  BY DEF UartPollInv, PollReadSound, PollGetByte
<1>2. UNCHANGED <<uartRead, uartTx>>
  BY DEF PollGetByte
<1>3. CASE uartLineErr
  <2>1. /\ uartPoll' = "none" /\ uartReading' = FALSE /\ uartGot' = "failed"
        /\ UNCHANGED <<uartRxFifo, uartReadPos>>
    BY <1>1, <1>3 DEF PollGetByte, ReadReport
  <2>2. UartPollInv'
    BY <1>1, <1>2, <2>1 DEF UartPollInv, PollNumbersOK, PollWriteSound,
       PollReadSound, uartTx
  <2>3. ReadContract!Report
    BY <1>1, <1>2, <2>1 DEF ReadContract!Report, PollNumbersOK
  <2>. QED
    BY <1>2, <2>2, <2>3 DEF ReadContract!Next, uartTx, uartWriteXfer
<1>4. CASE ~uartLineErr /\ uartReadPos + 1 = uartRead
  <2>1. /\ uartPoll' = "none" /\ uartReading' = FALSE /\ uartGot' = "done"
        /\ uartRxFifo' = uartRxFifo - 1 /\ uartReadPos' = uartReadPos + 1
        /\ uartRxFifo > 0
    BY <1>1, <1>4 DEF PollGetByte, ReadReport
  <2>2. UartPollInv'
    <3>1. PollNumbersOK'
      BY <1>1, <1>2, <1>4, <2>1 DEF PollNumbersOK, uartTx
    <3>2. PollWriteSound' /\ PollReadSound'
      BY <1>1, <1>2, <1>4, <2>1 DEF UartPollInv, PollNumbersOK, PollWriteSound,
         PollReadSound, uartTx
    <3>. QED
      BY <3>1, <3>2 DEF UartPollInv
  <2>3. ReadContract!Report
    BY <1>1, <1>2, <1>4, <2>1 DEF ReadContract!Report, PollNumbersOK
  <2>. QED
    BY <1>2, <2>2, <2>3 DEF ReadContract!Next, uartTx, uartWriteXfer
<1>5. CASE ~uartLineErr /\ uartReadPos + 1 # uartRead
  <2>1. /\ UNCHANGED <<uartReading, uartGot, uartPoll>>
        /\ uartRxFifo' = uartRxFifo - 1 /\ uartReadPos' = uartReadPos + 1
        /\ uartRxFifo > 0
    BY <1>5 DEF PollGetByte
  <2>2. UartPollInv'
    <3>1. PollNumbersOK'
      BY <1>1, <1>2, <1>5, <2>1 DEF PollNumbersOK, uartTx
    <3>2. PollWriteSound' /\ PollReadSound'
      BY <1>1, <1>2, <1>5, <2>1 DEF UartPollInv, PollNumbersOK, PollWriteSound,
         PollReadSound, uartTx
    <3>. QED
      BY <3>1, <3>2 DEF UartPollInv
  <2>3. ReadContract!Move
    BY <1>1, <1>2, <1>5, <2>1 DEF ReadContract!Move, PollNumbersOK
  <2>. QED
    BY <1>2, <2>2, <2>3 DEF ReadContract!Next, uartTx, uartWriteXfer
<1>. QED
  BY <1>3, <1>4, <1>5

LEMMA UartPollShiftStep ==
  ASSUME UartPollInv, UartPollShift
  PROVE  UartPollInv' /\ [WriteContract!Next]_uartWriteXfer /\ UNCHANGED uartReadXfer
<1>1. UNCHANGED <<uartPoll, uartWrite, uartWritePos, uartWriting, uartWrote, uartRx>>
  BY DEF UartPollShift, ShiftLoad, ShiftOut
<1>2. CASE ShiftOut
  <2>1. UNCHANGED <<uartTxFifo, uartSent>>
    BY <1>2 DEF ShiftOut
  <2>. QED
    BY <1>1, <2>1 DEF UartPollInv, PollNumbersOK, PollWriteSound, PollReadSound,
       uartRx, uartWriteXfer, uartReadXfer
<1>3. CASE ShiftLoad
  <2>1. /\ uartWriting /\ uartTxFifo > 0 /\ uartTxFifo' = uartTxFifo - 1
        /\ uartSent' = uartSent + 1
    BY <1>3 DEF ShiftLoad, UartPollInv, PollWriteSound, PollNumbersOK
  <2>2. UartPollInv'
    BY UartAssumption, <1>1, <2>1 DEF UartPollInv, PollNumbersOK, PollWriteSound,
       PollReadSound, uartRx
  <2>3. WriteContract!Move
    BY UartAssumption, <1>1, <2>1 DEF WriteContract!Move, UartPollInv,
       PollNumbersOK, PollWriteSound
  <2>. QED
    BY <1>1, <2>2, <2>3 DEF WriteContract!Next, uartRx, uartReadXfer
<1>. QED
  BY <1>2, <1>3 DEF UartPollShift

LEMMA UartPollArriveStep ==
  ASSUME UartPollInv, NEW err \in BOOLEAN, UartPollArrive(err)
  PROVE  UartPollInv' /\ UNCHANGED uartWriteXfer /\ UNCHANGED uartReadXfer
<1>1. UNCHANGED <<uartPoll, uartTx, uartRead, uartReadPos, uartReading, uartGot>>
  BY DEF UartPollArrive, Arrive
<1>2. uartRxFifo' \in Nat
  BY UartAssumption DEF UartPollArrive, Arrive, UartLeast, UartPollInv, PollNumbersOK
<1>. QED
  BY <1>1, <1>2 DEF UartPollInv, PollNumbersOK, PollWriteSound, PollReadSound,
     uartTx, uartWriteXfer, uartReadXfer

LEMMA UartPollStep ==
  ASSUME UartPollInv, [UartPolledNext]_uartPolledVars
  PROVE  UartPollInv' /\ [WriteContract!Next]_uartWriteXfer
         /\ [ReadContract!Next]_uartReadXfer
<1>1. CASE UNCHANGED uartPolledVars
  BY <1>1 DEF uartPolledVars, uartVars, uartTx, uartRx, uartWriteXfer, uartReadXfer,
     UartPollInv, PollNumbersOK, PollWriteSound, PollReadSound
<1>2. CASE UartPolledNext
  BY <1>2, PollWriteBufferStep, PollPutStep, PollWrittenStep, PollReadBytesStep,
     PollGetByteStep, UartPollShiftStep, UartPollArriveStep
     DEF UartPolledNext, UartPolls, WriteContract!Next, ReadContract!Next
<1>. QED
  BY <1>1, <1>2

\* qm_uart_write_buffer returns only when every byte of it has left the FIFO,
\* and qm_uart_read gives up its byte for a line error or delivers it: the
\* polling functions keep the contract of a transfer for any depth of the
\* FIFOs and any lengths.
THEOREM UartPolledImplementsTransfer == UartPolledSpec => UartImplements
<1>1. UartPolledInit => WriteContract!Init /\ ReadContract!Init
  BY DEF UartPolledInit, UartInit, WriteContract!Init, ReadContract!Init
<1>2. UartPollInv /\ [UartPolledNext]_uartPolledVars =>
        /\ UartPollInv'
        /\ [WriteContract!Next]_uartWriteXfer /\ [ReadContract!Next]_uartReadXfer
  BY UartPollStep
<1>. QED
  BY <1>1, <1>2, UartPollInitInv, PTL DEF UartPolledSpec, UartImplements,
     WriteContract!Spec, ReadContract!Spec, WriteContract!xfer,
     ReadContract!xfer, uartWriteXfer, uartReadXfer

=============================================================================
