-------------------------------- MODULE Uart --------------------------------
(***************************************************************************)
(* The transfers of the UART driver, qm_uart.c: a write and a read, each   *)
(* by interrupts or by DMA, that share one interrupt, whose identification *)
(* register shows the read side first, and one FIFO control register,      *)
(* which cannot be read back and holds the thresholds of both.             *)
(*                                                                         *)
(* Bytes are counted.  A client asks qm_uart_get_status before it writes,  *)
(* as qm_uart.h:141 advises, and gives a callback.  The polling functions, *)
(* which hold the processor until they are done, are left out.             *)
(***************************************************************************)
EXTENDS Naturals

CONSTANTS
  UART_FIFO_DEPTH,      \* QM_UART_FIFO_DEPTH
  UART_FIFO_HALF_DEPTH, \* QM_UART_FIFO_HALF_DEPTH, and the default thresholds
  UartWriteLens,        \* bound: the lengths of writes
  UartReadLens          \* bound: the lengths of reads

ASSUME UartAssumption ==
  /\ UART_FIFO_DEPTH \in Nat /\ UART_FIFO_HALF_DEPTH \in Nat \ {0}
  /\ UART_FIFO_DEPTH = 2 * UART_FIFO_HALF_DEPTH
  /\ UartWriteLens \subseteq Nat \ {0} /\ UartReadLens \subseteq Nat \ {0}

VARIABLES
  uartWrite,     \* data_len of uart_write_transfer, or of the DMA's transfer
  uartWritePos,  \* write_pos, or what the DMA has written
  uartTxDma,     \* "off", "run", or "delayed" once the DMA has called back
  uartEtbei,     \* the transmit interrupt is enabled
  uartTxTl,      \* the TX threshold in the FIFO control register
  uartTxFifo,    \* bytes in the TX FIFO
  uartTxShift,   \* a byte is being shifted out
  uartScr,       \* bit 0 of the scratchpad: an interrupt write has completed
  uartSent,      \* ghost: bytes that have left the FIFO during this write
  uartWriting,   \* ghost: the write was started and not reported
  uartWrote,     \* ghost: what its callback said, "again" if repeated
  uartMet,       \* ghost: what the write has met: "none", "read" when a read set
                 \* its last threshold back, or "broken" when bytes were left
                 \* in the FIFO before it
  uartRead,      \* data_len of uart_read_transfer
  uartReadPos,   \* read_pos
  uartRxDma,     \* the read is by DMA
  uartErbfi,     \* the receive interrupts are enabled
  uartRxFifo,    \* bytes in the RX FIFO
  uartTimeout,   \* the character timeout has expired
  uartLineErr,   \* error bits in the line status register
  uartReading,   \* ghost: the read was started and not reported
  uartGot        \* ghost: what its last callback but for line errors said

uartTx == <<uartWrite, uartWritePos, uartTxDma, uartEtbei, uartTxTl, uartTxFifo,
            uartTxShift, uartScr, uartSent, uartWriting, uartWrote, uartMet>>
uartRx == <<uartRead, uartReadPos, uartRxDma, uartErbfi, uartRxFifo, uartTimeout,
            uartLineErr, uartReading, uartGot>>
uartVars == <<uartTx, uartRx>>

UartInit ==
  /\ uartWrite = 0 /\ uartWritePos = 0 /\ uartTxDma = "off" /\ uartEtbei = FALSE
  /\ uartTxTl = UART_FIFO_HALF_DEPTH
  /\ uartTxFifo = 0 /\ uartTxShift = FALSE
  /\ uartScr = FALSE /\ uartSent = 0 /\ uartWriting = FALSE /\ uartWrote = "none"
  /\ uartMet = "none"
  /\ uartRead = 0 /\ uartReadPos = 0 /\ uartRxDma = FALSE /\ uartErbfi = FALSE
  /\ uartRxFifo = 0 /\ uartTimeout = FALSE /\ uartLineErr = FALSE
  /\ uartReading = FALSE /\ uartGot = "none"

-----------------------------------------------------------------------------

UartLeast(a, b) == IF a <= b THEN a ELSE b

\* qm_uart_get_status: after an interrupt write the scratchpad bit hides, once,
\* that the shift register is busy.
TxIdle == uartScr \/ (uartTxFifo = 0 /\ ~uartTxShift)

WriteReport(o) ==
  /\ uartWriting' = FALSE
  /\ uartWrote' = (IF uartWriting THEN o ELSE "again")

ReadReport(o) ==
  /\ uartReading' = FALSE
  /\ uartGot' = (IF uartReading THEN o ELSE "again")

\* Bytes that do not fit the FIFO are lost.
PushTx(n) == uartTxFifo' = UartLeast(uartTxFifo + n, UART_FIFO_DEPTH)

\* How many bytes the handler writes: the whole FIFO at the start of a
\* transfer, half of it later.
WriteCount ==
  LET left == uartWrite - uartWritePos
  IN IF uartWritePos = 0 THEN UartLeast(UART_FIFO_DEPTH, left)
                         ELSE UartLeast(UART_FIFO_HALF_DEPTH, left)

\* Mutant: the threshold stays at half.
LastTxTlHalf == uartTxTl

\* The threshold once the last byte is in the FIFO.
LastTxTl == 0

-----------------------------------------------------------------------------
(* The client.                                                             *)

\* qm_uart_get_status, then qm_uart_irq_write or qm_uart_dma_write.
StartWrite(n, dma) ==
  /\ ~uartWriting /\ TxIdle
  /\ uartScr' = FALSE
  /\ uartWrite' = n /\ uartWritePos' = 0 /\ uartSent' = 0
  /\ uartTxTl' = UART_FIFO_HALF_DEPTH
  /\ uartTxDma' = (IF dma THEN "run" ELSE "off")
  /\ uartEtbei' = (IF dma THEN uartEtbei ELSE TRUE)
  /\ uartWriting' = TRUE /\ uartWrote' = "none"
  /\ uartMet' = (IF uartTxFifo = 0 THEN "none" ELSE "broken")
  /\ UNCHANGED <<uartTxFifo, uartTxShift, uartRx>>

\* qm_uart_irq_write_terminate calls back whether or not a write is under way;
\* the contract leaves out the call that comes after the completion, and the
\* bytes the FIFO still holds, which go out.
TerminateWrite ==
  /\ uartTxDma = "off"
  /\ uartEtbei' = FALSE
  /\ IF uartWriting THEN WriteReport("failed")
                    ELSE UNCHANGED <<uartWriting, uartWrote>>
  /\ UNCHANGED <<uartWrite, uartWritePos, uartTxDma, uartTxTl, uartTxFifo,
                 uartTxShift, uartScr, uartSent, uartMet, uartRx>>

\* qm_uart_irq_read or qm_uart_dma_read.  Both set the thresholds of both
\* FIFOs to the default, that of a write, too, which is at its last bytes.
StartRead(n, dma) ==
  /\ ~uartReading
  /\ uartRead' = n /\ uartReadPos' = 0 /\ uartRxDma' = dma
  /\ uartErbfi' = (uartErbfi \/ ~dma)
  /\ uartTxTl' = UART_FIFO_HALF_DEPTH
  /\ uartMet' = (IF uartWriting /\ uartTxTl = LastTxTl /\ uartMet = "none"
                 THEN "read" ELSE uartMet)
  /\ uartReading' = TRUE /\ uartGot' = "none"
  /\ UNCHANGED <<uartWrite, uartWritePos, uartTxDma, uartEtbei, uartTxFifo,
                 uartTxShift, uartScr, uartSent, uartWriting, uartWrote,
                 uartRxFifo, uartTimeout, uartLineErr>>

\* qm_uart_irq_read_terminate, or the DMA's, which calls back with what it has.
TerminateRead ==
  /\ uartErbfi' = (uartErbfi /\ uartRxDma)
  /\ IF uartReading THEN ReadReport("failed")
                    ELSE UNCHANGED <<uartReading, uartGot>>
  /\ UNCHANGED <<uartRead, uartReadPos, uartRxDma, uartRxFifo, uartTimeout,
                 uartLineErr, uartTx>>

-----------------------------------------------------------------------------
(* The interrupt handler, and the callbacks of the DMA driver.             *)

LineStatusPending == uartErbfi /\ uartLineErr
DataPending ==
  uartErbfi /\ (uartRxFifo >= UART_FIFO_HALF_DEPTH \/ uartTimeout)
ThrPending == uartEtbei /\ uartTxFifo <= uartTxTl

\* A line error is reported with length 0, and the read goes on.
LineStatus ==
  /\ LineStatusPending
  /\ uartLineErr' = FALSE
  /\ UNCHANGED <<uartRead, uartReadPos, uartRxDma, uartErbfi, uartRxFifo,
                 uartTimeout, uartReading, uartGot, uartTx>>

\* The RX FIFO is emptied into the buffer, or up to its end.  Reading the line
\* status clears an error, which is reported here too.
DataAvailable ==
  /\ DataPending /\ ~LineStatusPending
  /\ LET n == UartLeast(uartRxFifo, uartRead - uartReadPos)
         pos == uartReadPos + n
     IN /\ uartReadPos' = pos
        /\ uartRxFifo' = uartRxFifo - n
        /\ IF pos >= uartRead
           THEN uartErbfi' = FALSE /\ ReadReport("done")
           ELSE UNCHANGED <<uartErbfi, uartReading, uartGot>>
  /\ uartTimeout' = FALSE /\ uartLineErr' = FALSE
  /\ UNCHANGED <<uartRead, uartRxDma, uartTx>>

\* The FIFO has drained to its threshold: a completed DMA write is reported, a
\* completed write is, or the next bytes are written.
ThrEmpty ==
  /\ ThrPending /\ ~LineStatusPending /\ ~DataPending
  /\ IF uartTxDma = "delayed" \/ (uartTxDma = "off" /\ uartWritePos >= uartWrite)
     THEN /\ uartEtbei' = FALSE
          /\ uartScr' = (uartScr \/ uartTxDma = "off")
          /\ uartTxDma' = "off"
          /\ WriteReport(IF uartWritePos = uartWrite THEN "done" ELSE "failed")
          /\ UNCHANGED <<uartWritePos, uartTxFifo, uartTxTl>>
     ELSE /\ uartTxDma = "off"
          /\ PushTx(WriteCount)
          /\ uartWritePos' = uartWritePos + WriteCount
          /\ uartTxTl' = (IF uartWritePos + WriteCount >= uartWrite
                          THEN LastTxTl ELSE uartTxTl)
          /\ UNCHANGED <<uartEtbei, uartScr, uartTxDma, uartWriting, uartWrote>>
  /\ UNCHANGED <<uartWrite, uartTxShift, uartSent, uartMet, uartRx>>

\* The DMA writes one byte into a FIFO at its threshold; when it has written
\* the last one, uart_dma_callback waits for the FIFO to empty.
DmaWrite ==
  /\ uartTxDma = "run" /\ uartTxFifo <= uartTxTl
  /\ PushTx(1) /\ uartWritePos' = uartWritePos + 1
  /\ IF uartWritePos + 1 = uartWrite
     THEN uartTxDma' = "delayed" /\ uartTxTl' = LastTxTl /\ uartEtbei' = TRUE
     ELSE UNCHANGED <<uartTxDma, uartTxTl, uartEtbei>>
  /\ UNCHANGED <<uartWrite, uartTxShift, uartScr, uartSent, uartWriting,
                 uartWrote, uartMet, uartRx>>

\* qm_uart_dma_write_terminate: the DMA driver calls back with what it has.
DmaWriteStopped ==
  /\ uartTxDma = "run"
  /\ uartTxDma' = "delayed" /\ uartTxTl' = LastTxTl /\ uartEtbei' = TRUE
  /\ UNCHANGED <<uartWrite, uartWritePos, uartTxFifo, uartTxShift, uartScr,
                 uartSent, uartWriting, uartWrote, uartMet, uartRx>>

DmaRead ==
  /\ uartRxDma /\ uartReading /\ uartRxFifo > 0
  /\ uartRxFifo' = uartRxFifo - 1 /\ uartReadPos' = uartReadPos + 1
  /\ IF uartReadPos + 1 = uartRead
     THEN ReadReport("done")
     ELSE UNCHANGED <<uartReading, uartGot>>
  /\ UNCHANGED <<uartRead, uartRxDma, uartErbfi, uartTimeout, uartLineErr, uartTx>>

-----------------------------------------------------------------------------
(* The line.                                                               *)

ShiftLoad ==
  /\ uartTxFifo > 0 /\ ~uartTxShift
  /\ uartTxFifo' = uartTxFifo - 1 /\ uartTxShift' = TRUE
  /\ uartSent' = (IF uartWriting THEN uartSent + 1 ELSE uartSent)
  /\ UNCHANGED <<uartWrite, uartWritePos, uartTxDma, uartEtbei, uartTxTl, uartScr,
                 uartWriting, uartWrote, uartMet, uartRx>>

ShiftOut ==
  /\ uartTxShift /\ uartTxShift' = FALSE
  /\ UNCHANGED <<uartWrite, uartWritePos, uartTxDma, uartEtbei, uartTxTl,
                 uartTxFifo, uartScr, uartSent, uartWriting, uartWrote, uartMet,
                 uartRx>>

\* A byte arrives, perhaps damaged; into a full FIFO it is lost.
Arrive(err) ==
  /\ uartRxFifo' = UartLeast(uartRxFifo + 1, UART_FIFO_DEPTH)
  /\ uartLineErr' = (uartLineErr \/ err \/ uartRxFifo = UART_FIFO_DEPTH)
  /\ uartTimeout' = FALSE
  /\ UNCHANGED <<uartRead, uartReadPos, uartRxDma, uartErbfi, uartReading,
                 uartGot, uartTx>>

\* Nothing more arrives for four characters.
CharTimeout ==
  /\ uartRxFifo > 0 /\ ~uartTimeout
  /\ uartTimeout' = TRUE
  /\ UNCHANGED <<uartRead, uartReadPos, uartRxDma, uartErbfi, uartRxFifo,
                 uartLineErr, uartReading, uartGot, uartTx>>

UartNext ==
  \/ \E n \in UartWriteLens, dma \in BOOLEAN : StartWrite(n, dma)
  \/ \E n \in UartReadLens, dma \in BOOLEAN : StartRead(n, dma)
  \/ TerminateWrite \/ TerminateRead
  \/ LineStatus \/ DataAvailable \/ ThrEmpty
  \/ DmaWrite \/ DmaWriteStopped \/ DmaRead
  \/ ShiftLoad \/ ShiftOut
  \/ \E err \in BOOLEAN : Arrive(err)
  \/ CharTimeout

UartSpec == UartInit /\ [][UartNext]_uartVars

\* A byte takes longer on the line than the handler, so what is held up by the
\* causes before it, line errors and bytes to read, is served between two bytes.
UartFairness ==
  /\ SF_uartVars(ThrEmpty) /\ SF_uartVars(DataAvailable) /\ WF_uartVars(LineStatus)
  /\ WF_uartVars(DmaWrite) /\ WF_uartVars(ShiftLoad) /\ WF_uartVars(ShiftOut)

-----------------------------------------------------------------------------
(* Properties.                                                             *)

UartTypeOK ==
  /\ uartWrite \in UartWriteLens \cup {0} /\ uartWritePos \in 0 .. uartWrite
  /\ uartTxDma \in {"off", "run", "delayed"}
  /\ uartTxTl \in {0, UART_FIFO_HALF_DEPTH}
  /\ uartTxFifo \in 0 .. UART_FIFO_DEPTH /\ uartRxFifo \in 0 .. UART_FIFO_DEPTH
  /\ uartSent \in Nat
  /\ uartRead \in UartReadLens \cup {0} /\ uartReadPos \in 0 .. uartRead
  /\ {uartEtbei, uartTxShift, uartScr, uartWriting, uartRxDma, uartErbfi,
      uartTimeout, uartLineErr, uartReading} \subseteq BOOLEAN
  /\ {uartWrote, uartGot} \subseteq {"none", "done", "failed", "again"}
  /\ uartMet \in {"none", "read", "broken"}

WriteContract == INSTANCE Transfer WITH
  busy <- uartWriting, size <- uartWrite, moved <- uartSent, outcome <- uartWrote,
  missed <- uartWriting /\ uartMet = "read", disturbed <- uartMet = "broken"

ReadContract == INSTANCE Transfer WITH
  busy <- uartReading, size <- uartRead, moved <- uartReadPos, outcome <- uartGot,
  missed <- FALSE, disturbed <- FALSE

\* A write is reported once, and "done" only when all of it has left the FIFO,
\* whether the handler or the DMA filled it; a read is reported once, and "done"
\* only with its buffer full, whatever line errors were reported meanwhile.  A
\* read that starts while the last bytes of a write are in the FIFO takes this
\* from it: the write may be done with bytes left, before which nothing is said
\* of the next write.
UartImplements == WriteContract!Spec /\ ReadContract!Spec

\* Every write is reported.
UartWriteCompletes == uartWriting ~> ~uartWriting

\* qm_uart.c:128 says of a write being reported that "at this point the FIFOs
\* are empty".
EmptyWhenDone ==
  [][uartWriting /\ ~uartWriting' /\ uartWrote' = "done" => uartTxFifo' = 0]_uartVars
=============================================================================
