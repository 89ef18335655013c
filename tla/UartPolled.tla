----------------------------- MODULE UartPolled -----------------------------
(***************************************************************************)
(* The functions of the UART driver that hold the processor, over the      *)
(* FIFOs of Uart with the interrupts disabled: qm_uart_write_buffer, of    *)
(* which qm_uart_write is the one of a byte, and qm_uart_read.  A client   *)
(* calls one of them at a time, and qm_uart_read for every byte it wants,  *)
(* until one is refused.                                                   *)
(***************************************************************************)
EXTENDS Uart

VARIABLE uartPoll   \* what is called: "none", "write" or "read"

uartPolledVars == <<uartVars, uartPoll>>

UartPolledInit == UartInit /\ uartPoll = "none"

PollWriteBuffer(n) ==
  /\ uartPoll = "none" /\ ~uartWriting
  /\ uartPoll' = "write"
  /\ uartWrite' = n /\ uartWritePos' = 0 /\ uartSent' = 0
  /\ uartWriting' = TRUE /\ uartWrote' = "none"
  /\ UNCHANGED <<uartTxDma, uartEtbei, uartTxTl, uartTxFifo, uartTxShift, uartScr,
                 uartMet, uartRx>>

\* As the driver sets up the interrupts, THRE says that the TX FIFO is full.
PollPut ==
  /\ uartPoll = "write" /\ uartWritePos < uartWrite
  /\ uartTxFifo < UART_FIFO_DEPTH
  /\ PushTx(1) /\ uartWritePos' = uartWritePos + 1
  /\ UNCHANGED <<uartWrite, uartTxDma, uartEtbei, uartTxTl, uartTxShift, uartScr,
                 uartSent, uartWriting, uartWrote, uartMet, uartRx, uartPoll>>

\* TEMT: the FIFO and the shift register are empty.
PollWritten ==
  /\ uartPoll = "write" /\ uartWritePos = uartWrite
  /\ uartTxFifo = 0 /\ ~uartTxShift
  /\ WriteReport("done")
  /\ uartPoll' = "none"
  /\ UNCHANGED <<uartWrite, uartWritePos, uartTxDma, uartEtbei, uartTxTl, uartTxFifo,
                 uartTxShift, uartScr, uartSent, uartMet, uartRx>>

PollReadBytes(n) ==
  /\ uartPoll = "none" /\ ~uartReading
  /\ uartPoll' = "read"
  /\ uartRead' = n /\ uartReadPos' = 0
  /\ uartReading' = TRUE /\ uartGot' = "none"
  /\ UNCHANGED <<uartRxDma, uartErbfi, uartRxFifo, uartTimeout, uartLineErr, uartTx>>

\* qm_uart_read, once there is a byte: reading the status clears an error, and
\* the byte it came with stays in the FIFO.
PollGetByte ==
  /\ uartPoll = "read" /\ uartRxFifo > 0
  /\ uartLineErr' = FALSE
  /\ IF uartLineErr
     THEN /\ ReadReport("failed") /\ uartPoll' = "none"
          /\ UNCHANGED <<uartRxFifo, uartReadPos>>
     ELSE /\ uartRxFifo' = uartRxFifo - 1 /\ uartReadPos' = uartReadPos + 1
          /\ IF uartReadPos + 1 = uartRead
             THEN ReadReport("done") /\ uartPoll' = "none"
             ELSE UNCHANGED <<uartReading, uartGot, uartPoll>>
  /\ UNCHANGED <<uartRead, uartRxDma, uartErbfi, uartTimeout, uartTx>>

UartPolls == PollPut \/ PollWritten \/ PollGetByte

UartPollShift == (ShiftLoad \/ ShiftOut) /\ UNCHANGED uartPoll
UartPollArrive(err) == Arrive(err) /\ UNCHANGED uartPoll

UartPolledNext ==
  \/ \E n \in UartWriteLens : PollWriteBuffer(n)
  \/ \E n \in UartReadLens : PollReadBytes(n)
  \/ UartPolls
  \/ UartPollShift
  \/ \E err \in BOOLEAN : UartPollArrive(err)

UartPolledSpec == UartPolledInit /\ [][UartPolledNext]_uartPolledVars

=============================================================================
