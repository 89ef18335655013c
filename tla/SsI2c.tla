-------------------------------- MODULE SsI2c --------------------------------
(***************************************************************************)
(* The I2C master of the sensor subsystem, qm_ss_i2c.c.  Its controller is *)
(* that of I2cMaster and its driver keeps the same state, but errors,      *)
(* received bytes and room to transmit have an interrupt each, served one  *)
(* at a time with errors first: each handler looks anew at what is left.   *)
(* The STOP interrupt, whose handler calls back too, is never unmasked.    *)
(***************************************************************************)
EXTENDS I2cMaster

\* qm_ss_i2c_master_irq_transfer
SsI2cStart(x) == I2cStart(x)

\* qm_ss_i2c_irq_transfer_terminate
SsI2cTerminate == I2cTerminate

\* handle_i2c_error_interrupt
SsError == IsrAbort

\* What each handler reads of the transfer under way.
SsEnter(cause, pc) ==
  /\ i2cPc = "none"
  /\ cause \in IntrStat /\ "TX_ABRT" \notin IntrStat
  /\ i2cRead' = i2cTransfer.rx - i2cReadPos
  /\ i2cWrite' = i2cTransfer.tx - i2cWritePos
  /\ i2cPc' = pc
  /\ UNCHANGED <<i2cDriver, i2cRegs, i2cChip, i2cClient>>

\* handle_i2c_rx_avail_interrupt
SsRxEnter == SsEnter("RX_FULL", "rx")

SsReadByte == IsrReadByte

SsReadEnd ==
  /\ i2cPc = "rx" /\ (i2cRead = 0 \/ icRxFlr = 0)
  /\ icRxTl' = RxThreshold(i2cRead, icRxTl)
  /\ i2cPc' = "none"
  /\ UNCHANGED <<i2cDriver, icMask, icTxTl, icEnabled, icAbort, icTxAbrt,
                 i2cChip, i2cRead, i2cWrite, i2cClient>>

\* handle_i2c_tx_req_interrupt
SsTxEnter == SsEnter("TX_EMPTY", "tx")

SsTxDone == IsrTxDone
SsFill == IsrFill
SsReads == IsrReads

SsI2cHandler ==
  \/ SsError
  \/ SsRxEnter \/ SsReadByte \/ SsReadEnd
  \/ SsTxEnter \/ SsTxDone \/ SsFill \/ SsReads

SsI2cNext ==
  /\ \/ \E x \in I2cTransfers : SsI2cStart(x)
     \/ SsI2cTerminate
     \/ SsI2cHandler
     \/ I2cBus
  /\ UNCHANGED i2cUpset

SsI2cSpec == I2cInit /\ [][SsI2cNext]_i2cVars

\* Each interrupt is served in its turn, and the controller works off its FIFO.
SsI2cFairness ==
  /\ WF_i2cVars(SsI2cHandler /\ UNCHANGED i2cUpset)
  /\ SF_i2cVars(SsRxEnter /\ UNCHANGED i2cUpset)
  /\ SF_i2cVars(SsTxEnter /\ UNCHANGED i2cUpset)
  /\ WF_i2cVars(I2cBus /\ UNCHANGED i2cUpset)
=============================================================================
