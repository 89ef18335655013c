------------------------------ MODULE MCDrivers ------------------------------
(* Instances of the interrupt-driven transfer drivers for TLC.  They share    *)
(* nothing, so that each behaviour is one of one driver, chosen at the start. *)
EXTENDS I2cPolled, I2cDma, I2cTiming, SpiPolled, SpiDma, UartPolled, Dma, Adc

CONSTANTS c1, c2

VARIABLE driver   \* the driver that runs

Drivers ==
  {"i2c", "ss_i2c", "i2c_dma", "i2c_polled", "ss_i2c_polled", "i2c_timing",
   "spi", "ss_spi", "spi_dma", "spi_polled", "ss_spi_polled",
   "uart", "uart_polled", "dma", "adc"}

i2cAll == <<i2cVars, i2cPoll, idVars>>
spiAll == <<spiVars, spiPoll, sdVars>>
uartAll == <<uartVars, uartPoll>>

driversVars == <<driver, i2cAll, sclVars, spiAll, uartAll, dmaVars, adcVars>>

DriversInit ==
  /\ driver \in Drivers
  /\ I2cPolledInit /\ IdInit /\ I2cTimingInit /\ SpiPolledInit /\ SdInit
  /\ UartPolledInit /\ DmaInit /\ AdcInit
  /\ driver # "i2c_timing" =>
       sclDriver = "i2c" /\ sclMhz = CHOOSE mhz \in ClockMhz : TRUE

\* A step A of the driver d, which leaves the other ones alone.
RunI2cAny(d, A) ==
  /\ driver = d /\ A
  /\ UNCHANGED <<driver, sclVars, spiAll, uartAll, dmaVars, adcVars>>
RunI2c(d, A) == RunI2cAny(d, A /\ UNCHANGED <<i2cUpset, i2cPoll, idVars>>)
RunI2cPolled(d, A) == RunI2cAny(d, A /\ UNCHANGED <<i2cUpset, idVars>>)
RunI2cDma(A) == RunI2cAny("i2c_dma", A /\ UNCHANGED i2cPoll)
RunI2cTiming(A) ==
  /\ driver = "i2c_timing" /\ A
  /\ UNCHANGED <<driver, i2cAll, spiAll, uartAll, dmaVars, adcVars>>
RunSpiAny(d, A) ==
  /\ driver = d /\ A
  /\ UNCHANGED <<driver, i2cAll, sclVars, uartAll, dmaVars, adcVars>>
RunSpi(d, A) == RunSpiAny(d, A /\ UNCHANGED <<spiMet, spiPoll, sdVars>>)
RunSsSpi(A) == RunSpiAny("ss_spi", A /\ UNCHANGED <<spiPoll, sdVars>>)
RunSpiPolled(d, A) == RunSpiAny(d, A /\ UNCHANGED <<spiMet, sdVars>>)
RunSpiDma(A) == RunSpiAny("spi_dma", A /\ UNCHANGED spiPoll)
RunUartAny(d, A) ==
  /\ driver = d /\ A
  /\ UNCHANGED <<driver, i2cAll, sclVars, spiAll, dmaVars, adcVars>>
RunUart(A) == RunUartAny("uart", A /\ UNCHANGED uartPoll)
RunUartPolled(A) == RunUartAny("uart_polled", A)
RunDma(A) ==
  /\ driver = "dma" /\ A
  /\ UNCHANGED <<driver, i2cAll, sclVars, spiAll, uartAll, adcVars>>
RunAdc(A) ==
  /\ driver = "adc" /\ A
  /\ UNCHANGED <<driver, i2cAll, sclVars, spiAll, uartAll, dmaVars>>

DriversNext ==
  \/ RunI2c("i2c", I2cNext) \/ RunI2c("ss_i2c", SsI2cNext) \/ RunI2cDma(I2cDmaNext)
  \/ RunI2cPolled("i2c_polled", I2cPolledNext)
  \/ RunI2cPolled("ss_i2c_polled", SsI2cPolledNext)
  \/ RunI2cTiming(I2cTimingNext)
  \/ RunSpi("spi", SpiNext) \/ RunSsSpi(SsSpiNext) \/ RunSpiDma(SpiDmaNext)
  \/ RunSpiPolled("spi_polled", SpiPolledNext)
  \/ RunSpiPolled("ss_spi_polled", SsSpiPolledNext)
  \/ RunUart(UartNext) \/ RunUartPolled(UartPolledNext)
  \/ RunDma(DmaNext) \/ RunAdc(AdcNext)

\* The fairness of the driver that runs: I2cFairness, SsI2cFairness,
\* SpiFairness, SsSpiFairness, UartFairness, DmaFairness, AdcFairness or that of
\* I2cDmaSpec or SpiDmaSpec; a polling function runs on, and its bus.  As only
\* one of them ever has a step enabled, one condition serves for several.
DriversFairness ==
  /\ WF_driversVars(
       \/ RunI2c("i2c", I2cHandler) \/ RunI2c("ss_i2c", SsI2cHandler)
       \/ RunI2cDma(IdHandler)
       \/ RunI2cPolled("i2c_polled", I2cPolls)
       \/ RunI2cPolled("ss_i2c_polled", SsI2cPolls)
       \/ RunSpi("spi", SpiHandler) \/ RunSpi("ss_spi", SsSpiHandler)
       \/ RunSpiDma(SdHandler)
       \/ RunSpiPolled("spi_polled", SpiPolls)
       \/ RunSpiPolled("ss_spi_polled", SsSpiPolls)
       \/ RunUart(DmaWrite) \/ RunUartPolled(UartPolls)
       \/ RunDma(DmaStep(c1)) \/ RunAdc(AdcHandler))
  /\ WF_driversVars(
       \/ RunI2c("i2c", I2cBus) \/ RunI2c("ss_i2c", I2cBus) \/ RunI2cDma(IdBus)
       \/ RunI2cPolled("i2c_polled", I2cPollBus)
       \/ RunI2cPolled("ss_i2c_polled", I2cPollBus)
       \/ RunSpi("spi", SpiBus) \/ RunSsSpi(SsSpiBus) \/ RunSpiDma(SdBus)
       \/ RunSpiPolled("spi_polled", SpiPollBus)
       \/ RunSpiPolled("ss_spi_polled", SpiPollBus)
       \/ RunUart(ShiftLoad) \/ RunUartPolled(UartPollShift)
       \/ RunDma(DmaStep(c2)) \/ RunAdc(AdcHardware))
  /\ WF_driversVars(
       \/ RunI2cDma(IdMove) \/ RunSpiDma(SdMoves)
       \/ RunUart(ShiftOut) \/ RunDma(IsrError))
  /\ WF_driversVars(RunUart(LineStatus))
  /\ SF_driversVars(
       \/ RunI2c("ss_i2c", SsRxEnter) \/ RunSpi("ss_spi", SsSpiRxEnter)
       \/ RunUart(ThrEmpty))
  /\ SF_driversVars(
       \/ RunI2c("ss_i2c", SsTxEnter) \/ RunSpi("ss_spi", SsSpiError)
       \/ RunUart(DataAvailable))

DriversSpec == DriversInit /\ [][DriversNext]_driversVars /\ DriversFairness

\* A client waits for its transfer to be reported, of the DMA on channel c,
\* unless the transfer has met what its driver is not made for.
Waits(c) ==
  \/ i2cBusy /\ ~i2cUpset
  \/ spiBusy /\ spiMet # "broken"
  \/ uartWriting \/ adcOp # "none"
  \/ dmaState[c] = "busy" /\ ~dmaPrv[c].circular /\ c \notin dmaUpset

\* Every transfer is reported in the end, whichever driver carries it out: no
\* threshold, mask or count of one leaves its client waiting.  (I2cCompletes,
\* SpiCompletes, UartWriteCompletes and DmaCompletes in one; the channels of the
\* DMA are alike, and one stands for all.)
TransfersComplete ==
  Waits(c1) ~> ~Waits(c1)

\* A behaviour of the transfers by DMA of qm_i2c.c, and of the DMA driver's own,
\* is followed up to the first such thing.
Followed == ~i2cUpset /\ dmaUpset = {}
=============================================================================
