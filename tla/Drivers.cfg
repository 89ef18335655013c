SPECIFICATION DriversSpec
CONSTANTS
  FIFO_SIZE = 3
  TX_TL = 1
  RX_TL = 1
  I2cMaxLen = 4
  SPI_FIFOS_DEPTH = 3
  SPI_MST_DEFAULT_TX_THRESHOLD = 1
  SPI_MST_DEFAULT_RX_THRESHOLD = 1
  SpiMaxLen = 4
  FIFO_RX_W_MARK = 2
  FIFO_TX_W_MARK = 1
  UART_FIFO_DEPTH = 2
  UART_FIFO_HALF_DEPTH = 1
  UartWriteLens = {1, 3}
  UartReadLens = {2}
  c1 = c1
  c2 = c2
  DmaChannels = {c1, c2}
  DmaBlocks = {1, 2}
  DmaMaxBuffers = 2
  QM_ADC_FIFO_LEN = 4
  FIFO_INTERRUPT_THRESHOLD = 2
  AdcChannels = {{1}}
  AdcMaxChannels = 2
  AdcLens = {1, 5}
  ClockMhz = {0, 1, 2, 4, 8, 16, 32}
INVARIANTS SclInSpec BusInOrder NoOverrun NeverOverrun NeverPastBuffer OneCallbackPerBuffer AdcNoGaps
PROPERTIES I2cImplements SpiImplements UartImplements TransfersComplete
CONSTRAINT Followed
