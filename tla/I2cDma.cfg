SPECIFICATION I2cDmaSpec
CONSTANTS
  FIFO_SIZE = 2
  TX_TL = 1
  RX_TL = 1
  I2cMaxLen = 1
PROPERTY DmaTransferAnswered
CONSTRAINT NotTerminated
CHECK_DEADLOCK FALSE
