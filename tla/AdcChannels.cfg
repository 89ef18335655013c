SPECIFICATION AdcSpec
CONSTANTS
  QM_ADC_FIFO_LEN = 4
  FIFO_INTERRUPT_THRESHOLD = 2
  AdcChannels = {{1}, {2}}
  AdcMaxChannels = 2
  AdcLens = {1, 5}
INVARIANTS AdcChannelsAsAsked
