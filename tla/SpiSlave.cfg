SPECIFICATION SpsSpec
CONSTANTS
  SpsDepth = 8
  SpsTxDefault = 4
  SpsRxDefault = 3
  SpsLens = {2, 3}
  SpsMaxUpdates = 1
PROPERTY SpsEnds
CHECK_DEADLOCK FALSE
