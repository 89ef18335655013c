SPECIFICATION DevicesSpec
CONSTANTS
  COMMAND_LINE_LEN = 3
  RING_HISTORY_LEN = 5
  ConsoleChars = {0, 1}
  Completions <- MCCompletions
  MboxChannels = {0, 1}
  MboxMessages = {0, 1}
  Requests = 3
  MaxRetransmit = 3
  MaxRxErrors = 2
  MaxFaults = 4
  FIFO_SIZE = 2
  TX_TL = 0
  RX_TL = 1
  SlvLens = {1, 2}
  SlvMaxBytes = 3
  SlvPrompt = TRUE
  SpsDepth = 8
  SpsTxDefault = 4
  SpsRxDefault = 3
  SpsLens = {1, 3, 5}
  SpsMaxUpdates = 1
  ClkModes = {"si32", "si4", "xtal"}
  ClkDivs = {0, 3}
  TrimPresent = {"si32"}
  WakeEvents = {"gpio", "rtc"}
  Dividers = {"gpio_db"}
  TimerKinds = {"aonpt", "rtc", "pwm", "pwms", "wdt", "pic", "ss"}
  Callbacks = {f, g}
  NoCallback = NULL
  LiveReconfig = {"rtc"}
INVARIANTS
  SlaveAnswers FlashTimingHeld ClockSettled NoExpiryLost
  CallbackGetsItsData
PROPERTIES
  HistoryImplements MboxImplements MboxDelivers
  QdaDialogueEnds SlaveReceives SlavesServe
