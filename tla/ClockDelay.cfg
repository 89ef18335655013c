SPECIFICATION ClockSpec
CONSTANTS
  ClkModes = {"si32"}
  ClkDivs = {0}
  TrimPresent = {"si32"}
  WakeEvents = {"gpio"}
  Dividers = {"gpio_db"}
INVARIANTS DelaysLongEnough
