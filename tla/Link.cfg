SPECIFICATION LinkSpec
CONSTANTS
  MaxRetransmit = 8
  MaxRxErrors = 5
  Room = 2
  Lengths = {1, 2, 3}
  LateSender = FALSE
  MaxFaults = 4
  MaxEarly = 0
  a1 = a1
  Aux = {a1}
INVARIANTS
  WithinBuffer PromptInStep RequestsWhole
  ModeCacheSound SleepsListening OutputsAgree
PROPERTIES PromptDelivered PackageEnds RoundEnds CommandObeyed
