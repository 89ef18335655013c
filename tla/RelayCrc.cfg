SPECIFICATION RelaySpec
CONSTANTS
  a1 = a1
  Aux = {a1}
INVARIANT FailedPacketIgnored
