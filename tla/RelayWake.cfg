SPECIFICATION RelayFairSpec
CONSTANTS
  a1 = a1
  Aux = {a1}
PROPERTY PacketWakes
