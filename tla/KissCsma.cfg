SPECIFICATION CsmaFairSpec
CONSTANTS
  Capacity = 3
  MaxPackets = 3
INVARIANTS
  SenseBeforeSend
  DropJustified
PROPERTY
  PacketLeaves
