SPECIFICATION Spec
CONSTANTS
  Transmissions <- MC_Transmissions
  PreambleLen = 1
  NoiseBits = 9
  Capacity = 4
INVARIANTS
  FramesArrive
PROPERTY
  BytesSpec
