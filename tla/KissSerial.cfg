SPECIFICATION KissSpec
CONSTANTS
  Text = {}
  Frames <- MC_LongFrames
  MaxFrames = 1
  MaxPauses = 0
  RxCapacity = 3
  BufLen = 9
  LenMod = 6
INVARIANT
  OverflowIsReset
