SPECIFICATION FairSpec
CONSTANTS
  Plain = {"p"}
  Capacity = 3
  PreambleLen = 2
  TrailerLen = 2
  Frames <- MC_Frames
  MaxFrames = 2
INVARIANTS  NoLostWakeup
PROPERTIES  FlushMeansSent PttReleased
