SPECIFICATION FairReaderSpec
CONSTANTS
  Frames <- MC_Frames
  Text <- MC_Text
  ConsoleLines <- MC_ConsoleLines
  Sentences <- MC_Sentences
  BootModes = {"CFG", "KISS", "TRACKER"}
  MaxFrames = 3
  MaxPauses = 1
  RxCapacity = 2
  BufLen = 12
  LenMod = 9
  MAX_TERMS = 4
  MAX_SENTENCEN_CHARS = 80
  MIN_SENTENCEN_CHARS = 7
  GPRMC_TERM_STATUS = 0
  GPGGA_TERM_FIXQUALITY = 0
  GPGGA_TERM_ALTITUDE = 1
  LocationTerms = {0, 1}
INVARIANTS
  NeverMixed
  FixesTold
PROPERTIES
  FrameWhole
  LineWhole
  AllHandled
