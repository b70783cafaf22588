SPECIFICATION Spec
CONSTANTS
  Bytes = {"a", "b", "c", "FLAG", "RESET", "ESC"}
  FLAG = "FLAG"
  RESET = "RESET"
  ESC = "ESC"
  Capacity = 4
  AirFrames <- MC_AirFrames
  Valid <- MC_Valid
  MinLen = 2
  BufLen = 3
  MaxFrames = 2
  MaxFlags = 6
INVARIANTS
  TypeOK
  NoFrameTwice
  Resynchronised
  NoFalseReset
