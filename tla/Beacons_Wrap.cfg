SPECIFICATION FairBeaconSpec
CONSTANTS
  Interval = 2
  WrapAt = 5
  Day = 20
  HalfWord = 7
  FastRate = 2
  SlowRate = 3
  TurnTime = 2
  LowSpeed = 5
  HiSpeed = 70
  TurnMin = 10
  TurnSlope = 240
  Speeds = {0}
  Headings = {0}
  Starts = {3, 16}
PROPERTY BeaconsForEver
