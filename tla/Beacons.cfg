SPECIFICATION BeaconSpec
CONSTANTS
  Interval = 2
  WrapAt = 5
  Day = 20
  HalfWord = 7
  FastRate = 2
  SlowRate = 3
  TurnTime = 2
  LowSpeed = 5
  HiSpeed = 70
  TurnMin = 10
  TurnSlope = 240
  Speeds = {0, 70}
  Headings = {0, 5, 200}
  Starts = {3, 16}
INVARIANTS FixedInTime
PROPERTIES FixedSpaced  TrackerInTime
