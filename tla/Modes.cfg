SPECIFICATION FairSpec
CONSTANTS
  Built = {1, 2, 3}
  RunModes = {0, 1, 2, 3, 4, 17}
  GraceTicks = 2
  ClockMod = 8
  MaxEvents = 3
INVARIANT NoNullMessage ChoiceKept
PROPERTY Settles
