SPECIFICATION SerFairSpec
CONSTANTS
  Size = 3
  Data = {a, b}
  None = None
INVARIANTS NoStaleCheck UartNotForgotten
PROPERTIES QueueSpec UartFlushed UartDrains
