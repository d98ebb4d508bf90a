SPECIFICATION Spec
CONSTANTS
  BufferSize = 2
  Sizes = {0, 1, 2, 4, 5}
  IntHalf = 5
  QueueCapacity = 2
  PipeCapacity = 3
  MaxStored = 6
  LeftTurns = {0, 1}
  Disturbances = {"kill", "error", "full", "late", "resize"}
INVARIANTS
  Acknowledged
  CopyIsPrefix
  OneTurn
PROPERTIES
  Delivered
CHECK_DEADLOCK FALSE
