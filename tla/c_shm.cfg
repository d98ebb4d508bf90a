SPECIFICATION Spec
CONSTANTS
  BufferSize = 2
  Sizes = {3}
  IntHalf = 5
  QueueCapacity = 2
  PipeCapacity = 3
  MaxStored = 8
  LeftTurns = {}
  Disturbances = {}
INVARIANTS
  ShmCopied
CHECK_DEADLOCK FALSE
