SPECIFICATION Spec
CONSTANTS
  BufferSize = 2
  QueueCapacity = 2
  PipeCapacity = 2
  Sizes = {0, 1, 2, 3, 4, 5}
  Disturbances = {}
  ShmLeftovers <- ShmWithHeader
  QueueLeftovers <- WithMessages
  PipeLeftovers = {"none"}
INVARIANTS
  OldMessageCaught
