SPECIFICATION Spec
CONSTANTS
  BufferSize = 2
  QueueCapacity = 2
  PipeCapacity = 3
  Sizes = {0, 1, 4, 7}
  Disturbances = {"kill", "error", "late", "resize"}
  ShmLeftovers <- QuietShm
  QueueLeftovers <- AnyOld
  PipeLeftovers = {"none", "fifo"}
  CalmShm <- FreshShm
  CalmQueues <- NoQueueYet
  CalmPipes = {"none", "fifo"}
INVARIANTS
  TypeOK
  TurnTaking
  SessionInvariant
  FifoOpened
  ExactCopy
  NamesUnlinked
PROPERTIES
  Terminates
  Delivered
  KeepsPromise
