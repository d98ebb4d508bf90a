SPECIFICATION Spec
CONSTANTS
  BufferSize = 2
  QueueCapacity = 2
  PipeCapacity = 5
  Sizes = {0, 1, 2, 3, 4, 5, 6, 7, 8, 9, 10, 11, 12}
  Disturbances = {}
  ShmLeftovers <- OverlapSafe
  QueueLeftovers <- FreshOnly
  PipeLeftovers = {"none", "fifo"}
PROPERTIES
  Delivered
