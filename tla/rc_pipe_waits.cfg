SPECIFICATION Spec
CONSTANTS
  BufferSize = 2
  Capacity = 3
  Sizes = {0, 1, 2, 3}
  Disturbances = {}
  Leftovers = {"none", "fifo"}
PROPERTIES
  ConnectingEnds
