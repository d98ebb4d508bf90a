SPECIFICATION SafetySpec
CONSTANTS
  BufferSize = 2
  Capacity = 2
  Sizes = {0, 1, 2, 3}
  Disturbances = {}
  Leftovers = {"none", "fifo"}
INVARIANTS
  OpenedInBothSides
