SPECIFICATION Spec
CONSTANTS
  BufferSize = 2
  Capacity = 3
  Sizes = {0, 1, 2, 3, 4, 5, 6, 7, 8, 9}
  Disturbances = {"kill", "error", "late", "resize"}
  Leftovers = {"none", "fifo"}
INVARIANTS
  TypeOK
  IInv
  ExactCopy
  NameUnlinked
PROPERTIES
  Terminates
  KeepsPromise
