SPECIFICATION Spec
CONSTANTS
  BufferSize = 2
  Capacity = 2
  Sizes = {0, 1, 2, 3, 4, 5, 6, 7, 8}
  Disturbances = {"kill", "error", "late", "resize", "clock"}
  Leftovers <- QuietOnly
INVARIANTS
  TypeOK
  IInv
  ExactCopy
  NameUnlinked
PROPERTIES
  Terminates
  KeepsPromise
