SPECIFICATION Spec
CONSTANTS
  BufferSize = 2
  Sizes = {0, 1, 2, 3, 4, 5}
  Disturbances = {"kill", "error", "late", "resize"}
  Leftovers <- QuietOnly
INVARIANTS
  TypeOK
  IInv
  TurnTaking
  ExactCopy
  NamesUnlinked
PROPERTIES
  Terminates
  KeepsPromise
