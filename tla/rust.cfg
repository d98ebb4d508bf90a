SPECIFICATION Spec
CONSTANTS
  Handlers = {h1, h2}
  Priorities = {1, 2}
  Capacity = 2
  MaxQueues = 2
  MaxSent = 3
INVARIANTS
  NamedQueueIsHeld
  Together
  TakenOnceInOrder
