\* Two consumers, two events, a queue that holds one.
CONSTANTS
  Consumers = {c1, c2}
  NumEvents = 2
  QueueSize = 1
SPECIFICATION Spec
SYMMETRY ConsumerSymmetry
INVARIANTS
  TypeOK
  DeletedOnceUnlessShared
  MemoryIsLive
  NothingElseIsForgotten
  OwnershipIsExclusive
CHECK_DEADLOCK FALSE
