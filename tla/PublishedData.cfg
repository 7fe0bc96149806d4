\* Two direct buffers, three requests, one write by the application.
CONSTANTS
  Buffers = {b1, b2}
  MaxRequests = 3
  MaxWrites = 1
SPECIFICATION Spec
INVARIANTS
  RequestMemoryFreedOnce
  ForeignMemoryIsLive
  SentAsMeant
CHECK_DEADLOCK FALSE
