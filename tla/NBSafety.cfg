\* Two application threads and the callback publish; the socket blocks and
\* unblocks; waits return spuriously.
CONSTANTS
  Clients = {c1, c2}
  Worker = worker
  QueueLimit = 2
  ClientRequests = 2
  WorkerRequests = 1
  MaxRequests <- MCMaxRequests
  MaxEvents = 2
  SocketMayBlock = TRUE
  SpuriousWakeups = TRUE
SPECIFICATION Spec
SYMMETRY ClientSymmetry
INVARIANTS
  TypeOK
  NeverSendsFromEmptyQueue
  WakeupInvariant
  RequestsInThreadOrder
PROPERTIES
  RequestsAreFifo
  EventsAreFifo
CHECK_DEADLOCK FALSE
