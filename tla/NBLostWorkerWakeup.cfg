\* No requests at all: two events and the worker.
CONSTANTS
  Clients = {c1}
  Worker = worker
  QueueLimit = 2
  ClientRequests = 0
  WorkerRequests = 0
  MaxRequests <- MCMaxRequests
  MaxEvents = 2
  SocketMayBlock = FALSE
  SpuriousWakeups = FALSE
SPECIFICATION FairSpec
PROPERTY
  EveryEventIsHandled
CHECK_DEADLOCK FALSE
