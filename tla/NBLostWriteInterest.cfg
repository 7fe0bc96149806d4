\* The socket may block for a while.
CONSTANTS
  Clients = {c1}
  Worker = worker
  QueueLimit = 5
  ClientRequests = 2
  WorkerRequests = 0
  MaxRequests <- MCMaxRequests
  MaxEvents = 1
  SocketMayBlock = TRUE
  SpuriousWakeups = FALSE
SPECIFICATION FairSpec
PROPERTY
  EveryRequestIsSent
CHECK_DEADLOCK FALSE
