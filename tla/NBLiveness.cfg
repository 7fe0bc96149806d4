\* One publisher, a socket that always takes data, no spurious wakeups:
\* the conditions under which the library keeps its promises.
CONSTANTS
  Clients = {c1}
  Worker = worker
  QueueLimit = 2
  ClientRequests = 4
  WorkerRequests = 0
  MaxRequests <- MCMaxRequests
  MaxEvents = 2
  SocketMayBlock = FALSE
  SpuriousWakeups = FALSE
SPECIFICATION FairSpec
INVARIANTS
  RequestsWatched
  LimitHolds
PROPERTIES
  EveryRequestIsSent
  BlockedPublisherResumes
  AwakeWorkerDrains
CHECK_DEADLOCK FALSE
