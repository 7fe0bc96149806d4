\* Two publishers.
CONSTANTS
  Clients = {c1, c2}
  Worker = worker
  QueueLimit = 2
  ClientRequests = 2
  WorkerRequests = 0
  MaxRequests <- MCMaxRequests
  MaxEvents = 0
  SocketMayBlock = FALSE
  SpuriousWakeups = FALSE
SPECIFICATION FairSpec
PROPERTY
  BlockedPublisherResumes
CHECK_DEADLOCK FALSE
