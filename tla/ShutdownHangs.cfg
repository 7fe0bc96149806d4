\* One application thread publishes and disconnects.
CONSTANTS
  Clients = {c1}
  Worker = worker
  QueueLimit = 3
  ClientRequests = 2
  Publishers = {c1}
  MaxRequests <- MCMaxRequests
  MaxEvents = 0
  SocketMayBlock = FALSE
  SpuriousWakeups = FALSE
SPECIFICATION FairShutdownSpec
PROPERTY
  DisconnectReturns
CHECK_DEADLOCK FALSE
