\* Two application threads disconnect or delete the library; one of them publishes.
CONSTANTS
  Clients = {c1, c2}
  Worker = worker
  QueueLimit = 2
  ClientRequests = 2
  Publishers = {c1}
  MaxRequests <- MCMaxRequests
  MaxEvents = 1
  SocketMayBlock = FALSE
  SpuriousWakeups = FALSE
SPECIFICATION FairShutdownSpec
INVARIANTS
  ShutdownTypeOK
  NeverSendsFromEmptyQueue
  FlushedBeforeDelete
  SocketClosedOnce
  DeletedOnce
PROPERTIES
  DeleteReturns
  IdleDisconnectReturns
CHECK_DEADLOCK FALSE
