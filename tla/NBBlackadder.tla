---------------------------- MODULE NBBlackadder ----------------------------
(***************************************************************************)
(* The non-blocking client library (nb_blackadder.cpp) between the moment  *)
(* its constructor has started the two threads and the moment somebody     *)
(* disconnects it.                                                         *)
(*                                                                         *)
(*   publishers --push--> output_queue --selector--> netlink socket        *)
(*   netlink socket --selector--> event_queue --worker--> callback         *)
(*                                                                         *)
(* Every critical section of the code, from pthread_mutex_lock to the      *)
(* unlock or the pthread_cond_wait that ends it, is one action; between    *)
(* them the threads interleave freely.  read_set and write_set are touched *)
(* by the selector alone.  A request is the pair <<t, n>>: the n-th        *)
(* request of thread t.  Events are numbered as they reach the socket.     *)
(***************************************************************************)
EXTENDS Integers, Sequences, FiniteSets

CONSTANTS
  Clients,          \* application threads that issue requests
  Worker,           \* the worker thread, which may publish from its callback
  QueueLimit,       \* 1000 in push and publish_data
  MaxRequests,      \* MaxRequests[t] bounds the requests thread t issues
  MaxEvents,        \* bounds the events the node sends
  SocketMayBlock,   \* can the socket's send buffer fill up?
  SpuriousWakeups   \* may pthread_cond_wait return without a signal?

Threads == Clients \union {Worker}

ASSUME WorkerAssumption == Worker \notin Clients
ASSUME LimitAssumption == QueueLimit \in Nat \ {0}
ASSUME BoundsAssumption == MaxRequests \in [Threads -> Nat] /\ MaxEvents \in Nat
ASSUME EnvironmentAssumption ==
  SocketMayBlock \in BOOLEAN /\ SpuriousWakeups \in BOOLEAN

Requests == UNION {{t} \X (1..MaxRequests[t]) : t \in Threads}
Events == 1..MaxEvents

Pipe == "pipe"   \* pipe_fds[0]
Sock == "sock"   \* sock_fd while the socket is open

VARIABLES
  \* the path of the requests
  output_queue,      \* guarded by selector_mutex
  pipe,              \* bytes in the self-pipe
  overflow_waiters,  \* threads inside pthread_cond_wait(&queue_overflow_cond)
  pushed,            \* pushed[t]: requests of thread t so far
  transmitted,       \* requests the node has accepted (history)
  \* the selector thread
  sel_pc, read_set, write_set,
  received,          \* the event built from a datagram, not yet queued
  \* the path of the events
  inbox,             \* datagrams in the socket's receive buffer
  arrived,           \* events sent by the node so far
  event_queue,       \* guarded by worker_mutex
  worker_pc,
  cf,                \* the registered callback
  discarded,         \* events given to defaultCallback (history)
  handled,           \* events given to the application's callback (history)
  \* the socket
  sock_fd,           \* the descriptor; only disconnect changes it (NBShutdown)
  writable           \* would the socket take a datagram?

requestVars == <<output_queue, pipe, overflow_waiters, pushed, transmitted>>
selectorVars == <<sel_pc, read_set, write_set, received>>
eventVars == <<event_queue, worker_pc, cf, discarded, handled>>
socketVars == <<inbox, arrived, sock_fd, writable>>
vars == <<requestVars, selectorVars, eventVars, socketVars>>

\* Fault: the constructor forgets cf = &defaultCallback (line 248).
InitWithoutCallback ==
  /\ output_queue = <<>> /\ pipe = 0 /\ overflow_waiters = {}
  /\ pushed = [t \in Threads |-> 0] /\ transmitted = <<>>
  /\ sock_fd = Sock /\ writable = TRUE /\ inbox = <<>> /\ arrived = 0
  /\ sel_pc = "select" /\ read_set = {Pipe, sock_fd} /\ write_set = {} /\ received = <<>>
  /\ event_queue = <<>> /\ worker_pc = "start"
  /\ cf = "null" /\ discarded = <<>> /\ handled = <<>>

Init ==
  /\ output_queue = <<>>
  /\ pipe = 0
  /\ overflow_waiters = {}
  /\ pushed = [t \in Threads |-> 0]
  /\ transmitted = <<>>
  /\ sock_fd = Sock
  /\ sel_pc = "select"
  /\ read_set = {Pipe, sock_fd}
  /\ write_set = {}
  /\ received = <<>>
  /\ inbox = <<>>
  /\ arrived = 0
  /\ event_queue = <<>>
  /\ worker_pc = "start"
  /\ cf = "default"
  /\ discarded = <<>>
  /\ handled = <<>>
  /\ writable = TRUE

(***************************************************************************)
(* Publishers                                                              *)
(***************************************************************************)

\* Fault: a byte for every request.
PipeAfterEveryPush(queue) == pipe + 1

\* Fault: the size is compared with 0 after the push.
PipeAfterPushOntoEmpty(queue) == IF Len(queue) = 0 THEN pipe + 1 ELSE pipe

\* A byte goes into the pipe when the request just queued is the only one.
PipeAfterPush(queue) == IF Len(queue) = 1 THEN pipe + 1 ELSE pipe

\* Fault: off by one, the publisher waits above the limit.
WaitersAboveLimit(queue, t) ==
  IF Len(queue) > QueueLimit THEN overflow_waiters \union {t} ELSE overflow_waiters

\* The publisher waits when its request is exactly the limit-th one.
WaitersAfterPush(queue, t) ==
  IF Len(queue) = QueueLimit THEN overflow_waiters \union {t} ELSE overflow_waiters

\* Can thread t call the library?  The worker only does from its callback.
Runs(t) ==
  /\ t \notin overflow_waiters
  /\ t = Worker => worker_pc = "callback"

\* push and publish_data: the same critical section after their validation.
Push(t) ==
  /\ Runs(t)
  /\ pushed[t] < MaxRequests[t]
  /\ pushed' = [pushed EXCEPT ![t] = @ + 1]
  /\ output_queue' = Append(output_queue, <<t, pushed[t] + 1>>)
  /\ pipe' = PipeAfterPush(output_queue')
  /\ overflow_waiters' = WaitersAfterPush(output_queue', t)
  /\ UNCHANGED <<transmitted, selectorVars, eventVars, socketVars>>

\* pthread_cond_wait(&queue_overflow_cond) returns without a signal; the code
\* does not look at the queue again.
PublisherSpuriousWakeup(t) ==
  /\ SpuriousWakeups
  /\ t \in overflow_waiters
  /\ overflow_waiters' = overflow_waiters \ {t}
  /\ UNCHANGED <<output_queue, pipe, pushed, transmitted>>
  /\ UNCHANGED <<selectorVars, eventVars, socketVars>>

(***************************************************************************)
(* The selector thread                                                     *)
(***************************************************************************)

\* The stages of one iteration, each skipped when its FD_ISSET is false.
AfterReceive(ws) == IF sock_fd \in ws THEN "send" ELSE "select"
AfterPipe(rs, ws) == IF sock_fd \in rs THEN "receive" ELSE AfterReceive(ws)
AfterSelect(rs, ws) == IF Pipe \in rs THEN "read_pipe" ELSE AfterPipe(rs, ws)

\* Fault: the descriptors are not registered for reading again.
GoToWithoutReset(stage, rs) == sel_pc' = stage /\ read_set' = rs

\* An iteration ends by registering both descriptors for reading again.
GoTo(stage, rs) ==
  /\ sel_pc' = stage
  /\ read_set' = IF stage = "select" THEN {Pipe, sock_fd} ELSE rs

Readable(fd) == IF fd = Pipe THEN pipe > 0 ELSE inbox /= <<>>

\* select returns once a registered descriptor is ready and REPLACES both sets
\* by the ready part of them.
ReadySet(fds) == {fd \in fds : Readable(fd)}
WritableSet(fds) == {fd \in fds : writable}

Select ==
  /\ sel_pc = "select"
  /\ ReadySet(read_set) \union WritableSet(write_set) /= {}
  /\ write_set' = WritableSet(write_set)
  /\ GoTo(AfterSelect(ReadySet(read_set), write_set'), ReadySet(read_set))
  /\ UNCHANGED <<received, requestVars, eventVars, socketVars>>

\* One byte out of the pipe; the socket is registered for writing, and this
\* iteration already treats it as writable.
ReadPipe ==
  /\ sel_pc = "read_pipe"
  /\ pipe > 0
  /\ pipe' = pipe - 1
  /\ write_set' = {sock_fd}
  /\ GoTo(AfterPipe(read_set, write_set'), read_set)
  /\ UNCHANGED <<output_queue, overflow_waiters, pushed, transmitted, received>>
  /\ UNCHANGED <<eventVars, socketVars>>

\* Fault: the datagram is only peeked at and stays in the socket.
ReceivePeekOnly ==
  /\ sel_pc = "receive"
  /\ inbox /= <<>>
  /\ received' = <<Head(inbox)>>
  /\ GoTo("dispatch", read_set)
  /\ UNCHANGED <<write_set, inbox, arrived, sock_fd, writable, requestVars, eventVars>>

\* Peek at the next datagram for its size, receive it, build the Event.
ReceiveEvent ==
  /\ sel_pc = "receive"
  /\ inbox /= <<>>
  /\ received' = <<Head(inbox)>>
  /\ inbox' = Tail(inbox)
  /\ GoTo("dispatch", read_set)
  /\ UNCHANGED <<write_set, arrived, sock_fd, writable, requestVars, eventVars>>

\* The peek fails or finds nothing: no event, the iteration goes on.
ReceiveNothing ==
  /\ sel_pc = "receive"
  /\ GoTo(AfterReceive(write_set), read_set)
  /\ UNCHANGED <<write_set, received, requestVars, eventVars, socketVars>>

\* pthread_cond_signal(&worker_cond): lost unless the worker is waiting.
WorkerAfterSignal == IF worker_pc = "waiting" THEN "loop" ELSE worker_pc

DispatchEvent ==
  /\ sel_pc = "dispatch"
  /\ event_queue' = event_queue \o received
  /\ received' = <<>>
  /\ worker_pc' = WorkerAfterSignal
  /\ GoTo(AfterReceive(write_set), read_set)
  /\ UNCHANGED <<write_set, cf, discarded, handled, requestVars, socketVars>>

\* Fault: the socket is registered for writing whatever is left.
WriteSetAlways(queue) == {sock_fd}

\* Fault: nobody is told that the queue is empty.
SignalNobody(queue) == UNCHANGED overflow_waiters

\* After a send the socket stays registered iff requests are left; when none
\* is, pthread_cond_signal(&queue_overflow_cond) releases one waiter.
WriteSetAfterSend(queue) == IF queue /= <<>> THEN {sock_fd} ELSE {}

SignalOverflow(queue) ==
  IF queue = <<>> /\ overflow_waiters /= {}
  THEN \E t \in overflow_waiters : overflow_waiters' = overflow_waiters \ {t}
  ELSE UNCHANGED overflow_waiters

\* Fault: the request is sent and not popped.
SendWithoutPop ==
  /\ sel_pc = "send"
  /\ writable
  /\ transmitted' = Append(transmitted, Head(output_queue))
  /\ write_set' = WriteSetAfterSend(output_queue)
  /\ GoTo("select", read_set)
  /\ UNCHANGED <<output_queue, pipe, overflow_waiters, pushed, received>>
  /\ UNCHANGED <<eventVars, socketVars>>

SendSucceeds ==
  /\ sel_pc = "send"
  /\ writable
  /\ transmitted' = Append(transmitted, Head(output_queue))
  /\ output_queue' = Tail(output_queue)
  /\ write_set' = WriteSetAfterSend(output_queue')
  /\ SignalOverflow(output_queue')
  /\ GoTo("select", read_set)
  /\ UNCHANGED <<pipe, pushed, received, eventVars, socketVars>>

\* Fault: the request is popped although sendmsg failed.
SendFailsAndPops ==
  /\ sel_pc = "send"
  /\ output_queue' = Tail(output_queue)
  /\ write_set' = WriteSetAfterSend(output_queue')
  /\ SignalOverflow(output_queue')
  /\ GoTo("select", read_set)
  /\ UNCHANGED <<pipe, pushed, transmitted, received, eventVars, socketVars>>

\* sendmsg returns -1 (EAGAIN or any other error): the request stays in front.
SendFails ==
  /\ sel_pc = "send"
  /\ write_set' = WriteSetAfterSend(output_queue)
  /\ SignalOverflow(output_queue)
  /\ GoTo("select", read_set)
  /\ UNCHANGED <<output_queue, pipe, pushed, transmitted, received>>
  /\ UNCHANGED <<eventVars, socketVars>>

Send == SendSucceeds \/ SendFails

(***************************************************************************)
(* The worker thread                                                       *)
(***************************************************************************)

\* Lock worker_mutex and wait, whatever event_queue holds.
WorkerWaits ==
  /\ worker_pc = "start"
  /\ worker_pc' = "waiting"
  /\ UNCHANGED <<event_queue, cf, discarded, handled>>
  /\ UNCHANGED <<requestVars, selectorVars, socketVars>>

WorkerSpuriousWakeup ==
  /\ SpuriousWakeups
  /\ worker_pc = "waiting"
  /\ worker_pc' = "loop"
  /\ UNCHANGED <<event_queue, cf, discarded, handled>>
  /\ UNCHANGED <<requestVars, selectorVars, socketVars>>

\* Pop the oldest event, release the mutex and call cf with it.
WorkerCallsBack ==
  /\ worker_pc = "loop"
  /\ event_queue /= <<>>
  /\ event_queue' = Tail(event_queue)
  /\ IF cf = "default"
     THEN discarded' = Append(discarded, Head(event_queue)) /\ UNCHANGED handled
     ELSE handled' = Append(handled, Head(event_queue)) /\ UNCHANGED discarded
  /\ worker_pc' = "callback"
  /\ UNCHANGED <<cf, requestVars, selectorVars, socketVars>>

\* Fault: one event per wakeup, "if" in place of "while" (line 65).
CallbackReturnsToWait ==
  /\ worker_pc = "callback"
  /\ Worker \notin overflow_waiters
  /\ worker_pc' = "start"
  /\ UNCHANGED <<event_queue, cf, discarded, handled>>
  /\ UNCHANGED <<requestVars, selectorVars, socketVars>>

\* The callback returns and the mutex is taken again.
CallbackReturns ==
  /\ worker_pc = "callback"
  /\ Worker \notin overflow_waiters
  /\ worker_pc' = "loop"
  /\ UNCHANGED <<event_queue, cf, discarded, handled>>
  /\ UNCHANGED <<requestVars, selectorVars, socketVars>>

\* The queue is empty: release the mutex and go round to wait again.
WorkerDrained ==
  /\ worker_pc = "loop"
  /\ event_queue = <<>>
  /\ worker_pc' = "start"
  /\ UNCHANGED <<event_queue, cf, discarded, handled>>
  /\ UNCHANGED <<requestVars, selectorVars, socketVars>>

WorkerStep ==
  WorkerWaits \/ WorkerSpuriousWakeup \/ WorkerCallsBack \/ CallbackReturns \/ WorkerDrained

\* setCallback, by an application thread.
SetCallback ==
  /\ cf = "default"
  /\ cf' = "user"
  /\ UNCHANGED <<event_queue, worker_pc, discarded, handled>>
  /\ UNCHANGED <<requestVars, selectorVars, socketVars>>

(***************************************************************************)
(* The environment: the node and the socket                                *)
(***************************************************************************)

EventArrives ==
  /\ arrived < MaxEvents
  /\ arrived' = arrived + 1
  /\ inbox' = Append(inbox, arrived + 1)
  /\ UNCHANGED <<sock_fd, writable, requestVars, selectorVars, eventVars>>

SocketBlocks ==
  /\ SocketMayBlock
  /\ writable
  /\ writable' = FALSE
  /\ UNCHANGED <<inbox, arrived, sock_fd, requestVars, selectorVars, eventVars>>

SocketUnblocks ==
  /\ ~writable
  /\ writable' = TRUE
  /\ UNCHANGED <<inbox, arrived, sock_fd, requestVars, selectorVars, eventVars>>

Next ==
  \/ \E t \in Threads : Push(t)
  \/ \E t \in Threads : PublisherSpuriousWakeup(t)
  \/ Select
  \/ ReadPipe
  \/ ReceiveEvent
  \/ ReceiveNothing
  \/ DispatchEvent
  \/ SendSucceeds
  \/ SendFails
  \/ WorkerWaits
  \/ WorkerSpuriousWakeup
  \/ WorkerCallsBack
  \/ CallbackReturns
  \/ WorkerDrained
  \/ SetCallback
  \/ EventArrives
  \/ SocketBlocks
  \/ SocketUnblocks

Spec == Init /\ [][Next]_vars

\* The scheduler runs every thread that can run; the application's callback
\* returns.  The socket is as kind as it can be: it may be full for a while but
\* has room for good in the end, a datagram it announces again and again is
\* read in the end, and a request offered again and again is taken in the end.
Fairness ==
  /\ WF_vars(Select)
  /\ WF_vars(ReadPipe)
  /\ WF_vars(ReceiveEvent \/ ReceiveNothing)
  /\ SF_vars(ReceiveEvent)
  /\ WF_vars(DispatchEvent)
  /\ WF_vars(Send)
  /\ SF_vars(SendSucceeds)
  /\ WF_vars(WorkerWaits)
  /\ WF_vars(WorkerCallsBack)
  /\ WF_vars(CallbackReturns)
  /\ WF_vars(WorkerDrained)
  /\ <>[]writable

FairSpec == Spec /\ Fairness

(***************************************************************************)
(* Properties                                                              *)
(***************************************************************************)

\* The values the variables range over; a datagram in the selector's hand is
\* there exactly between recvmsg and the push into event_queue.
TypeOK ==
  /\ output_queue \in Seq(Requests)
  /\ pipe \in Nat
  /\ overflow_waiters \subseteq Threads
  /\ pushed \in [Threads -> Nat]
  /\ transmitted \in Seq(Requests)
  /\ sel_pc \in {"select", "read_pipe", "receive", "dispatch", "send"}
  /\ read_set \subseteq {Pipe, Sock}
  /\ write_set \subseteq {Sock}
  /\ received \in Seq(Events)
  /\ inbox \in Seq(Events)
  /\ arrived \in Nat
  /\ event_queue \in Seq(Events)
  /\ worker_pc \in {"start", "waiting", "loop", "callback"}
  /\ cf \in {"default", "user"}
  /\ discarded \in Seq(Events)
  /\ handled \in Seq(Events)
  /\ sock_fd = Sock
  /\ writable \in BOOLEAN

\* The selector calls output_queue.front() without looking at the size (line
\* 144); it never does so on an empty queue.
NeverSendsFromEmptyQueue == sel_pc = "send" => output_queue /= <<>>

\* How pipe, write_set and queue go together, as one inductive statement.  At
\* most one byte sits in the pipe, so the write under selector_mutex (line 448)
\* cannot block however many requests are pushed; a byte announces requests the
\* socket is not registered for and is read only while it does; the socket is
\* registered for writing only while requests are queued, and the send stage is
\* entered only with the socket registered.
WakeupInvariant ==
  /\ pipe \in {0, 1}
  /\ pipe = 1 => output_queue /= <<>> /\ write_set = {}
  /\ write_set /= {} => output_queue /= <<>>
  /\ sel_pc = "send" => write_set = {Sock}
  /\ sel_pc = "read_pipe" => pipe = 1

\* While the socket accepts data, queued requests are never out of the
\* selector's sight: a byte is in the pipe or the socket is registered.
RequestsWatched ==
  ~SocketMayBlock /\ output_queue /= <<>> => pipe = 1 \/ write_set = {Sock}

\* The requests on their way through the library: those the node has, then
\* those still queued.
Path == transmitted \o output_queue

\* Every request a thread has issued is transmitted or queued, once, and a
\* thread's requests leave in the order it issued them, whatever the sends
\* that failed in between: the path holds the numbers 1..pushed[t] of thread t,
\* all of them and no other, and each after all the smaller ones.
RequestsInThreadOrder ==
  \A t \in Threads :
    /\ \A n \in 1..pushed[t] : \E i \in DOMAIN Path : Path[i] = <<t, n>>
    /\ \A i \in DOMAIN Path : Path[i][1] = t => Path[i][2] \in 1..pushed[t]
    /\ \A i, j \in DOMAIN Path :
         i < j /\ Path[i][1] = t /\ Path[j][1] = t => Path[i][2] < Path[j][2]

\* Requests go through the library as through a FIFO channel: Submit is push,
\* Deliver a successful sendmsg.
RequestChannel == INSTANCE FifoChannel WITH
  Messages <- Requests,
  accepted <- Path,
  delivered <- transmitted

RequestsAreFifo == RequestChannel!Spec

\* Events go from the socket to the callbacks as through a FIFO channel:
\* Submit is the arrival of a datagram, Deliver a call of cf; the events given
\* to the default callback all precede those given to the application's.
EventChannel == INSTANCE FifoChannel WITH
  Messages <- Events,
  accepted <- ((((discarded \o handled) \o event_queue) \o received) \o inbox),
  delivered <- discarded \o handled

EventsAreFifo == EventChannel!Spec

\* "putting a limit to the pending requests" (nb_blackadder.hpp:237): no more
\* than QueueLimit requests are queued.
LimitHolds == Len(output_queue) <= QueueLimit

\* "the selector thread will be notified to send the request"
\* (nb_blackadder.hpp:57): every request pushed is transmitted in the end.
EveryRequestIsSent ==
  \A t \in Threads : \A n \in 1..MaxRequests[t] :
    pushed[t] >= n ~> \E i \in DOMAIN transmitted : transmitted[i] = <<t, n>>

\* "It won't block" (nb_blackadder.hpp:57): a publisher the full queue has made
\* wait goes on in the end.
BlockedPublisherResumes ==
  \A t \in Threads : t \in overflow_waiters ~> t \notin overflow_waiters

Called(e) ==
  \/ \E i \in DOMAIN discarded : discarded[i] = e
  \/ \E i \in DOMAIN handled : handled[i] = e

\* "The selector thread signals that condition whenever a new event from
\* blackadder was read" (nb_blackadder.hpp:242): every event that arrives is
\* handed to the callback in the end.
EveryEventIsHandled ==
  \A e \in 1..MaxEvents : arrived >= e ~> Called(e)

\* Events queued while the worker is on its feet are all handed to the
\* callback, and so is every older event: a wakeup drains the backlog.
AwakeWorkerDrains ==
  \A e \in 1..MaxEvents :
    (worker_pc \in {"loop", "callback"} /\ \E i \in DOMAIN event_queue : event_queue[i] = e)
      ~> Called(e)
=============================================================================
