------------------------- MODULE NBBlackadderProofs -------------------------
(***************************************************************************)
(* Proofs about NBBlackadder for every number of publishers, every queue   *)
(* limit and every number of requests and events.                          *)
(*                                                                         *)
(* TypeOK is not inductive: a successful send takes the head of            *)
(* output_queue, which is a request only if the queue is not empty, and    *)
(* that is what WakeupInvariant gives.  The two are proved together.       *)
(***************************************************************************)
EXTENDS NBBlackadder, SequenceTheorems, TLAPS

IInv == TypeOK /\ WakeupInvariant

\* The n-th request of thread t, within the thread's bound, is a request.
LEMMA RequestsMember ==
  ASSUME NEW t \in Threads, NEW n \in 1..MaxRequests[t]
  PROVE  <<t, n>> \in Requests
<1>1. <<t, n>> \in {t} \X (1..MaxRequests[t])
  OBVIOUS
<1> QED
  BY <1>1 DEF Requests

LEMMA IInvInit == Init => IInv
<1> SUFFICES ASSUME Init PROVE IInv
  OBVIOUS
<1>1. TypeOK
  BY DEF Init, TypeOK, Pipe, Sock
<1>2. WakeupInvariant
  BY DEF Init, WakeupInvariant
<1> QED
  BY <1>1, <1>2 DEF IInv

LEMMA IInvPush ==
  ASSUME IInv, NEW t \in Threads, Push(t)
  PROVE  IInv'
<1> DEFINE r == <<t, pushed[t] + 1>>
<1>1. r \in Requests
  <2>1. pushed[t] + 1 \in 1..MaxRequests[t]
    <3>1. pushed[t] \in Nat
      BY DEF IInv, TypeOK
    <3>2. MaxRequests[t] \in Nat
      BY BoundsAssumption
    <3>3. pushed[t] < MaxRequests[t]
      BY DEF Push
    <3> QED
      BY <3>1, <3>2, <3>3
  <2> QED
    BY <2>1, RequestsMember
<1>2. /\ output_queue' \in Seq(Requests)
      /\ output_queue' /= <<>>
      /\ Len(output_queue') = Len(output_queue) + 1
  <2>1. output_queue \in Seq(Requests)
    BY DEF IInv, TypeOK
  <2>2. output_queue' = Append(output_queue, r)
    BY DEF Push
  <2> QED
    BY ONLY <1>1, <2>1, <2>2, AppendProperties
<1>3. pipe' = IF output_queue = <<>> THEN pipe + 1 ELSE pipe
  BY <1>2, EmptySeq DEF IInv, TypeOK, Push, PipeAfterPush
<1>4. TypeOK'
  <2>1. pipe' \in Nat
    BY <1>3 DEF IInv, TypeOK
  <2>2. pushed' \in [Threads -> Nat]
    BY DEF IInv, TypeOK, Push
  <2>3. overflow_waiters' \subseteq Threads
    BY DEF IInv, TypeOK, Push, WaitersAfterPush
  <2> QED
    BY <1>2, <2>1, <2>2, <2>3 DEF IInv, TypeOK, Push, selectorVars, eventVars, socketVars
<1>5. WakeupInvariant'
  BY <1>2, <1>3 DEF IInv, TypeOK, WakeupInvariant, Push, selectorVars
<1> QED
  BY <1>4, <1>5 DEF IInv

\* Select narrows both sets to what is ready and enters a stage the sets allow.
LEMMA IInvSelect ==
  ASSUME IInv, Select
  PROVE  IInv'
<1>1. write_set' \subseteq write_set
  BY DEF Select, WritableSet
<1>2. sel_pc' = "send" => write_set' = {Sock}
  BY <1>1 DEF IInv, TypeOK, Select, GoTo, AfterSelect, AfterPipe, AfterReceive
<1>3. sel_pc' = "read_pipe" => pipe = 1
  <2>1. SUFFICES ASSUME sel_pc' = "read_pipe" PROVE pipe > 0
    BY DEF IInv, WakeupInvariant
  <2>2. Pipe \in ReadySet(read_set)
    BY <2>1 DEF Select, GoTo, AfterSelect, AfterPipe, AfterReceive
  <2> QED
    BY <2>2 DEF ReadySet, Readable
<1>4. sel_pc' \in {"select", "read_pipe", "receive", "send"} /\ read_set' \subseteq {Pipe, Sock}
  BY DEF IInv, TypeOK, Select, GoTo, AfterSelect, AfterPipe, AfterReceive, ReadySet
<1>5. TypeOK'
  BY <1>1, <1>4 DEF IInv, TypeOK, Select, requestVars, eventVars, socketVars
<1>6. WakeupInvariant'
  BY <1>1, <1>2, <1>3 DEF IInv, TypeOK, WakeupInvariant, Select, requestVars
<1> QED
  BY <1>5, <1>6 DEF IInv

LEMMA IInvReadPipe ==
  ASSUME IInv, ReadPipe
  PROVE  IInv'
<1>1. pipe = 1 /\ pipe' = 0 /\ output_queue' = output_queue /\ output_queue /= <<>>
  BY DEF IInv, WakeupInvariant, ReadPipe
<1>2. write_set' = {Sock}
  BY DEF IInv, TypeOK, ReadPipe
<1>3. sel_pc' \in {"receive", "send"} /\ read_set' \subseteq {Pipe, Sock}
  BY <1>2 DEF IInv, TypeOK, ReadPipe, GoTo, AfterPipe, AfterReceive
<1>4. TypeOK'
  BY <1>1, <1>2, <1>3 DEF IInv, TypeOK, ReadPipe, eventVars, socketVars
<1>5. WakeupInvariant'
  BY <1>1, <1>2, <1>3 DEF WakeupInvariant
<1> QED
  BY <1>4, <1>5 DEF IInv

LEMMA IInvReceiveEvent ==
  ASSUME IInv, ReceiveEvent
  PROVE  IInv'
<1>1. Head(inbox) \in Events /\ Tail(inbox) \in Seq(Events)
  BY HeadTailProperties DEF IInv, TypeOK, ReceiveEvent
<1>2. sel_pc' = "dispatch" /\ read_set' = read_set
  BY DEF ReceiveEvent, GoTo
<1>3. TypeOK'
  BY <1>1, <1>2 DEF IInv, TypeOK, ReceiveEvent, requestVars, eventVars
<1>4. WakeupInvariant'
  BY <1>2 DEF IInv, WakeupInvariant, ReceiveEvent, requestVars
<1> QED
  BY <1>3, <1>4 DEF IInv

\* After the receive stage the iteration goes on with the sets as they are.
LEMMA AfterReceiveStage ==
  ASSUME TypeOK, GoTo(AfterReceive(write_set), read_set)
  PROVE  /\ sel_pc' \in {"select", "send"}
         /\ read_set' \subseteq {Pipe, Sock}
         /\ sel_pc' = "send" => write_set = {Sock}
BY DEF TypeOK, GoTo, AfterReceive

LEMMA IInvReceiveNothing ==
  ASSUME IInv, ReceiveNothing
  PROVE  IInv'
<1>1. /\ sel_pc' \in {"select", "send"}
      /\ read_set' \subseteq {Pipe, Sock}
      /\ sel_pc' = "send" => write_set = {Sock}
  BY AfterReceiveStage DEF IInv, ReceiveNothing
<1>2. TypeOK'
  BY <1>1 DEF IInv, TypeOK, ReceiveNothing, requestVars, eventVars, socketVars
<1>3. WakeupInvariant'
  BY <1>1 DEF IInv, WakeupInvariant, ReceiveNothing, requestVars
<1> QED
  BY <1>2, <1>3 DEF IInv

LEMMA IInvDispatchEvent ==
  ASSUME IInv, DispatchEvent
  PROVE  IInv'
<1>1. /\ sel_pc' \in {"select", "send"}
      /\ read_set' \subseteq {Pipe, Sock}
      /\ sel_pc' = "send" => write_set = {Sock}
  BY AfterReceiveStage DEF IInv, DispatchEvent
<1>2. event_queue' \in Seq(Events) /\ received' \in Seq(Events)
  BY DEF IInv, TypeOK, DispatchEvent
<1>3. worker_pc' \in {"start", "waiting", "loop", "callback"}
  BY DEF IInv, TypeOK, DispatchEvent, WorkerAfterSignal
<1>4. TypeOK'
  BY <1>1, <1>2, <1>3 DEF IInv, TypeOK, DispatchEvent, requestVars, socketVars
<1>5. WakeupInvariant'
  BY <1>1 DEF IInv, WakeupInvariant, DispatchEvent, requestVars
<1> QED
  BY <1>4, <1>5 DEF IInv

\* The end of a send, successful or not, leaves the queue `queue`.
LEMMA EndOfSend ==
  ASSUME TypeOK, NEW queue, SignalOverflow(queue), GoTo("select", read_set),
         write_set' = WriteSetAfterSend(queue)
  PROVE  /\ overflow_waiters' \subseteq Threads
         /\ sel_pc' = "select" /\ read_set' = {Pipe, Sock}
         /\ write_set' \subseteq {Sock}
         /\ write_set' /= {} => queue /= <<>>
BY DEF TypeOK, SignalOverflow, GoTo, WriteSetAfterSend

LEMMA IInvSendSucceeds ==
  ASSUME IInv, SendSucceeds
  PROVE  IInv'
<1>1. output_queue /= <<>> /\ pipe = 0
  BY DEF IInv, WakeupInvariant, SendSucceeds
<1>2. output_queue' \in Seq(Requests) /\ transmitted' \in Seq(Requests)
  <2>1. Head(output_queue) \in Requests /\ Tail(output_queue) \in Seq(Requests)
    BY <1>1, HeadTailProperties DEF IInv, TypeOK
  <2> QED
    BY <2>1, AppendProperties DEF IInv, TypeOK, SendSucceeds
<1>3. /\ overflow_waiters' \subseteq Threads
      /\ sel_pc' = "select" /\ read_set' = {Pipe, Sock}
      /\ write_set' \subseteq {Sock}
      /\ write_set' /= {} => output_queue' /= <<>>
  BY EndOfSend DEF IInv, SendSucceeds
<1>4. TypeOK'
  BY <1>2, <1>3 DEF IInv, TypeOK, SendSucceeds, eventVars, socketVars
<1>5. WakeupInvariant'
  BY <1>1, <1>3 DEF WakeupInvariant, SendSucceeds
<1> QED
  BY <1>4, <1>5 DEF IInv

LEMMA IInvSendFails ==
  ASSUME IInv, SendFails
  PROVE  IInv'
<1>1. /\ overflow_waiters' \subseteq Threads
      /\ sel_pc' = "select" /\ read_set' = {Pipe, Sock}
      /\ write_set' \subseteq {Sock}
      /\ write_set' /= {} => output_queue /= <<>>
  BY EndOfSend DEF IInv, SendFails
<1>2. pipe = 0
  BY DEF IInv, WakeupInvariant, SendFails
<1>3. TypeOK'
  BY <1>1 DEF IInv, TypeOK, SendFails, eventVars, socketVars
<1>4. WakeupInvariant'
  BY <1>1, <1>2 DEF WakeupInvariant, SendFails
<1> QED
  BY <1>3, <1>4 DEF IInv

\* The worker, setCallback and the environment leave the requests and the
\* selector alone.
LEMMA IInvOthers ==
  ASSUME IInv, UNCHANGED <<requestVars, selectorVars>>,
         \/ WorkerStep
         \/ SetCallback
         \/ EventArrives
         \/ SocketBlocks
         \/ SocketUnblocks
  PROVE  IInv'
<1>1. WakeupInvariant'
  BY DEF IInv, WakeupInvariant, requestVars, selectorVars
<1>2. /\ event_queue' \in Seq(Events)
      /\ discarded' \in Seq(Events)
      /\ handled' \in Seq(Events)
  <2>1. CASE WorkerCallsBack
    <3>1. Head(event_queue) \in Events /\ Tail(event_queue) \in Seq(Events)
      BY <2>1, HeadTailProperties DEF IInv, TypeOK, WorkerCallsBack
    <3>2. /\ Append(discarded, Head(event_queue)) \in Seq(Events)
          /\ Append(handled, Head(event_queue)) \in Seq(Events)
      BY <3>1, AppendProperties DEF IInv, TypeOK
    <3> QED
      BY <2>1, <3>1, <3>2 DEF IInv, TypeOK, WorkerCallsBack
  <2>2. CASE ~WorkerCallsBack
    BY <2>2 DEF IInv, TypeOK, WorkerStep, WorkerWaits, WorkerSpuriousWakeup, CallbackReturns,
       WorkerDrained, SetCallback, EventArrives, SocketBlocks, SocketUnblocks, eventVars
  <2> QED
    BY <2>1, <2>2
<1>3. inbox' \in Seq(Events) /\ arrived' \in Nat
  <2>1. CASE EventArrives
    <3>1. arrived + 1 \in Events
      BY <2>1, BoundsAssumption DEF IInv, TypeOK, EventArrives, Events
    <3> QED
      BY <2>1, <3>1, AppendProperties DEF IInv, TypeOK, EventArrives
  <2>2. CASE ~EventArrives
    BY <2>2 DEF IInv, TypeOK, WorkerStep, WorkerWaits, WorkerSpuriousWakeup, WorkerCallsBack,
       CallbackReturns, WorkerDrained, SetCallback, SocketBlocks, SocketUnblocks, socketVars
  <2> QED
    BY <2>1, <2>2
<1>4. /\ worker_pc' \in {"start", "waiting", "loop", "callback"}
      /\ cf' \in {"default", "user"}
      /\ writable' \in BOOLEAN
      /\ sock_fd' = Sock
  BY DEF IInv, TypeOK, WorkerStep, WorkerWaits, WorkerSpuriousWakeup, WorkerCallsBack,
     CallbackReturns, WorkerDrained, SetCallback, EventArrives, SocketBlocks, SocketUnblocks,
     eventVars, socketVars
<1>5. TypeOK'
  BY <1>2, <1>3, <1>4 DEF IInv, TypeOK, requestVars, selectorVars
<1> QED
  BY <1>1, <1>5 DEF IInv

LEMMA IInvNext == IInv /\ [Next]_vars => IInv'
<1> SUFFICES ASSUME IInv, [Next]_vars PROVE IInv'
  OBVIOUS
<1>1. ASSUME NEW t \in Threads, Push(t) PROVE IInv'
  BY <1>1, IInvPush
<1>2. ASSUME NEW t \in Threads, PublisherSpuriousWakeup(t) PROVE IInv'
  BY <1>2 DEF IInv, TypeOK, WakeupInvariant, PublisherSpuriousWakeup,
     selectorVars, eventVars, socketVars
<1>3. CASE Select
  BY <1>3, IInvSelect
<1>4. CASE ReadPipe
  BY <1>4, IInvReadPipe
<1>5. CASE ReceiveEvent
  BY <1>5, IInvReceiveEvent
<1>6. CASE ReceiveNothing
  BY <1>6, IInvReceiveNothing
<1>7. CASE DispatchEvent
  BY <1>7, IInvDispatchEvent
<1>8. CASE SendSucceeds
  BY <1>8, IInvSendSucceeds
<1>9. CASE SendFails
  BY <1>9, IInvSendFails
<1>10. CASE WorkerStep
  BY <1>10, IInvOthers DEF WorkerStep, WorkerWaits, WorkerSpuriousWakeup, WorkerCallsBack,
     CallbackReturns, WorkerDrained
<1>11. CASE SetCallback \/ EventArrives \/ SocketBlocks \/ SocketUnblocks
  BY <1>11, IInvOthers DEF SetCallback, EventArrives, SocketBlocks, SocketUnblocks
<1>12. CASE UNCHANGED vars
  BY <1>12 DEF vars, requestVars, selectorVars, eventVars, socketVars, IInv, TypeOK, WakeupInvariant
<1> QED
  BY <1>1, <1>2, <1>3, <1>4, <1>5, <1>6, <1>7, <1>8, <1>9, <1>10, <1>11, <1>12 DEF Next, WorkerStep

LEMMA IInvHolds == Spec => []IInv
BY IInvInit, IInvNext, PTL DEF Spec

\* Every variable keeps its type, whatever the number of threads and requests.
THEOREM TypeCorrect == Spec => []TypeOK
<1>1. IInv => TypeOK
  BY DEF IInv
<1> QED
  BY <1>1, IInvHolds, PTL

\* The selector never calls output_queue.front() on an empty queue.
THEOREM NoSendFromEmptyQueue == Spec => []NeverSendsFromEmptyQueue
<1>1. IInv => NeverSendsFromEmptyQueue
  BY DEF IInv, WakeupInvariant, NeverSendsFromEmptyQueue
<1> QED
  BY <1>1, IInvHolds, PTL

\* The pipe never holds more than one byte, so no push blocks in write() with
\* selector_mutex in its hands.
THEOREM PipeHoldsOneByte == Spec => []WakeupInvariant
<1>1. IInv => WakeupInvariant
  BY DEF IInv
<1> QED
  BY <1>1, IInvHolds, PTL

(***************************************************************************)
(* While the socket always takes data, no queued request is out of sight.  *)
(***************************************************************************)

WatchInvariant == RequestsWatched /\ (~SocketMayBlock => writable)

LEMMA WatchInit == Init => WatchInvariant
BY DEF Init, WatchInvariant, RequestsWatched

LEMMA WatchNext == IInv /\ WatchInvariant /\ [Next]_vars => WatchInvariant'
<1> SUFFICES ASSUME IInv, WatchInvariant, [Next]_vars, ~SocketMayBlock
             PROVE  writable' /\ (output_queue' /= <<>> => pipe' = 1 \/ write_set' = {Sock})
  BY DEF WatchInvariant, RequestsWatched
<1>1. writable /\ (output_queue /= <<>> => pipe = 1 \/ write_set = {Sock})
  BY DEF WatchInvariant, RequestsWatched
<1>2. writable'
  BY <1>1, EnvironmentAssumption DEF Next, vars, requestVars, selectorVars, eventVars, socketVars,
     Push, PublisherSpuriousWakeup, Select, ReadPipe, ReceiveEvent, ReceiveNothing,
     DispatchEvent, SendSucceeds, SendFails, WorkerWaits, WorkerSpuriousWakeup,
     WorkerCallsBack, CallbackReturns, WorkerDrained, SetCallback, EventArrives,
     SocketBlocks, SocketUnblocks
<1>3. ASSUME NEW t \in Threads, Push(t)
      PROVE  output_queue' /= <<>> => pipe' = 1 \/ write_set' = {Sock}
  <2>1. write_set' = write_set
    BY <1>3 DEF Push, selectorVars
  <2>2. CASE output_queue = <<>>
    <3>1. pipe = 0
      BY <2>2 DEF IInv, WakeupInvariant
    <3>2. Len(output_queue') = 1
      BY <1>3, <2>2 DEF Push
    <3> QED
      BY <1>3, <3>1, <3>2 DEF Push, PipeAfterPush
  <2>3. CASE output_queue /= <<>>
    <3>1. <<t, pushed[t] + 1>> \in Requests
      <4>1. pushed[t] \in Nat /\ MaxRequests[t] \in Nat /\ pushed[t] < MaxRequests[t]
        BY <1>3, BoundsAssumption DEF IInv, TypeOK, Push
      <4>2. pushed[t] + 1 \in 1..MaxRequests[t]
        BY <4>1
      <4> QED
        BY <4>2, RequestsMember
    <3>2. Len(output_queue') = Len(output_queue) + 1 /\ Len(output_queue) \in Nat \ {0}
      BY <1>3, <2>3, <3>1, AppendProperties, EmptySeq DEF IInv, TypeOK, Push
    <3>3. pipe' = pipe
      BY <1>3, <3>2 DEF Push, PipeAfterPush
    <3> QED
      BY <1>1, <2>1, <2>3, <3>3
  <2> QED
    BY <2>2, <2>3
<1>4. ASSUME Select
      PROVE  output_queue' /= <<>> => pipe' = 1 \/ write_set' = {Sock}
  BY <1>1, <1>4 DEF Select, WritableSet, requestVars
<1>5. ASSUME SendSucceeds \/ SendFails
      PROVE  output_queue' /= <<>> => pipe' = 1 \/ write_set' = {Sock}
  BY <1>5 DEF IInv, TypeOK, SendSucceeds, SendFails, WriteSetAfterSend
<1>6. ASSUME ReadPipe
      PROVE  output_queue' /= <<>> => pipe' = 1 \/ write_set' = {Sock}
  BY <1>6 DEF IInv, TypeOK, ReadPipe
<1>7. ASSUME UNCHANGED <<output_queue, pipe, write_set>>
      PROVE  output_queue' /= <<>> => pipe' = 1 \/ write_set' = {Sock}
  BY <1>1, <1>7
<1>8. \/ \E t \in Threads : Push(t)
      \/ Select
      \/ ReadPipe
      \/ SendSucceeds \/ SendFails
      \/ UNCHANGED <<output_queue, pipe, write_set>>
  BY DEF Next, vars, requestVars, selectorVars, eventVars, socketVars,
     PublisherSpuriousWakeup, ReceiveEvent, ReceiveNothing, DispatchEvent,
     WorkerWaits, WorkerSpuriousWakeup, WorkerCallsBack, CallbackReturns, WorkerDrained,
     SetCallback, EventArrives, SocketBlocks, SocketUnblocks
<1> QED
  BY <1>2, <1>3, <1>4, <1>5, <1>6, <1>7, <1>8

\* Over a socket that never fills up, the selector is always about to look at
\* the queue while a request is in it.
THEOREM RequestsAlwaysWatched == Spec => []RequestsWatched
<1>1. WatchInvariant => RequestsWatched
  BY DEF WatchInvariant
<1> QED
  BY <1>1, WatchInit, WatchNext, IInvHolds, PTL DEF Spec

(***************************************************************************)
(* One publisher and no spurious wakeups: the limit holds.                 *)
(***************************************************************************)

\* A single thread publishes.
SinglePublisher ==
  \A t, u \in Threads : MaxRequests[t] > 0 /\ MaxRequests[u] > 0 => t = u

\* Only publishers wait, and while nobody waits there is room.
LimitInvariant ==
  /\ LimitHolds
  /\ overflow_waiters = {} => Len(output_queue) < QueueLimit
  /\ \A t \in overflow_waiters : MaxRequests[t] > 0

LEMMA LimitInit == Init => LimitInvariant
<1> SUFFICES ASSUME Init PROVE LimitInvariant
  OBVIOUS
<1>1. Len(output_queue) = 0 /\ overflow_waiters = {}
  BY DEF Init
<1> QED
  BY <1>1, LimitAssumption DEF LimitInvariant, LimitHolds

LEMMA LimitPush ==
  ASSUME SinglePublisher, IInv, LimitInvariant, NEW t \in Threads, Push(t)
  PROVE  LimitInvariant'
<1>1. pushed[t] \in Nat /\ MaxRequests[t] \in Nat /\ pushed[t] < MaxRequests[t]
  BY BoundsAssumption DEF IInv, TypeOK, Push
<1>2. <<t, pushed[t] + 1>> \in Requests
  <2>1. pushed[t] + 1 \in 1..MaxRequests[t]
    BY <1>1
  <2> QED
    BY <2>1, RequestsMember
<1>3. overflow_waiters = {}
  <2>1. overflow_waiters \subseteq {t}
    BY <1>1 DEF SinglePublisher, LimitInvariant, IInv, TypeOK
  <2> QED
    BY <2>1 DEF Push, Runs
<1>4. Len(output_queue) \in Nat /\ Len(output_queue) < QueueLimit
  BY <1>3, LenProperties DEF IInv, TypeOK, LimitInvariant
<1>5. Len(output_queue') = Len(output_queue) + 1
  BY <1>2, AppendProperties DEF IInv, TypeOK, Push
<1>6. Len(output_queue') <= QueueLimit
  BY <1>4, <1>5, LimitAssumption
<1>7. overflow_waiters' = IF Len(output_queue') = QueueLimit THEN {t} ELSE {}
  BY <1>3 DEF Push, WaitersAfterPush
<1> QED
  BY <1>1, <1>4, <1>5, <1>6, <1>7, LimitAssumption DEF LimitInvariant, LimitHolds

LEMMA LimitNext ==
  ASSUME SinglePublisher, ~SpuriousWakeups, IInv, LimitInvariant, [Next]_vars
  PROVE  LimitInvariant'
<1>1. CASE \E t \in Threads : Push(t)
  BY <1>1, LimitPush
<1>2. CASE SendSucceeds
  <2>1. output_queue /= <<>>
    BY <1>2 DEF IInv, WakeupInvariant, SendSucceeds
  <2>2. Len(output_queue') = Len(output_queue) - 1 /\ Len(output_queue) \in Nat
    BY <1>2, <2>1, HeadTailProperties, LenProperties DEF IInv, TypeOK, SendSucceeds
  <2>3. Len(output_queue') < QueueLimit
    BY <2>2, LimitAssumption DEF LimitInvariant, LimitHolds
  <2>4. overflow_waiters' \subseteq overflow_waiters
    BY <1>2 DEF SendSucceeds, SignalOverflow
  <2>5. Len(output_queue') <= QueueLimit
    BY <2>2, <2>3, LimitAssumption
  <2> QED
    BY <2>3, <2>4, <2>5 DEF LimitInvariant, LimitHolds
<1>3. CASE SendFails
  <2>1. output_queue /= <<>>
    BY <1>3 DEF IInv, WakeupInvariant, SendFails
  <2> QED
    BY <1>3, <2>1 DEF LimitInvariant, LimitHolds, SendFails, SignalOverflow
<1>4. CASE UNCHANGED <<output_queue, overflow_waiters>>
  BY <1>4 DEF LimitInvariant, LimitHolds
<1>5. \/ \E t \in Threads : Push(t)
      \/ SendSucceeds \/ SendFails
      \/ UNCHANGED <<output_queue, overflow_waiters>>
  BY EnvironmentAssumption DEF Next, vars, requestVars, selectorVars, eventVars, socketVars,
     PublisherSpuriousWakeup, Select, ReadPipe, ReceiveEvent, ReceiveNothing, DispatchEvent,
     WorkerWaits, WorkerSpuriousWakeup, WorkerCallsBack, CallbackReturns, WorkerDrained,
     SetCallback, EventArrives, SocketBlocks, SocketUnblocks
<1> QED
  BY <1>1, <1>2, <1>3, <1>4, <1>5

\* With a single publisher, and no spurious wakeup, the queue never exceeds its
\* limit.
THEOREM SinglePublisherKeepsLimit ==
  ASSUME SinglePublisher, ~SpuriousWakeups
  PROVE  Spec => []LimitHolds
<1>1. LimitInvariant => LimitHolds
  BY DEF LimitInvariant
<1>2. IInv /\ LimitInvariant /\ [Next]_vars => LimitInvariant'
  BY LimitNext
<1> QED
  BY <1>1, <1>2, LimitInit, IInvHolds, PTL DEF Spec

(***************************************************************************)
(* Refinement of FifoChannel                                               *)
(***************************************************************************)

\* Appending to the second part of a concatenation appends to the whole.
LEMMA ConcatAppend ==
  ASSUME NEW S, NEW s \in Seq(S), NEW q \in Seq(S), NEW e \in S
  PROVE  s \o Append(q, e) = Append(s \o q, e)
<1>1. Append(q, e) = q \o <<e>> /\ <<e>> \in Seq(S)
  BY AppendIsConcat
<1>2. s \o q \in Seq(S)
  BY ConcatProperties
<1>3. Append(s \o q, e) = (s \o q) \o <<e>>
  BY <1>2, AppendIsConcat
<1>4. (s \o q) \o <<e>> = s \o (q \o <<e>>)
  BY <1>1, ConcatAssociative
<1> QED
  BY <1>1, <1>3, <1>4

\* Moving the head of the second part to the end of the first changes nothing.
LEMMA MoveHead ==
  ASSUME NEW S, NEW s \in Seq(S), NEW q \in Seq(S), q /= <<>>
  PROVE  Append(s, Head(q)) \o Tail(q) = s \o q
<1>1. /\ Head(q) \in S /\ Tail(q) \in Seq(S) /\ <<Head(q)>> \in Seq(S)
      /\ Len(q) \in Nat \ {0} /\ Len(Tail(q)) = Len(q) - 1
      /\ \A i \in 1..Len(Tail(q)) : Tail(q)[i] = q[i + 1]
      /\ Head(q) = q[1]
  BY HeadTailProperties, EmptySeq
<1>2. <<Head(q)>> \o Tail(q) = q
  <2>1. /\ <<Head(q)>> \o Tail(q) \in Seq(S)
        /\ Len(<<Head(q)>> \o Tail(q)) = Len(q)
        /\ \A i \in 1..Len(q) : (<<Head(q)>> \o Tail(q))[i] = q[i]
    BY <1>1, ConcatProperties
  <2> QED
    BY <2>1, SeqEqual
<1>3. Append(s, Head(q)) = s \o <<Head(q)>>
  BY <1>1, AppendIsConcat
<1>4. (s \o <<Head(q)>>) \o Tail(q) = s \o (<<Head(q)>> \o Tail(q))
  BY <1>1, ConcatAssociative
<1> QED
  BY <1>2, <1>3, <1>4

\* The element after the first part is the head of the second, whatever follows.
LEMMA HeadAfterPrefix ==
  ASSUME NEW S, NEW s \in Seq(S), NEW q \in Seq(S), NEW u \in Seq(S), q /= <<>>
  PROVE  /\ Len(s) < Len((s \o q) \o u)
         /\ ((s \o q) \o u)[Len(s) + 1] = Head(q)
<1>1. Len(q) \in Nat \ {0} /\ Len(s) \in Nat /\ Len(u) \in Nat /\ Head(q) = q[1]
  BY EmptySeq, LenProperties
<1>2. /\ s \o q \in Seq(S) /\ Len(s \o q) = Len(s) + Len(q)
      /\ (s \o q)[Len(s) + 1] = q[1]
  BY <1>1, ConcatProperties
<1> QED
  BY <1>1, <1>2, ConcatProperties

LEMMA HeadAfterTwo ==
  ASSUME NEW S, NEW s \in Seq(S), NEW q \in Seq(S), NEW u \in Seq(S), NEW v \in Seq(S),
         q /= <<>>
  PROVE  /\ Len(s) < Len(((s \o q) \o u) \o v)
         /\ (((s \o q) \o u) \o v)[Len(s) + 1] = Head(q)
<1> DEFINE x == (s \o q) \o u
<1>1. Len(s) < Len(x) /\ x[Len(s) + 1] = Head(q)
  BY HeadAfterPrefix
<1>2. s \o q \in Seq(S)
  BY ConcatProperties
<1>3. x \in Seq(S)
  BY <1>2, ConcatProperties
<1>4. Len(s) \in Nat /\ Len(x) \in Nat /\ Len(v) \in Nat
  BY <1>3, LenProperties
<1>5. Len(x \o v) = Len(x) + Len(v) /\ \A i \in 1..Len(x) : (x \o v)[i] = x[i]
  BY <1>3, <1>4, ConcatProperties
<1> QED
  BY <1>1, <1>4, <1>5

\* The types the path of the requests needs, and the steps it can see: a push,
\* and a sendmsg that succeeds.
RequestTypes ==
  /\ output_queue \in Seq(Requests)
  /\ transmitted \in Seq(Requests)
  /\ pushed \in [Threads -> Nat]

PathStep ==
  \/ \E t \in Threads : Push(t)
  \/ SendSucceeds /\ output_queue /= <<>>
  \/ UNCHANGED <<transmitted, output_queue, pushed>>

LEMMA PathType ==
  ASSUME RequestTypes
  PROVE  Path \in Seq(Requests)
BY ConcatProperties DEF RequestTypes, Path

\* push puts the thread's next request at the end of the path.
LEMMA PushAppends ==
  ASSUME RequestTypes, NEW t \in Threads, Push(t)
  PROVE  /\ <<t, pushed[t] + 1>> \in Requests
         /\ Path' = Append(Path, <<t, pushed[t] + 1>>)
<1> DEFINE r == <<t, pushed[t] + 1>>
<1>1. pushed[t] + 1 \in 1..MaxRequests[t]
  <2>1. pushed[t] \in Nat /\ MaxRequests[t] \in Nat /\ pushed[t] < MaxRequests[t]
    BY BoundsAssumption DEF RequestTypes, Push
  <2> QED
    BY <2>1
<1>2. r \in Requests
  BY <1>1, RequestsMember
<1>3. output_queue' = Append(output_queue, r) /\ transmitted' = transmitted
  BY DEF Push
<1>4. transmitted \in Seq(Requests) /\ output_queue \in Seq(Requests)
  BY DEF RequestTypes
<1>5. transmitted' \o output_queue' = Append(transmitted \o output_queue, r)
  BY <1>2, <1>3, <1>4, ConcatAppend
<1> QED
  BY <1>2, <1>5 DEF Path

\* A successful sendmsg moves the border between the two parts of the path over
\* one request; the path stays what it is.
LEMMA SendKeepsPath ==
  ASSUME RequestTypes, SendSucceeds, output_queue /= <<>>
  PROVE  /\ Path' = Path
         /\ Len(transmitted) < Len(Path)
         /\ transmitted' = Append(transmitted, Path[Len(transmitted) + 1])
<1>1. transmitted \in Seq(Requests) /\ output_queue \in Seq(Requests)
  BY DEF RequestTypes
<1>2. /\ transmitted' = Append(transmitted, Head(output_queue))
      /\ output_queue' = Tail(output_queue)
  BY DEF SendSucceeds
<1>3. transmitted' \o output_queue' = transmitted \o output_queue
  BY <1>1, <1>2, MoveHead
<1>4. /\ Len(transmitted) < Len(transmitted \o output_queue)
      /\ (transmitted \o output_queue)[Len(transmitted) + 1] = Head(output_queue)
  <2>1. <<>> \in Seq(Requests) /\ (transmitted \o output_queue) \o <<>> = transmitted \o output_queue
    BY <1>1, ConcatProperties, ConcatEmptySeq, EmptySeq
  <2> QED
    BY <1>1, <2>1, HeadAfterPrefix
<1> QED
  BY <1>2, <1>3, <1>4 DEF Path

\* Every step of the library is one of the three for the path.
LEMMA NextIsPathStep == IInv /\ [Next]_vars => RequestTypes /\ PathStep
<1> SUFFICES ASSUME IInv, [Next]_vars PROVE RequestTypes /\ PathStep
  OBVIOUS
<1>1. RequestTypes
  BY DEF IInv, TypeOK, RequestTypes
<1>2. \/ \E t \in Threads : Push(t)
      \/ SendSucceeds
      \/ UNCHANGED <<transmitted, output_queue, pushed>>
  BY DEF Next, vars, requestVars, selectorVars, eventVars, socketVars,
     PublisherSpuriousWakeup, Select, ReadPipe, ReceiveEvent, ReceiveNothing, DispatchEvent,
     SendFails, WorkerWaits, WorkerSpuriousWakeup, WorkerCallsBack, CallbackReturns,
     WorkerDrained, SetCallback, EventArrives, SocketBlocks, SocketUnblocks
<1>3. SendSucceeds => output_queue /= <<>>
  BY DEF IInv, WakeupInvariant, SendSucceeds
<1> QED
  BY <1>1, <1>2, <1>3 DEF PathStep

LEMMA RequestsFifoInit == Init => RequestChannel!Init
<1> SUFFICES ASSUME Init PROVE RequestChannel!Init
  OBVIOUS
<1>1. Path = <<>>
  BY EmptySeq, ConcatEmptySeq DEF Init, Path
<1> QED
  BY <1>1 DEF Init, RequestChannel!Init

LEMMA RequestsFifoStep ==
  RequestTypes /\ PathStep => [RequestChannel!Next]_(RequestChannel!vars)
<1> SUFFICES ASSUME RequestTypes, PathStep
             PROVE  RequestChannel!Next \/ UNCHANGED RequestChannel!vars
  OBVIOUS
<1>1. ASSUME NEW t \in Threads, Push(t)
      PROVE  RequestChannel!Submit
  BY <1>1, PushAppends DEF RequestChannel!Submit, Push
<1>2. ASSUME SendSucceeds, output_queue /= <<>>
      PROVE  RequestChannel!Deliver
  BY <1>2, SendKeepsPath DEF RequestChannel!Deliver
<1>3. ASSUME UNCHANGED <<transmitted, output_queue>>
      PROVE  UNCHANGED RequestChannel!vars
  BY <1>3 DEF RequestChannel!vars, Path
<1> QED
  BY <1>1, <1>2, <1>3 DEF PathStep, RequestChannel!Next

\* The request path implements a FIFO channel: nothing is lost, duplicated or
\* overtaken between push and the socket, whatever sends fail.
THEOREM RequestsImplementFifo == Spec => RequestsAreFifo
BY RequestsFifoInit, RequestsFifoStep, NextIsPathStep, IInvHolds, PTL
   DEF Spec, RequestsAreFifo, RequestChannel!Spec

(***************************************************************************)
(* Every request of a thread is on the path once, in the thread's order.   *)
(* The property is inductive next to IInv: a push appends the number after *)
(* the largest one its thread has on the path, and nothing else changes    *)
(* the path or the numbers.                                                *)
(***************************************************************************)

LEMMA ThreadOrderInit == Init => RequestsInThreadOrder
<1> SUFFICES ASSUME Init PROVE RequestsInThreadOrder
  OBVIOUS
<1>1. Path = <<>>
  BY EmptySeq, ConcatEmptySeq DEF Init, Path
<1>2. DOMAIN Path = {}
  BY <1>1
<1>3. \A t \in Threads : 1..pushed[t] = {}
  BY DEF Init
<1> QED
  BY <1>2, <1>3 DEF RequestsInThreadOrder

LEMMA ThreadOrderPush ==
  ASSUME RequestTypes, RequestsInThreadOrder, NEW u \in Threads, Push(u)
  PROVE  RequestsInThreadOrder'
<1> DEFINE p == Path
           q == Append(p, <<u, pushed[u] + 1>>)
<1>1. p \in Seq(Requests) /\ <<u, pushed[u] + 1>> \in Requests /\ Path' = q
  BY PathType, PushAppends
<1>2. /\ pushed \in [Threads -> Nat]
      /\ pushed' = [pushed EXCEPT ![u] = @ + 1]
  BY DEF RequestTypes, Push
<1>3. /\ \A t \in Threads : \A n \in 1..pushed[t] : \E i \in DOMAIN p : p[i] = <<t, n>>
      /\ \A t \in Threads : \A i \in DOMAIN p : p[i][1] = t => p[i][2] \in 1..pushed[t]
      /\ \A t \in Threads : \A i, j \in DOMAIN p :
           i < j /\ p[i][1] = t /\ p[j][1] = t => p[i][2] < p[j][2]
  BY DEF RequestsInThreadOrder
<1>4. /\ Len(p) \in Nat /\ DOMAIN p = 1..Len(p)
      /\ DOMAIN q = 1..(Len(p) + 1)
      /\ \A i \in DOMAIN p : q[i] = p[i]
      /\ q[Len(p) + 1] = <<u, pushed[u] + 1>>
  <2>1. Len(p) \in Nat /\ DOMAIN p = 1..Len(p)
    BY <1>1, LenProperties
  <2>2. /\ q \in Seq(Requests) /\ Len(q) = Len(p) + 1
        /\ \A i \in 1..Len(p) : q[i] = p[i]
        /\ q[Len(p) + 1] = <<u, pushed[u] + 1>>
    BY <1>1, AppendProperties
  <2>3. DOMAIN q = 1..Len(q)
    BY <2>2, LenProperties
  <2> QED
    BY <2>1, <2>2, <2>3
<1> HIDE DEF p, q
<1>5. ASSUME NEW t \in Threads
      PROVE  /\ pushed[t] \in Nat /\ pushed'[t] \in Nat /\ pushed[t] <= pushed'[t]
             /\ t = u => pushed'[t] = pushed[t] + 1
             /\ t /= u => pushed'[t] = pushed[t]
  BY <1>2
<1>6. ASSUME NEW t \in Threads, NEW n \in 1..pushed'[t]
      PROVE  \E i \in DOMAIN q : q[i] = <<t, n>>
  <2>1. CASE n \in 1..pushed[t]
    <3>1. PICK i \in DOMAIN p : p[i] = <<t, n>>
      BY <1>3, <2>1
    <3>2. i \in DOMAIN q /\ q[i] = <<t, n>>
      BY <1>4, <3>1
    <3> QED
      BY <3>2
  <2>2. CASE n \notin 1..pushed[t]
    <3>1. t = u /\ n = pushed[u] + 1
      BY <1>5, <2>2
    <3>2. Len(p) + 1 \in DOMAIN q /\ q[Len(p) + 1] = <<t, n>>
      BY <1>4, <3>1
    <3> QED
      BY <3>2
  <2> QED
    BY <2>1, <2>2
<1>7. ASSUME NEW t \in Threads, NEW i \in DOMAIN q, q[i][1] = t
      PROVE  q[i][2] \in 1..pushed'[t]
  <2>1. CASE i \in DOMAIN p
    <3>1. p[i][2] \in 1..pushed[t]
      BY <1>3, <1>4, <1>7, <2>1
    <3> QED
      BY <1>4, <1>5, <2>1, <3>1
  <2>2. CASE i \notin DOMAIN p
    <3>1. i = Len(p) + 1
      BY <1>4, <2>2
    <3>2. t = u /\ q[i][2] = pushed[u] + 1
      BY <1>4, <1>7, <3>1
    <3> QED
      BY <1>5, <3>2
  <2> QED
    BY <2>1, <2>2
<1>8. ASSUME NEW t \in Threads, NEW i \in DOMAIN q, NEW j \in DOMAIN q,
             i < j, q[i][1] = t, q[j][1] = t
      PROVE  q[i][2] < q[j][2]
  <2>1. i \in DOMAIN p
    BY <1>4, <1>8
  <2>2. q[i] = p[i] /\ p[i][1] = t
    BY <1>4, <1>8, <2>1
  <2>3. CASE j \in DOMAIN p
    BY <1>3, <1>4, <1>8, <2>1, <2>2, <2>3
  <2>4. CASE j \notin DOMAIN p
    <3>1. j = Len(p) + 1
      BY <1>4, <2>4
    <3>2. t = u /\ q[j][2] = pushed[u] + 1
      BY <1>4, <1>8, <3>1
    <3>3. p[i][2] \in 1..pushed[t]
      BY <1>3, <2>1, <2>2
    <3> QED
      BY <1>5, <2>2, <3>2, <3>3
  <2> QED
    BY <2>3, <2>4
<1> QED
  BY <1>1, <1>6, <1>7, <1>8 DEF RequestsInThreadOrder

LEMMA ThreadOrderStep ==
  RequestTypes /\ RequestsInThreadOrder /\ PathStep => RequestsInThreadOrder'
<1> SUFFICES ASSUME RequestTypes, RequestsInThreadOrder, PathStep PROVE RequestsInThreadOrder'
  OBVIOUS
<1>1. ASSUME NEW t \in Threads, Push(t) PROVE RequestsInThreadOrder'
  BY <1>1, ThreadOrderPush
<1>2. ASSUME SendSucceeds, output_queue /= <<>> PROVE RequestsInThreadOrder'
  <2>1. Path' = Path /\ pushed' = pushed
    BY <1>2, SendKeepsPath DEF SendSucceeds
  <2> QED
    BY <2>1 DEF RequestsInThreadOrder
<1>3. ASSUME UNCHANGED <<transmitted, output_queue, pushed>> PROVE RequestsInThreadOrder'
  BY <1>3 DEF RequestsInThreadOrder, Path
<1> QED
  BY <1>1, <1>2, <1>3 DEF PathStep

\* The requests a thread has issued are on the path, each once and in the order
\* of issue, however the threads interleave and whatever sends fail in between:
\* no request is lost, sent twice or overtaken by a later one of its thread.
THEOREM RequestsKeepThreadOrder == Spec => []RequestsInThreadOrder
BY ThreadOrderInit, ThreadOrderStep, NextIsPathStep, IInvHolds, PTL DEF Spec

(***************************************************************************)
(* The path of the events                                                  *)
(***************************************************************************)

EventTypes ==
  /\ inbox \in Seq(Events)
  /\ received \in Seq(Events)
  /\ event_queue \in Seq(Events)
  /\ discarded \in Seq(Events)
  /\ handled \in Seq(Events)
  /\ arrived \in Nat

\* The steps that the path of the events can see.
EventStep ==
  \/ EventArrives
  \/ ReceiveEvent
  \/ DispatchEvent
  \/ WorkerCallsBack
  \/ UNCHANGED <<discarded, handled, event_queue, received, inbox, arrived>>

\* The selector holds an event only in the dispatch stage, and the application's
\* callback sees none before it is registered.
EventInvariant ==
  /\ sel_pc /= "dispatch" => received = <<>>
  /\ cf = "default" => handled = <<>>

LEMMA EventInvariantInit == Init => EventInvariant
BY DEF Init, EventInvariant

LEMMA EventInvariantNext ==
  IInv /\ EventInvariant /\ [Next]_vars => EventInvariant'
<1> SUFFICES ASSUME IInv, EventInvariant, [Next]_vars PROVE EventInvariant'
  OBVIOUS
<1>1. sel_pc' /= "dispatch" => received' = <<>>
  BY DEF EventInvariant, Next, vars, requestVars, selectorVars, eventVars, socketVars,
     GoTo, AfterSelect, AfterPipe, AfterReceive,
     Push, PublisherSpuriousWakeup, Select, ReadPipe, ReceiveEvent, ReceiveNothing,
     DispatchEvent, SendSucceeds, SendFails, WorkerWaits, WorkerSpuriousWakeup,
     WorkerCallsBack, CallbackReturns, WorkerDrained, SetCallback, EventArrives,
     SocketBlocks, SocketUnblocks
<1>2. cf' = "default" => handled' = <<>>
  BY DEF EventInvariant, Next, vars, requestVars, selectorVars, eventVars, socketVars,
     Push, PublisherSpuriousWakeup, Select, ReadPipe, ReceiveEvent, ReceiveNothing,
     DispatchEvent, SendSucceeds, SendFails, WorkerWaits, WorkerSpuriousWakeup,
     WorkerCallsBack, CallbackReturns, WorkerDrained, SetCallback, EventArrives,
     SocketBlocks, SocketUnblocks
<1> QED
  BY <1>1, <1>2 DEF EventInvariant

LEMMA EventsFifoInit == Init => EventChannel!Init
<1> SUFFICES ASSUME Init PROVE EventChannel!Init
  OBVIOUS
<1>1. <<>> \o <<>> = <<>>
  BY EmptySeq, ConcatEmptySeq
<1> QED
  BY <1>1 DEF Init, EventChannel!Init

\* What was handed to a callback, and what is on its way, under short names.
Out == discarded \o handled
OnTheWay == ((Out \o event_queue) \o received) \o inbox

LEMMA EventPathTypes ==
  ASSUME EventTypes
  PROVE  /\ Out \in Seq(Events)
         /\ Out \o event_queue \in Seq(Events)
         /\ (Out \o event_queue) \o received \in Seq(Events)
         /\ OnTheWay \in Seq(Events)
<1>1. Out \in Seq(Events)
  BY ConcatProperties DEF EventTypes, Out
<1>2. Out \o event_queue \in Seq(Events)
  BY <1>1, ConcatProperties DEF EventTypes
<1>3. (Out \o event_queue) \o received \in Seq(Events)
  BY <1>2, ConcatProperties DEF EventTypes
<1>4. OnTheWay \in Seq(Events)
  BY <1>3, ConcatProperties DEF EventTypes, OnTheWay
<1> QED
  BY <1>1, <1>2, <1>3, <1>4

\* recvmsg moves the datagram from the socket to the selector's hand.
LEMMA ReceiveKeepsPath ==
  ASSUME EventTypes, EventInvariant, ReceiveEvent
  PROVE  OnTheWay' = OnTheWay /\ Out' = Out
<1> DEFINE s == Out \o event_queue
<1>1. s \in Seq(Events) /\ inbox \in Seq(Events) /\ inbox /= <<>>
  BY EventPathTypes DEF EventTypes, ReceiveEvent
<1>2. received = <<>>
  BY DEF EventInvariant, ReceiveEvent
<1>3. Head(inbox) \in Events
  BY <1>1, HeadTailProperties
<1>4. received' = <<Head(inbox)>> /\ inbox' = Tail(inbox) /\ s' = s /\ Out' = Out
  BY DEF ReceiveEvent, eventVars, Out
<1>5. s \o <<Head(inbox)>> = Append(s, Head(inbox))
  BY <1>1, <1>3, AppendIsConcat
<1>6. OnTheWay' = Append(s, Head(inbox)) \o Tail(inbox)
  BY <1>4, <1>5 DEF OnTheWay
<1>7. OnTheWay = s \o inbox
  BY <1>1, <1>2, ConcatEmptySeq DEF OnTheWay
<1>8. Append(s, Head(inbox)) \o Tail(inbox) = s \o inbox
  BY <1>1, MoveHead
<1> QED
  BY <1>4, <1>6, <1>7, <1>8

\* The push into event_queue moves it from there to the end of the queue.
LEMMA DispatchKeepsPath ==
  ASSUME EventTypes, DispatchEvent
  PROVE  OnTheWay' = OnTheWay /\ Out' = Out
<1>1. Out \in Seq(Events) /\ event_queue \in Seq(Events) /\ received \in Seq(Events)
  BY EventPathTypes DEF EventTypes
<1>2. /\ event_queue' = event_queue \o received /\ received' = <<>>
      /\ inbox' = inbox /\ Out' = Out
  BY DEF DispatchEvent, socketVars, Out
<1>3. event_queue \o received \in Seq(Events)
  BY <1>1, ConcatProperties
<1>4. Out \o (event_queue \o received) = (Out \o event_queue) \o received
  BY <1>1, ConcatAssociative
<1>5. Out \o (event_queue \o received) \in Seq(Events)
  BY <1>1, <1>3, ConcatProperties
<1>6. (Out \o (event_queue \o received)) \o <<>> = (Out \o event_queue) \o received
  BY <1>4, <1>5, ConcatEmptySeq
<1> QED
  BY <1>2, <1>6 DEF OnTheWay

\* The arrival of a datagram is a Submit of the channel.
LEMMA ArrivalSubmits ==
  ASSUME EventTypes, EventArrives
  PROVE  /\ arrived + 1 \in Events
         /\ OnTheWay' = Append(OnTheWay, arrived + 1)
         /\ Out' = Out
<1> DEFINE s == (Out \o event_queue) \o received
<1>1. arrived + 1 \in Events
  BY BoundsAssumption DEF EventTypes, EventArrives, Events
<1>2. s \in Seq(Events) /\ inbox \in Seq(Events)
  BY EventPathTypes DEF EventTypes
<1>3. inbox' = Append(inbox, arrived + 1) /\ s' = s /\ Out' = Out
  BY DEF EventArrives, eventVars, selectorVars, Out
<1>4. s \o Append(inbox, arrived + 1) = Append(s \o inbox, arrived + 1)
  BY <1>1, <1>2, ConcatAppend
<1> QED
  BY <1>1, <1>3, <1>4 DEF OnTheWay

\* A call of cf is a Deliver of the channel.
LEMMA CallDelivers ==
  ASSUME EventTypes, EventInvariant, WorkerCallsBack
  PROVE  /\ Len(Out) < Len(OnTheWay)
         /\ Out' = Append(Out, OnTheWay[Len(Out) + 1])
         /\ OnTheWay' = OnTheWay
<1> DEFINE e == Head(event_queue)
<1>1. /\ Out \in Seq(Events) /\ event_queue \in Seq(Events) /\ event_queue /= <<>>
      /\ received \in Seq(Events) /\ inbox \in Seq(Events)
      /\ discarded \in Seq(Events) /\ handled \in Seq(Events)
  BY EventPathTypes DEF EventTypes, WorkerCallsBack
<1>2. e \in Events
  BY <1>1, HeadTailProperties
<1>3. /\ event_queue' = Tail(event_queue) /\ received' = received /\ inbox' = inbox
  BY DEF WorkerCallsBack, selectorVars, socketVars
<1>4. Out' = Append(Out, e)
  <2>1. CASE cf = "default"
    <3>1. handled = <<>> /\ handled' = <<>> /\ discarded' = Append(discarded, e)
      BY <2>1 DEF EventInvariant, WorkerCallsBack
    <3>2. Append(discarded, e) \in Seq(Events)
      BY <1>1, <1>2, AppendProperties
    <3>3. discarded \o <<>> = discarded /\ Append(discarded, e) \o <<>> = Append(discarded, e)
      BY <1>1, <3>2, ConcatEmptySeq
    <3> QED
      BY <3>1, <3>3 DEF Out
  <2>2. CASE cf /= "default"
    <3>1. handled' = Append(handled, e) /\ discarded' = discarded
      BY <2>2 DEF WorkerCallsBack
    <3>2. discarded \o Append(handled, e) = Append(discarded \o handled, e)
      BY <1>1, <1>2, ConcatAppend
    <3> QED
      BY <3>1, <3>2 DEF Out
  <2> QED
    BY <2>1, <2>2
<1>5. Append(Out, e) \o Tail(event_queue) = Out \o event_queue
  BY <1>1, MoveHead
<1>6. OnTheWay' = OnTheWay
  BY <1>3, <1>4, <1>5 DEF OnTheWay
<1>7. Len(Out) < Len(OnTheWay) /\ OnTheWay[Len(Out) + 1] = e
  <2>1. /\ Len(Out) < Len(((Out \o event_queue) \o received) \o inbox)
        /\ (((Out \o event_queue) \o received) \o inbox)[Len(Out) + 1] = Head(event_queue)
    <3>1. Out \in Seq(Events) /\ event_queue \in Seq(Events) /\ event_queue /= <<>>
      BY <1>1
    <3>2. received \in Seq(Events) /\ inbox \in Seq(Events)
      BY <1>1
    <3> HIDE DEF e
    <3> QED
      BY ONLY <3>1, <3>2, HeadAfterTwo
  <2> QED
    BY <2>1 DEF OnTheWay
<1> QED
  BY <1>4, <1>6, <1>7

LEMMA EventsFifoStep ==
  EventTypes /\ EventInvariant /\ EventStep => [EventChannel!Next]_(EventChannel!vars)
<1> SUFFICES ASSUME EventTypes, EventInvariant, EventStep
             PROVE  EventChannel!Next \/ UNCHANGED EventChannel!vars
  OBVIOUS
<1>1. ASSUME EventArrives PROVE EventChannel!Submit
  BY <1>1, ArrivalSubmits DEF EventChannel!Submit, OnTheWay, Out
<1>2. ASSUME WorkerCallsBack PROVE EventChannel!Deliver
  BY <1>2, CallDelivers DEF EventChannel!Deliver, OnTheWay, Out
<1>3. ASSUME ReceiveEvent PROVE UNCHANGED EventChannel!vars
  BY <1>3, ReceiveKeepsPath DEF EventChannel!vars, OnTheWay, Out
<1>4. ASSUME DispatchEvent PROVE UNCHANGED EventChannel!vars
  BY <1>4, DispatchKeepsPath DEF EventChannel!vars, OnTheWay, Out
<1>5. ASSUME UNCHANGED <<discarded, handled, event_queue, received, inbox>>
      PROVE  UNCHANGED EventChannel!vars
  BY <1>5 DEF EventChannel!vars
<1> QED
  BY <1>1, <1>2, <1>3, <1>4, <1>5 DEF EventStep, EventChannel!Next

LEMMA NextIsEventStep == IInv /\ [Next]_vars => EventTypes /\ EventStep
<1> SUFFICES ASSUME IInv, [Next]_vars PROVE EventTypes /\ EventStep
  OBVIOUS
<1>1. EventTypes
  BY DEF IInv, TypeOK, EventTypes
<1>2. EventStep
  BY DEF EventStep, Next, vars, requestVars, selectorVars, eventVars, socketVars,
     Push, PublisherSpuriousWakeup, Select, ReadPipe, ReceiveNothing,
     SendSucceeds, SendFails, WorkerWaits, WorkerSpuriousWakeup,
     CallbackReturns, WorkerDrained, SetCallback, SocketBlocks, SocketUnblocks
<1> QED
  BY <1>1, <1>2

\* The event path implements a FIFO channel: every event is handed to a callback
\* at most once and in the order of arrival, and the events the default callback
\* deletes all precede those the application sees.
THEOREM EventsImplementFifo == Spec => EventsAreFifo
BY EventsFifoInit, EventsFifoStep, NextIsEventStep, EventInvariantInit, EventInvariantNext,
   IInvHolds, PTL
   DEF Spec, EventsAreFifo, EventChannel!Spec
=============================================================================
