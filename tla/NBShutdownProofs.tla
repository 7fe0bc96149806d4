-------------------------- MODULE NBShutdownProofs --------------------------
(***************************************************************************)
(* Proofs about NBShutdown.  The first part holds for any number of        *)
(* application threads, whatever each of them calls: the protocol of pipe, *)
(* write_set and queue survives the end of the socket.  That a delete      *)
(* flushes needs it, and that both paths stay FIFO channels, for which the *)
(* lemmas of NBBlackadderProofs about them are used again.  The last part  *)
(* is about calls that do not overlap, since two that do may delete the    *)
(* wrapper twice.                                                          *)
(***************************************************************************)
EXTENDS NBShutdown, NBBlackadderProofs

\* The library's variables that the properties speak of, and their types.
LibraryType ==
  /\ overflow_waiters \subseteq Threads
  /\ pushed \in [Threads -> Nat]

\* disconnect sets sock_fd to -1 only after it has closed the socket.
ResetAfterClose == \A t \in Clients : call_pc[t] = "reset" => ~fd_open

\* WakeupInvariant of NBBlackadder, with whatever descriptor is in write_set.
ShutdownWakeup ==
  /\ pipe \in {0, 1}
  /\ pipe = 1 => output_queue /= <<>> /\ write_set = {}
  /\ write_set /= {} => output_queue /= <<>>
  /\ sel_pc = "send" => write_set /= {}
  /\ sel_pc = "read_pipe" => pipe = 1

ShutdownInv == ShutdownTypeOK /\ LibraryType /\ ResetAfterClose /\ ShutdownWakeup

\* The library's part of the types, and what the calls keep.
LibraryInv ==
  /\ output_queue \in Seq(Requests)
  /\ write_set \subseteq {Sock, Minus1}
  /\ read_set \subseteq {Pipe, Sock, Minus1}
  /\ sock_fd \in {Sock, Minus1}
  /\ LibraryType
  /\ ShutdownWakeup

callVars == <<fd_open, closed, call, call_pc, closes, deletes, overlapped>>

\* An action of the library leaves the calls alone: the types of the calls are
\* as before.
LEMMA CallsUntouched ==
  ASSUME ShutdownInv, UNCHANGED <<sock_fd, callVars>>, in_select' \in BOOLEAN, LibraryInv'
  PROVE  ShutdownInv'
BY DEF ShutdownInv, LibraryInv, LibraryType, ShutdownTypeOK, ResetAfterClose, callVars

LEMMA InvLibrary == ShutdownInv => LibraryInv
BY DEF ShutdownInv, LibraryInv, ShutdownTypeOK

LEMMA ShutdownInvInit == ShutdownInit => ShutdownInv
<1> SUFFICES ASSUME ShutdownInit PROVE ShutdownInv
  OBVIOUS
<1>1. ShutdownTypeOK
  <2>1. output_queue \in Seq(Requests) /\ write_set = {} /\ read_set = {Pipe, Sock} /\ sock_fd = Sock
    BY DEF ShutdownInit, Init
  <2>2. Sock /= Minus1
    BY DEF Sock, Minus1
  <2> QED
    BY <2>1, <2>2 DEF ShutdownInit, ShutdownTypeOK
<1>2. LibraryType
  BY DEF ShutdownInit, Init, LibraryType
<1>3. ResetAfterClose
  BY DEF ShutdownInit, ResetAfterClose
<1>4. ShutdownWakeup
  BY DEF ShutdownInit, Init, ShutdownWakeup
<1> QED
  BY <1>1, <1>2, <1>3, <1>4 DEF ShutdownInv

(***************************************************************************)
(* The actions of the library                                              *)
(***************************************************************************)

LEMMA StepPush ==
  ASSUME LibraryInv, NEW t \in Threads, Push(t)
  PROVE  LibraryInv'
<1> DEFINE r == <<t, pushed[t] + 1>>
<1>1. r \in Requests
  <2>1. MaxRequests[t] \in Nat /\ pushed[t] \in Nat /\ pushed[t] < MaxRequests[t]
    BY BoundsAssumption DEF LibraryInv, LibraryType, Push
  <2>2. r \in {t} \X (1..MaxRequests[t])
    BY <2>1
  <2> QED
    BY <2>2 DEF Requests
<1>2. /\ output_queue' \in Seq(Requests)
      /\ output_queue' /= <<>>
      /\ Len(output_queue') = Len(output_queue) + 1
  <2>1. output_queue \in Seq(Requests) /\ output_queue' = Append(output_queue, r)
    BY DEF LibraryInv, Push
  <2> QED
    BY ONLY <1>1, <2>1, AppendProperties
<1>3. pipe' = IF output_queue = <<>> THEN pipe + 1 ELSE pipe
  BY <1>2, EmptySeq DEF LibraryInv, Push, PipeAfterPush
<1>4. LibraryType'
  BY DEF LibraryInv, LibraryType, Push, WaitersAfterPush
<1>5. ShutdownWakeup'
  BY <1>2, <1>3 DEF LibraryInv, ShutdownWakeup, Push, selectorVars
<1> QED
  BY <1>2, <1>4, <1>5 DEF LibraryInv, Push, selectorVars, socketVars

\* What GoTo leaves in read_set.
LEMMA ReadSetStays ==
  ASSUME NEW stage, NEW rs \in SUBSET {Pipe, Sock, Minus1}, GoTo(stage, rs),
         sock_fd \in {Sock, Minus1}
  PROVE  read_set' \subseteq {Pipe, Sock, Minus1} /\ sel_pc' = stage
BY DEF GoTo

\* A select narrows both sets; the stage it leads to is one the sets allow.
LEMMA NarrowedSets ==
  ASSUME LibraryInv, NEW rs \in SUBSET read_set, write_set' \subseteq write_set,
         Pipe \in rs => pipe > 0,
         GoTo(AfterSelect(rs, write_set'), rs),
         UNCHANGED <<requestVars, sock_fd>>
  PROVE  LibraryInv'
<1>1. read_set' \subseteq {Pipe, Sock, Minus1} /\ sel_pc' = AfterSelect(rs, write_set')
  BY ReadSetStays DEF LibraryInv
<1>2. sel_pc' = "send" => write_set' /= {}
  BY <1>1 DEF AfterSelect, AfterPipe, AfterReceive
<1>3. sel_pc' = "read_pipe" => pipe = 1
  BY <1>1 DEF AfterSelect, AfterPipe, AfterReceive, LibraryInv, ShutdownWakeup
<1>4. ShutdownWakeup'
  BY <1>2, <1>3 DEF LibraryInv, ShutdownWakeup, requestVars
<1> QED
  BY <1>1, <1>4 DEF LibraryInv, LibraryType, requestVars

LEMMA StepSelect ==
  ASSUME LibraryInv, Select
  PROVE  LibraryInv'
<1>1. write_set' \subseteq write_set
  BY DEF Select, WritableSet
<1>2. ReadySet(read_set) \in SUBSET read_set /\ (Pipe \in ReadySet(read_set) => pipe > 0)
  BY DEF ReadySet, Readable
<1>3. GoTo(AfterSelect(ReadySet(read_set), write_set'), ReadySet(read_set))
      /\ UNCHANGED <<requestVars, sock_fd>>
  BY DEF Select, socketVars
<1> QED
  BY <1>1, <1>2, <1>3, NarrowedSets

LEMMA StepSelectWithoutSocket ==
  ASSUME LibraryInv, SelectWithoutSocket
  PROVE  LibraryInv'
<1>1. PICK rs \in SUBSET read_set, ws \in SUBSET write_set :
        /\ Pipe \in rs <=> Pipe \in read_set /\ pipe > 0
        /\ write_set' = ws
        /\ GoTo(AfterSelect(rs, ws), rs)
  BY DEF SelectWithoutSocket
<1>2. UNCHANGED <<requestVars, sock_fd>>
  BY DEF SelectWithoutSocket, socketVars
<1>3. GoTo(AfterSelect(rs, write_set'), rs)
  BY <1>1
<1> QED
  BY <1>1, <1>2, <1>3, NarrowedSets

LEMMA StepReadPipe ==
  ASSUME LibraryInv, ReadPipe
  PROVE  LibraryInv'
<1>1. pipe = 1 /\ pipe' = 0 /\ output_queue' = output_queue /\ output_queue /= <<>>
  BY DEF LibraryInv, ShutdownWakeup, ReadPipe
<1>2. write_set' = {sock_fd} /\ GoTo(AfterPipe(read_set, write_set'), read_set)
  BY DEF ReadPipe
<1>3. read_set' \subseteq {Pipe, Sock, Minus1} /\ sel_pc' = AfterPipe(read_set, write_set')
  BY <1>2, ReadSetStays DEF LibraryInv
<1>4. sel_pc' /= "read_pipe"
  BY <1>3 DEF AfterPipe, AfterReceive
<1>5. ShutdownWakeup'
  BY <1>1, <1>2, <1>4 DEF ShutdownWakeup
<1> QED
  BY <1>1, <1>2, <1>3, <1>5 DEF LibraryInv, LibraryType, ReadPipe, socketVars

\* A stage that changes neither the queue nor write_set.
LEMMA StepToNextStage ==
  ASSUME LibraryInv, NEW stage, GoTo(stage, read_set), UNCHANGED <<requestVars, write_set, sock_fd>>,
         stage /= "read_pipe", stage = "send" => write_set /= {}
  PROVE  LibraryInv'
<1>1. read_set' \subseteq {Pipe, Sock, Minus1} /\ sel_pc' = stage
  BY ReadSetStays DEF LibraryInv
<1>2. ShutdownWakeup'
  BY <1>1 DEF LibraryInv, ShutdownWakeup, requestVars
<1> QED
  BY <1>1, <1>2 DEF LibraryInv, LibraryType, requestVars

LEMMA StepReceive ==
  ASSUME LibraryInv, ReceiveEvent \/ ReceiveNothing \/ DispatchEvent \/ SkipReceive \/ SkipSend
  PROVE  LibraryInv'
<1>1. UNCHANGED <<requestVars, write_set, sock_fd>>
  BY DEF ReceiveEvent, ReceiveNothing, DispatchEvent, SkipReceive, SkipSend, socketVars
<1>2. PICK stage \in {"dispatch", AfterReceive(write_set), "select"} : GoTo(stage, read_set)
  BY DEF ReceiveEvent, ReceiveNothing, DispatchEvent, SkipReceive, SkipSend
<1>3. stage /= "read_pipe" /\ (stage = "send" => write_set /= {})
  BY <1>2 DEF AfterReceive
<1> QED
  BY <1>1, <1>2, <1>3, StepToNextStage

\* The end of a send, successful or not, leaves the queue `queue`.
LEMMA EndOfAnySend ==
  ASSUME LibraryInv, NEW queue, SignalOverflow(queue), GoTo("select", read_set),
         write_set' = WriteSetAfterSend(queue)
  PROVE  /\ overflow_waiters' \subseteq Threads
         /\ sel_pc' = "select" /\ read_set' \subseteq {Pipe, Sock, Minus1}
         /\ write_set' \subseteq {Sock, Minus1}
         /\ write_set' /= {} => queue /= <<>>
BY DEF LibraryInv, LibraryType, SignalOverflow, GoTo, WriteSetAfterSend

LEMMA StepSendSucceeds ==
  ASSUME LibraryInv, SendSucceeds
  PROVE  LibraryInv' /\ output_queue /= <<>>
<1>1. output_queue /= <<>> /\ pipe = 0
  BY DEF LibraryInv, ShutdownWakeup, SendSucceeds
<1>2. output_queue' \in Seq(Requests)
  BY <1>1, HeadTailProperties DEF LibraryInv, SendSucceeds
<1>3. /\ overflow_waiters' \subseteq Threads
      /\ sel_pc' = "select" /\ read_set' \subseteq {Pipe, Sock, Minus1}
      /\ write_set' \subseteq {Sock, Minus1}
      /\ write_set' /= {} => output_queue' /= <<>>
  BY EndOfAnySend DEF SendSucceeds
<1>4. ShutdownWakeup'
  BY <1>1, <1>3 DEF ShutdownWakeup, SendSucceeds
<1> QED
  BY <1>1, <1>2, <1>3, <1>4 DEF LibraryInv, LibraryType, SendSucceeds, socketVars

LEMMA StepSendFails ==
  ASSUME LibraryInv, SendFails
  PROVE  LibraryInv'
<1>1. pipe = 0
  BY DEF LibraryInv, ShutdownWakeup, SendFails
<1>2. /\ overflow_waiters' \subseteq Threads
      /\ sel_pc' = "select" /\ read_set' \subseteq {Pipe, Sock, Minus1}
      /\ write_set' \subseteq {Sock, Minus1}
      /\ write_set' /= {} => output_queue /= <<>>
  BY EndOfAnySend DEF SendFails
<1>3. ShutdownWakeup'
  BY <1>1, <1>2 DEF ShutdownWakeup, SendFails
<1> QED
  BY <1>2, <1>3 DEF LibraryInv, LibraryType, SendFails, socketVars

\* The worker, setCallback and the environment.
LEMMA StepOthers ==
  ASSUME LibraryInv, WorkerStep \/ SetCallback \/ EventArrives \/ SocketBlocks \/ SocketUnblocks
  PROVE  LibraryInv' /\ UNCHANGED <<requestVars, selectorVars, sock_fd>>
<1>1. UNCHANGED <<requestVars, selectorVars, sock_fd>>
  BY DEF WorkerStep, WorkerWaits, WorkerSpuriousWakeup, WorkerCallsBack, CallbackReturns,
     WorkerDrained, SetCallback, EventArrives, SocketBlocks, SocketUnblocks, socketVars
<1> QED
  BY <1>1 DEF LibraryInv, LibraryType, ShutdownWakeup, requestVars, selectorVars

(***************************************************************************)
(* All actions, and the calls                                              *)
(***************************************************************************)

\* The steps of the library, whatever the calls do.
LibraryStep ==
  \/ SelectOpen
  \/ SelectReturnsLate
  \/ SelectWithoutSocket
  \/ SkipReceive
  \/ SkipSend
  \/ SocketStep
  \/ UnchangedStep

LEMMA SpuriousWakeupStep ==
  ASSUME LibraryInv, NEW t \in Threads, PublisherSpuriousWakeup(t)
  PROVE  LibraryInv' /\ UNCHANGED <<output_queue, sock_fd>>
BY DEF LibraryInv, LibraryType, ShutdownWakeup, PublisherSpuriousWakeup, selectorVars, socketVars

LEMMA LibraryStepInv ==
  ASSUME LibraryInv, LibraryStep
  PROVE  LibraryInv' /\ sock_fd' = sock_fd
<1>1. CASE SelectOpen \/ SelectReturnsLate
  BY <1>1, StepSelect DEF SelectOpen, SelectReturnsLate, Select, socketVars
<1>2. CASE SelectWithoutSocket
  BY <1>2, StepSelectWithoutSocket DEF SelectWithoutSocket, socketVars
<1>3. CASE SkipReceive \/ SkipSend
  BY <1>3, StepReceive DEF SkipReceive, SkipSend, socketVars
<1>4. CASE SocketStep
  BY <1>4, StepSendSucceeds, StepReceive DEF SocketStep, SendSucceeds, ReceiveEvent, socketVars
<1>5. CASE UnchangedStep
  <2>1. CASE \E t \in Threads : Free(t) /\ Push(t)
    BY <2>1, StepPush DEF Push, socketVars
  <2>2. CASE \E t \in Threads : PublisherSpuriousWakeup(t)
    BY <2>2, SpuriousWakeupStep
  <2>3. CASE ReadPipe
    BY <2>3, StepReadPipe DEF ReadPipe, socketVars
  <2>4. CASE ReceiveNothing \/ DispatchEvent
    BY <2>4, StepReceive DEF ReceiveNothing, DispatchEvent, socketVars
  <2>5. CASE SendFails
    BY <2>5, StepSendFails DEF SendFails, socketVars
  <2>6. CASE WorkerStep \/ SetCallback \/ EventArrives \/ SocketBlocks \/ SocketUnblocks
    BY <2>6, StepOthers
  <2> QED
    BY <1>5, <2>1, <2>2, <2>3, <2>4, <2>5, <2>6 DEF UnchangedStep
<1> QED
  BY <1>1, <1>2, <1>3, <1>4, <1>5 DEF LibraryStep

LEMMA LibraryStepCalls ==
  ASSUME ShutdownInv, LibraryStep
  PROVE  UNCHANGED callVars /\ in_select' \in BOOLEAN
BY DEF ShutdownInv, ShutdownTypeOK, LibraryStep, SelectOpen, SelectReturnsLate, SelectWithoutSocket,
   SkipReceive, SkipSend, SocketStep, UnchangedStep, shutdownVars, callVars

\* The beginning of a call.
CallBegins(t) == JavaDisconnect(t) \/ PlainDisconnect(t) \/ PlainDelete(t)

LEMMA StepCallBegins ==
  ASSUME ShutdownInv, NEW t \in Clients, CallBegins(t)
  PROVE  ShutdownInv'
<1>1. UNCHANGED <<vars, fd_open, in_select, closed, closes, deletes>>
  BY DEF CallBegins, JavaDisconnect, PlainDisconnect, PlainDelete
<1>2. PICK to \in {"disconnect", "destroy", "done"} : call_pc' = [call_pc EXCEPT ![t] = to]
  BY DEF CallBegins, JavaDisconnect, PlainDisconnect, PlainDelete
<1>3. PICK c \in {"java_disconnect", "disconnect", "delete"} : call' = [call EXCEPT ![t] = c]
  BY DEF CallBegins, JavaDisconnect, PlainDisconnect, PlainDelete
<1> overlapped' \in BOOLEAN
  BY DEF CallBegins, JavaDisconnect, PlainDisconnect, PlainDelete, NoteOverlap, ShutdownInv,
     ShutdownTypeOK
<1>4. ResetAfterClose'
  BY <1>1, <1>2 DEF ShutdownInv, ShutdownTypeOK, ResetAfterClose
<1>5. ShutdownTypeOK'
  BY <1>1, <1>2, <1>3 DEF ShutdownInv, ShutdownTypeOK, vars, requestVars, selectorVars, socketVars
<1> QED
  BY <1>1, <1>4, <1>5 DEF ShutdownInv, LibraryType, ShutdownWakeup, vars, requestVars, selectorVars

\* A call changes of the library only sock_fd and overflow_waiters.
LEMMA CallStepLibrary ==
  ASSUME ShutdownInv, NEW t \in Clients, CallStep(t)
  PROVE  /\ UNCHANGED <<output_queue, pipe, pushed, transmitted, selectorVars>>
         /\ sock_fd' \in {sock_fd, Minus1}
         /\ overflow_waiters' \subseteq overflow_waiters \union {t}
BY DEF CallStep, AlreadyDisconnected, SendDisconnect, DisconnectCloses, DisconnectResets,
   DestroyFlushes, DestroyCloses, MarkClosed, vars, requestVars, selectorVars, socketVars

LEMMA StepCallStep ==
  ASSUME ShutdownInv, NEW t \in Clients, CallStep(t)
  PROVE  ShutdownInv'
<1>1. /\ UNCHANGED <<output_queue, pipe, pushed, transmitted, selectorVars>>
      /\ sock_fd' \in {sock_fd, Minus1}
      /\ overflow_waiters' \subseteq overflow_waiters \union {t}
  BY CallStepLibrary
<1>2. UNCHANGED <<call, overlapped>> /\ closed' \in BOOLEAN /\ deletes' \in Nat
  <2>1. UNCHANGED <<call, overlapped>> /\ closed' \in {closed, TRUE}
    BY DEF CallStep, AlreadyDisconnected, SendDisconnect, DisconnectCloses,
       DisconnectResets, DestroyFlushes, DestroyCloses, MarkClosed
  <2>2. deletes' \in {deletes, deletes + 1}
    BY DEF CallStep, AlreadyDisconnected, SendDisconnect, DisconnectCloses,
       DisconnectResets, DestroyFlushes, DestroyCloses, MarkClosed
  <2>3. closed' \in BOOLEAN
    BY <2>1 DEF ShutdownInv, ShutdownTypeOK
  <2>4. deletes' \in Nat
    BY <2>2 DEF ShutdownInv, ShutdownTypeOK
  <2> QED
    BY <2>1, <2>3, <2>4
<1>3. closes' \in Nat /\ in_select' \in BOOLEAN /\ fd_open' \in {fd_open, FALSE}
  <2>1. CloseSocket \/ UNCHANGED <<fd_open, in_select, closes>>
    BY DEF CallStep, AlreadyDisconnected, SendDisconnect, DisconnectCloses,
       DisconnectResets, DestroyFlushes, DestroyCloses, MarkClosed
  <2>2. CASE CloseSocket
    <3>1. in_select' \in {in_select} \union BOOLEAN
      BY <2>2 DEF CloseSocket
    <3>2. in_select' \in BOOLEAN
      BY <3>1 DEF ShutdownInv, ShutdownTypeOK
    <3>3. closes' \in Nat
      BY <2>2 DEF CloseSocket, ShutdownInv, ShutdownTypeOK
    <3> QED
      BY <2>2, <3>2, <3>3 DEF CloseSocket
  <2>3. CASE UNCHANGED <<fd_open, in_select, closes>>
    BY <2>3 DEF ShutdownInv, ShutdownTypeOK
  <2> QED
    BY <2>1, <2>2, <2>3
<1>4. PICK to \in {"destroy", "done", "close", "reset", "close_fd", "mark"} :
        call_pc' = [call_pc EXCEPT ![t] = to]
  BY DEF CallStep, AlreadyDisconnected, SendDisconnect, DisconnectCloses,
     DisconnectResets, DestroyFlushes, DestroyCloses, MarkClosed, At, AfterDisconnect
<1>5. to = "reset" => ~fd_open'
  BY <1>4 DEF ShutdownInv, ShutdownTypeOK, CallStep, AlreadyDisconnected, SendDisconnect, DisconnectCloses,
     DisconnectResets, DestroyFlushes, DestroyCloses, MarkClosed, At, AfterDisconnect, CloseSocket
<1>6. ResetAfterClose'
  BY <1>3, <1>4, <1>5 DEF ShutdownInv, ShutdownTypeOK, ResetAfterClose
<1>7. sock_fd' = Minus1 => ~fd_open'
  <2>1. CASE sock_fd = Minus1
    BY <1>3, <2>1 DEF ShutdownInv, ShutdownTypeOK
  <2>2. CASE sock_fd /= Minus1 /\ sock_fd' = Minus1
    <3>1. DisconnectResets(t)
      BY <2>2 DEF CallStep, AlreadyDisconnected, SendDisconnect, DisconnectCloses,
         DestroyFlushes, DestroyCloses, MarkClosed, vars, socketVars
    <3> QED
      BY <1>3, <3>1 DEF DisconnectResets, At, ShutdownInv, ResetAfterClose
  <2> QED
    BY <2>1, <2>2
<1>8. ShutdownTypeOK'
  <2>1. call_pc' \in [Clients -> {"idle", "disconnect", "close", "reset", "destroy", "close_fd", "mark", "done"}]
    BY <1>4 DEF ShutdownInv, ShutdownTypeOK
  <2> QED
    BY <1>1, <1>2, <1>3, <1>7, <2>1 DEF ShutdownInv, ShutdownTypeOK, selectorVars
<1>9. LibraryType' /\ ShutdownWakeup'
  BY <1>1 DEF ShutdownInv, LibraryType, ShutdownWakeup, selectorVars, Threads
<1> QED
  BY <1>6, <1>8, <1>9 DEF ShutdownInv

LEMMA ShutdownCases ==
  ASSUME ShutdownNext
  PROVE  \/ \E t \in Clients : CallBegins(t) \/ CallStep(t)
         \/ LibraryStep
BY DEF ShutdownNext, CallBegins, LibraryStep

LEMMA ShutdownInvNext == ShutdownInv /\ [ShutdownNext]_allVars => ShutdownInv'
<1> SUFFICES ASSUME ShutdownInv, [ShutdownNext]_allVars PROVE ShutdownInv'
  OBVIOUS
<1>1. ASSUME NEW t \in Clients, CallBegins(t) \/ CallStep(t) PROVE ShutdownInv'
  BY <1>1, StepCallBegins, StepCallStep
<1>2. CASE LibraryStep
  BY <1>2, InvLibrary, LibraryStepInv, LibraryStepCalls, CallsUntouched
<1>3. CASE UNCHANGED allVars
  BY <1>3 DEF allVars, vars, requestVars, selectorVars, socketVars, shutdownVars, ShutdownInv,
     ShutdownTypeOK, LibraryType, ResetAfterClose, ShutdownWakeup
<1> QED
  BY <1>1, <1>2, <1>3, ShutdownCases

LEMMA ShutdownInvHolds == ShutdownSpec => []ShutdownInv
BY ShutdownInvInit, ShutdownInvNext, PTL DEF ShutdownSpec

\* Every variable keeps its type whatever the threads call, and sock_fd is -1
\* only after a close.
THEOREM ShutdownTypeCorrect == ShutdownSpec => []ShutdownTypeOK
<1>1. ShutdownInv => ShutdownTypeOK
  BY DEF ShutdownInv
<1> QED
  BY <1>1, ShutdownInvHolds, PTL

\* The selector never calls output_queue.front() on an empty queue, not even
\* with a socket that is closed, or gone, under its hands.
THEOREM NoSendFromEmptyQueueInShutdown == ShutdownSpec => []NeverSendsFromEmptyQueue
<1>1. ShutdownInv => NeverSendsFromEmptyQueue
  BY DEF ShutdownInv, ShutdownWakeup, NeverSendsFromEmptyQueue
<1> QED
  BY <1>1, ShutdownInvHolds, PTL

(***************************************************************************)
(* The paths of requests and events through a shutdown                     *)
(***************************************************************************)

\* For the paths every step is one that NBBlackadderProofs knows: calls do not
\* touch them, and a sendmsg succeeds only with a request in the queue.
LEMMA ShutdownSteps ==
  ASSUME ShutdownInv, ShutdownNext \/ UNCHANGED allVars
  PROVE  PathStep /\ EventStep
<1>1. ASSUME NEW t \in Clients, CallBegins(t)
      PROVE  PathStep /\ EventStep
  BY <1>1 DEF CallBegins, JavaDisconnect, PlainDisconnect, PlainDelete, vars, requestVars,
     selectorVars, eventVars, socketVars, PathStep, EventStep
<1>2. ASSUME NEW t \in Clients, CallStep(t)
      PROVE  PathStep /\ EventStep
  BY <1>2 DEF CallStep, AlreadyDisconnected, SendDisconnect, DisconnectCloses, DisconnectResets,
     DestroyFlushes, DestroyCloses, MarkClosed, vars, requestVars, selectorVars, eventVars,
     socketVars, PathStep, EventStep
<1>3. CASE SelectOpen \/ SelectReturnsLate \/ SelectWithoutSocket \/ SkipReceive \/ SkipSend
  BY <1>3 DEF SelectOpen, SelectReturnsLate, SelectWithoutSocket, SkipReceive, SkipSend, Select,
     requestVars, eventVars, socketVars, PathStep, EventStep
<1>4. CASE SocketStep
  <2>1. SendSucceeds => output_queue /= <<>>
    BY InvLibrary, StepSendSucceeds
  <2>2. PathStep
    BY <1>4, <2>1 DEF SocketStep, ReceiveEvent, requestVars, PathStep
  <2>3. EventStep
    BY <1>4 DEF SocketStep, SendSucceeds, eventVars, socketVars, EventStep
  <2> QED
    BY <2>2, <2>3
<1>5. CASE UnchangedStep
  <2>1. PathStep
    BY <1>5 DEF UnchangedStep, PathStep, PublisherSpuriousWakeup, ReadPipe, ReceiveNothing,
       DispatchEvent, SendFails, WorkerStep, WorkerWaits, WorkerSpuriousWakeup, WorkerCallsBack,
       CallbackReturns, WorkerDrained, SetCallback, EventArrives, SocketBlocks, SocketUnblocks,
       requestVars
  <2>2. EventStep
    BY <1>5 DEF UnchangedStep, EventStep, Push, PublisherSpuriousWakeup, ReadPipe, ReceiveNothing,
       SendFails, WorkerStep, WorkerWaits, WorkerSpuriousWakeup,
       CallbackReturns, WorkerDrained, SetCallback, SocketBlocks, SocketUnblocks,
       selectorVars, eventVars, socketVars
  <2> QED
    BY <2>1, <2>2
<1>6. CASE UNCHANGED allVars
  BY <1>6 DEF allVars, vars, requestVars, selectorVars, eventVars, socketVars, PathStep, EventStep
<1> QED
  BY <1>1, <1>2, <1>3, <1>4, <1>5, <1>6, ShutdownCases DEF LibraryStep

LEMMA RequestTypesStep == RequestTypes /\ PathStep => RequestTypes'
<1> SUFFICES ASSUME RequestTypes, PathStep PROVE RequestTypes'
  OBVIOUS
<1>1. ASSUME NEW t \in Threads, Push(t) PROVE RequestTypes'
  <2>1. <<t, pushed[t] + 1>> \in Requests
    BY <1>1, PushAppends
  <2>2. output_queue' \in Seq(Requests)
    BY <1>1, <2>1, AppendProperties DEF RequestTypes, Push
  <2>3. pushed' \in [Threads -> Nat] /\ transmitted' = transmitted
    BY <1>1 DEF RequestTypes, Push
  <2> QED
    BY <2>2, <2>3 DEF RequestTypes
<1>2. ASSUME SendSucceeds, output_queue /= <<>> PROVE RequestTypes'
  <2>1. Head(output_queue) \in Requests /\ Tail(output_queue) \in Seq(Requests)
    BY <1>2, HeadTailProperties DEF RequestTypes
  <2> QED
    BY <1>2, <2>1, AppendProperties DEF RequestTypes, SendSucceeds
<1>3. ASSUME UNCHANGED <<transmitted, output_queue, pushed>> PROVE RequestTypes'
  BY <1>3 DEF RequestTypes
<1> QED
  BY <1>1, <1>2, <1>3 DEF PathStep

LEMMA EventTypesStep == EventTypes /\ EventStep => EventTypes'
<1> SUFFICES ASSUME EventTypes, EventStep PROVE EventTypes'
  OBVIOUS
<1>1. ASSUME EventArrives PROVE EventTypes'
  <2>1. arrived + 1 \in Events
    BY <1>1, ArrivalSubmits
  <2>2. inbox' \in Seq(Events)
    BY <1>1, <2>1, AppendProperties DEF EventTypes, EventArrives
  <2> QED
    BY <1>1, <2>2 DEF EventTypes, EventArrives, selectorVars, eventVars
<1>2. ASSUME ReceiveEvent PROVE EventTypes'
  <2>1. Head(inbox) \in Events /\ Tail(inbox) \in Seq(Events)
    BY <1>2, HeadTailProperties DEF EventTypes, ReceiveEvent
  <2>2. <<Head(inbox)>> \in Seq(Events)
    BY <2>1
  <2> QED
    BY <1>2, <2>1, <2>2 DEF EventTypes, ReceiveEvent, eventVars
<1>3. ASSUME DispatchEvent PROVE EventTypes'
  <2>1. event_queue \o received \in Seq(Events)
    BY ConcatProperties DEF EventTypes
  <2>2. <<>> \in Seq(Events)
    BY EmptySeq
  <2> QED
    BY <1>3, <2>1, <2>2 DEF EventTypes, DispatchEvent, socketVars
<1>4. ASSUME WorkerCallsBack PROVE EventTypes'
  <2>1. Head(event_queue) \in Events /\ Tail(event_queue) \in Seq(Events)
    BY <1>4, HeadTailProperties DEF EventTypes, WorkerCallsBack
  <2>2. Append(discarded, Head(event_queue)) \in Seq(Events)
        /\ Append(handled, Head(event_queue)) \in Seq(Events)
    BY <2>1, AppendProperties DEF EventTypes
  <2> QED
    BY <1>4, <2>1, <2>2 DEF EventTypes, WorkerCallsBack, selectorVars, socketVars
<1>5. ASSUME UNCHANGED <<discarded, handled, event_queue, received, inbox, arrived>>
      PROVE  EventTypes'
  BY <1>5 DEF EventTypes
<1> QED
  BY <1>1, <1>2, <1>3, <1>4, <1>5 DEF EventStep

\* The selector's hand is empty outside of the dispatch stage, whatever has
\* become of the socket.
LEMMA EventInvariantInShutdown ==
  ASSUME EventInvariant, ShutdownNext \/ UNCHANGED allVars
  PROVE  EventInvariant'
<1>1. ASSUME NEW t \in Clients, CallBegins(t) \/ CallStep(t)
      PROVE  UNCHANGED <<sel_pc, received, cf, handled>>
  BY <1>1 DEF CallBegins, JavaDisconnect, PlainDisconnect, PlainDelete, CallStep,
     AlreadyDisconnected, SendDisconnect, DisconnectCloses, DisconnectResets,
     DestroyFlushes, DestroyCloses, MarkClosed, vars, selectorVars, eventVars
<1>2. CASE SelectOpen \/ SelectReturnsLate \/ SelectWithoutSocket \/ SkipReceive \/ SkipSend
  BY <1>2 DEF EventInvariant, SelectOpen, SelectReturnsLate, SelectWithoutSocket, SkipReceive,
     SkipSend, Select, eventVars, GoTo, AfterSelect, AfterPipe, AfterReceive
<1>3. CASE SocketStep
  BY <1>3 DEF EventInvariant, SocketStep, SendSucceeds, ReceiveEvent, GoTo, eventVars
<1>4. CASE UnchangedStep
  <2>1. sel_pc' /= "dispatch" => received' = <<>>
    BY <1>4 DEF EventInvariant, UnchangedStep, Push, PublisherSpuriousWakeup, ReadPipe,
       ReceiveNothing, DispatchEvent, SendFails, WorkerStep, WorkerWaits, WorkerSpuriousWakeup,
       WorkerCallsBack, CallbackReturns, WorkerDrained, SetCallback, EventArrives, SocketBlocks,
       SocketUnblocks, GoTo, AfterPipe, AfterReceive, selectorVars
  <2>2. cf' = "default" => handled' = <<>>
    BY <1>4 DEF EventInvariant, UnchangedStep, Push, PublisherSpuriousWakeup, ReadPipe,
       ReceiveNothing, DispatchEvent, SendFails, WorkerStep, WorkerWaits, WorkerSpuriousWakeup,
       WorkerCallsBack, CallbackReturns, WorkerDrained, SetCallback, EventArrives, SocketBlocks,
       SocketUnblocks, eventVars
  <2> QED
    BY <2>1, <2>2 DEF EventInvariant
<1>5. CASE UNCHANGED allVars
  BY <1>5 DEF EventInvariant, allVars, vars, selectorVars, eventVars
<1> QED
  BY <1>1, <1>2, <1>3, <1>4, <1>5, ShutdownCases DEF LibraryStep, EventInvariant

LEMMA PathTypesInit == ShutdownInit => RequestTypes /\ EventTypes
BY EmptySeq DEF ShutdownInit, Init, RequestTypes, EventTypes

LEMMA PathTypesHold ==
  ShutdownSpec => [](ShutdownInv /\ RequestTypes /\ EventTypes /\ EventInvariant)
<1>1. ShutdownInv /\ RequestTypes /\ EventTypes /\ EventInvariant /\ [ShutdownNext]_allVars
        => RequestTypes' /\ EventTypes' /\ EventInvariant'
  BY ShutdownSteps, RequestTypesStep, EventTypesStep, EventInvariantInShutdown
<1>2. ShutdownInit => EventInvariant
  BY EventInvariantInit DEF ShutdownInit
<1> QED
  BY <1>1, <1>2, PathTypesInit, ShutdownInvHolds, PTL DEF ShutdownSpec

\* While the library is disconnected and deleted under the hands of its threads
\* nothing is lost, doubled or overtaken between push and the socket: what is not
\* transmitted any more stays queued, in order.
THEOREM RequestsStayFifo == ShutdownSpec => RequestsAreFifo
<1>1. ShutdownInit => RequestChannel!Init
  BY RequestsFifoInit DEF ShutdownInit
<1>2. ShutdownInv /\ RequestTypes /\ [ShutdownNext]_allVars
        => [RequestChannel!Next]_(RequestChannel!vars)
  BY ShutdownSteps, RequestsFifoStep
<1> QED
  BY <1>1, <1>2, PathTypesHold, PTL DEF ShutdownSpec, RequestsAreFifo, RequestChannel!Spec

\* Each request of each thread is still transmitted or queued once, and in the
\* order of the thread's calls, however many threads disconnect and delete.
THEOREM ThreadOrderSurvives == ShutdownSpec => []RequestsInThreadOrder
<1>1. ShutdownInit => RequestsInThreadOrder
  BY ThreadOrderInit DEF ShutdownInit
<1>2. ShutdownInv /\ RequestTypes /\ RequestsInThreadOrder /\ [ShutdownNext]_allVars
        => RequestsInThreadOrder'
  BY ShutdownSteps, ThreadOrderStep
<1> QED
  BY <1>1, <1>2, PathTypesHold, PTL DEF ShutdownSpec

\* The events too: those that still come out of the socket reach the callbacks
\* once and in order while the application takes the library down.
THEOREM EventsStayFifo == ShutdownSpec => EventsAreFifo
<1>1. ShutdownInit => EventChannel!Init
  BY EventsFifoInit DEF ShutdownInit
<1>2. ShutdownInv /\ EventTypes /\ EventInvariant /\ [ShutdownNext]_allVars
        => [EventChannel!Next]_(EventChannel!vars)
  BY ShutdownSteps, EventsFifoStep
<1> QED
  BY <1>1, <1>2, PathTypesHold, PTL DEF ShutdownSpec, EventsAreFifo, EventChannel!Spec

(***************************************************************************)
(* The destructor's wait is a flush.                                       *)
(***************************************************************************)

\* A thread leaves the wait only if it is signalled or wakes up spuriously; the
\* signal means an empty queue.
LEMMA WaitersLeave ==
  ASSUME ShutdownInv, LibraryStep, ~SpuriousWakeups
  PROVE  overflow_waiters \subseteq overflow_waiters' \/ output_queue' = <<>>
<1>1. CASE \E t \in Threads : Free(t) /\ Push(t)
  BY <1>1 DEF Push, WaitersAfterPush
<1>2. CASE SendFails
  BY <1>2 DEF SendFails, SignalOverflow
<1>3. CASE SocketStep
  BY <1>3 DEF SocketStep, SendSucceeds, SignalOverflow, ReceiveEvent, requestVars
<1>4. CASE WorkerStep \/ SetCallback \/ EventArrives \/ SocketBlocks \/ SocketUnblocks
  BY <1>4, InvLibrary, StepOthers DEF requestVars
<1>5. CASE SelectOpen \/ SelectReturnsLate \/ SelectWithoutSocket \/ SkipReceive \/ SkipSend
           \/ ReadPipe \/ ReceiveNothing \/ DispatchEvent
  BY <1>5 DEF SelectOpen, SelectReturnsLate, SelectWithoutSocket, SkipReceive, SkipSend, Select,
     ReadPipe, ReceiveNothing, DispatchEvent, requestVars
<1>6. ~(\E t \in Threads : PublisherSpuriousWakeup(t))
  BY DEF PublisherSpuriousWakeup
<1> QED
  BY <1>1, <1>2, <1>3, <1>4, <1>5, <1>6 DEF LibraryStep, UnchangedStep

\* While a delete is under way nobody pushes, so an empty queue stays empty.
LEMMA EmptyStaysEmpty ==
  ASSUME ShutdownInv, LibraryStep, NEW t \in Clients, call[t] = "delete", output_queue = <<>>
  PROVE  output_queue' = <<>>
<1>1. ~(\E u \in Threads : Free(u))
  BY DEF Free
<1>2. ~SendSucceeds
  BY InvLibrary, StepSendSucceeds
<1>3. CASE WorkerStep \/ SetCallback \/ EventArrives \/ SocketBlocks \/ SocketUnblocks
  BY <1>3, InvLibrary, StepOthers DEF requestVars
<1>4. CASE SendFails \/ ReadPipe \/ ReceiveNothing \/ DispatchEvent
           \/ \E u \in Threads : PublisherSpuriousWakeup(u)
  BY <1>4 DEF SendFails, ReadPipe, ReceiveNothing, DispatchEvent, PublisherSpuriousWakeup, requestVars
<1>5. CASE SelectOpen \/ SelectReturnsLate \/ SelectWithoutSocket \/ SkipReceive \/ SkipSend
           \/ ReceiveEvent
  BY <1>5 DEF SelectOpen, SelectReturnsLate, SelectWithoutSocket, SkipReceive, SkipSend, Select,
     ReceiveEvent, requestVars
<1> QED
  BY <1>1, <1>2, <1>3, <1>4, <1>5 DEF LibraryStep, UnchangedStep, SocketStep

LEMMA FlushInit == ShutdownInit => FlushedBeforeDelete
BY DEF ShutdownInit, FlushedBeforeDelete

LEMMA FlushNext ==
  ASSUME ShutdownInv, FlushedBeforeDelete, ShutdownNext \/ UNCHANGED allVars, ~SpuriousWakeups
  PROVE  FlushedBeforeDelete'
<1> SUFFICES ASSUME NEW t \in Clients, call'[t] = "delete", call_pc'[t] = "close_fd",
                    t \notin overflow_waiters'
             PROVE  output_queue' = <<>>
  BY DEF FlushedBeforeDelete
<1>1. CASE LibraryStep
  <2>1. call[t] = "delete" /\ call_pc[t] = "close_fd"
    BY <1>1, LibraryStepCalls DEF callVars
  <2>2. CASE t \in overflow_waiters
    BY <1>1, <2>2, WaitersLeave
  <2>3. CASE t \notin overflow_waiters
    BY <1>1, <2>1, <2>3, EmptyStaysEmpty DEF FlushedBeforeDelete
  <2> QED
    BY <2>2, <2>3
<1>2. ASSUME NEW u \in Clients, CallBegins(u) PROVE output_queue' = <<>>
  <2>1. UNCHANGED vars /\ u /= t /\ call[t] = "delete" /\ call_pc[t] = "close_fd"
    BY <1>2 DEF CallBegins, JavaDisconnect, PlainDisconnect, PlainDelete, ShutdownInv, ShutdownTypeOK
  <2> QED
    BY <2>1 DEF FlushedBeforeDelete, vars, requestVars
<1>3. ASSUME NEW u \in Clients, CallStep(u) PROVE output_queue' = <<>>
  <2>1. UNCHANGED <<call, output_queue>>
    BY <1>3, CallStepLibrary DEF CallStep, AlreadyDisconnected, SendDisconnect, DisconnectCloses,
       DisconnectResets, DestroyFlushes, DestroyCloses, MarkClosed
  <2>2. CASE u = t
    <3>1. DestroyFlushes(t)
      BY <1>3, <2>2 DEF CallStep, AlreadyDisconnected, SendDisconnect, DisconnectCloses,
         DisconnectResets, DestroyCloses, MarkClosed, At, AfterDisconnect, ShutdownInv, ShutdownTypeOK
    <3> QED
      BY <2>1, <3>1 DEF DestroyFlushes
  <2>3. CASE u /= t
    <3>1. call_pc[t] = "close_fd"
      BY <1>3, <2>3 DEF CallStep, AlreadyDisconnected, SendDisconnect, DisconnectCloses,
         DisconnectResets, DestroyFlushes, DestroyCloses, MarkClosed, At, ShutdownInv, ShutdownTypeOK
    <3>2. t \notin overflow_waiters
      BY <1>3 DEF CallStep, AlreadyDisconnected, SendDisconnect, DisconnectCloses, DisconnectResets,
         DestroyFlushes, DestroyCloses, MarkClosed, vars, requestVars
    <3> QED
      BY <2>1, <3>1, <3>2 DEF FlushedBeforeDelete
  <2> QED
    BY <2>2, <2>3
<1>4. CASE UNCHANGED allVars
  BY <1>4 DEF allVars, vars, requestVars, shutdownVars, FlushedBeforeDelete
<1> QED
  BY <1>1, <1>2, <1>3, <1>4, ShutdownCases

\* However many threads use the library and whatever they had called before: a
\* delete that has stopped waiting closes the socket with every request sent,
\* unless a wait may end spuriously.
THEOREM DeleteFlushes ==
  ASSUME ~SpuriousWakeups
  PROVE  ShutdownSpec => []FlushedBeforeDelete
<1>1. ShutdownInv /\ FlushedBeforeDelete /\ [ShutdownNext]_allVars => FlushedBeforeDelete'
  BY FlushNext
<1> QED
  BY <1>1, FlushInit, ShutdownInvHolds, PTL DEF ShutdownSpec

\* A delete that has stopped waiting finds every request of every thread sent.
EverythingSent ==
  \A t \in Clients :
    call[t] = "delete" /\ call_pc[t] = "close_fd" /\ t \notin overflow_waiters =>
      \A u \in Threads : \A n \in 1..pushed[u] :
        \E i \in DOMAIN transmitted : transmitted[i] = <<u, n>>

\* What the flush is for: nothing any thread has ever pushed is missing at the
\* node when the destructor closes the socket.  An empty queue alone would not
\* say so; that the path loses nothing does.
THEOREM DeleteSendsEverything ==
  ASSUME ~SpuriousWakeups
  PROVE  ShutdownSpec => []EverythingSent
<1>1. RequestTypes /\ FlushedBeforeDelete /\ RequestsInThreadOrder => EverythingSent
  <2> SUFFICES ASSUME RequestTypes, FlushedBeforeDelete, RequestsInThreadOrder,
                      NEW t \in Clients, call[t] = "delete", call_pc[t] = "close_fd",
                      t \notin overflow_waiters,
                      NEW u \in Threads, NEW n \in 1..pushed[u]
               PROVE  \E i \in DOMAIN transmitted : transmitted[i] = <<u, n>>
    BY DEF EverythingSent
  <2>1. output_queue = <<>>
    BY DEF FlushedBeforeDelete
  <2>2. Path = transmitted
    BY <2>1, ConcatEmptySeq DEF Path, RequestTypes
  <2> QED
    BY <2>2 DEF RequestsInThreadOrder
<1> QED
  BY <1>1, DeleteFlushes, ThreadOrderSurvives, PathTypesHold, PTL

(***************************************************************************)
(* Calls of any threads, one after the other                               *)
(***************************************************************************)

\* What where a thread is in its call says of its call, the socket and the flag.
CallInv(t) ==
  /\ call_pc[t] = "idle" => call[t] = "none"
  /\ call_pc[t] \in {"disconnect", "close", "reset"} => call[t] \in {"java_disconnect", "disconnect"}
  /\ call_pc[t] \in {"destroy", "close_fd"} => call[t] \in {"java_disconnect", "delete"}
  /\ call_pc[t] = "mark" => call[t] = "java_disconnect"
  /\ call[t] = "delete" => call_pc[t] \in {"destroy", "close_fd", "done"}
  /\ call_pc[t] \in {"close", "reset"} => sock_fd = Sock
  /\ call[t] = "java_disconnect" =>
       /\ call_pc[t] \in {"destroy", "close_fd", "mark"} => sock_fd = Minus1
       /\ call_pc[t] = "done" => closed

\* Two threads are not inside calls together, the wrapper's callers do not call
\* the library themselves, and nobody calls anything after a plain delete.
PairInv(t, u) ==
  /\ ~(Inside(t) /\ Inside(u))
  /\ call[t] = "java_disconnect" => call[u] \in {"none", "java_disconnect"}
  /\ call[t] = "delete" => call[u] \in {"none", "disconnect"} /\ ~Inside(u)

Deleted(t) == call[t] = "delete" /\ call_pc[t] = "done"

\* The socket is closed, and the object deleted, once and at these points.
CountInv ==
  /\ closes \in {0, 1}
  /\ closes = 1 <=> sock_fd = Minus1 \/ \E t \in Clients : call_pc[t] = "reset" \/ Deleted(t)
  /\ deletes \in {0, 1}
  /\ deletes = 1 <=> closed \/ \E t \in Clients : call_pc[t] = "mark" \/ Deleted(t)
  /\ closed => /\ \A t \in Clients : ~Inside(t)
               /\ \E t \in Clients : call[t] = "java_disconnect"

SequentialInv ==
  /\ \A t \in Clients : CallInv(t)
  /\ \A t, u \in Clients : t /= u => PairInv(t, u)
  /\ CountInv

LEMMA SequentialInit == ShutdownInit => SequentialInv
BY DEF ShutdownInit, Init, SequentialInv, CallInv, PairInv, CountInv, Deleted, Inside, Sock, Minus1

\* Where the steps of a call lead.
Stages == {"close", "reset", "destroy", "close_fd", "mark", "done"}

\* Where the call of thread t moves to, everything else of the calls as it was.
Moves(t, to) ==
  /\ call_pc' = [call_pc EXCEPT ![t] = to]
  /\ UNCHANGED <<call, overlapped>>

\* A thread inside a call is the only one, and goes on with the same call.
LEMMA MoveInv ==
  ASSUME ShutdownInv, SequentialInv, NEW t \in Clients, NEW to \in Stages, Moves(t, to),
         Inside(t), CallInv(t)', sock_fd' \in {sock_fd, Minus1}, closed => closed'
  PROVE  /\ \A u \in Clients : CallInv(u)'
         /\ \A u, v \in Clients : u /= v => PairInv(u, v)'
<1> USE DEF ShutdownInv, ShutdownTypeOK, SequentialInv
<1>1. \A u \in Clients : u /= t => call_pc'[u] = call_pc[u] /\ call'[u] = call[u] /\ ~Inside(u)
  BY DEF Moves, PairInv
<1>2. \A u \in Clients : u /= t => CallInv(u)'
  BY <1>1 DEF CallInv, Inside
<1>3. ASSUME NEW u \in Clients, NEW v \in Clients, u /= v PROVE PairInv(u, v)'
  <2>1. call' = call /\ PairInv(u, v)
    BY <1>3 DEF Moves
  <2>2. \A w \in Clients : w /= t => ~Inside(w)'
    BY <1>1 DEF Inside
  <2>3. ~(Inside(u)' /\ Inside(v)')
    BY <1>3, <2>2
  <2>4. call[u] = "delete" => ~Inside(v)'
    BY <1>3, <2>1, <2>2 DEF PairInv
  <2> QED
    BY <2>1, <2>3, <2>4 DEF PairInv
<1> QED
  BY <1>2, <1>3

\* CountInv names nobody, so that it only needs to know where t was and is: every
\* other thread is outside a call.
LEMMA CountAt ==
  ASSUME ShutdownInv, SequentialInv, NEW t \in Clients, NEW to \in Stages, Moves(t, to), Inside(t),
         closes' \in {0, 1}, deletes' \in {0, 1},
         \A u \in Clients : u /= t => ~Deleted(u),
         closes' = 1 <=> sock_fd' = Minus1 \/ to = "reset" \/ (call[t] = "delete" /\ to = "done"),
         deletes' = 1 <=> closed' \/ to = "mark" \/ (call[t] = "delete" /\ to = "done"),
         closed' => to = "done" /\ call[t] = "java_disconnect"
  PROVE  CountInv'
<1> USE DEF ShutdownInv, ShutdownTypeOK, SequentialInv
<1>1. \A u \in Clients : u /= t => call_pc'[u] = call_pc[u] /\ ~Inside(u)
  BY DEF Moves, PairInv
<1>2. \A u \in Clients : u /= t => ~Inside(u)' /\ ~Deleted(u)' /\ call_pc'[u] \notin {"reset", "mark"}
  BY <1>1 DEF Moves, Inside, Deleted
<1>3. call_pc'[t] = to /\ call'[t] = call[t]
  BY DEF Moves
<1>4. Deleted(t)' <=> call[t] = "delete" /\ to = "done"
  BY <1>3 DEF Deleted
<1>5. closes' = 1 <=> sock_fd' = Minus1 \/ \E u \in Clients : call_pc'[u] = "reset" \/ Deleted(u)'
  BY <1>2, <1>3, <1>4
<1>6. deletes' = 1 <=> closed' \/ \E u \in Clients : call_pc'[u] = "mark" \/ Deleted(u)'
  BY <1>2, <1>3, <1>4
<1>7. closed' => (\A u \in Clients : ~Inside(u)') /\ call'[t] = "java_disconnect"
  BY <1>2, <1>3 DEF Inside
<1> QED
  BY <1>5, <1>6, <1>7 DEF CountInv

\* What the counters say while t is inside a call.
LEMMA CountInside ==
  ASSUME ShutdownInv, SequentialInv, NEW t \in Clients, Inside(t)
  PROVE  /\ \A u \in Clients : u /= t => ~Deleted(u)
         /\ ~closed
         /\ closes \in {0, 1} /\ (closes = 1 <=> sock_fd = Minus1 \/ call_pc[t] = "reset")
         /\ deletes \in {0, 1} /\ (deletes = 1 <=> call_pc[t] = "mark")
<1> USE DEF ShutdownInv, ShutdownTypeOK, SequentialInv
<1>1. \A u \in Clients : u /= t => ~Deleted(u) /\ ~Inside(u)
  BY DEF PairInv, Deleted
<1>2. \A u \in Clients : u /= t => call_pc[u] \notin {"reset", "mark"}
  BY <1>1 DEF Inside
<1>3. ~closed /\ ~Deleted(t)
  BY DEF CountInv, Inside, Deleted
<1> QED
  BY <1>1, <1>2, <1>3 DEF CountInv

\* What a step of a call that moves thread t to `to` leaves behind.
Leaves(t, to) ==
  /\ Moves(t, to)
  /\ CallInv(t)'
  /\ sock_fd' \in {sock_fd, Minus1}
  /\ closes' \in {0, 1} /\ deletes' \in {0, 1}
  /\ closes' = 1 <=> sock_fd' = Minus1 \/ to = "reset" \/ (call[t] = "delete" /\ to = "done")
  /\ deletes' = 1 <=> closed' \/ to = "mark" \/ (call[t] = "delete" /\ to = "done")
  /\ closed' => to = "done" /\ call[t] = "java_disconnect"

LEMMA StepSequential ==
  ASSUME ShutdownInv, SequentialInv, NEW t \in Clients, CallStep(t)
  PROVE  SequentialInv'
<1> USE DEF ShutdownInv, ShutdownTypeOK
<1>1. Inside(t) /\ CallInv(t)
  BY DEF Inside, SequentialInv, CallStep, AlreadyDisconnected, SendDisconnect, DisconnectCloses,
     DisconnectResets, DestroyFlushes, DestroyCloses, MarkClosed, At
<1>2. /\ \A u \in Clients : u /= t => ~Deleted(u)
      /\ ~closed
      /\ closes \in {0, 1} /\ (closes = 1 <=> sock_fd = Minus1 \/ call_pc[t] = "reset")
      /\ deletes \in {0, 1} /\ (deletes = 1 <=> call_pc[t] = "mark")
  BY <1>1, CountInside
<1>3. ASSUME NEW to \in Stages, Leaves(t, to)
      PROVE  SequentialInv'
  <2>1. (\A u \in Clients : CallInv(u)') /\ \A u, v \in Clients : u /= v => PairInv(u, v)'
    BY <1>1, <1>2, <1>3, MoveInv DEF Leaves
  <2>2. CountInv'
    BY <1>1, <1>2, <1>3, CountAt DEF Leaves
  <2> QED
    BY <2>1, <2>2 DEF SequentialInv
<1>4. CASE AlreadyDisconnected(t)
  <2>1. Leaves(t, AfterDisconnect(t))
    BY <1>1, <1>2, <1>4 DEF Leaves, AlreadyDisconnected, At, AfterDisconnect, Moves, CallInv,
       vars, socketVars, Sock, Minus1
  <2> QED
    BY <1>3, <2>1 DEF AfterDisconnect, Stages
<1>5. CASE SendDisconnect(t)
  <2>1. Leaves(t, "close")
    BY <1>1, <1>2, <1>5 DEF Leaves, SendDisconnect, At, Moves, CallInv, vars, socketVars
  <2> QED
    BY <1>3, <2>1 DEF Stages
<1>6. CASE DisconnectCloses(t)
  <2>1. Leaves(t, "reset")
    BY <1>1, <1>2, <1>6 DEF Leaves, DisconnectCloses, CloseSocket, At, Moves, CallInv,
       vars, socketVars, Sock, Minus1
  <2> QED
    BY <1>3, <2>1 DEF Stages
<1>7. CASE DisconnectResets(t)
  <2>1. Leaves(t, AfterDisconnect(t))
    BY <1>1, <1>2, <1>7 DEF Leaves, DisconnectResets, At, AfterDisconnect, Moves, CallInv, Sock, Minus1
  <2> QED
    BY <1>3, <2>1 DEF AfterDisconnect, Stages
<1>8. CASE DestroyFlushes(t)
  <2>1. Leaves(t, "close_fd")
    BY <1>1, <1>2, <1>8 DEF Leaves, DestroyFlushes, At, Moves, CallInv, socketVars
  <2> QED
    BY <1>3, <2>1 DEF Stages
<1>9. CASE DestroyCloses(t)
  <2>1. CASE call[t] = "java_disconnect"
    <3>1. Leaves(t, "mark")
      BY <1>1, <1>2, <1>9, <2>1 DEF Leaves, DestroyCloses, CloseSocket, At, Moves, CallInv,
         vars, socketVars, Sock, Minus1
    <3> QED
      BY <1>3, <3>1 DEF Stages
  <2>2. CASE call[t] /= "java_disconnect"
    <3>1. Leaves(t, "done")
      BY <1>1, <1>2, <1>9, <2>2 DEF Leaves, DestroyCloses, CloseSocket, At, Moves, CallInv,
         vars, socketVars, Sock, Minus1
    <3> QED
      BY <1>3, <3>1 DEF Stages
  <2> QED
    BY <2>1, <2>2
<1>10. CASE MarkClosed(t)
  <2>1. Leaves(t, "done")
    BY <1>1, <1>2, <1>10 DEF Leaves, MarkClosed, At, Moves, CallInv, vars, socketVars
  <2> QED
    BY <1>3, <2>1 DEF Stages
<1> QED
  BY <1>4, <1>5, <1>6, <1>7, <1>8, <1>9, <1>10 DEF CallStep

\* A call that begins while nobody else is inside one.
LEMMA BeginSequential ==
  ASSUME ShutdownInv, SequentialInv, NEW t \in Clients, CallBegins(t), ~overlapped'
  PROVE  SequentialInv'
<1> USE DEF ShutdownInv, ShutdownTypeOK
<1>1. /\ UNCHANGED <<sock_fd, closed, closes, deletes>>
      /\ ~Inside(t)
      /\ \A u \in Clients : u /= t => ~Inside(u)
  BY DEF CallBegins, JavaDisconnect, PlainDisconnect, PlainDelete, NoteOverlap, Inside, vars, socketVars
<1>2. \A u \in Clients : ~Deleted(u) /\ call_pc[u] \notin {"reset", "mark"}
  BY <1>1 DEF CallBegins, JavaDisconnect, PlainDisconnect, PlainDelete, Deleted, Inside
<1>3. PICK to \in {"disconnect", "destroy", "done"}, c \in {"java_disconnect", "disconnect", "delete"} :
        /\ call_pc' = [call_pc EXCEPT ![t] = to] /\ call' = [call EXCEPT ![t] = c]
        /\ c = "java_disconnect" => /\ \A u \in Clients : call[u] \in {"none", "java_disconnect"}
                                    /\ to = IF closed THEN "done" ELSE "disconnect"
        /\ c /= "java_disconnect" => \A u \in Clients : call[u] \in {"none", "disconnect"}
        /\ c = "disconnect" => to = "disconnect"
        /\ c = "delete" => to = "destroy"
  BY DEF CallBegins, JavaDisconnect, PlainDisconnect, PlainDelete
<1>4. closed => c = "java_disconnect"
  BY <1>3 DEF SequentialInv, CountInv
<1>5. CallInv(t)'
  BY <1>1, <1>3, <1>4 DEF CallInv
<1>6. \A u \in Clients : u /= t => CallInv(u)' /\ ~Inside(u)' /\ call'[u] = call[u]
  BY <1>1, <1>3 DEF SequentialInv, CallInv, Inside
<1>7. ASSUME NEW u \in Clients, NEW v \in Clients, u /= v PROVE PairInv(u, v)'
  <2>1. ~(Inside(u)' /\ Inside(v)')
    BY <1>6, <1>7
  <2>2. call'[u] = "java_disconnect" => call'[v] \in {"none", "java_disconnect"}
    BY <1>3, <1>6, <1>7 DEF SequentialInv, PairInv
  <2>3. call'[u] = "delete" => u = t /\ call'[v] \in {"none", "disconnect"} /\ ~Inside(v)'
    BY <1>3, <1>6, <1>7
  <2> QED
    BY <2>1, <2>2, <2>3 DEF PairInv
<1>8. CountInv'
  <2>1. \A u \in Clients : ~Deleted(u)' /\ call_pc'[u] \notin {"reset", "mark"}
    BY <1>2, <1>3 DEF Deleted
  <2>2. closed => (\A u \in Clients : ~Inside(u)') /\ call'[t] = "java_disconnect"
    BY <1>3, <1>4, <1>6 DEF Inside
  <2> QED
    BY <1>1, <1>2, <2>1, <2>2 DEF SequentialInv, CountInv
<1> QED
  BY <1>5, <1>6, <1>7, <1>8 DEF SequentialInv

LEMMA SequentialNext ==
  ASSUME ShutdownInv, ~overlapped => SequentialInv, ShutdownNext \/ UNCHANGED allVars
  PROVE  ~overlapped' => SequentialInv'
<1> SUFFICES ASSUME ~overlapped' PROVE SequentialInv'
  OBVIOUS
<1>1. CASE LibraryStep
  <2>1. UNCHANGED <<sock_fd, callVars>>
    BY <1>1, InvLibrary, LibraryStepInv, LibraryStepCalls
  <2> QED
    BY <2>1 DEF callVars, SequentialInv, CallInv, PairInv, CountInv, Deleted, Inside
<1>2. CASE UNCHANGED allVars
  BY <1>2 DEF allVars, vars, socketVars, shutdownVars, SequentialInv, CallInv, PairInv, CountInv,
     Deleted, Inside
<1>3. ASSUME NEW t \in Clients, CallBegins(t) PROVE SequentialInv'
  <2>1. ~overlapped
    BY <1>3 DEF CallBegins, JavaDisconnect, PlainDisconnect, PlainDelete, NoteOverlap
  <2> QED
    BY <1>3, <2>1, BeginSequential
<1>4. ASSUME NEW t \in Clients, CallStep(t) PROVE SequentialInv'
  <2>1. ~overlapped
    BY <1>4 DEF CallStep, AlreadyDisconnected, SendDisconnect, DisconnectCloses,
       DisconnectResets, DestroyFlushes, DestroyCloses, MarkClosed
  <2> QED
    BY <1>4, <2>1, StepSequential
<1> QED
  BY <1>1, <1>2, <1>3, <1>4, ShutdownCases

\* However many threads disconnect and delete, through the wrapper or themselves:
\* as long as their calls do not overlap the descriptor is closed once.
THEOREM SocketIsClosedOnce == ShutdownSpec => []SocketClosedOnce
<1>1. ShutdownInit => (~overlapped => SequentialInv)
  BY SequentialInit
<1>2. ShutdownInv /\ (~overlapped => SequentialInv) /\ [ShutdownNext]_allVars
        => (~overlapped' => SequentialInv')
  BY SequentialNext
<1>3. (~overlapped => SequentialInv) => SocketClosedOnce
  BY DEF SequentialInv, CountInv, SocketClosedOnce
<1> QED
  BY <1>1, <1>2, <1>3, ShutdownInvHolds, PTL DEF ShutdownSpec

\* The flag of the wrapper does its work between any threads whose calls do not
\* overlap: a second delete takes a call that has tested the flag before another
\* one has set it.
THEOREM ObjectIsDeletedOnce == ShutdownSpec => []DeletedOnce
<1>1. ShutdownInit => (~overlapped => SequentialInv)
  BY SequentialInit
<1>2. ShutdownInv /\ (~overlapped => SequentialInv) /\ [ShutdownNext]_allVars
        => (~overlapped' => SequentialInv')
  BY SequentialNext
<1>3. (~overlapped => SequentialInv) => DeletedOnce
  BY DEF SequentialInv, CountInv, DeletedOnce
<1> QED
  BY <1>1, <1>2, <1>3, ShutdownInvHolds, PTL DEF ShutdownSpec
=============================================================================
