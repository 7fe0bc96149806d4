----------------------------- MODULE NBShutdown -----------------------------
(***************************************************************************)
(* NBBlackadder together with the ways an application gets rid of it: the  *)
(* Java BAWrapperNB.disconnect(), which calls NB_Blackadder::disconnect()  *)
(* and deletes the object through JNI, and a C++ application's own         *)
(* disconnect and delete.                                                  *)
(*                                                                         *)
(* Neither thread of the library is told.  The selector goes on with       *)
(* whatever sock_fd holds: the closed descriptor, which makes select fail  *)
(* for ever, or -1, which is no descriptor at all.  FD_SET(-1, ..) is      *)
(* undefined; in the builds of the Makefile it sets a bit of the set that  *)
(* stands for an unrelated descriptor, if for any, so that select may or   *)
(* may not report it.                                                      *)
(***************************************************************************)
EXTENDS NBBlackadder

VARIABLES
  fd_open,       \* is the netlink socket open in the kernel?
  in_select,     \* was the selector inside select() when the socket was closed?
  closed,        \* BAWrapperNB.closed
  call,          \* call[t]: the last call of thread t: "none", "java_disconnect",
                 \* or, of a C++ application, "disconnect" or "delete"
  call_pc,       \* where thread t is in it
  closes,        \* close() calls so far
  deletes,       \* destructor calls that have returned
  overlapped     \* has a call begun while another thread was inside one? (history)

shutdownVars == <<fd_open, in_select, closed, call, call_pc, closes, deletes, overlapped>>
allVars == <<vars, shutdownVars>>

Minus1 == "-1"   \* the value of sock_fd after disconnect

ShutdownInit ==
  /\ Init
  /\ fd_open = TRUE
  /\ in_select = FALSE
  /\ closed = FALSE
  /\ call = [t \in Clients |-> "none"]
  /\ call_pc = [t \in Clients |-> "idle"]
  /\ closes = 0
  /\ deletes = 0
  /\ overlapped = FALSE

(***************************************************************************)
(* The calls of the application                                            *)
(***************************************************************************)

\* A thread inside disconnect or delete does not publish, and a C++ application
\* does not once the object is gone.  BAWrapperNB lets its callers go on.
Free(t) ==
  /\ t \in Clients => call_pc[t] \in {"idle", "done"}
  /\ \A u \in Clients : call[u] /= "delete"

\* Thread t is inside a call.
Inside(t) == call_pc[t] \notin {"idle", "done"}

NoteOverlap(t) == overlapped' = (overlapped \/ \E u \in Clients \ {t} : Inside(u))

At(t, from, to) ==
  /\ call_pc[t] = from
  /\ call_pc' = [call_pc EXCEPT ![t] = to]

\* Fault: nobody looks at the flag.
DisconnectUnchecked(t) ==
  /\ Runs(t)
  /\ call_pc[t] \in {"idle", "done"}
  /\ call_pc' = [call_pc EXCEPT ![t] = "disconnect"]
  /\ call' = [call EXCEPT ![t] = "java_disconnect"]
  /\ NoteOverlap(t)
  /\ UNCHANGED <<vars, fd_open, in_select, closed, closes, deletes>>

\* BAWrapperNB.disconnect, which may be called again: the flag is tested before
\* the native call and set after it.
JavaDisconnect(t) ==
  /\ Runs(t)
  /\ \A u \in Clients : call[u] \in {"none", "java_disconnect"}
  /\ call_pc[t] \in {"idle", "done"}
  /\ call_pc' = [call_pc EXCEPT ![t] = IF closed THEN "done" ELSE "disconnect"]
  /\ call' = [call EXCEPT ![t] = "java_disconnect"]
  /\ NoteOverlap(t)
  /\ UNCHANGED <<vars, fd_open, in_select, closed, closes, deletes>>

\* "ba->disconnect()", once or more, by a C++ application.
PlainDisconnect(t) ==
  /\ Runs(t)
  /\ \A u \in Clients : call[u] \in {"none", "disconnect"}
  /\ call_pc[t] \in {"idle", "done"}
  /\ call_pc' = [call_pc EXCEPT ![t] = "disconnect"]
  /\ call' = [call EXCEPT ![t] = "disconnect"]
  /\ NoteOverlap(t)
  /\ UNCHANGED <<vars, fd_open, in_select, closed, closes, deletes>>

\* "delete ba", once, by a C++ application, with or without a disconnect before.
PlainDelete(t) ==
  /\ Runs(t)
  /\ \A u \in Clients : call[u] \in {"none", "disconnect"}
  /\ call_pc[t] \in {"idle", "done"}
  /\ call_pc' = [call_pc EXCEPT ![t] = "destroy"]
  /\ call' = [call EXCEPT ![t] = "delete"]
  /\ NoteOverlap(t)
  /\ UNCHANGED <<vars, fd_open, in_select, closed, closes, deletes>>

\* The native part of the Java call goes on with the destructor.
AfterDisconnect(t) == IF call[t] = "java_disconnect" THEN "destroy" ELSE "done"

\* disconnect() with the socket gone returns at once.
AlreadyDisconnected(t) ==
  /\ sock_fd = Minus1
  /\ At(t, "disconnect", AfterDisconnect(t))
  /\ UNCHANGED <<vars, fd_open, in_select, closed, call, closes, deletes, overlapped>>

\* DISCONNECT is sent past output_queue, whatever is queued there; if the socket
\* does not take it, it is not sent at all.
SendDisconnect(t) ==
  /\ sock_fd /= Minus1
  /\ At(t, "disconnect", "close")
  /\ UNCHANGED <<vars, fd_open, in_select, closed, call, closes, deletes, overlapped>>

\* Fault: close(sock_fd) is forgotten.
CloseSocketForgotten == UNCHANGED <<fd_open, in_select, closes>>

\* close(sock_fd): a select() that is under way keeps the socket it has.
CloseSocket ==
  /\ fd_open' = FALSE
  /\ closes' = closes + 1
  /\ in_select' \in IF fd_open /\ sel_pc = "select" THEN BOOLEAN ELSE {in_select}

DisconnectCloses(t) ==
  /\ At(t, "close", "reset")
  /\ CloseSocket
  /\ UNCHANGED <<vars, closed, call, deletes, overlapped>>

\* Fault: disconnect forgets sock_fd = -1 (line 549).
DisconnectKeepsFd(t) ==
  /\ At(t, "reset", AfterDisconnect(t))
  /\ UNCHANGED <<vars, fd_open, in_select, closed, call, closes, deletes, overlapped>>

DisconnectResets(t) ==
  /\ At(t, "reset", AfterDisconnect(t))
  /\ sock_fd' = Minus1
  /\ UNCHANGED <<requestVars, selectorVars, eventVars, inbox, arrived, writable>>
  /\ UNCHANGED <<fd_open, in_select, closed, call, closes, deletes, overlapped>>

\* Fault: the destructor does not wait.
DestroyWithoutFlush(t) ==
  /\ At(t, "destroy", "close_fd")
  /\ UNCHANGED <<vars, fd_open, in_select, closed, call, closes, deletes, overlapped>>

\* Fault: the destructor waits even if nothing is queued.
DestroyAlwaysWaits(t) ==
  /\ At(t, "destroy", "close_fd")
  /\ overflow_waiters' = overflow_waiters \union {t}
  /\ UNCHANGED <<output_queue, pipe, pushed, transmitted, selectorVars, eventVars, socketVars>>
  /\ UNCHANGED <<fd_open, in_select, closed, call, closes, deletes, overlapped>>

\* The destructor waits once if requests are queued.
DestroyFlushes(t) ==
  /\ At(t, "destroy", "close_fd")
  /\ overflow_waiters' = IF output_queue /= <<>> THEN overflow_waiters \union {t} ELSE overflow_waiters
  /\ UNCHANGED <<output_queue, pipe, pushed, transmitted, selectorVars, eventVars, socketVars>>
  /\ UNCHANGED <<fd_open, in_select, closed, call, closes, deletes, overlapped>>

\* Once it does not wait any more it closes the socket, unless disconnect has.
DestroyCloses(t) ==
  /\ Runs(t)
  /\ At(t, "close_fd", IF call[t] = "java_disconnect" THEN "mark" ELSE "done")
  /\ IF sock_fd /= Minus1 THEN CloseSocket ELSE UNCHANGED <<fd_open, in_select, closes>>
  /\ deletes' = deletes + 1
  /\ UNCHANGED <<vars, closed, call, overlapped>>

\* Back in Java, the wrapper is marked closed.
MarkClosed(t) ==
  /\ At(t, "mark", "done")
  /\ closed' = TRUE
  /\ UNCHANGED <<vars, fd_open, in_select, call, closes, deletes, overlapped>>

CallStep(t) ==
  \/ AlreadyDisconnected(t)
  \/ SendDisconnect(t)
  \/ DisconnectCloses(t)
  \/ DisconnectResets(t)
  \/ DestroyFlushes(t)
  \/ DestroyCloses(t)
  \/ MarkClosed(t)

(***************************************************************************)
(* The selector, with the socket open or not                               *)
(***************************************************************************)

SelectOpen ==
  /\ fd_open
  /\ Select
  /\ UNCHANGED shutdownVars

\* A select() entered before the close returns what it finds.
SelectReturnsLate ==
  /\ ~fd_open /\ in_select
  /\ Select
  /\ in_select' = FALSE
  /\ UNCHANGED <<fd_open, closed, call, call_pc, closes, deletes, overlapped>>

\* With the closed descriptor in a set select() fails with EBADF and leaves the
\* sets alone: the selector retries for ever and this action is not enabled.
\* With -1 in the sets only the pipe is reported for sure.
SelectWithoutSocket ==
  /\ ~fd_open /\ ~in_select
  /\ sel_pc = "select"
  /\ Sock \notin read_set \union write_set
  /\ \E rs \in SUBSET read_set, ws \in SUBSET write_set :
       /\ rs \union ws /= {}
       /\ Pipe \in rs <=> Pipe \in read_set /\ pipe > 0
       /\ write_set' = ws
       /\ GoTo(AfterSelect(rs, ws), rs)
  /\ UNCHANGED <<received, requestVars, eventVars, socketVars, shutdownVars>>

\* FD_ISSET(sock_fd, ..) is evaluated with the sock_fd of that moment.
SkipReceive ==
  /\ sel_pc = "receive"
  /\ sock_fd \notin read_set
  /\ GoTo(AfterReceive(write_set), read_set)
  /\ UNCHANGED <<write_set, received, requestVars, eventVars, socketVars, shutdownVars>>

SkipSend ==
  /\ sel_pc = "send"
  /\ sock_fd \notin write_set
  /\ GoTo("select", read_set)
  /\ UNCHANGED <<write_set, received, requestVars, eventVars, socketVars, shutdownVars>>

\* Only an open socket delivers events or takes requests.
SocketStep ==
  /\ fd_open
  /\ SendSucceeds \/ ReceiveEvent
  /\ UNCHANGED shutdownVars

(***************************************************************************)
(* The rest of the library goes on as before                               *)
(***************************************************************************)

UnchangedStep ==
  /\ \/ \E t \in Threads : Free(t) /\ Push(t)
     \/ \E t \in Threads : PublisherSpuriousWakeup(t)
     \/ ReadPipe
     \/ ReceiveNothing
     \/ DispatchEvent
     \/ SendFails
     \/ WorkerStep
     \/ SetCallback
     \/ EventArrives
     \/ SocketBlocks
     \/ SocketUnblocks
  /\ UNCHANGED shutdownVars

ShutdownNext ==
  \/ \E t \in Clients : JavaDisconnect(t)
  \/ \E t \in Clients : PlainDisconnect(t)
  \/ \E t \in Clients : PlainDelete(t)
  \/ \E t \in Clients : CallStep(t)
  \/ SelectOpen
  \/ SelectReturnsLate
  \/ SelectWithoutSocket
  \/ SkipReceive
  \/ SkipSend
  \/ SocketStep
  \/ UnchangedStep

ShutdownSpec == ShutdownInit /\ [][ShutdownNext]_allVars

\* The fairness of NBBlackadder, and every call that can go on goes on.
ShutdownFairness ==
  /\ WF_allVars(SelectOpen \/ SelectReturnsLate \/ SelectWithoutSocket)
  /\ WF_allVars(ReadPipe /\ UnchangedStep)
  /\ WF_allVars((ReceiveEvent /\ SocketStep) \/ (ReceiveNothing /\ UnchangedStep))
  /\ WF_allVars(DispatchEvent /\ UnchangedStep)
  /\ WF_allVars(SendFails /\ UnchangedStep)
  /\ SF_allVars(SendSucceeds /\ SocketStep)
  /\ \A t \in Clients : WF_allVars(CallStep(t))

FairShutdownSpec == ShutdownSpec /\ ShutdownFairness

(***************************************************************************)
(* Properties                                                              *)
(***************************************************************************)

\* The values the variables range over; sock_fd is -1 only after
\* somebody has closed the socket.
ShutdownTypeOK ==
  /\ output_queue \in Seq(Requests)
  /\ write_set \subseteq {Sock, Minus1}
  /\ read_set \subseteq {Pipe, Sock, Minus1}
  /\ sock_fd \in {Sock, Minus1}
  /\ fd_open \in BOOLEAN
  /\ in_select \in BOOLEAN
  /\ closed \in BOOLEAN
  /\ call \in [Clients -> {"none", "java_disconnect", "disconnect", "delete"}]
  /\ call_pc \in
       [Clients -> {"idle", "disconnect", "close", "reset", "destroy", "close_fd", "mark", "done"}]
  /\ closes \in Nat
  /\ deletes \in Nat
  /\ overlapped \in BOOLEAN
  /\ sock_fd = Minus1 => ~fd_open

\* The wait of the destructor (line 261) is a flush: once it is over, the socket
\* is closed with every request transmitted, those of the other threads too.
FlushedBeforeDelete ==
  \A t \in Clients :
    call[t] = "delete" /\ call_pc[t] = "close_fd" /\ t \notin overflow_waiters
      => output_queue = <<>>

\* The descriptor is closed once, whichever threads disconnect and delete and in
\* whatever order, unless two of their calls overlap: a second close() would
\* close whatever has been opened since under the same number.
SocketClosedOnce == ~overlapped => closes <= 1

\* "ensure the wrapper is only closed once" (BAWrapperNB.java:39): the flag set at
\* the end of one thread's call keeps every other thread from deleting the native
\* object again.  It takes two overlapping calls, the second of which tests the
\* flag before the first has set it, to delete it twice.
DeletedOnce == ~overlapped => deletes <= 1

\* No other thread waits at the limit or is inside a call.
Alone(t) ==
  /\ overflow_waiters = {}
  /\ \A u \in Clients \ {t} : ~Inside(u)

\* The flush ends: a delete that finds the socket open and nobody else at work
\* returns, however many requests of whichever threads are queued.
DeleteReturns ==
  \A t \in Clients :
    call[t] = "delete" /\ call_pc[t] = "destroy" /\ sock_fd = Sock /\ Alone(t)
      ~> call_pc[t] = "done"

\* The Java disconnect returns if the queue is empty when the destructor is
\* entered and nobody pushes before it has looked; the socket is closed by then.
IdleDisconnectReturns ==
  \A t \in Clients :
    call[t] = "java_disconnect" /\ call_pc[t] = "destroy" /\ output_queue = <<>>
      ~> call_pc[t] = "done" \/ output_queue /= <<>>

\* "SIGINT intercepted, exiting..." (BlackadderTestNB.java:143): the shutdown
\* hook's disconnect returns, whatever is queued, so that the program can exit.
DisconnectReturns ==
  \A t \in Clients : call[t] = "java_disconnect" ~> call_pc[t] = "done"
=============================================================================
