------------------------------ MODULE BAEvents ------------------------------
(***************************************************************************)
(* The life of an event on its way from the worker thread to the Java      *)
(* application: who owns the native Event and when it is deleted.          *)
(*                                                                         *)
(*   worker -> cf -> JNI onEventReceived -> BAWrapperNB.onEventReceived    *)
(*          -> DiscardCallback, or BlockingQueueCallback -> consumers      *)
(*                                                                         *)
(* or, with the blocking library, from the consumer's own call of          *)
(* BAWrapper.getNextEventDirect.                                           *)
(*                                                                         *)
(* The native Event is deleted by the default callback, by                 *)
(* BAEvent.freeNativeBuffer, which anybody with a reference may call, or   *)
(* by the finalizer, which calls it too.  freeNativeBuffer takes no lock:  *)
(* each of its accesses to the BAEvent is a step of its own.  The garbage  *)
(* collector finalizes a BAEvent once, some time after the last reference  *)
(* is gone, or never.  The ByteBuffer of getDirectData lies over the same  *)
(* memory and is no reference to the BAEvent.                              *)
(***************************************************************************)
EXTENDS Naturals, Sequences, FiniteSets

CONSTANTS
  Consumers,     \* threads that call getNextEvent
  NumEvents,     \* events the library passes to the worker
  QueueSize      \* of the BlockingQueueCallback

ASSUME SizesAssumption == NumEvents \in Nat /\ QueueSize \in Nat \ {0}
ASSUME ConsumersAssumption == Consumers \intersect {"worker", "finalizer"} = {}

Events == 1..NumEvents
Threads == Consumers \union {"worker", "finalizer"}

NoEvent == 0

VARIABLES
  \* set up by the application
  cf,            \* NB_Blackadder::cf: "default" or "jni"
  instance,      \* is BAWrapperNB.instance set?
  callback,      \* BAWrapperNB.callback: "discard" or "queue"
  \* the native events
  native,        \* native[e]: "pending" (before the worker), "live" or "deleted"
  deletes,       \* deletes[e]: how often e has been deleted (history)
  \* the BAEvents
  mapped,        \* events whose BAEvent has mappedToNativeBuffer set
  freed,         \* events whose BAEvent has freed set
  emptied,       \* events whose BAEvent has lost its id and data
  \* the threads
  pc,            \* what each thread does with its event
  current,       \* current[t]: the event it does it with
  eventQueue,    \* of the BlockingQueueCallback
  holds,         \* holds[c]: events consumer c has a reference to
  buffers,       \* buffers[c]: events whose direct buffer consumer c has
  shared,        \* events two consumers have had a reference to (history)
  finalized,     \* events whose BAEvent has been finalized
  lost           \* events that never got a mapped BAEvent (history)

setupVars == <<cf, instance, callback>>
nativeVars == <<native, deletes>>
objectVars == <<mapped, freed, emptied>>
threadVars == <<pc, current>>
referenceVars == <<eventQueue, holds, buffers, shared, finalized, lost>>
vars == <<setupVars, nativeVars, objectVars, threadVars, referenceVars>>

Init ==
  /\ cf = "default"
  /\ instance = FALSE
  /\ callback = "discard"
  /\ native = [e \in Events |-> "pending"]
  /\ deletes = [e \in Events |-> 0]
  /\ mapped = {} /\ freed = {} /\ emptied = {}
  /\ pc = [t \in Threads |-> "idle"]
  /\ current = [t \in Threads |-> NoEvent]
  /\ eventQueue = <<>>
  /\ holds = [c \in Consumers |-> {}] /\ buffers = [c \in Consumers |-> {}]
  /\ shared = {} /\ finalized = {} /\ lost = {}

(***************************************************************************)
(* Setting up                                                              *)
(***************************************************************************)

\* c_create_new_ba registers the JNI callback with a library whose threads run.
CreateNative ==
  /\ cf = "default"
  /\ cf' = "jni"
  /\ UNCHANGED <<instance, callback, nativeVars, objectVars, threadVars, referenceVars>>

\* getWrapper stores the object when its constructor has returned.
StoreInstance ==
  /\ cf = "jni"
  /\ ~instance
  /\ instance' = TRUE
  /\ UNCHANGED <<cf, callback, nativeVars, objectVars, threadVars, referenceVars>>

SetCallback ==
  /\ callback = "discard"
  /\ callback' = "queue"
  /\ UNCHANGED <<cf, instance, nativeVars, objectVars, threadVars, referenceVars>>

(***************************************************************************)
(* The worker thread                                                       *)
(***************************************************************************)

Goes(t, stage, e) ==
  /\ pc' = [pc EXCEPT ![t] = stage]
  /\ current' = [current EXCEPT ![t] = e]

DeleteNative(e) ==
  /\ native' = [native EXCEPT ![e] = "deleted"]
  /\ deletes' = [deletes EXCEPT ![e] = @ + 1]

\* Events come in order.
NextEvent(e) ==
  /\ native[e] = "pending"
  /\ \A earlier \in 1..(e - 1) : native[earlier] /= "pending"

\* defaultCallback deletes the event.
DefaultCallback(e) ==
  /\ pc["worker"] = "idle"
  /\ NextEvent(e)
  /\ cf = "default"
  /\ DeleteNative(e)
  /\ UNCHANGED <<setupVars, objectVars, threadVars, referenceVars>>

\* The thread cannot be attached to the Java machine: the event is forgotten.
AttachFails(e) ==
  /\ pc["worker"] = "idle"
  /\ NextEvent(e)
  /\ cf = "jni"
  /\ native' = [native EXCEPT ![e] = "live"]
  /\ lost' = lost \union {e}
  /\ UNCHANGED <<deletes, setupVars, objectVars, threadVars, eventQueue, holds, buffers, shared, finalized>>

\* Fault: the BAEvent is handed on without its mapping (line 116).
EventReceivedUnmapped(e) ==
  /\ pc["worker"] = "idle"
  /\ NextEvent(e)
  /\ cf = "jni"
  /\ native' = [native EXCEPT ![e] = "live"]
  /\ Goes("worker", "deliver", e)
  /\ UNCHANGED <<deletes, mapped, lost, freed, emptied, setupVars, eventQueue, holds, buffers, shared, finalized>>

\* The BAEvent is made and mapped; without an instance to map it to,
\* setNativeMemoryMappings throws and the event is forgotten.
EventReceived(e) ==
  /\ pc["worker"] = "idle"
  /\ NextEvent(e)
  /\ cf = "jni"
  /\ native' = [native EXCEPT ![e] = "live"]
  /\ IF instance
     THEN Goes("worker", "deliver", e) /\ mapped' = mapped \union {e} /\ UNCHANGED lost
     ELSE lost' = lost \union {e} /\ UNCHANGED <<mapped, threadVars>>
  /\ UNCHANGED <<deletes, freed, emptied, setupVars, eventQueue, holds, buffers, shared, finalized>>

\* DiscardCallback frees the event.
Discard ==
  /\ pc["worker"] = "deliver"
  /\ callback = "discard"
  /\ Goes("worker", "check", current["worker"])
  /\ UNCHANGED <<setupVars, nativeVars, objectVars, referenceVars>>

\* Fault: onEventReceived deletes the event when the Java call has returned.
OfferAndDelete ==
  /\ pc["worker"] = "deliver"
  /\ callback = "queue"
  /\ eventQueue' = IF Len(eventQueue) < QueueSize
                   THEN Append(eventQueue, current["worker"]) ELSE eventQueue
  /\ DeleteNative(current["worker"])
  /\ Goes("worker", "idle", NoEvent)
  /\ UNCHANGED <<setupVars, objectVars, holds, buffers, shared, finalized, lost>>

\* BlockingQueueCallback offers it to its queue; when the queue is full, offer
\* returns false, which nobody looks at, and the reference is gone.
Offer ==
  /\ pc["worker"] = "deliver"
  /\ callback = "queue"
  /\ eventQueue' = IF Len(eventQueue) < QueueSize
                   THEN Append(eventQueue, current["worker"]) ELSE eventQueue
  /\ Goes("worker", "idle", NoEvent)
  /\ UNCHANGED <<setupVars, nativeVars, objectVars, holds, buffers, shared, finalized, lost>>

(***************************************************************************)
(* freeNativeBuffer, by any thread                                         *)
(***************************************************************************)

\* Fault: freed is not looked at.
FreeUnchecked(t) ==
  /\ pc[t] = "check"
  /\ IF current[t] \notin mapped THEN Goes(t, "idle", NoEvent) ELSE Goes(t, "set", current[t])
  /\ UNCHANGED <<setupVars, nativeVars, objectVars, referenceVars>>

FreeChecks(t) ==
  /\ pc[t] = "check"
  /\ IF current[t] \in freed \/ current[t] \notin mapped
     THEN Goes(t, "idle", NoEvent)
     ELSE Goes(t, "set", current[t])
  /\ UNCHANGED <<setupVars, nativeVars, objectVars, referenceVars>>

\* Fault: freed is not set.
FreeForgetsToSet(t) ==
  /\ pc[t] = "set"
  /\ Goes(t, "delete", current[t])
  /\ UNCHANGED <<setupVars, nativeVars, objectVars, referenceVars>>

FreeSets(t) ==
  /\ pc[t] = "set"
  /\ freed' = freed \union {current[t]}
  /\ Goes(t, "delete", current[t])
  /\ UNCHANGED <<setupVars, nativeVars, mapped, emptied, referenceVars>>

FreeDeletes(t) ==
  /\ pc[t] = "delete"
  /\ DeleteNative(current[t])
  /\ Goes(t, "empty", current[t])
  /\ UNCHANGED <<setupVars, objectVars, referenceVars>>

FreeEmpties(t) ==
  /\ pc[t] = "empty"
  /\ emptied' = emptied \union {current[t]}
  /\ Goes(t, "idle", NoEvent)
  /\ UNCHANGED <<setupVars, nativeVars, mapped, freed, referenceVars>>

Free(t) == FreeChecks(t) \/ FreeSets(t) \/ FreeDeletes(t) \/ FreeEmpties(t)

(***************************************************************************)
(* The consumers                                                           *)
(***************************************************************************)

\* Fault: peek in place of take.
TakeNextPeeks(c) ==
  /\ pc[c] = "idle"
  /\ eventQueue /= <<>>
  /\ holds' = [holds EXCEPT ![c] = @ \union {Head(eventQueue)}]
  /\ UNCHANGED <<setupVars, nativeVars, objectVars, threadVars, eventQueue, buffers, shared, finalized, lost>>

TakeNext(c) ==
  /\ pc[c] = "idle"
  /\ eventQueue /= <<>>
  /\ eventQueue' = Tail(eventQueue)
  /\ holds' = [holds EXCEPT ![c] = @ \union {Head(eventQueue)}]
  /\ UNCHANGED <<setupVars, nativeVars, objectVars, threadVars, buffers, shared, finalized, lost>>

\* getNextEventDirect makes the native event and its mapped BAEvent in one thread.
GetNextEventDirect(c, e) ==
  /\ pc[c] = "idle"
  /\ native[e] = "pending"
  /\ native' = [native EXCEPT ![e] = "live"]
  /\ mapped' = mapped \union {e}
  /\ holds' = [holds EXCEPT ![c] = @ \union {e}]
  /\ UNCHANGED <<setupVars, deletes, freed, emptied, threadVars, eventQueue, buffers, shared, finalized, lost>>

\* The application hands an event to another of its threads.
Share(c, d, e) ==
  /\ c /= d
  /\ pc[c] = "idle"
  /\ e \in holds[c] \ holds[d]
  /\ holds' = [holds EXCEPT ![d] = @ \union {e}]
  /\ shared' = shared \union {e}
  /\ UNCHANGED <<setupVars, nativeVars, objectVars, threadVars, eventQueue, buffers, finalized, lost>>

CallFree(c, e) ==
  /\ pc[c] = "idle"
  /\ e \in holds[c]
  /\ Goes(c, "check", e)
  /\ UNCHANGED <<setupVars, nativeVars, objectVars, referenceVars>>

\* getData, getByte and writeTo throw if the event has been freed; else they
\* read the native memory.
StartRead(c, e) ==
  /\ pc[c] = "idle"
  /\ e \in holds[c]
  /\ e \notin freed
  /\ Goes(c, "read", e)
  /\ UNCHANGED <<setupVars, nativeVars, objectVars, referenceVars>>

\* The read ends, or finds data null and throws.
EndRead(c) ==
  /\ pc[c] = "read"
  /\ Goes(c, "idle", NoEvent)
  /\ UNCHANGED <<setupVars, nativeVars, objectVars, referenceVars>>

\* getDirectData does not look at freed; when free is through, data is null.
GetDirectData(c, e) ==
  /\ pc[c] = "idle"
  /\ e \in holds[c] \ emptied
  /\ buffers' = [buffers EXCEPT ![c] = @ \union {e}]
  /\ UNCHANGED <<setupVars, nativeVars, objectVars, threadVars, eventQueue, holds, shared, finalized, lost>>

\* The application is done with the buffer.
DropBuffer(c, e) ==
  /\ pc[c] = "idle"
  /\ e \in buffers[c]
  /\ buffers' = [buffers EXCEPT ![c] = @ \ {e}]
  /\ UNCHANGED <<setupVars, nativeVars, objectVars, threadVars, eventQueue, holds, shared, finalized, lost>>

\* The consumer forgets the event, freed or not.
Forget(c, e) ==
  /\ pc[c] = "idle"
  /\ e \in holds[c]
  /\ holds' = [holds EXCEPT ![c] = @ \ {e}]
  /\ UNCHANGED <<setupVars, nativeVars, objectVars, threadVars, eventQueue, buffers, shared, finalized, lost>>

Queued(e) == \E i \in DOMAIN eventQueue : eventQueue[i] = e

\* A direct buffer does not count.
Referenced(e) ==
  \/ \E c \in Consumers : e \in holds[c]
  \/ Queued(e)
  \/ \E t \in Threads : current[t] = e

\* The garbage collector: finalize() calls freeNativeBuffer.
Finalize(e) ==
  /\ pc["finalizer"] = "idle"
  /\ e \in mapped \ finalized
  /\ ~Referenced(e)
  /\ finalized' = finalized \union {e}
  /\ Goes("finalizer", "check", e)
  /\ UNCHANGED <<setupVars, nativeVars, objectVars, eventQueue, holds, buffers, shared, lost>>

Next ==
  \/ CreateNative
  \/ StoreInstance
  \/ SetCallback
  \/ \E e \in Events : DefaultCallback(e)
  \/ \E e \in Events : AttachFails(e)
  \/ \E e \in Events : EventReceived(e)
  \/ Discard
  \/ Offer
  \/ \E t \in Threads : Free(t)
  \/ \E c \in Consumers : TakeNext(c)
  \/ \E c \in Consumers, e \in Events : GetNextEventDirect(c, e)
  \/ \E c, d \in Consumers, e \in Events : Share(c, d, e)
  \/ \E c \in Consumers, e \in Events : CallFree(c, e)
  \/ \E c \in Consumers, e \in Events : StartRead(c, e)
  \/ \E c \in Consumers : EndRead(c)
  \/ \E c \in Consumers, e \in Events : GetDirectData(c, e)
  \/ \E c \in Consumers, e \in Events : DropBuffer(c, e)
  \/ \E c \in Consumers, e \in Events : Forget(c, e)
  \/ \E e \in Events : Finalize(e)

Spec == Init /\ [][Next]_vars

(***************************************************************************)
(* Properties                                                              *)
(***************************************************************************)

\* The values the variables range over; a BAEvent is freed before it is emptied.
TypeOK ==
  /\ cf \in {"default", "jni"}
  /\ instance \in BOOLEAN
  /\ callback \in {"discard", "queue"}
  /\ native \in [Events -> {"pending", "live", "deleted"}]
  /\ deletes \in [Events -> Nat]
  /\ mapped \subseteq Events
  /\ freed \subseteq mapped
  /\ emptied \subseteq freed
  /\ pc \in [Threads -> {"idle", "deliver", "check", "set", "delete", "empty", "read"}]
  /\ current \in [Threads -> Events \union {NoEvent}]
  /\ eventQueue \in Seq(Events) /\ Len(eventQueue) <= QueueSize
  /\ holds \in [Consumers -> SUBSET Events] /\ buffers \in [Consumers -> SUBSET Events]
  /\ shared \subseteq Events /\ finalized \subseteq mapped /\ lost \subseteq Events

\* An event is deleted once, however often and by whomever it is freed -- its
\* consumer, twice; its consumer and the finalizer; the callback -- as long as
\* the application does not give it to a second thread: the test of freed and
\* the assignment to it (BAEvent.java:138 and 143) are not one step.
DeletedOnceUnlessShared == \A e \in Events : deletes[e] > 1 => e \in shared

\* Nobody reads memory that is gone: a thread that has passed the test of freed
\* reads a live event, and the memory of an event that waits in the queue, is
\* held by its consumer or lies under a direct buffer has been deleted only if
\* its BAEvent says so; under a buffer whose BAEvent the consumer keeps, only if
\* the consumer itself has freed it.
MemoryIsLive ==
  \A e \in Events \ shared : native[e] = "deleted" =>
    /\ \A c \in Consumers : ~(pc[c] = "read" /\ current[c] = e)
    /\ Queued(e) \/ (\E c \in Consumers : e \in holds[c] \union buffers[c]) => e \in freed
    /\ \A c \in Consumers : e \in holds[c] \intersect buffers[c] => e \notin finalized

\* No event leaks but those lost on the way into Java: a live event is still
\* referenced, or its BAEvent is still to be finalized.  That includes an event
\* the full queue turned away and one its consumer forgot to free.
NothingElseIsForgotten ==
  \A e \in Events :
    native[e] = "live" => Referenced(e) \/ e \in lost \union (mapped \ finalized)

\* Who has a reference to the event?
Owners(e) ==
  {t \in Threads : current[t] = e} \union {c \in Consumers : e \in holds[c]}
    \union (IF Queued(e) THEN {"queue"} ELSE {})

\* The callback hands each event to one consumer: it has one owner at a time,
\* until the application itself shares it.
OwnershipIsExclusive == \A e \in Events \ shared : Cardinality(Owners(e)) <= 1
=============================================================================
