# BlackadderJNIWrapper in TLA+

A verification development for the Java/JNI wrapper of the Blackadder
information-centric networking node and for the C++ client library it carries:
TLA+ modules translated from the source, TLC configurations that check them on
small instances, and TLAPS proofs for instances of every size.

The reference is the code. Line numbers below refer to it; `PROJECT.json`
maps every definition to the lines it translates.

## 1. The system

An application talks to a Blackadder node over a netlink (or PF_LOCAL) datagram
socket: it sends *requests* (publish, subscribe, ... and publish data) and
receives *events*.

```
 application threads                                       Blackadder node
   |  BAWrapperNB.publishX / subscribeX  (Java)                  ^   |
   |  c_publish_x (JNI, copies arrays)                           |   |
   v                                                             |   v
 NB_Blackadder::push --> output_queue --> selector thread --> netlink socket
                 \--byte--> self-pipe --/        |
                                                 v
 callback <-- cf (JNI onEventReceived) <-- worker thread <-- event_queue
   |
   +-- DiscardCallback         frees the event
   +-- BlockingQueueCallback   bounded queue --> getNextEvent() in consumer threads
   +-- HashClassifierCallback  data handlers by identifier, control handlers by prefix
```

### Inventory

| Component | State | Operations | What is hard | What makes it correct |
|---|---|---|---|---|
| `NB_Blackadder`, running (`nb_blackadder.cpp`) | `output_queue`, pipe, `read_set`/`write_set`, `event_queue`, two mutexes, two condition variables, `cf` | `push`, `publish_data`, `selector`, `worker`, `setCallback` | publishers, selector and worker interleave; `select` rewrites its arguments; signals without a predicate loop; `sendmsg` fails | nothing lost, doubled or reordered; `front()` never on an empty queue; the write under the mutex never blocks; everybody who waits is released |
| `NB_Blackadder`, going away | `sock_fd`, the kernel's descriptor, `closed` | `disconnect`, destructor, `BAWrapperNB.disconnect` | neither thread is told; the flush waits for a thread whose socket may be gone | flush complete, socket closed and object deleted once unless calls overlap, calls return |
| JNI layer, `BAWrapperNB`, `BAEvent`, the two simple callbacks | `instance`, `callback`, native `Event`s, `mapped`/`freed`, the bounded queue, direct buffers | `getWrapper`, `onEventReceived`, `freeNativeBuffer`, `finalize`, reads, `getDirectData`, `getNextEvent` | ownership passes over four threads without a lock; the finalizer; the start-up window | deleted once, not used after that, not leaked, one owner |
| `HashClassifierCallback` | two registries, a lock each | `eventReceived`, four (un)register methods | dispatch takes two locks one after the other; handlers run inside them and may re-register | a running handler is registered; a stable handler gets the event |
| `LPMTree` | tree of chunk hashes | `add`, `delete`, `searchPrefix` | pruning after deletes above, below and beside | holds exactly what is registered; no dead branch; longest prefix |
| Published data (`c_publish_data`, `c_publish_data_direct`, `publish_data`, the selector's `free`) | the queued messages, their parts, who owns the memory of each | publish an array or a direct buffer, write to it, drop it, send, free | the bytes wait in the queue while the application goes on; the selector frees by the number of parts | freed once and not before it is sent; what is sent is what the caller had |
| Requests and events as bytes (both libraries and both JNI layers) | the datagrams in the socket, the size a reader has seen | the eight service requests, `push`, `publish_data`, `create_and_send_buffers`, `getEvent` | offsets and lengths computed in several places; a length in an `unsigned char`; an event is read in two steps | the node reads what was meant; buffers filled exactly; an `Event` is what the node sent |
| `BAWrapper` and `Blackadder` (blocking) | a socket | the same requests, `getNextEventDirect` | several threads may read events | as above; an event has one owner |
| `Bitvector` (LIPSIN identifiers) | size, words inline or on the heap | 18 operations, 4 queries | word boundaries; inline and heap; growing again | the bits are those of a set; memory covers the size |
| `BAHelper`, `ByteHelper`, `ByteArrayHelper`, `BAObject`/`BAScope`/`BAItem` | immutable or local | conversions, equality | boundary values | agreement with a reference definition |
| `DebugTool`, sample programs, build files | - | - | - | - |

`BAWrapperNB` methods called by the application run on its threads, through JNI,
straight into `push` or `publish_data`. The callback runs on the worker thread,
so a callback that publishes does so on the worker thread, which is why the
worker is one of the publishers in the model. Nothing is persistent: a crash
loses everything at once, so there is no recovery to model.

The hazards, that is, where this code is hard to test, are listed in
`PROJECT.json`, each at its line with the properties that would catch it.

## 2. Modules

| Module | Models | Extends |
|---|---|---|
| `FifoChannel` | the abstract promise of a queue between two threads | |
| `NBBlackadder` | the running non-blocking library | |
| `NBBlackadderProofs` | theorems about it | `NBBlackadder`, TLAPS |
| `NBShutdown` | disconnecting and deleting it while its threads run | `NBBlackadder` |
| `NBShutdownProofs` | theorems about it | `NBShutdown`, `NBBlackadderProofs` |
| `PublishedData` | the memory of a request, from the call to the selector's `free` | |
| `PublishedDataProofs` | theorems about it | `PublishedData`, TLAPS |
| `BAEvents` | the life of an event from the worker to the application | |
| `BAEventsProofs` | theorems about it | `BAEvents`, TLAPS |
| `LPMTree` | the prefix tree, as operators | |
| `HashClassifier` | the classifying callback and its registries | `LPMTree` |
| `HashClassifierProofs` | theorems about the callback and the tree | `HashClassifier`, TLAPS |
| `Requests` | the calls of both wrappers, checks, framing and decoding in both libraries | |
| `RequestsProofs` | theorems about it | `Requests`, TLAPS |
| `Bitvector` | bit vectors, against the sets of bits they stand for | |
| `BitvectorProofs` | a theorem about it: the memory | `Bitvector`, TLAPS |
| `BitvectorContentProofs` | theorems about it: the bits | `BitvectorProofs` |
| `MC...` | small instances for TLC | the module named |

In each module some operators are marked `Fault:`. They are plausible bugs of
the definition that follows them: put in its place, each of them breaks the
property `PROJECT.json` pairs it with. They are not part of `Next`.

### NBBlackadder

One action per critical section of the code: from `pthread_mutex_lock` to the
unlock or to the `pthread_cond_wait` that ends it. Between them the threads
interleave freely; `read_set` and `write_set` belong to the selector alone, and
each `FD_ISSET` decision is taken at the end of the action before it.

| Code | Model |
|---|---|
| `push` / `publish_data`, 445-453 and 501-509 | `Push(t)`: append, a byte into the pipe iff the size is then 1, wait iff it is exactly the limit |
| `select`, 92 | `Select`: enabled when a registered descriptor is ready; replaces both sets by their ready part |
| pipe branch, 95-100 | `ReadPipe` |
| receive branch, 101-140 | `ReceiveEvent` or `ReceiveNothing`, then `DispatchEvent` (132-135) |
| write branch, 141-168 | `SendSucceeds`, `SendFails` |
| 169-171 | `GoTo`, part of whatever action ends the iteration |
| `worker`, 60-76 | `WorkerWaits`, `WorkerCallsBack`, `CallbackReturns`, `WorkerDrained` |
| `pthread_cond_wait` returning unasked | `PublisherSpuriousWakeup`, `WorkerSpuriousWakeup` |
| `setCallback` | `SetCallback` |

The condition variables are `overflow_waiters` (the set of threads in the wait)
and `worker_pc = "waiting"`; a signal nobody waits for is lost, as with
pthreads. `transmitted`, `pushed`, `discarded` and `handled` are history.
`SocketMayBlock` distinguishes the builds: a Linux netlink socket practically
always reports itself writable to `select`, a PF_LOCAL datagram socket
(`HAVE_USE_NETLINK` 0) does not when its peer is slow. `sendmsg` may fail in
either, and then `select` calls the socket writable again.

### NBShutdown

`EXTENDS NBBlackadder` and interleaves `BAWrapperNB.disconnect` (through
`c_delete_ba`: `disconnect()`, then `delete`), or a C++ application's own
`disconnect()` and `delete`, each by any number of threads at once, with both threads
of the library, system call by system call. `overlapped` is history: has a call begun
while another thread was inside one? After `close` the selector either is inside
a `select` that keeps the old socket, or has the closed descriptor in its sets
(`select` fails with EBADF and is retried for ever: no action is enabled), or,
after `sock_fd = -1`, works with `FD_SET(-1, ..)`, which is undefined; the model
lets `select` report that descriptor or not. Not modelled: a descriptor number
reused by another file while the selector still holds it, and the garbage an
event is built from when the socket is closed between the peek and the read.

### PublishedData

A block of memory is `unused`, `live` or `freed`; what is in it is the number of
the write it comes from. `Enqueue` needs `selector_mutex`, hence `freeing =
NoMessage`: the selector keeps the mutex from the pop to the last `free`
(148-157), but what the application and the Java machine do to a direct
buffer in between is interleaved. Whether and when the selector is woken is
`NBBlackadder`'s subject: here it may send whenever something is queued.
`PublishArrayFails` is line 466, where `publish_data` returns without iovecs and
the copy has no owner; `Null` is the address of a `ByteBuffer` that is not direct.

### BAEvents

Follows each event from `cf` into Java and to its deletion. `freeNativeBuffer`
takes no lock, so its test, its assignment, the native delete and the emptying
are four steps any two threads may interleave. The garbage collector finalizes
an unreferenced, mapped `BAEvent` at most once, at any time, or never. The
start-up window is there: the JNI callback may be registered before `instance`
is stored, the thread may fail to attach, and in both cases the event is `lost`.
`GetDirectData` gives a consumer a buffer over the native memory without a look at
`freed`; the buffer is no reference to the `BAEvent`, so the finalizer may delete
the memory under it (`MemoryIsLive` says when the buffer can be relied on: as long
as the consumer keeps the `BAEvent`). `GetNextEventDirect` is the same life
begun by the blocking wrapper in the consumer's own thread. The exception that
stays pending in the worker's JNI environment in the start-up window is not
modelled.

### LPMTree and HashClassifier

A node is the sequence of the chunk hashes on its path: children are kept by
`Arrays.hashCode` of a chunk, so two chunks with one hash are one to the tree.
The tree is the function from its nodes to values. `Removed` states the upward
pruning loop of `delete` (70-90) as the set of nodes it removes.

In `HashClassifier` the worker moves from lock to lock; a registry is changed
by an application thread when the worker does not hold its lock, or by the
running handler. `DataKey` is the hash under which a data handler is kept and may
collide. `setScopeIdLen` is taken to be called before the first `add`.

### Requests

Bytes are named after the field they belong to, except those the code reads as
numbers, so a byte that lands in another field shows. A call starts at the Java
method: `Methods` is the table of native methods and library calls, `StrOpt`
what becomes of absent and empty options, `c_publish_data` the length that is
published of an array. The blocking library sends parts one behind the other, the
non-blocking one copies parts to offsets of a buffer that starts out as `malloc` left
it: a byte of `Copied` is as the last of its `Writers` left it. The netlink header is
its assigned fields, in front of (`BeforeSeq`) and behind (`AfterSeq`) `nlmsg_seq`,
which neither library assigns; what `malloc` leaves there is chosen anew for each
library's buffer. `Parse` and
`Datagram` stand for the node, which is not in this repository: they are the
message format the comments of both libraries imply. Events are read by `Peek` and
`ReadEvent`, by the selector alone or by threads in `getNextEventDirect`, where
one may read the datagram whose size the other has seen.

### Bitvector

A vector is its `max` and its words, a function from the allocated indices to sets
of bits. What `new` leaves in a word, and what is read outside of the memory, is
any word. Every operation also updates `bits`, the set of bits the object ought
to stand for. The code is correct for objects used with care, and
`sound` keeps who has been: growing again after shrinking over bits that are
set, a short `assign` over a set second word, the operators on a longer left
operand, and the like, end it. These conditions are part of what the run shows:
without any one of them `BitsAgree` or `QueriesAgree` fails.

## 3. Runs

| Run | Instance | Question |
|---|---|---|
| `NBSafety` | 2 publishers with 2 requests, a callback with 1, limit 2, 2 events, a socket that blocks, spurious wakeups | type invariant; no `front()` on an empty queue; the protocol of pipe, `write_set` and queue; nothing lost, doubled or reordered (also as refinements of `FifoChannel`) |
| `NBLiveness` | 1 publisher with 4 requests, limit 2, 2 events, a socket that takes data | what the library does promise: everything sent, blocked publisher released, limit kept, an awake worker drains |
| `NBLostWriteInterest` | the same with a socket that is full for a while | every request is sent: **violated** |
| `NBLostWorkerWakeup` | 2 events, no requests | every event is handled: **violated** |
| `NBPublisherLeftBlocked` | 2 publishers, limit 2 | a publisher that waits goes on: **violated** |
| `Shutdown` | 2 threads: the Java `disconnect` again and again, or a C++ `disconnect` and `delete`, also at the same time; 2 requests of one of them, limit 2; 1 event | flush, close once and delete once unless calls overlap, return |
| `ShutdownHangs` | 1 thread, 2 requests | `disconnect` returns: **violated** |
| `Events` | 2 consumers, 2 events, queue of 1 | double delete, use after delete (in the queue, in a read, under a direct buffer), leaks, ownership |
| `Classifier` | 2 control and 1 data handler, identifiers above, below and beside each other, one hash collision | tree, dispatch, unregistration |
| `Requests` | identifiers of 0 to 9 bytes, fragments of 2, length bytes that count to 3, a header of 4 bytes, 2 of them `nlmsg_seq`, 2 readers, 2 datagrams | the way of every call to the bytes, framing, decoding, two readers |
| `PublishedData` | 2 direct buffers, 3 requests, 1 write | freed once, not used after that, sent as meant |
| `Bitvector` | words of 2 bits, sizes up to 5, strings up to 5 | bits, queries and memory after every sequence of operations |

### Why the bounds are enough

* The queue limit is 2 or 3 in place of 1000: the code only compares the size
  with 1, 0 and the limit. Limit 2 still separates "becomes non-empty", "reaches
  the limit" and "passes it". Five requests of three threads let the queue pass
  the limit while two threads wait.
* Two events suffice for an event that overtakes or hides another, and for a
  bounded queue of one to turn one away.
* Two consumers and the finalizer are all pairs of threads that can free one event.
* Identifiers of zero, one and three chunks give a root value, an inner node with
  and without a value, a branch and a leaf; the two longest collide as data keys.
* In `Requests` the sizes are small but their relations are kept: more fragments
  than a length byte counts, empty and absent parts, a half fragment left over.
  The options and the data have one non-empty length, which no code looks at.
  Two readers and two datagrams of different lengths are what it takes for one to
  read with the size of the other.
* Three requests let a buffer be published twice with another request in
  between; one write tells bytes of the call from bytes of the send.
* Sizes up to five words-of-two reach one, two and three words: less than
  inline, inline and heap. `Bitvector` stops at states whose objects are
  not `sound` (CONSTRAINT `Careful`): the properties promise nothing from there.

`CHECK_DEADLOCK FALSE` stands where the system may really stop: once the bounded
requests and events are used up both threads wait for ever, as they should.

### Fairness

`Fairness` in `NBBlackadder` is weak for every step of the two threads: the
operating system runs a thread that can run, and an application's callback is
expected to return. It is strong for `SendSucceeds` and `ReceiveEvent`: a
request offered again and again is taken in the end, a datagram that is announced
again and again is read in the end. `<>[]writable` says that a full socket is
drained. None is assumed of publishers, of the node, of signals or of spurious
wakeups. All of them make the environment kinder, so a violated liveness property
is the library's doing. `ShutdownFairness` is the same with the calls of the
application's threads added; it asks nothing of a `select` that fails.
The other modules state no fairness: their runs check safety.

### What the violations show

1. **Lost write interest** (`nb_blackadder.cpp:92`). A request fails to go out,
   the socket stays registered; while it is full an event makes `select` return,
   which removes the socket from `write_set`. The iteration re-registers for
   reading only, and `push` writes to the pipe only when the queue was empty.
   Nothing is ever sent again.
2. **Lost worker wakeup** (64). The worker waits without looking at
   `event_queue`; a signal sent before it waits is lost, and the event stays
   until the next one comes.
3. **Publisher left blocked** (165). The limit is tested with `==` and the signal
   is given once, when the queue is empty, to one waiter. Two publishers that
   wait at the same time: one stays.
4. **Disconnect hangs** (261). `c_delete_ba` closes the socket before the
   destructor waits for the flush.

The passing runs state the conditions under which each promise does hold:
a socket that takes data (1), an awake worker (2), one publisher (3), a plain
delete or nothing queued (4).

Other hazards are seen in the models without a run of their own. With two
publishers `LimitHolds` fails as well, since the test for the limit is an
equality. Two threads inside `BAWrapperNB.disconnect` at the same time delete the
object twice, since `closed` is tested before and set after the native call, and may
close the descriptor twice; `Shutdown` has these behaviours, and `DeletedOnce`
and `SocketClosedOnce` say that nothing but such an overlap leads there (without
`~overlapped` TLC finds both violated).
DISCONNECT bypasses `output_queue` (538) and overtakes what is queued there. The
non-blocking `publish_data` (456), unlike the blocking one, does not test the
identifier's length, so that `RequestsAreUnderstood` assumes whole fragments of
its callers, and of no others. Neither library assigns `nlmsg_seq`
(`nb_blackadder.cpp:424-427` and `480-483`, `blackadder.cpp:103-113` and `351-361`):
these four bytes of every request are what `malloc` left, the node is taken not to
look at them, and `CopiesFillTheBuffer` says that they are the only ones. A request
that `sendmsg` never accepts (`Refused` of `PublishedData`) stays at the head of
the queue with all others behind it.
A direct buffer that is published twice, or dropped before it is
sent, is freed twice or sent after it is gone (`ForeignMemoryIsLive` and `SentAsMeant` say
where this stops).

## 4. Proofs

Eight modules hold theorems. `NBBlackadderProofs` proves, for any sets of
threads, any limit, any bounds and any behaviour of the socket:

| Theorem | States |
|---|---|
| `TypeCorrect` | `Spec => []TypeOK` |
| `NoSendFromEmptyQueue` | `Spec => []NeverSendsFromEmptyQueue` |
| `PipeHoldsOneByte` | `Spec => []WakeupInvariant` |
| `RequestsAlwaysWatched` | `Spec => []RequestsWatched` |
| `SinglePublisherKeepsLimit` | `Spec => []LimitHolds`, for one publisher and no spurious wakeup |
| `RequestsKeepThreadOrder` | `Spec => []RequestsInThreadOrder` |
| `RequestsImplementFifo` | `Spec => RequestsAreFifo`: the path of the requests implements `FifoChannel` |
| `EventsImplementFifo` | `Spec => EventsAreFifo` |

Assumptions: `WorkerAssumption` (the worker is not an application thread),
`LimitAssumption`, `BoundsAssumption` and `EnvironmentAssumption`, all of them
typing of the constants; the theorem about the limit adds its two conditions
explicitly.

**The argument.** None of the interesting properties is inductive. That
`front()` is never called on an empty queue depends on why the selector got
to that line: a byte in the pipe, or the socket left registered. `WakeupInvariant`
makes this a statement about every state: at most one byte is in the pipe; it
is there only while requests are queued and the socket is not registered; the
socket is registered only while requests are queued; the send stage is entered
with the socket registered. `IInv == TypeOK /\ WakeupInvariant` is inductive
(checked by TLC in `NBSafety` first): `push` writes a byte only when the queue
was empty, hence when neither a byte nor a registration existed, and only the
selector, in the send stage, makes the queue shorter. `TypeOK` needs it too, as `Tail` of
an empty queue has no type. On top of it
`WatchInvariant` adds that with a socket that takes data a queued request is
announced or registered; `LimitInvariant`, that with one publisher the queue is
at the limit only while the publisher waits; `EventInvariant`, that there
is a received event in the selector's hand only between its two stages. The refinements map
`accepted` to everything transmitted and still queued (or, for events, handled,
queued, in hand and in the socket) and `delivered` to what has left: every
action appends to one of the two or moves a message across a boundary, which the
abstract level does not see. `PathStep` and `EventStep` name the few steps each
path can see; `RequestsInThreadOrder` is inductive along `PathStep`: a push appends
to the path the number after the largest its thread has there, and a successful send
(`SendKeepsPath`) leaves the path as it is.

`BAEventsProofs` proves all properties of `Events` for any number of events,
consumers and places in the queue:

| Theorem | States |
|---|---|
| `EventsTypeCorrect` | `Spec => []TypeOK` |
| `DeletedAtMostOnce` | `Spec => []DeletedOnceUnlessShared` |
| `NoReadOfDeletedMemory` | `Spec => []MemoryIsLive` |
| `NoOtherEventLeaks` | `Spec => []NothingElseIsForgotten` |
| `OneOwnerAtATime` | `Spec => []OwnershipIsExclusive` |

It assumes `SizesAssumption` and `ConsumersAssumption` (the worker and the finalizer
are not consumers). `IInv` adds to `TypeOK` three parts. `StageInv`: which thread
can be at which stage of `freeNativeBuffer`, with what it has already done to the
event there. `PlaceInv`: an event that is not shared is in one place, where a
place is the queue, a thread's hands or a consumer's references. `LifeInv`: how far
`native`, `deletes`, `mapped`, `freed` and `finalized` have come together; its
core is that an event nobody shared is deleted only by the thread that set
`freed`, and that only one thread can get there, as the others own no reference.

`PublishedDataProofs` proves, for any number of requests, buffers and writes:

| Theorem | States |
|---|---|
| `RequestMemoryIsFreedOnce` | `Spec => []RequestMemoryFreedOnce` |
| `ForeignMemoryStaysLive` | `Spec => []ForeignMemoryIsLive` |
| `DataIsSentAsMeant` | `Spec => []SentAsMeant` |

from `BoundsAssumption`. `QueueInv` says that each request is at one place at
most, queued, being freed, gone or still to come, with the parts it was given at
the call; `MemoryInv` that its blocks are live there and nowhere else;
`DirectInv` bounds the frees of a direct buffer by how often it was published;
`ContentInv` that until a message is sent its parts hold what was meant, unless
the application wrote to them.

`NBShutdownProofs` proves, for any limits and any behaviour of the socket:

| Theorem | States | For |
|---|---|---|
| `ShutdownTypeCorrect` | `ShutdownSpec => []ShutdownTypeOK` | any threads |
| `NoSendFromEmptyQueueInShutdown` | `ShutdownSpec => []NeverSendsFromEmptyQueue` | any threads |
| `RequestsStayFifo` | `ShutdownSpec => RequestsAreFifo` | any threads |
| `ThreadOrderSurvives` | `ShutdownSpec => []RequestsInThreadOrder` | any threads |
| `EventsStayFifo` | `ShutdownSpec => EventsAreFifo` | any threads |
| `DeleteFlushes` | `ShutdownSpec => []FlushedBeforeDelete` | any threads, no spurious wakeup |
| `DeleteSendsEverything` | `ShutdownSpec => []EverythingSent` | any threads, no spurious wakeup |
| `SocketIsClosedOnce` | `ShutdownSpec => []SocketClosedOnce` | any threads |
| `ObjectIsDeletedOnce` | `ShutdownSpec => []DeletedOnce` | any threads |

`ShutdownWakeup` is `WakeupInvariant` with whatever descriptor is in `write_set`:
the socket, closed or not, or -1. It survives the end of the socket because
`close` and the reset of `sock_fd` touch neither pipe nor queue, and the
selector takes its descriptor from `sock_fd` only to register it.
`ResetAfterClose` gives `sock_fd` its type. For the two paths a shutdown adds no
step of its own (`ShutdownSteps`): every step is again a `PathStep` and an
`EventStep`, whose lemmas come from `NBBlackadderProofs`; that a `sendmsg` finds a
request is what `ShutdownWakeup` gives. A delete flushes because the destructor
waits while requests are queued, is woken only when the queue is empty, and
nobody queues a request after it; a spurious wakeup ends its one `wait`
early, hence the assumption. `EverythingSent` says what that is good for: with the
queue empty the path is what was transmitted, and the path holds all requests ever
pushed. The last two theorems need `SequentialInv`, which holds as long as no two calls
have overlapped: `CallInv` reads off from where a thread is in its call whether
the socket has been closed and the object deleted, `PairInv` says that of two threads
one at most is inside a call, and that a thread that is inside one finds what the calls
before it have left, and `CountInv` bounds the two counters by it. An overlap
ends the invariant for good, as both tests (`sock_fd`, `closed`) can then be passed twice.

`HashClassifierProofs` proves all properties of `Classifier` for any
identifiers, handlers and hash collisions:

| Theorem | States |
|---|---|
| `ClassifierTypeCorrect` | `Spec => []TypeOK` |
| `TreeHoldsWhatIsRegistered` | `Spec => []TreeHoldsTheRegistered` |
| `NoDeadBranch` | `Spec => []TreeHasNoDeadBranch` |
| `TreeForgetsItsHistory` | `Spec => [](controlEventHandlerLPM = TreeOfRegistered)` |
| `LongestPrefixIsFound` | `Spec => []SearchFindsTheLongestPrefix` |
| `HandlerIsRegistered` | `Spec => []RunningHandlerIsRegistered` |
| `StableHandlersGetEvents` | `Spec => StableHandlerGetsTheEvent` |

It assumes `NoValueAssumption`, `DataHandlersAssumption`, `DataKeyAssumption` and
`RidsAssumption` (identifiers are sequences). `TreeInv` joins the first two
tree properties to `TreeShape`, that the nodes are closed under prefixes; the
three are inductive only together. That `delete` does not prune too much is the
closure; that it prunes enough, that a node it keeps has something below it
that holds a value or, as there was no dead branch before, leads to another
registered identifier. The three determine the tree: `TreeOfRegistered` is the one
that adding what is registered now would build, so the tree is an implementation of
a map from identifiers to handlers, whatever the history of calls. The walk of
`searchPrefix` ends at the deepest node on the way; that there is one is `MaxExists`, from the well-foundedness of the naturals.
`DispatchInv` says that a registry counted as stable matches the event now, and
that published data reaches the control registry only if the data registry is
not stable.

`RequestsProofs` proves, from `SizesAssumption`:

| Theorem | States |
|---|---|
| `EventsAreWhatTheNodeSent` | `Spec => []EventsAreReadBack` |
| `BufferIsFilled` | `Spec => []CopiesFillTheBuffer` |
| `BothLibrariesSendTheSame` | `Spec => []LibrariesSendTheSame` |
| `NodeUnderstandsRequests` | `Spec => []RequestsAreUnderstood` |

The first needs `PeekInv`: a reader that nobody has overtaken has seen the size
of the datagram that is first now, hence reads all of it; `Decoded` then
finds the pieces of a whole datagram at the offsets the code computes. The second is
about the layout: `PushLayout` and `DataLayout` bring the offsets of the code to a form
in which each part begins where the one before ends, but for the gap of
`nlmsg_seq`, and `OneWriter` says that such parts write each byte once and the gap
never. The last two build on it: bytes with one writer each are
determined by the parts alone (`WriterOf`, `CopiedGathers`), so the buffer comes to
the parts one behind the other, with the gap as `malloc` left it, and this is what the
blocking library sends, `nlmsg_seq` excepted (`SameFrames`).
`ServiceRead` and `DataRead` follow `Parse` through such a frame: the length bytes are
where it looks for them and count the bytes of the field behind them, given
`Countable` and whole fragments, which the tests of the libraries ensure for all calls
but `publishData` of `BAWrapperNB`. `WireInv` ties what was sent to the call, and to
the table of methods the call went through.

`BitvectorProofs` proves `MemoryAlwaysCoversSize`, `Spec => []MemoryCoversSize`, for words
and vectors of any size, from `SizesAssumption` and `OneByteIsInline` (a string
whose cleared bytes go beyond the inline words has more than one character, as with
8 and 63 bits in the code). Inductive is that together with `Shape`: every object,
sound or not, has its first word, as an assignment to an object used without
care still writes there. `Division` relates the two tests the code uses for "fits
inline", one on bits and one on words.

`BitvectorContentProofs` proves that the words are right as well:

| Theorem | States |
|---|---|
| `BitsAlwaysAgree` | `Spec => []BitsAgree` |
| `QueriesAlwaysAgree` | `Spec => []QueriesAgree` |

for words and vectors of any size, provided `StringsCleared`: once what a string
constructor clears reaches beyond the inline words, it covers every word the vector
works on. `TheCodeClears` shows that the code does, with words of 32 bits
and 8 cleared for each character. The invariant that is inductive is about
words: `WordsAgree` says that each word of a sound object, up to the last inline one
even where the object is shorter, is the part of its bits that falls into it. An
operation on words is then the same operation on sets, word by word; `offset_or`,
whose words mix two words of its operand, has its own lemmas about the shift, and
`resize` is where soundness is needed, since the words it leaves behind come
back into sight.

**Only model-checked.** Every safety invariant and action property of a passing run
has a theorem. What stays with TLC is liveness under fairness (`EveryRequestIsSent`,
`BlockedPublisherResumes`, `AwakeWorkerDrains`, `DeleteReturns`,
`IdleDisconnectReturns`), which is outside what the prover
does, as is `ENABLED`.

## 5. Not modelled

* Opening, binding and disconnecting the blocking library, and its
  `BAWrapper.disconnect`: single system calls on a socket without threads of its
  own.
* Opening, binding and the error exits of the constructors; `JNI_OnLoad` and
  `BAWrapperShared`; logging.
* A native method called on a wrapper that is closed: it uses a deleted object,
  and every outcome is undefined. `NBShutdown` ends a thread with its delete.
* A `recvmsg` that fails after its peek succeeded: the event is built from
  memory that was never written.
* A `datalen` beyond the elements of the array; reads behind a datagram that is
  shorter than its own length byte says.
* Hex and byte conversions and the identifier classes: pure functions on
  immutable values. Where identifiers are keys their equality is what counts,
  and `DataKey` of `HashClassifier` allows any collision of it.
* A descriptor number reused by another file after `close`; see `NBShutdown`.

## 6. Plan

Done, in this order: `NBBlackadder` (the core of the system, and the
one place where every application depends on thread interleavings), its proofs,
`NBShutdown`, `LPMTree` and `HashClassifier`, `BAEvents`, `Requests`,
`PublishedData` and its proofs, `BAEvents` with direct buffers and the blocking
wrapper, its proofs, the JNI layers and the two readers in `Requests`, `Bitvector`,
the proofs about `NBShutdown`, `HashClassifier`, `Requests` and `Bitvector`, and then
those of the properties that had been model-checked only: the order of a thread's
requests, the bytes of requests, the bits of vectors, both paths through a shutdown,
and the tree as a function of what is registered.

What would come next:

1. An abstract `PrefixMap` (a partial function from identifiers to handlers) which
   `HashClassifier` implements step by step, with the exception
   `SearchFindsTheLongestPrefix` describes made part of the abstraction;
   `TreeForgetsItsHistory` is the data refinement it would rest on.
2. The safety core of the liveness arguments as invariants of their own, such as what
   a publisher that waits is waiting for.
