--------------------------- MODULE PublishedData ---------------------------
(***************************************************************************)
(* The memory of a request between the call that queues it and the         *)
(* selector that sends and frees it.  Every request has a malloc'ed array  *)
(* of iovecs and a malloc'ed buffer with copies of the identifiers and     *)
(* options.  Published data is a second part: a calloc'ed copy of a Java   *)
(* array, or the memory of a direct ByteBuffer itself, which stays in the  *)
(* hands of the application and of the Java machine -- or NULL, when the   *)
(* ByteBuffer is not a direct one.                                         *)
(*                                                                         *)
(* The selector may send whenever a request is queued: that it is woken,   *)
(* and never finds the queue empty, is shown in NBBlackadder.              *)
(***************************************************************************)
EXTENDS Naturals, Sequences

CONSTANTS
  Buffers,       \* the direct ByteBuffers of the application
  MaxRequests,   \* bounds the requests
  MaxWrites      \* bounds the application's writes to its memory

ASSUME BoundsAssumption == MaxRequests \in Nat /\ MaxWrites \in Nat

Requests == 1..MaxRequests

\* Blocks of memory.
Iov(r) == <<"iov", r>>
Header(r) == <<"buffer", r>>
Copy(r) == <<"copy", r>>
Malloced == {"iov", "buffer", "copy"} \X Requests
Direct(b) == <<"direct", b>>
DirectBlocks == {Direct(b) : b \in Buffers}
Array == <<"array", 0>>    \* the arrays the application hands over, again and again
Null == <<"null", 0>>      \* no memory at all
Blocks == Malloced \union DirectBlocks \union {Array, Null}

\* What is in a block: the number of the write it comes from, or anything.
Garbage == 0

VARIABLES
  output_queue,  \* the queued messages: their request and their parts
  freeing,       \* the message the selector has sent and popped, not yet freed
  heap,          \* heap[k]: is block k "unused", "live" or "freed"?
  content,       \* content[k]: what is in it
  frees,         \* frees[k]: how often it has been freed (history)
  issued,        \* the number of requests so far
  writes,        \* the number of writes so far
  held,          \* direct buffers the application has a reference to
  lent,          \* lent[b]: how often direct buffer b has been published (history)
  meant,         \* meant[r]: the parts of r and what was in them at the call (history)
  sent,          \* sent[r]: what has been sent of it
  touched,       \* queued requests whose direct buffer was written (history)
  lost           \* blocks lost when memory ran out (history)

memory == <<heap, content, frees>>
history == <<lent, meant, touched, lost>>
vars == <<output_queue, freeing, memory, issued, writes, held, sent, history>>

NotSent == <<>>
NotMeant == [parts |-> <<>>, contents |-> <<>>]
NoMessage == [request |-> 0, parts |-> <<>>]
Message(r, parts) == [request |-> r, parts |-> parts]

Init ==
  /\ output_queue = <<>>
  /\ freeing = NoMessage
  /\ heap = [k \in Blocks |-> IF k \in Malloced THEN "unused" ELSE "live"]
  /\ content = [k \in Blocks |-> IF k \in Malloced THEN Garbage ELSE 1]
  /\ frees = [k \in Blocks |-> 0]
  /\ issued = 0
  /\ writes = 1
  /\ held = Buffers
  /\ lent = [b \in Buffers |-> 0]
  /\ meant = [r \in Requests |-> NotMeant]
  /\ sent = [r \in Requests |-> NotSent]
  /\ touched = {}
  /\ lost = {}

(***************************************************************************)
(* The publishers                                                          *)
(***************************************************************************)

\* Memory for blocks ks, filled from the application's arrays.
Allocate(ks) ==
  /\ heap' = [k \in Blocks |-> IF k \in ks THEN "live" ELSE heap[k]]
  /\ content' = [k \in Blocks |-> IF k \in ks THEN content[Array] ELSE content[k]]
  /\ UNCHANGED frees

\* push and publish_data queue a message; they need selector_mutex, which the
\* selector holds until it has freed the last one.
Enqueue(r, parts, given) ==
  /\ freeing = NoMessage
  /\ r = issued + 1 /\ r \in Requests
  /\ issued' = r
  /\ output_queue' = Append(output_queue, Message(r, parts))
  /\ meant' = [meant EXCEPT ![r] = [parts |-> parts, contents |-> given]]

\* A service request: one part.
PublishService(r) ==
  /\ Enqueue(r, <<Header(r)>>, <<content[Array]>>)
  /\ Allocate({Iov(r), Header(r)})
  /\ UNCHANGED <<freeing, writes, held, lent, sent, touched, lost>>

\* Fault: the elements of the array are queued themselves.
PublishArrayUncopied(r) ==
  /\ Enqueue(r, <<Header(r), Array>>, <<content[Array], content[Array]>>)
  /\ Allocate({Iov(r), Header(r)})
  /\ UNCHANGED <<freeing, writes, held, lent, sent, touched, lost>>

\* c_publish_data copies the array; publish_data keeps the copy as it is.
PublishArray(r) ==
  /\ Enqueue(r, <<Header(r), Copy(r)>>, <<content[Array], content[Array]>>)
  /\ Allocate({Iov(r), Header(r), Copy(r)})
  /\ UNCHANGED <<freeing, writes, held, lent, sent, touched, lost>>

\* There is no memory for the iovecs: publish_data returns, and nobody frees
\* the copy c_publish_data has made.
PublishArrayFails(r) ==
  /\ r = issued + 1 /\ r \in Requests
  /\ issued' = r
  /\ Allocate({Copy(r)})
  /\ lost' = lost \union {Copy(r)}
  /\ UNCHANGED <<output_queue, freeing, writes, held, lent, meant, sent, touched>>

\* c_publish_data_direct passes the address of the buffer on.
PublishDirect(r, b) ==
  /\ b \in held
  /\ Enqueue(r, <<Header(r), Direct(b)>>, <<content[Array], content[Direct(b)]>>)
  /\ Allocate({Iov(r), Header(r)})
  /\ lent' = [lent EXCEPT ![b] = @ + 1]
  /\ UNCHANGED <<freeing, writes, held, sent, touched, lost>>

\* A ByteBuffer on the Java heap has no address.
PublishHeapBuffer(r) ==
  /\ Enqueue(r, <<Header(r), Null>>, <<content[Array], content[Array]>>)
  /\ Allocate({Iov(r), Header(r)})
  /\ UNCHANGED <<freeing, writes, held, lent, sent, touched, lost>>

Publish(r) ==
  \/ PublishService(r)
  \/ PublishArray(r)
  \/ PublishArrayFails(r)
  \/ \E b \in Buffers : PublishDirect(r, b)
  \/ PublishHeapBuffer(r)

(***************************************************************************)
(* The application and the Java machine                                    *)
(***************************************************************************)

Parts(m) == {m.parts[i] : i \in DOMAIN m.parts}
Queued == {output_queue[i] : i \in DOMAIN output_queue}

\* The application uses its memory again.
Write(k) ==
  /\ writes <= MaxWrites
  /\ writes' = writes + 1
  /\ content' = [content EXCEPT ![k] = writes + 1]
  /\ touched' = touched \union {m.request : m \in {q \in Queued : k \in Parts(q) \ {Array}}}
  /\ UNCHANGED <<output_queue, freeing, heap, frees, issued, held, lent, meant, sent, lost>>

\* free: what is in the block may be anything from now on.
Freed(ks) ==
  /\ heap' = [k \in Blocks |-> IF k \in ks THEN "freed" ELSE heap[k]]
  /\ content' = [k \in Blocks |-> IF k \in ks THEN Garbage ELSE content[k]]
  /\ frees' = [k \in Blocks |-> IF k \in ks THEN frees[k] + 1 ELSE frees[k]]

\* The application drops a direct buffer and the Java machine frees its memory.
Collect(b) ==
  /\ b \in held
  /\ held' = held \ {b}
  /\ Freed({Direct(b)})
  /\ UNCHANGED <<output_queue, freeing, issued, writes, lent, meant, sent, touched, lost>>

(***************************************************************************)
(* The selector, under selector_mutex                                      *)
(***************************************************************************)

\* sendmsg never accepts a part without an address.
Refused(m) == Null \in Parts(m)

\* sendmsg returns ret; only a message that has been sent is popped.
Send(ret) ==
  /\ freeing = NoMessage
  /\ output_queue /= <<>>
  /\ LET m == Head(output_queue)
     IN /\ ret > 0 => ~Refused(m)
        /\ output_queue' = IF ret > 0 THEN Tail(output_queue) ELSE output_queue
        /\ freeing' = IF ret > 0 THEN m ELSE NoMessage
        /\ sent' = IF ret > 0
                   THEN [sent EXCEPT ![m.request] = [i \in DOMAIN m.parts |-> content[m.parts[i]]]]
                   ELSE sent
  /\ UNCHANGED <<memory, issued, writes, held, history>>

\* Fault: the number of parts is not looked at.
FreeFirstPart ==
  /\ freeing /= NoMessage
  /\ Freed({freeing.parts[1], Iov(freeing.request)})
  /\ freeing' = NoMessage
  /\ UNCHANGED <<output_queue, issued, writes, held, sent, history>>

\* Both parts if msg_iovlen is 2, else the one; then the iovecs.
FreeParts ==
  /\ freeing /= NoMessage
  /\ Freed(Parts(freeing) \union {Iov(freeing.request)})
  /\ freeing' = NoMessage
  /\ UNCHANGED <<output_queue, issued, writes, held, sent, history>>

Next ==
  \/ \E r \in Requests : Publish(r)
  \/ Write(Array)
  \/ \E b \in Buffers : b \in held /\ Write(Direct(b))
  \/ \E b \in Buffers : Collect(b)
  \/ \E ret \in {0, 1} : Send(ret)
  \/ FreeParts

Spec == Init /\ [][Next]_vars

(***************************************************************************)
(* Properties                                                              *)
(***************************************************************************)

\* The memory a message stands for.
BlocksOf(m) == Parts(m) \union {Iov(m.request)}
InUse == UNION {BlocksOf(m) : m \in Queued \union ({freeing} \ {NoMessage})}

\* What push, publish_data and c_publish_data allocate is freed once, when the
\* selector has sent it, and not before, however often sendmsg fails: a block is
\* live exactly while a message that needs it is queued or being freed.  Only the
\* copy of an array for which there were no iovecs is never freed.
RequestMemoryFreedOnce ==
  \A k \in Malloced :
    /\ frees[k] <= 1
    /\ heap[k] = "live" <=> k \in InUse \union lost

\* Has the application kept direct buffer b to itself, apart from one request?
LentOnce(b) == lent[b] <= 1 /\ b \in held

\* The library frees memory it does not own only where the application published
\* a direct ByteBuffer: each time it did, and never an array of the application.
\* If it published the buffer once and keeps it, no request in the queue refers
\* to memory that is gone, and the memory is freed at most once.
ForeignMemoryIsLive ==
  /\ frees[Array] = 0
  /\ \A b \in Buffers :
       /\ heap[Direct(b)] = "freed" => lent[b] > 0 \/ b \notin held
       /\ LentOnce(b) => frees[Direct(b)] <= 1 /\ (Direct(b) \in InUse => heap[Direct(b)] = "live")

\* The node gets what the caller had in its arrays when it called, whatever the
\* application does with them afterwards, and what it had in its direct buffer,
\* as long as it leaves the buffer alone until it is sent.
SentAsMeant ==
  \A r \in Requests : sent[r] /= NotSent =>
    \A i \in DOMAIN sent[r] :
      \/ sent[r][i] = meant[r].contents[i]
      \/ \E b \in Buffers : meant[r].parts[i] = Direct(b) /\ (r \in touched \/ ~LentOnce(b))
=============================================================================
