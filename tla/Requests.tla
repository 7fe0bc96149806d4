------------------------------ MODULE Requests ------------------------------
(***************************************************************************)
(* From a call of a Java wrapper to the bytes on the netlink socket, and   *)
(* from the bytes of a datagram to an Event.  BAWrapperNB goes through JNI *)
(* to the non-blocking library (nb_blackadder.cpp), which copies the parts *)
(* of a request to computed offsets of one buffer; BAWrapper goes through  *)
(* a JNI layer of its own to the blocking library (blackadder.cpp), which  *)
(* gathers the parts with an iovec.  Events are read in two steps, a look  *)
(* at the size and the read, by the one selector thread of the first and   *)
(* by any thread that calls getNextEventDirect of the second.              *)
(*                                                                         *)
(* A byte is a number where the code reads it as one; the others are named *)
(* after the field they belong to, so that a byte that ends up in another  *)
(* field shows.  After the netlink header of HeaderLen bytes come          *)
(*   type, fragments of id, id, fragments of prefix_id, prefix_id,         *)
(*   strategy, strategy options             (a service request)            *)
(*   type, fragments of id, id, strategy, strategy options, data           *)
(*                                          (PUBLISH_DATA)                 *)
(***************************************************************************)
EXTENDS Naturals, SequencesExt

CONSTANTS
  IdLen,        \* PURSUIT_ID_LEN
  HeaderLen,    \* sizeof(struct nlmsghdr)
  SeqOffset,    \* where nlmsg_seq is in it, behind nlmsg_len, nlmsg_type and nlmsg_flags
  SeqLen,       \* sizeof(nlmsg_seq); nlmsg_pid is behind it
  ByteRange,    \* the values of an unsigned char: 256
  MaxLen,       \* bounds the bytes of an identifier
  Readers,      \* threads that read events: the selector, or callers of getNextEventDirect
  MaxInbox      \* bounds the datagrams in the socket

ASSUME SizesAssumption ==
  /\ {IdLen, HeaderLen, SeqOffset, SeqLen, ByteRange} \subseteq Nat \ {0}
  /\ SeqOffset + SeqLen <= HeaderLen
  /\ {MaxLen, MaxInbox} \subseteq Nat

InfoTypes == {"PUBLISH_INFO", "UNPUBLISH_INFO", "SUBSCRIBE_INFO", "UNSUBSCRIBE_INFO"}
PublishTypes == {"PUBLISH_SCOPE", "PUBLISH_INFO"}
DataType == "PUBLISH_DATA"

Bytes(name, n) == [i \in 1..n |-> name]

(***************************************************************************)
(* The calls, and what the JNI layers make of them                         *)
(***************************************************************************)

ServiceOps == {"publishScope", "publishItem", "unpublishScope", "unpublishItem",
               "subscribeScope", "subscribeItem", "unsubscribeScope", "unsubscribeItem"}

\* What the names of the operations say: the request types of blackadder_defs.h.
Named ==
  [publishScope |-> "PUBLISH_SCOPE", publishItem |-> "PUBLISH_INFO",
   unpublishScope |-> "UNPUBLISH_SCOPE", unpublishItem |-> "UNPUBLISH_INFO",
   subscribeScope |-> "SUBSCRIBE_SCOPE", subscribeItem |-> "SUBSCRIBE_INFO",
   unsubscribeScope |-> "UNSUBSCRIBE_SCOPE", unsubscribeItem |-> "UNSUBSCRIBE_INFO",
   publishData |-> DataType]

Ids == {Bytes("id", n) : n \in 0..MaxLen}
NullOptions == <<"null">>
JavaOptions == {NullOptions, <<>>, Bytes("options", 2)}

ServiceCalls ==
  [op : ServiceOps, id : Ids, prefix_id : {Bytes("prefix", n) : n \in 0..MaxLen},
   options : JavaOptions, data : {<<>>}, length : {0}]

\* The array or the direct buffer may be longer than what is to be published.
DataCalls ==
  {c \in [op : {"publishData"}, id : Ids, prefix_id : {<<>>}, options : JavaOptions,
          data : {<<>>, Bytes("data", 3)}, length : 0..3] : c.length <= Len(c.data)}

\* Which method of the library each native method calls, and the type it sends.
Methods ==
  [publishScope |-> "publish_scope", publishItem |-> "publish_info",
   unpublishScope |-> "unpublish_scope", unpublishItem |-> "unpublish_info",
   subscribeScope |-> "subscribe_scope", subscribeItem |-> "subscribe_info",
   unsubscribeScope |-> "unsubscribe_scope", unsubscribeItem |-> "unsubscribe_info"]

BlockingMethods == Methods   \* the JNI layer of BAWrapper

SentType ==
  [publish_scope |-> "PUBLISH_SCOPE", publish_info |-> "PUBLISH_INFO",
   unpublish_scope |-> "UNPUBLISH_SCOPE", unpublish_info |-> "UNPUBLISH_INFO",
   subscribe_scope |-> "SUBSCRIBE_SCOPE", subscribe_info |-> "SUBSCRIBE_INFO",
   unsubscribe_scope |-> "UNSUBSCRIBE_SCOPE", unsubscribe_info |-> "UNSUBSCRIBE_INFO"]

\* str_opt is NULL, here the empty sequence, for no options and for empty ones.
StrOpt(options) == IF options = NullOptions THEN <<>> ELSE options

call_blackadder(c, method) ==
  [type |-> SentType[method], id |-> c.id, prefix_id |-> c.prefix_id,
   options |-> StrOpt(c.options), data |-> <<>>]

\* c_publish_data and c_publish_data_direct: the first bytes of the array or buffer.
c_publish_data(c, length) ==
  [type |-> DataType, id |-> c.id, prefix_id |-> <<>>,
   options |-> StrOpt(c.options), data |-> SubSeq(c.data, 1, length)]

Request(c) ==
  IF c.op \in ServiceOps THEN call_blackadder(c, Methods[c.op]) ELSE c_publish_data(c, c.length)

\* BAWrapper publishes all of the array, or of the capacity of the buffer.
BlockingRequest(c) ==
  IF c.op \in ServiceOps
  THEN call_blackadder(c, BlockingMethods[c.op]) ELSE c_publish_data(c, Len(c.data))

(***************************************************************************)
(* Which calls send something                                              *)
(***************************************************************************)

WholeFragments(bytes) == Len(bytes) % IdLen = 0
Fragments(bytes) == Len(bytes) \div IdLen

\* publish_info tests the prefix twice and the identifier never.
ServiceCheck(r) ==
  /\ WholeFragments(r.id)
  /\ WholeFragments(r.prefix_id)
  /\ r.type /= "PUBLISH_INFO" => r.id /= <<>>
  /\ r.type \in InfoTypes => r.prefix_id /= <<>>
  /\ r.type \notin PublishTypes => Fragments(r.id) <= 1

\* The blocking publish_data checks the identifier.
BlockingAccepts(r) ==
  IF r.type = DataType THEN WholeFragments(r.id) ELSE ServiceCheck(r)

\* Fault: the tests of a service request forget the size of the prefix.
NBAcceptsAnyPrefix(r) ==
  \/ r.type = DataType
  \/ ServiceCheck([r EXCEPT !.prefix_id = Bytes("prefix", Fragments(r.prefix_id) * IdLen)])

\* The non-blocking publish_data checks nothing.
NBAccepts(r) == r.type = DataType \/ ServiceCheck(r)

(***************************************************************************)
(* The bytes                                                               *)
(***************************************************************************)

\* What a byte of a malloc'ed buffer may be before anything is written to it.
Garbage == "garbage"
Heap == {Garbage, "stale"}

\* Neither library assigns nlmsg_seq: it is sent as malloc left it.
BeforeSeq(length) == Bytes(<<"nlmsg_len", length>>, SeqOffset)
AfterSeq == Bytes("nlmsg_pid", HeaderLen - SeqOffset - SeqLen)
Header(length, heap) == BeforeSeq(length) \o Bytes(heap, SeqLen) \o AfterSeq
SeqBytes == (SeqOffset + 1)..(SeqOffset + SeqLen)

LengthByte(bytes) == <<Fragments(bytes) % ByteRange>>   \* an unsigned char

\* Fault: nlmsg_len leaves out the strategy.
BlockingLengthNoStrategy(r) ==
  HeaderLen + 1 + 1 + Len(r.id) + Len(r.options)
    + IF r.type = DataType THEN Len(r.data) ELSE 1 + Len(r.prefix_id)

\* nlmsg_len of the blocking library.
BlockingLength(r) ==
  IF r.type = DataType
  THEN HeaderLen + 1 + 1 + Len(r.id) + 1 + Len(r.options) + Len(r.data)
  ELSE HeaderLen + 1 + 1 + Len(r.id) + 1 + Len(r.prefix_id) + 1 + Len(r.options)

\* The blocking library sends the parts of an iovec one behind the other; the
\* header is a buffer of its own.
create_and_send_buffers(r, heap) ==
  Header(BlockingLength(r), heap) \o <<r.type>> \o LengthByte(r.id) \o r.id
    \o LengthByte(r.prefix_id) \o r.prefix_id \o <<"strategy">> \o r.options

publish_data(r, heap) ==
  Header(BlockingLength(r), heap) \o <<r.type>> \o LengthByte(r.id) \o r.id
    \o <<"strategy">> \o r.options \o r.data

BlockingFrame(r, heap) ==
  IF r.type = DataType THEN publish_data(r, heap) ELSE create_and_send_buffers(r, heap)

\* memcpy, or an assignment: one part goes to an offset of the buffer.
Part(offset, bytes) == [offset |-> offset, bytes |-> bytes]

\* push: the length of the buffer and the copies into it.
PushLength(r) == HeaderLen + 1 + 1 + Len(r.id) + 1 + Len(r.prefix_id) + 1 + Len(r.options)

\* Fault: the offset of prefix_id leaves out its own length byte.
PushPartsOverlap(r) ==
  LET prefixLen == HeaderLen + 1 + 1 + Len(r.id)
  IN << Part(0, BeforeSeq(PushLength(r))),
        Part(SeqOffset + SeqLen, AfterSeq),
        Part(HeaderLen, <<r.type>>),
        Part(HeaderLen + 1, LengthByte(r.id)),
        Part(HeaderLen + 1 + 1, r.id),
        Part(prefixLen, LengthByte(r.prefix_id)),
        Part(prefixLen, r.prefix_id),
        Part(prefixLen + 1 + Len(r.prefix_id), <<"strategy">>),
        Part(prefixLen + 1 + Len(r.prefix_id) + 1, r.options) >>

PushParts(r) ==
  LET prefixLen == HeaderLen + 1 + 1 + Len(r.id)
  IN << Part(0, BeforeSeq(PushLength(r))),
        Part(SeqOffset + SeqLen, AfterSeq),
        Part(HeaderLen, <<r.type>>),
        Part(HeaderLen + 1, LengthByte(r.id)),
        Part(HeaderLen + 1 + 1, r.id),
        Part(prefixLen, LengthByte(r.prefix_id)),
        Part(prefixLen + 1, r.prefix_id),
        Part(prefixLen + 1 + Len(r.prefix_id), <<"strategy">>),
        Part(prefixLen + 1 + Len(r.prefix_id) + 1, r.options) >>

\* publish_data: the data stays in a part of the iovec of its own.
DataLength(r) == HeaderLen + 1 + 1 + Len(r.id) + 1 + Len(r.options)

DataParts(r) ==
  << Part(0, BeforeSeq(DataLength(r) + Len(r.data))),
     Part(SeqOffset + SeqLen, AfterSeq),
     Part(HeaderLen, <<r.type>>),
     Part(HeaderLen + 1, LengthByte(r.id)),
     Part(HeaderLen + 1 + 1, r.id),
     Part(HeaderLen + 1 + 1 + Len(r.id), <<"strategy">>),
     Part(HeaderLen + 1 + 1 + Len(r.id) + 1, r.options) >>

NBParts(r) == IF r.type = DataType THEN DataParts(r) ELSE PushParts(r)
NBLength(r) == IF r.type = DataType THEN DataLength(r) ELSE PushLength(r)

\* The copies that write the byte at an offset.
Writers(parts, offset) ==
  {k \in DOMAIN parts :
     offset \in parts[k].offset..(parts[k].offset + Len(parts[k].bytes) - 1)}

\* What the copies leave in a buffer: a byte is as the last of its writers left
\* it, or as malloc did.
Copied(parts, length, heap) ==
  [i \in 1..length |->
    LET writers == Writers(parts, i - 1)
    IN IF writers = {} THEN heap
       ELSE parts[Max(writers)].bytes[i - parts[Max(writers)].offset]]

NBFrame(r, heap) == Copied(NBParts(r), NBLength(r), heap) \o r.data

(***************************************************************************)
(* The node's side (external), and the events it sends                     *)
(***************************************************************************)

Confused == [type |-> "confused"]

After(bytes, n) == SubSeq(bytes, n + 1, Len(bytes))

\* A length byte and that many fragments, from offset n on; what is not in the
\* buffer is read from behind it.
Field(bytes, n) ==
  [i \in 1..(bytes[n + 1] * IdLen) |->
    IF n + 1 + i <= Len(bytes) THEN bytes[n + 1 + i] ELSE Garbage]

HasField(bytes, n) ==
  n < Len(bytes) /\ bytes[n + 1] \in 0..(ByteRange - 1) /\ n + 1 + bytes[n + 1] * IdLen <= Len(bytes)

\* What the node reads from the bytes of a request; their number is in the header.
Parse(bytes) ==
  LET type == bytes[HeaderLen + 1]
      afterId == HeaderLen + 2 + Len(Field(bytes, HeaderLen + 1))
      afterPrefix == afterId + 1 + Len(Field(bytes, afterId))
  IN IF \/ bytes[1] /= <<"nlmsg_len", Len(bytes)>>
        \/ ~HasField(bytes, HeaderLen + 1)
        \/ type /= DataType /\ ~HasField(bytes, afterId)
     THEN Confused
     ELSE [type |-> type,
           id |-> Field(bytes, HeaderLen + 1),
           prefix_id |-> IF type = DataType THEN <<>> ELSE Field(bytes, afterId),
           rest |-> After(bytes, IF type = DataType THEN afterId ELSE afterPrefix)]

\* What the call means, published whole or up to length.
Meaning(c, length) ==
  [type |-> Named[c.op], id |-> c.id, prefix_id |-> c.prefix_id,
   rest |-> <<"strategy">> \o StrOpt(c.options) \o SubSeq(c.data, 1, length)]

\* The datagram the node sends for an event.
Datagram(type, id, data) ==
  Header(0, "nlmsg_seq") \o <<type>> \o LengthByte(id) \o id \o data

\* Fault: the data is taken to follow the type and the length byte directly.
EventDataWithoutId(bytes) == After(bytes, HeaderLen + 2)

\* Where the selector and getEvent find the data of an event.
EventData(bytes) == After(bytes, HeaderLen + 2 + bytes[HeaderLen + 2] * IdLen)

\* The Event they build: only published data has data.
DecodeEvent(bytes) ==
  [type |-> bytes[HeaderLen + 1],
   id |-> Field(bytes, HeaderLen + 1),
   data |-> IF bytes[HeaderLen + 1] = "PUBLISHED_DATA" THEN EventData(bytes) ELSE <<>>]

(***************************************************************************)
(* Calls and events                                                        *)
(***************************************************************************)

NotSent == <<>>

VARIABLES
  call,        \* the last call, if it was the last thing to happen
  blocking,    \* what the blocking library sent for it
  nonblocking, \* what the non-blocking library sent for it
  inbox,       \* datagrams in the socket, and what the node meant by them
  peeked,      \* peeked[t]: the size thread t has seen, or 0
  overtaken,   \* threads whose datagram another one read after they saw its size (history)
  event        \* the last Event, if it was the last thing to happen

vars == <<call, blocking, nonblocking, inbox, peeked, overtaken, event>>

NoCall == [op |-> "none", id |-> <<>>, prefix_id |-> <<>>, options |-> <<>>, data |-> <<>>, length |-> 0]
NoEvent == [type |-> "UNDEF_EVENT", id |-> <<>>, data |-> <<>>]

\* An Event, what the node meant, and was the reader overtaken?
Exchange(read, meant, late) == [read |-> read, meant |-> meant, late |-> late]
Nothing == Exchange(NoEvent, NoEvent, FALSE)

Init ==
  /\ call = NoCall /\ blocking = NotSent /\ nonblocking = NotSent
  /\ inbox = <<>>
  /\ peeked = [t \in Readers |-> 0]
  /\ overtaken = {}
  /\ event = Nothing

Forget == call' = NoCall /\ blocking' = NotSent /\ nonblocking' = NotSent

\* A call, through both wrappers; malloc leaves something else in the buffers of
\* each.  No call depends on an earlier one or on what
\* readers do, so that one from the idle state stands for all.
Issue(c, heap, nbHeap) ==
  /\ call = NoCall /\ inbox = <<>> /\ event = Nothing /\ \A t \in Readers : peeked[t] = 0
  /\ call' = c
  /\ blocking' =
       IF BlockingAccepts(BlockingRequest(c)) THEN BlockingFrame(BlockingRequest(c), heap) ELSE NotSent
  /\ nonblocking' =
       IF NBAccepts(Request(c)) THEN NBFrame(Request(c), nbHeap) ELSE NotSent
  /\ UNCHANGED <<inbox, peeked, overtaken, event>>

NodeSends(type, id, data) ==
  /\ Len(inbox) < MaxInbox
  /\ inbox' = Append(inbox, [bytes |-> Datagram(type, id, data),
                             meant |-> [type |-> type, id |-> id, data |-> data]])
  /\ event' = Nothing
  /\ Forget
  /\ UNCHANGED <<peeked, overtaken>>

\* MSG_PEEK: the buffer will have the size of the first datagram.
Peek(t) ==
  /\ peeked[t] = 0
  /\ inbox /= <<>>
  /\ peeked' = [peeked EXCEPT ![t] = Len(Head(inbox).bytes)]
  /\ event' = Nothing
  /\ Forget
  /\ UNCHANGED <<inbox, overtaken>>

\* recvmsg fills the buffer, with the first datagram there is by now; the Event
\* is made from the bytes that were read.
ReadEvent(t) ==
  /\ peeked[t] > 0
  /\ inbox /= <<>>
  /\ LET first == Head(inbox)
         bytes_read == IF Len(first.bytes) < peeked[t] THEN Len(first.bytes) ELSE peeked[t]
     IN event' = Exchange(DecodeEvent(SubSeq(first.bytes, 1, bytes_read)), first.meant, t \in overtaken)
  /\ inbox' = Tail(inbox)
  /\ peeked' = [peeked EXCEPT ![t] = 0]
  /\ overtaken' = {u \in Readers \ {t} : peeked[u] > 0}
  /\ Forget

\* recvmsg fails: getEvent frees the buffer and returns an Event of no type.
ReadFails(t) ==
  /\ peeked[t] > 0
  /\ peeked' = [peeked EXCEPT ![t] = 0]
  /\ overtaken' = overtaken \ {t}
  /\ event' = Nothing
  /\ Forget
  /\ UNCHANGED inbox

\* Identifiers in events consist of whole fragments.
EventIds == {Bytes("id", n * IdLen) : n \in 1..(MaxLen \div IdLen)}

Next ==
  \/ \E c \in ServiceCalls \union DataCalls, heap, nbHeap \in Heap : Issue(c, heap, nbHeap)
  \/ \E id \in EventIds, n \in {0, 3} : NodeSends("PUBLISHED_DATA", id, Bytes("data", n))
  \/ \E id \in EventIds : NodeSends("SCOPE_PUBLISHED", id, <<>>)
  \/ \E t \in Readers : Peek(t) \/ ReadEvent(t) \/ ReadFails(t)

Spec == Init /\ [][Next]_vars

(***************************************************************************)
(* Properties                                                              *)
(***************************************************************************)

\* The length bytes can count the fragments of the identifiers of c.
Countable(c) == Fragments(c.id) < ByteRange /\ Fragments(c.prefix_id) < ByteRange

\* What a Java caller asks of either wrapper is what the node reads, header
\* included, for every operation, in whatever lengths identifiers, options and
\* data come and whatever malloc leaves in nlmsg_seq, or nothing is sent -- given
\* that an unsigned char can count the fragments.  The tests of the libraries
\* have to see to whole fragments; only for publishData of BAWrapperNB, which
\* tests nothing, the application has to.
RequestsAreUnderstood ==
  Countable(call) =>
    /\ nonblocking /= NotSent /\ (call.op = "publishData" => WholeFragments(call.id))
         => Parse(nonblocking) = Meaning(call, call.length)
    /\ blocking /= NotSent => Parse(blocking) = Meaning(call, Len(call.data))

\* The assignments and copies of push and publish_data write every byte of the
\* malloc'ed buffer but those of nlmsg_seq, none of them twice and none outside
\* of the buffer, so that nlmsg_seq is all that is sent as malloc found it.
CopiesFillTheBuffer ==
  nonblocking /= NotSent =>
    LET r == Request(call)
    IN \A offset \in 0..(NBLength(r) + MaxLen) :
         Cardinality(Writers(NBParts(r), offset)) =
           IF offset < NBLength(r) /\ offset + 1 \notin SeqBytes THEN 1 ELSE 0

\* The iovec of the blocking library and the buffer of the non-blocking one come
\* to the same bytes, whenever both wrappers send the same request: as many, and
\* equal in all but nlmsg_seq, which is whatever malloc left in either.
LibrariesSendTheSame ==
  blocking /= NotSent /\ nonblocking /= NotSent /\ call.length = Len(call.data) =>
    /\ Len(blocking) = Len(nonblocking)
    /\ \A i \in DOMAIN blocking \ SeqBytes : blocking[i] = nonblocking[i]

\* The Event the selector and getEvent build has the type, the identifier and
\* the data the node sent, of every length, none included, as long as no other
\* thread has read an event between their look at the size and their read.  The
\* selector is the only reader of its library; getNextEventDirect takes no lock.
EventsAreReadBack ==
  Fragments(event.meant.id) < ByteRange /\ ~event.late => event.read = event.meant
=============================================================================
