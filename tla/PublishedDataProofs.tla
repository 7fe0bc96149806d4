------------------------ MODULE PublishedDataProofs ------------------------
(***************************************************************************)
(* Proofs about PublishedData, for any number of buffers, requests and     *)
(* writes.  Every block malloc'ed for a request carries its number; the    *)
(* messages that are queued or being freed (Active) have numbers of their  *)
(* own, so that no two of them share such a block.  QueueInv says this;    *)
(* MemoryInv follows what is allocated and freed, DirectInv the direct     *)
(* buffers, and ContentInv what is in the memory of a queued request.      *)
(***************************************************************************)
EXTENDS PublishedData, TLAPS

PartsFor(r) ==
  {<<Header(r)>>, <<Header(r), Copy(r)>>, <<Header(r), Null>>}
    \union {<<Header(r), Direct(b)>> : b \in Buffers}

Messages == {m \in {Message(r, parts) : r \in Requests, parts \in UNION {PartsFor(q) : q \in Requests}} :
              m.parts \in PartsFor(m.request)}

Active == Queued \union ({freeing} \ {NoMessage})

(***************************************************************************)
(* The blocks of a message                                                 *)
(***************************************************************************)

\* What a message looks like.
LEMMA MessageShape ==
  ASSUME NEW m \in Messages
  PROVE  /\ m.request \in Requests
         /\ m = Message(m.request, m.parts)
         /\ m.parts \in PartsFor(m.request)
BY DEF Messages, Message

LEMMA MakesMessage ==
  ASSUME NEW r \in Requests, NEW parts \in PartsFor(r)
  PROVE  Message(r, parts) \in Messages
<1>1. parts \in UNION {PartsFor(q) : q \in Requests}
  OBVIOUS
<1>2. Message(r, parts).request = r /\ Message(r, parts).parts = parts
  BY DEF Message
<1> QED
  BY <1>1, <1>2 DEF Messages

\* The parts of a message, and its blocks.
LEMMA MessageParts ==
  ASSUME NEW m \in Messages
  PROVE  \/ Parts(m) = {Header(m.request)}
         \/ Parts(m) = {Header(m.request), Copy(m.request)}
         \/ Parts(m) = {Header(m.request), Null}
         \/ \E b \in Buffers : Parts(m) = {Header(m.request), Direct(b)}
<1>1. m.parts \in PartsFor(m.request)
  BY MessageShape
<1>2. ASSUME NEW x PROVE m.parts = <<x>> => Parts(m) = {x}
  BY DEF Parts
<1>3. ASSUME NEW x, NEW y, m.parts = <<x, y>> PROVE Parts(m) = {x, y}
  <2>1. DOMAIN m.parts = {1, 2} /\ m.parts[1] = x /\ m.parts[2] = y
    BY <1>3
  <2> QED
    BY <2>1 DEF Parts
<1> QED
  BY <1>1, <1>2, <1>3 DEF PartsFor

LEMMA MessageBlocks ==
  ASSUME NEW m \in Messages
  PROVE  /\ BlocksOf(m) \subseteq Blocks
         /\ Array \notin BlocksOf(m)
         /\ \A k \in BlocksOf(m) \intersect Malloced : k[2] = m.request
         /\ Iov(m.request) \in Malloced /\ Header(m.request) \in Malloced
         /\ \A b \in Buffers : Direct(b) \in BlocksOf(m) <=> Direct(b) \in Parts(m)
<1>1. m.request \in Requests
  BY MessageShape
<1>2. /\ Iov(m.request) \in Malloced /\ Header(m.request) \in Malloced /\ Copy(m.request) \in Malloced
      /\ Iov(m.request)[2] = m.request /\ Header(m.request)[2] = m.request /\ Copy(m.request)[2] = m.request
  BY <1>1 DEF Malloced, Iov, Header, Copy
<1>3. Null \in Blocks \ Malloced /\ Array \notin Malloced /\ Null /= Array /\ Malloced \subseteq Blocks
  BY DEF Blocks, Malloced, Null, Array
<1>4. \A b \in Buffers : Direct(b) \in Blocks \ Malloced /\ Direct(b) /= Array
  BY DEF Blocks, DirectBlocks, Malloced, Direct, Array
<1> QED
  BY <1>2, <1>3, <1>4, MessageParts DEF BlocksOf

(***************************************************************************)
(* Which messages are active                                               *)
(***************************************************************************)

QueueInv ==
  /\ output_queue \in Seq(Messages)
  /\ freeing \in Messages \union {NoMessage}
  /\ issued \in 0..MaxRequests
  /\ \A m \in Active : m.request <= issued
  /\ \A i, j \in DOMAIN output_queue : output_queue[i].request = output_queue[j].request => i = j
  /\ freeing /= NoMessage => \A m \in Queued : m.request /= freeing.request

LEMMA NoMessageIsNone == NoMessage \notin Messages
<1>1. NoMessage.request \notin Requests
  BY BoundsAssumption DEF NoMessage, Requests
<1> QED
  BY <1>1, MessageShape

\* Active messages are messages, and a request has one at most.
LEMMA ActiveMessages ==
  ASSUME QueueInv
  PROVE  /\ Active \subseteq Messages
         /\ \A m, n \in Active : m.request = n.request => m = n
<1>1. \A i \in DOMAIN output_queue : output_queue[i] \in Messages
  BY DEF QueueInv
<1> QED
  BY <1>1 DEF QueueInv, Active, Queued

LEMMA InUseActive ==
  ASSUME NEW k
  PROVE  k \in InUse <=> \E m \in Active : k \in BlocksOf(m)
BY DEF InUse, Active

LEMMA QueueInvInit == Init => QueueInv
BY BoundsAssumption DEF Init, QueueInv, Active, Queued

\* A call adds one message.
LEMMA EnqueueActive ==
  ASSUME QueueInv, NEW r \in Requests, NEW parts \in PartsFor(r), NEW given,
         Enqueue(r, parts, given), UNCHANGED freeing
  PROVE  /\ QueueInv'
         /\ Active' = Active \union {Message(r, parts)}
         /\ r = issued + 1 /\ issued' = r
         /\ \A m \in Active : m.request < r
<1> DEFINE new == Message(r, parts)
<1>1. new \in Messages /\ new.request = r
  BY MakesMessage DEF Message
<1>2. /\ output_queue \in Seq(Messages) /\ output_queue' = Append(output_queue, new)
      /\ freeing = NoMessage /\ freeing' = NoMessage
      /\ issued \in 0..MaxRequests /\ r = issued + 1 /\ issued' = r
  BY DEF QueueInv, Enqueue
<1>3. /\ output_queue' \in Seq(Messages)
      /\ DOMAIN output_queue = 1..Len(output_queue)
      /\ DOMAIN output_queue' = 1..(Len(output_queue) + 1)
      /\ \A i \in DOMAIN output_queue : output_queue'[i] = output_queue[i]
      /\ output_queue'[Len(output_queue) + 1] = new
      /\ Len(output_queue) \in Nat
  BY <1>1, <1>2
<1>4. Queued' = Queued \union {new} /\ Active = Queued /\ Active' = Queued'
  BY <1>2, <1>3 DEF Queued, Active
<1>5. \A m \in Active : m.request \in Requests /\ m.request <= issued
  BY ActiveMessages, MessageShape DEF QueueInv
<1>6. \A m \in Active : m.request < r
  BY <1>2, <1>5 DEF Requests
<1>7. r \in 0..MaxRequests
  BY BoundsAssumption DEF Requests
<1>8. \A i, j \in DOMAIN output_queue' :
        output_queue'[i].request = output_queue'[j].request => i = j
  <2>1. \A i \in DOMAIN output_queue : output_queue[i].request < r /\ output_queue[i].request \in Requests
    BY <1>4, <1>5, <1>6 DEF Queued
  <2> QED
    BY <1>1, <1>3, <2>1 DEF QueueInv, Requests
<1>9. \A m \in Active' : m.request <= issued'
  BY <1>1, <1>2, <1>4, <1>5, <1>6, <1>7 DEF Requests
<1>10. QueueInv'
  BY <1>2, <1>3, <1>7, <1>8, <1>9 DEF QueueInv
<1> QED
  BY <1>2, <1>4, <1>6, <1>10

\* Sending moves a message from the queue into the selector's hands, or nothing.
LEMMA SendActive ==
  ASSUME QueueInv, NEW ret \in {0, 1}, Send(ret)
  PROVE  /\ QueueInv'
         /\ Active' = Active
         /\ Head(output_queue) \in Active
<1> DEFINE m == Head(output_queue)
<1>1. /\ output_queue \in Seq(Messages) /\ output_queue /= <<>>
      /\ freeing = NoMessage /\ issued' = issued /\ issued \in 0..MaxRequests
  BY DEF QueueInv, Send
<1>2. /\ Len(output_queue) \in Nat \ {0}
      /\ DOMAIN output_queue = 1..Len(output_queue)
      /\ m = output_queue[1] /\ m \in Messages
  BY <1>1
<1>3. Active = Queued /\ m \in Queued
  BY <1>1, <1>2 DEF Active, Queued
<1>4. CASE ret = 0
  <2>1. output_queue' = output_queue /\ freeing' = freeing
    BY <1>1, <1>4 DEF Send
  <2> QED
    BY <1>1, <1>3, <2>1 DEF QueueInv, Active, Queued
<1>5. CASE ret = 1
  <2>1. output_queue' = Tail(output_queue) /\ freeing' = m
    BY <1>5 DEF Send
  <2>2. /\ output_queue' \in Seq(Messages)
        /\ DOMAIN output_queue' = 1..(Len(output_queue) - 1)
        /\ \A i \in DOMAIN output_queue' : output_queue'[i] = output_queue[i + 1]
    BY <1>1, <1>2, <2>1
  <2>3. Queued = Queued' \union {m}
    <3>1. ASSUME NEW i \in DOMAIN output_queue PROVE output_queue[i] \in Queued' \union {m}
      <4>1. CASE i = 1
        BY <1>2, <4>1
      <4>2. CASE i /= 1
        <5>1. i - 1 \in DOMAIN output_queue' /\ output_queue'[i - 1] = output_queue[i]
          BY <1>2, <2>2, <4>2
        <5> QED
          BY <5>1 DEF Queued
      <4> QED
        BY <4>1, <4>2
    <3>2. ASSUME NEW i \in DOMAIN output_queue' PROVE output_queue'[i] \in Queued
      <4>1. i + 1 \in DOMAIN output_queue /\ output_queue'[i] = output_queue[i + 1]
        BY <1>2, <2>2
      <4> QED
        BY <4>1 DEF Queued
    <3> QED
      BY <1>3, <3>1, <3>2 DEF Queued
  <2>4. \A n \in Queued' : n.request /= m.request
    <3>1. ASSUME NEW i \in DOMAIN output_queue' PROVE output_queue'[i].request /= m.request
      <4>1. i + 1 \in DOMAIN output_queue /\ i + 1 /= 1 /\ 1 \in DOMAIN output_queue
        BY <1>2, <2>2
      <4> QED
        BY <1>2, <2>2, <4>1 DEF QueueInv
    <3> QED
      BY <3>1 DEF Queued
  <2>5. m /= NoMessage
    BY <1>2, NoMessageIsNone
  <2>6. Active' = Active
    BY <1>3, <2>1, <2>3, <2>5 DEF Active
  <2>7. \A i, j \in DOMAIN output_queue' :
          output_queue'[i].request = output_queue'[j].request => i = j
    <3>1. ASSUME NEW i \in DOMAIN output_queue', NEW j \in DOMAIN output_queue',
                 output_queue'[i].request = output_queue'[j].request
          PROVE  i = j
      <4>1. i + 1 \in DOMAIN output_queue /\ j + 1 \in DOMAIN output_queue /\ i \in Nat /\ j \in Nat
        BY <1>2, <2>2
      <4>2. i + 1 = j + 1
        BY <2>2, <3>1, <4>1 DEF QueueInv
      <4> QED
        BY <4>1, <4>2
    <3> QED
      BY <3>1
  <2>8. QueueInv'
    BY <1>1, <1>2, <2>1, <2>2, <2>4, <2>6, <2>7 DEF QueueInv
  <2> QED
    BY <1>3, <2>6, <2>8
<1> QED
  BY <1>4, <1>5

\* Freeing ends the life of the message in the selector's hands.
LEMMA FreeActive ==
  ASSUME QueueInv, FreeParts
  PROVE  /\ QueueInv'
         /\ freeing \in Active /\ Active' = Active \ {freeing}
         /\ \A m \in Active' : m.request /= freeing.request
<1>1. /\ freeing /= NoMessage /\ freeing' = NoMessage
      /\ output_queue' = output_queue /\ issued' = issued
  BY DEF FreeParts
<1>2. freeing \in Active /\ freeing \notin Queued /\ Queued' = Queued
  BY <1>1 DEF QueueInv, Active, Queued
<1>3. Active' = Queued /\ Active' = Active \ {freeing}
  BY <1>1, <1>2 DEF Active
<1>4. QueueInv'
  BY <1>1, <1>3 DEF QueueInv
<1> QED
  BY <1>1, <1>2, <1>3, <1>4 DEF QueueInv

\* Nothing else touches the messages.
LEMMA QuietActive ==
  ASSUME QueueInv, UNCHANGED <<output_queue, freeing>>, issued' \in 0..MaxRequests, issued' >= issued
  PROVE  QueueInv' /\ Active' = Active
<1>1. Active' = Active /\ Queued' = Queued
  BY DEF Active, Queued
<1>2. \A m \in Active : m.request \in Requests /\ m.request <= issued
  BY ActiveMessages, MessageShape DEF QueueInv
<1>3. \A m \in Active : m.request <= issued'
  BY <1>2, BoundsAssumption DEF QueueInv, Requests
<1> QED
  BY <1>1, <1>3 DEF QueueInv

(***************************************************************************)
(* Memory malloc'ed for requests                                           *)
(***************************************************************************)

MemoryType ==
  /\ heap \in [Blocks -> {"unused", "live", "freed"}]
  /\ content \in [Blocks -> Nat]
  /\ frees \in [Blocks -> Nat]
  /\ writes \in Nat

MemoryInv ==
  /\ MemoryType
  /\ \A k \in Malloced :
       /\ k[2] > issued => heap[k] = "unused"
       /\ frees[k] = IF heap[k] = "freed" THEN 1 ELSE 0
       /\ heap[k] = "live" <=> k \in InUse \union lost
  /\ \A k \in lost \intersect Malloced :
       k[2] <= issued /\ \A m \in Active : m.request /= k[2]

LEMMA BlockFacts ==
  /\ Malloced \subseteq Blocks /\ DirectBlocks \subseteq Blocks
  /\ Array \in Blocks /\ Null \in Blocks
  /\ Array \notin Malloced \union DirectBlocks
  /\ Null \notin Malloced \union DirectBlocks
  /\ Malloced \intersect DirectBlocks = {}
  /\ \A k \in Malloced : k[2] \in Requests
BY DEF Blocks, DirectBlocks, Malloced, Direct, Array, Null

LEMMA RequestBlocks ==
  ASSUME NEW r \in Requests
  PROVE  /\ {Iov(r), Header(r), Copy(r)} \subseteq Malloced
         /\ Iov(r)[2] = r /\ Header(r)[2] = r /\ Copy(r)[2] = r
         /\ Iov(r) /= Header(r) /\ Iov(r) /= Copy(r) /\ Header(r) /= Copy(r)
BY DEF Malloced, Iov, Header, Copy

LEMMA MemoryInvInit == Init => MemoryInv
<1> SUFFICES ASSUME Init PROVE MemoryInv
  OBVIOUS
<1>1. MemoryType
  BY DEF Init, MemoryType, Garbage
<1>2. Active = {} /\ InUse = {} /\ lost = {}
  BY DEF Init, Active, InUse, Queued
<1>3. \A k \in Malloced : heap[k] = "unused" /\ frees[k] = 0
  BY BlockFacts DEF Init
<1> QED
  BY <1>1, <1>2, <1>3 DEF MemoryInv

\* A call that queues a message allocates its blocks and no other.
LEMMA MemoryInvEnqueue ==
  ASSUME QueueInv, MemoryInv, NEW r \in Requests, NEW parts \in PartsFor(r), NEW given,
         Enqueue(r, parts, given), NEW ks, Allocate(ks), UNCHANGED <<freeing, writes, lost>>,
         ks = BlocksOf(Message(r, parts)) \intersect Malloced
  PROVE  MemoryInv'
<1> DEFINE new == Message(r, parts)
<1>1. /\ Active' = Active \union {new} /\ r = issued + 1 /\ issued' = r /\ issued \in Nat
      /\ \A m \in Active : m.request < r
  BY EnqueueActive DEF QueueInv
<1>2. new \in Messages /\ new.request = r
  BY MakesMessage DEF Message
<1>3. ks \subseteq Malloced /\ \A k \in ks : k[2] = r
  BY <1>2, MessageBlocks
<1>4. MemoryType'
  BY BlockFacts DEF MemoryInv, MemoryType, Allocate
<1>5. \A k \in Malloced : k \in InUse' <=> k \in InUse \union ks
  BY <1>1, InUseActive DEF InUse, Active
<1>6. ASSUME NEW k \in Malloced
      PROVE  /\ k[2] > issued' => heap'[k] = "unused"
             /\ frees'[k] = IF heap'[k] = "freed" THEN 1 ELSE 0
             /\ heap'[k] = "live" <=> k \in InUse' \union lost'
  <2>1. k \in Blocks /\ k[2] \in Nat
    BY BlockFacts DEF Requests
  <2>2. CASE k \in ks
    <3>1. heap[k] = "unused" /\ heap'[k] = "live" /\ frees'[k] = frees[k]
      BY <1>1, <1>3, <2>1, <2>2 DEF MemoryInv, Allocate
    <3> QED
      BY <1>1, <1>3, <1>5, <2>2, <3>1 DEF MemoryInv
  <2>3. CASE k \notin ks
    <3>1. heap'[k] = heap[k] /\ frees'[k] = frees[k]
      BY <2>1, <2>3 DEF Allocate
    <3> QED
      BY <1>1, <1>5, <2>1, <2>3, <3>1 DEF MemoryInv
  <2> QED
    BY <2>2, <2>3
<1>7. ASSUME NEW k \in lost' \intersect Malloced
      PROVE  k[2] <= issued' /\ \A m \in Active' : m.request /= k[2]
  <2>1. k[2] <= issued /\ k[2] \in Nat /\ \A m \in Active : m.request /= k[2]
    BY BlockFacts DEF MemoryInv, Requests
  <2> QED
    BY <1>1, <1>2, <2>1
<1> QED
  BY <1>4, <1>6, <1>7 DEF MemoryInv

\* A call that runs out of memory leaves the copy behind, for good.
LEMMA MemoryInvFails ==
  ASSUME QueueInv, MemoryInv, NEW r \in Requests, PublishArrayFails(r)
  PROVE  QueueInv' /\ MemoryInv' /\ Active' = Active
<1>1. /\ r = issued + 1 /\ issued' = r /\ lost' = lost \union {Copy(r)} /\ issued \in 0..MaxRequests
      /\ UNCHANGED <<output_queue, freeing, writes>> /\ Allocate({Copy(r)})
  BY DEF PublishArrayFails, QueueInv
<1>2. r \in 0..MaxRequests /\ issued <= r
  BY <1>1, BoundsAssumption DEF Requests
<1>3. QueueInv' /\ Active' = Active
  BY <1>1, <1>2, QuietActive
<1>4. Copy(r) \in Malloced /\ Copy(r)[2] = r
  BY RequestBlocks
<1>5. MemoryType'
  BY <1>1, BlockFacts DEF MemoryInv, MemoryType, Allocate
<1>6. InUse' = InUse
  BY <1>1 DEF InUse, Queued
<1>7. ASSUME NEW k \in Malloced
      PROVE  /\ k[2] > issued' => heap'[k] = "unused"
             /\ frees'[k] = IF heap'[k] = "freed" THEN 1 ELSE 0
             /\ heap'[k] = "live" <=> k \in InUse' \union lost'
  <2>1. k \in Blocks /\ k[2] \in Nat
    BY BlockFacts DEF Requests
  <2>2. CASE k = Copy(r)
    <3>1. heap[k] = "unused" /\ heap'[k] = "live" /\ frees'[k] = frees[k]
      BY <1>1, <1>4, <2>1, <2>2 DEF MemoryInv, Allocate
    <3> QED
      BY <1>1, <1>4, <2>2, <3>1 DEF MemoryInv
  <2>3. CASE k /= Copy(r)
    <3>1. heap'[k] = heap[k] /\ frees'[k] = frees[k]
      BY <1>1, <2>1, <2>3 DEF Allocate
    <3> QED
      BY <1>1, <1>6, <2>1, <2>3, <3>1 DEF MemoryInv
  <2> QED
    BY <2>2, <2>3
<1>8. \A m \in Active : m.request <= issued /\ m.request \in Nat
  BY ActiveMessages, MessageShape DEF QueueInv, Requests
<1>9. ASSUME NEW k \in lost' \intersect Malloced
      PROVE  k[2] <= issued' /\ \A m \in Active' : m.request /= k[2]
  <2>1. k[2] \in Nat
    BY BlockFacts DEF Requests
  <2> QED
    BY <1>1, <1>3, <1>4, <1>8, <2>1 DEF MemoryInv
<1> QED
  BY <1>3, <1>5, <1>7, <1>9 DEF MemoryInv

\* FreeParts frees the blocks of one message and of no other.
LEMMA MemoryInvFree ==
  ASSUME QueueInv, MemoryInv, FreeParts
  PROVE  MemoryInv'
<1> DEFINE ks == BlocksOf(freeing)
<1>1. /\ freeing \in Active /\ Active' = Active \ {freeing} /\ freeing \in Messages
      /\ \A m \in Active' : m.request /= freeing.request
  BY FreeActive, ActiveMessages
<1>2. Freed(ks) /\ UNCHANGED <<issued, writes, lost>>
  BY DEF FreeParts, BlocksOf, history
<1>3. MemoryType'
  BY <1>2 DEF MemoryInv, MemoryType, Freed, Garbage
<1>4. \A m \in Active : m \in Messages
  BY ActiveMessages
<1>5. ASSUME NEW k \in Malloced
      PROVE  k \in InUse' <=> k \in InUse /\ k \notin ks
  <2>1. \A m \in Active : k \in BlocksOf(m) => k[2] = m.request
    BY <1>4, MessageBlocks
  <2>2. k \in InUse' <=> \E m \in Active' : k \in BlocksOf(m)
    BY DEF InUse, Active
  <2> QED
    BY <1>1, <2>1, <2>2, InUseActive
<1>6. ASSUME NEW k \in Malloced
      PROVE  /\ k[2] > issued' => heap'[k] = "unused"
             /\ frees'[k] = IF heap'[k] = "freed" THEN 1 ELSE 0
             /\ heap'[k] = "live" <=> k \in InUse' \union lost'
  <2>1. k \in Blocks
    BY BlockFacts
  <2>2. CASE k \in ks
    <3>1. k \in InUse /\ k[2] = freeing.request
      BY <1>1, <2>2, InUseActive, MessageBlocks
    <3>2. heap[k] = "live" /\ heap'[k] = "freed" /\ frees'[k] = frees[k] + 1
      BY <1>2, <2>1, <2>2, <3>1 DEF MemoryInv, Freed
    <3>3. k \notin lost
      BY <1>1, <3>1 DEF MemoryInv
    <3> QED
      BY <1>2, <1>5, <2>2, <3>2, <3>3 DEF MemoryInv
  <2>3. CASE k \notin ks
    <3>1. heap'[k] = heap[k] /\ frees'[k] = frees[k]
      BY <1>2, <2>1, <2>3 DEF Freed
    <3> QED
      BY <1>2, <1>5, <2>3, <3>1 DEF MemoryInv
  <2> QED
    BY <2>2, <2>3
<1> QED
  BY <1>1, <1>2, <1>3, <1>6 DEF MemoryInv

\* What does not touch malloc'ed blocks or messages.
LEMMA MemoryInvQuiet ==
  ASSUME MemoryInv, MemoryType', Active' = Active, UNCHANGED <<issued, lost>>,
         \A k \in Malloced : heap'[k] = heap[k] /\ frees'[k] = frees[k]
  PROVE  MemoryInv'
<1>1. InUse' = InUse
  BY DEF InUse, Active
<1> QED
  BY <1>1 DEF MemoryInv

(***************************************************************************)
(* Memory the library does not own                                         *)
(***************************************************************************)

DirectInv ==
  /\ lent \in [Buffers -> Nat]
  /\ frees[Array] = 0
  /\ \A b \in Buffers :
       /\ heap[Direct(b)] /= "unused"
       /\ heap[Direct(b)] = "live" => frees[Direct(b)] = 0
       /\ heap[Direct(b)] = "freed" => lent[b] > 0 \/ b \notin held
       /\ Direct(b) \in InUse => lent[b] > 0
       /\ LentOnce(b) =>
            /\ frees[Direct(b)] <= 1
            /\ Direct(b) \in InUse => heap[Direct(b)] = "live"
            /\ \A m, n \in Active : Direct(b) \in Parts(m) \intersect Parts(n) => m = n

LEMMA DirectFacts ==
  ASSUME NEW b \in Buffers
  PROVE  /\ Direct(b) \in Blocks \ Malloced
         /\ Direct(b) /= Array /\ Direct(b) /= Null
         /\ \A c \in Buffers : Direct(b) = Direct(c) => b = c
BY DEF Blocks, DirectBlocks, Malloced, Direct, Array, Null

LEMMA DirectInvInit == Init => DirectInv
<1> SUFFICES ASSUME Init PROVE DirectInv
  OBVIOUS
<1>1. Active = {} /\ InUse = {}
  BY DEF Init, Active, InUse, Queued
<1>2. frees[Array] = 0 /\ lent \in [Buffers -> Nat]
  BY BlockFacts DEF Init
<1>3. ASSUME NEW b \in Buffers PROVE heap[Direct(b)] = "live" /\ frees[Direct(b)] = 0
  BY DirectFacts DEF Init
<1> QED
  BY <1>1, <1>2, <1>3 DEF DirectInv

\* A call that publishes no direct buffer.
LEMMA DirectInvEnqueue ==
  ASSUME QueueInv, MemoryInv, DirectInv, NEW r \in Requests,
         NEW parts \in PartsFor(r), NEW given, Enqueue(r, parts, given),
         NEW ks \in SUBSET Malloced, Allocate(ks), UNCHANGED <<freeing, held, lent>>,
         \A b \in Buffers : Direct(b) \notin Parts(Message(r, parts))
  PROVE  DirectInv'
<1> DEFINE new == Message(r, parts)
<1>1. new \in Messages /\ Active' = Active \union {new}
  BY MakesMessage, EnqueueActive
<1>2. \A b \in Buffers : heap'[Direct(b)] = heap[Direct(b)] /\ frees'[Direct(b)] = frees[Direct(b)]
  BY DirectFacts DEF Allocate
<1>3. \A b \in Buffers : Direct(b) \in InUse' <=> Direct(b) \in InUse
  <2>1. \A b \in Buffers : Direct(b) \notin BlocksOf(new)
    BY <1>1, MessageBlocks
  <2> QED
    BY <1>1, <2>1 DEF InUse, Active
<1>4. frees'[Array] = 0
  BY DEF DirectInv, Allocate
<1> QED
  BY <1>1, <1>2, <1>3, <1>4 DEF DirectInv, LentOnce

LEMMA DirectInvPublish ==
  ASSUME QueueInv, MemoryInv, DirectInv, NEW r \in Requests, NEW c \in Buffers, PublishDirect(r, c)
  PROVE  DirectInv'
<1> DEFINE new == Message(r, <<Header(r), Direct(c)>>)
<1>1. <<Header(r), Direct(c)>> \in PartsFor(r)
  BY DEF PartsFor
<1>2. new \in Messages /\ Active' = Active \union {new}
  BY <1>1, MakesMessage, EnqueueActive DEF PublishDirect
<1>3. \A b \in Buffers : Direct(b) \in Parts(new) <=> b = c
  <2>1. DOMAIN <<Header(r), Direct(c)>> = {1, 2}
    OBVIOUS
  <2>2. Parts(new) = {Header(r), Direct(c)}
    BY <2>1 DEF Parts, Message
  <2> QED
    BY <2>2, DirectFacts, RequestBlocks
<1>4. \A b \in Buffers : Direct(b) \in InUse' <=> Direct(b) \in InUse \/ b = c
  <2>1. \A b \in Buffers : Direct(b) \in BlocksOf(new) <=> b = c
    BY <1>2, <1>3, MessageBlocks
  <2> QED
    BY <1>2, <2>1 DEF InUse, Active
<1>5. /\ Allocate({Iov(r), Header(r)}) /\ held' = held /\ c \in held
      /\ lent' = [lent EXCEPT ![c] = @ + 1]
  BY DEF PublishDirect
<1>6. \A b \in Buffers : heap'[Direct(b)] = heap[Direct(b)] /\ frees'[Direct(b)] = frees[Direct(b)]
  BY <1>5, DirectFacts, RequestBlocks DEF Allocate
<1>7. frees'[Array] = 0 /\ lent' \in [Buffers -> Nat]
  BY <1>5 DEF DirectInv, Allocate
<1>8. \A b \in Buffers : heap[Direct(b)] \in {"live", "freed"}
  BY DirectFacts DEF DirectInv, MemoryInv, MemoryType
<1>9. ASSUME NEW b \in Buffers
      PROVE  /\ heap'[Direct(b)] /= "unused"
             /\ heap'[Direct(b)] = "live" => frees'[Direct(b)] = 0
             /\ heap'[Direct(b)] = "freed" => lent'[b] > 0 \/ b \notin held'
             /\ Direct(b) \in InUse' => lent'[b] > 0
             /\ LentOnce(b)' =>
                  /\ frees'[Direct(b)] <= 1
                  /\ Direct(b) \in InUse' => heap'[Direct(b)] = "live"
                  /\ \A m, n \in Active' : Direct(b) \in Parts(m) \intersect Parts(n) => m = n
  <2>1. CASE b = c
    <3>1. lent'[b] = lent[b] + 1 /\ lent[b] \in Nat
      BY <1>5, <2>1 DEF DirectInv
    <3>2. ASSUME LentOnce(b)'
          PROVE  /\ Direct(b) \notin InUse
                 /\ heap[Direct(b)] = "live" /\ frees[Direct(b)] = 0
      BY <1>5, <1>8, <2>1, <3>1, <3>2 DEF DirectInv, LentOnce
    <3>3. Direct(b) \notin InUse => \A m \in Active : Direct(b) \notin Parts(m)
      BY DEF InUse, Active, BlocksOf
    <3> QED
      BY <1>2, <1>6, <1>8, <3>1, <3>2, <3>3 DEF DirectInv
  <2>2. CASE b /= c
    <3>1. lent'[b] = lent[b]
      BY <1>5, <2>2 DEF DirectInv
    <3> QED
      BY <1>2, <1>3, <1>4, <1>5, <1>6, <2>2, <3>1 DEF DirectInv, LentOnce
  <2> QED
    BY <2>1, <2>2
<1> QED
  BY <1>7, <1>9 DEF DirectInv

LEMMA DirectInvFree ==
  ASSUME QueueInv, MemoryInv, DirectInv, FreeParts
  PROVE  DirectInv'
<1> DEFINE ks == BlocksOf(freeing)
<1>1. /\ freeing \in Active /\ freeing \in Messages /\ Active' = Active \ {freeing}
  BY FreeActive, ActiveMessages
<1>2. Freed(ks) /\ UNCHANGED <<held, lent>>
  BY DEF FreeParts, BlocksOf, history
<1>3. frees'[Array] = 0
  BY <1>1, <1>2, MessageBlocks, BlockFacts DEF DirectInv, Freed
<1>4. ASSUME NEW b \in Buffers
      PROVE  /\ heap'[Direct(b)] /= "unused"
             /\ heap'[Direct(b)] = "live" => frees'[Direct(b)] = 0
             /\ heap'[Direct(b)] = "freed" => lent'[b] > 0 \/ b \notin held'
             /\ Direct(b) \in InUse' => lent'[b] > 0
             /\ LentOnce(b)' =>
                  /\ frees'[Direct(b)] <= 1
                  /\ Direct(b) \in InUse' => heap'[Direct(b)] = "live"
                  /\ \A m, n \in Active' : Direct(b) \in Parts(m) \intersect Parts(n) => m = n
  <2>1. Direct(b) \in Blocks /\ lent'[b] = lent[b] /\ LentOnce(b)' = LentOnce(b)
    BY <1>2, DirectFacts DEF LentOnce
  <2>2. Direct(b) \in InUse' => Direct(b) \in InUse
    BY <1>1 DEF InUse, Active
  <2>3. Direct(b) \in ks <=> Direct(b) \in Parts(freeing)
    BY <1>1, MessageBlocks
  <2>4. CASE Direct(b) \in ks
    <3>1. Direct(b) \in InUse
      BY <1>1, <2>4, InUseActive
    <3>2. heap'[Direct(b)] = "freed" /\ frees'[Direct(b)] = frees[Direct(b)] + 1
      BY <1>2, <2>1, <2>4 DEF Freed
    <3>3. LentOnce(b) => Direct(b) \notin InUse'
      <4> SUFFICES ASSUME LentOnce(b), NEW m \in Active', Direct(b) \in BlocksOf(m)
                   PROVE  FALSE
        BY DEF InUse, Active
      <4>1. m \in Active /\ m /= freeing /\ Direct(b) \in Parts(m)
        BY <1>1, ActiveMessages, MessageBlocks
      <4> QED
        BY <1>1, <2>3, <2>4, <4>1 DEF DirectInv
    <3> QED
      BY <1>1, <2>1, <2>2, <3>1, <3>2, <3>3 DEF DirectInv
  <2>5. CASE Direct(b) \notin ks
    <3>1. heap'[Direct(b)] = heap[Direct(b)] /\ frees'[Direct(b)] = frees[Direct(b)]
      BY <1>2, <2>1, <2>5 DEF Freed
    <3> QED
      BY <1>1, <1>2, <2>1, <2>2, <3>1 DEF DirectInv
  <2> QED
    BY <2>4, <2>5
<1> QED
  BY <1>2, <1>3, <1>4 DEF DirectInv

\* The Java machine takes a buffer nobody in Java refers to any more.
LEMMA DirectInvCollect ==
  ASSUME QueueInv, MemoryInv, DirectInv, NEW c \in Buffers, Collect(c)
  PROVE  DirectInv'
<1>1. /\ held' = held \ {c} /\ lent' = lent /\ Active' = Active /\ InUse' = InUse
      /\ Freed({Direct(c)})
  BY DEF Collect, Active, InUse, Queued
<1>2. frees'[Array] = 0
  BY <1>1, BlockFacts, DirectFacts DEF DirectInv, Freed
<1>3. ASSUME NEW b \in Buffers, b /= c
      PROVE  /\ heap'[Direct(b)] = heap[Direct(b)] /\ frees'[Direct(b)] = frees[Direct(b)]
             /\ LentOnce(b)' = LentOnce(b) /\ (b \in held' <=> b \in held)
  BY <1>1, <1>3, DirectFacts DEF Freed, LentOnce
<1>4. heap'[Direct(c)] = "freed" /\ c \notin held' /\ ~LentOnce(c)'
  BY <1>1, DirectFacts DEF Freed, LentOnce
<1> QED
  BY <1>1, <1>2, <1>3, <1>4 DEF DirectInv

\* What does not touch the direct buffers or messages.
LEMMA DirectInvQuiet ==
  ASSUME DirectInv, Active' = Active, UNCHANGED <<lent, held>>, frees'[Array] = frees[Array],
         \A b \in Buffers : heap'[Direct(b)] = heap[Direct(b)] /\ frees'[Direct(b)] = frees[Direct(b)]
  PROVE  DirectInv'
<1>1. InUse' = InUse
  BY DEF InUse, Active
<1> QED
  BY <1>1 DEF DirectInv, LentOnce

(***************************************************************************)
(* What is in the memory of a request                                      *)
(***************************************************************************)

\* The buffer part i of request r lies in has been published again, dropped or
\* written to since the call.
Excused(r, i) ==
  \E b \in Buffers : meant[r].parts[i] = Direct(b) /\ (r \in touched \/ ~LentOnce(b))

Kept(m) ==
  \A i \in DOMAIN m.parts :
    \/ content[m.parts[i]] = meant[m.request].contents[i]
    \/ m.parts[i] = Null
    \/ Excused(m.request, i)

ContentInv ==
  /\ DOMAIN meant = Requests /\ DOMAIN sent = Requests
  /\ \A r \in Requests : r > issued => sent[r] = NotSent
  /\ \A m \in Queued : meant[m.request].parts = m.parts /\ Kept(m)
  /\ SentAsMeant

\* Once excused a part stays so.
LEMMA ExcusedStays ==
  ASSUME NEW r, NEW i, Excused(r, i), meant'[r] = meant[r], touched \subseteq touched',
         \A b \in Buffers : LentOnce(b)' => LentOnce(b)
  PROVE  Excused(r, i)'
BY DEF Excused

LEMMA ContentInvInit == Init => ContentInv
BY DEF Init, ContentInv, SentAsMeant, Queued, NotSent

\* A call that queues a message, in whose blocks is what the call was given.
LEMMA ContentInvEnqueue ==
  ASSUME QueueInv, ContentInv, NEW r \in Requests, NEW parts \in PartsFor(r), NEW given,
         Enqueue(r, parts, given), UNCHANGED <<freeing, sent, touched>>,
         NEW ks \in SUBSET Malloced, Allocate(ks), \A k \in ks : k[2] = r,
         \A b \in Buffers : LentOnce(b)' => LentOnce(b),
         \A i \in DOMAIN parts : parts[i] = Null \/ content'[parts[i]] = given[i]
  PROVE  ContentInv'
<1> DEFINE new == Message(r, parts)
<1>1. /\ Active' = Active \union {new} /\ issued' = r /\ r = issued + 1
      /\ \A m \in Active : m.request < r
  BY EnqueueActive
<1>2. /\ new \in Messages /\ new.request = r /\ new.parts = parts
      /\ Active = Queued /\ Active' = Queued' /\ issued \in Nat
  BY MakesMessage DEF Message, Enqueue, Active, QueueInv, Queued
<1>3. /\ DOMAIN meant' = Requests /\ meant'[r] = [parts |-> parts, contents |-> given]
      /\ \A q \in Requests : q /= r => meant'[q] = meant[q]
  BY DEF ContentInv, Enqueue
<1>4. ASSUME NEW m \in Queued
      PROVE  meant'[m.request].parts = m.parts /\ Kept(m)'
  <2>1. m \in Messages /\ m.request \in Requests /\ m.request /= r /\ r \in Nat
    BY <1>1, <1>2, ActiveMessages, MessageShape DEF Requests
  <2>2. \A i \in DOMAIN m.parts : content'[m.parts[i]] = content[m.parts[i]]
    <3>1. \A k \in Parts(m) : k \in Blocks /\ (k \in Malloced => k[2] = m.request)
      BY <2>1, MessageBlocks DEF BlocksOf
    <3> QED
      BY <2>1, <3>1 DEF Parts, Allocate
  <2>3. meant'[m.request] = meant[m.request] /\ meant[m.request].parts = m.parts /\ Kept(m)
    BY <1>3, <2>1 DEF ContentInv
  <2>4. \A i : Excused(m.request, i) => Excused(m.request, i)'
    BY <2>3, ExcusedStays
  <2> QED
    BY <2>2, <2>3, <2>4 DEF Kept
<1>5. meant'[r].parts = parts /\ Kept(new)'
  BY <1>2, <1>3 DEF Kept
<1>6. SentAsMeant'
  <2> SUFFICES ASSUME NEW q \in Requests, sent[q] /= NotSent, NEW i \in DOMAIN sent[q]
               PROVE  sent[q][i] = meant'[q].contents[i] \/ Excused(q, i)'
    BY DEF SentAsMeant, Excused
  <2>1. q /= r
    BY <1>1, <1>2 DEF ContentInv, Requests
  <2>2. sent[q][i] = meant[q].contents[i] \/ Excused(q, i)
    BY DEF ContentInv, SentAsMeant, Excused
  <2> QED
    BY <1>3, <2>1, <2>2, ExcusedStays
<1>7. \A q \in Requests : q > issued' => sent'[q] = NotSent
  BY <1>1, <1>2 DEF ContentInv, Requests
<1> QED
  BY <1>1, <1>2, <1>3, <1>4, <1>5, <1>6, <1>7 DEF ContentInv

\* Sending takes what is in the parts; a message with a part at no address is
\* never sent.
LEMMA ContentInvSend ==
  ASSUME QueueInv, ContentInv, NEW ret \in {0, 1}, Send(ret)
  PROVE  ContentInv'
<1> DEFINE m == Head(output_queue)
<1>1. UNCHANGED <<content, issued, held, lent, meant, touched>>
  BY DEF Send, memory, history
<1>2. m \in Queued /\ Queued' \subseteq Queued
  <2>1. freeing = NoMessage /\ Active' = Active /\ m \in Active
    BY SendActive DEF Send
  <2> QED
    BY <2>1 DEF Active
<1>3. m \in Messages /\ m.request \in Requests /\ m.request <= issued
  BY <1>2, ActiveMessages, MessageShape DEF QueueInv, Active
<1>4. \A q \in Requests : \A i : Excused(q, i)' = Excused(q, i)
  BY <1>1 DEF Excused, LentOnce
<1>5. \A n \in Queued : meant'[n.request].parts = n.parts /\ Kept(n)'
  BY <1>1 DEF ContentInv, Kept, Excused, LentOnce
<1>6. CASE ret = 0
  <2>1. sent' = sent
    BY <1>6 DEF Send
  <2> QED
    BY <1>1, <1>2, <1>5, <2>1 DEF ContentInv, SentAsMeant, LentOnce
<1>7. CASE ret = 1
  <2>1. /\ sent' = [sent EXCEPT ![m.request] = [i \in DOMAIN m.parts |-> content[m.parts[i]]]]
        /\ Null \notin Parts(m)
    BY <1>7 DEF Send, Refused
  <2>2. DOMAIN sent' = Requests /\ \A q \in Requests : q /= m.request => sent'[q] = sent[q]
    BY <2>1 DEF ContentInv
  <2>3. sent'[m.request] = [i \in DOMAIN m.parts |-> content[m.parts[i]]]
    BY <1>3, <2>1 DEF ContentInv
  <2>4. SentAsMeant'
    <3> SUFFICES ASSUME NEW q \in Requests, sent'[q] /= NotSent, NEW i \in DOMAIN sent'[q]
                 PROVE  sent'[q][i] = meant[q].contents[i] \/ Excused(q, i)
      BY <1>1, <1>4 DEF SentAsMeant, Excused
    <3>1. CASE q = m.request
      <4>1. i \in DOMAIN m.parts /\ sent'[q][i] = content[m.parts[i]] /\ m.parts[i] /= Null
        BY <2>1, <2>3, <3>1 DEF Parts
      <4> QED
        BY <1>2, <3>1, <4>1 DEF ContentInv, Kept
    <3>2. CASE q /= m.request
      BY <2>2, <3>2 DEF ContentInv, SentAsMeant, Excused
    <3> QED
      BY <3>1, <3>2
  <2>5. \A q \in Requests : q > issued' => sent'[q] = NotSent
    BY <1>1, <1>3, <2>2 DEF ContentInv, QueueInv, Requests
  <2> QED
    BY <1>1, <1>2, <1>5, <2>2, <2>4, <2>5 DEF ContentInv
<1> QED
  BY <1>6, <1>7

\* What leaves the messages alone, and changes only memory that excuses them.
LEMMA ContentInvOthers ==
  ASSUME ContentInv, UNCHANGED <<output_queue, issued, meant, sent>>, touched \subseteq touched',
         \A b \in Buffers : LentOnce(b)' => LentOnce(b),
         \A m \in Queued : \A i \in DOMAIN m.parts :
           \/ content'[m.parts[i]] = content[m.parts[i]]
           \/ m.parts[i] = Null
           \/ Excused(m.request, i)'
  PROVE  ContentInv'
<1>1. Queued' = Queued
  BY DEF Queued
<1>2. \A q, i : Excused(q, i) => Excused(q, i)'
  BY ExcusedStays
<1>3. \A m \in Queued : Kept(m)'
  BY <1>2 DEF ContentInv, Kept
<1>4. SentAsMeant'
  BY <1>2 DEF ContentInv, SentAsMeant, Excused
<1> QED
  BY <1>1, <1>3, <1>4 DEF ContentInv

LEMMA ContentInvFree ==
  ASSUME QueueInv, DirectInv, ContentInv, FreeParts
  PROVE  ContentInv'
<1> DEFINE ks == BlocksOf(freeing)
<1>1. /\ freeing \in Active /\ freeing \in Messages
      /\ \A m \in Queued : m \in Active /\ m \in Messages /\ m.request /= freeing.request
  BY FreeActive, ActiveMessages DEF QueueInv, Active, FreeParts
<1>2. /\ Freed(ks) /\ UNCHANGED <<output_queue, issued, held, lent, meant, sent, touched>>
  BY DEF FreeParts, BlocksOf, history
<1>3. \A b \in Buffers : LentOnce(b)' = LentOnce(b)
  BY <1>2 DEF LentOnce
<1>4. ASSUME NEW m \in Queued, NEW i \in DOMAIN m.parts
      PROVE  \/ content'[m.parts[i]] = content[m.parts[i]]
             \/ m.parts[i] = Null
             \/ Excused(m.request, i)'
  <2> DEFINE k == m.parts[i]
  <2>1. k \in Parts(m) /\ k \in BlocksOf(m) /\ k \in Blocks
    BY <1>1, MessageBlocks DEF Parts, BlocksOf
  <2>2. CASE k \notin ks
    BY <1>2, <2>1, <2>2 DEF Freed
  <2>3. CASE k \in ks
    <3>1. k \notin Malloced /\ k /= Array
      BY <1>1, <2>1, <2>3, MessageBlocks
    <3>2. CASE k = Null
      BY <3>2
    <3>3. ASSUME NEW b \in Buffers, k = Direct(b) PROVE Excused(m.request, i)'
      <4>1. Direct(b) \in Parts(m) /\ Direct(b) \in Parts(freeing) /\ m /= freeing
        BY <1>1, <2>1, <2>3, <3>3, MessageBlocks
      <4>2. ~LentOnce(b)
        BY <1>1, <4>1 DEF DirectInv
      <4> QED
        BY <1>2, <1>3, <3>3, <4>2 DEF Excused, ContentInv
    <3> QED
      BY <2>1, <3>1, <3>2, <3>3 DEF Blocks, DirectBlocks
  <2> QED
    BY <2>2, <2>3
<1> QED
  BY <1>2, <1>3, <1>4, ContentInvOthers

LEMMA ContentInvCollect ==
  ASSUME QueueInv, ContentInv, NEW c \in Buffers, Collect(c)
  PROVE  ContentInv'
<1>1. /\ Freed({Direct(c)}) /\ held' = held \ {c}
      /\ UNCHANGED <<output_queue, issued, lent, meant, sent, touched>>
  BY DEF Collect
<1>2. ~LentOnce(c)' /\ \A b \in Buffers : LentOnce(b)' => LentOnce(b)
  BY <1>1 DEF LentOnce
<1>3. ASSUME NEW m \in Queued, NEW i \in DOMAIN m.parts
      PROVE  content'[m.parts[i]] = content[m.parts[i]] \/ Excused(m.request, i)'
  <2>1. m \in Messages /\ m.parts[i] \in Blocks
    BY ActiveMessages, MessageBlocks DEF Active, Parts, BlocksOf
  <2>2. CASE m.parts[i] = Direct(c)
    BY <1>1, <1>2, <2>2 DEF Excused, ContentInv
  <2>3. CASE m.parts[i] /= Direct(c)
    BY <1>1, <2>1, <2>3 DEF Freed
  <2> QED
    BY <2>2, <2>3
<1> QED
  BY <1>1, <1>2, <1>3, ContentInvOthers

LEMMA ContentInvWrite ==
  ASSUME QueueInv, MemoryInv, ContentInv, NEW k \in DirectBlocks \union {Array}, Write(k)
  PROVE  ContentInv'
<1>1. /\ content' = [content EXCEPT ![k] = writes + 1]
      /\ touched' = touched \union {m.request : m \in {q \in Queued : k \in Parts(q) \ {Array}}}
      /\ UNCHANGED <<output_queue, issued, held, lent, meant, sent>>
  BY DEF Write
<1>2. touched \subseteq touched' /\ \A b \in Buffers : LentOnce(b)' = LentOnce(b)
  BY <1>1 DEF LentOnce
<1>3. ASSUME NEW m \in Queued, NEW i \in DOMAIN m.parts
      PROVE  content'[m.parts[i]] = content[m.parts[i]] \/ Excused(m.request, i)'
  <2>1. m \in Messages /\ m.parts[i] \in Parts(m) /\ m.parts[i] \in Blocks /\ Array \notin Parts(m)
    BY ActiveMessages, MessageBlocks DEF Active, Parts, BlocksOf
  <2>2. CASE m.parts[i] = k
    <3>1. m.request \in touched'
      BY <1>1, <2>1, <2>2
    <3>2. PICK b \in Buffers : m.parts[i] = Direct(b)
      BY <2>1, <2>2 DEF DirectBlocks
    <3> QED
      BY <1>1, <3>1, <3>2 DEF Excused, ContentInv
  <2>3. CASE m.parts[i] /= k
    BY <1>1, <2>1, <2>3 DEF MemoryInv, MemoryType
  <2> QED
    BY <2>2, <2>3
<1> QED
  BY <1>1, <1>2, <1>3, ContentInvOthers

(***************************************************************************)
(* The invariants together                                                 *)
(***************************************************************************)

IInv == QueueInv /\ MemoryInv /\ DirectInv /\ ContentInv

LEMMA IInvInit == Init => IInv
BY QueueInvInit, MemoryInvInit, DirectInvInit, ContentInvInit DEF IInv

\* The blocks of each kind of message, and what the call put there.
LEMMA OnePart ==
  ASSUME NEW r \in Requests
  PROVE  /\ <<Header(r)>> \in PartsFor(r)
         /\ BlocksOf(Message(r, <<Header(r)>>)) = {Iov(r), Header(r)}
         /\ Parts(Message(r, <<Header(r)>>)) = {Header(r)}
BY DEF PartsFor, BlocksOf, Parts, Message

LEMMA TwoParts ==
  ASSUME NEW r, NEW k
  PROVE  /\ BlocksOf(Message(r, <<Header(r), k>>)) = {Iov(r), Header(r), k}
         /\ Parts(Message(r, <<Header(r), k>>)) = {Header(r), k}
         /\ \A i \in DOMAIN <<Header(r), k>> : i = 1 \/ i = 2
<1>1. DOMAIN <<Header(r), k>> = {1, 2}
  OBVIOUS
<1> QED
  BY <1>1 DEF BlocksOf, Parts, Message

LEMMA IInvService ==
  ASSUME IInv, NEW r \in Requests, PublishService(r)
  PROVE  IInv'
<1> DEFINE parts == <<Header(r)>>
           given == <<content[Array]>>
           ks == {Iov(r), Header(r)}
<1>1. /\ parts \in PartsFor(r) /\ Enqueue(r, parts, given) /\ Allocate(ks)
      /\ UNCHANGED <<freeing, writes, held, lent, sent, touched, lost>>
  BY OnePart DEF PublishService
<1>2. ks \subseteq Malloced /\ ks = BlocksOf(Message(r, parts)) \intersect Malloced
      /\ \A k \in ks : k[2] = r
  BY OnePart, RequestBlocks
<1>3. \A b \in Buffers : Direct(b) \notin Parts(Message(r, parts))
  BY OnePart, RequestBlocks, DirectFacts
<1>4. \A i \in DOMAIN parts : content'[parts[i]] = given[i]
  BY <1>1, RequestBlocks, BlockFacts DEF Allocate
<1>5. \A b \in Buffers : LentOnce(b)' = LentOnce(b)
  BY <1>1 DEF LentOnce
<1> QED
  BY <1>1, <1>2, <1>3, <1>4, <1>5, EnqueueActive, MemoryInvEnqueue, DirectInvEnqueue,
     ContentInvEnqueue DEF IInv

LEMMA IInvArray ==
  ASSUME IInv, NEW r \in Requests, PublishArray(r)
  PROVE  IInv'
<1> DEFINE parts == <<Header(r), Copy(r)>>
           given == <<content[Array], content[Array]>>
           ks == {Iov(r), Header(r), Copy(r)}
<1>1. /\ parts \in PartsFor(r) /\ Enqueue(r, parts, given) /\ Allocate(ks)
      /\ UNCHANGED <<freeing, writes, held, lent, sent, touched, lost>>
  BY DEF PublishArray, PartsFor
<1>2. ks \subseteq Malloced /\ ks = BlocksOf(Message(r, parts)) \intersect Malloced
      /\ \A k \in ks : k[2] = r
  BY TwoParts, RequestBlocks
<1>3. \A b \in Buffers : Direct(b) \notin Parts(Message(r, parts))
  <2>1. Parts(Message(r, parts)) = {Header(r), Copy(r)}
    BY TwoParts
  <2> QED
    BY <2>1, RequestBlocks, DirectFacts
<1>4. \A i \in DOMAIN parts : content'[parts[i]] = given[i]
  BY <1>1, TwoParts, RequestBlocks, BlockFacts DEF Allocate
<1>5. \A b \in Buffers : LentOnce(b)' = LentOnce(b)
  BY <1>1 DEF LentOnce
<1> QED
  BY <1>1, <1>2, <1>3, <1>4, <1>5, EnqueueActive, MemoryInvEnqueue, DirectInvEnqueue,
     ContentInvEnqueue DEF IInv

LEMMA IInvHeapBuffer ==
  ASSUME IInv, NEW r \in Requests, PublishHeapBuffer(r)
  PROVE  IInv'
<1> DEFINE parts == <<Header(r), Null>>
           given == <<content[Array], content[Array]>>
           ks == {Iov(r), Header(r)}
<1>1. /\ parts \in PartsFor(r) /\ Enqueue(r, parts, given) /\ Allocate(ks)
      /\ UNCHANGED <<freeing, writes, held, lent, sent, touched, lost>>
  BY DEF PublishHeapBuffer, PartsFor
<1>2. ks \subseteq Malloced /\ ks = BlocksOf(Message(r, parts)) \intersect Malloced
      /\ \A k \in ks : k[2] = r
  BY TwoParts, RequestBlocks, BlockFacts
<1>3. \A b \in Buffers : Direct(b) \notin Parts(Message(r, parts))
  <2>1. Parts(Message(r, parts)) = {Header(r), Null}
    BY TwoParts
  <2> QED
    BY <2>1, RequestBlocks, DirectFacts
<1>4. \A i \in DOMAIN parts : parts[i] = Null \/ content'[parts[i]] = given[i]
  BY <1>1, TwoParts, RequestBlocks, BlockFacts DEF Allocate
<1>5. \A b \in Buffers : LentOnce(b)' = LentOnce(b)
  BY <1>1 DEF LentOnce
<1> QED
  BY <1>1, <1>2, <1>3, <1>4, <1>5, EnqueueActive, MemoryInvEnqueue, DirectInvEnqueue,
     ContentInvEnqueue DEF IInv

LEMMA IInvDirect ==
  ASSUME IInv, NEW r \in Requests, NEW b \in Buffers, PublishDirect(r, b)
  PROVE  IInv'
<1> DEFINE parts == <<Header(r), Direct(b)>>
           given == <<content[Array], content[Direct(b)]>>
           ks == {Iov(r), Header(r)}
<1>1. /\ parts \in PartsFor(r) /\ Enqueue(r, parts, given) /\ Allocate(ks)
      /\ lent' = [lent EXCEPT ![b] = @ + 1]
      /\ UNCHANGED <<freeing, writes, held, sent, touched, lost>>
  BY DEF PublishDirect, PartsFor
<1>2. ks \subseteq Malloced /\ ks = BlocksOf(Message(r, parts)) \intersect Malloced
      /\ \A k \in ks : k[2] = r
  BY TwoParts, RequestBlocks, DirectFacts
<1>3. \A i \in DOMAIN parts : content'[parts[i]] = given[i]
  BY <1>1, TwoParts, RequestBlocks, BlockFacts, DirectFacts DEF Allocate
<1>4. \A c \in Buffers : LentOnce(c)' => LentOnce(c)
  BY <1>1 DEF LentOnce, IInv, DirectInv
<1> QED
  BY <1>1, <1>2, <1>3, <1>4, EnqueueActive, MemoryInvEnqueue, DirectInvPublish,
     ContentInvEnqueue DEF IInv

LEMMA IInvFails ==
  ASSUME IInv, NEW r \in Requests, PublishArrayFails(r)
  PROVE  IInv'
<1>1. QueueInv' /\ MemoryInv' /\ Active' = Active
  BY MemoryInvFails DEF IInv
<1>2. /\ Allocate({Copy(r)}) /\ r = issued + 1 /\ issued' = r /\ issued \in Nat
      /\ UNCHANGED <<output_queue, held, lent, meant, sent, touched>>
  BY DEF PublishArrayFails, IInv, QueueInv
<1>3. /\ frees'[Array] = frees[Array]
      /\ \A b \in Buffers : heap'[Direct(b)] = heap[Direct(b)] /\ frees'[Direct(b)] = frees[Direct(b)]
  BY <1>2, DirectFacts, RequestBlocks DEF Allocate
<1>4. DirectInv'
  BY <1>1, <1>2, <1>3, DirectInvQuiet DEF IInv
<1>5. Queued' = Queued /\ Queued \subseteq Active
  BY <1>2 DEF Queued, Active
<1>6. ASSUME NEW m \in Queued PROVE meant'[m.request].parts = m.parts /\ Kept(m)'
  <2>1. m \in Messages /\ m.request \in Requests /\ m.request <= issued
    BY <1>5, ActiveMessages, MessageShape DEF IInv, QueueInv
  <2>2. \A i \in DOMAIN m.parts : content'[m.parts[i]] = content[m.parts[i]]
    <3>1. Copy(r) \in Malloced /\ Copy(r)[2] /= m.request
      BY <1>2, <2>1, RequestBlocks DEF Requests
    <3>2. Copy(r) \notin Parts(m) /\ Parts(m) \subseteq Blocks
      BY <2>1, <3>1, MessageBlocks DEF BlocksOf
    <3> QED
      BY <1>2, <3>2 DEF Parts, Allocate
  <2> QED
    BY <1>2, <2>2 DEF IInv, ContentInv, Kept, Excused, LentOnce
<1>7. ContentInv'
  BY <1>2, <1>5, <1>6 DEF IInv, ContentInv, SentAsMeant, LentOnce, Requests
<1> QED
  BY <1>1, <1>4, <1>7 DEF IInv

LEMMA IInvWrite ==
  ASSUME IInv, NEW k \in DirectBlocks \union {Array}, Write(k)
  PROVE  IInv'
<1>1. /\ UNCHANGED <<output_queue, freeing, heap, frees, issued, held, lent, lost>>
      /\ content' = [content EXCEPT ![k] = writes + 1] /\ writes' = writes + 1
  BY DEF Write
<1>2. QueueInv' /\ Active' = Active
  BY <1>1, QuietActive DEF IInv, QueueInv
<1>3. MemoryType'
  BY <1>1, BlockFacts DEF IInv, MemoryInv, MemoryType
<1> QED
  BY <1>1, <1>2, <1>3, MemoryInvQuiet, DirectInvQuiet, ContentInvWrite DEF IInv

LEMMA IInvCollect ==
  ASSUME IInv, NEW b \in Buffers, Collect(b)
  PROVE  IInv'
<1>1. /\ UNCHANGED <<output_queue, freeing, issued, writes, lost>> /\ Freed({Direct(b)})
  BY DEF Collect
<1>2. QueueInv' /\ Active' = Active
  BY <1>1, QuietActive DEF IInv, QueueInv
<1>3. MemoryType'
  BY <1>1 DEF IInv, MemoryInv, MemoryType, Freed, Garbage
<1>4. \A k \in Malloced : heap'[k] = heap[k] /\ frees'[k] = frees[k]
  BY <1>1, BlockFacts, DirectFacts DEF Freed
<1> QED
  BY <1>1, <1>2, <1>3, <1>4, MemoryInvQuiet, DirectInvCollect, ContentInvCollect DEF IInv

LEMMA IInvSend ==
  ASSUME IInv, NEW ret \in {0, 1}, Send(ret)
  PROVE  IInv'
<1>1. UNCHANGED <<heap, content, frees, issued, writes, held, lent, lost>>
  BY DEF Send, memory, history
<1>2. QueueInv' /\ Active' = Active
  BY SendActive DEF IInv
<1>3. MemoryType'
  BY <1>1 DEF IInv, MemoryInv, MemoryType
<1> QED
  BY <1>1, <1>2, <1>3, MemoryInvQuiet, DirectInvQuiet, ContentInvSend DEF IInv

LEMMA IInvFree ==
  ASSUME IInv, FreeParts
  PROVE  IInv'
BY FreeActive, MemoryInvFree, DirectInvFree, ContentInvFree DEF IInv

LEMMA IInvNext == IInv /\ [Next]_vars => IInv'
<1> SUFFICES ASSUME IInv, [Next]_vars PROVE IInv'
  OBVIOUS
<1>1. ASSUME NEW r \in Requests, Publish(r) PROVE IInv'
  BY <1>1, IInvService, IInvArray, IInvFails, IInvDirect, IInvHeapBuffer DEF Publish
<1>2. CASE Write(Array)
  BY <1>2, IInvWrite
<1>3. ASSUME NEW b \in Buffers, Write(Direct(b)) PROVE IInv'
  BY <1>3, IInvWrite DEF DirectBlocks
<1>4. ASSUME NEW b \in Buffers, Collect(b) PROVE IInv'
  BY <1>4, IInvCollect
<1>5. ASSUME NEW ret \in {0, 1}, Send(ret) PROVE IInv'
  BY <1>5, IInvSend
<1>6. CASE FreeParts
  BY <1>6, IInvFree
<1>7. CASE UNCHANGED vars
  BY <1>7 DEF vars, memory, history, IInv, QueueInv, MemoryInv, MemoryType, DirectInv, ContentInv,
     Active, Queued, InUse, LentOnce, Kept, Excused, SentAsMeant
<1> QED
  BY <1>1, <1>2, <1>3, <1>4, <1>5, <1>6, <1>7 DEF Next

LEMMA IInvHolds == Spec => []IInv
BY IInvInit, IInvNext, PTL DEF Spec

\* What the library allocates for a request is freed once, after it has been
\* sent; only a copy for which there were no iovecs never is.
THEOREM RequestMemoryIsFreedOnce == Spec => []RequestMemoryFreedOnce
<1>1. IInv => RequestMemoryFreedOnce
  BY DEF IInv, MemoryInv, RequestMemoryFreedOnce
<1> QED
  BY <1>1, IInvHolds, PTL

\* The library frees foreign memory only where it was published as a direct
\* buffer, and a buffer that is published once and kept is live while queued.
THEOREM ForeignMemoryStaysLive == Spec => []ForeignMemoryIsLive
<1>1. IInv => ForeignMemoryIsLive
  BY DEF IInv, DirectInv, ForeignMemoryIsLive
<1> QED
  BY <1>1, IInvHolds, PTL

\* The node gets what the caller meant, but for direct buffers that were used
\* again, dropped or published twice.
THEOREM DataIsSentAsMeant == Spec => []SentAsMeant
<1>1. IInv => SentAsMeant
  BY DEF IInv, ContentInv
<1> QED
  BY <1>1, IInvHolds, PTL
=============================================================================
